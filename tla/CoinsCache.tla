----------------------------- MODULE CoinsCache -----------------------------
(***************************************************************************)
(* The coin views of a running node (coins.cpp, txdb.cpp, init.cpp): the   *)
(* database, the cache pcoinsTip on top of it, and the short-lived cache   *)
(* in which ConnectBlock or DisconnectBlock prepares one block.  All of    *)
(* them are used under cs_main.  One action per operation on a view; the   *)
(* order in which a block uses them is left open here, but for what the    *)
(* callers have to see to.  ModifyNewCoins marks an entry FRESH without a  *)
(* look at the view below, and coins.cpp checks nothing: an entry that is  *)
(* erased for the flag (VanishesSafely), and every one of a view that is   *)
(* flushed (FreshView), must have nothing below it.  Then the caches       *)
(* implement the maps of module CoinsMap; module BlockCoins is the caller. *)
(***************************************************************************)
EXTENDS Coins

VARIABLES db,         \* chainstate: the coins of each transaction, or NoCoins
          cacheTip,   \* pcoinsTip->cacheCoins
          cacheView,  \* cacheCoins of the view on top of pcoinsTip
          open,       \* whether there is such a view
          op          \* the operation last called that is not just a lookup

vars == <<db, cacheTip, cacheView, open, op>>

SomeCoins == NewCoins \cup {Cleared}
SomeCache == [Tx -> [coins : SomeCoins, flags : SUBSET Flags] \cup {NoEntry}]

Init ==
  /\ db = [t \in Tx |-> NoCoins]
  /\ cacheTip = EmptyCache /\ cacheView = EmptyCache
  /\ open = FALSE
  /\ op = <<"Start">>

TipCoins(t) == GetCoins(cacheTip, db[t], t)
ViewCoins(t) == GetCoins(cacheView, TipCoins(t), t)

(* CCoinsViewCache view(pcoinsTip). *)
OpenView ==
  /\ op' = <<"Open">>
  /\ ~open /\ open' = TRUE
  /\ UNCHANGED <<db, cacheTip, cacheView>>

(* A lookup through the view also leaves a copy in pcoinsTip.              *)
Pulled(t) == IF cacheView[t] = NoEntry THEN FetchCoins(cacheTip, db[t], t)
             ELSE cacheTip

AccessCoins(t) ==
  /\ open
  /\ cacheTip' = Pulled(t)
  /\ cacheView' = FetchCoins(cacheView, TipCoins(t), t)
  /\ UNCHANGED <<db, open, op>>

Modify(t, coins) ==
  /\ open
  /\ cacheTip' = Pulled(t)
  /\ cacheView' = ModifyCoins(cacheView, TipCoins(t), t, coins)
  /\ UNCHANGED <<db, open>>

Viewed(t) == ToModify(cacheView, TipCoins(t), t)

(* An input in UpdateCoins: the output was found available by HaveInputs.  *)
SpendOutput(t, n) ==
  /\ op' = <<"Spend", t, n>>
  /\ n \in Viewed(t).vout
  /\ Modify(t, Spent(Viewed(t), n))

(* The outputs of a transaction in UpdateCoins.  The entry is marked FRESH *)
(* whatever is below, unless the transaction is a coinbase.                *)
NewTransaction(t, coinbase, coins) ==
  /\ op' = <<"Create", t, coins>>
  /\ open
  /\ cacheView' = ModifyNewCoins(cacheView, t, coinbase, coins)
  /\ UNCHANGED <<db, cacheTip, open>>

(* DisconnectBlock takes the outputs of a transaction away.                *)
RemoveTransaction(t) == op' = <<"Remove", t>> /\ Modify(t, Cleared)

(* ApplyTxInUndo.  Undo data that does not fit makes DisconnectBlock fail, *)
(* which ends in DiscardView.                                              *)
RestoreOutput(t, n, nHeight) ==
  /\ op' = <<"Restore", t, n, nHeight>>
  /\ CleanUndo(Viewed(t), n, nHeight)
  /\ Modify(t, Restored(Viewed(t), n, nHeight))

(* view.Flush(), at the end of ConnectTip and DisconnectTip.               *)
FlushView ==
  /\ op' = <<"Commit">>
  /\ open /\ open' = FALSE
  /\ cacheTip' = BatchWrite(cacheTip, cacheView)
  /\ cacheView' = EmptyCache
  /\ UNCHANGED db

(* ConnectBlock or DisconnectBlock failed and the view is destroyed.       *)
DiscardView ==
  /\ op' = <<"Discard">>
  /\ open /\ open' = FALSE
  /\ cacheView' = EmptyCache
  /\ UNCHANGED <<db, cacheTip>>

(* AcceptToMemoryPool and RPCs read pcoinsTip, and a refused transaction   *)
(* takes the inputs it pulled out again.                                   *)
ReadTip(t) ==
  /\ ~open
  /\ cacheTip' = FetchCoins(cacheTip, db[t], t)
  /\ UNCHANGED <<db, cacheView, open, op>>
UncacheTip(t) ==
  /\ ~open
  /\ cacheTip' = Uncache(cacheTip, t)
  /\ UNCHANGED <<db, cacheView, open, op>>

(* pcoinsTip->Flush(), in FlushStateToDisk.                                *)
FlushTip ==
  /\ op' = <<"Persist">>
  /\ ~open
  /\ db' = DBBatchWrite(db, cacheTip)
  /\ cacheTip' = EmptyCache
  /\ UNCHANGED <<cacheView, open>>

(* The process ends; it starts again with what the database holds.         *)
Crash ==
  /\ op' = <<"Start">>
  /\ cacheTip' = EmptyCache /\ cacheView' = EmptyCache
  /\ open' = FALSE
  /\ UNCHANGED db

(* An entry of the view marked FRESH has nothing below it.                 *)
FreshView ==
  \A t \in Tx : cacheView[t] /= NoEntry /\ "FRESH" \in cacheView[t].flags
                 => Available(TipCoins(t)) = {}

(* A change erases the entry of t only if there is nothing below it.       *)
VanishesSafely(t) == cacheView'[t] = NoEntry => Available(TipCoins(t)) = {}

ChangeView ==
  \E t \in Tx :
    /\ \/ \E n \in Outputs : SpendOutput(t, n)
       \/ \E coinbase \in BOOLEAN, coins \in NewCoins :
            NewTransaction(t, coinbase, coins)
       \/ RemoveTransaction(t)
       \/ \E n \in Outputs, h \in Heights \cup {0} : RestoreOutput(t, n, h)
    /\ VanishesSafely(t)

Next ==
  \/ OpenView \/ (FreshView /\ FlushView) \/ DiscardView \/ FlushTip \/ Crash
  \/ ChangeView
  \/ \E t \in Tx : AccessCoins(t) \/ ReadTip(t) \/ UncacheTip(t)

Spec == Init /\ [][Next]_vars
-----------------------------------------------------------------------------
(* The type of the state; the database holds no transaction with all its   *)
(* outputs spent, and there are no entries in a view that is closed.       *)
TypeOK ==
  /\ db \in [Tx -> {c \in SomeCoins : ~IsPruned(c)} \cup {NoCoins}]
  /\ cacheTip \in SomeCache /\ cacheView \in SomeCache
  /\ open \in BOOLEAN
  /\ ~open => cacheView = EmptyCache

(* FRESH is only set in pcoinsTip on a transaction that the database does  *)
(* not have, as the comment on the flag says: such an entry may be erased  *)
(* instead of written.                                                     *)
FreshTip ==
  \A t \in Tx :
    cacheTip[t] /= NoEntry /\ "FRESH" \in cacheTip[t].flags => db[t] = NoCoins

(* An entry without DIRTY equals what the view below returns, so that      *)
(* dropping it (Uncache, BatchWrite) loses nothing.                        *)
CleanIsCopy ==
  \A t \in Tx :
    /\ cacheTip[t] /= NoEntry /\ "DIRTY" \notin cacheTip[t].flags
         => db[t] = cacheTip[t].coins
    /\ cacheView[t] /= NoEntry /\ "DIRTY" \notin cacheView[t].flags
         => TipCoins(t) = cacheView[t].coins

Map == INSTANCE CoinsMap WITH
  db <- [t \in Tx |-> Meaning(db[t])],
  tip <- [t \in Tx |-> Meaning(TipCoins(t))],
  view <- [t \in Tx |-> Meaning(ViewCoins(t))]

(* The caches implement plain maps: whatever is read, modified, flushed,   *)
(* discarded or uncached, in any order, a lookup finds what was last       *)
(* written, and a crash leaves the state of the last flush.                *)
ImplementsMap == Map!Spec
=============================================================================
