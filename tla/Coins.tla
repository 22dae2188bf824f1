------------------------------- MODULE Coins -------------------------------
(***************************************************************************)
(* The coins of a transaction (CCoins) and the caches of them              *)
(* (CCoinsViewCache) as values: what each operation of coins.cpp makes of  *)
(* a cache.  A cache maps every transaction to an entry or to NoEntry; the *)
(* view below it is represented by what its GetCoins returns, coins or     *)
(* NoCoins.                                                                *)
(*                                                                         *)
(* vout is the set of the outputs that are not spent: Cleanup drops the    *)
(* null outputs at the end of the vector, so the vector is empty exactly   *)
(* when this set is.  nHeight stands for all the data that CCoins keeps    *)
(* once per transaction (height, version, time, coinbase, coinstake).      *)
(* Not represented: cachedCoinsUsage and hasModifier.                      *)
(***************************************************************************)
EXTENDS Naturals

CONSTANTS Tx,        \* transaction ids
          NoCoins,   \* GetCoins returns false
          NoEntry,   \* cacheCoins.find(txid) == cacheCoins.end()
          Outputs,   \* output numbers
          Heights    \* heights of the blocks that hold transactions

Coin == [vout : SUBSET Nat, nHeight : Nat]
NewCoins == [vout : SUBSET Outputs, nHeight : Heights]
IsPruned(coins) == coins.vout = {}

(* CCoins::Clear. *)
Cleared == [vout |-> {}, nHeight |-> 0]

(* CCoins::Spend. *)
Spent(coins, n) == [coins EXCEPT !.vout = @ \ {n}]

(* What ApplyTxInUndo makes of coins.  Undo data with a height is that of  *)
(* the last output spent, which brings back the transaction itself.        *)
Restored(coins, n, nHeight) ==
  IF nHeight /= 0 THEN [vout |-> {n}, nHeight |-> nHeight]
  ELSE [coins EXCEPT !.vout = @ \cup {n}]

(* The undo data fits the coins (fClean of ApplyTxInUndo).                 *)
CleanUndo(coins, n, nHeight) ==
  /\ nHeight /= 0 <=> IsPruned(coins)
  /\ n \notin coins.vout

(* struct CCoinsCacheEntry. *)
Flags == {"DIRTY", "FRESH"}
Entry == [coins : Coin, flags : SUBSET Flags]

ASSUME CoinsAssumption ==
  /\ Outputs \subseteq Nat
  /\ Heights \subseteq Nat \ {0}
  /\ NoCoins \notin Coin
  /\ NoEntry \notin Entry

EmptyCache == [t \in Tx |-> NoEntry]

(* What GetCoins returns: the entry, or else what the view below returns.  *)
GetCoins(cache, base, t) == IF cache[t] = NoEntry THEN base ELSE cache[t].coins

(* GetCoins of a missing transaction counts as one with no output left.    *)
Available(coins) == IF coins = NoCoins THEN {} ELSE coins.vout

(* What a lookup means: coins with no output left are as good as none.     *)
Meaning(coins) == IF Available(coins) = {} THEN NoCoins ELSE coins

FreshIfPruned(base) == IF Available(base) = {} THEN {"FRESH"} ELSE {}

(* FetchCoins: reading an entry copies it from the view below.             *)
FetchCoins(cache, base, t) ==
  IF cache[t] /= NoEntry \/ base = NoCoins THEN cache
  ELSE [cache EXCEPT ![t] = [coins |-> base, flags |-> FreshIfPruned(base)]]

(* Mutated form of Stored: a pruned entry is erased, fresh or not.         *)
ErasesPruned(cache, t, coins, flags) ==
  [cache EXCEPT ![t] = IF IsPruned(coins) THEN NoEntry
                       ELSE [coins |-> coins, flags |-> flags]]

(* ~CCoinsModifier: a pruned entry that the view below has not is erased.  *)
Stored(cache, t, coins, flags) ==
  [cache EXCEPT ![t] = IF "FRESH" \in flags /\ IsPruned(coins) THEN NoEntry
                       ELSE [coins |-> coins, flags |-> flags]]

(* Mutated form of ModifiedFlags: an entry is fresh whenever it is new.    *)
NewIsFresh(cache, base, t) ==
  {"DIRTY"} \cup (IF cache[t] = NoEntry THEN {"FRESH"} ELSE cache[t].flags)

(* The flags ModifyCoins leaves on an entry.                               *)
ModifiedFlags(cache, base, t) ==
  {"DIRTY"} \cup (IF cache[t] = NoEntry THEN FreshIfPruned(base)
                  ELSE cache[t].flags)

(* The coins a CCoinsModifier starts from.                                 *)
ToModify(cache, base, t) ==
  IF GetCoins(cache, base, t) = NoCoins THEN Cleared
  ELSE GetCoins(cache, base, t)

(* ModifyCoins, then an assignment of coins through the modifier.          *)
ModifyCoins(cache, base, t, coins) ==
  Stored(cache, t, coins, ModifiedFlags(cache, base, t))

(* ModifyNewCoins: the entry is not looked up below.                       *)
ModifyNewCoins(cache, t, coinbase, coins) ==
  Stored(cache, t, coins,
         {"DIRTY"} \cup (IF ~coinbase THEN {"FRESH"}
                         ELSE IF cache[t] = NoEntry THEN {} ELSE cache[t].flags))

Dirty(child, t) == child[t] /= NoEntry /\ "DIRTY" \in child[t].flags

(* Mutated form of Merged: the parent's entry is not marked.               *)
NotMarked(old, new) ==
  IF old = NoEntry THEN new
  ELSE IF "FRESH" \in old.flags /\ IsPruned(new.coins) THEN NoEntry
       ELSE [coins |-> new.coins, flags |-> old.flags]

(* BatchWrite into a cache: what becomes of the parent's entry old when    *)
(* the child's entry new is dirty.                                         *)
Merged(old, new) ==
  IF old = NoEntry
  THEN IF "FRESH" \in new.flags /\ IsPruned(new.coins) THEN NoEntry
       ELSE [coins |-> new.coins, flags |-> {"DIRTY"} \cup (new.flags \cap {"FRESH"})]
  ELSE IF "FRESH" \in old.flags /\ IsPruned(new.coins) THEN NoEntry
       ELSE [coins |-> new.coins, flags |-> old.flags \cup {"DIRTY"}]

BatchWrite(parent, child) ==
  [t \in Tx |-> IF Dirty(child, t) THEN Merged(parent[t], child[t]) ELSE parent[t]]

(* BatchWrite into the database, which stores no pruned coins.             *)
DBBatchWrite(db, child) ==
  [t \in Tx |-> IF ~Dirty(child, t) THEN db[t]
                ELSE IF IsPruned(child[t].coins) THEN NoCoins
                ELSE child[t].coins]

(* Uncache. *)
Uncache(cache, t) ==
  IF cache[t] /= NoEntry /\ cache[t].flags = {}
  THEN [cache EXCEPT ![t] = NoEntry] ELSE cache
=============================================================================
