-------------------------- MODULE BlockCoinsProofs --------------------------
(***************************************************************************)
(* The coin caches, and that blocks are connected, disconnected and        *)
(* verified call by call, for any blocks and any transactions.             *)
(*                                                                         *)
(* IInv is the invariant of the caches.  An entry that is not DIRTY is a   *)
(* copy of what is below (CopyOK), and what a FRESH entry of pcoinsTip     *)
(* hides is not in the database (FreshOK), so that a spent entry may       *)
(* vanish and a clean one be dropped.  For the view this is FreshView,     *)
(* which is not part of IInv: ModifyNewCoins marks entries FRESH without a *)
(* look, which is wrong in the view in which VerifyDB connects blocks      *)
(* again.  What every operation then needs of its caller, and what         *)
(* ChangeView and FlushView of CoinsCache ask for, is that no entry        *)
(* vanishes under which something is left (VanishesSafely) and that no     *)
(* view with a wrong flag is flushed.  Under it every operation is a step  *)
(* of the plain maps of CoinsMap.                                          *)
(*                                                                         *)
(* BlockInv says where a call in progress can be (JobType), that the undo  *)
(* data it has collected is that of the inputs spent so far (VtxundoType), *)
(* and that blocks have undo data from the tip down (OnTip).               *)
(***************************************************************************)
EXTENDS BlockCoins, TLAPS

(* A leaf is tried with the SMT solver, once more with more time, and with *)
(* Zenon.                                                                  *)
USE SMT, SMTT(20), Zenon

(* The inputs of the i-th transaction of a block.                          *)
InputCount(b, i) == Len(vin[vtx[b][i]])
InputAt(b, i, j) == vin[vtx[b][i]][j]

SomeEntry == [coins : SomeCoins, flags : SUBSET Flags] \cup {NoEntry}
Below == SomeCoins \cup {NoCoins}

FreshOK(e, base) == e /= NoEntry => ("FRESH" \in e.flags => Available(base) = {})
CopyOK(e, base) == e /= NoEntry => ("DIRTY" \notin e.flags => base = e.coins)
EntryOK(e, base) == FreshOK(e, base) /\ CopyOK(e, base)

(* The inductive invariant: what the flags say, one transaction at a time. *)
IInv ==
  /\ TypeOK
  /\ \A t \in Tx : EntryOK(cacheTip[t], db[t]) /\ CopyOK(cacheView[t], TipCoins(t))

(* No coins are NoCoins and no entry is NoEntry.                           *)
LEMMA Distinct ==
  /\ NoCoins \notin SomeCoins
  /\ NoEntry \notin [coins : SomeCoins, flags : SUBSET Flags]
  /\ Cleared \in SomeCoins
<1>1. SomeCoins \subseteq Coin
  <2>1. NewCoins \subseteq Coin
    BY CoinsAssumption, ZenonT(30) DEF NewCoins, Coin
  <2> QED BY <2>1 DEF SomeCoins, Cleared, Coin
<1> QED BY <1>1, CoinsAssumption DEF SomeCoins, Entry

(* The coins in an entry are coins.                                        *)
LEMMA LookupType ==
  ASSUME NEW cache \in SomeCache, NEW t \in Tx, NEW base \in Below
  PROVE  GetCoins(cache, base, t) \in Below
BY Distinct DEF SomeCache, GetCoins, Below

(* Reading an entry (FetchCoins) changes no lookup.                        *)
LEMMA FetchOK ==
  ASSUME NEW cache \in SomeCache, NEW t \in Tx, NEW base \in Below,
         CopyOK(cache[t], base)
  PROVE  LET c == FetchCoins(cache, base, t)
         IN  /\ c \in SomeCache
             /\ \A u \in Tx : u /= t => c[u] = cache[u]
             /\ CopyOK(c[t], base)
             /\ FreshOK(cache[t], base) => FreshOK(c[t], base)
             /\ GetCoins(c, base, t) = GetCoins(cache, base, t)
<1>1. CASE cache[t] /= NoEntry \/ base = NoCoins
  BY <1>1 DEF FetchCoins
<1>2. CASE cache[t] = NoEntry /\ base /= NoCoins
  <2> DEFINE e == [coins |-> base, flags |-> FreshIfPruned(base)]
  <2>1. e \in [coins : SomeCoins, flags : SUBSET Flags]
    BY <1>2 DEF Below, FreshIfPruned, Flags
  <2>2. FetchCoins(cache, base, t) = [cache EXCEPT ![t] = e]
    BY <1>2 DEF FetchCoins
  <2>3. e /= NoEntry /\ e.coins = base /\ CopyOK(e, base) /\ FreshOK(e, base)
    BY <2>1, Distinct DEF CopyOK, FreshOK, FreshIfPruned
  <2> HIDE DEF e
  <2> QED BY <1>2, <2>1, <2>2, <2>3 DEF SomeCache, GetCoins
<1> QED BY <1>1, <1>2

(* What ~CCoinsModifier stores is found again, unless it is erased from a  *)
(* place that has something below.                                         *)
LEMMA StoredOK ==
  ASSUME NEW cache \in SomeCache, NEW t \in Tx, NEW base \in Below,
         NEW coins \in SomeCoins, NEW flags \in SUBSET Flags, "DIRTY" \in flags,
         Stored(cache, t, coins, flags)[t] = NoEntry => Available(base) = {}
  PROVE  LET c == Stored(cache, t, coins, flags)
         IN  /\ c \in SomeCache
             /\ \A u \in Tx : u /= t => c[u] = cache[u]
             /\ CopyOK(c[t], base)
             /\ ("FRESH" \in flags => Available(base) = {}) => FreshOK(c[t], base)
             /\ Meaning(GetCoins(c, base, t)) = Meaning(coins)
<1> DEFINE e == [coins |-> coins, flags |-> flags]
<1>1. e \in [coins : SomeCoins, flags : SUBSET Flags]
  OBVIOUS
<1>2. /\ e /= NoEntry /\ e.coins = coins /\ CopyOK(e, base)
      /\ ("FRESH" \in flags => Available(base) = {}) => FreshOK(e, base)
  BY <1>1, Distinct DEF CopyOK, FreshOK
<1>3. CASE "FRESH" \in flags /\ IsPruned(coins)
  BY <1>3, Distinct DEF Stored, SomeCache, Meaning, Available, IsPruned, GetCoins, CopyOK, FreshOK
<1>4. CASE ~("FRESH" \in flags /\ IsPruned(coins))
  <2>1. Stored(cache, t, coins, flags) = [cache EXCEPT ![t] = e]
    BY <1>4, ZenonT(30) DEF Stored
  <2> HIDE DEF e
  <2> QED BY <1>1, <1>2, <2>1 DEF SomeCache, GetCoins
<1> QED BY <1>3, <1>4

(* An entry that ~CCoinsModifier erases was marked FRESH.                  *)
LEMMA ErasedFresh ==
  ASSUME NEW cache \in SomeCache, NEW t \in Tx, NEW coins \in SomeCoins,
         NEW flags \in SUBSET Flags, Stored(cache, t, coins, flags)[t] = NoEntry
  PROVE  "FRESH" \in flags /\ IsPruned(coins)
<1> DEFINE e == [coins |-> coins, flags |-> flags]
<1>1. e /= NoEntry
  BY Distinct
<1>2. ASSUME ~("FRESH" \in flags /\ IsPruned(coins)) PROVE FALSE
  <2>1. Stored(cache, t, coins, flags) = [cache EXCEPT ![t] = e]
    BY <1>2, ZenonT(30) DEF Stored
  <2> HIDE DEF e
  <2> QED BY <1>1, <2>1 DEF SomeCache
<1> QED BY <1>2

(* ModifyCoins sets the right flags.                                       *)
LEMMA ModifiedFlagsOK ==
  ASSUME NEW cache \in SomeCache, NEW t \in Tx, NEW base \in Below
  PROVE  LET flags == ModifiedFlags(cache, base, t)
         IN  /\ flags \in SUBSET Flags /\ "DIRTY" \in flags
             /\ FreshOK(cache[t], base) => ("FRESH" \in flags => Available(base) = {})
BY DEF ModifiedFlags, FreshIfPruned, Flags, SomeCache, FreshOK

(* While no entry is marked FRESH wrongly, ModifyCoins erases none with    *)
(* something below.                                                        *)
LEMMA ModifySafe ==
  ASSUME NEW cache \in SomeCache, NEW t \in Tx, NEW base \in Below,
         NEW coins \in SomeCoins, FreshOK(cache[t], base),
         ModifyCoins(cache, base, t, coins)[t] = NoEntry
  PROVE  Available(base) = {}
<1> DEFINE flags == ModifiedFlags(cache, base, t)
<1> HIDE DEF flags
<1> QED BY ErasedFresh, ModifiedFlagsOK DEF ModifyCoins, flags

(* The flags of ModifyNewCoins.                                            *)
NewFlags(cache, t, coinbase) ==
  {"DIRTY"} \cup (IF ~coinbase THEN {"FRESH"}
                  ELSE IF cache[t] = NoEntry THEN {} ELSE cache[t].flags)

LEMMA NewFlagsOK ==
  ASSUME NEW cache \in SomeCache, NEW t \in Tx, NEW base, NEW coinbase \in BOOLEAN
  PROVE  LET flags == NewFlags(cache, t, coinbase)
         IN  /\ flags \in SUBSET Flags /\ "DIRTY" \in flags
             /\ FreshOK(cache[t], base) /\ (coinbase \/ Available(base) = {})
                  => ("FRESH" \in flags => Available(base) = {})
<1>1. CASE ~coinbase
  BY <1>1 DEF NewFlags, Flags
<1>2. CASE coinbase /\ cache[t] = NoEntry
  BY <1>2 DEF NewFlags, Flags
<1>3. CASE coinbase /\ cache[t] /= NoEntry
  BY <1>3 DEF NewFlags, Flags, FreshOK, SomeCache
<1> QED BY <1>1, <1>2, <1>3

(* Uncache only takes copies out.                                          *)
LEMMA UncacheOK ==
  ASSUME NEW cache \in SomeCache, NEW t \in Tx, NEW base \in Below,
         EntryOK(cache[t], base)
  PROVE  LET c == Uncache(cache, t)
         IN  /\ c \in SomeCache
             /\ \A u \in Tx : u /= t => c[u] = cache[u]
             /\ EntryOK(c[t], base)
             /\ GetCoins(c, base, t) = GetCoins(cache, base, t)
<1>1. CASE cache[t] /= NoEntry /\ cache[t].flags = {}
  BY <1>1 DEF Uncache, EntryOK, FreshOK, CopyOK, SomeCache, GetCoins
<1>2. CASE ~(cache[t] /= NoEntry /\ cache[t].flags = {})
  BY <1>2 DEF Uncache
<1> QED BY <1>1, <1>2

-----------------------------------------------------------------------------
(* The maps that the caches stand for.                                     *)
DbMap == [t \in Tx |-> Meaning(db[t])]
TipMap == [t \in Tx |-> Meaning(TipCoins(t))]
ViewMap == [t \in Tx |-> Meaning(ViewCoins(t))]

(* A write of coins to the view, in terms of these maps.                   *)
Wrote(t, coins) ==
  ViewMap' = [ViewMap EXCEPT ![t] = Meaning(coins)] /\ TipMap' = TipMap /\ DbMap' = DbMap

(* What the invariant says, in the form the steps use it.                  *)
LEMMA Facts ==
  ASSUME IInv
  PROVE  /\ cacheTip \in SomeCache /\ cacheView \in SomeCache
         /\ open \in BOOLEAN /\ (~open => cacheView = EmptyCache)
         /\ \A t \in Tx : /\ db[t] \in Below
                          /\ db[t] \in {c \in SomeCoins : ~IsPruned(c)} \cup {NoCoins}
                          /\ TipCoins(t) \in Below /\ ViewCoins(t) \in Below
                          /\ EntryOK(cacheTip[t], db[t])
                          /\ CopyOK(cacheView[t], TipCoins(t))
                          /\ FreshView => EntryOK(cacheView[t], TipCoins(t))
<1>1. TypeOK
  BY DEF IInv
<1>2. ASSUME NEW t \in Tx
      PROVE  /\ db[t] \in Below
             /\ db[t] \in {c \in SomeCoins : ~IsPruned(c)} \cup {NoCoins}
  BY <1>1 DEF TypeOK, Below
<1>3. ASSUME NEW t \in Tx
      PROVE  TipCoins(t) \in Below /\ ViewCoins(t) \in Below
  BY <1>1, <1>2, LookupType DEF TypeOK, TipCoins, ViewCoins
<1> QED BY <1>1, <1>2, <1>3 DEF TypeOK, IInv, FreshView, EntryOK, FreshOK

(* A closed view shows the tip.                                            *)
LEMMA ClosedView ==
  ASSUME cacheView = EmptyCache
  PROVE  \A t \in Tx : cacheView[t] = NoEntry /\ ViewCoins(t) = TipCoins(t)
BY ZenonT(30) DEF EmptyCache, ViewCoins, GetCoins

(* A lookup that goes through pcoinsTip changes no lookup.                 *)
LEMMA PullOK ==
  ASSUME IInv, NEW t \in Tx, db' = db,
         cacheTip' = FetchCoins(cacheTip, db[t], t) \/ cacheTip' = cacheTip
  PROVE  /\ cacheTip' \in SomeCache
         /\ \A u \in Tx : EntryOK(cacheTip'[u], db'[u])
         /\ \A u \in Tx : TipCoins(u)' = TipCoins(u)
<1>1. CASE cacheTip' = cacheTip
  BY <1>1, Facts DEF TipCoins, GetCoins
<1>2. CASE cacheTip' = FetchCoins(cacheTip, db[t], t)
  <2>1. /\ cacheTip' \in SomeCache
        /\ \A u \in Tx : u /= t => cacheTip'[u] = cacheTip[u]
        /\ EntryOK(cacheTip'[t], db[t])
        /\ GetCoins(cacheTip', db[t], t) = GetCoins(cacheTip, db[t], t)
    BY <1>2, Facts, FetchOK DEF EntryOK
  <2>2. ASSUME NEW u \in Tx, u /= t
        PROVE  EntryOK(cacheTip'[u], db'[u]) /\ TipCoins(u)' = TipCoins(u)
    BY <2>1, <2>2, Facts DEF TipCoins, GetCoins
  <2> QED BY <2>1, <2>2 DEF TipCoins
<1> QED BY <1>1, <1>2

(* Changing one entry of the view and nothing that pcoinsTip returns is    *)
(* the Write of the abstract specification.                                *)
LEMMA WriteOK ==
  ASSUME IInv, NEW t \in Tx, NEW coins \in SomeCoins,
         open, UNCHANGED <<db, open>>,
         cacheTip' \in SomeCache, cacheView' \in SomeCache,
         \A u \in Tx : EntryOK(cacheTip'[u], db'[u]),
         \A u \in Tx : TipCoins(u)' = TipCoins(u),
         \A u \in Tx : u /= t => cacheView'[u] = cacheView[u],
         CopyOK(cacheView'[t], TipCoins(t)),
         Meaning(GetCoins(cacheView', TipCoins(t), t)) = Meaning(coins)
  PROVE  /\ IInv' /\ Map!Write(t, coins) /\ Wrote(t, coins)
         /\ FreshView /\ FreshOK(cacheView'[t], TipCoins(t)) => FreshView'
<1>2. ASSUME NEW u \in Tx
      PROVE  EntryOK(cacheTip'[u], db'[u]) /\ CopyOK(cacheView'[u], TipCoins(u)')
  BY Facts
<1>3. IInv'
  BY <1>2 DEF IInv, TypeOK
<1>4. ASSUME NEW u \in Tx, u /= t
      PROVE  Meaning(ViewCoins(u)') = Meaning(ViewCoins(u))
  BY <1>4 DEF ViewCoins, GetCoins
<1>5. Meaning(ViewCoins(t)') = Meaning(coins)
  BY DEF ViewCoins
<1>6. ViewMap' = [ViewMap EXCEPT ![t] = Meaning(coins)]
  BY <1>4, <1>5, ZenonT(30) DEF ViewMap
<1>7. TipMap' = TipMap /\ DbMap' = DbMap
  BY DEF TipMap, DbMap
<1>9. Wrote(t, coins)
  BY <1>6, <1>7 DEF Wrote
<1> QED BY <1>3, <1>6, <1>7, <1>9 DEF Map!Write, ViewMap, TipMap, DbMap, Map!Meaning, Meaning,
     Map!Available, Available, FreshView, FreshOK

(* ModifyCoins on the view.                                                *)
LEMMA ModifyStep ==
  \A t \in Tx, coins \in SomeCoins :
    IInv /\ Modify(t, coins) /\ VanishesSafely(t)
      => IInv' /\ Map!Write(t, coins) /\ Wrote(t, coins) /\ (FreshView => FreshView')
<1>ModifyOK. ASSUME NEW cache \in SomeCache, NEW t \in Tx, NEW base \in Below,
                    NEW coins \in SomeCoins,
                    ModifyCoins(cache, base, t, coins)[t] = NoEntry => Available(base) = {}
             PROVE  LET c == ModifyCoins(cache, base, t, coins)
                    IN  /\ c \in SomeCache
                        /\ \A u \in Tx : u /= t => c[u] = cache[u]
                        /\ CopyOK(c[t], base)
                        /\ FreshOK(cache[t], base) => FreshOK(c[t], base)
                        /\ Meaning(GetCoins(c, base, t)) = Meaning(coins)
  <2> USE <1>ModifyOK
  <2> DEFINE flags == ModifiedFlags(cache, base, t)
  <2> HIDE DEF flags
  <2> QED BY StoredOK, ModifiedFlagsOK DEF ModifyCoins, flags
<1> SUFFICES ASSUME IInv, NEW t \in Tx, NEW coins \in SomeCoins, Modify(t, coins),
                    VanishesSafely(t)
             PROVE  /\ IInv' /\ Map!Write(t, coins) /\ Wrote(t, coins)
                    /\ FreshView => FreshView'
  OBVIOUS
<1>4. FreshView => FreshOK(cacheView[t], TipCoins(t))
  BY DEF FreshView, FreshOK
<1> QED BY <1>ModifyOK, <1>4, WriteOK, PullOK, Facts DEF Modify, Pulled, VanishesSafely

(* While no entry of the view is marked FRESH wrongly, ModifyCoins is used *)
(* as it may be.                                                           *)
LEMMA ModifyIsSafe ==
  ASSUME IInv, FreshView, NEW t \in Tx, NEW coins \in SomeCoins, Modify(t, coins)
  PROVE  VanishesSafely(t)
BY Facts, ModifySafe DEF Modify, FreshView, FreshOK, VanishesSafely

(* What an operation on a view starts from is what the abstract one starts *)
(* from, but for the height of coins with nothing left.                    *)
LEMMA OldOK ==
  ASSUME IInv, NEW t \in Tx
  PROVE  /\ Viewed(t) \in SomeCoins /\ Map!Old(t).vout = Viewed(t).vout
         /\ ~IsPruned(Viewed(t)) => Map!Old(t) = Viewed(t)
<1> DEFINE c == ViewCoins(t)
<1>1. c \in Below
  BY Facts
<1>2. Viewed(t) = IF c = NoCoins THEN Cleared ELSE c
  BY DEF Viewed, ToModify, ViewCoins
<1>3. Map!Old(t) = IF Meaning(c) = NoCoins THEN Cleared ELSE Meaning(c)
  BY DEF Map!Old, Map!Cleared, Cleared
<1>4. Cleared.vout = {}
  BY DEF Cleared
<1> HIDE DEF c
<1>5. CASE c = NoCoins
  BY <1>2, <1>3, <1>4, <1>5, Distinct DEF Meaning, Available, IsPruned
<1>6. CASE c /= NoCoins /\ c.vout = {}
  BY <1>1, <1>2, <1>3, <1>4, <1>6 DEF Meaning, Available, IsPruned, Below
<1>7. CASE c /= NoCoins /\ c.vout /= {}
  BY <1>1, <1>2, <1>3, <1>7 DEF Meaning, Available, IsPruned, Below
<1> QED BY <1>5, <1>6, <1>7

(* UpdateCoins spends an output.                                           *)
LEMMA SpendStep ==
  ASSUME IInv, NEW t \in Tx, NEW n \in Outputs, SpendOutput(t, n),
         FreshView \/ VanishesSafely(t)
  PROVE  /\ IInv' /\ Map!Spend(t, n) /\ Wrote(t, Spent(Viewed(t), n))
         /\ VanishesSafely(t) /\ (FreshView => FreshView')
BY OldOK, ModifyStep, ModifyIsSafe DEF SpendOutput, IsPruned, SomeCoins, Cleared, Spent, NewCoins,
     Map!Spent, Map!Spend

(* UpdateCoins adds a transaction.                                         *)
LEMMA NewStep ==
  \A t \in Tx, coinbase \in BOOLEAN, coins \in NewCoins :
    LET fresh == FreshView /\ (coinbase \/ Available(TipCoins(t)) = {}) IN
    IInv /\ NewTransaction(t, coinbase, coins) /\ (VanishesSafely(t) \/ fresh)
      => /\ IInv' /\ Map!Create(t, coins) /\ Wrote(t, coins) /\ VanishesSafely(t)
         /\ fresh => FreshView'
(* ModifyNewCoins marks no entry FRESH wrongly when the transaction is a *)
(* coinbase or new. *)
<1>NewOK. ASSUME NEW cache \in SomeCache, NEW t \in Tx, NEW base \in Below,
                 NEW coins \in SomeCoins, NEW coinbase \in BOOLEAN,
                 ModifyNewCoins(cache, t, coinbase, coins)[t] = NoEntry => Available(base) = {}
          PROVE  LET c == ModifyNewCoins(cache, t, coinbase, coins)
                 IN  /\ c \in SomeCache
                     /\ \A u \in Tx : u /= t => c[u] = cache[u]
                     /\ CopyOK(c[t], base)
                     /\ FreshOK(cache[t], base) /\ (coinbase \/ Available(base) = {})
                          => FreshOK(c[t], base)
                     /\ Meaning(GetCoins(c, base, t)) = Meaning(coins)
  <2> USE <1>NewOK
  <2> DEFINE flags == NewFlags(cache, t, coinbase)
  <2>1. /\ flags \in SUBSET Flags /\ "DIRTY" \in flags
        /\ FreshOK(cache[t], base) /\ (coinbase \/ Available(base) = {})
             => ("FRESH" \in flags => Available(base) = {})
    BY NewFlagsOK
  <2> HIDE DEF flags
  <2>2. ModifyNewCoins(cache, t, coinbase, coins) = Stored(cache, t, coins, flags)
    BY DEF ModifyNewCoins, NewFlags, flags
  <2> QED BY <2>1, <2>2, StoredOK
<1>NewSafe. ASSUME NEW cache \in SomeCache, NEW t \in Tx, NEW base \in Below,
                   NEW coins \in SomeCoins, NEW coinbase \in BOOLEAN,
                   FreshOK(cache[t], base), coinbase \/ Available(base) = {},
                   ModifyNewCoins(cache, t, coinbase, coins)[t] = NoEntry
            PROVE  Available(base) = {}
  <2> USE <1>NewSafe
  <2> DEFINE flags == NewFlags(cache, t, coinbase)
  <2> HIDE DEF flags
  <2> QED BY ErasedFresh, NewFlagsOK DEF ModifyNewCoins, NewFlags, flags
<1> SUFFICES ASSUME IInv, NEW t \in Tx, NEW coinbase \in BOOLEAN, NEW coins \in NewCoins,
                    NewTransaction(t, coinbase, coins),
                    \/ VanishesSafely(t)
                    \/ FreshView /\ (coinbase \/ Available(TipCoins(t)) = {})
             PROVE  /\ IInv' /\ Map!Create(t, coins) /\ Wrote(t, coins) /\ VanishesSafely(t)
                    /\ FreshView /\ (coinbase \/ Available(TipCoins(t)) = {}) => FreshView'
  OBVIOUS
<1>1. coins \in SomeCoins
  BY DEF SomeCoins
<1>0. cacheView' = ModifyNewCoins(cacheView, t, coinbase, coins)
  BY DEF NewTransaction
<1>5. FreshView => FreshOK(cacheView[t], TipCoins(t))
  BY DEF FreshView, FreshOK
<1>6. VanishesSafely(t)
  BY <1>0, <1>1, <1>5, Facts, <1>NewSafe DEF VanishesSafely
<1>2. /\ cacheView' \in SomeCache
      /\ \A u \in Tx : u /= t => cacheView'[u] = cacheView[u]
      /\ CopyOK(cacheView'[t], TipCoins(t))
      /\ FreshOK(cacheView[t], TipCoins(t)) /\ (coinbase \/ Available(TipCoins(t)) = {})
           => FreshOK(cacheView'[t], TipCoins(t))
      /\ Meaning(GetCoins(cacheView', TipCoins(t), t)) = Meaning(coins)
  BY <1>0, <1>1, <1>6, Facts, <1>NewOK DEF VanishesSafely
<1> QED BY <1>1, <1>2, <1>5, <1>6, WriteOK, PullOK DEF Map!Create, NewTransaction

(* DisconnectBlock removes a transaction.                                  *)
LEMMA RemoveStep ==
  ASSUME IInv, NEW t \in Tx, RemoveTransaction(t), FreshView \/ VanishesSafely(t)
  PROVE  /\ IInv' /\ Map!Remove(t) /\ Wrote(t, Cleared)
         /\ VanishesSafely(t) /\ (FreshView => FreshView')
BY Distinct, ModifyStep, ModifyIsSafe DEF RemoveTransaction, Map!Remove, Map!Cleared, Cleared

(* ApplyTxInUndo restores an output.                                       *)
LEMMA RestoreStep ==
  ASSUME IInv, NEW t \in Tx, NEW n \in Outputs, NEW h \in Heights \cup {0},
         RestoreOutput(t, n, h), FreshView \/ VanishesSafely(t)
  PROVE  /\ IInv' /\ Map!Restore(t, n, h) /\ Wrote(t, Restored(Viewed(t), n, h))
         /\ VanishesSafely(t) /\ (FreshView => FreshView')
<1>1. CleanUndo(Viewed(t), n, h)
  BY DEF RestoreOutput
<1>2. /\ Viewed(t) \in SomeCoins /\ Map!Old(t).vout = Viewed(t).vout
      /\ ~IsPruned(Viewed(t)) => Map!Old(t) = Viewed(t)
  BY OldOK
<1>3. h = 0 => Viewed(t) \in NewCoins /\ Map!Old(t) = Viewed(t)
  BY <1>1, <1>2 DEF CleanUndo, SomeCoins, IsPruned, Cleared
<1>4. Restored(Viewed(t), n, h) \in NewCoins
  <2>1. CASE h = 0
    BY <1>3, <2>1 DEF Restored, NewCoins
  <2>2. CASE h /= 0
    BY <2>2 DEF Restored, NewCoins
  <2> QED BY <2>1, <2>2
<1> QED BY <1>1, <1>2, <1>3, <1>4, ModifyStep, ModifyIsSafe DEF Map!Restore, RestoreOutput,
     SomeCoins, Map!Restored, Restored, Map!CleanUndo, CleanUndo, Map!IsPruned, IsPruned

(* Steps that change no lookup are steps that leave the maps alone.        *)
LEMMA ReadStep ==
  ASSUME IInv, NEW t \in Tx, AccessCoins(t) \/ ReadTip(t) \/ UncacheTip(t)
  PROVE  /\ IInv' /\ UNCHANGED <<DbMap, TipMap, ViewMap, open, op>>
         /\ \A u \in Tx : TipCoins(u)' = TipCoins(u) /\ ViewCoins(u)' = ViewCoins(u)
         /\ FreshView => FreshView'
<1> SUFFICES /\ cacheTip' \in SomeCache /\ cacheView' \in SomeCache
             /\ \A u \in Tx : EntryOK(cacheTip'[u], db'[u])
             /\ \A u \in Tx : TipCoins(u)' = TipCoins(u)
             /\ \A u \in Tx : /\ CopyOK(cacheView'[u], TipCoins(u))
                              /\ FreshOK(cacheView[u], TipCoins(u))
                                   => FreshOK(cacheView'[u], TipCoins(u))
             /\ \A u \in Tx : ViewCoins(u)' = ViewCoins(u)
             /\ ~open => cacheView' = EmptyCache
  BY DEF AccessCoins, ReadTip, UncacheTip, IInv, TypeOK, FreshView, FreshOK, DbMap, TipMap, ViewMap
<1>1. CASE AccessCoins(t)
  <2>1. /\ cacheTip' \in SomeCache
        /\ \A u \in Tx : EntryOK(cacheTip'[u], db'[u])
        /\ \A u \in Tx : TipCoins(u)' = TipCoins(u)
    BY <1>1, PullOK DEF AccessCoins, Pulled
  <2>2. /\ cacheView' \in SomeCache
        /\ \A u \in Tx : u /= t => cacheView'[u] = cacheView[u]
        /\ CopyOK(cacheView'[t], TipCoins(t))
        /\ FreshOK(cacheView[t], TipCoins(t)) => FreshOK(cacheView'[t], TipCoins(t))
        /\ GetCoins(cacheView', TipCoins(t), t) = GetCoins(cacheView, TipCoins(t), t)
    BY <1>1, Facts, FetchOK DEF AccessCoins
  <2>3. ASSUME NEW u \in Tx
        PROVE  /\ CopyOK(cacheView'[u], TipCoins(u)) /\ ViewCoins(u)' = ViewCoins(u)
               /\ FreshOK(cacheView[u], TipCoins(u)) => FreshOK(cacheView'[u], TipCoins(u))
    <3>1. CASE u = t
      BY <2>1, <2>2, <3>1 DEF ViewCoins
    <3>2. CASE u /= t
      BY <2>1, <2>2, <3>2, Facts DEF ViewCoins, GetCoins
    <3> QED BY <3>1, <3>2
  <2> QED BY <1>1, <2>1, <2>2, <2>3 DEF AccessCoins
<1>2. CASE ReadTip(t)
  BY <1>2, PullOK, Facts DEF ReadTip, ViewCoins, GetCoins
<1>3. CASE UncacheTip(t)
  <2>1. /\ cacheTip' \in SomeCache
        /\ \A u \in Tx : u /= t => cacheTip'[u] = cacheTip[u]
        /\ EntryOK(cacheTip'[t], db[t])
        /\ GetCoins(cacheTip', db[t], t) = GetCoins(cacheTip, db[t], t)
    BY <1>3, Facts, UncacheOK DEF UncacheTip
  <2>2. db' = db /\ cacheView' = cacheView
    BY <1>3 DEF UncacheTip
  <2>3. ASSUME NEW u \in Tx
        PROVE  EntryOK(cacheTip'[u], db'[u]) /\ TipCoins(u)' = TipCoins(u)
    <3>1. CASE u = t
      BY <2>1, <2>2, <3>1 DEF TipCoins
    <3>2. CASE u /= t
      BY <2>1, <2>2, <3>2, Facts DEF TipCoins, GetCoins
    <3> QED BY <3>1, <3>2
  <2> QED BY <2>1, <2>2, <2>3, Facts DEF ViewCoins, GetCoins
<1> QED BY <1>1, <1>2, <1>3

(* The empty cache has nothing to be wrong about.                          *)
LEMMA EmptyOK ==
  /\ EmptyCache \in SomeCache
  /\ \A t \in Tx : \A base :
       /\ EntryOK(EmptyCache[t], base) /\ CopyOK(EmptyCache[t], base)
       /\ EmptyCache[t] = NoEntry /\ GetCoins(EmptyCache, base, t) = base
BY DEF EmptyCache, SomeCache, EntryOK, CopyOK, FreshOK, GetCoins

(* The view is opened, flushed or destroyed.                               *)
LEMMA OpenStep ==
  ASSUME IInv, OpenView
  PROVE  /\ IInv' /\ Map!Open /\ (FreshView => FreshView')
         /\ ViewMap' = TipMap /\ TipMap' = TipMap /\ DbMap' = DbMap
BY Facts, ClosedView DEF OpenView, IInv, TypeOK, TipCoins, GetCoins, DbMap, TipMap, ViewMap,
     ViewCoins, FreshView, Map!Open

(* The view is written to the tip cache.                                   *)
LEMMA FlushViewStep ==
  IInv /\ FreshView /\ FlushView
    => IInv' /\ Map!Commit /\ FreshView' /\ TipMap' = ViewMap /\ DbMap' = DbMap
(* BatchWrite into a cache: the lookups in the parent become those in the *)
(* child. *)
<1>BatchOK. ASSUME NEW parent \in SomeCache, NEW child \in SomeCache,
                   NEW t \in Tx, NEW base \in Below,
                   EntryOK(parent[t], base), EntryOK(child[t], GetCoins(parent, base, t))
            PROVE  LET c == BatchWrite(parent, child)
                   IN  /\ c[t] \in SomeEntry
                       /\ EntryOK(c[t], base)
                       /\ Meaning(GetCoins(c, base, t))
                            = Meaning(GetCoins(child, GetCoins(parent, base, t), t))
  <2> USE <1>BatchOK
  <2> DEFINE c == BatchWrite(parent, child)
             old == parent[t]
             new == child[t]
  <2>0. c[t] = IF Dirty(child, t) THEN Merged(old, new) ELSE old
    BY DEF BatchWrite
  <2>1. CASE ~Dirty(child, t)
    <3>3. GetCoins(child, GetCoins(parent, base, t), t) = GetCoins(parent, base, t)
      <4>1. CASE new = NoEntry
        BY <4>1 DEF GetCoins
      <4>2. CASE new /= NoEntry
        <5> HIDE DEF old
        <5> QED BY <2>1, <4>2 DEF GetCoins, EntryOK, FreshOK, CopyOK, Dirty
      <4> QED BY <4>1, <4>2
    <3> QED BY <2>0, <2>1, <3>3 DEF GetCoins, SomeCache, SomeEntry
  <2>2. CASE Dirty(child, t)
    <3>1. /\ new \in [coins : SomeCoins, flags : SUBSET Flags] /\ new /= NoEntry
          /\ old \in SomeEntry
      BY <2>2 DEF Dirty, SomeCache, SomeEntry
    <3>2. GetCoins(child, GetCoins(parent, base, t), t) = new.coins
      BY <3>1 DEF GetCoins
    <3>3. c[t] = Merged(old, new)
      BY <2>0, <2>2
    <3>4. "FRESH" \in old.flags /\ old /= NoEntry => Available(base) = {}
      BY DEF EntryOK, FreshOK, CopyOK
    <3>5. "FRESH" \in new.flags /\ old = NoEntry => Available(base) = {}
      BY <3>1 DEF EntryOK, FreshOK, CopyOK, GetCoins
    <3>6. GetCoins(c, base, t) = IF c[t] = NoEntry THEN base ELSE c[t].coins
      BY DEF GetCoins
    <3> HIDE DEF c, old, new
    <3>7. ASSUME NEW flags \in SUBSET Flags, "DIRTY" \in flags,
                 "FRESH" \in flags => Available(base) = {},
                 c[t] = [coins |-> new.coins, flags |-> flags]
          PROVE  /\ c[t] \in SomeEntry
                 /\ EntryOK(c[t], base)
                 /\ Meaning(GetCoins(c, base, t)) = Meaning(new.coins)
      BY <3>7, <3>1, <3>6, Distinct DEF SomeEntry, EntryOK, FreshOK, CopyOK
    <3>8. ASSUME IsPruned(new.coins), Available(base) = {}, c[t] = NoEntry
          PROVE  /\ c[t] \in SomeEntry
                 /\ EntryOK(c[t], base)
                 /\ Meaning(GetCoins(c, base, t)) = Meaning(new.coins)
      BY <3>1, <3>6, <3>8, Distinct
      DEF SomeEntry, EntryOK, FreshOK, CopyOK, Meaning, Available, IsPruned
    <3>9. CASE old = NoEntry
      <4>1. CASE "FRESH" \in new.flags /\ IsPruned(new.coins)
        BY <3>2, <3>3, <3>5, <3>8, <3>9, <4>1 DEF Merged, c
      <4>2. CASE ~("FRESH" \in new.flags /\ IsPruned(new.coins))
        <5> DEFINE flags == {"DIRTY"} \cup (new.flags \cap {"FRESH"})
        <5>1. flags \in SUBSET Flags /\ "DIRTY" \in flags
          BY DEF Flags
        <5>2. "FRESH" \in flags => Available(base) = {}
          BY <3>5, <3>9
        <5>3. c[t] = [coins |-> new.coins, flags |-> flags]
          BY <3>3, <3>9, <4>2 DEF Merged
        <5> HIDE DEF flags
        <5> QED BY <3>2, <3>7, <5>1, <5>2, <5>3 DEF c
      <4> QED BY <4>1, <4>2
    <3>10. CASE old /= NoEntry
      <4>1. CASE "FRESH" \in old.flags /\ IsPruned(new.coins)
        BY <3>2, <3>3, <3>4, <3>8, <3>10, <4>1 DEF Merged, c
      <4>2. CASE ~("FRESH" \in old.flags /\ IsPruned(new.coins))
        <5> DEFINE flags == old.flags \cup {"DIRTY"}
        <5>1. flags \in SUBSET Flags /\ "DIRTY" \in flags
          BY <3>1, <3>10 DEF Flags, SomeEntry
        <5>2. "FRESH" \in flags => Available(base) = {}
          BY <3>4, <3>10
        <5>3. c[t] = [coins |-> new.coins, flags |-> flags]
          BY <3>3, <3>10, <4>2 DEF Merged
        <5> HIDE DEF flags
        <5> QED BY <3>2, <3>7, <5>1, <5>2, <5>3 DEF c
      <4> QED BY <4>1, <4>2
    <3> QED BY <3>9, <3>10 DEF c
  <2> QED BY <2>1, <2>2
<1> SUFFICES ASSUME IInv, FreshView, FlushView
             PROVE  /\ IInv' /\ Map!Commit /\ FreshView'
                    /\ TipMap' = ViewMap /\ DbMap' = DbMap
  OBVIOUS
<1>1. /\ cacheTip' = BatchWrite(cacheTip, cacheView) /\ cacheView' = EmptyCache
      /\ db' = db /\ open /\ open' = FALSE /\ op' = <<"Commit">>
  BY DEF FlushView
<1>2. ASSUME NEW t \in Tx
      PROVE  /\ cacheTip'[t] \in SomeEntry
             /\ EntryOK(cacheTip'[t], db'[t])
             /\ Meaning(TipCoins(t)') = Meaning(ViewCoins(t))
  BY <1>2, <1>BatchOK, <1>1, Facts DEF TipCoins, ViewCoins
<1>3. cacheTip' \in SomeCache
  BY <1>1, <1>2 DEF BatchWrite, SomeCache, SomeEntry
<1>4. ASSUME NEW t \in Tx
      PROVE  ViewCoins(t)' = TipCoins(t)' /\ CopyOK(cacheView'[t], TipCoins(t)')
  BY <1>1, EmptyOK DEF ViewCoins
<1>5. TypeOK'
  BY <1>1, <1>3, EmptyOK, ZenonT(30) DEF IInv, TypeOK
<1> QED BY <1>1, <1>2, <1>4, <1>5, EmptyOK DEF Map!Commit, DbMap, TipMap, ViewMap, IInv, FreshView

(* The view is dropped.                                                    *)
LEMMA DiscardStep ==
  ASSUME IInv, DiscardView
  PROVE  /\ IInv' /\ Map!Discard /\ FreshView'
         /\ TipMap' = TipMap /\ DbMap' = DbMap
<1>1. /\ cacheTip' = cacheTip /\ cacheView' = EmptyCache /\ db' = db
      /\ open /\ open' = FALSE /\ op' = <<"Discard">>
  BY DEF DiscardView
<1>2. ASSUME NEW t \in Tx
      PROVE  /\ TipCoins(t)' = TipCoins(t) /\ ViewCoins(t)' = TipCoins(t)
             /\ CopyOK(cacheView'[t], TipCoins(t)')
  BY <1>1, EmptyOK DEF ViewCoins, TipCoins
<1>3. TypeOK'
  BY <1>1, EmptyOK, ZenonT(30) DEF IInv, TypeOK
<1> QED BY <1>1, <1>2, <1>3, EmptyOK DEF Map!Discard, DbMap, TipMap, ViewMap, IInv, FreshView

(* FlushStateToDisk writes pcoinsTip to the database.                      *)
LEMMA FlushTipStep ==
  IInv /\ FlushTip
    => IInv' /\ Map!Persist /\ FreshView' /\ DbMap' = TipMap /\ TipMap' = TipMap
(* BatchWrite into the database: the same, and no pruned coins get there. *)
<1>DBOK. ASSUME NEW cache \in SomeCache, NEW base, NEW t \in Tx,
                base[t] \in {c \in SomeCoins : ~IsPruned(c)} \cup {NoCoins},
                EntryOK(cache[t], base[t])
         PROVE  LET d == DBBatchWrite(base, cache)
                IN  /\ d[t] \in {c \in SomeCoins : ~IsPruned(c)} \cup {NoCoins}
                    /\ Meaning(d[t]) = Meaning(GetCoins(cache, base[t], t))
  <2> USE <1>DBOK
  <2>1. DBBatchWrite(base, cache)[t]
          = IF ~Dirty(cache, t) THEN base[t]
            ELSE IF IsPruned(cache[t].coins) THEN NoCoins ELSE cache[t].coins
    BY DEF DBBatchWrite
  <2>2. CASE ~Dirty(cache, t)
    BY <2>1, <2>2 DEF Dirty, EntryOK, FreshOK, CopyOK, GetCoins
  <2>3. CASE Dirty(cache, t)
    <3>1. cache[t] /= NoEntry /\ cache[t].coins \in SomeCoins
      BY <2>3 DEF Dirty, SomeCache
    <3>2. GetCoins(cache, base[t], t) = cache[t].coins
      BY <3>1 DEF GetCoins
    <3>3. CASE IsPruned(cache[t].coins)
      BY <3>3, <2>1, <2>3, <3>2 DEF Meaning, Available, IsPruned
    <3>4. CASE ~IsPruned(cache[t].coins)
      BY <2>1, <2>3, <3>1, <3>2, <3>4
    <3> QED BY <3>3, <3>4
  <2> QED BY <2>2, <2>3
<1> SUFFICES ASSUME IInv, FlushTip
             PROVE  /\ IInv' /\ Map!Persist /\ FreshView'
                    /\ DbMap' = TipMap /\ TipMap' = TipMap
  OBVIOUS
<1>1. /\ db' = DBBatchWrite(db, cacheTip) /\ cacheTip' = EmptyCache
      /\ cacheView' = cacheView /\ ~open /\ open' = open /\ op' = <<"Persist">>
  BY DEF FlushTip
<1>2. cacheView = EmptyCache
  BY <1>1, Facts
<1>3. ASSUME NEW t \in Tx
      PROVE  /\ db'[t] \in {c \in SomeCoins : ~IsPruned(c)} \cup {NoCoins}
             /\ Meaning(db'[t]) = Meaning(TipCoins(t))
             /\ ViewCoins(t) = TipCoins(t)
             /\ TipCoins(t)' = db'[t] /\ ViewCoins(t)' = db'[t]
             /\ EntryOK(cacheTip'[t], db'[t]) /\ CopyOK(cacheView'[t], TipCoins(t)')
  BY <1>3, <1>DBOK, <1>1, <1>2, Facts, ClosedView, EmptyOK DEF TipCoins, ViewCoins
<1>5. TypeOK'
  BY <1>1, <1>2, <1>3, EmptyOK, Facts DEF TypeOK, DBBatchWrite
<1> QED BY <1>1, <1>2, <1>3, <1>5, EmptyOK DEF Map!Persist, DbMap, TipMap, ViewMap, IInv, FreshView

(* The process ends and starts again.                                      *)
LEMMA CrashStep ==
  ASSUME IInv, Crash
  PROVE  /\ IInv' /\ Map!Crash /\ FreshView'
         /\ DbMap' = DbMap /\ TipMap' = DbMap
<1>1. /\ db' = db /\ cacheTip' = EmptyCache /\ cacheView' = EmptyCache
      /\ open' = FALSE /\ op' = <<"Start">>
  BY DEF Crash
<1>2. ASSUME NEW t \in Tx
      PROVE  /\ TipCoins(t)' = db[t] /\ ViewCoins(t)' = db[t]
             /\ EntryOK(cacheTip'[t], db'[t]) /\ CopyOK(cacheView'[t], TipCoins(t)')
  BY <1>1, EmptyOK DEF TipCoins, ViewCoins
<1>3. TypeOK'
  BY <1>1, EmptyOK, ZenonT(30) DEF IInv, TypeOK
<1> QED BY <1>1, <1>2, <1>3, EmptyOK DEF Map!Crash, DbMap, TipMap, ViewMap, IInv, FreshView

(* The initial state.                                                      *)
LEMMA InitOK == Init => IInv /\ Map!Init
<1> SUFFICES ASSUME Init PROVE IInv /\ Map!Init
  OBVIOUS
<1>1. /\ db = [t \in Tx |-> NoCoins] /\ cacheTip = EmptyCache /\ cacheView = EmptyCache
      /\ open = FALSE /\ op = <<"Start">>
  BY DEF Init
<1>2. ASSUME NEW t \in Tx
      PROVE  /\ db[t] = NoCoins /\ TipCoins(t) = NoCoins /\ ViewCoins(t) = NoCoins
             /\ EntryOK(cacheTip[t], db[t]) /\ CopyOK(cacheView[t], TipCoins(t))
  BY <1>1, EmptyOK DEF TipCoins, ViewCoins
<1>3. TypeOK
  BY <1>1, EmptyOK, ZenonT(30) DEF TypeOK
<1> QED BY <1>1, <1>2, <1>3 DEF IInv, Map!Init, DbMap, TipMap, ViewMap, Map!Empty, Meaning,
     Available

(* Every step keeps the invariant and is a step of the abstract            *)
(* specification or leaves the maps alone.                                 *)
LEMMA StepOK == IInv /\ [Next]_vars => IInv' /\ [Map!Next]_(Map!vars)
<1> SUFFICES ASSUME IInv, [Next]_vars PROVE IInv' /\ [Map!Next]_(Map!vars)
  OBVIOUS
<1>1. CASE OpenView
  BY <1>1, OpenStep DEF Map!Next
<1>2. CASE FreshView /\ FlushView
  BY <1>2, FlushViewStep DEF Map!Next
<1>3. CASE DiscardView
  BY <1>3, DiscardStep DEF Map!Next
<1>4. CASE FlushTip
  BY <1>4, FlushTipStep DEF Map!Next
<1>5. CASE Crash
  BY <1>5, CrashStep DEF Map!Next
<1>6. ASSUME NEW t \in Tx, AccessCoins(t) \/ ReadTip(t) \/ UncacheTip(t)
      PROVE  IInv' /\ UNCHANGED Map!vars
  BY <1>6, ReadStep DEF Map!vars, DbMap, TipMap, ViewMap
<1>7. ASSUME NEW t \in Tx, RemoveTransaction(t), VanishesSafely(t)
      PROVE  IInv' /\ Map!Next
  BY <1>7, RemoveStep DEF Map!Next
<1>8. ASSUME NEW t \in Tx, NEW n \in Outputs, SpendOutput(t, n),
             VanishesSafely(t)
      PROVE  IInv' /\ Map!Next
  BY <1>8, SpendStep DEF Map!Next
<1>9. ASSUME NEW t \in Tx, NEW b \in BOOLEAN, NEW coins \in NewCoins,
             NewTransaction(t, b, coins), VanishesSafely(t)
      PROVE  IInv' /\ Map!Next
  BY <1>9, NewStep DEF Map!Next, Map!NewCoins, NewCoins
<1>10. ASSUME NEW t \in Tx, NEW n \in Outputs, NEW h \in Heights \cup {0},
              RestoreOutput(t, n, h), VanishesSafely(t)
       PROVE  IInv' /\ Map!Next
  BY <1>10, RestoreStep DEF Map!Next
<1>11. CASE ChangeView
  BY <1>7, <1>8, <1>9, <1>10, <1>11 DEF ChangeView
<1>12. CASE UNCHANGED vars
  BY <1>12 DEF vars, IInv, TypeOK, TipCoins, GetCoins, DbMap, TipMap, ViewMap, ViewCoins, Map!vars
<1> QED BY <1>1, <1>2, <1>3, <1>4, <1>5, <1>6, <1>11, <1>12 DEF Next

(* The inductive invariant says what the properties say.                   *)
LEMMA Implied == IInv => TypeOK /\ FreshTip /\ CleanIsCopy
<1> SUFFICES ASSUME IInv PROVE FreshTip /\ CleanIsCopy
  BY DEF IInv
<1>1. ASSUME NEW t \in Tx, Available(db[t]) = {}
      PROVE  db[t] = NoCoins
  BY <1>1, Facts DEF Available, IsPruned
<1> QED BY <1>1, Facts DEF FreshTip, CleanIsCopy, EntryOK, FreshOK, CopyOK

(* In every state of every behaviour of the caches the database holds no   *)
(* pruned coins, FRESH is only set in pcoinsTip on what the database does  *)
(* not have, and an entry without DIRTY is a copy of what is below.        *)
THEOREM FlagsAreRight == Spec => [](TypeOK /\ FreshTip /\ CleanIsCopy)
BY InitOK, StepOK, Implied, PTL DEF Spec

(* The caches implement the maps: reading, modifying, flushing, discarding *)
(* and uncaching through pcoinsTip and the view on top of it never lose,   *)
(* resurrect or invent coins, for any transactions, outputs and heights.   *)
THEOREM CachesImplementMaps == Spec => ImplementsMap
BY InitOK, StepOK, PTL DEF Spec, ImplementsMap, Map!Spec
-----------------------------------------------------------------------------
Blocks == Block \ {Genesis}
Restorable == Heights \cup {0}

ConnectSteps == {"kernel", "BIP30", "inputs", "spend", "create", "connected"}
DisconnectSteps == {"remove", "restore", "disconnected"}

(* The places whose outputs have been spent when ConnectBlock is at a job. *)
SpentPlaces(j) ==
  {p \in Places(j.block) :
     \/ j.step \in {"inputs", "spend", "create"} /\ p[1] < j.i
     \/ j.step = "spend" /\ p[1] = j.i /\ p[2] < j.j
     \/ j.step = "create" /\ p[1] = j.i
     \/ j.step = "connected"}

(* A job is at a transaction and an input that there are.                  *)
JobType(j) ==
  \/ j = NoJob
  \/ /\ j \in [step : ConnectSteps \cup DisconnectSteps \cup {"refused", "unclean"},
               block : Blocks, i : Nat, j : Nat]
     /\ j.step = "kernel" => IsProofOfStake(j.block)
     /\ j.step \in {"BIP30", "inputs", "spend", "create", "remove", "restore"}
          => j.i \in 1..Len(vtx[j.block])
     /\ j.step \in {"inputs", "spend", "restore"} => j.j \in 1..InputCount(j.block, j.i)

(* The undo data there is, and that of the call in progress.               *)
UndoType(u) == \A b \in Block : u[b] = NoUndo \/ u[b] \in [Places(b) -> Restorable]
VtxundoType(v, j) ==
  /\ j.step \in ConnectSteps => v \in [SpentPlaces(j) -> Restorable]
  /\ j.step \in DisconnectSteps => v \in [Places(j.block) -> Restorable]

(* A block is connected to the tip, and has undo data afterwards; VerifyDB *)
(* stays on the chain of the tip.                                          *)
HasUndo(b) == b = Genesis \/ undo[b] /= NoUndo
OnTip ==
  /\ best \in [{"db", "tip", "view"} -> Block]
  /\ HasUndo(best["db"]) /\ HasUndo(best["tip"])
  /\ \A b \in Blocks : undo[b] /= NoUndo => HasUndo(Prev[b])
  /\ undo[Genesis] = NoUndo
  /\ job = NoJob => verify = "no"
  /\ job.step \in DisconnectSteps => undo[job.block] /= NoUndo
  /\ verify = "no" /\ job.step \in ConnectSteps => Prev[job.block] = best["tip"]
  /\ verify /= "no" /\ job /= NoJob => job.block \in Chain[best["tip"]]

(* The inductive invariant, beside that of the caches.                     *)
AnyUndo == (UNION {[Places(b) -> Restorable] : b \in Block}) \cup {NoUndo}

BlockInv ==
  /\ undo \in [Block -> AnyUndo]
  /\ JobType(job) /\ UndoType(undo) /\ VtxundoType(vtxundo, job) /\ OnTip
-----------------------------------------------------------------------------
(* Blocks hold transactions, transactions have inputs.                     *)
LEMMA BlockFacts ==
  /\ \A b \in Blocks : /\ b \in Block /\ Prev[b] \in Block /\ Height[b] \in Heights
                       /\ Len(vtx[b]) \in Nat \ {0}
                       /\ \A i \in 1..Len(vtx[b]) :
                            /\ vtx[b][i] \in Tx
                            /\ vtx[b][i] \in CoinBase <=> i = 1
  /\ \A t \in Tx : /\ Len(vin[t]) \in Nat
                   /\ t \in CoinBase <=> Len(vin[t]) = 0
                   /\ \A j \in 1..Len(vin[t]) : vin[t][j][1] \in Tx /\ vin[t][j][2] \in Outputs
<1>1. ASSUME NEW b \in Blocks
      PROVE  /\ b \in Block /\ Prev[b] \in Block /\ Height[b] \in Heights
  <2>1. /\ Prev \in [Block -> Block \cup {NoBlock}]
        /\ \A c \in Block : Prev[c] = NoBlock <=> c = Genesis
        /\ Height \in [Block -> Heights \cup {0}]
        /\ \A c \in Block \ {Genesis} : Height[c] = Height[Prev[c]] + 1
    BY BlockAssumption
  <2>2. b \in Block /\ Prev[b] \in Block
    BY <2>1 DEF Blocks
  <2>3. Height[Prev[b]] \in Heights \cup {0}
    BY <2>1, <2>2
  <2>5. Heights \subseteq Nat
    BY CoinsAssumption
  <2>4. Height[Prev[b]] \in Nat
    BY <2>3, <2>5
  <2> QED BY <2>1, <2>2, <2>4 DEF Blocks
<1>2. ASSUME NEW b \in Blocks
      PROVE  /\ Len(vtx[b]) \in Nat \ {0}
             /\ \A i \in 1..Len(vtx[b]) :
                   vtx[b][i] \in Tx /\ (vtx[b][i] \in CoinBase <=> i = 1)
  BY <1>2, BlockAssumption DEF Blocks
<1>3. ASSUME NEW t \in Tx
      PROVE  /\ Len(vin[t]) \in Nat
             /\ t \in CoinBase <=> Len(vin[t]) = 0
             /\ \A j \in 1..Len(vin[t]) : vin[t][j][1] \in Tx /\ vin[t][j][2] \in Outputs
  <2>1. vin[t] \in Seq(Tx \X Outputs) /\ (t \in CoinBase <=> vin[t] = <<>>)
    BY BlockAssumption
  <2> QED BY <2>1
<1> QED BY <1>1, <1>2, <1>3

(* The places of a block are pairs of numbers in range.                    *)
LEMMA PlaceFacts ==
  ASSUME NEW b \in Blocks
  PROVE  /\ \A p \in Places(b) : /\ p = <<p[1], p[2]>> /\ p[1] \in 1..Len(vtx[b])
                                 /\ p[2] \in 1..InputCount(b, p[1])
         /\ \A i \in 1..Len(vtx[b]) : \A j \in 1..InputCount(b, i) : <<i, j>> \in Places(b)
BY DEF Places, InputCount

(* Where the loops of ConnectBlock and DisconnectBlock are is in range.    *)
LEMMA IndexFacts ==
  ASSUME NEW b \in Blocks, NEW i \in 1..Len(vtx[b])
  PROVE  /\ i \in Nat \ {0} /\ i \in 1..(Len(vtx[b]) + 1) /\ i + 1 \in 1..(Len(vtx[b]) + 1)
         /\ \A j \in 1..InputCount(b, i) : j \in Nat \ {0}
BY BlockFacts DEF InputCount

-----------------------------------------------------------------------------
(* What the invariant says of the call in progress.                        *)
LEMMA JobFacts ==
  ASSUME BlockInv, job /= NoJob
  PROVE  /\ job.block \in Blocks /\ job.i \in Nat /\ job.j \in Nat
         /\ job = At(job.step, job.block, job.i, job.j)
         /\ job.step \in ConnectSteps \cup DisconnectSteps \cup {"refused", "unclean"}
         /\ job.step = "kernel" =>
              /\ IsProofOfStake(job.block)
              /\ InputAt(job.block, 2, 1)[1] \in Tx
         /\ job.step \in {"BIP30", "inputs", "spend", "create", "remove", "restore"} =>
              /\ job.i \in 1..Len(vtx[job.block])
              /\ Transaction = vtx[job.block][job.i] /\ Transaction \in Tx
              /\ Len(vin[Transaction]) = InputCount(job.block, job.i)
         /\ job.step \in {"inputs", "spend", "restore"} =>
              /\ job.j \in 1..Len(vin[Transaction])
              /\ Input = InputAt(job.block, job.i, job.j) /\ Input = <<Input[1], Input[2]>>
              /\ Input[1] \in Tx /\ Input[2] \in Outputs
<1>1. /\ job \in [step : ConnectSteps \cup DisconnectSteps \cup {"refused", "unclean"},
                  block : Blocks, i : Nat, j : Nat]
      /\ job.step = "kernel" => IsProofOfStake(job.block)
      /\ job.step \in {"BIP30", "inputs", "spend", "create", "remove", "restore"}
           => job.i \in 1..Len(vtx[job.block])
      /\ job.step \in {"inputs", "spend", "restore"} => job.j \in 1..Len(vin[Transaction])
  BY DEF BlockInv, JobType, Transaction, InputAt, InputCount
<1>2. job.block \in Blocks /\ job.i \in Nat /\ job.j \in Nat
  BY <1>1
<1>4. ASSUME job.step = "kernel"
      PROVE  InputAt(job.block, 2, 1)[1] \in Tx
  BY <1>4, <1>1, <1>2, BlockFacts DEF IsProofOfStake, InputAt, InputCount
<1>5. ASSUME job.step \in {"BIP30", "inputs", "spend", "create", "remove", "restore"}
      PROVE  Transaction \in Tx
  BY <1>1, <1>2, <1>5, BlockFacts DEF Transaction
<1>6. ASSUME job.step \in {"inputs", "spend", "restore"}
      PROVE  Input = <<Input[1], Input[2]>> /\ Input[1] \in Tx /\ Input[2] \in Outputs
  BY <1>6, <1>1, <1>5, BlockAssumption DEF Input
<1>7. /\ Transaction = vtx[job.block][job.i] /\ Input = InputAt(job.block, job.i, job.j)
      /\ Len(vin[Transaction]) = InputCount(job.block, job.i)
  BY DEF Transaction, Input, InputAt, InputCount
<1> QED BY <1>1, <1>2, <1>4, <1>5, <1>6, <1>7 DEF At
-----------------------------------------------------------------------------
(* A chain holds its blocks down to the first.                             *)
LEMMA ChainFacts ==
  ASSUME NEW b \in Block
  PROVE  /\ Chain[b] \subseteq Block /\ b \in Chain[b]
         /\ \A c \in Chain[b] \ {Genesis} : Prev[c] \in Chain[b]
         /\ \A c \in Chain[b] \ {b} : \E d \in Chain[b] : Prev[d] = c
<1>1. /\ Chain \in [Block -> SUBSET Block] /\ Chain[Genesis] = {Genesis}
      /\ \A c \in Block \ {Genesis} : Chain[c] = Chain[Prev[c]] \cup {c}
  BY BlockAssumption
<1> QED BY <1>1, BlockAssumption

(* VerifyDB finds the block above one of the chain.                        *)
LEMMA ReconnectedOK ==
  ASSUME best["tip"] \in Block, NEW c \in Block, \E d \in Chain[best["tip"]] : Prev[d] = c
  PROVE  /\ Reconnected(c) \in Chain[best["tip"]] /\ Reconnected(c) \in Blocks
         /\ Prev[Reconnected(c)] = c
BY ChainFacts, BlockAssumption DEF Reconnected, Blocks

(* Every step keeps the invariant.                                         *)
LEMMA BlockStepKeeps ==
  IInv /\ BlockInv /\ (BlockNext \/ UNCHANGED blockVars) => BlockInv'
(* Where ConnectBlock starts. *)
<1>ConnectingOK. ASSUME NEW b \in Blocks
                 PROVE  /\ JobType(Connecting(b)) /\ VtxundoType(NoPlaces, Connecting(b))
                        /\ Connecting(b).block = b /\ Connecting(b).step \in ConnectSteps
                        /\ Connecting(b).step \notin DisconnectSteps
  <2> USE <1>ConnectingOK
  <2> DEFINE c == Connecting(b)
  <2> HIDE DEF c
  <2> QED BY BlockFacts DEF VtxundoType, ConnectSteps, DisconnectSteps, c, SpentPlaces, NoPlaces,
       JobType, Connecting, At
(* Where ConnectBlock goes on to a transaction. *)
<1>ToTransactionOK. ASSUME job.block \in Blocks, NEW i \in 1..(Len(vtx[job.block]) + 1)
                    PROVE  /\ JobType(ToTransaction(i)) /\ ToTransaction(i).step \in ConnectSteps
                           /\ ToTransaction(i).block = job.block
                           /\ SpentPlaces(ToTransaction(i)) = {p \in Places(job.block) : p[1] < i}
  <2> USE <1>ToTransactionOK
  <2> DEFINE b == job.block
  <2>0. Len(vtx[b]) \in Nat \ {0}
    BY BlockFacts
  <2>1. CASE i > Len(vtx[b])
    <3>1. ToTransaction(i) = At("connected", b, 0, 0)
      BY <2>1 DEF ToTransaction
    <3> QED BY <2>0, <2>1, <3>1, PlaceFacts DEF At, JobType, SpentPlaces, ConnectSteps
  <2>2. CASE i <= Len(vtx[b]) /\ vtx[b][i] \in CoinBase
    BY <2>2, <2>0, PlaceFacts, BlockFacts DEF ToTransaction, InputAt, InputCount, At, JobType,
       SpentPlaces, ConnectSteps
  <2>3. CASE i <= Len(vtx[b]) /\ vtx[b][i] \notin CoinBase
    <3>1. ToTransaction(i) = At("inputs", b, i, 1)
      BY <2>0, <2>3 DEF ToTransaction
    <3> QED BY <2>0, <2>3, <3>1, BlockFacts DEF At, JobType, SpentPlaces, ConnectSteps, InputAt,
         InputCount
  <2> QED
    BY <2>0, <2>1, <2>2, <2>3
(* Where DisconnectBlock starts. *)
<1>DisconnectingOK. ASSUME NEW b \in Blocks, undo[b] \in [Places(b) -> Restorable]
                    PROVE  /\ JobType(Disconnecting(b)) /\ VtxundoType(undo[b], Disconnecting(b))
                           /\ Disconnecting(b).block = b /\ Disconnecting(b).step \in DisconnectSteps
                           /\ Disconnecting(b).step \notin ConnectSteps
  <2>1. DOMAIN undo[b] = Places(b) /\ Len(vtx[b]) \in Nat \ {0}
    BY <1>DisconnectingOK, BlockFacts
  <2>2. Disconnecting(b) = At("remove", b, Len(vtx[b]), 0)
    BY <2>1 DEF Disconnecting
  <2> QED BY <1>DisconnectingOK, <2>1, <2>2 DEF At, JobType, VtxundoType, ConnectSteps,
             DisconnectSteps
(* The invariant of the next state, from its parts. *)
<1>Parts. ASSUME undo' \in [Block -> AnyUndo], JobType(job'), UndoType(undo'),
                 VtxundoType(vtxundo', job'),
                 OnTip'
          PROVE  BlockInv'
  BY <1>Parts DEF BlockInv, JobType, UndoType, VtxundoType, AnyUndo
(* A call goes on with its block. *)
<1>GoesOn. ASSUME BlockInv, job /= NoJob, UNCHANGED <<best, undo, verify>>,
                  JobType(job'), job' /= NoJob, job'.block = job.block,
                  job'.step \in ConnectSteps => job.step \in ConnectSteps,
                  job'.step \in DisconnectSteps => job.step \in DisconnectSteps,
                  VtxundoType(vtxundo', job')
           PROVE  BlockInv'
  <2> USE <1>GoesOn
  <2>1. OnTip'
    BY DEF BlockInv, OnTip, HasUndo
  <2> QED BY <2>1, <1>Parts DEF BlockInv
(* A call gives up. *)
<1>GivesUp. ASSUME BlockInv, job /= NoJob, UNCHANGED <<best, undo, vtxundo, verify>>,
                   NEW step \in {"refused", "unclean"}, job' = [job EXCEPT !.step = step]
            PROVE  BlockInv'
  <2> USE <1>GivesUp
  <2>1. job' = At(step, job.block, job.i, job.j)
    BY JobFacts DEF At
  <2>2. job'.step = step /\ job'.block = job.block
    BY <2>1 DEF At
  <2>4. VtxundoType(vtxundo', job') /\ job' /= NoJob
    BY <2>2 DEF VtxundoType, NoJob, ConnectSteps, DisconnectSteps
  <2> QED BY <1>GoesOn, <2>1, <2>2, <2>4, JobFacts DEF ConnectSteps, DisconnectSteps, JobType, At
(* A call ends. *)
<1>Ends. ASSUME undo' \in [Block -> AnyUndo], UndoType(undo'), job' = NoJob, verify' = "no",
                best' \in [{"db", "tip", "view"} -> Block],
                HasUndo(best["db"])', HasUndo(best["tip"])',
                \A b \in Blocks : undo'[b] /= NoUndo => Prev[b] = Genesis \/ undo'[Prev[b]] /= NoUndo,
                undo'[Genesis] = NoUndo
         PROVE  BlockInv'
  <2> USE <1>Ends
  <2> QED BY <1>Parts DEF OnTip, HasUndo, ConnectSteps, DisconnectSteps, JobType, VtxundoType, NoJob
(* A view is opened, or VerifyDB goes on to another block. *)
<1>Begins. ASSUME BlockInv, NEW b \in Blocks, UNCHANGED undo,
                  best' \in [{"db", "tip", "view"} -> Block],
                  best'["db"] = best["db"], best'["tip"] = best["tip"],
                  \/ /\ vtxundo' = NoPlaces /\ job' = Connecting(b)
                     /\ verify' = "no" => Prev[b] = best["tip"]
                  \/ vtxundo' = undo[b] /\ job' = Disconnecting(b) /\ undo[b] /= NoUndo,
                  verify' /= "no" => b \in Chain[best["tip"]]
           PROVE  BlockInv'
  <2> USE <1>Begins
  <2>1. /\ undo \in [Block -> AnyUndo] /\ UndoType(undo) /\ OnTip /\ b \in Block
    BY DEF BlockInv, Blocks
  <2>2. CASE vtxundo' = NoPlaces /\ job' = Connecting(b) /\ (verify' = "no" => Prev[b] = best["tip"])
    BY <2>2, <1>ConnectingOK, <1>Parts, <2>1 DEF NoJob, ConnectSteps, OnTip, HasUndo
  <2>3. CASE vtxundo' = undo[b] /\ job' = Disconnecting(b) /\ undo[b] /= NoUndo
    BY <2>3, <1>DisconnectingOK, <1>Parts, <2>1 DEF UndoType, NoJob, DisconnectSteps, OnTip, HasUndo
  <2> QED BY <2>2, <2>3
(* A lookup: the block is refused, or the call goes on to a step before *)
(* which the same places have been spent. *)
<1>LookKeeps. ASSUME BlockInv, job /= NoJob, job.step \in ConnectSteps,
                     NEW t, NEW good, NEW next, Look(t, good, next),
                     JobType(next), next.step \in ConnectSteps, next.block = job.block,
                     SpentPlaces(next) = SpentPlaces(job)
              PROVE  BlockInv'
  <2> USE <1>LookKeeps
  <2>1. CASE job' = [job EXCEPT !.step = "refused"]
    BY <2>1, <1>GivesUp DEF Look
  <2>2. CASE job' = next
    BY <2>2, <1>GoesOn DEF Look, BlockInv, VtxundoType, ConnectSteps, DisconnectSteps, NoJob
  <2> QED BY <2>1, <2>2 DEF Look
(* The stake of a block. *)
<1>KernelKeeps. ASSUME BlockInv, CheckKernel PROVE BlockInv'
  <2> USE <1>KernelKeeps
  <2> DEFINE next == At("BIP30", job.block, 1, 0)
  <2>1. job.step = "kernel" /\ job /= NoJob
    BY DEF CheckKernel, Doing, NoJob
  <2>3. JobType(next)
    BY <2>1, JobFacts, BlockFacts DEF JobType, At, ConnectSteps
  <2>4. SpentPlaces(next) = {} /\ SpentPlaces(job) = {}
    BY <2>1 DEF SpentPlaces, At
  <2>5. next.step \in ConnectSteps /\ next.block = job.block /\ job.step \in ConnectSteps
    BY <2>1 DEF At, ConnectSteps
  <2>6. Look(InputAt(job.block, 2, 1)[1],
             /\ Available(ViewCoins(InputAt(job.block, 2, 1)[1])) /= {}
             /\ Depth(InputAt(job.block, 2, 1)[1]) >= nCoinbaseMaturity, next)
    BY ZenonT(30) DEF CheckKernel, InputAt, InputCount
  <2> HIDE DEF next
  <2> QED BY <2>1, <2>3, <2>4, <2>5, <2>6, <1>LookKeeps, ZenonT(30)
(* The transactions that exist already. *)
<1>BIP30Keeps. ASSUME BlockInv, CheckBIP30 PROVE BlockInv'
  <2> USE <1>BIP30Keeps
  <2> DEFINE next == IF job.i = Len(vtx[job.block]) THEN ToTransaction(1)
                     ELSE [job EXCEPT !.i = @ + 1]
  <2>1. job.step = "BIP30" /\ job /= NoJob /\ job.step \in ConnectSteps
    BY DEF CheckBIP30, Doing, NoJob, ConnectSteps
  <2>2. /\ job.block \in Blocks /\ job.i \in 1..Len(vtx[job.block])
        /\ Len(vtx[job.block]) \in Nat \ {0}
        /\ job = At("BIP30", job.block, job.i, job.j) /\ job.j \in Nat
    BY <2>1, JobFacts, BlockFacts
  <2>4. /\ JobType(next) /\ next.step \in ConnectSteps /\ next.block = job.block
        /\ SpentPlaces(next) = {}
    <3>1. CASE job.i = Len(vtx[job.block])
      BY <3>1, <1>ToTransactionOK, <2>2, PlaceFacts
    <3>2. CASE job.i /= Len(vtx[job.block])
      <4>1. next = At("BIP30", job.block, job.i + 1, job.j)
        BY <2>2, <3>2 DEF At
      <4> HIDE DEF next
      <4> QED BY <2>2, <3>2, <4>1 DEF JobType, At, ConnectSteps, SpentPlaces
    <3> QED BY <3>1, <3>2
  <2>5. Look(Transaction, Available(ViewCoins(Transaction)) = {}, next)
    BY DEF CheckBIP30
  <2> HIDE DEF next
  <2> QED BY <1>LookKeeps, <2>1, <2>4, <2>5 DEF SpentPlaces
(* The inputs of a transaction are found. *)
<1>InputKeeps. ASSUME BlockInv, CheckInput PROVE BlockInv'
  <2> USE <1>InputKeeps
  <2>1. job.step = "inputs" /\ job /= NoJob /\ job.step \in ConnectSteps
    BY DEF CheckInput, Doing, NoJob, ConnectSteps
  <2>2. /\ job.block \in Blocks /\ job.i \in 1..Len(vtx[job.block])
        /\ job.j \in 1..Len(vin[Transaction]) /\ Transaction \in Tx
        /\ job = At("inputs", job.block, job.i, job.j)
    BY <2>1, JobFacts
  <2>3. Len(vtx[job.block]) \in Nat /\ Len(vin[Transaction]) \in Nat
    BY <2>2, BlockFacts
  <2>4. SpentPlaces(job) = {p \in Places(job.block) : p[1] < job.i}
    BY <2>1 DEF SpentPlaces
  <2>5. /\ JobType(AfterInputs) /\ AfterInputs.step \in ConnectSteps
        /\ AfterInputs.block = job.block /\ SpentPlaces(AfterInputs) = SpentPlaces(job)
    <3>1. CASE job.j = Len(vin[Transaction])
      BY <3>1, <2>2, <2>3, <2>4, PlaceFacts DEF AfterInputs, Transaction, SpentPlaces, At, JobType,
         ConnectSteps, InputAt, InputCount
    <3>2. CASE job.j /= Len(vin[Transaction])
      <4>1. AfterInputs = At("inputs", job.block, job.i, job.j + 1)
        BY <2>2, <3>2 DEF AfterInputs, At
      <4> QED BY <2>2, <2>3, <2>4, <3>2, <4>1 DEF At, ConnectSteps, SpentPlaces, JobType,
           Transaction, InputAt, InputCount
    <3> QED BY <3>1, <3>2
  <2>6. Look(Input[1], /\ Input[2] \in Available(ViewCoins(Input[1]))
                       /\ Input[1] \in CoinBase \cup CoinStake => Depth(Input[1]) >= 0, AfterInputs)
    BY ZenonT(30) DEF CheckInput
  <2> QED BY <2>1, <2>5, <2>6, <1>LookKeeps, ZenonT(30)
(* The undo data of an input is added when the output is spent. *)
<1>SpendKeeps. ASSUME IInv, BlockInv, SpendInput PROVE BlockInv'
  <2> USE <1>SpendKeeps
  <2> DEFINE here == <<job.i, job.j>>
             height == UndoHeight(Viewed(Input[1]), Input[2])
  <2>1. job.step = "spend" /\ job /= NoJob /\ job.step \in ConnectSteps
    BY DEF SpendInput, Doing, NoJob, ConnectSteps
  <2>2. /\ job.block \in Blocks /\ job.i \in 1..Len(vtx[job.block])
        /\ job.j \in 1..Len(vin[Transaction]) /\ Transaction \in Tx /\ Input[1] \in Tx
        /\ job = At("spend", job.block, job.i, job.j)
    BY <2>1, JobFacts
  <2>3. Len(vtx[job.block]) \in Nat /\ Len(vin[Transaction]) \in Nat
    BY <2>2, BlockFacts
  <2>4. height \in Restorable
    BY <2>2, OldOK DEF UndoHeight, SomeCoins, NewCoins, Cleared, Restorable
  <2>6. vtxundo' \in [SpentPlaces(job) \cup {here} -> Restorable]
    <3>1. vtxundo' = [p \in DOMAIN vtxundo \cup {here} |-> IF p = here THEN height ELSE vtxundo[p]]
      BY DEF SpendInput
    <3> HIDE DEF here, height
    <3> QED BY <2>1, <2>4, <3>1 DEF BlockInv, VtxundoType
  <2>7. \A p \in Places(job.block) : p = here <=> p[1] = job.i /\ p[2] = job.j
    BY <2>2, PlaceFacts
  <2>8. here \in Places(job.block)
    BY <2>2, PlaceFacts DEF Transaction, InputAt, InputCount
  <2>9. \A p \in Places(job.block) : p[1] = job.i => p[2] \in 1..Len(vin[Transaction])
    BY <2>2, PlaceFacts DEF Transaction, InputAt, InputCount
  <2>10. \A p \in Places(job.block) :
           p \in SpentPlaces(job) <=> p[1] < job.i \/ (p[1] = job.i /\ p[2] < job.j)
    BY <2>1 DEF SpentPlaces
  <2>11. /\ JobType(job') /\ job'.step \in ConnectSteps /\ job'.block = job.block
         /\ SpentPlaces(job') = SpentPlaces(job) \cup {here}
    <3>1. CASE job.j = Len(vin[Transaction])
      <4> HIDE DEF here
      <4> QED BY <2>2, <2>3, <2>7, <2>8, <2>9, <2>10, <3>1 DEF At, ConnectSteps, JobType,
           SpentPlaces, SpendInput
    <3>2. CASE job.j /= Len(vin[Transaction])
      <4>1. job' = At("spend", job.block, job.i, job.j + 1)
        BY <2>2, <3>2 DEF SpendInput, At
      <4>4. \A p : p \in SpentPlaces(job') <=>
                   p \in Places(job.block) /\ (p[1] < job.i \/ (p[1] = job.i /\ p[2] < job.j + 1))
        BY <4>1 DEF SpentPlaces, At
      <4>6. SpentPlaces(job) \subseteq Places(job.block)
        BY DEF SpentPlaces
      <4> HIDE DEF here
      <4>7. SpentPlaces(job') = SpentPlaces(job) \cup {here}
        BY <2>2, <2>3, <2>7, <2>8, <2>9, <2>10, <4>4, <4>6
      <4> QED BY <2>2, <2>3, <3>2, <4>1, <4>7 DEF At, ConnectSteps, JobType, Transaction, InputAt,
           InputCount
    <3> QED BY <3>1, <3>2
  <2>12. VtxundoType(vtxundo', job') /\ job' /= NoJob
    BY <2>6, <2>11 DEF VtxundoType, NoJob, ConnectSteps, DisconnectSteps
  <2> QED
    BY <2>1, <2>11, <2>12, <1>GoesOn DEF SpendInput, ConnectSteps, DisconnectSteps
(* The outputs are created. *)
<1>CreateKeeps. ASSUME BlockInv, CreateOutputs PROVE BlockInv'
  <2> USE <1>CreateKeeps
  <2>1. job.step = "create" /\ job /= NoJob /\ job.step \in ConnectSteps
    BY DEF CreateOutputs, Doing, NoJob, ConnectSteps
  <2>2. job.block \in Blocks /\ job.i \in 1..Len(vtx[job.block])
    BY <2>1, JobFacts
  <2>3. Len(vtx[job.block]) \in Nat /\ job.i + 1 \in 1..(Len(vtx[job.block]) + 1)
    BY <2>2, BlockFacts
  <2>4. /\ JobType(job') /\ job'.step \in ConnectSteps /\ job'.block = job.block
        /\ SpentPlaces(job') = {p \in Places(job.block) : p[1] < job.i + 1}
    BY <2>2, <2>3, <1>ToTransactionOK DEF CreateOutputs
  <2>7. SpentPlaces(job') = SpentPlaces(job)
    BY <2>1, <2>2, <2>3, <2>4, PlaceFacts DEF SpentPlaces
  <2>8. vtxundo' \in [SpentPlaces(job') -> Restorable]
    BY <2>1, <2>7 DEF BlockInv, VtxundoType, CreateOutputs
  <2> QED BY <1>GoesOn, <2>1, <2>4, <2>8 DEF CreateOutputs, ConnectSteps, DisconnectSteps,
       VtxundoType, NoJob
(* DisconnectBlock goes on with the same undo data. *)
<1>DisconnectGoesOn. ASSUME BlockInv, job /= NoJob, job.step \in DisconnectSteps,
                            UNCHANGED <<best, undo, vtxundo, verify>>,
                            JobType(job'), job'.step \in DisconnectSteps, job'.block = job.block
                     PROVE  BlockInv'
  <2> USE <1>DisconnectGoesOn
  <2>1. VtxundoType(vtxundo', job') /\ job' /= NoJob
    BY DEF BlockInv, VtxundoType, NoJob, ConnectSteps, DisconnectSteps
  <2> QED BY <2>1, <1>GoesOn DEF ConnectSteps, DisconnectSteps
(* It goes on to the transaction before. *)
<1>BeforeOK. ASSUME job.block \in Blocks, NEW i \in 1..Len(vtx[job.block])
             PROVE  /\ JobType(BeforeTransaction(i)) /\ BeforeTransaction(i).step \in DisconnectSteps
                    /\ BeforeTransaction(i).block = job.block
  <2> USE <1>BeforeOK
  <2>2. CASE i = 1
    BY <2>2 DEF BeforeTransaction, At, JobType, DisconnectSteps
  <2>3. CASE i /= 1
    BY <2>3, BlockFacts DEF BeforeTransaction, At, JobType, DisconnectSteps
  <2> QED BY <2>2, <2>3
(* The outputs of a transaction are taken away. *)
<1>RemoveKeeps. ASSUME BlockInv, RemoveOutputs PROVE BlockInv'
  <2> USE <1>RemoveKeeps
  <2>1. job.step = "remove" /\ job /= NoJob /\ job.step \in DisconnectSteps
    BY DEF RemoveOutputs, Doing, NoJob, DisconnectSteps
  <2>2. job.block \in Blocks /\ job.i \in 1..Len(vtx[job.block]) /\ Transaction \in Tx
    BY <2>1, JobFacts
  <2>3. CASE job' = Unclean
    BY <2>1, <2>3, <1>GivesUp DEF RemoveOutputs, Unclean
  <2>4. CASE job' = BeforeTransaction(job.i)
    BY <2>1, <2>2, <2>4, <1>BeforeOK, <1>DisconnectGoesOn DEF RemoveOutputs
  <2>5. CASE Transaction \notin CoinBase /\ job' = At("restore", job.block, job.i, Len(vin[Transaction]))
    <3>2. JobType(job')
      BY <2>2, <2>5, BlockFacts DEF JobType, At, DisconnectSteps, Transaction, InputAt, InputCount
    <3> QED BY <1>DisconnectGoesOn, <2>1, <2>5, <3>2 DEF RemoveOutputs, At, DisconnectSteps
  <2> QED BY <2>3, <2>4, <2>5 DEF RemoveOutputs
(* An input is restored. *)
<1>RestoreKeeps. ASSUME BlockInv, RestoreInput PROVE BlockInv'
  <2> USE <1>RestoreKeeps
  <2>0. Doing("restore")
    BY ZenonT(30) DEF RestoreInput
  <2>1. job.step = "restore" /\ job /= NoJob /\ job.step \in DisconnectSteps
    BY <2>0 DEF Doing, NoJob, DisconnectSteps
  <2>2. /\ job.block \in Blocks /\ job.i \in 1..Len(vtx[job.block])
        /\ job.j \in 1..Len(vin[Transaction]) /\ Transaction \in Tx
        /\ job = At("restore", job.block, job.i, job.j)
    BY <2>1, JobFacts
  <2>3. CASE job' = Unclean
    BY <2>1, <2>3, <1>GivesUp, ZenonT(30) DEF RestoreInput, Unclean
  <2>4. CASE job' = BeforeTransaction(job.i)
    BY <2>1, <2>2, <2>4, <1>BeforeOK, <1>DisconnectGoesOn, ZenonT(30) DEF RestoreInput
  <2>5. CASE job.j /= 1 /\ job' = [job EXCEPT !.j = @ - 1]
    <3>2. job' = At("restore", job.block, job.i, job.j - 1)
      BY <2>2, <2>5 DEF At
    <3>4. JobType(job')
      BY <2>2, <2>5, <3>2, BlockFacts DEF JobType, At, DisconnectSteps, Transaction, InputAt,
         InputCount
    <3>5. job'.step \in DisconnectSteps /\ job'.block = job.block
      BY <3>2 DEF At, DisconnectSteps
    <3> QED BY <2>1, <3>4, <3>5, <1>DisconnectGoesOn, ZenonT(30) DEF RestoreInput
  <2> QED BY <2>3, <2>4, <2>5, ZenonT(30) DEF RestoreInput
(* A block is connected: it has undo data now, if not before. *)
<1>ConnectedKeeps. ASSUME BlockInv, Connected PROVE BlockInv'
  <2> USE <1>ConnectedKeeps
  <2>1. job.step = "connected" /\ job /= NoJob /\ job.step \in ConnectSteps
    BY DEF Connected, Doing, NoJob, ConnectSteps
  <2>2. job.block \in Blocks /\ job.block \in Block /\ job.block /= Genesis
    BY <2>1, JobFacts DEF Blocks
  <2>3. /\ undo \in [Block -> AnyUndo] /\ UndoType(undo) /\ OnTip
    BY DEF BlockInv
  <2>4. vtxundo \in [Places(job.block) -> Restorable]
    BY <2>1 DEF SpentPlaces, BlockInv, VtxundoType
  <2>5. vtxundo /= NoUndo /\ vtxundo \in AnyUndo
    BY <2>2, <2>4, BlockAssumption DEF Restorable, AnyUndo
  <2>6. /\ undo' \in [Block -> AnyUndo]
        /\ undo'[job.block] /= NoUndo
        /\ undo'[job.block] = undo[job.block] \/ undo'[job.block] = vtxundo
        /\ \A b \in Block : b /= job.block => undo'[b] = undo[b]
        /\ \A b \in Block : undo[b] /= NoUndo => undo'[b] /= NoUndo
    BY <2>2, <2>3, <2>5 DEF Connected
  <2>8. /\ best' \in [{"db", "tip", "view"} -> Block]
        /\ best'["db"] = best["db"] /\ best'["tip"] = job.block
    BY <2>2, <2>3 DEF Connected, OnTip
  <2>9. Prev[job.block] = best["tip"] /\ verify' = "no" /\ job' = NoJob
    BY <2>1, <2>3 DEF Connected, OnTip
  <2>11. ASSUME NEW b \in Blocks, undo'[b] /= NoUndo
         PROVE  Prev[b] = Genesis \/ undo'[Prev[b]] /= NoUndo
    BY <2>11, <2>3, <2>6, <2>9, BlockFacts DEF OnTip, HasUndo
  <2>12. undo'[Genesis] = NoUndo
    <3>1. Genesis \in Block
      BY BlockAssumption
    <3> QED BY <2>2, <2>3, <2>6, <3>1 DEF OnTip
  <2> QED BY <1>Ends, <2>2, <2>3, <2>4, <2>6, <2>8, <2>9, <2>11, <2>12 DEF UndoType, OnTip, HasUndo
(* A block is disconnected: the one before it has undo data. *)
<1>DisconnectedKeeps. ASSUME BlockInv, Disconnected PROVE BlockInv'
  <2> USE <1>DisconnectedKeeps
  <2>1. job.step = "disconnected" /\ job /= NoJob /\ job.step \in DisconnectSteps
    BY DEF Disconnected, Doing, NoJob, DisconnectSteps
  <2>2. job.block \in Blocks /\ Prev[job.block] \in Block
    BY <2>1, JobFacts, BlockFacts
  <2>3. undo \in [Block -> AnyUndo] /\ UndoType(undo) /\ OnTip /\ UNCHANGED undo
    BY DEF BlockInv, Disconnected
  <2> QED BY <1>Ends, <2>1, <2>2, <2>3 DEF OnTip, HasUndo, Disconnected
(* Steps after which no call is in progress and no undo data is new. *)
<1>EndKeeps. ASSUME BlockInv, UNCHANGED undo, job' = NoJob, verify' = "no",
                    best' \in [{"db", "tip", "view"} -> Block], best'["db"] = best["db"],
                    best'["tip"] \in {best["tip"], best["db"]}
             PROVE  BlockInv'
  <2> USE <1>EndKeeps
  <2>1. undo \in [Block -> AnyUndo] /\ UndoType(undo) /\ OnTip
    BY DEF BlockInv
  <2> QED BY <1>Ends, <2>1 DEF OnTip, HasUndo
(* VerifyDB begins, turns round and goes on. *)
<1>VerifyKeeps. ASSUME BlockInv, VerifyDB \/ VerifyDisconnected \/ VerifyConnected
                PROVE  BlockInv'
  <2> USE <1>VerifyKeeps
  <2>1. OnTip /\ best \in [{"db", "tip", "view"} -> Block] /\ best["tip"] \in Block
    BY DEF BlockInv, OnTip
  <2>2. CASE VerifyDB
    BY <2>2, <1>Begins, <2>1, ChainFacts DEF VerifyDB, OnTip, HasUndo, Blocks
  <2>3. CASE VerifyDisconnected
    <3> DEFINE c == Prev[job.block]
    <3>1. job.step = "disconnected" /\ job /= NoJob /\ job.step \in DisconnectSteps
      BY <2>3 DEF VerifyDisconnected, Doing, NoJob, DisconnectSteps
    <3>2. job.block \in Blocks /\ c \in Block
      BY <3>1, JobFacts, BlockFacts
    <3>3. job.block \in Chain[best["tip"]] /\ HasUndo(c)
      BY <2>1, <2>3, <3>1, <3>2 DEF VerifyDisconnected, OnTip
    <3>5. /\ best' \in [{"db", "tip", "view"} -> Block]
          /\ best'["db"] = best["db"] /\ best'["tip"] = best["tip"] /\ UNCHANGED undo
      BY <2>1, <2>3, <3>2 DEF VerifyDisconnected
    <3>6. CASE c /= Genesis /\ vtxundo' = undo[c] /\ job' = Disconnecting(c)
      BY <1>Begins, <2>1, <3>2, <3>3, <3>5, <3>6, ChainFacts DEF HasUndo, Blocks
    <3>7. CASE vtxundo' = NoPlaces /\ job' = Connecting(Reconnected(c)) /\ verify' = "up"
      <4>1. Reconnected(c) \in Chain[best["tip"]] /\ Reconnected(c) \in Blocks
        BY <2>1, <3>2, <3>3, ReconnectedOK
      <4> HIDE DEF c
      <4> QED BY <3>5, <3>7, <4>1, <1>Begins
    <3> QED BY <2>3, <3>6, <3>7 DEF VerifyDisconnected
  <2>4. CASE VerifyConnected
    <3>1. job.step = "connected" /\ job /= NoJob
      BY <2>4 DEF VerifyConnected, Doing, NoJob
    <3>2. job.block \in Blocks /\ job.block \in Block
      BY <3>1, JobFacts DEF Blocks
    <3>4. /\ best' \in [{"db", "tip", "view"} -> Block]
          /\ best'["db"] = best["db"] /\ best'["tip"] = best["tip"] /\ UNCHANGED undo
      BY <2>1, <2>4, <3>2 DEF VerifyConnected
    <3>5. CASE job' = NoJob /\ verify' = "no"
      BY <3>4, <3>5, <1>EndKeeps
    <3>6. CASE job.block /= best["tip"] /\ job' = Connecting(Reconnected(job.block)) /\ UNCHANGED verify
      BY <1>Begins, <2>1, <2>4, <3>1, <3>2, <3>4, <3>6, ChainFacts, ReconnectedOK DEF
         VerifyConnected, OnTip
    <3> QED BY <2>4, <3>5, <3>6 DEF VerifyConnected
  <2> QED BY <2>2, <2>3, <2>4
(* ConnectTip and DisconnectTip begin. *)
<1>TipKeeps. ASSUME BlockInv, (\E b \in Block : ConnectTip(b)) \/ DisconnectTip
             PROVE  BlockInv'
  <2> USE <1>TipKeeps
  <2>1. OnTip /\ best \in [{"db", "tip", "view"} -> Block] /\ best["tip"] \in Block
    BY DEF BlockInv, OnTip
  <2>2. ASSUME NEW b \in Block, ConnectTip(b) PROVE BlockInv'
    <3>1. b \in Blocks
      BY <2>1, <2>2, BlockAssumption DEF ConnectTip, Blocks
    <3> QED BY <1>Begins, <2>1, <2>2, <3>1 DEF ConnectTip, OnTip
  <2>3. CASE DisconnectTip
    BY <2>3, <1>Begins, <2>1 DEF DisconnectTip, OnTip, Blocks
  <2> QED BY <2>2, <2>3
(* The coins are written. *)
<1>FlushKeeps. ASSUME BlockInv, FlushCoins PROVE BlockInv'
  <2> USE <1>FlushKeeps
  <2>1. /\ best \in [{"db", "tip", "view"} -> Block]
        /\ best' = [best EXCEPT !["db"] = best["tip"]]
        /\ UNCHANGED <<undo, vtxundo, job, verify>>
    BY DEF BlockInv, OnTip, FlushCoins
  <2>3. OnTip'
    BY <2>1 DEF BlockInv, OnTip, HasUndo
  <2> QED BY <2>1, <2>3, <1>Parts DEF BlockInv
(* A step that changes nothing of it keeps the invariant. *)
<1>StutterKeeps. ASSUME BlockInv, UNCHANGED blockVars PROVE BlockInv'
  <2> USE <1>StutterKeeps
  <2>1. UNCHANGED <<best, undo, vtxundo, job, verify>>
    BY DEF blockVars
  <2>2. OnTip'
    BY <2>1 DEF BlockInv, OnTip, HasUndo
  <2> QED BY <2>1, <2>2, <1>Parts DEF BlockInv
<1> SUFFICES ASSUME IInv, BlockInv, BlockNext \/ UNCHANGED blockVars
             PROVE  BlockInv'
  OBVIOUS
<1>1. CASE (\E b \in Block : ConnectTip(b)) \/ DisconnectTip
  BY <1>1, <1>TipKeeps
<1>2. CASE CheckKernel \/ CheckBIP30 \/ CheckInput \/ SpendInput \/ CreateOutputs
  BY <1>2, <1>KernelKeeps, <1>BIP30Keeps, <1>InputKeeps, <1>SpendKeeps, <1>CreateKeeps
<1>3. CASE Connected \/ Disconnected \/ RemoveOutputs \/ RestoreInput
  BY <1>3, <1>ConnectedKeeps, <1>DisconnectedKeeps, <1>RemoveKeeps, <1>RestoreKeeps
<1>4. CASE Refused
  <2>1. UNCHANGED <<best, undo>> /\ job' = NoJob /\ verify' = "no"
    BY <1>4 DEF Refused
  <2>2. best' \in [{"db", "tip", "view"} -> Block]
    BY <2>1 DEF BlockInv, OnTip
  <2> QED BY <2>1, <2>2, <1>EndKeeps
<1>5. CASE VerifyDB \/ VerifyDisconnected \/ VerifyConnected
  BY <1>5, <1>VerifyKeeps
<1>6. ASSUME NEW t \in Tx, ReadCoins(t) PROVE BlockInv'
  BY <1>6, <1>StutterKeeps DEF ReadCoins
<1>7. CASE FlushCoins
  BY <1>7, <1>FlushKeeps
<1>8. CASE Restart
  <2>2. /\ best' \in [{"db", "tip", "view"} -> Block]
        /\ best'["db"] = best["db"] /\ best'["tip"] = best["db"]
    BY <1>8 DEF Restart, BlockInv, OnTip
  <2> QED BY <1>EndKeeps, <1>8, <2>2 DEF Restart
<1> QED
  BY <1>1, <1>2, <1>3, <1>4, <1>5, <1>6, <1>7, <1>8, <1>StutterKeeps DEF BlockNext

(* It holds at the start.                                                  *)
LEMMA BlockInitOK == BlockInit => Init /\ IInv /\ BlockInv
<1> SUFFICES ASSUME BlockInit PROVE IInv /\ BlockInv
  BY DEF BlockInit
<1> QED BY InitOK, BlockAssumption DEF BlockInv, BlockInit, JobType, VtxundoType, ConnectSteps,
     DisconnectSteps, OnTip, HasUndo, Blocks, AnyUndo, UndoType, NoJob
=============================================================================
