------------------------------ MODULE Mempool ------------------------------
(***************************************************************************)
(* The memory pool (txmempool.cpp) and what main.cpp does to it: accepting *)
(* a transaction, connecting and disconnecting blocks, and cleaning up     *)
(* after a reorganization.  All of it runs under cs_main; what one call    *)
(* still has to do before it releases the lock is in work.                 *)
(*                                                                         *)
(* A block is connected where its inputs are unspent (module BlockCoins    *)
(* says how the coins follow).  Every transaction has the same size, so    *)
(* that the totals of sizes and of signature operations are the counts;    *)
(* of the fees only what prioritisetransaction adds is represented.        *)
(* Memory is measured in transactions.  Fee and standardness policy may    *)
(* refuse any transaction.  The lock time stands for nLockTime and for the *)
(* relative locks.  The spender of an output in the pool (mapNextTx) is    *)
(* looked up among the inputs.                                             *)
(***************************************************************************)
EXTENDS Integers, Sequences, SequencesExt, FiniteSets, FiniteSetsExt

CONSTANTS Tx, Block, Root, Prev, Height,
          vtx,          \* the transactions of each block, in order
          vin,          \* the inputs of each transaction: <<transaction, n>>
          vout,         \* the numbers of its outputs
          LockTime,     \* the last height at which it is not final
          CoinBase, CoinStake, nCoinbaseMaturity,
          nLimitAncestors, nLimitDescendants,
          SizeLimit,    \* -maxmempool
          MaxPrioritise \* bound on the calls of prioritisetransaction

ASSUME MempoolAssumption ==
  /\ IsFiniteSet(Tx) /\ Root \in Block
  /\ Prev \in [Block \ {Root} -> Block] /\ Height \in [Block -> Nat]
  /\ \A b \in Block \ {Root} : Height[b] = Height[Prev[b]] + 1
  /\ vtx \in [Block -> Seq(Tx)]
  /\ vin \in [Tx -> SUBSET (Tx \X Nat)] /\ vout \in [Tx -> SUBSET Nat]
  /\ CoinBase \cap CoinStake = {} /\ \A t \in CoinBase : vin[t] = {}

VARIABLES pool,     \* the CTxMemPool
          tip,      \* the best block
          reorg,    \* whether the call in progress has disconnected a block
          work,     \* what it has still to do
          nCalls    \* calls of prioritisetransaction so far

vars == <<pool, tip, reorg, work, nCalls>>

-----------------------------------------------------------------------------
(* The coins at a block. *)

Unspent[b \in Block] ==
  LET txs == Range(vtx[b])
      before == IF b = Root THEN {} ELSE Unspent[Prev[b]]
      made == UNION {{<<t, n>> : n \in vout[t]} : t \in txs}
  IN (before \cup made) \ UNION {vin[t] : t \in txs}

Chain[b \in Block] == IF b = Root THEN {b} ELSE {b} \cup Chain[Prev[b]]
HeightOf(t, b) == Height[CHOOSE c \in Chain[b] : t \in Range(vtx[c])]

HaveCoins(t, b) == \E n \in vout[t] : <<t, n>> \in Unspent[b]

(* Whether t is deep enough for a block at height nSpendHeight on top of b *)
(* by the nCoinbaseMaturity of the chain parameters, as removeForReorg has *)
(* it.                                                                     *)
Mature(t, b, nSpendHeight) == nSpendHeight - HeightOf(t, b) >= nCoinbaseMaturity
-----------------------------------------------------------------------------
(* The pool as a value.  Entries that are not in tx are blank.             *)

EmptyPool ==
  [tx |-> {},                              \* mapTx
   parents |-> [t \in Tx |-> {}],          \* mapLinks
   children |-> [t \in Tx |-> {}],
   nAncestors |-> [t \in Tx |-> 0],        \* nCountWithAncestors
   nDescendants |-> [t \in Tx |-> 0],      \* nCountWithDescendants
   feeAncestors |-> [t \in Tx |-> 0],      \* nModFeesWithAncestors
   feeDescendants |-> [t \in Tx |-> 0],    \* nModFeesWithDescendants
   deltas |-> [t \in Tx |-> 0],            \* mapDeltas
   spendsCoinbase |-> {}]                  \* the entries with that flag

Inputs(t) == {p[1] : p \in vin[t]}
Spenders(p, t) == {u \in p.tx : t \in Inputs(u)}

(* What can be reached from S in steps of next, S included.                *)
Reach(next, S) ==
  LET within[n \in Nat] ==
        IF n = 0 THEN S
        ELSE LET nearer == within[n - 1] IN nearer \cup UNION {next[t] : t \in nearer}
  IN within[Cardinality(Tx)]

(* CalculateMemPoolAncestors without fSearchForParents.                    *)
Ancestors(p, t) == Reach(p.parents, p.parents[t])
CalculateDescendants(p, S) == Reach(p.children, S)

SumOver(f, S) == MapThenSumSet(LAMBDA t : f[t], S)
Plus(f, S, n) == [t \in Tx |-> IF t \in S THEN f[t] + n ELSE f[t]]

(* The parents CalculateMemPoolAncestors searches for, and beyond.         *)
NewParents(p, t) == p.tx \cap Inputs(t)
NewAncestors(p, t) == Reach(p.parents, NewParents(p, t))

(* A new entry is taken to have no children.                               *)
addUnchecked(p, t, spendsCoinbase) ==
  LET par == NewParents(p, t)
      anc == NewAncestors(p, t)
  IN [p EXCEPT
        !.tx = @ \cup {t},
        !.parents[t] = par,
        !.children = [u \in Tx |-> IF u \in par THEN @[u] \cup {t} ELSE @[u]],
        !.nAncestors[t] = 1 + Cardinality(anc),
        !.nDescendants = [Plus(@, anc, 1) EXCEPT ![t] = 1],
        !.feeAncestors[t] = SumOver(p.deltas, anc \cup {t}),
        !.feeDescendants = [Plus(@, anc, p.deltas[t]) EXCEPT ![t] = p.deltas[t]],
        !.spendsCoinbase = IF spendsCoinbase THEN @ \cup {t} ELSE @]

(* UpdateForRemoveFromMempool: the totals of what is above and, if         *)
(* descendants stay, of what is below the entries in stage ...             *)
TotalsForRemoval(p, stage, updateDescendants) ==
  LET above(t) == {r \in stage : t \in Ancestors(p, r)}
      below(t) == {r \in stage : updateDescendants
                                 /\ t \in CalculateDescendants(p, {r}) \ {r}}
  IN [p EXCEPT
        !.nAncestors = [t \in Tx |-> @[t] - Cardinality(below(t))],
        !.feeAncestors = [t \in Tx |-> @[t] - SumOver(p.deltas, below(t))],
        !.nDescendants = [t \in Tx |-> @[t] - Cardinality(above(t))],
        !.feeDescendants = [t \in Tx |-> @[t] - SumOver(p.deltas, above(t))]]

(* Mutated form of SeverLinks: the children keep their parent.             *)
KeepsParents(p, stage) ==
  [p EXCEPT !.children = [t \in Tx |-> @[t] \ {r \in stage : t \in p.parents[r]}]]

(* ... and the links to them.                                              *)
SeverLinks(p, stage) ==
  [p EXCEPT !.children = [t \in Tx |-> @[t] \ {r \in stage : t \in p.parents[r]}],
            !.parents = [t \in Tx |-> @[t] \ {r \in stage : t \in p.children[r]}]]

removeUnchecked(p, stage) ==
  LET Blank(f, default) == [t \in Tx |-> IF t \in stage THEN default ELSE f[t]]
  IN [p EXCEPT
        !.tx = @ \ stage, !.spendsCoinbase = @ \ stage,
        !.parents = Blank(@, {}), !.children = Blank(@, {}),
        !.nAncestors = Blank(@, 0), !.nDescendants = Blank(@, 0),
        !.feeAncestors = Blank(@, 0), !.feeDescendants = Blank(@, 0)]

RemoveStaged(p, stage, updateDescendants) ==
  removeUnchecked(SeverLinks(TotalsForRemoval(p, stage, updateDescendants), stage), stage)

(* Mutated form of removeRecursive: only for a transaction of the pool.    *)
KeepsOrphans(p, t) ==
  IF t \in p.tx THEN RemoveStaged(p, CalculateDescendants(p, {t}), FALSE) ELSE p

(* A transaction and what depends on it; the latter also when the          *)
(* transaction itself is not in the pool.                                  *)
removeRecursive(p, t) ==
  LET txToRemove == IF t \in p.tx THEN {t} ELSE Spenders(p, t)
  IN RemoveStaged(p, CalculateDescendants(p, txToRemove), FALSE)

ClearPrioritisation(p, S) == [p EXCEPT !.deltas = [t \in Tx |-> IF t \in S THEN 0 ELSE @[t]]]

(* The other transactions of the pool that spend an input of t.  The hash  *)
(* whose fee delta is cleared is read from the entry that was just erased: *)
(* it is the right one for some of them (forgotten) only.                  *)
Conflicts(p, t) == {u \in p.tx : vin[u] \cap vin[t] /= {}}
removeConflicts(p, t, forgotten) ==
  LET conflicts == Conflicts(p, t) \ {t}
      stage == CalculateDescendants(p, conflicts)
  IN ClearPrioritisation(RemoveStaged(p, stage, FALSE), conflicts \cap forgotten)

(* removeForBlock, for each transaction of the block.                      *)
removeForBlock(p, b, forgotten) ==
  LET remove(q, t) ==
        LET confirmed == IF t \in q.tx THEN RemoveStaged(q, {t}, TRUE) ELSE q
        IN ClearPrioritisation(removeConflicts(confirmed, t, forgotten), {t})
  IN FoldLeft(remove, p, vtx[b])

(* Mutated form of Outside: everything below counts.                       *)
Everything(p, t, setAlreadyIncluded) == CalculateDescendants(p, {t}) \ {t}

(* The descendants UpdateForDescendants adds to the totals.                *)
Outside(p, t, setAlreadyIncluded) ==
  (CalculateDescendants(p, {t}) \ {t}) \ setAlreadyIncluded

(* UpdateTransactionsFromBlock, for one transaction: its children outside  *)
(* the block are linked, then UpdateForDescendants (its cache of sets that *)
(* it has computed before is left out).                                    *)
UpdateFromBlock(p, t, setAlreadyIncluded) ==
  LET new == Spenders(p, t) \ setAlreadyIncluded
      q == [p EXCEPT !.children[t] = @ \cup new,
                     !.parents = [u \in Tx |-> IF u \in new THEN @[u] \cup {t} ELSE @[u]]]
      below == Outside(q, t, setAlreadyIncluded)
  IN [q EXCEPT !.nAncestors = Plus(@, below, 1),
               !.feeAncestors = Plus(@, below, p.deltas[t]),
               !.nDescendants[t] = @ + Cardinality(below),
               !.feeDescendants[t] = @ + SumOver(p.deltas, below)]

UpdateTransactionsFromBlock(p, hashes) ==
  FoldLeft(LAMBDA q, t : UpdateFromBlock(q, t, Range(hashes)), p, Reverse(hashes))
-----------------------------------------------------------------------------
(* AcceptToMemoryPool. *)

Init ==
  /\ pool = EmptyPool /\ tip = Root
  /\ reorg = FALSE /\ work = <<>> /\ nCalls = 0

IsFinal(t, nBlockHeight) == LockTime[t] < nBlockHeight

(* CalculateMemPoolAncestors: within the limits.                           *)
WithinLimits(p, t) ==
  LET anc == NewAncestors(p, t) IN
  /\ Cardinality(anc) + 1 <= nLimitAncestors
  /\ \A u \in anc : p.nDescendants[u] + 1 <= nLimitDescendants

(* What AcceptToMemoryPool asks for besides the policy, when the coins are *)
(* those at block b and chainActive has height nHeight.  CheckTxInputs is  *)
(* in namespace Consensus, where Params() makes a new Consensus::Params    *)
(* with every member zero: a coinbase or coinstake of depth 0 is mature,   *)
(* and no unspent coin is less deep.                                       *)
Acceptable(p, t, b, nHeight) ==
  /\ vin[t] /= {} /\ t \notin CoinBase \cup CoinStake \cup p.tx
  /\ IsFinal(t, nHeight + 1)
  /\ Conflicts(p, t) = {}
  /\ ~HaveCoins(t, b)
  /\ \A o \in vin[t] :
       IF o[1] \in p.tx THEN o[2] \in vout[o[1]] ELSE o \in Unspent[b]
  /\ WithinLimits(p, t)

SpendsCoinbase(t) == Inputs(t) \cap CoinBase /= {}

Idle == work = <<>> /\ ~reorg

(* A transaction from a peer, a wallet or an RPC.                          *)
AcceptToMemoryPool(t) ==
  /\ Idle /\ Acceptable(pool, t, tip, Height[tip])
  /\ pool' = addUnchecked(pool, t, SpendsCoinbase(t))
  /\ work' = <<"Expire", "TrimToSize">>
  /\ UNCHANGED <<tip, reorg, nCalls>>

(* LimitMempoolSize.  Any entries may be too old, and any may have the     *)
(* lowest descendant score.                                                *)
Expire(old) ==
  /\ work /= <<>> /\ Head(work) = "Expire"
  /\ pool' = RemoveStaged(pool, CalculateDescendants(pool, old), FALSE)
  /\ work' = Tail(work)
  /\ UNCHANGED <<tip, reorg, nCalls>>

TrimToSize ==
  /\ work /= <<>> /\ Head(work) = "TrimToSize"
  /\ \/ /\ Cardinality(pool.tx) > SizeLimit
        /\ \E t \in pool.tx :
             pool' = RemoveStaged(pool, CalculateDescendants(pool, {t}), FALSE)
        /\ UNCHANGED work
     \/ /\ Cardinality(pool.tx) <= SizeLimit
        /\ work' = Tail(work) /\ UNCHANGED pool
  /\ UNCHANGED <<tip, reorg, nCalls>>

(* prioritisetransaction: the totals of the descendants are left alone.    *)
PrioritiseTransaction(t) ==
  /\ Idle /\ nCalls < MaxPrioritise /\ nCalls' = nCalls + 1
  /\ pool' = IF t \notin pool.tx THEN [pool EXCEPT !.deltas[t] = @ + 1]
             ELSE [pool EXCEPT
                     !.deltas[t] = @ + 1, !.feeAncestors[t] = @ + 1,
                     !.feeDescendants = Plus(@, Ancestors(pool, t) \cup {t}, 1)]
  /\ UNCHANGED <<tip, reorg, work>>
-----------------------------------------------------------------------------
(* Blocks. *)

(* A step of ActivateBestChain connects a block, also after it has         *)
(* disconnected others.                                                    *)
ConnectTip(b) ==
  /\ work = <<>> /\ b /= Root /\ Prev[b] = tip
  /\ \E forgotten \in SUBSET {t \in pool.tx : pool.deltas[t] /= 0} :
       pool' = removeForBlock(pool, b, forgotten)
  /\ tip' = b
  /\ UNCHANGED <<reorg, work, nCalls>>

(* DisconnectTip.  The transactions of the block go back to the pool as    *)
(* far as they are accepted (chainActive still has the block), and what    *)
(* depends on the others leaves it.                                        *)
DisconnectTip(refused) ==
  LET b == Prev[tip]
      resurrect(s, t) ==
        IF t \notin refused /\ Acceptable(s.pool, t, b, Height[tip])
        THEN [pool |-> addUnchecked(s.pool, t, SpendsCoinbase(t)),
              vHashUpdate |-> Append(s.vHashUpdate, t)]
        ELSE [s EXCEPT !.pool = removeRecursive(@, t)]
      done == FoldLeft(resurrect, [pool |-> pool, vHashUpdate |-> <<>>], vtx[tip])
  IN /\ work = <<>> /\ tip /= Root
     /\ pool' = UpdateTransactionsFromBlock(done.pool, done.vHashUpdate)
     /\ tip' = b /\ reorg' = TRUE
     /\ UNCHANGED <<work, nCalls>>

(* The end of ActivateBestChainStep that has disconnected blocks, and of   *)
(* InvalidateBlock, which cleans up in another order.                      *)
EndOfStep ==
  /\ reorg /\ reorg' = FALSE
  /\ work = <<>> /\ work' = <<"removeForReorg", "Expire", "TrimToSize">>
  /\ UNCHANGED <<pool, tip, nCalls>>

EndOfInvalidate ==
  /\ reorg' = FALSE
  /\ work = <<>> /\ work' = <<"Expire", "TrimToSize", "removeForReorg">>
  /\ UNCHANGED <<pool, tip, nCalls>>

(* Mutated form of NoLongerMinable: the lock times are not looked at.      *)
OnlyImmature(t) ==
  t \in pool.spendsCoinbase /\ \E o \in vin[t] :
     /\ o[1] \notin pool.tx
     /\ HaveCoins(o[1], tip) => /\ o[1] \in CoinBase \cup CoinStake
                                /\ ~Mature(o[1], tip, Height[tip] + 1)

(* The entries removeForReorg removes; the inputs are looked at again only *)
(* for those with the flag.                                                *)
NoLongerMinable(t) ==
  \/ ~IsFinal(t, Height[tip] + 1)
  \/ t \in pool.spendsCoinbase /\ \E o \in vin[t] :
       /\ o[1] \notin pool.tx
       /\ HaveCoins(o[1], tip) => /\ o[1] \in CoinBase \cup CoinStake
                                  /\ ~Mature(o[1], tip, Height[tip] + 1)

removeForReorg ==
  /\ work /= <<>> /\ Head(work) = "removeForReorg"
  /\ LET transactionsToRemove == {t \in pool.tx : NoLongerMinable(t)}
     IN pool' = RemoveStaged(pool, CalculateDescendants(pool, transactionsToRemove), FALSE)
  /\ work' = Tail(work)
  /\ UNCHANGED <<tip, reorg, nCalls>>

Next ==
  \/ \E t \in Tx : AcceptToMemoryPool(t) \/ PrioritiseTransaction(t)
  \/ \E old \in SUBSET pool.tx : Expire(old)
  \/ TrimToSize
  \/ \E b \in Block : ConnectTip(b)
  \/ \E refused \in SUBSET Range(vtx[tip]) : DisconnectTip(refused)
  \/ EndOfStep \/ EndOfInvalidate \/ removeForReorg

Spec == Init /\ [][Next]_vars
-----------------------------------------------------------------------------
(* The type of the state; the totals are at least one, as the assertions   *)
(* of UpdateDescendantState and UpdateAncestorState require.               *)
TypeOK ==
  /\ pool.tx \subseteq Tx /\ pool.spendsCoinbase \subseteq pool.tx
  /\ pool.parents \in [Tx -> SUBSET pool.tx] /\ pool.children \in [Tx -> SUBSET pool.tx]
  /\ \A t \in pool.tx : pool.nAncestors[t] >= 1 /\ pool.nDescendants[t] >= 1
  /\ tip \in Block /\ reorg \in BOOLEAN /\ nCalls \in 0 .. MaxPrioritise
  /\ work \in Seq({"Expire", "TrimToSize", "removeForReorg"})

(* CTxMemPool::check: every input of the pool is an output of the pool or  *)
(* an unspent coin of the best chain, none is spent twice, and no          *)
(* transaction of the pool is in a block of the best chain.  It holds in   *)
(* the middle of a reorganization as well.                                 *)
InputsAvailable ==
  \A t \in pool.tx :
    /\ Conflicts(pool, t) = {t}
    /\ \A o \in vin[t] : IF o[1] \in pool.tx THEN o[2] \in vout[o[1]] ELSE o \in Unspent[tip]
    /\ \A b \in Chain[tip] : t \notin Range(vtx[b])

(* CTxMemPool::check: the links are those that the inputs say.             *)
LinksExact ==
  \A t \in pool.tx : /\ pool.parents[t] = pool.tx \cap Inputs(t)
                     /\ pool.children[t] = Spenders(pool, t)

(* The transactions of the pool that t depends on, from the inputs alone,  *)
(* and those that depend on it.                                            *)
Above(t) == Reach([u \in Tx |-> pool.tx \cap Inputs(u)], {t})
Below(t) == Reach([u \in Tx |-> Spenders(pool, u)], {t})

(* CTxMemPool::check: however transactions were added, confirmed, taken    *)
(* back from blocks, evicted and prioritised, the totals the limits and    *)
(* the eviction go by count every ancestor and every descendant once.      *)
TotalsExact ==
  \A t \in pool.tx : /\ pool.nAncestors[t] = Cardinality(Above(t))
                     /\ pool.nDescendants[t] = Cardinality(Below(t))
                     /\ pool.feeDescendants[t] = SumOver(pool.deltas, Below(t))

(* Between two calls everything in the pool is final for the next block,   *)
(* also after the chain has become shorter: "no-longer-final transactions" *)
(* are removed by removeForReorg, whose flags are those of acceptance.     *)
FinalAlways == Idle => \A t \in pool.tx : IsFinal(t, Height[tip] + 1)

(* CheckTxInputs: "If prev is coinbase or coinstake, check that it's       *)
(* matured": between two calls nothing in the pool spends an immature      *)
(* coinbase or coinstake of the best chain.                                *)
SpendsMatured ==
  Idle => \A t \in pool.tx : \A o \in vin[t] :
            o[1] \in (CoinBase \cup CoinStake) \ pool.tx => Mature(o[1], tip, Height[tip] + 1)
=============================================================================
