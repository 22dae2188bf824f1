----------------------------- MODULE ChainState -----------------------------
(***************************************************************************)
(* The block index and the choice of the active chain (src/src/main.cpp):  *)
(* headers and blocks enter mapBlockIndex in any order, blocks whose       *)
(* ancestors' transactions are all there become candidates, and            *)
(* ActivateBestChain moves chainActive to the best candidate, one          *)
(* ActivateBestChainStep per acquisition of cs_main.  An operator may      *)
(* invalidate and reconsider blocks, and a pruning node deletes old block  *)
(* files.                                                                  *)
(*                                                                         *)
(* A block is a name.  Its parent, height, chain work and the verdicts of  *)
(* CheckBlock and ConnectBlock are constants: they are functions of the    *)
(* block.  chainActive is given by its tip, because SetTip fills vChain by *)
(* following pprev.  The threads are the message handler, the RPC threads, *)
(* the block import thread and the staker; each runs one call at a time.   *)
(* pindexBestHeader and pindexBestInvalid, which no decision made here     *)
(* reads, and the mempool and wallet callbacks are left out.               *)
(***************************************************************************)
EXTENDS Integers, FiniteSets

CONSTANTS
  Blocks, Genesis, NoBlock,
  Prev,             \* pprev of every block but Genesis
  Anc,              \* every block's ancestors, itself included
  Height,           \* nHeight
  ChainWork,        \* nChainWork
  Addr,             \* the order of the CBlockIndex objects in memory
  CheckBad,         \* blocks that fail CheckBlock or ContextualCheckBlock
  ConnectBad,       \* blocks that fail ConnectBlock
  InvalidateBlocks, ReconsiderBlocks, \* blocks an operator names in the RPCs
  Threads, NoThread,
  StakeThreads,     \* threads that may run CheckStake
  MIN_BLOCKS_TO_KEEP,
  PrunableBlocks,   \* blocks in files that FindFilesToPrune may select
  MaxSequenceId     \* bound on nBlockSequenceId

ASSUME TreeAssumption ==
  /\ Genesis \in Blocks /\ NoBlock \notin Blocks /\ IsFiniteSet(Blocks)
  /\ Prev \in [Blocks \ {Genesis} -> Blocks]
  /\ Anc \in [Blocks -> SUBSET Blocks] /\ Anc[Genesis] = {Genesis}
  /\ Height \in [Blocks -> Nat] /\ Height[Genesis] = 0
  /\ ChainWork \in [Blocks -> Nat] /\ Addr \in [Blocks -> Nat]
  /\ \A b \in Blocks \ {Genesis} :
       /\ Anc[b] = Anc[Prev[b]] \cup {b} /\ b \notin Anc[Prev[b]]
       /\ Height[b] = Height[Prev[b]] + 1
       /\ ChainWork[b] > ChainWork[Prev[b]]      \* GetBlockProof is positive
  /\ \A b \in Blocks :
       /\ {Genesis, b} \subseteq Anc[b]
       /\ \A x, y \in Anc[b] : Anc[x] \subseteq Anc[b] /\ (x \in Anc[y] \/ y \in Anc[x])
ASSUME ThreadsAssumption ==
  NoThread \notin Threads /\ StakeThreads \subseteq Threads
ASSUME InputsAssumption ==
  /\ CheckBad \subseteq Blocks \ {Genesis} /\ ConnectBad \subseteq Blocks \ {Genesis}
  /\ InvalidateBlocks \subseteq Blocks \ {Genesis} /\ ReconsiderBlocks \subseteq Blocks
  /\ PrunableBlocks \subseteq Blocks
  /\ MIN_BLOCKS_TO_KEEP \in Nat \ {0} /\ MaxSequenceId \in Nat

\* BLOCK_VALID_* levels; 0 stands for a block that is not in mapBlockIndex.
UNKNOWN == 0
VALID_TREE == 2
VALID_TRANSACTIONS == 3
VALID_SCRIPTS == 5

VARIABLES
  validity,                 \* nStatus & BLOCK_VALID_MASK
  haveData,                 \* blocks with BLOCK_HAVE_DATA
  failedValid, failedChild, \* blocks with BLOCK_FAILED_VALID, BLOCK_FAILED_CHILD
  linked,                   \* blocks with nChainTx /= 0
  nSequenceId, nBlockSequenceId,
  setBlockIndexCandidates,
  mapBlocksUnlinked,        \* the second components; the first is the parent
  tip,                      \* chainActive.Tip()
  cs_main,                  \* the thread that holds the lock
  th,                       \* the calls in progress
  aborted                   \* AbortNode was called

statusVars == <<validity, haveData, failedValid, failedChild>>
linkVars == <<linked, nSequenceId, nBlockSequenceId, mapBlocksUnlinked>>
vars == <<statusVars, linkVars, setBlockIndexCandidates, tip, cs_main, th, aborted>>

mapBlockIndex == {b \in Blocks : validity[b] >= VALID_TREE}
Processed == {b \in Blocks : validity[b] >= VALID_TRANSACTIONS}     \* nTx > 0
Failed == failedValid \cup failedChild                   \* BLOCK_FAILED_MASK
RaiseBelow(b, level) == [validity EXCEPT ![b] = IF @ < level THEN level - 1 ELSE @]
Raise(b, level) == [validity EXCEPT ![b] = IF @ < level THEN level ELSE @]

(***************************************************************************)
(* A thread is idle or inside a call.  pc: "top" is the head of the loop   *)
(* of ActivateBestChain, "find" is FindMostWorkChain, "step" the start of  *)
(* ActivateBestChainStep and "switch" its loops, "invalidate" the loop of  *)
(* InvalidateBlock.  outer: the caller (CheckStake) itself holds cs_main.  *)
(***************************************************************************)
Idle == [pc |-> "idle", pindexMostWork |-> NoBlock, pindexOldTip |-> NoBlock,
         pblock |-> NoBlock, outer |-> FALSE]
Activate(b, out) == [Idle EXCEPT !.pc = "top", !.pblock = b, !.outer = out]
Goto(t, pc) == th' = [th EXCEPT ![t].pc = pc]
Return(t) == th' = [th EXCEPT ![t] = Idle] /\ cs_main' = NoThread

CanEnter(t) == ~aborted /\ cs_main = NoThread /\ th[t].pc = "idle"
Running(t, pc) == ~aborted /\ cs_main = t /\ th[t].pc = pc

(***************************************************************************)
(* CBlockIndexWorkComparator: a sorts before b.                            *)
(***************************************************************************)
WorseBy(seq, a, b) ==
  \/ ChainWork[a] < ChainWork[b]
  \/ ChainWork[a] = ChainWork[b] /\ seq[a] > seq[b]
  \/ ChainWork[a] = ChainWork[b] /\ seq[a] = seq[b] /\ Addr[a] > Addr[b]
Worse(a, b) == WorseBy(nSequenceId, a, b)

Init ==
  /\ validity = [b \in Blocks |-> IF b = Genesis THEN VALID_SCRIPTS ELSE UNKNOWN]
  /\ haveData = {Genesis} /\ failedValid = {} /\ failedChild = {}
  /\ linked = {Genesis} /\ nBlockSequenceId = 2
  /\ nSequenceId = [b \in Blocks |-> IF b = Genesis THEN 1 ELSE 0]
  /\ setBlockIndexCandidates = {Genesis} /\ mapBlocksUnlinked = {}
  /\ tip = Genesis /\ cs_main = NoThread /\ aborted = FALSE
  /\ th = [t \in Threads |-> Idle]

-----------------------------------------------------------------------------
(* Headers and blocks arrive.                                              *)

(***************************************************************************)
(* AcceptBlockHeader: a known header is refused when it is marked failed,  *)
(* a new one when its parent is unknown or marked failed.  A header that   *)
(* violates a rule changes nothing and is not an input here.               *)
(***************************************************************************)
HeaderAccepted(b) ==
  IF b \in mapBlockIndex THEN b \notin Failed
  ELSE Prev[b] \in mapBlockIndex \ Failed

\* A HEADERS message.  A block whose body is mutated, or that is a
\* proof-of-work block above nLastPOWBlock, leaves the same trace.
AcceptBlockHeader(t, b) ==
  /\ CanEnter(t) /\ b \notin mapBlockIndex /\ HeaderAccepted(b)
  /\ validity' = Raise(b, VALID_TREE)
  /\ UNCHANGED <<haveData, failedValid, failedChild, linkVars,
                 setBlockIndexCandidates, tip, cs_main, th, aborted>>

\* AcceptBlock returns early, successfully.
NotProcessed(b, fRequested) ==
  \/ b \in haveData
  \/ /\ ~fRequested
     /\ \/ b \in Processed
        \/ ChainWork[b] <= ChainWork[tip]
        \/ Height[b] > Height[tip] + MIN_BLOCKS_TO_KEEP

(***************************************************************************)
(* ReceivedBlockTransactions links b if its parent is linked, and then the *)
(* descendants of b that wait in mapBlocksUnlinked, in breadth-first order.*)
(* The order of two blocks of the same height depends on the multimap.     *)
(***************************************************************************)
LinkedAlone(b) == IF b = Genesis \/ Prev[b] \in linked THEN {b} ELSE {}
NewlyLinked(b) ==
  IF b = Genesis \/ Prev[b] \in linked
  THEN {x \in Blocks : b \in Anc[x] /\ Anc[x] \ Anc[b] \subseteq mapBlocksUnlinked}
  ELSE {}

BreadthFirst(ids, S) ==
  \A x, y \in S : /\ x /= y => ids[x] /= ids[y]
                  /\ Height[x] < Height[y] => ids[x] < ids[y]

OneIdUsed(new) == IF new = {} THEN nBlockSequenceId ELSE nBlockSequenceId + 1
IdsUsed(new) == nBlockSequenceId + Cardinality(new)

ReceivedBlockTransactions(b) ==
  LET new == NewlyLinked(b) IN
  /\ validity' = Raise(b, VALID_TRANSACTIONS)
  /\ haveData' = haveData \cup {b}
  /\ nBlockSequenceId' = IdsUsed(new) /\ nBlockSequenceId' <= MaxSequenceId
  /\ \E ids \in [new -> nBlockSequenceId .. nBlockSequenceId + Cardinality(new) - 1] :
       /\ BreadthFirst(ids, new)
       /\ nSequenceId' = [x \in Blocks |-> IF x \in new THEN ids[x] ELSE nSequenceId[x]]
  /\ linked' = (linked \ {b}) \cup new
  /\ setBlockIndexCandidates' =
       setBlockIndexCandidates \cup {x \in new : ~WorseBy(nSequenceId', x, tip)}
  /\ mapBlocksUnlinked' =
       (mapBlocksUnlinked \ new)
         \cup (IF new = {} /\ Prev[b] \notin Failed THEN {b} ELSE {})

(***************************************************************************)
(* ProcessNewBlock stores the block in one critical section and then calls *)
(* ActivateBestChain.  CheckStake calls it with cs_main held, for a block  *)
(* on top of the active chain that the node itself has made.               *)
(***************************************************************************)
Caller(t, b, fRequested, out) ==
  out => t \in StakeThreads /\ fRequested /\ b /= Genesis /\ Prev[b] = tip

ProcessKnownBlock(t, b, fRequested, out) ==
  /\ CanEnter(t) /\ Caller(t, b, fRequested, out)
  /\ HeaderAccepted(b) /\ NotProcessed(b, fRequested)
  /\ validity' = Raise(b, VALID_TREE)
  /\ th' = [th EXCEPT ![t] = Activate(b, out)]
  /\ cs_main' = IF out THEN t ELSE NoThread
  /\ UNCHANGED <<haveData, failedValid, failedChild, linkVars,
                 setBlockIndexCandidates, tip, aborted>>

ProcessInvalidBlock(t, b, fRequested, out) ==
  /\ CanEnter(t) /\ Caller(t, b, fRequested, out)
  /\ HeaderAccepted(b) /\ ~NotProcessed(b, fRequested) /\ b \in CheckBad
  /\ validity' = Raise(b, VALID_TREE)
  /\ failedValid' = failedValid \cup {b}
  /\ UNCHANGED <<haveData, failedChild, linkVars, setBlockIndexCandidates,
                 tip, cs_main, th, aborted>>

ProcessNewBlock(t, b, fRequested, out) ==
  /\ CanEnter(t) /\ Caller(t, b, fRequested, out)
  /\ HeaderAccepted(b) /\ ~NotProcessed(b, fRequested) /\ b \notin CheckBad
  /\ ReceivedBlockTransactions(b)
  /\ th' = [th EXCEPT ![t] = Activate(b, out)]
  /\ cs_main' = IF out THEN t ELSE NoThread
  /\ UNCHANGED <<failedValid, failedChild, tip, aborted>>

-----------------------------------------------------------------------------
(* ActivateBestChain.                                                      *)

\* The head of the loop takes cs_main.  pindexMostWork was cached when the
\* previous iteration released it.
LoopTop(t) ==
  /\ ~aborted /\ th[t].pc = "top" /\ cs_main \in {NoThread, t}
  /\ cs_main' = t
  /\ Goto(t, IF th[t].pindexMostWork = NoBlock THEN "find" ELSE "step")
  /\ UNCHANGED <<statusVars, linkVars, setBlockIndexCandidates, tip, aborted>>

Best(b) == b \in setBlockIndexCandidates
           /\ \A c \in setBlockIndexCandidates \ {b} : Worse(c, b)
\* What the walk from candidate b down to the active chain stumbles over, and
\* the block it stops at.
Unusable(b) == {x \in Anc[b] \ Anc[tip] : x \in Failed \/ x \notin haveData}
StopsAt(x, b) == x \in Unusable(b) /\ \A y \in Unusable(b) : Height[y] <= Height[x]

FindNothing(t) ==
  /\ Running(t, "find") /\ setBlockIndexCandidates = {}
  /\ Return(t)
  /\ UNCHANGED <<statusVars, linkVars, setBlockIndexCandidates, tip, aborted>>

FindMostWorkChain(t) ==
  /\ Running(t, "find")
  /\ \E b \in setBlockIndexCandidates :
       /\ Best(b) /\ Unusable(b) = {}
       /\ th' = [th EXCEPT ![t].pc = "step", ![t].pindexMostWork = b]
  /\ UNCHANGED <<statusVars, linkVars, setBlockIndexCandidates, tip, cs_main, aborted>>

\* One turn of the loop that drops an unusable candidate b and the blocks
\* between it and the unusable block x.
AllBelow(x, b) == Anc[b]
Above(x, b) == Anc[b] \ Anc[x]
NotRequeued(above) == mapBlocksUnlinked
Requeued(above) == mapBlocksUnlinked \cup above

DropCandidate(t) ==
  /\ Running(t, "find")
  /\ \E b \in setBlockIndexCandidates, x \in Blocks :
       LET above == Above(x, b) IN
       /\ Best(b) /\ StopsAt(x, b)
       /\ failedChild' = IF x \in Failed THEN failedChild \cup above ELSE failedChild
       /\ mapBlocksUnlinked' =
            IF x \in Failed THEN mapBlocksUnlinked ELSE Requeued(above)
       /\ setBlockIndexCandidates' = setBlockIndexCandidates \ (above \cup {x})
  /\ UNCHANGED <<validity, haveData, failedValid, linked, nSequenceId,
                 nBlockSequenceId, tip, cs_main, th, aborted>>

AlreadyActive(t) ==
  /\ Running(t, "step") /\ th[t].pindexMostWork = tip
  /\ Return(t)
  /\ UNCHANGED <<statusVars, linkVars, setBlockIndexCandidates, tip, aborted>>

ActivateBestChainStep(t) ==
  /\ Running(t, "step") /\ th[t].pindexMostWork /= tip
  /\ th' = [th EXCEPT ![t].pc = "switch", ![t].pindexOldTip = tip]
  /\ UNCHANGED <<statusVars, linkVars, setBlockIndexCandidates, tip, cs_main, aborted>>

\* The end of an iteration: cs_main is released, and the loop goes on unless
\* the new tip is the chain this thread was after.
EndLoop(t, mostWork, newTip) == Return(t)
EndStep(t, mostWork, newTip) ==
  IF newTip = mostWork THEN Return(t)
  ELSE /\ th' = [th EXCEPT ![t].pc = "top", ![t].pindexMostWork = mostWork,
                           ![t].pindexOldTip = NoBlock]
       /\ cs_main' = IF th[t].outer THEN t ELSE NoThread

AbortNode(t) == aborted' = TRUE /\ Return(t)

\* ReadBlockFromDisk fails on a pruned block.
DisconnectTip(t) ==
  /\ Running(t, "switch") /\ tip \notin Anc[th[t].pindexMostWork] /\ tip \in haveData
  /\ tip' = Prev[tip]
  /\ IF tip' = th[t].pindexMostWork
     THEN EndStep(t, th[t].pindexMostWork, tip')
     ELSE UNCHANGED <<cs_main, th>>
  /\ UNCHANGED <<statusVars, linkVars, setBlockIndexCandidates, aborted>>

DisconnectTipFails(t) ==
  /\ Running(t, "switch") /\ tip \notin Anc[th[t].pindexMostWork] /\ tip \notin haveData
  /\ AbortNode(t)
  /\ UNCHANGED <<statusVars, linkVars, setBlockIndexCandidates, tip>>

\* b is the next block to connect; it is in memory if it is the block that
\* this call of ActivateBestChain was given and its target.
ConnectsAnyOf(t, b) ==
  /\ Running(t, "switch") /\ b \in Anc[th[t].pindexMostWork] \ Anc[tip]
  /\ tip \in Anc[b]
Connects(t, b) ==
  /\ Running(t, "switch") /\ b \in Anc[th[t].pindexMostWork]
  /\ b /= Genesis /\ Prev[b] = tip
Readable(t, b) == \/ b \in haveData
                  \/ b = th[t].pindexMostWork /\ b = th[t].pblock

KeepAllCandidates(newTip) == setBlockIndexCandidates
KeepBetterCandidates(newTip) == {c \in setBlockIndexCandidates : Worse(newTip, c)}
PruneBlockIndexCandidates(newTip) ==
  {c \in setBlockIndexCandidates : ~Worse(c, newTip)}

\* The step is over: the target is reached or the old tip is outdone.
AsGoodAsOldTip(t, b) ==
  \/ b = th[t].pindexMostWork
  \/ ChainWork[b] >= ChainWork[th[t].pindexOldTip]
StepDone(t, b) ==
  \/ b = th[t].pindexMostWork
  \/ ChainWork[b] > ChainWork[th[t].pindexOldTip]

ConnectTip(t, b) ==
  /\ Connects(t, b) /\ Readable(t, b) /\ b \notin ConnectBad
  /\ tip' = b
  /\ validity' = IF b \in Failed THEN validity ELSE Raise(b, VALID_SCRIPTS)
  /\ setBlockIndexCandidates' = PruneBlockIndexCandidates(b)
  /\ IF StepDone(t, b)
     THEN EndStep(t, th[t].pindexMostWork, b)
     ELSE UNCHANGED <<cs_main, th>>
  /\ UNCHANGED <<haveData, failedValid, failedChild, linkVars, aborted>>

FailureForgotten(t, b) ==
  /\ Connects(t, b) /\ Readable(t, b) /\ b \in ConnectBad
  /\ EndStep(t, NoBlock, tip)
  /\ UNCHANGED <<statusVars, linkVars, setBlockIndexCandidates, tip, aborted>>
FailureOfChild(t, b) ==
  /\ Connects(t, b) /\ Readable(t, b) /\ b \in ConnectBad
  /\ failedChild' = failedChild \cup {b}
  /\ setBlockIndexCandidates' = setBlockIndexCandidates \ {b}
  /\ EndStep(t, NoBlock, tip)
  /\ UNCHANGED <<validity, haveData, failedValid, linkVars, tip, aborted>>
InvalidBlockFound(t, b) ==
  /\ Connects(t, b) /\ Readable(t, b) /\ b \in ConnectBad
  /\ failedValid' = failedValid \cup {b}
  /\ setBlockIndexCandidates' = setBlockIndexCandidates \ {b}
  /\ EndStep(t, NoBlock, tip)
  /\ UNCHANGED <<validity, haveData, failedChild, linkVars, tip, aborted>>

ConnectTipFails(t, b) ==
  /\ Connects(t, b) /\ ~Readable(t, b)
  /\ AbortNode(t)
  /\ UNCHANGED <<statusVars, linkVars, setBlockIndexCandidates, tip>>

-----------------------------------------------------------------------------
(* The operator: invalidateblock and reconsiderblock.                      *)

\* InvalidateBlock holds cs_main from here to its last step.
InvalidateBlock(t, b) ==
  /\ CanEnter(t) /\ b \in InvalidateBlocks \cap mapBlockIndex
  /\ failedValid' = failedValid \cup {b}
  /\ setBlockIndexCandidates' = setBlockIndexCandidates \ {b}
  /\ th' = [th EXCEPT ![t] = [Idle EXCEPT !.pc = "invalidate", !.pindexMostWork = b]]
  /\ cs_main' = t
  /\ UNCHANGED <<validity, haveData, failedChild, linkVars, tip, aborted>>

IsTip(t) == th[t].pindexMostWork = tip
StillActive(t) == th[t].pindexMostWork \in Anc[tip]

\* One turn of its loop; the block being invalidated is kept in pindexMostWork.
InvalidateTip(t) ==
  /\ Running(t, "invalidate") /\ StillActive(t) /\ tip \in haveData
  /\ failedChild' = failedChild \cup {tip}
  /\ setBlockIndexCandidates' = setBlockIndexCandidates \ {tip}
  /\ tip' = Prev[tip]
  /\ UNCHANGED <<validity, haveData, failedValid, linkVars, cs_main, th, aborted>>

InvalidateTipFails(t) ==
  /\ Running(t, "invalidate") /\ StillActive(t) /\ tip \notin haveData
  /\ failedChild' = failedChild \cup {tip}
  /\ setBlockIndexCandidates' = setBlockIndexCandidates \ {tip}
  /\ AbortNode(t)
  /\ UNCHANGED <<validity, haveData, failedValid, linkVars, tip>>

OnlyTipAgain == {tip}
NotReinstated == {}
Reinstated == {x \in (Processed \cap linked) \ Failed : ~Worse(x, tip)}

InvalidateEnd(t) ==
  /\ Running(t, "invalidate") /\ ~StillActive(t)
  /\ setBlockIndexCandidates' = setBlockIndexCandidates \cup Reinstated
  /\ th' = [th EXCEPT ![t] = Activate(NoBlock, FALSE)]
  /\ cs_main' = NoThread
  /\ UNCHANGED <<statusVars, linkVars, tip, aborted>>

ReconsideredUnlinked(reset) == {x \in reset \cap Processed : Worse(tip, x)}
Reconsidered(reset) == {x \in reset \cap Processed \cap linked : Worse(tip, x)}

ResetBlockFailureFlags(t, b) ==
  /\ CanEnter(t) /\ b \in ReconsiderBlocks \cap mapBlockIndex
  /\ LET below == {x \in mapBlockIndex : b \in Anc[x]}
         reset == below \cap (Failed \cup (mapBlockIndex \ Processed)) IN
     /\ failedValid' = failedValid \ (reset \cup Anc[b])
     /\ failedChild' = failedChild \ (reset \cup Anc[b])
     /\ setBlockIndexCandidates' = setBlockIndexCandidates \cup Reconsidered(reset)
  /\ th' = [th EXCEPT ![t] = Activate(NoBlock, FALSE)]
  /\ UNCHANGED <<validity, haveData, linkVars, tip, cs_main, aborted>>

(***************************************************************************)
(* FlushStateToDisk on a node that prunes; the calls of it in this module  *)
(* are made inside the loops of "switch" and "invalidate" and at the end   *)
(* of a critical section, and accepting a transaction calls it as well.    *)
(* One file holds one block.                                               *)
(***************************************************************************)
StillUnlinked(b) == mapBlocksUnlinked
NotUnlinked(b) == mapBlocksUnlinked \ {b}

PruneOneBlockFile(b) ==
  /\ ~aborted /\ b \in PrunableBlocks \cap haveData
  /\ \/ cs_main = NoThread
     \/ \E t \in Threads : Running(t, "switch") \/ Running(t, "invalidate")
  /\ Height[b] + MIN_BLOCKS_TO_KEEP <= Height[tip]
  /\ haveData' = haveData \ {b}
  /\ mapBlocksUnlinked' = NotUnlinked(b)
  /\ UNCHANGED <<validity, failedValid, failedChild, linked, nSequenceId,
                 nBlockSequenceId, setBlockIndexCandidates, tip, cs_main, th, aborted>>

-----------------------------------------------------------------------------
Receive(t) ==
  \E b \in Blocks :
    \/ AcceptBlockHeader(t, b)
    \/ \E fRequested, out \in BOOLEAN :
         \/ ProcessKnownBlock(t, b, fRequested, out)
         \/ ProcessInvalidBlock(t, b, fRequested, out)
         \/ ProcessNewBlock(t, b, fRequested, out)

Switch(t) ==
  \/ FindNothing(t) \/ FindMostWorkChain(t) \/ DropCandidate(t)
  \/ AlreadyActive(t) \/ ActivateBestChainStep(t)
  \/ DisconnectTip(t) \/ DisconnectTipFails(t)
  \/ \E b \in Blocks : ConnectTip(t, b) \/ InvalidBlockFound(t, b) \/ ConnectTipFails(t, b)
  \/ InvalidateTip(t) \/ InvalidateTipFails(t) \/ InvalidateEnd(t)

Operator(t) == \E b \in Blocks : InvalidateBlock(t, b) \/ ResetBlockFailureFlags(t, b)

Next ==
  \/ \E t \in Threads : Receive(t) \/ LoopTop(t) \/ Switch(t) \/ Operator(t)
  \/ \E b \in Blocks : PruneOneBlockFile(b)

Spec == Init /\ [][Next]_vars

(***************************************************************************)
(* A thread inside a call keeps running, and a thread that waits for       *)
(* cs_main gets it if it is free again and again.  Nobody has to send      *)
(* blocks or to call the RPCs.                                             *)
(***************************************************************************)
FairSpec == Spec /\ \A t \in Threads : WF_vars(Switch(t)) /\ SF_vars(LoopTop(t))

-----------------------------------------------------------------------------
TypeOK ==
  /\ validity \in [Blocks -> {UNKNOWN, VALID_TREE, VALID_TRANSACTIONS, VALID_SCRIPTS}]
  /\ haveData \subseteq Blocks /\ failedValid \subseteq Blocks /\ failedChild \subseteq Blocks
  /\ linked \subseteq Blocks /\ mapBlocksUnlinked \subseteq Blocks \ {Genesis}
  /\ nSequenceId \in [Blocks -> Nat] /\ nBlockSequenceId \in Nat
  /\ setBlockIndexCandidates \subseteq Blocks /\ tip \in Blocks
  /\ cs_main \in Threads \cup {NoThread} /\ aborted \in BOOLEAN
  /\ th \in [Threads ->
       [pc : {"idle", "top", "find", "step", "switch", "invalidate"},
        pindexMostWork : Blocks \cup {NoBlock}, pindexOldTip : Blocks \cup {NoBlock},
        pblock : Blocks \cup {NoBlock}, outer : BOOLEAN]]

Quiet == ~aborted /\ cs_main = NoThread /\ \A t \in Threads : th[t].pc = "idle"

\* CheckBlockIndex: a block is linked exactly when it and all its ancestors
\* were processed, and only linked blocks carry a sequence number.
LinkedExactly ==
  \A b \in Blocks : /\ b \in linked <=> Anc[b] \subseteq Processed
                    /\ b \notin linked => nSequenceId[b] = 0

\* ReceivedBlockTransactions: a linked block's ancestors are linked, the
\* candidates and the active chain are linked, and a linked block was processed.
LinkedSound ==
  /\ \A b \in linked : Anc[b] \subseteq linked /\ b \in Processed
  /\ setBlockIndexCandidates \cup {tip} \subseteq linked

\* "Every received block is assigned a unique and increasing identifier".
UniqueIds ==
  \A x, y \in linked :
    /\ nSequenceId[x] < nBlockSequenceId
    /\ x /= y => nSequenceId[x] /= nSequenceId[y]

Invalid(b) == Anc[b] \cap failedValid /= {}

\* CheckBlockIndex: a block at least as good as the tip whose chain is linked,
\* present and valid is a candidate, and so is the tip.
CandidatesComplete ==
  Quiet => \A b \in linked :
    ~Worse(b, tip) /\ ~Invalid(b) /\ (Anc[b] \subseteq haveData \/ b = tip)
      => b \in setBlockIndexCandidates

\* CheckBlockIndex: "If this block sorts worse than the current tip [...] it
\* cannot be in setBlockIndexCandidates".  Stated where no block is pruned:
\* with pruning, invalidateblock and two threads a candidate that was pruned
\* can be downloaded again and get a larger nSequenceId inside the set.
CandidatesSound == Quiet => \A b \in setBlockIndexCandidates : ~Worse(b, tip)

\* CheckBlockIndex: a stored block that waits for an ancestor is in
\* mapBlocksUnlinked.
UnlinkedComplete ==
  Quiet => \A b \in haveData :
    ~Invalid(b) /\ (b \in linked => /\ ~(Anc[b] \subseteq haveData) /\ ~Worse(b, tip)
                                    /\ b \notin setBlockIndexCandidates)
      => b \in mapBlocksUnlinked

\* CheckBlockIndex: mapBlocksUnlinked holds no block that could be linked or
\* is not stored.  Stated where invalidateblock is not called on a block that
\* waits there: ReceivedBlockTransactions does not queue the children of a
\* failed block, and their children then wait for good.
UnlinkedSound ==
  \A b \in mapBlocksUnlinked : b \in haveData /\ ~(Anc[b] \subseteq haveData)

\* CheckBlockIndex: a failure flag has a cause.
FailedHasCause == \A b \in Failed : Invalid(b)

\* FindMostWorkChain: "we know all blocks in [the active chain] are valid
\* already".  None of them is marked failed while nobody is working on it.
ActiveChainValid == Quiet => Anc[tip] \cap Failed = {}

\* PruneBlockIndexCandidates: the tip, or a successor of it, stays a candidate.
CandidatesNotEmpty ==
  (\A t \in Threads : th[t].pc /= "invalidate") => setBlockIndexCandidates /= {}

\* ActivateBestChain: when every call has returned, no chain that is present
\* and valid is better than the active one.
BestChainActive ==
  Quiet => \A b \in linked :
    Anc[b] \subseteq haveData /\ Anc[b] \cap (failedValid \cup ConnectBad) = {}
      => ~Worse(tip, b)

\* "We're in a better position than we were": a step that ends without having
\* met an invalid block leaves a better tip.
StepImproves ==
  [][\A t \in Threads :
       th[t].pc = "switch" /\ th'[t].pc /= "switch" /\ failedValid' = failedValid /\ ~aborted'
         => Worse(th[t].pindexOldTip, tip')]_vars

\* ConnectTip raises a block's validity on top of an equally valid parent.
ScriptsInherited ==
  \A b \in Blocks : validity[b] = VALID_SCRIPTS =>
    \A a \in Anc[b] : validity[a] = VALID_SCRIPTS

\* Every call returns.
CallsReturn == \A t \in Threads : th[t].pc /= "idle" ~> th[t].pc = "idle"
=============================================================================
