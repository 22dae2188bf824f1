-------------------------- MODULE ChainStateProofs --------------------------
(***************************************************************************)
(* Safety of ChainState for any block tree, any set of threads and any     *)
(* operator: the index stays linked and sequence numbers stay unique.  And *)
(* as long as nobody invalidates blocks by hand, no failed block is ever   *)
(* in the active chain, however the threads interleave.                    *)
(***************************************************************************)
EXTENDS ChainState, FiniteSetTheorems, TLAPS

Known == {"step", "switch"}

\* What a thread carries from one of its steps to the next.
ThreadInv ==
  \A t \in Threads :
    /\ th[t].pc \in Known => th[t].pindexMostWork \in linked
    /\ th[t].pc = "top" => th[t].pindexMostWork \in linked \cup {NoBlock}
    /\ th[t].pc = "invalidate" => th[t].pindexMostWork \in Blocks \ {Genesis}
    /\ th[t].pc = "switch" => th[t].pindexOldTip \in Blocks

UnlinkedProcessed == mapBlocksUnlinked \subseteq Processed

IInv == TypeOK /\ LinkedSound /\ UniqueIds /\ ThreadInv /\ UnlinkedProcessed

Levels == {UNKNOWN, VALID_TREE, VALID_TRANSACTIONS, VALID_SCRIPTS}

\* Facts about the tree.
LEMMA Tree ==
  /\ Genesis \in Blocks /\ NoBlock \notin Blocks
  /\ \A b \in Blocks : b \in Anc[b] /\ Genesis \in Anc[b] /\ Anc[b] \subseteq Blocks
  /\ \A b \in Blocks : \A x \in Anc[b] : Anc[x] \subseteq Anc[b]
  /\ \A b \in Blocks : \A x, y \in Anc[b] : x \in Anc[y] \/ y \in Anc[x]
  /\ \A b \in Blocks : b /= Genesis =>
       /\ Prev[b] \in Blocks /\ Prev[b] \in Anc[b]
       /\ Anc[b] = Anc[Prev[b]] \cup {b}
  /\ Anc[Genesis] = {Genesis}
<1>1. \A b \in Blocks : b \in Anc[b] /\ Genesis \in Anc[b] /\ Anc[b] \subseteq Blocks
  BY TreeAssumption
<1>2. \A b \in Blocks : \A x, y \in Anc[b] : Anc[x] \subseteq Anc[b] /\ (x \in Anc[y] \/ y \in Anc[x])
  BY TreeAssumption
<1>3. \A b \in Blocks : b /= Genesis =>
       /\ Prev[b] \in Blocks /\ Prev[b] \in Anc[b]
       /\ Anc[b] = Anc[Prev[b]] \cup {b}
  BY <1>1, TreeAssumption
<1> QED BY <1>1, <1>2, <1>3, TreeAssumption

\* No block is an ancestor of its ancestor.
LEMMA TreeAcyclic ==
  ASSUME NEW b \in Blocks, NEW x \in Blocks, x \in Anc[b], b \in Anc[x]
  PROVE  x = b
<1>1. CASE b = Genesis
  BY <1>1, Tree
<1>2. CASE b /= Genesis
  <2>1. Anc[b] = Anc[Prev[b]] \cup {b} /\ b \notin Anc[Prev[b]] /\ Prev[b] \in Blocks
    BY <1>2, TreeAssumption
  <2>2. x \in Anc[Prev[b]] => Anc[x] \subseteq Anc[Prev[b]]
    BY <2>1, Tree
  <2> QED BY <2>1, <2>2
<1> QED BY <1>1, <1>2

\* RaiseValidity never lowers the level of a block.
LEMMA RaiseKeeps ==
  ASSUME validity \in [Blocks -> Levels], NEW b \in Blocks, NEW l \in Levels,
         validity' = Raise(b, l)
  PROVE  /\ validity' \in [Blocks -> Levels]
         /\ \A x \in Blocks \ {b} : validity'[x] = validity[x]
         /\ validity'[b] >= validity[b] /\ validity'[b] >= l
         /\ validity'[b] \in {validity[b], l}
         /\ Processed \subseteq Processed'
         /\ (l \in {VALID_TRANSACTIONS, VALID_SCRIPTS}) => Processed' = Processed \cup {b}
         /\ l = VALID_TREE => Processed' = Processed
<1>1. validity' = [validity EXCEPT ![b] = IF validity[b] < l THEN l ELSE validity[b]]
  BY DEF Raise
<1>2. validity'[b] = IF validity[b] < l THEN l ELSE validity[b]
  BY <1>1
<1>3. \A x \in Blocks \ {b} : validity'[x] = validity[x]
  BY <1>1
<1>4. validity' \in [Blocks -> Levels]
  BY <1>1 DEF Levels, UNKNOWN, VALID_TREE, VALID_TRANSACTIONS, VALID_SCRIPTS
<1>5. \A x \in Blocks : validity[x] \in 0 .. 5
  BY DEF Levels, UNKNOWN, VALID_TREE, VALID_TRANSACTIONS, VALID_SCRIPTS
<1>6. l \in 0 .. 5
  BY DEF Levels, UNKNOWN, VALID_TREE, VALID_TRANSACTIONS, VALID_SCRIPTS
<1> QED BY <1>2, <1>3, <1>4, <1>5, <1>6
        DEF Processed, Levels, UNKNOWN, VALID_TREE, VALID_TRANSACTIONS, VALID_SCRIPTS

(* InitBlockIndex establishes the invariant.                               *)
THEOREM InitInv == Init => IInv
<1> SUFFICES ASSUME Init PROVE IInv
  OBVIOUS
<1>1. TypeOK
  BY Tree, Zenon DEF Init, TypeOK, Idle, UNKNOWN, VALID_TREE, VALID_TRANSACTIONS, VALID_SCRIPTS
<1>2. Genesis \in Processed
  BY Tree DEF Init, Processed, VALID_TRANSACTIONS, VALID_SCRIPTS
<1>3. LinkedSound
  BY <1>2, Tree DEF Init, LinkedSound
<1>4. UniqueIds
  BY Tree DEF Init, UniqueIds
<1>5. ThreadInv
  BY DEF Init, ThreadInv, Idle, Known
<1> QED BY <1>1, <1>3, <1>4, <1>5 DEF IInv, UnlinkedProcessed, Init

Calls == [pc : {"idle", "top", "find", "step", "switch", "invalidate"},
          pindexMostWork : Blocks \cup {NoBlock}, pindexOldTip : Blocks \cup {NoBlock},
          pblock : Blocks \cup {NoBlock}, outer : BOOLEAN]

\* The part of TypeOK that is not about the calls in progress.
DataOK ==
  /\ validity \in [Blocks -> Levels]
  /\ haveData \subseteq Blocks /\ failedValid \subseteq Blocks /\ failedChild \subseteq Blocks
  /\ linked \subseteq Blocks /\ mapBlocksUnlinked \subseteq Blocks \ {Genesis}
  /\ nSequenceId \in [Blocks -> Nat] /\ nBlockSequenceId \in Nat
  /\ setBlockIndexCandidates \subseteq Blocks /\ tip \in Blocks

(* The type invariant, with the threads apart from the data.               *)
LEMMA TypeSplit ==
  TypeOK <=> /\ DataOK /\ th \in [Threads -> Calls]
             /\ cs_main \in Threads \cup {NoThread} /\ aborted \in BOOLEAN
BY DEF TypeOK, DataOK, Levels, Calls

(* A thread outside of every call.                                         *)
LEMMA IdleCall == Idle \in Calls
BY DEF Idle, Calls

(* A thread that enters ActivateBestChain.                                 *)
LEMMA ActivateCall ==
  ASSUME NEW b \in Blocks \cup {NoBlock}, NEW out \in BOOLEAN
  PROVE  /\ Activate(b, out) \in Calls /\ Activate(b, out).pc = "top"
         /\ Activate(b, out).pindexMostWork = NoBlock
BY Zenon DEF Activate, Idle, Calls

\* What one thread carries.
CallOK(c) ==
  /\ c.pc \in Known => c.pindexMostWork \in linked
  /\ c.pc = "top" => c.pindexMostWork \in linked \cup {NoBlock}
  /\ c.pc = "invalidate" => c.pindexMostWork \in Blocks \ {Genesis}
  /\ c.pc = "switch" => c.pindexOldTip \in Blocks

(* One thread moves on, the others keep what they carry.                   *)
LEMMA ThreadFrame ==
  ASSUME ThreadInv, th \in [Threads -> Calls], linked \subseteq linked',
         \/ UNCHANGED th
         \/ \E t \in Threads, c \in Calls : CallOK(c) /\ th' = [th EXCEPT ![t] = c]
  PROVE  ThreadInv' /\ th' \in [Threads -> Calls]
<1>1. CASE UNCHANGED th
  BY <1>1 DEF ThreadInv, Known
<1>2. CASE \E t \in Threads, c \in Calls : CallOK(c) /\ th' = [th EXCEPT ![t] = c]
  <2> PICK t \in Threads, c \in Calls : CallOK(c) /\ th' = [th EXCEPT ![t] = c]
    BY <1>2, Zenon
  <2>1. th' \in [Threads -> Calls]
    OBVIOUS
  <2>2. \A u \in Threads : th'[u] = IF u = t THEN c ELSE th[u]
    OBVIOUS
  <2> QED BY <2>1, <2>2 DEF ThreadInv, CallOK, Known
<1> QED BY <1>1, <1>2

\* A step that links no block.
LEMMA LinkFrame ==
  ASSUME IInv, DataOK',
         UNCHANGED <<linked, nSequenceId, nBlockSequenceId>>,
         Processed \subseteq Processed',
         setBlockIndexCandidates' \subseteq linked, tip' \in linked,
         mapBlocksUnlinked' \subseteq Processed',
         cs_main' \in Threads \cup {NoThread}, aborted' \in BOOLEAN,
         \/ UNCHANGED th
         \/ \E t \in Threads, c \in Calls : CallOK(c) /\ th' = [th EXCEPT ![t] = c]
  PROVE  IInv'
<1>1. th \in [Threads -> Calls]
  BY TypeSplit DEF IInv
<1>2. ThreadInv' /\ th' \in [Threads -> Calls]
  BY <1>1, ThreadFrame DEF IInv
<1>3. TypeOK'
  <2>1. TypeOK' <=> /\ DataOK' /\ th' \in [Threads -> Calls]
                    /\ cs_main' \in Threads \cup {NoThread} /\ aborted' \in BOOLEAN
    BY DEF TypeOK, DataOK, Levels, Calls
  <2> QED BY <1>2, <2>1
<1>4. LinkedSound'
  BY DEF IInv, LinkedSound
<1>5. UniqueIds'
  BY DEF IInv, UniqueIds
<1> QED BY <1>2, <1>3, <1>4, <1>5 DEF IInv, UnlinkedProcessed

\* The hypotheses of LinkFrame that an unchanged variable satisfies.
LEMMA Facts ==
  ASSUME IInv
  PROVE  /\ DataOK /\ th \in [Threads -> Calls]
         /\ cs_main \in Threads \cup {NoThread} /\ aborted \in BOOLEAN
         /\ setBlockIndexCandidates \subseteq linked /\ tip \in linked /\ linked \subseteq Blocks
         /\ mapBlocksUnlinked \subseteq Processed
         /\ \A b \in linked : Anc[b] \subseteq linked /\ b \in Processed
         /\ \A t \in Threads : CallOK(th[t])
BY TypeSplit DEF IInv, LinkedSound, UnlinkedProcessed, DataOK, ThreadInv, CallOK

(* AcceptBlockHeader.                                                      *)
LEMMA HeaderStep ==
  ASSUME IInv, NEW t \in Threads, NEW b \in Blocks, AcceptBlockHeader(t, b)
  PROVE  IInv'
<1>1. Processed' = Processed /\ validity' \in [Blocks -> Levels]
  BY Facts, RaiseKeeps DEF AcceptBlockHeader, DataOK, Levels
<1>2. DataOK'
  BY <1>1, Facts DEF AcceptBlockHeader, DataOK, linkVars
<1> QED BY <1>1, <1>2, Facts, LinkFrame DEF AcceptBlockHeader, linkVars

(* ProcessNewBlock on a block that AcceptBlock does not process.           *)
LEMMA KnownStep ==
  ASSUME IInv, NEW t \in Threads, NEW b \in Blocks, NEW r \in BOOLEAN, NEW out \in BOOLEAN,
         ProcessKnownBlock(t, b, r, out)
  PROVE  IInv'
<1>1. Processed' = Processed /\ validity' \in [Blocks -> Levels]
  BY Facts, RaiseKeeps DEF ProcessKnownBlock, DataOK, Levels
<1>2. DataOK'
  BY <1>1, Facts DEF ProcessKnownBlock, DataOK, linkVars
<1>3. CallOK(Activate(b, out)) /\ Activate(b, out) \in Calls
  BY ActivateCall DEF CallOK, Known
<1>4. th' = [th EXCEPT ![t] = Activate(b, out)] /\ cs_main' \in Threads \cup {NoThread}
  BY DEF ProcessKnownBlock
<1> QED BY <1>1, <1>2, <1>3, <1>4, Facts, LinkFrame, Zenon DEF ProcessKnownBlock, linkVars

(* ProcessNewBlock on a block that fails CheckBlock.                       *)
LEMMA InvalidStep ==
  ASSUME IInv, NEW t \in Threads, NEW b \in Blocks, NEW r \in BOOLEAN, NEW out \in BOOLEAN,
         ProcessInvalidBlock(t, b, r, out)
  PROVE  IInv'
<1>1. Processed' = Processed /\ validity' \in [Blocks -> Levels]
  BY Facts, RaiseKeeps DEF ProcessInvalidBlock, DataOK, Levels
<1>2. DataOK'
  BY <1>1, Facts DEF ProcessInvalidBlock, DataOK, linkVars
<1> QED BY <1>1, <1>2, Facts, LinkFrame DEF ProcessInvalidBlock, linkVars

\* A call that ends, or that goes on with another pc.
LEMMA CallSteps ==
  ASSUME IInv, NEW t \in Threads
  PROVE  /\ Idle \in Calls /\ CallOK(Idle)
         /\ Activate(NoBlock, FALSE) \in Calls /\ CallOK(Activate(NoBlock, FALSE))
<1>1. Idle.pc = "idle"
  BY DEF Idle
<1> QED BY <1>1, IdleCall, ActivateCall, Zenon DEF CallOK, Known

\* The end of an iteration of ActivateBestChain.
LEMMA EndStepCall ==
  ASSUME IInv, NEW t \in Threads, NEW mw \in linked \cup {NoBlock}, NEW n,
         EndStep(t, mw, n)
  PROVE  /\ cs_main' \in Threads \cup {NoThread}
         /\ \E c \in Calls : CallOK(c) /\ th' = [th EXCEPT ![t] = c]
<1>1. CASE n = mw
  BY <1>1, CallSteps, Zenon DEF EndStep, Return
<1>2. CASE n /= mw
  <2> DEFINE c == [th[t] EXCEPT !.pc = "top", !.pindexMostWork = mw, !.pindexOldTip = NoBlock]
  <2>1. th[t] \in Calls
    BY Facts
  <2>2. c \in Calls /\ c.pc = "top" /\ c.pindexMostWork = mw
    BY <2>1, Facts, Zenon DEF Calls
  <2>3. th' = [th EXCEPT ![t] = c]
    BY <1>2, Facts, Zenon DEF EndStep
  <2> QED BY <1>2, <2>2, <2>3, Zenon DEF EndStep, CallOK, Known
<1> QED BY <1>1, <1>2

(* The top of the loop of ActivateBestChain.                               *)
LEMMA LoopStep ==
  ASSUME IInv, NEW t \in Threads, LoopTop(t)
  PROVE  IInv'
<1> DEFINE pc == IF th[t].pindexMostWork = NoBlock THEN "find" ELSE "step"
           c == [th[t] EXCEPT !.pc = pc]
<1>1. th[t] \in Calls /\ CallOK(th[t]) /\ th[t].pc = "top"
  BY Facts DEF LoopTop
<1>2. c \in Calls /\ c.pc = pc /\ c.pindexMostWork = th[t].pindexMostWork
  BY <1>1 DEF Calls
<1>3. CallOK(c)
  BY <1>1, <1>2 DEF CallOK, Known
<1>4. th' = [th EXCEPT ![t] = c]
  BY Facts DEF LoopTop, Goto
<1>5. DataOK' /\ Processed' = Processed
  BY Facts DEF LoopTop, DataOK, linkVars, statusVars, Processed
<1> QED BY <1>2, <1>3, <1>4, <1>5, Facts, LinkFrame, Zenon DEF LoopTop, linkVars

(* FindMostWorkChain finds a candidate, or none.                           *)
LEMMA FindStep ==
  ASSUME IInv, NEW t \in Threads,
         FindNothing(t) \/ AlreadyActive(t) \/ FindMostWorkChain(t) \/ ActivateBestChainStep(t)
  PROVE  IInv'
<1>1. DataOK' /\ Processed' = Processed
  BY Facts DEF FindNothing, AlreadyActive, FindMostWorkChain, ActivateBestChainStep,
               DataOK, linkVars, statusVars, Processed
<1>2. th[t] \in Calls /\ CallOK(th[t])
  BY Facts
<1>3. CASE FindNothing(t)
  BY <1>1, <1>3, CallSteps, Facts, LinkFrame, Zenon DEF FindNothing, Return, linkVars
<1>4. CASE AlreadyActive(t)
  BY <1>1, <1>4, CallSteps, Facts, LinkFrame, Zenon DEF AlreadyActive, Return, linkVars
<1>5. CASE FindMostWorkChain(t)
  <2>1. PICK b \in setBlockIndexCandidates :
          th' = [th EXCEPT ![t].pc = "step", ![t].pindexMostWork = b]
    BY <1>5, Zenon DEF FindMostWorkChain
  <2> DEFINE c == [th[t] EXCEPT !.pc = "step", !.pindexMostWork = b]
  <2>2. b \in linked /\ b \in Blocks
    BY Facts
  <2>3. c \in Calls /\ c.pc = "step" /\ c.pindexMostWork = b
    BY <1>2, <2>2, Zenon DEF Calls
  <2>4. CallOK(c)
    BY <2>2, <2>3 DEF CallOK, Known
  <2>5. th' = [th EXCEPT ![t] = c]
    BY <2>1, Facts, Zenon
  <2> QED BY <1>1, <1>5, <2>3, <2>4, <2>5, Facts, LinkFrame, Zenon DEF FindMostWorkChain, linkVars
<1>6. CASE ActivateBestChainStep(t)
  <2> DEFINE c == [th[t] EXCEPT !.pc = "switch", !.pindexOldTip = tip]
  <2>1. tip \in Blocks
    BY Facts DEF DataOK
  <2>2. /\ c \in Calls /\ c.pc = "switch" /\ c.pindexOldTip = tip
        /\ c.pindexMostWork = th[t].pindexMostWork
    BY <1>2, <2>1, Zenon DEF Calls
  <2>3. th[t].pc = "step"
    BY <1>6 DEF ActivateBestChainStep, Running
  <2>4. CallOK(c)
    BY <1>2, <2>1, <2>2, <2>3 DEF CallOK, Known
  <2>5. th' = [th EXCEPT ![t] = c]
    BY <1>6, Facts, Zenon DEF ActivateBestChainStep
  <2> QED BY <1>1, <1>6, <2>2, <2>4, <2>5, Facts, LinkFrame, Zenon DEF ActivateBestChainStep, linkVars
<1> QED BY <1>3, <1>4, <1>5, <1>6

(* FindMostWorkChain drops a candidate it cannot use.                      *)
LEMMA DropStep ==
  ASSUME IInv, NEW t \in Threads, DropCandidate(t)
  PROVE  IInv'
<1>1. PICK b \in setBlockIndexCandidates, x \in Blocks :
        /\ Best(b) /\ StopsAt(x, b)
        /\ failedChild' = IF x \in Failed THEN failedChild \cup Above(x, b) ELSE failedChild
        /\ mapBlocksUnlinked' =
             IF x \in Failed THEN mapBlocksUnlinked ELSE Requeued(Above(x, b))
        /\ setBlockIndexCandidates' = setBlockIndexCandidates \ (Above(x, b) \cup {x})
  BY Zenon DEF DropCandidate
<1>2. b \in linked /\ b \in Blocks /\ Anc[b] \subseteq linked
  BY Facts
<1>3. Above(x, b) \subseteq linked
  BY <1>2 DEF Above
<1>4. Genesis \notin Above(x, b)
  BY Tree DEF Above
<1>5. Processed' = Processed
  BY DEF DropCandidate, Processed
<1>6. DataOK'
  BY <1>1, <1>3, <1>4, Facts DEF DropCandidate, DataOK, Requeued
<1>7. mapBlocksUnlinked' \subseteq Processed'
  BY <1>1, <1>3, <1>5, Facts DEF Requeued
<1> QED BY <1>1, <1>5, <1>6, <1>7, Facts, LinkFrame DEF DropCandidate

\* A tip that is disconnected has a parent.
LEMMA DisconnectStep ==
  ASSUME IInv, NEW t \in Threads, DisconnectTip(t)
  PROVE  IInv'
<1>1. th[t].pindexMostWork \in linked /\ tip \in linked /\ tip \in Blocks
  BY Facts DEF DisconnectTip, Running, CallOK, Known, DataOK
<1>2. tip /= Genesis
  BY <1>1, Facts, Tree DEF DisconnectTip
<1>3. tip' \in linked /\ tip' \in Blocks
  <2>1. Prev[tip] \in Anc[tip] /\ Prev[tip] \in Blocks
    BY <1>1, <1>2, Tree
  <2>2. Anc[tip] \subseteq linked
    BY <1>1, Facts
  <2> QED BY <2>1, <2>2 DEF DisconnectTip
<1>4. DataOK' /\ Processed' = Processed
  BY <1>3, Facts DEF DisconnectTip, DataOK, linkVars, statusVars, Processed
<1>5. /\ cs_main' \in Threads \cup {NoThread}
      /\ \/ UNCHANGED th
         \/ \E u \in Threads, c \in Calls : CallOK(c) /\ th' = [th EXCEPT ![u] = c]
  <2>1. CASE tip' = th[t].pindexMostWork
    BY <1>1, <2>1, EndStepCall DEF DisconnectTip
  <2>2. CASE tip' /= th[t].pindexMostWork
    BY <2>2, Facts DEF DisconnectTip
  <2> QED BY <2>1, <2>2
<1> QED BY <1>3, <1>4, <1>5, Facts, LinkFrame DEF DisconnectTip, linkVars

(* ConnectTip on a block that connects.                                    *)
LEMMA ConnectStep ==
  ASSUME IInv, NEW t \in Threads, NEW b \in Blocks, ConnectTip(t, b)
  PROVE  IInv'
<1>1. th[t].pindexMostWork \in linked
  BY Facts DEF ConnectTip, Connects, Running, CallOK, Known
<1>2. b \in linked /\ b \in Processed
  <2>1. b \in Anc[th[t].pindexMostWork]
    BY DEF ConnectTip, Connects
  <2> QED BY <1>1, <2>1, Facts
<1>3. validity' \in [Blocks -> Levels] /\ Processed' = Processed
  <2>1. CASE b \in Failed
    BY <2>1, Facts DEF ConnectTip, DataOK, Processed
  <2>2. CASE b \notin Failed
    <3>1. validity' = Raise(b, VALID_SCRIPTS) /\ VALID_SCRIPTS \in Levels
      BY <2>2 DEF ConnectTip, Levels
    <3>2. Processed' = Processed \cup {b} /\ validity' \in [Blocks -> Levels]
      BY <3>1, Facts, RaiseKeeps DEF DataOK
    <3> QED BY <1>2, <3>2
  <2> QED BY <2>1, <2>2
<1>4. DataOK'
  BY <1>3, Facts DEF ConnectTip, DataOK, linkVars, PruneBlockIndexCandidates
<1>5. /\ cs_main' \in Threads \cup {NoThread}
      /\ \/ UNCHANGED th
         \/ \E u \in Threads, c \in Calls : CallOK(c) /\ th' = [th EXCEPT ![u] = c]
  <2>1. CASE StepDone(t, b)
    BY <1>1, <2>1, EndStepCall DEF ConnectTip
  <2>2. CASE ~StepDone(t, b)
    BY <2>2, Facts DEF ConnectTip
  <2> QED BY <2>1, <2>2
<1>6. tip' \in linked /\ setBlockIndexCandidates' \subseteq linked
  BY <1>2, Facts DEF ConnectTip, PruneBlockIndexCandidates
<1> QED BY <1>3, <1>4, <1>5, <1>6, Facts, LinkFrame DEF ConnectTip, linkVars

(* ConnectTip on a block that does not.                                    *)
LEMMA FailureStep ==
  ASSUME IInv, NEW t \in Threads, NEW b \in Blocks, InvalidBlockFound(t, b)
  PROVE  IInv'
<1>1. DataOK' /\ Processed' = Processed
  BY Facts DEF InvalidBlockFound, DataOK, linkVars, Processed
<1>2. /\ cs_main' \in Threads \cup {NoThread}
      /\ \E c \in Calls : CallOK(c) /\ th' = [th EXCEPT ![t] = c]
  <2>1. EndStep(t, NoBlock, tip)
    BY DEF InvalidBlockFound
  <2> QED BY <2>1, EndStepCall
<1> QED BY <1>1, <1>2, Facts, LinkFrame, Zenon DEF InvalidBlockFound, linkVars

(* A step that ends in AbortNode.                                          *)
LEMMA AbortStep ==
  ASSUME IInv, NEW t \in Threads, NEW b \in Blocks,
         DisconnectTipFails(t) \/ ConnectTipFails(t, b) \/ InvalidateTipFails(t)
  PROVE  IInv'
<1>1. DataOK' /\ Processed' = Processed
  BY Facts DEF DisconnectTipFails, ConnectTipFails, InvalidateTipFails,
               DataOK, linkVars, statusVars, Processed
<1>2. aborted' \in BOOLEAN /\ cs_main' = NoThread /\ th' = [th EXCEPT ![t] = Idle]
  BY Zenon DEF DisconnectTipFails, ConnectTipFails, InvalidateTipFails, AbortNode, Return
<1>3. /\ UNCHANGED <<linked, nSequenceId, nBlockSequenceId, mapBlocksUnlinked, tip>>
      /\ setBlockIndexCandidates' \subseteq setBlockIndexCandidates
  BY DEF DisconnectTipFails, ConnectTipFails, InvalidateTipFails, linkVars
<1> QED BY <1>1, <1>2, <1>3, CallSteps, Facts, LinkFrame, Zenon

(* InvalidateBlock marks its argument.                                     *)
LEMMA InvalidateBlockStep ==
  ASSUME IInv, NEW t \in Threads, NEW b \in Blocks, InvalidateBlock(t, b)
  PROVE  IInv'
<1> DEFINE c == [Idle EXCEPT !.pc = "invalidate", !.pindexMostWork = b]
<1>1. DataOK' /\ Processed' = Processed
  BY Facts DEF InvalidateBlock, DataOK, linkVars, Processed
<1>2. b \in Blocks \ {Genesis}
  BY InputsAssumption DEF InvalidateBlock
<1>3. c \in Calls /\ c.pc = "invalidate" /\ c.pindexMostWork = b
  BY IdleCall, Zenon DEF Calls, Idle
<1>4. CallOK(c)
  BY <1>2, <1>3 DEF CallOK, Known
<1>5. th' = [th EXCEPT ![t] = c]
  BY DEF InvalidateBlock
<1> QED BY <1>1, <1>3, <1>4, <1>5, Facts, LinkFrame, Zenon DEF InvalidateBlock, linkVars

(* InvalidateBlock disconnects the tip.                                    *)
LEMMA InvalidateTipStep ==
  ASSUME IInv, NEW t \in Threads, InvalidateTip(t)
  PROVE  IInv'
<1>1. th[t].pindexMostWork \in Anc[tip] /\ th[t].pindexMostWork /= Genesis
  BY Facts DEF InvalidateTip, Running, StillActive, CallOK
<1>2. tip /= Genesis /\ tip \in linked /\ tip \in Blocks
  BY <1>1, Facts, Tree DEF DataOK
<1>3. tip' \in linked /\ tip' \in Blocks
  <2>1. Prev[tip] \in Anc[tip] /\ Prev[tip] \in Blocks
    BY <1>2, Tree
  <2>2. Anc[tip] \subseteq linked
    BY <1>2, Facts
  <2> QED BY <2>1, <2>2 DEF InvalidateTip
<1>4. DataOK' /\ Processed' = Processed
  BY <1>2, <1>3, Facts DEF InvalidateTip, DataOK, linkVars, Processed
<1> QED BY <1>3, <1>4, Facts, LinkFrame DEF InvalidateTip, linkVars

(* InvalidateBlock makes blocks candidates again.                          *)
LEMMA InvalidateEndStep ==
  ASSUME IInv, NEW t \in Threads, InvalidateEnd(t)
  PROVE  IInv'
<1>1. Reinstated \subseteq linked
  BY DEF Reinstated
<1>2. DataOK' /\ Processed' = Processed
  BY <1>1, Facts DEF InvalidateEnd, DataOK, linkVars, statusVars, Processed
<1>3. setBlockIndexCandidates' \subseteq linked
  BY <1>1, Facts DEF InvalidateEnd
<1> QED BY <1>2, <1>3, CallSteps, Facts, LinkFrame, Zenon DEF InvalidateEnd, linkVars

(* ResetBlockFailureFlags.                                                 *)
LEMMA ReconsiderStep ==
  ASSUME IInv, NEW t \in Threads, NEW b \in Blocks, ResetBlockFailureFlags(t, b)
  PROVE  IInv'
<1>1. setBlockIndexCandidates' \subseteq linked
  BY Facts DEF ResetBlockFailureFlags, Reconsidered
<1>2. DataOK' /\ Processed' = Processed
  BY <1>1, Facts DEF ResetBlockFailureFlags, DataOK, linkVars, Processed
<1> QED BY <1>1, <1>2, CallSteps, Facts, LinkFrame, Zenon DEF ResetBlockFailureFlags, linkVars

(* PruneOneBlockFile.                                                      *)
LEMMA PruneStep ==
  ASSUME IInv, NEW b \in Blocks, PruneOneBlockFile(b)
  PROVE  IInv'
<1>1. DataOK' /\ Processed' = Processed
  BY Facts DEF PruneOneBlockFile, NotUnlinked, DataOK, Processed
<1>2. mapBlocksUnlinked' \subseteq Processed'
  BY <1>1, Facts DEF PruneOneBlockFile, NotUnlinked
<1> QED BY <1>1, <1>2, Facts, LinkFrame DEF PruneOneBlockFile

\* ReceivedBlockTransactions: the blocks it links are linked to genesis.
LEMMA NewlyLinkedClosed ==
  ASSUME IInv, NEW b \in Blocks
  PROVE  /\ NewlyLinked(b) \subseteq Blocks
         /\ b \in linked => b \in NewlyLinked(b)
         /\ \A x \in NewlyLinked(b) : Anc[x] \subseteq linked \cup NewlyLinked(b)
         /\ NewlyLinked(b) \subseteq {b} \cup mapBlocksUnlinked
<1>1. CASE ~(b = Genesis \/ Prev[b] \in linked)
  <2>1. NewlyLinked(b) = {}
    BY <1>1 DEF NewlyLinked
  <2>2. b \notin linked
    BY <1>1, Facts, Tree
  <2> QED BY <2>1, <2>2
<1>2. CASE b = Genesis \/ Prev[b] \in linked
  <2> DEFINE new == {x \in Blocks : b \in Anc[x] /\ Anc[x] \ Anc[b] \subseteq mapBlocksUnlinked}
  <2>1. NewlyLinked(b) = new
    BY <1>2 DEF NewlyLinked
  <2>2. b \in new
    BY Tree
  <2>3. Anc[b] \subseteq linked \cup {b}
    <3>1. CASE b = Genesis
      BY <3>1, Tree
    <3>2. CASE b /= Genesis
      BY <1>2, <3>2, Facts, Tree
    <3> QED BY <3>1, <3>2
  <2>4. ASSUME NEW x \in new, NEW y \in Anc[x]
        PROVE  y \in linked \cup new
    <3>1. CASE y \in Anc[b]
      BY <2>2, <2>3, <3>1
    <3>2. CASE y \notin Anc[b]
      <4>1. y \in Blocks /\ b \in Anc[y] /\ Anc[y] \subseteq Anc[x]
        BY <3>2, Tree
      <4> QED BY <4>1
    <3> QED BY <3>1, <3>2
  <2>5. ASSUME NEW x \in new, x /= b
        PROVE  x \in mapBlocksUnlinked
    <3>1. x \notin Anc[b]
      BY <2>5, TreeAcyclic
    <3> QED BY <3>1, Tree
  <2> QED BY <2>1, <2>2, <2>4, <2>5
<1> QED BY <1>1, <1>2

(* ReceivedBlockTransactions.                                              *)
LEMMA ReceiveStep ==
  ASSUME IInv, NEW t \in Threads, NEW b \in Blocks, NEW r \in BOOLEAN, NEW out \in BOOLEAN,
         ProcessNewBlock(t, b, r, out)
  PROVE  IInv'
<1> DEFINE new == NewlyLinked(b)
           k == Cardinality(new)
<1>0. ReceivedBlockTransactions(b)
  BY DEF ProcessNewBlock
<1>1. /\ new \subseteq Blocks
      /\ b \in linked => b \in new
      /\ \A x \in new : Anc[x] \subseteq linked \cup new
      /\ new \subseteq {b} \cup mapBlocksUnlinked
  BY NewlyLinkedClosed
<1>2. k \in Nat
  <2>1. IsFiniteSet(new)
    BY <1>1, FS_Subset, TreeAssumption
  <2> QED BY <2>1, FS_CardinalityType
<1> HIDE DEF new, k
<1>3. /\ validity' = Raise(b, VALID_TRANSACTIONS) /\ haveData' = haveData \cup {b}
      /\ nBlockSequenceId' = nBlockSequenceId + k
      /\ linked' = (linked \ {b}) \cup new
      /\ setBlockIndexCandidates' =
           setBlockIndexCandidates \cup {x \in new : ~WorseBy(nSequenceId', x, tip)}
      /\ mapBlocksUnlinked' = (mapBlocksUnlinked \ new)
           \cup (IF new = {} /\ Prev[b] \notin Failed THEN {b} ELSE {})
  BY <1>0 DEF ReceivedBlockTransactions, IdsUsed, new, k
<1>4. PICK ids \in [new -> nBlockSequenceId .. nBlockSequenceId + k - 1] :
        /\ BreadthFirst(ids, new)
        /\ nSequenceId' = [x \in Blocks |-> IF x \in new THEN ids[x] ELSE nSequenceId[x]]
  BY <1>0 DEF ReceivedBlockTransactions, new, k
<1>5. validity' \in [Blocks -> Levels] /\ Processed' = Processed \cup {b}
  BY <1>3, Facts, RaiseKeeps DEF DataOK, Levels
<1>6. linked' = linked \cup new
  BY <1>1, <1>3
<1>7. new = {} => b /= Genesis
  BY Tree DEF new, NewlyLinked
<1>8. DataOK'
  <2>1. nBlockSequenceId \in Nat /\ nBlockSequenceId' \in Nat
    BY <1>2, <1>3, Facts DEF DataOK
  <2>2. nSequenceId' \in [Blocks -> Nat]
    <3>1. \A x \in new : ids[x] \in Nat
      BY <1>2, <1>4, <2>1
    <3> QED BY <1>4, <3>1, Facts DEF DataOK
  <2>3. mapBlocksUnlinked' \subseteq Blocks \ {Genesis}
    BY <1>3, <1>7, Facts DEF DataOK
  <2>4. /\ haveData' \subseteq Blocks /\ linked' \subseteq Blocks
        /\ setBlockIndexCandidates' \subseteq Blocks
    BY <1>1, <1>3, <1>6, Facts DEF DataOK
  <2>5. UNCHANGED <<failedValid, failedChild, tip>>
    BY DEF ProcessNewBlock
  <2> QED BY <1>5, <2>1, <2>2, <2>3, <2>4, <2>5, Facts DEF DataOK
<1>9. LinkedSound'
  <2>1. \A x \in linked' : Anc[x] \subseteq linked' /\ x \in Processed'
    BY <1>1, <1>5, <1>6, Facts
  <2>2. setBlockIndexCandidates' \cup {tip'} \subseteq linked'
    BY <1>3, <1>6, Facts DEF ProcessNewBlock
  <2> QED BY <2>1, <2>2 DEF LinkedSound
<1>10. UniqueIds'
  <2>1. nBlockSequenceId \in Nat /\ nSequenceId \in [Blocks -> Nat] /\ linked \subseteq Blocks
    BY Facts DEF DataOK
  <2>2. \A x \in new : /\ ids[x] \in Nat /\ ids[x] >= nBlockSequenceId
                       /\ ids[x] < nBlockSequenceId + k /\ nSequenceId'[x] = ids[x]
    BY <1>1, <1>2, <1>4, <2>1
  <2>3. \A x \in linked \ new : /\ nSequenceId'[x] = nSequenceId[x]
                                /\ nSequenceId[x] \in Nat /\ nSequenceId[x] < nBlockSequenceId
    BY <1>4, <2>1 DEF IInv, UniqueIds
  <2>4. \A x, y \in new : x /= y => ids[x] /= ids[y]
    BY <1>4 DEF BreadthFirst
  <2>5. \A x, y \in linked : x /= y => nSequenceId[x] /= nSequenceId[y]
    BY DEF IInv, UniqueIds
  <2>6. \A x \in linked' : nSequenceId'[x] < nBlockSequenceId'
    BY <1>2, <1>3, <1>6, <2>1, <2>2, <2>3
  <2>7. \A x, y \in linked' : x /= y => nSequenceId'[x] /= nSequenceId'[y]
    BY <1>2, <1>6, <2>1, <2>2, <2>3, <2>4, <2>5
  <2> QED BY <2>6, <2>7 DEF UniqueIds
<1>11. ThreadInv' /\ th' \in [Threads -> Calls]
  <2>1. CallOK(Activate(b, out)) /\ Activate(b, out) \in Calls
    BY ActivateCall DEF CallOK, Known
  <2>2. th' = [th EXCEPT ![t] = Activate(b, out)]
    BY DEF ProcessNewBlock
  <2> QED BY <1>6, <2>1, <2>2, Facts, ThreadFrame, Zenon DEF IInv
<1>12. TypeOK'
  <2>1. TypeOK' <=> /\ DataOK' /\ th' \in [Threads -> Calls]
                    /\ cs_main' \in Threads \cup {NoThread} /\ aborted' \in BOOLEAN
    BY DEF TypeOK, DataOK, Levels, Calls
  <2>2. cs_main' \in Threads \cup {NoThread} /\ aborted' \in BOOLEAN
    BY Facts DEF ProcessNewBlock
  <2> QED BY <1>8, <1>11, <2>1, <2>2
<1>13. UnlinkedProcessed'
  BY <1>3, <1>5, Facts DEF UnlinkedProcessed
<1> QED BY <1>9, <1>10, <1>11, <1>12, <1>13 DEF IInv

\* Every step keeps the inductive invariant.
LEMMA NextInv ==
  ASSUME IInv, [Next]_vars
  PROVE  IInv'
<1>1. CASE UNCHANGED vars
  <2>1. DataOK' /\ Processed' = Processed
    BY <1>1, Facts DEF vars, DataOK, linkVars, statusVars, Processed
  <2> QED BY <1>1, <2>1, Facts, LinkFrame DEF vars, linkVars
<1>2. CASE Next
  <2>1. CASE \E b \in Blocks : PruneOneBlockFile(b)
    BY <2>1, PruneStep
  <2>2. ASSUME NEW t \in Threads, Receive(t) PROVE IInv'
    <3> PICK b \in Blocks :
          \/ AcceptBlockHeader(t, b)
          \/ \E r, out \in BOOLEAN : \/ ProcessKnownBlock(t, b, r, out)
                                     \/ ProcessInvalidBlock(t, b, r, out)
                                     \/ ProcessNewBlock(t, b, r, out)
      BY <2>2 DEF Receive
    <3> QED BY HeaderStep, KnownStep, InvalidStep, ReceiveStep
  <2>3. ASSUME NEW t \in Threads, LoopTop(t) PROVE IInv'
    BY <2>3, LoopStep
  <2>4. ASSUME NEW t \in Threads, Switch(t) PROVE IInv'
    <3>1. CASE FindNothing(t) \/ AlreadyActive(t) \/ FindMostWorkChain(t) \/ ActivateBestChainStep(t)
      BY <3>1, FindStep
    <3>2. CASE DropCandidate(t) \/ DisconnectTip(t)
      BY <3>2, DropStep, DisconnectStep
    <3>3. CASE DisconnectTipFails(t) \/ InvalidateTipFails(t)
      BY <3>3, AbortStep, Tree
    <3>4. ASSUME NEW b \in Blocks,
                 ConnectTip(t, b) \/ InvalidBlockFound(t, b) \/ ConnectTipFails(t, b)
          PROVE  IInv'
      BY <3>4, ConnectStep, FailureStep, AbortStep
    <3>5. CASE InvalidateTip(t) \/ InvalidateEnd(t)
      BY <3>5, InvalidateTipStep, InvalidateEndStep
    <3> QED BY <2>4, <3>1, <3>2, <3>3, <3>4, <3>5 DEF Switch
  <2>5. ASSUME NEW t \in Threads, Operator(t) PROVE IInv'
    BY <2>5, InvalidateBlockStep, ReconsiderStep DEF Operator
  <2> QED BY <1>2, <2>1, <2>2, <2>3, <2>4, <2>5 DEF Next
<1> QED BY <1>1, <1>2

(* IInv is invariant.                                                      *)
LEMMA SpecInv == Spec => []IInv
<1>1. Init => IInv
  BY InitInv
<1>2. IInv /\ [Next]_vars => IInv'
  BY NextInv
<1> QED BY <1>1, <1>2, PTL DEF Spec

\* For every block tree, every set of threads and every operator, the linked
\* blocks are closed under ancestors and processed, and the candidates and
\* the active chain are linked.
THEOREM IndexIsSound == Spec => [](TypeOK /\ LinkedSound)
<1>1. IInv => TypeOK /\ LinkedSound
  BY DEF IInv
<1> QED BY <1>1, SpecInv, PTL

\* ReceivedBlockTransactions never gives two linked blocks the same sequence
\* number, and nBlockSequenceId stays ahead of the numbers it gave, so
\* CBlockIndexWorkComparator does not compare the addresses of two of them.
THEOREM SequenceIdsAreUnique == Spec => []UniqueIds
<1>1. IInv => UniqueIds
  BY DEF IInv
<1> QED BY <1>1, SpecInv, PTL

-----------------------------------------------------------------------------
(* Without invalidateblock.                                                *)

Bad == CheckBad \cup ConnectBad

\* Every failure flag stems from a block that breaks a rule, and no such block
\* is in the active chain: one that fails CheckBlock is never processed.
FailureInv ==
  /\ CheckBad \cap Processed = {}
  /\ failedValid \subseteq Bad
  /\ \A f \in Failed : f \in Blocks /\ Anc[f] \cap Bad /= {}
  /\ Anc[tip] \cap Bad = {}
  /\ \A t \in Threads : th[t].pc /= "invalidate"

(* No block is marked failed at the start.                                 *)
LEMMA FailureInit == Init => FailureInv
<1> SUFFICES ASSUME Init PROVE FailureInv
  OBVIOUS
<1>1. CheckBad \cap Processed = {}
  BY InputsAssumption
     DEF Init, Processed, UNKNOWN, VALID_TRANSACTIONS, VALID_SCRIPTS
<1>2. Anc[tip] \cap Bad = {}
  BY Tree, InputsAssumption DEF Init, Bad
<1> QED BY <1>1, <1>2 DEF Init, FailureInv, Failed, Idle

\* A step that marks no block and connects none.
LEMMA FailureFrame ==
  ASSUME FailureInv, Processed' \subseteq Processed, failedValid' \subseteq failedValid,
         failedChild' \subseteq failedChild, Anc[tip'] \subseteq Anc[tip],
         \A t \in Threads : th'[t].pc /= "invalidate"
  PROVE  FailureInv'
BY DEF FailureInv, Failed

\* The pcs a thread moves to.
LEMMA NoInvalidation ==
  ASSUME IInv, FailureInv, NEW t \in Threads, NEW c \in Calls, c.pc /= "invalidate",
         th' = [th EXCEPT ![t] = c]
  PROVE  \A u \in Threads : th'[u].pc /= "invalidate"
BY Facts DEF FailureInv

(* The end of a step of ActivateBestChain.                                 *)
LEMMA EndStepPc ==
  ASSUME IInv, FailureInv, NEW t \in Threads, NEW mw, NEW n, EndStep(t, mw, n)
  PROVE  \A u \in Threads : th'[u].pc /= "invalidate"
<1>1. Idle.pc = "idle"
  BY DEF Idle
<1>2. th[t] \in Calls
  BY Facts
<1>3. CASE n = mw
  BY <1>1, <1>3, Facts DEF EndStep, Return, FailureInv
<1>4. CASE n /= mw
  <2> DEFINE c == [th[t] EXCEPT !.pc = "top", !.pindexMostWork = mw, !.pindexOldTip = NoBlock]
  <2>1. c.pc = "top"
    BY <1>2 DEF Calls
  <2>2. th' = [th EXCEPT ![t] = c]
    BY <1>4, Facts, Zenon DEF EndStep
  <2> QED BY <2>1, <2>2, Facts DEF FailureInv
<1> QED BY <1>3, <1>4

(* Headers and blocks arrive: a block that fails CheckBlock is marked.     *)
LEMMA ReceiveFailure ==
  ASSUME IInv, FailureInv, NEW t \in Threads, NEW b \in Blocks, NEW r \in BOOLEAN,
         NEW out \in BOOLEAN,
         \/ AcceptBlockHeader(t, b) \/ ProcessKnownBlock(t, b, r, out)
         \/ ProcessInvalidBlock(t, b, r, out) \/ ProcessNewBlock(t, b, r, out)
  PROVE  FailureInv'
<1>0. validity \in [Blocks -> Levels] /\ VALID_TREE \in Levels /\ VALID_TRANSACTIONS \in Levels
  BY Facts DEF DataOK, Levels
<1>1. CASE AcceptBlockHeader(t, b)
  <2>1. Processed' = Processed
    BY <1>0, <1>1, RaiseKeeps DEF AcceptBlockHeader
  <2> QED BY <1>1, <2>1, FailureFrame DEF AcceptBlockHeader, FailureInv
<1>2. ASSUME th' = [th EXCEPT ![t] = Activate(b, out)]
      PROVE  \A u \in Threads : th'[u].pc /= "invalidate"
  BY <1>2, ActivateCall, NoInvalidation, Zenon
<1>3. CASE ProcessKnownBlock(t, b, r, out)
  <2>1. Processed' = Processed
    BY <1>0, <1>3, RaiseKeeps DEF ProcessKnownBlock
  <2> QED BY <1>2, <1>3, <2>1, FailureFrame DEF ProcessKnownBlock
<1>4. CASE ProcessInvalidBlock(t, b, r, out)
  <2>1. Processed' = Processed
    BY <1>0, <1>4, RaiseKeeps DEF ProcessInvalidBlock
  <2>2. b \in Bad /\ Anc[b] \cap Bad /= {}
    BY <1>4, Tree, Zenon DEF ProcessInvalidBlock, Bad
  <2>3. failedValid' = failedValid \cup {b} /\ UNCHANGED <<failedChild, tip, th>>
    BY <1>4 DEF ProcessInvalidBlock
  <2> QED BY <2>1, <2>2, <2>3 DEF FailureInv, Failed
<1>5. CASE ProcessNewBlock(t, b, r, out)
  <2>1. Processed' = Processed \cup {b}
    BY <1>0, <1>5, RaiseKeeps, Zenon DEF ProcessNewBlock, ReceivedBlockTransactions
  <2>2. b \notin CheckBad /\ UNCHANGED <<failedValid, failedChild, tip>>
    BY <1>5 DEF ProcessNewBlock
  <2>3. \A u \in Threads : th'[u].pc /= "invalidate"
    BY <1>2, <1>5 DEF ProcessNewBlock
  <2> QED BY <2>1, <2>2, <2>3 DEF FailureInv, Failed
<1> QED BY <1>1, <1>3, <1>4, <1>5

\* FindMostWorkChain marks blocks above a failed block.
LEMMA DropFailure ==
  ASSUME IInv, FailureInv, NEW t \in Threads, DropCandidate(t)
  PROVE  FailureInv'
<1>1. PICK b \in setBlockIndexCandidates, x \in Blocks :
        /\ StopsAt(x, b)
        /\ failedChild' = IF x \in Failed THEN failedChild \cup Above(x, b) ELSE failedChild
  BY Zenon DEF DropCandidate
<1>2. b \in Blocks
  BY Facts
<1>3. x \in Anc[b]
  BY <1>1 DEF StopsAt, Unusable
<1>4. x \in Failed => \A y \in Above(x, b) : y \in Blocks /\ Anc[y] \cap Bad /= {}
  <2> SUFFICES ASSUME x \in Failed, NEW y \in Above(x, b)
               PROVE  y \in Blocks /\ Anc[y] \cap Bad /= {}
    OBVIOUS
  <2>1. y \in Blocks /\ x \in Anc[y]
    BY <1>2, <1>3, Tree DEF Above
  <2>2. Anc[x] \subseteq Anc[y]
    BY <2>1, Tree
  <2> QED BY <2>1, <2>2 DEF FailureInv
<1>5. /\ UNCHANGED <<validity, failedValid, tip, th>>
  BY DEF DropCandidate
<1> QED BY <1>1, <1>4, <1>5, Zenon DEF FailureInv, Failed, Processed

\* The moves of the active chain.
LEMMA MoveFailure ==
  ASSUME IInv, FailureInv, NEW t \in Threads, NEW b \in Blocks,
         DisconnectTip(t) \/ ConnectTip(t, b) \/ InvalidBlockFound(t, b)
  PROVE  FailureInv'
<1>0. tip \in Blocks
  BY Facts DEF DataOK
<1>1. CASE DisconnectTip(t)
  <2>1. th[t].pindexMostWork \in linked
    BY <1>1, Facts DEF DisconnectTip, Running, CallOK, Known
  <2>2. tip /= Genesis
    BY <1>1, <2>1, Facts, Tree DEF DisconnectTip
  <2>3. Anc[tip'] \subseteq Anc[tip]
    BY <1>0, <1>1, <2>2, Tree DEF DisconnectTip
  <2>4. \A u \in Threads : th'[u].pc /= "invalidate"
    <3>1. CASE tip' = th[t].pindexMostWork
      BY <1>1, <3>1, EndStepPc DEF DisconnectTip
    <3>2. CASE tip' /= th[t].pindexMostWork
      BY <1>1, <3>2 DEF DisconnectTip, FailureInv
    <3> QED BY <3>1, <3>2
  <2>5. UNCHANGED <<validity, failedValid, failedChild>>
    BY <1>1 DEF DisconnectTip, statusVars
  <2> QED BY <2>3, <2>4, <2>5, FailureFrame DEF Processed
<1>2. CASE ConnectTip(t, b)
  <2>1. th[t].pindexMostWork \in linked /\ b \in Anc[th[t].pindexMostWork]
    BY <1>2, Facts, Zenon DEF ConnectTip, Connects, Running, CallOK, Known
  <2>2. b \in Processed
    BY <2>1, Facts
  <2>3. b \notin Bad
    BY <1>2, <2>2 DEF ConnectTip, FailureInv, Bad
  <2>4. Anc[tip'] = Anc[tip] \cup {b}
    BY <1>2, Tree DEF ConnectTip, Connects
  <2>5. Processed' \subseteq Processed
    <3>1. CASE b \in Failed
      BY <1>2, <3>1 DEF ConnectTip, Processed
    <3>2. CASE b \notin Failed
      <4>1. /\ validity' = Raise(b, VALID_SCRIPTS) /\ VALID_SCRIPTS \in Levels
            /\ validity \in [Blocks -> Levels]
        BY <1>2, <3>2, Facts, Zenon DEF ConnectTip, Levels, DataOK
      <4>2. Processed' = Processed \cup {b}
        BY <4>1, RaiseKeeps
      <4> QED BY <2>2, <4>2
    <3> QED BY <3>1, <3>2
  <2>6. \A u \in Threads : th'[u].pc /= "invalidate"
    <3>1. CASE StepDone(t, b)
      BY <1>2, <3>1, EndStepPc DEF ConnectTip
    <3>2. CASE ~StepDone(t, b)
      BY <1>2, <3>2 DEF ConnectTip, FailureInv
    <3> QED BY <3>1, <3>2
  <2>7. UNCHANGED <<failedValid, failedChild>>
    BY <1>2 DEF ConnectTip
  <2> QED BY <2>3, <2>4, <2>5, <2>6, <2>7 DEF FailureInv, Failed
<1>3. CASE InvalidBlockFound(t, b)
  <2>1. b \in Bad /\ Anc[b] \cap Bad /= {}
    BY <1>3, Tree DEF InvalidBlockFound, Bad
  <2>2. \A u \in Threads : th'[u].pc /= "invalidate"
    BY <1>3, EndStepPc DEF InvalidBlockFound
  <2>3. failedValid' = failedValid \cup {b} /\ UNCHANGED <<validity, failedChild, tip>>
    BY <1>3 DEF InvalidBlockFound
  <2> QED BY <2>1, <2>2, <2>3 DEF FailureInv, Failed, Processed
<1> QED BY <1>1, <1>2, <1>3

\* The steps that only move a thread.
LEMMA CallFailure ==
  ASSUME IInv, FailureInv, NEW t \in Threads, NEW b \in Blocks,
         \/ LoopTop(t) \/ FindNothing(t) \/ FindMostWorkChain(t) \/ AlreadyActive(t)
         \/ ActivateBestChainStep(t) \/ DisconnectTipFails(t) \/ ConnectTipFails(t, b)
  PROVE  FailureInv'
<1>1. UNCHANGED <<validity, failedValid, failedChild, tip>>
  BY DEF LoopTop, FindNothing, FindMostWorkChain, AlreadyActive, ActivateBestChainStep,
         DisconnectTipFails, ConnectTipFails, statusVars
<1>2. th[t] \in Calls /\ Idle.pc = "idle" /\ Idle \in Calls
  BY Facts, IdleCall DEF Idle
<1>3. \A u \in Threads : th'[u].pc /= "invalidate"
  <2>1. CASE LoopTop(t)
    BY <2>1, <1>2, Facts DEF LoopTop, Goto, FailureInv, Calls
  <2>2. CASE FindNothing(t) \/ AlreadyActive(t) \/ DisconnectTipFails(t) \/ ConnectTipFails(t, b)
    <3>1. th' = [th EXCEPT ![t] = Idle]
      BY <2>2, Zenon DEF FindNothing, AlreadyActive, DisconnectTipFails, ConnectTipFails, AbortNode, Return
    <3> QED BY <1>2, <3>1, NoInvalidation, Zenon
  <2>3. CASE FindMostWorkChain(t)
    <3>1. PICK x \in Blocks : th' = [th EXCEPT ![t].pc = "step", ![t].pindexMostWork = x]
      BY <2>3, Facts, Zenon DEF FindMostWorkChain
    <3> QED BY <1>2, <3>1, Facts DEF FailureInv, Calls
  <2>4. CASE ActivateBestChainStep(t)
    BY <2>4, <1>2, Facts DEF ActivateBestChainStep, FailureInv, Calls
  <2> QED BY <2>1, <2>2, <2>3, <2>4
<1> QED BY <1>1, <1>3, FailureFrame DEF Processed

(* reconsiderblock removes marks only.                                     *)
LEMMA ReconsiderFailure ==
  ASSUME IInv, FailureInv, NEW t \in Threads, NEW b \in Blocks, ResetBlockFailureFlags(t, b)
  PROVE  FailureInv'
<1>1. /\ failedValid' \subseteq failedValid /\ failedChild' \subseteq failedChild
      /\ UNCHANGED <<validity, tip>>
  BY DEF ResetBlockFailureFlags
<1>2. \A u \in Threads : th'[u].pc /= "invalidate"
  <2>1. th' = [th EXCEPT ![t] = Activate(NoBlock, FALSE)]
    BY DEF ResetBlockFailureFlags
  <2> QED BY <2>1, ActivateCall, NoInvalidation, Zenon
<1> QED BY <1>1, <1>2, FailureFrame, Zenon DEF Processed

(* Every step keeps both invariants.                                       *)
LEMMA FailureNext ==
  ASSUME InvalidateBlocks = {}, IInv, FailureInv, [Next]_vars
  PROVE  FailureInv'
<1>1. CASE UNCHANGED vars
  BY <1>1, FailureFrame, Zenon DEF vars, statusVars, Processed, FailureInv
<1>2. CASE Next
  <2>1. CASE \E b \in Blocks : PruneOneBlockFile(b)
    BY <2>1, FailureFrame DEF PruneOneBlockFile, Processed, FailureInv
  <2>2. ASSUME NEW t \in Threads, Receive(t) PROVE FailureInv'
    <3> PICK b \in Blocks :
          \/ AcceptBlockHeader(t, b)
          \/ \E r, out \in BOOLEAN : \/ ProcessKnownBlock(t, b, r, out)
                                     \/ ProcessInvalidBlock(t, b, r, out)
                                     \/ ProcessNewBlock(t, b, r, out)
      BY <2>2 DEF Receive
    <3> QED BY ReceiveFailure, Zenon
  <2>3. ASSUME NEW t \in Threads, Switch(t) \/ LoopTop(t) PROVE FailureInv'
    <3>1. CASE \/ LoopTop(t) \/ FindNothing(t) \/ FindMostWorkChain(t) \/ AlreadyActive(t)
               \/ ActivateBestChainStep(t) \/ DisconnectTipFails(t)
      BY <3>1, CallFailure, Tree
    <3>2. CASE DropCandidate(t)
      BY <3>2, DropFailure
    <3>3. CASE DisconnectTip(t)
      BY <3>3, MoveFailure, Tree
    <3>4. ASSUME NEW b \in Blocks,
                 ConnectTip(t, b) \/ InvalidBlockFound(t, b) \/ ConnectTipFails(t, b)
          PROVE  FailureInv'
      BY <3>4, MoveFailure, CallFailure
    <3>5. ~(InvalidateTip(t) \/ InvalidateTipFails(t) \/ InvalidateEnd(t))
      BY Zenon DEF FailureInv, InvalidateTip, InvalidateTipFails, InvalidateEnd, Running
    <3> QED BY <2>3, <3>1, <3>2, <3>3, <3>4, <3>5 DEF Switch
  <2>4. ASSUME NEW t \in Threads, Operator(t) PROVE FailureInv'
    BY <2>4, ReconsiderFailure DEF Operator, InvalidateBlock
  <2> QED BY <1>2, <2>1, <2>2, <2>3, <2>4 DEF Next
<1> QED BY <1>1, <1>2

\* As long as no operator invalidates a block, no block of the active chain is
\* ever marked failed, whatever threads race in ActivateBestChain with
\* whatever stale pindexMostWork: FindMostWorkChain's remark on the active
\* chain is right.
THEOREM ActiveChainStaysValid ==
  ASSUME InvalidateBlocks = {}
  PROVE  Spec => []ActiveChainValid
<1>1. Init => IInv /\ FailureInv
  BY InitInv, FailureInit
<1>2. (IInv /\ FailureInv) /\ [Next]_vars => (IInv /\ FailureInv)'
  BY NextInv, FailureNext
<1>3. IInv /\ FailureInv => ActiveChainValid
  <2> SUFFICES ASSUME IInv, FailureInv PROVE Anc[tip] \cap Failed = {}
    BY DEF ActiveChainValid
  <2>1. tip \in Blocks
    BY Facts DEF DataOK
  <2> QED BY <2>1, Tree DEF FailureInv
<1> QED BY <1>1, <1>2, <1>3, PTL DEF Spec
=============================================================================
