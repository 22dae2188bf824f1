--------------------------- MODULE BestChainProofs ---------------------------
(***************************************************************************)
(* The candidate set and the waiting blocks of ChainState, for any block   *)
(* tree: which of the assertions of CheckBlockIndex hold, for which        *)
(* operators, and that ActivateBestChain ends with the best chain when     *)
(* only one thread runs it.                                                *)
(***************************************************************************)
EXTENDS ChainStateProofs, WellFoundedInduction

(* A set of numbers has a least element.                                   *)
LEMMA LeastNumber ==
  ASSUME NEW T \in SUBSET Nat, T /= {}
  PROVE  \E m \in T : \A n \in T : m <= n
<1>1. PICK m \in T : \A n \in T : ~ (<<n, m>> \in OpToRel(<, Nat))
  BY NatLessThanWellFounded, WFMin, Zenon
<1>2. \A n \in T : ~(n < m)
  BY <1>1, Zenon DEF OpToRel
<1> QED BY <1>2

(* A set of blocks has a lowest one: what replaces induction on the tree.  *)
LEMMA LowestBlock ==
  ASSUME NEW S \in SUBSET Blocks, S /= {}
  PROVE  \E x \in S : \A y \in S : Height[x] <= Height[y]
<1> DEFINE T == {Height[x] : x \in S}
<1>1. T \in SUBSET Nat /\ T /= {}
  BY TreeAssumption
<1>2. PICK m \in T : \A n \in T : m <= n
  BY <1>1, LeastNumber, Zenon
<1> QED BY <1>2

(* nHeight and nChainWork grow along a chain.                              *)
LEMMA GrowsAlong ==
  ASSUME NEW b \in Blocks, NEW x \in Anc[b], x /= b
  PROVE  Height[x] < Height[b] /\ ChainWork[x] < ChainWork[b]
<1> DEFINE S == {y \in Blocks : x \in Anc[y] /\ x /= y
                   /\ ~(Height[x] < Height[y] /\ ChainWork[x] < ChainWork[y])}
<1> SUFFICES ASSUME S /= {} PROVE FALSE
  OBVIOUS
<1>1. PICK y \in S : \A z \in S : Height[y] <= Height[z]
  BY LowestBlock, Zenon
<1>2. y \in Blocks /\ y /= Genesis /\ x \in Blocks
  BY Tree
<1>3. Prev[y] \in Blocks /\ x \in Anc[Prev[y]]
  BY <1>2, Tree
<1>4. Height[y] = Height[Prev[y]] + 1 /\ ChainWork[y] > ChainWork[Prev[y]]
  BY <1>2, TreeAssumption
<1>5. /\ Height[x] \in Nat /\ Height[y] \in Nat /\ Height[Prev[y]] \in Nat
      /\ ChainWork[x] \in Nat /\ ChainWork[y] \in Nat /\ ChainWork[Prev[y]] \in Nat
  BY <1>2, <1>3, TreeAssumption
<1>6. Prev[y] \notin S
  BY <1>1, <1>4, <1>5
<1>7. x = Prev[y] \/ (Height[x] < Height[Prev[y]] /\ ChainWork[x] < ChainWork[Prev[y]])
  BY <1>3, <1>6
<1> QED BY <1>4, <1>5, <1>7

\* CBlockIndexWorkComparator is a strict total order of blocks whose sequence
\* numbers differ.
LEMMA WorseByOrder ==
  ASSUME NEW S \in SUBSET Blocks, NEW seq \in [Blocks -> Nat],
         \A x, y \in S : x /= y => seq[x] /= seq[y]
  PROVE  /\ \A a \in S : ~WorseBy(seq, a, a)
         /\ \A a, b \in S : WorseBy(seq, a, b) => ~WorseBy(seq, b, a)
         /\ \A a, b \in S : a /= b => WorseBy(seq, a, b) \/ WorseBy(seq, b, a)
         /\ \A a, b, c \in S : WorseBy(seq, a, b) /\ WorseBy(seq, b, c) => WorseBy(seq, a, c)
<1>1. \A a \in S : ChainWork[a] \in Nat /\ seq[a] \in Nat /\ Addr[a] \in Nat
  BY TreeAssumption
<1> QED BY <1>1 DEF WorseBy

(* So it is on the linked blocks.                                          *)
LEMMA WorseOrder ==
  ASSUME IInv
  PROVE  /\ \A a \in linked : ~Worse(a, a)
         /\ \A a, b \in linked : Worse(a, b) => ~Worse(b, a)
         /\ \A a, b \in linked : a /= b => Worse(a, b) \/ Worse(b, a)
         /\ \A a, b, c \in linked : Worse(a, b) /\ Worse(b, c) => Worse(a, c)
<1>1. linked \in SUBSET Blocks /\ nSequenceId \in [Blocks -> Nat]
  BY Facts DEF DataOK
<1>2. \A x, y \in linked : x /= y => nSequenceId[x] /= nSequenceId[y]
  BY DEF IInv, UniqueIds
<1> QED BY <1>1, <1>2, WorseByOrder DEF Worse

\* A block sorts after its ancestors.
LEMMA WorseAlong ==
  ASSUME IInv, NEW b \in linked, NEW x \in Anc[b], x /= b
  PROVE  x \in linked /\ Worse(x, b)
BY Facts, GrowsAlong DEF Worse, WorseBy

-----------------------------------------------------------------------------
(* What a step does to the calls in progress.                              *)

(* Only the call of t changes, and it becomes c.                           *)
Moves(t, pc, mostWork, oldTip) ==
  /\ \A u \in Threads \ {t} : th'[u] = th[u]
  /\ th'[t].pc = pc /\ th'[t].pindexMostWork = mostWork /\ th'[t].pindexOldTip = oldTip

(* EndStep returns or goes back to the top of the loop.                    *)
LEMMA EndStepMoves ==
  ASSUME IInv, NEW t \in Threads, NEW mw, NEW n, EndStep(t, mw, n)
  PROVE  IF n = mw THEN Moves(t, "idle", NoBlock, NoBlock) ELSE Moves(t, "top", mw, NoBlock)
<1>1. th \in [Threads -> Calls]
  BY Facts
<1>2. th[t] \in Calls
  BY <1>1
<1>3. CASE n = mw
  <2>1. th' = [th EXCEPT ![t] = Idle]
    BY <1>3 DEF EndStep, Return
  <2>2. th'[t] = Idle /\ \A u \in Threads \ {t} : th'[u] = th[u]
    BY <1>1, <2>1
  <2> QED BY <1>3, <2>2 DEF Moves, Idle
<1>4. CASE n /= mw
  <2> DEFINE c == [th[t] EXCEPT !.pc = "top", !.pindexMostWork = mw, !.pindexOldTip = NoBlock]
  <2>1. c.pc = "top" /\ c.pindexMostWork = mw /\ c.pindexOldTip = NoBlock
    BY <1>2 DEF Calls
  <2>2. th' = [th EXCEPT ![t] = c]
    BY <1>1, <1>4, Zenon DEF EndStep
  <2>3. th'[t] = c /\ \A u \in Threads \ {t} : th'[u] = th[u]
    BY <1>1, <2>2
  <2> QED BY <1>4, <2>1, <2>3 DEF Moves
<1> QED BY <1>3, <1>4

(* A thread that starts or ends a call.                                    *)
LEMMA CallMoves ==
  ASSUME IInv, NEW t \in Threads
  PROVE  /\ th' = [th EXCEPT ![t] = Idle] => Moves(t, "idle", NoBlock, NoBlock)
         /\ \A b \in Blocks \cup {NoBlock}, out \in BOOLEAN :
              th' = [th EXCEPT ![t] = Activate(b, out)] => Moves(t, "top", NoBlock, NoBlock)
         /\ \A b \in Blocks :
              th' = [th EXCEPT ![t] = [Idle EXCEPT !.pc = "invalidate", !.pindexMostWork = b]]
                => Moves(t, "invalidate", b, NoBlock)
<1>1. th \in [Threads -> Calls]
  BY Facts
<1>2. ASSUME NEW c, th' = [th EXCEPT ![t] = c]
      PROVE  Moves(t, c.pc, c.pindexMostWork, c.pindexOldTip)
  BY <1>1, <1>2 DEF Moves
<1>3. th' = [th EXCEPT ![t] = Idle] => Moves(t, "idle", NoBlock, NoBlock)
  <2>1. Idle.pc = "idle" /\ Idle.pindexMostWork = NoBlock /\ Idle.pindexOldTip = NoBlock
    BY DEF Idle
  <2>2. th' = [th EXCEPT ![t] = Idle] => Moves(t, Idle.pc, Idle.pindexMostWork, Idle.pindexOldTip)
    BY <1>2, Zenon
  <2> QED BY <2>1, <2>2
<1>4. ASSUME NEW b \in Blocks \cup {NoBlock}, NEW out \in BOOLEAN,
             th' = [th EXCEPT ![t] = Activate(b, out)]
      PROVE  Moves(t, "top", NoBlock, NoBlock)
  <2> DEFINE c == Activate(b, out)
  <2>1. Moves(t, c.pc, c.pindexMostWork, c.pindexOldTip)
    BY <1>2, <1>4, Zenon
  <2>2. c.pc = "top" /\ c.pindexMostWork = NoBlock /\ c.pindexOldTip = NoBlock
    BY DEF Activate, Idle
  <2> QED BY <2>1, <2>2
<1>5. ASSUME NEW b \in Blocks,
             th' = [th EXCEPT ![t] = [Idle EXCEPT !.pc = "invalidate", !.pindexMostWork = b]]
      PROVE  Moves(t, "invalidate", b, NoBlock)
  <2> DEFINE c == [Idle EXCEPT !.pc = "invalidate", !.pindexMostWork = b]
  <2>1. Moves(t, c.pc, c.pindexMostWork, c.pindexOldTip)
    BY <1>2, <1>5, Zenon
  <2>2. c.pc = "invalidate" /\ c.pindexMostWork = b /\ c.pindexOldTip = NoBlock
    BY DEF Idle
  <2> QED BY <2>1, <2>2
<1> QED BY <1>3, <1>4, <1>5, Zenon

(* A thread that goes on inside ActivateBestChain.                         *)
LEMMA LoopMoves ==
  ASSUME IInv, NEW t \in Threads
  PROVE  /\ LoopTop(t) =>
              /\ th[t].pc = "top"
              /\ Moves(t, IF th[t].pindexMostWork = NoBlock THEN "find" ELSE "step",
                       th[t].pindexMostWork, th[t].pindexOldTip)
         /\ FindMostWorkChain(t) => \E b \in setBlockIndexCandidates :
              Best(b) /\ Unusable(b) = {} /\ Moves(t, "step", b, th[t].pindexOldTip)
         /\ ActivateBestChainStep(t) => Moves(t, "switch", th[t].pindexMostWork, tip)
<1>1. th \in [Threads -> Calls] /\ th[t] \in Calls
  BY Facts
<1>2. ASSUME LoopTop(t)
      PROVE  /\ th[t].pc = "top"
             /\ Moves(t, IF th[t].pindexMostWork = NoBlock THEN "find" ELSE "step",
                      th[t].pindexMostWork, th[t].pindexOldTip)
  BY <1>1, <1>2 DEF LoopTop, Goto, Moves, Calls
<1>3. ASSUME FindMostWorkChain(t)
      PROVE  \E b \in setBlockIndexCandidates :
               Best(b) /\ Unusable(b) = {} /\ Moves(t, "step", b, th[t].pindexOldTip)
  <2>1. PICK b \in setBlockIndexCandidates :
          /\ Best(b) /\ Unusable(b) = {}
          /\ th' = [th EXCEPT ![t].pc = "step", ![t].pindexMostWork = b]
    BY <1>3, Zenon DEF FindMostWorkChain
  <2>2. Moves(t, "step", b, th[t].pindexOldTip)
    BY <1>1, <2>1 DEF Moves, Calls
  <2> QED BY <2>1, <2>2
<1>4. ASSUME ActivateBestChainStep(t)
      PROVE  Moves(t, "switch", th[t].pindexMostWork, tip)
  BY <1>1, <1>4 DEF ActivateBestChainStep, Moves, Calls
<1> QED BY <1>2, <1>3, <1>4

(* No step but the first one of InvalidateBlock takes a thread into its    *)
(* loop.                                                                   *)
LEMMA InvalidateStays ==
  ASSUME IInv, [Next]_vars, \A t \in Threads, b \in Blocks : ~InvalidateBlock(t, b)
  PROVE  \A u \in Threads : th'[u].pc = "invalidate" => th'[u] = th[u]
<1> DEFINE Stays(t) == /\ \A u \in Threads \ {t} : th'[u] = th[u]
                       /\ th'[t].pc /= "invalidate"
<1>0. ASSUME NEW t \in Threads, UNCHANGED th \/ Stays(t)
      PROVE  \A u \in Threads : th'[u].pc = "invalidate" => th'[u] = th[u]
  BY <1>0
<1>1. CASE UNCHANGED vars
  BY <1>1 DEF vars
<1>2. CASE \E b \in Blocks : PruneOneBlockFile(b)
  BY <1>2 DEF PruneOneBlockFile
<1>3. ASSUME NEW t \in Threads, Receive(t)
      PROVE  UNCHANGED th \/ Stays(t)
  <2>1. \/ UNCHANGED th
        \/ \E b \in Blocks, out \in BOOLEAN : th' = [th EXCEPT ![t] = Activate(b, out)]
    BY <1>3 DEF Receive, AcceptBlockHeader, ProcessKnownBlock, ProcessInvalidBlock, ProcessNewBlock
  <2> QED BY <2>1, CallMoves, Zenon DEF Moves
<1>4. ASSUME NEW t \in Threads, LoopTop(t)
      PROVE  Stays(t)
  BY <1>4, LoopMoves DEF Moves
<1>5. ASSUME NEW t \in Threads, Switch(t)
      PROVE  UNCHANGED th \/ Stays(t)
  <2>1. CASE FindMostWorkChain(t)
    BY <2>1, LoopMoves DEF Moves
  <2>2. CASE ActivateBestChainStep(t)
    BY <2>2, LoopMoves DEF Moves
  <2>3. CASE \/ FindNothing(t) \/ AlreadyActive(t) \/ DisconnectTipFails(t) \/ InvalidateTipFails(t)
             \/ \E b \in Blocks : ConnectTipFails(t, b)
    <3>1. th' = [th EXCEPT ![t] = Idle]
      BY <2>3 DEF FindNothing, AlreadyActive, DisconnectTipFails, InvalidateTipFails,
                  ConnectTipFails, AbortNode, Return
    <3> QED BY <3>1, CallMoves, Zenon DEF Moves
  <2>4. CASE DropCandidate(t) \/ InvalidateTip(t)
    BY <2>4 DEF DropCandidate, InvalidateTip
  <2>5. CASE DisconnectTip(t) \/ \E b \in Blocks : ConnectTip(t, b) \/ InvalidBlockFound(t, b)
    <3>1. UNCHANGED th \/ \E mw, n : EndStep(t, mw, n)
      BY <2>5 DEF DisconnectTip, ConnectTip, InvalidBlockFound
    <3> QED BY <3>1, EndStepMoves DEF Moves
  <2>6. CASE InvalidateEnd(t)
    <3>1. th' = [th EXCEPT ![t] = Activate(NoBlock, FALSE)]
      BY <2>6 DEF InvalidateEnd
    <3> QED BY <3>1, CallMoves, Zenon DEF Moves
  <2> QED BY <1>5, <2>1, <2>2, <2>3, <2>4, <2>5, <2>6 DEF Switch
<1>6. ASSUME NEW t \in Threads, Operator(t)
      PROVE  Stays(t)
  <2>1. th' = [th EXCEPT ![t] = Activate(NoBlock, FALSE)]
    BY <1>6, Zenon DEF Operator, ResetBlockFailureFlags
  <2> QED BY <2>1, CallMoves, Zenon DEF Moves
<1> QED BY <1>0, <1>1, <1>2, <1>3, <1>4, <1>5, <1>6 DEF Next

\* Steps that leave the index, the candidates and the active chain alone.
Still ==
  /\ UNCHANGED <<haveData, failedValid, failedChild, linkVars, setBlockIndexCandidates, tip>>
  /\ Processed' = Processed

(* The other steps.                                                        *)
LEMMA StepKinds ==
  ASSUME IInv, [Next]_vars
  PROVE  \/ Still
         \/ \E t \in Threads, b \in Blocks, r, out \in BOOLEAN :
              ProcessInvalidBlock(t, b, r, out) \/ ProcessNewBlock(t, b, r, out)
         \/ \E t \in Threads :
              DropCandidate(t) \/ DisconnectTip(t) \/ InvalidateTip(t) \/ InvalidateTipFails(t)
              \/ InvalidateEnd(t)
         \/ \E t \in Threads, b \in Blocks :
              \/ ConnectTip(t, b) \/ InvalidBlockFound(t, b)
              \/ InvalidateBlock(t, b) \/ ResetBlockFailureFlags(t, b)
         \/ \E b \in Blocks : PruneOneBlockFile(b)
<1>0. validity \in [Blocks -> Levels] /\ VALID_TREE \in Levels
  BY Facts DEF DataOK, Levels
<1>1. CASE UNCHANGED vars
  BY <1>1 DEF vars, statusVars, Still, Processed
<1>2. ASSUME NEW t \in Threads, NEW b \in Blocks, NEW r \in BOOLEAN, NEW out \in BOOLEAN,
             AcceptBlockHeader(t, b) \/ ProcessKnownBlock(t, b, r, out)
      PROVE  Still
  <2>1. Processed' = Processed
    BY <1>0, <1>2, RaiseKeeps DEF AcceptBlockHeader, ProcessKnownBlock
  <2> QED BY <1>2, <2>1 DEF Still, AcceptBlockHeader, ProcessKnownBlock
<1>3. ASSUME NEW t \in Threads, NEW b \in Blocks,
             \/ LoopTop(t) \/ FindNothing(t) \/ FindMostWorkChain(t) \/ AlreadyActive(t)
             \/ ActivateBestChainStep(t) \/ DisconnectTipFails(t) \/ ConnectTipFails(t, b)
      PROVE  Still
  BY <1>3 DEF LoopTop, FindNothing, FindMostWorkChain, AlreadyActive, ActivateBestChainStep,
              DisconnectTipFails, ConnectTipFails, statusVars, Still, Processed
<1>4. Genesis \in Blocks
  BY Tree
<1> QED BY <1>1, <1>2, <1>3, <1>4, Zenon DEF Next, Receive, Switch, Operator

-----------------------------------------------------------------------------
(* Without reconsiderblock: every failure flag has a cause.                *)

\* The block that InvalidateBlock works on is marked.
CauseInv ==
  /\ FailedHasCause
  /\ \A t \in Threads : th[t].pc = "invalidate" => th[t].pindexMostWork \in failedValid

(* A block above an invalid one is invalid.                                *)
LEMMA InvalidAbove ==
  ASSUME NEW b \in Blocks, NEW x \in Anc[b], Invalid(x)
  PROVE  Invalid(b)
BY Tree DEF Invalid

(* The blocks between a candidate and the block the walk stops at are      *)
(* above the latter and not in the active chain.                           *)
LEMMA AboveFacts ==
  ASSUME IInv, NEW b \in setBlockIndexCandidates, NEW x \in Blocks, StopsAt(x, b)
  PROVE  /\ b \in linked /\ b \in Blocks /\ x \in Anc[b] /\ x \in linked
         /\ \A y \in Above(x, b) : /\ y \in Blocks /\ y \in linked /\ x \in Anc[y] /\ y /= x
                                   /\ y \notin Anc[tip]
                                   /\ Height[x] < Height[y]
                                   /\ y \in haveData /\ y \notin Failed
<1>1. b \in linked /\ b \in Blocks /\ x \in Anc[b] /\ x \notin Anc[tip] /\ x \in linked
  BY Facts DEF StopsAt, Unusable
<1>2. ASSUME NEW y \in Above(x, b)
      PROVE  /\ y \in Blocks /\ y \in linked /\ x \in Anc[y] /\ y /= x /\ y \notin Anc[tip]
             /\ Height[x] < Height[y] /\ y \in haveData /\ y \notin Failed
  <2>1. y \in Anc[b] /\ y \notin Anc[x] /\ y \in Blocks /\ y \in linked
    BY <1>1, Facts, Tree DEF Above
  <2>2. x \in Anc[y] /\ y /= x
    BY <1>1, <2>1, Tree
  <2>3. y \notin Anc[tip]
    <3>1. tip \in Blocks
      BY Facts DEF DataOK
    <3> QED BY <1>1, <2>2, <3>1, Tree
  <2>4. Height[x] < Height[y] /\ Height[x] \in Nat /\ Height[y] \in Nat
    BY <2>1, <2>2, GrowsAlong, TreeAssumption
  <2>5. y \notin Unusable(b)
    BY <2>4 DEF StopsAt
  <2> QED BY <2>1, <2>2, <2>3, <2>4, <2>5 DEF Unusable
<1> QED BY <1>1, <1>2

(* A step that marks blocks whose chain is invalid.                        *)
LEMMA CauseFrame ==
  ASSUME CauseInv, failedValid \subseteq failedValid', failedValid' \subseteq Blocks,
         \A y \in failedChild' \ failedChild : Invalid(y),
         \A u \in Threads : th'[u].pc = "invalidate" => th'[u] = th[u]
  PROVE  CauseInv'
<1>1. \A y \in Failed' : Invalid(y)'
  <2>1. \A y : Invalid(y) => Invalid(y)'
    BY DEF Invalid
  <2>2. \A y \in failedValid' : Invalid(y)'
    BY Tree DEF Invalid
  <2> QED BY <2>1, <2>2 DEF CauseInv, FailedHasCause, Failed
<1> QED BY <1>1 DEF CauseInv, FailedHasCause

(* Every step but those of reconsiderblock keeps the causes.               *)
LEMMA CauseNext ==
  ASSUME ReconsiderBlocks = {}, IInv, CauseInv, [Next]_vars
  PROVE  CauseInv'
<1>0. failedValid' \subseteq Blocks
  BY NextInv, TypeSplit DEF IInv, TypeOK
<1>1. CASE \E t \in Threads, b \in Blocks : InvalidateBlock(t, b)
  <2> PICK t \in Threads, b \in Blocks : InvalidateBlock(t, b)
    BY <1>1
  <2>1. Moves(t, "invalidate", b, NoBlock)
    BY CallMoves, Zenon DEF InvalidateBlock
  <2>2. failedValid' = failedValid \cup {b} /\ failedChild' = failedChild
    BY DEF InvalidateBlock
  <2>3. \A y : Invalid(y) => Invalid(y)'
    BY <2>2 DEF Invalid
  <2>4. Invalid(b)'
    BY <2>2, Tree DEF Invalid
  <2>5. FailedHasCause'
    BY <2>2, <2>3, <2>4 DEF CauseInv, FailedHasCause, Failed
  <2> QED BY <2>1, <2>2, <2>5 DEF CauseInv, Moves
<1>2. CASE \A t \in Threads, b \in Blocks : ~InvalidateBlock(t, b)
  <2>1. \A u \in Threads : th'[u].pc = "invalidate" => th'[u] = th[u]
    BY <1>2, InvalidateStays
  <2>2. CASE Still
    BY <1>0, <2>1, <2>2, CauseFrame DEF Still
  <2>3. ASSUME NEW t \in Threads, NEW b \in Blocks, NEW r \in BOOLEAN, NEW out \in BOOLEAN,
               ProcessInvalidBlock(t, b, r, out) \/ ProcessNewBlock(t, b, r, out)
        PROVE  CauseInv'
    BY <1>0, <2>1, <2>3, CauseFrame DEF ProcessInvalidBlock, ProcessNewBlock
  <2>4. ASSUME NEW t \in Threads, DropCandidate(t)
        PROVE  CauseInv'
    <3>1. PICK b \in setBlockIndexCandidates, x \in Blocks :
            /\ StopsAt(x, b)
            /\ failedChild' = IF x \in Failed THEN failedChild \cup Above(x, b) ELSE failedChild
      BY <2>4 DEF DropCandidate
    <3>2. x \in Failed => \A y \in Above(x, b) : Invalid(y)
      BY <3>1, AboveFacts, InvalidAbove DEF CauseInv, FailedHasCause
    <3>3. failedValid' = failedValid
      BY <2>4 DEF DropCandidate
    <3> QED BY <1>0, <2>1, <3>1, <3>2, <3>3, CauseFrame
  <2>5. ASSUME NEW t \in Threads, DisconnectTip(t) \/ InvalidateEnd(t)
        PROVE  CauseInv'
    BY <1>0, <2>1, <2>5, CauseFrame, Zenon DEF DisconnectTip, InvalidateEnd, statusVars
  <2>6. ASSUME NEW t \in Threads, InvalidateTip(t) \/ InvalidateTipFails(t)
        PROVE  CauseInv'
    <3>1. th[t].pindexMostWork \in Anc[tip] \cap failedValid
      BY <2>6 DEF InvalidateTip, InvalidateTipFails, Running, StillActive, CauseInv
    <3>2. Invalid(tip)
      BY <3>1 DEF Invalid
    <3>3. failedChild' = failedChild \cup {tip} /\ failedValid' = failedValid
      BY <2>6 DEF InvalidateTip, InvalidateTipFails
    <3> QED BY <1>0, <2>1, <3>2, <3>3, CauseFrame
  <2>7. ASSUME NEW t \in Threads, NEW b \in Blocks, ConnectTip(t, b) \/ InvalidBlockFound(t, b)
        PROVE  CauseInv'
    BY <1>0, <2>1, <2>7, CauseFrame DEF ConnectTip, InvalidBlockFound
  <2>8. ASSUME NEW b \in Blocks, PruneOneBlockFile(b)
        PROVE  CauseInv'
    BY <1>0, <2>1, <2>8, CauseFrame DEF PruneOneBlockFile
  <2>9. ~ \E t \in Threads, b \in Blocks : ResetBlockFailureFlags(t, b)
    BY DEF ResetBlockFailureFlags
  <2> QED BY <1>2, <2>2, <2>3, <2>4, <2>5, <2>6, <2>7, <2>8, <2>9, StepKinds
<1> QED BY <1>1, <1>2

\* CheckBlockIndex: as long as no operator reconsiders a block, every block
\* that carries a failure flag is above a block that failed itself or that an
\* operator invalidated, however threads, failures and pruning interleave.
THEOREM FailuresHaveCauses ==
  ASSUME ReconsiderBlocks = {}
  PROVE  Spec => []FailedHasCause
<1>1. Init => IInv /\ CauseInv
  BY InitInv DEF Init, CauseInv, FailedHasCause, Failed, Idle
<1>2. (IInv /\ CauseInv) /\ [Next]_vars => (IInv /\ CauseInv)'
  BY NextInv, CauseNext
<1>3. IInv /\ CauseInv => FailedHasCause
  BY DEF CauseInv
<1> QED BY <1>1, <1>2, <1>3, PTL DEF Spec

-----------------------------------------------------------------------------
(* ReceivedBlockTransactions.                                              *)

(* The caller goes on to ActivateBestChain.                                *)
LEMMA ReceiveMoves ==
  ASSUME IInv, NEW t \in Threads, NEW b \in Blocks, NEW r \in BOOLEAN, NEW out \in BOOLEAN,
         ProcessNewBlock(t, b, r, out)
  PROVE  Moves(t, "top", NoBlock, NoBlock)
<1>1. th' = [th EXCEPT ![t] = Activate(b, out)]
  BY DEF ProcessNewBlock
<1> QED BY <1>1, CallMoves, Zenon

(* What it links, and the numbers it gives.                                *)
LEMMA ReceiveFacts ==
  ASSUME IInv, NEW t \in Threads, NEW b \in Blocks, NEW r \in BOOLEAN, NEW out \in BOOLEAN,
         ProcessNewBlock(t, b, r, out)
  PROVE  /\ b \notin haveData /\ b \notin CheckBad /\ haveData' = haveData \cup {b}
         /\ Processed' = Processed \cup {b}
         /\ NewlyLinked(b) \subseteq {b} \cup mapBlocksUnlinked
         /\ b \in linked => b \in NewlyLinked(b)
         /\ linked' = linked \cup NewlyLinked(b)
         /\ mapBlocksUnlinked' = (mapBlocksUnlinked \ NewlyLinked(b))
              \cup (IF NewlyLinked(b) = {} /\ Prev[b] \notin Failed THEN {b} ELSE {})
         /\ setBlockIndexCandidates' = setBlockIndexCandidates
              \cup {x \in NewlyLinked(b) : ~Worse(x, tip)'}
         /\ \A x \in Blocks \ NewlyLinked(b) : nSequenceId'[x] = nSequenceId[x]
         /\ UNCHANGED <<failedValid, failedChild, tip, aborted>>
         /\ Moves(t, "top", NoBlock, NoBlock)
<1>0. ReceivedBlockTransactions(b)
  BY DEF ProcessNewBlock
<1>1. /\ NewlyLinked(b) \subseteq {b} \cup mapBlocksUnlinked
      /\ b \in linked => b \in NewlyLinked(b)
  BY NewlyLinkedClosed
<1>2. /\ haveData' = haveData \cup {b} /\ linked' = (linked \ {b}) \cup NewlyLinked(b)
      /\ setBlockIndexCandidates' = setBlockIndexCandidates
           \cup {x \in NewlyLinked(b) : ~WorseBy(nSequenceId', x, tip)}
      /\ mapBlocksUnlinked' = (mapBlocksUnlinked \ NewlyLinked(b))
           \cup (IF NewlyLinked(b) = {} /\ Prev[b] \notin Failed THEN {b} ELSE {})
  BY <1>0 DEF ReceivedBlockTransactions
<1>3. \A x \in Blocks \ NewlyLinked(b) : nSequenceId'[x] = nSequenceId[x]
  BY <1>0 DEF ReceivedBlockTransactions
<1>4. Processed' = Processed \cup {b}
  <2>1. /\ validity \in [Blocks -> Levels] /\ VALID_TRANSACTIONS \in Levels
        /\ validity' = Raise(b, VALID_TRANSACTIONS)
    BY <1>0, Facts DEF DataOK, Levels, ReceivedBlockTransactions
  <2> QED BY <2>1, RaiseKeeps
<1>5. b \notin haveData /\ b \notin CheckBad
  BY DEF ProcessNewBlock, NotProcessed
<1>6. UNCHANGED <<failedValid, failedChild, tip, aborted>>
  BY DEF ProcessNewBlock
<1>7. Moves(t, "top", NoBlock, NoBlock)
  BY ReceiveMoves
<1>8. \A x : Worse(x, tip)' <=> WorseBy(nSequenceId', x, tip)
  BY <1>6 DEF Worse, WorseBy
<1> QED BY <1>1, <1>2, <1>3, <1>4, <1>5, <1>6, <1>7, <1>8

-----------------------------------------------------------------------------
(* On a node that does not prune, the processed blocks are the stored      *)
(* ones, and no linked block waits for an ancestor.                        *)
StoredInv == haveData = Processed /\ mapBlocksUnlinked \cap linked = {}

\* The walk of FindMostWorkChain then only stops at failed blocks.
LEMMA StopsAtFailed ==
  ASSUME IInv, StoredInv, NEW b \in setBlockIndexCandidates, NEW x \in Blocks, StopsAt(x, b)
  PROVE  x \in Failed
BY Facts DEF StopsAt, Unusable, StoredInv

(* ProcessNewBlock then links blocks that were not linked.                 *)
LEMMA NewlyLinkedNew ==
  ASSUME IInv, StoredInv, NEW b \in Blocks, b \notin haveData
  PROVE  b \notin linked /\ NewlyLinked(b) \cap linked = {}
BY Facts, NewlyLinkedClosed DEF StoredInv

(* A block that is connected was processed before.                         *)
LEMMA ConnectFacts ==
  ASSUME IInv, NEW t \in Threads, NEW b \in Blocks, ConnectTip(t, b)
  PROVE  /\ th[t].pc = "switch" /\ th[t].pindexMostWork \in linked
         /\ b \in Anc[th[t].pindexMostWork] /\ b \in linked
         /\ b /= Genesis /\ Prev[b] = tip /\ Anc[b] = Anc[tip] \cup {b}
         /\ b \notin ConnectBad /\ tip' = b
         /\ setBlockIndexCandidates' = {c \in setBlockIndexCandidates : ~Worse(c, b)}
         /\ Processed' = Processed
         /\ UNCHANGED <<haveData, failedValid, failedChild, linkVars, aborted>>
<1>1. th[t].pc = "switch" /\ th[t].pindexMostWork \in linked /\ b \in Anc[th[t].pindexMostWork]
  BY Facts DEF ConnectTip, Connects, Running, CallOK, Known
<1>2. b \in linked /\ b \in Processed
  BY <1>1, Facts
<1>3. Processed' = Processed
  <2>1. CASE b \in Failed
    BY <2>1 DEF ConnectTip, Processed
  <2>2. CASE b \notin Failed
    <3>1. /\ validity' = Raise(b, VALID_SCRIPTS) /\ VALID_SCRIPTS \in Levels
          /\ validity \in [Blocks -> Levels]
      BY <2>2, Facts DEF ConnectTip, Levels, DataOK
    <3>2. Processed' = Processed \cup {b}
      BY <3>1, RaiseKeeps
    <3> QED BY <1>2, <3>2
  <2> QED BY <2>1, <2>2
<1>4. b /= Genesis /\ Prev[b] = tip /\ Anc[b] = Anc[tip] \cup {b}
  BY Tree DEF ConnectTip, Connects
<1> QED BY <1>1, <1>2, <1>3, <1>4 DEF ConnectTip, PruneBlockIndexCandidates

(* A tip that is disconnected has a parent, which is worse.                *)
LEMMA DisconnectFacts ==
  ASSUME IInv, NEW t \in Threads, DisconnectTip(t) \/ InvalidateTip(t)
  PROVE  /\ tip \in linked /\ tip /= Genesis /\ tip' = Prev[tip] /\ tip' \in linked
         /\ Anc[tip] = Anc[tip'] \cup {tip} /\ Worse(tip', tip)
         /\ DisconnectTip(t) =>
              /\ th[t].pc = "switch" /\ th[t].pindexMostWork \in linked
              /\ UNCHANGED <<statusVars, linkVars, setBlockIndexCandidates, aborted>>
<1>1. tip \in linked /\ tip \in Blocks
  BY Facts DEF DataOK
<1>2. tip /= Genesis
  <2>1. CASE DisconnectTip(t)
    <3>1. th[t].pindexMostWork \in linked
      BY <2>1, Facts DEF DisconnectTip, Running, CallOK, Known
    <3> QED BY <2>1, <3>1, Facts, Tree DEF DisconnectTip
  <2>2. CASE InvalidateTip(t)
    <3>1. th[t].pindexMostWork \in Anc[tip] /\ th[t].pindexMostWork /= Genesis
      BY <2>2, Facts DEF InvalidateTip, Running, StillActive, CallOK
    <3> QED BY <3>1, Tree
  <2> QED BY <2>1, <2>2
<1>3. tip' = Prev[tip] /\ Prev[tip] \in Anc[tip] /\ Anc[tip] = Anc[Prev[tip]] \cup {tip}
  BY <1>1, <1>2, Tree DEF DisconnectTip, InvalidateTip
<1>4. Prev[tip] /= tip
  BY <1>1, <1>2, TreeAssumption
<1>5. tip' \in linked /\ Worse(tip', tip)
  <2>1. Prev[tip] \in linked /\ Worse(Prev[tip], tip)
    BY <1>1, <1>3, <1>4, WorseAlong
  <2> QED BY <1>3, <2>1
<1>6. DisconnectTip(t) =>
        /\ th[t].pc = "switch" /\ th[t].pindexMostWork \in linked
        /\ UNCHANGED <<statusVars, linkVars, setBlockIndexCandidates, aborted>>
  BY Facts DEF DisconnectTip, Running, CallOK, Known
<1> QED BY <1>1, <1>2, <1>3, <1>5, <1>6

(* A block that fails CheckBlock is marked and nothing else.               *)
LEMMA InvalidFacts ==
  ASSUME IInv, NEW t \in Threads, NEW b \in Blocks, NEW r \in BOOLEAN, NEW out \in BOOLEAN,
         ProcessInvalidBlock(t, b, r, out)
  PROVE  /\ Processed' = Processed /\ b \in CheckBad /\ failedValid' = failedValid \cup {b}
         /\ UNCHANGED <<haveData, failedChild, linkVars, setBlockIndexCandidates, tip, th, aborted>>
<1>1. validity \in [Blocks -> Levels] /\ VALID_TREE \in Levels
  BY Facts DEF DataOK, Levels
<1>2. Processed' = Processed
  BY <1>1, RaiseKeeps DEF ProcessInvalidBlock
<1> QED BY <1>2 DEF ProcessInvalidBlock

(* Every step keeps StoredInv on a node that does not prune.               *)
LEMMA StoredNext ==
  ASSUME PrunableBlocks = {}, IInv, StoredInv, [Next]_vars
  PROVE  StoredInv'
<1>1. ASSUME haveData' = Processed', UNCHANGED <<linked, mapBlocksUnlinked>>
      PROVE  StoredInv'
  BY <1>1 DEF StoredInv
<1>2. CASE Still
  BY <1>1, <1>2 DEF Still, linkVars, StoredInv
<1>3. ASSUME NEW t \in Threads, NEW b \in Blocks, NEW r \in BOOLEAN, NEW out \in BOOLEAN,
             ProcessInvalidBlock(t, b, r, out) \/ ProcessNewBlock(t, b, r, out)
      PROVE  StoredInv'
  <2>1. CASE ProcessInvalidBlock(t, b, r, out)
    BY <1>1, <2>1, InvalidFacts DEF linkVars, StoredInv
  <2>2. CASE ProcessNewBlock(t, b, r, out)
    <3>1. /\ b \notin haveData /\ haveData' = haveData \cup {b} /\ Processed' = Processed \cup {b}
          /\ linked' = linked \cup NewlyLinked(b)
          /\ mapBlocksUnlinked' = (mapBlocksUnlinked \ NewlyLinked(b))
               \cup (IF NewlyLinked(b) = {} /\ Prev[b] \notin Failed THEN {b} ELSE {})
      BY <2>2, ReceiveFacts
    <3>2. b \notin linked
      BY <3>1, NewlyLinkedNew
    <3> QED BY <3>1, <3>2 DEF StoredInv
  <2> QED BY <1>3, <2>1, <2>2
<1>4. ASSUME NEW t \in Threads, DropCandidate(t)
      PROVE  StoredInv'
  <2>1. PICK b \in setBlockIndexCandidates, x \in Blocks :
          /\ StopsAt(x, b)
          /\ mapBlocksUnlinked' = IF x \in Failed THEN mapBlocksUnlinked ELSE Requeued(Above(x, b))
    BY <1>4 DEF DropCandidate
  <2>2. x \in Failed
    BY <2>1, StopsAtFailed
  <2> QED BY <1>1, <1>4, <2>1, <2>2 DEF DropCandidate, Processed, StoredInv
<1>5. ASSUME NEW t \in Threads,
             DisconnectTip(t) \/ InvalidateTip(t) \/ InvalidateTipFails(t) \/ InvalidateEnd(t)
      PROVE  StoredInv'
  BY <1>1, <1>5, Zenon DEF DisconnectTip, InvalidateTip, InvalidateTipFails, InvalidateEnd, statusVars,
                    linkVars, Processed, StoredInv
<1>6. ASSUME NEW t \in Threads, NEW b \in Blocks, ConnectTip(t, b)
      PROVE  StoredInv'
  BY <1>1, <1>6, ConnectFacts DEF linkVars, StoredInv
<1>7. ASSUME NEW t \in Threads, NEW b \in Blocks,
             InvalidBlockFound(t, b) \/ InvalidateBlock(t, b) \/ ResetBlockFailureFlags(t, b)
      PROVE  StoredInv'
  BY <1>1, <1>7, Zenon DEF InvalidBlockFound, InvalidateBlock, ResetBlockFailureFlags, linkVars,
                    Processed, StoredInv
<1>8. ~ \E b \in Blocks : PruneOneBlockFile(b)
  BY DEF PruneOneBlockFile
<1> QED BY <1>2, <1>3, <1>4, <1>5, <1>6, <1>7, <1>8, StepKinds

(* The genesis block is stored at the start.                               *)
LEMMA StoredInit == Init => StoredInv
BY Tree DEF Init, StoredInv, Processed, UNKNOWN, VALID_TRANSACTIONS, VALID_SCRIPTS

\* No candidate sorts before the tip, at any time.
NotWorse == \A c \in setBlockIndexCandidates : ~Worse(c, tip)

(* A step that moves neither the tip nor the numbers.                      *)
LEMMA NotWorseFrame ==
  ASSUME NotWorse, UNCHANGED <<nSequenceId, tip>>,
         \A c \in setBlockIndexCandidates' \ setBlockIndexCandidates : ~Worse(c, tip)
  PROVE  NotWorse'
BY DEF NotWorse, Worse, WorseBy

(* Every step keeps the candidates at least as good as the tip.            *)
LEMMA NotWorseNext ==
  ASSUME PrunableBlocks = {}, IInv, StoredInv, NotWorse, [Next]_vars
  PROVE  NotWorse'
<1>0. setBlockIndexCandidates \subseteq linked /\ tip \in linked /\ linked \subseteq Blocks
  BY Facts
<1>1. CASE Still
  BY <1>1, NotWorseFrame DEF Still, linkVars
<1>2. ASSUME NEW t \in Threads, NEW b \in Blocks, NEW r \in BOOLEAN, NEW out \in BOOLEAN,
             ProcessInvalidBlock(t, b, r, out) \/ ProcessNewBlock(t, b, r, out)
      PROVE  NotWorse'
  <2>1. CASE ProcessInvalidBlock(t, b, r, out)
    BY <2>1, InvalidFacts, NotWorseFrame DEF linkVars
  <2>2. CASE ProcessNewBlock(t, b, r, out)
    <3>1. NewlyLinked(b) \cap linked = {}
      BY <2>2, ReceiveFacts, NewlyLinkedNew
    <3>2. \A x \in linked : nSequenceId'[x] = nSequenceId[x]
      BY <1>0, <2>2, <3>1, ReceiveFacts
    <3>3. tip' = tip /\ setBlockIndexCandidates' = setBlockIndexCandidates
                          \cup {x \in NewlyLinked(b) : ~Worse(x, tip)'}
      BY <2>2, ReceiveFacts
    <3>4. \A c \in setBlockIndexCandidates : ~Worse(c, tip)'
      BY <1>0, <3>2, <3>3 DEF NotWorse, Worse, WorseBy
    <3> QED BY <3>3, <3>4 DEF NotWorse
  <2> QED BY <1>2, <2>1, <2>2
<1>3. ASSUME NEW t \in Threads, DisconnectTip(t) \/ InvalidateTip(t)
      PROVE  NotWorse'
  <2>1. tip' \in linked /\ Worse(tip', tip)
    BY <1>3, DisconnectFacts
  <2>2. setBlockIndexCandidates' \subseteq setBlockIndexCandidates /\ nSequenceId' = nSequenceId
    BY <1>3 DEF DisconnectTip, InvalidateTip, linkVars
  <2>3. \A c \in setBlockIndexCandidates : ~Worse(c, tip')
    BY <1>0, <2>1, WorseOrder DEF NotWorse
  <2> QED BY <2>2, <2>3 DEF NotWorse, Worse
<1>4. ASSUME NEW t \in Threads, DropCandidate(t) \/ InvalidateTipFails(t) \/ InvalidateEnd(t)
      PROVE  NotWorse'
  BY <1>4, NotWorseFrame, Zenon DEF DropCandidate, InvalidateTipFails, InvalidateEnd, Reinstated, linkVars
<1>5. ASSUME NEW t \in Threads, NEW b \in Blocks, ConnectTip(t, b)
      PROVE  NotWorse'
  <2>1. /\ tip' = b /\ setBlockIndexCandidates' = {c \in setBlockIndexCandidates : ~Worse(c, b)}
        /\ nSequenceId' = nSequenceId
    BY <1>5, ConnectFacts DEF linkVars
  <2> QED BY <2>1 DEF NotWorse, Worse
<1>6. ASSUME NEW t \in Threads, NEW b \in Blocks, InvalidBlockFound(t, b) \/ InvalidateBlock(t, b)
      PROVE  NotWorse'
  BY <1>6, NotWorseFrame DEF InvalidBlockFound, InvalidateBlock, linkVars
<1>7. ASSUME NEW t \in Threads, NEW b \in Blocks, ResetBlockFailureFlags(t, b)
      PROVE  NotWorse'
  <2>1. \A x \in setBlockIndexCandidates' \ setBlockIndexCandidates : x \in linked /\ Worse(tip, x)
    BY <1>7 DEF ResetBlockFailureFlags, Reconsidered
  <2>2. \A x \in setBlockIndexCandidates' \ setBlockIndexCandidates : ~Worse(x, tip)
    BY <1>0, <2>1, WorseOrder
  <2> QED BY <1>7, <2>2, NotWorseFrame DEF ResetBlockFailureFlags, linkVars
<1>8. ~ \E b \in Blocks : PruneOneBlockFile(b)
  BY DEF PruneOneBlockFile
<1> QED BY <1>1, <1>2, <1>3, <1>4, <1>5, <1>6, <1>7, <1>8, StepKinds

\* CheckBlockIndex: on a node that does not prune, a block that "sorts worse
\* than the current tip" is never in setBlockIndexCandidates, whatever threads
\* race and whatever an operator invalidates and reconsiders.
THEOREM CandidatesStaySound ==
  ASSUME PrunableBlocks = {}
  PROVE  Spec => []CandidatesSound
<1>1. Init => IInv /\ StoredInv /\ NotWorse
  <2>1. Init => NotWorse
    BY TreeAssumption DEF Init, NotWorse, Worse, WorseBy
  <2> QED BY <2>1, InitInv, StoredInit
<1>2. (IInv /\ StoredInv /\ NotWorse) /\ [Next]_vars => (IInv /\ StoredInv /\ NotWorse)'
  BY NextInv, StoredNext, NotWorseNext
<1>3. IInv /\ StoredInv /\ NotWorse => CandidatesSound
  BY DEF NotWorse, CandidatesSound
<1> QED BY <1>1, <1>2, <1>3, PTL DEF Spec

-----------------------------------------------------------------------------
(* Without invalidateblock: what waits in mapBlocksUnlinked.               *)

\* A block whose chain can never be complete.
Faulty(b) == Anc[b] \cap CheckBad /= {}

\* A failed block that is not linked cannot be; a stored block that is not
\* linked waits or cannot be; and below a waiting block there are waiting
\* blocks down to one that is missing.
UnlinkedInv ==
  /\ haveData \subseteq Processed
  /\ \A f \in Failed \ linked : Faulty(f)
  /\ \A b \in haveData \ linked : b \in mapBlocksUnlinked \/ Faulty(b)
  /\ mapBlocksUnlinked \subseteq haveData
  /\ \A b \in mapBlocksUnlinked :
       Prev[b] \in mapBlocksUnlinked \/ Prev[b] \notin haveData \/ Faulty(b)

(* NewlyLinked, from a block to its children.                              *)
LEMMA NewlyLinkedChild ==
  ASSUME IInv, NEW b \in Blocks
  PROVE  /\ NewlyLinked(b) /= {} => b \in NewlyLinked(b)
         /\ NewlyLinked(b) = {} => b /= Genesis /\ Prev[b] \in Blocks /\ Prev[b] \notin linked
         /\ \A y \in mapBlocksUnlinked : Prev[y] \in NewlyLinked(b) => y \in NewlyLinked(b)
<1>0. b \in {x \in Blocks : b \in Anc[x] /\ Anc[x] \ Anc[b] \subseteq mapBlocksUnlinked}
  BY Tree
<1>1. NewlyLinked(b) /= {} => b \in NewlyLinked(b)
  BY <1>0 DEF NewlyLinked
<1>2. NewlyLinked(b) = {} => b /= Genesis /\ Prev[b] \in Blocks /\ Prev[b] \notin linked
  BY <1>0, Tree DEF NewlyLinked
<1>3. ASSUME NEW y \in mapBlocksUnlinked, Prev[y] \in NewlyLinked(b)
      PROVE  y \in NewlyLinked(b)
  <2>1. y \in Blocks /\ y /= Genesis
    BY Facts DEF DataOK
  <2>2. Anc[y] = Anc[Prev[y]] \cup {y}
    BY <2>1, Tree
  <2> QED BY <1>3, <2>1, <2>2 DEF NewlyLinked
<1> QED BY <1>1, <1>2, <1>3

(* Descendants of a faulty block are faulty.                               *)
LEMMA FaultyAbove ==
  ASSUME NEW b \in Blocks, b /= Genesis, Faulty(Prev[b])
  PROVE  Faulty(b)
BY Tree DEF Faulty

(* ReceivedBlockTransactions keeps UnlinkedInv.                            *)
LEMMA ReceiveUnlinked ==
  ASSUME IInv, UnlinkedInv, NEW t \in Threads, NEW b \in Blocks, NEW r \in BOOLEAN,
         NEW out \in BOOLEAN, ProcessNewBlock(t, b, r, out)
  PROVE  UnlinkedInv'
<1> DEFINE new == NewlyLinked(b)
<1>1. /\ b \notin haveData /\ haveData' = haveData \cup {b} /\ Processed' = Processed \cup {b}
      /\ linked' = linked \cup new
      /\ mapBlocksUnlinked' = (mapBlocksUnlinked \ new)
           \cup (IF new = {} /\ Prev[b] \notin Failed THEN {b} ELSE {})
      /\ Failed' = Failed
  BY ReceiveFacts DEF Failed
<1>2. /\ new /= {} => b \in new
      /\ new = {} => b /= Genesis /\ Prev[b] \in Blocks /\ Prev[b] \notin linked
      /\ \A y \in mapBlocksUnlinked : Prev[y] \in new => y \in new
  BY NewlyLinkedChild
<1>3. mapBlocksUnlinked \subseteq Blocks \ {Genesis}
  BY Facts DEF DataOK
<1> HIDE DEF new
<1>4. new = {} => b \in mapBlocksUnlinked' \/ Faulty(b)
  BY <1>1, <1>2, FaultyAbove DEF UnlinkedInv
<1>5. \A f \in Failed' \ linked' : Faulty(f)
  BY <1>1 DEF UnlinkedInv
<1>6. \A y \in haveData' \ linked' : y \in mapBlocksUnlinked' \/ Faulty(y)
  BY <1>1, <1>2, <1>4 DEF UnlinkedInv
<1>7. haveData' \subseteq Processed' /\ mapBlocksUnlinked' \subseteq haveData'
  BY <1>1 DEF UnlinkedInv
<1>8. ASSUME NEW y \in mapBlocksUnlinked'
      PROVE  Prev[y] \in mapBlocksUnlinked' \/ Prev[y] \notin haveData' \/ Faulty(y)
  <2>1. CASE y \in mapBlocksUnlinked \ new
    <3>1. Prev[y] \notin new
      BY <1>2, <2>1
    <3>2. CASE Prev[y] = b
      <4>1. new = {}
        BY <1>2, <3>1, <3>2
      <4> QED BY <1>3, <1>4, <2>1, <3>2, <4>1, FaultyAbove
    <3>3. CASE Prev[y] /= b
      BY <1>1, <2>1, <3>1, <3>3 DEF UnlinkedInv
    <3> QED BY <3>2, <3>3
  <2>2. CASE y = b /\ new = {}
    <3>1. b /= Genesis /\ Prev[b] \in Blocks /\ Prev[b] \notin linked /\ Prev[b] /= b
      BY <1>2, <2>2, TreeAssumption
    <3>2. Prev[b] \in haveData => Prev[b] \in mapBlocksUnlinked \/ Faulty(Prev[b])
      BY <3>1 DEF UnlinkedInv
    <3> QED BY <1>1, <2>2, <3>1, <3>2, FaultyAbove
  <2> QED BY <1>1, <2>1, <2>2
<1> QED BY <1>5, <1>6, <1>7, <1>8 DEF UnlinkedInv, Faulty

(* FindMostWorkChain queues the blocks above a missing one again.          *)
LEMMA DropUnlinked ==
  ASSUME IInv, UnlinkedInv, NEW t \in Threads, DropCandidate(t)
  PROVE  UnlinkedInv'
<1>1. PICK b \in setBlockIndexCandidates, x \in Blocks :
        /\ StopsAt(x, b)
        /\ failedChild' = IF x \in Failed THEN failedChild \cup Above(x, b) ELSE failedChild
        /\ mapBlocksUnlinked' = IF x \in Failed THEN mapBlocksUnlinked ELSE Requeued(Above(x, b))
  BY Zenon DEF DropCandidate
<1>2. UNCHANGED <<validity, haveData, failedValid, linked>>
  BY DEF DropCandidate
<1> DEFINE above == Above(x, b)
<1>3. /\ b \in Blocks /\ x \in Anc[b]
      /\ \A y \in above : y \in Blocks /\ y \in linked /\ x \in Anc[y] /\ y /= x /\ y \in haveData
  BY <1>1, AboveFacts
<1>4. ASSUME NEW y \in above
      PROVE  Prev[y] \in above \/ Prev[y] = x
  <2>1. y \in Blocks /\ y /= Genesis
    BY <1>3, Tree
  <2>2. Prev[y] \in Blocks /\ Anc[y] = Anc[Prev[y]] \cup {y} /\ Prev[y] \in Anc[y]
    BY <2>1, Tree
  <2>3. x \in Anc[Prev[y]]
    BY <1>3, <2>2
  <2>4. Prev[y] \in Anc[x] => Prev[y] = x
    BY <2>2, <2>3, TreeAcyclic
  <2>5. y \in Anc[b]
    BY DEF Above
  <2>6. Prev[y] \in Anc[b]
    BY <1>3, <2>2, <2>5, Tree
  <2> QED BY <2>4, <2>6 DEF Above
<1>5. x \notin Failed => x \notin haveData
  BY <1>1 DEF StopsAt, Unusable
<1> HIDE DEF above
<1>6. mapBlocksUnlinked' = IF x \in Failed THEN mapBlocksUnlinked ELSE mapBlocksUnlinked \cup above
  BY <1>1 DEF above, Requeued
<1>7. \A f \in Failed' \ linked' : Faulty(f)
  BY <1>1, <1>2, <1>3 DEF UnlinkedInv, Failed, above
<1>8. \A y \in haveData' \ linked' : y \in mapBlocksUnlinked' \/ Faulty(y)
  BY <1>2, <1>6 DEF UnlinkedInv
<1>9. haveData' \subseteq Processed' /\ mapBlocksUnlinked' \subseteq haveData'
  BY <1>2, <1>3, <1>6 DEF UnlinkedInv, Processed
<1>10. \A y \in mapBlocksUnlinked' :
         Prev[y] \in mapBlocksUnlinked' \/ Prev[y] \notin haveData' \/ Faulty(y)
  BY <1>2, <1>4, <1>5, <1>6 DEF UnlinkedInv
<1> QED BY <1>7, <1>8, <1>9, <1>10 DEF UnlinkedInv, Faulty

(* A step that stores and links nothing.                                   *)
LEMMA UnlinkedFrame ==
  ASSUME UnlinkedInv, Processed' = Processed, UNCHANGED <<haveData, linked, mapBlocksUnlinked>>,
         \A f \in Failed' \ Failed : f \in linked \/ Faulty(f)
  PROVE  UnlinkedInv'
BY DEF UnlinkedInv, Faulty

(* Every step keeps UnlinkedInv, as long as nobody invalidates blocks.     *)
LEMMA UnlinkedNext ==
  ASSUME InvalidateBlocks = {}, IInv, FailureInv, UnlinkedInv, [Next]_vars
  PROVE  UnlinkedInv'
<1>1. CASE Still
  BY <1>1, UnlinkedFrame DEF Still, linkVars, Failed
<1>2. ASSUME NEW t \in Threads, NEW b \in Blocks, NEW r \in BOOLEAN, NEW out \in BOOLEAN,
             ProcessInvalidBlock(t, b, r, out) \/ ProcessNewBlock(t, b, r, out)
      PROVE  UnlinkedInv'
  <2>1. CASE ProcessInvalidBlock(t, b, r, out)
    <3>1. Faulty(b)
      BY <2>1, InvalidFacts, Tree DEF Faulty
    <3> QED BY <2>1, <3>1, InvalidFacts, UnlinkedFrame DEF linkVars, Failed
  <2> QED BY <1>2, <2>1, ReceiveUnlinked
<1>3. ASSUME NEW t \in Threads, DropCandidate(t) \/ DisconnectTip(t)
      PROVE  UnlinkedInv'
  <2>1. CASE DisconnectTip(t)
    BY <2>1, UnlinkedFrame DEF DisconnectTip, statusVars, linkVars, Processed, Failed
  <2> QED BY <1>3, <2>1, DropUnlinked
<1>4. ASSUME NEW t \in Threads, NEW b \in Blocks, ConnectTip(t, b) \/ InvalidBlockFound(t, b)
      PROVE  UnlinkedInv'
  <2>1. CASE ConnectTip(t, b)
    BY <2>1, ConnectFacts, UnlinkedFrame DEF linkVars, Failed
  <2>2. CASE InvalidBlockFound(t, b)
    <3>1. b \in linked
      <4>1. th[t].pindexMostWork \in linked /\ b \in Anc[th[t].pindexMostWork]
        BY <2>2, Facts DEF InvalidBlockFound, Connects, Running, CallOK, Known
      <4> QED BY <4>1, Facts
    <3> QED BY <2>2, <3>1, UnlinkedFrame DEF InvalidBlockFound, linkVars, Processed, Failed
  <2> QED BY <1>4, <2>1, <2>2
<1>5. ASSUME NEW t \in Threads, NEW b \in Blocks, ResetBlockFailureFlags(t, b)
      PROVE  UnlinkedInv'
  BY <1>5, UnlinkedFrame DEF ResetBlockFailureFlags, linkVars, Processed, Failed
<1>6. ASSUME NEW b \in Blocks, PruneOneBlockFile(b)
      PROVE  UnlinkedInv'
  <2>1. /\ haveData' = haveData \ {b} /\ mapBlocksUnlinked' = mapBlocksUnlinked \ {b}
        /\ UNCHANGED <<validity, failedValid, failedChild, linked>>
    BY <1>6 DEF PruneOneBlockFile, NotUnlinked
  <2> QED BY <2>1 DEF UnlinkedInv, Processed, Failed, Faulty
<1>7. ~ \E t \in Threads : InvalidateTip(t) \/ InvalidateTipFails(t) \/ InvalidateEnd(t)
  BY Zenon DEF FailureInv, InvalidateTip, InvalidateTipFails, InvalidateEnd, Running
<1>8. ~ \E t \in Threads, b \in Blocks : InvalidateBlock(t, b)
  BY DEF InvalidateBlock
<1> QED BY <1>1, <1>2, <1>3, <1>4, <1>5, <1>6, <1>7, <1>8, StepKinds

(* Nothing waits at the start.                                             *)
LEMMA UnlinkedInit == Init => UnlinkedInv
BY Tree DEF Init, UnlinkedInv, Failed, Processed, UNKNOWN, VALID_TRANSACTIONS, VALID_SCRIPTS

(* A waiting block has an ancestor that is not stored: go down to the      *)
(* lowest one that waits.                                                  *)
LEMMA WaitingMisses ==
  ASSUME IInv, FailureInv, UnlinkedInv, NEW b \in mapBlocksUnlinked
  PROVE  b \in haveData /\ ~(Anc[b] \subseteq haveData)
<1>1. b \in haveData /\ b \in Blocks
  BY Facts DEF UnlinkedInv, DataOK
<1>2. SUFFICES ASSUME Anc[b] \subseteq haveData PROVE FALSE
  BY <1>1
<1> DEFINE S == Anc[b] \cap mapBlocksUnlinked
<1>3. S \in SUBSET Blocks /\ S /= {}
  BY <1>1, Tree
<1>4. PICK y \in S : \A z \in S : Height[y] <= Height[z]
  BY <1>3, LowestBlock, Zenon
<1>5. y \in Anc[b] /\ y \in mapBlocksUnlinked /\ y \in Blocks /\ y /= Genesis
  BY <1>3, Facts DEF DataOK
<1>6. Prev[y] \in Blocks /\ Prev[y] \in Anc[b]
  BY <1>1, <1>5, Tree
<1>7. Height[y] = Height[Prev[y]] + 1 /\ Height[Prev[y]] \in Nat
  BY <1>5, <1>6, TreeAssumption
<1>8. Prev[y] \notin mapBlocksUnlinked
  <2>1. Prev[y] \in S => Height[y] <= Height[Prev[y]]
    BY <1>4
  <2>2. Prev[y] \notin S
    BY <1>7, <2>1
  <2> QED BY <1>6, <2>2
<1>9. Prev[y] \in haveData
  BY <1>2, <1>6
<1>10. ~Faulty(y)
  <2>1. Anc[y] \subseteq Anc[b]
    BY <1>1, <1>5, Tree
  <2> QED BY <1>2, <2>1 DEF Faulty, FailureInv, UnlinkedInv
<1> QED BY <1>5, <1>8, <1>9, <1>10 DEF UnlinkedInv

\* CheckBlockIndex: as long as no operator invalidates a block, a block in
\* mapBlocksUnlinked is stored and an ancestor of it is not, also when blocks
\* are pruned and come again.
THEOREM WaitingBlocksMissSomething ==
  ASSUME InvalidateBlocks = {}
  PROVE  Spec => []UnlinkedSound
<1>1. Init => IInv /\ FailureInv /\ UnlinkedInv
  BY InitInv, FailureInit, UnlinkedInit
<1>2. (IInv /\ FailureInv /\ UnlinkedInv) /\ [Next]_vars => (IInv /\ FailureInv /\ UnlinkedInv)'
  BY NextInv, FailureNext, UnlinkedNext
<1>3. IInv /\ FailureInv /\ UnlinkedInv => UnlinkedSound
  BY WaitingMisses DEF UnlinkedSound
<1> QED BY <1>1, <1>2, <1>3, PTL DEF Spec

\* Only linked blocks carry a sequence number.
Unnumbered == \A b \in Blocks \ linked : nSequenceId[b] = 0

(* Every step keeps the numbers of unlinked blocks.                        *)
LEMMA UnnumberedNext ==
  ASSUME IInv, Unnumbered, [Next]_vars
  PROVE  Unnumbered'
<1>1. ASSUME UNCHANGED <<linked, nSequenceId>> PROVE Unnumbered'
  BY <1>1 DEF Unnumbered
<1>2. ASSUME NEW t \in Threads, NEW b \in Blocks, NEW r \in BOOLEAN, NEW out \in BOOLEAN,
             ProcessInvalidBlock(t, b, r, out) \/ ProcessNewBlock(t, b, r, out)
      PROVE  Unnumbered'
  <2>1. CASE ProcessInvalidBlock(t, b, r, out)
    BY <1>1, <2>1 DEF ProcessInvalidBlock, linkVars
  <2>2. CASE ProcessNewBlock(t, b, r, out)
    BY <2>2, ReceiveFacts DEF Unnumbered
  <2> QED BY <1>2, <2>1, <2>2
<1>3. ASSUME NEW t \in Threads, NEW b \in Blocks,
             \/ Still \/ DropCandidate(t) \/ DisconnectTip(t) \/ InvalidateTip(t)
             \/ InvalidateTipFails(t) \/ InvalidateEnd(t) \/ ConnectTip(t, b)
             \/ InvalidBlockFound(t, b) \/ InvalidateBlock(t, b) \/ ResetBlockFailureFlags(t, b)
             \/ PruneOneBlockFile(b)
      PROVE  Unnumbered'
  BY <1>1, <1>3, Zenon DEF Still, DropCandidate, DisconnectTip, InvalidateTip, InvalidateTipFails,
       InvalidateEnd, ConnectTip, InvalidBlockFound, InvalidateBlock, ResetBlockFailureFlags,
       PruneOneBlockFile, linkVars
<1>4. CASE Still \/ \E b \in Blocks : PruneOneBlockFile(b)
  BY <1>1, <1>4 DEF Still, PruneOneBlockFile, linkVars
<1>5. Genesis \in Blocks
  BY Tree
<1> QED BY <1>2, <1>3, <1>4, <1>5, StepKinds, Zenon

\* CheckBlockIndex: without invalidateblock and pruning, nChainTx is set
\* exactly for the blocks that were received together with all their
\* ancestors, in whatever order they came; and only those have a number.
THEOREM LinkedWhenComplete ==
  ASSUME InvalidateBlocks = {}, PrunableBlocks = {}
  PROVE  Spec => []LinkedExactly
<1> DEFINE J == IInv /\ FailureInv /\ UnlinkedInv /\ StoredInv /\ Unnumbered
<1>1. Init => J
  BY InitInv, FailureInit, UnlinkedInit, StoredInit DEF Init, Unnumbered
<1>2. J /\ [Next]_vars => J'
  BY NextInv, FailureNext, UnlinkedNext, StoredNext, UnnumberedNext
<1>3. J => LinkedExactly
  <2> SUFFICES ASSUME J, NEW b \in Blocks
               PROVE  b \in linked <=> Anc[b] \subseteq Processed
    BY DEF LinkedExactly, Unnumbered
  <2>1. b \in linked => Anc[b] \subseteq Processed
    BY Facts
  <2>2. ASSUME Anc[b] \subseteq Processed, b \notin linked PROVE FALSE
    <3>1. Anc[b] \subseteq haveData /\ b \in haveData
      BY <2>2, Tree DEF StoredInv
    <3>2. b \in mapBlocksUnlinked
      BY <2>2, <3>1 DEF UnlinkedInv, FailureInv, Faulty
    <3> QED BY <3>1, <3>2, WaitingMisses
  <2> QED BY <2>1, <2>2
<1> QED BY <1>1, <1>2, <1>3, PTL DEF Spec

-----------------------------------------------------------------------------
(* A reference candidate.                                                  *)

\* R is a candidate that can be connected and that the tip does not outdo, and
\* every block that R does not outdo either is a candidate, unless its chain
\* is known to be bad.
RefOf(R, bad, cand, t) ==
  /\ R \in cand /\ ~Worse(R, t) /\ Anc[R] \cap (bad \cup ConnectBad) = {}
  /\ \A b \in linked : ~Worse(b, R) /\ Anc[b] \cap bad = {} => b \in cand

(* PruneBlockIndexCandidates after a block was connected: the reference    *)
(* stays, or the new tip takes its place.                                  *)
LEMMA ReferenceConnect ==
  ASSUME IInv, NEW R \in Blocks, NEW bad,
         RefOf(R, bad, setBlockIndexCandidates, tip),
         NEW b \in linked, Anc[b] \cap (bad \cup ConnectBad) = {}
  PROVE  \E Q \in Blocks : RefOf(Q, bad, {c \in setBlockIndexCandidates : ~Worse(c, b)}, b)
<1>0. setBlockIndexCandidates \subseteq linked /\ linked \subseteq Blocks /\ R \in linked
  BY Facts DEF RefOf
<1>1. CASE Worse(R, b)
  <2>1. ~Worse(b, R) /\ ~Worse(b, b)
    BY <1>0, <1>1, WorseOrder
  <2>2. \A x \in linked : ~Worse(x, b) => ~Worse(x, R)
    BY <1>0, <1>1, WorseOrder
  <2>3. RefOf(b, bad, {c \in setBlockIndexCandidates : ~Worse(c, b)}, b)
    BY <2>1, <2>2 DEF RefOf
  <2> QED BY <1>0, <2>3
<1>2. CASE ~Worse(R, b)
  <2>1. \A x \in linked : ~Worse(x, R) => ~Worse(x, b)
    BY <1>0, <1>2, WorseOrder
  <2>2. RefOf(R, bad, {c \in setBlockIndexCandidates : ~Worse(c, b)}, b)
    BY <1>2, <2>1 DEF RefOf
  <2> QED BY <2>2
<1> QED BY <1>1, <1>2

(* DisconnectTip.                                                          *)
LEMMA ReferenceDisconnect ==
  ASSUME IInv, NEW R \in Blocks, NEW bad, NEW cand \in SUBSET linked, NEW t \in linked,
         RefOf(R, bad, cand, tip), Worse(t, tip)
  PROVE  RefOf(R, bad, cand, t)
<1>1. R \in linked /\ tip \in linked
  BY Facts DEF RefOf
<1>2. ~Worse(R, t)
  BY <1>1, WorseOrder DEF RefOf
<1> QED BY <1>2 DEF RefOf

(* Bad blocks are removed.                                                 *)
LEMMA ReferenceRemove ==
  ASSUME NEW R \in Blocks, NEW bad, NEW worse, NEW cand, NEW fewer, NEW t,
         RefOf(R, bad, cand, t), bad \subseteq worse, Anc[R] \cap worse = {},
         \A c \in cand \ fewer : Anc[c] \cap worse /= {}
  PROVE  RefOf(R, worse, fewer, t)
BY DEF RefOf

(* ReceivedBlockTransactions adds what is not worse than the tip.          *)
LEMMA ReferenceReceive ==
  ASSUME IInv, IInv', StoredInv, NEW t \in Threads, NEW b \in Blocks, NEW r \in BOOLEAN,
         NEW out \in BOOLEAN, ProcessNewBlock(t, b, r, out),
         NEW R \in Blocks, NEW bad, RefOf(R, bad, setBlockIndexCandidates, tip)
  PROVE  /\ R \in setBlockIndexCandidates' /\ ~Worse(R, tip)'
         /\ Anc[R] \cap (bad \cup ConnectBad) = {}
         /\ \A x \in linked' : ~Worse(x, R)' /\ Anc[x] \cap bad = {} => x \in setBlockIndexCandidates'
<1>1. /\ linked' = linked \cup NewlyLinked(b)
      /\ setBlockIndexCandidates' = setBlockIndexCandidates
           \cup {x \in NewlyLinked(b) : ~Worse(x, tip)'}
      /\ tip' = tip
  BY ReceiveFacts
<1>2. R \in linked /\ tip \in linked /\ linked \subseteq Blocks
  BY Facts DEF RefOf
<1>3. NewlyLinked(b) \cap linked = {}
  BY ReceiveFacts, NewlyLinkedNew
<1>4. \A x \in linked : nSequenceId'[x] = nSequenceId[x]
  BY <1>2, <1>3, ReceiveFacts
<1>5. ~Worse(R, tip)'
  <2>1. ~Worse(R, tip)
    BY DEF RefOf
  <2>2. ~WorseBy(nSequenceId', R, tip)
    BY <1>2, <1>4, <2>1 DEF Worse, WorseBy
  <2> QED BY <1>1, <2>2 DEF Worse, WorseBy
<1>6. ASSUME NEW x \in NewlyLinked(b), ~Worse(x, R)'
      PROVE  ~Worse(x, tip)'
  <2>1. linked' \in SUBSET Blocks /\ nSequenceId' \in [Blocks -> Nat]
    BY DEF IInv, TypeOK
  <2>2. \A y, z \in linked' : y /= z => nSequenceId'[y] /= nSequenceId'[z]
    BY DEF IInv, UniqueIds
  <2>3. x \in linked' /\ R \in linked' /\ tip \in linked'
    BY <1>1, <1>2
  <2>4. ~WorseBy(nSequenceId', R, tip) /\ ~WorseBy(nSequenceId', x, R)
    BY <1>1, <1>5, <1>6 DEF Worse, WorseBy
  <2>5. ~WorseBy(nSequenceId', x, tip)
    <3> DEFINE S == linked'
               seq == nSequenceId'
    <3>1. S \in SUBSET Blocks /\ seq \in [Blocks -> Nat] /\ x \in S /\ R \in S /\ tip \in S
      BY <2>1, <2>3
    <3>2. \A y, z \in S : y /= z => seq[y] /= seq[z]
      BY <2>2
    <3>3. ~WorseBy(seq, R, tip) /\ ~WorseBy(seq, x, R)
      BY <2>4
    <3> HIDE DEF S, seq
    <3>4. ~WorseBy(seq, x, tip)
      BY <3>1, <3>2, <3>3, WorseByOrder
    <3> QED BY <3>4 DEF seq
  <2> QED BY <1>1, <2>5 DEF Worse, WorseBy
<1>7. ASSUME NEW x \in linked', ~Worse(x, R)', Anc[x] \cap bad = {}
      PROVE  x \in setBlockIndexCandidates'
  <2>1. CASE x \in linked
    <3>1. ~Worse(x, R)
      BY <1>2, <1>4, <1>7, <2>1 DEF Worse, WorseBy
    <3> QED BY <1>1, <1>7, <2>1, <3>1 DEF RefOf
  <2>2. CASE x \in NewlyLinked(b)
    BY <1>1, <1>6, <1>7, <2>2
  <2> QED BY <1>1, <2>1, <2>2
<1> QED BY <1>1, <1>5, <1>7 DEF RefOf

\* There is always a reference candidate without a bad block in its chain.
GoodInv == \E R \in Blocks : RefOf(R, Bad, setBlockIndexCandidates, tip)

(* A step that removes bad candidates only.                                *)
LEMMA GoodFrame ==
  ASSUME GoodInv, UNCHANGED <<linked, nSequenceId, tip>>,
         \A c \in setBlockIndexCandidates \ setBlockIndexCandidates' : Anc[c] \cap Bad /= {}
  PROVE  GoodInv'
<1> PICK R \in Blocks : RefOf(R, Bad, setBlockIndexCandidates, tip)
  BY DEF GoodInv
<1>1. RefOf(R, Bad, setBlockIndexCandidates', tip)
  <2>1. Anc[R] \cap Bad = {}
    BY DEF RefOf
  <2> QED BY <2>1 DEF RefOf
<1> QED BY <1>1 DEF GoodInv, RefOf, Worse

(* Every step keeps a reference candidate.                                 *)
LEMMA GoodNext ==
  ASSUME InvalidateBlocks = {}, PrunableBlocks = {}, IInv, FailureInv, StoredInv, GoodInv,
         [Next]_vars
  PROVE  GoodInv'
<1>0. PICK R \in Blocks : RefOf(R, Bad, setBlockIndexCandidates, tip)
  BY DEF GoodInv
<1>1. CASE Still
  BY <1>1, GoodFrame DEF Still, linkVars
<1>2. ASSUME NEW t \in Threads, NEW b \in Blocks, NEW r \in BOOLEAN, NEW out \in BOOLEAN,
             ProcessInvalidBlock(t, b, r, out) \/ ProcessNewBlock(t, b, r, out)
      PROVE  GoodInv'
  <2>1. CASE ProcessInvalidBlock(t, b, r, out)
    BY <2>1, InvalidFacts, GoodFrame DEF linkVars
  <2>2. CASE ProcessNewBlock(t, b, r, out)
    <3>1. IInv'
      BY NextInv
    <3>2. /\ R \in setBlockIndexCandidates' /\ ~Worse(R, tip)'
          /\ Anc[R] \cap (Bad \cup ConnectBad) = {}
          /\ \A x \in linked' : ~Worse(x, R)' /\ Anc[x] \cap Bad = {} => x \in setBlockIndexCandidates'
      BY <1>0, <2>2, <3>1, ReferenceReceive
    <3> QED BY <3>2 DEF GoodInv, RefOf
  <2> QED BY <1>2, <2>1, <2>2
<1>3. ASSUME NEW t \in Threads, DropCandidate(t)
      PROVE  GoodInv'
  <2>1. PICK b \in setBlockIndexCandidates, x \in Blocks :
          /\ StopsAt(x, b)
          /\ setBlockIndexCandidates' = setBlockIndexCandidates \ (Above(x, b) \cup {x})
    BY <1>3 DEF DropCandidate
  <2>2. x \in Failed
    BY <2>1, StopsAtFailed
  <2>3. Anc[x] \cap Bad /= {}
    BY <2>2 DEF FailureInv
  <2>4. \A y \in Above(x, b) : Anc[y] \cap Bad /= {}
    BY <2>1, <2>3, AboveFacts, Tree
  <2> QED BY <1>3, <2>1, <2>3, <2>4, GoodFrame DEF DropCandidate
<1>4. ASSUME NEW t \in Threads, DisconnectTip(t)
      PROVE  GoodInv'
  <2>1. tip' \in linked /\ Worse(tip', tip) /\ UNCHANGED <<linkVars, setBlockIndexCandidates>>
    BY <1>4, DisconnectFacts
  <2>2. RefOf(R, Bad, setBlockIndexCandidates, tip')
    BY <1>0, <2>1, Facts, ReferenceDisconnect
  <2> QED BY <2>1, <2>2 DEF GoodInv, RefOf, Worse, linkVars
<1>5. ASSUME NEW t \in Threads, NEW b \in Blocks, ConnectTip(t, b)
      PROVE  GoodInv'
  <2>1. /\ b \in linked /\ tip' = b /\ Anc[b] = Anc[tip] \cup {b} /\ b \notin ConnectBad
        /\ setBlockIndexCandidates' = {c \in setBlockIndexCandidates : ~Worse(c, b)}
        /\ UNCHANGED linkVars
    BY <1>5, ConnectFacts
  <2>2. Anc[b] \cap (Bad \cup ConnectBad) = {}
    BY <2>1, Facts DEF FailureInv, Bad
  <2>3. PICK Q \in Blocks : RefOf(Q, Bad, setBlockIndexCandidates', tip')
    BY <1>0, <2>1, <2>2, ReferenceConnect
  <2> QED BY <2>1, <2>3 DEF GoodInv, RefOf, Worse, linkVars
<1>6. ASSUME NEW t \in Threads, NEW b \in Blocks, InvalidBlockFound(t, b)
      PROVE  GoodInv'
  <2>1. /\ b \in ConnectBad /\ setBlockIndexCandidates' = setBlockIndexCandidates \ {b}
        /\ UNCHANGED <<linkVars, tip>>
    BY <1>6 DEF InvalidBlockFound
  <2>2. Anc[b] \cap Bad /= {}
    BY <2>1, Tree DEF Bad
  <2> QED BY <2>1, <2>2, GoodFrame DEF linkVars
<1>7. ASSUME NEW t \in Threads, NEW b \in Blocks, ResetBlockFailureFlags(t, b)
      PROVE  GoodInv'
  BY <1>7, GoodFrame DEF ResetBlockFailureFlags, linkVars
<1>8. ~ \E t \in Threads : InvalidateTip(t) \/ InvalidateTipFails(t) \/ InvalidateEnd(t)
  BY Zenon DEF FailureInv, InvalidateTip, InvalidateTipFails, InvalidateEnd, Running
<1>9. ~ \E t \in Threads, b \in Blocks : InvalidateBlock(t, b)
  BY DEF InvalidateBlock
<1>10. ~ \E b \in Blocks : PruneOneBlockFile(b)
  BY Zenon DEF PruneOneBlockFile
<1> QED BY <1>1, <1>2, <1>3, <1>4, <1>5, <1>6, <1>7, <1>8, <1>9, <1>10, StepKinds

\* PruneBlockIndexCandidates asserts that something is left: without
\* invalidateblock and pruning, setBlockIndexCandidates is never empty, not
\* in the middle of a step and not when threads follow outdated targets.  For
\* there is always a candidate that can be connected and is no worse than the
\* tip.
THEOREM CandidatesNeverEmpty ==
  ASSUME InvalidateBlocks = {}, PrunableBlocks = {}
  PROVE  Spec => []CandidatesNotEmpty
<1> DEFINE J == IInv /\ FailureInv /\ StoredInv /\ GoodInv
<1>1. Init => J
  <2>1. ASSUME Init PROVE GoodInv
    <3>1. RefOf(Genesis, Bad, setBlockIndexCandidates, tip)
      BY <2>1, Tree, InputsAssumption, TreeAssumption DEF Init, RefOf, Worse, WorseBy, Bad
    <3> QED BY <3>1, Tree DEF GoodInv
  <2> QED BY <2>1, InitInv, FailureInit, StoredInit
<1>2. J /\ [Next]_vars => J'
  BY NextInv, FailureNext, StoredNext, GoodNext
<1>3. J => CandidatesNotEmpty
  BY DEF GoodInv, RefOf, CandidatesNotEmpty
<1> QED BY <1>1, <1>2, <1>3, PTL DEF Spec

-----------------------------------------------------------------------------
(* Without reconsiderblock and pruning: mapBlocksUnlinked is complete.     *)

\* A stored block that is not linked waits, unless its chain is invalid.
WaitInv == \A b \in haveData \ linked : b \in mapBlocksUnlinked \/ Invalid(b)

(* A step that stores nothing and marks blocks only.                       *)
LEMMA WaitFrame ==
  ASSUME WaitInv, UNCHANGED <<haveData, linked>>, failedValid \subseteq failedValid',
         mapBlocksUnlinked \subseteq mapBlocksUnlinked'
  PROVE  WaitInv'
BY DEF WaitInv, Invalid

(* Every step but those of reconsiderblock and pruning keeps WaitInv.      *)
LEMMA WaitNext ==
  ASSUME ReconsiderBlocks = {}, PrunableBlocks = {}, IInv, CauseInv, WaitInv, [Next]_vars
  PROVE  WaitInv'
<1>1. CASE Still
  BY <1>1, WaitFrame DEF Still, linkVars
<1>2. ASSUME NEW t \in Threads, NEW b \in Blocks, NEW r \in BOOLEAN, NEW out \in BOOLEAN,
             ProcessInvalidBlock(t, b, r, out) \/ ProcessNewBlock(t, b, r, out)
      PROVE  WaitInv'
  <2>1. CASE ProcessInvalidBlock(t, b, r, out)
    BY <2>1, InvalidFacts, WaitFrame DEF linkVars
  <2>2. CASE ProcessNewBlock(t, b, r, out)
    <3> DEFINE new == NewlyLinked(b)
    <3>1. /\ haveData' = haveData \cup {b} /\ linked' = linked \cup new
          /\ mapBlocksUnlinked' = (mapBlocksUnlinked \ new)
               \cup (IF new = {} /\ Prev[b] \notin Failed THEN {b} ELSE {})
          /\ failedValid' = failedValid
      BY <2>2, ReceiveFacts
    <3>2. /\ new /= {} => b \in new
          /\ new = {} => b /= Genesis /\ Prev[b] \in Blocks
      BY NewlyLinkedChild
    <3>3. new = {} /\ Prev[b] \in Failed => Invalid(b)
      <4> SUFFICES ASSUME new = {}, Prev[b] \in Failed PROVE Invalid(b)
        OBVIOUS
      <4>1. b /= Genesis /\ Prev[b] \in Anc[b] /\ Invalid(Prev[b])
        BY <3>2, Tree DEF CauseInv, FailedHasCause
      <4> QED BY <4>1, InvalidAbove
    <3> HIDE DEF new
    <3>4. \A x : Invalid(x)' <=> Invalid(x)
      BY <3>1 DEF Invalid
    <3> QED BY <3>1, <3>2, <3>3, <3>4 DEF WaitInv
  <2> QED BY <1>2, <2>1, <2>2
<1>3. ASSUME NEW t \in Threads,
             \/ DropCandidate(t) \/ DisconnectTip(t) \/ InvalidateTip(t)
             \/ InvalidateTipFails(t) \/ InvalidateEnd(t)
      PROVE  WaitInv'
  BY <1>3, WaitFrame, Zenon DEF DropCandidate, Requeued, DisconnectTip, InvalidateTip, InvalidateTipFails,
       InvalidateEnd, statusVars, linkVars
<1>4. ASSUME NEW t \in Threads, NEW b \in Blocks,
             ConnectTip(t, b) \/ InvalidBlockFound(t, b) \/ InvalidateBlock(t, b)
      PROVE  WaitInv'
  BY <1>4, WaitFrame DEF ConnectTip, InvalidBlockFound, InvalidateBlock, linkVars
<1>5. ~ \E b \in Blocks : PruneOneBlockFile(b)
  BY DEF PruneOneBlockFile
<1>6. ~ \E t \in Threads, b \in Blocks : ResetBlockFailureFlags(t, b)
  BY DEF ResetBlockFailureFlags
<1> QED BY <1>1, <1>2, <1>3, <1>4, <1>5, <1>6, StepKinds

\* CheckBlockIndex: without reconsiderblock and pruning, a stored block that
\* is not linked is in mapBlocksUnlinked, or its chain is invalid, so that
\* the arrival of its ancestors will link it.
THEOREM WaitingBlocksAreQueued ==
  ASSUME ReconsiderBlocks = {}, PrunableBlocks = {}
  PROVE  Spec => []UnlinkedComplete
<1> DEFINE J == IInv /\ CauseInv /\ StoredInv /\ WaitInv
<1>1. Init => J
  BY InitInv, StoredInit DEF Init, CauseInv, FailedHasCause, Failed, Idle, WaitInv
<1>2. J /\ [Next]_vars => J'
  BY NextInv, CauseNext, StoredNext, WaitNext
<1>3. J => UnlinkedComplete
  <2> SUFFICES ASSUME J, NEW b \in haveData, ~Invalid(b),
                      b \in linked => ~(Anc[b] \subseteq haveData)
               PROVE  b \in mapBlocksUnlinked
    BY Zenon DEF UnlinkedComplete
  <2>1. b \notin linked
    BY Facts DEF StoredInv
  <2> QED BY <2>1 DEF WaitInv
<1> QED BY <1>1, <1>2, <1>3, PTL DEF Spec

-----------------------------------------------------------------------------
(* One thread at a time, as when every block comes from the message        *)
(* handler: ActivateBestChain does what it is for.                         *)

BestOf(b, cand) == b \in cand /\ \A c \in cand \ {b} : Worse(c, b)

\* What holds when the thread is at pc with target m and old tip old.  Outside
\* of InvalidateBlock there is a reference candidate; the target is the best
\* candidate from the moment it is chosen until it is reached or given up.
SoloOn(pc, m, old, fv, fc, cand, t) ==
  /\ pc = "invalidate" => Anc[t] \cap (fv \cup fc) \subseteq {m}
  /\ pc /= "invalidate" => /\ Anc[t] \cap (fv \cup fc) = {}
                           /\ \E R \in Blocks : RefOf(R, fv, cand, t)
  /\ pc \in Known \/ (pc = "top" /\ m /= NoBlock)
       => BestOf(m, cand) /\ Anc[m] \cap (fv \cup fc) = {}
  /\ pc = "switch" => Worse(old, m)
  /\ pc = "idle" => BestOf(t, cand)

SoloInv ==
  /\ ~aborted /\ CheckBad \cap Processed = {} /\ Anc[tip] \cap ConnectBad = {}
  /\ \A s \in Threads : SoloOn(th[s].pc, th[s].pindexMostWork, th[s].pindexOldTip,
                               failedValid, failedChild, setBlockIndexCandidates, tip)

(* A step of the only thread, to pc with target m and old tip old.         *)
LEMMA SoloFrame ==
  ASSUME NEW s, Threads = {s}, NEW pc, NEW m, NEW old, Moves(s, pc, m, old),
         UNCHANGED <<linked, nSequenceId>>, ~aborted', CheckBad \cap Processed' = {},
         Anc[tip'] \cap ConnectBad = {},
         SoloOn(pc, m, old, failedValid', failedChild', setBlockIndexCandidates', tip')
  PROVE  SoloInv'
<1>1. th'[s].pc = pc /\ th'[s].pindexMostWork = m /\ th'[s].pindexOldTip = old
  BY DEF Moves
<1>2. SoloOn(th[s].pc, th[s].pindexMostWork, th[s].pindexOldTip,
             failedValid, failedChild, setBlockIndexCandidates, tip)'
  BY <1>1, Zenon DEF SoloOn, RefOf, BestOf, Worse
<1> QED BY <1>2 DEF SoloInv

(* The same when the thread stays where it is.                             *)
LEMMA SoloStays ==
  ASSUME NEW s, Threads = {s}, UNCHANGED <<th, linked, nSequenceId, aborted>>, SoloInv,
         CheckBad \cap Processed' = {}, Anc[tip'] \cap ConnectBad = {},
         SoloOn(th[s].pc, th[s].pindexMostWork, th[s].pindexOldTip,
                failedValid', failedChild', setBlockIndexCandidates', tip')
  PROVE  SoloInv'
<1>1. Moves(s, th[s].pc, th[s].pindexMostWork, th[s].pindexOldTip)
  BY DEF Moves
<1> QED BY <1>1, SoloFrame, Zenon DEF SoloInv

(* The best candidate is no worse than the tip, as long as there is a      *)
(* reference candidate.                                                    *)
LEMMA TargetBeatsTip ==
  ASSUME IInv, NEW R \in Blocks, NEW bad, RefOf(R, bad, setBlockIndexCandidates, tip),
         NEW m, BestOf(m, setBlockIndexCandidates)
  PROVE  m \in linked /\ ~Worse(m, tip) /\ (m /= tip => Worse(tip, m))
<1>1. R \in linked /\ m \in linked /\ tip \in linked
  BY Facts DEF RefOf, BestOf
<1>2. ~Worse(R, tip) /\ (R = m \/ Worse(R, m))
  BY DEF RefOf, BestOf
<1> QED BY <1>1, <1>2, WorseOrder

(* The steps that change nothing but the call: a known block arrives, the  *)
(* loop is entered, the target is chosen, the step begins or is over.      *)
LEMMA SoloWalk ==
  ASSUME NEW s, Threads = {s}, IInv, SoloInv, Still,
         \/ \E b \in Blocks, r, out \in BOOLEAN : ProcessKnownBlock(s, b, r, out)
         \/ LoopTop(s) \/ FindMostWorkChain(s)
         \/ AlreadyActive(s) \/ ActivateBestChainStep(s)
  PROVE  SoloInv'
<1> DEFINE On(pc, m, old) == SoloOn(pc, m, old, failedValid, failedChild, setBlockIndexCandidates, tip)
<1>1. /\ ~aborted /\ CheckBad \cap Processed' = {} /\ Anc[tip'] \cap ConnectBad = {}
      /\ UNCHANGED <<linked, nSequenceId, failedValid, failedChild, setBlockIndexCandidates, tip>>
  BY DEF SoloInv, Still, linkVars
<1>2. On(th[s].pc, th[s].pindexMostWork, th[s].pindexOldTip)
  BY Zenon DEF SoloInv
<1>3. ASSUME NEW pc, NEW m, NEW old, Moves(s, pc, m, old), On(pc, m, old), UNCHANGED aborted
      PROVE  SoloInv'
  BY <1>1, <1>3, SoloFrame, Zenon
<1>4. CASE \E b \in Blocks, r, out \in BOOLEAN : ProcessKnownBlock(s, b, r, out)
  <2>1. Moves(s, "top", NoBlock, NoBlock) /\ th[s].pc = "idle" /\ UNCHANGED aborted
    BY <1>4, CallMoves, Zenon DEF ProcessKnownBlock, CanEnter
  <2>2. On("top", NoBlock, NoBlock)
    BY <1>2, <2>1, Zenon DEF SoloOn, Known
  <2> QED BY <1>3, <2>1, <2>2, Zenon
<1>5. CASE LoopTop(s)
  <2> DEFINE pc == IF th[s].pindexMostWork = NoBlock THEN "find" ELSE "step"
  <2>1. th[s].pc = "top" /\ Moves(s, pc, th[s].pindexMostWork, th[s].pindexOldTip)
    BY <1>5, LoopMoves
  <2>2. On(pc, th[s].pindexMostWork, th[s].pindexOldTip)
    BY <1>2, <2>1, Zenon DEF SoloOn, Known
  <2>3. UNCHANGED aborted
    BY <1>5, Zenon DEF LoopTop
  <2> QED BY <1>3, <2>1, <2>2, <2>3, Zenon
<1>6. CASE FindMostWorkChain(s)
  <2>1. PICK b \in setBlockIndexCandidates :
          Best(b) /\ Unusable(b) = {} /\ Moves(s, "step", b, th[s].pindexOldTip)
    BY <1>6, LoopMoves, Zenon
  <2>2. th[s].pc = "find" /\ UNCHANGED aborted
    BY <1>6 DEF FindMostWorkChain, Running
  <2>3. Anc[b] \cap (failedValid \cup failedChild) = {}
    BY <1>2, <2>1, <2>2, Zenon DEF SoloOn, Unusable, Failed
  <2>4. On("step", b, th[s].pindexOldTip)
    BY <1>2, <2>1, <2>2, <2>3, Zenon DEF SoloOn, Best, BestOf
  <2> QED BY <1>3, <2>1, <2>2, <2>4, Zenon
<1>7. CASE AlreadyActive(s)
  <2>1. Moves(s, "idle", NoBlock, NoBlock) /\ th[s].pc = "step" /\ th[s].pindexMostWork = tip
        /\ UNCHANGED aborted
    BY <1>7, CallMoves, Zenon DEF AlreadyActive, Return, Running
  <2>2. On("idle", NoBlock, NoBlock)
    BY <1>2, <2>1, Zenon DEF SoloOn, Known
  <2> QED BY <1>3, <2>1, <2>2
<1>8. CASE ActivateBestChainStep(s)
  <2>1. /\ Moves(s, "switch", th[s].pindexMostWork, tip) /\ th[s].pc = "step"
        /\ th[s].pindexMostWork /= tip /\ UNCHANGED aborted
    BY <1>8, LoopMoves DEF ActivateBestChainStep, Running
  <2>2. Worse(tip, th[s].pindexMostWork)
    BY <1>2, <2>1, TargetBeatsTip, Zenon DEF SoloOn, Known
  <2>3. On("switch", th[s].pindexMostWork, tip)
    BY <1>2, <2>1, <2>2, Zenon DEF SoloOn, Known
  <2> QED BY <1>3, <2>1, <2>3
<1> QED BY <1>4, <1>5, <1>6, <1>7, <1>8

(* Blocks arrive.                                                          *)
LEMMA SoloReceive ==
  ASSUME NEW s, Threads = {s}, IInv, IInv', StoredInv, SoloInv,
         NEW b \in Blocks, NEW r \in BOOLEAN, NEW out \in BOOLEAN,
         ProcessInvalidBlock(s, b, r, out) \/ ProcessNewBlock(s, b, r, out)
  PROVE  SoloInv'
<1>1. /\ th[s].pc = "idle" /\ ~aborted
  BY DEF ProcessInvalidBlock, ProcessNewBlock, CanEnter
<1>2. /\ CheckBad \cap Processed = {} /\ Anc[tip] \cap ConnectBad = {}
      /\ Anc[tip] \cap (failedValid \cup failedChild) = {}
      /\ BestOf(tip, setBlockIndexCandidates)
  BY <1>1, Zenon DEF SoloInv, SoloOn
<1>3. PICK R \in Blocks : RefOf(R, failedValid, setBlockIndexCandidates, tip)
  BY <1>1, Zenon DEF SoloInv, SoloOn
<1>4. CASE ProcessInvalidBlock(s, b, r, out)
  <2>1. /\ Processed' = Processed /\ b \in CheckBad /\ failedValid' = failedValid \cup {b}
        /\ UNCHANGED <<failedChild, linked, nSequenceId, setBlockIndexCandidates, tip, th, aborted>>
    BY <1>4, InvalidFacts DEF linkVars
  <2>2. \A x \in linked : b \notin Anc[x]
    BY <1>2, <2>1, Facts, Zenon
  <2>3. RefOf(R, failedValid', setBlockIndexCandidates, tip)
    <3>1. Anc[R] \cap failedValid' = {}
      BY <1>3, <2>1, <2>2, Facts DEF RefOf
    <3> QED BY <1>3, <2>1, <3>1, ReferenceRemove
  <2>4. Anc[tip] \cap (failedValid' \cup failedChild) = {}
    BY <1>2, <2>1, <2>2, Facts
  <2>5. SoloOn("idle", th[s].pindexMostWork, th[s].pindexOldTip,
               failedValid', failedChild, setBlockIndexCandidates, tip)
    BY <1>2, <2>3, <2>4 DEF SoloOn, Known
  <2> QED BY <1>1, <1>2, <2>1, <2>5, SoloStays, Zenon
<1>5. CASE ProcessNewBlock(s, b, r, out)
  <2>0. s \in Threads
    OBVIOUS
  <2>1. /\ Processed' = Processed \cup {b} /\ b \notin CheckBad
        /\ UNCHANGED <<failedValid, failedChild, tip, aborted>>
        /\ Moves(s, "top", NoBlock, NoBlock)
    <3>1. Processed' = Processed \cup {b} /\ b \notin CheckBad
      BY <1>5, <2>0, ReceiveFacts, Zenon
    <3>2. UNCHANGED <<failedValid, failedChild, tip, aborted>>
      BY <1>5, <2>0, ReceiveFacts
    <3>3. Moves(s, "top", NoBlock, NoBlock)
      BY <1>5, <2>0, ReceiveMoves
    <3> QED BY <3>1, <3>2, <3>3
  <2>2. /\ R \in setBlockIndexCandidates' /\ ~Worse(R, tip)'
        /\ Anc[R] \cap (failedValid \cup ConnectBad) = {}
        /\ \A x \in linked' : ~Worse(x, R)' /\ Anc[x] \cap failedValid = {} => x \in setBlockIndexCandidates'
    BY <1>3, <1>5, ReferenceReceive
  <2>3. RefOf(R, failedValid, setBlockIndexCandidates, tip)'
    BY <2>1, <2>2 DEF RefOf
  <2>4. th'[s].pc = "top" /\ th'[s].pindexMostWork = NoBlock
    BY <2>1 DEF Moves
  <2>5. SoloOn(th[s].pc, th[s].pindexMostWork, th[s].pindexOldTip,
               failedValid, failedChild, setBlockIndexCandidates, tip)'
    BY <1>2, <2>1, <2>3, <2>4, Zenon DEF SoloOn, Known
  <2> QED BY <1>1, <1>2, <2>1, <2>5, Zenon DEF SoloInv
<1> QED BY <1>4, <1>5

(* FindMostWorkChain drops a candidate with an invalid block in its chain. *)
LEMMA SoloDrop ==
  ASSUME NEW s, Threads = {s}, IInv, StoredInv, CauseInv, SoloInv, DropCandidate(s)
  PROVE  SoloInv'
<1>1. /\ th[s].pc = "find" /\ UNCHANGED <<th, linked, nSequenceId, aborted, failedValid, tip>>
      /\ Processed' = Processed
  BY DEF DropCandidate, Running, Processed
<1>2. PICK b \in setBlockIndexCandidates, x \in Blocks :
        /\ StopsAt(x, b)
        /\ failedChild' = IF x \in Failed THEN failedChild \cup Above(x, b) ELSE failedChild
        /\ setBlockIndexCandidates' = setBlockIndexCandidates \ (Above(x, b) \cup {x})
  BY Zenon DEF DropCandidate
<1>3. x \in Failed
  BY <1>2, StopsAtFailed
<1>4. Invalid(x) /\ \A y \in Above(x, b) : Invalid(y) /\ y \notin Anc[tip]
  BY <1>2, <1>3, AboveFacts, InvalidAbove DEF CauseInv, FailedHasCause
<1>5. /\ CheckBad \cap Processed = {} /\ Anc[tip] \cap ConnectBad = {}
      /\ Anc[tip] \cap (failedValid \cup failedChild) = {}
  BY <1>1, Zenon DEF SoloInv, SoloOn
<1>6. PICK R \in Blocks : RefOf(R, failedValid, setBlockIndexCandidates, tip)
  BY <1>1 DEF SoloInv, SoloOn
<1>7. RefOf(R, failedValid, setBlockIndexCandidates', tip)
  <2>1. Anc[R] \cap failedValid = {}
    BY <1>6 DEF RefOf
  <2>2. \A c \in setBlockIndexCandidates \ setBlockIndexCandidates' : Anc[c] \cap failedValid /= {}
    BY <1>2, <1>4 DEF Invalid
  <2> QED BY <1>6, <2>1, <2>2, ReferenceRemove
<1>8. Anc[tip] \cap (failedValid \cup failedChild') = {}
  BY <1>2, <1>3, <1>4, <1>5
<1>9. SoloOn("find", th[s].pindexMostWork, th[s].pindexOldTip,
             failedValid, failedChild', setBlockIndexCandidates', tip)
  BY <1>7, <1>8 DEF SoloOn, Known
<1> QED BY <1>1, <1>5, <1>9, SoloStays

(* DisconnectTip: the target is better than the tip, so it is not the      *)
(* parent of the tip, and the step goes on.                                *)
LEMMA SoloDisconnect ==
  ASSUME NEW s, Threads = {s}, IInv, SoloInv, DisconnectTip(s)
  PROVE  SoloInv' /\ UNCHANGED th
<1> DEFINE m == th[s].pindexMostWork
<1>1. /\ tip \in linked /\ tip' \in linked /\ Anc[tip] = Anc[tip'] \cup {tip} /\ Worse(tip', tip)
      /\ th[s].pc = "switch"
      /\ UNCHANGED <<statusVars, linkVars, setBlockIndexCandidates, aborted>>
  BY DisconnectFacts, Zenon
<1>2. /\ Anc[tip] \cap (failedValid \cup failedChild) = {}
      /\ BestOf(m, setBlockIndexCandidates) /\ Anc[m] \cap (failedValid \cup failedChild) = {}
      /\ Worse(th[s].pindexOldTip, m)
      /\ ~aborted /\ CheckBad \cap Processed = {} /\ Anc[tip] \cap ConnectBad = {}
  BY <1>1, Zenon DEF SoloInv, SoloOn, Known
<1>3. PICK R \in Blocks : RefOf(R, failedValid, setBlockIndexCandidates, tip)
  BY <1>1, Zenon DEF SoloInv, SoloOn
<1>4. tip' /= m
  BY <1>1, <1>2, <1>3, TargetBeatsTip, Zenon
<1>5. UNCHANGED th
  BY <1>4 DEF DisconnectTip
<1>6. RefOf(R, failedValid, setBlockIndexCandidates, tip')
  BY <1>1, <1>3, Facts, ReferenceDisconnect, Zenon
<1>7. SoloOn("switch", m, th[s].pindexOldTip, failedValid, failedChild, setBlockIndexCandidates, tip')
  BY <1>1, <1>2, <1>6 DEF SoloOn, Known
<1>8. /\ UNCHANGED <<failedValid, failedChild, linked, nSequenceId, setBlockIndexCandidates, aborted>>
      /\ Processed' = Processed
  BY <1>1, Zenon DEF statusVars, linkVars, Processed
<1> QED BY <1>1, <1>2, <1>5, <1>7, <1>8, SoloStays

(* ConnectTip: what it does to the call.                                   *)
LEMMA ConnectMoves ==
  ASSUME IInv, NEW s \in Threads, NEW b \in Blocks, ConnectTip(s, b)
  PROVE  IF StepDone(s, b)
         THEN IF b = th[s].pindexMostWork THEN Moves(s, "idle", NoBlock, NoBlock)
              ELSE Moves(s, "top", th[s].pindexMostWork, NoBlock)
         ELSE UNCHANGED th
<1>1. IF StepDone(s, b) THEN EndStep(s, th[s].pindexMostWork, b) ELSE UNCHANGED th
  BY DEF ConnectTip
<1> QED BY <1>1, EndStepMoves

(* ConnectTip: the new tip is valid, and the target stays the best.        *)
LEMMA SoloConnect ==
  ASSUME NEW s, Threads = {s}, IInv, SoloInv, NEW b \in Blocks, ConnectTip(s, b)
  PROVE  SoloInv'
<1> DEFINE m == th[s].pindexMostWork
<1>1. /\ th[s].pc = "switch" /\ m \in linked /\ b \in Anc[m] /\ b \in linked
      /\ Anc[b] = Anc[tip] \cup {b} /\ b \notin ConnectBad /\ tip' = b
      /\ setBlockIndexCandidates' = {c \in setBlockIndexCandidates : ~Worse(c, b)}
      /\ Processed' = Processed
      /\ UNCHANGED <<failedValid, failedChild, linked, nSequenceId, aborted>>
  BY ConnectFacts, Zenon DEF linkVars
<1>2. /\ Anc[tip] \cap (failedValid \cup failedChild) = {}
      /\ BestOf(m, setBlockIndexCandidates) /\ Anc[m] \cap (failedValid \cup failedChild) = {}
      /\ Worse(th[s].pindexOldTip, m)
      /\ ~aborted /\ CheckBad \cap Processed = {} /\ Anc[tip] \cap ConnectBad = {}
  BY <1>1, Zenon DEF SoloInv, SoloOn, Known
<1>3. PICK R \in Blocks : RefOf(R, failedValid, setBlockIndexCandidates, tip)
  BY <1>1, Zenon DEF SoloInv, SoloOn
<1>4. /\ Anc[b] \cap (failedValid \cup failedChild) = {}
      /\ Anc[b] \cap (failedValid \cup ConnectBad) = {}
  BY <1>1, <1>2
<1>5. PICK Q \in Blocks : RefOf(Q, failedValid, setBlockIndexCandidates', b)
  BY <1>1, <1>3, <1>4, ReferenceConnect
<1>6. BestOf(m, setBlockIndexCandidates')
  <2>1. ~Worse(m, b)
    BY <1>1, WorseAlong, WorseOrder
  <2> QED BY <1>1, <1>2, <2>1 DEF BestOf
<1> DEFINE On(pc, mw, old) == SoloOn(pc, mw, old, failedValid, failedChild, setBlockIndexCandidates', b)
<1>7. /\ b = m => On("idle", NoBlock, NoBlock)
      /\ On("top", m, NoBlock) /\ On("switch", m, th[s].pindexOldTip)
  BY <1>2, <1>4, <1>5, <1>6, Zenon DEF SoloOn, Known
<1>8. Anc[tip'] \cap ConnectBad = {}
  BY <1>1, <1>4, Zenon
<1>9. \/ UNCHANGED th \/ (b = m /\ Moves(s, "idle", NoBlock, NoBlock)) \/ Moves(s, "top", m, NoBlock)
  BY ConnectMoves
<1> HIDE DEF m
<1>10. CASE UNCHANGED th
  BY <1>1, <1>2, <1>7, <1>8, <1>10, SoloStays, Zenon DEF m
<1>11. CASE b = m /\ Moves(s, "idle", NoBlock, NoBlock)
  BY <1>1, <1>2, <1>7, <1>8, <1>11, SoloFrame, Zenon
<1>12. CASE Moves(s, "top", m, NoBlock)
  BY <1>1, <1>2, <1>7, <1>8, <1>12, SoloFrame, Zenon
<1> QED BY <1>9, <1>10, <1>11, <1>12

(* InvalidBlockFound: the block is not in the chain of the reference.      *)
LEMMA SoloInvalid ==
  ASSUME NEW s, Threads = {s}, IInv, SoloInv, NEW b \in Blocks, InvalidBlockFound(s, b)
  PROVE  SoloInv' /\ failedValid' /= failedValid
<1>1. /\ th[s].pc = "switch" /\ b \in ConnectBad /\ b \in Anc[th[s].pindexMostWork]
      /\ failedValid' = failedValid \cup {b} /\ setBlockIndexCandidates' = setBlockIndexCandidates \ {b}
      /\ EndStep(s, NoBlock, tip) /\ Processed' = Processed
      /\ UNCHANGED <<failedChild, linked, nSequenceId, tip, aborted>>
  BY DEF InvalidBlockFound, Connects, Running, linkVars, Processed
<1>2. /\ Anc[tip] \cap (failedValid \cup failedChild) = {}
      /\ Anc[th[s].pindexMostWork] \cap (failedValid \cup failedChild) = {}
      /\ ~aborted /\ CheckBad \cap Processed = {} /\ Anc[tip] \cap ConnectBad = {}
  BY <1>1, Zenon DEF SoloInv, SoloOn, Known
<1>3. PICK R \in Blocks : RefOf(R, failedValid, setBlockIndexCandidates, tip)
  BY <1>1, Zenon DEF SoloInv, SoloOn
<1>4. RefOf(R, failedValid', setBlockIndexCandidates', tip)
  <2>1. Anc[R] \cap failedValid' = {}
    BY <1>1, <1>3 DEF RefOf
  <2>2. \A c \in setBlockIndexCandidates \ setBlockIndexCandidates' : Anc[c] \cap failedValid' /= {}
    BY <1>1, Tree
  <2> QED BY <1>1, <1>3, <2>1, <2>2, ReferenceRemove
<1>5. Moves(s, "top", NoBlock, NoBlock)
  <2>1. tip /= NoBlock
    BY Facts, Tree
  <2> QED BY <1>1, <2>1, EndStepMoves
<1>6. SoloOn("top", NoBlock, NoBlock, failedValid', failedChild, setBlockIndexCandidates', tip)
  BY <1>1, <1>2, <1>4, Zenon DEF SoloOn, Known
<1> QED BY <1>1, <1>2, <1>5, <1>6, SoloFrame, Zenon

(* InvalidateBlock: only the block it was given is a marked block of the   *)
(* active chain, and afterwards the tip is the reference.                  *)
LEMMA SoloOperator ==
  ASSUME NEW s, Threads = {s}, IInv, CauseInv, SoloInv,
         (\E b \in Blocks : InvalidateBlock(s, b)) \/ InvalidateTip(s) \/ InvalidateEnd(s)
  PROVE  SoloInv'
<1>0. ~aborted /\ CheckBad \cap Processed = {} /\ Anc[tip] \cap ConnectBad = {}
  BY Zenon DEF SoloInv
<1>1. ASSUME NEW b \in Blocks, InvalidateBlock(s, b)
      PROVE  SoloInv'
  <2>1. /\ th[s].pc = "idle" /\ failedValid' = failedValid \cup {b} /\ Processed' = Processed
        /\ UNCHANGED <<failedChild, linked, nSequenceId, tip, aborted>>
    BY <1>1, Zenon DEF InvalidateBlock, CanEnter, linkVars, Processed
  <2>2. Moves(s, "invalidate", b, NoBlock)
    BY <1>1, CallMoves, Zenon DEF InvalidateBlock
  <2>3. Anc[tip] \cap (failedValid \cup failedChild) = {}
    BY <2>1, Zenon DEF SoloInv, SoloOn
  <2>4. SoloOn("invalidate", b, NoBlock, failedValid', failedChild, setBlockIndexCandidates', tip)
    BY <2>1, <2>3 DEF SoloOn, Known
  <2> QED BY <1>0, <2>1, <2>2, <2>4, SoloFrame, Zenon
<1>2. CASE InvalidateTip(s)
  <2>1. /\ th[s].pc = "invalidate" /\ failedChild' = failedChild \cup {tip} /\ Processed' = Processed
        /\ UNCHANGED <<failedValid, linked, nSequenceId, th, aborted>>
    BY <1>2, Zenon DEF InvalidateTip, Running, linkVars, Processed
  <2>2. Anc[tip] = Anc[tip'] \cup {tip} /\ tip \notin Anc[tip']
    BY <1>2, DisconnectFacts, Facts, TreeAssumption, Zenon
  <2>3. Anc[tip] \cap (failedValid \cup failedChild) \subseteq {th[s].pindexMostWork}
    BY <2>1, Zenon DEF SoloInv, SoloOn
  <2>4. SoloOn("invalidate", th[s].pindexMostWork, th[s].pindexOldTip,
               failedValid, failedChild', setBlockIndexCandidates', tip')
    BY <2>1, <2>2, <2>3, Zenon DEF SoloOn, Known
  <2> QED BY <1>0, <2>1, <2>2, <2>4, SoloStays, Zenon
<1>3. CASE InvalidateEnd(s)
  <2>1. /\ th[s].pc = "invalidate" /\ ~(th[s].pindexMostWork \in Anc[tip])
        /\ setBlockIndexCandidates' = setBlockIndexCandidates \cup Reinstated
        /\ Processed' = Processed
        /\ UNCHANGED <<failedValid, failedChild, linked, nSequenceId, tip, aborted>>
    BY <1>3, Zenon DEF InvalidateEnd, Running, StillActive, statusVars, linkVars, Processed
  <2>2. Moves(s, "top", NoBlock, NoBlock)
    BY <1>3, CallMoves, Zenon DEF InvalidateEnd
  <2>3. Anc[tip] \cap (failedValid \cup failedChild) = {}
    BY <2>1, Zenon DEF SoloInv, SoloOn
  <2>4. tip \in linked /\ tip \in Anc[tip] /\ ~Worse(tip, tip)
    BY Facts, Tree, WorseOrder, Zenon
  <2>5. \A x \in linked : ~Worse(x, tip) /\ Anc[x] \cap failedValid = {} => x \in Reinstated
    BY Facts DEF Reinstated, CauseInv, FailedHasCause, Invalid
  <2>6. RefOf(tip, failedValid, setBlockIndexCandidates', tip)
    BY <1>0, <2>1, <2>3, <2>4, <2>5, Zenon DEF RefOf
  <2>7. SoloOn("top", NoBlock, NoBlock, failedValid, failedChild, setBlockIndexCandidates', tip)
    BY <2>3, <2>6, Facts, Zenon DEF SoloOn, Known
  <2> QED BY <1>0, <2>1, <2>2, <2>7, SoloFrame, Zenon
<1> QED BY <1>1, <1>2, <1>3

(* Nothing that has to be read is missing, and there is a candidate.       *)
LEMMA SoloNoFailure ==
  ASSUME NEW s, Threads = {s}, IInv, StoredInv, SoloInv
  PROVE  /\ ~FindNothing(s) /\ ~DisconnectTipFails(s) /\ ~InvalidateTipFails(s)
         /\ \A b \in Blocks : ~ConnectTipFails(s, b)
<1>1. linked \subseteq haveData
  BY Facts DEF StoredInv
<1>2. ~DisconnectTipFails(s) /\ ~InvalidateTipFails(s)
  BY <1>1, Facts DEF DisconnectTipFails, InvalidateTipFails
<1>3. ASSUME NEW b \in Blocks, ConnectTipFails(s, b) PROVE FALSE
  <2>1. th[s].pc = "switch" /\ b \in Anc[th[s].pindexMostWork] /\ b \notin haveData
    BY <1>3 DEF ConnectTipFails, Connects, Running, Readable
  <2>2. th[s].pindexMostWork \in linked
    BY <2>1, Facts DEF CallOK, Known
  <2> QED BY <1>1, <2>1, <2>2, Facts
<1>4. ~FindNothing(s)
  <2> SUFFICES ASSUME FindNothing(s) PROVE FALSE
    OBVIOUS
  <2>1. th[s].pc = "find" /\ setBlockIndexCandidates = {}
    BY DEF FindNothing, Running
  <2> QED BY <2>1 DEF SoloInv, SoloOn, RefOf
<1> QED BY <1>2, <1>3, <1>4

(* What the only thread can do.                                            *)
LEMMA SoloSteps ==
  ASSUME NEW s, Threads = {s}, PrunableBlocks = {}, ReconsiderBlocks = {},
         IInv, StoredInv, SoloInv, [Next]_vars
  PROVE  \/ UNCHANGED vars
         \/ \E b \in Blocks : AcceptBlockHeader(s, b)
         \/ \E b \in Blocks, r, out \in BOOLEAN :
              \/ ProcessKnownBlock(s, b, r, out) \/ ProcessInvalidBlock(s, b, r, out)
              \/ ProcessNewBlock(s, b, r, out)
         \/ LoopTop(s) \/ FindMostWorkChain(s) \/ AlreadyActive(s) \/ ActivateBestChainStep(s)
         \/ DropCandidate(s) \/ DisconnectTip(s) \/ InvalidateTip(s) \/ InvalidateEnd(s)
         \/ \E b \in Blocks : ConnectTip(s, b) \/ InvalidBlockFound(s, b) \/ InvalidateBlock(s, b)
<1>1. ~ \E b \in Blocks : PruneOneBlockFile(b)
  BY Zenon DEF PruneOneBlockFile
<1>2. ~ \E b \in Blocks : ResetBlockFailureFlags(s, b)
  BY Zenon DEF ResetBlockFailureFlags
<1>3. CASE Receive(s)
  BY <1>3 DEF Receive
<1>4. CASE Switch(s)
  BY <1>4, SoloNoFailure DEF Switch
<1>5. CASE Operator(s)
  BY <1>2, <1>5 DEF Operator
<1> QED BY <1>1, <1>3, <1>4, <1>5 DEF Next

(* Every step of the only thread keeps SoloInv.                            *)
LEMMA SoloNext ==
  ASSUME NEW s, Threads = {s}, PrunableBlocks = {}, ReconsiderBlocks = {},
         IInv, StoredInv, CauseInv, SoloInv, [Next]_vars
  PROVE  SoloInv'
<1>1. CASE UNCHANGED vars
  BY <1>1, Zenon DEF vars, statusVars, linkVars, SoloInv, SoloOn, Processed, BestOf, RefOf, Worse
<1>2. ASSUME NEW b \in Blocks, AcceptBlockHeader(s, b)
      PROVE  SoloInv'
  <2>1. Processed' = Processed
    BY <1>2, Facts, RaiseKeeps, Zenon DEF AcceptBlockHeader, DataOK, Levels
  <2>2. UNCHANGED <<failedValid, failedChild, linked, nSequenceId, setBlockIndexCandidates, tip, th, aborted>>
    BY <1>2 DEF AcceptBlockHeader, linkVars
  <2> QED BY <2>1, <2>2, SoloStays, Zenon DEF SoloInv
<1>3. ASSUME NEW b \in Blocks, NEW r \in BOOLEAN, NEW out \in BOOLEAN, ProcessKnownBlock(s, b, r, out)
      PROVE  SoloInv'
  <2>1. Processed' = Processed
    BY <1>3, Facts, RaiseKeeps, Zenon DEF ProcessKnownBlock, DataOK, Levels
  <2>2. Still
    BY <1>3, <2>1 DEF ProcessKnownBlock, Still
  <2> QED BY <1>3, <2>2, SoloWalk
<1>4. CASE LoopTop(s) \/ FindMostWorkChain(s) \/ AlreadyActive(s) \/ ActivateBestChainStep(s)
  <2>1. Still
    BY <1>4 DEF LoopTop, FindMostWorkChain, AlreadyActive, ActivateBestChainStep, Still, statusVars, Processed
  <2> QED BY <1>4, <2>1, SoloWalk
<1>5. ASSUME NEW b \in Blocks, NEW r \in BOOLEAN, NEW out \in BOOLEAN,
             ProcessInvalidBlock(s, b, r, out) \/ ProcessNewBlock(s, b, r, out)
      PROVE  SoloInv'
  BY <1>5, NextInv, SoloReceive
<1>6. CASE DropCandidate(s)
  BY <1>6, SoloDrop
<1>7. CASE DisconnectTip(s)
  BY <1>7, SoloDisconnect
<1>8. ASSUME NEW b \in Blocks, ConnectTip(s, b) \/ InvalidBlockFound(s, b)
      PROVE  SoloInv'
  BY <1>8, SoloConnect, SoloInvalid
<1>9. CASE (\E b \in Blocks : InvalidateBlock(s, b)) \/ InvalidateTip(s) \/ InvalidateEnd(s)
  BY <1>9, SoloOperator
<1> QED BY <1>1, <1>2, <1>3, <1>4, <1>5, <1>6, <1>7, <1>8, <1>9, SoloSteps

(* The initial state.                                                      *)
LEMMA SoloInit == Init => SoloInv
<1> SUFFICES ASSUME Init PROVE SoloInv
  OBVIOUS
<1>1. /\ aborted = FALSE /\ tip = Genesis /\ Anc[tip] = {Genesis}
      /\ failedValid = {} /\ failedChild = {} /\ setBlockIndexCandidates = {Genesis}
      /\ linked = {Genesis} /\ Genesis \notin ConnectBad \cup CheckBad
  BY Tree, InputsAssumption DEF Init
<1>2. Processed = {Genesis}
  BY Tree DEF Init, Processed, UNKNOWN, VALID_TRANSACTIONS, VALID_SCRIPTS
<1>3. \A s \in Threads : th[s].pc = "idle"
  BY DEF Init, Idle
<1>4. ~Worse(Genesis, Genesis)
  BY Tree, TreeAssumption DEF Init, Worse, WorseBy
<1>5. RefOf(Genesis, failedValid, setBlockIndexCandidates, tip)
  BY <1>1, <1>4, Zenon DEF RefOf
<1>6. BestOf(tip, setBlockIndexCandidates)
  BY <1>1, Zenon DEF BestOf
<1>7. \A m, old : SoloOn("idle", m, old, failedValid, failedChild, setBlockIndexCandidates, tip)
  BY <1>1, <1>5, <1>6, Tree, Zenon DEF SoloOn, Known
<1> QED BY <1>1, <1>2, <1>3, <1>7 DEF SoloInv

(* When the only thread is idle, the tip is the best candidate.            *)
LEMMA SoloQuiet ==
  ASSUME NEW s, Threads = {s}, IInv, CauseInv, SoloInv, Quiet
  PROVE  /\ Anc[tip] \cap Failed = {}
         /\ \A b \in linked : ~Worse(b, tip) /\ ~Invalid(b) => b \in setBlockIndexCandidates
         /\ \A b \in linked : ~Invalid(b) => ~Worse(tip, b)
<1>1. th[s].pc = "idle"
  BY Zenon DEF Quiet
<1>2. /\ Anc[tip] \cap Failed = {} /\ BestOf(tip, setBlockIndexCandidates)
  BY <1>1, Zenon DEF SoloInv, SoloOn, Failed
<1>3. PICK R \in Blocks : RefOf(R, failedValid, setBlockIndexCandidates, tip)
  BY <1>1 DEF SoloInv, SoloOn
<1>4. R = tip
  BY <1>2, <1>3 DEF RefOf, BestOf
<1>5. \A b \in linked : ~Worse(b, tip) /\ ~Invalid(b) => b \in setBlockIndexCandidates
  BY <1>3, <1>4 DEF RefOf, Invalid
<1>6. ASSUME NEW b \in linked, ~Invalid(b), Worse(tip, b) PROVE FALSE
  <2>1. tip \in linked /\ ~Worse(b, tip) /\ b /= tip
    BY <1>6, Facts, WorseOrder
  <2> QED BY <1>2, <1>5, <1>6, <2>1 DEF BestOf
<1> QED BY <1>2, <1>5, <1>6, Zenon

(* The inductive invariant of the only thread.                             *)
LEMMA SoloSpec ==
  ASSUME NEW CONSTANT s, Threads = {s}, PrunableBlocks = {}, ReconsiderBlocks = {}
  PROVE  Spec => [](IInv /\ StoredInv /\ CauseInv /\ SoloInv)
<1> DEFINE J == IInv /\ StoredInv /\ CauseInv /\ SoloInv
<1>1. Init => J
  BY InitInv, StoredInit, SoloInit DEF Init, CauseInv, FailedHasCause, Failed, Idle
<1>2. J /\ [Next]_vars => J'
  BY NextInv, StoredNext, CauseNext, SoloNext, Zenon
<1> QED BY <1>1, <1>2, PTL DEF Spec

\* ActivateBestChain: when one thread at a time uses the block index, on a node
\* that does not prune and where nobody calls reconsiderblock, every call
\* leaves the best chain that is present and valid active.  Blocks may arrive
\* in any order, fail their checks early or late, and be invalidated by the
\* operator.
THEOREM BestChainWins ==
  ASSUME NEW CONSTANT s, Threads = {s}, PrunableBlocks = {}, ReconsiderBlocks = {}
  PROVE  Spec => []BestChainActive
<1>1. IInv /\ StoredInv /\ CauseInv /\ SoloInv => BestChainActive
  BY SoloQuiet, Zenon DEF BestChainActive, Invalid
<1> QED BY <1>1, SoloSpec, PTL

\* CheckBlockIndex, in the same setting: a valid block at least as good as the
\* tip, the tip included, is in setBlockIndexCandidates after every call.
THEOREM CandidatesAreComplete ==
  ASSUME NEW CONSTANT s, Threads = {s}, PrunableBlocks = {}, ReconsiderBlocks = {}
  PROVE  Spec => []CandidatesComplete
<1>1. IInv /\ StoredInv /\ CauseInv /\ SoloInv => CandidatesComplete
  BY SoloQuiet, Zenon DEF CandidatesComplete
<1> QED BY <1>1, SoloSpec, PTL

\* FindMostWorkChain, in the same setting: InvalidateBlock may be called for a
\* block of the active chain, and no block of the active chain is marked
\* failed after it has returned.
THEOREM ActiveChainValidAgain ==
  ASSUME NEW CONSTANT s, Threads = {s}, PrunableBlocks = {}, ReconsiderBlocks = {}
  PROVE  Spec => []ActiveChainValid
<1>1. IInv /\ StoredInv /\ CauseInv /\ SoloInv => ActiveChainValid
  BY SoloQuiet, Zenon DEF ActiveChainValid
<1> QED BY <1>1, SoloSpec, PTL

(* A step that ends moves the tip past the old one or meets an invalid     *)
(* block.                                                                  *)
LEMMA SoloImproves ==
  ASSUME NEW s, Threads = {s}, PrunableBlocks = {}, ReconsiderBlocks = {},
         IInv, StoredInv, SoloInv, [Next]_vars,
         th[s].pc = "switch", th'[s].pc /= "switch", failedValid' = failedValid
  PROVE  Worse(th[s].pindexOldTip, tip')
<1>1. ~UNCHANGED th
  OBVIOUS
<1>2. ~UNCHANGED vars /\ ~ \E b \in Blocks : AcceptBlockHeader(s, b)
  BY <1>1 DEF vars, AcceptBlockHeader
<1>3. ~ \E b \in Blocks, r, out \in BOOLEAN :
          \/ ProcessKnownBlock(s, b, r, out) \/ ProcessInvalidBlock(s, b, r, out)
          \/ ProcessNewBlock(s, b, r, out)
  BY DEF ProcessKnownBlock, ProcessInvalidBlock, ProcessNewBlock, CanEnter
<1>4. /\ ~LoopTop(s) /\ ~FindMostWorkChain(s) /\ ~AlreadyActive(s) /\ ~ActivateBestChainStep(s)
      /\ ~DropCandidate(s) /\ ~InvalidateTip(s) /\ ~InvalidateEnd(s)
      /\ ~ \E b \in Blocks : InvalidateBlock(s, b)
  BY DEF LoopTop, FindMostWorkChain, AlreadyActive, ActivateBestChainStep, DropCandidate,
         InvalidateTip, InvalidateEnd, InvalidateBlock, Running, CanEnter
<1>5. ~DisconnectTip(s)
  BY <1>1, SoloDisconnect
<1>6. ~ \E b \in Blocks : InvalidBlockFound(s, b)
  BY SoloInvalid
<1>7. PICK b \in Blocks : ConnectTip(s, b)
  BY <1>2, <1>3, <1>4, <1>5, <1>6, SoloSteps, Zenon
<1>8. tip' = b /\ StepDone(s, b)
  BY <1>1, <1>7, ConnectMoves, Zenon DEF ConnectTip
<1>9. Worse(th[s].pindexOldTip, th[s].pindexMostWork)
  BY Zenon DEF SoloInv, SoloOn
<1> QED BY <1>8, <1>9, Zenon DEF StepDone, Worse, WorseBy

\* "We're in a better position than we were": when one thread at a time uses
\* the block index, on a node that does not prune and where nobody calls
\* reconsiderblock, an ActivateBestChainStep that ends without having met an
\* invalid block leaves a tip that is better than the one it began with.
THEOREM EveryStepImproves ==
  ASSUME NEW CONSTANT s, Threads = {s}, PrunableBlocks = {}, ReconsiderBlocks = {}
  PROVE  Spec => StepImproves
<1> DEFINE J == IInv /\ StoredInv /\ CauseInv /\ SoloInv
<1> DEFINE A == \A t \in Threads :
       th[t].pc = "switch" /\ th'[t].pc /= "switch" /\ failedValid' = failedValid /\ ~aborted'
         => Worse(th[t].pindexOldTip, tip')
<1>1. J /\ [Next]_vars => [A]_vars
  BY SoloImproves, Zenon
<1>2. Spec => []J
  BY SoloSpec
<1> QED BY <1>1, <1>2, PTL DEF Spec, StepImproves

-----------------------------------------------------------------------------
(* RaiseValidity and the active chain.                                     *)

Scripts(b) == validity[b] = VALID_SCRIPTS
ScriptsInv == ScriptsInherited /\ \A a \in Anc[tip] : Scripts(a)

(* A block is raised to less than VALID_SCRIPTS.                           *)
LEMMA RaiseLess ==
  ASSUME DataOK, NEW b \in Blocks, NEW level \in {VALID_TREE, VALID_TRANSACTIONS},
         validity' = Raise(b, level)
  PROVE  \A x \in Blocks : Scripts(x)' <=> Scripts(x)
BY DEF DataOK, Levels, Raise, Scripts, UNKNOWN, VALID_TREE, VALID_TRANSACTIONS, VALID_SCRIPTS

(* A step that gives no block VALID_SCRIPTS and does not advance the tip.  *)
LEMMA ScriptsFrame ==
  ASSUME IInv, ScriptsInv, \A x \in Blocks : Scripts(x)' <=> Scripts(x), Anc[tip'] \subseteq Anc[tip]
  PROVE  ScriptsInv'
<1>1. \A b \in Blocks : Anc[b] \subseteq Blocks
  BY Tree
<1> QED BY <1>1, Facts, Zenon DEF ScriptsInv, ScriptsInherited, Scripts, DataOK

(* Every step keeps ScriptsInv.                                            *)
LEMMA ScriptsNext ==
  ASSUME InvalidateBlocks = {}, IInv, FailureInv, ScriptsInv, [Next]_vars
  PROVE  ScriptsInv'
<1>0. DataOK
  BY Facts
<1>1. ASSUME UNCHANGED <<validity, tip>> PROVE ScriptsInv'
  BY <1>1, ScriptsFrame DEF Scripts
<1>2. CASE UNCHANGED vars
  BY <1>1, <1>2 DEF vars, statusVars
<1>3. ASSUME NEW t \in Threads, Receive(t) PROVE ScriptsInv'
  <2> PICK b \in Blocks : \/ AcceptBlockHeader(t, b)
                          \/ \E r, out \in BOOLEAN : \/ ProcessKnownBlock(t, b, r, out)
                                                     \/ ProcessInvalidBlock(t, b, r, out)
                                                     \/ ProcessNewBlock(t, b, r, out)
    BY <1>3 DEF Receive
  <2>1. (validity' = Raise(b, VALID_TREE) \/ validity' = Raise(b, VALID_TRANSACTIONS)) /\ tip' = tip
    BY Zenon DEF AcceptBlockHeader, ProcessKnownBlock, ProcessInvalidBlock, ProcessNewBlock,
           ReceivedBlockTransactions
  <2> QED BY <1>0, <2>1, RaiseLess, ScriptsFrame, Zenon
<1>4. ASSUME NEW t \in Threads, NEW b \in Blocks, ConnectTip(t, b) PROVE ScriptsInv'
  <2>1. b \in linked /\ tip' = b /\ Anc[b] = Anc[tip] \cup {b} /\ b \notin ConnectBad
    BY <1>4, ConnectFacts, Zenon
  <2>2. b \notin Failed
    BY <2>1, Facts DEF FailureInv, Bad
  <2>3. validity' = Raise(b, VALID_SCRIPTS)
    BY <1>4, <2>2 DEF ConnectTip
  <2>4. \A x \in Blocks : Scripts(x)' <=> Scripts(x) \/ x = b
    BY <1>0, <2>3 DEF DataOK, Levels, Raise, Scripts, UNKNOWN, VALID_TREE, VALID_TRANSACTIONS, VALID_SCRIPTS
  <2>5. \A x \in Blocks : Anc[x] \subseteq Blocks
    BY Tree
  <2> QED BY <2>1, <2>4, <2>5 DEF ScriptsInv, ScriptsInherited, Scripts
<1>5. ASSUME NEW t \in Threads, DisconnectTip(t) PROVE ScriptsInv'
  <2>1. Anc[tip'] \subseteq Anc[tip] /\ UNCHANGED validity
    BY <1>5, DisconnectFacts, Zenon DEF statusVars
  <2> QED BY <2>1, ScriptsFrame DEF Scripts
<1>6. ASSUME NEW t \in Threads, Switch(t) PROVE ScriptsInv'
  <2>1. ~InvalidateTip(t)
    BY DEF FailureInv, InvalidateTip, Running
  <2>2. CASE \/ FindNothing(t) \/ FindMostWorkChain(t) \/ DropCandidate(t)
             \/ AlreadyActive(t) \/ ActivateBestChainStep(t) \/ DisconnectTipFails(t)
             \/ InvalidateTipFails(t) \/ InvalidateEnd(t)
    BY <1>1, <2>2, Zenon DEF FindNothing, FindMostWorkChain, DropCandidate, AlreadyActive,
         ActivateBestChainStep, DisconnectTipFails, InvalidateTipFails, InvalidateEnd, statusVars
  <2>3. CASE \E b \in Blocks : InvalidBlockFound(t, b) \/ ConnectTipFails(t, b)
    BY <1>1, <2>3 DEF InvalidBlockFound, ConnectTipFails, statusVars
  <2> QED BY <1>4, <1>5, <1>6, <2>1, <2>2, <2>3 DEF Switch
<1>7. ASSUME NEW t \in Threads, LoopTop(t) \/ Operator(t) PROVE ScriptsInv'
  BY <1>1, <1>7, Zenon DEF LoopTop, Operator, InvalidateBlock, ResetBlockFailureFlags, statusVars
<1>8. ASSUME NEW b \in Blocks, PruneOneBlockFile(b) PROVE ScriptsInv'
  BY <1>1, <1>8 DEF PruneOneBlockFile
<1> QED BY <1>2, <1>3, <1>6, <1>7, <1>8 DEF Next

\* CBlockIndex::RaiseValidity in ConnectBlock: without invalidateblock, a block
\* is BLOCK_VALID_SCRIPTS only on top of blocks that are, whatever the threads
\* do, and with pruning.
THEOREM ScriptsOnTopOfScripts ==
  ASSUME InvalidateBlocks = {}
  PROVE  Spec => []ScriptsInherited
<1> DEFINE J == IInv /\ FailureInv /\ ScriptsInv
<1>1. Init => J
  <2>1. Init => ScriptsInv
    BY Tree DEF Init, ScriptsInv, Scripts, ScriptsInherited, UNKNOWN, VALID_SCRIPTS
  <2> QED BY <2>1, InitInv, FailureInit, Zenon
<1>2. J /\ [Next]_vars => J'
  BY NextInv, FailureNext, ScriptsNext
<1>3. J => ScriptsInherited
  BY DEF ScriptsInv
<1> QED BY <1>1, <1>2, <1>3, PTL DEF Spec
=============================================================================
