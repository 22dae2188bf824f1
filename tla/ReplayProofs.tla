---------------------------- MODULE ReplayProofs ----------------------------
(***************************************************************************)
(* The coins are always those that the transactions of the best chain      *)
(* leave, for any blocks and any transactions.                             *)
(*                                                                         *)
(* DisconnectBlock retraces ConnectBlock: the sets of transactions made    *)
(* and outputs gone at a point of a block are the same on the way up and   *)
(* on the way down, and undo data is kept only for blocks that were good   *)
(* when they were connected.  With the steps of ConnectBlock this makes    *)
(* IInv, BlockInv and ReplayInv an invariant of BlockSpec, from which the  *)
(* theorems at the end follow.  The maps of CoinsMap come last, over the   *)
(* fact that blocks use the caches only in the ways that CoinsCache        *)
(* allows.                                                                 *)
(***************************************************************************)
EXTENDS ConnectProofs

(* A leaf is tried with the SMT solver, once more with more time, and with *)
(* Zenon.                                                                  *)
USE SMT, SMTT(20), Zenon
-----------------------------------------------------------------------------
(* DisconnectBlock works on a block that was connected.                    *)
LEMMA Undoing ==
  ASSUME BlockInv, ReplayInv, job.step \in DisconnectSteps
  PROVE  /\ job /= NoJob /\ job.block \in Blocks /\ BlockGood(job.block) /\ FreshView
         /\ verify \in {"no", "down"} /\ HasUndo(Prev[job.block]) /\ HasUndo(job.block)
         /\ Replay(ViewMap, MadeAt(job), GoneAt(job))
         /\ UndoRight(vtxundo, job.block, Places(job.block))
<1>1. job /= NoJob
  BY DEF NoJob, DisconnectSteps
<1>2. job.block \in Blocks
  BY <1>1, JobFacts
<1>8. /\ Replay(ViewMap, MadeAt(job), GoneAt(job))
      /\ UndoRight(vtxundo, job.block, Places(job.block))
  BY DEF ReplayInv, CallOK
<1> QED BY <1>1, <1>2, <1>8 DEF BlockInv, OnTip, HasUndo, ReplayInv, UndoOK, Where, ConnectSteps,
     DisconnectSteps

(* DisconnectBlock goes on with a view that is the replay to its point.    *)
LEMMA UndoGoesOn ==
  ASSUME BlockInv, ReplayInv, job.step \in DisconnectSteps,
         UNCHANGED <<best, undo, vtxundo, verify>>, TipMap' = TipMap, DbMap' = DbMap,
         job'.step \in DisconnectSteps, job'.block = job.block,
         Replay(ViewMap', MadeAt(job'), GoneAt(job')), FreshView'
  PROVE  ReplayInv'
BY Undoing, ReplayGoesOn DEF CallOK, ConnectSteps, DisconnectSteps

(* The outputs that the block created are found and removed.               *)
LEMMA RemoveReplays ==
  IInv /\ BlockInv /\ ReplayInv /\ RemoveOutputs => IInv' /\ ReplayInv' /\ Next
(* DisconnectBlock finds the outputs that the block created and takes them *)
(* away. *)
<1>RemoveReplay. ASSUME IInv, NEW b \in Blocks, NEW i \in 1..Len(vtx[b]), NEW t \in Tx,
                        t = vtx[b][i],
                        Replay(ViewMap, MadeTo(b, i + 1), GoneTo(b, i + 1, 0)), TxGood(b, i)
                 PROVE  /\ Meaning(Viewed(t)) = Meaning([vout |-> vout[t], nHeight |-> Height[b]])
                        /\ Replay([ViewMap EXCEPT ![t] = Meaning(Cleared)],
                                  MadeTo(b, i), GoneTo(b, i, Len(vin[t])))
  <2> USE <1>RemoveReplay
  <2> DEFINE M == MadeTo(b, i)
             M2 == MadeTo(b, i + 1)
             G == GoneTo(b, i, Len(vin[t]))
  <2>0. i \in Nat \ {0} /\ i \in 1..(Len(vtx[b]) + 1)
    BY BlockFacts
  <2>1. M2 = M \cup {<<b, i>>} /\ TxAt(<<b, i>>) = t /\ <<b, i>>[1] = b
    BY <2>0, MadeNext DEF TxAt
  <2>3. Placed(M)
    BY <2>0, PointPlaced
  <2>4. Sound(M, G) /\ \A p \in M : TxAt(p) /= t
    BY DEF TxGood, InputAt, InputCount
  <2>5. Replay(ViewMap, M2, G)
    BY GoneNext DEF InputAt, InputCount
  <2> HIDE DEF M, M2, G
  <2>6. Left(G, t) = vout[t]
    BY <2>4 DEF Sound, Left
  <2>7. ViewMap[t] = Meaning(LeftCoins(G, t, Height[b]))
    BY <2>1, <2>5 DEF Replay
  <2>10. Replay([ViewMap EXCEPT ![t] = Meaning(Cleared)], M, G)
    <3>1. \A p \in M : TxAt(p) = t => Meaning(Cleared) = Meaning(LeftCoins(G, t, Height[p[1]]))
      BY <2>4
    <3>2. (\A p \in M : TxAt(p) /= t) => Meaning(Cleared) = NoCoins
      BY DEF Meaning, Available, Cleared
    <3>3. DOMAIN ViewMap = Tx /\ \A p \in M : TxAt(p) \in Tx
      BY <2>3 DEF ViewMap, Placed
    <3>4. \A p : TxAt(p) /= t => (p \in M <=> p \in M2)
      BY <2>1
    <3> QED BY ZenonT(30), <2>5, <3>1, <3>2, <3>3, <3>4, ReplayWrite
  <2> QED BY <2>6, <2>7, <2>10, ViewedOK DEF M, G, LeftCoins
<1> SUFFICES ASSUME IInv, BlockInv, ReplayInv, RemoveOutputs
             PROVE  IInv' /\ ReplayInv' /\ Next
  OBVIOUS
<1> DEFINE b == job.block
           t == Transaction
           created == [vout |-> vout[t], nHeight |-> Height[b]]
<1>1. job.step = "remove" /\ job.step \in DisconnectSteps
  BY DEF RemoveOutputs, Doing, DisconnectSteps
<1>2. b \in Blocks /\ BlockGood(b) /\ FreshView /\ Replay(ViewMap, MadeAt(job), GoneAt(job))
  BY <1>1, Undoing
<1>3. job.i \in 1..Len(vtx[b]) /\ t = vtx[b][job.i] /\ t \in Tx
  BY <1>1, Undoing, JobFacts DEF Transaction
<1>7. TxGood(b, job.i)
  BY <1>2, <1>3 DEF BlockGood
<1>8. /\ RemoveTransaction(t) /\ UNCHANGED <<best, undo, vtxundo, verify>>
      /\ job' = IF Meaning(Viewed(t)) /= Meaning(created) THEN Unclean
                ELSE IF t \in CoinBase THEN BeforeTransaction(job.i)
                ELSE At("restore", b, job.i, Len(vin[t]))
  BY DEF RemoveOutputs
<1> HIDE DEF t
<1>9. /\ Meaning(Viewed(t)) = Meaning(created)
      /\ Replay([ViewMap EXCEPT ![t] = Meaning(Cleared)],
                MadeTo(b, job.i), GoneTo(b, job.i, Len(vin[t])))
  BY <1>RemoveReplay, <1>1, <1>2, <1>3, <1>7 DEF MadeAt, GoneAt, TxPoint, InPoint
<1>10. /\ IInv' /\ Wrote(t, Cleared) /\ VanishesSafely(t) /\ (FreshView => FreshView')
  BY <1>2, <1>3, <1>8, RemoveStep
<1>11. Next
  BY <1>3, <1>8, <1>10 DEF Next, ChangeView
<1>12. /\ job'.step \in DisconnectSteps /\ job'.block = b
       /\ MadeAt(job') = MadeTo(b, job.i) /\ GoneAt(job') = GoneTo(b, job.i, Len(vin[t]))
  <2>1. CASE t \in CoinBase
    <3>1. job' = BeforeTransaction(job.i)
      BY <1>8, <1>9, <2>1
    <3> QED BY <1>2, <1>3, <2>1, <3>1, BeforePoint, BlockFacts
  <2>2. CASE t \notin CoinBase
    BY <2>2, <1>8, <1>9 DEF At, DisconnectSteps, MadeAt, GoneAt, TxPoint, InPoint
  <2> QED BY <2>1, <2>2
<1>13. ViewMap' = [ViewMap EXCEPT ![t] = Meaning(Cleared)] /\ TipMap' = TipMap /\ DbMap' = DbMap
  BY <1>10 DEF Wrote
<1>14. Replay(ViewMap', MadeAt(job'), GoneAt(job'))
  BY <1>9, <1>12, <1>13
<1> QED BY <1>1, <1>2, <1>8, <1>10, <1>11, <1>12, <1>13, <1>14, UndoGoesOn

(* An output is restored.                                                  *)
LEMMA RestoreReplays ==
  IInv /\ BlockInv /\ ReplayInv /\ RestoreInput => IInv' /\ ReplayInv' /\ Next
(* ... and with one restored. *)
<1>RestoredIs. ASSUME NEW coins \in SomeCoins, NEW n
               PROVE  Restored(coins, n, 0) = [vout |-> coins.vout \cup {n}, nHeight |-> coins.nHeight]
  BY <1>RestoredIs DEF Restored, SomeCoins, NewCoins, Cleared
(* ApplyTxInUndo finds undo data that fits and restores the output. *)
<1>RestoreReplay. ASSUME IInv, NEW b \in Blocks, NEW i \in 1..Len(vtx[b]),
                         NEW j \in 1..InputCount(b, i),
                         Replay(ViewMap, MadeTo(b, i), GoneTo(b, i, j)), TxGood(b, i),
                         NEW t \in Tx, NEW n, InputAt(b, i, j) = <<t, n>>,
                         NEW h, UndoGood(b, i, j, h)
                  PROVE  /\ CleanUndo(Viewed(t), n, h)
                         /\ Replay([ViewMap EXCEPT ![t] = Meaning(Restored(Viewed(t), n, h))],
                                   MadeTo(b, i), GoneTo(b, i, j - 1))
  <2> USE <1>RestoreReplay
  <2> DEFINE M == MadeTo(b, i)
             G == GoneTo(b, i, j)
             G2 == GoneTo(b, i, j - 1)
  <2>0. i \in 1..(Len(vtx[b]) + 1) /\ i \in Nat /\ j \in Nat \ {0}
    BY BlockFacts
  <2>1. G = With(G2, t, n)
    <3>1. GoneTo(b, i, j) = GoneTo(b, i, j - 1) \cup {InputAt(b, i, j)}
      BY ZenonT(30), <2>0, GoneStep
    <3> QED BY <3>1 DEF With
  <2>2. Placed(M)
    BY <2>0, PointPlaced
  <2>3. /\ \A p, q \in M : TxAt(p) = TxAt(q) => p = q
        /\ \E p \in M : TxAt(p) = t
        /\ n \in vout[t] /\ <<t, n>> \notin G2
    BY DEF TxGood, Sound, InputGood
  <2>4. \A p \in M : TxAt(p) = t => h = IF Left(G, t) = {} THEN Height[p[1]] ELSE 0
    BY DEF UndoGood
  <2>5. Replay(ViewMap, M, G)
    OBVIOUS
  <2> HIDE DEF M, G, G2
  <2>6. Left(G, t) = Left(G2, t) \ {n} /\ \A u \in Tx : u /= t => Left(G, u) = Left(G2, u)
    BY <2>1, LeftSpent
  <2>7. n \in Left(G2, t)
    BY <2>3 DEF Left
  <2>8. PICK p \in M : TxAt(p) = t
    BY <2>3
  <2>9. /\ Viewed(t).vout = Left(G, t)
        /\ Left(G, t) /= {} => Viewed(t) = LeftCoins(G, t, Height[p[1]])
    BY <2>2, <2>5, <2>8, ViewReplay
  <2>10. Height[p[1]] \in Heights /\ Height[p[1]] \in Nat \ {0}
    BY ZenonT(30), <2>2, <2>8, CoinsAssumption DEF Placed
  <2>11. h = IF Left(G, t) = {} THEN Height[p[1]] ELSE 0
    BY <2>4, <2>8
  <2>13. Restored(Viewed(t), n, h) = LeftCoins(G2, t, Height[p[1]])
    <3>1. CASE Left(G, t) = {}
      <4>1. Left(G2, t) = {n}
        BY <2>6, <2>7, <3>1
      <4> QED BY <2>10, <2>11, <3>1, <4>1 DEF Restored, LeftCoins
    <3>2. CASE Left(G, t) /= {}
      <4>1. Left(G, t) \cup {n} = Left(G2, t)
        BY <2>6, <2>7
      <4>2. Viewed(t).vout = Left(G, t) /\ Viewed(t).nHeight = Height[p[1]]
        BY <2>9, <3>2 DEF LeftCoins
      <4>3. Restored(Viewed(t), n, 0) = [vout |-> Viewed(t).vout \cup {n},
                                         nHeight |-> Viewed(t).nHeight]
        BY ViewedOK, <1>RestoredIs
      <4>4. h = 0
        BY <2>11, <3>2
      <4> QED BY ZenonT(30), <4>1, <4>2, <4>3, <4>4 DEF LeftCoins
    <3> QED BY <3>1, <3>2
  <2>14. Replay([ViewMap EXCEPT ![t] = Meaning(Restored(Viewed(t), n, h))], M, G2)
    <3>1. \A q \in M : TxAt(q) = t =>
            Meaning(Restored(Viewed(t), n, h)) = Meaning(LeftCoins(G2, t, Height[q[1]]))
      BY <2>3, <2>8, <2>13
    <3>2. (\A q \in M : TxAt(q) /= t) => Meaning(Restored(Viewed(t), n, h)) = NoCoins
      BY <2>8
    <3>3. DOMAIN ViewMap = Tx /\ \A q \in M : TxAt(q) \in Tx
      BY <2>2 DEF ViewMap, Placed
    <3>4. \A u \in Tx : u /= t => Left(G2, u) = Left(G, u)
      BY <2>6
    <3> QED BY ZenonT(30), <2>5, <3>1, <3>2, <3>3, <3>4, ReplayWrite
  <2> QED BY <2>6, <2>9, <2>10, <2>11, <2>14 DEF M, G2, CleanUndo, IsPruned
<1> SUFFICES ASSUME IInv, BlockInv, ReplayInv, RestoreInput
             PROVE  IInv' /\ ReplayInv' /\ Next
  OBVIOUS
<1> DEFINE b == job.block
           t == Input[1]
           n == Input[2]
           h == vtxundo[<<job.i, job.j>>]
<1>1. job.step = "restore" /\ job.step \in DisconnectSteps
  BY ZenonT(30) DEF RestoreInput, Doing, DisconnectSteps
<1>2. /\ b \in Blocks /\ BlockGood(b) /\ FreshView /\ Replay(ViewMap, MadeAt(job), GoneAt(job))
      /\ UndoRight(vtxundo, b, Places(b)) /\ job /= NoJob
  BY <1>1, Undoing
<1>3. /\ job.i \in 1..Len(vtx[b]) /\ job.j \in 1..InputCount(b, job.i)
      /\ Transaction = vtx[b][job.i] /\ Transaction \in Tx /\ Input = InputAt(b, job.i, job.j)
      /\ t \in Tx /\ n \in Outputs /\ Input = <<t, n>> /\ job = At("restore", b, job.i, job.j)
  BY <1>1, <1>2, JobFacts
<1>4. /\ Len(vtx[b]) \in Nat /\ Len(vin[Transaction]) \in Nat /\ job.j \in Nat \ {0}
  BY <1>2, <1>3, BlockFacts
<1>6. Replay(ViewMap, MadeTo(b, job.i), GoneTo(b, job.i, job.j)) /\ TxGood(b, job.i)
  BY <1>1, <1>2, <1>3 DEF MadeAt, GoneAt, BlockGood, TxPoint, InPoint
<1>7. h \in Heights \cup {0} /\ UndoGood(b, job.i, job.j, h)
  BY <1>1, <1>2, <1>3, PlaceFacts DEF BlockInv, VtxundoType, UndoRight, Restorable
<1>8. InputAt(b, job.i, job.j) = <<t, n>>
  BY <1>3
<1>9. /\ UNCHANGED <<best, undo, vtxundo, verify>>
      /\ CleanUndo(Viewed(t), n, h) =>
           /\ RestoreOutput(t, n, h)
           /\ job' = IF job.j = 1 THEN BeforeTransaction(job.i) ELSE [job EXCEPT !.j = @ - 1]
  BY ZenonT(30) DEF RestoreInput
<1> HIDE DEF t, n, h
<1>10. /\ CleanUndo(Viewed(t), n, h)
       /\ Replay([ViewMap EXCEPT ![t] = Meaning(Restored(Viewed(t), n, h))],
                 MadeTo(b, job.i), GoneTo(b, job.i, job.j - 1))
  BY ZenonT(30), <1>2, <1>3, <1>6, <1>7, <1>8, <1>RestoreReplay
<1>11. /\ IInv' /\ Wrote(t, Restored(Viewed(t), n, h)) /\ VanishesSafely(t) /\ (FreshView => FreshView')
  BY <1>2, <1>3, <1>7, <1>9, <1>10, RestoreStep
<1>12. Next
  BY <1>3, <1>7, <1>9, <1>10, <1>11 DEF Next, ChangeView
<1>13. /\ job'.step \in DisconnectSteps /\ job'.block = b
       /\ MadeAt(job') = MadeTo(b, job.i) /\ GoneAt(job') = GoneTo(b, job.i, job.j - 1)
  <2>1. CASE job.j = 1
    BY <2>1, <1>2, <1>3, <1>9, <1>10, BeforePoint
  <2>2. CASE job.j /= 1
    BY <2>2, <1>3, <1>9, <1>10 DEF At, DisconnectSteps, MadeAt, GoneAt, TxPoint, InPoint
  <2> QED BY <2>1, <2>2
<1>14. ViewMap' = [ViewMap EXCEPT ![t] = Meaning(Restored(Viewed(t), n, h))]
       /\ TipMap' = TipMap /\ DbMap' = DbMap
  BY <1>11 DEF Wrote
<1>15. Replay(ViewMap', MadeAt(job'), GoneAt(job'))
  BY <1>10, <1>13, <1>14
<1> QED BY <1>1, <1>2, <1>9, <1>11, <1>12, <1>13, <1>14, <1>15, UndoGoesOn
-----------------------------------------------------------------------------
(* A call begins at an end of a block.                                     *)
LEMMA BeginsReplay ==
  ASSUME BlockInv, ReplayInv, NEW b \in Blocks, UNCHANGED undo,
         best'["db"] = best["db"], best'["tip"] = best["tip"],
         TipMap' = TipMap, DbMap' = DbMap,
         \/ /\ vtxundo' = NoPlaces /\ job' = Connecting(b) /\ HasUndo(Prev[b])
            /\ Replay(ViewMap', Positions(Prev[b]), Gone(Prev[b])) /\ verify' \in {"no", "up"}
         \/ /\ vtxundo' = undo[b] /\ job' = Disconnecting(b) /\ HasUndo(b)
            /\ Replay(ViewMap', Positions(b), Gone(b))
            /\ verify' = "down" \/ (verify' = "no" /\ b = best["tip"]),
         verify' /= "up" => FreshView'
  PROVE  ReplayInv'
<1>1. UndoOK'
  BY DEF ReplayInv, UndoOK, HasUndo
<1>2. CASE /\ vtxundo' = NoPlaces /\ job' = Connecting(b) /\ HasUndo(Prev[b])
           /\ Replay(ViewMap', Positions(Prev[b]), Gone(Prev[b])) /\ verify' \in {"no", "up"}
  <2>2. Sound(Positions(Prev[b]), Gone(Prev[b]))
    BY <1>2, BlockFacts DEF ReplayInv, UndoOK, ChainGood
  <2> QED BY <1>1, <1>2, <2>2, ConnectingPoint DEF ReplayInv, Where, ConnectSteps, DisconnectSteps,
       CallOK, UndoRight
<1>3. CASE /\ vtxundo' = undo[b] /\ job' = Disconnecting(b) /\ HasUndo(b)
           /\ Replay(ViewMap', Positions(b), Gone(b))
           /\ verify' = "down" \/ (verify' = "no" /\ b = best["tip"])
  <2>2. undo[b] \in [Places(b) -> Restorable] /\ UndoRight(undo[b], b, Places(b))
    BY <1>3, ChainHasUndo, BlockFacts, ChainFacts
  <2> QED BY <1>1, <1>3, <2>2, DisconnectingPoint DEF ReplayInv, CallOK, ConnectSteps,
       DisconnectSteps, Where
<1> QED BY <1>2, <1>3

(* A call has ended, or there is none.                                     *)
LEMMA EndsReplay ==
  ASSUME UndoOK', job' = NoJob, verify' = "no", FreshView',
         Replay(DbMap', Positions(best'["db"]), Gone(best'["db"])),
         Replay(TipMap', Positions(best'["tip"]), Gone(best'["tip"]))
  PROVE  ReplayInv'
BY DEF NoJob, CallOK, ConnectSteps, DisconnectSteps, Where, ReplayInv

(* ConnectTip and DisconnectTip open a view of the tip.                    *)
LEMMA TipReplays ==
  ASSUME IInv, BlockInv, ReplayInv,
         (\E b \in Block : ConnectTip(b)) \/ DisconnectTip \/ VerifyDB
  PROVE  IInv' /\ ReplayInv' /\ Next
<1>1. OpenView /\ job = NoJob
  BY DEF ConnectTip, DisconnectTip, VerifyDB
<1>2. verify = "no" /\ FreshView
  BY <1>1 DEF BlockInv, OnTip, ReplayInv
<1>3. IInv' /\ FreshView' /\ ViewMap' = TipMap /\ TipMap' = TipMap /\ DbMap' = DbMap
  BY <1>1, <1>2, OpenStep
<1>5. /\ best["tip"] \in Block /\ HasUndo(best["tip"]) /\ DOMAIN best = {"db", "tip", "view"}
      /\ undo[Genesis] = NoUndo
  BY DEF BlockInv, OnTip
<1>6. Replay(ViewMap', Positions(best["tip"]), Gone(best["tip"]))
  BY <1>3 DEF ReplayInv
<1>7. ASSUME NEW b \in Block, ConnectTip(b)
      PROVE  ReplayInv'
  BY <1>7, <1>2, <1>3, <1>5, <1>6, BlockAssumption, BeginsReplay DEF ConnectTip, Blocks
<1>8. ASSUME DisconnectTip \/ VerifyDB
      PROVE  ReplayInv'
  <2> DEFINE b == best["tip"]
  <2> QED BY <1>2, <1>3, <1>5, <1>6, <1>8, BeginsReplay DEF DisconnectTip, VerifyDB, Blocks
<1> QED BY <1>1, <1>3, <1>7, <1>8 DEF Next

(* The chain of a block that ConnectBlock has accepted.                    *)
LEMMA ChainGrows ==
  ASSUME NEW b \in Blocks, ChainGood(Prev[b]), BlockGood(b), Sound(Positions(b), Gone(b))
  PROVE  ChainGood(b)
<1>1. /\ Prev[b] \in Block /\ Chain[b] = Chain[Prev[b]] \cup {b}
      /\ Height[b] = Height[Prev[b]] + 1 /\ Height[Prev[b]] \in Nat
      /\ Len(vtx[b]) \in Nat \ {0} /\ b \in Block
  BY ChainStep, BlockFacts
<1>2. /\ \A c \in Chain[Prev[b]] : Height[c] <= Height[Prev[b]] /\ Chain[c] \subseteq Chain[Prev[b]]
      /\ Ordered(Prev[b])
  BY DEF ChainGood
<1>3. \A c \in Chain[b] : Height[c] <= Height[b] /\ Chain[c] \subseteq Chain[b]
  <2>1. ASSUME NEW c \in Chain[Prev[b]] PROVE Height[c] <= Height[b] /\ Chain[c] \subseteq Chain[b]
    <3>2. Height[c] \in Nat
      <4>1. Height[c] \in Heights \cup {0}
        BY <1>1, BlockAssumption, ChainFacts
      <4>2. \A h \in Heights \cup {0} : h \in Nat
        BY CoinsAssumption
      <4> QED BY <4>1, <4>2, ZenonT(30)
    <3> QED BY <1>1, <1>2, <3>2
  <2> QED BY <1>1, <2>1
<1>4. ASSUME NEW p \in Positions(b), NEW g \in InputsOf(TxAt(p))
      PROVE  \E q \in Positions(b) : TxAt(q) = g[1] /\ Before(q, p)
  <2> DEFINE last == Len(vtx[b]) + 1
  <2>0. last \in 1..(Len(vtx[b]) + 1) /\ last - 1 = Len(vtx[b])
    BY <1>1
  <2>3. CASE p \in Positions(Prev[b])
    BY <1>2, <2>0, <2>3, MadeFacts DEF Ordered
  <2>4. CASE p[1] = b /\ p[2] \in 1..Len(vtx[b])
    <3> DEFINE i == p[2]
    <3>1. TxAt(p) = vtx[b][i] /\ vtx[b][i] \in Tx /\ i \in 1..Len(vtx[b]) /\ i \in 1..(Len(vtx[b]) + 1)
      BY <1>1, <2>4, BlockFacts DEF TxAt
    <3> HIDE DEF i
    <3>2. PICK j \in 1..InputCount(b, i) : g = InputAt(b, i, j)
      BY <3>1, InputFacts DEF InputAt, InputCount
    <3>4. PICK q \in MadeTo(b, i) : TxAt(q) = g[1]
      BY <3>1, <3>2 DEF InputGood, BlockGood, TxGood
    <3>7. Before(q, p)
      <4>1. CASE q \in Positions(Prev[b])
        <5>1. q[1] \in Chain[Prev[b]] /\ Height[q[1]] \in Heights
          BY <1>1, <4>1, PositionFacts
        <5>2. Height[q[1]] <= Height[Prev[b]] /\ Height[q[1]] \in Nat
          BY ZenonT(30), <1>2, <5>1, CoinsAssumption
        <5> QED BY <1>1, <2>4, <5>2 DEF Before
      <4>2. CASE q[1] = b /\ q[2] \in 1..(i - 1)
        BY <4>2, <1>1, <2>4, <3>1 DEF Before, i
      <4> QED BY <3>1, <3>4, <4>1, <4>2, MadeFacts
    <3> QED BY <3>1, <3>4, <3>7, MadeFacts
  <2> QED BY <2>0, <2>3, <2>4, MadeFacts, MadeLast
<1> QED BY <1>3, <1>4 DEF ChainGood, Ordered

(* ConnectBlock has come to the end of a block.                            *)
LEMMA AtEnd ==
  ASSUME BlockInv, ReplayInv, Doing("connected")
  PROVE  /\ job.block \in Blocks /\ job.step \in ConnectSteps
         /\ Replay(ViewMap, Positions(job.block), Gone(job.block))
         /\ BlockGood(job.block) /\ ChainGood(job.block)
         /\ vtxundo \in [Places(job.block) -> Restorable]
         /\ UndoRight(vtxundo, job.block, Places(job.block))
<1> DEFINE b == job.block
<1>1. job.step = "connected" /\ job.step \in ConnectSteps
  BY DEF Doing, ConnectSteps
<1>2. b \in Blocks /\ ChainGood(Prev[b]) /\ Len(vtx[b]) \in Nat \ {0}
  BY <1>1, PrevGood, BlockFacts
<1>3. TxPoint(job) = Len(vtx[b]) + 1 /\ InPoint(job) = 0
  BY <1>1 DEF TxPoint, InPoint
<1>4. MadeAt(job) = Positions(b) /\ GoneAt(job) = Gone(b)
  BY <1>2, <1>3, MadeLast, GoneLast DEF MadeAt, GoneAt
<1>5. SpentPlaces(job) = Places(b)
  BY <1>1 DEF SpentPlaces
<1> QED BY <1>1, <1>2, <1>3, <1>4, <1>5, ChainGrows DEF Passed, BlockGood, BlockInv, VtxundoType,
     ReplayInv, CallOK

(* A block is connected.                                                   *)
LEMMA ConnectedReplays ==
  ASSUME IInv, BlockInv, ReplayInv, Connected
  PROVE  IInv' /\ ReplayInv' /\ Next
<1> DEFINE b == job.block
           has(c) == c = Genesis \/ undo'[c] /= NoUndo
<1>1. Doing("connected") /\ verify = "no" /\ FlushView
  BY DEF Connected
<1>2. /\ b \in Blocks /\ job.step \in ConnectSteps /\ Replay(ViewMap, Positions(b), Gone(b))
      /\ BlockGood(b) /\ ChainGood(b) /\ vtxundo \in [Places(b) -> Restorable]
      /\ UndoRight(vtxundo, b, Places(b))
  BY <1>1, AtEnd
<1>6. /\ job' = NoJob /\ verify' = "no" /\ DOMAIN best = {"db", "tip", "view"}
      /\ best'["db"] = best["db"] /\ best'["tip"] = b
  BY DEF Connected, BlockInv, OnTip
<1>7. /\ undo' = IF undo[b] = NoUndo THEN [undo EXCEPT ![b] = vtxundo] ELSE undo
      /\ undo \in [Block -> AnyUndo] /\ b \in Block
  BY <1>2 DEF Connected, BlockInv, Blocks
<1>9. /\ undo'[b] /= NoUndo
      /\ \A c \in Block : undo'[c] = undo[c] \/ (c = b /\ undo'[c] = vtxundo)
      /\ \A c \in Block : undo[c] /= NoUndo => undo'[c] /= NoUndo
  <2>1. CASE undo[b] = NoUndo
    BY <1>2, <1>7, <2>1, BlockAssumption DEF Restorable
  <2>2. CASE undo[b] /= NoUndo
    BY <1>7, <2>2
  <2> QED BY <2>1, <2>2
<1>10. \A c \in Block : (HasUndo(c) => has(c)) /\ (has(c) => HasUndo(c) \/ c = b)
  BY <1>9 DEF HasUndo
<1> HIDE DEF has
<1>12. ASSUME NEW c \in Block, has(c)
       PROVE  ChainGood(c) /\ \A d \in Chain[c] : has(d)
  <2>1. CASE HasUndo(c)
    <3>1. ChainGood(c) /\ \A d \in Chain[c] : HasUndo(d)
      BY <2>1 DEF ReplayInv, UndoOK
    <3>3. ASSUME NEW d \in Chain[c] PROVE has(d)
      BY <1>10, <3>1, ChainFacts
    <3> QED BY <3>1, <3>3
  <2>2. CASE c = b
    <3>2. HasUndo(Prev[b])
      <4>1. Prev[b] = best["tip"]
        BY <1>1, <1>2, PrevGood
      <4> QED BY <4>1 DEF BlockInv, OnTip
    <3> QED BY <1>2, <1>10, <1>12, <2>2, <3>2, ChainHasUndo, ChainStep
  <2> QED BY <1>10, <1>12, <2>1, <2>2
<1>13. UndoOK'
  BY <1>2, <1>9, <1>12 DEF UndoOK, HasUndo, has, Blocks, ReplayInv
<1> QED BY <1>1, <1>2, <1>6, <1>13, EndsReplay, FlushViewStep DEF ReplayInv, Next

(* DisconnectBlock has come to the beginning of a block.                   *)
LEMMA AtBeginning ==
  ASSUME BlockInv, ReplayInv, Doing("disconnected")
  PROVE  /\ job.block \in Blocks /\ job.step \in DisconnectSteps
         /\ Replay(ViewMap, Positions(Prev[job.block]), Gone(Prev[job.block]))
BY Undoing, MadeFirst, GoneFirst DEF Doing, DisconnectSteps, TxPoint, InPoint, MadeAt, GoneAt

(* A block is disconnected.                                                *)
LEMMA DisconnectedReplays ==
  ASSUME IInv, BlockInv, ReplayInv, Disconnected
  PROVE  IInv' /\ ReplayInv' /\ Next
<1> DEFINE b == job.block
<1>1. Doing("disconnected") /\ verify = "no" /\ FlushView
  BY DEF Disconnected
<1>6. /\ job' = NoJob /\ verify' = "no" /\ UNCHANGED undo /\ DOMAIN best = {"db", "tip", "view"}
      /\ best'["db"] = best["db"] /\ best'["tip"] = Prev[b]
  BY DEF Disconnected, BlockInv, OnTip
<1>7. UndoOK'
  BY <1>6 DEF ReplayInv, UndoOK, HasUndo
<1> QED BY <1>1, <1>6, <1>7, EndsReplay, AtBeginning, FlushViewStep DEF ReplayInv, Next

(* The view is destroyed.                                                  *)
LEMMA DiscardReplays ==
  ASSUME IInv, BlockInv, ReplayInv, DiscardView, UNCHANGED undo, job' = NoJob, verify' = "no",
         best'["db"] = best["db"], best'["tip"] = best["tip"]
  PROVE  IInv' /\ ReplayInv' /\ Next
BY DiscardStep, EndsReplay DEF Next, ReplayInv, UndoOK, HasUndo

(* VerifyDB goes on to the block below, or turns round.                    *)
LEMMA TurnReplays ==
  ASSUME IInv, BlockInv, ReplayInv, VerifyDisconnected
  PROVE  IInv' /\ ReplayInv' /\ UNCHANGED vars
<1> DEFINE b == job.block
           c == Prev[job.block]
<1>1. Doing("disconnected") /\ verify = "down" /\ UNCHANGED vars /\ UNCHANGED undo
  BY DEF VerifyDisconnected
<1>2. b \in Blocks /\ job.step \in DisconnectSteps /\ Replay(ViewMap, Positions(c), Gone(c))
  BY <1>1, AtBeginning
<1>3. HasUndo(c) /\ FreshView /\ job /= NoJob
  BY <1>2, Undoing
<1>4. best["tip"] \in Block /\ b \in Chain[best["tip"]] /\ DOMAIN best = {"db", "tip", "view"}
  BY <1>1, <1>3 DEF BlockInv, OnTip
<1>5. /\ best'["db"] = best["db"] /\ best'["tip"] = best["tip"]
  BY <1>4 DEF VerifyDisconnected
<1>6. IInv' /\ FreshView' /\ ViewMap' = ViewMap /\ TipMap' = TipMap /\ DbMap' = DbMap
  BY <1>1, <1>3, StepOK DEF vars, TipCoins, ViewCoins, ViewMap, TipMap, DbMap, FreshView
<1>7. CASE c /= Genesis /\ vtxundo' = undo[c] /\ job' = Disconnecting(c) /\ UNCHANGED verify
  BY <1>7, <1>1, <1>2, <1>3, <1>5, <1>6, BlockFacts, BeginsReplay DEF Blocks
<1>8. CASE vtxundo' = NoPlaces /\ job' = Connecting(Reconnected(c)) /\ verify' = "up"
  <2>1. Reconnected(c) \in Blocks /\ Prev[Reconnected(c)] = c
    BY <1>2, <1>4, BlockFacts, ReconnectedOK
  <2> QED BY <1>1, <1>2, <1>3, <1>5, <1>6, <1>8, <2>1, BeginsReplay
<1> QED BY <1>1, <1>6, <1>7, <1>8 DEF VerifyDisconnected

(* VerifyDB has connected a block again.                                   *)
LEMMA AgainReplays ==
  ASSUME IInv, BlockInv, ReplayInv, VerifyConnected
  PROVE  IInv' /\ ReplayInv' /\ [Next]_vars
<1> DEFINE b == job.block
<1>1. Doing("connected") /\ verify = "up" /\ UNCHANGED undo
  BY DEF VerifyConnected
<1>2. b \in Blocks /\ job.step \in ConnectSteps /\ Replay(ViewMap, Positions(b), Gone(b))
  BY <1>1, AtEnd
<1>3. /\ b \in Chain[best["tip"]] /\ best["tip"] \in Block /\ HasUndo(best["tip"])
      /\ DOMAIN best = {"db", "tip", "view"}
  BY <1>1, <1>2, PrevGood DEF BlockInv, OnTip
<1>4. /\ best'["db"] = best["db"] /\ best'["tip"] = best["tip"]
  BY <1>3 DEF VerifyConnected
<1>5. CASE b = best["tip"]
  BY <1>5, <1>1, <1>4, DiscardReplays DEF VerifyConnected
<1>6. CASE b /= best["tip"]
  <2>1. /\ job' = Connecting(Reconnected(b)) /\ UNCHANGED vars /\ verify' = "up"
        /\ vtxundo' = NoPlaces
    BY <1>1, <1>6 DEF VerifyConnected
  <2>2. Reconnected(b) \in Blocks /\ Prev[Reconnected(b)] = b
    BY <1>2, <1>3, <1>6, BlockFacts, ChainFacts, ReconnectedOK
  <2>3. HasUndo(b)
    BY <1>3, ChainHasUndo
  <2>5. ViewMap' = ViewMap /\ TipMap' = TipMap /\ DbMap' = DbMap
    BY <2>1 DEF vars, ViewMap, TipMap, DbMap, TipCoins, ViewCoins
  <2>7. ReplayInv'
    BY <1>1, <1>2, <1>4, <2>1, <2>2, <2>3, <2>5, BeginsReplay
  <2> QED BY <2>1, <2>7, StepOK
<1> QED BY <1>5, <1>6

(* A call is given up.                                                     *)
LEMMA RefusedReplays ==
  ASSUME IInv, BlockInv, ReplayInv, Refused
  PROVE  IInv' /\ ReplayInv' /\ Next
BY DiscardReplays DEF Refused

(* Coins are read or dropped from pcoinsTip.                               *)
LEMMA ReadReplays ==
  ASSUME IInv, BlockInv, ReplayInv, NEW t \in Tx, ReadCoins(t)
  PROVE  IInv' /\ ReplayInv' /\ Next
BY ReadStep DEF ReadCoins, blockVars, Next, ReplayInv, UndoOK, Where, HasUndo

(* pcoinsTip is written to the database.                                   *)
LEMMA FlushReplays ==
  ASSUME IInv, BlockInv, ReplayInv, FlushCoins
  PROVE  IInv' /\ ReplayInv' /\ Next
<1>1. FlushTip /\ UNCHANGED <<undo, vtxundo, job, verify>>
  BY DEF FlushCoins
<1>2. IInv' /\ FreshView' /\ DbMap' = TipMap /\ TipMap' = TipMap
  BY <1>1, FlushTipStep
<1>3. ViewMap' = ViewMap
  BY <1>1, <1>2, Facts, EmptyOK DEF FlushTip, ViewCoins, ViewMap, TipMap
<1>4. /\ DOMAIN best = {"db", "tip", "view"}
      /\ best'["db"] = best["tip"] /\ best'["tip"] = best["tip"]
  BY DEF FlushCoins, BlockInv, OnTip
<1> QED BY <1>1, <1>2, <1>3, <1>4 DEF ReplayInv, UndoOK, Where, HasUndo, Next

(* The process ends and starts again from the database.                    *)
LEMMA RestartReplays ==
  ASSUME IInv, BlockInv, ReplayInv, Restart
  PROVE  IInv' /\ ReplayInv' /\ Next
BY CrashStep, EndsReplay DEF Restart, BlockInv, OnTip, Next, ReplayInv, UndoOK, HasUndo

(* Every step keeps the replay, and is a step of the caches.               *)
LEMMA ReplayStep ==
  IInv /\ BlockInv /\ ReplayInv /\ [BlockNext]_allVars
    => IInv' /\ BlockInv' /\ ReplayInv' /\ [Next]_vars
<1> SUFFICES ASSUME IInv, BlockInv, ReplayInv, [BlockNext]_allVars
             PROVE  IInv' /\ BlockInv' /\ ReplayInv' /\ [Next]_vars
  OBVIOUS
<1>1. CASE UNCHANGED allVars
  <2>1. UNCHANGED vars /\ UNCHANGED blockVars
    BY <1>1 DEF allVars
  <2>4. \A t \in Tx : TipCoins(t)' = TipCoins(t) /\ ViewCoins(t)' = ViewCoins(t)
    BY <2>1 DEF vars, TipCoins, ViewCoins
  <2>8. ReplayInv'
    BY <2>1, <2>4 DEF ReplayInv, UndoOK, Where, HasUndo, blockVars, vars, ViewMap, TipMap, DbMap,
       FreshView
  <2> QED BY <2>1, <2>8, BlockStepKeeps, StepOK
<1>2. CASE BlockNext
  <2>1. BlockInv'
    BY <1>2, BlockStepKeeps
  <2>2. CASE (\E b \in Block : ConnectTip(b)) \/ DisconnectTip \/ VerifyDB
    BY <2>1, <2>2, TipReplays
  <2>3. CASE CheckKernel \/ CheckBIP30 \/ CheckInput
    BY <2>1, <2>3, KernelReplays, BIP30Replays, InputReplays
  <2>4. CASE SpendInput \/ CreateOutputs
    BY <2>1, <2>4, SpendReplays, CreateReplays
  <2>5. CASE Connected \/ Refused
    BY <2>1, <2>5, ConnectedReplays, RefusedReplays
  <2>6. CASE RemoveOutputs \/ RestoreInput \/ Disconnected
    BY <2>1, <2>6, RemoveReplays, RestoreReplays, DisconnectedReplays
  <2>7. CASE VerifyDisconnected \/ VerifyConnected
    BY <2>1, <2>7, TurnReplays, AgainReplays
  <2>8. ASSUME NEW t \in Tx, ReadCoins(t) PROVE IInv' /\ ReplayInv' /\ Next
    BY <2>8, ReadReplays
  <2>9. CASE FlushCoins \/ Restart
    BY <2>1, <2>9, FlushReplays, RestartReplays
  <2> QED
    BY <1>2, <2>1, <2>2, <2>3, <2>4, <2>5, <2>6, <2>7, <2>8, <2>9 DEF BlockNext
<1> QED BY <1>1, <1>2

(* Before the first block there are no coins.                              *)
LEMMA ReplayInit == BlockInit => ReplayInv
<1> SUFFICES ASSUME BlockInit PROVE ReplayInv
  OBVIOUS
<1>1. Chain[Genesis] = {Genesis} /\ Genesis \in Block
  BY BlockAssumption
<1>2. Positions(Genesis) = {}
  BY <1>1 DEF Positions
<1>4. /\ best["db"] = Genesis /\ best["tip"] = Genesis /\ job.step = "none" /\ verify = "no"
      /\ \A b \in Block : undo[b] = NoUndo
  BY DEF BlockInit, NoJob
<1>5. /\ db = [t \in Tx |-> NoCoins] /\ cacheTip = EmptyCache /\ cacheView = EmptyCache
  BY DEF BlockInit, Init
<1>6. \A t \in Tx : db[t] = NoCoins /\ TipCoins(t) = NoCoins
  BY ZenonT(30), <1>5, EmptyOK DEF TipCoins
<1>7. \A t \in Tx : DbMap[t] = NoCoins /\ TipMap[t] = NoCoins
  BY ZenonT(30), <1>6 DEF DbMap, TipMap, Meaning
<1>8. /\ Replay(DbMap, Positions(Genesis), Gone(Genesis))
      /\ Replay(TipMap, Positions(Genesis), Gone(Genesis))
  BY <1>2, <1>7 DEF Replay
<1>9. ChainGood(Genesis)
  <2>1. Height[Genesis] <= Height[Genesis]
    <3>1. \A h \in Heights \cup {0} : h \in Nat
      BY CoinsAssumption
    <3>2. Height[Genesis] \in Heights \cup {0}
      BY BlockAssumption
    <3>3. Height[Genesis] \in Nat
      BY <3>1, <3>2, ZenonT(30)
    <3> QED BY <3>3
  <2> QED BY <1>1, <1>2, <2>1 DEF ChainGood, Sound, Ordered, Gone
<1>10. UndoOK
  BY <1>1, <1>4, <1>9 DEF HasUndo, UndoOK, Blocks
<1> QED BY <1>4, <1>5, <1>8, <1>10, EmptyOK DEF ReplayInv, Where, CallOK, ConnectSteps,
     DisconnectSteps, FreshView

(* So the coins in the caches and in the database are those of CoinsAt.    *)
LEMMA ReplayImplied == BlockInv /\ ReplayInv => CoinsAreReplay
(* The coins that a replay leaves are those of CoinsAt: in a chain that *)
(* was connected a transaction comes once, and what spends it comes later. *)
<1>ReplayIsCoinsAt. ASSUME NEW b \in Block, ChainGood(b), NEW f, Replay(f, Positions(b), Gone(b)),
                           NEW t \in Tx
                    PROVE  f[t] = CoinsAt(b, t)
  <2> USE <1>ReplayIsCoinsAt
  <2> DEFINE made == {p \in Positions(b) : TxAt(p) = t}
             last == CHOOSE p \in made : \A q \in made : p = q \/ Before(q, p)
             spent == {n \in vout[t] : \E p \in Positions(b) :
                         Before(last, p) /\ \E j \in 1..Len(vin[TxAt(p)]) : vin[TxAt(p)][j] = <<t, n>>}
  <2>1. CoinsAt(b, t) = IF made = {} THEN NoCoins
                        ELSE Meaning([vout |-> vout[t] \ spent, nHeight |-> Height[last[1]]])
    BY DEF CoinsAt
  <2>2. CASE made = {}
    BY <2>2, <2>1 DEF Replay
  <2>3. CASE made /= {}
    <3>1. PICK p \in Positions(b) : TxAt(p) = t
      BY <2>3
    <3>3. last = p
      BY <3>1 DEF ChainGood, Sound
    <3>4. ASSUME NEW n \in vout[t] PROVE n \in spent <=> <<t, n>> \in Gone(b)
      <4>1. \A q \in Positions(b) : TxAt(q) \in Tx
        BY PositionFacts
      <4>2. ASSUME n \in spent PROVE <<t, n>> \in Gone(b)
        <5>1. PICK q \in Positions(b) : \E j \in 1..Len(vin[TxAt(q)]) : vin[TxAt(q)][j] = <<t, n>>
          BY <4>2
        <5> QED BY <5>1 DEF Gone, InputsOf
      <4>3. ASSUME <<t, n>> \in Gone(b) PROVE n \in spent
        <5>1. PICK q \in Positions(b) : <<t, n>> \in InputsOf(TxAt(q))
          BY <4>3 DEF Gone
        <5>2. PICK r \in Positions(b) : TxAt(r) = <<t, n>>[1] /\ Before(r, q)
          BY <5>1 DEF ChainGood, Ordered
        <5>3. r = p
          BY <3>1, <5>2 DEF ChainGood, Sound
        <5>5. Before(last, q)
          BY ZenonT(30), <3>3, <5>2, <5>3
        <5> HIDE DEF last
        <5> QED BY <5>1, <5>5 DEF InputsOf
      <4> QED BY <4>2, <4>3
    <3>5. vout[t] \ spent = Left(Gone(b), t)
      <4> HIDE DEF spent
      <4> QED BY <3>4 DEF Left
    <3> HIDE DEF spent, last, made
    <3> QED BY <2>1, <2>3, <3>1, <3>3, <3>5 DEF LeftCoins, Replay
  <2> QED BY <2>2, <2>3
<1> SUFFICES ASSUME BlockInv, ReplayInv PROVE CoinsAreReplay
  OBVIOUS
<1>1. /\ best["db"] \in Block /\ ChainGood(best["db"])
      /\ best["tip"] \in Block /\ ChainGood(best["tip"])
  BY DEF ReplayInv, UndoOK, BlockInv, OnTip
<1>2. \A t \in Tx : /\ DbMap[t] = CoinsAt(best["db"], t)
                    /\ TipMap[t] = CoinsAt(best["tip"], t)
  BY ZenonT(30), <1>1, <1>ReplayIsCoinsAt DEF ReplayInv
<1> QED BY <1>2 DEF CoinsAreReplay, DbMap, TipMap

(* Undo data fits, whenever it was written.                                *)
LEMMA UndoImplied == BlockInv /\ ReplayInv => UndoFits
(* Undo data that is right for a block that passes ConnectBlock is the *)
(* only such data. *)
<1>UndoUnique. ASSUME NEW b \in Blocks, BlockGood(b), NEW u, NEW v,
                      UndoRight(u, b, Places(b)), UndoRight(v, b, Places(b)),
                      u \in [Places(b) -> Restorable], v \in [Places(b) -> Restorable]
               PROVE  u = v
  <2> USE <1>UndoUnique
  <2>1. ASSUME NEW p \in Places(b) PROVE u[p] = v[p]
    <3>2. InputGood(b, p[1], p[2])
      BY ZenonT(30), PlaceFacts DEF BlockGood, TxGood
    <3>3. PICK q \in MadeTo(b, p[1]) : TxAt(q) = InputAt(b, p[1], p[2])[1]
      BY ZenonT(30), <3>2 DEF InputGood
    <3>4. UndoGood(b, p[1], p[2], u[p]) /\ UndoGood(b, p[1], p[2], v[p])
      BY DEF UndoRight
    <3> QED BY <3>3, <3>4 DEF UndoGood
  <2> QED BY <2>1
<1> SUFFICES ASSUME BlockInv, ReplayInv PROVE UndoFits
  OBVIOUS
<1>2. ASSUME Doing("connected"), undo[job.block] /= NoUndo PROVE undo[job.block] = vtxundo
  BY <1>2, <1>UndoUnique, AtEnd DEF ReplayInv, UndoOK, BlockInv, UndoType, Blocks
<1> QED BY <1>2 DEF UndoFits, ReplayInv, Where, Doing

(* VerifyDB does not give up on its way up and ends at the tip's coins.    *)
LEMMA VerifyImplied == BlockInv /\ ReplayInv => VerifyReconnects
(* There is one replay. *)
<1>ReplayUnique. ASSUME NEW M, NEW G, NEW f, NEW g, Replay(f, M, G), Replay(g, M, G)
                 PROVE  \A t \in Tx : f[t] = g[t]
  BY <1>ReplayUnique, ZenonT(30) DEF Replay
<1> SUFFICES ASSUME BlockInv, ReplayInv, verify = "up"
             PROVE  /\ ~Doing("refused")
                    /\ Doing("connected") /\ job.block = best["tip"] =>
                         \A t \in Tx : Meaning(ViewCoins(t)) = Meaning(TipCoins(t))
  BY DEF VerifyReconnects
<1>2. ASSUME Doing("connected"), job.block = best["tip"], NEW t \in Tx
      PROVE  Meaning(ViewCoins(t)) = Meaning(TipCoins(t))
  <2>1. ViewMap[t] = TipMap[t]
    <3>1. Replay(ViewMap, Positions(best["tip"]), Gone(best["tip"]))
      BY <1>2, AtEnd
    <3>2. Replay(TipMap, Positions(best["tip"]), Gone(best["tip"]))
      BY DEF ReplayInv
    <3> QED BY <3>1, <3>2, <1>ReplayUnique
  <2> QED BY <2>1 DEF ViewMap, TipMap
<1> QED BY <1>2 DEF ReplayInv, Where, Doing, ConnectSteps

(* All of it holds in every state of every behaviour.                      *)
LEMMA ReplayAlways == BlockSpec => [](IInv /\ BlockInv /\ ReplayInv)
BY BlockInitOK, ReplayInit, ReplayStep, PTL DEF BlockSpec
-----------------------------------------------------------------------------
(* ConnectBlock, DisconnectBlock and VerifyDB use the caches as module     *)
(* CoinsCache says, with outputs, heights and transactions that there are. *)
THEOREM BlocksUseCoins == BlockSpec => Spec
BY BlockInitOK, ReplayInit, ReplayStep, PTL DEF BlockSpec, Spec

(* Whatever blocks are connected, refused, disconnected and verified, the  *)
(* caches are plain maps to them: what a block wrote is read by the next.  *)
THEOREM BlocksSeeMaps == BlockSpec => ImplementsMap
BY BlocksUseCoins, CachesImplementMaps, PTL

(* An entry that a block marked FRESH has nothing below it (ModifyNewCoins *)
(* does not look), but in the view in which VerifyDB connects blocks again.*)
THEOREM BlocksKeepFlags == BlockSpec => []FreshIsNew
<1>1. IInv /\ ReplayInv => FreshIsNew
  BY Implied DEF FreshIsNew, ReplayInv
<1> QED BY <1>1, ReplayAlways, PTL

(* The coins of pcoinsTip and of the database are those that the           *)
(* transactions of the best block's chain leave, whatever ConnectBlock and *)
(* DisconnectBlock did and wherever the process ended.                     *)
THEOREM CoinsAreAlwaysReplay == BlockSpec => []CoinsAreReplay
BY ReplayAlways, ReplayImplied, PTL

(* DisconnectBlock never finds a block unclean, and the undo data that     *)
(* ConnectBlock does not write again is that of the present connection.    *)
THEOREM UndoAlwaysFits == BlockSpec => []UndoFits
BY ReplayAlways, UndoImplied, PTL

(* VerifyDB never fails to connect again, but for the reward, and ends     *)
(* with the coins of pcoinsTip.                                            *)
THEOREM VerifyAlwaysReconnects == BlockSpec => []VerifyReconnects
BY ReplayAlways, VerifyImplied, PTL

(* Undo data that ConnectBlock wrote for a block has a height for every    *)
(* input of the block and nothing else, and the best block has undo data,  *)
(* after any restarts: DisconnectTip and VerifyDB find what they read.     *)
THEOREM UndoIsComplete == BlockSpec => [](UndoType(undo) /\ HasUndo(best["tip"]))
<1>1. BlockInv => UndoType(undo) /\ HasUndo(best["tip"])
  BY DEF BlockInv, OnTip
<1> QED BY <1>1, ReplayAlways, PTL

(* In the chain of the best block no transaction comes twice, and every    *)
(* output that is spent was created earlier in the chain: what the check   *)
(* of BIP30 in ConnectBlock and the heights in coinbases are for.          *)
THEOREM ChainIsSound ==
  BlockSpec => [](LET b == best["tip"] IN
                  /\ \A p, q \in Positions(b) : TxAt(p) = TxAt(q) => p = q
                  /\ Ordered(b))
<1>1. BlockInv /\ ReplayInv => ChainGood(best["tip"])
  BY DEF BlockInv, OnTip, ReplayInv, UndoOK
<1>2. ChainGood(best["tip"]) =>
        LET b == best["tip"] IN
        /\ \A p, q \in Positions(b) : TxAt(p) = TxAt(q) => p = q
        /\ Ordered(b)
  BY DEF ChainGood, Sound
<1> QED BY <1>1, <1>2, ReplayAlways, PTL
=============================================================================
