--------------------------- MODULE ConnectProofs ---------------------------
(***************************************************************************)
(* What ConnectBlock makes of the coins, for any blocks and any            *)
(* transactions.                                                           *)
(*                                                                         *)
(* ReplayInv says what the coins are: database, tip and view each hold the *)
(* replay of a set of transactions made and of a set of outputs gone, the  *)
(* view that to the very transaction and input its call has come to.  A    *)
(* block whose checks all pass is good (BlockGood), which speaks of the    *)
(* chain alone, so that the checks pass again when VerifyDB connects the   *)
(* block once more.                                                        *)
(*                                                                         *)
(* The lemmas of this module are about the sets at a point of a block, and *)
(* show for every step of ConnectBlock that it keeps ReplayInv and is a    *)
(* step that CoinsCache allows.                                            *)
(***************************************************************************)
EXTENDS BlockCoinsProofs

(* A leaf is tried with the SMT solver, once more with more time, and with *)
(* Zenon.                                                                  *)
USE SMT, SMTT(20), Zenon
-----------------------------------------------------------------------------
(* The replay as it proceeds.  At a point of a block b, before transaction *)
(* i of which j inputs are spent, the transactions at MadeTo have created  *)
(* their outputs and the outputs in GoneTo are spent.                      *)
InputsOf(t) == {vin[t][j] : j \in 1..Len(vin[t])}
Gone(b) == UNION {InputsOf(TxAt(p)) : p \in Positions(b)}

MadeTo(b, i) == Positions(Prev[b]) \cup {<<b, k>> : k \in 1..(i - 1)}
GoneTo(b, i, j) ==
  (Gone(Prev[b]) \cup (UNION {InputsOf(vtx[b][k]) : k \in 1..(i - 1)}))
     \cup {InputAt(b, i, l) : l \in 1..j}

(* What is left of a transaction, and the coins that all transactions made *)
(* leave.                                                                  *)
Left(G, t) == {n \in vout[t] : <<t, n>> \notin G}
LeftCoins(G, t, h) == [vout |-> Left(G, t), nHeight |-> h]

Replay(f, M, G) ==
  /\ \A t \in Tx : (\A p \in M : TxAt(p) /= t) => f[t] = NoCoins
  /\ \A p \in M : f[TxAt(p)] = Meaning(LeftCoins(G, TxAt(p), Height[p[1]]))

(* No transaction was made twice and none was spent that was not made.     *)
Sound(M, G) ==
  /\ \A p, q \in M : TxAt(p) = TxAt(q) => p = q
  /\ \A g \in G : \E p \in M : TxAt(p) = g[1]

(* What ConnectBlock finds of the inputs of a block that it accepts, ...   *)
InputGood(b, i, j) ==
  LET g == InputAt(b, i, j) IN
  /\ \E p \in MadeTo(b, i) : TxAt(p) = g[1]
  /\ g[2] \in vout[g[1]] /\ g \notin GoneTo(b, i, j - 1)

(* ... of its transactions, ...                                            *)
TxGood(b, i) ==
  /\ \A p \in MadeTo(b, i) : TxAt(p) /= vtx[b][i]
  /\ Sound(MadeTo(b, i), GoneTo(b, i, InputCount(b, i)))
  /\ \A j \in 1..InputCount(b, i) : InputGood(b, i, j)

(* ... and of its stake.                                                   *)
KernelGood(b) ==
  LET t == InputAt(b, 2, 1)[1] IN
  IsProofOfStake(b) =>
    /\ Left(Gone(Prev[b]), t) /= {}
    /\ \E p \in Positions(Prev[b]) :
         TxAt(p) = t /\ Height[b] - Height[p[1]] >= nCoinbaseMaturity
BlockGood(b) == KernelGood(b) /\ \A i \in 1..Len(vtx[b]) : TxGood(b, i)

(* The undo data of an input is a height if nothing was left.              *)
UndoGood(b, i, j, h) ==
  LET t == InputAt(b, i, j)[1] IN
  \A p \in MadeTo(b, i) :
    TxAt(p) = t => h = IF Left(GoneTo(b, i, j), t) = {} THEN Height[p[1]] ELSE 0
UndoRight(u, b, P) == \A p \in P : UndoGood(b, p[1], p[2], u[p])

(* A chain that was connected: every output spent was created before.      *)
Ordered(b) ==
  \A p \in Positions(b) : \A g \in InputsOf(TxAt(p)) :
    \E q \in Positions(b) : TxAt(q) = g[1] /\ Before(q, p)
ChainGood(b) ==
  /\ Sound(Positions(b), Gone(b)) /\ Ordered(b)
  /\ \A c \in Chain[b] : Height[c] <= Height[b] /\ Chain[c] \subseteq Chain[b]
UndoOK ==
  /\ \A b \in Blocks : undo[b] /= NoUndo =>
                         BlockGood(b) /\ UndoRight(undo[b], b, Places(b))
  /\ \A b \in Block : HasUndo(b) => ChainGood(b) /\ \A c \in Chain[b] : HasUndo(c)

(* The point a call has come to.                                           *)
TxPoint(c) ==
  IF c.step \in {"kernel", "BIP30", "disconnected"} THEN 1
  ELSE IF c.step = "connected" THEN Len(vtx[c.block]) + 1
  ELSE IF c.step = "remove" THEN c.i + 1 ELSE c.i
InPoint(c) ==
  IF c.step = "spend" THEN c.j - 1
  ELSE IF c.step = "create" THEN InputCount(c.block, c.i)
  ELSE IF c.step = "restore" THEN c.j ELSE 0
MadeAt(c) == MadeTo(c.block, TxPoint(c))
GoneAt(c) == GoneTo(c.block, TxPoint(c), InPoint(c))

(* What ConnectBlock has found good when it comes there.                   *)
Passed(c) ==
  /\ c.step /= "kernel" => KernelGood(c.block)
  /\ \A k \in 1..(TxPoint(c) - 1) : TxGood(c.block, k)
  /\ \A l \in 1..InPoint(c) : InputGood(c.block, TxPoint(c), l)

(* The view of the call in progress is the replay to its point.            *)
CallOK(f, v, c) ==
  /\ c.step \in ConnectSteps => /\ Replay(f, MadeAt(c), GoneAt(c))
                                /\ Sound(MadeAt(c), GoneAt(c)) /\ Passed(c)
                                /\ UndoRight(v, c.block, SpentPlaces(c))
  /\ c.step \in DisconnectSteps => /\ Replay(f, MadeAt(c), GoneAt(c))
                                   /\ UndoRight(v, c.block, Places(c.block))

(* Which calls there are: none that gives up but a ConnectTip.             *)
Where ==
  /\ verify \in {"no", "down", "up"} /\ job.step /= "unclean"
  /\ verify = "no" /\ job.step \in DisconnectSteps => job.block = best["tip"]
  /\ verify = "down" => job.step \in DisconnectSteps
  /\ verify = "up" => job.step \in ConnectSteps

ReplayInv ==
  /\ Replay(DbMap, Positions(best["db"]), Gone(best["db"]))
  /\ Replay(TipMap, Positions(best["tip"]), Gone(best["tip"]))
  /\ UndoOK /\ Where /\ CallOK(ViewMap, vtxundo, job)
  /\ verify /= "up" => FreshView
-----------------------------------------------------------------------------
(* The transactions of a block and the outputs they spend.                 *)
LEMMA PositionFacts ==
  ASSUME NEW b \in Block
  PROVE  /\ \A p \in Positions(b) :
              /\ p = <<p[1], p[2]>> /\ p[1] \in Chain[b] /\ p[1] \in Blocks
              /\ p[2] \in 1..Len(vtx[p[1]]) /\ TxAt(p) \in Tx /\ Height[p[1]] \in Heights
         /\ \A c \in Chain[b] \ {Genesis} : \A k \in 1..Len(vtx[c]) : <<c, k>> \in Positions(b)
<1>4. ASSUME NEW p \in Positions(b)
      PROVE  /\ p = <<p[1], p[2]>> /\ p[1] \in Chain[b] /\ p[1] \in Blocks
             /\ p[2] \in 1..Len(vtx[p[1]]) /\ TxAt(p) \in Tx /\ Height[p[1]] \in Heights
  <2>0. PICK c \in Chain[b] \ {Genesis} : \E k \in 1..Len(vtx[c]) : p = <<c, k>>
    BY DEF Positions
  <2>1. PICK k \in 1..Len(vtx[c]) : p = <<c, k>>
    BY <2>0
  <2> QED BY <2>1, BlockFacts, ChainFacts DEF TxAt, Blocks
<1> QED BY <1>4 DEF Positions

(* Inputs are outputs of transactions.                                     *)
LEMMA InputFacts ==
  ASSUME NEW t \in Tx
  PROVE  /\ \A j \in 1..Len(vin[t]) : vin[t][j] \in InputsOf(t)
         /\ \A g \in InputsOf(t) : /\ g = <<g[1], g[2]>> /\ g[1] \in Tx /\ g[2] \in Outputs
                                   /\ \E j \in 1..Len(vin[t]) : g = vin[t][j]
<1>2. \A j \in 1..Len(vin[t]) : vin[t][j] \in Tx \X Outputs
  BY BlockAssumption
<1> QED BY <1>2 DEF InputsOf

(* The chain of a block is that of the block before it and the block.      *)
LEMMA ChainStep ==
  ASSUME NEW b \in Blocks
  PROVE  /\ Prev[b] \in Block /\ Chain[b] = Chain[Prev[b]] \cup {b}
         /\ Height[b] = Height[Prev[b]] + 1 /\ Height[Prev[b]] \in Nat
<1>1. Prev[b] \in Block /\ b \in Block \ {Genesis}
  BY BlockFacts DEF Blocks
<1>2. /\ Height \in [Block -> Heights \cup {0}]
      /\ \A c \in Block \ {Genesis} : Height[c] = Height[Prev[c]] + 1
  BY BlockAssumption
<1>3. \A c \in Block \ {Genesis} : Chain[c] = Chain[Prev[c]] \cup {c}
  BY BlockAssumption
<1>4. Height[Prev[b]] \in Heights \cup {0}
  BY <1>1, <1>2
<1>5. Height[Prev[b]] \in Nat
  <2>1. \A h \in Heights \cup {0} : h \in Nat
    BY CoinsAssumption
  <2> QED BY <1>4, <2>1, ZenonT(30)
<1> QED BY <1>1, <1>2, <1>3, <1>5

(* The points at the two ends of a block and from one transaction or input *)
(* to the next.                                                            *)
LEMMA MadeFirst == ASSUME NEW b \in Blocks PROVE MadeTo(b, 1) = Positions(Prev[b])
BY DEF MadeTo

(* Transaction i of a block creates its outputs.                           *)
LEMMA MadeNext ==
  ASSUME NEW b \in Blocks, NEW i \in Nat \ {0}
  PROVE  MadeTo(b, i + 1) = MadeTo(b, i) \cup {<<b, i>>}
<1>2. ASSUME NEW p PROVE p \in MadeTo(b, i + 1) <=> p \in MadeTo(b, i) \/ p = <<b, i>>
  BY DEF MadeTo
<1> QED BY <1>2

(* After its last transaction a block has made all there is at it.         *)
LEMMA MadeLast ==
  ASSUME NEW b \in Blocks
  PROVE  MadeTo(b, Len(vtx[b]) + 1) = Positions(b)
BY BlockFacts, ChainStep DEF Blocks, MadeTo, Positions

(* Before its first transaction nothing of a block is spent.               *)
LEMMA GoneFirst == ASSUME NEW b \in Blocks PROVE GoneTo(b, 1, 0) = Gone(Prev[b])
BY DEF GoneTo

(* Input j of transaction i is spent.                                      *)
LEMMA GoneStep ==
  ASSUME NEW b \in Blocks, NEW i \in Nat, NEW j \in Nat \ {0}
  PROVE  GoneTo(b, i, j) = GoneTo(b, i, j - 1) \cup {InputAt(b, i, j)}
<1> DEFINE old == Gone(Prev[b]) \cup (UNION {InputsOf(vtx[b][k]) : k \in 1..(i - 1)})
           some(m) == {InputAt(b, i, l) : l \in 1..m}
<1> HIDE DEF old, some
<1> QED BY DEF GoneTo

(* After the last input of a transaction comes the next transaction.       *)
LEMMA GoneNext ==
  ASSUME NEW b \in Blocks, NEW i \in 1..Len(vtx[b])
  PROVE  GoneTo(b, i + 1, 0) = GoneTo(b, i, InputCount(b, i))
<1> DEFINE old == UNION {InputsOf(vtx[b][k]) : k \in 1..(i - 1)}
           new == UNION {InputsOf(vtx[b][k]) : k \in 1..((i + 1) - 1)}
<1>2. new = old \cup InputsOf(vtx[b][i])
  BY BlockFacts
<1>4. GoneTo(b, i + 1, 0) = Gone(Prev[b]) \cup new
  BY DEF GoneTo
<1>5. GoneTo(b, i, InputCount(b, i)) = Gone(Prev[b]) \cup old \cup InputsOf(vtx[b][i])
  BY DEF GoneTo, InputsOf, InputAt, InputCount
<1> HIDE DEF new, old
<1> QED BY <1>2, <1>4, <1>5

(* After its last transaction a block has spent all its inputs.            *)
LEMMA GoneLast ==
  ASSUME NEW b \in Blocks
  PROVE  GoneTo(b, Len(vtx[b]) + 1, 0) = Gone(b)
<1> DEFINE here == UNION {InputsOf(vtx[b][k]) : k \in 1..Len(vtx[b])}
<1>1. Len(vtx[b]) \in Nat /\ (Len(vtx[b]) + 1) - 1 = Len(vtx[b])
  BY BlockFacts
<1>3. GoneTo(b, Len(vtx[b]) + 1, 0) = Gone(Prev[b]) \cup here
  BY <1>1 DEF GoneTo
<1>4. ASSUME NEW g PROVE g \in Gone(b) <=> g \in Gone(Prev[b]) \/ g \in here
  <2>2. \A k : TxAt(<<b, k>>) = vtx[b][k]
    BY DEF TxAt
  <2>5. g \in here <=> \E k \in 1..Len(vtx[b]) : g \in InputsOf(vtx[b][k])
    OBVIOUS
  <2> HIDE DEF here
  <2>6. (\E k \in 1..Len(vtx[b]) : g \in InputsOf(vtx[b][k]))
          <=> \E p \in {<<b, k>> : k \in 1..Len(vtx[b])} : g \in InputsOf(TxAt(p))
    BY ZenonT(30), <2>2
  <2> QED BY <1>1, <2>5, <2>6, MadeLast DEF MadeTo, Gone
<1> HIDE DEF here
<1> QED BY ZenonT(30), <1>3, <1>4

(* A point lies within its block.                                          *)
LEMMA MadeFacts ==
  ASSUME NEW b \in Blocks, NEW i \in 1..(Len(vtx[b]) + 1)
  PROVE  /\ Positions(Prev[b]) \subseteq MadeTo(b, i) /\ MadeTo(b, i) \subseteq Positions(b)
         /\ \A p \in MadeTo(b, i) : TxAt(p) \in Tx /\ Height[p[1]] \in Heights
         /\ \A p \in MadeTo(b, i) : p \in Positions(Prev[b])
                                    \/ (p[1] = b /\ p[2] \in 1..(i - 1) /\ p = <<b, p[2]>>)
         /\ \A k \in 1..(i - 1) : <<b, k>> \in MadeTo(b, i)
<1>1. \A p \in MadeTo(b, i) : p \in Positions(Prev[b])
                              \/ (p[1] = b /\ p[2] \in 1..(i - 1) /\ p = <<b, p[2]>>)
  <2>2. SUFFICES ASSUME NEW p \in MadeTo(b, i), p \notin Positions(Prev[b])
                 PROVE  p[1] = b /\ p[2] \in 1..(i - 1) /\ p = <<b, p[2]>>
    BY ZenonT(30)
  <2>3. PICK k \in 1..(i - 1) : p = <<b, k>>
    BY <2>2 DEF MadeTo
  <2> QED BY <2>3
<1> QED BY <1>1, BlockFacts, PositionFacts, MadeLast DEF MadeTo

(* What is spent at a point contains the inputs of all that was made.      *)
LEMMA GoneFacts ==
  ASSUME NEW b \in Blocks, NEW i \in 1..(Len(vtx[b]) + 1)
  PROVE  /\ Gone(Prev[b]) \subseteq GoneTo(b, i, 0)
         /\ \A j \in Nat : GoneTo(b, i, 0) \subseteq GoneTo(b, i, j)
         /\ \A p \in MadeTo(b, i) : InputsOf(TxAt(p)) \subseteq GoneTo(b, i, 0)
<1> DEFINE here == UNION {InputsOf(vtx[b][k]) : k \in 1..(i - 1)}
<1>2. GoneTo(b, i, 0) = Gone(Prev[b]) \cup here
  BY DEF GoneTo
<1>4. \A k \in 1..(i - 1) : InputsOf(vtx[b][k]) \subseteq here
  OBVIOUS
<1> HIDE DEF here
<1>5. ASSUME NEW p \in MadeTo(b, i)
      PROVE  InputsOf(TxAt(p)) \subseteq Gone(Prev[b]) \cup here
  <2>1. CASE p \in Positions(Prev[b])
    BY <2>1 DEF Gone
  <2>2. CASE p[1] = b /\ p[2] \in 1..(i - 1)
    BY <1>4, <2>2 DEF TxAt
  <2> QED BY <2>1, <2>2, MadeFacts
<1> QED BY <1>2, <1>5 DEF GoneTo

(* Chains within chains.                                                   *)
LEMMA Within ==
  ASSUME NEW b \in Block, NEW c \in Block, Chain[c] \subseteq Chain[b]
  PROVE  Positions(c) \subseteq Positions(b) /\ Gone(c) \subseteq Gone(b)
BY DEF Positions, Gone
-----------------------------------------------------------------------------
(* What is left of a transaction.                                          *)
LEMMA LeftFacts ==
  ASSUME NEW G, NEW t \in Tx, NEW h \in Heights
  PROVE  /\ LeftCoins(G, t, h) /= NoCoins
         /\ LeftCoins(G, t, h).vout = Left(G, t) /\ LeftCoins(G, t, h).nHeight = h
         /\ Available(LeftCoins(G, t, h)) = Left(G, t)
         /\ Left(G, t) = {} => Meaning(LeftCoins(G, t, h)) = NoCoins
         /\ Left(G, t) /= {} => Meaning(LeftCoins(G, t, h)) = LeftCoins(G, t, h)
<1>1. vout[t] \in SUBSET Outputs
  BY BlockAssumption
<1>2. Left(G, t) \in SUBSET Nat
  <2>1. Outputs \subseteq Nat
    BY CoinsAssumption
  <2> QED BY ZenonT(30), <1>1, <2>1 DEF Left
<1> QED BY <1>2, CoinsAssumption DEF Meaning, Available, LeftCoins, Coin

(* A replay holds what is left of every transaction made and no other.     *)
LEMMA ReplayFacts ==
  ASSUME NEW M, NEW G, NEW f, Replay(f, M, G),
         \A p \in M : TxAt(p) \in Tx /\ Height[p[1]] \in Heights,
         NEW t \in Tx
  PROVE  /\ (\A p \in M : TxAt(p) /= t) => f[t] = NoCoins
         /\ \A p \in M : TxAt(p) = t =>
              /\ Left(G, t) = {} => f[t] = NoCoins
              /\ Left(G, t) /= {} => /\ f[t] = LeftCoins(G, t, Height[p[1]])
                                     /\ f[t] /= NoCoins
<1>1. ASSUME NEW p \in M, TxAt(p) = t
      PROVE  /\ Left(G, t) = {} => f[t] = NoCoins
             /\ Left(G, t) /= {} => f[t] = LeftCoins(G, t, Height[p[1]]) /\ f[t] /= NoCoins
  BY <1>1, LeftFacts DEF Replay
<1> QED BY <1>1 DEF Replay

(* One transaction is written.                                             *)
LEMMA ReplayWrite ==
  ASSUME NEW M, NEW G, NEW f, Replay(f, M, G), DOMAIN f = Tx,
         NEW M2, NEW G2, \A p \in M2 : TxAt(p) \in Tx,
         NEW t \in Tx, NEW value,
         \A p : TxAt(p) /= t => (p \in M2 <=> p \in M),
         \A u \in Tx : u /= t => Left(G2, u) = Left(G, u),
         (\A p \in M2 : TxAt(p) /= t) => value = NoCoins,
         \A p \in M2 : TxAt(p) = t => value = Meaning(LeftCoins(G2, t, Height[p[1]]))
  PROVE  Replay([f EXCEPT ![t] = value], M2, G2)
<1> DEFINE g == [f EXCEPT ![t] = value]
<1>1. g[t] = value /\ \A u \in Tx : u /= t => g[u] = f[u]
  OBVIOUS
<1> HIDE DEF g
<1>2. ASSUME NEW u \in Tx, \A p \in M2 : TxAt(p) /= u
      PROVE  g[u] = NoCoins
  <2>1. CASE u = t
    BY <1>1, <1>2, <2>1
  <2>2. CASE u /= t
    BY <2>2, <1>1, <1>2 DEF Replay
  <2> QED BY <2>1, <2>2
<1>3. ASSUME NEW p \in M2
      PROVE  g[TxAt(p)] = Meaning(LeftCoins(G2, TxAt(p), Height[p[1]]))
  <2>1. CASE TxAt(p) = t
    BY <1>1, <2>1
  <2>2. CASE TxAt(p) /= t
    BY <2>2, <1>1 DEF Replay, LeftCoins
  <2> QED BY <2>1, <2>2
<1> QED BY <1>2, <1>3 DEF g, Replay

(* One more output is spent.                                               *)
With(G, t, n) == G \cup {<<t, n>>}

(* Spending an output takes it from what is left, and nothing else.        *)
LEMMA LeftSpent ==
  ASSUME NEW G, NEW t \in Tx, NEW n
  PROVE  /\ Left(With(G, t, n), t) = Left(G, t) \ {n}
         /\ \A u \in Tx : u /= t => Left(With(G, t, n), u) = Left(G, u)
<1> DEFINE G2 == With(G, t, n)
<1>1. Left(G2, t) = Left(G, t) \ {n}
  <2>1. \A m : <<t, m>> \in G2 <=> <<t, m>> \in G \/ m = n
    BY DEF With
  <2> HIDE DEF G2
  <2> QED BY <2>1 DEF Left
<1>2. ASSUME NEW u \in Tx, u /= t
      PROVE  Left(G2, u) = Left(G, u)
  <2>1. \A m : <<u, m>> \in G2 <=> <<u, m>> \in G
    BY <1>2 DEF With
  <2> HIDE DEF G2
  <2> QED BY <2>1 DEF Left
<1> QED BY <1>1, <1>2

(* What is looked up in the view.                                          *)
LEMMA ViewedOK ==
  ASSUME IInv, NEW t \in Tx
  PROVE  /\ DOMAIN ViewMap = Tx /\ Viewed(t) \in SomeCoins
         /\ Available(ViewCoins(t)) = Viewed(t).vout
         /\ ViewMap[t] = Meaning(ViewCoins(t)) /\ ViewMap[t] = Meaning(Viewed(t))
         /\ ViewMap[t] = NoCoins => Viewed(t).vout = {}
         /\ ViewMap[t] /= NoCoins => ViewMap[t] = Viewed(t) /\ ViewMap[t] = ViewCoins(t)
BY Facts, Distinct DEF Below, Viewed, ToModify, ViewCoins, Cleared, Available, ViewMap, Meaning
-----------------------------------------------------------------------------
(* The positions of a replay are those of transactions in blocks.          *)
Placed(M) == \A p \in M : TxAt(p) \in Tx /\ Height[p[1]] \in Heights

(* What was made at a point are transactions at heights that there are.    *)
LEMMA PointPlaced ==
  ASSUME NEW b \in Blocks, NEW i \in 1..(Len(vtx[b]) + 1)
  PROVE  Placed(MadeTo(b, i)) /\ Placed(Positions(b)) /\ Placed(Positions(Prev[b]))
BY BlockFacts, MadeFacts, PositionFacts DEF Placed

(* What a view that holds a replay shows of a transaction.                 *)
LEMMA ViewReplay ==
  ASSUME IInv, NEW M, NEW G, Placed(M), Replay(ViewMap, M, G), NEW t \in Tx
  PROVE  /\ (\A p \in M : TxAt(p) /= t) => Viewed(t).vout = {}
         /\ \A p \in M : TxAt(p) = t =>
              /\ Viewed(t).vout = Left(G, t)
              /\ Left(G, t) /= {} => /\ Viewed(t) = LeftCoins(G, t, Height[p[1]])
                                     /\ ViewCoins(t) = Viewed(t) /\ ViewCoins(t) /= NoCoins
                                     /\ ViewCoins(t).nHeight = Height[p[1]]
<1>1. \A p \in M : TxAt(p) \in Tx /\ Height[p[1]] \in Heights
  BY DEF Placed
<1>3. ASSUME NEW p \in M, TxAt(p) = t
      PROVE  /\ Viewed(t).vout = Left(G, t)
             /\ Left(G, t) /= {} => /\ Viewed(t) = LeftCoins(G, t, Height[p[1]])
                                    /\ ViewCoins(t) = Viewed(t) /\ ViewCoins(t) /= NoCoins
                                    /\ ViewCoins(t).nHeight = Height[p[1]]
  <2>2. Left(G, t) /= {} => ViewMap[t] = LeftCoins(G, t, Height[p[1]]) /\ ViewMap[t] /= NoCoins
    BY <1>1, <1>3, ReplayFacts
  <2>3. LeftCoins(G, t, Height[p[1]]).vout = Left(G, t)
        /\ LeftCoins(G, t, Height[p[1]]).nHeight = Height[p[1]]
    BY DEF LeftCoins
  <2>4. CASE Left(G, t) = {}
    BY <1>1, <1>3, <2>4, ViewedOK, ReplayFacts
  <2>5. CASE Left(G, t) /= {}
    <3>1. ViewMap[t] = Viewed(t) /\ ViewMap[t] = ViewCoins(t) /\ ViewMap[t] /= NoCoins
      BY <2>2, <2>5, ViewedOK
    <3>2. Viewed(t) = LeftCoins(G, t, Height[p[1]])
      BY <2>2, <2>5, <3>1
    <3> QED BY ZenonT(30), <2>3, <3>1, <3>2
  <2> QED BY <2>4, <2>5
<1> QED BY <1>1, <1>3, ReplayFacts, ViewedOK

-----------------------------------------------------------------------------
(* ConnectBlock starts at the beginning of its block, ...                  *)
LEMMA ConnectingPoint ==
  ASSUME NEW b \in Blocks
  PROVE  /\ MadeAt(Connecting(b)) = Positions(Prev[b]) /\ GoneAt(Connecting(b)) = Gone(Prev[b])
         /\ Passed(Connecting(b)) /\ SpentPlaces(Connecting(b)) = {}
         /\ Connecting(b).step \in {"kernel", "BIP30"} /\ Connecting(b).block = b
<1> DEFINE c == Connecting(b)
<1>1. /\ c.step \in {"kernel", "BIP30"} /\ c.block = b /\ c.i = 1
      /\ c.step /= "kernel" => ~IsProofOfStake(b)
  BY DEF Connecting, At
<1> HIDE DEF c
<1>2. TxPoint(c) = 1 /\ InPoint(c) = 0
  BY <1>1 DEF TxPoint, InPoint
<1> QED BY <1>1, <1>2, MadeFirst, GoneFirst DEF c, MadeAt, GoneAt, Passed, KernelGood, SpentPlaces

(* ... DisconnectBlock at the end.                                         *)
LEMMA DisconnectingPoint ==
  ASSUME NEW b \in Blocks, undo[b] \in [Places(b) -> Restorable]
  PROVE  /\ MadeAt(Disconnecting(b)) = Positions(b) /\ GoneAt(Disconnecting(b)) = Gone(b)
         /\ Disconnecting(b).step = "remove" /\ Disconnecting(b).block = b
<1> DEFINE c == Disconnecting(b)
<1>1. c.step = "remove" /\ c.block = b /\ c.i = Len(vtx[b])
  BY DEF Disconnecting, At
<1> HIDE DEF c
<1> QED BY <1>1, MadeLast, GoneLast DEF c, MadeAt, GoneAt, TxPoint, InPoint

(* ConnectBlock goes on with the next transaction, ...                     *)
LEMMA ToTransactionPoint ==
  ASSUME job.block \in Blocks, NEW i \in 1..(Len(vtx[job.block]) + 1)
  PROVE  LET c == ToTransaction(i)
         IN  /\ c.step \in {"inputs", "create", "connected"} /\ c.block = job.block
             /\ c.step = "inputs" => c.i = i /\ c.j = 1
             /\ TxPoint(c) = i /\ InPoint(c) = 0
             /\ MadeAt(c) = MadeTo(job.block, i) /\ GoneAt(c) = GoneTo(job.block, i, 0)
<1> DEFINE c == ToTransaction(i)
<1>0. Len(vtx[job.block]) \in Nat \ {0}
  BY BlockFacts
<1>1. /\ c.block = job.block
      /\ \/ c.step = "connected" /\ i = Len(vtx[job.block]) + 1
         \/ c.step = "create" /\ c.i = i /\ i \in 1..Len(vtx[job.block]) /\ vtx[job.block][i] \in CoinBase
         \/ c.step = "inputs" /\ c.i = i /\ c.j = 1
  <2>1. CASE i > Len(vtx[job.block])
    BY <1>0, <2>1 DEF ToTransaction, At
  <2>2. CASE i <= Len(vtx[job.block])
    BY <1>0, <2>2 DEF ToTransaction, At
  <2> QED BY <1>0, <2>1, <2>2
<1> HIDE DEF c
<1>4. InPoint(c) = 0
  BY <1>1, BlockFacts DEF InPoint, InputAt, InputCount
<1> QED BY <1>1, <1>4 DEF c, MadeAt, GoneAt, TxPoint

(* ... DisconnectBlock with the one before.                                *)
LEMMA BeforePoint ==
  ASSUME NEW i \in 1..Len(vtx[job.block]), job.block \in Blocks
  PROVE  LET c == BeforeTransaction(i)
         IN  /\ c.step \in DisconnectSteps /\ c.block = job.block
             /\ MadeAt(c) = MadeTo(job.block, i) /\ GoneAt(c) = GoneTo(job.block, i, 0)
<1> DEFINE c == BeforeTransaction(i)
<1> HIDE DEF c
<1> QED BY BlockFacts DEF MadeAt, GoneAt, DisconnectSteps, c, TxPoint, InPoint, BeforeTransaction,
     At
-----------------------------------------------------------------------------
(* What the invariant says of the chain that a call works on.  The chain   *)
(* of a block with undo data has been connected.                           *)
LEMMA ChainHasUndo ==
  ASSUME BlockInv, ReplayInv, NEW b \in Block, HasUndo(b), NEW c \in Chain[b]
  PROVE  /\ c \in Block /\ HasUndo(c) /\ ChainGood(c) /\ ChainGood(b)
         /\ Chain[c] \subseteq Chain[b]
         /\ c \in Blocks => /\ undo[c] /= NoUndo /\ undo[c] \in [Places(c) -> Restorable]
                            /\ BlockGood(c) /\ UndoRight(undo[c], c, Places(c))
<1>1. c \in Block
  BY ChainFacts
<1>2. HasUndo(c) /\ ChainGood(b)
  BY DEF ReplayInv, UndoOK
<1>5. ASSUME c \in Blocks
      PROVE  /\ undo[c] /= NoUndo /\ undo[c] \in [Places(c) -> Restorable]
             /\ BlockGood(c) /\ UndoRight(undo[c], c, Places(c))
  BY <1>5, <1>1, <1>2 DEF HasUndo, Blocks, BlockInv, UndoType, ReplayInv, UndoOK
<1> QED BY <1>1, <1>2, <1>5 DEF ReplayInv, UndoOK, ChainGood

(* ConnectBlock works on top of such a chain, and VerifyDB in one.         *)
LEMMA PrevGood ==
  ASSUME BlockInv, ReplayInv, job.step \in ConnectSteps
  PROVE  /\ job /= NoJob /\ job.block \in Blocks /\ ChainGood(Prev[job.block])
         /\ verify \in {"no", "up"}
         /\ verify = "no" => Prev[job.block] = best["tip"]
         /\ verify = "up" => /\ BlockGood(job.block) /\ job.block \in Chain[best["tip"]]
                             /\ Positions(job.block) \subseteq Positions(best["tip"])
                             /\ Gone(job.block) \subseteq Gone(best["tip"])
<1>1. job /= NoJob
  BY DEF NoJob, ConnectSteps
<1>2. job.block \in Blocks
  BY <1>1, JobFacts
<1>3. best["tip"] \in Block /\ HasUndo(best["tip"])
  BY DEF BlockInv, OnTip
<1>5. CASE verify = "no"
  BY <1>5, <1>1, <1>2, <1>3, ChainFacts, ChainHasUndo DEF BlockInv, OnTip
<1>6. CASE verify = "up"
  BY <1>6, <1>1, <1>2, <1>3, ChainFacts, ChainHasUndo, Within DEF BlockInv, OnTip, Blocks
<1> QED BY <1>5, <1>6 DEF ReplayInv, Where, ConnectSteps, DisconnectSteps

(* A call goes on.                                                         *)
LEMMA ReplayGoesOn ==
  ASSUME ReplayInv, UNCHANGED <<best, undo, verify>>, TipMap' = TipMap, DbMap' = DbMap,
         CallOK(ViewMap', vtxundo', job'), job'.block = job.block,
         \/ job.step \in ConnectSteps /\ job'.step \in ConnectSteps
         \/ job.step \in DisconnectSteps /\ job'.step \in DisconnectSteps,
         verify /= "up" /\ FreshView => FreshView'
  PROVE  ReplayInv'
BY DEF ReplayInv, UndoOK, HasUndo, Where, ConnectSteps, DisconnectSteps

(* A lookup in ConnectBlock.                                               *)
LEMMA LookReplay ==
  ASSUME IInv, BlockInv, ReplayInv, BlockInv', job.step \in ConnectSteps,
         NEW t \in Tx, AccessCoins(t), UNCHANGED <<best, undo, vtxundo, verify>>,
         \/ job'.step = "refused" /\ verify /= "up"
         \/ /\ job'.step \in ConnectSteps /\ job'.block = job.block /\ Passed(job')
            /\ MadeAt(job') = MadeAt(job) /\ GoneAt(job') = GoneAt(job)
  PROVE  IInv' /\ ReplayInv' /\ Next
<1>1. /\ IInv' /\ UNCHANGED <<DbMap, TipMap, ViewMap>> /\ (FreshView => FreshView')
  BY ReadStep
<1>2. Next
  BY DEF Next
<1>3. CASE job'.step = "refused" /\ verify /= "up"
  BY <1>3, <1>1, <1>2 DEF CallOK, ConnectSteps, DisconnectSteps, ReplayInv, Where, UndoOK, HasUndo
<1>4. CASE /\ job'.step \in ConnectSteps /\ job'.block = job.block /\ Passed(job')
           /\ MadeAt(job') = MadeAt(job) /\ GoneAt(job') = GoneAt(job)
  <2>4. CallOK(ViewMap', vtxundo', job')
    BY <1>1, <1>4 DEF CallOK, ConnectSteps, DisconnectSteps, ReplayInv, BlockInv, VtxundoType
  <2> QED BY <1>1, <1>2, <1>4, <2>4, ReplayGoesOn
<1> QED BY <1>3, <1>4

(* The stake of a block: something of it is left and it is deep enough,    *)
(* which VerifyDB finds again.                                             *)
LEMMA KernelReplays ==
  ASSUME IInv, BlockInv, ReplayInv, CheckKernel
  PROVE  IInv' /\ ReplayInv' /\ Next
<1> DEFINE b == job.block
           t == InputAt(b, 2, 1)[1]
           M == Positions(Prev[b])
           G == Gone(Prev[b])
           good == Available(ViewCoins(t)) /= {} /\ Depth(t) >= nCoinbaseMaturity
<1>1. job.step = "kernel" /\ job /= NoJob /\ job.step \in ConnectSteps
  BY DEF CheckKernel, Doing, NoJob, ConnectSteps
<1>2. b \in Blocks /\ IsProofOfStake(b) /\ t \in Tx
  BY <1>1, JobFacts
<1>3. TxPoint(job) = 1 /\ InPoint(job) = 0
  BY <1>1 DEF TxPoint, InPoint
<1>5. Replay(ViewMap, M, G) /\ Placed(M)
  BY <1>1, <1>2, <1>3, BlockFacts, PointPlaced, MadeFirst, GoneFirst DEF ReplayInv, CallOK, MadeAt,
     GoneAt
<1>4. AccessCoins(t) /\ UNCHANGED <<best, undo, vtxundo, verify>>
  BY DEF CheckKernel, Look, InputAt
<1>6. job' = IF good THEN At("BIP30", b, 1, 0) ELSE [job EXCEPT !.step = "refused"]
  BY DEF CheckKernel, Look, InputAt
<1>7. BlockInv'
  BY BlockStepKeeps DEF BlockNext
<1> HIDE DEF t, M, G
<1>8. /\ Available(ViewCoins(t)) /= {} => \E p \in M : TxAt(p) = t
      /\ \A p \in M : TxAt(p) = t =>
           /\ Available(ViewCoins(t)) = Left(G, t)
           /\ Left(G, t) /= {} => Depth(t) = Height[b] - Height[p[1]]
  BY <1>2, <1>5, ViewedOK, ViewReplay DEF Depth
<1>9. CASE good
  <2>1. /\ job'.step = "BIP30" /\ job'.block = b
    BY <1>6, <1>9 DEF At
  <2>2. TxPoint(job') = 1 /\ InPoint(job') = 0
    BY <2>1 DEF TxPoint, InPoint
  <2>3. MadeAt(job') = MadeAt(job) /\ GoneAt(job') = GoneAt(job)
    BY <1>3, <2>1, <2>2 DEF MadeAt, GoneAt
  <2>5. Passed(job')
    BY <1>8, <1>9, <2>1, <2>2 DEF Passed, KernelGood, t, M, G
  <2> QED BY <1>1, <1>2, <1>4, <1>7, <2>1, <2>3, <2>5, LookReplay DEF ConnectSteps
<1>10. ASSUME verify = "up"
       PROVE  good
  <2>1. KernelGood(b)
    BY <1>1, <1>10, PrevGood DEF BlockGood
  <2> QED BY <1>2, <1>8, <2>1 DEF KernelGood, t, M, G
<1>11. CASE ~good
  <2>1. job'.step = "refused"
    BY <1>1, <1>6, <1>11, JobFacts DEF At
  <2> QED BY <1>1, <1>2, <1>4, <1>7, <1>10, <1>11, <2>1, LookReplay
<1> QED BY <1>9, <1>11

(* No transaction of the block exists already; VerifyDB finds none.        *)
LEMMA BIP30Replays ==
  ASSUME IInv, BlockInv, ReplayInv, CheckBIP30
  PROVE  IInv' /\ ReplayInv' /\ Next
<1> DEFINE b == job.block
           t == Transaction
           good == Available(ViewCoins(t)) = {}
<1>1. job.step = "BIP30" /\ job /= NoJob /\ job.step \in ConnectSteps
  BY DEF CheckBIP30, Doing, NoJob, ConnectSteps
<1>2. /\ b \in Blocks /\ t \in Tx /\ job.i \in 1..Len(vtx[b]) /\ t = vtx[b][job.i]
      /\ Len(vtx[b]) \in Nat \ {0} /\ job = At("BIP30", b, job.i, job.j)
  BY <1>1, JobFacts, BlockFacts DEF Transaction
<1>4. MadeAt(job) = MadeTo(b, 1) /\ GoneAt(job) = GoneTo(b, 1, 0)
  BY <1>1 DEF MadeAt, GoneAt, TxPoint, InPoint
<1>3. AccessCoins(t) /\ UNCHANGED <<best, undo, vtxundo, verify>>
  BY DEF CheckBIP30, Look
<1>5. job' = IF good THEN IF job.i = Len(vtx[b]) THEN ToTransaction(1)
                          ELSE [job EXCEPT !.i = @ + 1]
             ELSE [job EXCEPT !.step = "refused"]
  BY DEF CheckBIP30, Look
<1>6. BlockInv'
  BY BlockStepKeeps DEF BlockNext
<1> HIDE DEF t
<1>7. KernelGood(b)
  BY <1>1 DEF ReplayInv, CallOK, Passed
<1>8. CASE good /\ job.i = Len(vtx[b])
  <2>2. /\ job'.step \in {"inputs", "create", "connected"} /\ job'.block = b
        /\ job'.step = "inputs" => job'.i = 1 /\ job'.j = 1
        /\ TxPoint(job') = 1 /\ InPoint(job') = 0
        /\ MadeAt(job') = MadeTo(b, 1) /\ GoneAt(job') = GoneTo(b, 1, 0)
    BY <1>2, <1>5, <1>8, ToTransactionPoint
  <2>3. Passed(job')
    BY <1>7, <2>2 DEF Passed
  <2>5. MadeAt(job') = MadeAt(job) /\ GoneAt(job') = GoneAt(job)
    BY <1>4, <2>2
  <2> QED BY <1>1, <1>2, <1>3, <1>6, <2>2, <2>3, <2>5, LookReplay DEF ConnectSteps
<1>9. CASE good /\ job.i /= Len(vtx[b])
  <2>2. job'.step = "BIP30" /\ job'.block = b
    BY <1>2, <1>5, <1>9 DEF At
  <2>3. TxPoint(job') = 1 /\ InPoint(job') = 0
    BY <2>2 DEF TxPoint, InPoint
  <2>6. job'.step \in ConnectSteps
    BY <2>2 DEF ConnectSteps
  <2> QED BY <1>1, <1>2, <1>3, <1>4, <1>6, <1>7, <2>2, <2>3, <2>6, LookReplay DEF MadeAt, GoneAt,
       Passed
<1>10. CASE ~good
  <2>2. ASSUME verify = "up"
        PROVE  FALSE
    <3>2. \A p \in MadeTo(b, job.i) : TxAt(p) /= t
      BY <1>1, <1>2, <2>2, PrevGood DEF TxGood, BlockGood
    <3>5. Replay(ViewMap, MadeTo(b, 1), GoneTo(b, 1, 0))
      BY <1>1, <1>4 DEF ReplayInv, CallOK
    <3>6. Viewed(t).vout = {}
      BY <1>2, <3>2, <3>5, PointPlaced, ViewReplay, MadeFirst, MadeFacts
    <3> QED BY <1>2, <1>10, <3>6, ViewedOK
  <2> QED BY <1>1, <1>2, <1>3, <1>5, <1>6, <1>10, <2>2, LookReplay DEF At
<1> QED BY <1>8, <1>9, <1>10

(* The inputs of a transaction are there; VerifyDB finds them again.       *)
LEMMA InputReplays ==
  ASSUME IInv, BlockInv, ReplayInv, CheckInput
  PROVE  IInv' /\ ReplayInv' /\ Next
<1> DEFINE b == job.block
           t == Input[1]
           n == Input[2]
           G == GoneTo(b, job.i, 0)
           good == n \in Available(ViewCoins(t)) /\ (t \in CoinBase \cup CoinStake => Depth(t) >= 0)
<1>1. job.step = "inputs" /\ job /= NoJob /\ job.step \in ConnectSteps
  BY DEF CheckInput, Doing, NoJob, ConnectSteps
<1>2. /\ b \in Blocks /\ job.i \in 1..Len(vtx[b]) /\ job.j \in 1..InputCount(b, job.i)
      /\ Transaction = vtx[b][job.i] /\ Transaction \in Tx /\ Input = InputAt(b, job.i, job.j)
      /\ t \in Tx /\ Input = <<t, n>> /\ job = At("inputs", b, job.i, job.j)
      /\ Len(vin[Transaction]) = InputCount(b, job.i)
  BY <1>1, JobFacts
<1>3. /\ Len(vtx[b]) \in Nat /\ Len(vin[Transaction]) \in Nat
      /\ job.i \in 1..(Len(vtx[b]) + 1) /\ job.j \in Nat \ {0}
  BY <1>2, BlockFacts
<1>4. TxPoint(job) = job.i /\ InPoint(job) = 0
  BY <1>1 DEF TxPoint, InPoint
<1>6. Replay(ViewMap, MadeTo(b, job.i), G) /\ Placed(MadeTo(b, job.i))
  <2>1. Replay(ViewMap, MadeAt(job), GoneAt(job))
    BY <1>1 DEF ReplayInv, CallOK
  <2> QED BY <1>2, <1>3, <1>4, <2>1, PointPlaced DEF MadeAt, GoneAt
<1>5. AccessCoins(t) /\ UNCHANGED <<best, undo, vtxundo, verify>>
  BY DEF CheckInput, Look
<1>7. job' = IF good THEN AfterInputs ELSE [job EXCEPT !.step = "refused"]
  BY DEF CheckInput, Look
<1>8. BlockInv'
  BY BlockStepKeeps DEF BlockNext
<1>9. KernelGood(b) /\ \A k \in 1..(job.i - 1) : TxGood(b, k)
  BY <1>1, <1>4 DEF ReplayInv, CallOK, Passed
<1>11. InputAt(b, job.i, job.j)[1] = t /\ InputAt(b, job.i, job.j)[2] = n
  BY <1>2
<1> HIDE DEF t, n, G
<1>12. \A p \in MadeTo(b, job.i) : TxAt(p) = t =>
         /\ Available(ViewCoins(t)) = Left(G, t)
         /\ Left(G, t) /= {} => Depth(t) >= 0
  <2>1. ASSUME NEW p \in MadeTo(b, job.i) PROVE Height[b] - Height[p[1]] >= 0
    <3>1. /\ \A c \in Chain[Prev[b]] : Height[c] <= Height[Prev[b]]
          /\ p \in Positions(Prev[b]) \/ p[1] = b
      BY ZenonT(30), <1>1, <1>2, <1>3, PrevGood, MadeFacts DEF ChainGood
    <3>2. /\ Height[b] = Height[Prev[b]] + 1 /\ Height[Prev[b]] \in Nat
          /\ Height[p[1]] \in Nat /\ (p[1] = b \/ p[1] \in Chain[Prev[b]])
      <4>1. Prev[b] \in Block
        BY <1>2, BlockFacts
      <4>2. Height[p[1]] \in Heights
        BY Zenon, <1>2, <1>3, MadeFacts
      <4>3. p[1] = b \/ p[1] \in Chain[Prev[b]]
        BY Zenon, <3>1, <4>1, PositionFacts
      <4> QED BY <1>2, <4>2, <4>3, ChainStep, CoinsAssumption
    <3> QED BY <3>1, <3>2
  <2> QED BY <1>2, <1>6, <2>1, ViewedOK, ViewReplay DEF Depth
<1>13. CASE good
  <2>3. job' = AfterInputs
    BY <1>7, <1>13
  <2>4. /\ job'.block = b /\ job'.i = job.i
        /\ \/ job'.step = "spend" /\ job'.j = 1 /\ job.j = Len(vin[Transaction])
           \/ job'.step = "inputs" /\ job'.j = job.j + 1
    <3>1. CASE job.j = Len(vin[Transaction])
      BY <2>3, <3>1 DEF AfterInputs, At
    <3>2. CASE job.j /= Len(vin[Transaction])
      BY <3>2, <1>2, <2>3 DEF AfterInputs, At
    <3> QED BY <3>1, <3>2
  <2>5. job'.step \in ConnectSteps /\ TxPoint(job') = job.i /\ InPoint(job') = 0
    BY <2>4 DEF ConnectSteps, TxPoint, InPoint
  <2>7. Passed(job')
    BY <1>2, <1>3, <1>9, <2>4, <2>5 DEF Passed
  <2> QED BY <1>1, <1>2, <1>4, <1>5, <1>8, <2>4, <2>5, <2>7, LookReplay DEF MadeAt, GoneAt
<1>14. CASE ~good
  <2>2. ASSUME verify = "up"
        PROVE  FALSE
    <3>2. InputGood(b, job.i, job.j)
      BY <1>1, <1>2, <2>2, PrevGood DEF TxGood, BlockGood
    <3>3. /\ \E p \in MadeTo(b, job.i) : TxAt(p) = t
          /\ n \in vout[t] /\ <<t, n>> \notin GoneTo(b, job.i, job.j - 1)
      BY <1>2, <1>11, <3>2 DEF InputGood
    <3> QED BY <1>2, <1>3, <1>12, <1>14, <3>3, GoneFacts DEF Left, G
  <2> QED BY <1>1, <1>2, <1>5, <1>7, <1>8, <1>14, <2>2, LookReplay DEF At
<1> QED BY <1>13, <1>14
-----------------------------------------------------------------------------
(* What pcoinsTip has nothing of.                                          *)
LEMMA TipNone ==
  ASSUME BlockInv, ReplayInv, NEW t \in Tx,
         \/ \A p \in Positions(best["tip"]) : TxAt(p) /= t
         \/ Left(Gone(best["tip"]), t) = {}
  PROVE  Available(TipCoins(t)) = {}
<1>2. \A p \in Positions(best["tip"]) : TxAt(p) \in Tx /\ Height[p[1]] \in Heights
  BY PositionFacts DEF BlockInv, OnTip
<1>3. Replay(TipMap, Positions(best["tip"]), Gone(best["tip"]))
  BY DEF ReplayInv
<1>4. TipMap[t] = NoCoins
  <2>1. CASE \A p \in Positions(best["tip"]) : TxAt(p) /= t
    BY <1>2, <1>3, <2>1, ReplayFacts
  <2>2. CASE Left(Gone(best["tip"]), t) = {}
    BY <1>2, <1>3, <2>2, ReplayFacts
  <2> QED BY <2>1, <2>2
<1> QED BY <1>4 DEF Meaning, Available, TipMap

(* An input is spent.  In VerifyDB an entry that vanishes belongs to a     *)
(* transaction of which the tip has nothing left either.                   *)
LEMMA SpendReplays ==
  IInv /\ BlockInv /\ ReplayInv /\ SpendInput => IInv' /\ ReplayInv' /\ Next
(* More is spent at a later input, and nothing that the block does not *)
(* spend. *)
<1>GoneGrows. ASSUME NEW b \in Blocks, NEW i \in 1..Len(vtx[b]), NEW j \in 0..InputCount(b, i)
              PROVE  /\ \A l \in 0..j : GoneTo(b, i, l) \subseteq GoneTo(b, i, j)
                     /\ GoneTo(b, i, j) \subseteq Gone(b)
  <2> USE <1>GoneGrows
  <2> DEFINE old == Gone(Prev[b]) \cup (UNION {InputsOf(vtx[b][k]) : k \in 1..(i - 1)})
             some(m) == {InputAt(b, i, l) : l \in 1..m}
  <2>0. Len(vtx[b]) \in Nat /\ vtx[b][i] \in Tx /\ InputCount(b, i) \in Nat /\ b \in Block
    BY BlockFacts DEF InputAt, InputCount
  <2>1. \A m : GoneTo(b, i, m) = old \cup some(m)
    BY DEF GoneTo
  <2>3. \A l \in 0..j : some(l) \subseteq some(j)
    BY <2>0
  <2>4. some(j) \subseteq InputsOf(vtx[b][i])
    BY <2>0 DEF InputsOf, InputAt, InputCount
  <2> HIDE DEF some
  <2>5. \A p \in Positions(b) : InputsOf(TxAt(p)) \subseteq Gone(b)
    BY DEF Gone
  <2>7. \A k \in 1..Len(vtx[b]) : <<b, k>> \in Positions(b) /\ TxAt(<<b, k>>) = vtx[b][k]
    BY <2>0, ChainFacts, PositionFacts DEF Blocks, TxAt
  <2>9. old \subseteq Gone(b)
    <3>1. \A k \in 1..Len(vtx[b]) : InputsOf(vtx[b][k]) \subseteq Gone(b)
      BY ZenonT(30), <2>5, <2>7
    <3>2. Gone(Prev[b]) \subseteq Gone(b)
      BY <2>0, MadeFacts DEF Gone
    <3> QED BY <2>0, <3>1, <3>2
  <2> HIDE DEF old
  <2>10. InputsOf(vtx[b][i]) \subseteq Gone(b)
    BY ZenonT(30), <2>5, <2>7
  <2> QED BY <2>1, <2>3, <2>4, <2>9, <2>10
(* Coins with an output spent, ... *)
<1>SpentIs. ASSUME NEW coins \in SomeCoins, NEW n
            PROVE  Spent(coins, n) = [vout |-> coins.vout \ {n}, nHeight |-> coins.nHeight]
  BY <1>SpentIs DEF Spent, SomeCoins, NewCoins, Cleared
(* UpdateCoins spends an input: the replay goes on by it, and the undo *)
(* data is right. *)
<1>SpendReplay. ASSUME IInv, NEW b \in Blocks, NEW i \in 1..Len(vtx[b]),
                       NEW j \in 1..InputCount(b, i),
                       Replay(ViewMap, MadeTo(b, i), GoneTo(b, i, j - 1)),
                       Sound(MadeTo(b, i), GoneTo(b, i, j - 1)),
                       NEW t \in Tx, NEW n, InputAt(b, i, j) = <<t, n>>, n \in Viewed(t).vout
                PROVE  /\ Replay([ViewMap EXCEPT ![t] = Meaning(Spent(Viewed(t), n))],
                                 MadeTo(b, i), GoneTo(b, i, j))
                       /\ Sound(MadeTo(b, i), GoneTo(b, i, j))
                       /\ \E p \in MadeTo(b, i) : TxAt(p) = t
                       /\ n \in vout[t] /\ <<t, n>> \notin GoneTo(b, i, j - 1)
                       /\ Spent(Viewed(t), n).vout = Left(GoneTo(b, i, j), t)
                       /\ UndoGood(b, i, j, UndoHeight(Viewed(t), n))
  <2> USE <1>SpendReplay
  <2> DEFINE M == MadeTo(b, i)
             G == GoneTo(b, i, j - 1)
             G2 == GoneTo(b, i, j)
  <2>0. i \in 1..(Len(vtx[b]) + 1) /\ i \in Nat \ {0} /\ j \in Nat \ {0}
    BY Zenon, IndexFacts
  <2>1. G2 = With(G, t, n)
    <3>1. GoneTo(b, i, j) = GoneTo(b, i, j - 1) \cup {InputAt(b, i, j)}
      BY ZenonT(30), <2>0, GoneStep
    <3> QED BY <3>1 DEF With
  <2>2. Placed(M)
    BY <2>0, PointPlaced
  <2> HIDE DEF M, G, G2
  <2>3. Left(G2, t) = Left(G, t) \ {n} /\ \A u \in Tx : u /= t => Left(G2, u) = Left(G, u)
    BY <2>1, LeftSpent
  <2>4. Replay(ViewMap, M, G) /\ Sound(M, G)
    BY DEF M, G
  <2>5. PICK p \in M : TxAt(p) = t
    BY <2>2, <2>4, ViewReplay
  <2>6. Viewed(t).vout = Left(G, t) /\ Left(G, t) /= {} /\ Viewed(t) = LeftCoins(G, t, Height[p[1]])
    BY <2>2, <2>4, <2>5, ViewReplay
  <2>7. n \in vout[t] /\ <<t, n>> \notin G
    BY <2>6 DEF Left
  <2>8. Spent(Viewed(t), n) = LeftCoins(G2, t, Height[p[1]])
    <3>2. Spent(Viewed(t), n) = [vout |-> Viewed(t).vout \ {n}, nHeight |-> Viewed(t).nHeight]
      BY ViewedOK, <1>SpentIs
    <3> QED BY <2>3, <2>6, <3>2 DEF LeftCoins
  <2>9. Spent(Viewed(t), n).vout = Left(G2, t)
    BY <2>8 DEF LeftCoins
  <2>10. \A q \in M : TxAt(q) = t => q = p
    BY <2>4, <2>5 DEF Sound
  <2>12. Replay([ViewMap EXCEPT ![t] = Meaning(Spent(Viewed(t), n))], M, G2)
    <3>1. \A q \in M : TxAt(q) = t =>
            Meaning(Spent(Viewed(t), n)) = Meaning(LeftCoins(G2, t, Height[q[1]]))
      BY <2>8, <2>10
    <3>2. (\A q \in M : TxAt(q) /= t) => Meaning(Spent(Viewed(t), n)) = NoCoins
      BY <2>5
    <3>3. DOMAIN ViewMap = Tx /\ \A q \in M : TxAt(q) \in Tx
      BY <2>2 DEF ViewMap, Placed
    <3> QED BY ZenonT(30), <2>3, <2>4, <3>1, <3>2, <3>3, ReplayWrite
  <2>13. UndoGood(b, i, j, UndoHeight(Viewed(t), n))
    BY <2>6, <2>9, <2>10 DEF LeftCoins, UndoHeight, IsPruned, UndoGood, M, G2
  <2>14. Sound(M, G2)
    <3>1. \A g \in G2 : g \in G \/ g[1] = t
      BY <2>1 DEF With
    <3> QED BY ZenonT(30), <2>4, <2>5, <3>1 DEF Sound
  <2> QED BY ZenonT(30), <2>5, <2>7, <2>9, <2>12, <2>13, <2>14 DEF M, G, G2
(* An entry is only erased when nothing is written. *)
<1>ModifyErases. ASSUME IInv, NEW t \in Tx, NEW coins \in SomeCoins, Modify(t, coins),
                        cacheView'[t] = NoEntry
                 PROVE  coins.vout = {}
  <2> USE <1>ModifyErases
  <2> QED BY ErasedFresh, ModifiedFlagsOK, Facts DEF IsPruned, Modify, ModifyCoins
<1> SUFFICES ASSUME IInv, BlockInv, ReplayInv, SpendInput
             PROVE  IInv' /\ ReplayInv' /\ Next
  OBVIOUS
<1> DEFINE b == job.block
           t == Input[1]
           n == Input[2]
           here == <<job.i, job.j>>
           height == UndoHeight(Viewed(t), n)
<1>1. job.step = "spend" /\ job /= NoJob /\ job.step \in ConnectSteps
  BY DEF SpendInput, Doing, NoJob, ConnectSteps
<1>2. /\ b \in Blocks /\ job.i \in 1..Len(vtx[b]) /\ job.j \in 1..InputCount(b, job.i)
      /\ Transaction = vtx[b][job.i] /\ Transaction \in Tx /\ Input = InputAt(b, job.i, job.j)
      /\ t \in Tx /\ n \in Outputs /\ Input = <<t, n>> /\ job = At("spend", b, job.i, job.j)
      /\ Len(vin[Transaction]) = InputCount(b, job.i)
  BY <1>1, JobFacts
<1>3. /\ Len(vtx[b]) \in Nat /\ Len(vin[Transaction]) \in Nat
      /\ job.i \in 1..(Len(vtx[b]) + 1) /\ job.j \in Nat \ {0}
  BY <1>2, BlockFacts
<1>4. TxPoint(job) = job.i /\ InPoint(job) = job.j - 1
  BY <1>1 DEF TxPoint, InPoint
<1>5. /\ Replay(ViewMap, MadeTo(b, job.i), GoneTo(b, job.i, job.j - 1))
      /\ Sound(MadeTo(b, job.i), GoneTo(b, job.i, job.j - 1))
      /\ Passed(job) /\ UndoRight(vtxundo, b, SpentPlaces(job))
  BY <1>1, <1>4 DEF ReplayInv, CallOK, MadeAt, GoneAt
<1>6. Input = <<t, n>>
  BY <1>2
<1>7. /\ SpendOutput(t, n) /\ UNCHANGED <<best, undo, verify>>
      /\ vtxundo' = [p \in DOMAIN vtxundo \cup {here} |-> IF p = here THEN height ELSE vtxundo[p]]
  BY DEF SpendInput
<1>8. n \in Viewed(t).vout
  BY <1>7 DEF SpendOutput
<1>9. BlockInv'
  BY BlockStepKeeps DEF BlockNext
<1>10. InputAt(b, job.i, job.j)[1] = t /\ InputAt(b, job.i, job.j)[2] = n
  BY <1>2
<1>11. InputAt(b, job.i, job.j) = <<t, n>>
  BY ZenonT(30), <1>2, <1>6
<1> HIDE DEF t, n, here, height
<1>12. /\ Replay([ViewMap EXCEPT ![t] = Meaning(Spent(Viewed(t), n))],
                 MadeTo(b, job.i), GoneTo(b, job.i, job.j))
       /\ Sound(MadeTo(b, job.i), GoneTo(b, job.i, job.j))
       /\ \E p \in MadeTo(b, job.i) : TxAt(p) = t
       /\ n \in vout[t] /\ <<t, n>> \notin GoneTo(b, job.i, job.j - 1)
       /\ Spent(Viewed(t), n).vout = Left(GoneTo(b, job.i, job.j), t)
       /\ UndoGood(b, job.i, job.j, UndoHeight(Viewed(t), n))
  BY ZenonT(30), <1>2, <1>5, <1>8, <1>11, <1>SpendReplay
<1>13. FreshView \/ VanishesSafely(t)
  <2>1. CASE verify /= "up"
    BY <2>1 DEF ReplayInv
  <2>2. CASE verify = "up"
    <3>1. SUFFICES ASSUME cacheView'[t] = NoEntry
                   PROVE  Available(TipCoins(t)) = {}
      BY DEF VanishesSafely
    <3>3. Spent(Viewed(t), n).vout = {}
      BY <1>ModifyErases, <1>2, <1>7, <1>8, <3>1, ViewedOK DEF SpendOutput, SomeCoins, Cleared,
         Spent, NewCoins
    <3>4. Left(GoneTo(b, job.i, job.j), t) = {}
      BY <1>12, <3>3
    <3>5. GoneTo(b, job.i, job.j) \subseteq Gone(best["tip"])
      <4>1. job.j \in 0..InputCount(b, job.i)
        BY <1>2, <1>3
      <4>2. GoneTo(b, job.i, job.j) \subseteq Gone(b)
        BY ZenonT(30), <1>2, <4>1, <1>GoneGrows
      <4> QED BY <1>1, <2>2, <4>2, PrevGood
    <3> QED BY <1>2, <3>4, <3>5, TipNone DEF Left
  <2> QED BY <2>1, <2>2
<1>14. /\ IInv' /\ Wrote(t, Spent(Viewed(t), n)) /\ VanishesSafely(t) /\ (FreshView => FreshView')
  BY <1>2, <1>7, <1>13, SpendStep
<1>15. Next
  BY <1>2, <1>7, <1>14 DEF Next, ChangeView
<1>16. /\ job'.block = b /\ job'.i = job.i
       /\ \/ job'.step = "create" /\ job.j = Len(vin[Transaction])
          \/ job'.step = "spend" /\ job'.j = job.j + 1
  <2>1. CASE job.j = Len(vin[Transaction])
    BY <2>1 DEF SpendInput, At
  <2>2. CASE job.j /= Len(vin[Transaction])
    BY <2>2, <1>2 DEF SpendInput, At
  <2> QED BY <2>1, <2>2
<1>17. job'.step \in ConnectSteps /\ TxPoint(job') = job.i /\ InPoint(job') = job.j
  <2> QED BY <1>2, <1>3, <1>16 DEF ConnectSteps, TxPoint, InPoint
<1>19. Passed(job')
  <2>1. /\ KernelGood(b) /\ \A k \in 1..(job.i - 1) : TxGood(b, k)
        /\ \A l \in 1..(job.j - 1) : InputGood(b, job.i, l)
    BY <1>1, <1>4, <1>5 DEF Passed
  <2>2. InputGood(b, job.i, job.j)
    BY ZenonT(30), <1>2, <1>10, <1>11, <1>12, <2>1 DEF InputGood
  <2> QED BY <1>3, <1>16, <1>17, <2>1, <2>2 DEF Passed
<1>20. UndoRight(vtxundo', b, SpentPlaces(job'))
  <2>1. vtxundo \in [SpentPlaces(job) -> Restorable] /\ vtxundo' \in [SpentPlaces(job') -> Restorable]
    BY <1>1, <1>9, <1>17 DEF BlockInv, VtxundoType
  <2>4. vtxundo'[here] = height
    BY <1>7, <2>1
  <2>5. UndoGood(b, here[1], here[2], vtxundo'[here])
    BY <1>12, <2>4 DEF here, height
  <2> QED BY <1>5, <1>7, <2>1, <2>5 DEF UndoRight
<1>21. ViewMap' = [ViewMap EXCEPT ![t] = Meaning(Spent(Viewed(t), n))]
       /\ TipMap' = TipMap /\ DbMap' = DbMap
  BY <1>14 DEF Wrote
<1>22. CallOK(ViewMap', vtxundo', job')
  BY <1>12, <1>16, <1>17, <1>19, <1>20, <1>21 DEF CallOK, ConnectSteps, DisconnectSteps, MadeAt,
     GoneAt
<1> QED BY <1>1, <1>7, <1>14, <1>15, <1>16, <1>17, <1>21, <1>22, ReplayGoesOn

(* The outputs are created.  The transaction was not made before, so that  *)
(* the tip that ConnectTip builds on does not have it.                     *)
LEMMA CreateReplays ==
  IInv /\ BlockInv /\ ReplayInv /\ CreateOutputs => IInv' /\ ReplayInv' /\ Next
(* No transaction of a block that ConnectBlock comes to was made before: a *)
(* coinbase because of the height in it, and another one because what it *)
(* spends would be spent. *)
<1>NotMade. ASSUME NEW b \in Blocks, NEW i \in 1..Len(vtx[b]), ChainGood(Prev[b]),
                   \A j \in 1..InputCount(b, i) : InputGood(b, i, j)
            PROVE  \A p \in MadeTo(b, i) : TxAt(p) /= vtx[b][i]
  <2> USE <1>NotMade
  <2> DEFINE t == vtx[b][i]
  <2>0. /\ Len(vtx[b]) \in Nat \ {0} /\ t \in Tx /\ (t \in CoinBase <=> i = 1)
        /\ Len(vin[t]) \in Nat /\ (t \in CoinBase <=> Len(vin[t]) = 0)
        /\ i \in 1..(Len(vtx[b]) + 1) /\ Prev[b] \in Block /\ b \in Block \ {Genesis}
    BY BlockFacts DEF Blocks
  <2>1. ASSUME NEW p \in MadeTo(b, i), TxAt(p) = t
        PROVE  FALSE
    <3>1. CASE i = 1
      <4>2. p[1] \in Chain[Prev[b]] /\ p[1] \in Blocks /\ p[2] \in 1..Len(vtx[p[1]])
        BY <2>0, <3>1, PositionFacts, MadeFirst
      <4>5. vtx[p[1]][1] = vtx[b][1]
        BY <2>0, <2>1, <3>1, <4>2, BlockFacts DEF TxAt
      <4>6. Height[p[1]] = Height[b]
        <5>1. \A c, d \in Block \ {Genesis} : vtx[c][1] = vtx[d][1] => Height[c] = Height[d]
          BY BlockAssumption
        <5> QED BY <2>0, <4>2, <4>5, <5>1 DEF Blocks
      <4> QED BY <4>2, <4>6, ChainStep DEF ChainGood
    <3>2. CASE i /= 1
      <4>1. 1 \in 1..Len(vin[t])
        BY <2>0, <3>2
      <4>3. vin[t][1] \in InputsOf(t)
        BY <2>0, <4>1, InputFacts
      <4>4. InputsOf(t) \subseteq GoneTo(b, i, 0)
        BY <2>0, <2>1, GoneFacts
      <4>5. InputGood(b, i, 1)
        BY Zenon, <4>1 DEF InputCount
      <4>6. vin[t][1] \notin GoneTo(b, i, 0)
        BY <4>5 DEF InputGood, InputAt
      <4> QED BY Zenon, <4>3, <4>4, <4>6
    <3> QED BY <3>1, <3>2
  <2> QED BY <2>1
(* UpdateCoins creates the outputs. *)
<1>CreateReplay. ASSUME IInv, NEW b \in Blocks, NEW i \in 1..Len(vtx[b]), NEW t \in Tx,
                        t = vtx[b][i],
                        Replay(ViewMap, MadeTo(b, i), GoneTo(b, i, Len(vin[t]))),
                        Sound(MadeTo(b, i), GoneTo(b, i, Len(vin[t]))),
                        \A p \in MadeTo(b, i) : TxAt(p) /= t
                 PROVE  /\ Replay([ViewMap EXCEPT ![t] = Meaning([vout |-> vout[t], nHeight |-> Height[b]])],
                                  MadeTo(b, i + 1), GoneTo(b, i + 1, 0))
                        /\ Sound(MadeTo(b, i + 1), GoneTo(b, i + 1, 0))
  <2> USE <1>CreateReplay
  <2> DEFINE M == MadeTo(b, i)
             M2 == MadeTo(b, i + 1)
             G == GoneTo(b, i, Len(vin[t]))
  <2>0. i \in Nat \ {0} /\ i + 1 \in 1..(Len(vtx[b]) + 1)
    BY Zenon, IndexFacts
  <2>1. M2 = M \cup {<<b, i>>} /\ TxAt(<<b, i>>) = t /\ <<b, i>>[1] = b
    BY <2>0, MadeNext DEF TxAt
  <2>2. GoneTo(b, i + 1, 0) = G
    BY GoneNext DEF InputAt, InputCount
  <2>3. Placed(M2)
    BY <2>0, PointPlaced
  <2>4. Replay(ViewMap, M, G) /\ Sound(M, G) /\ \A p \in M : TxAt(p) /= t
    OBVIOUS
  <2> HIDE DEF M, M2, G
  <2>5. Left(G, t) = vout[t]
    BY <2>4 DEF Sound, Left
  <2>6. \A p \in M2 : TxAt(p) = t => p[1] = b /\ p = <<b, i>>
    BY <2>1, <2>4
  <2>8. Replay([ViewMap EXCEPT ![t] = Meaning(LeftCoins(G, t, Height[b]))], M2, G)
    <3>1. \A p \in M2 : TxAt(p) = t =>
            Meaning(LeftCoins(G, t, Height[b])) = Meaning(LeftCoins(G, t, Height[p[1]]))
      BY <2>6
    <3>2. (\A p \in M2 : TxAt(p) /= t) => Meaning(LeftCoins(G, t, Height[b])) = NoCoins
      BY <2>1
    <3>3. DOMAIN ViewMap = Tx /\ \A p \in M2 : TxAt(p) \in Tx
      BY <2>3 DEF ViewMap, Placed
    <3>4. \A p : TxAt(p) /= t => (p \in M2 <=> p \in M)
      BY <2>1
    <3> QED BY ZenonT(30), <2>4, <3>1, <3>2, <3>3, <3>4, ReplayWrite
  <2> QED BY <2>1, <2>2, <2>4, <2>5, <2>6, <2>8 DEF M2, LeftCoins, Sound
(* The same for a transaction that is created. *)
<1>NewErases. ASSUME IInv, NEW t \in Tx, NEW coins \in SomeCoins, NEW coinbase \in BOOLEAN,
                     NewTransaction(t, coinbase, coins), cacheView'[t] = NoEntry
              PROVE  coins.vout = {}
  <2> USE <1>NewErases
  <2> QED BY ErasedFresh, NewFlagsOK, Facts DEF IsPruned, NewTransaction, ModifyNewCoins, NewFlags
<1> SUFFICES ASSUME IInv, BlockInv, ReplayInv, CreateOutputs
             PROVE  IInv' /\ ReplayInv' /\ Next
  OBVIOUS
<1> DEFINE b == job.block
           t == Transaction
           created == [vout |-> vout[t], nHeight |-> Height[b]]
           coinbase == t \in CoinBase
<1>1. job.step = "create" /\ job /= NoJob /\ job.step \in ConnectSteps
  BY DEF CreateOutputs, Doing, NoJob, ConnectSteps
<1>2. /\ b \in Blocks /\ job.i \in 1..Len(vtx[b]) /\ t = vtx[b][job.i] /\ t \in Tx
      /\ Len(vin[t]) = InputCount(b, job.i)
  BY <1>1, JobFacts
<1>3. /\ Len(vtx[b]) \in Nat /\ Len(vin[t]) \in Nat /\ job.i \in Nat \ {0}
      /\ job.i \in 1..(Len(vtx[b]) + 1) /\ job.i + 1 \in 1..(Len(vtx[b]) + 1)
  BY <1>2, BlockFacts
<1>4. /\ NewTransaction(t, coinbase, created) /\ UNCHANGED <<best, undo, vtxundo, verify>>
      /\ job' = ToTransaction(job.i + 1)
  BY DEF CreateOutputs
<1>5. BlockInv'
  BY BlockStepKeeps DEF BlockNext
<1>6. created \in NewCoins
  <2> QED BY <1>2, BlockFacts, BlockAssumption DEF NewCoins
<1>7. TxPoint(job) = job.i /\ InPoint(job) = Len(vin[t])
  BY <1>1, <1>2 DEF TxPoint, InPoint
<1>8. /\ Replay(ViewMap, MadeTo(b, job.i), GoneTo(b, job.i, Len(vin[t])))
      /\ Sound(MadeTo(b, job.i), GoneTo(b, job.i, Len(vin[t])))
      /\ Passed(job) /\ UndoRight(vtxundo, b, SpentPlaces(job))
  BY <1>1, <1>7 DEF ReplayInv, CallOK, MadeAt, GoneAt
<1>9. /\ KernelGood(b) /\ \A k \in 1..(job.i - 1) : TxGood(b, k)
      /\ \A l \in 1..Len(vin[t]) : InputGood(b, job.i, l)
  BY <1>1, <1>7, <1>8 DEF Passed
<1>10. \A p \in MadeTo(b, job.i) : TxAt(p) /= t
  BY <1>NotMade, <1>1, <1>2, <1>9, PrevGood
<1>11. TxGood(b, job.i)
  BY <1>2, <1>8, <1>9, <1>10 DEF TxGood
<1> HIDE DEF t, created, coinbase
<1>12. created.vout = vout[t] /\ created \in SomeCoins
  BY <1>6 DEF created, SomeCoins
<1>13. \/ verify /= "up" /\ FreshView /\ Available(TipCoins(t)) = {}
       \/ verify = "up" /\ VanishesSafely(t)
  <2>1. CASE verify /= "up"
    <3>2. Positions(best["tip"]) \subseteq MadeTo(b, job.i)
      BY <1>1, <1>2, <1>3, <2>1, MadeFacts, PrevGood
    <3>3. Available(TipCoins(t)) = {}
      BY <1>2, <1>10, <3>2, TipNone
    <3> QED BY <2>1, <3>3 DEF ReplayInv
  <2>2. CASE verify = "up"
    <3>1. SUFFICES ASSUME cacheView'[t] = NoEntry
                   PROVE  Available(TipCoins(t)) = {}
      BY <2>2 DEF VanishesSafely
    <3>2. created.vout = {}
      <4>1. coinbase \in BOOLEAN
        BY DEF coinbase
      <4> QED BY <1>2, <1>4, <1>12, <3>1, <4>1, <1>NewErases
    <3>3. Left(Gone(best["tip"]), t) = {}
      BY <1>12, <3>2 DEF Left
    <3> QED BY <1>2, <3>3, TipNone
  <2> QED BY <2>1, <2>2
<1>14. /\ IInv' /\ Wrote(t, created) /\ VanishesSafely(t)
       /\ FreshView /\ Available(TipCoins(t)) = {} => FreshView'
  <2>1. coinbase \in BOOLEAN
    BY DEF coinbase
  <2> QED BY <1>2, <1>4, <1>6, <1>13, <2>1, NewStep
<1>15. Next
  <2>1. coinbase \in BOOLEAN
    BY DEF coinbase
  <2> QED BY <1>2, <1>4, <1>6, <1>14, <2>1 DEF Next, ChangeView
<1>16. ViewMap' = [ViewMap EXCEPT ![t] = Meaning(created)] /\ TipMap' = TipMap /\ DbMap' = DbMap
  BY <1>14 DEF Wrote
<1>17. /\ Replay([ViewMap EXCEPT ![t] = Meaning(created)],
                 MadeTo(b, job.i + 1), GoneTo(b, job.i + 1, 0))
       /\ Sound(MadeTo(b, job.i + 1), GoneTo(b, job.i + 1, 0))
  BY ZenonT(30), <1>2, <1>8, <1>10, <1>CreateReplay DEF created
<1>18. /\ job'.step \in {"inputs", "create", "connected"} /\ job'.block = b
       /\ job'.step = "inputs" => job'.i = job.i + 1 /\ job'.j = 1
       /\ TxPoint(job') = job.i + 1 /\ InPoint(job') = 0
       /\ MadeAt(job') = MadeTo(b, job.i + 1) /\ GoneAt(job') = GoneTo(b, job.i + 1, 0)
  BY <1>2, <1>3, <1>4, ToTransactionPoint
<1>20. UndoRight(vtxundo', b, SpentPlaces(job')) /\ job'.step \in ConnectSteps
  BY <1>1, <1>4, <1>5, <1>8, <1>18 DEF ConnectSteps, BlockInv, VtxundoType
<1>21. CallOK(ViewMap', vtxundo', job')
  <2>1. Passed(job')
    BY <1>3, <1>9, <1>11, <1>18 DEF Passed
  <2>2. job'.step \notin DisconnectSteps
    BY <1>18 DEF DisconnectSteps
  <2> QED BY ZenonT(30), <1>16, <1>17, <1>18, <1>20, <2>1, <2>2 DEF CallOK
<1>22. verify /= "up" /\ FreshView => FreshView'
  BY <1>13, <1>14
<1> QED BY <1>1, <1>4, <1>14, <1>15, <1>16, <1>18, <1>20, <1>21, <1>22, ReplayGoesOn
=============================================================================
