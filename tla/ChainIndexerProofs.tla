------------------------- MODULE ChainIndexerProofs -------------------------
(***************************************************************************)
(* The wallet server's index loses no output, whatever its background      *)
(* thread, its requests and its tasks do at the same time, for any number  *)
(* of threads, outputs and blocks.                                         *)
(***************************************************************************)
EXTENDS ChainIndexer, WellFoundedInduction, TLAPS

Pcs == {"idle", "first", "next", "block", "again", "dead", "snapshot", "lock", "write",
        "check", "answer", "copy", "scan", "store", "import"}
Index == [indexedHeight : Int, chainTip : Int, outpoints : SUBSET Output]
Locals == [pc : Pcs, tip : Int, next : Int, todo : SUBSET Output, live : SUBSET Output,
           spent : SUBSET Output, state : Index \cup {NoFile}, task : {"none", "scan", "explorer"}]

\* A record of the index has every output up to its own indexedHeight.
Complete(rec, den, height) ==
  \A o \in Output \ den :
    Created[o] <= rec.indexedHeight /\ SpentAt[o] > height + ExplorerLead => o \in rec.outpoints

\* What a thread carries: outputs it found spent, and the state it will write.
Sound(c, den, height) ==
  /\ \A o \in c.spent : o \in den \/ SpentAt[o] <= height
  /\ c.pc \in {"lock", "write"} => c.state \in Index /\ Complete(c.state, den, height)

\* The background thread skips no block, and only fetches blocks the node has.
Follows(c, indexed, height) ==
  /\ c.tip <= height
  /\ c.pc \in {"next", "block", "again", "snapshot", "lock", "write"} => c.next <= indexed + 1
  /\ c.pc = "block" => c.next <= c.tip

TypeInv ==
  /\ nHeight \in Nat /\ index \in Index /\ file \in Index \cup {NoFile}
  /\ th \in [Thread -> Locals]

IInv ==
  /\ TypeInv
  /\ Complete(index, denied, nHeight) /\ (file # NoFile => Complete(file, denied, nHeight))
  /\ \A t \in Thread : Sound(th[t], denied, nHeight)
  /\ Follows(th[Sync], index.indexedHeight, nHeight)

(* A thread that has just begun or ended.                                  *)
LEMMA IdleLocals ==
  /\ Idle \in Locals /\ Idle.pc = "idle" /\ Idle.tip = 0 /\ Idle.next = 0 /\ Idle.spent = {}
  /\ Idle.task = "none"
  /\ \A den, height : Sound(Idle, den, height)
  /\ \A indexed \in Int, height \in Nat : Follows(Idle, indexed, height)
<1>1. /\ Idle \in Locals /\ Idle.pc = "idle" /\ Idle.tip = 0 /\ Idle.next = 0 /\ Idle.spent = {}
      /\ Idle.task = "none"
  BY DEF Idle, Locals, Pcs
<1> QED BY <1>1 DEF Sound, Follows

(* An index record stays complete as the chain grows and outputs are       *)
(* denied.                                                                 *)
LEMMA CompleteStays ==
  ASSUME NEW rec, NEW den, NEW more, den \subseteq more, NEW h \in Nat, NEW k \in Nat, h <= k,
         Complete(rec, den, h)
  PROVE  Complete(rec, more, k)
BY IndexerAssumption DEF Complete

LEMMA SoundStays ==
  ASSUME NEW c \in Locals, NEW den, NEW more, den \subseteq more, NEW h \in Nat, NEW k \in Nat,
         h <= k, Sound(c, den, h)
  PROVE  Sound(c, more, k)
<1>1. \A o \in c.spent : o \in more \/ SpentAt[o] <= k
  BY IndexerAssumption DEF Sound, Locals
<1> QED BY <1>1, CompleteStays DEF Sound

(* One thread moves on to c, and the node stays where it is.               *)
LEMMA StepFrame ==
  ASSUME IInv, NEW t \in Thread, NEW c \in Locals, th' = [th EXCEPT ![t] = c],
         nHeight' = nHeight, denied \subseteq denied',
         index' \in Index, file' \in Index \cup {NoFile},
         Complete(index', denied', nHeight),
         file' # NoFile => Complete(file', denied', nHeight),
         Sound(c, denied', nHeight),
         t = Sync => Follows(c, index'.indexedHeight, nHeight),
         t # Sync => index'.indexedHeight = index.indexedHeight
  PROVE  IInv'
<1>1. /\ th \in [Thread -> Locals] /\ nHeight \in Nat
      /\ \A u \in Thread : Sound(th[u], denied, nHeight)
      /\ Follows(th[Sync], index.indexedHeight, nHeight)
  BY DEF IInv, TypeInv
<1>2. th' \in [Thread -> Locals] /\ th'[t] = c /\ \A u \in Thread \ {t} : th'[u] = th[u]
  BY <1>1
<1>3. TypeInv'
  BY <1>1, <1>2 DEF TypeInv
<1>4. \A u \in Thread : Sound(th'[u], denied', nHeight)
  <2> SUFFICES ASSUME NEW u \in Thread PROVE Sound(th'[u], denied', nHeight)
    OBVIOUS
  <2>1. nHeight <= nHeight /\ th[u] \in Locals
    BY <1>1
  <2>2. Sound(th[u], denied', nHeight)
    BY <1>1, <2>1, SoundStays
  <2> QED BY <1>2, <2>2
<1>5. Follows(th'[Sync], index'.indexedHeight, nHeight)
  <2>1. Sync \in Thread
    BY DEF Thread
  <2> QED BY <1>1, <1>2, <2>1
<1> QED BY <1>1, <1>3, <1>4, <1>5 DEF IInv, Complete, Sound, Follows

(* What IInv says, with the threads apart.                                 *)
LEMMA Facts ==
  ASSUME IInv
  PROVE  /\ nHeight \in Nat /\ nHeight <= nHeight /\ index \in Index /\ file \in Index \cup {NoFile}
         /\ th \in [Thread -> Locals] /\ \A t \in Thread : th[t] \in Locals
         /\ Complete(index, denied, nHeight) /\ (file # NoFile => Complete(file, denied, nHeight))
         /\ \A t \in Thread : Sound(th[t], denied, nHeight)
         /\ Sync \in Thread /\ Follows(th[Sync], index.indexedHeight, nHeight)
BY DEF IInv, TypeInv, Thread

(* A step of a thread that leaves the index and the file alone.            *)
LEMMA QuietStep ==
  ASSUME IInv, NEW t \in Thread, NEW c \in Locals, Go(t, c), denied \subseteq denied',
         UNCHANGED <<nHeight, index, file>>, Sound(c, denied', nHeight),
         t = Sync => Follows(c, index.indexedHeight, nHeight)
  PROVE  IInv'
<1>1. /\ Complete(index, denied', nHeight) /\ (file # NoFile => Complete(file, denied', nHeight))
  BY Facts, CompleteStays
<1> QED BY <1>1, Facts, StepFrame, Zenon DEF Go

(* A step of another thread than the background thread that changes the    *)
(* outputs and chainTip.                                                   *)
LEMMA OutputsStep ==
  ASSUME IInv, NEW t \in Thread, NEW c \in Locals, Go(t, c), t # Sync,
         UNCHANGED <<nHeight, file, denied>>, Sound(c, denied, nHeight),
         index' \in Index, index'.indexedHeight = index.indexedHeight,
         \A o \in index.outpoints \ index'.outpoints :
           o \in denied \/ SpentAt[o] <= nHeight + ExplorerLead
  PROVE  IInv'
<1>1. Complete(index', denied, nHeight)
  <2> SUFFICES ASSUME NEW o \in Output \ denied, Created[o] <= index.indexedHeight,
                      SpentAt[o] > nHeight + ExplorerLead
               PROVE  o \in index'.outpoints
    BY DEF Complete
  <2>1. o \in index.outpoints
    BY Facts DEF Complete
  <2>2. ~(SpentAt[o] <= nHeight + ExplorerLead)
    BY Facts, IndexerAssumption
  <2> QED BY <2>1, <2>2
<1> QED BY <1>1, Facts, StepFrame, Zenon DEF Go

(* The node gets a block, or its memory pool changes.                      *)
LEMMA NodeStep ==
  ASSUME IInv, NewBlock \/ \E o \in Output : MempoolChange(o)
  PROVE  IInv'
<1>1. /\ nHeight' \in Nat /\ nHeight <= nHeight' /\ UNCHANGED <<index, file, th, denied>>
  BY Facts DEF NewBlock, MempoolChange
<1>2. /\ Complete(index, denied, nHeight')
      /\ file # NoFile => Complete(file, denied, nHeight')
      /\ \A t \in Thread : Sound(th[t], denied, nHeight')
  BY <1>1, Facts, CompleteStays, SoundStays
<1>3. Follows(th[Sync], index.indexedHeight, nHeight')
  <2>1. th[Sync].tip \in Int
    BY Facts DEF Locals
  <2> QED BY <1>1, <2>1, Facts DEF Follows
<1>4. TypeInv'
  BY <1>1, Facts DEF TypeInv
<1> QED BY <1>1, <1>2, <1>3, <1>4 DEF IInv, Complete, Sound, Follows

-----------------------------------------------------------------------------
(* persistState. *)

(* A thread ends.                                                          *)
LEMMA DoneStep ==
  ASSUME IInv, NEW t \in Thread, Done(t), UNCHANGED <<nHeight, index, file, denied>>
  PROVE  IInv'
BY Facts, IdleLocals, QuietStep DEF Done, Index

(* The snapshot is as complete as the index it is taken from.              *)
LEMMA SnapshotStep ==
  ASSUME IInv, NEW t \in Thread, SnapshotState(t)
  PROVE  IInv'
<1> DEFINE c == [th[t] EXCEPT !.pc = "lock", !.state = index]
<1>1. th[t] \in Locals /\ index \in Index /\ th[t].pc = "snapshot"
  BY Facts DEF SnapshotState, At
<1>2. /\ c \in Locals /\ c.pc = "lock" /\ c.state = index
      /\ c.tip = th[t].tip /\ c.next = th[t].next /\ c.spent = th[t].spent
  BY <1>1, Zenon DEF Locals, Pcs
<1>3. Go(t, c) /\ UNCHANGED <<nHeight, index, file, denied>>
  BY DEF SnapshotState, node
<1> HIDE DEF c
<1>4. Sound(c, denied, nHeight)
  BY <1>1, <1>2, Facts DEF Sound
<1>5. t = Sync => Follows(c, index.indexedHeight, nHeight)
  BY <1>1, <1>2, Facts DEF Follows
<1> QED BY <1>2, <1>3, <1>4, <1>5, QuietStep

(* The lock is taken, or taking it throws.                                 *)
LEMMA LockStep ==
  ASSUME IInv, NEW t \in Thread, LockFile(t)
  PROVE  IInv'
<1>1. th[t] \in Locals /\ th[t].pc = "lock" /\ UNCHANGED <<nHeight, index, file, denied>>
  BY Facts DEF LockFile, At, node
<1>2. CASE Goto(t, "write")
  <2> DEFINE c == [th[t] EXCEPT !.pc = "write"]
  <2>1. /\ c \in Locals /\ c.pc = "write" /\ c.state = th[t].state
        /\ c.tip = th[t].tip /\ c.next = th[t].next /\ c.spent = th[t].spent
    BY <1>1 DEF Locals, Pcs
  <2>2. Go(t, c)
    BY <1>2 DEF Goto
  <2> HIDE DEF c
  <2>3. Sound(c, denied, nHeight)
    BY <1>1, <2>1, Facts DEF Sound
  <2>4. t = Sync => Follows(c, index.indexedHeight, nHeight)
    BY <1>1, <2>1, Facts DEF Follows
  <2> QED BY <1>1, <2>1, <2>2, <2>3, <2>4, QuietStep
<1>3. CASE Go(t, [Idle EXCEPT !.pc = "dead"])
  <2> DEFINE c == [Idle EXCEPT !.pc = "dead"]
  <2>1. c \in Locals /\ c.pc = "dead" /\ c.spent = {} /\ c.tip = 0
    BY DEF Locals, Pcs, Idle
  <2>2. Go(t, c)
    BY <1>3
  <2> HIDE DEF c
  <2>3. Sound(c, denied, nHeight) /\ Follows(c, index.indexedHeight, nHeight)
    BY <2>1, Facts DEF Sound, Follows
  <2> QED BY <1>1, <2>1, <2>2, <2>3, QuietStep
<1>4. CASE Done(t)
  BY <1>1, <1>4, DoneStep
<1> QED BY <1>2, <1>3, <1>4 DEF LockFile

(* The file gets a complete record, if an older one.                       *)
LEMMA WriteStep ==
  ASSUME IInv, NEW t \in Thread, WriteStateToDisk(t)
  PROVE  IInv'
<1>1. /\ th[t] \in Locals /\ th[t].pc = "write" /\ UNCHANGED <<nHeight, index, denied>>
      /\ file' = th[t].state
  BY Facts DEF WriteStateToDisk, At, node
<1>2. file' \in Index /\ Complete(file', denied, nHeight)
  BY <1>1, Facts DEF Sound
<1>3. ASSUME NEW c \in Locals, Go(t, c), Sound(c, denied, nHeight),
             t = Sync => Follows(c, index.indexedHeight, nHeight)
      PROVE  IInv'
  BY <1>1, <1>2, <1>3, Facts, StepFrame, Zenon DEF Go
<1>4. CASE t \in Worker
  <2>1. Go(t, Idle)
    BY <1>4 DEF WriteStateToDisk, AfterPersist, Done
  <2> QED BY <1>3, <2>1, Facts, IdleLocals DEF Index
<1>5. CASE t \notin Worker
  <2> DEFINE c == [th[t] EXCEPT !.pc = IF t = Sync THEN "again" ELSE "answer", !.state = NoFile]
  <2>1. /\ c \in Locals /\ c.pc = (IF t = Sync THEN "again" ELSE "answer")
        /\ c.tip = th[t].tip /\ c.next = th[t].next /\ c.spent = th[t].spent
    BY <1>1, Zenon DEF Locals, Pcs
  <2>2. Go(t, c)
    BY <1>5 DEF WriteStateToDisk, AfterPersist
  <2> HIDE DEF c
  <2>3. Sound(c, denied, nHeight)
    BY <1>1, <2>1, Facts DEF Sound
  <2>4. t = Sync => Follows(c, index.indexedHeight, nHeight)
    BY <1>1, <2>1, Facts DEF Follows
  <2> QED BY <1>3, <2>1, <2>2, <2>3, <2>4
<1> QED BY <1>4, <1>5

-----------------------------------------------------------------------------
(* syncToTip. *)

(* A thread's locals with another pc.                                      *)
LEMMA LocalsAt ==
  ASSUME NEW d \in Locals, NEW pc \in Pcs
  PROVE  LET c == [d EXCEPT !.pc = pc]
         IN  /\ c \in Locals /\ c.pc = pc /\ c.tip = d.tip /\ c.next = d.next
             /\ c.spent = d.spent /\ c.todo = d.todo /\ c.live = d.live /\ c.state = d.state
BY DEF Locals

(* Math.min of two heights.                                                *)
LEMMA MinOfTwo ==
  ASSUME NEW a \in Int, NEW b \in Int
  PROVE  Min({a, b}) \in {a, b} /\ Min({a, b}) <= a /\ Min({a, b}) <= b
<1>1. \E x \in {a, b} : \A y \in {a, b} : x <= y
  OBVIOUS
<1>2. Min({a, b}) \in {a, b} /\ \A y \in {a, b} : Min({a, b}) <= y
  BY <1>1 DEF Min
<1> QED BY <1>2

LEMMA ReadTipStep ==
  ASSUME IInv, ReadTip
  PROVE  IInv'
<1> DEFINE pc == IF At(Sync, "idle") THEN "first" ELSE "next"
           c == [th[Sync] EXCEPT !.tip = nHeight, !.pc = pc]
<1>1. th[Sync] \in Locals /\ nHeight \in Nat /\ th[Sync].pc \in {"idle", "again"}
  BY Facts DEF ReadTip, At
<1>3. Go(Sync, c) /\ UNCHANGED <<nHeight, index, file, denied>>
  BY DEF ReadTip, node
<1>6. pc \in Pcs /\ pc \in {"first", "next"} /\ (pc = "next" => th[Sync].pc = "again")
  BY <1>1 DEF Pcs, At
<1> HIDE DEF pc
<1>2. c \in Locals /\ c.pc = pc /\ c.tip = nHeight /\ c.next = th[Sync].next /\ c.spent = th[Sync].spent
  <2> DEFINE d == [th[Sync] EXCEPT !.tip = nHeight]
  <2>1. d \in Locals /\ d.tip = nHeight /\ d.next = th[Sync].next /\ d.spent = th[Sync].spent
    BY <1>1 DEF Locals
  <2>2. c = [d EXCEPT !.pc = pc]
    OBVIOUS
  <2> HIDE DEF d
  <2> QED BY <1>6, <2>1, <2>2, LocalsAt
<1> HIDE DEF c
<1>4. Sound(c, denied, nHeight)
  BY <1>1, <1>2, <1>6, Facts DEF Sound
<1>5. Follows(c, index.indexedHeight, nHeight)
  BY <1>1, <1>2, <1>6, Facts DEF Follows
<1> QED BY <1>2, <1>3, <1>4, <1>5, Facts, QuietStep

(* A batch begins at most one block after the index.                       *)
LEMMA BeginBatchStep ==
  ASSUME IInv, BeginBatch
  PROVE  IInv'
<1> DEFINE next == IF At(Sync, "first") THEN index.indexedHeight + 1 ELSE th[Sync].next
           last == Min({th[Sync].tip, next + SYNC_BATCH_SIZE - 1})
           c == [th[Sync] EXCEPT !.pc = "block", !.next = next, !.tip = last]
<1>1. /\ th[Sync] \in Locals /\ nHeight \in Nat /\ th[Sync].pc \in {"first", "next"}
      /\ index \in Index /\ UNCHANGED <<nHeight, file, denied>>
      /\ index' = [index EXCEPT !.chainTip = th[Sync].tip]
  BY Facts DEF BeginBatch, At, node
<1>2. /\ th[Sync].tip \in Int /\ th[Sync].next \in Int /\ index.indexedHeight \in Int
      /\ th[Sync].tip <= nHeight
      /\ th[Sync].pc = "next" => th[Sync].next <= index.indexedHeight + 1
  BY <1>1, Facts DEF Locals, Index, Follows
<1>3. /\ index' \in Index /\ index'.indexedHeight = index.indexedHeight
      /\ index'.outpoints = index.outpoints
  BY <1>1, <1>2 DEF Index
<1>4. next \in Int /\ next <= index.indexedHeight + 1
  BY <1>1, <1>2 DEF At
<1>5. Go(Sync, IF next <= th[Sync].tip THEN c ELSE Idle)
  BY DEF BeginBatch
<1>6. Complete(index', denied, nHeight)
  BY <1>3, Facts DEF Complete
<1>7. ASSUME NEW d \in Locals, Go(Sync, d), Sound(d, denied, nHeight),
             Follows(d, index.indexedHeight, nHeight)
      PROVE  IInv'
  BY <1>1, <1>3, <1>6, <1>7, Facts, StepFrame, Zenon DEF Go
<1>8. CASE ~(next <= th[Sync].tip)
  <2>1. Go(Sync, Idle)
    BY <1>5, <1>8
  <2> QED BY <1>2, <1>7, <2>1, Facts, IdleLocals
<1>9. CASE next <= th[Sync].tip
  <2> HIDE DEF next
  <2>1. SYNC_BATCH_SIZE \in Nat /\ SYNC_BATCH_SIZE >= 1
    BY IndexerAssumption
  <2>2. last \in Int /\ last <= th[Sync].tip /\ next <= last
    <3> DEFINE full == next + SYNC_BATCH_SIZE - 1
    <3>1. full \in Int /\ next <= full
      BY <1>4, <2>1
    <3>2. last = Min({th[Sync].tip, full})
      OBVIOUS
    <3> HIDE DEF full, last
    <3>3. Min({th[Sync].tip, full}) \in {th[Sync].tip, full} /\ Min({th[Sync].tip, full}) <= th[Sync].tip
      BY <1>2, <3>1, MinOfTwo, Zenon
    <3> QED BY <1>2, <1>9, <3>1, <3>2, <3>3
  <2> HIDE DEF last
  <2>3. /\ c \in Locals /\ c.pc = "block" /\ c.next = next /\ c.tip = last /\ c.spent = th[Sync].spent
    BY <1>1, <1>4, <2>2, Zenon DEF Locals, Pcs
  <2>4. Go(Sync, c)
    BY <1>5, <1>9
  <2> HIDE DEF c
  <2>5. Sound(c, denied, nHeight)
    BY <1>1, <2>3, Facts DEF Sound
  <2>6. Follows(c, index.indexedHeight, nHeight)
    BY <1>1, <1>2, <1>4, <2>2, <2>3 DEF Follows
  <2> QED BY <1>7, <2>3, <2>4, <2>5, <2>6
<1> QED BY <1>8, <1>9

(* A block is added: what it creates is in the index or was not returned   *)
(* by the node, and nothing it spends is unspent.                          *)
LEMMA IndexBlockStep ==
  ASSUME IInv, IndexBlock
  PROVE  IInv'
<1> DEFINE h == th[Sync].next
           pc == IF h = th[Sync].tip THEN "snapshot" ELSE "block"
           c == [th[Sync] EXCEPT !.next = h + 1, !.pc = pc]
<1>1. /\ th[Sync] \in Locals /\ nHeight \in Nat /\ th[Sync].pc = "block" /\ index \in Index
      /\ UNCHANGED <<nHeight, file>> /\ Go(Sync, c)
  BY Facts DEF IndexBlock, At, node
<1>2. PICK skipped :
        /\ skipped \subseteq Made({h}) /\ denied' = denied \cup skipped
        /\ index' = [index EXCEPT !.outpoints = (@ \cup (Made({h}) \ skipped)) \ Gone({h}),
                                  !.indexedHeight = h]
  BY Zenon DEF IndexBlock
<1>3. /\ th[Sync].tip \in Int /\ h \in Int /\ index.indexedHeight \in Int
      /\ th[Sync].tip <= nHeight /\ h <= index.indexedHeight + 1 /\ h <= th[Sync].tip
  BY <1>1, Facts DEF Locals, Index, Follows
<1>12. pc \in Pcs /\ pc \in {"snapshot", "block"} /\ (pc = "block" => h # th[Sync].tip)
  BY DEF Pcs
<1> HIDE DEF pc
<1>4. /\ c \in Locals /\ c.pc = pc /\ c.next = h + 1 /\ c.tip = th[Sync].tip
      /\ c.spent = th[Sync].spent
  <2> DEFINE d == [th[Sync] EXCEPT !.next = h + 1]
  <2>1. d \in Locals /\ d.next = h + 1 /\ d.tip = th[Sync].tip /\ d.spent = th[Sync].spent
    BY <1>1, <1>3 DEF Locals
  <2>2. c = [d EXCEPT !.pc = pc]
    OBVIOUS
  <2> HIDE DEF d
  <2> QED BY <1>12, <2>1, <2>2, LocalsAt
<1>5. /\ index' \in Index /\ index'.indexedHeight = h
      /\ index'.outpoints = (index.outpoints \cup (Made({h}) \ skipped)) \ Gone({h})
  BY <1>1, <1>2, <1>3, Zenon DEF Index, Made
<1> HIDE DEF c
<1>6. Complete(index', denied', nHeight)
  <2>0. index'.indexedHeight = h
    BY <1>5
  <2> SUFFICES ASSUME NEW o \in Output \ denied', Created[o] <= h, SpentAt[o] > nHeight + ExplorerLead
               PROVE  o \in index'.outpoints
    BY <2>0, Zenon DEF Complete
  <2>1. Created[o] \in Nat /\ SpentAt[o] \in Nat /\ ExplorerLead \in Nat
    BY IndexerAssumption
  <2>2. o \notin Gone({h})
    BY <1>1, <1>3, <2>1 DEF Gone
  <2>3. CASE Created[o] = h
    BY <1>2, <1>5, <2>2, <2>3 DEF Made
  <2>4. CASE Created[o] # h
    <3>1. Created[o] <= index.indexedHeight
      BY <1>3, <2>1, <2>4
    <3>2. o \in Output \ denied
      BY <1>2
    <3>3. o \in index.outpoints
      BY <3>1, <3>2, Facts DEF Complete
    <3> QED BY <1>5, <2>2, <3>3
  <2> QED BY <2>3, <2>4
<1>7. denied \subseteq denied'
  BY <1>2
<1>8. file' # NoFile => Complete(file', denied', nHeight)
  BY <1>1, <1>7, Facts, CompleteStays
<1>9. Sound(c, denied', nHeight)
  <2>1. Sound(th[Sync], denied', nHeight)
    BY <1>7, Facts, SoundStays
  <2> QED BY <1>4, <1>12, <2>1 DEF Sound
<1>10. Follows(c, index'.indexedHeight, nHeight)
  BY <1>1, <1>3, <1>4, <1>5, <1>12 DEF Follows
<1>11. file' \in Index \cup {NoFile} /\ Sync \in Thread /\ th' = [th EXCEPT ![Sync] = c]
  BY <1>1, Facts DEF Go
<1> QED BY <1>1, <1>4, <1>5, <1>6, <1>7, <1>8, <1>9, <1>10, <1>11, StepFrame, Zenon

-----------------------------------------------------------------------------
(* Requests. *)

Found(d, todo, live, spent) == [d EXCEPT !.todo = todo, !.live = live, !.spent = spent]

LEMMA LocalsFound ==
  ASSUME NEW d \in Locals, NEW todo \in SUBSET Output, NEW live \in SUBSET Output,
         NEW spent \in SUBSET Output
  PROVE  /\ Found(d, todo, live, spent) \in Locals /\ Found(d, todo, live, spent).pc = d.pc
         /\ Found(d, todo, live, spent).spent = spent
BY Zenon DEF Locals, Found

LEMMA NewRequestStep ==
  ASSUME IInv, NEW r \in Request, NewRequest(r)
  PROVE  IInv'
<1> DEFINE c == [Idle EXCEPT !.pc = "check", !.todo = ReadIndexedOnly]
<1>1. index \in Index /\ ReadIndexedOnly \in SUBSET Output
  BY Facts DEF Index, ReadIndexedOnly
<1>2. c \in Locals /\ c.pc = "check" /\ c.spent = {}
  BY <1>1, IdleLocals, Zenon DEF Locals, Pcs
<1>3. Go(r, c) /\ UNCHANGED <<nHeight, index, file, denied>> /\ r \in Thread /\ r # Sync
  BY IndexerAssumption DEF NewRequest, node, Thread
<1> HIDE DEF c
<1>4. Sound(c, denied, nHeight)
  BY <1>2 DEF Sound
<1> QED BY <1>2, <1>3, <1>4, QuietStep

(* An output found spent is spent by a block, or denied.                   *)
LEMMA CheckOutputStep ==
  ASSUME IInv, NEW r \in Request, NEW o \in Output, CheckOutput(r, o)
  PROVE  IInv'
<1>1. /\ th[r] \in Locals /\ th[r].pc = "check" /\ UNCHANGED <<nHeight, index, file>>
      /\ r \in Thread /\ r # Sync
  BY Facts, IndexerAssumption DEF CheckOutput, At, node, Thread
<1>2. PICK fails :
        /\ Go(r, [th[r] EXCEPT !.todo = @ \ {o},
                     !.live = IF fails \/ UnspentOnNode(o) THEN @ \cup {o} ELSE @,
                     !.spent = IF fails \/ UnspentOnNode(o) THEN @ ELSE @ \cup {o}])
        /\ denied' = IF (fails \/ UnspentOnNode(o)) \/ SpentAt[o] <= nHeight
                     THEN denied ELSE denied \cup {o}
  BY Zenon DEF CheckOutput
<1> DEFINE unspent == fails \/ UnspentOnNode(o)
           todo == th[r].todo \ {o}
           live == IF unspent THEN th[r].live \cup {o} ELSE th[r].live
           spent == IF unspent THEN th[r].spent ELSE th[r].spent \cup {o}
           c == Found(th[r], todo, live, spent)
<1>3. Go(r, c)
  BY <1>2 DEF Found
<1>4. todo \in SUBSET Output /\ live \in SUBSET Output /\ spent \in SUBSET Output
  BY <1>1 DEF Locals
<1>5. denied \subseteq denied' /\ \A u \in spent : u \in th[r].spent \/ u \in denied' \/ SpentAt[u] <= nHeight
  BY <1>2
<1> HIDE DEF unspent, todo, live, spent
<1>6. c \in Locals /\ c.pc = th[r].pc /\ c.spent = spent
  BY <1>1, <1>4, LocalsFound
<1> HIDE DEF c
<1>7. Sound(th[r], denied', nHeight)
  BY <1>1, <1>5, Facts, SoundStays
<1>8. Sound(c, denied', nHeight)
  BY <1>1, <1>5, <1>6, <1>7 DEF Sound
<1> QED BY <1>1, <1>3, <1>5, <1>6, <1>8, QuietStep

(* What a request removes was found spent.                                 *)
LEMMA RemoveSpentStep ==
  ASSUME IInv, NEW r \in Request, RemoveSpent(r)
  PROVE  IInv'
<1> DEFINE c == [th[r] EXCEPT !.pc = "snapshot", !.spent = {}]
<1>1. /\ th[r] \in Locals /\ th[r].pc = "check" /\ UNCHANGED <<nHeight, file, denied>>
      /\ r \in Thread /\ r # Sync /\ index \in Index /\ Go(r, c)
      /\ index' = [index EXCEPT !.outpoints = @ \ th[r].spent]
  BY Facts, IndexerAssumption DEF RemoveSpent, At, node, Thread
<1>2. c \in Locals /\ c.pc = "snapshot" /\ c.spent = {}
  BY <1>1, Zenon DEF Locals, Pcs
<1>3. /\ index' \in Index /\ index'.indexedHeight = index.indexedHeight
      /\ index'.outpoints = index.outpoints \ th[r].spent
  BY <1>1 DEF Index
<1> HIDE DEF c
<1>4. Sound(c, denied, nHeight)
  BY <1>2 DEF Sound
<1>5. \A o \in index.outpoints \ index'.outpoints : o \in denied \/ SpentAt[o] <= nHeight + ExplorerLead
  <2> SUFFICES ASSUME NEW o \in index.outpoints, o \in th[r].spent
               PROVE  o \in denied \/ SpentAt[o] <= nHeight + ExplorerLead
    BY <1>3
  <2>1. o \in denied \/ SpentAt[o] <= nHeight
    BY <1>1, Facts DEF Sound
  <2>2. SpentAt[o] \in Nat /\ ExplorerLead \in Nat /\ nHeight \in Nat
    BY <1>1, Facts, IndexerAssumption DEF Index
  <2> QED BY <2>1, <2>2
<1> QED BY <1>1, <1>2, <1>3, <1>4, <1>5, OutputsStep

LEMMA AnswerStep ==
  ASSUME IInv, NEW r \in Request, Answer(r)
  PROVE  IInv'
<1>1. Go(r, Idle) /\ UNCHANGED <<nHeight, index, file, denied>> /\ r \in Thread /\ r # Sync
  BY IndexerAssumption DEF Answer, node, Thread
<1> QED BY <1>1, IdleLocals, QuietStep

-----------------------------------------------------------------------------
(* Tasks. *)

Started(d, task, pc, tip) == [d EXCEPT !.task = task, !.pc = pc, !.tip = tip]

LEMMA LocalsTask ==
  ASSUME NEW d \in Locals, NEW task \in {"scan", "explorer"}, NEW pc \in Pcs, NEW tip \in Int
  PROVE  /\ Started(d, task, pc, tip) \in Locals /\ Started(d, task, pc, tip).pc = pc
         /\ Started(d, task, pc, tip).spent = d.spent
<1> DEFINE e == [d EXCEPT !.task = task]
           f == [e EXCEPT !.pc = pc]
           g == [f EXCEPT !.tip = tip]
<1>1. e \in Locals /\ e.spent = d.spent
  BY DEF Locals
<1> HIDE DEF e
<1>2. f \in Locals /\ f.pc = pc /\ f.spent = d.spent
  BY <1>1, LocalsAt
<1> HIDE DEF f
<1>3. g \in Locals /\ g.pc = pc /\ g.spent = d.spent
  BY <1>2 DEF Locals
<1> QED BY <1>3 DEF Started, e, f

LEMMA StartTaskStep ==
  ASSUME IInv, NEW w \in Worker, NEW task \in {"scan", "explorer"}, StartTask(w, task)
  PROVE  IInv'
<1> DEFINE pc == IF task = "scan" THEN "copy" ELSE "import"
           tip == IF task = "scan" THEN nHeight ELSE 0
           c == Started(Idle, task, pc, tip)
<1>1. Go(w, c) /\ UNCHANGED <<nHeight, index, file, denied>> /\ w \in Thread /\ w # Sync
  BY IndexerAssumption DEF StartTask, node, Thread, Started
<1>2. pc \in Pcs /\ pc \in {"copy", "import"} /\ tip \in Int
  BY Facts DEF Pcs
<1> HIDE DEF pc, tip
<1>4. c \in Locals /\ c.pc = pc /\ c.spent = {}
  BY <1>2, IdleLocals, LocalsTask
<1> HIDE DEF c
<1>5. Sound(c, denied, nHeight)
  BY <1>2, <1>4 DEF Sound
<1> QED BY <1>1, <1>4, <1>5, QuietStep

LEMMA CopyIndexedStep ==
  ASSUME IInv, NEW w \in Worker, CopyIndexed(w)
  PROVE  IInv'
<1> DEFINE c == [th[w] EXCEPT !.pc = "scan", !.live = ReadIndexedOnly, !.next = index.indexedHeight + 1]
<1>1. /\ th[w] \in Locals /\ Go(w, c) /\ UNCHANGED <<nHeight, index, file, denied>>
      /\ w \in Thread /\ w # Sync
  BY Facts, IndexerAssumption DEF CopyIndexed, node, Thread
<1>2. ReadIndexedOnly \in SUBSET Output /\ index.indexedHeight + 1 \in Int
  BY Facts DEF Index, ReadIndexedOnly
<1>3. c \in Locals /\ c.pc = "scan" /\ c.spent = th[w].spent
  BY <1>1, <1>2, Zenon DEF Locals, Pcs
<1> HIDE DEF c
<1>4. Sound(c, denied, nHeight)
  BY <1>1, <1>3, Facts DEF Sound
<1> QED BY <1>1, <1>3, <1>4, QuietStep

Scanned(d, live) == [d EXCEPT !.pc = "store", !.live = live, !.next = 0]

LEMMA LocalsMerged ==
  ASSUME NEW d \in Locals, NEW live \in SUBSET Output
  PROVE  Scanned(d, live) \in Locals /\ Scanned(d, live).pc = "store" /\ Scanned(d, live).spent = d.spent
<1> DEFINE e == [d EXCEPT !.pc = "store"]
           f == [e EXCEPT !.live = live]
           g == [f EXCEPT !.next = 0]
<1>1. e \in Locals /\ e.pc = "store" /\ e.spent = d.spent
  BY LocalsAt, Zenon DEF Pcs
<1> HIDE DEF e
<1>2. f \in Locals /\ f.pc = "store" /\ f.spent = d.spent
  BY <1>1 DEF Locals
<1> HIDE DEF f
<1>3. g \in Locals /\ g.pc = "store" /\ g.spent = d.spent
  BY <1>2 DEF Locals
<1> QED BY <1>3 DEF Scanned, e, f

(* A scan only sets chainTip, and may find nothing.                        *)
LEMMA ScanBlocksStep ==
  ASSUME IInv, NEW w \in Worker, ScanBlocks(w)
  PROVE  IInv'
<1>1. /\ th[w] \in Locals /\ th[w].pc = "scan" /\ UNCHANGED <<nHeight, file, denied>>
      /\ w \in Thread /\ w # Sync /\ index \in Index
      /\ index' = [index EXCEPT !.chainTip = th[w].tip]
  BY Facts, IndexerAssumption DEF ScanBlocks, At, node, Thread
<1>2. /\ index' \in Index /\ index'.indexedHeight = index.indexedHeight
      /\ index'.outpoints = index.outpoints
  BY <1>1 DEF Index, Locals
<1>3. ASSUME NEW c \in Locals, Go(w, c), Sound(c, denied, nHeight)
      PROVE  IInv'
  BY <1>1, <1>2, <1>3, OutputsStep
<1>4. PICK scanned :
        LET merged == th[w].live \cup (Made(scanned) \ Gone(scanned)) IN
          \/ Done(w)
          \/ Go(w, [th[w] EXCEPT !.pc = "store", !.live = merged, !.next = 0])
  BY Zenon DEF ScanBlocks
<1>5. CASE Done(w)
  BY <1>3, <1>5, IdleLocals DEF Done
<1>6. CASE ~Done(w)
  <2> DEFINE merged == th[w].live \cup (Made(scanned) \ Gone(scanned))
             c == Scanned(th[w], merged)
  <2>1. merged \in SUBSET Output
    BY <1>1 DEF Locals, Made
  <2>2. Go(w, c)
    BY <1>4, <1>6 DEF Scanned
  <2> HIDE DEF merged
  <2>3. c \in Locals /\ c.pc = "store" /\ c.spent = th[w].spent
    BY <1>1, <2>1, LocalsMerged
  <2> HIDE DEF c
  <2>4. Sound(c, denied, nHeight)
    BY <1>1, <2>3, Facts DEF Sound
  <2> QED BY <1>3, <2>2, <2>3, <2>4
<1> QED BY <1>5, <1>6

LEMMA StoreMergedStep ==
  ASSUME IInv, NEW w \in Worker, StoreMerged(w)
  PROVE  IInv'
<1> DEFINE c == [Idle EXCEPT !.pc = "snapshot", !.task = "scan"]
<1>1. /\ th[w] \in Locals /\ UNCHANGED <<nHeight, file, denied>> /\ Go(w, c)
      /\ w \in Thread /\ w # Sync /\ index \in Index
      /\ index' = [index EXCEPT !.chainTip = th[w].tip, !.outpoints = @ \cup th[w].live]
  BY Facts, IndexerAssumption DEF StoreMerged, node, Thread
<1>2. /\ index' \in Index /\ index'.indexedHeight = index.indexedHeight
      /\ index'.outpoints = index.outpoints \cup th[w].live
  BY <1>1, Zenon DEF Index, Locals
<1>3. c \in Locals /\ c.pc = "snapshot" /\ c.spent = {}
  BY IdleLocals, Zenon DEF Locals, Pcs
<1> HIDE DEF c
<1>4. Sound(c, denied, nHeight)
  BY <1>3 DEF Sound
<1> QED BY <1>1, <1>2, <1>3, <1>4, OutputsStep

(* A set of heights with a bound has a largest one.                        *)
LEMMA MaxOfHeights ==
  ASSUME NEW S \in SUBSET Int, S # {}, NEW K \in Int, \A x \in S : x <= K
  PROVE  Max(S) \in S
<1> DEFINE T == {n \in Nat : K - n \in S}
<1>1. T # {}
  <2>1. PICK x \in S : TRUE
    BY Zenon
  <2>2. K - x \in Nat /\ K - (K - x) = x
    BY <2>1
  <2>3. K - x \in T
    BY <2>1, <2>2
  <2> QED BY <2>3
<1>2. PICK m \in T : \A n \in T : ~ (<<n, m>> \in OpToRel(<, Nat))
  <2>1. T \in SUBSET Nat
    OBVIOUS
  <2> HIDE DEF T
  <2> QED BY <1>1, <2>1, NatLessThanWellFounded, WFMin, Zenon
<1>3. \A n \in T : ~(n < m)
  BY <1>2, Zenon DEF OpToRel
<1>4. K - m \in S /\ \A y \in S : K - m >= y
  <2>1. m \in Nat /\ K - m \in S
    OBVIOUS
  <2>2. ASSUME NEW y \in S PROVE K - m >= y
    <3>1. K - y \in Nat /\ K - (K - y) = y
      BY <2>2
    <3>2. K - y \in T
      BY <3>1
    <3> QED BY <1>3, <2>1, <3>1, <3>2
  <2> QED BY <2>1, <2>2
<1> QED BY <1>4, Zenon DEF Max

(* What an import removes is spent by a block that the explorer has.       *)
LEMMA ImportStep ==
  ASSUME IInv, NEW w \in Worker, ApplyAddressTransactions(w)
  PROVE  IInv'
<1>1. /\ th[w] \in Locals /\ th[w].pc = "import" /\ UNCHANGED <<nHeight, file, denied>>
      /\ w \in Thread /\ w # Sync /\ index \in Index /\ nHeight \in Nat
  BY Facts, IndexerAssumption DEF ApplyAddressTransactions, At, node, Thread
<1> DEFINE known == 0..(nHeight + ExplorerLead)
           Heights(created, spent) == {index.chainTip} \cup {Created[o] : o \in created}
                                        \cup {SpentAt[o] : o \in spent}
<1>2. PICK created \in SUBSET Made(known), spent \in SUBSET Gone(known) :
        \/ Done(w) /\ UNCHANGED index
        \/ /\ index' = [index EXCEPT !.outpoints = (@ \cup created) \ spent,
                                     !.chainTip = Max(Heights(created, spent))]
           /\ Goto(w, "snapshot")
  BY Zenon DEF ApplyAddressTransactions
<1>3. CASE Done(w) /\ UNCHANGED index
  BY <1>1, <1>3, DoneStep
<1>4. CASE ~(Done(w) /\ UNCHANGED index)
  <2> DEFINE c == [th[w] EXCEPT !.pc = "snapshot"]
             top == Max(Heights(created, spent))
             K == nHeight + ExplorerLead
             B == IF index.chainTip <= K THEN K ELSE index.chainTip
  <2>1. /\ index' = [index EXCEPT !.outpoints = (@ \cup created) \ spent, !.chainTip = top]
        /\ Go(w, c)
    BY <1>2, <1>4 DEF Goto
  <2>2. /\ created \subseteq Output /\ spent \subseteq Output /\ K \in Nat
        /\ \A o \in created : Created[o] \in Nat /\ Created[o] <= K
        /\ \A o \in spent : SpentAt[o] \in Nat /\ SpentAt[o] <= K
    BY <1>1, IndexerAssumption DEF Made, Gone
  <2>3. top \in Int
    <3>1. index.chainTip \in Int
      BY <1>1 DEF Index
    <3>2. B \in Int /\ index.chainTip <= B /\ K <= B
      BY <2>2, <3>1
    <3> HIDE DEF B, K
    <3>3. Heights(created, spent) \in SUBSET Int /\ \A x \in Heights(created, spent) : x <= B
      BY <2>2, <3>1, <3>2
    <3>4. Heights(created, spent) # {}
      OBVIOUS
    <3> HIDE DEF Heights
    <3> QED BY <3>2, <3>3, <3>4, MaxOfHeights, Zenon
  <2> HIDE DEF top, Heights
  <2>4. /\ index' \in Index /\ index'.indexedHeight = index.indexedHeight
        /\ index'.outpoints = (index.outpoints \cup created) \ spent
    BY <1>1, <2>1, <2>2, <2>3, Zenon DEF Index
  <2>5. c \in Locals /\ c.pc = "snapshot" /\ c.spent = th[w].spent
    BY <1>1 DEF Locals, Pcs
  <2> HIDE DEF c
  <2>6. Sound(c, denied, nHeight)
    BY <1>1, <2>5, Facts DEF Sound
  <2>7. \A o \in index.outpoints \ index'.outpoints : SpentAt[o] <= nHeight + ExplorerLead
    BY <2>2, <2>4
  <2> QED BY <1>1, <2>1, <2>4, <2>5, <2>6, <2>7, OutputsStep
<1> QED BY <1>3, <1>4

-----------------------------------------------------------------------------
(* Failures, and the theorem. *)

(* open starts from the file, which is complete, or from nothing.          *)
LEMMA RestartStep ==
  ASSUME IInv, Restart
  PROVE  IInv'
<1>1. /\ UNCHANGED <<nHeight, file, denied>> /\ th' = [t \in Thread |-> Idle]
      /\ index' = IF file = NoFile THEN EmptyIndex ELSE file
  BY DEF Restart, node
<1>2. EmptyIndex \in Index /\ Complete(EmptyIndex, denied, nHeight)
  BY IndexerAssumption DEF EmptyIndex, Index, Complete
<1>3. index' \in Index /\ Complete(index', denied, nHeight)
  BY <1>1, <1>2, Facts
<1>4. /\ th' \in [Thread -> Locals] /\ \A t \in Thread : Sound(th'[t], denied, nHeight)
      /\ th'[Sync] = Idle
  BY <1>1, IdleLocals, Facts
<1>5. Follows(th'[Sync], index'.indexedHeight, nHeight)
  BY <1>3, <1>4, IdleLocals, Facts DEF Index
<1> QED BY <1>1, <1>3, <1>4, <1>5, Facts DEF IInv, TypeInv, Complete, Sound, Follows

LEMMA InitIInv ==
  ASSUME Init
  PROVE  IInv
<1>1. EmptyIndex \in Index /\ Complete(EmptyIndex, denied, nHeight)
  BY IndexerAssumption DEF EmptyIndex, Index, Complete
<1>2. /\ th \in [Thread -> Locals] /\ \A t \in Thread : Sound(th[t], denied, nHeight)
      /\ th[Sync] = Idle /\ nHeight = 0
  BY IdleLocals DEF Init, Thread
<1>3. Follows(th[Sync], EmptyIndex.indexedHeight, nHeight)
  BY <1>1, <1>2, IdleLocals DEF Index
<1> QED BY <1>1, <1>2, <1>3 DEF Init, IInv, TypeInv

(* Every step of the node, the server's threads and the failures.          *)
LEMMA NextIInv ==
  ASSUME IInv, [Next]_vars
  PROVE  IInv'
<1>1. CASE UNCHANGED vars
  BY <1>1 DEF vars, node, IInv, TypeInv, Complete, Sound, Follows
<1>2. ASSUME NEW t \in Thread, Persist(t) PROVE IInv'
  BY <1>2, SnapshotStep, LockStep, WriteStep DEF Persist
<1>3. CASE NewBlock \/ \E o \in Output : MempoolChange(o)
  BY <1>3, NodeStep
<1>4. CASE SyncStep
  BY <1>2, <1>4, Facts, ReadTipStep, BeginBatchStep, IndexBlockStep DEF SyncStep
<1>5. ASSUME NEW r \in Request, NewRequest(r) \/ RequestStep(r) PROVE IInv'
  <2>1. r \in Thread
    BY DEF Thread
  <2> QED BY <1>2, <1>5, <2>1, NewRequestStep, CheckOutputStep, RemoveSpentStep, AnswerStep
          DEF RequestStep
<1>6. ASSUME NEW w \in Worker, WorkerStep(w) PROVE IInv'
  <2>1. w \in Thread
    BY DEF Thread
  <2> QED BY <1>2, <1>6, <2>1, StartTaskStep, CopyIndexedStep, ScanBlocksStep, StoreMergedStep,
             ImportStep DEF WorkerStep
<1>7. ASSUME NEW t \in Thread, Fail(t) PROVE IInv'
  <2>1. Done(t) /\ UNCHANGED <<nHeight, index, file, denied>>
    BY <1>7 DEF Fail, node
  <2> QED BY <2>1, DoneStep
<1>8. CASE Restart
  BY <1>8, RestartStep
<1> QED BY <1>1, <1>3, <1>4, <1>5, <1>6, <1>7, <1>8 DEF Next

(* The wallet server's index loses no output, whatever syncToTip, the      *)
(* requests of liveIndexedUtxos, the scans of utxosForDeep and the imports *)
(* of enrichFromExplorer do at the same time, and whichever of their       *)
(* snapshots persistState writes last before a restart: for any number of  *)
(* threads, blocks, faults and any batch size.                             *)
THEOREM NoOutputIsLost == Spec => []IndexComplete
<1>1. IInv => IndexComplete
  BY DEF IInv, Complete, IndexComplete
<1> QED BY <1>1, InitIInv, NextIInv, PTL DEF Spec
=============================================================================
