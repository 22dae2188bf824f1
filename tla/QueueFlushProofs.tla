------------------------ MODULE QueueFlushProofs ------------------------
(***************************************************************************)
(* Safety of the two components that surround the connection of a block:   *)
(* the queue that checks its scripts before, and the flush that brings it  *)
(* to disk after.                                                          *)
(*                                                                         *)
(* The script check queue, for any number of threads and checks and any    *)
(* batch size: between two blocks the queue is idle, and Wait returns the  *)
(* truth about the checks of its block.                                    *)
(*                                                                         *)
(* The flush, for any tree of blocks and any number of block files:        *)
(* whenever the process ends or the power fails, the disk holds coins, an  *)
(* index and blocks that agree, as long as no write has failed             *)
(* (CrashSafe).                                                            *)
(***************************************************************************)
EXTENDS CheckQueue, FlushState, FiniteSetTheorems, TLAPS

(* A leaf is tried with the SMT solver, once more with more time, and with *)
(* Zenon.                                                                  *)
USE SMT, SMTT(20), Zenon

(* The checks that are not done, apart from those that t has taken.        *)
PendingBut(t) == queue \cup {c \in Check : \E u \in Thread \ {t} : c \in vChecks[u]}
Pending == queue \cup {c \in Check : \E u \in Thread : c \in vChecks[u]}

Checking == {t \in Thread : pc[t] = "checking"}
Waiting == {t \in Thread : pc[t] \in {"waiting", "notified"}}

(* Checks are in one place each, and a thread that checks has some.        *)
Apart ==
  /\ \A t \in Thread : vChecks[t] \cap queue = {}
  /\ \A t, u \in Thread : t /= u => vChecks[t] \cap vChecks[u] = {}
  /\ \A t \in Thread : pc[t] = "checking" <=> vChecks[t] /= {}

(* The counters.  An interruption leaves a thread in nTotal and in nIdle:  *)
(* only their difference counts something.                                 *)
CountersRight ==
  /\ nTodo = Cardinality(Pending)
  /\ nTotal = nIdle + Cardinality(Checking)
  /\ nIdle >= Cardinality(Waiting)

(* What is known of a block's checks, from the ones that are done.         *)
Status(ok, pending) ==
  /\ ok => (added \ pending) \cap Bad = {}
  /\ ~ok => added \cap Bad /= {}

StatusRight ==
  /\ pc[Master] = "outside" => Pending = {} /\ fAllOk
  /\ pc[Master] /= "outside" => Status(fAllOk, Pending)
  /\ \A t \in Checking : ~fOk[t] => ~fAllOk

Place == {"outside", "adding", "unwinding", "created", "waiting", "notified",
          "checking", "ended"}

(* Who is where.                                                           *)
Places ==
  /\ pc[Master] \notin {"created", "ended"}
  /\ \A t \in Worker : pc[t] \notin {"outside", "adding", "unwinding"}

QueueInv == QueueTypeOK /\ Apart /\ CountersRight /\ StatusRight /\ Places
-----------------------------------------------------------------------------
(* The rest of an iteration of Loop, from while (queue.empty()) on.  The   *)
(* values that the thread has by then describe the other threads.          *)

CheckingBut(t) == {u \in Thread \ {t} : pc[u] = "checking"}
WaitingBut(t, now) == {u \in Thread \ {t} : now[u] \in {"waiting", "notified"}}

LoopReady(t, now, ok, todo, total, idle) ==
  /\ now \in [Thread -> Place]
  /\ \A u \in Thread \ {t} : now[u] = pc[u] \/ {now[u], pc[u]} \subseteq {"waiting", "notified"}
  /\ pc[Master] = "outside" => t /= Master
  /\ ok \in BOOLEAN /\ todo \in Nat /\ total \in Nat /\ idle \in Nat
  /\ todo = Cardinality(PendingBut(t))
  /\ total = idle + 1 + Cardinality(CheckingBut(t))
  /\ idle >= Cardinality(WaitingBut(t, now))
  /\ pc[Master] = "outside" => PendingBut(t) = {} /\ ok
  /\ pc[Master] /= "outside" => Status(ok, PendingBut(t))
  /\ \A u \in CheckingBut(t) : ~fOk[u] => ~ok

(* Threads and checks are finite sets, and so is what is counted.          *)
LEMMA Finite ==
  ASSUME QueueTypeOK, NEW t \in Thread, NEW now
  PROVE  /\ IsFiniteSet(Thread) /\ IsFiniteSet(Check) /\ IsFiniteSet(queue)
         /\ IsFiniteSet(Pending) /\ IsFiniteSet(PendingBut(t))
         /\ IsFiniteSet(Checking) /\ IsFiniteSet(CheckingBut(t))
         /\ IsFiniteSet(Waiting) /\ IsFiniteSet(WaitingBut(t, now))
         /\ IsFiniteSet(vChecks[t])
<1>1. IsFiniteSet(Thread)
  BY QueueAssumption, FS_AddElement DEF Thread
<1>2. IsFiniteSet(Check)
  BY QueueAssumption
<1>3. /\ queue \subseteq Check /\ Pending \subseteq Check /\ PendingBut(t) \subseteq Check
      /\ vChecks[t] \subseteq Check
  BY DEF QueueTypeOK, Pending, PendingBut
<1>4. /\ Checking \subseteq Thread /\ CheckingBut(t) \subseteq Thread
      /\ Waiting \subseteq Thread /\ WaitingBut(t, now) \subseteq Thread
  BY DEF Checking, CheckingBut, Waiting, WaitingBut
<1>5. \A S \in SUBSET Check : IsFiniteSet(S)
  BY <1>2, FS_Subset
<1>6. \A S \in SUBSET Thread : IsFiniteSet(S)
  BY <1>1, FS_Subset
<1> QED
  BY <1>1, <1>2, <1>3, <1>4, <1>5, <1>6

(* A batch is never empty.                                                 *)
LEMMA BatchNotEmpty ==
  ASSUME QueueTypeOK, NEW total \in Nat, NEW idle \in Nat
  PROVE  BatchSize(total, idle) \in Nat \ {0}
<1>1. Cardinality(queue) \in Nat
  BY Finite, FS_CardinalityType, QueueAssumption DEF Thread
<1>2. Cardinality(queue) \div (total + idle + 1) \in Nat
  BY <1>1, SMT
<1> QED
  BY <1>2, QueueAssumption DEF BatchSize


(* The rest of an iteration of Loop keeps the invariant, and what it       *)
(* returns to the master is the truth.                                     *)
LEMMA LoopKeeps ==
  ASSUME QueueInv, NEW t \in Thread, NEW now, NEW ok, NEW todo, NEW total, NEW idle,
         LoopReady(t, now, ok, todo, total, idle),
         LoopFrom(t, now, ok, todo, total, idle)
  PROVE  /\ QueueInv'
         /\ pc[Master] /= "outside" /\ pc'[Master] = "outside"
              => fRet' = (added \cap Bad = {})
<1> USE DEF QueueInv
<1> DEFINE P == PendingBut(t)
           C == CheckingBut(t)
           W == WaitingBut(t, now)
<1>fin. /\ IsFiniteSet(queue) /\ IsFiniteSet(P) /\ IsFiniteSet(C) /\ IsFiniteSet(W)
        /\ Cardinality(P) \in Nat /\ Cardinality(C) \in Nat /\ Cardinality(W) \in Nat
  BY Finite, FS_CardinalityType
<1>typ. /\ ok \in BOOLEAN /\ todo \in Nat /\ total \in Nat /\ idle \in Nat
        /\ now \in [Thread -> Place]
  BY DEF LoopReady
<1>now. \A u \in Thread \ {t} :
          /\ now[u] = "checking" <=> pc[u] = "checking"
          /\ now[u] = "outside" <=> pc[u] = "outside"
  BY DEF LoopReady
<1>pl. /\ now[Master] \notin {"created", "ended"} \/ t = Master
       /\ \A u \in Worker \ {t} : now[u] \notin {"outside", "adding", "unwinding"}
  BY DEF LoopReady, Places, Thread
<1>m. Master \in Thread /\ Master \notin Worker
  BY QueueAssumption DEF Thread
<1>1. CASE queue /= {} /\ Take(t, now, ok, total, idle)
  <2>1. PICK batch \in SUBSET queue :
           /\ Cardinality(batch) = BatchSize(total, idle)
           /\ queue' = queue \ batch
           /\ vChecks' = [vChecks EXCEPT ![t] = batch]
    BY <1>1, Zenon DEF Take
  <2>2. batch /= {}
    BY <2>1, <1>typ, BatchNotEmpty, FS_EmptySet, Zenon
  <2>3. /\ fOk' = [fOk EXCEPT ![t] = ok] /\ pc' = [now EXCEPT ![t] = "checking"]
        /\ fAllOk' = ok /\ nTotal' = total /\ nIdle' = idle /\ nTodo' = todo
        /\ interrupted' = interrupted /\ fRet' = fRet /\ added' = added /\ spared' = spared
    BY <1>1 DEF Take, LoopFrom
  <2>4. Pending' = P
    BY <2>1 DEF Pending, PendingBut, QueueTypeOK
  <2>5. Checking' = C \cup {t} /\ t \notin C
    BY <2>3, <1>typ, <1>now DEF Checking, CheckingBut
  <2>6. Waiting' = W
    BY <2>3, <1>typ DEF Waiting, WaitingBut
  <2>7. QueueTypeOK'
    BY <2>1, <2>3, <1>typ DEF QueueTypeOK, Place
  <2>8. Apart'
    BY <2>1, <2>2, <2>3, <1>typ, <1>now DEF Apart, QueueTypeOK
  <2>9. CountersRight'
    <3>1. Cardinality(Checking') = Cardinality(C) + 1
      BY <2>5, <1>fin, FS_AddElement, Zenon
    <3> QED
      BY <3>1, <2>3, <2>4, <2>6, <1>fin, <1>typ DEF CountersRight, LoopReady
  <2>10. pc[Master] /= "outside"
    BY <1>1 DEF StatusRight, Pending
  <2>11. pc'[Master] /= "outside"
    BY <2>3, <2>10, <1>typ, <1>now, <1>m
  <2>12. StatusRight'
    BY <2>3, <2>4, <2>5, <2>10, <2>11, <1>typ DEF StatusRight, Status, LoopReady, QueueTypeOK
  <2>13. Places'
    BY <2>3, <1>typ, <1>pl, <1>m DEF Places, Thread
  <2> QED
    BY <2>7, <2>8, <2>9, <2>11, <2>12, <2>13
<1>2. CASE queue = {} /\ t = Master /\ todo = 0 /\ Return(now, ok, total, idle)
  <2>1. /\ fRet' = ok /\ fAllOk' = TRUE /\ pc' = [now EXCEPT ![t] = "outside"]
        /\ nTotal' = total - 1 /\ nIdle' = idle /\ nTodo' = 0
        /\ vChecks' = [vChecks EXCEPT ![t] = {}] /\ interrupted' = interrupted \ {t}
        /\ queue' = {} /\ fOk' = fOk /\ added' = added /\ spared' = spared
    BY <1>2 DEF Return, LoopFrom
  <2>2. P = {}
    BY <1>2, <1>fin, FS_EmptySet, Zenon DEF LoopReady
  <2>3. Pending' = {}
    BY <2>1, <2>2, <1>2 DEF Pending, PendingBut, QueueTypeOK
  <2>4. C = {}
    BY <2>2 DEF CheckingBut, PendingBut, Apart, QueueTypeOK
  <2>5. Checking' = {}
    BY <2>1, <2>4, <1>typ, <1>now DEF Checking, CheckingBut
  <2>6. Waiting' = W
    BY <2>1, <1>typ DEF Waiting, WaitingBut
  <2>7. QueueTypeOK'
    BY <2>1, <1>typ, <1>fin DEF QueueTypeOK, LoopReady, Place
  <2>8. Apart'
    BY <2>1, <2>5, <1>typ, <1>now DEF Apart, QueueTypeOK, Checking
  <2>9. CountersRight'
    BY <2>1, <2>3, <2>4, <2>5, <2>6, <1>fin, <1>typ, FS_EmptySet DEF CountersRight, LoopReady
  <2>10. pc[Master] /= "outside"
    BY <1>2 DEF LoopReady
  <2>11. fRet' = (added \cap Bad = {})
    BY <2>1, <2>2, <2>10, <1>typ DEF LoopReady, Status
  <2>12. StatusRight'
    BY <2>1, <2>3, <2>5, <1>typ, <1>2 DEF StatusRight
  <2>13. Places'
    BY <2>1, <1>typ, <1>pl, <1>m, <1>2 DEF Places, Thread
  <2> QED
    BY <2>7, <2>8, <2>9, <2>11, <2>12, <2>13
<1>3. CASE queue = {} /\ ~(t = Master /\ todo = 0) /\ Block(t, now, ok, total, idle)
  <2>1. /\ pc' = [now EXCEPT ![t] = IF t \in interrupted THEN Thrown(t) ELSE "waiting"]
        /\ interrupted' = interrupted \ {t}
        /\ vChecks' = [vChecks EXCEPT ![t] = {}]
        /\ fAllOk' = ok /\ nTotal' = total /\ nIdle' = idle + 1 /\ nTodo' = todo
        /\ queue' = queue /\ fOk' = fOk /\ fRet' = fRet /\ added' = added /\ spared' = spared
    BY <1>3 DEF Block, LoopFrom
  <2>2. /\ pc'[t] \in {"waiting", "unwinding", "ended"}
        /\ t = Master => pc'[t] /= "ended"
        /\ t /= Master => pc'[t] /= "unwinding"
        /\ \A u \in Thread \ {t} : pc'[u] = now[u]
    BY <2>1, <1>typ DEF Thrown
  <2>3. Pending' = P
    BY <2>1 DEF Pending, PendingBut, QueueTypeOK
  <2>4. Checking' = C
    BY <2>2, <1>now DEF Checking, CheckingBut
  <2>5. Waiting' \subseteq W \cup {t} /\ t \notin W
    BY <2>2 DEF Waiting, WaitingBut
  <2>6. QueueTypeOK'
    BY <2>1, <2>2, <1>typ DEF QueueTypeOK, Thrown, Place
  <2>7. Apart'
    BY <2>1, <2>2, <1>now DEF Apart, QueueTypeOK
  <2>8. CountersRight'
    <3>1. IsFiniteSet(W \cup {t}) /\ Cardinality(W \cup {t}) = Cardinality(W) + 1
      BY <2>5, <1>fin, FS_AddElement
    <3>2. Cardinality(Waiting') <= Cardinality(W) + 1 /\ Cardinality(Waiting') \in Nat
      BY <3>1, <2>5, FS_Subset, FS_CardinalityType
    <3> QED
      BY <3>2, <2>1, <2>3, <2>4, <1>fin, <1>typ DEF CountersRight, LoopReady
  <2>9. pc'[Master] = "outside" <=> pc[Master] = "outside"
    BY <2>2, <1>now, <1>m DEF LoopReady
  <2>10. StatusRight'
    BY <2>1, <2>3, <2>4, <2>9, <1>typ DEF StatusRight, Status, LoopReady
  <2>11. Places'
    BY <2>2, <1>pl, <1>m DEF Places, Thread
  <2> QED
    BY <2>6, <2>7, <2>8, <2>9, <2>10, <2>11
<1> QED
  BY <1>1, <1>2, <1>3 DEF LoopFrom

-----------------------------------------------------------------------------
(* A thread gives back what it has taken.                                  *)
LEMMA WithoutThread ==
  ASSUME QueueInv, NEW t \in Thread
  PROVE  /\ Cardinality(PendingBut(t)) = nTodo - Cardinality(vChecks[t])
         /\ Cardinality(PendingBut(t)) \in Nat
         /\ Pending = PendingBut(t) \cup vChecks[t]
         /\ nTotal = nIdle + Cardinality(CheckingBut(t))
                       + (IF pc[t] = "checking" THEN 1 ELSE 0)
         /\ Cardinality(CheckingBut(t)) \in Nat
<1> USE DEF QueueInv
<1>1. Pending = PendingBut(t) \cup vChecks[t] /\ PendingBut(t) \cap vChecks[t] = {}
  BY DEF Pending, PendingBut, QueueTypeOK, Apart
<1>2. IsFiniteSet(PendingBut(t)) /\ IsFiniteSet(vChecks[t]) /\ IsFiniteSet(CheckingBut(t))
  BY Finite
<1>3. /\ Cardinality(PendingBut(t)) \in Nat /\ Cardinality(vChecks[t]) \in Nat
      /\ Cardinality(CheckingBut(t)) \in Nat
  BY <1>2, FS_CardinalityType
<1>4. Cardinality(Pending) = Cardinality(PendingBut(t)) + Cardinality(vChecks[t])
  BY <1>1, <1>2, <1>3, FS_Union, FS_EmptySet
<1>5. /\ t \notin CheckingBut(t)
      /\ pc[t] = "checking" => Checking = CheckingBut(t) \cup {t}
      /\ pc[t] /= "checking" => Checking = CheckingBut(t)
  BY DEF Checking, CheckingBut
<1>6. Cardinality(Checking) = Cardinality(CheckingBut(t))
                               + (IF pc[t] = "checking" THEN 1 ELSE 0)
  BY <1>2, <1>3, <1>5, FS_AddElement
<1> QED
  BY <1>1, <1>3, <1>4, <1>6 DEF CountersRight, QueueTypeOK

(* A notification turns a thread that waits into one that was notified.    *)
LEMMA NotifiedOnly ==
  ASSUME QueueInv, NEW S, S \subseteq Blocked
  PROVE  /\ Notified(S) \in [Thread -> Place]
         /\ \A u \in Thread : \/ Notified(S)[u] = pc[u]
                              \/ Notified(S)[u] = "notified" /\ pc[u] = "waiting"
<1>1. \A u \in Thread : Notified(S)[u] = IF u \in S THEN "notified" ELSE pc[u]
  BY DEF Notified
<1>2. \A u \in Thread : pc[u] \in Place
  BY DEF QueueInv, QueueTypeOK, Place
<1>3. \A u \in S : pc[u] = "waiting"
  BY DEF Blocked
<1>4. Notified(S) \in [Thread -> Place]
  BY <1>2 DEF Notified, Place
<1> QED
  BY <1>1, <1>3, <1>4

(* Threads that are notified or interrupted change nothing else.           *)
LEMMA Rearranged ==
  ASSUME QueueInv,
         pc' \in [Thread -> Place],
         \A u \in Thread : \/ pc'[u] = pc[u]
                           \/ pc'[u] = "notified" /\ pc[u] = "waiting"
                           \/ pc'[u] = Thrown(u) /\ pc[u] = "notified",
         interrupted' \subseteq Thread \ spared', spared' \subseteq Thread,
         UNCHANGED <<queue, counters, fAllOk, vChecks, fOk, added, fRet>>
  PROVE  QueueInv' /\ (pc'[Master] = "outside" => pc[Master] = "outside")
<1> USE DEF QueueInv, counters
<1>m. Master \in Thread /\ Master \notin Worker
  BY QueueAssumption DEF Thread
<1>1. Pending' = Pending
  BY DEF Pending
<1>2. Checking' = Checking /\ Waiting' \subseteq Waiting
  BY DEF Checking, Waiting, Thrown
<1>3. IsFiniteSet(Waiting)
  BY Finite, <1>m
<1>4. Cardinality(Waiting') <= Cardinality(Waiting) /\ Cardinality(Waiting') \in Nat
      /\ Cardinality(Waiting) \in Nat
  BY <1>2, <1>3, FS_Subset, FS_CardinalityType
<1>5. QueueTypeOK'
  BY DEF QueueTypeOK, Place
<1>6. Apart'
  BY DEF Apart, Thrown
<1>7. CountersRight'
  BY <1>1, <1>2, <1>4 DEF CountersRight, QueueTypeOK
<1>8. pc'[Master] = "outside" <=> pc[Master] = "outside"
  BY <1>m DEF Thrown
<1>9. StatusRight'
  BY <1>1, <1>2, <1>8 DEF StatusRight, Status
<1>10. Places'
  BY <1>m DEF Places, Thrown, Thread
<1> QED
  BY <1>5, <1>6, <1>7, <1>8, <1>9, <1>10


(* Every step keeps the invariant, and Wait returns the truth.             *)
LEMMA StepKeeps ==
  ASSUME QueueInv, [QueueNext]_queueVars
  PROVE  /\ QueueInv'
         /\ pc[Master] /= "outside" /\ pc'[Master] = "outside"
              => fRet' = (added \cap Bad = {})
<1>m. Master \in Thread /\ Master \notin Worker
  BY QueueAssumption DEF Thread
<1>1. CASE NewControl
  <2>1. /\ pc[Master] = "outside" /\ pc' = [pc EXCEPT ![Master] = "adding"] /\ added' = {}
        /\ UNCHANGED <<queue, counters, fAllOk, vChecks, fOk, interrupts, fRet>>
    BY <1>1 DEF NewControl
  <2>2. pc'[Master] = "adding" /\ \A u \in Thread \ {Master} : pc'[u] = pc[u]
    BY <2>1, <1>m DEF QueueInv, QueueTypeOK
  <2>3. Pending = {} /\ fAllOk
    BY <2>1 DEF QueueInv, StatusRight
  <2>4. Pending' = {}
    BY <2>1, <2>3 DEF Pending
  <2>5. Checking' = Checking /\ Waiting' = Waiting
    BY <2>1, <2>2 DEF Checking, Waiting
  <2>6. QueueTypeOK'
    BY <2>1, <2>3, Zenon DEF QueueInv, QueueTypeOK, Pending, counters, interrupts
  <2>7. Apart'
    BY <2>1, <2>2 DEF QueueInv, Apart
  <2>8. CountersRight'
    BY <2>1, <2>3, <2>4, <2>5 DEF QueueInv, CountersRight, counters
  <2>9. StatusRight'
    BY <2>1, <2>2, <2>3, <2>4, <2>5 DEF QueueInv, StatusRight, Status
  <2>10. Places'
    BY <2>2, <1>m DEF QueueInv, Places, Thread
  <2> QED
    BY <2>2, <2>6, <2>7, <2>8, <2>9, <2>10 DEF QueueInv
<1>2. ASSUME NEW checks \in SUBSET Check, Add(checks)
      PROVE  QueueInv' /\ pc'[Master] /= "outside"
  <2>1. /\ pc[Master] = "adding" /\ checks \subseteq Check \ added
        /\ queue' = queue \cup checks /\ nTodo' = nTodo + Cardinality(checks)
        /\ added' = added \cup checks
        /\ UNCHANGED <<nIdle, nTotal, fAllOk, vChecks, fOk, interrupts, fRet>>
    BY <1>2 DEF Add
  <2>2. /\ pc' \in [Thread -> Place]
        /\ \A u \in Thread : \/ pc'[u] = pc[u]
                             \/ pc'[u] = "notified" /\ pc[u] = "waiting"
    <3>1. pc = Notified({})
      BY DEF Notified, QueueInv, QueueTypeOK
    <3>2. PICK S : S \subseteq Blocked /\ pc' = Notified(S)
      BY <1>2, <3>1, {} \subseteq Blocked, Zenon DEF Add
    <3> QED
      BY <3>2, NotifiedOnly
  <2>3. Pending' = Pending \cup checks /\ Pending \cap checks = {}
    BY <2>1 DEF Pending, QueueInv, QueueTypeOK
  <2>4. Checking' = Checking /\ Waiting' = Waiting
    BY <2>2 DEF Checking, Waiting
  <2>5. /\ IsFiniteSet(checks) /\ IsFiniteSet(Pending)
        /\ Cardinality(checks) \in Nat /\ Cardinality(Pending) \in Nat
    <3>1. IsFiniteSet(checks)
      BY <1>2, QueueAssumption, FS_Subset
    <3>2. IsFiniteSet(Pending)
      BY <1>m, Finite DEF QueueInv
    <3> QED
      BY <3>1, <3>2, FS_CardinalityType
  <2>6. Cardinality(Pending') = Cardinality(Pending) + Cardinality(checks)
    <3>1. Cardinality(Pending \cap checks) = 0
      BY <2>3, FS_EmptySet
    <3>2. Cardinality(Pending \cup checks)
            = Cardinality(Pending) + Cardinality(checks) - Cardinality(Pending \cap checks)
      BY <2>5, FS_Union
    <3> QED
      BY <2>3, <2>5, <3>1, <3>2
  <2>7. QueueTypeOK'
    BY <2>1, <2>2, <2>5 DEF QueueInv, QueueTypeOK, Place, interrupts
  <2>8. Apart'
    BY <2>1, <2>2 DEF QueueInv, Apart, QueueTypeOK
  <2>9. CountersRight'
    BY <2>1, <2>4, <2>6 DEF QueueInv, CountersRight
  <2>10. pc[Master] /= "outside" /\ pc'[Master] /= "outside"
    BY <2>1, <2>2, <1>m
  <2>11. StatusRight'
    BY <2>1, <2>3, <2>4, <2>10 DEF QueueInv, StatusRight, Status
  <2>12. Places'
    BY <2>2, <1>m DEF QueueInv, Places, Thread
  <2> QED
    BY <2>7, <2>8, <2>9, <2>10, <2>11, <2>12 DEF QueueInv
<1>3. ASSUME NEW t \in Thread, Enter(t)
      PROVE  LoopReady(t, pc, fAllOk, nTodo, nTotal + 1, nIdle)
  <2>1. pc[t] \in {"created", "adding", "unwinding"} /\ vChecks[t] = {}
    BY <1>3 DEF Enter, QueueInv, Apart
  <2>2. PendingBut(t) = Pending
    BY <2>1, WithoutThread, Zenon
  <2>3. CheckingBut(t) \subseteq Checking /\ WaitingBut(t, pc) = Waiting
    BY <2>1 DEF CheckingBut, Checking, WaitingBut, Waiting
  <2> QED
    BY <2>1, <2>2, <2>3, WithoutThread
       DEF LoopReady, Place, QueueInv, QueueTypeOK, CountersRight, StatusRight
<1>4. ASSUME NEW t \in Thread, pc[t] = "checking",
             NEW S, S \subseteq Blocked
      PROVE  LoopReady(t, Notified(S), fAllOk /\ Verdict(t), Todo(t), nTotal, nIdle)
  <2>1. /\ Notified(S) \in [Thread -> Place]
        /\ \A u \in Thread : \/ Notified(S)[u] = pc[u]
                             \/ Notified(S)[u] = "notified" /\ pc[u] = "waiting"
    BY <1>4, NotifiedOnly
  <2>2. CheckingBut(t) \subseteq Checking /\ WaitingBut(t, Notified(S)) = Waiting
    BY <1>4, <2>1 DEF CheckingBut, Checking, WaitingBut, Waiting
  <2>3. pc[Master] /= "outside"
    BY <1>4 DEF QueueInv, StatusRight, Pending, Apart, QueueTypeOK
  <2>4. Status(fAllOk /\ Verdict(t), PendingBut(t))
    BY <1>4, <2>3, WithoutThread DEF QueueInv, StatusRight, Status, Verdict, Checking, QueueTypeOK
  <2>5. \A u \in CheckingBut(t) : ~fOk[u] => ~(fAllOk /\ Verdict(t))
    BY <2>2 DEF QueueInv, StatusRight
  <2>6. Todo(t) = Cardinality(PendingBut(t)) /\ Todo(t) \in Nat
    BY WithoutThread DEF Todo
  <2>7. (fAllOk /\ Verdict(t)) \in BOOLEAN
    BY DEF Verdict
  <2> QED
    BY <1>4, <2>1, <2>2, <2>3, <2>4, <2>5, <2>6, <2>7, WithoutThread
       DEF LoopReady, Place, QueueInv, QueueTypeOK, CountersRight
<1>5. ASSUME NEW t \in Thread, pc[t] = "notified"
      PROVE  LoopReady(t, pc, fAllOk, nTodo, nTotal, nIdle - 1)
  <2>1. vChecks[t] = {}
    BY <1>5 DEF QueueInv, Apart
  <2>2. PendingBut(t) = Pending
    BY <2>1, WithoutThread, Zenon
  <2>3. /\ CheckingBut(t) \subseteq Checking
        /\ Waiting = WaitingBut(t, pc) \cup {t} /\ t \notin WaitingBut(t, pc)
    BY <1>5 DEF CheckingBut, Checking, WaitingBut, Waiting
  <2>4. /\ Cardinality(Waiting) = Cardinality(WaitingBut(t, pc)) + 1
        /\ Cardinality(WaitingBut(t, pc)) \in Nat
    BY <2>3, Finite, FS_AddElement, FS_CardinalityType DEF QueueInv
  <2> QED
    BY <1>5, <2>2, <2>3, <2>4, WithoutThread
       DEF LoopReady, Place, QueueInv, QueueTypeOK, CountersRight, StatusRight
<1>6. ASSUME NEW t \in Thread, Step(t)
      PROVE  /\ QueueInv'
             /\ pc[Master] /= "outside" /\ pc'[Master] = "outside"
                  => fRet' = (added \cap Bad = {})
  <2>1. CASE Enter(t)
    BY <2>1, <1>3, LoopKeeps DEF Enter
  <2>2. CASE Finish(t)
    <3>1. pc = Notified({})
      BY DEF Notified, QueueInv, QueueTypeOK
    <3>2. PICK S : /\ S \subseteq Blocked
                   /\ LoopFrom(t, Notified(S), fAllOk /\ Verdict(t), Todo(t), nTotal, nIdle)
      BY <2>2, <3>1, {} \subseteq Blocked DEF Finish
    <3> QED
      BY <2>2, <3>2, <1>4, LoopKeeps DEF Finish
  <2>3. CASE Wake(t)
    <3>1. CASE t \notin interrupted
      BY <2>3, <3>1, <1>5, LoopKeeps DEF Wake
    <3>2. CASE t \in interrupted
      <4>1. /\ pc' \in [Thread -> Place]
            /\ \A u \in Thread : \/ pc'[u] = pc[u]
                                 \/ pc'[u] = Thrown(u) /\ pc[u] = "notified"
        <5>1. pc \in [Thread -> Place] /\ Thrown(t) \in Place
          BY DEF QueueInv, QueueTypeOK, Place, Thrown
        <5>2. pc[t] = "notified" /\ pc' = [pc EXCEPT ![t] = Thrown(t)]
          BY <2>3, <3>2 DEF Wake
        <5> QED
          BY <5>1, <5>2
      <4>2. /\ interrupted' \subseteq Thread \ spared' /\ spared' \subseteq Thread
            /\ UNCHANGED <<queue, counters, fAllOk, vChecks, fOk, added, fRet>>
        BY <2>3, <3>2 DEF Wake, QueueInv, QueueTypeOK
      <4> QED
        BY <4>1, <4>2, Rearranged
    <3> QED
      BY <3>1, <3>2
  <2> QED
    BY <1>6, <2>1, <2>2, <2>3 DEF Step
<1>7. ASSUME NEW t \in Thread, SpuriousWake(t) \/ Interrupt(t)
      PROVE  QueueInv' /\ (pc'[Master] = "outside" => pc[Master] = "outside")
  <2>1. PICK S : S \subseteq Blocked /\ pc' = Notified(S)
    BY <1>7 DEF SpuriousWake, Interrupt, Blocked
  <2>2. /\ interrupted' \subseteq Thread \ spared' /\ spared' \subseteq Thread
        /\ UNCHANGED <<queue, counters, fAllOk, vChecks, fOk, added, fRet>>
    BY <1>7 DEF SpuriousWake, Interrupt, interrupts, QueueInv, QueueTypeOK
  <2> QED
    BY <2>1, <2>2, NotifiedOnly, Rearranged
<1>8. CASE UNCHANGED queueVars
  BY <1>8 DEF queueVars, counters, interrupts, QueueInv, QueueTypeOK, Apart, CountersRight,
              StatusRight, Status, Places, Pending, Checking, Waiting
<1> QED
  BY <1>1, <1>2, <1>6, <1>7, <1>8 DEF QueueNext

(* The invariant holds in every state.                                     *)
LEMMA QueueInvAlways == QueueSpec => []QueueInv
<1>1. QueueInit => QueueInv
  <2> SUFFICES ASSUME QueueInit PROVE QueueInv
    OBVIOUS
  <2>m. Master \in Thread /\ Master \notin Worker
    BY QueueAssumption DEF Thread
  <2>1. Pending = {} /\ Checking = {} /\ Waiting = {}
    BY DEF QueueInit, Pending, Checking, Waiting
  <2>2. QueueTypeOK /\ Apart /\ Places
    BY <2>m DEF QueueInit, QueueTypeOK, Apart, Places, Thread
  <2>3. CountersRight
    BY <2>1, FS_EmptySet DEF QueueInit, CountersRight
  <2>4. StatusRight
    BY <2>1, <2>m DEF QueueInit, StatusRight
  <2> QED
    BY <2>2, <2>3, <2>4 DEF QueueInv
<1>2. QueueInv /\ [QueueNext]_queueVars => QueueInv'
  BY StepKeeps
<1> QED
  BY <1>1, <1>2, PTL DEF QueueSpec

(* nIdle, nTotal and nTodo, which are unsigned in CCheckQueue, never go    *)
(* below zero, and a thread only holds checks that the master added.       *)
THEOREM CountersNeverWrap == QueueSpec => []QueueTypeOK
<1>1. QueueInv => QueueTypeOK
  BY DEF QueueInv
<1> QED
  BY <1>1, QueueInvAlways, PTL

(* The assertion of CCheckQueueControl's constructor never fails: between  *)
(* two blocks all threads are idle and no check and no failure is left,    *)
(* however many workers there are, start late or have been interrupted.    *)
THEOREM QueueIsIdle == QueueSpec => []IdleBetweenBlocks
<1>1. QueueInv => IdleBetweenBlocks
  <2> SUFFICES ASSUME QueueInv, pc[Master] = "outside" PROVE IsIdle
    BY DEF IdleBetweenBlocks
  <2>1. Pending = {} /\ fAllOk
    BY DEF QueueInv, StatusRight
  <2>2. Checking = {}
    BY <2>1 DEF Checking, Pending, QueueInv, Apart, QueueTypeOK
  <2> QED
    BY <2>1, <2>2, FS_EmptySet DEF IsIdle, QueueInv, CountersRight, QueueTypeOK
<1> QED
  BY <1>1, QueueInvAlways, PTL

(* Wait tells the master whether all checks of its block are good, for any *)
(* number of threads, any checks and any way of sharing them out.          *)
THEOREM WaitTellsTheTruth == QueueSpec => VerdictRight
<1>1. QueueInv /\ [QueueNext]_queueVars
        => [pc[Master] /= "outside" /\ pc'[Master] = "outside"
              => fRet' = (added \cap Bad = {})]_queueVars
  BY StepKeeps
<1> QED
  BY <1>1, QueueInvAlways, PTL DEF QueueSpec, VerdictRight
-----------------------------------------------------------------------------
(* What a restart relies on.                                               *)
DiskOK ==
  /\ \A b \in diskData : blk[b] = "synced"
  /\ \A v \in versions : /\ v.coins = Chain(v.best)
                         /\ Chain(v.best) \subseteq diskData
                         /\ Chain(v.best) \ {Genesis} \subseteq diskUndo

(* What a flush relies on: what is not on disk yet is marked dirty, and    *)
(* block data that is not synced is in the last file.                      *)
MemOK ==
  /\ coins = Chain(best)
  /\ Chain(best) \subseteq haveData /\ Chain(best) \ {Genesis} \subseteq haveUndo
  /\ haveData \subseteq diskData \cup dirty /\ haveUndo \subseteq diskUndo \cup dirty
  /\ \A b \in haveData : \/ blk[b] = "synced"
                         \/ blk[b] = "written" /\ nFile[b] = nLastBlockFile
  /\ stage = "index" => \A b \in haveData : blk[b] = "synced"
  /\ stage = "coins" => haveData \subseteq diskData /\ haveUndo \subseteq diskUndo

(* The index in memory is ahead of the one on disk.                        *)
LoadedOK ==
  phase \in {"running", "stopping", "exiting"} =>
    diskData \subseteq haveData /\ diskUndo \subseteq haveUndo

UndoOK == \A b \in haveUndo \cup diskUndo : rev[b] /= "none"

IInv ==
  /\ TypeOK /\ LoadedOK
  /\ "write" \notin mishaps => DiskOK /\ MemOK
  /\ mishaps = {} => UndoOK /\ phase /= "corrupt"

(* The type invariant, variable by variable.                               *)
LEMMA Types ==
  TypeOK <=>
    /\ phase \in {"running", "stopping", "exiting", "down", "corrupt"}
    /\ stage \in {"idle", "files", "index", "coins"}
    /\ target \in Blocks \cup {NoBlock} /\ tip \in Blocks \cup {NoBlock}
    /\ best \in Blocks \cup {NoBlock}
    /\ coins \subseteq Blocks /\ haveData \subseteq Blocks /\ haveUndo \subseteq Blocks
    /\ dirty \subseteq Blocks /\ diskData \subseteq Blocks /\ diskUndo \subseteq Blocks
    /\ nFile \in [Blocks -> 0 .. MaxFile]
    /\ nLastBlockFile \in 0 .. MaxFile /\ diskFile \in 0 .. MaxFile
    /\ blk \in [Blocks -> Content] /\ rev \in [Blocks -> Content]
    /\ db \in versions /\ versions \subseteq CoinsDB
    /\ mishaps \subseteq {"power", "write"}
    /\ stage = "idle" => target = NoBlock
    /\ phase \in {"down", "corrupt"} => stage = "idle"
BY DEF TypeOK

(* The chain up to a block.                                                *)
LEMMA Chains ==
  /\ Chain(NoBlock) = {} /\ Chain(Genesis) = {Genesis}
  /\ \A b \in Blocks : Chain(b) \subseteq Blocks /\ b \in Chain(b)
  /\ \A b \in Blocks : Chain(b) = Chain(Prev[b]) \cup {b} /\ b \notin Chain(Prev[b])
  /\ \A b \in Blocks : b /= Genesis => Prev[b] \in Blocks
BY TreeAssumption DEF Chain

(* A file that is synced keeps its blocks, and all of them are safe then.  *)
LEMMA CommittedOK ==
  ASSUME NEW f, NEW content \in [Blocks -> Content], nFile \in [Blocks -> 0 .. MaxFile]
  PROVE  /\ Committed(f, content) \in [Blocks -> Content]
         /\ \A b \in Blocks :
              /\ content[b] /= "none" => Committed(f, content)[b] /= "none"
              /\ content[b] = "synced" => Committed(f, content)[b] = "synced"
              /\ content[b] = "written" /\ nFile[b] = f => Committed(f, content)[b] = "synced"
BY DEF Committed, Content

(* FindBlockPos leaves a file: the same of the file it leaves.             *)
LEMMA LeftFileOK ==
  ASSUME TypeOK, NEW f, NEW content \in [Blocks -> Content]
  PROVE  /\ LeftFile(f, content) \in [Blocks -> Content]
         /\ \A b \in Blocks :
              /\ content[b] /= "none" => LeftFile(f, content)[b] /= "none"
              /\ content[b] = "synced" => LeftFile(f, content)[b] = "synced"
              /\ /\ content[b] = "written" /\ nFile[b] = nLastBlockFile
                 /\ f /= nLastBlockFile
                 => LeftFile(f, content)[b] = "synced"
              /\ f = nLastBlockFile => LeftFile(f, content)[b] = content[b]
BY CommittedOK, Types DEF LeftFile

(* AcceptBlock.                                                            *)
LEMMA StoreStep ==
  ASSUME IInv, NEW b \in Blocks, NEW f \in 0 .. MaxFile, NEW c \in {"written", "none"},
         StoreBlock(b, f, c), phase' \in {phase, "stopping"},
         mishaps' \in SUBSET {"power", "write"}, mishaps \subseteq mishaps',
         c = "none" => "write" \in mishaps'
  PROVE  IInv'
<1>1. TypeOK /\ LoadedOK
  BY DEF IInv
<1>2. /\ b \notin haveData /\ haveData' = haveData \cup {b} /\ dirty' = dirty \cup {b}
      /\ blk' = [LeftFile(f, blk) EXCEPT ![b] = c] /\ rev' = LeftFile(f, rev)
      /\ nFile' = [nFile EXCEPT ![b] = f] /\ nLastBlockFile' = f
      /\ stage = "idle" /\ phase \in {"running", "stopping"}
      /\ UNCHANGED <<stage, target, tip, best, coins, haveUndo, indexVars, dbVars>>
  BY DEF StoreBlock, Working
<1>3. b \notin diskData /\ diskData \subseteq haveData /\ diskUndo \subseteq haveUndo
  BY <1>1, <1>2 DEF LoadedOK
<1>4. TypeOK'
  <2>1. blk' \in [Blocks -> Content] /\ rev' \in [Blocks -> Content]
    BY <1>1, <1>2, LeftFileOK, Types DEF Content
  <2> QED BY <1>1, <1>2, <2>1, Types DEF TypeOK, indexVars, dbVars
<1>5. LoadedOK'
  BY <1>2, <1>3 DEF LoadedOK, indexVars
<1>6. ASSUME "write" \notin mishaps' PROVE DiskOK' /\ MemOK'
  <2>1. c = "written" /\ DiskOK /\ MemOK
    BY <1>6 DEF IInv
  <2>2. \A a \in Blocks : /\ a /= b => blk'[a] = LeftFile(f, blk)[a] /\ nFile'[a] = nFile[a]
                          /\ a = b => blk'[a] = "written" /\ nFile'[a] = f
    BY <1>1, <1>2, <2>1, LeftFileOK, Types
  <2>3. DiskOK'
    <3>1. \A a \in diskData : blk'[a] = "synced"
      BY <1>1, <1>3, <2>1, <2>2, LeftFileOK, Types DEF DiskOK
    <3> QED BY <1>2, <2>1, <3>1 DEF DiskOK, indexVars, dbVars
  <2>4. ASSUME NEW a \in haveData'
        PROVE  blk'[a] = "synced" \/ (blk'[a] = "written" /\ nFile'[a] = f)
    BY <1>1, <1>2, <2>1, <2>2, <2>4, LeftFileOK, Types DEF MemOK
  <2>5. MemOK'
    BY <1>2, <2>1, <2>4 DEF MemOK, indexVars
  <2> QED BY <2>3, <2>5
<1>7. ASSUME mishaps' = {} PROVE UndoOK' /\ phase' /= "corrupt"
  <2>1. UndoOK
    BY <1>7 DEF IInv
  <2> QED BY <1>1, <1>2, <2>1, LeftFileOK, Types DEF UndoOK, indexVars
<1> QED BY <1>4, <1>5, <1>6, <1>7 DEF IInv

(* ConnectTip.                                                             *)
LEMMA ConnectStep ==
  ASSUME IInv, NEW b \in Blocks, NEW flush \in BOOLEAN, ConnectTip(b, flush)
  PROVE  IInv'
<1>1. TypeOK /\ LoadedOK
  BY DEF IInv
<1>2. /\ b \in haveData /\ Prev[b] = tip /\ best = tip
      /\ coins' = coins \cup {b} /\ best' = b
      /\ stage = "idle" /\ phase \in {"running", "stopping"}
      /\ UNCHANGED <<phase, haveData, nFile, nLastBlockFile, blk, indexVars, dbVars, mishaps>>
  BY DEF ConnectTip, Working
<1>3. /\ haveUndo \subseteq haveUndo' /\ haveUndo' \subseteq Blocks
      /\ dirty \subseteq dirty' /\ dirty' \subseteq Blocks
      /\ haveUndo' \subseteq haveUndo \cup {b} /\ b \in haveUndo' \cup {Genesis}
      /\ b \in haveUndo' => b \in haveUndo \cup dirty'
      /\ rev' \in [Blocks -> Content]
      /\ \A a \in Blocks : rev'[a] = rev[a] \/ (a = b /\ rev'[a] = "written")
      /\ b \in haveUndo' /\ b \notin haveUndo => rev'[b] = "written"
  <2>1. CASE b \in haveUndo \/ b = Genesis
    BY <1>1, <2>1, Types DEF ConnectTip
  <2>2. CASE ~(b \in haveUndo \/ b = Genesis)
    <3>1. /\ haveUndo' = haveUndo \cup {b} /\ dirty' = dirty \cup {b}
          /\ rev' = [rev EXCEPT ![b] = "written"]
      BY <2>2 DEF ConnectTip
    <3> QED BY <1>1, <3>1, Types DEF Content
  <2> QED BY <2>1, <2>2
<1>4. /\ stage' \in {"idle", "files"} /\ target' \in Blocks \cup {NoBlock}
      /\ tip' \in Blocks \cup {NoBlock} /\ (stage' = "idle" => target' = NoBlock)
  <2>1. CASE flush
    BY <1>1, <2>1, Types DEF ConnectTip, ThenUpdateTip
  <2>2. CASE ~flush
    BY <1>1, <1>2, <2>2, Types DEF ConnectTip, ThenUpdateTip
  <2> QED BY <2>1, <2>2
<1>5. TypeOK'
  BY <1>1, <1>2, <1>3, <1>4, Types DEF TypeOK, indexVars, dbVars
<1>6. LoadedOK'
  BY <1>1, <1>2, <1>3 DEF LoadedOK, indexVars
<1>7. ASSUME "write" \notin mishaps' PROVE DiskOK' /\ MemOK'
  <2>1. DiskOK /\ MemOK
    BY <1>2, <1>7 DEF IInv
  <2>2. DiskOK'
    BY <1>2, <2>1 DEF DiskOK, indexVars, dbVars
  <2>3. Chain(b) = Chain(best) \cup {b}
    BY <1>2, Chains
  <2>4. /\ coins' = Chain(best')
        /\ Chain(best') \subseteq haveData' /\ Chain(best') \ {Genesis} \subseteq haveUndo'
    BY <1>2, <1>3, <2>1, <2>3 DEF MemOK
  <2>5. /\ haveData' \subseteq diskData' \cup dirty' /\ haveUndo' \subseteq diskUndo' \cup dirty'
    BY <1>2, <1>3, <2>1 DEF MemOK, indexVars
  <2>6. MemOK'
    BY <1>2, <1>4, <2>1, <2>4, <2>5 DEF MemOK
  <2> QED BY <2>2, <2>6
<1>8. ASSUME mishaps' = {} PROVE UndoOK' /\ phase' /= "corrupt"
  <2>1. UndoOK
    BY <1>2, <1>8 DEF IInv
  <2> QED BY <1>1, <1>2, <1>3, <2>1, Types DEF UndoOK, indexVars
<1> QED BY <1>5, <1>6, <1>7, <1>8 DEF IInv

(* DisconnectTip.                                                          *)
LEMMA DisconnectStep ==
  ASSUME IInv, NEW flush \in BOOLEAN, DisconnectTip(flush)
  PROVE  IInv'
<1>1. TypeOK /\ LoadedOK
  BY DEF IInv
<1>2. /\ tip \notin {NoBlock, Genesis} /\ best = tip
      /\ coins' = coins \ {tip} /\ best' = Prev[tip]
      /\ stage = "idle" /\ phase \in {"running", "stopping"}
      /\ UNCHANGED <<phase, haveData, haveUndo, dirty, nFile, nLastBlockFile, fileVars,
                     indexVars, dbVars, mishaps>>
  BY DEF DisconnectTip, Working
<1>3. tip \in Blocks /\ Prev[tip] \in Blocks
  BY <1>1, <1>2, Types, Chains
<1>4. /\ stage' \in {"idle", "files"} /\ target' \in Blocks \cup {NoBlock}
      /\ tip' \in Blocks \cup {NoBlock} /\ (stage' = "idle" => target' = NoBlock)
  <2>1. CASE flush
    BY <1>1, <1>3, <2>1, Types DEF DisconnectTip, ThenUpdateTip
  <2>2. CASE ~flush
    BY <1>1, <1>2, <1>3, <2>2, Types DEF DisconnectTip, ThenUpdateTip
  <2> QED BY <2>1, <2>2
<1>5. TypeOK'
  BY <1>1, <1>2, <1>3, <1>4, Types DEF TypeOK, indexVars, dbVars, fileVars
<1>6. LoadedOK'
  BY <1>1, <1>2 DEF LoadedOK, indexVars
<1>7. ASSUME "write" \notin mishaps' PROVE DiskOK' /\ MemOK'
  <2>1. DiskOK /\ MemOK
    BY <1>2, <1>7 DEF IInv
  <2>2. DiskOK'
    BY <1>2, <2>1 DEF DiskOK, indexVars, dbVars, fileVars
  <2>3. Chain(tip) = Chain(Prev[tip]) \cup {tip} /\ tip \notin Chain(Prev[tip])
    BY <1>3, Chains
  <2>4. /\ coins' = Chain(best')
        /\ Chain(best') \subseteq haveData' /\ Chain(best') \ {Genesis} \subseteq haveUndo'
    BY <1>2, <2>1, <2>3 DEF MemOK
  <2>5. MemOK'
    BY <1>2, <1>4, <2>1, <2>4 DEF MemOK, indexVars, fileVars
  <2> QED BY <2>2, <2>5
<1>8. ASSUME mishaps' = {} PROVE UndoOK' /\ phase' /= "corrupt"
  BY <1>2, <1>8 DEF IInv, UndoOK, indexVars, fileVars
<1> QED BY <1>5, <1>6, <1>7, <1>8 DEF IInv

(* The steps of FlushStateToDisk.                                          *)
LEMMA FilesStep ==
  ASSUME IInv, FlushFiles
  PROVE  IInv'
<1>1. TypeOK /\ LoadedOK
  BY DEF IInv
<1>2. /\ stage = "files" /\ stage' = "index"
      /\ blk' = Committed(nLastBlockFile, blk) /\ rev' = Committed(nLastBlockFile, rev)
      /\ UNCHANGED <<phase, memVars, indexVars, dbVars, mishaps>>
  BY DEF FlushFiles, FlushBlockFile
<1>3. /\ blk' \in [Blocks -> Content] /\ rev' \in [Blocks -> Content]
      /\ \A b \in Blocks :
           /\ blk[b] = "synced" => blk'[b] = "synced"
           /\ blk[b] = "written" /\ nFile[b] = nLastBlockFile => blk'[b] = "synced"
           /\ rev[b] /= "none" => rev'[b] /= "none"
  BY <1>1, <1>2, CommittedOK, Types
<1>4. TypeOK' /\ LoadedOK'
  BY <1>1, <1>2, <1>3, Types DEF TypeOK, LoadedOK, memVars, indexVars, dbVars
<1>5. ASSUME "write" \notin mishaps' PROVE DiskOK' /\ MemOK'
  <2>1. DiskOK /\ MemOK
    BY <1>2, <1>5 DEF IInv
  <2>2. DiskOK'
    BY <1>1, <1>2, <1>3, <2>1, Types DEF DiskOK, indexVars, dbVars
  <2>3. \A b \in haveData' : blk'[b] = "synced"
    BY <1>1, <1>2, <1>3, <2>1, Types DEF MemOK, memVars
  <2>4. MemOK'
    BY <1>2, <2>1, <2>3 DEF MemOK, memVars, indexVars
  <2> QED BY <2>2, <2>4
<1>6. ASSUME mishaps' = {} PROVE UndoOK' /\ phase' /= "corrupt"
  <2>1. UndoOK /\ phase /= "corrupt"
    BY <1>2, <1>6 DEF IInv
  <2> QED BY <1>1, <1>2, <1>3, <2>1, Types DEF UndoOK, memVars, indexVars
<1> QED BY <1>4, <1>5, <1>6 DEF IInv

(* The block index is written.                                             *)
LEMMA IndexStep ==
  ASSUME IInv, FlushIndex
  PROVE  IInv'
<1>1. TypeOK /\ LoadedOK
  BY DEF IInv
<1>2. /\ stage = "index" /\ stage' \in {"coins", "idle"}
      /\ stage' = "idle" => target = NoBlock
      /\ diskData' = diskData \cup (haveData \cap dirty)
      /\ diskUndo' = diskUndo \cup (haveUndo \cap dirty)
      /\ diskFile' = nLastBlockFile /\ dirty' = {}
      /\ UNCHANGED <<phase, target, tip, best, coins, haveData, haveUndo, nFile,
                     nLastBlockFile, fileVars, dbVars, mishaps>>
  BY DEF FlushIndex
<1>3. TypeOK'
  BY <1>1, <1>2, Types DEF TypeOK, fileVars, dbVars
<1>4. LoadedOK'
  BY <1>1, <1>2 DEF LoadedOK
<1>5. ASSUME "write" \notin mishaps' PROVE DiskOK' /\ MemOK'
  <2>1. DiskOK /\ MemOK
    BY <1>2, <1>5 DEF IInv
  <2>2. /\ \A b \in haveData : blk[b] = "synced"
        /\ haveData \subseteq diskData' /\ haveUndo \subseteq diskUndo'
    BY <1>2, <2>1 DEF MemOK
  <2>3. DiskOK'
    BY <1>2, <2>1, <2>2 DEF DiskOK, fileVars, dbVars
  <2>4. MemOK'
    BY <1>2, <2>1, <2>2 DEF MemOK, fileVars
  <2> QED BY <2>3, <2>4
<1>6. ASSUME mishaps' = {} PROVE UndoOK' /\ phase' /= "corrupt"
  <2>1. UndoOK /\ phase /= "corrupt"
    BY <1>2, <1>6 DEF IInv
  <2> QED BY <1>2, <2>1 DEF UndoOK, fileVars
<1> QED BY <1>3, <1>4, <1>5, <1>6 DEF IInv

(* What the return from FlushStateToDisk leaves.                           *)
LEMMA ReturnType ==
  ASSUME IInv, NEW ok \in BOOLEAN, FlushReturn(ok), stage /= "idle"
  PROVE  /\ stage' = "idle" /\ target' = NoBlock /\ tip' \in Blocks \cup {NoBlock}
         /\ phase \in {"running", "stopping", "exiting"}
         /\ phase' \in {"running", "stopping", "down"}
<1>1. TypeOK
  BY DEF IInv
<1>2. phase \in {"running", "stopping", "exiting"}
  BY <1>1, Types
<1>3. stage' = "idle" /\ target' = NoBlock /\ tip' \in Blocks \cup {NoBlock}
  BY <1>1, Types DEF FlushReturn
<1>4. phase' \in {"running", "stopping", "down"}
  BY <1>2 DEF FlushReturn
<1> QED BY <1>2, <1>3, <1>4

(* The coins are written.                                                  *)
LEMMA CoinsStep ==
  ASSUME IInv, FlushCoins
  PROVE  IInv'
<1>1. TypeOK /\ LoadedOK
  BY DEF IInv
<1>2. /\ stage = "coins"
      /\ db' = [coins |-> coins, best |-> best] /\ versions' = versions \cup {db'}
      /\ UNCHANGED <<best, coins, haveData, haveUndo, dirty, nFile, nLastBlockFile,
                     fileVars, indexVars, mishaps>>
  BY DEF FlushCoins
<1>3. /\ stage' = "idle" /\ target' = NoBlock /\ tip' \in Blocks \cup {NoBlock}
      /\ phase \in {"running", "stopping", "exiting"}
      /\ phase' \in {"running", "stopping", "down"}
  BY <1>2, ReturnType, Zenon DEF FlushCoins
<1>4. db' \in CoinsDB /\ db'.coins = coins /\ db'.best = best
  BY <1>1, <1>2, Types DEF CoinsDB
<1>5. TypeOK'
  BY <1>1, <1>2, <1>3, <1>4, Types DEF TypeOK, fileVars, indexVars
<1>6. LoadedOK'
  BY <1>1, <1>2, <1>3 DEF LoadedOK, indexVars
<1>7. ASSUME "write" \notin mishaps' PROVE DiskOK' /\ MemOK'
  <2>1. DiskOK /\ MemOK
    BY <1>2, <1>7 DEF IInv
  <2>2. /\ db'.coins = Chain(db'.best) /\ Chain(db'.best) \subseteq diskData
        /\ Chain(db'.best) \ {Genesis} \subseteq diskUndo
    BY <1>2, <1>4, <2>1 DEF MemOK
  <2>3. DiskOK'
    BY <1>2, <2>1, <2>2 DEF DiskOK, fileVars, indexVars
  <2>4. MemOK'
    BY <1>2, <1>3, <2>1 DEF MemOK, fileVars, indexVars
  <2> QED BY <2>3, <2>4
<1>8. ASSUME mishaps' = {} PROVE UndoOK' /\ phase' /= "corrupt"
  <2>1. UndoOK
    BY <1>2, <1>8 DEF IInv
  <2> QED BY <1>2, <1>3, <2>1 DEF UndoOK, fileVars, indexVars
<1> QED BY <1>5, <1>6, <1>7, <1>8 DEF IInv

(* A write fails within FlushStateToDisk.                                  *)
LEMMA FailStep ==
  ASSUME IInv, NEW write \in Failures, FlushFails(write)
  PROVE  IInv'
<1>1. TypeOK /\ LoadedOK
  BY DEF IInv
<1>2. /\ stage /= "idle"
      /\ dirty' = IF write = "index" THEN {} ELSE dirty
      /\ coins' = IF write = "coins" THEN db.coins ELSE coins
      /\ mishaps' = IF write = "space" THEN mishaps ELSE mishaps \cup {"write"}
      /\ write \in {"space", "index", "coins"}
      /\ UNCHANGED <<best, haveData, haveUndo, nFile, nLastBlockFile,
                     fileVars, indexVars, dbVars>>
  BY DEF FlushFails
<1>3. /\ stage' = "idle" /\ target' = NoBlock /\ tip' \in Blocks \cup {NoBlock}
      /\ phase \in {"running", "stopping", "exiting"}
      /\ phase' \in {"running", "stopping", "down"}
  BY <1>2, ReturnType, Zenon DEF FlushFails
<1>4. db.coins \subseteq Blocks
  BY <1>1, Types DEF CoinsDB
<1>5. TypeOK'
  BY <1>1, <1>2, <1>3, <1>4, Types DEF TypeOK, fileVars, indexVars, dbVars
<1>6. LoadedOK'
  BY <1>1, <1>2, <1>3 DEF LoadedOK, indexVars
<1>7. ASSUME "write" \notin mishaps' PROVE DiskOK' /\ MemOK'
  <2>1. write = "space" /\ mishaps' = mishaps /\ dirty' = dirty /\ coins' = coins
    BY <1>2, <1>7
  <2>2. DiskOK /\ MemOK
    BY <1>7, <2>1 DEF IInv
  <2>3. DiskOK'
    BY <1>2, <2>2 DEF DiskOK, fileVars, indexVars, dbVars
  <2>4. MemOK'
    BY <1>2, <1>3, <2>1, <2>2 DEF MemOK, fileVars, indexVars
  <2> QED BY <2>3, <2>4
<1>8. ASSUME mishaps' = {} PROVE UndoOK' /\ phase' /= "corrupt"
  <2>1. mishaps = {}
    BY <1>2, <1>8
  <2>2. UndoOK
    BY <2>1 DEF IInv
  <2> QED BY <1>2, <1>3, <2>2 DEF UndoOK, fileVars, indexVars
<1> QED BY <1>5, <1>6, <1>7, <1>8 DEF IInv

(* The steps that only move the control: RequestShutdown, FlushPeriodic,   *)
(* Shutdown, and no step at all.                                           *)
LEMMA ControlStep ==
  ASSUME IInv, UNCHANGED <<memVars, fileVars, indexVars, dbVars, mishaps>>,
         \/ UNCHANGED <<phase, stage>>
         \/ /\ phase \in {"running", "stopping"} /\ stage = "idle"
            /\ phase' \in {"running", "stopping", "exiting"} /\ stage' \in {"idle", "files"}
  PROVE  IInv'
<1>1. TypeOK /\ LoadedOK
  BY DEF IInv
<1>2. TypeOK'
  BY <1>1, Types DEF TypeOK, memVars, fileVars, indexVars, dbVars
<1>3. LoadedOK'
  BY <1>1 DEF LoadedOK, memVars, indexVars
<1>4. ASSUME "write" \notin mishaps' PROVE DiskOK' /\ MemOK'
  <2>1. DiskOK /\ MemOK
    BY <1>4 DEF IInv
  <2>2. DiskOK'
    BY <2>1 DEF DiskOK, fileVars, indexVars, dbVars
  <2>3. MemOK'
    BY <2>1 DEF MemOK, memVars, fileVars, indexVars
  <2> QED BY <2>2, <2>3
<1>5. ASSUME mishaps' = {} PROVE UndoOK' /\ phase' /= "corrupt"
  <2>1. UndoOK /\ phase /= "corrupt"
    BY <1>5 DEF IInv
  <2> QED BY <2>1 DEF UndoOK, memVars, fileVars, indexVars
<1> QED BY <1>2, <1>3, <1>4, <1>5 DEF IInv

(* The process ends, with or without the power: what was synced stays, and *)
(* without a power failure everything that was written.                    *)
LEMMA DownStep ==
  ASSUME IInv, Down, mishaps' \in SUBSET {"power", "write"}, mishaps \subseteq mishaps',
         db' \in versions', versions' \subseteq versions,
         blk' \in [Blocks -> Content], rev' \in [Blocks -> Content],
         \A b \in Blocks : blk[b] = "synced" => blk'[b] = "synced",
         mishaps' = {} => rev' = rev
  PROVE  IInv'
<1>1. TypeOK
  BY DEF IInv
<1>2. /\ phase' = "down" /\ stage' = "idle" /\ target' = NoBlock
      /\ tip' = NoBlock /\ best' = NoBlock /\ coins' = {}
      /\ haveData' = {} /\ haveUndo' = {} /\ dirty' = {}
      /\ UNCHANGED <<nFile, nLastBlockFile, diskData, diskUndo, diskFile>>
  BY DEF Down, indexVars
<1>3. TypeOK'
  BY <1>1, <1>2, Types DEF TypeOK
<1>4. LoadedOK'
  BY <1>2 DEF LoadedOK
<1>5. ASSUME "write" \notin mishaps' PROVE DiskOK' /\ MemOK'
  <2>1. DiskOK
    BY <1>5 DEF IInv
  <2>2. diskData \subseteq Blocks
    BY <1>1, Types
  <2>3. DiskOK'
    BY <1>2, <2>1, <2>2 DEF DiskOK
  <2>4. MemOK'
    BY <1>2, Chains DEF MemOK
  <2> QED BY <2>3, <2>4
<1>6. ASSUME mishaps' = {} PROVE UndoOK' /\ phase' /= "corrupt"
  <2>1. UndoOK
    BY <1>6 DEF IInv
  <2> QED BY <1>2, <1>6, <2>1 DEF UndoOK
<1> QED BY <1>3, <1>4, <1>5, <1>6 DEF IInv

(* The process dies.                                                       *)
LEMMA CrashStep ==
  ASSUME IInv, Crash
  PROVE  IInv'
<1>1. TypeOK
  BY DEF IInv
<1>2. Down /\ UNCHANGED <<blk, rev, db, versions, mishaps>>
  BY DEF Crash, fileVars, dbVars
<1> QED BY <1>1, <1>2, DownStep, Types

(* The power fails.                                                        *)
LEMMA PowerStep ==
  ASSUME IInv, PowerFailure
  PROVE  IInv'
<1>1. TypeOK
  BY DEF IInv
<1>2. PICK lost \in SUBSET Unsynced(blk) : blk' = Without(blk, lost)
  BY DEF PowerFailure
<1>3. PICK lostUndo \in SUBSET Unsynced(rev) : rev' = Without(rev, lostUndo)
  BY DEF PowerFailure
<1>4. /\ blk' \in [Blocks -> Content] /\ rev' \in [Blocks -> Content]
      /\ \A b \in Blocks : blk[b] = "synced" => blk'[b] = "synced"
  BY <1>1, <1>2, <1>3, Types DEF Without, Unsynced, Content
<1>5. /\ Down /\ db' \in versions' /\ versions' \subseteq versions
      /\ mishaps' = mishaps \cup {"power"}
  BY DEF PowerFailure
<1>6. /\ mishaps' \in SUBSET {"power", "write"} /\ mishaps \subseteq mishaps'
      /\ mishaps' /= {}
  BY <1>1, <1>5, Types
<1> QED BY <1>4, <1>5, <1>6, DownStep

(* A restart finds on disk what VerifyDB looks for.                        *)
LEMMA RestartStep ==
  ASSUME IInv, Restart
  PROVE  IInv'
<1>1. TypeOK
  BY DEF IInv
<1>2. /\ phase = "down" /\ phase' \in {"running", "corrupt"}
      /\ tip' = db.best /\ best' = db.best /\ coins' = db.coins
      /\ haveData' = diskData /\ haveUndo' = diskUndo /\ dirty' = {}
      /\ nLastBlockFile' = diskFile
      /\ nFile' = [b \in Blocks |-> IF b \in diskData THEN nFile[b] ELSE 0]
      /\ blk' = [b \in Blocks |-> IF b \in diskData THEN blk[b] ELSE "none"]
      /\ rev' = [b \in Blocks |-> IF b \in diskUndo THEN rev[b] ELSE "none"]
      /\ UNCHANGED <<stage, target, diskData, diskUndo, diskFile, db, versions, mishaps>>
  BY DEF Restart, indexVars, dbVars
<1>3. stage = "idle" /\ target = NoBlock
  BY <1>1, <1>2, Types
<1>4. db.best \in Blocks \cup {NoBlock} /\ db.coins \subseteq Blocks
  BY <1>1, Types DEF CoinsDB
<1>5. TypeOK'
  <2>1. blk' \in [Blocks -> Content] /\ rev' \in [Blocks -> Content]
    BY <1>1, <1>2, Types DEF Content
  <2>2. nFile' \in [Blocks -> 0 .. MaxFile]
    BY <1>1, <1>2, Types, TreeAssumption
  <2> QED BY <1>1, <1>2, <1>3, <1>4, <2>1, <2>2, Types DEF TypeOK
<1>6. LoadedOK'
  BY <1>2 DEF LoadedOK
<1>7. diskData \subseteq Blocks /\ diskUndo \subseteq Blocks /\ db \in versions
  BY <1>1, Types
<1>8. ASSUME "write" \notin mishaps' PROVE DiskOK' /\ MemOK'
  <2>1. DiskOK
    BY <1>2, <1>8 DEF IInv
  <2>2. \A b \in diskData : blk'[b] = "synced"
    BY <1>2, <1>7, <2>1 DEF DiskOK
  <2>3. DiskOK'
    BY <1>2, <2>1, <2>2 DEF DiskOK
  <2>4. MemOK'
    BY <1>2, <1>3, <1>7, <2>1, <2>2 DEF MemOK, DiskOK
  <2> QED BY <2>3, <2>4
<1>9. ASSUME mishaps' = {} PROVE UndoOK' /\ phase' /= "corrupt"
  <2>1. UndoOK /\ DiskOK
    BY <1>2, <1>9 DEF IInv
  <2>2. UndoOK'
    BY <1>2, <1>7, <2>1 DEF UndoOK
  <2>3. /\ db.coins = Chain(db.best) /\ Chain(db.best) \subseteq diskData
        /\ Chain(db.best) \ {Genesis} \subseteq diskUndo
    BY <1>7, <2>1 DEF DiskOK
  <2>4. db.best \in diskData \cup {NoBlock}
    BY <1>4, <2>3, Chains
  <2>5. VerifyDB
    <3> SUFFICES ASSUME NEW a \in Chain(db.best) \ {Genesis}
                 PROVE  blk[a] /= "none" /\ a \in diskUndo /\ rev[a] /= "none" /\ a \in db.coins
      BY DEF VerifyDB
    <3> QED BY <2>1, <2>3 DEF DiskOK, UndoOK
  <2> QED BY <2>2, <2>4, <2>5 DEF Restart
<1> QED BY <1>5, <1>6, <1>8, <1>9 DEF IInv

(* The state InitBlockIndex leaves.                                        *)
LEMMA InitOK == Init => IInv
<1> SUFFICES ASSUME Init PROVE IInv
  OBVIOUS
<1>1. TypeOK
  BY Types, TreeAssumption DEF Init, Content, CoinsDB
<1>2. DiskOK
  BY Chains, TreeAssumption DEF Init, DiskOK
<1>3. MemOK
  BY Chains, TreeAssumption DEF Init, MemOK
<1> QED BY <1>1, <1>2, <1>3 DEF Init, IInv, LoadedOK, UndoOK

(* Every step keeps the invariant.                                         *)
LEMMA NextStep == IInv /\ [Next]_vars => IInv'
<1> SUFFICES ASSUME IInv, [Next]_vars PROVE IInv'
  OBVIOUS
<1>0. TypeOK
  BY DEF IInv
<1>1. ASSUME NEW b \in Blocks, NEW f \in 0 .. MaxFile, AcceptBlock(b, f) PROVE IInv'
  BY <1>0, <1>1, StoreStep, Types DEF AcceptBlock
<1>2. ASSUME NEW b \in Blocks, NEW f \in 0 .. MaxFile, WriteBlockFails(b, f) PROVE IInv'
  BY <1>0, <1>2, StoreStep, Types DEF WriteBlockFails
<1>3. CASE RequestShutdown
  BY <1>3, ControlStep DEF RequestShutdown
<1>4. CASE Shutdown
  BY <1>4, ControlStep DEF Shutdown
<1>5. CASE FlushPeriodic
  BY <1>5, ControlStep DEF FlushPeriodic, Working
<1>6. CASE UNCHANGED vars
  BY <1>6, ControlStep DEF vars
<1> QED
  BY <1>1, <1>2, <1>3, <1>4, <1>5, <1>6, ConnectStep, DisconnectStep, FilesStep,
     IndexStep, CoinsStep, FailStep, CrashStep, PowerStep, RestartStep DEF Next

(* IInv says at least what the properties say.                             *)
LEMMA Implied == IInv => TypeOK /\ CoinsMatchBest /\ DataSafe /\ UndoSafe /\ AlwaysRestarts
<1> SUFFICES ASSUME IInv
             PROVE  TypeOK /\ CoinsMatchBest /\ DataSafe /\ UndoSafe /\ AlwaysRestarts
  OBVIOUS
<1>1. CoinsMatchBest /\ DataSafe
  BY DEF IInv, CoinsMatchBest, DataSafe, DiskOK, MemOK
<1>2. UndoSafe
  BY DEF IInv, UndoSafe, DiskOK, UndoOK
<1> QED BY <1>1, <1>2 DEF IInv, AlwaysRestarts

(* IInv is invariant.                                                      *)
LEMMA SpecInv == Spec => []IInv
<1>1. Init => IInv
  BY InitOK
<1>2. IInv /\ [Next]_vars => IInv'
  BY NextStep
<1> QED BY <1>1, <1>2, PTL DEF Spec

(* FlushStateToDisk's order of writes is safe.  Whenever the process ends  *)
(* or the power fails, the index has the chain of the best block of the    *)
(* coins database and the data of that chain is synced.  For every tree,   *)
(* any number of files and any depth of VerifyDB.                          *)
THEOREM CrashSafe == Spec => [](TypeOK /\ DataSafe)
<1>1. IInv => TypeOK /\ DataSafe
  BY Implied
<1> QED BY <1>1, SpecInv, PTL

(* BatchWrite writes the coins and hashBestBlock together: after a crash   *)
(* at any point the coins on disk are those of the best block on disk.     *)
THEOREM CoinsAreOfBestBlock == Spec => []CoinsMatchBest
<1>1. IInv => CoinsMatchBest
  BY Implied
<1> QED BY <1>1, SpecInv, PTL

(* FlushStateToDisk: without a power failure and without a write that      *)
(* fails, every block of the chain of the coins database can be            *)
(* disconnected after a crash, whenever it happens.                        *)
THEOREM BlocksCanBeUndone == Spec => []UndoSafe
<1>1. IInv => UndoSafe
  BY Implied
<1> QED BY <1>1, SpecInv, PTL

(* LoadBlockIndex and VerifyDB succeed after every crash of the process    *)
(* alone, in the middle of a flush or of a reorganisation, at whatever     *)
(* depth VerifyDB looks.                                                   *)
THEOREM NodeRestarts == Spec => []AlwaysRestarts
<1>1. IInv => AlwaysRestarts
  BY Implied
<1> QED BY <1>1, SpecInv, PTL
=============================================================================
