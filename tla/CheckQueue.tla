----------------------------- MODULE CheckQueue -----------------------------
(***************************************************************************)
(* The queue of script checks (checkqueue.h).  The master, the thread that *)
(* connects a block, adds batches of checks and then joins the worker      *)
(* threads until all of them are done.  cs_main keeps the masters apart,   *)
(* so there is one at a time.                                              *)
(*                                                                         *)
(* An action is what a thread does from taking the mutex to releasing it,  *)
(* together with the checks it ran before that on its own.  A condition    *)
(* variable is the set of the threads blocked on it; a thread that was     *)
(* notified still has to get the mutex.  At shutdown every thread is       *)
(* interrupted, and a wait on a condition variable then throws.            *)
(*                                                                         *)
(* Checks are told apart by name only, the queue is a set: the code takes  *)
(* the ones added last, here any are taken.  fQuit is never set.           *)
(***************************************************************************)
EXTENDS Naturals, FiniteSets

CONSTANTS Check,       \* the checks there can be in a block
          Bad,         \* those that fail
          Worker,      \* threads that run ThreadScriptCheck
          Master,      \* the thread that connects blocks
          nBatchSize   \* most checks taken at a time

ASSUME QueueAssumption ==
  /\ IsFiniteSet(Check) /\ Bad \subseteq Check
  /\ IsFiniteSet(Worker) /\ Master \notin Worker
  /\ nBatchSize \in Nat \ {0}

VARIABLES
  queue, nIdle, nTotal, fAllOk, nTodo,
  pc,           \* where each thread is
  vChecks,      \* the checks each thread has taken
  fOk,          \* fAllOk when it took them
  interrupted,  \* threads with a pending interruption
  spared,       \* threads that interrupt_all has not reached
  added,        \* the checks of the current block
  fRet          \* what Loop last returned to the master

Thread == Worker \cup {Master}
counters == <<nIdle, nTotal, nTodo>>
interrupts == <<interrupted, spared>>
queueVars == <<queue, counters, fAllOk, pc, vChecks, fOk, interrupts, added, fRet>>

QueueInit ==
  /\ queue = {} /\ added = {} /\ interrupted = {} /\ spared = Thread
  /\ nIdle = 0 /\ nTotal = 0 /\ nTodo = 0
  /\ fAllOk = TRUE /\ fRet = TRUE
  /\ pc = [t \in Thread |-> IF t = Master THEN "outside" ELSE "created"]
  /\ vChecks = [t \in Thread |-> {}]
  /\ fOk = [t \in Thread |-> TRUE]

IsIdle == nTotal = nIdle /\ nTodo = 0 /\ fAllOk

(* CCheckQueueControl's constructor asserts IsIdle.                        *)
NewControl ==
  /\ pc[Master] = "outside"
  /\ pc' = [pc EXCEPT ![Master] = "adding"]
  /\ added' = {}
  /\ UNCHANGED <<queue, counters, fAllOk, vChecks, fOk, interrupts, fRet>>

(* What has become of threads once those in S are notified.                *)
Notified(S) == [t \in Thread |-> IF t \in S THEN "notified" ELSE pc[t]]
Blocked == {t \in Thread : pc[t] = "waiting"}

Add(checks) ==
  /\ pc[Master] = "adding"
  /\ checks \subseteq Check \ added
  /\ queue' = queue \cup checks
  /\ nTodo' = nTodo + Cardinality(checks)
  /\ LET idle == Blocked \cap Worker IN
       \/ /\ Cardinality(checks) = 1
          /\ \/ idle = {} /\ UNCHANGED pc
             \/ \E t \in idle : pc' = Notified({t})
       \/ /\ Cardinality(checks) > 1
          /\ pc' = Notified(idle)
  /\ added' = added \cup checks
  /\ UNCHANGED <<nIdle, nTotal, fAllOk, vChecks, fOk, interrupts, fRet>>

BatchSize(total, idle) ==
  LET share == Cardinality(queue) \div (total + idle + 1) IN
  IF share > nBatchSize THEN nBatchSize ELSE IF share = 0 THEN 1 ELSE share

Take(t, now, ok, total, idle) ==
  /\ \E batch \in SUBSET queue :
       /\ Cardinality(batch) = BatchSize(total, idle)
       /\ queue' = queue \ batch
       /\ vChecks' = [vChecks EXCEPT ![t] = batch]
  /\ fOk' = [fOk EXCEPT ![t] = ok]
  /\ pc' = [now EXCEPT ![t] = "checking"]
  /\ fAllOk' = ok /\ nTotal' = total /\ nIdle' = idle
  /\ UNCHANGED <<interrupted, fRet>>

(* Mutated form of Return: the status is not reset.                        *)
KeepsStatus(now, ok, total, idle) ==
  /\ fRet' = ok /\ fAllOk' = ok
  /\ pc' = [now EXCEPT ![Master] = "outside"]
  /\ nTotal' = total - 1 /\ nIdle' = idle
  /\ vChecks' = [vChecks EXCEPT ![Master] = {}]
  /\ interrupted' = interrupted \ {Master}
  /\ UNCHANGED <<queue, fOk>>

Return(now, ok, total, idle) ==
  /\ fRet' = ok /\ fAllOk' = TRUE
  /\ pc' = [now EXCEPT ![Master] = "outside"]
  /\ nTotal' = total - 1 /\ nIdle' = idle
  /\ vChecks' = [vChecks EXCEPT ![Master] = {}]
  /\ interrupted' = interrupted \ {Master}
  /\ UNCHANGED <<queue, fOk>>

(* An interruption ends a worker.  It takes the master out of Wait and     *)
(* into the destructor of CCheckQueueControl, which calls Wait again.      *)
Thrown(t) == IF t = Master THEN "unwinding" ELSE "ended"

(* Mutated form of Block: the thread is not counted as idle.               *)
NotCounted(t, now, ok, total, idle) ==
  /\ pc' = [now EXCEPT ![t] = IF t \in interrupted THEN Thrown(t) ELSE "waiting"]
  /\ interrupted' = interrupted \ {t}
  /\ vChecks' = [vChecks EXCEPT ![t] = {}]
  /\ fAllOk' = ok /\ nTotal' = total /\ nIdle' = idle
  /\ UNCHANGED <<queue, fOk, fRet>>

(* nIdle++ is not taken back when the wait throws.                         *)
Block(t, now, ok, total, idle) ==
  /\ pc' = [now EXCEPT ![t] = IF t \in interrupted THEN Thrown(t) ELSE "waiting"]
  /\ interrupted' = interrupted \ {t}
  /\ vChecks' = [vChecks EXCEPT ![t] = {}]
  /\ fAllOk' = ok /\ nTotal' = total /\ nIdle' = idle + 1
  /\ UNCHANGED <<queue, fOk, fRet>>

(* From while (queue.empty()) to the next release of the mutex, with the   *)
(* values the variables have by then.                                      *)
LoopFrom(t, now, ok, todo, total, idle) ==
  /\ nTodo' = todo
  /\ \/ queue /= {} /\ Take(t, now, ok, total, idle)
     \/ queue = {} /\ t = Master /\ todo = 0 /\ Return(now, ok, total, idle)
     \/ queue = {} /\ ~(t = Master /\ todo = 0) /\ Block(t, now, ok, total, idle)
  /\ UNCHANGED <<added, spared>>

(* First iteration of Loop: a worker starts, the master calls Wait.        *)
Enter(t) ==
  /\ pc[t] \in {"created", "adding", "unwinding"}
  /\ LoopFrom(t, pc, fAllOk, nTodo, nTotal + 1, nIdle)

Todo(t) == nTodo - Cardinality(vChecks[t])
Verdict(t) == fOk[t] /\ vChecks[t] \cap Bad = {}

(* Mutated form of Finish: the master is not told that all is done.        *)
NoNotice(t) ==
  /\ pc[t] = "checking"
  /\ LoopFrom(t, pc, fAllOk /\ Verdict(t), Todo(t), nTotal, nIdle)

(* Mutated form of Finish: the result of the last batch counts.            *)
LastCounts(t) ==
  /\ pc[t] = "checking"
  /\ LET done == Todo(t) = 0 /\ t /= Master /\ Master \in Blocked IN
     LoopFrom(t, IF done THEN Notified({Master}) ELSE pc,
              Verdict(t), Todo(t), nTotal, nIdle)

(* A thread has run its checks, up to the first that fails, and none when  *)
(* one had failed before it took them.                                     *)
Finish(t) ==
  /\ pc[t] = "checking"
  /\ LET done == Todo(t) = 0 /\ t /= Master /\ Master \in Blocked IN
     LoopFrom(t, IF done THEN Notified({Master}) ELSE pc,
              fAllOk /\ Verdict(t), Todo(t), nTotal, nIdle)

(* The wait of a thread that was notified returns, or throws.              *)
Wake(t) ==
  /\ pc[t] = "notified"
  /\ \/ /\ t \notin interrupted
        /\ LoopFrom(t, pc, fAllOk, nTodo, nTotal, nIdle - 1)
     \/ /\ t \in interrupted
        /\ interrupted' = interrupted \ {t}
        /\ pc' = [pc EXCEPT ![t] = Thrown(t)]
        /\ UNCHANGED <<queue, counters, fAllOk, vChecks, fOk, spared, added, fRet>>

(* A condition variable may wake a thread for no reason.                   *)
SpuriousWake(t) ==
  /\ pc[t] = "waiting"
  /\ pc' = Notified({t})
  /\ UNCHANGED <<queue, counters, fAllOk, vChecks, fOk, interrupts, added, fRet>>

(* threadGroup.interrupt_all(), which goes from thread to thread.  Outside *)
(* the queue a master takes its interruption elsewhere.                    *)
Interrupt(t) ==
  /\ t \in spared /\ pc[t] /= "outside"
  /\ spared' = spared \ {t}
  /\ interrupted' = interrupted \cup {t}
  /\ pc' = Notified({t} \cap Blocked)
  /\ UNCHANGED <<queue, counters, fAllOk, vChecks, fOk, added, fRet>>

Step(t) == Enter(t) \/ Finish(t) \/ Wake(t)

QueueNext ==
  \/ NewControl
  \/ \E checks \in SUBSET Check : Add(checks)
  \/ \E t \in Thread : Step(t) \/ SpuriousWake(t) \/ Interrupt(t)

(* The operating system runs every thread, and every check ends.           *)
QueueSpec ==
  QueueInit /\ [][QueueNext]_queueVars /\ \A t \in Thread : WF_queueVars(Step(t))
-----------------------------------------------------------------------------
(* The type of the state; the counters do not go below zero.               *)
QueueTypeOK ==
  /\ queue \subseteq added /\ added \subseteq Check
  /\ nIdle \in Nat /\ nTotal \in Nat /\ nTodo \in Nat
  /\ fAllOk \in BOOLEAN /\ fRet \in BOOLEAN
  /\ pc \in [Thread -> {"outside", "adding", "unwinding", "created", "waiting",
                         "notified", "checking", "ended"}]
  /\ vChecks \in [Thread -> SUBSET added] /\ fOk \in [Thread -> BOOLEAN]
  /\ interrupted \subseteq Thread \ spared /\ spared \subseteq Thread

(* The assertion of CCheckQueueControl's constructor: between two blocks   *)
(* every thread in Loop is idle, nothing is left to do and no failure of   *)
(* the last block is remembered, also when threads start late or have been *)
(* interrupted.                                                            *)
IdleBetweenBlocks == pc[Master] = "outside" => IsIdle

(* Wait tells the master of this block whether all its checks are good:    *)
(* none is lost, none is counted twice, none of another block matters.     *)
VerdictRight ==
  [][pc[Master] /= "outside" /\ pc'[Master] = "outside"
       => fRet' = (added \cap Bad = {})]_queueVars

(* ConnectBlock gets its answer: no wakeup is lost, also when the threads  *)
(* that are to do the work are interrupted.                                *)
WaitReturns == pc[Master] = "adding" ~> pc[Master] = "outside"
=============================================================================
