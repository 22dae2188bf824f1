---------------------------- MODULE ChainIndexer ----------------------------
(***************************************************************************)
(* The index of unspent outputs that the wallet server keeps               *)
(* (ChainIndexer.java): the background thread that follows the node, the   *)
(* requests that compare the index with the node, the scans and the        *)
(* imports from the explorer that the requests start, and the file the     *)
(* index is saved in.                                                      *)
(*                                                                         *)
(* A step is what a thread does under indexLock or between two calls of    *)
(* the node.  The outputs are those of one address: the index keeps the    *)
(* addresses apart.  Amounts are left out.  So are reorganizations, which  *)
(* the indexer does not look for: a block is the same whenever it is       *)
(* fetched.  INDEX_START_HEIGHT is 0.                                      *)
(***************************************************************************)
EXTENDS Integers, FiniteSets, FiniteSetsExt

CONSTANTS Output,         \* outputs that pay to the address
          Created,        \* the height of the block with the output
          SpentAt,        \* the height of the block that spends it
          PoolSpent,      \* outputs that the memory pool may spend
          MaxHeight,      \* the last block there will be
          SYNC_BATCH_SIZE,
          Sync,           \* x2x-chain-indexer, the background thread
          Request,        \* the threads that answer requests
          Worker,         \* the threads of addressScanExecutor
          NoThread, NoFile,
          ExplorerLead,   \* how many blocks the explorer may be ahead
          MaxRequests,    \* bound on the requests a thread answers
          MaxFaults       \* bound on failing calls, failing writes and restarts

Thread == {Sync} \cup Request \cup Worker

ASSUME IndexerAssumption ==
  /\ Created \in [Output -> Nat] /\ SpentAt \in [Output -> Nat]
  /\ \A o \in Output : Created[o] <= SpentAt[o]
  /\ MaxHeight \in Nat /\ SYNC_BATCH_SIZE \in Nat \ {0} /\ ExplorerLead \in Nat
  /\ Sync \notin Request \cup Worker /\ Request \cap Worker = {}

VARIABLES
  nHeight,        \* the node: the height of its chain
  mempoolSpent,   \*   and the outputs its memory pool spends
  index,          \* indexedHeight, chainTip and the keys of outpoints
  file,           \* chain-index.json
  fileLock,       \* the thread that holds chain-index.lock
  pending,        \* pendingAddressScans and pendingExplorerEnrich
  th,             \* where each thread is, and its local variables
  denied,         \* outputs that the node denied, or failed to return, while
                  \* no block spent them (history)
  nRequests, nFaults

bounds == <<nRequests, nFaults>>
node == <<nHeight, mempoolSpent>>
vars == <<node, index, file, fileLock, pending, th, denied, bounds>>

Made(H) == {o \in Output : Created[o] \in H}
Gone(H) == {o \in Output : SpentAt[o] \in H}

(* The locals of a thread: tip and the next height; outputs still to look  *)
(* at; outputs found unspent and spent; the state to be written; the task. *)
Idle == [pc |-> "idle", tip |-> 0, next |-> 0, todo |-> {}, live |-> {}, spent |-> {},
         state |-> NoFile, task |-> "none"]

EmptyIndex == [indexedHeight |-> -1, chainTip |-> -1, outpoints |-> {}]

Init ==
  /\ nHeight = 0 /\ mempoolSpent = {}
  /\ index = EmptyIndex /\ file = NoFile /\ fileLock = NoThread
  /\ pending = {} /\ th = [t \in Thread |-> Idle]
  /\ denied = {} /\ nRequests = 0 /\ nFaults = 0

At(t, pc) == th[t].pc = pc

Go(t, locals) == th' = [th EXCEPT ![t] = locals]
Goto(t, pc) == Go(t, [th[t] EXCEPT !.pc = pc])

(* A thread is done: a worker takes its task off the pending ones, in the  *)
(* finally block.                                                          *)
Done(t) == Go(t, Idle) /\ pending' = pending \ {th[t].task}
-----------------------------------------------------------------------------
(* The node. *)

UnspentOnNode(o) == Created[o] <= nHeight /\ SpentAt[o] > nHeight /\ o \notin mempoolSpent

NewBlock ==
  /\ nHeight < MaxHeight /\ nHeight' = nHeight + 1
  /\ mempoolSpent' = mempoolSpent \ Gone({nHeight + 1})
  /\ UNCHANGED <<index, file, fileLock, pending, th, denied, bounds>>

(* A transaction that spends o enters or leaves the memory pool.           *)
MempoolChange(o) ==
  /\ \/ UnspentOnNode(o) /\ o \in PoolSpent /\ mempoolSpent' = mempoolSpent \cup {o}
     \/ o \in mempoolSpent /\ mempoolSpent' = mempoolSpent \ {o}
  /\ UNCHANGED <<nHeight, index, file, fileLock, pending, th, denied, bounds>>
-----------------------------------------------------------------------------
(* persistState, for every thread. *)

SnapshotState(t) ==
  /\ At(t, "snapshot") /\ Go(t, [th[t] EXCEPT !.pc = "lock", !.state = index])
  /\ UNCHANGED <<node, index, file, fileLock, pending, denied, bounds>>

(* Where a thread goes on after persistState.                              *)
AfterPersist(t) ==
  IF t \in Worker THEN Done(t)
  ELSE /\ Go(t, [th[t] EXCEPT !.pc = IF t = Sync THEN "again" ELSE "answer", !.state = NoFile])
       /\ UNCHANGED pending

(* FileChannel.lock throws OverlappingFileLockException when a thread of   *)
(* the same process has the lock.  It ends a request or a task; the        *)
(* background thread catches only IOException and InterruptedException.    *)
LockFile(t) ==
  /\ At(t, "lock")
  /\ IF fileLock = NoThread
     THEN fileLock' = t /\ Goto(t, "write") /\ UNCHANGED pending
     ELSE /\ IF t = Sync THEN Go(t, [Idle EXCEPT !.pc = "dead"]) /\ UNCHANGED pending ELSE Done(t)
          /\ UNCHANGED fileLock
  /\ UNCHANGED <<node, index, file, denied, bounds>>

(* The mutated form: the height is read when the file is written.          *)
HeightReadLate(t) ==
  /\ At(t, "write")
  /\ file' = [th[t].state EXCEPT !.indexedHeight = index.indexedHeight]
  /\ fileLock' = NoThread
  /\ AfterPersist(t)
  /\ UNCHANGED <<node, index, denied, bounds>>

(* A temporary file is written and moved over the old one.                 *)
WriteStateToDisk(t) ==
  /\ At(t, "write")
  /\ file' = th[t].state
  /\ fileLock' = NoThread
  /\ AfterPersist(t)
  /\ UNCHANGED <<node, index, denied, bounds>>
-----------------------------------------------------------------------------
(* startBackgroundSync and syncToTip. *)

ReadTip ==
  /\ At(Sync, "idle") \/ At(Sync, "again")
  /\ Go(Sync, [th[Sync] EXCEPT !.tip = nHeight, !.pc = IF At(Sync, "idle") THEN "first" ELSE "next"])
  /\ UNCHANGED <<node, index, file, fileLock, pending, denied, bounds>>

(* chainTip is set, and the next batch begun if there is one.              *)
BeginBatch ==
  /\ At(Sync, "first") \/ At(Sync, "next")
  /\ index' = [index EXCEPT !.chainTip = th[Sync].tip]
  /\ LET next == IF At(Sync, "first") THEN index.indexedHeight + 1 ELSE th[Sync].next
     IN  Go(Sync, IF next <= th[Sync].tip
                  THEN [th[Sync] EXCEPT !.pc = "block", !.next = next,
                                        !.tip = Min({@, next + SYNC_BATCH_SIZE - 1})]
                  ELSE Idle)
  /\ UNCHANGED <<node, file, fileLock, pending, denied, bounds>>

(* fetchBlock and applyBlockToIndex.  When getblockbynumber fails, the     *)
(* block is put together from its transactions' own calls and those that   *)
(* fail are left out.                                                      *)
IndexBlock ==
  /\ At(Sync, "block")
  /\ LET h == th[Sync].next IN
     /\ \E skipped \in {{}} \cup IF nFaults < MaxFaults THEN SUBSET Made({h}) \ {{}} ELSE {} :
          /\ index' = [index EXCEPT !.outpoints = (@ \cup (Made({h}) \ skipped)) \ Gone({h}),
                                    !.indexedHeight = h]
          /\ denied' = denied \cup skipped
          /\ nFaults' = IF skipped = {} THEN nFaults ELSE nFaults + 1
     /\ Go(Sync, [th[Sync] EXCEPT !.next = h + 1, !.pc = IF h = th[Sync].tip THEN "snapshot" ELSE "block"])
  /\ UNCHANGED <<node, file, fileLock, pending, nRequests>>
-----------------------------------------------------------------------------
(* Requests: balanceFast and utxosFor, with liveIndexedUtxos. *)

(* Outputs with a confirmation, as far as chainTip tells.                  *)
ReadIndexedOnly == {o \in index.outpoints : Created[o] <= index.chainTip}

NewRequest(r) ==
  /\ nRequests < MaxRequests /\ nRequests' = nRequests + 1
  /\ At(r, "idle") /\ Go(r, [Idle EXCEPT !.pc = "check", !.todo = ReadIndexedOnly])
  /\ UNCHANGED <<node, index, file, fileLock, pending, denied, nFaults>>

(* isUnspentOnNode: one call of gettxout, memory pool included.  An output *)
(* whose call fails counts as unspent.                                     *)
CheckOutput(r, o) ==
  /\ At(r, "check") /\ o \in th[r].todo
  /\ \E fails \in IF nFaults < MaxFaults THEN BOOLEAN ELSE {FALSE} :
       LET unspent == fails \/ UnspentOnNode(o) IN
         /\ Go(r, [th[r] EXCEPT !.todo = @ \ {o}, !.live = IF unspent THEN @ \cup {o} ELSE @,
                                !.spent = IF unspent THEN @ ELSE @ \cup {o}])
         /\ denied' = IF unspent \/ SpentAt[o] <= nHeight THEN denied ELSE denied \cup {o}
         /\ nFaults' = IF fails THEN nFaults + 1 ELSE nFaults
  /\ UNCHANGED <<node, index, file, fileLock, pending, nRequests>>

RemoveSpent(r) ==
  /\ At(r, "check") /\ th[r].todo = {} /\ th[r].spent # {}
  /\ index' = [index EXCEPT !.outpoints = @ \ th[r].spent]
  /\ Go(r, [th[r] EXCEPT !.pc = "snapshot", !.spent = {}])
  /\ UNCHANGED <<node, file, fileLock, pending, denied, bounds>>

IsFullyIndexed == index.indexedHeight >= 0 /\ index.indexedHeight >= index.chainTip

(* Nothing found: a scan is scheduled unless the index is at the tip, and  *)
(* an import from the explorer in any case.                                *)
Answer(r) ==
  /\ At(r, "answer") \/ (At(r, "check") /\ th[r].todo = {} /\ th[r].spent = {})
  /\ pending' = IF th[r].live # {} THEN pending
                ELSE pending \cup {"explorer"} \cup IF IsFullyIndexed THEN {} ELSE {"scan"}
  /\ Go(r, Idle)
  /\ UNCHANGED <<node, index, file, fileLock, denied, bounds>>
-----------------------------------------------------------------------------
(* The tasks of addressScanExecutor: utxosForDeep ("scan") and             *)
(* enrichFromExplorer ("explorer"). *)

StartTask(w, task) ==
  /\ At(w, "idle") /\ task \in pending /\ \A v \in Worker : th[v].task # task
  /\ Go(w, [Idle EXCEPT !.task = task, !.pc = IF task = "scan" THEN "copy" ELSE "import",
                        !.tip = IF task = "scan" THEN nHeight ELSE 0])
  /\ UNCHANGED <<node, index, file, fileLock, pending, denied, bounds>>

CopyIndexed(w) ==
  /\ At(w, "copy")
  /\ Go(w, [th[w] EXCEPT !.pc = "scan", !.live = ReadIndexedOnly, !.next = index.indexedHeight + 1])
  /\ UNCHANGED <<node, index, file, fileLock, pending, denied, bounds>>

(* chainTip is set and the blocks are scanned: those after the index when  *)
(* something was copied, all blocks otherwise.  A chunk that is not ready  *)
(* in time is left out.                                                    *)
ScanBlocks(w) ==
  /\ At(w, "scan")
  /\ index' = [index EXCEPT !.chainTip = th[w].tip]
  /\ \E scanned \in SUBSET ((IF th[w].live = {} THEN 0 ELSE th[w].next)..th[w].tip) :
       LET merged == th[w].live \cup (Made(scanned) \ Gone(scanned)) IN
         IF merged = {} THEN Done(w)
         ELSE Go(w, [th[w] EXCEPT !.pc = "store", !.live = merged, !.next = 0]) /\ UNCHANGED pending
  /\ UNCHANGED <<node, file, fileLock, denied, bounds>>

StoreMerged(w) ==
  /\ At(w, "store")
  /\ index' = [index EXCEPT !.chainTip = th[w].tip, !.outpoints = @ \cup th[w].live]
  /\ Go(w, [Idle EXCEPT !.pc = "snapshot", !.task = "scan"])
  /\ UNCHANGED <<node, file, fileLock, pending, denied, bounds>>

(* applyAddressTransactions, oldest first: the transactions that the       *)
(* explorer lists, its latest blocks included, create some of the outputs  *)
(* and spend others.                                                       *)
ApplyAddressTransactions(w) ==
  /\ At(w, "import")
  /\ LET known == 0..(nHeight + ExplorerLead) IN
     \E created \in SUBSET Made(known), spent \in SUBSET Gone(known) :
       IF created \cup spent = {} THEN Done(w) /\ UNCHANGED index
       ELSE /\ index' = [index EXCEPT !.outpoints = (@ \cup created) \ spent,
                           !.chainTip = Max({@} \cup {Created[o] : o \in created} \cup {SpentAt[o] : o \in spent})]
            /\ Goto(w, "snapshot") /\ UNCHANGED pending
  /\ UNCHANGED <<node, file, fileLock, denied, bounds>>
-----------------------------------------------------------------------------
(* Failures. *)

(* The call of the node, or the writing of the file, fails with an         *)
(* IOException.  The background thread starts over.                        *)
Fail(t) ==
  /\ nFaults < MaxFaults /\ nFaults' = nFaults + 1
  /\ \/ t = Sync /\ th[t].pc \in {"idle", "block", "again", "write"}
     \/ t \in Worker /\ th[t].pc \in {"copy", "store", "import", "write"}
     \/ t \in Request /\ th[t].pc = "write"
  /\ Done(t)
  /\ fileLock' = IF fileLock = t THEN NoThread ELSE fileLock
  /\ UNCHANGED <<node, index, file, denied, nRequests>>

(* The server stops at any time, and open reads the file.                  *)
Restart ==
  /\ nFaults < MaxFaults /\ nFaults' = nFaults + 1
  /\ index' = IF file = NoFile THEN EmptyIndex ELSE file
  /\ th' = [t \in Thread |-> Idle] /\ fileLock' = NoThread /\ pending' = {}
  /\ UNCHANGED <<node, file, denied, nRequests>>
-----------------------------------------------------------------------------
Persist(t) == SnapshotState(t) \/ LockFile(t) \/ WriteStateToDisk(t)

SyncStep == ReadTip \/ BeginBatch \/ IndexBlock \/ Persist(Sync)

RequestStep(r) ==
  (\E o \in Output : CheckOutput(r, o)) \/ RemoveSpent(r) \/ Answer(r) \/ Persist(r)

WorkerStep(w) ==
  \/ \E task \in {"scan", "explorer"} : StartTask(w, task)
  \/ CopyIndexed(w) \/ ScanBlocks(w) \/ StoreMerged(w)
  \/ ApplyAddressTransactions(w) \/ Persist(w)

Next ==
  \/ NewBlock \/ \E o \in Output : MempoolChange(o)
  \/ SyncStep
  \/ \E r \in Request : NewRequest(r) \/ RequestStep(r)
  \/ \E w \in Worker : WorkerStep(w)
  \/ \E t \in Thread : Fail(t)
  \/ Restart

(* Every thread of the server goes on, and the node answers its calls.     *)
Fairness ==
  /\ WF_vars(SyncStep)
  /\ \A r \in Request : WF_vars(RequestStep(r))
  /\ \A w \in Worker : WF_vars(WorkerStep(w))

Spec == Init /\ [][Next]_vars /\ Fairness
-----------------------------------------------------------------------------
(* No output is lost: an output in a block up to indexedHeight that no     *)
(* block of the node or the explorer spends is in the index, unless the    *)
(* node once denied it or failed to return it.  So it is after every       *)
(* interleaving of syncToTip, liveIndexedUtxos, utxosForDeep and           *)
(* enrichFromExplorer, and after restarts from a file that an older        *)
(* snapshot may have overwritten.                                          *)
IndexComplete ==
  \A o \in Output \ denied :
    Created[o] <= index.indexedHeight /\ SpentAt[o] > nHeight + ExplorerLead => o \in index.outpoints

(* "The full sync continues in the background" (wallet/docs/DEVELOPER.md): *)
(* every block of the node is indexed in the end.                          *)
SyncContinues == \A h \in 0..MaxHeight : nHeight >= h ~> index.indexedHeight >= h
=============================================================================
