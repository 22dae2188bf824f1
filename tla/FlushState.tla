----------------------------- MODULE FlushState -----------------------------
(***************************************************************************)
(* How the chain state reaches the disk and what a restart finds there     *)
(* (FlushStateToDisk, ConnectTip, DisconnectTip, AcceptBlock, FindBlockPos *)
(* and LoadBlockIndexDB in main.cpp, Shutdown and AppInit2 in init.cpp).   *)
(*                                                                         *)
(* Three stores are written at different times: the blk and rev files      *)
(* (blocks and undo data), the block index database (written with fsync)   *)
(* and the coins database (written without).  The process can die between  *)
(* any two writes, the power can fail, and a write can fail.               *)
(*                                                                         *)
(* A set of coins is represented by the set of the blocks whose changes    *)
(* are in it, a block's undo data by whether it can be read.  Every block  *)
(* is valid and any child of the tip can be connected: which one is chosen *)
(* is the subject of module ChainState.  Pruning is not modelled here.     *)
(***************************************************************************)
EXTENDS Naturals

CONSTANTS Blocks, Genesis, NoBlock,
          Prev, Anc, Height,    \* parent, ancestors with the block, height
          MaxFile,              \* number of the last block file
          nCheckDepth,          \* -checkblocks
          Failures              \* the writes that can fail: some of "space"
                                \* (CheckDiskSpace), "block", "index", "coins"

ASSUME TreeAssumption ==
  /\ Genesis \in Blocks /\ NoBlock \notin Blocks
  /\ Prev[Genesis] = NoBlock /\ Anc[Genesis] = {Genesis}
  /\ \A b \in Blocks : Anc[b] \in SUBSET Blocks /\ b \in Anc[b] /\ Genesis \in Anc[b]
  /\ \A b \in Blocks \ {Genesis} : /\ Prev[b] \in Blocks
                                   /\ Anc[b] = Anc[Prev[b]] \cup {b}
                                   /\ b \notin Anc[Prev[b]]
  /\ MaxFile \in Nat

(* Running: *)
VARIABLES phase,      \* "running", "stopping" (fRequestShutdown), "exiting"
                      \* (Shutdown), "down", or "corrupt" (does not start)
          stage,      \* how far FlushStateToDisk is: "idle" outside of it
          target,     \* the block UpdateTip gets after it, or NoBlock
          tip,        \* chainActive.Tip()
          best,       \* pcoinsTip->hashBlock
          coins,      \* what lookups through pcoinsTip find
          haveData, haveUndo,  \* BLOCK_HAVE_DATA, BLOCK_HAVE_UNDO in memory
          dirty,      \* setDirtyBlockIndex
          nFile,      \* CBlockIndex::nFile
          nLastBlockFile
(* On disk: *)
VARIABLES blk, rev,   \* a block's data: "none", "written" or "synced"
          diskData, diskUndo,  \* the flags in the block index database
          diskFile,   \* DB_LAST_BLOCK
          db,         \* the coins database, as other processes would see it
          versions    \* the coins databases that a power failure can leave
(* What has happened: *)
VARIABLE mishaps      \* "power": it has failed; "write": a failed write has
                      \* lost what was to be written

memVars == <<target, tip, best, coins, haveData, haveUndo, dirty, nFile, nLastBlockFile>>
fileVars == <<blk, rev>>
indexVars == <<diskData, diskUndo, diskFile>>
dbVars == <<db, versions>>
vars == <<phase, stage, memVars, fileVars, indexVars, dbVars, mishaps>>

Chain(b) == IF b = NoBlock THEN {} ELSE Anc[b]

(* InitBlockIndex has stored the genesis block; it is not connected yet.   *)
Init ==
  /\ phase = "running" /\ stage = "idle" /\ target = NoBlock
  /\ tip = NoBlock /\ best = NoBlock /\ coins = {}
  /\ haveData = {Genesis} /\ haveUndo = {} /\ dirty = {}
  /\ nFile = [b \in Blocks |-> 0] /\ nLastBlockFile = 0
  /\ blk = [b \in Blocks |-> IF b = Genesis THEN "synced" ELSE "none"]
  /\ rev = [b \in Blocks |-> "none"]
  /\ diskData = {Genesis} /\ diskUndo = {} /\ diskFile = 0
  /\ db = [coins |-> {}, best |-> NoBlock] /\ versions = {db}
  /\ mishaps = {}

Working == phase \in {"running", "stopping"} /\ stage = "idle"

(* FileCommit of one file: what was written to it is safe.                 *)
Committed(f, content) ==
  [b \in Blocks |-> IF content[b] = "written" /\ nFile[b] = f THEN "synced"
                    ELSE content[b]]

(* FlushBlockFile: the last block file and its undo file.                  *)
FlushBlockFile == /\ blk' = Committed(nLastBlockFile, blk)
                  /\ rev' = Committed(nLastBlockFile, rev)
-----------------------------------------------------------------------------
(* Mutated form of LeftFile: a file is left without being flushed.         *)
LeftUnflushed(f, content) == content

(* FindBlockPos, when the block goes to file f: the file left is flushed.  *)
LeftFile(f, content) ==
  IF f = nLastBlockFile THEN content ELSE Committed(nLastBlockFile, content)

(* AcceptBlock writes the block and updates the index.  When the write     *)
(* fails it aborts the node but goes on with ReceivedBlockTransactions.    *)
StoreBlock(b, f, written) ==
  /\ Working
  /\ b \notin haveData
  /\ f \in nLastBlockFile .. nLastBlockFile + 1 /\ f <= MaxFile
  /\ nFile' = [nFile EXCEPT ![b] = f] /\ nLastBlockFile' = f
  /\ blk' = [LeftFile(f, blk) EXCEPT ![b] = written]
  /\ rev' = LeftFile(f, rev)
  /\ haveData' = haveData \cup {b} /\ dirty' = dirty \cup {b}
  /\ UNCHANGED <<stage, target, tip, best, coins, haveUndo, indexVars, dbVars>>

AcceptBlock(b, f) ==
  StoreBlock(b, f, "written") /\ UNCHANGED <<phase, mishaps>>

WriteBlockFails(b, f) ==
  /\ "block" \in Failures
  /\ StoreBlock(b, f, "none")
  /\ phase' = "stopping" /\ mishaps' = mishaps \cup {"write"}

(* The end of ConnectTip and DisconnectTip: FlushStateToDisk, when the     *)
(* cache is over its limit (flush), then UpdateTip.                        *)
ThenUpdateTip(b, flush) ==
  IF flush THEN stage' = "files" /\ target' = b /\ UNCHANGED tip
  ELSE tip' = b /\ UNCHANGED <<stage, target>>

(* Mutated form of ConnectTip: the new position of the undo data does not  *)
(* make the index entry dirty.                                             *)
UndoNotDirty(b, flush) ==
  /\ Working
  /\ b \in haveData /\ blk[b] /= "none"
  /\ Prev[b] = tip /\ best = tip
  /\ coins' = coins \cup {b} /\ best' = b
  /\ IF b \in haveUndo \/ b = Genesis
     THEN UNCHANGED <<haveUndo, rev>>
     ELSE /\ haveUndo' = haveUndo \cup {b}
          /\ rev' = [rev EXCEPT ![b] = "written"]
  /\ UNCHANGED dirty
  /\ ThenUpdateTip(b, flush)
  /\ UNCHANGED <<phase, haveData, nFile, nLastBlockFile, blk, indexVars, dbVars, mishaps>>

(* ConnectTip.  The assertion at the start of ConnectBlock needs best =    *)
(* tip; where it fails the process dies (Crash).  Undo data is written to  *)
(* the rev file of the block's own file, unless the index says that it is  *)
(* there.  The genesis block has none.                                     *)
ConnectTip(b, flush) ==
  /\ Working
  /\ b \in haveData /\ blk[b] /= "none"
  /\ Prev[b] = tip /\ best = tip
  /\ coins' = coins \cup {b} /\ best' = b
  /\ IF b \in haveUndo \/ b = Genesis
     THEN UNCHANGED <<haveUndo, rev, dirty>>
     ELSE /\ haveUndo' = haveUndo \cup {b} /\ dirty' = dirty \cup {b}
          /\ rev' = [rev EXCEPT ![b] = "written"]
  /\ ThenUpdateTip(b, flush)
  /\ UNCHANGED <<phase, haveData, nFile, nLastBlockFile, blk, indexVars, dbVars, mishaps>>

(* DisconnectTip.  DisconnectBlock fails, and nothing changes, when there  *)
(* is no undo data or the outputs of the block are not in the coins.       *)
DisconnectTip(flush) ==
  /\ Working
  /\ tip \notin {NoBlock, Genesis} /\ best = tip
  /\ blk[tip] /= "none" /\ tip \in haveUndo /\ rev[tip] /= "none"
  /\ tip \in coins
  /\ coins' = coins \ {tip} /\ best' = Prev[tip]
  /\ ThenUpdateTip(Prev[tip], flush)
  /\ UNCHANGED <<phase, haveData, haveUndo, dirty, nFile, nLastBlockFile, fileVars,
                 indexVars, dbVars, mishaps>>

(* ReadBlockFromDisk fails: AbortNode.  Also a user's request to stop.     *)
RequestShutdown ==
  /\ phase = "running" /\ stage = "idle" /\ phase' = "stopping"
  /\ UNCHANGED <<stage, memVars, fileVars, indexVars, dbVars, mishaps>>
-----------------------------------------------------------------------------
(* FlushStateToDisk on its own, and in Shutdown once the threads are gone. *)
FlushPeriodic ==
  /\ Working /\ stage' = "files"
  /\ UNCHANGED <<phase, memVars, fileVars, indexVars, dbVars, mishaps>>

Shutdown ==
  /\ phase = "stopping" /\ stage = "idle" /\ phase' = "exiting" /\ stage' = "files"
  /\ UNCHANGED <<memVars, fileVars, indexVars, dbVars, mishaps>>

(* Mutated form of FlushFiles: the coins may be written before the index.  *)
CoinsFirst ==
  /\ stage = "files" /\ stage' \in {"index", "coins"}
  /\ FlushBlockFile
  /\ UNCHANGED <<phase, memVars, indexVars, dbVars, mishaps>>

FlushFiles ==
  /\ stage = "files" /\ stage' = "index"
  /\ FlushBlockFile
  /\ UNCHANGED <<phase, memVars, indexVars, dbVars, mishaps>>

(* WriteBatchSync.  A periodic write may leave the coins for later.        *)
FlushIndex ==
  /\ stage = "index"
  /\ \/ stage' = "coins"
     \/ phase /= "exiting" /\ target = NoBlock /\ stage' = "idle"
  /\ diskData' = diskData \cup (haveData \cap dirty)
  /\ diskUndo' = diskUndo \cup (haveUndo \cap dirty)
  /\ diskFile' = nLastBlockFile /\ dirty' = {}
  /\ UNCHANGED <<phase, target, tip, best, coins, haveData, haveUndo, nFile,
                 nLastBlockFile, fileVars, dbVars, mishaps>>

(* Mutated form of FlushReturn: the pending block is not forgotten on      *)
(* failure.                                                                *)
StillPending(ok) ==
  /\ stage' = "idle" /\ target' = IF ok THEN NoBlock ELSE target
  /\ tip' = IF ok /\ target /= NoBlock THEN target ELSE tip
  /\ phase' = IF phase = "exiting" THEN "down" ELSE IF ok THEN phase ELSE "stopping"

(* FlushStateToDisk returns; ConnectTip and DisconnectTip go on to         *)
(* UpdateTip when it succeeded, Shutdown ends the process.                 *)
FlushReturn(ok) ==
  /\ stage' = "idle" /\ target' = NoBlock
  /\ tip' = IF ok /\ target /= NoBlock THEN target ELSE tip
  /\ phase' = IF phase = "exiting" THEN "down" ELSE IF ok THEN phase ELSE "stopping"

(* Mutated form of FlushCoins: the database gets the tip's hash.           *)
FlushesTip ==
  /\ stage = "coins"
  /\ db' = [coins |-> coins, best |-> tip]
  /\ versions' = versions \cup {db'}
  /\ FlushReturn(TRUE)
  /\ UNCHANGED <<best, coins, haveData, haveUndo, dirty, nFile, nLastBlockFile,
                 fileVars, indexVars, mishaps>>

(* pcoinsTip->Flush(): coins and best block in one batch.                  *)
FlushCoins ==
  /\ stage = "coins"
  /\ db' = [coins |-> coins, best |-> best]
  /\ versions' = versions \cup {db'}
  /\ FlushReturn(TRUE)
  /\ UNCHANGED <<best, coins, haveData, haveUndo, dirty, nFile, nLastBlockFile,
                 fileVars, indexVars, mishaps>>

(* A write fails.  CheckDiskSpace fails before anything is touched; a      *)
(* failing WriteBatchSync comes after setDirtyBlockIndex was emptied; a    *)
(* failing coins batch after the entries were taken out of cacheCoins,     *)
(* while hashBlock stays.                                                  *)
FlushFails(write) ==
  /\ <<stage, write>> \in {<<"files", "space">>, <<"index", "index">>,
                          <<"coins", "space">>, <<"coins", "coins">>}
  /\ dirty' = IF write = "index" THEN {} ELSE dirty
  /\ coins' = IF write = "coins" THEN db.coins ELSE coins
  /\ mishaps' = IF write = "space" THEN mishaps ELSE mishaps \cup {"write"}
  /\ FlushReturn(FALSE)
  /\ UNCHANGED <<best, haveData, haveUndo, nFile, nLastBlockFile,
                 fileVars, indexVars, dbVars>>
-----------------------------------------------------------------------------
(* The process ends; memory is gone.                                       *)
Down ==
  /\ phase' = "down" /\ stage' = "idle" /\ target' = NoBlock
  /\ tip' = NoBlock /\ best' = NoBlock /\ coins' = {}
  /\ haveData' = {} /\ haveUndo' = {} /\ dirty' = {}
  /\ UNCHANGED <<nFile, nLastBlockFile, indexVars>>

Crash ==
  /\ phase \notin {"down", "corrupt"}
  /\ Down /\ UNCHANGED <<fileVars, dbVars, mishaps>>

(* What was not synced may be lost: any of the data in the files, the last *)
(* batches of the coins database.                                          *)
Unsynced(content) == {b \in Blocks : content[b] = "written"}
Without(content, lost) == [b \in Blocks |-> IF b \in lost THEN "none" ELSE content[b]]

PowerFailure ==
  /\ phase /= "corrupt"
  /\ \E v \in versions : db' = v /\ versions' = {v}
  /\ \E lost \in SUBSET Unsynced(blk) : blk' = Without(blk, lost)
  /\ \E lost \in SUBSET Unsynced(rev) : rev' = Without(rev, lost)
  /\ mishaps' = mishaps \cup {"power"}
  /\ Down

(* VerifyDB at level 3: the last blocks can be read and disconnected.      *)
VerifyDB ==
  \A a \in Chain(db.best) \ {Genesis} :
    Height[a] + nCheckDepth >= Height[db.best] =>
      blk[a] /= "none" /\ a \in diskUndo /\ rev[a] /= "none" /\ a \in db.coins

(* AppInit2.  With a best block that the index does not have the active    *)
(* chain stays empty and ConnectBlock's assertion fails on the genesis     *)
(* block.  What the index does not know of in the files is overwritten.    *)
Restart ==
  /\ phase = "down"
  /\ phase' = IF db.best \in diskData \cup {NoBlock} /\ VerifyDB THEN "running" ELSE "corrupt"
  /\ tip' = db.best /\ best' = db.best /\ coins' = db.coins
  /\ haveData' = diskData /\ haveUndo' = diskUndo /\ dirty' = {}
  /\ nLastBlockFile' = diskFile
  /\ nFile' = [b \in Blocks |-> IF b \in diskData THEN nFile[b] ELSE 0]
  /\ blk' = [b \in Blocks |-> IF b \in diskData THEN blk[b] ELSE "none"]
  /\ rev' = [b \in Blocks |-> IF b \in diskUndo THEN rev[b] ELSE "none"]
  /\ UNCHANGED <<stage, target, indexVars, dbVars, mishaps>>

Next ==
  \/ \E b \in Blocks, f \in 0 .. MaxFile : AcceptBlock(b, f) \/ WriteBlockFails(b, f)
  \/ \E flush \in BOOLEAN : DisconnectTip(flush) \/ \E b \in Blocks : ConnectTip(b, flush)
  \/ RequestShutdown \/ Shutdown
  \/ FlushPeriodic \/ FlushFiles \/ FlushIndex \/ FlushCoins
  \/ \E write \in Failures : FlushFails(write)
  \/ Crash \/ PowerFailure \/ Restart

Spec == Init /\ [][Next]_vars
-----------------------------------------------------------------------------
CoinsDB == [coins : SUBSET Blocks, best : Blocks \cup {NoBlock}]
Content == {"none", "written", "synced"}

(* The type of the state; UpdateTip is only pending during a flush, and a  *)
(* flush only goes on in a process that runs.                              *)
TypeOK ==
  /\ phase \in {"running", "stopping", "exiting", "down", "corrupt"}
  /\ stage \in {"idle", "files", "index", "coins"}
  /\ {target, tip, best} \subseteq Blocks \cup {NoBlock}
  /\ {coins, haveData, haveUndo, dirty, diskData, diskUndo} \subseteq SUBSET Blocks
  /\ nFile \in [Blocks -> 0 .. MaxFile] /\ {nLastBlockFile, diskFile} \subseteq 0 .. MaxFile
  /\ blk \in [Blocks -> Content] /\ rev \in [Blocks -> Content]
  /\ db \in versions /\ versions \subseteq CoinsDB
  /\ mishaps \subseteq {"power", "write"}
  /\ stage = "idle" => target = NoBlock
  /\ phase \in {"down", "corrupt"} => stage = "idle"

(* The coins are those of the chain up to the best block, in pcoinsTip and *)
(* in every coins database that a crash can leave, whenever it happens:    *)
(* coins and best block change together.                                   *)
CoinsMatchBest ==
  "write" \notin mishaps => /\ coins = Chain(best)
             /\ \A v \in versions : v.coins = Chain(v.best)

(* Whatever coins database a crash or a power failure leaves, the block    *)
(* index on disk has the blocks of its chain, and their data cannot be     *)
(* lost any more: block files are synced before the index refers to them   *)
(* and the index is written before the coins.                              *)
DataSafe ==
  "write" \notin mishaps => \A v \in versions : \A a \in Chain(v.best) :
               a \in diskData /\ blk[a] = "synced"

(* As long as the power does not fail and no failing write loses data,     *)
(* every block of the chain of the coins database can be disconnected      *)
(* after a restart: the index has the position of its undo data and the    *)
(* data is there.                                                          *)
UndoSafe ==
  mishaps = {} => \A v \in versions : \A a \in Chain(v.best) \ {Genesis} :
                       a \in diskUndo /\ rev[a] /= "none"

(* The process can die at any moment, in the middle of a flush or of a     *)
(* reorganisation, and starts again without -reindex, as long as the power *)
(* does not fail and no failing write loses data.                          *)
AlwaysRestarts == mishaps = {} => phase /= "corrupt"
=============================================================================
