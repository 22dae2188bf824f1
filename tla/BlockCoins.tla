----------------------------- MODULE BlockCoins -----------------------------
(***************************************************************************)
(* Blocks applied to the coins and taken back (ConnectBlock, UpdateCoins,  *)
(* DisconnectBlock and ApplyTxInUndo of main.cpp), on the caches of module *)
(* CoinsCache: every step here is one operation on a view there.  Which    *)
(* block is connected or disconnected is left open (module ChainState      *)
(* chooses).  verifychain does both in a view of its own (VerifyDB).       *)
(*                                                                         *)
(* A job is the call in progress: the block, the transaction and the input *)
(* it has come to.  An input is the pair of a transaction and an output    *)
(* number.  Undo data is a function on the places of the inputs in a block *)
(* (transaction i, input j): the height that is restored, 0 unless it was  *)
(* the last output of its transaction.  Of the values only the reward is   *)
(* here, scripts and proofs are left out: when ConnectBlock refuses a      *)
(* block for one of them, its transactions have been applied.              *)
(*                                                                         *)
(* Blocks are those that AcceptBlock stored: a block's first transaction   *)
(* is its coinbase and no other one is (CheckBlock), and a coinbase starts *)
(* with the height of its block (ContextualCheckBlock), so that one at     *)
(* another height is another transaction.                                  *)
(***************************************************************************)
EXTENDS CoinsCache, Sequences

CONSTANTS Block, Genesis, NoBlock, Prev, Height,
          Chain,        \* the blocks of the chain that ends in a block
          vtx,          \* the transactions of each block, in order
          vin,          \* the inputs of each transaction, in order
          vout,         \* its outputs that can be spent
          CoinBase, CoinStake,
          nCoinbaseMaturity,
          Reward,       \* what a block pays beyond its fees
          WorkSubsidy, StakeSubsidy,    \* the schedules, by height
          NoUndo        \* no undo data was written for a block

(* The places of the inputs in a block.                                    *)
Places(b) == UNION {{<<i, j>> : j \in 1..Len(vin[vtx[b][i]])} : i \in 1..Len(vtx[b])}

ASSUME BlockAssumption ==
  /\ Genesis \in Block /\ NoBlock \notin Block
  /\ Prev \in [Block -> Block \cup {NoBlock}]
  /\ \A b \in Block : Prev[b] = NoBlock <=> b = Genesis
  /\ Height \in [Block -> Heights \cup {0}]
  /\ \A b \in Block \ {Genesis} : Height[b] = Height[Prev[b]] + 1
  /\ Chain \in [Block -> SUBSET Block] /\ Chain[Genesis] = {Genesis}
  /\ \A b \in Block \ {Genesis} : Chain[b] = Chain[Prev[b]] \cup {b}
  /\ \A b \in Block :
       /\ \A c \in Chain[b] \ {Genesis} : Prev[c] \in Chain[b]
       /\ \A c \in Chain[b] \ {b} : \E d \in Chain[b] : Prev[d] = c
  /\ vtx \in [Block -> Seq(Tx)] /\ \A b \in Block \ {Genesis} : vtx[b] /= <<>>
  /\ vin \in [Tx -> Seq(Tx \X Outputs)] /\ vout \in [Tx -> SUBSET Outputs]
  /\ \A b \in Block \ {Genesis} : \A i \in 1..Len(vtx[b]) :
       vtx[b][i] \in CoinBase <=> i = 1
  /\ \A t \in Tx : t \in CoinBase <=> vin[t] = <<>>
  /\ \A b, c \in Block \ {Genesis} : vtx[b][1] = vtx[c][1] => Height[b] = Height[c]
  /\ nCoinbaseMaturity \in Nat
  /\ Reward \in [Block -> Nat]
  /\ \A b \in Block : Height[b] + 1 \in DOMAIN WorkSubsidy \cap DOMAIN StakeSubsidy
  /\ \A b \in Block : NoUndo \notin [Places(b) -> Heights \cup {0}]

VARIABLES best,     \* hashBlock of the database, of pcoinsTip and of the view
          undo,     \* the undo data of each block, in the undo files
          vtxundo,  \* blockundo of the ConnectBlock in progress
          job,
          verify    \* which way VerifyDB goes, or "no"

blockVars == <<best, undo, vtxundo, job, verify>>
allVars == <<vars, blockVars>>

NoJob == [step |-> "none", block |-> NoBlock, i |-> 0, j |-> 0]
At(step, b, i, j) == [step |-> step, block |-> b, i |-> i, j |-> j]
Doing(step) == job.step = step

Transaction == vtx[job.block][job.i]
Input == vin[Transaction][job.j]
IsProofOfStake(b) == Len(vtx[b]) > 1 /\ vtx[b][2] \in CoinStake

(* No undo data has been collected.                                       *)
NoPlaces == [p \in {} |-> 0]

BlockInit ==
  /\ Init
  /\ best = [c \in {"db", "tip", "view"} |-> Genesis]
  /\ undo = [b \in Block |-> NoUndo]
  /\ vtxundo = NoPlaces /\ job = NoJob /\ verify = "no"

-----------------------------------------------------------------------------
(* ConnectBlock. *)

Connecting(b) == At(IF IsProofOfStake(b) THEN "kernel" ELSE "BIP30", b, 1, 0)

ConnectTip(b) ==
  /\ job = NoJob /\ Prev[b] = best["tip"]
  /\ OpenView
  /\ best' = [best EXCEPT !["view"] = best["tip"]]
  /\ vtxundo' = NoPlaces
  /\ job' = Connecting(b)
  /\ UNCHANGED <<undo, verify>>

(* The depth of t in the block, as the two checks of maturity compute it.  *)
Depth(t) == Height[job.block] - ViewCoins(t).nHeight

Look(t, good, next) ==
  /\ AccessCoins(t)
  /\ job' = IF good THEN next ELSE [job EXCEPT !.step = "refused"]
  /\ UNCHANGED <<best, undo, vtxundo, verify>>

(* The coin a proof-of-stake block is signed with has to exist and to be   *)
(* deep enough.  Coins with no output left may still be in the cache:      *)
(* CheckStakeKernelHash refuses the block for their time or reads from an  *)
(* empty vector, which ends the process (Restart).                         *)
CheckKernel ==
  LET prevout == vin[vtx[job.block][2]][1]
      t == prevout[1]
  IN /\ Doing("kernel")
     /\ Look(t, Available(ViewCoins(t)) /= {} /\ Depth(t) >= nCoinbaseMaturity,
             At("BIP30", job.block, 1, 0))

(* What comes after the last input of a transaction was found.             *)
AfterInputs == IF job.j = Len(vin[Transaction]) THEN At("spend", job.block, job.i, 1)
               ELSE [job EXCEPT !.j = @ + 1]

(* Where ConnectBlock starts with transaction i of its block.              *)
ToTransaction(i) ==
  IF i > Len(vtx[job.block]) THEN At("connected", job.block, 0, 0)
  ELSE IF vtx[job.block][i] \in CoinBase THEN At("create", job.block, i, 0)
  ELSE At("inputs", job.block, i, 1)

(* A transaction may only exist already when all of it is spent.           *)
CheckBIP30 ==
  /\ Doing("BIP30")
  /\ Look(Transaction, Available(ViewCoins(Transaction)) = {},
          IF job.i = Len(vtx[job.block]) THEN ToTransaction(1)
          ELSE [job EXCEPT !.i = @ + 1])

(* HaveInputs and the maturity check of CheckTxInputs.  It stands in       *)
(* namespace Consensus, where Params() makes a new Consensus::Params with  *)
(* every member zero: the depth is compared with 0.                        *)
CheckInput ==
  LET t == Input[1] IN
  /\ Doing("inputs")
  /\ Look(t, /\ Input[2] \in Available(ViewCoins(t))
             /\ t \in CoinBase \cup CoinStake => Depth(t) >= 0, AfterInputs)

(* Mutated form of UndoHeight: the data is kept with every output.         *)
AlwaysHeight(coins, n) == coins.nHeight

(* The undo data of an output, when it is spent.                           *)
UndoHeight(coins, n) == IF IsPruned(Spent(coins, n)) THEN coins.nHeight ELSE 0

(* UpdateCoins: the inputs, ...                                            *)
SpendInput ==
  LET t == Input[1] IN
  /\ Doing("spend")
  /\ SpendOutput(t, Input[2])
  /\ vtxundo' = [p \in DOMAIN vtxundo \cup {<<job.i, job.j>>} |->
                   IF p = <<job.i, job.j>> THEN UndoHeight(Viewed(t), Input[2]) ELSE vtxundo[p]]
  /\ job' = IF job.j = Len(vin[Transaction]) THEN At("create", job.block, job.i, 0)
            ELSE [job EXCEPT !.j = @ + 1]
  /\ UNCHANGED <<best, undo, verify>>

(* ... and then the outputs.                                               *)
CreateOutputs ==
  /\ Doing("create")
  /\ NewTransaction(Transaction, Transaction \in CoinBase,
                    [vout |-> vout[Transaction], nHeight |-> Height[job.block]])
  /\ job' = ToTransaction(job.i + 1)
  /\ UNCHANGED <<best, undo, vtxundo, verify>>

(* GetProofOfWorkSubsidy and GetProofOfStakeSubsidy go by the height of    *)
(* the active chain.                                                       *)
Subsidy(b) ==
  LET nBlockHeight == Height[best["tip"]] + 1 IN
  IF IsProofOfStake(b) THEN StakeSubsidy[nBlockHeight] ELSE WorkSubsidy[nBlockHeight]

PaysTooMuch == Doing("connected") /\ Reward[job.block] > Subsidy(job.block)

(* The end of ConnectBlock and ConnectTip.  Undo data that was written     *)
(* when the block was connected before is not written again.               *)
Connected ==
  /\ Doing("connected") /\ ~PaysTooMuch /\ verify = "no"
  /\ FlushView
  /\ undo' = IF undo[job.block] = NoUndo THEN [undo EXCEPT ![job.block] = vtxundo]
             ELSE undo
  /\ best' = [best EXCEPT !["tip"] = job.block, !["view"] = job.block]
  /\ job' = NoJob /\ vtxundo' = NoPlaces
  /\ UNCHANGED verify

(* The view is destroyed.                                                  *)
Refused ==
  /\ job.step \in {"refused", "unclean"} \/ PaysTooMuch
  /\ DiscardView
  /\ job' = NoJob /\ vtxundo' = NoPlaces /\ verify' = "no"
  /\ UNCHANGED <<best, undo>>
-----------------------------------------------------------------------------
(* DisconnectBlock, from the last transaction to the first.                *)

(* Undo data of another size is an error.                                  *)
Disconnecting(b) == IF DOMAIN undo[b] = Places(b) THEN At("remove", b, Len(vtx[b]), 0)
                    ELSE At("unclean", b, 0, 0)

DisconnectTip ==
  LET b == best["tip"] IN
  /\ job = NoJob /\ undo[b] /= NoUndo
  /\ OpenView
  /\ best' = [best EXCEPT !["view"] = best["tip"]]
  /\ vtxundo' = undo[b]
  /\ job' = Disconnecting(b)
  /\ UNCHANGED <<undo, verify>>

Unclean == [job EXCEPT !.step = "unclean"]
BeforeTransaction(i) == IF i = 1 THEN At("disconnected", job.block, 0, 0)
                        ELSE At("remove", job.block, i - 1, 0)

(* The outputs have to be those that the block created.                    *)
RemoveOutputs ==
  LET t == Transaction
      created == [vout |-> vout[t], nHeight |-> Height[job.block]]
      clean == Meaning(Viewed(t)) = Meaning(created)
  IN /\ Doing("remove")
     /\ RemoveTransaction(t)
     /\ job' = IF ~clean THEN Unclean
               ELSE IF t \in CoinBase THEN BeforeTransaction(job.i)
               ELSE At("restore", job.block, job.i, Len(vin[t]))
     /\ UNCHANGED <<best, undo, vtxundo, verify>>

(* ApplyTxInUndo.                                                          *)
RestoreInput ==
  LET nHeight == vtxundo[job.i, job.j] IN
  /\ Doing("restore")
  /\ IF CleanUndo(Viewed(Input[1]), Input[2], nHeight)
     THEN /\ RestoreOutput(Input[1], Input[2], nHeight)
          /\ job' = IF job.j = 1 THEN BeforeTransaction(job.i)
                    ELSE [job EXCEPT !.j = @ - 1]
     ELSE AccessCoins(Input[1]) /\ job' = Unclean
  /\ UNCHANGED <<best, undo, vtxundo, verify>>

Disconnected ==
  /\ Doing("disconnected") /\ verify = "no"
  /\ FlushView
  /\ best' = [best EXCEPT !["tip"] = Prev[job.block], !["view"] = Prev[job.block]]
  /\ job' = NoJob /\ vtxundo' = NoPlaces
  /\ UNCHANGED <<undo, verify>>
-----------------------------------------------------------------------------
(* VerifyDB at level 4, in a view that is thrown away: blocks are          *)
(* disconnected, as many as depth and memory allow, and connected again.   *)

VerifyDB ==
  LET b == best["tip"] IN
  /\ job = NoJob /\ b /= Genesis
  /\ OpenView
  /\ best' = [best EXCEPT !["view"] = b]
  /\ vtxundo' = undo[b] /\ job' = Disconnecting(b) /\ verify' = "down"
  /\ UNCHANGED undo

(* Mutated form of Reconnected: the tip is connected, whatever is below.   *)
TipAtOnce(pindexState) == best["tip"]

(* chainActive.Next(pindexState), in the chain of pcoinsTip.               *)
Reconnected(pindexState) == CHOOSE b \in Chain[best["tip"]] : Prev[b] = pindexState

VerifyDisconnected ==
  LET pindexState == Prev[job.block] IN
  /\ Doing("disconnected") /\ verify = "down"
  /\ best' = [best EXCEPT !["view"] = pindexState]
  /\ \/ /\ pindexState /= Genesis
        /\ vtxundo' = undo[pindexState] /\ job' = Disconnecting(pindexState)
        /\ UNCHANGED verify
     \/ vtxundo' = NoPlaces /\ job' = Connecting(Reconnected(pindexState)) /\ verify' = "up"
  /\ UNCHANGED <<vars, undo>>

VerifyConnected ==
  /\ Doing("connected") /\ ~PaysTooMuch /\ verify = "up"
  /\ best' = [best EXCEPT !["view"] = job.block]
  /\ vtxundo' = NoPlaces
  /\ IF job.block = best["tip"]
     THEN DiscardView /\ job' = NoJob /\ verify' = "no"
     ELSE job' = Connecting(Reconnected(job.block)) /\ UNCHANGED <<vars, verify>>
  /\ UNCHANGED undo
-----------------------------------------------------------------------------
(* Between two calls the memory pool and the RPCs read pcoinsTip, the      *)
(* coins are written to the database, or the process ends.                 *)

ReadCoins(t) == (ReadTip(t) \/ UncacheTip(t)) /\ UNCHANGED blockVars

(* The best block goes into the same batch as the coins.                   *)
FlushCoins ==
  /\ FlushTip
  /\ best' = [best EXCEPT !["db"] = best["tip"]]
  /\ UNCHANGED <<undo, vtxundo, job, verify>>

(* The undo files survive (module FlushState says when).                   *)
Restart ==
  /\ Crash
  /\ best' = [c \in DOMAIN best |-> best["db"]]
  /\ job' = NoJob /\ vtxundo' = NoPlaces /\ verify' = "no"
  /\ UNCHANGED undo

BlockNext ==
  \/ \E b \in Block : ConnectTip(b)
  \/ CheckKernel \/ CheckBIP30 \/ CheckInput \/ SpendInput \/ CreateOutputs
  \/ Connected \/ Refused
  \/ DisconnectTip \/ RemoveOutputs \/ RestoreInput \/ Disconnected
  \/ VerifyDB \/ VerifyDisconnected \/ VerifyConnected
  \/ \E t \in Tx : ReadCoins(t)
  \/ FlushCoins \/ Restart

BlockSpec == BlockInit /\ [][BlockNext]_allVars
-----------------------------------------------------------------------------
(* What the coins should be at a block, from the transactions of its chain *)
(* alone: a transaction holds the outputs that no transaction after it     *)
(* spends.  A position is the pair of a block and an index in it; the      *)
(* transactions of the genesis block are never applied.                    *)

Positions(b) == UNION {{<<c, i>> : i \in 1..Len(vtx[c])} : c \in Chain[b] \ {Genesis}}
Before(p, q) == \/ Height[p[1]] < Height[q[1]]
                \/ p[1] = q[1] /\ p[2] < q[2]
TxAt(p) == vtx[p[1]][p[2]]

CoinsAt(b, t) ==
  LET made == {p \in Positions(b) : TxAt(p) = t}
      last == CHOOSE p \in made : \A q \in made : p = q \/ Before(q, p)
      spent == {n \in vout[t] : \E p \in Positions(b) :
                  Before(last, p) /\ \E j \in 1..Len(vin[TxAt(p)]) : vin[TxAt(p)][j] = <<t, n>>}
  IN IF made = {} THEN NoCoins
     ELSE Meaning([vout |-> vout[t] \ spent, nHeight |-> Height[last[1]]])

(* FRESH is only set on an entry whose transaction the view below does not *)
(* have or has with nothing left, as the comment on the flag says: such an *)
(* entry may be erased instead of written.  The exception is the view in   *)
(* which VerifyDB connects blocks again, over a tip that has them already; *)
(* it is never flushed.                                                    *)
FreshIsNew == FreshTip /\ (verify /= "up" => FreshView)

(* Whatever was connected, refused, disconnected, flushed or lost in a     *)
(* crash, the coins are those that the transactions of the best block's    *)
(* chain leave, in the caches and in the database: in particular           *)
(* DisconnectBlock takes back exactly what ConnectBlock did.               *)
CoinsAreReplay ==
  /\ \A t \in Tx : Meaning(db[t]) = CoinsAt(best["db"], t)
  /\ \A t \in Tx : Meaning(TipCoins(t)) = CoinsAt(best["tip"], t)

(* DisconnectBlock never finds undo data that does not fit the coins or    *)
(* outputs other than the block's (fClean), which would stop a reorganized *)
(* node, and the undo data kept from an earlier connection of a block is   *)
(* that of the present one.                                                *)
UndoFits ==
  /\ ~Doing("unclean")
  /\ Doing("connected") => undo[job.block] \in {NoUndo, vtxundo}

(* VerifyDB can connect again whatever it has disconnected from a chain    *)
(* that ConnectTip accepted, and ends with the coins it began with: the    *)
(* only thing it can find fault with is the reward, which ConnectBlock     *)
(* compares with the subsidy at another height than at first.              *)
VerifyReconnects ==
  verify = "up" =>
    /\ ~Doing("refused")
    /\ Doing("connected") /\ job.block = best["tip"] =>
         \A t \in Tx : Meaning(ViewCoins(t)) = Meaning(TipCoins(t))
=============================================================================
