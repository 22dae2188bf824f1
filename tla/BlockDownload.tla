--------------------------- MODULE BlockDownload ---------------------------
(***************************************************************************)
(* The block download bookkeeping of the node (src/src/main.cpp): which    *)
(* peer every requested block is in flight from, the per-peer and global   *)
(* counters derived from it, headers synchronisation, the download window, *)
(* the detection of stalling peers and of download timeouts, and what      *)
(* happens to all of it when a peer goes away.                             *)
(*                                                                         *)
(* There is one header chain, whose blocks are named by their heights      *)
(* 0 .. MaxHeight (0 is the genesis block); forks are the subject of       *)
(* module ChainState.  Time is abstracted: a timeout that can elapse may   *)
(* elapse at any later call of SendMessages.  Messages of a peer arrive in *)
(* any order and any number of times.  Every action is one critical        *)
(* section of cs_main, except that the loops that request several blocks   *)
(* take one step per block; the variable fetch is the rest of such a loop, *)
(* and while it is not empty cs_main is held and nobody else moves.        *)
(***************************************************************************)
EXTENDS Integers, FiniteSets

CONSTANTS
  Peers,            \* node identifiers
  NoPeer,           \* no node
  PreferredPeers,   \* outbound or whitelisted full nodes (fPreferredDownload)
  ClientPeers,      \* peers without NODE_NETWORK (fClient)
  WhitelistedPeers, \* peers whose unrequested blocks are processed (fWhitelisted)
  AnsweringPeers,   \* environment: peers that answer every getdata (fairness only)
  MisbehavingPeers, \* environment: peers that may reach -banscore
  MaxHeight,        \* bound: height of the best header of the network
  MAX_BLOCKS_IN_TRANSIT_PER_PEER,
  BLOCK_DOWNLOAD_WINDOW,
  MIN_BLOCKS_TO_KEEP

ASSUME PeersAssumption == IsFiniteSet(Peers) /\ NoPeer \notin Peers
ASSUME KindsAssumption ==
  /\ PreferredPeers \subseteq Peers /\ WhitelistedPeers \subseteq Peers
  /\ AnsweringPeers \subseteq Peers /\ MisbehavingPeers \subseteq Peers
  /\ ClientPeers \subseteq Peers \ PreferredPeers
ASSUME BoundsAssumption ==
  /\ MaxHeight \in Nat /\ BLOCK_DOWNLOAD_WINDOW \in Nat
  /\ MAX_BLOCKS_IN_TRANSIT_PER_PEER \in Nat /\ MIN_BLOCKS_TO_KEEP \in Nat

Heights == 0 .. MaxHeight
NULL == -1                      \* no block

VARIABLES
  mapNodeState,         \* the peers that have a CNodeState
  handshaked,           \* peers whose VERSION was processed (nVersion /= 0)
  fDisconnect,          \* peers marked for disconnection
  fShouldBan,           \* peers that SendMessages has still to ban
  fPreferredDownload, nPreferredDownload,
  fSyncStarted, nSyncStarted,
  pindexBestKnownBlock, hashLastUnknownBlock, pindexLastCommonBlock,
  dl,                   \* blocks in flight and the counters about them
  headerTip,            \* height of pindexBestHeader
  tip,                  \* chainActive.Height()
  have,                 \* blocks with BLOCK_HAVE_DATA
  fInitialDownload,     \* IsInitialBlockDownload()
  fetch                 \* the rest of a loop that requests blocks

nodeVars == <<mapNodeState, handshaked, fDisconnect, fShouldBan, fPreferredDownload,
              nPreferredDownload, fSyncStarted, nSyncStarted>>
availVars == <<pindexBestKnownBlock, hashLastUnknownBlock, pindexLastCommonBlock>>
chainVars == <<headerTip, tip, have, fInitialDownload>>
vars == <<nodeVars, availVars, dl, chainVars, fetch>>

NoFetch == [peer |-> NoPeer, blocks |-> {}, loop |-> "none"]

Lesser(a, b) == IF a < b THEN a ELSE b
Earliest(h, S) == h \in S /\ \A b \in S : h <= b

(***************************************************************************)
(* The active chain ends at the last block that is linked to genesis and   *)
(* has its data.  The thread that stores a block runs ActivateBestChain    *)
(* before it takes the next message.                                       *)
(***************************************************************************)
IsTip(h, stored) == 0 .. h \subseteq stored /\ h + 1 \notin stored

(***************************************************************************)
(* mapBlocksInFlight (dl.inFlight), the lists vBlocksInFlight of the peers *)
(* (dl.queued, and dl.validated for the entries with fValidatedHeaders),   *)
(* and the counters kept beside them.                                      *)
(***************************************************************************)
LastValidatedUnchecked(n, valid) == IF n = 0 THEN 1 ELSE 0
LastValidated(n, valid) == IF n = 0 /\ valid THEN 1 ELSE 0
FirstValidated(n, valid) == IF n = 1 /\ valid THEN 1 ELSE 0

StallKept(d, q) == d.nStallingSince
StallEnded(d, q) == d.nStallingSince \ {q}

MarkBlockAsReceived(d, h) ==
  LET q == d.inFlight[h]
      valid == h \in d.validated[q]
      n == d.nBlocksInFlightValidHeaders[q] - (IF valid THEN 1 ELSE 0)
  IN  IF q = NoPeer THEN d
      ELSE [inFlight |-> [d.inFlight EXCEPT ![h] = NoPeer],
            queued |-> [d.queued EXCEPT ![q] = @ \ {h}],
            validated |-> [d.validated EXCEPT ![q] = @ \ {h}],
            nBlocksInFlight |-> [d.nBlocksInFlight EXCEPT ![q] = @ - 1],
            nBlocksInFlightValidHeaders |->
              [d.nBlocksInFlightValidHeaders EXCEPT ![q] = n],
            nPeersWithValidatedDownloads |->
              d.nPeersWithValidatedDownloads - LastValidated(n, valid),
            nStallingSince |-> StallEnded(d, q)]

MarkBlockAsInFlight(d, p, h, valid) ==
  LET r == MarkBlockAsReceived(d, h)
      n == r.nBlocksInFlightValidHeaders[p] + (IF valid THEN 1 ELSE 0)
  IN  IF d.inFlight[h] = p THEN d
      ELSE [inFlight |-> [r.inFlight EXCEPT ![h] = p],
            queued |-> [r.queued EXCEPT ![p] = @ \union {h}],
            validated |->
              [r.validated EXCEPT ![p] = IF valid THEN @ \union {h} ELSE @],
            nBlocksInFlight |-> [r.nBlocksInFlight EXCEPT ![p] = @ + 1],
            nBlocksInFlightValidHeaders |->
              [r.nBlocksInFlightValidHeaders EXCEPT ![p] = n],
            nPeersWithValidatedDownloads |->
              r.nPeersWithValidatedDownloads + FirstValidated(n, valid),
            nStallingSince |-> r.nStallingSince]

(* The part of FinalizeNode about blocks in flight; the CNodeState, with   *)
(* its list and counters, is erased.                                       *)
ErasedIfValidated(d, p) == d.validated[p]
ErasedInFlight(d, p) == d.queued[p]
HadDownloads(d, p) == IF d.nBlocksInFlight[p] /= 0 THEN 1 ELSE 0
HadValidatedDownloads(d, p) ==
  IF d.nBlocksInFlightValidHeaders[p] /= 0 THEN 1 ELSE 0
ForgetPeer(d, p) ==
  [inFlight |-> [h \in Heights |->
                   IF h \in ErasedInFlight(d, p) THEN NoPeer ELSE d.inFlight[h]],
   queued |-> [d.queued EXCEPT ![p] = {}],
   validated |-> [d.validated EXCEPT ![p] = {}],
   nBlocksInFlight |-> [d.nBlocksInFlight EXCEPT ![p] = 0],
   nBlocksInFlightValidHeaders |->
     [d.nBlocksInFlightValidHeaders EXCEPT ![p] = 0],
   nPeersWithValidatedDownloads |->
     d.nPeersWithValidatedDownloads - HadValidatedDownloads(d, p),
   nStallingSince |-> d.nStallingSince \ {p}]

-----------------------------------------------------------------------------
(***************************************************************************)
(* Which blocks a peer is assumed to have.  known is the header tip the    *)
(* function sees: a hash is in mapBlockIndex iff its height is <= known.   *)
(***************************************************************************)
ProcessedBest(p, known) ==
  LET u == hashLastUnknownBlock[p] IN
  IF u /= NULL /\ u <= known /\ u >= pindexBestKnownBlock[p]
  THEN u ELSE pindexBestKnownBlock[p]
ProcessedUnknown(p, known) ==
  IF hashLastUnknownBlock[p] <= known THEN NULL ELSE hashLastUnknownBlock[p]

ProcessBlockAvailability(p) ==
  /\ pindexBestKnownBlock' =
       [pindexBestKnownBlock EXCEPT ![p] = ProcessedBest(p, headerTip)]
  /\ hashLastUnknownBlock' =
       [hashLastUnknownBlock EXCEPT ![p] = ProcessedUnknown(p, headerTip)]

UpdateBlockAvailability(p, h, known) ==
  /\ pindexBestKnownBlock' =
       [pindexBestKnownBlock EXCEPT ![p] =
          IF h <= known /\ h >= ProcessedBest(p, known)
          THEN h ELSE ProcessedBest(p, known)]
  /\ hashLastUnknownBlock' =
       [hashLastUnknownBlock EXCEPT ![p] =
          IF h <= known THEN ProcessedUnknown(p, known) ELSE h]
  /\ UNCHANGED pindexLastCommonBlock

-----------------------------------------------------------------------------
Init ==
  /\ mapNodeState = {} /\ handshaked = {} /\ fDisconnect = {} /\ fShouldBan = {}
  /\ fPreferredDownload = {} /\ nPreferredDownload = 0
  /\ fSyncStarted = {} /\ nSyncStarted = 0
  /\ pindexBestKnownBlock = [p \in Peers |-> NULL]
  /\ hashLastUnknownBlock = [p \in Peers |-> NULL]
  /\ pindexLastCommonBlock = [p \in Peers |-> NULL]
  /\ dl = [inFlight |-> [h \in Heights |-> NoPeer],
           queued |-> [p \in Peers |-> {}],
           validated |-> [p \in Peers |-> {}],
           nBlocksInFlight |-> [p \in Peers |-> 0],
           nBlocksInFlightValidHeaders |-> [p \in Peers |-> 0],
           nPeersWithValidatedDownloads |-> 0,
           nStallingSince |-> {}]
  /\ headerTip = 0 /\ tip = 0 /\ have = {0} /\ fInitialDownload = TRUE
  /\ fetch = NoFetch

csMainFree == fetch = NoFetch

InitializeNode(p) ==
  /\ csMainFree /\ p \notin mapNodeState
  /\ mapNodeState' = mapNodeState \union {p}
  /\ UNCHANGED <<handshaked, fDisconnect, fShouldBan, fPreferredDownload,
                 nPreferredDownload, fSyncStarted, nSyncStarted,
                 availVars, dl, chainVars, fetch>>

(* The socket thread deletes a CNode when its connection is gone, which may *)
(* happen at any time and does happen once fDisconnect is set.              *)
FinalizeNode(p) ==
  /\ csMainFree /\ p \in mapNodeState
  /\ nSyncStarted' = nSyncStarted - (IF p \in fSyncStarted THEN 1 ELSE 0)
  /\ nPreferredDownload' =
       nPreferredDownload - (IF p \in fPreferredDownload THEN 1 ELSE 0)
  /\ dl' = ForgetPeer(dl, p)
  /\ mapNodeState' = mapNodeState \ {p}
  /\ handshaked' = handshaked \ {p}
  /\ fDisconnect' = fDisconnect \ {p}
  /\ fShouldBan' = fShouldBan \ {p}
  /\ fPreferredDownload' = fPreferredDownload \ {p}
  /\ fSyncStarted' = fSyncStarted \ {p}
  /\ pindexBestKnownBlock' = [pindexBestKnownBlock EXCEPT ![p] = NULL]
  /\ hashLastUnknownBlock' = [hashLastUnknownBlock EXCEPT ![p] = NULL]
  /\ pindexLastCommonBlock' = [pindexLastCommonBlock EXCEPT ![p] = NULL]
  /\ UNCHANGED <<chainVars, fetch>>

(* The VERSION message; a second one is refused (nVersion /= 0). *)
UpdatePreferredDownload(p) ==
  /\ csMainFree /\ p \in mapNodeState \ (handshaked \union fDisconnect)
  /\ handshaked' = handshaked \union {p}
  /\ fPreferredDownload' = (fPreferredDownload \ {p}) \union ({p} \intersect PreferredPeers)
  /\ nPreferredDownload' = nPreferredDownload
       - (IF p \in fPreferredDownload THEN 1 ELSE 0)
       + (IF p \in PreferredPeers THEN 1 ELSE 0)
  /\ UNCHANGED <<mapNodeState, fDisconnect, fShouldBan, fSyncStarted, nSyncStarted,
                 availVars, dl, chainVars, fetch>>

(* The score of a peer reaches -banscore.  Any invalid message or block of *)
(* the peer may be the one, also a block that is connected long after it   *)
(* came; what the message does to the rest is not represented.  The score  *)
(* itself is left out: it passes -banscore once, but raising the flag of a *)
(* whitelisted peer again, or that of a peer on its way out, has no effect *)
(* here.                                                                   *)
Misbehaving(p) ==
  /\ csMainFree /\ p \in MisbehavingPeers
  /\ p \in mapNodeState \ (fShouldBan \union fDisconnect)
  /\ fShouldBan' = fShouldBan \union {p}
  /\ UNCHANGED <<mapNodeState, handshaked, fDisconnect, fPreferredDownload,
                 nPreferredDownload, fSyncStarted, nSyncStarted,
                 availVars, dl, chainVars, fetch>>

(* ProcessMessages handles no message of a peer marked for disconnection. *)
MessageFrom(p) ==
  /\ csMainFree
  /\ p \in handshaked \ fDisconnect

(* INV of block h.  fCanDirectFetch (the age of the tip) is an input. *)
Inv(p, h, fCanDirectFetch) ==
  /\ MessageFrom(p)
  /\ UpdateBlockAvailability(p, h, headerTip)
  /\ dl' = IF /\ h > headerTip              \* ~AlreadyHave(inv)
              /\ dl.inFlight[h] = NoPeer
              /\ fCanDirectFetch
              /\ dl.nBlocksInFlight[p] < MAX_BLOCKS_IN_TRANSIT_PER_PEER
           THEN MarkBlockAsInFlight(dl, p, h, FALSE)
           ELSE dl
  /\ UNCHANGED <<nodeVars, chainVars, fetch>>

(* HEADERS whose first header does not connect. *)
UnconnectingHeaders(p, first, last) ==
  /\ MessageFrom(p)
  /\ first - 1 > headerTip /\ first <= last
  /\ UpdateBlockAvailability(p, last, headerTip)
  /\ UNCHANGED <<nodeVars, dl, chainVars, fetch>>

(* The blocks missing on the way from the active chain to header h, and    *)
(* whether the walk back from h reaches the active chain before it has     *)
(* collected more than MAX_BLOCKS_IN_TRANSIT_PER_PEER of them.             *)
ToFetchTwice(h) == {b \in tip + 1 .. h : b \notin have}
ToFetch(h) ==
  {b \in tip + 1 .. h : b \notin have /\ dl.inFlight[b] = NoPeer}
LargeReorg(h) ==
  Cardinality(ToFetch(h) \ {tip + 1}) > MAX_BLOCKS_IN_TRANSIT_PER_PEER

(* HEADERS that connect: headers up to height last are accepted, and the   *)
(* missing blocks are requested at once when the tip is recent.            *)
Headers(p, last, fCanDirectFetch) ==
  /\ MessageFrom(p)
  /\ LET known == IF last > headerTip THEN last ELSE headerTip IN
     /\ headerTip' = known
     /\ UpdateBlockAvailability(p, last, known)
  /\ fetch' = IF /\ fCanDirectFetch /\ tip <= last
                 /\ ~LargeReorg(last) /\ ToFetch(last) /= {}
              THEN [peer |-> p, blocks |-> ToFetch(last), loop |-> "headers"]
              ELSE NoFetch
  /\ UNCHANGED <<nodeVars, dl, tip, have, fInitialDownload>>

RequestEarliest ==
  \E h \in fetch.blocks :
    /\ Earliest(h, fetch.blocks)
    /\ dl' = MarkBlockAsInFlight(dl, fetch.peer, h, TRUE)
    /\ fetch' = IF fetch.blocks = {h} THEN NoFetch
                ELSE [fetch EXCEPT !.blocks = @ \ {h}]

(* Mutated form of HeadersRequest, which requests all of them.             *)
RequestsAll ==
  /\ fetch.loop = "headers"
  /\ RequestEarliest
  /\ UNCHANGED <<nodeVars, availVars, chainVars>>

(* One pass of the loop that requests the blocks of a HEADERS message, the *)
(* earliest first, until the peer has enough blocks in flight.             *)
HeadersRequest ==
  /\ fetch.loop = "headers"
  /\ IF dl.nBlocksInFlight[fetch.peer] >= MAX_BLOCKS_IN_TRANSIT_PER_PEER
     THEN fetch' = NoFetch /\ UNCHANGED dl
     ELSE RequestEarliest
  /\ UNCHANGED <<nodeVars, availVars, chainVars>>

(* BLOCK h: ProcessNewBlock with MarkBlockAsReceived and AcceptBlock.  A    *)
(* mutated block fails CheckBlock with CorruptionPossible and is dropped,  *)
(* but its header stays.  (A block whose signature is not canonical is      *)
(* refused before any of this, which changes nothing.)                      *)
Block(p, h, mutated) ==
  /\ MessageFrom(p)
  /\ dl' = MarkBlockAsReceived(dl, h)
  /\ LET fRequested == \/ dl.inFlight[h] /= NoPeer
                       \/ (p \in WhitelistedPeers /\ ~fInitialDownload)
         headerAccepted == h <= headerTip + 1
         ignored == ~fRequested /\ (h <= tip \/ h > tip + MIN_BLOCKS_TO_KEEP)
     IN  /\ headerTip' = IF headerAccepted /\ h > headerTip THEN h ELSE headerTip
         /\ have' = IF headerAccepted /\ ~ignored /\ ~mutated
                    THEN have \union {h} ELSE have
         /\ tip' \in {t \in Heights : IsTip(t, have')}
  /\ UNCHANGED <<nodeVars, availVars, fInitialDownload, fetch>>

-----------------------------------------------------------------------------
(***************************************************************************)
(* FindNextBlocksToDownload for a peer whose best known block is best: the *)
(* common block it settles on, the window, the blocks to request and the   *)
(* peer that stalls the download, if one does.                             *)
(***************************************************************************)
HasInteresting(best) == best /= NULL /\ best >= tip
CommonBlock(p, best) ==
  Lesser(best, IF pindexLastCommonBlock[p] = NULL THEN tip
               ELSE pindexLastCommonBlock[p])
MaxWalk(common, best) == Lesser(best, common + BLOCK_DOWNLOAD_WINDOW + 1)
NotInFlight(common, best) ==
  {b \in common + 1 .. MaxWalk(common, best) :
     b \notin have /\ dl.inFlight[b] = NoPeer}
InWindow(common, best) ==
  {b \in NotInFlight(common, best) : b <= common + BLOCK_DOWNLOAD_WINDOW}
(* S is the first count blocks of the window, or all of them if there are  *)
(* fewer.                                                                  *)
BlocksToDownload(S, common, best, count) ==
  /\ \A b \in S, c \in InWindow(common, best) \ S : b < c
  /\ Cardinality(S) <= count
  /\ Cardinality(S) = count \/ S = InWindow(common, best)
(* The peer of the first block in flight, if only the window stops p. *)
Stallers(p, common, best) ==
  LET beyond == {b \in NotInFlight(common, best) :
                   b > common + BLOCK_DOWNLOAD_WINDOW}
      waiting == {b \in common + 1 .. MaxWalk(common, best) :
                    b \notin have /\ dl.inFlight[b] /= NoPeer}
  IN  IF beyond /= {} /\ InWindow(common, best) = {}
      THEN {dl.inFlight[b] : b \in {c \in waiting : Earliest(c, waiting)}} \ {p}
      ELSE {}
(* Downloaded blocks move pindexLastCommonBlock up, as far as they link. *)
NewCommonUnlinked(common, best) ==
  IF MaxWalk(common, best) \in have THEN MaxWalk(common, best) ELSE common
NewCommonBlock(common, best) ==
  IF tip > common THEN Lesser(tip, MaxWalk(common, best)) ELSE common

(* Whether the download timeout fires for a peer. *)
DownloadLateIdle(p, elapsed) == elapsed
DownloadLateStalled(p, elapsed) == p \in dl.nStallingSince /\ elapsed
DownloadLate(p, elapsed) == dl.queued[p] /= {} /\ elapsed

(* One call of SendMessages for peer p: a peer that is to be banned is     *)
(* marked for disconnection first, unless it is whitelisted.  The inputs   *)
(* say whether the stalling timeout and the download timeout have elapsed, *)
(* and whether the best header is less than a day old.                     *)
SendMessages(p, stallElapsed, downloadElapsed, fRecent) ==
  /\ csMainFree /\ p \in handshaked
  /\ ProcessBlockAvailability(p)
  /\ LET fFetch == \/ p \in fPreferredDownload
                   \/ (nPreferredDownload = 0 /\ p \notin ClientPeers)
         fBanned == p \in fDisconnect \union (fShouldBan \ WhitelistedPeers)
         fStart == /\ p \notin fSyncStarted \union ClientPeers /\ ~fBanned
                   /\ (nSyncStarted = 0 /\ fFetch) \/ fRecent
         fGone == \/ fBanned
                  \/ (p \in dl.nStallingSince /\ stallElapsed)
                  \/ DownloadLate(p, downloadElapsed)
         fGetData == /\ ~fGone /\ p \notin ClientPeers
                     /\ (fFetch \/ ~fInitialDownload)
                     /\ dl.nBlocksInFlight[p] < MAX_BLOCKS_IN_TRANSIT_PER_PEER
         best == ProcessedBest(p, headerTip)
         common == CommonBlock(p, best)
         count == MAX_BLOCKS_IN_TRANSIT_PER_PEER - dl.nBlocksInFlight[p]
     IN  /\ fSyncStarted' = IF fStart THEN fSyncStarted \union {p} ELSE fSyncStarted
         /\ nSyncStarted' = IF fStart THEN nSyncStarted + 1 ELSE nSyncStarted
         /\ fDisconnect' = IF fGone THEN fDisconnect \union {p} ELSE fDisconnect
         /\ fShouldBan' = fShouldBan \ {p}
         /\ IF fGetData /\ HasInteresting(best)
            THEN /\ pindexLastCommonBlock' =
                      [pindexLastCommonBlock EXCEPT ![p] =
                         IF common = best THEN common
                         ELSE NewCommonBlock(common, best)]
                 /\ IF common = best \/ InWindow(common, best) = {}
                    THEN fetch' = NoFetch
                    ELSE \E S \in SUBSET InWindow(common, best) :
                           /\ BlocksToDownload(S, common, best, count)
                           /\ fetch' = [peer |-> p, blocks |-> S, loop |-> "send"]
                 /\ dl' = IF common = best \/ dl.nBlocksInFlight[p] /= 0 THEN dl
                          ELSE [dl EXCEPT !.nStallingSince =
                                  @ \union Stallers(p, common, best)]
            ELSE UNCHANGED <<pindexLastCommonBlock, fetch, dl>>
  /\ UNCHANGED <<mapNodeState, handshaked, fPreferredDownload,
                 nPreferredDownload, chainVars>>

(* One pass of the loop over vToDownload. *)
SendRequest ==
  /\ fetch.loop = "send"
  /\ RequestEarliest
  /\ UNCHANGED <<nodeVars, availVars, chainVars>>

(* IsInitialBlockDownload is a latch: once the tip is recent and has enough *)
(* work it never returns true again.                                        *)
LeaveInitialDownload ==
  /\ csMainFree /\ fInitialDownload
  /\ fInitialDownload' = FALSE
  /\ UNCHANGED <<nodeVars, availVars, dl, headerTip, tip, have, fetch>>

Next ==
  \/ \E p \in Peers :
       \/ InitializeNode(p)
       \/ FinalizeNode(p)
       \/ UpdatePreferredDownload(p)
       \/ Misbehaving(p)
       \/ \E h \in Heights \ {0} :
            \/ \E b \in BOOLEAN : Inv(p, h, b) \/ Headers(p, h, b) \/ Block(p, h, b)
            \/ \E first \in Heights \ {0} : UnconnectingHeaders(p, first, h)
       \/ \E s, d, r \in BOOLEAN : SendMessages(p, s, d, r)
  \/ HeadersRequest
  \/ SendRequest
  \/ LeaveInitialDownload

Spec == Init /\ [][Next]_vars

(***************************************************************************)
(* Fairness.  The message handler thread serves the peers round robin, so  *)
(* SendMessages is called again and again for each of them and the loops   *)
(* that request blocks end; nDownloadingSince is only reset when the first *)
(* block of a peer's list leaves it, so with a block in flight the timeout *)
(* elapses in the end; the socket thread deletes disconnected peers.       *)
(* Strong fairness, because cs_main is taken and released in between.      *)
(***************************************************************************)
TimeoutFires(p) ==
  /\ p \notin fDisconnect /\ dl.queued[p] /= {}
  /\ SendMessages(p, FALSE, TRUE, FALSE)
Requests(p) ==
  /\ SendMessages(p, FALSE, FALSE, FALSE)
  /\ fetch' /= fetch \/ pindexLastCommonBlock' /= pindexLastCommonBlock
Delivers(p, h) == dl.inFlight[h] = p /\ Block(p, h, FALSE)

FairSpec ==
  /\ Spec
  /\ WF_vars(HeadersRequest) /\ WF_vars(SendRequest)
  /\ \A p \in Peers : /\ SF_vars(TimeoutFires(p))
                       /\ SF_vars(p \in fDisconnect /\ FinalizeNode(p))
  /\ \A p \in AnsweringPeers :
       /\ SF_vars(Requests(p))
       /\ \A h \in Heights \ {0} : SF_vars(Delivers(p, h))

-----------------------------------------------------------------------------
TypeOK ==
  /\ mapNodeState \subseteq Peers /\ handshaked \subseteq mapNodeState
  /\ fDisconnect \subseteq mapNodeState
  /\ fShouldBan \subseteq mapNodeState
  /\ fPreferredDownload \subseteq mapNodeState /\ nPreferredDownload \in Nat
  /\ fSyncStarted \subseteq mapNodeState /\ nSyncStarted \in Nat
  /\ pindexBestKnownBlock \in [Peers -> Heights \union {NULL}]
  /\ hashLastUnknownBlock \in [Peers -> Heights \union {NULL}]
  /\ pindexLastCommonBlock \in [Peers -> Heights \union {NULL}]
  /\ dl \in [inFlight : [Heights -> Peers \union {NoPeer}],
              queued : [Peers -> SUBSET Heights],
              validated : [Peers -> SUBSET Heights],
              nBlocksInFlight : [Peers -> Nat],
              nBlocksInFlightValidHeaders : [Peers -> Nat],
              nPeersWithValidatedDownloads : Nat,
              nStallingSince : SUBSET Peers]
  /\ headerTip \in Heights /\ tip \in Heights
  /\ have \in SUBSET Heights
  /\ fInitialDownload \in BOOLEAN
  /\ fetch \in [peer : Peers \union {NoPeer}, blocks : SUBSET Heights,
                 loop : {"none", "headers", "send"}]

(* Every counter main.cpp keeps beside mapBlocksInFlight and the per-peer   *)
(* lists is what counting them would give, whatever mixture of validated    *)
(* and unvalidated requests, deliveries by other peers and disconnections   *)
(* came before: nPeersWithValidatedDownloads sets everybody's timeout.      *)
CountersMatch ==
  /\ \A p \in Peers :
       /\ dl.validated[p] \subseteq dl.queued[p]
       /\ dl.nBlocksInFlight[p] = Cardinality(dl.queued[p])
       /\ dl.nBlocksInFlightValidHeaders[p] = Cardinality(dl.validated[p])
  /\ dl.nPeersWithValidatedDownloads =
       Cardinality({p \in Peers : dl.validated[p] /= {}})
  /\ nPreferredDownload = Cardinality(fPreferredDownload)
  /\ nSyncStarted = Cardinality(fSyncStarted)

(* mapBlocksInFlight and the lists of the peers agree, and only a peer with *)
(* a CNodeState has blocks in flight or is marked as stalling, so that      *)
(* State(mapBlocksInFlight[..].first) and State(staller), which the code    *)
(* dereferences unchecked, are never NULL.                                  *)
InFlightFromLivePeer ==
  /\ \A p \in Peers, h \in Heights : h \in dl.queued[p] <=> dl.inFlight[h] = p
  /\ \A p \in Peers \ mapNodeState : dl.queued[p] = {}
  /\ dl.nStallingSince \subseteq mapNodeState

(* The assertions at the end of FinalizeNode hold when the last peer is     *)
(* removed: nothing in flight and both global counters back at zero.        *)
LastPeerGone ==
  mapNodeState = {} =>
    /\ \A h \in Heights : dl.inFlight[h] = NoPeer
    /\ nPreferredDownload = 0
    /\ dl.nPeersWithValidatedDownloads = 0

(* A block whose data arrived is in flight from nobody, even when another   *)
(* peer than the one asked delivered it; and the loops over vToFetch and    *)
(* vToDownload never mark a block that is in flight already (that path of   *)
(* MarkBlockAsInFlight writes through the null pit).                        *)
RequestedOnce ==
  /\ \A h \in have : dl.inFlight[h] = NoPeer
  /\ \A h \in fetch.blocks : dl.inFlight[h] = NoPeer /\ h \notin have

(* No peer ever has more than MAX_BLOCKS_IN_TRANSIT_PER_PEER blocks in      *)
(* flight, counting direct fetches from INV and HEADERS.                    *)
TransitLimit ==
  \A p \in Peers : dl.nBlocksInFlight[p] <= MAX_BLOCKS_IN_TRANSIT_PER_PEER

(* A peer is only kept marked as stalling while it still owes a block: a    *)
(* peer that delivered everything is not disconnected for an old stall.     *)
StallerOwesBlock == \A p \in dl.nStallingSince : dl.queued[p] /= {}

(* pindexLastCommonBlock never runs ahead of what is linked to genesis or   *)
(* of what the peer is known to have (the window starts at it, so a block   *)
(* behind it would never be requested).                                     *)
LastCommonLinked ==
  \A p \in Peers : /\ pindexLastCommonBlock[p] <= tip
                   /\ pindexLastCommonBlock[p] <= pindexBestKnownBlock[p]
                   /\ pindexBestKnownBlock[p] <= headerTip

(* SendMessages marks a peer for disconnection only if the peer owes a      *)
(* block at that moment, or has reached -banscore and is not whitelisted: a *)
(* timeout that elapses when the last block has just come from another peer *)
(* disconnects nobody, and neither does a mark as staller that is stale.    *)
DisconnectedForCause ==
  [][\A p \in fDisconnect' \ fDisconnect :
       dl.queued[p] /= {} \/ p \in fShouldBan \ WhitelistedPeers]_vars

(* A block in flight from one peer is never moved to another in one step:   *)
(* it must first arrive, or its peer must go.                               *)
NeverReassigned ==
  [][\A h \in Heights : \/ dl'.inFlight[h] = dl.inFlight[h]
                        \/ dl.inFlight[h] = NoPeer \/ dl'.inFlight[h] = NoPeer]_vars

(* No block stays in flight from the same peer for ever: it arrives, or the *)
(* download timeout disconnects the peer and FinalizeNode releases it.      *)
InFlightResolved ==
  \A p \in Peers, h \in Heights \ {0} : []<>(dl.inFlight[h] /= p)

(* Block download is never stuck: if a preferred peer that answers requests *)
(* stays connected and is known to have the whole chain, every block of it  *)
(* arrives, however the other peers stall, disconnect, reconnect or deliver *)
(* mutated blocks.                                                          *)
ChainArrives ==
  \A p \in AnsweringPeers \intersect PreferredPeers :
    <>[](p \in handshaked /\ pindexBestKnownBlock[p] = MaxHeight)
      => <>(have = Heights)
=============================================================================
