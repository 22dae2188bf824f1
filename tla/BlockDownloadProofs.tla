------------------------ MODULE BlockDownloadProofs ------------------------
(***************************************************************************)
(* The in-flight bookkeeping of module BlockDownload is exact for every    *)
(* number of peers, every chain length and every value of the limits.      *)
(***************************************************************************)
EXTENDS BlockDownload, FiniteSetTheorems, TLAPS

DLType ==
  [inFlight : [Heights -> Peers \union {NoPeer}],
   queued : [Peers -> SUBSET Heights],
   validated : [Peers -> SUBSET Heights],
   nBlocksInFlight : [Peers -> Nat],
   nBlocksInFlightValidHeaders : [Peers -> Nat],
   nPeersWithValidatedDownloads : Nat,
   nStallingSince : SUBSET Peers]

Downloading(d) == {p \in Peers : d.validated[p] /= {}}

(* What MarkBlockAsReceived, MarkBlockAsInFlight and FinalizeNode keep true *)
(* of the download records: the part of CountersMatch and of                *)
(* InFlightFromLivePeer that is about dl alone.                             *)
DLInv(d) ==
  /\ d \in DLType
  /\ \A p \in Peers :
       /\ d.validated[p] \subseteq d.queued[p]
       /\ d.nBlocksInFlight[p] = Cardinality(d.queued[p])
       /\ d.nBlocksInFlightValidHeaders[p] = Cardinality(d.validated[p])
  /\ d.nPeersWithValidatedDownloads = Cardinality(Downloading(d))
  /\ \A p \in Peers, h \in Heights : h \in d.queued[p] <=> d.inFlight[h] = p

(* Sets of heights and sets of peers are finite. *)
LEMMA FiniteSubsets ==
  /\ \A S \in SUBSET Heights : IsFiniteSet(S)
  /\ \A S \in SUBSET Peers : IsFiniteSet(S)
<1>1. IsFiniteSet(Heights)
  BY FS_Interval, BoundsAssumption DEF Heights
<1> QED
  BY <1>1, FS_Subset, PeersAssumption

(* Cardinalities when one element enters or leaves a finite set. *)
LEMMA CardinalityStep ==
  ASSUME NEW S, IsFiniteSet(S), NEW x
  PROVE  /\ Cardinality(S) \in Nat
         /\ Cardinality(S) = 0 <=> S = {}
         /\ x \in S => Cardinality(S \ {x}) = Cardinality(S) - 1
         /\ x \notin S => Cardinality(S \ {x}) = Cardinality(S)
         /\ x \in S => Cardinality(S \union {x}) = Cardinality(S)
         /\ x \notin S => Cardinality(S \union {x}) = Cardinality(S) + 1
<1>1. Cardinality(S) \in Nat /\ (Cardinality(S) = 0 <=> S = {})
  BY FS_CardinalityType, FS_EmptySet
<1>2. x \notin S => S \ {x} = S
  OBVIOUS
<1>3. x \in S => S \union {x} = S
  OBVIOUS
<1> QED
  BY <1>1, <1>2, <1>3, FS_RemoveElement, FS_AddElement

(* A block that arrives is dropped from mapBlocksInFlight and from the list *)
(* of whoever was asked for it, and every counter follows.                  *)
LEMMA ReceivedKeepsDLInv ==
  ASSUME NEW d, DLInv(d), NEW h \in Heights
  PROVE  LET r == MarkBlockAsReceived(d, h) IN
         /\ DLInv(r)
         /\ r.inFlight = [d.inFlight EXCEPT ![h] = NoPeer]
         /\ \A p \in Peers : r.queued[p] = d.queued[p] \ {h}
         /\ r.nStallingSince =
              d.nStallingSince \ {p \in Peers : h \in d.queued[p]}
<1> DEFINE r == MarkBlockAsReceived(d, h)
           q == d.inFlight[h]
<1>0. /\ d \in DLType
      /\ \A p \in Peers, b \in Heights : b \in d.queued[p] <=> d.inFlight[b] = p
  BY DEF DLInv
<1>1. CASE q = NoPeer
  <2>1. r = d
    BY <1>1 DEF MarkBlockAsReceived
  <2>2. d.inFlight = [d.inFlight EXCEPT ![h] = NoPeer]
    BY <1>0, <1>1 DEF DLType
  <2>3. \A p \in Peers : h \notin d.queued[p]
    BY <1>0, <1>1, PeersAssumption
  <2>4. \A p \in Peers : d.queued[p] = d.queued[p] \ {h}
    BY <2>3
  <2>5. d.nStallingSince = d.nStallingSince \ {p \in Peers : h \in d.queued[p]}
    BY <2>3
  <2> QED BY <2>1, <2>2, <2>4, <2>5
<1>2. CASE q /= NoPeer
  <2> DEFINE v == h \in d.validated[q]
             n == d.nBlocksInFlightValidHeaders[q] - (IF v THEN 1 ELSE 0)
  <2>1. q \in Peers /\ h \in d.queued[q]
    BY <1>0, <1>2 DEF DLType
  <2>2. r = [inFlight |-> [d.inFlight EXCEPT ![h] = NoPeer],
             queued |-> [d.queued EXCEPT ![q] = @ \ {h}],
             validated |-> [d.validated EXCEPT ![q] = @ \ {h}],
             nBlocksInFlight |-> [d.nBlocksInFlight EXCEPT ![q] = @ - 1],
             nBlocksInFlightValidHeaders |->
               [d.nBlocksInFlightValidHeaders EXCEPT ![q] = n],
             nPeersWithValidatedDownloads |->
               d.nPeersWithValidatedDownloads
                 - (IF n = 0 /\ v THEN 1 ELSE 0),
             nStallingSince |-> d.nStallingSince \ {q}]
    BY <1>2, Zenon DEF MarkBlockAsReceived, LastValidated, StallEnded
  <2> HIDE DEF r, n, v
  <2>3. \A p \in Peers : /\ IsFiniteSet(d.queued[p]) /\ IsFiniteSet(d.validated[p])
                         /\ d.queued[p] \in SUBSET Heights
                         /\ d.validated[p] \in SUBSET Heights
    BY <1>0, FiniteSubsets DEF DLType
  <2>4. /\ Cardinality(d.queued[q] \ {h}) = Cardinality(d.queued[q]) - 1
        /\ Cardinality(d.queued[q] \ {h}) \in Nat
    <3>1. IsFiniteSet(d.queued[q] \ {h})
      BY <2>1, <2>3, FS_Subset
    <3> QED BY <2>1, <2>3, <3>1, CardinalityStep
  <2>5. /\ Cardinality(d.validated[q] \ {h}) = n
        /\ n \in Nat
        /\ n = 0 <=> d.validated[q] \ {h} = {}
    <3>1. IsFiniteSet(d.validated[q] \ {h})
      BY <2>1, <2>3, FS_Subset
    <3>2. d.nBlocksInFlightValidHeaders[q] = Cardinality(d.validated[q])
      BY <2>1 DEF DLInv
    <3>3. Cardinality(d.validated[q] \ {h}) = n
      <4>1. /\ IsFiniteSet(d.validated[q])
            /\ Cardinality(d.validated[q]) \in Nat
        BY <2>1, <2>3, FS_CardinalityType
      <4>2. Cardinality(d.validated[q] \ {h}) =
              IF h \in d.validated[q] THEN Cardinality(d.validated[q]) - 1
              ELSE Cardinality(d.validated[q])
        BY <4>1, FS_RemoveElement, Zenon
      <4> QED BY <3>2, <4>1, <4>2 DEF n, v
    <3>4. Cardinality(d.validated[q] \ {h}) \in Nat
      BY <3>1, FS_CardinalityType
    <3>5. Cardinality(d.validated[q] \ {h}) = 0 <=> d.validated[q] \ {h} = {}
      BY <3>1, FS_EmptySet
    <3> QED BY <3>3, <3>4, <3>5
  <2>6. r.nPeersWithValidatedDownloads = Cardinality(Downloading(r))
    <3>1. IsFiniteSet(Downloading(d)) /\ Cardinality(Downloading(d)) \in Nat
      BY FiniteSubsets, FS_CardinalityType DEF Downloading
    <3>2. d.nPeersWithValidatedDownloads = Cardinality(Downloading(d))
      BY DEF DLInv
    <3>3. CASE n = 0 /\ v
      <4>1. Downloading(r) = Downloading(d) \ {q} /\ q \in Downloading(d)
        BY <1>0, <2>1, <2>2, <2>5, <3>3 DEF Downloading, DLType, v
      <4>2. Cardinality(Downloading(r)) = Cardinality(Downloading(d)) - 1
        BY <3>1, <4>1, FS_RemoveElement, Zenon
      <4> QED BY <2>2, <3>2, <3>3, <4>2
    <3>4. CASE ~(n = 0 /\ v)
      <4>1. Downloading(r) = Downloading(d)
        BY <1>0, <2>1, <2>2, <2>5, <3>4 DEF Downloading, DLType, v
      <4> QED BY <2>2, <3>1, <3>2, <3>4, <4>1
    <3> QED BY <3>3, <3>4
  <2>7. Cardinality(Downloading(r)) \in Nat
    BY FiniteSubsets, FS_CardinalityType DEF Downloading
  <2>8. \A p \in Peers :
          /\ r.validated[p] \subseteq r.queued[p]
          /\ r.nBlocksInFlight[p] = Cardinality(r.queued[p])
          /\ r.nBlocksInFlightValidHeaders[p] = Cardinality(r.validated[p])
    BY <2>1, <2>2, <2>4, <2>5 DEF DLInv, DLType
  <2>9. \A p \in Peers, b \in Heights : b \in r.queued[p] <=> r.inFlight[b] = p
    BY <1>0, <2>1, <2>2, PeersAssumption DEF DLType
  <2>10. r \in DLType
    BY <1>0, <2>1, <2>2, <2>4, <2>5, <2>6, <2>7 DEF DLType, DLInv
  <2>11. DLInv(r)
    BY <2>6, <2>8, <2>9, <2>10 DEF DLInv
  <2>12. /\ r.inFlight = [d.inFlight EXCEPT ![h] = NoPeer]
    BY <2>2
  <2>13. \A p \in Peers : h \in d.queued[p] <=> p = q
    BY <1>0
  <2>14. \A p \in Peers : r.queued[p] = d.queued[p] \ {h}
    BY <1>0, <2>2, <2>13 DEF DLType
  <2>15. {p \in Peers : h \in d.queued[p]} = {q}
    BY <2>1, <2>13
  <2>16. r.nStallingSince = d.nStallingSince \ {p \in Peers : h \in d.queued[p]}
    BY <2>2, <2>15
  <2> QED BY <2>11, <2>12, <2>14, <2>16 DEF r
<1> QED BY <1>1, <1>2

(* A requested block enters mapBlocksInFlight and the list of the peer that *)
(* was asked, after it is dropped from wherever else it was.                *)
LEMMA InFlightKeepsDLInv ==
  ASSUME NEW d, DLInv(d), NEW p \in Peers, NEW h \in Heights,
         NEW valid \in BOOLEAN, d.inFlight[h] = NoPeer
  PROVE  LET r == MarkBlockAsInFlight(d, p, h, valid) IN
         /\ DLInv(r)
         /\ r.inFlight = [d.inFlight EXCEPT ![h] = p]
         /\ r.queued = [d.queued EXCEPT ![p] = @ \union {h}]
         /\ r.nBlocksInFlight = [d.nBlocksInFlight EXCEPT ![p] = @ + 1]
         /\ r.nStallingSince = d.nStallingSince
<1> DEFINE r == MarkBlockAsInFlight(d, p, h, valid)
           n == d.nBlocksInFlightValidHeaders[p] + (IF valid THEN 1 ELSE 0)
<1>1. /\ d \in DLType
      /\ \A q \in Peers, b \in Heights : b \in d.queued[q] <=> d.inFlight[b] = q
  BY DEF DLInv
<1>2. /\ p /= NoPeer
      /\ h \notin d.queued[p] /\ h \notin d.validated[p]
  BY <1>1, PeersAssumption DEF DLInv
<1>3. MarkBlockAsReceived(d, h) = d
  BY DEF MarkBlockAsReceived
<1>4. r = [inFlight |-> [d.inFlight EXCEPT ![h] = p],
           queued |-> [d.queued EXCEPT ![p] = @ \union {h}],
           validated |->
             [d.validated EXCEPT ![p] = IF valid THEN @ \union {h} ELSE @],
           nBlocksInFlight |-> [d.nBlocksInFlight EXCEPT ![p] = @ + 1],
           nBlocksInFlightValidHeaders |->
             [d.nBlocksInFlightValidHeaders EXCEPT ![p] = n],
           nPeersWithValidatedDownloads |->
             d.nPeersWithValidatedDownloads + FirstValidated(n, valid),
           nStallingSince |-> d.nStallingSince]
  BY <1>2, <1>3, Zenon DEF MarkBlockAsInFlight
<1> HIDE DEF r, n
<1>5. /\ IsFiniteSet(d.queued[p]) /\ IsFiniteSet(d.validated[p])
      /\ IsFiniteSet(Downloading(d)) /\ IsFiniteSet(Downloading(r))
  BY <1>1, FiniteSubsets DEF DLType, Downloading
<1>6. /\ Cardinality(d.queued[p] \union {h}) = Cardinality(d.queued[p]) + 1
      /\ Cardinality(d.queued[p]) \in Nat
  BY <1>2, <1>5, FS_AddElement, FS_CardinalityType
<1>7. /\ Cardinality(IF valid THEN d.validated[p] \union {h} ELSE d.validated[p]) = n
      /\ n \in Nat
      /\ (n = 1 /\ valid) <=> (valid /\ d.validated[p] = {})
  <2>1. /\ Cardinality(d.validated[p] \union {h}) = Cardinality(d.validated[p]) + 1
        /\ Cardinality(d.validated[p]) \in Nat
        /\ Cardinality(d.validated[p]) = 0 <=> d.validated[p] = {}
    BY <1>2, <1>5, FS_AddElement, FS_CardinalityType, FS_EmptySet, Zenon
  <2>2. d.nBlocksInFlightValidHeaders[p] = Cardinality(d.validated[p])
    BY DEF DLInv
  <2> QED BY <2>1, <2>2 DEF n
<1>8. /\ r.nPeersWithValidatedDownloads = Cardinality(Downloading(r))
      /\ r.nPeersWithValidatedDownloads \in Nat
  <2>1. /\ d.nPeersWithValidatedDownloads = Cardinality(Downloading(d))
        /\ Cardinality(Downloading(d)) \in Nat
    BY <1>5, FS_CardinalityType DEF DLInv
  <2>2. CASE valid /\ d.validated[p] = {}
    <3>1. Downloading(r) = Downloading(d) \union {p} /\ p \notin Downloading(d)
      <4>1. r.validated[p] = d.validated[p] \union {h}
        BY <1>1, <1>4, <2>2 DEF DLType
      <4>2. \A q \in Peers \ {p} : r.validated[q] = d.validated[q]
        BY <1>1, <1>4 DEF DLType
      <4> QED BY <2>2, <4>1, <4>2 DEF Downloading
    <3>2. Cardinality(Downloading(r)) = Cardinality(Downloading(d)) + 1
      BY <1>5, <3>1, FS_AddElement
    <3> QED BY <1>4, <1>7, <2>1, <2>2, <3>2 DEF FirstValidated
  <2>3. CASE ~(valid /\ d.validated[p] = {})
    <3>1. Downloading(r) = Downloading(d)
      BY <1>1, <1>4, <2>3 DEF Downloading, DLType
    <3> QED BY <1>4, <1>7, <2>1, <2>3, <3>1 DEF FirstValidated
  <2> QED BY <2>2, <2>3
<1>9. \A q \in Peers :
        /\ r.validated[q] \subseteq r.queued[q]
        /\ r.nBlocksInFlight[q] = Cardinality(r.queued[q])
        /\ r.nBlocksInFlightValidHeaders[q] = Cardinality(r.validated[q])
  BY <1>1, <1>4, <1>6, <1>7 DEF DLInv, DLType
<1>10. \A q \in Peers, b \in Heights : b \in r.queued[q] <=> r.inFlight[b] = q
  BY <1>1, <1>4, PeersAssumption DEF DLType
<1>11. r \in DLType
  BY <1>1, <1>4, <1>7, <1>8 DEF DLType
<1>12. DLInv(r)
  BY <1>8, <1>9, <1>10, <1>11 DEF DLInv
<1> QED BY <1>4, <1>12 DEF r

(* FinalizeNode releases all the blocks of the peer it removes, and takes   *)
(* it out of nPeersWithValidatedDownloads iff it was counted there.         *)
LEMMA ForgetKeepsDLInv ==
  ASSUME NEW d, DLInv(d), NEW p \in Peers
  PROVE  LET r == ForgetPeer(d, p) IN
         /\ DLInv(r)
         /\ r.inFlight = [h \in Heights |->
                            IF d.inFlight[h] = p THEN NoPeer ELSE d.inFlight[h]]
         /\ r.queued = [d.queued EXCEPT ![p] = {}]
         /\ r.nBlocksInFlight = [d.nBlocksInFlight EXCEPT ![p] = 0]
         /\ r.nStallingSince = d.nStallingSince \ {p}
<1> DEFINE r == ForgetPeer(d, p)
<1>1. /\ d \in DLType
      /\ \A q \in Peers, b \in Heights : b \in d.queued[q] <=> d.inFlight[b] = q
  BY DEF DLInv
<1>2. /\ r.inFlight = [h \in Heights |->
                          IF h \in d.queued[p] THEN NoPeer ELSE d.inFlight[h]]
      /\ r.queued = [d.queued EXCEPT ![p] = {}]
      /\ r.validated = [d.validated EXCEPT ![p] = {}]
      /\ r.nBlocksInFlight = [d.nBlocksInFlight EXCEPT ![p] = 0]
      /\ r.nBlocksInFlightValidHeaders =
           [d.nBlocksInFlightValidHeaders EXCEPT ![p] = 0]
      /\ r.nPeersWithValidatedDownloads =
           d.nPeersWithValidatedDownloads - HadValidatedDownloads(d, p)
      /\ r.nStallingSince = d.nStallingSince \ {p}
  BY DEF ForgetPeer, ErasedInFlight
<1>3. r = [inFlight |-> r.inFlight, queued |-> r.queued,
           validated |-> r.validated, nBlocksInFlight |-> r.nBlocksInFlight,
           nBlocksInFlightValidHeaders |-> r.nBlocksInFlightValidHeaders,
           nPeersWithValidatedDownloads |-> r.nPeersWithValidatedDownloads,
           nStallingSince |-> r.nStallingSince]
  BY DEF ForgetPeer
<1> HIDE DEF r
<1>4. /\ r.nPeersWithValidatedDownloads = Cardinality(Downloading(r))
      /\ r.nPeersWithValidatedDownloads \in Nat
  <2>1. /\ IsFiniteSet(d.validated[p])
        /\ IsFiniteSet(Downloading(d)) /\ IsFiniteSet(Downloading(r))
    BY <1>1, FiniteSubsets DEF DLType, Downloading
  <2>2. /\ d.nPeersWithValidatedDownloads = Cardinality(Downloading(d))
        /\ Cardinality(Downloading(d)) \in Nat
        /\ Cardinality(Downloading(r)) \in Nat
    BY <2>1, FS_CardinalityType DEF DLInv
  <2>3. d.nBlocksInFlightValidHeaders[p] = 0 <=> d.validated[p] = {}
    BY <2>1, FS_EmptySet DEF DLInv
  <2>4. Downloading(r) = Downloading(d) \ {p}
    BY <1>1, <1>2 DEF Downloading, DLType
  <2>5. Cardinality(Downloading(r)) =
          Cardinality(Downloading(d)) - (IF d.validated[p] /= {} THEN 1 ELSE 0)
    <3>1. p \in Downloading(d) <=> d.validated[p] /= {}
      BY DEF Downloading
    <3>2. Cardinality(Downloading(d) \ {p}) =
            IF p \in Downloading(d) THEN Cardinality(Downloading(d)) - 1
            ELSE Cardinality(Downloading(d))
      BY <2>1, FS_RemoveElement, Zenon
    <3> QED BY <2>2, <2>4, <3>1, <3>2
  <2> QED BY <1>2, <2>2, <2>3, <2>5 DEF HadValidatedDownloads
<1>5. \A q \in Peers :
        /\ r.validated[q] \subseteq r.queued[q]
        /\ r.nBlocksInFlight[q] = Cardinality(r.queued[q])
        /\ r.nBlocksInFlightValidHeaders[q] = Cardinality(r.validated[q])
  <2>1. Cardinality({}) = 0
    BY FS_EmptySet
  <2> QED BY <1>1, <1>2, <2>1 DEF DLInv, DLType
<1>6. r.inFlight = [h \in Heights |->
                      IF d.inFlight[h] = p THEN NoPeer ELSE d.inFlight[h]]
  BY <1>1, <1>2
<1>7. \A q \in Peers, b \in Heights : b \in r.queued[q] <=> r.inFlight[b] = q
  BY <1>1, <1>2, <1>6, PeersAssumption DEF DLType
<1>8. r \in DLType
  BY <1>1, <1>2, <1>3, <1>4 DEF DLType
<1>9. DLInv(r)
  BY <1>4, <1>5, <1>7, <1>8 DEF DLInv
<1> QED BY <1>2, <1>6, <1>9 DEF r
-----------------------------------------------------------------------------
(***************************************************************************)
(* The peers: the counters of preferred peers and of peers we synchronise  *)
(* headers with.                                                           *)
(***************************************************************************)
NodeInv ==
  /\ mapNodeState \subseteq Peers /\ handshaked \subseteq mapNodeState
  /\ fDisconnect \subseteq mapNodeState /\ fShouldBan \subseteq mapNodeState
  /\ fPreferredDownload \subseteq mapNodeState
  /\ fSyncStarted \subseteq mapNodeState
  /\ nPreferredDownload = Cardinality(fPreferredDownload)
  /\ nSyncStarted = Cardinality(fSyncStarted)

(* NodeInv is inductive: UpdatePreferredDownload and SendMessages count a   *)
(* peer when they add it, FinalizeNode when it removes it.                  *)
LEMMA NodeInvStep == NodeInv /\ [Next]_vars => NodeInv'
<1> SUFFICES ASSUME NodeInv, [Next]_vars PROVE NodeInv'
  OBVIOUS
<1>1. /\ IsFiniteSet(fPreferredDownload) /\ IsFiniteSet(fSyncStarted)
      /\ Cardinality(fPreferredDownload) \in Nat /\ Cardinality(fSyncStarted) \in Nat
  <2>1. fPreferredDownload \in SUBSET Peers /\ fSyncStarted \in SUBSET Peers
    BY DEF NodeInv
  <2> QED BY <2>1, FiniteSubsets, FS_CardinalityType
<1>2. ASSUME NEW p \in Peers, InitializeNode(p) PROVE NodeInv'
  BY <1>2 DEF InitializeNode, NodeInv
<1>3. ASSUME NEW p \in Peers, FinalizeNode(p) PROVE NodeInv'
  <2>1. /\ Cardinality(fPreferredDownload \ {p}) =
             IF p \in fPreferredDownload THEN Cardinality(fPreferredDownload) - 1
             ELSE Cardinality(fPreferredDownload)
        /\ Cardinality(fSyncStarted \ {p}) =
             IF p \in fSyncStarted THEN Cardinality(fSyncStarted) - 1
             ELSE Cardinality(fSyncStarted)
    BY <1>1, FS_RemoveElement, Zenon
  <2>2. /\ nPreferredDownload' = Cardinality(fPreferredDownload')
        /\ nSyncStarted' = Cardinality(fSyncStarted')
    BY <1>1, <1>3, <2>1 DEF FinalizeNode, NodeInv
  <2>3. /\ mapNodeState' \subseteq Peers /\ handshaked' \subseteq mapNodeState'
        /\ fDisconnect' \subseteq mapNodeState' /\ fShouldBan' \subseteq mapNodeState'
        /\ fPreferredDownload' \subseteq mapNodeState'
        /\ fSyncStarted' \subseteq mapNodeState'
    BY <1>3 DEF FinalizeNode, NodeInv
  <2> QED BY <2>2, <2>3 DEF NodeInv
<1>4. ASSUME NEW p \in Peers, UpdatePreferredDownload(p) PROVE NodeInv'
  <2> DEFINE R == fPreferredDownload \ {p}
  <2>1. /\ IsFiniteSet(R)
        /\ Cardinality(R) = IF p \in fPreferredDownload
                            THEN Cardinality(fPreferredDownload) - 1
                            ELSE Cardinality(fPreferredDownload)
    BY <1>1, FS_RemoveElement
  <2>2. Cardinality(R \union {p}) = Cardinality(R) + 1
    BY <2>1, FS_AddElement
  <2>3. fPreferredDownload' = IF p \in PreferredPeers THEN R \union {p} ELSE R
    BY <1>4 DEF UpdatePreferredDownload
  <2>4. nPreferredDownload' = Cardinality(fPreferredDownload')
    <3> DEFINE k == Cardinality(fPreferredDownload)
    <3>1. k \in Nat /\ nPreferredDownload = k
      BY <1>1 DEF NodeInv
    <3>2. nPreferredDownload' = nPreferredDownload
            - (IF p \in fPreferredDownload THEN 1 ELSE 0)
            + (IF p \in PreferredPeers THEN 1 ELSE 0)
      BY <1>4 DEF UpdatePreferredDownload
    <3>3. Cardinality(fPreferredDownload') =
            Cardinality(R) + (IF p \in PreferredPeers THEN 1 ELSE 0)
      <4>1. Cardinality(R) \in Nat
        BY <2>1, FS_CardinalityType
      <4> HIDE DEF R
      <4> QED BY <2>2, <2>3, <4>1
    <3>4. Cardinality(R) = k - (IF p \in fPreferredDownload THEN 1 ELSE 0)
      BY <2>1, <3>1
    <3> HIDE DEF k, R
    <3> QED BY <3>1, <3>2, <3>3, <3>4
  <2> QED BY <1>4, <2>3, <2>4 DEF UpdatePreferredDownload, NodeInv
<1>5. ASSUME NEW p \in Peers, NEW s \in BOOLEAN, NEW e \in BOOLEAN,
             NEW r \in BOOLEAN, SendMessages(p, s, e, r)
      PROVE  NodeInv'
  <2>1. /\ \/ fSyncStarted' = fSyncStarted /\ nSyncStarted' = nSyncStarted
           \/ /\ p \notin fSyncStarted
              /\ fSyncStarted' = fSyncStarted \union {p}
              /\ nSyncStarted' = nSyncStarted + 1
        /\ fDisconnect' = fDisconnect \/ fDisconnect' = fDisconnect \union {p}
        /\ p \in handshaked /\ fShouldBan' = fShouldBan \ {p}
        /\ UNCHANGED <<mapNodeState, handshaked, fPreferredDownload, nPreferredDownload>>
    BY <1>5, Zenon DEF SendMessages
  <2>2. p \notin fSyncStarted =>
          Cardinality(fSyncStarted \union {p}) = Cardinality(fSyncStarted) + 1
    BY <1>1, FS_AddElement, Zenon
  <2> QED BY <2>1, <2>2 DEF NodeInv
<1>6. ASSUME NEW p \in Peers, Misbehaving(p) PROVE NodeInv'
  BY <1>6 DEF Misbehaving, NodeInv
<1>7. ASSUME UNCHANGED nodeVars PROVE NodeInv'
  BY <1>7 DEF nodeVars, NodeInv
<1> QED
  BY <1>2, <1>3, <1>4, <1>5, <1>6, <1>7, Zenon
  DEF Next, Inv, UnconnectingHeaders, Headers, HeadersRequest, Block,
      SendRequest, LeaveInitialDownload, vars
-----------------------------------------------------------------------------
(***************************************************************************)
(* What the peers are known to have, and the active chain.                 *)
(***************************************************************************)
AvailInv ==
  /\ pindexBestKnownBlock \in [Peers -> Heights \union {NULL}]
  /\ hashLastUnknownBlock \in [Peers -> Heights \union {NULL}]
  /\ pindexLastCommonBlock \in [Peers -> Heights \union {NULL}]
  /\ headerTip \in Heights /\ tip \in Heights
  /\ have \subseteq Heights /\ 0 .. tip \subseteq have
  /\ \A h \in have : h <= headerTip
  /\ LastCommonLinked

(* ProcessBlockAvailability only moves a peer's best known block forward,   *)
(* to a block whose header is known.                                        *)
LEMMA ProcessedBestBounds ==
  ASSUME AvailInv, NEW p \in Peers, NEW known \in Heights, headerTip <= known
  PROVE  /\ ProcessedBest(p, known) \in Heights \union {NULL}
         /\ pindexBestKnownBlock[p] <= ProcessedBest(p, known)
         /\ ProcessedBest(p, known) <= known
         /\ ProcessedUnknown(p, known) \in Heights \union {NULL}
<1>1. /\ pindexBestKnownBlock[p] \in Heights \union {NULL}
      /\ hashLastUnknownBlock[p] \in Heights \union {NULL}
      /\ pindexBestKnownBlock[p] <= headerTip /\ headerTip \in Heights
  BY DEF AvailInv, LastCommonLinked
<1> QED
  BY <1>1, BoundsAssumption DEF ProcessedBest, ProcessedUnknown, Heights, NULL

(* UpdateBlockAvailability keeps AvailInv: the best known block of a peer   *)
(* only moves forward, so pindexLastCommonBlock stays behind it.            *)
LEMMA UpdateKeepsAvail ==
  ASSUME AvailInv, NEW p \in Peers, NEW h \in Heights,
         NEW known \in Heights, headerTip <= known,
         UpdateBlockAvailability(p, h, known), headerTip' = known,
         UNCHANGED <<tip, have>>
  PROVE  AvailInv'
<1>1. /\ ProcessedBest(p, known) \in Heights \union {NULL}
      /\ pindexBestKnownBlock[p] <= ProcessedBest(p, known)
      /\ ProcessedBest(p, known) <= known
      /\ ProcessedUnknown(p, known) \in Heights \union {NULL}
  BY ProcessedBestBounds
<1> DEFINE b == IF h <= known /\ h >= ProcessedBest(p, known)
                THEN h ELSE ProcessedBest(p, known)
           u == IF h <= known THEN ProcessedUnknown(p, known) ELSE h
<1>2. /\ pindexBestKnownBlock' = [pindexBestKnownBlock EXCEPT ![p] = b]
      /\ hashLastUnknownBlock' = [hashLastUnknownBlock EXCEPT ![p] = u]
      /\ pindexLastCommonBlock' = pindexLastCommonBlock
  BY DEF UpdateBlockAvailability
<1>3. /\ b \in Heights \union {NULL} /\ u \in Heights \union {NULL}
      /\ pindexBestKnownBlock[p] <= b /\ b <= known
  BY <1>1, BoundsAssumption DEF Heights, NULL, AvailInv
<1> HIDE DEF b, u
<1>4. \A q \in Peers : /\ pindexBestKnownBlock[q] \in Int
                       /\ pindexLastCommonBlock[q] \in Int
                       /\ pindexBestKnownBlock'[q] \in Int
                       /\ pindexBestKnownBlock[q] <= pindexBestKnownBlock'[q]
                       /\ pindexBestKnownBlock'[q] <= known
  BY <1>2, <1>3 DEF AvailInv, LastCommonLinked, Heights, NULL
<1>5. LastCommonLinked'
  BY <1>2, <1>4 DEF AvailInv, LastCommonLinked, Heights
<1>6. \A x \in have' : x <= headerTip'
  BY DEF AvailInv, Heights
<1> QED BY <1>2, <1>3, <1>5, <1>6 DEF AvailInv

(* A step that leaves the peers' knowledge alone and only extends the       *)
(* headers, the stored blocks and the active chain.                         *)
LEMMA ChainKeepsAvail ==
  ASSUME AvailInv, UNCHANGED availVars,
         headerTip' \in Heights, headerTip <= headerTip',
         have' \subseteq Heights, have \subseteq have',
         \A h \in have' : h <= headerTip',
         tip' \in Heights, IsTip(tip', have')
  PROVE  AvailInv'
<1>1. tip <= tip'
  BY DEF AvailInv, IsTip, Heights
<1>2. LastCommonLinked'
  BY <1>1 DEF AvailInv, LastCommonLinked, availVars, Heights, NULL
<1> QED BY <1>2 DEF AvailInv, availVars, IsTip

(* The block FindNextBlocksToDownload settles on, and how far it walks.     *)
LEMMA CommonBounds ==
  ASSUME AvailInv, NEW p \in Peers,
         NEW best \in Heights, HasInteresting(best),
         pindexBestKnownBlock[p] <= best
  PROVE  LET c == CommonBlock(p, best) IN
         /\ c \in Heights /\ c <= best /\ c <= tip
         /\ MaxWalk(c, best) \in Heights /\ MaxWalk(c, best) <= best
         /\ NewCommonBlock(c, best) \in Heights
         /\ NewCommonBlock(c, best) <= tip /\ NewCommonBlock(c, best) <= best
<1>1. /\ pindexLastCommonBlock[p] \in Heights \union {NULL}
      /\ pindexLastCommonBlock[p] <= tip /\ tip \in Heights /\ tip <= best
  BY DEF AvailInv, LastCommonLinked, HasInteresting
<1> DEFINE c == CommonBlock(p, best)
<1>2. c \in Heights /\ c <= best /\ c <= tip
  BY <1>1, BoundsAssumption DEF CommonBlock, Lesser, Heights, NULL
<1> HIDE DEF c
<1>3. MaxWalk(c, best) \in Heights /\ MaxWalk(c, best) <= best /\ c <= MaxWalk(c, best)
  BY <1>2, BoundsAssumption DEF MaxWalk, Lesser, Heights
<1>4. /\ NewCommonBlock(c, best) \in Heights
      /\ NewCommonBlock(c, best) <= tip /\ NewCommonBlock(c, best) <= best
  BY <1>1, <1>2, <1>3 DEF NewCommonBlock, Lesser, Heights
<1> QED BY <1>2, <1>3, <1>4 DEF c

(* SendMessages moves pindexLastCommonBlock only to a block of the active   *)
(* chain that the peer is known to have.                                    *)
LEMMA SendKeepsAvail ==
  ASSUME AvailInv, NEW p \in Peers, NEW s \in BOOLEAN, NEW e \in BOOLEAN,
         NEW r \in BOOLEAN, SendMessages(p, s, e, r)
  PROVE  AvailInv'
<1> DEFINE best == ProcessedBest(p, headerTip)
           c == CommonBlock(p, best)
<1>1. /\ best \in Heights \union {NULL} /\ pindexBestKnownBlock[p] <= best
      /\ best <= headerTip
      /\ ProcessedUnknown(p, headerTip) \in Heights \union {NULL}
  BY ProcessedBestBounds DEF AvailInv, Heights
<1>2. /\ pindexBestKnownBlock' = [pindexBestKnownBlock EXCEPT ![p] = best]
      /\ hashLastUnknownBlock' =
           [hashLastUnknownBlock EXCEPT ![p] = ProcessedUnknown(p, headerTip)]
      /\ UNCHANGED chainVars
  BY DEF SendMessages, ProcessBlockAvailability
<1>3. \/ pindexLastCommonBlock' = pindexLastCommonBlock
      \/ /\ HasInteresting(best)
         /\ \/ pindexLastCommonBlock' = [pindexLastCommonBlock EXCEPT ![p] = c]
            \/ pindexLastCommonBlock' =
                 [pindexLastCommonBlock EXCEPT ![p] = NewCommonBlock(c, best)]
  BY Zenon DEF SendMessages
<1> HIDE DEF best, c
<1>4. HasInteresting(best) =>
        /\ best \in Heights
        /\ c \in Heights /\ c <= best /\ c <= tip
        /\ NewCommonBlock(c, best) \in Heights
        /\ NewCommonBlock(c, best) <= tip /\ NewCommonBlock(c, best) <= best
  <2>1. HasInteresting(best) => best \in Heights
    BY <1>1 DEF HasInteresting
  <2> QED BY <1>1, <2>1, CommonBounds DEF c
<1>5. \A q \in Peers :
        /\ pindexBestKnownBlock'[q] \in Heights \union {NULL}
        /\ pindexLastCommonBlock'[q] \in Heights \union {NULL}
        /\ pindexBestKnownBlock'[q] <= headerTip
        /\ pindexLastCommonBlock'[q] <= tip
        /\ pindexLastCommonBlock'[q] <= pindexBestKnownBlock'[q]
  <2> TAKE q \in Peers
  <2>0. /\ pindexBestKnownBlock[q] \in Heights \union {NULL}
        /\ pindexLastCommonBlock[q] \in Heights \union {NULL}
        /\ pindexBestKnownBlock[q] <= headerTip
        /\ pindexLastCommonBlock[q] <= tip
        /\ pindexLastCommonBlock[q] <= pindexBestKnownBlock[q]
    BY DEF AvailInv, LastCommonLinked
  <2>1. CASE q /= p
    <3>1. /\ pindexBestKnownBlock'[q] = pindexBestKnownBlock[q]
          /\ pindexLastCommonBlock'[q] = pindexLastCommonBlock[q]
      BY <1>2, <1>3, <2>1 DEF AvailInv
    <3> QED BY <2>0, <3>1
  <2>2. CASE q = p
    <3>1. pindexBestKnownBlock'[q] = best
      BY <1>2, <2>2 DEF AvailInv
    <3>2. \/ pindexLastCommonBlock'[q] = pindexLastCommonBlock[q]
          \/ /\ HasInteresting(best)
             /\ \/ pindexLastCommonBlock'[q] = c
                \/ pindexLastCommonBlock'[q] = NewCommonBlock(c, best)
      BY <1>3, <2>2 DEF AvailInv
    <3>3. CASE pindexLastCommonBlock'[q] = pindexLastCommonBlock[q]
      BY <1>1, <2>0, <2>2, <3>1, <3>3 DEF Heights, NULL
    <3>4. CASE /\ HasInteresting(best)
               /\ \/ pindexLastCommonBlock'[q] = c
                  \/ pindexLastCommonBlock'[q] = NewCommonBlock(c, best)
      BY <1>1, <1>4, <3>1, <3>4
    <3> QED BY <3>2, <3>3, <3>4
  <2> QED BY <2>1, <2>2
<1>6. /\ pindexBestKnownBlock' \in [Peers -> Heights \union {NULL}]
      /\ hashLastUnknownBlock' \in [Peers -> Heights \union {NULL}]
      /\ pindexLastCommonBlock' \in [Peers -> Heights \union {NULL}]
  BY <1>1, <1>2, <1>3, <1>4 DEF AvailInv
<1>7. LastCommonLinked'
  BY <1>2, <1>5 DEF LastCommonLinked, chainVars
<1> QED BY <1>2, <1>6, <1>7 DEF AvailInv, chainVars

(* AvailInv is inductive. *)
LEMMA AvailInvStep == AvailInv /\ [Next]_vars => AvailInv'
<1> SUFFICES ASSUME AvailInv, [Next]_vars PROVE AvailInv'
  OBVIOUS
<1>1. ASSUME UNCHANGED <<availVars, headerTip, tip, have>> PROVE AvailInv'
  BY <1>1 DEF AvailInv, LastCommonLinked, availVars
<1>2. ASSUME NEW p \in Peers, FinalizeNode(p) PROVE AvailInv'
  BY <1>2 DEF FinalizeNode, AvailInv, LastCommonLinked, chainVars, NULL, Heights
<1>3. ASSUME NEW p \in Peers, NEW h \in Heights, NEW b \in BOOLEAN, Inv(p, h, b)
      PROVE  AvailInv'
  <2>1. headerTip \in Heights /\ headerTip <= headerTip
    BY DEF AvailInv, Heights
  <2> QED BY <1>3, <2>1, UpdateKeepsAvail DEF Inv, chainVars
<1>4. ASSUME NEW p \in Peers, NEW f \in Heights, NEW h \in Heights,
             UnconnectingHeaders(p, f, h)
      PROVE  AvailInv'
  <2>1. headerTip \in Heights /\ headerTip <= headerTip
    BY DEF AvailInv, Heights
  <2> QED BY <1>4, <2>1, UpdateKeepsAvail DEF UnconnectingHeaders, chainVars
<1>5. ASSUME NEW p \in Peers, NEW h \in Heights, NEW b \in BOOLEAN, Headers(p, h, b)
      PROVE  AvailInv'
  <2> DEFINE known == IF h > headerTip THEN h ELSE headerTip
  <2>1. known \in Heights /\ headerTip <= known
    BY DEF AvailInv, Heights
  <2>2. /\ headerTip' = known /\ UpdateBlockAvailability(p, h, known)
        /\ UNCHANGED <<tip, have>>
    BY <1>5 DEF Headers
  <2> HIDE DEF known
  <2> QED BY <2>1, <2>2, UpdateKeepsAvail
<1>6. ASSUME NEW p \in Peers, NEW h \in Heights, NEW b \in BOOLEAN, Block(p, h, b)
      PROVE  AvailInv'
  <2>1. /\ headerTip' = headerTip \/ (headerTip' = h /\ h > headerTip)
        /\ have' = have \/ (have' = have \union {h} /\ h <= headerTip + 1)
        /\ headerTip' = IF h <= headerTip + 1 /\ h > headerTip THEN h ELSE headerTip
        /\ tip' \in {t \in Heights : IsTip(t, have')}
        /\ UNCHANGED availVars
    BY <1>6, Zenon DEF Block
  <2>2. headerTip' \in Heights /\ headerTip <= headerTip'
    BY <2>1 DEF AvailInv, Heights
  <2>3. have' \subseteq Heights /\ have \subseteq have'
    BY <2>1 DEF AvailInv
  <2>4. \A x \in have' : x <= headerTip'
    <3>1. \A x \in have : x \in Int /\ x <= headerTip
      BY DEF AvailInv, Heights
    <3>2. headerTip \in Int /\ headerTip' \in Int /\ h \in Int
      BY <2>2 DEF AvailInv, Heights
    <3>3. have' /= have => h <= headerTip'
      BY <2>1, <3>2
    <3> QED BY <2>1, <2>2, <3>1, <3>2, <3>3
  <2> QED BY <2>1, <2>2, <2>3, <2>4, ChainKeepsAvail
<1>7. ASSUME NEW p \in Peers, NEW s \in BOOLEAN, NEW e \in BOOLEAN,
             NEW r \in BOOLEAN, SendMessages(p, s, e, r)
      PROVE  AvailInv'
  BY <1>7, SendKeepsAvail
<1> QED
  BY <1>1, <1>2, <1>3, <1>4, <1>5, <1>6, <1>7
  DEF Next, InitializeNode, UpdatePreferredDownload, Misbehaving, HeadersRequest,
      SendRequest, LeaveInitialDownload, vars, chainVars
-----------------------------------------------------------------------------
(***************************************************************************)
(* The blocks in flight.                                                   *)
(***************************************************************************)
FetchInv ==
  /\ fetch \in [peer : Peers \union {NoPeer}, blocks : SUBSET Heights,
                 loop : {"none", "headers", "send"}]
  /\ fetch.loop = "none" => fetch = NoFetch
  /\ fetch.loop /= "none" => fetch.peer \in mapNodeState
  /\ fetch.loop = "send" =>
       dl.nBlocksInFlight[fetch.peer] + Cardinality(fetch.blocks)
         <= MAX_BLOCKS_IN_TRANSIT_PER_PEER

DownloadInv ==
  /\ DLInv(dl)
  /\ \A p \in Peers \ mapNodeState : dl.queued[p] = {}
  /\ dl.nStallingSince \subseteq mapNodeState
  /\ StallerOwesBlock /\ TransitLimit /\ RequestedOnce /\ FetchInv

(* Steps that touch neither dl nor fetch and keep every peer and block.     *)
LEMMA IdleKeepsDownload ==
  ASSUME DownloadInv, UNCHANGED <<dl, fetch, have>>,
         mapNodeState \subseteq mapNodeState'
  PROVE  DownloadInv'
<1>1. DLInv(dl)'
  BY DEF DownloadInv, DLInv, DLType, Downloading
<1> QED
  BY <1>1 DEF DownloadInv, StallerOwesBlock, TransitLimit, RequestedOnce, FetchInv

(* Marking one block of the peer's, with room for it.                       *)
LEMMA MarkKeepsDownload ==
  ASSUME NodeInv, DownloadInv, NEW p \in mapNodeState, NEW h \in Heights,
         NEW valid \in BOOLEAN, dl.inFlight[h] = NoPeer, h \notin have,
         dl.nBlocksInFlight[p] < MAX_BLOCKS_IN_TRANSIT_PER_PEER,
         dl' = MarkBlockAsInFlight(dl, p, h, valid),
         UNCHANGED <<mapNodeState, have>>
  PROVE  /\ DLInv(dl')
         /\ \A q \in Peers \ mapNodeState' : dl'.queued[q] = {}
         /\ dl'.nStallingSince \subseteq mapNodeState'
         /\ StallerOwesBlock' /\ TransitLimit'
         /\ \A b \in have' : dl'.inFlight[b] = NoPeer
         /\ \A b \in Heights \ {h} : dl'.inFlight[b] = dl.inFlight[b]
         /\ dl'.nBlocksInFlight[p] = dl.nBlocksInFlight[p] + 1
<1>0. p \in Peers /\ DLInv(dl)
  BY DEF NodeInv, DownloadInv
<1>1. /\ DLInv(dl')
      /\ dl'.inFlight = [dl.inFlight EXCEPT ![h] = p]
      /\ dl'.queued = [dl.queued EXCEPT ![p] = @ \union {h}]
      /\ dl'.nBlocksInFlight = [dl.nBlocksInFlight EXCEPT ![p] = @ + 1]
      /\ dl'.nStallingSince = dl.nStallingSince
  BY <1>0, InFlightKeepsDLInv
<1>2. /\ dl.inFlight \in [Heights -> Peers \union {NoPeer}]
      /\ dl.queued \in [Peers -> SUBSET Heights]
      /\ dl.nBlocksInFlight \in [Peers -> Nat]
      /\ dl.nStallingSince \subseteq Peers
  BY <1>0 DEF DLInv, DLType
<1>3. /\ \A b \in Heights \ {h} : dl'.inFlight[b] = dl.inFlight[b]
      /\ dl'.nBlocksInFlight[p] = dl.nBlocksInFlight[p] + 1
  BY <1>0, <1>1, <1>2
<1>4. \A q \in Peers \ mapNodeState' : dl'.queued[q] = {}
  BY <1>1, <1>2 DEF DownloadInv
<1>5. dl'.nStallingSince \subseteq mapNodeState' /\ StallerOwesBlock'
  BY <1>1, <1>2 DEF DownloadInv, StallerOwesBlock
<1>6. TransitLimit'
  BY <1>0, <1>1, <1>2, BoundsAssumption DEF DownloadInv, TransitLimit
<1>7. \A b \in have' : dl'.inFlight[b] = NoPeer
  BY <1>1, <1>2 DEF DownloadInv, RequestedOnce
<1> QED BY <1>1, <1>3, <1>4, <1>5, <1>6, <1>7

(* One pass of either request loop. *)
LEMMA RequestKeepsDownload ==
  ASSUME NodeInv, DownloadInv, fetch.loop /= "none", RequestEarliest,
         dl.nBlocksInFlight[fetch.peer] < MAX_BLOCKS_IN_TRANSIT_PER_PEER,
         UNCHANGED <<mapNodeState, have>>
  PROVE  DownloadInv'
<1>1. PICK h \in fetch.blocks :
        /\ dl' = MarkBlockAsInFlight(dl, fetch.peer, h, TRUE)
        /\ fetch' = IF fetch.blocks = {h} THEN NoFetch
                    ELSE [fetch EXCEPT !.blocks = @ \ {h}]
  BY Zenon DEF RequestEarliest
<1> DEFINE p == fetch.peer
<1>2. /\ h \in Heights /\ p \in mapNodeState /\ p \in Peers
      /\ dl.inFlight[h] = NoPeer /\ h \notin have
      /\ fetch \in [peer : Peers \union {NoPeer}, blocks : SUBSET Heights,
                    loop : {"none", "headers", "send"}]
  BY DEF DownloadInv, FetchInv, RequestedOnce, NodeInv
<1>3. /\ DLInv(dl')
      /\ \A q \in Peers \ mapNodeState' : dl'.queued[q] = {}
      /\ dl'.nStallingSince \subseteq mapNodeState'
      /\ StallerOwesBlock' /\ TransitLimit'
      /\ \A b \in have' : dl'.inFlight[b] = NoPeer
      /\ \A b \in Heights \ {h} : dl'.inFlight[b] = dl.inFlight[b]
      /\ dl'.nBlocksInFlight[p] = dl.nBlocksInFlight[p] + 1
  BY <1>1, <1>2, MarkKeepsDownload, Zenon
<1>4. CASE fetch.blocks = {h}
  <2>1. fetch' = NoFetch
    BY <1>1, <1>4
  <2>2. RequestedOnce' /\ FetchInv'
    BY <1>3, <2>1 DEF NoFetch, RequestedOnce, FetchInv
  <2> QED BY <1>3, <2>2 DEF DownloadInv
<1>5. CASE fetch.blocks /= {h}
  <2>1. /\ fetch' = [fetch EXCEPT !.blocks = @ \ {h}]
        /\ fetch'.peer = p /\ fetch'.loop = fetch.loop
        /\ fetch'.blocks = fetch.blocks \ {h}
    BY <1>1, <1>2, <1>5
  <2>2. RequestedOnce'
    BY <1>2, <1>3, <2>1 DEF RequestedOnce, DownloadInv
  <2>3. IsFiniteSet(fetch.blocks)
    BY <1>2, FiniteSubsets
  <2>4. Cardinality(fetch'.blocks) = Cardinality(fetch.blocks) - 1
    BY <2>1, <2>3, FS_RemoveElement, Zenon
  <2>5. Cardinality(fetch.blocks) \in Nat /\ dl.nBlocksInFlight[p] \in Nat
    BY <1>2, <2>3, FS_CardinalityType DEF DownloadInv, DLInv, DLType
  <2>6. FetchInv'
    BY <1>2, <1>3, <2>1, <2>4, <2>5, BoundsAssumption DEF FetchInv, DownloadInv
  <2> QED BY <1>3, <2>2, <2>6 DEF DownloadInv
<1> QED BY <1>4, <1>5
(* SendMessages: the blocks it is about to request are missing, in flight   *)
(* from nobody and fit under the limit, and the peer it marks as stalling   *)
(* owes the block that holds the window back.                               *)
LEMMA SendKeepsDownload ==
  ASSUME NodeInv, AvailInv, DownloadInv, NEW p \in Peers, NEW s \in BOOLEAN,
         NEW e \in BOOLEAN, NEW r \in BOOLEAN, SendMessages(p, s, e, r)
  PROVE  DownloadInv'
<1> DEFINE best == ProcessedBest(p, headerTip)
           c == CommonBlock(p, best)
           count == MAX_BLOCKS_IN_TRANSIT_PER_PEER - dl.nBlocksInFlight[p]
<1>1. /\ fetch = NoFetch /\ p \in mapNodeState
      /\ UNCHANGED <<mapNodeState, have>>
  BY DEF SendMessages, csMainFree, NodeInv, chainVars
<1>2. \/ UNCHANGED <<fetch, dl>>
      \/ /\ HasInteresting(best)
         /\ \/ fetch' = NoFetch
            \/ \E S \in SUBSET InWindow(c, best) :
                 /\ BlocksToDownload(S, c, best, count)
                 /\ fetch' = [peer |-> p, blocks |-> S, loop |-> "send"]
         /\ \/ dl' = dl
            \/ dl' = [dl EXCEPT !.nStallingSince = @ \union Stallers(p, c, best)]
  BY Zenon DEF SendMessages
<1>3. CASE UNCHANGED <<fetch, dl>>
  BY <1>1, <1>3, IdleKeepsDownload
<1>4. CASE HasInteresting(best) /\ ~UNCHANGED <<fetch, dl>>
  <2>1. best \in Heights /\ pindexBestKnownBlock[p] <= best
    <3>1. headerTip \in Heights /\ headerTip <= headerTip
      BY DEF AvailInv, Heights
    <3> QED BY <1>4, <3>1, ProcessedBestBounds DEF HasInteresting
  <2>2. c \in Heights /\ MaxWalk(c, best) \in Heights
    BY <1>4, <2>1, CommonBounds
  <2>3. fetch' = NoFetch \/ \E S \in SUBSET InWindow(c, best) :
                             /\ BlocksToDownload(S, c, best, count)
                             /\ fetch' = [peer |-> p, blocks |-> S, loop |-> "send"]
    BY <1>2, <1>4
  <2>4. dl' = dl \/ dl' = [dl EXCEPT !.nStallingSince = @ \union Stallers(p, c, best)]
    BY <1>2, <1>4
  <2> HIDE DEF best, c
  <2>5. \A b \in InWindow(c, best) :
          b \in Heights /\ b \notin have /\ dl.inFlight[b] = NoPeer
    <3>1. \A b \in c + 1 .. MaxWalk(c, best) : b \in Heights
      BY <2>2, BoundsAssumption DEF Heights
    <3> QED BY <3>1 DEF InWindow, NotInFlight
  <2>6. \A q \in Stallers(p, c, best) :
          q \in Peers /\ q \in mapNodeState /\ dl.queued[q] /= {}
    <3> SUFFICES ASSUME NEW q \in Stallers(p, c, best)
                 PROVE  q \in Peers /\ q \in mapNodeState /\ dl.queued[q] /= {}
      OBVIOUS
    <3>1. PICK b \in c + 1 .. MaxWalk(c, best) :
                 dl.inFlight[b] /= NoPeer /\ q = dl.inFlight[b]
      BY Zenon DEF Stallers
    <3>2. b \in Heights
      BY <2>2, <3>1, BoundsAssumption DEF Heights
    <3>3. q \in Peers /\ b \in dl.queued[q]
      BY <3>1, <3>2 DEF DownloadInv, DLInv, DLType
    <3> QED BY <3>3 DEF DownloadInv
  <2>7. /\ dl'.inFlight = dl.inFlight /\ dl'.queued = dl.queued
        /\ dl'.validated = dl.validated
        /\ dl'.nBlocksInFlight = dl.nBlocksInFlight
        /\ dl'.nBlocksInFlightValidHeaders = dl.nBlocksInFlightValidHeaders
        /\ dl'.nPeersWithValidatedDownloads = dl.nPeersWithValidatedDownloads
        /\ dl'.nStallingSince \subseteq dl.nStallingSince \union Stallers(p, c, best)
        /\ dl' \in DLType
    BY <2>4, <2>6 DEF DownloadInv, DLInv, DLType
  <2>8. DLInv(dl')
    BY <2>7 DEF DownloadInv, DLInv, Downloading
  <2>9. /\ \A q \in Peers \ mapNodeState' : dl'.queued[q] = {}
        /\ dl'.nStallingSince \subseteq mapNodeState'
        /\ StallerOwesBlock' /\ TransitLimit'
        /\ \A b \in have' : dl'.inFlight[b] = NoPeer
    BY <1>1, <2>6, <2>7
    DEF DownloadInv, StallerOwesBlock, TransitLimit, RequestedOnce
  <2>10. RequestedOnce' /\ FetchInv'
    <3>1. CASE fetch' = NoFetch
      BY <2>9, <3>1 DEF RequestedOnce, FetchInv, NoFetch
    <3>2. ASSUME NEW S \in SUBSET InWindow(c, best),
                 BlocksToDownload(S, c, best, count),
                 fetch' = [peer |-> p, blocks |-> S, loop |-> "send"]
          PROVE  RequestedOnce' /\ FetchInv'
      <4>1. RequestedOnce'
        BY <1>1, <2>5, <2>7, <2>9, <3>2 DEF RequestedOnce
      <4>2. /\ IsFiniteSet(S) /\ S \in SUBSET Heights
            /\ Cardinality(S) \in Nat /\ Cardinality(S) <= count
        BY <2>5, <3>2, FiniteSubsets, FS_CardinalityType DEF BlocksToDownload
      <4>3. dl.nBlocksInFlight[p] \in Nat
        BY DEF DownloadInv, DLInv, DLType
      <4>4. FetchInv'
        BY <1>1, <2>7, <3>2, <4>2, <4>3, BoundsAssumption DEF FetchInv
      <4> QED BY <4>1, <4>4
    <3> QED BY <2>3, <3>1, <3>2
  <2> QED BY <2>8, <2>9, <2>10 DEF DownloadInv
<1> QED BY <1>2, <1>3, <1>4

(* DownloadInv is inductive relative to NodeInv and AvailInv.               *)
LEMMA DownloadInvStep ==
  NodeInv /\ AvailInv /\ DownloadInv /\ [Next]_vars => DownloadInv'
<1> SUFFICES ASSUME NodeInv, AvailInv, DownloadInv, [Next]_vars
             PROVE  DownloadInv'
  OBVIOUS
<1> USE DEF csMainFree
<1>1. ASSUME UNCHANGED <<dl, fetch, have>>, mapNodeState \subseteq mapNodeState'
      PROVE  DownloadInv'
  BY <1>1, IdleKeepsDownload
<1>2. ASSUME NEW p \in Peers, FinalizeNode(p) PROVE DownloadInv'
  <2>1. /\ DLInv(dl') /\ dl'.inFlight = [h \in Heights |->
             IF dl.inFlight[h] = p THEN NoPeer ELSE dl.inFlight[h]]
        /\ dl'.queued = [dl.queued EXCEPT ![p] = {}]
        /\ dl'.nBlocksInFlight = [dl.nBlocksInFlight EXCEPT ![p] = 0]
        /\ dl'.nStallingSince = dl.nStallingSince \ {p}
    <3>1. DLInv(dl) /\ dl' = ForgetPeer(dl, p)
      BY <1>2 DEF FinalizeNode, DownloadInv
    <3> QED BY <3>1, ForgetKeepsDLInv
  <2>2. /\ fetch = NoFetch /\ fetch' = NoFetch /\ have' = have
        /\ mapNodeState' = mapNodeState \ {p}
    BY <1>2 DEF FinalizeNode, chainVars
  <2>3. dl \in DLType
    BY DEF DownloadInv, DLInv
  <2>4. /\ \A q \in Peers \ mapNodeState' : dl'.queued[q] = {}
        /\ dl'.nStallingSince \subseteq mapNodeState'
        /\ StallerOwesBlock'
    BY <2>1, <2>2, <2>3 DEF DownloadInv, StallerOwesBlock, DLType
  <2>5. TransitLimit'
    BY <2>1, <2>3, BoundsAssumption DEF DownloadInv, TransitLimit, DLType
  <2>6. RequestedOnce' /\ FetchInv'
    BY <2>1, <2>2 DEF DownloadInv, RequestedOnce, FetchInv, NoFetch, AvailInv
  <2> QED BY <2>1, <2>4, <2>5, <2>6 DEF DownloadInv
<1>3. ASSUME NEW p \in Peers, NEW h \in Heights, NEW b \in BOOLEAN, Inv(p, h, b)
      PROVE  DownloadInv'
  <2>1. /\ fetch = NoFetch /\ UNCHANGED <<fetch, have, mapNodeState>>
        /\ p \in mapNodeState
    BY <1>3 DEF Inv, MessageFrom, nodeVars, chainVars, NodeInv
  <2>2. CASE dl' = dl
    BY <2>1, <2>2, IdleKeepsDownload
  <2>3. CASE dl' /= dl
    <3>1. /\ h > headerTip /\ dl.inFlight[h] = NoPeer
          /\ dl.nBlocksInFlight[p] < MAX_BLOCKS_IN_TRANSIT_PER_PEER
          /\ dl' = MarkBlockAsInFlight(dl, p, h, FALSE)
      BY <1>3, <2>3, Zenon DEF Inv
    <3>2. h \notin have
      BY <3>1 DEF AvailInv, Heights
    <3>3. /\ DLInv(dl')
          /\ \A q \in Peers \ mapNodeState' : dl'.queued[q] = {}
          /\ dl'.nStallingSince \subseteq mapNodeState'
          /\ StallerOwesBlock' /\ TransitLimit'
          /\ \A x \in have' : dl'.inFlight[x] = NoPeer
      BY <2>1, <3>1, <3>2, MarkKeepsDownload, Zenon
    <3>4. RequestedOnce' /\ FetchInv'
      BY <2>1, <3>3 DEF RequestedOnce, FetchInv, NoFetch
    <3> QED BY <3>3, <3>4 DEF DownloadInv
  <2> QED BY <2>2, <2>3
<1>4. ASSUME NEW p \in Peers, NEW h \in Heights, NEW b \in BOOLEAN, Headers(p, h, b)
      PROVE  DownloadInv'
  <2>1. /\ UNCHANGED <<dl, have, mapNodeState>> /\ p \in mapNodeState
        /\ fetch = NoFetch
        /\ \/ fetch' = NoFetch
           \/ fetch' = [peer |-> p, blocks |-> ToFetch(h), loop |-> "headers"]
    BY <1>4 DEF Headers, MessageFrom, nodeVars, NodeInv
  <2>2. CASE fetch' = NoFetch
    BY <2>1, <2>2, IdleKeepsDownload
  <2>3. CASE fetch' = [peer |-> p, blocks |-> ToFetch(h), loop |-> "headers"]
    <3>1. ToFetch(h) \subseteq Heights
      <4>1. \A x \in tip + 1 .. h : x \in Heights
        BY BoundsAssumption DEF AvailInv, Heights
      <4> QED BY <4>1 DEF ToFetch
    <3>2. RequestedOnce'
      BY <2>1, <2>3 DEF RequestedOnce, ToFetch, DownloadInv
    <3>3. FetchInv'
      BY <2>1, <2>3, <3>1 DEF FetchInv
    <3>4. DLInv(dl)'
      BY <2>1 DEF DownloadInv, DLInv, DLType, Downloading
    <3> QED
      BY <2>1, <3>2, <3>3, <3>4 DEF DownloadInv, StallerOwesBlock, TransitLimit
  <2> QED BY <2>1, <2>2, <2>3
<1>5. CASE HeadersRequest
  <2>1. fetch.peer \in Peers /\ UNCHANGED <<mapNodeState, have>>
    BY <1>5 DEF HeadersRequest, DownloadInv, FetchInv, NodeInv, nodeVars, chainVars
  <2>2. dl.nBlocksInFlight[fetch.peer] \in Nat
    BY <2>1 DEF DownloadInv, DLInv, DLType
  <2>3. CASE dl.nBlocksInFlight[fetch.peer] >= MAX_BLOCKS_IN_TRANSIT_PER_PEER
    <3>1. fetch' = NoFetch /\ dl' = dl
      BY <1>5, <2>3 DEF HeadersRequest
    <3>2. DLInv(dl)'
      BY <3>1 DEF DownloadInv, DLInv, DLType, Downloading
    <3> QED
      BY <2>1, <3>1, <3>2 DEF DownloadInv, StallerOwesBlock, TransitLimit,
         RequestedOnce, FetchInv, NoFetch
  <2>4. CASE ~(dl.nBlocksInFlight[fetch.peer] >= MAX_BLOCKS_IN_TRANSIT_PER_PEER)
    <3>1. RequestEarliest /\ fetch.loop /= "none"
      BY <1>5, <2>4 DEF HeadersRequest
    <3>2. dl.nBlocksInFlight[fetch.peer] < MAX_BLOCKS_IN_TRANSIT_PER_PEER
      BY <2>2, <2>4, BoundsAssumption
    <3> QED BY <2>1, <3>1, <3>2, RequestKeepsDownload
  <2> QED BY <2>3, <2>4
<1>6. CASE SendRequest
  <2>1. /\ fetch.peer \in Peers /\ UNCHANGED <<mapNodeState, have>>
        /\ fetch.loop /= "none" /\ RequestEarliest
    BY <1>6 DEF SendRequest, DownloadInv, FetchInv, NodeInv, nodeVars, chainVars
  <2>2. /\ IsFiniteSet(fetch.blocks) /\ Cardinality(fetch.blocks) \in Nat
        /\ fetch.blocks /= {}
    BY <2>1, FiniteSubsets, FS_CardinalityType DEF DownloadInv, FetchInv, RequestEarliest
  <2>3. Cardinality(fetch.blocks) /= 0
    BY <2>2, FS_EmptySet
  <2>4. dl.nBlocksInFlight[fetch.peer] \in Nat
    BY <2>1 DEF DownloadInv, DLInv, DLType
  <2>5. dl.nBlocksInFlight[fetch.peer] < MAX_BLOCKS_IN_TRANSIT_PER_PEER
    BY <1>6, <2>2, <2>3, <2>4, BoundsAssumption DEF SendRequest, DownloadInv, FetchInv
  <2> QED BY <2>1, <2>5, RequestKeepsDownload
<1>7. ASSUME NEW p \in Peers, NEW h \in Heights, NEW b \in BOOLEAN, Block(p, h, b)
      PROVE  DownloadInv'
  <2>1. /\ dl' = MarkBlockAsReceived(dl, h)
        /\ fetch = NoFetch /\ UNCHANGED <<fetch, mapNodeState>>
        /\ have' = have \/ have' = have \union {h}
    BY <1>7 DEF Block, MessageFrom, nodeVars
  <2>2. /\ DLInv(dl')
        /\ dl'.inFlight = [dl.inFlight EXCEPT ![h] = NoPeer]
        /\ \A q \in Peers : dl'.queued[q] = dl.queued[q] \ {h}
        /\ dl'.nStallingSince = dl.nStallingSince \ {q \in Peers : h \in dl.queued[q]}
    BY <2>1, ReceivedKeepsDLInv DEF DownloadInv
  <2>3. dl \in DLType /\ dl' \in DLType
    BY <2>2 DEF DownloadInv, DLInv
  <2>4. /\ \A q \in Peers \ mapNodeState' : dl'.queued[q] = {}
        /\ dl'.nStallingSince \subseteq mapNodeState'
    BY <2>1, <2>2 DEF DownloadInv
  <2>5. StallerOwesBlock'
    BY <2>2, <2>3 DEF DownloadInv, StallerOwesBlock, DLType
  <2>6. TransitLimit'
    <3> SUFFICES ASSUME NEW q \in Peers
                 PROVE  dl'.nBlocksInFlight[q] <= MAX_BLOCKS_IN_TRANSIT_PER_PEER
      BY DEF TransitLimit
    <3>1. /\ dl'.nBlocksInFlight[q] = Cardinality(dl.queued[q] \ {h})
          /\ dl.nBlocksInFlight[q] = Cardinality(dl.queued[q])
      <4>1. DLInv(dl) /\ DLInv(dl') /\ dl'.queued[q] = dl.queued[q] \ {h}
        BY <2>2 DEF DownloadInv
      <4>2. dl'.nBlocksInFlight[q] = Cardinality(dl'.queued[q])
        BY <4>1, Zenon DEF DLInv
      <4>3. dl.nBlocksInFlight[q] = Cardinality(dl.queued[q])
        BY <4>1 DEF DLInv
      <4> QED BY <4>1, <4>2, <4>3
    <3>2. IsFiniteSet(dl.queued[q]) /\ dl.queued[q] \ {h} \in SUBSET dl.queued[q]
      BY <2>3, FiniteSubsets DEF DLType
    <3>3. Cardinality(dl.queued[q] \ {h}) <= Cardinality(dl.queued[q])
      BY <3>2, FS_Subset
    <3>4. dl.nBlocksInFlight[q] <= MAX_BLOCKS_IN_TRANSIT_PER_PEER
      BY DEF DownloadInv, TransitLimit
    <3>5. dl.nBlocksInFlight[q] \in Nat /\ dl'.nBlocksInFlight[q] \in Nat
      BY <2>3 DEF DLType
    <3> QED BY <3>1, <3>3, <3>4, <3>5, BoundsAssumption
  <2>7. RequestedOnce' /\ FetchInv'
    BY <2>1, <2>2, <2>3 DEF DownloadInv, RequestedOnce, FetchInv, NoFetch, DLType, AvailInv
  <2> QED BY <2>2, <2>4, <2>5, <2>6, <2>7 DEF DownloadInv
<1>8. ASSUME NEW p \in Peers, NEW s \in BOOLEAN, NEW e \in BOOLEAN,
             NEW r \in BOOLEAN, SendMessages(p, s, e, r)
      PROVE  DownloadInv'
  BY <1>8, SendKeepsDownload
<1>9. ASSUME NEW p \in Peers, InitializeNode(p) PROVE DownloadInv'
  BY <1>1, <1>9 DEF InitializeNode, chainVars
<1>10. ASSUME NEW p \in Peers, UpdatePreferredDownload(p) PROVE DownloadInv'
  BY <1>1, <1>10 DEF UpdatePreferredDownload, chainVars
<1>11. ASSUME NEW p \in Peers, NEW f \in Heights, NEW h \in Heights,
              UnconnectingHeaders(p, f, h)
       PROVE  DownloadInv'
  BY <1>1, <1>11 DEF UnconnectingHeaders, chainVars, nodeVars
<1>12. ASSUME NEW p \in Peers, Misbehaving(p) PROVE DownloadInv'
  BY <1>1, <1>12 DEF Misbehaving, chainVars
<1>13. CASE LeaveInitialDownload
  BY <1>1, <1>13 DEF LeaveInitialDownload, nodeVars
<1>14. CASE UNCHANGED vars
  BY <1>1, <1>14 DEF vars, nodeVars, chainVars
<1> QED
  BY <1>2, <1>3, <1>4, <1>5, <1>6, <1>7, <1>8, <1>9, <1>10, <1>11, <1>12, <1>13, <1>14
  DEF Next
-----------------------------------------------------------------------------
IInv == NodeInv /\ AvailInv /\ DownloadInv /\ fInitialDownload \in BOOLEAN

(* The inductive invariant holds at start-up. *)
LEMMA InitIInv == Init => IInv
<1> SUFFICES ASSUME Init PROVE IInv
  OBVIOUS
<1> USE DEF Init
<1>1. Cardinality({}) = 0
  BY FS_EmptySet
<1>2. 0 \in Heights
  BY BoundsAssumption DEF Heights
<1>3. NodeInv
  BY <1>1 DEF NodeInv
<1>4. AvailInv
  BY <1>2 DEF AvailInv, LastCommonLinked, NULL, Heights
<1>5. DLInv(dl)
  <2>1. dl \in DLType
    BY DEF DLType
  <2>2. Downloading(dl) = {}
    BY DEF Downloading
  <2> QED BY <1>1, <2>1, <2>2, PeersAssumption, Zenon DEF DLInv
<1>6. StallerOwesBlock /\ TransitLimit /\ RequestedOnce /\ FetchInv
  BY <1>2, BoundsAssumption
  DEF StallerOwesBlock, TransitLimit, RequestedOnce, FetchInv, NoFetch
<1> QED BY <1>3, <1>4, <1>5, <1>6 DEF IInv, DownloadInv

(* Every step of the message handler and socket threads keeps it. *)
LEMMA StepIInv == IInv /\ [Next]_vars => IInv'
<1> SUFFICES ASSUME IInv, [Next]_vars PROVE IInv'
  OBVIOUS
<1>1. NodeInv' /\ AvailInv' /\ DownloadInv'
  BY NodeInvStep, AvailInvStep, DownloadInvStep DEF IInv
<1>2. fInitialDownload' \in BOOLEAN
  <2>1. ASSUME NEW p \in Peers, NEW s \in BOOLEAN, NEW e \in BOOLEAN,
               NEW r \in BOOLEAN, SendMessages(p, s, e, r)
        PROVE  fInitialDownload' = fInitialDownload
    BY <2>1 DEF SendMessages, chainVars
  <2>2. ASSUME NEW p \in Peers, NEW h \in Heights, NEW b \in BOOLEAN,
               Headers(p, h, b) \/ Block(p, h, b) \/ Inv(p, h, b)
        PROVE  fInitialDownload' = fInitialDownload
    BY <2>2, Zenon DEF Headers, Block, Inv, chainVars
  <2> QED
    BY <2>1, <2>2, Zenon DEF IInv, Next, vars, chainVars, InitializeNode, FinalizeNode,
       UpdatePreferredDownload, Misbehaving, UnconnectingHeaders, HeadersRequest,
       SendRequest, LeaveInitialDownload
<1> QED BY <1>1, <1>2 DEF IInv

(* IInv is invariant. *)
LEMMA SpecIInv == Spec => []IInv
  BY InitIInv, StepIInv, PTL DEF Spec

(* The bookkeeping of block download is exact for any number of peers and   *)
(* blocks: nPeersWithValidatedDownloads, nBlocksInFlight,                   *)
(* nBlocksInFlightValidHeaders, nPreferredDownload and nSyncStarted always  *)
(* equal what counting mapBlocksInFlight and the CNodeStates would give.    *)
THEOREM CountersAlwaysMatch == Spec => [](TypeOK /\ CountersMatch)
<1>1. IInv => TypeOK /\ CountersMatch
  <2> SUFFICES ASSUME IInv PROVE TypeOK /\ CountersMatch
    OBVIOUS
  <2>1. fPreferredDownload \in SUBSET Peers /\ fSyncStarted \in SUBSET Peers
    BY DEF IInv, NodeInv
  <2>2. nPreferredDownload \in Nat /\ nSyncStarted \in Nat
    BY <2>1, FiniteSubsets, FS_CardinalityType DEF IInv, NodeInv
  <2>3. dl \in DLType
    BY DEF IInv, DownloadInv, DLInv
  <2>4. TypeOK
    BY <2>2, <2>3 DEF IInv, NodeInv, AvailInv, DownloadInv, FetchInv, DLType, TypeOK
  <2>5. CountersMatch
    BY DEF IInv, NodeInv, DownloadInv, DLInv, Downloading, CountersMatch
  <2> QED BY <2>4, <2>5
<1> QED BY <1>1, SpecIInv, PTL

(* mapBlocksInFlight and the lists of the peers agree and only peers with a *)
(* CNodeState occur in them, so the unchecked State(..) dereferences of     *)
(* MarkBlockAsReceived and of the stalling logic are safe; and the          *)
(* assertions of FinalizeNode hold when the last peer goes.                 *)
THEOREM OnlyLivePeers == Spec => [](InFlightFromLivePeer /\ LastPeerGone)
<1>1. IInv => InFlightFromLivePeer /\ LastPeerGone
  <2> SUFFICES ASSUME IInv PROVE InFlightFromLivePeer /\ LastPeerGone
    OBVIOUS
  <2>1. InFlightFromLivePeer
    BY DEF IInv, DownloadInv, DLInv, InFlightFromLivePeer
  <2>2. ASSUME mapNodeState = {}
        PROVE  /\ \A h \in Heights : dl.inFlight[h] = NoPeer
               /\ nPreferredDownload = 0 /\ dl.nPeersWithValidatedDownloads = 0
    <3>1. \A p \in Peers : dl.queued[p] = {} /\ dl.validated[p] = {}
      BY <2>2 DEF IInv, DownloadInv, DLInv
    <3>2. \A h \in Heights : dl.inFlight[h] = NoPeer
      BY <2>1, <3>1 DEF InFlightFromLivePeer, IInv, DownloadInv, DLInv, DLType
    <3>3. fPreferredDownload = {} /\ Downloading(dl) = {}
      BY <2>2, <3>1 DEF IInv, NodeInv, Downloading
    <3> QED BY <3>2, <3>3, FS_EmptySet DEF IInv, NodeInv, DownloadInv, DLInv
  <2> QED BY <2>1, <2>2 DEF LastPeerGone
<1> QED BY <1>1, SpecIInv, PTL

(* No peer exceeds MAX_BLOCKS_IN_TRANSIT_PER_PEER, with the direct fetches  *)
(* of INV and HEADERS counted, and a peer marked as stalling owes a block.  *)
THEOREM DownloadsAreSafe == Spec => [](TransitLimit /\ StallerOwesBlock)
<1>1. IInv => TransitLimit /\ StallerOwesBlock
  BY DEF IInv, DownloadInv
<1> QED BY <1>1, SpecIInv, PTL

(* A stored block is in flight from nobody, and the loops over vToFetch and *)
(* vToDownload never mark a block that is stored or in flight already.      *)
THEOREM RequestsAreNew == Spec => []RequestedOnce
<1>1. IInv => RequestedOnce
  BY DEF IInv, DownloadInv
<1> QED BY <1>1, SpecIInv, PTL

(* FindNextBlocksToDownload: pindexLastCommonBlock of a peer stays within   *)
(* the active chain and within what the peer has announced, so its window   *)
(* never skips a missing block.                                             *)
THEOREM CommonBlockIsLinked == Spec => []LastCommonLinked
<1>1. IInv => LastCommonLinked
  BY DEF IInv, AvailInv
<1> QED BY <1>1, SpecIInv, PTL

-----------------------------------------------------------------------------
(* What a step does to mapBlocksInFlight.  A step that marks a block as in  *)
(* flight marks one that was not.                                           *)
LEMMA StepKeepsAssignments ==
  ASSUME IInv, [Next]_vars, NEW h \in Heights
  PROVE  dl'.inFlight[h] = dl.inFlight[h] \/ dl.inFlight[h] = NoPeer \/ dl'.inFlight[h] = NoPeer
<1>0. DLInv(dl) /\ dl.inFlight \in [Heights -> Peers \union {NoPeer}]
  BY DEF IInv, DownloadInv, DLInv, DLType
<1> DEFINE Kept == dl'.inFlight[h] = dl.inFlight[h] \/ dl.inFlight[h] = NoPeer \/ dl'.inFlight[h] = NoPeer
<1>1. ASSUME NEW p \in Peers, FinalizeNode(p) PROVE Kept
  <2>1. dl'.inFlight = [b \in Heights |-> IF dl.inFlight[b] = p THEN NoPeer ELSE dl.inFlight[b]]
    BY <1>0, <1>1, ForgetKeepsDLInv, Zenon DEF FinalizeNode
  <2> QED BY <2>1
<1>2. ASSUME NEW p \in Peers, NEW b \in Heights, NEW v \in BOOLEAN, dl.inFlight[b] = NoPeer,
             dl' = MarkBlockAsInFlight(dl, p, b, v)
      PROVE  Kept
  <2>1. /\ DLInv(dl')
        /\ dl'.inFlight = [dl.inFlight EXCEPT ![b] = p]
        /\ dl'.queued = [dl.queued EXCEPT ![p] = @ \union {b}]
        /\ dl'.nBlocksInFlight = [dl.nBlocksInFlight EXCEPT ![p] = @ + 1]
        /\ dl'.nStallingSince = dl.nStallingSince
    BY <1>0, <1>2, InFlightKeepsDLInv
  <2> QED BY <1>0, <1>2, <2>1
<1>3. ASSUME NEW p \in Peers, NEW b \in Heights, NEW f \in BOOLEAN, Inv(p, b, f) PROVE Kept
  <2>1. dl' = dl \/ (dl.inFlight[b] = NoPeer /\ dl' = MarkBlockAsInFlight(dl, p, b, FALSE))
    BY <1>3, Zenon DEF Inv
  <2> QED BY <1>2, <2>1, Zenon
<1>4. ASSUME NEW p \in Peers, NEW b \in Heights, NEW m \in BOOLEAN, Block(p, b, m) PROVE Kept
  <2>1. dl' = MarkBlockAsReceived(dl, b)
    BY <1>4 DEF Block
  <2>2. dl'.inFlight = [dl.inFlight EXCEPT ![b] = NoPeer]
    BY <1>0, <2>1, ReceivedKeepsDLInv
  <2> QED BY <1>0, <2>2
<1>5. ASSUME NEW p \in Peers, NEW s \in BOOLEAN, NEW e \in BOOLEAN, NEW r \in BOOLEAN,
             SendMessages(p, s, e, r)
      PROVE  Kept
  <2>1. dl' = dl \/ \E T : dl' = [dl EXCEPT !.nStallingSince = T]
    BY <1>5, Zenon DEF SendMessages
  <2>2. dl'.inFlight = dl.inFlight
    BY <1>0, <2>1 DEF DLInv, DLType
  <2> QED BY <2>2
<1>6. CASE HeadersRequest \/ SendRequest
  <2>1. dl' = dl \/ (RequestEarliest /\ fetch.loop /= "none")
    BY <1>6 DEF HeadersRequest, SendRequest
  <2>2. ASSUME RequestEarliest, fetch.loop /= "none" PROVE Kept
    <3>1. PICK b \in fetch.blocks : dl' = MarkBlockAsInFlight(dl, fetch.peer, b, TRUE)
      BY <2>2, Zenon DEF RequestEarliest
    <3>2. b \in Heights /\ fetch.peer \in Peers /\ dl.inFlight[b] = NoPeer
      BY <2>2 DEF IInv, NodeInv, DownloadInv, FetchInv, RequestedOnce
    <3> QED BY <1>2, <3>1, <3>2, Zenon
  <2> QED BY <2>1, <2>2
<1>7. ASSUME NEW p \in Peers,
             \/ InitializeNode(p) \/ UpdatePreferredDownload(p) \/ Misbehaving(p)
             \/ \E b, f \in Heights, c \in BOOLEAN : Headers(p, b, c) \/ UnconnectingHeaders(p, f, b)
      PROVE  Kept
  BY <1>7 DEF InitializeNode, UpdatePreferredDownload, Misbehaving, Headers, UnconnectingHeaders
<1>8. CASE LeaveInitialDownload \/ UNCHANGED vars
  BY <1>8 DEF LeaveInitialDownload, vars
<1> QED BY <1>1, <1>3, <1>4, <1>5, <1>6, <1>7, <1>8, Zenon DEF Next

(* MarkBlockAsInFlight and the loops that call it: whatever peers announce, *)
(* deliver or go, a block in flight from one peer is never moved to another *)
(* peer in one step.                                                        *)
THEOREM BlocksAreNotReassigned == Spec => NeverReassigned
<1>1. IInv /\ [Next]_vars =>
        [\A h \in Heights : \/ dl'.inFlight[h] = dl.inFlight[h]
                            \/ dl.inFlight[h] = NoPeer \/ dl'.inFlight[h] = NoPeer]_vars
  BY StepKeepsAssignments
<1> QED BY <1>1, SpecIInv, PTL DEF Spec, NeverReassigned

(* SendMessages disconnects for three reasons: a ban, and two timeouts.  In *)
(* both of these the peer owes a block, because a peer is marked as         *)
(* stalling only while it does.                                             *)
LEMMA StepDisconnectsForCause ==
  ASSUME IInv, [Next]_vars, NEW q \in fDisconnect' \ fDisconnect
  PROVE  dl.queued[q] /= {} \/ q \in fShouldBan \ WhitelistedPeers
<1>1. ASSUME NEW p \in Peers, NEW s \in BOOLEAN, NEW e \in BOOLEAN, NEW r \in BOOLEAN,
             SendMessages(p, s, e, r)
      PROVE  dl.queued[q] /= {} \/ q \in fShouldBan \ WhitelistedPeers
  <2>1. fDisconnect' = IF \/ p \in fDisconnect \union (fShouldBan \ WhitelistedPeers)
                          \/ (p \in dl.nStallingSince /\ s)
                          \/ DownloadLate(p, e)
                       THEN fDisconnect \union {p} ELSE fDisconnect
    BY <1>1, Zenon DEF SendMessages
  <2>2. /\ q = p
        /\ p \in fShouldBan \ WhitelistedPeers \/ p \in dl.nStallingSince \/ DownloadLate(p, e)
    BY <2>1
  <2>3. StallerOwesBlock
    BY DEF IInv, DownloadInv
  <2> QED BY <2>2, <2>3, Zenon DEF StallerOwesBlock, DownloadLate
<1>2. ASSUME NEW p \in Peers,
             \/ InitializeNode(p) \/ FinalizeNode(p) \/ UpdatePreferredDownload(p)
             \/ Misbehaving(p)
             \/ \E b, f \in Heights, c \in BOOLEAN :
                  \/ Inv(p, b, c) \/ Headers(p, b, c) \/ Block(p, b, c)
                  \/ UnconnectingHeaders(p, f, b)
      PROVE  fDisconnect' \subseteq fDisconnect
  BY <1>2, Zenon DEF InitializeNode, FinalizeNode, UpdatePreferredDownload, Misbehaving, Inv,
       Headers, Block, UnconnectingHeaders, nodeVars
<1>3. CASE HeadersRequest \/ SendRequest \/ LeaveInitialDownload \/ UNCHANGED vars
  BY <1>3, Zenon DEF HeadersRequest, SendRequest, LeaveInitialDownload, vars, nodeVars
<1> QED BY <1>1, <1>2, <1>3, Zenon DEF Next

(* SendMessages disconnects a peer only if the peer owes a block or is to   *)
(* be banned and not whitelisted: never one that delivered everything and   *)
(* behaved.                                                                 *)
THEOREM DisconnectsForCause == Spec => DisconnectedForCause
<1>1. IInv /\ [Next]_vars =>
        [\A p \in fDisconnect' \ fDisconnect :
           dl.queued[p] /= {} \/ p \in fShouldBan \ WhitelistedPeers]_vars
  BY StepDisconnectsForCause
<1> QED BY <1>1, SpecIInv, PTL DEF Spec, DisconnectedForCause
=============================================================================
