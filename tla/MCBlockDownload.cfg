SPECIFICATION FairSpec
CONSTANTS
  Peers = {a, b}
  NoPeer = NoPeer
  PreferredPeers = {a}
  ClientPeers = {}
  WhitelistedPeers = {a}
  MaxHeight = 2
  MAX_BLOCKS_IN_TRANSIT_PER_PEER = 1
  BLOCK_DOWNLOAD_WINDOW = 1
  MIN_BLOCKS_TO_KEEP = 1
  AnsweringPeers = {a}
  MisbehavingPeers = {b}
INVARIANTS
  CountersMatch
  InFlightFromLivePeer
  RequestedOnce
  TransitLimit
  LastCommonLinked
PROPERTIES
  DisconnectedForCause
  InFlightResolved
  ChainArrives
