SPECIFICATION FairSpec
CONSTANTS
  Blocks = {0, 1, 2, 3, 5, 6, 7}
  Genesis = 0
  NoBlock = NoBlock
  Prev <- MCPrev
  Anc <- MCAnc
  Height <- MCHeight
  ChainWork <- MCHeight
  Addr <- MCHeight
  CheckBad = {3}
  ConnectBad = {6}
  InvalidateBlocks = {}
  ReconsiderBlocks = {}
  Threads = {a, b}
  NoThread = NoThread
  StakeThreads = {b}
  MIN_BLOCKS_TO_KEEP = 10
  PrunableBlocks = {}
  MaxSequenceId = 10
INVARIANTS
  LinkedExactly ActiveChainValid CandidatesNotEmpty CandidatesSound
PROPERTY
  CallsReturn
