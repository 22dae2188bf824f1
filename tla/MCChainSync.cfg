SPECIFICATION Spec
CONSTANTS
  Blocks = {0, 1, 2, 3, 4, 5, 6}
  Genesis = 0
  NoBlock = NoBlock
  Prev <- MCPrev
  Anc <- MCAnc
  Height <- MCHeight
  ChainWork <- MCHeight
  Addr <- MCHeight
  CheckBad = {}
  ConnectBad = {6}
  InvalidateBlocks = {1, 3}
  ReconsiderBlocks = {}
  Threads = {a}
  NoThread = NoThread
  StakeThreads = {}
  MIN_BLOCKS_TO_KEEP = 1
  PrunableBlocks = {1, 5, 6}
  MaxSequenceId = 10
INVARIANTS
  CandidatesComplete BestChainActive FailedHasCause UnlinkedComplete UnlinkedSound
PROPERTY
  StepImproves
CHECK_DEADLOCK FALSE
