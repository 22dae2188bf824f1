SPECIFICATION Spec
CONSTANTS
  Blocks = {0, 1, 2, 3, 5}
  Genesis = 0
  NoBlock = NoBlock
  Prev <- MCPrev
  Anc <- MCAnc
  Height <- MCHeight
  ChainWork <- MCHeight
  Addr <- MCHeight
  CheckBad = {}
  ConnectBad = {5}
  InvalidateBlocks = {1, 2}
  ReconsiderBlocks = {1, 2}
  Threads = {a, b}
  NoThread = NoThread
  StakeThreads = {}
  MIN_BLOCKS_TO_KEEP = 1
  PrunableBlocks = {2, 5}
  MaxSequenceId = 7
INVARIANTS
  LinkedSound UniqueIds
CHECK_DEADLOCK FALSE
