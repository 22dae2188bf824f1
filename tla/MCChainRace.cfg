SPECIFICATION Spec
CONSTANTS
  Blocks = {0, 1, 2, 3}
  Genesis = 0
  NoBlock = NoBlock
  Prev <- MCPrev
  Anc <- MCAnc
  Height <- MCHeight
  ChainWork <- MCHeight
  Addr <- MCHeight
  CheckBad = {}
  ConnectBad = {}
  InvalidateBlocks = {}
  ReconsiderBlocks = {}
  Threads = {a, b}
  NoThread = NoThread
  StakeThreads = {}
  MIN_BLOCKS_TO_KEEP = 10
  PrunableBlocks = {}
  MaxSequenceId = 10
INVARIANT
  BestChainActive
