SPECIFICATION Spec
CONSTANTS
  Blocks = {0, 1, 2, 3}
  Genesis = 0
  NoBlock = NoBlock
  Prev <- MCPrev
  Anc <- MCAnc
  Height <- MCHeight
  MaxFile = 1
  nCheckDepth = 1
  Failures = {"space", "block"}
INVARIANTS
  CoinsMatchBest DataSafe UndoSafe AlwaysRestarts
CHECK_DEADLOCK FALSE
