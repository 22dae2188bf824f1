SPECIFICATION QueueSpec
CONSTANTS
  Check = {1, 2, 3, 4}
  Bad = {1}
  Worker = {w1, w2}
  Master = m
  nBatchSize = 2
INVARIANTS
  QueueTypeOK IdleBetweenBlocks
PROPERTIES
  VerdictRight WaitReturns
