SPECIFICATION Spec
CONSTANTS
  a = a
  b = b
  Output = {a, b}
  Created <- MCCreated
  SpentAt <- MCSpentAt
  PoolSpent = {b}
  MaxHeight = 1
  SYNC_BATCH_SIZE = 2
  Sync = sync
  Request = {r}
  Worker = {w}
  NoThread = NoThread
  NoFile = NoFile
  ExplorerLead = 1
  MaxRequests = 2
  MaxFaults = 1
INVARIANT IndexComplete
