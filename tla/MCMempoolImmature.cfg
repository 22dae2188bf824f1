SPECIFICATION Spec
CONSTANTS
  Tx = {"g", "c", "s", "a", "b", "d", "e", "x", "m", "k", "y"}
  Block = {0, 1, 2, 3, 4, 5}
  Root = 0
  Prev <- MCPrev
  Height <- MCHeight
  vtx <- MCvtx
  vin <- MCvin
  vout <- MCvout
  LockTime <- MCLockTime
  CoinBase = {"c"}
  CoinStake = {"s"}
  nCoinbaseMaturity = 2
  nLimitAncestors = 4
  nLimitDescendants = 3
  SizeLimit = 3
  MaxPrioritise = 2
INVARIANT SpendsMatured
