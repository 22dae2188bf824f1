SPECIFICATION BlockSpec
CONSTANTS
  Tx = {"a", "c", "d", "t", "u", "s", "v", "w", "x"}
  NoCoins = NoCoins
  NoEntry = NoEntry
  Outputs = {0, 1}
  Heights = {1, 2, 3}
  Block = {0, 1, 2, 3, 4, 5, 6, 7, 8, 9, 10}
  Genesis = 0
  NoBlock = NoBlock
  Prev <- MCPrev
  Chain <- MCChain
  Height <- MCHeight
  vtx <- MCvtx
  vin <- MCvin
  vout <- MCvout
  CoinBase = {"a", "c", "d"}
  CoinStake = {"s"}
  nCoinbaseMaturity = 1
  Reward <- MCReward
  WorkSubsidy <- MCSubsidy
  StakeSubsidy <- MCSubsidy
  NoUndo = NoUndo
INVARIANTS
  FreshIsNew CoinsAreReplay UndoFits VerifyReconnects
PROPERTIES
  ImplementsMap
