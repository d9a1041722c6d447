CONSTANTS
  g0 = g0  g1 = g1  g2 = g2
  a3 = a3  a4 = a4  a5 = a5
  b2 = b2  b3 = b3  b4 = b4  b5 = b5  b6 = b6
  c4 = c4  c5 = c5
  none = none
  Block <- MCBlock
  NoBlock = none
  Prev <- MCPrev
  Tx = {}
  TxsOf <- MCTxsOf
  Chains <- MCChains
  MinLength = 3
  CacheSize = 3
SPECIFICATION FairSpec
INVARIANTS TypeOK WindowOnChain ReportExact
PROPERTIES HeightMonotone CatchesUp
CHECK_DEADLOCK FALSE
