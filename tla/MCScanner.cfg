CONSTANTS
  g0 = g0  g1 = g1  g2 = g2
  a3 = a3  a4 = a4
  b3 = b3  b4 = b4
  none = none  t1 = t1  t2 = t2  s1 = s1
  Block <- MCBlock
  NoBlock = none
  Prev <- MCPrev
  Tx = {t1, t2}
  TxsOf <- MCTxsOf
  Chains <- MCChains
  MinLength = 3
  CacheSize = 3
  NoHeight = none
  MaxU64 = 99
  Sub = {s1}
  Outs <- MCOuts
  TimeLocked = {}
  Requested = 2
  ConfirmationsRequired = 2
  ExpirationIn = 2
  MaxTransfers = 2
SPECIFICATION Spec
INVARIANTS TypeOK NoPaymentLost NoPhantomPayment CountedOnce ConfirmedIsBacked
  ExpiredIsUnpaid PoolPaymentShown
CONSTRAINT Bounded
CHECK_DEADLOCK FALSE
