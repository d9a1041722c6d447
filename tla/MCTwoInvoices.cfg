CONSTANTS
  g0 = g0
  a1 = a1  a2 = a2
  b1 = b1  b2 = b2
  none = none  t1 = t1  s1 = s1  s2 = s2
  Block <- MCBlock
  NoBlock = none
  Prev <- MCPrev
  Tx = {t1}
  TxsOf <- MCTxsOf
  Chains <- MCChains
  MinLength = 1
  CacheSize = 1
  NoHeight = none
  MaxU64 = 99
  Sub = {s1, s2}
  Outs <- MCOuts
  TimeLocked = {}
  Requested = 1
  ConfirmationsRequired = 1
  ExpirationIn = 2
  MaxTransfers = 2
SPECIFICATION Spec
INVARIANTS NoPaymentLost NoPhantomPayment
CONSTRAINT Bounded
CHECK_DEADLOCK FALSE
