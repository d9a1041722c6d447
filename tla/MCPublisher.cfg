CONSTANTS
  InvoiceId = {i1}
  Global = all
  Subscriber = {s1, s2, s3}
  BufferLen = 1
  MaxUpdates = 2
SPECIFICATION Spec
INVARIANTS TypeOK EveryUpdate
PROPERTY WalkEnds
CHECK_DEADLOCK FALSE
