CONSTANTS
  InvoiceId = {i1}
  Global = all
  Subscriber = {s1, s2, s3}
  BufferLen = 1
  MaxUpdates = 2
SPECIFICATION Spec
INVARIANT OpenAreKept
CHECK_DEADLOCK FALSE
