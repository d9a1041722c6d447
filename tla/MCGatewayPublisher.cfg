CONSTANTS
  c1 = c1  c2 = c2  s1 = s1  s2 = s2
  Caller <- MCCaller
  Runner = {c1}
  Thread = {t1, t2}
  None = None
  InvoiceId = {i1}
  Global = all
  Subscriber <- MCSubscriber
  BufferLen = 1
  Reader <- MCReader
SPECIFICATION GatewayPublisherSpec
INVARIANTS TypeOK AtMostOneScanner NoStrayStops
PROPERTY StopWaits
CHECK_DEADLOCK FALSE
