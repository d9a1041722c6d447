CONSTANTS
  c1 = c1  c2 = c2
  Caller <- MCCaller
  Backends = {"memory", "sled", "sqlite"}
  DiskFails = TRUE
  major_index = 1
  MinAvailable = 2
  MaxMinor = 2
  Heights = {1, 2}
  MaxInvoices = 2
  MaxLives = 1
SPECIFICATION Spec
INVARIANTS TypeOK OneInvoicePerSubaddress NoIndexLeaks NeverRunsDry Subscribable
  CheckerCovers
PROPERTIES StorePromise FlushKeeps
SYMMETRY Symmetry
CONSTRAINT Small
CHECK_DEADLOCK FALSE
