CONSTANTS
  c1 = c1  c2 = c2
  Caller <- MCCaller
  Backends = {"sqlite"}
  DiskFails = FALSE
  major_index = 1
  MinAvailable = 2
  MaxMinor = 2
  Heights = {1, 2}
  MaxInvoices = 2
  MaxLives = 1
SPECIFICATION Spec
SYMMETRY Symmetry
CONSTRAINT Small
CHECK_DEADLOCK FALSE
PROPERTY FlushPersists
