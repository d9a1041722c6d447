CONSTANTS
  Caller = {c1, c2, c3}
  Runner = {c1}
  Thread = {t1, t2, t3}
  None = None
SPECIFICATION Spec
PROPERTY StatusReturns
CHECK_DEADLOCK FALSE
