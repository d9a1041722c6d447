CONSTANTS
  Request = {r1, r2}
  HasLogin = {TRUE, FALSE}
  MaxRequested = 2
  Lengths = {0, 1, 2, 3, 4, 5}
  MaxNonces = 2
  MaxCount = 2
SPECIFICATION Spec
INVARIANTS TypeOK AnswersOwnChallenge EveryHashAskedOnce
PROPERTIES CountsAreNew CallsEnd
CHECK_DEADLOCK FALSE
