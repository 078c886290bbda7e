CONSTANTS
  Requests = {q1, q2}
  None = None
  CodeCount = 2
  MaxFailed = 2
  LockTime = 2
  MaxSecrets = 2
  MaxTime = 3
SPECIFICATION BoundedSpec
SYMMETRY Symmetry
INVARIANTS CodesSoundWhenCalm GuessesBounded
CHECK_DEADLOCK FALSE
