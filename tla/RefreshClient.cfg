SPECIFICATION BoundedSpec
CONSTANTS
  Tabs = {t1, t2}
  None = None
  Sessions <- TwoSessions
  Owner <- TwoAccounts
  GraceWindow = 0
  HasLocks = TRUE
  LateStrays = FALSE
  Crossing = FALSE
  MaxRotations = 2
  MaxLost = 1
  MaxTime = 1
SYMMETRY Symmetry
INVARIANTS SessionKept WritesAreOwn NobodyWaitsInVain
PROPERTIES OnlyEndedSignedOut
CHECK_DEADLOCK FALSE
