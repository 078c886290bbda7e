CONSTANTS
  None = None
  Ids = {i1, i2}
  Requests = {q1, q2}
  Stale = 1
  MaxPlanned = 1
  MaxSession = 2
  MaxBackdate = 2
  FutureTolerance = 1
  HeatmapTtl = 2
  MaxDistractions = 1
  MaxTime = 3
SPECIFICATION BoundedSpec
SYMMETRY Symmetry
INVARIANTS NoOverlapWhenCalm SoundWhenCalm NoGhostHours
PROPERTIES ClosedStaysClosed
CHECK_DEADLOCK FALSE
