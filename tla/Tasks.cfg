SPECIFICATION BoundedSpec
CONSTANTS
  TaskRequests = {r1, r2}
  Titles = {t1, t2}
  Courses = {c1, c2}
  Full = 2
  Epsilon = 1
  LastDay = 2
  Reviews = 1
  Together = FALSE
  MaxTasks = 3
INVARIANTS  FollowUpsOnce WeightFits
SYMMETRY Symmetry
CHECK_DEADLOCK FALSE
