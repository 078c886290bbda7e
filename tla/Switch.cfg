CONSTANTS
  None = None
  Users = {u1}
  Sessions = {s1, s2}
  Refreshers = {r1}
  Revokers = {}
  Killers = {k1, k2}
  Logins = {l1}
  Guards = {}
  CacheTtl = 1
  MaxCachedUsers = 1
  GraceWindow = 1
  MaxGraceEntries = 1
  RefreshTtl = 2
  AccessTtl = 1
  Retention = 1
  CommitsMayBeLost = TRUE
  MaxTime = 0
  MaxToken = 2
  MaxVersion = 1
SPECIFICATION FairEnding
INVARIANTS KillSwitchCuts MemoryWithinLimit
PROPERTIES RequestsAnswered
CHECK_DEADLOCK FALSE
