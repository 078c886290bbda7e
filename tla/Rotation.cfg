CONSTANTS
  None = None
  Users = {u1}
  Sessions = {s1}
  Refreshers = {r1, r2}
  Revokers = {v1}
  Killers = {k1}
  Logins = {l1}
  Guards = {g1, g2}
  CacheTtl = 1
  MaxCachedUsers = 1
  GraceWindow = 1
  MaxGraceEntries = 1
  RefreshTtl = 2
  AccessTtl = 2
  Retention = 1
  CommitsMayBeLost = FALSE
  MaxTime = 2
  MaxToken = 3
  MaxVersion = 1
SPECIFICATION MixedSpec
SYMMETRY Symmetry
INVARIANTS RotationsLawful StalenessBounded
PROPERTIES RevokedStaysRevoked ImplementsChain
CHECK_DEADLOCK FALSE
