SPECIFICATION BoundedSpec
CONSTANTS
  Users = {u1, u2, u3}
  TurmaRequests = {r1, r2}
  Nobody = Nobody
  Paths = {f1}
  Founder = u1
  MaxMembers = 3
  Racing = {"leave", "transfer", "get", "join"}
  MaxJoins = 3
  MaxContent = 1
INVARIANTS OneDelegate NothingLeftBehind
PROPERTIES ChargeRestored
CHECK_DEADLOCK FALSE
