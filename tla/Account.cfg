SPECIFICATION Spec
CONSTANTS
  Users = {u1}
  Requests = {r1, r2}
  None = None
  Kinds <- AllKinds
  BanCooldown = 1
  MaxTime = 2
  MaxFiled = 4
  MaxRacing = 1
SYMMETRY Symmetry
INVARIANTS CacheCurrent AppealsPaced
PROPERTIES LiftedLawfully
