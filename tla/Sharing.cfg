SPECIFICATION MixedSpec
CONSTANTS
  People = {o, p}
  Owner = o
  Asks = {a1, a2}
  Requests = {q1, q2}
  None = None
  MaxFriends = 1
  MaxPending = 1
  MaxPeople = 1
  MaxText = 2
  MaxOffers = 2
  Topics = {"ties", "roles", "edits", "reading"}
  Modes = {TRUE, FALSE}
  Changing = 1
SYMMETRY Symmetry
INVARIANTS SharingSound CutAtOnce
CHECK_DEADLOCK FALSE
