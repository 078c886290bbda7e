SPECIFICATION BoundedSpec
CONSTANTS
  Users = {u1}
  Requests = {r1, r2}
  Nothing = Nothing
  Fields = {title, rest}
  Title = title
  Exact = {title}
  Values = {v1, v2}
  Twice = {"import", "accept", "reject"}
  MaxPublished = 3
  MaxUpdates = 3
  MaxEdits = 3
  OverlapEdits = 2
INVARIANTS OnePending InSync
SYMMETRY Symmetry
CHECK_DEADLOCK FALSE
