SPECIFICATION MixedSpec
CONSTANTS
  Editors = {e1, e2}
  Accounts = {e1}
  Leavers = {e2}
  Visible = {e1}
  None = None
  MaxText = 2
  MaxLife = 2
  MaxVersion = 3
INVARIANTS SavedIsStored
PROPERTIES NothingOverwrittenUnseen LockHolds FollowsThePad
CHECK_DEADLOCK FALSE
