SPECIFICATION MixedSpec
CONSTANTS
  Configs <- MCConfigs
  Others <- MCOthers
  None = None
  ExitByMenu = TRUE
  Crashes = TRUE
  WritesFail = TRUE
  EditsRace = FALSE
INVARIANTS OneBlock CleanExit
PROPERTIES OthersKept FailClosedKeeps OpensInTheEnd BlockedWhileDue
