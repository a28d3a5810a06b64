CONSTANTS
  v1 = v1
  v2 = v2
  NoPlan = NoPlan
  Plans = {v1, v2}
  Installed = {v1, v2}
  RestartAfterUpgrade = TRUE
  MaxProcs = 3
  MaxCrashes = 0
  Troubles = {{"disk"}}
SPECIFICATION Spec
PROPERTY RollbackToPrevious
CHECK_DEADLOCK FALSE
