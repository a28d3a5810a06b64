CONSTANTS
  v1 = v1
  v2 = v2
  NoPlan = NoPlan
  Plans = {v1, v2}
  Installed = {v1, v2}
  RestartAfterUpgrade = TRUE
  MaxProcs = 2
  MaxCrashes = 1
  Troubles = {{}, {"disk"}, {"stubborn"}, {"crash", "disk", "stubborn"}}
SPECIFICATION FairSpec
INVARIANTS ProcessInv DataIsExclusive
PROPERTIES UpgradeEnds
CHECK_DEADLOCK FALSE
