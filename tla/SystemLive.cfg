CONSTANTS
  NoPlan = NoPlan
  p1 = p1
  p2 = p2
  Plans = {p1}
  Name <- OneName
  Height <- OneHeight
  MaxWrites = 1
  Heights = {1, 2}
  BufferSize = 2
  MaxChanges = 2
  MaxDirect = 0
  MaxExits = 1
  StartMayFail = TRUE
SPECIFICATION FairSpec
PROPERTY UpgradeProgress
CHECK_DEADLOCK FALSE
