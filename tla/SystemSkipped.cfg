CONSTANTS
  NoPlan = NoPlan
  p1 = p1
  p2 = p2
  Plans = {p1}
  Name <- OneName
  Height <- OneHeight
  MaxWrites = 0
  Heights = {1, 2, 3}
  BufferSize = 2
  MaxChanges = 3
  MaxDirect = 1
  MaxExits = 0
  StartMayFail = FALSE
SPECIFICATION Spec
INVARIANT ReachedIsUpgraded
CHECK_DEADLOCK FALSE
