CONSTANTS
  NoPlan = NoPlan
  p1 = p1
  p2 = p2
  Plans = {p1, p2}
  Name <- TwoNames
  Height <- TwoHeights
  MaxWrites = 0
  Heights = {1, 2, 3}
  BufferSize = 2
  MaxChanges = 3
  MaxDirect = 2
  MaxExits = 0
  StartMayFail = FALSE
SPECIFICATION Spec
PROPERTY NotLost
CHECK_DEADLOCK FALSE
