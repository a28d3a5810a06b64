CONSTANTS
  NoPlan = NoPlan
  p1 = p1
  p2 = p2
  Plans = {p1, p2}
  Name <- TwoNames
  Height <- TwoHeights
  MaxWrites = 1
  Heights = {1, 2, 3}
  BufferSize = 2
  MaxChanges = 2
  MaxDirect = 1
  MaxExits = 1
  StartMayFail = TRUE
SPECIFICATION Spec
INVARIANTS SystemInv StopsAtHeight DownOnlyInUpgrade
PROPERTY StopIsFinal
CHECK_DEADLOCK FALSE
