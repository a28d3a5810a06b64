CONSTANTS
  s1 = s1
  s2 = s2
  w1 = w1
  t1 = t1
  t2 = t2
  p1 = p1
  p2 = p2
  NoPlan = NoPlan
  QueueSize = 1
  Versions = {10, 50}
  MaxCalls = 2
  MaxEdits = 1
  MaxBinds = 1
  MaxInputs = 3
  Feeds = {"config"}
  Subscribers = {s1, s2}
  HeightStoppers = {t1, t2}
  Heights = {5, 6}
  BufferSize = 2
  MaxChanges = 3
  Plans = {p1, p2}
  Name <- TwoNames
  Height <- OneHeight
  Waiters = {w1}
  Stoppers = {t1, t2}
  MaxWrites = 5
  MaxStarts = 1
SPECIFICATION FeedsSpec
INVARIANTS InForceIsValid
CHECK_DEADLOCK FALSE
