CONSTANTS
  c1 = c1
  Callers = {c1}
  Methods = {"start", "stop"}
  MaxProcs = 2
  MaxCalls = 3
  MaxRestarts = 1
  RestartOnFailure = TRUE
  TimersSlow = TRUE
SPECIFICATION FairSpec
PROPERTIES StoppingEnds
CHECK_DEADLOCK FALSE
