CONSTANTS
  c1 = c1
  c2 = c2
  Callers = {c1, c2}
  Methods = {"start", "stop", "close"}
  MaxProcs = 3
  MaxCalls = 3
  MaxRestarts = 1
  RestartOnFailure = TRUE
  TimersSlow = TRUE
SPECIFICATION FairSpec
INVARIANTS OneKnownNode
PROPERTIES StopReturns ExitIsHandled ClosedComesToRest
CHECK_DEADLOCK FALSE
