CONSTANTS
  c1 = c1
  c2 = c2
  Callers = {c1, c2}
  Methods = {"start", "stop", "restart", "close"}
  MaxProcs = 2
  MaxCalls = 3
  MaxRestarts = 1
  RestartOnFailure = TRUE
  TimersSlow = FALSE
SPECIFICATION Spec
INVARIANT NodeInv
PROPERTIES IsNodeService
SYMMETRY CallerSymmetry
CHECK_DEADLOCK FALSE
