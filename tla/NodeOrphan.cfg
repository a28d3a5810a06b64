CONSTANTS
  c1 = c1
  Callers = {c1}
  Methods = {"start", "stop", "restart"}
  MaxProcs = 3
  MaxCalls = 3
  MaxRestarts = 2
  RestartOnFailure = TRUE
  TimersSlow = TRUE
SPECIFICATION Spec
INVARIANTS StoppedIsNotRunning
CHECK_DEADLOCK FALSE
