CONSTANTS
  MaxCmds = 2
  MaxQueue = 2
  Segments = 1
  Crash = FALSE
SPECIFICATION Spec
INVARIANT ServerSurvives
CHECK_DEADLOCK FALSE
