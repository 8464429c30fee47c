CONSTANTS
  MaxCmds = 1
  MaxQueue = 2
  Segments = 2
  Crash = FALSE
SPECIFICATION FairSpec
PROPERTY LongListShown
CHECK_DEADLOCK FALSE
