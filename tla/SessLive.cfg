CONSTANTS
  MaxCmds = 2
  MaxQueue = 2
  Segments = 2
  Crash = TRUE
SPECIFICATION FairSpec
INVARIANT TypeOK
PROPERTIES ImplementsService ThreadFreed FirstIsExecuted LossNoticed ListRecovers ListNeverGoesBack
CHECK_DEADLOCK FALSE
