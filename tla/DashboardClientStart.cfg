\* A runtime that exists already is enough to keep the signal engine from starting.
SPECIFICATION FairSpec
CONSTANTS
  None = None
  Timeout = 1
  MaxClicks = 1
  MaxProgress = 0
INVARIANTS StartReachesEngine
CHECK_DEADLOCK FALSE
