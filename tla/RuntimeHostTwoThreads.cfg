\* Pause and resume before the old thread has noticed.
SPECIFICATION Spec
CONSTANTS
  Endpoints = {"start", "pause", "resume"}
  DatasetSizes = {2}
  MaxRequests = 3
  MaxSessions = 2
INVARIANT OneCandleAtATime
CHECK_DEADLOCK FALSE
