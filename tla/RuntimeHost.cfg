\* Every endpoint, up to three threads on one session.
SPECIFICATION FairSpec
CONSTANTS
  Endpoints = {"start", "pause", "resume", "stop", "replay"}
  DatasetSizes = {0, 2}
  MaxRequests = 4
  MaxSessions = 2
INVARIANTS CandlesAccounted RunningIsDriven
PROPERTIES DiscardedSettles ResumeTakesEffect
CHECK_DEADLOCK FALSE
