\* One session, stopped by the service while an operator makes any two calls.
SPECIFICATION FairSpec
CONSTANTS
  Operators = {o1}
  Ops = {"connect", "pause", "resume", "emergency_stop", "mark_disconnected", "mark_error", "attempt_reconnect"}
  Candles = 2
  MaxRetries = 1
  Attempts = 2
  MaxSessions = 1
  MaxCalls = 2
INVARIANTS StopDrains EndsForAReason
PROPERTIES EngineEnds StoppedForGood
CHECK_DEADLOCK FALSE
