\* An emergency stop while another operator reconnects.
SPECIFICATION Spec
CONSTANTS
  Operators = {o1, o2}
  Ops = {"emergency_stop", "mark_disconnected", "attempt_reconnect"}
  Candles = 1
  MaxRetries = 1
  Attempts = 1
  MaxSessions = 1
  MaxCalls = 3
INVARIANT EmergencyStopHolds
CHECK_DEADLOCK FALSE
