\* One engine, one request at any point of four candles.
SPECIFICATION Spec
CONSTANTS
  Readers = {r1}
  Gain = 3
  Loss = 2
  InitialCash = 10
  MaxCandles = 4
INVARIANTS BoundaryReconciles ResponseCoherent NoPositionMissed
CHECK_DEADLOCK FALSE
