\* Two orders of two units; each call may fail, once more than it is retried.
SPECIFICATION OrdersSpec
CONSTANTS
  Quantity = 2
  MaxOrderRetries = 2
  MaxOrders = 2
INVARIANTS RecordIsTrue PlacedOnceReconciles
CHECK_DEADLOCK FALSE
