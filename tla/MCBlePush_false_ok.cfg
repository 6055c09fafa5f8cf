SPECIFICATION Spec
CONSTANTS
  shelf = shelf
  bar = bar
  None = None
  Tags = {shelf, bar}
  Parts = 2
  MaxPushes = 2
  Settle = FALSE
  Preempt = FALSE
CHECK_DEADLOCK FALSE
INVARIANTS
  OkMeansDelivered
