SPECIFICATION Spec
CONSTANTS
  shelf = shelf
  bar = bar
  None = None
  Tags = {shelf, bar}
  Parts = 2
  MaxPushes = 3
  Settle = TRUE
  Preempt = FALSE
CHECK_DEADLOCK FALSE
INVARIANTS
  OkMeansDelivered
  
  
