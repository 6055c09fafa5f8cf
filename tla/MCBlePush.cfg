SPECIFICATION Spec
CONSTANTS
  shelf = shelf
  bar = bar
  None = None
  Tags = {shelf, bar}
  Parts = 2
  MaxPushes = 2
  Settle = FALSE
  Preempt = TRUE
CHECK_DEADLOCK FALSE
INVARIANTS
  TypeOK
  RightTag
PROPERTIES
  RequestsEnd
  
