SPECIFICATION Spec
CONSTANTS
  Items = {1, 2}
  PageLimit = 1
  Overlap = 2
  MaxAttempts = 2
  MaxDelay = 2
  RetryAfters = {1}
  Lag = 0
  Slowest = 2
  MaxTime = 3
INVARIANT
  TypeOK
PROPERTIES
  FullCatalog
  
  
