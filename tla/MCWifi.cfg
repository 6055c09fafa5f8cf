SPECIFICATION Spec
CONSTANTS
  shop = shop
  empty = empty
  key = key
  lock = lock
  None = None
  Names = {shop, empty}
  Keys = {key, lock}
  Unusable = {empty}
  MaxRetries = 10
INVARIANTS
  TypeOK
  GivesUpLate
  KeepsTrying
  StoredAsAsked
PROPERTIES
  BootEnds
