SPECIFICATION Spec
CONSTANTS
  front = front
  back = back
  esp1 = esp1
  esp2 = esp2
  None = None
  Gone = Gone
  Names = {front}
  Devices = {esp1}
  At <- EachItsOwn
  HealthLimit = 1
  ScanLimit = 3
  TestLimit = 2
  PushLimit = 4
  ScanTime = 1
  FakeHealthy = FALSE
  PushTime = 2
  MaxPushes = 2
  MaxGone = 1
INVARIANTS
  TypeOK
  OneCallPerBridge
  InTime
  
