SPECIFICATION Spec
CONSTANTS
  front = front
  back = back
  esp1 = esp1
  esp2 = esp2
  None = None
  Gone = Gone
  Names = {front, back}
  Devices = {esp1, esp2}
  At <- EachItsOwn
  HealthLimit = 1
  ScanLimit = 2
  TestLimit = 2
  PushLimit = 2
  ScanTime = 1
  FakeHealthy = FALSE
  PushTime = 1
  MaxPushes = 1
  MaxGone = 0
INVARIANT
  HealthIsSeparate
