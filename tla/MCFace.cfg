SPECIFICATION Spec
CONSTANTS
  TTFWidth <- SumOfRunes
  NameLengths = {0, 6}
  Cents <- SomeCents
  TitleWidths = {2, 4, 6}
  MaxLines = {0, 2}
  Width = 4
  Height = 2
  PanelH = 3
  MaxInk = 2
  Degrees <- SomeDegrees
  SrcWidths = {0, 5}
  Scales = {50, 100}
  Offsets <- SmallOffsets
INVARIANTS
  TypeOK
  TitleReads
  PriceReads
  InkArrives
  ShownAsSent
