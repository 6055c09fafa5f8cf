SPECIFICATION Spec
CONSTANTS
  shelf = shelf
  bar = bar
  coffee = coffee
  tea = tea
  h1 = h1
  h2 = h2
  None = None
  Pattern = Pattern
  Tags = {shelf}
  Items = {coffee, tea}
  Handlers = {h1}
  Editable = {coffee}
  MaxVersion = 2
CHECK_DEADLOCK FALSE
PROPERTIES
  OnlyUsersRemap
