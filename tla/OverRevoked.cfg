SPECIFICATION Spec
CONSTANTS
  Sessions = {a, b, c}
  Main = main
  Side = side
  Thinkers = {}
  Keepers = {}
  MaxCap = 2
  MaxEdits = 1
PROPERTY RevokesOnlyExcess
