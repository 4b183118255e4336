CONSTANTS
  Calls = {c1}
  MaxGen = 2
  MaxTurns = 2
  MaxCount = 2
  Parallel = 1
  MaxStops = 0
SPECIFICATION Spec
INVARIANT UncertainToolInspected
CHECK_DEADLOCK FALSE
