CONSTANTS
  Calls = {c1}
  MaxGen = 2
  MaxTurns = 2
  MaxCount = 2
  Parallel = 1
  MaxStops = 1
SPECIFICATION Spec
INVARIANTS TypeOK FactsAreOwn SettledHasNoLatch
PROPERTIES LatchHonoured
CHECK_DEADLOCK FALSE
