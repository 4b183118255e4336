CONSTANTS
  Keys = {k1}
  Callers = {c1, c2}
  Entries = {e1, e2}
  Fibers = {f1, f2}
  None = None
SPECIFICATION FairSpec
INVARIANTS TypeOK Serialized WakeNotLost StopHolds WaitersHaveADrain
PROPERTIES RunReturns ImplementsDrains
