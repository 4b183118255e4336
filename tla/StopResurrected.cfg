CONSTANTS
  Calls = {}
  MaxGen = 1
  MaxTurns = 1
  MaxCount = 1
  MaxActs = 2
  MaxTrials = 1
SPECIFICATION Spec
INVARIANT StoppedStaysStopped
CHECK_DEADLOCK FALSE
