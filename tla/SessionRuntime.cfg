CONSTANTS
  Calls = {}
  MaxGen = 1
  MaxTurns = 1
  MaxCount = 1
  MaxActs = 2
  MaxTrials = 2
SPECIFICATION FairSpec
INVARIANTS TypeOK InCharge
PROPERTIES PromptServed WorkResumes LatchConsumed UsesDrains
CHECK_DEADLOCK FALSE
