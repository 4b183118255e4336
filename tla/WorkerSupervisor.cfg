SPECIFICATION FairSpec
CONSTANTS
  MaxGens = 2
  MaxRpcs = 2
INVARIANTS TypeOK OrderKept GenerationsDoNotOverlap 
PROPERTY StopReturns
CHECK_DEADLOCK FALSE
