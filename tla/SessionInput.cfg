SPECIFICATION FairSpec
CONSTANTS
  Clients = {c1, c2}
  Prompts = {p, q}
  Nudges = {n}
  MaxCalls = 3
  MaxSwitches = 1
  MaxMishaps = 1
INVARIANTS TypeOK EntersOnce AcceptedIsKept
PROPERTIES PromptsInOrder AcceptedIsServed
CHECK_DEADLOCK FALSE
