SPECIFICATION Spec
CONSTANTS
  Clients = {c1, c2}
  Prompts = {p, q}
  Nudges = {n}
  MaxCalls = 2
  MaxSwitches = 0
  MaxMishaps = 0
INVARIANT WithdrawnStaysOut
CHECK_DEADLOCK FALSE
