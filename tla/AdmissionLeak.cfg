SPECIFICATION Spec
CONSTANTS
  Sessions = {a1, a2, a3}
  Nova = {}
  Watched = {a1, a2, a3}
  Followed = {}
  Limit = 2
  MaxChanges = 1
INVARIANT InterruptedWaiterLeaksNoPermit
CHECK_DEADLOCK FALSE
