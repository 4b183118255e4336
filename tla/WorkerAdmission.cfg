SPECIFICATION FairSpec
CONSTANTS
  Sessions = {n1, n2, a1, a2, a3}
  Nova = {n1, n2}
  Watched = {a1}
  Followed = {n1, a1}
  Limit = 4
  MaxChanges = 2
INVARIANTS TypeOK LanesMatchDrains NobodyWaitsInVain NovaHasALane YieldHandsOver
PROPERTY ForegroundServed
