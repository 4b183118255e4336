SPECIFICATION FairSpec
CONSTANTS
  Sessions = {a, b, c}
  Main = main
  Side = side
  Thinkers = {a}
  Keepers = {b}
  MaxCap = 2
  MaxEdits = 1
INVARIANTS TypeOK ExcessIsRevoked NobodyWaitsInVain MaintenanceYields SlotsHaveTurns WatchesEnd
PROPERTY DevicesServe
