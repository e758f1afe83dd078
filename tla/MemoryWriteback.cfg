SPECIFICATION Spec
CONSTANTS
  analyst = analyst
  planner = planner
  checker = checker
  Agents = {analyst, planner, checker}
  Keep <- KeepMixed
  Budget = 1
  MaxCalls = 3
  MaxRuns = 2
PROPERTIES
  NoWorkLost
  NewestCopyWins
  SeenWhole
  MaskedStays
  WritesBackInTime
CHECK_DEADLOCK FALSE
