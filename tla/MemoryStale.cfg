SPECIFICATION Spec
CONSTANTS
  analyst = analyst
  planner = planner
  checker = checker
  Agents = {analyst, planner, checker}
  Keep <- KeepMixed
  Budget = 1
  MaxCalls = 3
  MaxRuns = 2
PROPERTY OlderSummaryCancelled
CHECK_DEADLOCK FALSE
