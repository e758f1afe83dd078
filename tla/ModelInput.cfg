SPECIFICATION Spec
CONSTANTS
  analyst = analyst
  checker = checker
  Agents = {analyst, checker}
  Mcp = {"s___read", "s___find"}
  Brief = {"reed"}
  Tools <- ToolsApart
  Asked <- AskedFor
  Keep <- KeepMixed
  CachesByHand = {analyst}
  Budget = 8
  Trigger = 8
  KeepLast = 1
  Step = 2
  MaxTasks = 3
  MaxCalls = 3
  MaxRuns = 2
INVARIANTS
  SentIsValid
  MemoryKept
PROPERTY PrefixStays
CHECK_DEADLOCK FALSE
