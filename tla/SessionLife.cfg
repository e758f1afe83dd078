SPECIFICATION Spec
CONSTANTS
  None = None
  Unset = Unset
  Expr <- Expressions
  Env <- Environment
  Odd <- OddChars
  MaxName = 3
  Alphabet <- Characters
  Runs = {r1, r2}
  Boot = Boot
  Scenarios <- AllScenarios
  Overlays <- ManyOverlays
  Threads = {t1, t2, t3, t4}
  limit = 2
SYMMETRY Symmetry
INVARIANTS
  LoadsWhatIsWritten
  EveryNodeHasItsPlace
  ConnectionsOwned
  WarmResume
CHECK_DEADLOCK FALSE
