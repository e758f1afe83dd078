SPECIFICATION Spec
CONSTANTS
  MaxRequests = 2
  Calls = {c1}
  Subs = {s1}
INVARIANTS
  OneResult
  NothingDangles
  InvocationsClosed
  ReleasedIsQuiet
  TurnsKeepEvents
PROPERTY
  ResponseEnds
CHECK_DEADLOCK FALSE
