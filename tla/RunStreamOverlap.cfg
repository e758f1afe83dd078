SPECIFICATION Spec
CONSTANTS
  MaxRequests = 2
  Calls = {c1}
  Subs = {s1}
INVARIANT OwnEvents
CHECK_DEADLOCK FALSE
