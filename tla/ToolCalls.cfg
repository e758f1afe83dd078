SPECIFICATION Spec
CONSTANTS
  a = a
  Calls = {c1, c2}
  Keys = {a}
  Patches <- SomePatches
  max_calls = 2
  None = None
  MaxQueue = 1
INVARIANTS
  CallsKept
  CanvasFollows
PROPERTIES
  InvocationEnds
