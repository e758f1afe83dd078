SPECIFICATION Spec
CONSTANTS
  first = first
  second = second
  send = send
  pay = pay
  post = post
  Calls = {first, second}
  Gates = {send, pay, post}
  TaskOf <- MCTaskOf
  Free = Free
  MaxRuns = 5
  MaxRestarts = 1
INVARIANTS
  TypeOK
  OneAtATime
  OncePerCard
  OwnTask
  PlaceKept
PROPERTY
  StepSettles
CHECK_DEADLOCK FALSE
