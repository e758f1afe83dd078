SPECIFICATION Spec
CONSTANTS
  first = first
  second = second
  send = send
  pay = pay
  post = post
  Calls = {first, second}
  Gates = {send, pay, post}
  TaskOf <- MCTaskOf
  Free = Free
  MaxRuns = 5
  MaxRestarts = 1
INVARIANT EachItsOwn
CHECK_DEADLOCK FALSE
