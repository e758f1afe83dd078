SPECIFICATION Spec
CONSTANTS
  Calls = {read, write}
  Subjects = {files}
  SubjectOf <- MCSubjectOf
  MaxRuns = 3
  MaxTears = 0
  MaxRestarts = 0
  MaxReplays = 1
INVARIANT OnceWhileWarm
CHECK_DEADLOCK FALSE
