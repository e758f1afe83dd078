SPECIFICATION Spec
CONSTANTS
  Calls = {read, write}
  Subjects = {files}
  SubjectOf <- MCSubjectOf
  MaxRuns = 3
  MaxTears = 1
  MaxRestarts = 1
  MaxReplays = 1
INVARIANTS
  TypeOK
  OncePerApproval
  OncePerCall
  HostKnowsPause
  ResumeTaken
  FreshRunOwnsItsPause
PROPERTIES
  AnswerDecides
  ApprovalHonoured
CHECK_DEADLOCK FALSE
