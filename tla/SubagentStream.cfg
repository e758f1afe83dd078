SPECIFICATION Spec
CONSTANTS
  lead = lead
  aide = aide
  Entry = Entry
  Agents = {lead, aide}
  Caller <- CallerChain
  Browser <- LeadsSecond
  Chat = Chat
  None = None
  MaxInvocations = 1
  MaxCalls <- CallsEach
  MaxMessages = 2
  MaxErrors = 2
  MaxRuns = 2
  MaxSays = 1
  Backlog = 0
INVARIANTS
  TypeOK
  ToldAsItIs
  PauseTold
PROPERTIES
  KeepsPromise
  InnermostFirst
CHECK_DEADLOCK FALSE
