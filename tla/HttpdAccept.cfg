SPECIFICATION Spec
CONSTANT Clients = {c1, c2, c3}
CONSTANTS
  Free = free
  Methods = {"POST", "other"}
  Settings <- MCSettings
  MaxFds = 2
  MaxThreads = 3
INVARIANT TypeOK
INVARIANT AnswersWhoAsked
INVARIANT DescriptorsReturned
PROPERTY OrderlyAnswered
CHECK_DEADLOCK FALSE
