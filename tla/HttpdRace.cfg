SPECIFICATION Spec
CONSTANT Clients = {c1, c2}
CONSTANTS
  Free = free
  Methods = {"POST"}
  Settings <- RaceSettings
  MaxFds = 3
  MaxThreads = 2
PROPERTY EveryClientAnswered
CHECK_DEADLOCK FALSE
