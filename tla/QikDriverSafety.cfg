SPECIFICATION Spec
CONSTANTS
  InitialParameters <- MCParameters
  ClientCommands <- MCCommands
  Capacity = 3
  CmdTimeout = 1
  MotorTimeout = 2
  MayExit = TRUE
  MaxRequests = 2
  MaxErrors = 0
  MaxLost = 1
INVARIANT TypeOK
INVARIANT Covered
INVARIANT AnswersMatch
CHECK_DEADLOCK FALSE
PROPERTY NoEarlyShutoff
PROPERTY MotorsStop
