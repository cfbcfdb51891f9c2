SPECIFICATION Spec
CONSTANTS
  InitialParameters <- MCParameters
  ClientCommands <- MCCommands
  Capacity = 8
  CmdTimeout = 1
  MotorTimeout = 2
  MayExit = TRUE
  MaxRequests = 1
  MaxErrors = 1
  MaxLost = 1
CHECK_DEADLOCK FALSE
PROPERTY SpinEnds
PROPERTY ErrorsRead
