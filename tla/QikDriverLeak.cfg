SPECIFICATION Spec
CONSTANTS
  InitialParameters <- MCParameters
  ClientCommands <- MCCommands
  Capacity = 3
  CmdTimeout = 1
  MotorTimeout = 2
  MayExit = FALSE
  MaxRequests = 2
  MaxErrors = 0
  MaxLost = 0
PROPERTY MotorsShutOff
CHECK_DEADLOCK FALSE
