SPECIFICATION Spec
CONSTANTS
  Half = 8
  Wide = 32
  CmdTimeout = 2
  MotorTimeout = 4
  Steps = {1, 3}
INVARIANT TypeOK
INVARIANT ShutoffInTime
INVARIANT WaitInTime
CHECK_DEADLOCK FALSE
