SPECIFICATION Spec
CONSTANTS
  Directions <- MCDirections
  NoDir = none
  RepeatPeriod = 1
  MaxInputs = 4
  MaxPosts = 2
  MotorTimeout = 2
  MaxDelay = 1
  MaxLost = 1
INVARIANT TypeOK
INVARIANT RepeatsWhatIsHeld
INVARIANT StopsInTime
PROPERTY HeldIsDriven
CHECK_DEADLOCK FALSE
