SPECIFICATION Spec
CONSTANT Workers = {w1, w2, w3}
CONSTANTS
  Directions <- MCDirections
  OtherWord = other
  NoToken = null
SYMMETRY Symmetry
INVARIANT TypeOK
INVARIANT UndisturbedObeyed
CHECK_DEADLOCK FALSE
