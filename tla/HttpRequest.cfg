SPECIFICATION Spec
CONSTANTS
  Requests <- MCRequests
  LineSize = 4
  PostSize = 4
INVARIANT TypeOK
INVARIANT OneAnswer
INVARIANT BodyHandedOver
INVARIANT PageKeepsServer
PROPERTY RequestEnds
CHECK_DEADLOCK FALSE
