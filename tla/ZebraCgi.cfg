SPECIFICATION Spec
CONSTANTS
  r1 = r1
  r2 = r2
  Requests = {r1, r2}
  Server = server
  Kinds <- MCKinds
  Limits <- MCLimits
  Situations <- MCSituations
  PipeSize = 2
INVARIANT TypeOK
INVARIANT ContentIsOwn
INVARIANT PageWhole
INVARIANT DescriptorsReturned
INVARIANT GentleKeepsServer
PROPERTY GentleServed
CHECK_DEADLOCK FALSE
