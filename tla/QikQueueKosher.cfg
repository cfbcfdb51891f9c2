SPECIFICATION Spec
CONSTANT Threads = {main, w1}
CONSTANTS
  Main = main
  Nobody = nobody
  Calls <- MCCalls
  QueueSize = 8
  TmpCmdSize = 2
INVARIANT OutboundKosher
CHECK_DEADLOCK FALSE
