SPECIFICATION Spec
CONSTANT Threads = {main, w1, w2}
CONSTANTS
  Main = main
  Nobody = nobody
  Calls <- MCCalls
  QueueSize = 7
  TmpCmdSize = 2
SYMMETRY Symmetry
INVARIANT TypeOK
PROPERTY ImplementsCommandFifo
PROPERTY TailNeverLaps
PROPERTY LeakFreezesQueue
PROPERTY RunsAheadOnlyMidFrame
CHECK_DEADLOCK FALSE
