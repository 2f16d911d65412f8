\* Two runs, so that a cancelled one and its successor overlap; a queue of two and one line,
\* so that the end of a run may find the queue full.
SPECIFICATION RunnerSpec
CONSTANTS
  RunBound = 2
  LineBound = 1
  QueueMax = 2
  IndexLimit = 2
INVARIANT OverlapWasCancelled
INVARIANT RunsRecorded
PROPERTY AllEnd
CHECK_DEADLOCK FALSE
