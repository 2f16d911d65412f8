SPECIFICATION Spec
CONSTANTS
  p1 = p1  p2 = p2  p3 = p3  b1 = b1
  NoFile = NoFile  Absent = Absent  Empty = Empty  NoOne = NoOne
  Pid <- ThreePids
  Breaker <- OneBreak
  MaxGen = 1
  OtherUser <- NoForeign
  Windows = FALSE
  SlowStat = FALSE
  CrashInGap = FALSE
  Flags <- StopFlags
SYMMETRY Alike
INVARIANT MutualExclusion
PROPERTY ImplementsLock
PROPERTY OwnedLockLeftAlone
CHECK_DEADLOCK FALSE
