SPECIFICATION FairSpec
CONSTANTS
  p1 = p1  p2 = p2  p3 = p3  b1 = b1
  NoFile = NoFile  Absent = Absent  Empty = Empty  NoOne = NoOne
  Pid <- TwoPids
  Breaker <- OneBreak
  MaxGen = 1
  OtherUser <- NoForeign
  Windows = TRUE
  SlowStat = TRUE
  CrashInGap = TRUE
  Flags <- ForceFlag
PROPERTY CommandsEnd
CHECK_DEADLOCK FALSE
