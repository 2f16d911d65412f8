SPECIFICATION FairPoolSpec
CONSTANTS
  Counts <- OneToFour
  Limits <- ZeroToThree
  Ceilings <- ZeroToFive
  MayFail = {2, 3}
  MayLeave = TRUE
INVARIANT NothingPaidIsLost
PROPERTY NothingStartsOnceOver
PROPERTY Ends
CHECK_DEADLOCK FALSE
