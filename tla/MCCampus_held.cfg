CONSTANTS
  Pages = {1, 2, 3, 4}
  PageInfo <- MCPageInfo
  Readings <- MCReadings
  RuledOn = {"phase", "mw_planned"}
  OpBound = 4
  ByPublication = TRUE
  STALE_AFTER = 3
  YearDays = 4
  HalfDays = 2
SPECIFICATION Spec
CHECK_DEADLOCK FALSE
INVARIANT Derived
INVARIANT RunningWithinStatedPlan
INVARIANT OneReportRestartsNothing
PROPERTY WeakNeverDisplaces
PROPERTY RulingStands
PROPERTY NothingLostQuietly
