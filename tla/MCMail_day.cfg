SPECIFICATION Spec
CONSTANTS
  ann = ann  p1 = p1  p2 = p2  None = None
  Accounts <- One
  Admins <- OneAdmin
  Signals <- FightAndUndated
  Readings <- Dates
  Sends <- Two
  Attempts = 2
  ReportWindow = 4
  CatchUp = 1
  Background = 2
  NotifyWeight = 3
  PerDay = 2
  Zone <- HalfADayBehind
  Forces <- ForcedOrNot
  LastTick = 3
  Quiet = {FALSE}
  Statuses <- MailedOrDisabled
INVARIANT RepeatOnlyUnrecorded
INVARIANT OneMessageADay
INVARIANT NothingFallsBetween
CHECK_DEADLOCK FALSE
SYMMETRY Alike
