SPECIFICATION FairSpec
CONSTANTS
  Options <- ANight
  Baseline <- Fixed
  MaxSteps = 7
  Director = TRUE
  Proposals <- Plans
  NewsAsks <- SomeNews
INVARIANT PlanKept
INVARIANT OncePerNight
INVARIANT SettledReport
PROPERTY StepsHonoured
PROPERTY NightEnds
CHECK_DEADLOCK FALSE
