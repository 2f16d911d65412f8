SPECIFICATION FairSpec
CONSTANTS
  Answers = {"ok", "thin", "refused"}
  Pages = {1, 2, 3}
  Hosts = {"a"}
  HostOf <- MCHostOf
  StoryOf <- MCStoryOf
  RefusingAfter = 2
  RefusingDays = 2
  ProbeEvery = 1
  ProbeLimit = 1
  CrawlLimit = 1
  MaxSameFailures = 2
  Watched = {"a"}
  Syndicated = {3}
  Ruled = {3}
  Revisited = {3}
CHECK_DEADLOCK FALSE
PROPERTY NoStoryLost
PROPERTY SettledKept
PROPERTY RefusedComesBack
