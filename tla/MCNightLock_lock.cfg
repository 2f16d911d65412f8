\* Three starts, so that one may take the lock between two steps of another's takeover; two
\* of them may be killed, with their loops or without.
SPECIFICATION FairLockSpec
CONSTANTS
  r1 = r1  r2 = r2  r3 = r3
  NoDir = NoDir  NoPid = NoPid
  Run <- ThreeRuns
  MaxKills = 2
  Hangs = FALSE
INVARIANT OneHolder
INVARIANT NeverBoth
PROPERTY StartsAgain
CHECK_DEADLOCK FALSE
