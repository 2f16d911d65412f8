----------------------------- MODULE MCWriteLock -----------------------------
(* Small instances of the write lock for TLC; MCWriteLock*.cfg choose them.  *)
EXTENDS WriteLock, TLC

CONSTANTS p1, p2, p3, b1

TwoPids    == {p1, p2}
ThreePids  == {p1, p2, p3}
OneBreak   == {b1}
NoFlag     == {"none"}
StopFlags  == {"none", "stop_process"}
ForceFlag  == {"force"}
NoForeign  == {}

Alike == Permutations(Pid)
==============================================================================
