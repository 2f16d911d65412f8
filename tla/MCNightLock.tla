----------------------------- MODULE MCNightLock -----------------------------
(* A small instance of the night's lock for TLC.                             *)
EXTENDS NightLock

CONSTANTS r1, r2, r3

ThreeRuns == {r1, r2, r3}
==============================================================================
