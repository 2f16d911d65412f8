---------------------------- MODULE ExclusiveLock ----------------------------
(***************************************************************************)
(* What the write lock promises: at most one command owns it at a time, a  *)
(* command takes it only when it is free, and a lock left behind by a      *)
(* command that died is freed before anyone takes it again.                *)
(***************************************************************************)
CONSTANTS
  Command,   \* commands that may own the lock
  Nobody     \* no command

VARIABLES
  owner,  \* the command that owns the lock, or Nobody
  left    \* whether a lock without an owner is lying there

Init == owner = Nobody /\ left = FALSE

Acquire(c) ==
  /\ owner = Nobody /\ ~left
  /\ owner' = c
  /\ UNCHANGED left

\* The owner gives the lock up, or dies and leaves it lying.
Leave ==
  /\ owner # Nobody
  /\ owner' = Nobody
  /\ left' \in BOOLEAN

Reclaim ==
  /\ left
  /\ left' = FALSE
  /\ UNCHANGED owner

Next == (\E c \in Command : Acquire(c)) \/ Leave \/ Reclaim

Spec == Init /\ [][Next]_<<owner, left>>
==============================================================================
