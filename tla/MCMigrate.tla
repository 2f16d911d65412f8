----------------------------- MODULE MCMigrate ------------------------------
(* Migrate with a process that has three migrations, one that has two, and *)
(* one whose checkout says something else of the second.                   *)
EXTENDS Migrate

CONSTANTS p, q, r, t, u

MCKnown == [x \in Processes |-> IF x = q THEN 2 ELSE 3]
MCText  == [x \in Processes |-> [v \in 1..3 |-> IF x = r /\ v = 2 THEN u ELSE t]]
=============================================================================
