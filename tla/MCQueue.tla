------------------------------ MODULE MCQueue -------------------------------
(* Queue on three pages of one publisher, the last two of one story.       *)
EXTENDS Queue

MCHostOf  == [p \in 1..3 |-> "a"]
MCStoryOf == [p \in 1..3 |-> Min2(p, 2)]
=============================================================================
