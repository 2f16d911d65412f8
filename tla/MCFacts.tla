------------------------------- MODULE MCFacts -------------------------------
(* Two campuses and one citation for TLC.                                    *)
EXTENDS Facts, TLC

CONSTANTS a, b, s1, v1, v2

Campuses  == {a, b}
Citations == {s1}
Values    == {v1, v2}

Alike == Permutations(Campuses) \cup Permutations(Values)
==============================================================================
