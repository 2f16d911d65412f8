---------------------------- MODULE MCMapOrdered -----------------------------
(* Small instances of the ordered pool for TLC.                              *)
EXTENDS MapOrdered

OneToFour  == 1..4
ZeroToThree == 0..3
ZeroToFive == 0..5
==============================================================================
