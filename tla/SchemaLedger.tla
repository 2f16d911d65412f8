---------------------------- MODULE SchemaLedger ----------------------------
(***************************************************************************)
(* What the migrations promise whoever opens the database: the schema is   *)
(* at some version, and moves up one whole version at a time.              *)
(***************************************************************************)
EXTENDS Naturals, Sequences

CONSTANT Texts  \* what a migration's file may say

VARIABLE ledger  \* the text applied for version 1, 2, ...

Init == ledger = <<>>

Apply(t) == ledger' = Append(ledger, t)

Next == \E t \in Texts : Apply(t)

Spec == Init /\ [][Next]_ledger
=============================================================================
