----------------------------- MODULE MCIdentity -----------------------------
(* Small instance of Identity: one county and a town of it, two spellings of one company. *)
EXTENDS Identity

Rec(company, city, county) == [company |-> company, city |-> city, county |-> county]

MCRecords ==
  <<{Rec(Other, None, "story"), Rec(Other, "ames", "story")},
    {Rec(Main, "ames", None)}>>
=============================================================================
