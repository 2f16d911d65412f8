------------------------------ MODULE MCNight -------------------------------
(* Small instances of a night for TLC.                                       *)
EXTENDS Night

\* A night on which five of the menu's kinds are turned on.
ANight ==
  [discover |-> 1350, pairs |-> 40, audit |-> 0, risks |-> 0,
   findings |-> 0, suspects |-> 25, nest |-> 20, pipeline |-> 0, enrich |-> 75,
   reread |-> 0, recheck |-> 0, enrich_rounds |-> 2,
   rounds |-> 2, dry_rounds |-> 1, backup_every |-> 1]

\* The defaults of defaults_per_night, with one enrich pass, so that two full passes meet
\* the limit of one and a half.
Fixed ==
  [k \in Kind |-> CASE k = "news" -> 1350 [] k = "twins" -> 60 [] k = "duplicates" -> 80
                    [] k = "suspects" -> 25 [] k = "tranches" -> 40 [] k = "enrich" -> 75
                    [] k = "rows" -> 40 [] OTHER -> 0]

Ask(kind, size) == AStep(kind, size, FALSE, "director")
Wishes == {Ask("duplicates", 80), Ask("suspects", 5), Ask("tranches", 5), Ask("enrich", 75),
           Ask("news", 300)}
Plans  == {<<>>} \cup {<<a>> : a \in Wishes} \cup {<<a, b>> : a, b \in Wishes}
SomeNews == {100}
==============================================================================
