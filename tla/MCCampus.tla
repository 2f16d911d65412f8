------------------------------ MODULE MCCampus ------------------------------
(* Small instance of Campus: a news report, two pages of one wire service and a directory. *)
EXTENDS Campus

Info(domain, weight, published, tertiary) ==
  [domain |-> domain, weight |-> weight, published |-> published, tertiary |-> tertiary]

MCPageInfo == <<Info("paper", 2, 1, FALSE), Info("wire", 3, 3, FALSE),
                Info("wire", 1, 7, FALSE), Info("directory", 3, 0, TRUE)>>

Says(value) == [value |-> value, quoted |-> TRUE, part |-> FALSE, floor |-> FALSE,
                precision |-> "day", stopSaid |-> FALSE]
SaysStopped         == [Says("paused") EXCEPT !.stopSaid = TRUE]
Unquoted(c)         == [c EXCEPT !.quoted = FALSE]
AtLeast(c)          == [c EXCEPT !.floor = TRUE]
OfOneBuilding(c)    == [c EXCEPT !.part = TRUE]
Within(precision, c) == [c EXCEPT !.precision = precision]

Only(claims)              == [claims |-> claims, tranche |-> NoTranche]
Telling(claims, mw, status) ==
  [claims |-> claims, tranche |-> [mw |-> mw, quoted |-> TRUE, status |-> status]]

MCReadings ==
  <<{Only([phase |-> SaysStopped, mw_planned |-> Says(50), city |-> Says("Ames")]),
     Only([mw_built |-> Says(100)])},
    {Telling([phase |-> Says("construction"), first_announced |-> Within("year", Says(5))],
             50, "planned"),
     Only([mw_built |-> Unquoted(Says(50000)), mw_planned |-> AtLeast(Says(40))])},
    {Only([phase |-> Says("operational"), first_announced |-> Within("half", Says(7)),
           mw_built |-> OfOneBuilding(Says(60))])},
    {Telling([mw_planned |-> Says(80), mw_built |-> Says(120), city |-> Unquoted(Says("Boone"))], 30, "serving")}>>
=============================================================================
