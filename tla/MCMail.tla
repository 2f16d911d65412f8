------------------------------- MODULE MCMail -------------------------------
(* A small instance of the morning's mail for TLC; MCMail_*.cfg chooses it.  *)
EXTENDS Mail, TLC

CONSTANTS ann, p1, p2

One == <<ann>>
OneAdmin == {ann}

\* An old fight. Cited from an article of long before it was stored, only "stored since the
\* last email" admits it; from one dated ahead of the send, it is old until that day comes.
Fight == [project |-> "c1", kind |-> "obstacle_opened", label |-> "permitting", happened |-> -6]
\* The same obstacle in an article without a date: reported on the day it is stored.
Undated == [Fight EXCEPT !.happened = None]
FightAndUndated == {Fight, Undated}
From(date) == [published |-> date, weight |-> 4]
Dates == (Fight :> <<From(-3), From(1)>>) @@ (Undated :> <<From(None)>>)
HalfADayBehind == -1
ForcedOrNot == BOOLEAN
Two == {p1, p2}
Alike == Permutations(Sends)
MailedOrDisabled == {"mailed", "disabled"}
=============================================================================
