------------------------------- MODULE Claims -------------------------------
(***************************************************************************)
(* The merge engine (tracker/upsert.py): how the claims a campus's         *)
(* citations make about one field are ranked, filtered and resolved, and   *)
(* how its two capacities are made to agree.                               *)
(*                                                                         *)
(* A claim is a record: the page it comes from (a number, which stands for *)
(* the order of URLs), its publisher's domain and weight, when it was      *)
(* fetched and published (0: no date), whether it is quoted (confirmed),   *)
(* ruled out (decided), from a directory (tertiary), about one building    *)
(* (part), stated as a minimum (floor), how precise its date is, whether   *)
(* its sentence reports a stop (stopSaid), and its value. Capacities and   *)
(* days are numbers, and 0 is None: no claim states it and `_mw` takes it  *)
(* for nothing.                                                            *)
(***************************************************************************)
EXTENDS Naturals, Sequences, SequencesExt, FiniteSetsExt

CONSTANTS
  ByPublication, \* Settings.merge_by_publication_date
  STALE_AFTER,   \* how much older a claim may be before its weight stops counting
  YearDays,      \* days in a year of the model's calendar
  HalfDays       \* days in a half year

ASSUME ClaimsAssumption ==
  /\ ByPublication \in BOOLEAN
  /\ {STALE_AFTER, YearDays, HalfDays} \subseteq Nat \ {0}

PHASE_PROGRESSION == <<"announced", "permitting", "construction", "operational">>
PHASE_TERMINAL    == {"paused", "cancelled"}
DEFAULT_PHASE     == "announced"

Rungs   == ToSet(PHASE_PROGRESSION)
Rung(p) == CHOOSE i \in DOMAIN PHASE_PROGRESSION : PHASE_PROGRESSION[i] = p

FIELD_POLICY == [mw_planned |-> "prefer_weight", mw_built |-> "max", phase |-> "phase",
                 first_announced |-> "min", city |-> "fill_only"]
Fields             == DOMAIN FIELD_POLICY
CLAIM_OWNED_FIELDS == Fields \ {"city"}
Empty(field)       == IF field \in {"phase", "city"} THEN "none" ELSE 0

------------------------------------------------------------------------------

(* Ranking.                                                                  *)

Standing(c) == <<c.decided, c.confirmed, c.part, c.tertiary>>

\* A newer claim of the same standing has outdated it; an undated one neither dates nor is.
Stale(c, claims) ==
  c.published # 0 /\ \E d \in claims : Standing(d) = Standing(c)
                                        /\ d.published > c.published + STALE_AFTER

Recency(c) == IF ByPublication /\ c.published # 0 THEN c.published ELSE c.fetched

Bit(b) == IF b THEN 1 ELSE 0

SortKey(c, claims) ==
  <<Bit(~c.decided), Bit(c.confirmed), Bit(~c.part), Bit(~c.tertiary),
    Bit(~Stale(c, claims)), c.weight, Recency(c), c.page>>

Above(k, l) == \E i \in DOMAIN k : k[i] > l[i] /\ \A j \in 1..(i - 1) : k[j] = l[j]

\* rank_claims: strongest first. Two claims of one field come from two pages.
Ranked(claims) ==
  CHOOSE s \in [1..Cardinality(claims) -> claims] :
    \A i, j \in DOMAIN s : i < j => Above(SortKey(s[i], claims), SortKey(s[j], claims))

(* Below, `s` is the ranked claims of one field and `at` some of their places.                *)

\* The better places, as long as one such is left.
IfAny(better, at) == IF better # {} THEN better ELSE at

Undecided(s)     == {i \in DOMAIN s : ~s[i].decided}
Quoted(s, at)    == IfAny({i \in at : s[i].confirmed}, at)
WholeSite(s, at) == IfAny({i \in at : ~s[i].part}, at)
FirstHand(s, at) == IfAny({i \in at : ~s[i].tertiary}, at)

\* Wrong: a directory's figure is as good as a report's.
ContendersAnyone(s, at) == WholeSite(s, Quoted(s, at))

\* Of the claims nobody ruled out, those a merge chooses among: the quoted ones, then those
\* about the whole site, then the first-hand ones, each as long as one such is left.
Contenders(s, at) == FirstHand(s, WholeSite(s, Quoted(s, at)))

------------------------------------------------------------------------------

(* Dates.                                                                    *)

Precision(c) == CASE c.precision = "day" -> 0 [] c.precision = "half" -> 1 [] OTHER -> 2

Days(c) ==
  LET first == IF c.precision = "year" THEN c.value - ((c.value - 1) % YearDays) ELSE c.value
      many  == CASE c.precision = "day" -> 1 [] c.precision = "half" -> HalfDays
                 [] OTHER -> YearDays
  IN  first .. first + many - 1

\* A finer date that the winner's own span holds takes its place, and a finer one in that.
Refined(s, at, winner) ==
  LET Inside(i)   == {j \in at : /\ Precision(s[j]) < Precision(s[i])
                                 /\ Days(s[j]) \subseteq Days(s[i])}
      Earliest(J) == CHOOSE i \in J : \A j \in J : \/ s[i].value < s[j].value
                                                   \/ (s[i].value = s[j].value /\ i <= j)
      Finer(i)    == IF Inside(i) = {} THEN i ELSE Earliest(Inside(i))
  IN  Finer(Finer(winner))

\* The first date stated, as precisely as any claim states it.
First(s, at) ==
  CHOOSE i \in at :
    \A j \in at : \/ s[i].value < s[j].value
                  \/ /\ s[i].value = s[j].value
                     /\ \/ Precision(s[i]) < Precision(s[j])
                        \/ (Precision(s[i]) = Precision(s[j]) /\ i <= j)

------------------------------------------------------------------------------

(* The policies.                                                             *)

\* Quoted first-hand reports of progress, newer than every dated stop.
Progress(s, at, stopped) ==
  {i \in at : /\ s[i].value \in Rungs \ {DEFAULT_PHASE}
              /\ s[i].confirmed /\ ~s[i].tertiary /\ ~s[i].stopSaid
              /\ s[i].published > Max({s[j].published : j \in stopped})}

\* Wrong: two reports of one publisher are enough.
MovingAgainAnyTwo(s, at, stopped) ==
  IF \E i \in stopped : s[i].published = 0 THEN {}
  ELSE LET out == Progress(s, at, stopped)
       IN  IF Cardinality(out) < 2 THEN {} ELSE out

\* Those reports, as long as two publishers make them.
MovingAgain(s, at, stopped) ==
  IF \E i \in stopped : s[i].published = 0 THEN {}
  ELSE LET out == Progress(s, at, stopped)
       IN  IF Cardinality({s[i].domain : i \in out}) < 2 THEN {} ELSE out

\* The furthest stage some claims report.
Furthest(s, at) ==
  PHASE_PROGRESSION[Max({Rung(s[i].value) : i \in {j \in at : s[j].value \in Rungs}})]

Ladder(s, at) ==
  LET stopped == {i \in at : s[i].value \in PHASE_TERMINAL}
      moving  == MovingAgain(s, at, stopped)
  IN  IF stopped = {} THEN Furthest(s, at)
      ELSE IF moving = {} THEN s[Min(stopped)].value ELSE Furthest(s, moving)

\* The value the contenders give; without any, what the row holds.
Choice(policy, s, at, existing) ==
  IF at = {} THEN existing
  ELSE CASE policy = "fill_only" -> IF existing # "none" THEN existing ELSE s[Min(at)].value
         [] policy = "max"       -> Max({s[i].value : i \in at})
         [] policy = "min"       -> s[Refined(s, at, First(s, at))].value
         [] policy = "phase"     -> Ladder(s, at)
         [] OTHER                -> s[Min(at)].value

\* Wrong: a value outlives the claims that stated it.
ResolveFieldKeeps(field, s, at, existing) ==
  Choice(FIELD_POLICY[field], s, Contenders(s, at), existing)

\* A claim-owned field with no live claim is empty, whatever the row held. Both write paths
\* resolve without the ratchet: the row's own value has no vote, except in a field that is only
\* ever filled.
ResolveField(field, s, at, existing) ==
  IF field \in CLAIM_OWNED_FIELDS /\ at = {}
    THEN Empty(field)
    ELSE Choice(FIELD_POLICY[field], s, Contenders(s, at), existing)

------------------------------------------------------------------------------

(* Capacity. `by` gives each field its ranked claims, `live` the places of *)
(* those that count in this merge.                                         *)

CAPACITY_FIELDS == {"mw_planned", "mw_built"}
KILOWATT_RATIO  == <<500, 2000>>
KILOWATT_FLOOR  == 1000

\* An unquoted figure about a thousand times a quoted one is kilowatts: out of this merge.
Misread(by, c) ==
  /\ c.value >= KILOWATT_FLOOR /\ ~c.confirmed
  /\ \E f \in CAPACITY_FIELDS : \E i \in Undecided(by[f]) :
       LET u == by[f][i].value
       IN  /\ by[f][i].confirmed
           /\ KILOWATT_RATIO[1] * u <= c.value /\ c.value <= KILOWATT_RATIO[2] * u

HoldOutKilowatts(by) ==
  [f \in Fields |-> {i \in Undecided(by[f]) : f \in CAPACITY_FIELDS => ~Misread(by, by[f][i])}]

Support(c) == Bit(c.confirmed) + Bit(~c.tertiary)

Strongest(s, at) == IF at = {} THEN 0 ELSE 1 + Max({Support(s[i]) : i \in at})

\* Wrong: a plan below what runs is left.
SettleCapacityHalf(planned, built, by, live) ==
  LET plans  == by["mw_planned"]
      runs   == by["mw_built"]
      excess == {i \in live["mw_built"] : runs[i].value > planned}
      plan   == {i \in live["mw_planned"] : plans[i].value = planned /\ ~plans[i].floor}
  IN  IF planned = 0 \/ built <= planned \/ Strongest(runs, excess) >= Strongest(plans, plan)
        THEN <<planned, built>>
        ELSE <<planned, ResolveField("mw_built", runs, live["mw_built"] \ excess, 0)>>

\* Running never exceeds planned: where it does, the worse supported figure gives way, the
\* plan to the smallest figure that covers what runs and that more than a bare directory line
\* states, the running figure to those the plan covers. A stated minimum never wins.
SettleCapacity(planned, built, by, live) ==
  LET plans    == by["mw_planned"]
      runs     == by["mw_built"]
      excess   == {i \in live["mw_built"] : runs[i].value > planned}
      plan     == {i \in live["mw_planned"] : plans[i].value = planned /\ ~plans[i].floor}
      covering == {i \in live["mw_planned"] : plans[i].value >= built /\ Support(plans[i]) > 0}
      best     == {i \in covering : \A j \in covering : Support(plans[j]) <= Support(plans[i])}
  IN  IF planned = 0 \/ built <= planned THEN <<planned, built>>
      ELSE IF Strongest(runs, excess) < Strongest(plans, plan)
        THEN <<planned, ResolveField("mw_built", runs, live["mw_built"] \ excess, 0)>>
        ELSE <<IF best = {} THEN built ELSE Min({plans[i].value : i \in best}), built>>
=============================================================================
