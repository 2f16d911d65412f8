------------------------------- MODULE Campus -------------------------------
(***************************************************************************)
(* One campus on the write path: the citations it holds, what each of them *)
(* claims, and the row derived from them (tracker/upsert.py), through      *)
(* readings and re-readings of its articles, a second record of the same   *)
(* reading, a merge that brings another copy of a page, rulings on a claim *)
(* or on a page's tranches (conflicts.py, blocks.py), and the morning's    *)
(* restore of what a night lost (losses.py).                               *)
(*                                                                         *)
(* Every operation is one transaction that ends with the row re-derived    *)
(* from all citations. A page describes at most one tranche, named and not *)
(* nested in another; events, obstacles, parties and notes are left out.   *)
(***************************************************************************)
EXTENDS Claims

CONSTANTS
  Pages,     \* the pages, numbers: url_identity is their identity
  PageInfo,  \* each page's weight, domain, publication day and kind
  Readings,  \* what reading a page may give: claims and a tranche
  RuledOn,   \* the fields an operator rules on (bound)
  OpBound    \* operations (bound)

BLOCK_STATUS_TO_PHASE ==
  [planned |-> "announced", construction |-> "construction", serving |-> "operational"]

NoTranche == [mw |-> 0, quoted |-> FALSE, status |-> "none"]

\* What may be stated of a field; that a figure is a minimum is read of capacities only.
Value(f) == CASE f = "phase" -> Rungs \union PHASE_TERMINAL
              [] f = "city"  -> STRING
              [] OTHER       -> Nat \ {0}
Stateable(f, c) == c.value \in Value(f) /\ (c.floor => f \in CAPACITY_FIELDS)
Placeable(t)    == t.mw \in Nat /\ (t # NoTranche => t.status \in DOMAIN BLOCK_STATUS_TO_PHASE)

ASSUME CampusAssumption ==
  /\ Pages \subseteq Nat /\ OpBound \in Nat
  /\ \A p \in Pages :
       /\ {PageInfo[p].weight, PageInfo[p].published} \subseteq Nat
       /\ \A reading \in Readings[p] :
            /\ DOMAIN reading.claims \subseteq Fields
            /\ \A f \in DOMAIN reading.claims : Stateable(f, reading.claims[f])
            /\ Placeable(reading.tranche)

VARIABLES
  cites,    \* page -> the citation's claims, its tranche and the ruling on that
  fetched,  \* the pages cited, the latest fetched last
  row,      \* field -> the value the campus holds
  night,    \* the snapshot the night took: row and citations, or none
  ops       \* operations so far

vars == <<cites, fetched, row, night, ops>>

NoNight == [row |-> <<>>, cites |-> <<>>]
Cited   == DOMAIN cites
Rulings == {"superseded", "misread"}   \* DECIDED_REASONS

With(f, k, v) == [x \in DOMAIN f \union {k} |-> IF x = k THEN v ELSE f[x]]

------------------------------------------------------------------------------

(* Deriving the row.                                                         *)

\* Where a page stands among the pages cited.
Place(at, p) == CHOOSE n \in DOMAIN at : at[n] = p

\* A stored claim as the merge engine sees it.
ClaimOf(cs, at, p, f) ==
  LET c == cs[p].claims[f]
      i == PageInfo[p]
  IN  [page |-> p, domain |-> i.domain, weight |-> i.weight, tertiary |-> i.tertiary,
       published |-> i.published, fetched |-> Place(at, p),
       value |-> c.value, confirmed |-> ~c.flagged, decided |-> c.ruling # "none",
       part |-> c.part, floor |-> c.floor, precision |-> c.precision,
       stopSaid |-> c.stopSaid]

ClaimsOn(cs, at, f) ==
  {ClaimOf(cs, at, p, f) : p \in {q \in DOMAIN cs : f \in DOMAIN cs[q].claims}}

ClaimsByField(cs, at) == [f \in Fields |-> Ranked(ClaimsOn(cs, at, f))]

\* The pages whose tranche stands: none ruled another campus's.
Described(cs) == {p \in DOMAIN cs : cs[p].tranche # NoTranche /\ ~cs[p].struck}

TrancheSum(cs, live) ==
  MapThenSumSet(LAMBDA p : cs[p].tranche.mw,
    {p \in Described(cs) : cs[p].tranche.quoted /\ (live => cs[p].tranche.status = "serving")})

\* The pages whose tranche may raise the campus above the claims' own stage, of which `deciding`
\* are those that decided it.
LiftingBlocks(cs, stage, deciding) ==
  LET Serving(p) == cs[p].tranche.status = "serving"
      Corrected(p) == /\ "phase" \in DOMAIN cs[p].claims /\ ~Serving(p)
                      /\ cs[p].claims["phase"].ruling = "misread"
      stops      == {c.published : c \in {d \in deciding : d.value \in PHASE_TERMINAL}} \ {0}
      Newer(p)   == stops # {} /\ PageInfo[p].published > Max(stops)
  IN  {p \in Described(cs) : /\ ~Corrected(p)
                             /\ stage \in PHASE_TERMINAL => Serving(p) \/ Newer(p)}

Height(stage) == IF stage \in Rungs THEN Rung(stage) ELSE 0

\* raise_phase, by the furthest of the tranches that may lift.
SettledPhase(cs, stage, deciding) ==
  LET from == {BLOCK_STATUS_TO_PHASE[cs[p].tranche.status] :
                 p \in LiftingBlocks(cs, stage, deciding)}
      top  == Max({Height(s) : s \in from})
  IN  IF from # {} /\ top > Height(stage) THEN PHASE_PROGRESSION[top] ELSE stage

\* The tranches fill a capacity nothing states; what only they say runs stops at the plan.
Fill(cs, planned, built) ==
  LET plan   == IF planned = 0 THEN TrancheSum(cs, FALSE) ELSE planned
      summed == TrancheSum(cs, TRUE)
      runs   == IF plan # 0 /\ summed > plan THEN plan ELSE summed
  IN  <<plan, IF built = 0 THEN runs ELSE built>>

\* resolve for every field, of the claims that count in this merge.
Chosen(by, live, held) == [f \in Fields |-> ResolveField(f, by[f], live[f], held[f])]

Derive(cs, by, live, chosen) ==
  LET stage    == IF chosen["phase"] = "none" THEN DEFAULT_PHASE ELSE chosen["phase"]
      deciding == {by["phase"][i] : i \in Contenders(by["phase"], live["phase"])}
      agreed   == SettleCapacity(chosen["mw_planned"], chosen["mw_built"], by, live)
      filled   == Fill(cs, agreed[1], agreed[2])
  IN  [mw_planned |-> filled[1], mw_built |-> filled[2],
       phase |-> SettledPhase(cs, stage, deciding),
       first_announced |-> chosen["first_announced"], city |-> chosen["city"]]

\* recompute_from_sources, and the same steps in upsert_record: resolve every field, settle the
\* capacities, then let the tranches fill what is empty and cap what only they filled.
Recompute(cs, at, held) ==
  LET by   == ClaimsByField(cs, at)
      live == HoldOutKilowatts(by)
  IN  Derive(cs, by, live, Chosen(by, live, held))

\* The held relationship `invariants.enforce` refuses a write for.
Breaks(r) == r.mw_planned # 0 /\ r.mw_built > r.mw_planned

Init ==
  /\ cites = <<>> /\ fetched = <<>> /\ night = NoNight /\ ops = 0
  /\ row = [mw_planned |-> 0, mw_built |-> 0, phase |-> DEFAULT_PHASE,
            first_announced |-> 0, city |-> "none"]

Step == ops < OpBound /\ ops' = ops + 1

Write(cs, at) == cites' = cs /\ fetched' = at /\ row' = Recompute(cs, at, row)

\* A write that keeps the relationships, or is rolled back whole.
WriteEnforced(cs, at) ==
  IF Breaks(Recompute(cs, at, row)) THEN UNCHANGED <<cites, fetched, row>> ELSE Write(cs, at)

------------------------------------------------------------------------------

(* Reading an article.                                                       *)

\* A claim as it is stored: with its quote or not, unconfirmed or not, and what was ruled.
Stored(c, quoted, flagged, ruling) ==
  [value |-> c.value, quoted |-> quoted, flagged |-> flagged, ruling |-> ruling,
   part |-> c.part, floor |-> c.floor, precision |-> c.precision, stopSaid |-> c.stopSaid]

Fresh(c, ruling) == Stored(c, c.quoted, ~c.quoted \/ ruling # "none", ruling)

Citation(claims, tranche, struck) == [claims |-> claims, tranche |-> tranche, struck |-> struck]

\* The citation a first reading of a page, or another row's copy of it, amounts to.
AsRead(reading) ==
  Citation([f \in DOMAIN reading.claims |-> Fresh(reading.claims[f], "none")],
           reading.tranche, FALSE)

\* Wrong: a re-read forgets what was ruled.
CarriedNothing(old, reading) == [f \in DOMAIN reading.claims |-> "none"]

\* The rulings a re-read carries over, for the fields it still claims.
Carried(old, reading) ==
  [f \in DOMAIN reading.claims |->
     IF f \in DOMAIN old.claims THEN old.claims[f].ruling ELSE "none"]

\* Wrong: everything that is not repeated goes.
OmittedNothing(old, reading, holds) == {}

\* What a re-read did not repeat though it was quoted and the article still says it.
OmittedQuietly(old, reading, holds) ==
  {f \in CLAIM_OWNED_FIELDS \intersect DOMAIN old.claims :
     f \notin DOMAIN reading.claims /\ old.claims[f].quoted /\ f \in holds}

\* The claim as it was, with its ruling if one was made.
AsHeld(c) == Stored(c, TRUE, c.ruling \in Rulings, c.ruling)

Reinstate(now, old, names) ==
  Citation([f \in DOMAIN now.claims \union names |->
              IF f \in names THEN AsHeld(old.claims[f]) ELSE now.claims[f]],
           now.tranche, now.struck)

\* The citation that replaces an older reading of the page.
Reread(old, reading, holds) ==
  LET carried == Carried(old, reading)
      read    == [f \in DOMAIN reading.claims |-> Fresh(reading.claims[f], carried[f])]
  IN  Reinstate(Citation(read, reading.tranche, old.struck), old,
                OmittedQuietly(old, reading, holds))

FetchedLast(p) ==
  Append(IF p \in Cited THEN RemoveAt(fetched, Place(fetched, p)) ELSE fetched, p)

\* `holds`: the fields whose stored sentence the article still contains; none, for a caller
\* that does not have the article. A cached page keeps its place.
Ingest(p, reading, holds, cached) ==
  /\ Step
  /\ IF p \in Cited
       THEN WriteEnforced(With(cites, p, Reread(cites[p], reading, holds)),
                          IF cached THEN fetched ELSE FetchedLast(p))
       ELSE ~cached /\ WriteEnforced(With(cites, p, AsRead(reading)), FetchedLast(p))
  /\ UNCHANGED night

\* fold_reading and _Citation.write: the first reading stands except where it has nothing to
\* stand on, a decided claim is never taken over, and a ruling on the tranches, which is not
\* about a claimed field, is not written back.
Absorb(into, other) ==
  LET Takes(f) == \/ f \notin DOMAIN into.claims
                  \/ /\ into.claims[f].ruling = "none" /\ into.claims[f].flagged
                     /\ ~other.claims[f].flagged
  IN  Citation([f \in DOMAIN into.claims \union DOMAIN other.claims |->
                  IF f \in DOMAIN other.claims /\ Takes(f) THEN other.claims[f]
                                                          ELSE into.claims[f]],
               IF into.tranche = NoTranche THEN other.tranche ELSE into.tranche, FALSE)

\* A second record of the reading under way that lands on this row too.
FoldReading(p, reading) ==
  /\ Step /\ p \in Cited /\ Last(fetched) = p
  /\ WriteEnforced(With(cites, p, Absorb(cites[p], AsRead(reading))), fetched)
  /\ UNCHANGED night

\* A merge folds a row away: its copy of a page cited here is absorbed, its other pages move.
\* A ruling may stand on the copy.
MergeIn(p, reading, ruled) ==
  LET copied == [f \in DOMAIN reading.claims |->
                   Fresh(reading.claims[f], IF f = ruled THEN "superseded" ELSE "none")]
      copy   == Citation(copied, reading.tranche, FALSE)
  IN  /\ Step
      /\ Write(With(cites, p, IF p \in Cited THEN Absorb(cites[p], copy) ELSE copy),
               IF p \in Cited THEN fetched ELSE <<p>> \o fetched)
      /\ UNCHANGED night

------------------------------------------------------------------------------

(* Rulings.                                                                  *)

\* conflicts.supersede with the recompute its callers make: the quote stays on the claim.
Supersede(p, f, reason) ==
  /\ Step /\ p \in Cited /\ f \in DOMAIN cites[p].claims
  /\ LET c     == cites[p].claims[f]
         ruled == With(cites[p].claims, f, Stored(c, c.quoted, TRUE, reason))
     IN  Write(With(cites, p, Citation(ruled, cites[p].tranche, cites[p].struck)), fetched)
  /\ UNCHANGED night

\* blocks.rule_out: the page's tranches are not this campus's.
RuleOut(p) ==
  /\ Step /\ p \in Described(cites)
  /\ Write(With(cites, p, Citation(cites[p].claims, cites[p].tranche, TRUE)), fetched)
  /\ UNCHANGED night

------------------------------------------------------------------------------

(* A night's losses.                                                         *)

Snapshot ==
  /\ Step /\ night = NoNight /\ cites # <<>>
  /\ night' = [row |-> row, cites |-> cites]
  /\ UNCHANGED <<cites, fetched, row>>

\* losses.find: the values set at the snapshot and empty now, and for each a citation that
\* quoted it, is still on the row and does not claim it now.
Lost ==
  {f \in CLAIM_OWNED_FIELDS \ {"phase"} : night.row[f] # Empty(f) /\ row[f] = Empty(f)}

Sayers(f) ==
  {p \in DOMAIN night.cites \intersect Cited : /\ f \in DOMAIN night.cites[p].claims
                                               /\ night.cites[p].claims[f].quoted
                                               /\ f \notin DOMAIN cites[p].claims}

\* losses.restore, in one savepoint a row, undone if it breaks a held relationship. `still`:
\* the pages whose article still states what they stated.
Restore(still) ==
  /\ Step /\ night # NoNight
  /\ LET found == {f \in Lost : Sayers(f) \intersect still # {}}
         Names(p) == {f \in found : p = Min(Sayers(f) \intersect still)}
         cs == [p \in Cited |-> IF Names(p) = {} THEN cites[p]
                                 ELSE Reinstate(cites[p], night.cites[p], Names(p))]
     IN  found # {} /\ WriteEnforced(cs, fetched)
  /\ UNCHANGED night

Next ==
  \/ \E p \in Pages : \E reading \in Readings[p] :
       \/ \E holds \in {{}, Fields}, cached \in BOOLEAN : Ingest(p, reading, holds, cached)
       \/ FoldReading(p, reading)
       \/ \E ruled \in (DOMAIN reading.claims \intersect RuledOn) \union {"none"} :
            MergeIn(p, reading, ruled)
  \/ \E p \in Pages, f \in RuledOn, reason \in Rulings : Supersede(p, f, reason)
  \/ \E p \in Pages : RuleOut(p)
  \/ Snapshot
  \/ \E still \in SUBSET Pages : Restore(still)

Spec == Init /\ [][Next]_vars

------------------------------------------------------------------------------

(* Properties.                                                               *)

Live(p, f) == p \in Cited /\ f \in DOMAIN cites[p].claims /\ cites[p].claims[f].ruling = "none"

LiveValues(f) == {cites[p].claims[f].value : p \in {q \in Pages : Live(q, f)}}

\* A claim that is quoted and first-hand; one that is also about the whole site; and one that
\* is no mere minimum either.
Reported(p, f)      == Live(p, f) /\ ~PageInfo[p].tertiary /\ ~cites[p].claims[f].flagged
ReportedWhole(p, f) == Reported(p, f) /\ ~cites[p].claims[f].part
Strong(p, f)        == ReportedWhole(p, f) /\ ~cites[p].claims[f].floor

\* Every variable has its type.
TypeOK ==
  /\ Cited \subseteq Pages /\ ToSet(fetched) = Cited /\ Len(fetched) = Cardinality(Cited)
  /\ \A p \in Cited : \A f \in DOMAIN cites[p].claims :
       cites[p].claims[f].ruling \in Rulings \union {"none"}
  /\ row.phase \in Rungs \union PHASE_TERMINAL
  /\ {row.mw_planned, row.mw_built, row.first_announced} \subseteq Nat
  /\ ops \in 0..OpBound

\* Every claim-owned value is stated by a claim nobody ruled out, or by the tranches that may
\* fill it: no value outlives its evidence.
Stated ==
  /\ row.mw_planned \in {0, TrancheSum(cites, FALSE)} \union LiveValues("mw_planned")
                        \union LiveValues("mw_built")
  /\ row.mw_built \in {0, TrancheSum(cites, TRUE)} \union LiveValues("mw_built")
     \/ row.mw_built = row.mw_planned
  /\ row.first_announced \in {0} \union LiveValues("first_announced")
  /\ row.phase \in {DEFAULT_PHASE} \union LiveValues("phase")
                   \union {BLOCK_STATUS_TO_PHASE[cites[p].tranche.status] : p \in Described(cites)}

\* What is stored is what the citations imply: deriving the row again changes nothing.
Settled == Recompute(cites, fetched, row) = row

\* The row is its citations': stated by them, and unmoved by deriving it again.
Derived == TypeOK /\ Stated /\ Settled

\* The claims of a plan that count: not ruled out, and not held out as kilowatts.
StatedPlans == HoldOutKilowatts(ClaimsByField(cites, fetched))["mw_planned"]

\* Running never exceeds planned where a claim that counts states the plan.
RunningWithinStatedPlan == StatedPlans # {} => ~Breaks(row)

\* A campus reported stopped goes on only by two publishers' quoted reports, or a tranche.
OneReportRestartsNothing ==
  LET reports == {p \in Pages : Strong(p, "phase")}
      stops   == {p \in reports : cites[p].claims["phase"].value \in PHASE_TERMINAL}
  IN  stops # {} /\ row.phase \in Rungs =>
        \/ Cardinality({PageInfo[p].domain : p \in reports \ stops}) >= 2
        \/ \E p \in Described(cites) : BLOCK_STATUS_TO_PHASE[cites[p].tranche.status] = row.phase

\* By quoted first-hand reports what runs, of the site or of a building, is within what the
\* whole site plans, and no such plan is a mere minimum.
PlanUndisputed ==
  \A p \in Cited : ReportedWhole(p, "mw_planned") =>
    /\ Strong(p, "mw_planned")
    /\ \A q \in Cited : Reported(q, "mw_built") =>
         cites[q].claims["mw_built"].value <= cites[p].claims["mw_planned"].value

\* A new page that only claims without a quote or at second hand moves no value that a quoted
\* first-hand report of the whole site states; a plan, as long as no such report disputes it.
WeakNeverDisplaces ==
  [][\A p \in Pages : \A reading \in Readings[p] :
       /\ p \notin Cited
       /\ cites' = With(cites, p, AsRead(reading))
       /\ PageInfo[p].tertiary \/ \A f \in DOMAIN reading.claims : ~reading.claims[f].quoted
       => \A f \in CLAIM_OWNED_FIELDS :
            /\ f = "phase" => reading.tranche = NoTranche
            /\ f = "mw_planned" => PlanUndisputed
            /\ (\E q \in Cited : Strong(q, f) /\ cites[q].claims[f].value = row[f])
            => row'[f] = row[f]]_vars

\* A ruling on a claim stands as long as the citation makes the claim, through re-readings,
\* folds, merges and restores; and a quoted one is not lost while the article has its sentence.
RulingStands ==
  [][\A p \in Cited : \A f \in DOMAIN cites[p].claims :
       cites[p].claims[f].ruling # "none" /\ f \in DOMAIN cites'[p].claims
         => cites'[p].claims[f].ruling # "none"]_vars

\* A re-read that repeats less takes no quoted claim away while the article still makes it,
\* and so leaves no day unknown that was known.
NothingLostQuietly ==
  [][\A p \in Cited : \A reading \in Readings[p] :
       cites' = With(cites, p, Reread(cites[p], reading, Fields)) =>
         /\ \A f \in CLAIM_OWNED_FIELDS \intersect DOMAIN cites[p].claims :
              cites[p].claims[f].quoted => f \in DOMAIN cites'[p].claims
         /\ row.first_announced # 0 /\ "first_announced" \notin DOMAIN reading.claims
              /\ (\A q \in Cited : Live(q, "first_announced")
                                     => cites[q].claims["first_announced"].quoted)
              => row'.first_announced # 0]_vars

=============================================================================
