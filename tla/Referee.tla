------------------------------- MODULE Referee -------------------------------
(***************************************************************************)
(* What a director may ask of a night, enforced (tracker/night/referee.py) *)
(* over the menu of steps (tracker/night/steps.py).                        *)
(*                                                                         *)
(* A step is a kind, a size and, for the enrich passes that pick their own *)
(* rows, whether it takes only rows not yet asked about.  The size of a    *)
(* "rows" step is the number of its named rows that still exist and were   *)
(* not asked about today.  Budgets, notes and efforts are left out.        *)
(***************************************************************************)
EXTENDS Integers, Sequences, FiniteSets

CONSTANTS
  Options,   \* the night's options: a record, see steps.py and overnight.py
  Baseline,  \* units a fixed night asks of each kind
  MaxSteps   \* MAX_STEPS: steps a night takes from a director

K(lo, hi, floor, once, choosable) ==
  [lo |-> lo, hi |-> hi, floor |-> floor, once |-> once, choosable |-> choosable]

KINDS ==
  [news       |-> K(300, 2000, 0, TRUE,  FALSE),
   twins      |-> K(60,  60,   0, TRUE,  FALSE),
   free       |-> K(0,   0,    0, FALSE, FALSE),
   duplicates |-> K(10,  80,  20, FALSE, TRUE),
   audit      |-> K(10,  120, 30, FALSE, TRUE),
   risks      |-> K(10,  80,  20, FALSE, TRUE),
   logic      |-> K(0,   120, 60, FALSE, TRUE),
   suspects   |-> K(0,   50,  25, TRUE,  TRUE),
   tranches   |-> K(5,   40,  10, FALSE, TRUE),
   pipeline   |-> K(0,   90,   0, FALSE, TRUE),
   enrich     |-> K(0,   150,  0, FALSE, TRUE),
   rows       |-> K(1,   40,   0, FALSE, TRUE),
   reread     |-> K(0,   360, 180, TRUE, TRUE),
   recheck    |-> K(0,   360, 180, TRUE, TRUE)]

Kind == DOMAIN KINDS
Menu == <<"news", "twins", "free", "duplicates", "audit", "risks", "logic", "suspects",
          "tranches", "pipeline", "enrich", "rows", "reread", "recheck">>

AFTER_DUPLICATES == {"audit", "risks", "logic", "suspects", "tranches", "pipeline",
                     "enrich", "rows"}
AFTER_LOGIC      == {"tranches"}
SELECTING        == {"pipeline", "enrich"}
SELECTING_PASSES == 2
ROWS_STEPS       == 6

Origin == {"fixed", "director", "floor", "frame", "fallback"}
Step   == [kind : Kind, size : Nat, fresh : BOOLEAN, origin : Origin]

\* A step as a director writes it: its kind need not be on the menu.
Wish   == [kind : STRING, size : Nat, fresh : BOOLEAN, origin : STRING]

AStep(kind, size, fresh, origin) ==
  [kind |-> kind, size |-> size, fresh |-> fresh, origin |-> origin]

ASSUME RefereeAssumption ==
  /\ Baseline \in [Kind -> Nat]
  /\ MaxSteps \in Nat
  /\ \A o \in {"discover", "pairs", "audit", "risks", "findings", "suspects", "nest",
               "pipeline", "enrich", "reread", "recheck", "enrich_rounds"} :
       Options[o] \in Nat

------------------------------------------------------------------------------

Least(a, b) == IF a <= b THEN a ELSE b
Most(a, b)  == IF a <= b THEN b ELSE a
Clamp(value, lo, hi) == Most(lo, Least(hi, value))

\* Tonight: units and steps run so far, of a night or of a plan under review.
Tonight == [totals : [Kind -> Nat], passes : [SELECTING -> Nat], rows_steps : Nat, steps : Nat]

Add(t, step) ==
  [totals     |-> [t.totals EXCEPT ![step.kind] = @ + step.size],
   passes     |-> [k \in SELECTING |-> t.passes[k] + (IF k = step.kind THEN 1 ELSE 0)],
   rows_steps |-> t.rows_steps + (IF step.kind = "rows" THEN 1 ELSE 0),
   steps      |-> t.steps + 1]

Allowance(kind) == Most((Baseline[kind] * 3) \div 2, KINDS[kind].floor)

\* The option that turns a kind, and with it the kind's floor, off.
TurnedOff(kind) ==
  \/ kind = "duplicates" /\ Options.pairs = 0
  \/ kind \in {"reread", "recheck", "audit", "risks", "suspects"} /\ Options[kind] = 0
  \/ kind = "tranches" /\ Options.nest = 0
  \/ kind = "logic" /\ Options.findings = 0

FloorOf(kind) == IF TurnedOff(kind) THEN 0 ELSE KINDS[kind].floor

------------------------------------------------------------------------------

(* Mutants: what a bug in one operator would make of it.                     *)

\* A second pass is fresh only if it was asked to be.
TrimmedAsAsked(step, t) ==
  LET kind == KINDS[step.kind]
      size == Clamp(step.size, Most(kind.lo, 1), kind.hi)
      left == Allowance(step.kind) - t.totals[step.kind]
  IN  AStep(step.kind, Least(size, left), step.kind \in SELECTING /\ step.fresh, "director")

\* Each step of a plan is reviewed as if it were the only one.
KeepUncounted(plan, step) == [plan EXCEPT !.kept = Append(@, step)]

------------------------------------------------------------------------------

Refused(step, t) ==
  \/ step.kind \notin Kind
  \/ ~KINDS[step.kind].choosable
  \/ t.steps >= MaxSteps
  \/ KINDS[step.kind].once /\ t.totals[step.kind] > 0
  \/ step.kind = "rows" /\ t.rows_steps >= ROWS_STEPS
  \/ step.size = 0
  \/ t.totals[step.kind] >= Allowance(step.kind)
  \/ step.kind \in SELECTING /\ t.passes[step.kind] >= SELECTING_PASSES

\* review_step of a step that is not refused: its size within the kind's range and what is
\* left of the night's allowance, and a second selecting pass on fresh rows.
Trimmed(step, t) ==
  LET kind == KINDS[step.kind]
      size == Clamp(step.size, Most(kind.lo, 1), kind.hi)
      left == Allowance(step.kind) - t.totals[step.kind]
  IN  AStep(step.kind, Least(size, left),
            step.kind \in SELECTING /\ (step.fresh \/ t.passes[step.kind] > 0),
            "director")

\* A plan under review: the steps kept and what the night will have run after them.
Keep(plan, step) == [kept |-> Append(plan.kept, step), planning |-> Add(plan.planning, step)]

ReviewStep(plan, step) ==
  IF Refused(step, plan.planning) THEN plan ELSE Keep(plan, Trimmed(step, plan.planning))

\* The steps of a plan at the places `at`, in their order.
At(steps, at) ==
  LET taken[I \in SUBSET DOMAIN steps] ==
        [k \in 1..Cardinality(I) |->
           steps[CHOOSE i \in I : Cardinality({j \in I : j <= i}) = k]]
  IN  taken[at]

\* The steps of kind `first` that come after one of `later` move to just before it.
MoveAhead(first, later) ==
  [steps \in Seq(Step) |->
     LET behind == {i \in DOMAIN steps : steps[i].kind \in later}
         at     == CHOOSE i \in behind : \A j \in behind : i <= j
         rest   == at..Len(steps)
         moved  == {i \in rest : steps[i].kind = first}
     IN  IF behind = {} THEN steps
         ELSE At(steps, 1..(at - 1)) \o At(steps, moved) \o At(steps, rest \ moved)]

Order(steps) ==
  LET one == MoveAhead("duplicates", AFTER_DUPLICATES)[steps]
      two == MoveAhead("logic", AFTER_LOGIC)[one]
  IN  MoveAhead("suspects", AFTER_LOGIC)[two]

\* The plan once the steps proposed have been looked at in turn.
Asked(proposed, tonight) ==
  LET asked[i \in 0..Len(proposed)] ==
        IF i = 0 THEN [kept |-> <<>>, planning |-> tonight]
                 ELSE ReviewStep(asked[i - 1], proposed[i])
  IN  asked[Len(proposed)]

\* The floors that the units planned leave short, in the order of the menu. One kind's
\* floor does not count towards another's.
Floors ==
  [planned \in [Kind -> Nat] |->
     LET Short(kind) == FloorOf(kind) - planned[kind]
         Size(kind)  == Clamp(Short(kind), Most(KINDS[kind].lo, 1), KINDS[kind].hi)
     IN  At([i \in DOMAIN Menu |-> AStep(Menu[i], Size(Menu[i]), FALSE, "floor")],
            {i \in DOMAIN Menu : Short(Menu[i]) > 0})]

Review(proposed, tonight, first_round) ==
  LET asked == Asked(proposed, tonight)
  IN  Order(IF first_round THEN asked.kept \o Floors[asked.planning.totals]
                           ELSE asked.kept)

NewsStep(asked) == AStep("news", Clamp(asked, KINDS["news"].lo, KINDS["news"].hi), FALSE, "director")

------------------------------------------------------------------------------

\* fixed_round: the fixed schedule of round `number`, in the order of the menu.
Scheduled(kind, number) ==
  CASE kind \in {"news", "twins"}                -> number = 1 /\ Options.discover > 0
    [] kind \in {"suspects", "reread", "recheck"} -> number = 1 /\ Options[kind] > 0
    [] kind \in SELECTING -> number <= Options.enrich_rounds /\ Options[kind] > 0
    [] OTHER              -> kind # "rows"

FixedSize(kind) ==
  CASE kind = "news"       -> Options.discover
    [] kind = "twins"      -> KINDS[kind].hi
    [] kind = "duplicates" -> Options.pairs
    [] kind = "logic"      -> Options.findings
    [] kind = "tranches"   -> Options.nest
    [] kind \in {"free", "rows"} -> 0
    [] OTHER               -> Options[kind]

FixedStep(kind, number) ==
  AStep(kind, FixedSize(kind), kind \in SELECTING /\ number > 1, "fixed")

\* Of the fixed schedule's steps, those of some kinds.
FixedPart(number, kinds) ==
  At([i \in DOMAIN Menu |-> FixedStep(Menu[i], number)],
     {i \in DOMAIN Menu : Menu[i] \in kinds /\ Scheduled(Menu[i], number)})

FixedRound(number) == FixedPart(number, Kind)
==============================================================================
