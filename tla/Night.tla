-------------------------------- MODULE Night --------------------------------
(***************************************************************************)
(* One night of the quality loop (tracker/overnight.py): rounds of steps,  *)
(* chosen by the fixed schedule or by a director inside the referee's      *)
(* rules, until nothing improves, the money is spent, the time is up, the  *)
(* director stops or something fails; then a settle if the ceiling cut a   *)
(* round short, the losses put back, and the morning report.               *)
(*                                                                         *)
(* The ledger is reduced to whether a ceiling has been reached, and the    *)
(* counts to whether a round lowered one of them.                          *)
(***************************************************************************)
EXTENDS Referee

CONSTANTS
  Director,   \* whether a director chooses the steps tonight
  Proposals,  \* the plans a director may submit: sequences of steps
  NewsAsks    \* the sizes it may ask of the news

ASSUME NightAssumption ==
  /\ Director \in BOOLEAN
  /\ Proposals \subseteq Seq(Wish)
  /\ NewsAsks \subseteq Nat
  /\ {Options.rounds, Options.dry_rounds} \subseteq Nat
  /\ Options.backup_every \in Nat \ {0}

VARIABLES
  phase,     \* "start", "round", "steps", "end"; "done", "refused" and "killed" are final
  round,     \* the round under way
  tonight,   \* units, passes and steps run
  records,   \* how many steps of each kind each round ran
  pending,   \* the steps still to run in this round
  since,     \* the director's steps run since it last checked in
  stopping,  \* the director stopped the night (stop_why)
  endRound,  \* its last plan ends the round
  fellBack,  \* it failed, and the fixed schedule took over
  over,      \* the ledger has reached a ceiling
  capped,    \* a ceiling check ended the rounds
  failed,    \* a snapshot, a count or the loop itself failed
  stale,     \* rounds in a row that lowered no count
  dirty      \* rows changed by a step since the last settle

vars == <<phase, round, tonight, records, pending, since, stopping, endRound, fellBack,
          over, capped, failed, stale, dirty>>
roundVars == <<pending, since, endRound>>
nightVars == <<tonight, records, over, capped, stale>>

CHECK_IN_EVERY == 3
Rounds   == 1..Options.rounds
Directed == Director /\ ~fellBack

Init ==
  /\ phase = "start" /\ round = 1
  /\ tonight = [totals |-> [k \in Kind |-> 0], passes |-> [k \in SELECTING |-> 0],
                rows_steps |-> 0, steps |-> 0]
  /\ records = [k \in Kind |-> [r \in Rounds |-> 0]]
  /\ pending = <<>> /\ since = 0 /\ endRound = FALSE
  /\ stopping = FALSE /\ fellBack = FALSE
  /\ over = FALSE /\ capped = FALSE /\ failed = FALSE
  /\ stale = 0 /\ dirty = FALSE

------------------------------------------------------------------------------

(* Mutants: what a bug in one definition would make of it.                   *)

\* The fixed schedule starts its round over.
FallbackWhole(number, ran) ==
  LET steps == FixedRound(number)
  IN  [i \in DOMAIN steps |-> [steps[i] EXCEPT !.origin = "fallback"]]

------------------------------------------------------------------------------

\* fixed_allowed, of a night a director ran part of.
FixedAllowed(kind) ==
  /\ KINDS[kind].once => tonight.totals[kind] = 0
  /\ kind \in SELECTING => tonight.passes[kind] < SELECTING_PASSES

AsFallback(step) ==
  AStep(step.kind, step.size,
        step.fresh \/ (step.kind \in SELECTING /\ tonight.passes[step.kind] > 0), "fallback")

\* The fixed round's steps a night that lost its director may still run, without those of
\* the kinds in `ran`.
Fallback(number, ran) ==
  LET steps == FixedPart(number, {kind \in Kind \ ran : FixedAllowed(kind)})
  IN  [i \in DOMAIN steps |-> AsFallback(steps[i])]

Frame(number, ask) ==
  (IF Options.discover > 0 /\ number = 1
   THEN <<ask, AStep("twins", 60, FALSE, "frame")>> ELSE <<>>)
  \o <<AStep("free", 0, FALSE, "frame")>>

Ran == {k \in Kind : records[k][round] > 0}

\* Spending only grows: a call may reach the ceiling, and nothing takes it back.
Spend == over' \in {o \in BOOLEAN : over => o}

------------------------------------------------------------------------------
(* Mutants of the check-ins and of the news.                                 *)

\* After a new plan the steps since the last check-in are not counted from zero.
ReplanAtOnce ==
  /\ phase = "steps" /\ Directed /\ ~stopping
  /\ IF pending = <<>> THEN ~endRound ELSE since >= CHECK_IN_EVERY
  /\ Spend
  /\ \E plan \in Proposals, ends \in BOOLEAN :
       LET steps == Review(plan, tonight, round = 1) IN
         /\ pending' = steps
         /\ endRound' = (ends \/ steps = <<>>)
  /\ UNCHANGED <<phase, round, tonight, records, since, capped, stale, stopping, fellBack,
                 failed, dirty>>

\* The news stops at the ceiling and does not say so.
RunNewsQuietly ==
  /\ phase = "steps" /\ pending # <<>> /\ Head(pending).kind = "news"
  /\ tonight' = Add(tonight, Head(pending))
  /\ records' = [records EXCEPT !["news"][round] = @ + 1]
  /\ pending' = Tail(pending)
  /\ dirty' = TRUE
  /\ Spend
  /\ phase' = IF over' THEN "end" ELSE phase
  /\ UNCHANGED <<round, since, endRound, stopping, fellBack, failed, stale, capped>>

------------------------------------------------------------------------------
(* The start of the night and of a round.                                    *)

Start ==
  /\ phase = "start"
  /\ phase' \in {IF Rounds = {} THEN "end" ELSE "round",
                 "refused"}   \* no counts or no snapshot: nothing runs
  /\ UNCHANGED <<round, nightVars, roundVars, stopping, fellBack, failed, dirty>>

OutOfTime ==
  /\ phase = "round"
  /\ phase' = "end"
  /\ UNCHANGED <<round, nightVars, roundVars, stopping, fellBack, failed, dirty>>

BackupFails ==
  /\ phase = "round"
  /\ round > 1 /\ (round - 1) % Options.backup_every = 0
  /\ failed' = TRUE
  /\ phase' = "end"
  /\ UNCHANGED <<round, nightVars, roundVars, stopping, fellBack, dirty>>

FixedStart ==
  /\ phase = "round"
  /\ ~Directed
  /\ pending' = IF Director THEN Fallback(round, {}) ELSE FixedRound(round)
  /\ phase' = "steps" /\ since' = 0 /\ endRound' = TRUE
  /\ UNCHANGED <<round, nightVars, stopping, fellBack, failed, dirty>>

\* The first check-in of a round: a plan, a stop, or a failure that hands the night over.
\* A check-in is a paid call of its own.
DirectedStart ==
  /\ phase = "round"
  /\ Directed
  /\ Spend
  /\ phase' = "steps" /\ since' = 0
  /\ UNCHANGED <<round, tonight, records, capped, stale, failed, dirty>>
  /\ \/ /\ fellBack' = TRUE
        /\ pending' = Fallback(round, {})
        /\ endRound' = TRUE
        /\ UNCHANGED stopping
     \/ /\ UNCHANGED fellBack
        /\ stopping' \in BOOLEAN /\ endRound' \in BOOLEAN
        /\ \E plan \in Proposals,
              news \in {NewsStep(n) : n \in NewsAsks}
                       \cup {AStep("news", Options.discover, FALSE, "fixed")} :
             pending' = Frame(round, news)
                        \o Review(IF stopping' THEN <<>> ELSE plan, tonight, round = 1)

------------------------------------------------------------------------------
(* A check-in after three steps, or when nothing is left to run.             *)

Asks ==
  /\ phase = "steps" /\ Directed /\ ~stopping
  /\ IF pending = <<>> THEN ~endRound ELSE since >= CHECK_IN_EVERY

DirectorFails ==
  /\ Asks
  /\ Spend
  /\ fellBack' = TRUE
  /\ pending' = Fallback(round, Ran)
  /\ since' = 0 /\ endRound' = TRUE
  /\ UNCHANGED <<phase, round, tonight, records, capped, stale, stopping, failed, dirty>>

DirectorStops ==
  /\ Asks
  /\ Spend
  /\ stopping' = TRUE
  /\ pending' = At(pending, {i \in DOMAIN pending : pending[i].origin = "floor"})
  /\ since' = 0 /\ endRound' = TRUE
  /\ UNCHANGED <<phase, round, tonight, records, capped, stale, fellBack, failed, dirty>>

Replan ==
  /\ Asks
  /\ Spend
  /\ since' = 0
  /\ UNCHANGED <<phase, round, tonight, records, capped, stale, stopping, fellBack, failed,
                 dirty>>
  /\ \E plan \in Proposals :
       /\ pending' = Review(plan, tonight, round = 1)
       /\ endRound' \in {ends \in BOOLEAN : pending' = <<>> => ends}

------------------------------------------------------------------------------
(* run_step                                                                  *)

Gated(kind) == kind \notin {"news", "free"}
Next1       == Head(pending)
Runs        == phase = "steps" /\ ~Asks /\ pending # <<>>

\* The ceiling check before a paid step.
Capped ==
  /\ Runs
  /\ Gated(Next1.kind) /\ over
  /\ capped' = TRUE
  /\ phase' = "end"
  /\ UNCHANGED <<round, tonight, records, over, stale, roundVars, stopping, fellBack, failed,
                 dirty>>

Done1 ==
  /\ tonight' = Add(tonight, Next1)
  /\ records' = [records EXCEPT ![Next1.kind][round] = @ + 1]
  /\ pending' = Tail(pending)
  /\ dirty' = TRUE

\* The news discovers and searches, then reads the queue unless that reached the ceiling.
RunNews ==
  /\ Runs
  /\ Next1.kind = "news"
  /\ Done1
  /\ Spend
  /\ \/ over' /\ capped' = TRUE /\ phase' = "end"
     \/ ~over' /\ UNCHANGED <<capped, phase>>
     \/ ~over /\ over' /\ UNCHANGED <<capped, phase>>   \* reached by the reading itself
  /\ UNCHANGED <<round, since, endRound, stopping, fellBack, failed, stale>>

\* A step the director asked for counts towards its next check-in, one of the frame does
\* not.  After the twins the counts are taken again, which may fail.
RunStep ==
  /\ Runs
  /\ Next1.kind # "news"
  /\ Gated(Next1.kind) => ~over
  /\ Done1
  /\ IF Gated(Next1.kind) THEN Spend ELSE UNCHANGED over
  /\ since' = IF Directed /\ KINDS[Next1.kind].choosable THEN since + 1 ELSE since
  /\ \/ UNCHANGED <<phase, failed>>
     \/ Next1.kind = "twins" /\ failed' = TRUE /\ phase' = "end"
  /\ UNCHANGED <<round, endRound, stopping, fellBack, capped, stale>>

\* A bug, a full disk, an error of the director's client: the rounds are lost.
LoopFails ==
  /\ phase = "steps"
  /\ failed' = TRUE
  /\ phase' = "end"
  /\ UNCHANGED <<round, nightVars, roundVars, stopping, fellBack, dirty>>

------------------------------------------------------------------------------
(* The end of a round and of the night.                                      *)

\* settle, the counts, the accuracy check, and whether another round is worth it.
EndRound ==
  /\ phase = "steps" /\ ~Asks /\ pending = <<>>
  /\ dirty' = FALSE
  /\ \/ failed' = TRUE /\ phase' = "end"
        /\ UNCHANGED <<round, stale, fellBack>>
     \/ /\ UNCHANGED failed
        /\ stale' \in {0, stale + 1}
        /\ fellBack' \in {f \in BOOLEAN : f = fellBack \/ Directed}
        /\ \/ phase' = "end" /\ UNCHANGED round
           \/ /\ ~stopping /\ stale' < Options.dry_rounds
              /\ IF round < Options.rounds THEN phase' = "round" /\ round' = round + 1
                                           ELSE phase' = "end" /\ UNCHANGED round
  /\ UNCHANGED <<tonight, records, over, capped, roundVars, stopping>>

EndNight ==
  /\ phase = "end"
  /\ dirty' = (dirty /\ ~capped)
  /\ phase' = "done"
  /\ UNCHANGED <<round, nightVars, roundVars, stopping, fellBack, failed>>

\* The night is told to stop: the command under way ends and no report is written.
Terminated ==
  /\ phase \in {"start", "round", "steps", "end"}
  /\ phase' = "killed"
  /\ UNCHANGED <<round, nightVars, roundVars, stopping, fellBack, failed, dirty>>

Step1 ==
  \/ Start \/ FixedStart \/ DirectedStart \/ DirectorFails \/ DirectorStops \/ Replan
  \/ Capped \/ RunNews \/ RunStep \/ EndRound \/ EndNight

Next == Step1 \/ OutOfTime \/ BackupFails \/ LoopFails \/ Terminated

Spec     == Init /\ [][Next]_vars

\* The loop goes on: the step, check-in or count at hand ends, whichever way it ends.
FairSpec == Spec /\ WF_vars(Step1)

------------------------------------------------------------------------------

TypeOK ==
  /\ phase \in {"start", "round", "steps", "end", "done", "refused", "killed"}
  /\ round \in Nat /\ (phase \in {"round", "steps"} => round \in Rounds)
  /\ tonight \in Tonight
  /\ records \in [Kind -> [Rounds -> Nat]]
  /\ pending \in Seq(Step)
  /\ since \in Nat
  /\ {stopping, endRound, fellBack, over, capped, failed, dirty} \subseteq BOOLEAN
  /\ stale \in Nat

\* Whoever chooses and whatever fails, no selecting enrich pass runs a third time on a night
\* a director had a part in, and a second one runs on fresh rows only.
NoThirdPass == Director => \A k \in SELECTING : tonight.passes[k] <= SELECTING_PASSES

SecondPassFresh ==
  [][\A k \in SELECTING :
       Director /\ tonight.passes[k] > 0 /\ tonight'.passes[k] > tonight.passes[k]
         => Head(pending).fresh]_vars

\* While the director chooses, no kind's units pass the night's allowance, floors and all,
\* however often it plans anew.
AllowanceKept ==
  Directed => \A k \in Kind : KINDS[k].choosable => tonight.totals[k] <= Allowance(k)

\* What is left of a directed round is in a legal order: no step that pays to read a row
\* comes before a duplicate pass that may fold it, no tranche review before the rulings.
PlanOrdered ==
  Directed => \A i, j \in DOMAIN pending : i < j =>
    /\ pending[j].kind = "duplicates" => pending[i].kind \notin AFTER_DUPLICATES
    /\ pending[j].kind \in {"logic", "suspects"} => pending[i].kind \notin AFTER_LOGIC

\* Past round 1 of a night that kept its director, every floor has been run.
FloorsMet ==
  round > 1 /\ Directed => \A k \in Kind : tonight.totals[k] >= FloorOf(k)

\* Once the director has stopped the night, only the frame and floors still run.
StopHonoured ==
  [][stopping /\ Len(pending') < Len(pending)
       => Head(pending).origin = "floor" \/ ~KINDS[Head(pending).kind].choosable]_vars

\* The news and the twins run once a night, a director failing in between or not.
FrameOnce ==
  \A k \in {"news", "twins"}, r, q \in Rounds :
    records[k][r] <= 1 /\ (r # q => records[k][r] = 0 \/ records[k][q] = 0)

\* A floor that is short can be made up without passing the allowance, though a step is at
\* least as long as its kind asks.
Roomy ==
  \A k \in Kind : FloorOf(k) > 0 => FloorOf(k) + Most(KINDS[k].lo, 1) - 1 <= Allowance(k)

\* What a plan, however often revised, still keeps of what the referee promised: the
\* allowance, where a floor has room in it, the order and the floors.
PlanKept == (Roomy => AllowanceKept) /\ PlanOrdered /\ FloorsMet

\* What happens once, or twice at most, a night, whoever is choosing by then.
OncePerNight == TypeOK /\ NoThirdPass /\ FrameOnce

\* A second pass runs on fresh rows only, and a stop lets nothing run that it dropped.
StepsHonoured == SecondPassFresh /\ StopHonoured

\* A night that no failure ended reports on settled rows only.
SettledReport == phase = "done" /\ ~failed => ~dirty

\* Every night comes to its end: no director can plan on for ever.
NightEnds == <>(phase \in {"done", "refused", "killed"})

==============================================================================
