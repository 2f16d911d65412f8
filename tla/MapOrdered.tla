----------------------------- MODULE MapOrdered ------------------------------
(***************************************************************************)
(* A paid pass's calls to the model, several at a time                     *)
(* (tracker/parallel.py, map_ordered), as the crawl drives it              *)
(* (tracker/ingest/crawl.py: stop asks tracker.spend.ceiling_reached).     *)
(*                                                                         *)
(* Items are numbered in input order.  Every call costs one unit, written  *)
(* to the ledger when it ends, so the ceiling is reached when `ceiling'    *)
(* calls have ended.  The pool's workers take the first item not yet       *)
(* taken whenever one is free, whatever the caller is doing.               *)
(*                                                                         *)
(* Names every specification has carry `Pool' here, so that one module of  *)
(* proofs can extend this one beside Queue.                                 *)
(***************************************************************************)
EXTENDS Integers, Sequences, FiniteSets

CONSTANTS
  Counts,    \* numbers of items a call may be given
  Limits,    \* values of limit, the calls in flight at once
  Ceilings,  \* calls the money is enough for
  MayFail,   \* items whose call may raise
  MayLeave   \* whether the caller may leave the loop early, or be interrupted

ASSUME MapOrderedAssumption ==
  /\ Counts \subseteq Nat \ {0}
  /\ Limits \subseteq Nat /\ Ceilings \subseteq Nat

VARIABLES
  arg,      \* the arguments: how many items, the limit, the ceiling
  state,    \* each item's future
  pc,       \* where the generator, or the caller it yielded to, is
  item,     \* the item it is at
  drop,     \* the next future to cancel, while cancelling
  stopped,  \* its flag of that name
  yielded,  \* what the caller has been given
  outcome   \* how the loop ended

poolVars == <<arg, state, pc, item, drop, stopped, yielded, outcome>>

State == {"queued", "running", "finished", "failed", "cancelled"}

Items    == 1..arg.n
In(s)    == {i \in Items : state[i] \in s}
Serial   == arg.limit <= 1 \/ arg.n <= 1
Workers  == IF arg.limit < arg.n THEN arg.limit ELSE arg.n
Called   == In({"running", "finished", "failed"})
Spent    == Cardinality(In({"finished", "failed"}))
ceiling_reached == Spent >= arg.ceiling

PoolInit ==
  /\ arg \in [n : Counts, limit : Limits, ceiling : Ceilings]
  /\ state = [i \in Items |-> "queued"]
  /\ pc = "next"
  /\ item = 1
  /\ drop = 1
  /\ stopped = FALSE
  /\ yielded = <<>>
  /\ outcome = "none"

------------------------------------------------------------------------------
(* The calls.                                                                *)

\* A free worker takes the first item nobody has taken or cancelled.
Take(i) ==
  /\ ~Serial
  /\ pc # "end"
  /\ state[i] = "queued"
  /\ \A j \in Items : j < i => state[j] # "queued"
  /\ Cardinality(In({"running"})) < Workers
  /\ state' = [state EXCEPT ![i] = "running"]
  /\ UNCHANGED <<arg, pc, item, drop, stopped, yielded, outcome>>

\* The call returns, or raises; it is on the ledger either way.
Return(i) ==
  /\ state[i] = "running"
  /\ \/ state' = [state EXCEPT ![i] = "finished"]
     \/ /\ i \in MayFail
        /\ state' = [state EXCEPT ![i] = "failed"]
  /\ UNCHANGED <<arg, pc, item, drop, stopped, yielded, outcome>>

------------------------------------------------------------------------------
(* The generator.                                                            *)

\* Leaving: the executor's queue is cancelled first (finally); with no
\* executor there is nothing to leave behind.
Leave(how) ==
  /\ outcome' = how
  /\ IF Serial THEN pc' = "end" /\ UNCHANGED drop
     ELSE pc' = "drop" /\ drop' = 1

\* No executor: stop is asked before each call, and the call is made here.
NextSerial ==
  /\ Serial
  /\ pc = "next"
  /\ UNCHANGED <<arg, item, stopped, yielded>>
  /\ IF item > arg.n \/ ceiling_reached
     THEN Leave("done") /\ UNCHANGED state
     ELSE /\ state' = [state EXCEPT ![item] = "running"]
          /\ pc' = "result"
          /\ UNCHANGED <<drop, outcome>>

\* stop is asked before each result is handed over, until it is once true.
NextPooled ==
  /\ ~Serial
  /\ pc = "next"
  /\ UNCHANGED <<arg, state, item, yielded>>
  /\ IF item > arg.n
     THEN Leave("done") /\ UNCHANGED stopped
     ELSE IF ~stopped /\ ceiling_reached
     THEN /\ stopped' = TRUE
          /\ pc' = "stop"
          /\ drop' = 1
          /\ UNCHANGED outcome
     ELSE /\ pc' = "future"
          /\ UNCHANGED <<stopped, drop, outcome>>

\* One future cancelled, which succeeds only for one no worker has taken; the
\* workers run on between two of them.
Cancel ==
  /\ pc \in {"stop", "drop"}
  /\ drop <= arg.n
  /\ state' = IF state[drop] = "queued" THEN [state EXCEPT ![drop] = "cancelled"] ELSE state
  /\ drop' = drop + 1
  /\ UNCHANGED <<arg, pc, item, stopped, yielded, outcome>>

\* Wrong: cancelling ends at the item at hand.
CancelledShort ==
  /\ pc \in {"stop", "drop"}
  /\ drop > item
  /\ pc' = IF pc = "stop" THEN "future" ELSE "shutdown"
  /\ UNCHANGED <<arg, state, item, drop, stopped, yielded, outcome>>

Cancelled ==
  /\ pc \in {"stop", "drop"}
  /\ drop > arg.n
  /\ pc' = IF pc = "stop" THEN "future" ELSE "shutdown"
  /\ UNCHANGED <<arg, state, item, drop, stopped, yielded, outcome>>

\* Wrong: a cancelled item is passed over without moving on.
FutureStays ==
  /\ pc = "future"
  /\ pc' = IF state[item] = "cancelled" THEN "next" ELSE "result"
  /\ UNCHANGED <<arg, state, item, drop, stopped, yielded, outcome>>

\* Wrong: a stopped loop breaks out at the first result not yet in.
FutureBreaks ==
  /\ pc = "future"
  /\ UNCHANGED <<arg, state, item, stopped, yielded>>
  /\ IF stopped /\ state[item] # "finished" THEN Leave("done")
     ELSE pc' = "result" /\ UNCHANGED <<drop, outcome>>

\* A cancelled item is passed over; any other is waited for.
Future ==
  /\ pc = "future"
  /\ IF state[item] = "cancelled" THEN pc' = "next" /\ item' = item + 1
     ELSE pc' = "result" /\ UNCHANGED item
  /\ UNCHANGED <<arg, state, drop, stopped, yielded, outcome>>

Yield ==
  /\ pc = "result"
  /\ state[item] = "finished"
  /\ yielded' = Append(yielded, item)
  /\ pc' = "body"
  /\ UNCHANGED <<arg, state, item, drop, stopped, outcome>>

Raise ==
  /\ pc = "result"
  /\ state[item] = "failed"
  /\ Leave("raised")
  /\ UNCHANGED <<arg, state, item, stopped, yielded>>

\* The executor's own shutdown waits for the calls in flight.
Shutdown ==
  /\ pc = "shutdown"
  /\ In({"queued", "running"}) = {}
  /\ pc' = "end"
  /\ UNCHANGED <<arg, state, item, drop, stopped, yielded, outcome>>

------------------------------------------------------------------------------
(* The caller: it writes the result and asks for the next one, or leaves.    *)

Body ==
  /\ pc = "body"
  /\ pc' = "next"
  /\ item' = item + 1
  /\ UNCHANGED <<arg, state, drop, stopped, yielded, outcome>>

\* Its body breaks or raises, which closes the generator, or it is interrupted
\* while it waits for a worker.
Abandon ==
  /\ MayLeave
  /\ pc = "body" \/ (pc = "result" /\ ~Serial)
  /\ Leave("abandoned")
  /\ UNCHANGED <<arg, state, item, stopped, yielded>>

------------------------------------------------------------------------------
Caller == Body \/ Abandon
Generator ==
  NextSerial \/ NextPooled \/ Cancel \/ Cancelled \/ Future \/ Yield \/ Raise \/ Shutdown
Calls == \E i \in Items : Take(i) \/ Return(i)
PoolNext == Generator \/ Caller \/ Calls

PoolSpec == PoolInit /\ [][PoolNext]_poolVars

\* The generator and the caller's body run on, and every call to the model
\* ends (the client has a timeout).  A free worker takes the next item.
Fairness ==
  /\ WF_poolVars(Generator)
  /\ WF_poolVars(Body)
  /\ WF_poolVars(Calls)

FairPoolSpec == PoolSpec /\ Fairness

------------------------------------------------------------------------------
(* The shapes of the variables.                                              *)
PoolTypeOK ==
  /\ arg \in [n : Counts, limit : Limits, ceiling : Ceilings]
  /\ state \in [Items -> State]
  /\ pc \in {"next", "stop", "future", "result", "body", "drop", "shutdown", "end"}
  /\ item \in 1..arg.n + 1
  /\ drop \in 1..arg.n + 1
  /\ stopped \in BOOLEAN
  /\ yielded \in Seq(Items)
  /\ outcome \in {"none", "done", "raised", "abandoned"}

\* What was paid for is handed over, in the order of the input: a loop that ran
\* to its end gave its caller exactly the results of the calls that were made,
\* and made them all unless the ceiling was reached; one that raised gave it
\* every result before the one that raised.
Given == {yielded[k] : k \in DOMAIN yielded}
NothingPaidIsLost ==
  /\ \A j, k \in DOMAIN yielded : j < k => yielded[j] < yielded[k]
  /\ outcome = "done" => Given = Called /\ (ceiling_reached \/ Called = Items)
  /\ outcome = "raised" => Given = {i \in Called : i < item}

\* Once the queue has been cancelled, for the ceiling or on the way out, no call
\* is started again.
Over == (stopped /\ pc # "stop") \/ pc \in {"shutdown", "end"}
NothingStartsOnceOver ==
  [][Over => \A i \in Items : state[i] \in {"queued", "cancelled"} => state'[i] = state[i]
    ]_poolVars

\* Every loop ends, with its executor shut down.
Ends == <>(pc = "end")

==============================================================================
