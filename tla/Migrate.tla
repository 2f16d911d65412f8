------------------------------ MODULE Migrate -------------------------------
(***************************************************************************)
(* The migrations (tracker/db.py: run_migrations, _apply and the two       *)
(* context managers around it). Every writing command and the deployer run *)
(* them as they start, so several processes may find the same ones         *)
(* pending. SQLite gives one writer at a time and a transaction that holds *)
(* its schema changes; a process may die anywhere, and a statement, or the *)
(* check of foreign keys after the last, may fail.                         *)
(***************************************************************************)
EXTENDS Integers, Sequences, FiniteSetsExt

CONSTANTS
  Processes,   \* each with a checkout of its own
  Versions,    \* migrations that exist, 1 up
  Known,       \* how many of them each process's checkout has
  Texts,       \* what a migration's file may say
  Text,        \* what it says in each process's checkout
  Rebuilds,    \* migrations that ask for foreign keys off
  Statements,  \* statements of a migration (bound)
  StartBound,  \* starts of all processes (bound)
  None

ASSUME MigrateAssumption ==
  /\ Versions \in Nat /\ Known \in [Processes -> 0..Versions]
  /\ Text \in [Processes -> [1..Versions -> Texts]] /\ None \notin Texts \cup Processes
  /\ Rebuilds \subseteq 1..Versions /\ Statements \in Nat \ {0} /\ StartBound \in Nat

VARIABLES
  record,  \* schema_version: the text each version was applied with
  schema,  \* the statements the database has committed, in order
  writer,  \* the process in a transaction
  pc,      \* where each process stands
  seen,    \* the versions each process holds for applied
  now,     \* the migration each process is at
  txn,     \* the statements its open transaction has run
  keys,    \* whether its connection enforces foreign keys
  starts

vars == <<record, schema, writer, pc, seen, now, txn, keys, starts>>
database == <<record, schema>>

Over == {"idle", "done", "failed", "dead"}

Init ==
  /\ record = [v \in 1..Versions |-> None] /\ schema = <<>> /\ writer = None
  /\ pc = [p \in Processes |-> "idle"] /\ seen = [p \in Processes |-> {}]
  /\ now = [p \in Processes |-> 0] /\ txn = [p \in Processes |-> <<>>]
  /\ keys = [p \in Processes |-> TRUE] /\ starts = 0

Applied == {v \in 1..Versions : record[v] # None}

\* applied_versions, and the files compared with what was applied.
Start(p) ==
  /\ pc[p] \in Over /\ starts < StartBound
  /\ starts' = starts + 1
  /\ seen' = [seen EXCEPT ![p] = Applied]
  /\ pc' = [pc EXCEPT ![p] = IF \E v \in Applied \cap 1..Known[p] : record[v] # Text[p][v]
                             THEN "failed" ELSE "next"]
  /\ UNCHANGED <<database, writer, now, txn, keys>>

\* Wrong: takes the pending migrations from the last to the first.
TakeLast(p) ==
  /\ pc[p] = "next" /\ 1..Known[p] \ seen[p] # {}
  /\ now' = [now EXCEPT ![p] = Max(1..Known[p] \ seen[p])]
  /\ keys' = [keys EXCEPT ![p] = now'[p] \notin Rebuilds]
  /\ pc' = [pc EXCEPT ![p] = "begin"]
  /\ UNCHANGED <<database, writer, seen, txn, starts>>

\* The next pending migration; the pragma is set before its transaction.
Take(p) ==
  /\ pc[p] = "next" /\ 1..Known[p] \ seen[p] # {}
  /\ now' = [now EXCEPT ![p] = Min(1..Known[p] \ seen[p])]
  /\ keys' = [keys EXCEPT ![p] = now'[p] \notin Rebuilds]
  /\ pc' = [pc EXCEPT ![p] = "begin"]
  /\ UNCHANGED <<database, writer, seen, txn, starts>>

Finish(p) ==
  /\ pc[p] = "next" /\ 1..Known[p] \subseteq seen[p]
  /\ pc' = [pc EXCEPT ![p] = "done"]
  /\ UNCHANGED <<database, writer, seen, now, txn, keys, starts>>

\* The end of a migration: the transaction over, foreign keys back on.
End(p, next) ==
  /\ writer' = IF writer = p THEN None ELSE writer
  /\ txn' = [txn EXCEPT ![p] = <<>>] /\ keys' = [keys EXCEPT ![p] = TRUE]
  /\ pc' = [pc EXCEPT ![p] = next]

\* Wrong: a migration another process applied stays pending.
BeginAgain(p) ==
  /\ pc[p] = "begin" /\ writer = None
  /\ IF record[now[p]] # None
     THEN End(p, "next")
     ELSE pc' = [pc EXCEPT ![p] = "in"] /\ writer' = p /\ UNCHANGED <<txn, keys>>
  /\ UNCHANGED <<database, seen, now, starts>>

\* BEGIN IMMEDIATE takes the write lock; only then is the version row looked for.
Begin(p) ==
  /\ pc[p] = "begin" /\ writer = None
  /\ IF record[now[p]] # None
     THEN End(p, "next") /\ seen' = [seen EXCEPT ![p] = @ \cup {now[p]}]
     ELSE pc' = [pc EXCEPT ![p] = "in"] /\ writer' = p /\ UNCHANGED <<seen, txn, keys>>
  /\ UNCHANGED <<database, now, starts>>

\* The five seconds of busy_timeout are over.
Busy(p) ==
  /\ pc[p] = "begin" /\ writer # None
  /\ End(p, "failed")
  /\ UNCHANGED <<database, seen, now, starts>>

Run(p) ==
  /\ pc[p] = "in" /\ Len(txn[p]) < Statements
  /\ txn' = [txn EXCEPT ![p] = Append(@, [version |-> now[p], statement |-> Len(@) + 1,
                                          text |-> Text[p][now[p]], keys |-> keys[p]])]
  /\ UNCHANGED <<database, writer, pc, seen, now, keys, starts>>

\* Wrong: what ran before the statement that failed stays.
FailKept(p) ==
  /\ pc[p] = "in"
  /\ schema' = schema \o txn[p]
  /\ End(p, "failed")
  /\ UNCHANGED <<record, seen, now, starts>>

\* A statement or the check of foreign keys fails: rolled back.
Fail(p) ==
  /\ pc[p] = "in"
  /\ End(p, "failed")
  /\ UNCHANGED <<database, seen, now, starts>>

\* The version row is written in the migration's own transaction.
Commit(p) ==
  /\ pc[p] = "in" /\ Len(txn[p]) = Statements
  /\ schema' = schema \o txn[p]
  /\ record' = [record EXCEPT ![now[p]] = Text[p][now[p]]]
  /\ seen' = [seen EXCEPT ![p] = @ \cup {now[p]}]
  /\ End(p, "next")
  /\ UNCHANGED <<now, starts>>

\* SQLite drops the transaction of a process that dies, and its connection.
Die(p) ==
  /\ pc[p] \notin Over
  /\ End(p, "dead")
  /\ UNCHANGED <<database, seen, now, starts>>

Step(p) == \/ Take(p) \/ Finish(p) \/ Begin(p) \/ Busy(p) \/ Run(p) \/ Fail(p) \/ Commit(p)

Next == \E p \in Processes : Start(p) \/ Step(p) \/ Die(p)

Spec == Init /\ [][Next]_vars /\ \A p \in Processes : WF_vars(Step(p))

-----------------------------------------------------------------------------
(* Properties.                                                             *)

Row == [version : 1..Versions, statement : 1..Statements, text : Texts, keys : BOOLEAN]

\* Every variable has its type.
TypeOK ==
  /\ record \in [1..Versions -> Texts \cup {None}] /\ schema \in Seq(Row)
  /\ writer \in Processes \cup {None}
  /\ pc \in [Processes -> Over \cup {"next", "begin", "in"}]
  /\ seen \in [Processes -> SUBSET (1..Versions)] /\ now \in [Processes -> 0..Versions]
  /\ txn \in [Processes -> Seq(Row)] /\ \A p \in Processes : Len(txn[p]) <= Statements
  /\ keys \in [Processes -> BOOLEAN] /\ starts \in 0..StartBound

\* The version the database is at: every one up to it is recorded, the next is not.
Height == CHOOSE n \in 0..Versions : 1..n \subseteq Applied /\ n + 1 \notin Applied

\* The text applied for version 1, 2, ... up to the first that is not.
Ledger == [v \in 1..Height |-> record[v]]

\* The database holds every statement of every recorded version, once and in order,
\* and nothing of any other: no migration is ever half there.
SchemaWhole ==
  /\ Applied = 1..Height
  /\ Len(schema) = Statements * Height
  /\ \A v \in 1..Height, i \in 1..Statements :
       schema[(v - 1) * Statements + i]
         = [version |-> v, statement |-> i, text |-> record[v], keys |-> v \notin Rebuilds]

\* One writer, and whoever writes runs a migration no one has recorded, with foreign
\* keys as that migration asks.
OneWriter ==
  \A p \in Processes : pc[p] = "in" =>
    /\ writer = p /\ record[now[p]] = None
    /\ keys[p] = (now[p] \notin Rebuilds)

\* The database is whole, and what is being written to it is a whole of its own.
Whole == SchemaWhole /\ OneWriter

\* The versions go up one whole migration at a time.
L == INSTANCE SchemaLedger WITH ledger <- Ledger
ImplementsLedger == L!Spec

\* Every start ends, done or not, however the processes wait for each other.
EndsAll == \A p \in Processes : pc[p] \notin Over ~> pc[p] \in Over
=============================================================================
