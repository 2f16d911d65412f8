------------------------------- MODULE Facts --------------------------------
(***************************************************************************)
(* The table of statements of src/tracker/facts.py, as one session keeps   *)
(* it in step with the rows it is derived from (follow).                   *)
(*                                                                         *)
(* A campus's statements are a function of its citations and of the values *)
(* the campus holds; they are stored, and readers trust what is stored.    *)
(* The session knows its objects (`live`), of which the transaction has    *)
(* flushed some state (`rows`) and committed another (`disk`).  Beside     *)
(* them, in session.info and so outside every rollback, are the campuses   *)
(* not rebuilt since a flush changed them (`stale`, _STALE) and the        *)
(* statements read ahead (`ahead`, _PRELOADED).                            *)
(*                                                                         *)
(* A citation is one value that it claims; tranches, parties, milestones   *)
(* and obstacles are inputs of the same kind and are not told apart.       *)
(***************************************************************************)
EXTENDS Integers, FiniteSets

CONSTANTS Campus, Citation, Value,
          Gone,             \* no campus, or no value: the row is not there
          NoSave,           \* no savepoint is open
          NoAnswer,         \* nobody has just read
          SavepointAnytime, \* a savepoint may be opened over writes not rebuilt
          MaxWrites         \* edits in one transaction (a bound)

ASSUME FactsAssumption == Gone \notin Campus \cup Value /\ MaxWrites \in Nat

VARIABLES live,   \* the rows as the session's objects have them
          rows,   \* the rows as flushed to the database in this transaction
          facts,  \* the stored statements, in this transaction
          disk,   \* [rows, facts] as last committed
          save,   \* [rows, facts] as they were at the open savepoint
          stale,  \* _STALE
          ahead,  \* _PRELOADED: campus -> the statements read for it
          answer, \* what campus_statements has just returned, of which campus
          writes  \* edits made since the transaction began

vars == <<live, rows, facts, disk, save, stale, ahead, answer, writes>>

(***************************************************************************)
(* Rows: where a citation is and what it claims, and what a campus holds.  *)
(***************************************************************************)
Rows == [home : [Citation -> Campus \cup {Gone}], says : [Citation -> Value],
         holds : [Campus -> Value \cup {Gone}]]

Present(r) == {c \in Campus : r.holds[c] # Gone}
Cited(r, c) == {s \in Citation : r.home[s] = c}

\* `held` is whether the campus holds the value claimed.
Statement == [campus : Campus, source : Citation, value : Value, held : BOOLEAN]
Statements(r, c) ==
  {[campus |-> c, source |-> s, value |-> r.says[s], held |-> r.says[s] = r.holds[c]] :
     s \in Cited(r, c)}
AllStatements(r) == UNION {Statements(r, c) : c \in Present(r)}
Of(c) == {f \in facts : f.campus = c}

Empty == [c \in {} |-> {}]

Init ==
  /\ live \in {r \in Rows : /\ \A s \in Citation : r.home[s] \in Present(r)
                            /\ Present(r) = Campus}
  /\ rows = live
  /\ facts = AllStatements(live)
  /\ disk = [rows |-> rows, facts |-> facts]
  /\ save = NoSave
  /\ stale = {}
  /\ ahead = Empty
  /\ answer = NoAnswer
  /\ writes = 0

(***************************************************************************)
(* A flush: what is written, which campuses it marks, what it forgets.     *)
(***************************************************************************)
Moved == {s \in Citation : live.home[s] # rows.home[s] \/ live.says[s] # rows.says[s]}

\* Wrong: only where the row is now.
ChangedHere ==
  ({live.home[s] : s \in Moved}
     \cup {c \in Present(live) : live.holds[c] # rows.holds[c]}) \ {Gone}

\* _campuses_changed: where a row is and where it was, and a campus whose own
\* fields changed; a deleted campus marks nothing.  A row deleted while still
\* in its campus's collection would mark nothing either; no caller does that.
Changed ==
  ({live.home[s] : s \in Moved} \cup {rows.home[s] : s \in Moved}
     \cup {c \in Present(live) : live.holds[c] # rows.holds[c]}) \ {Gone}

Marked == stale \cup Changed
\* The statements of a deleted campus go with it (ON DELETE CASCADE).
Kept(f) == {x \in f : x.campus \in Present(live)}
\* A flush that writes ends a transaction of its own, and _transaction_ended
\* forgets everything read ahead.
AheadAfterFlush == IF live = rows THEN ahead ELSE Empty

Rebuilt(cs) ==
  {x \in Kept(facts) : x.campus \notin cs}
    \cup UNION {Statements(live, c) : c \in cs \cap Present(live)}
Without(map, cs) == [c \in DOMAIN map \ cs |-> map[c]]

Flush ==
  /\ rows' = live
  /\ facts' = Kept(facts)
  /\ stale' = Marked
  /\ ahead' = AheadAfterFlush
  /\ answer' = NoAnswer
  /\ UNCHANGED <<live, disk, save, writes>>

-----------------------------------------------------------------------------
(***************************************************************************)
(* Writers.  They change objects; nothing is flushed yet.                  *)
(***************************************************************************)
Edit(r) ==
  /\ writes < MaxWrites
  /\ writes' = writes + 1
  /\ live' = r
  /\ answer' = NoAnswer
  /\ UNCHANGED <<rows, facts, disk, save, stale, ahead>>

\* A citation read again, or ruled on.
Reread(s, v) ==
  /\ live.home[s] # Gone
  /\ live.says[s] # v
  /\ Edit([live EXCEPT !.says[s] = v])

\* A citation moved by a merge, added, or withdrawn: removed from the collection
\* of its campus and then deleted, so that its history names the campus.
Move(s, c) ==
  /\ live.home[s] # c
  /\ c \in Present(live) \cup {Gone}
  /\ Edit([live EXCEPT !.home[s] = c])

\* A field of the campus re-derived, or a campus created.
Hold(c, v) ==
  /\ live.holds[c] # v
  /\ Edit([live EXCEPT !.holds[c] = v])

\* A campus merged away or excluded: its citations go with it.
Delete(c) ==
  /\ c \in Present(live)
  /\ Edit([live EXCEPT !.holds[c] = Gone,
                       !.home = [s \in Citation |-> IF @[s] = c THEN Gone ELSE @[s]]])

-----------------------------------------------------------------------------
\* Wrong: what was read ahead is kept.
RebuildBehind(c) ==
  /\ c \in Present(live)
  /\ rows' = live
  /\ facts' = Rebuilt({c})
  /\ stale' = Marked \ {c}
  /\ ahead' = AheadAfterFlush
  /\ answer' = NoAnswer
  /\ UNCHANGED <<live, disk, save, writes>>

\* rebuild, at the end of upsert_record and recompute_from_sources: flushed
\* first, then the campus's statements replaced and its mark taken off.
Rebuild(c) ==
  /\ c \in Present(live)
  /\ rows' = live
  /\ facts' = Rebuilt({c})
  /\ stale' = Marked \ {c}
  /\ ahead' = Without(AheadAfterFlush, {c})
  /\ answer' = NoAnswer
  /\ UNCHANGED <<live, disk, save, writes>>

\* preload: one query, which flushes what is waiting.
Preload(cs) ==
  /\ rows' = live
  /\ facts' = Kept(facts)
  /\ stale' = Marked
  /\ ahead' = [c \in DOMAIN AheadAfterFlush \cup cs |->
                 IF c \in cs THEN {x \in Kept(facts) : x.campus = c} ELSE ahead[c]]
  /\ answer' = NoAnswer
  /\ UNCHANGED <<live, disk, save, writes>>

\* campus_statements of a campus with nothing read ahead: a query, which
\* flushes; then a rebuild if the campus is marked.
ReadStored(c) ==
  /\ c \notin DOMAIN ahead
  /\ rows' = live
  /\ facts' = IF c \in Marked THEN Rebuilt({c}) ELSE Kept(facts)
  /\ stale' = Marked \ {c}
  /\ ahead' = AheadAfterFlush
  /\ answer' = [campus |-> c, got |-> {x \in facts' : x.campus = c}]

\* campus_statements of a campus read ahead and not marked: nothing is
\* flushed, and what was read ahead is the answer.
ReadAhead(c) ==
  /\ c \in DOMAIN ahead \ stale
  /\ answer' = [campus |-> c, got |-> ahead[c]]
  /\ UNCHANGED <<rows, facts, stale, ahead>>

\* campus_statements of a campus read ahead and marked since.
ReadAgain(c) ==
  /\ c \in DOMAIN ahead \cap stale
  /\ rows' = live
  /\ facts' = Rebuilt({c})
  /\ stale' = Marked \ {c}
  /\ ahead' = Without(AheadAfterFlush, {c})
  /\ answer' = [campus |-> c, got |-> {x \in facts' : x.campus = c}]

Read(c) ==
  /\ c \in Present(live)
  /\ ReadStored(c) \/ ReadAhead(c) \/ ReadAgain(c)
  /\ UNCHANGED <<live, disk, save, writes>>

-----------------------------------------------------------------------------
(***************************************************************************)
(* The ends of a transaction and of a savepoint.                           *)
(***************************************************************************)
\* Wrong: the commit's own flush comes after.
SettledUnflushed == Rebuilt(stale)

\* settle, before every commit.
Settled == Rebuilt(Marked)

\* session.commit: settled, then the outermost transaction has ended.
Commit ==
  /\ save = NoSave
  /\ rows' = live
  /\ facts' = Settled
  /\ disk' = [rows |-> live, facts |-> Settled]
  /\ stale' = {}
  /\ ahead' = Empty
  /\ answer' = NoAnswer
  /\ UNCHANGED <<live, save>>
  /\ writes' = 0

\* session.rollback, an exception that leaves session_scope, or a process
\* that dies and a session opened after it: back to what was committed.
Rollback ==
  /\ live' = disk.rows
  /\ rows' = disk.rows
  /\ facts' = disk.facts
  /\ save' = NoSave
  /\ stale' = {}
  /\ ahead' = Empty
  /\ answer' = NoAnswer
  /\ UNCHANGED disk
  /\ writes' = 0

\* session.begin_nested.  losses.restore and the preview of nesting.settle
\* open one before they have written anything that is not rebuilt.
BeginNested ==
  /\ save = NoSave
  /\ SavepointAnytime \/ (live = rows /\ facts = AllStatements(rows))
  /\ rows' = live
  /\ facts' = Kept(facts)
  /\ save' = [rows |-> live, facts |-> Kept(facts)]
  /\ stale' = Marked
  /\ ahead' = AheadAfterFlush
  /\ answer' = NoAnswer
  /\ UNCHANGED <<live, disk, writes>>

\* The savepoint released: before_commit runs for it too, and settles.
Release ==
  /\ save # NoSave
  /\ rows' = live
  /\ facts' = Settled
  /\ save' = NoSave
  /\ stale' = {}
  /\ ahead' = Empty
  /\ answer' = NoAnswer
  /\ UNCHANGED <<live, disk, writes>>

\* The savepoint rolled back: rows and statements return to what they were.
\* _transaction_ended sees a parent, so the marks stay as they are.
RollbackNested ==
  /\ save # NoSave
  /\ live' = save.rows
  /\ rows' = save.rows
  /\ facts' = save.facts
  /\ save' = NoSave
  /\ ahead' = Empty
  /\ answer' = NoAnswer
  /\ UNCHANGED <<disk, stale, writes>>

Next ==
  \/ Flush
  \/ \E s \in Citation : \/ \E v \in Value : Reread(s, v)
                         \/ \E c \in Campus \cup {Gone} : Move(s, c)
  \/ \E c \in Campus : (\E v \in Value : Hold(c, v)) \/ Delete(c) \/ Rebuild(c) \/ Read(c)
  \/ \E cs \in SUBSET Campus : Preload(cs)
  \/ Commit \/ Rollback
  \/ BeginNested \/ Release \/ RollbackNested

Spec == Init /\ [][Next]_vars

-----------------------------------------------------------------------------
TypeOK ==
  /\ live \in Rows /\ rows \in Rows
  /\ facts \subseteq Statement
  /\ disk.rows \in Rows /\ disk.facts \subseteq Statement
  /\ save # NoSave => save.rows \in Rows /\ save.facts \subseteq Statement
  /\ stale \subseteq Campus
  /\ DOMAIN ahead \subseteq Campus
  /\ writes \in 0..MaxWrites

\* What is committed agrees: whatever edits, moves, merges, previews, failures
\* and rollbacks led there, a session that opens next finds for every campus
\* exactly the statements its citations make now, and none of a campus gone.
\* It is what `drifted` checks from outside.
Agrees == disk.facts = AllStatements(disk.rows)

\* Between the commits a campus whose stored statements are not those of its
\* flushed rows is marked: a flush marked both campuses of a citation that
\* moved, and nothing has taken a mark off without a rebuild, nor brought the
\* statements back behind it.
StaleIsMarked ==
  \A c \in Present(rows) : Of(c) # Statements(rows, c) => c \in stale

\* Who asks within the transaction is told what its flushed writes say, whether
\* the statements were read ahead, before or after the write, or not.
ReaderSeesTheWrite ==
  answer # NoAnswer => answer.got = Statements(rows, answer.campus)
==============================================================================
