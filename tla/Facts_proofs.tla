---------------------------- MODULE Facts_proofs ----------------------------
(***************************************************************************)
(* Proofs about the stored statements, for any number of campuses,         *)
(* citations, values and edits.                                            *)
(***************************************************************************)
EXTENDS Facts, TLAPS

\* A citation is of a campus that is there, or of none.
Homed(r) == \A s \in Citation : r.home[s] \in Present(r) \cup {Gone}

Homes ==
  /\ Homed(live) /\ Homed(rows) /\ Homed(disk.rows)
  /\ save # NoSave => Homed(save.rows)

\* No statement is of a campus that is gone.
OfThePresent == \A x \in facts : x.campus \in Present(rows)

\* A campus whose statements are wrong is marked, one that is gone as well.
Marks == \A c \in Campus : Of(c) # Statements(rows, c) => c \in stale

\* A savepoint goes back to statements that were right.
SavedAgrees == save # NoSave => save.facts = AllStatements(save.rows)

\* What was read ahead is what is stored, of any campus not marked since.
AheadIsStored == \A c \in DOMAIN ahead : c \notin stale => ahead[c] = Of(c)

IInv ==
  /\ TypeOK /\ Homes /\ OfThePresent /\ Marks
  /\ SavedAgrees /\ AheadIsStored /\ Agrees /\ ReaderSeesTheWrite

------------------------------------------------------------------------------
(* Statements of rows.                                                       *)

\* A campus's statements, and those of all campuses, are statements.
LEMMA StatementsType ==
  ASSUME NEW r \in Rows
  PROVE  /\ \A c \in Campus : Statements(r, c) \subseteq Statement
         /\ AllStatements(r) \subseteq Statement
<1>1. ASSUME NEW c \in Campus, NEW s \in Cited(r, c)
      PROVE  [campus |-> c, source |-> s, value |-> r.says[s],
              held |-> r.says[s] = r.holds[c]] \in Statement
  <2>1. s \in Citation /\ r.says[s] \in Value
    BY DEF Rows, Cited
  <2>2. (r.says[s] = r.holds[c]) \in BOOLEAN
    OBVIOUS
  <2> QED
    BY <2>1, <2>2, Zenon DEF Statement
<1>2. \A c \in Campus : Statements(r, c) \subseteq Statement
  BY <1>1, Zenon DEF Statements
<1> QED
  BY <1>2 DEF AllStatements, Present

LEMMA StatementsCampus ==
  ASSUME NEW r, NEW c, NEW x \in Statements(r, c)
  PROVE  x.campus = c
BY DEF Statements

\* A campus that is gone has no statements.
LEMMA GoneSaysNothing ==
  ASSUME NEW r \in Rows, Homed(r), NEW c \in Campus \ Present(r)
  PROVE  Statements(r, c) = {}
BY FactsAssumption DEF Homed, Present, Statements, Cited, Rows

\* Of all statements, those of a campus are the campus's.
LEMMA AllOfOne ==
  ASSUME NEW r \in Rows, Homed(r), NEW c \in Campus
  PROVE  {x \in AllStatements(r) : x.campus = c} = Statements(r, c)
<1>1. CASE c \in Present(r)
  BY <1>1, StatementsCampus DEF AllStatements
<1>2. CASE c \notin Present(r)
  BY <1>2, GoneSaysNothing, StatementsCampus DEF AllStatements
<1> QED
  BY <1>1, <1>2

\* Statements of present campuses only, right for each campus, are right together.
LEMMA RightTogether ==
  ASSUME NEW r \in Rows, NEW f, \A x \in f : x.campus \in Present(r),
         \A c \in Present(r) : {x \in f : x.campus = c} = Statements(r, c)
  PROVE  f = AllStatements(r)
<1>1. ASSUME NEW x \in f PROVE x \in AllStatements(r)
  <2>1. x \in Statements(r, x.campus)
    OBVIOUS
  <2> QED
    BY <2>1 DEF AllStatements
<1>2. ASSUME NEW x \in AllStatements(r) PROVE x \in f
  <2>1. PICK c \in Present(r) : x \in Statements(r, c)
    BY DEF AllStatements
  <2> QED
    BY <2>1
<1> QED
  BY <1>1, <1>2

------------------------------------------------------------------------------
(* A flush.                                                                  *)

\* What _campuses_changed does not name has the statements it had.
LEMMA Unchanged ==
  ASSUME TypeOK, Homes, NEW c \in Campus \ Changed
  PROVE  Statements(live, c) = Statements(rows, c)
<1>1. Cited(live, c) = Cited(rows, c)
  BY FactsAssumption DEF Changed, Moved, Cited, TypeOK, Rows
<1>2. \A s \in Cited(live, c) : live.says[s] = rows.says[s]
  BY FactsAssumption DEF Changed, Moved, Cited, TypeOK, Rows
<1>3. CASE c \in Present(live)
  <2>1. live.holds[c] = rows.holds[c]
    BY <1>3, FactsAssumption DEF Changed
  <2> QED
    BY <1>1, <1>2, <2>1 DEF Statements
<1>4. CASE c \notin Present(live)
  <2>1. Cited(live, c) = {}
    BY <1>4, FactsAssumption DEF Cited, Homes, Homed, Present
  <2> QED
    BY <1>1, <2>1 DEF Statements
<1> QED
  BY <1>3, <1>4

LEMMA MarkedType ==
  ASSUME TypeOK
  PROVE  Marked \subseteq Campus
BY FactsAssumption DEF TypeOK, Rows, Marked, Changed, Moved, Present

\* A rebuild of some campuses leaves theirs right, and the others' as they were.
LEMMA RebuiltOf ==
  ASSUME TypeOK, Homes, NEW cs \in SUBSET Campus, NEW c \in Campus
  PROVE  {x \in Rebuilt(cs) : x.campus = c}
           = IF c \in cs THEN Statements(live, c) ELSE {x \in Kept(facts) : x.campus = c}
<1> DEFINE new == UNION {Statements(live, d) : d \in cs \cap Present(live)}
<1>1. \A x \in new : x.campus \in cs /\ x \in Statements(live, x.campus)
  BY StatementsCampus
<1>2. CASE c \notin cs
  BY <1>1, <1>2 DEF Rebuilt
<1>3. CASE c \in cs /\ c \in Present(live)
  BY <1>1, <1>3, StatementsCampus DEF Rebuilt
<1>4. CASE c \in cs /\ c \notin Present(live)
  <2>1. \A x \in new : x.campus \in Present(live)
    BY StatementsCampus
  <2>2. Statements(live, c) = {}
    BY <1>4, GoneSaysNothing DEF TypeOK, Homes
  <2> QED
    BY <1>4, <2>1, <2>2 DEF Rebuilt
<1> QED
  BY <1>2, <1>3, <1>4

LEMMA RebuiltPresent ==
  ASSUME TypeOK, NEW cs \in SUBSET Campus
  PROVE  /\ \A x \in Rebuilt(cs) : x.campus \in Present(live)
         /\ Rebuilt(cs) \subseteq Statement
<1>1. \A x \in Kept(facts) : x.campus \in Present(live) /\ x \in Statement
  BY DEF Kept, TypeOK
<1>2. \A c \in cs \cap Present(live) : \A x \in Statements(live, c) :
        x.campus \in Present(live) /\ x \in Statement
  BY StatementsType, StatementsCampus DEF TypeOK
<1> QED
  BY <1>1, <1>2 DEF Rebuilt

\* A rebuild of none is a flush.
LEMMA RebuiltNone == Rebuilt({}) = Kept(facts)
BY DEF Rebuilt

\* After the flush, a campus that is neither marked nor changed is right.
LEMMA KeptRight ==
  ASSUME IInv, NEW c \in Campus \ Marked
  PROVE  {x \in Kept(facts) : x.campus = c} = Statements(live, c)
<1>1. Of(c) = Statements(rows, c)
  BY DEF IInv, Marks, Marked
<1>2. Statements(live, c) = Statements(rows, c)
  BY Unchanged DEF IInv, Marked
<1>3. CASE c \in Present(live)
  BY <1>1, <1>2, <1>3 DEF Of, Kept
<1>4. CASE c \notin Present(live)
  BY <1>4, GoneSaysNothing DEF Kept, IInv, TypeOK, Homes
<1> QED
  BY <1>3, <1>4

\* settle: a rebuild of every marked campus leaves every statement right.
LEMMA SettledRight ==
  ASSUME IInv
  PROVE  Settled = AllStatements(live)
<1>1. Marked \in SUBSET Campus
  BY MarkedType DEF IInv
<1>2. \A c \in Campus : {x \in Settled : x.campus = c} = Statements(live, c)
  BY <1>1, RebuiltOf, KeptRight DEF IInv, Settled
<1>3. \A x \in Settled : x.campus \in Present(live)
  BY <1>1, RebuiltPresent DEF IInv, Settled
<1> QED
  BY <1>2, <1>3, RightTogether DEF IInv, TypeOK, Present

------------------------------------------------------------------------------
(* The actions.                                                              *)

\* The part of the invariant that is about the flushed rows and their statements.
Stored == OfThePresent /\ Marks

\* Whatever flushes and rebuilds some campuses, taking their marks off, keeps it.
LEMMA FlushStored ==
  ASSUME IInv, NEW cs \in SUBSET Campus,
         rows' = live, facts' = Rebuilt(cs), stale' = Marked \ cs
  PROVE  Stored' /\ \A c \in cs : Of(c)' = Statements(live, c)
<1>1. OfThePresent'
  BY RebuiltPresent DEF IInv, OfThePresent
<1>2. \A c \in Campus : Of(c)' =
        IF c \in cs THEN Statements(live, c) ELSE {x \in Kept(facts) : x.campus = c}
  BY RebuiltOf DEF IInv, Of
<1>3. Marks'
  BY <1>2, KeptRight DEF Marks
<1> QED
  BY <1>1, <1>2, <1>3 DEF Stored

\* What is right is right without any mark.
LEMMA RightStored ==
  ASSUME NEW r \in Rows, Homed(r), rows' = r, facts' = AllStatements(r)
  PROVE  Stored'
<1>1. OfThePresent'
  BY StatementsCampus DEF OfThePresent, AllStatements
<1>2. Marks'
  BY AllOfOne DEF Marks, Of
<1> QED
  BY <1>1, <1>2 DEF Stored

\* A flush that writes nothing leaves every statement, so what was read ahead still holds.
LEMMA FlushAhead ==
  ASSUME IInv, NEW cs \in SUBSET Campus, facts' = Rebuilt(cs), stale' = Marked \ cs,
         NEW c \in DOMAIN AheadAfterFlush, c \notin cs, c \notin stale'
  PROVE  AheadAfterFlush[c] = Of(c)' /\ AheadAfterFlush[c] = ahead[c] /\ c \in DOMAIN ahead
<1>1. live = rows /\ AheadAfterFlush = ahead
  BY DEF AheadAfterFlush, Empty
<1>2. c \in Campus /\ c \notin stale /\ ahead[c] = Of(c)
  BY <1>1 DEF IInv, TypeOK, AheadIsStored, Marked
<1>3. Of(c)' = {x \in Kept(facts) : x.campus = c}
  BY <1>2, RebuiltOf DEF IInv, Of
<1>4. {x \in Kept(facts) : x.campus = c} = Of(c)
  BY <1>1 DEF Kept, Of, IInv, OfThePresent
<1> QED
  BY <1>1, <1>2, <1>3, <1>4

\* Only objects change: nothing that is flushed, stored, saved or read ahead.
LEMMA EditKeeps ==
  ASSUME IInv, NEW r \in Rows, Homed(r), Edit(r)
  PROVE  IInv'
<1> USE DEF IInv, Edit
<1>1. TypeOK'
  BY FactsAssumption DEF TypeOK
<1>2. Homes' /\ OfThePresent' /\ Marks' /\ SavedAgrees' /\ AheadIsStored' /\ Agrees'
  BY DEF Homes, OfThePresent, Marks, SavedAgrees, AheadIsStored, Agrees, Of
<1>3. ReaderSeesTheWrite'
  BY DEF ReaderSeesTheWrite
<1> QED
  BY <1>1, <1>2, <1>3

\* Each writer leaves objects that are rows, and every citation with a campus or none.
LEMMA WritersKeep ==
  ASSUME IInv,
         \/ \E s \in Citation : \/ \E v \in Value : Reread(s, v)
                                \/ \E c \in Campus \cup {Gone} : Move(s, c)
         \/ \E c \in Campus : (\E v \in Value : Hold(c, v)) \/ Delete(c)
  PROVE  IInv'
<1>0. live \in Rows /\ Homed(live)
  BY DEF IInv, TypeOK, Homes
<1>1. ASSUME NEW s \in Citation, NEW v \in Value, Reread(s, v) PROVE IInv'
  <2>1. [live EXCEPT !.says[s] = v] \in Rows /\ Homed([live EXCEPT !.says[s] = v])
    BY <1>0 DEF Rows, Homed, Present
  <2> QED
    BY <1>1, <2>1, EditKeeps DEF Reread
<1>2. ASSUME NEW s \in Citation, NEW c \in Campus \cup {Gone}, Move(s, c) PROVE IInv'
  <2>1. [live EXCEPT !.home[s] = c] \in Rows /\ Homed([live EXCEPT !.home[s] = c])
    BY <1>0, <1>2 DEF Move, Rows, Homed, Present
  <2> QED
    BY <1>2, <2>1, EditKeeps DEF Move
<1>3. ASSUME NEW c \in Campus, NEW v \in Value, Hold(c, v) PROVE IInv'
  <2>1. [live EXCEPT !.holds[c] = v] \in Rows /\ Homed([live EXCEPT !.holds[c] = v])
    BY <1>0, FactsAssumption DEF Rows, Homed, Present
  <2> QED
    BY <1>3, <2>1, EditKeeps DEF Hold
<1>4. ASSUME NEW c \in Campus, Delete(c) PROVE IInv'
  <2> DEFINE left == [live EXCEPT !.holds[c] = Gone,
                        !.home = [s \in Citation |-> IF @[s] = c THEN Gone ELSE @[s]]]
  <2>1. left.holds = [live.holds EXCEPT ![c] = Gone]
        /\ left.home = [s \in Citation |-> IF live.home[s] = c THEN Gone ELSE live.home[s]]
        /\ left.says = live.says /\ left \in Rows
    BY <1>0 DEF Rows
  <2>2. Homed(left)
    BY <1>0, <2>1 DEF Rows, Homed, Present
  <2> QED
    BY <1>4, <2>1, <2>2, EditKeeps DEF Delete
<1> QED
  BY <1>1, <1>2, <1>3, <1>4

\* Flush, Rebuild, Preload and the three ways to read: each flushes, rebuilds some
\* campuses (`cs`) or none, and reads some ahead or forgets them.
LEMMA SessionKeeps ==
  ASSUME IInv, NEW cs \in SUBSET Campus,
         rows' = live, facts' = Rebuilt(cs), stale' = Marked \ cs,
         DOMAIN ahead' \subseteq Campus,
         \A c \in DOMAIN ahead' : c \notin stale' => ahead'[c] = Of(c)',
         UNCHANGED <<live, disk, save, writes>>,
         ReaderSeesTheWrite'
  PROVE  IInv'
<1>1. TypeOK'
  BY RebuiltPresent, MarkedType DEF IInv, TypeOK
<1>2. Homes' /\ SavedAgrees' /\ Agrees'
  BY DEF IInv, Homes, SavedAgrees, Agrees
<1>3. OfThePresent' /\ Marks'
  BY FlushStored DEF Stored
<1>4. AheadIsStored'
  BY DEF AheadIsStored
<1> QED
  BY <1>1, <1>2, <1>3, <1>4 DEF IInv

LEMMA ReadsKeep ==
  ASSUME IInv, NEW c \in Campus, Read(c)
  PROVE  IInv'
<1>0. c \in Present(live) /\ UNCHANGED <<live, disk, save, writes>>
  BY DEF Read
<1>1. CASE ReadStored(c)
  <2> DEFINE cs == IF c \in Marked THEN {c} ELSE {}
  <2>1. rows' = live /\ facts' = Rebuilt(cs) /\ stale' = Marked \ cs
        /\ ahead' = AheadAfterFlush
    BY <1>1, RebuiltNone DEF ReadStored
  <2>2. \A d \in DOMAIN ahead' : d \in DOMAIN ahead /\ (d \notin stale' => ahead'[d] = Of(d)')
    <3>1. \A d \in DOMAIN ahead' : d \in DOMAIN ahead /\ d \notin cs
      BY <1>1, <2>1 DEF ReadStored, AheadAfterFlush, Empty
    <3> QED
      BY <2>1, <3>1, FlushAhead
  <2>3. Of(c)' = Statements(live, c)
    <3>1. CASE c \in Marked
      BY <2>1, <3>1, FlushStored
    <3>2. CASE c \notin Marked
      BY <2>1, <3>2, KeptRight, RebuiltNone DEF Of
    <3> QED
      BY <3>1, <3>2
  <2>4. ReaderSeesTheWrite'
    BY <1>1, <2>1, <2>3 DEF ReadStored, ReaderSeesTheWrite, Of
  <2> QED
    BY <1>0, <2>1, <2>2, <2>4, SessionKeeps DEF IInv, TypeOK
<1>2. CASE ReadAhead(c)
  <2>1. ahead[c] = Statements(rows, c)
    BY <1>2 DEF ReadAhead, IInv, AheadIsStored, Marks
  <2>2. ReaderSeesTheWrite'
    BY <1>2, <2>1 DEF ReadAhead, ReaderSeesTheWrite
  <2> QED
    BY <1>0, <1>2, <2>2
    DEF ReadAhead, IInv, TypeOK, Homes, OfThePresent, Marks, SavedAgrees, AheadIsStored, Agrees, Of
<1>3. CASE ReadAgain(c)
  <2>1. rows' = live /\ facts' = Rebuilt({c}) /\ stale' = Marked \ {c}
        /\ ahead' = Without(AheadAfterFlush, {c})
    BY <1>3 DEF ReadAgain
  <2>2. \A d \in DOMAIN ahead' : d \in DOMAIN ahead /\ (d \notin stale' => ahead'[d] = Of(d)')
    <3>1. \A d \in DOMAIN ahead' : d \in DOMAIN AheadAfterFlush /\ d \notin {c}
                                   /\ ahead'[d] = AheadAfterFlush[d] /\ d \in DOMAIN ahead
      BY <2>1 DEF Without, AheadAfterFlush, Empty
    <3> QED
      BY <2>1, <3>1, FlushAhead
  <2>3. ReaderSeesTheWrite'
    <3>1. Of(c)' = Statements(live, c)
      BY <2>1, FlushStored
    <3> QED
      BY <1>3, <2>1, <3>1 DEF ReadAgain, ReaderSeesTheWrite, Of
  <2> QED
    BY <1>0, <2>1, <2>2, <2>3, SessionKeeps DEF IInv, TypeOK
<1> QED
  BY <1>1, <1>2, <1>3 DEF Read

LEMMA FlushesKeep ==
  ASSUME IInv,
         \/ Flush
         \/ \E c \in Campus : Rebuild(c)
         \/ \E cs \in SUBSET Campus : Preload(cs)
  PROVE  IInv'
<1>1. CASE Flush
  <2>1. rows' = live /\ facts' = Rebuilt({}) /\ stale' = Marked \ {} /\ ahead' = AheadAfterFlush
        /\ answer' = NoAnswer /\ UNCHANGED <<live, disk, save, writes>>
    BY <1>1, RebuiltNone DEF Flush
  <2>2. \A d \in DOMAIN ahead' : d \in DOMAIN ahead /\ (d \notin stale' => ahead'[d] = Of(d)')
    <3>1. \A d \in DOMAIN ahead' : d \in DOMAIN ahead
      BY <2>1 DEF AheadAfterFlush, Empty
    <3> QED
      BY <2>1, <3>1, FlushAhead
  <2>3. ReaderSeesTheWrite'
    BY <2>1 DEF ReaderSeesTheWrite
  <2> QED
    BY <2>1, <2>2, <2>3, SessionKeeps DEF IInv, TypeOK
<1>2. ASSUME NEW c \in Campus, Rebuild(c) PROVE IInv'
  <2>1. rows' = live /\ facts' = Rebuilt({c}) /\ stale' = Marked \ {c}
        /\ ahead' = Without(AheadAfterFlush, {c})
        /\ answer' = NoAnswer /\ UNCHANGED <<live, disk, save, writes>>
    BY <1>2 DEF Rebuild
  <2>2. \A d \in DOMAIN ahead' : d \in DOMAIN ahead /\ (d \notin stale' => ahead'[d] = Of(d)')
    <3>1. \A d \in DOMAIN ahead' : d \in DOMAIN AheadAfterFlush /\ d \notin {c}
                                   /\ ahead'[d] = AheadAfterFlush[d] /\ d \in DOMAIN ahead
      BY <2>1 DEF Without, AheadAfterFlush, Empty
    <3> QED
      BY <2>1, <3>1, FlushAhead
  <2>3. ReaderSeesTheWrite'
    BY <2>1 DEF ReaderSeesTheWrite
  <2> QED
    BY <2>1, <2>2, <2>3, SessionKeeps DEF IInv, TypeOK
<1>3. ASSUME NEW cs \in SUBSET Campus, Preload(cs) PROVE IInv'
  <2>1. rows' = live /\ facts' = Rebuilt({}) /\ stale' = Marked \ {}
        /\ answer' = NoAnswer /\ UNCHANGED <<live, disk, save, writes>>
    BY <1>3, RebuiltNone DEF Preload
  <2>2. \A d \in DOMAIN ahead' : d \in Campus /\ (d \notin stale' => ahead'[d] = Of(d)')
    <3> SUFFICES ASSUME NEW d \in DOMAIN ahead'
                 PROVE  d \in Campus /\ (d \notin stale' => ahead'[d] = Of(d)')
      OBVIOUS
    <3>1. CASE d \in cs
      BY <1>3, <3>1 DEF Preload, Of
    <3>2. CASE d \notin cs
      <4>1. d \in DOMAIN AheadAfterFlush /\ ahead'[d] = ahead[d]
        BY <1>3, <3>2 DEF Preload
      <4>2. d \in DOMAIN ahead
        BY <4>1 DEF AheadAfterFlush, Empty
      <4> QED
        BY <2>1, <4>1, <4>2, FlushAhead DEF IInv, TypeOK
    <3> QED
      BY <3>1, <3>2
  <2>3. ReaderSeesTheWrite'
    BY <2>1 DEF ReaderSeesTheWrite
  <2> QED
    BY <2>1, <2>2, <2>3, SessionKeeps DEF IInv
<1> QED
  BY <1>1, <1>2, <1>3

\* Whatever ends with rows and all the statements they make, with nothing read ahead,
\* keeps the invariant, whichever marks it leaves.
LEMMA EndKeeps ==
  ASSUME IInv, NEW r \in Rows, Homed(r),
         live' = r, rows' = r, facts' = AllStatements(r),
         disk' \in {disk, [rows |-> r, facts |-> AllStatements(r)]},
         save' \in {save, NoSave, [rows |-> r, facts |-> AllStatements(r)]},
         stale' \in SUBSET Campus, ahead' = Empty, answer' = NoAnswer,
         writes' \in {writes, 0}
  PROVE  IInv'
<1>1. AllStatements(r) \subseteq Statement
  BY StatementsType
<1>2. TypeOK'
  BY <1>1, FactsAssumption DEF IInv, TypeOK, Empty
<1>3. Homes' /\ SavedAgrees' /\ Agrees'
  BY DEF IInv, Homes, SavedAgrees, Agrees
<1>4. OfThePresent' /\ Marks'
  BY RightStored DEF Stored
<1>5. AheadIsStored' /\ ReaderSeesTheWrite'
  BY DEF AheadIsStored, ReaderSeesTheWrite, Empty
<1> QED
  BY <1>2, <1>3, <1>4, <1>5 DEF IInv

LEMMA EndsKeep ==
  ASSUME IInv, ~SavepointAnytime,
         Commit \/ Rollback \/ BeginNested \/ Release \/ RollbackNested
  PROVE  IInv'
<1>0. /\ live \in Rows /\ Homed(live)
      /\ disk.rows \in Rows /\ Homed(disk.rows)
      /\ save # NoSave => save.rows \in Rows /\ Homed(save.rows)
      /\ stale \in SUBSET Campus
  BY DEF IInv, TypeOK, Homes
<1>1. CASE Commit
  BY <1>0, <1>1, SettledRight, EndKeeps DEF Commit
<1>2. CASE Rollback
  BY <1>0, <1>2, EndKeeps DEF Rollback, IInv, Agrees
<1>3. CASE BeginNested
  <2>1. live = rows /\ facts = AllStatements(live)
    BY <1>3 DEF BeginNested
  <2>2. Kept(facts) = AllStatements(live)
    BY <2>1 DEF Kept, IInv, OfThePresent
  <2>3. /\ live' = live /\ rows' = live /\ facts' = AllStatements(live) /\ ahead' = ahead
        /\ facts = AllStatements(live) /\ rows = live
        /\ stale' = Marked /\ Marked \in SUBSET Campus /\ disk' = disk /\ writes' = writes
        /\ save' = [rows |-> live, facts |-> AllStatements(live)] /\ answer' = NoAnswer
    BY <1>3, <2>1, <2>2, MarkedType DEF BeginNested, AheadAfterFlush, IInv
  <2>4. AllStatements(live) \subseteq Statement
    BY <1>0, StatementsType
  <2>5. TypeOK'
    BY <1>0, <2>3, <2>4 DEF IInv, TypeOK
  <2>6. Homes' /\ SavedAgrees' /\ Agrees'
    BY <1>0, <2>3 DEF IInv, Homes, SavedAgrees, Agrees
  <2>7. OfThePresent' /\ Marks'
    BY <1>0, <2>3, RightStored DEF Stored
  <2>8. AheadIsStored' /\ ReaderSeesTheWrite'
    BY <2>3 DEF IInv, AheadIsStored, ReaderSeesTheWrite, Of, Marked
  <2> QED
    BY <2>5, <2>6, <2>7, <2>8 DEF IInv
<1>4. CASE Release
  BY <1>0, <1>4, SettledRight, EndKeeps DEF Release
<1>5. CASE RollbackNested
  BY <1>0, <1>5, EndKeeps DEF RollbackNested, IInv, SavedAgrees
<1> QED
  BY <1>1, <1>2, <1>3, <1>4, <1>5

LEMMA StepKeeps ==
  ASSUME ~SavepointAnytime, IInv, [Next]_vars
  PROVE  IInv'
<1>1. CASE UNCHANGED vars
  BY <1>1
  DEF vars, IInv, TypeOK, Homes, OfThePresent, Marks, SavedAgrees, AheadIsStored, Agrees,
      ReaderSeesTheWrite, Of
<1> QED
  BY <1>1, WritersKeep, ReadsKeep, FlushesKeep, EndsKeep DEF Next

LEMMA InitRight == Init => IInv
<1> SUFFICES ASSUME Init PROVE IInv
  OBVIOUS
<1>1. live \in Rows /\ Homed(live)
  BY DEF Init, Homed
<1>2. AllStatements(live) \subseteq Statement
  BY <1>1, StatementsType
<1>3. TypeOK
  BY <1>1, <1>2, FactsAssumption DEF Init, TypeOK, Empty
<1>4. Homes /\ SavedAgrees /\ Agrees /\ AheadIsStored /\ ReaderSeesTheWrite
  BY <1>1 DEF Init, Homes, SavedAgrees, Agrees, AheadIsStored, ReaderSeesTheWrite, Empty
<1>5. OfThePresent
  BY <1>1, StatementsCampus DEF Init, OfThePresent, AllStatements
<1>6. Marks
  BY <1>1, AllOfOne DEF Init, Marks, Of
<1> QED
  BY <1>3, <1>4, <1>5, <1>6 DEF IInv

\* Between any two steps of a session: who is marked, what is stored for whom and what a
\* rollback would bring back (facts.py: _campuses_changed, rebuild_dirty, settle).
THEOREM InductiveInvariant ==
  ASSUME ~SavepointAnytime
  PROVE  Spec => []IInv
BY InitRight, StepKeeps, PTL DEF Spec

\* Every variable keeps to its set: the type invariant of the session.
THEOREM TypeCorrect ==
  ASSUME ~SavepointAnytime
  PROVE  Spec => []TypeOK
BY InductiveInvariant, PTL DEF IInv

\* What is committed is right: whatever edits, moves, merges, previews, failures and
\* rollbacks led there, the stored statements are those the committed rows make (settle,
\* before every commit).
THEOREM CommittedAgrees ==
  ASSUME ~SavepointAnytime
  PROVE  Spec => []Agrees
BY InductiveInvariant, PTL DEF IInv

\* Between the commits, no campus's statements are wrong without its mark
\* (_campuses_changed, and what takes a mark off again).
THEOREM WrongIsMarked ==
  ASSUME ~SavepointAnytime
  PROVE  Spec => []StaleIsMarked
<1>1. IInv => StaleIsMarked
  BY DEF IInv, Marks, StaleIsMarked, Present
<1> QED
  BY <1>1, InductiveInvariant, PTL

\* Whoever asks is told what the flushed rows say, read ahead or not (campus_statements).
THEOREM AnsweredRight ==
  ASSUME ~SavepointAnytime
  PROVE  Spec => []ReaderSeesTheWrite
BY InductiveInvariant, PTL DEF IInv
=============================================================================
