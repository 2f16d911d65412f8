--------------------------- MODULE Migrate_proofs ---------------------------
(***************************************************************************)
(* Proofs about the migrations, for any number of processes, checkouts,    *)
(* versions, statements and starts.                                        *)
(***************************************************************************)
EXTENDS Migrate, TLAPS

\* The versions recorded have no gap.
NoGap == \E n \in 0..Versions : Applied = 1..n

\* What a process holds for applied is, and has no gap either.
Held(p) == seen[p] \subseteq Applied /\ \E k \in 0..Versions : seen[p] = 1..k

\* The migration a process is at is the one after those it holds for applied.
AtNext(p) ==
  pc[p] \in {"begin", "in"} =>
    now[p] \in 1..Known[p] /\ seen[p] = 1..(now[p] - 1) /\ keys[p] = (now[p] \notin Rebuilds)

\* An open transaction is the only one, and has run the first statements of a migration
\* that no one has recorded.
InTransaction(p) ==
  IF pc[p] # "in" THEN txn[p] = <<>>
  ELSE /\ writer = p /\ record[now[p]] = None
       /\ \A i \in 1..Len(txn[p]) :
            txn[p][i] = [version |-> now[p], statement |-> i,
                         text |-> Text[p][now[p]], keys |-> now[p] \notin Rebuilds]

ProcessInv == \A p \in Processes : Held(p) /\ AtNext(p) /\ InTransaction(p)

IInv == TypeOK /\ NoGap /\ ProcessInv /\ SchemaWhole

------------------------------------------------------------------------------
(* Sets 1..n, and the statements of n migrations.                            *)

LEMMA SameEnd ==
  ASSUME NEW m \in Nat, NEW n \in Nat, 1..m = 1..n
  PROVE  m = n
<1>1. CASE m < n
  <2>1. n \in 1..n /\ n \notin 1..m
    BY <1>1
  <2> QED
    BY <2>1
<1>2. CASE n < m
  <2>1. m \in 1..m /\ m \notin 1..n
    BY <1>2
  <2> QED
    BY <2>1
<1> QED
  BY <1>1, <1>2

\* Where versions have no gap, the height is how many there are.
LEMMA HeightIs ==
  ASSUME NEW n \in 0..Versions, Applied = 1..n
  PROVE  Height = n
<1>1. \A m \in 0..Versions : 1..m \subseteq Applied /\ m + 1 \notin Applied <=> m = n
  <2> SUFFICES ASSUME NEW m \in 0..Versions
               PROVE  1..m \subseteq 1..n /\ m + 1 \notin 1..n <=> m = n
    OBVIOUS
  <2>0. m \in Nat /\ n \in Nat
    BY MigrateAssumption
  <2>1. CASE m < n
    BY <2>0, <2>1
  <2>2. CASE n < m
    <3>1. m \in 1..m /\ m \notin 1..n
      BY <2>0, <2>2
    <3> QED
      BY <2>0, <2>2, <3>1
  <2>3. CASE m = n
    BY <2>0, <2>3
  <2> QED
    BY <2>0, <2>1, <2>2, <2>3
<1> QED
  BY <1>1 DEF Height

LEMMA HeightType ==
  ASSUME NoGap
  PROVE  Height \in 0..Versions /\ Applied = 1..Height
BY HeightIs DEF NoGap

\* The first pending version of those that follow 1..k.
LEMMA FirstPending ==
  ASSUME NEW k \in Nat, NEW n \in Nat, NEW pending, pending = 1..n \ 1..k, pending # {}
  PROVE  Min(pending) = k + 1 /\ k + 1 \in 1..n
<1>1. k < n
  OBVIOUS
<1>2. k + 1 \in pending
  BY <1>1
<1>3. \A x \in pending : (\A y \in pending : x <= y) <=> x = k + 1
  <2>1. \A y \in pending : k + 1 <= y
    OBVIOUS
  <2>2. \A x \in pending : x \in Nat
    OBVIOUS
  <2> QED
    BY <1>2, <2>1, <2>2
<1> QED
  BY <1>1, <1>2, <1>3 DEF Min

\* The places of the statements of the first h migrations, and of one more.
LEMMA Places ==
  ASSUME NEW s \in Nat \ {0}, NEW h \in Nat, NEW v \in 1..h, NEW i \in 1..s
  PROVE  (v - 1) * s + i \in 1..(s * h)
<1>1. PICK d \in Nat : h = v + d
  BY v + (h - v) = h, h - v \in Nat
<1>2. PICK e \in Nat : v = e + 1
  BY v = (v - 1) + 1, v - 1 \in Nat
<1>3. s * h = e * s + s + s * d
  BY <1>1, <1>2
<1>4. s * d \in Nat /\ e * s \in Nat
  OBVIOUS
<1>5. (v - 1) * s = e * s
  BY <1>2
<1>6. (v - 1) * s + i = e * s + i /\ e * s + i >= 1 /\ e * s + i <= e * s + s
  BY <1>4, <1>5
<1> QED
  BY <1>3, <1>4, <1>6

\* What one sequence put behind another holds, place by place.
LEMMA Joined ==
  ASSUME NEW R, NEW a \in Seq(R), NEW b \in Seq(R)
  PROVE  /\ Len(a \o b) = Len(a) + Len(b)
         /\ \A i \in 1..Len(a) : (a \o b)[i] = a[i]
OBVIOUS

LEMMA JoinedAfter ==
  ASSUME NEW R, NEW a \in Seq(R), NEW b \in Seq(R), NEW i \in 1..Len(b)
  PROVE  (a \o b)[Len(a) + i] = b[i]
OBVIOUS

------------------------------------------------------------------------------
(* Types.                                                                    *)

LEMMA RowType ==
  ASSUME TypeOK, NEW p \in Processes, NEW v \in 1..Versions, NEW i \in 1..Statements,
         NEW k \in BOOLEAN
  PROVE  [version |-> v, statement |-> i, text |-> Text[p][v], keys |-> k] \in Row
<1>1. Text[p][v] \in Texts
  BY MigrateAssumption
<1> QED
  BY <1>1, Zenon DEF Row

LEMMA TypeStep ==
  ASSUME IInv, NEW p \in Processes, Start(p) \/ Step(p) \/ Die(p)
  PROVE  TypeOK'
<1>0. Applied \subseteq 1..Versions /\ Known[p] \in 0..Versions
  BY MigrateAssumption DEF Applied
<1>a. ASSUME NEW next, End(p, next), next \in Over \cup {"next", "begin", "in"}
      PROVE  /\ writer' \in Processes \cup {None}
             /\ pc' \in [Processes -> Over \cup {"next", "begin", "in"}]
             /\ txn' \in [Processes -> Seq(Row)]
             /\ \A q \in Processes : Len(txn'[q]) <= Statements
             /\ keys' \in [Processes -> BOOLEAN]
  BY <1>a, MigrateAssumption DEF IInv, TypeOK, End
<1> USE DEF IInv, TypeOK, database, Over
<1>1. CASE Start(p)
  BY <1>0, <1>1, MigrateAssumption DEF Start
<1>2. CASE Take(p)
  <2>1. PICK k \in 0..Versions : seen[p] = 1..k
    BY DEF ProcessInv, Held
  <2> DEFINE pending == 1..Known[p] \ seen[p]
  <2>2. k \in Nat /\ Known[p] \in Nat /\ pending = 1..Known[p] \ 1..k /\ pending # {}
    BY <1>0, <1>2, <2>1, MigrateAssumption DEF Take
  <2>a. now' = [now EXCEPT ![p] = Min(pending)]
    BY <1>2 DEF Take
  <2> HIDE DEF pending
  <2>b. Min(pending) \in 1..Known[p]
    <3>1. Min(pending) = k + 1 /\ k + 1 \in 1..Known[p]
      BY <2>2, FirstPending, Zenon
    <3> QED
      BY <3>1
  <2>3. now' \in [Processes -> 0..Versions] /\ pc' \in [Processes -> Over \cup {"next", "begin", "in"}]
    BY <1>0, <1>2, <2>a, <2>b, MigrateAssumption DEF Take
  <2>4. keys' \in [Processes -> BOOLEAN]
    BY <1>2 DEF Take
  <2> QED
    BY <1>2, <2>3, <2>4 DEF Take
<1>3. CASE Finish(p)
  BY <1>3 DEF Finish
<1>4. CASE Begin(p)
  <2>1. CASE record[now[p]] # None
    <3>1. now[p] \in 1..Versions
      BY <1>0, <1>4, MigrateAssumption DEF Begin, ProcessInv, AtNext
    <3>2. End(p, "next") /\ seen' = [seen EXCEPT ![p] = @ \cup {now[p]}]
          /\ UNCHANGED <<record, schema, now, starts>>
      BY <1>4, <2>1 DEF Begin
    <3>3. seen' \in [Processes -> SUBSET (1..Versions)]
      BY <3>1, <3>2
    <3> QED
      BY <1>a, <3>2, <3>3
  <2>2. CASE record[now[p]] = None
    BY <1>4, <2>2 DEF Begin
  <2> QED
    BY <2>1, <2>2
<1>5. CASE Busy(p)
  BY <1>5, <1>a DEF Busy
<1>6. CASE Run(p)
  <2>1. now[p] \in 1..Versions /\ Len(txn[p]) + 1 \in 1..Statements
    BY <1>0, <1>6, MigrateAssumption DEF Run, ProcessInv, AtNext
  <2> DEFINE row == [version |-> now[p], statement |-> Len(txn[p]) + 1,
                     text |-> Text[p][now[p]], keys |-> keys[p]]
  <2>2. row \in Row
    BY <2>1, RowType
  <2> HIDE DEF row
  <2>3. txn' = [txn EXCEPT ![p] = Append(txn[p], row)]
    BY <1>6 DEF Run, row
  <2>4. Append(txn[p], row) \in Seq(Row) /\ Len(Append(txn[p], row)) = Len(txn[p]) + 1
    BY <2>2
  <2> QED
    BY <1>6, <2>1, <2>3, <2>4 DEF Run
<1>7. CASE Fail(p)
  BY <1>7, <1>a DEF Fail
<1>8. CASE Commit(p)
  <2>1. now[p] \in 1..Versions
    BY <1>0, <1>8, MigrateAssumption DEF Commit, ProcessInv, AtNext
  <2>2. Text[p][now[p]] \in Texts
    BY <2>1, MigrateAssumption
  <2>3. schema' \in Seq(Row)
    BY <1>8 DEF Commit
  <2> QED
    BY <1>8, <1>a, <2>1, <2>2, <2>3 DEF Commit
<1>9. CASE Die(p)
  BY <1>9, <1>a DEF Die
<1> QED
  BY <1>1, <1>2, <1>3, <1>4, <1>5, <1>6, <1>7, <1>8, <1>9 DEF Step

------------------------------------------------------------------------------
(* Steps that leave the database as it is, and the one that does not.        *)

LEMMA IdleDatabase ==
  ASSUME IInv, UNCHANGED database
  PROVE  NoGap' /\ SchemaWhole' /\ Ledger' = Ledger
<1>1. Applied' = Applied
  BY DEF Applied, database
<1>2. Height' = Height
  BY <1>1 DEF Height
<1> QED
  BY <1>1, <1>2 DEF IInv, NoGap, SchemaWhole, Ledger, database

\* A process over, with nothing open, satisfies all that is asked of it by Held.
LEMMA AfterEnd ==
  ASSUME IInv, NEW p \in Processes, NEW next \in Over \cup {"next"}, End(p, next)
  PROVE  /\ AtNext(p)' /\ InTransaction(p)'
         /\ UNCHANGED <<seen, now, record>> =>
              \A q \in Processes \ {p} : Held(q)' /\ AtNext(q)' /\ InTransaction(q)'
<1>1. pc'[p] = next /\ next \notin {"begin", "in"} /\ txn'[p] = <<>>
  BY DEF IInv, TypeOK, End, Over
<1>2. \A q \in Processes \ {p} : pc'[q] = pc[q] /\ txn'[q] = txn[q] /\ keys'[q] = keys[q]
                                /\ (writer = q => writer' = q)
  BY DEF IInv, TypeOK, End
<1>3. AtNext(p)' /\ InTransaction(p)'
  BY <1>1 DEF AtNext, InTransaction
<1>4. ASSUME UNCHANGED <<seen, now, record>>, NEW q \in Processes \ {p}
      PROVE  Held(q)' /\ AtNext(q)' /\ InTransaction(q)'
  BY <1>2, <1>4 DEF IInv, ProcessInv, Held, AtNext, InTransaction, Applied
<1> QED
  BY <1>3, <1>4

LEMMA ProcessStep ==
  ASSUME IInv, NEW p \in Processes,
         \/ Start(p) \/ Take(p) \/ Finish(p) \/ Begin(p) \/ Busy(p) \/ Run(p)
         \/ Fail(p) \/ Die(p)
  PROVE  ProcessInv'
<1>0. /\ Held(p) /\ AtNext(p) /\ InTransaction(p) /\ Versions \in Nat
      /\ Known[p] \in 0..Versions /\ None \notin Processes
  BY MigrateAssumption DEF IInv, ProcessInv
<1>1. record' = record /\ Applied' = Applied
  BY DEF Start, Take, Finish, Begin, Busy, Run, Fail, Die, database, Applied
<1>2. CASE Start(p)
  <2>1. Held(p)'
    BY <1>1, <1>2 DEF Start, Held, IInv, TypeOK, NoGap
  <2>2. AtNext(p)' /\ InTransaction(p)'
    BY <1>0, <1>2 DEF Start, AtNext, InTransaction, IInv, TypeOK, Over
  <2>3. \A q \in Processes \ {p} : Held(q)' /\ AtNext(q)' /\ InTransaction(q)'
    BY <1>1, <1>2 DEF Start, Held, AtNext, InTransaction, IInv, TypeOK, ProcessInv, database
  <2> QED
    BY <2>1, <2>2, <2>3 DEF ProcessInv
<1>3. CASE Take(p)
  <2>1. PICK k \in 0..Versions : seen[p] = 1..k
    BY <1>0 DEF Held
  <2> DEFINE pending == 1..Known[p] \ seen[p]
  <2>2. k \in Nat /\ Known[p] \in Nat /\ pending = 1..Known[p] \ 1..k /\ pending # {}
    BY <1>0, <1>3, <2>1 DEF Take
  <2>3. /\ now' = [now EXCEPT ![p] = Min(pending)] /\ pc' = [pc EXCEPT ![p] = "begin"]
        /\ keys' = [keys EXCEPT ![p] = now'[p] \notin Rebuilds]
        /\ UNCHANGED <<writer, seen, txn>> /\ pc[p] = "next"
    BY <1>3 DEF Take
  <2> HIDE DEF pending
  <2>4. Min(pending) = k + 1 /\ k + 1 \in 1..Known[p]
    BY <2>2, FirstPending, Zenon
  <2>5. now'[p] = k + 1 /\ pc'[p] = "begin" /\ keys'[p] = (now'[p] \notin Rebuilds)
    BY <2>3, <2>4 DEF IInv, TypeOK
  <2>6. Held(p)' /\ AtNext(p)' /\ InTransaction(p)'
    <3>1. Held(p)'
      BY <1>0, <1>1, <2>3 DEF Held
    <3>2. AtNext(p)'
      <4>1. seen'[p] = 1..(now'[p] - 1)
        BY <2>1, <2>2, <2>3, <2>5
      <4> QED
        BY <2>4, <2>5, <4>1 DEF AtNext
    <3>3. InTransaction(p)'
      BY <1>0, <2>3, <2>5 DEF InTransaction
    <3> QED
      BY <3>1, <3>2, <3>3
  <2>7. \A q \in Processes \ {p} : Held(q)' /\ AtNext(q)' /\ InTransaction(q)'
    <3> SUFFICES ASSUME NEW q \in Processes \ {p} PROVE Held(q)' /\ AtNext(q)' /\ InTransaction(q)'
      OBVIOUS
    <3>1. /\ now'[q] = now[q] /\ pc'[q] = pc[q] /\ keys'[q] = keys[q]
          /\ Held(q) /\ AtNext(q) /\ InTransaction(q)
      BY <2>3 DEF IInv, TypeOK, ProcessInv
    <3> QED
      BY <1>1, <2>3, <3>1 DEF Held, AtNext, InTransaction
  <2> QED
    BY <2>6, <2>7 DEF ProcessInv
<1>4. CASE Finish(p)
  <2>1. /\ UNCHANGED <<writer, seen, now, txn, keys>>
        /\ \A q \in Processes : pc'[q] = pc[q] \/ (q = p /\ pc[p] = "next" /\ pc'[p] = "done")
    BY <1>4 DEF Finish, IInv, TypeOK
  <2>2. ASSUME NEW q \in Processes PROVE Held(q)' /\ AtNext(q)' /\ InTransaction(q)'
    <3>1. Held(q) /\ AtNext(q) /\ InTransaction(q)
      BY DEF IInv, ProcessInv
    <3> QED
      BY <1>1, <2>1, <3>1 DEF Held, AtNext, InTransaction
  <2> QED
    BY <2>2 DEF ProcessInv
<1>5. CASE Begin(p) /\ record[now[p]] # None
  <2>1. End(p, "next") /\ seen' = [seen EXCEPT ![p] = @ \cup {now[p]}] /\ now' = now
        /\ pc[p] = "begin"
    BY <1>5 DEF Begin
  <2>2. now[p] \in 1..Known[p] /\ seen[p] = 1..(now[p] - 1)
    BY <1>0, <2>1 DEF AtNext
  <2>3. now[p] \in Applied /\ now[p] \in 0..Versions
    BY <1>0, <1>5, <2>2 DEF Applied
  <2>4. seen'[p] = 1..now[p]
    BY <2>1, <2>2 DEF IInv, TypeOK
  <2>5. Held(p)'
    BY <1>0, <1>1, <2>1, <2>3, <2>4 DEF Held, IInv, TypeOK
  <2>6. AtNext(p)' /\ InTransaction(p)'
    BY <2>1, AfterEnd
  <2>7. \A q \in Processes \ {p} : pc'[q] = pc[q] /\ txn'[q] = txn[q] /\ keys'[q] = keys[q]
                                 /\ seen'[q] = seen[q] /\ (writer = q => writer' = q)
    BY <2>1 DEF End, IInv, TypeOK
  <2>8. \A q \in Processes \ {p} : Held(q)' /\ AtNext(q)' /\ InTransaction(q)'
    BY <1>1, <2>1, <2>7 DEF Held, AtNext, InTransaction, IInv, ProcessInv
  <2> QED
    BY <2>5, <2>6, <2>8 DEF ProcessInv
<1>6. CASE Begin(p) /\ record[now[p]] = None
  <2>1. /\ pc' = [pc EXCEPT ![p] = "in"] /\ writer' = p /\ UNCHANGED <<seen, txn, keys, now>>
        /\ pc[p] = "begin" /\ writer = None
    BY <1>6 DEF Begin
  <2>2. Held(p)' /\ AtNext(p)' /\ InTransaction(p)'
    <3>1. pc'[p] = "in" /\ txn'[p] = <<>> /\ Len(txn'[p]) = 0
      BY <1>0, <2>1 DEF InTransaction, IInv, TypeOK
    <3>2. Held(p)' /\ AtNext(p)'
      BY <1>0, <1>1, <2>1, <3>1 DEF Held, AtNext
    <3>3. InTransaction(p)'
      BY <1>1, <1>6, <2>1, <3>1 DEF InTransaction
    <3> QED
      BY <3>2, <3>3
  <2>3. \A q \in Processes \ {p} : Held(q)' /\ AtNext(q)' /\ InTransaction(q)'
    BY <1>0, <1>1, <2>1 DEF Held, AtNext, InTransaction, IInv, TypeOK, ProcessInv
  <2> QED
    BY <2>2, <2>3 DEF ProcessInv
<1>7. CASE Busy(p) \/ Fail(p) \/ Die(p)
  <2>1. PICK next \in Over \cup {"next"} : End(p, next)
    BY <1>7 DEF Busy, Fail, Die, Over
  <2>2. UNCHANGED <<seen, now, record>>
    BY <1>7 DEF Busy, Fail, Die, database
  <2>3. Held(p)'
    BY <1>0, <1>1, <2>2 DEF Held
  <2> QED
    BY <2>1, <2>2, <2>3, AfterEnd DEF ProcessInv
<1>8. CASE Run(p)
  <2> DEFINE row == [version |-> now[p], statement |-> Len(txn[p]) + 1,
                     text |-> Text[p][now[p]], keys |-> keys[p]]
  <2>1. /\ txn' = [txn EXCEPT ![p] = Append(txn[p], row)] /\ pc[p] = "in"
        /\ UNCHANGED <<writer, pc, seen, now, keys>>
    BY <1>8 DEF Run
  <2>2. keys[p] = (now[p] \notin Rebuilds)
    BY <1>0, <2>1 DEF AtNext
  <2>3. txn[p] \in Seq(Row) /\ txn'[p] = Append(txn[p], row)
    BY <2>1 DEF IInv, TypeOK
  <2>4. ASSUME NEW i \in 1..Len(txn'[p])
        PROVE  txn'[p][i] = [version |-> now[p], statement |-> i,
                             text |-> Text[p][now[p]], keys |-> now[p] \notin Rebuilds]
    <3> HIDE DEF row
    <3>1. CASE i \in 1..Len(txn[p])
      BY <1>0, <2>1, <2>3, <3>1 DEF InTransaction
    <3>2. CASE i = Len(txn[p]) + 1
      BY <2>2, <2>3, <3>2 DEF row
    <3> QED
      BY <2>3, <3>1, <3>2
  <2> HIDE DEF row
  <2>5. Held(p)' /\ AtNext(p)' /\ InTransaction(p)'
    <3>1. Held(p)' /\ AtNext(p)'
      BY <1>0, <1>1, <2>1 DEF Held, AtNext
    <3>2. pc'[p] = "in" /\ writer' = p /\ record'[now'[p]] = None /\ now'[p] = now[p]
      BY <1>0, <1>1, <2>1 DEF InTransaction
    <3>3. InTransaction(p)'
      BY <2>4, <3>2, Zenon DEF InTransaction
    <3> QED
      BY <3>1, <3>3
  <2>6. \A q \in Processes \ {p} : Held(q)' /\ AtNext(q)' /\ InTransaction(q)'
    BY <1>1, <2>1 DEF Held, AtNext, InTransaction, IInv, TypeOK, ProcessInv
  <2> QED
    BY <2>5, <2>6 DEF ProcessInv
<1> QED
  BY <1>2, <1>3, <1>4, <1>5, <1>6, <1>7, <1>8

\* A commit makes the database one whole version longer.
LEMMA CommitStep ==
  ASSUME IInv, NEW p \in Processes, Commit(p)
  PROVE  NoGap' /\ ProcessInv' /\ SchemaWhole' /\ Ledger' = Append(Ledger, Text[p][now[p]])
<1>0. /\ Versions \in Nat /\ Known[p] \in 0..Versions /\ Statements \in Nat \ {0}
      /\ None \notin Texts
  BY MigrateAssumption
<1>1. /\ pc[p] = "in" /\ Len(txn[p]) = Statements /\ schema' = schema \o txn[p]
      /\ record' = [record EXCEPT ![now[p]] = Text[p][now[p]]]
      /\ seen' = [seen EXCEPT ![p] = @ \cup {now[p]}]
      /\ End(p, "next") /\ now' = now
  BY DEF Commit
<1>2. Held(p) /\ AtNext(p) /\ InTransaction(p)
  BY DEF IInv, ProcessInv
<1> DEFINE n == now[p]
<1>3. n \in 1..Versions /\ n \in Nat /\ seen[p] = 1..(n - 1) /\ writer = p /\ record[n] = None
      /\ Text[p][n] \in Texts
  BY <1>0, <1>1, <1>2, MigrateAssumption DEF AtNext, InTransaction
<1>4. Applied = 1..(n - 1) /\ Height = n - 1
  <2>1. PICK h \in 0..Versions : Applied = 1..h
    BY DEF IInv, NoGap
  <2>2. 1..(n - 1) \subseteq 1..h /\ n \notin 1..h
    BY <1>2, <1>3, <2>1 DEF Held, Applied
  <2>3. h = n - 1
    <3>1. CASE n - 1 > h
      <4>1. n - 1 \in 1..(n - 1) /\ n - 1 \notin 1..h
        BY <1>3, <2>1, <3>1
      <4> QED
        BY <2>2, <4>1
    <3> QED
      BY <1>3, <2>1, <2>2, <3>1
  <2> QED
    BY <2>1, <2>3, HeightIs
<1>5. Applied' = 1..n /\ \A v \in 1..(n - 1) : record'[v] = record[v]
  BY <1>0, <1>1, <1>3, <1>4 DEF Applied, IInv, TypeOK
<1>6. NoGap' /\ Height' = n
  <2>1. \A m \in 0..Versions : 1..m \subseteq Applied' /\ m + 1 \notin Applied' <=> m = n
    <3> SUFFICES ASSUME NEW m \in 0..Versions
                 PROVE  1..m \subseteq 1..n /\ m + 1 \notin 1..n <=> m = n
      BY <1>5
    <3>1. CASE m < n
      BY <1>0, <1>3, <3>1
    <3>2. CASE n < m
      <4>1. m \in 1..m /\ m \notin 1..n
        BY <1>0, <1>3, <3>2
      <4> QED
        BY <1>0, <1>3, <3>2, <4>1
    <3>3. CASE m = n
      BY <1>0, <1>3, <3>3
    <3> QED
      BY <1>0, <1>3, <3>1, <3>2, <3>3
  <2> QED
    BY <1>3, <1>5, <2>1 DEF NoGap, Height
<1>7. ProcessInv'
  <2>1. seen'[p] = 1..n
    BY <1>1, <1>3 DEF IInv, TypeOK
  <2>2. Held(p)'
    BY <1>3, <1>5, <2>1 DEF Held
  <2>3. AtNext(p)' /\ InTransaction(p)'
    BY <1>1, AfterEnd
  <2>4. ASSUME NEW q \in Processes \ {p} PROVE Held(q)' /\ AtNext(q)' /\ InTransaction(q)'
    <3>1. pc'[q] = pc[q] /\ txn'[q] = txn[q] /\ keys'[q] = keys[q] /\ seen'[q] = seen[q]
      BY <1>1 DEF End, IInv, TypeOK
    <3>2. pc[q] # "in"
      BY <1>3 DEF IInv, ProcessInv, InTransaction
    <3>3. Held(q)'
      BY <1>3, <1>4, <1>5, <3>1 DEF Held, IInv, ProcessInv
    <3> QED
      BY <1>1, <3>1, <3>2, <3>3 DEF AtNext, InTransaction, IInv, ProcessInv
  <2> QED
    BY <2>2, <2>3, <2>4 DEF ProcessInv
<1>8. SchemaWhole'
  <2>1. Len(schema) = Statements * (n - 1) /\ schema \in Seq(Row) /\ txn[p] \in Seq(Row)
    BY <1>4 DEF IInv, SchemaWhole, TypeOK
  <2>2. Len(schema') = Statements * n
    <3>1. Len(schema') = Len(schema) + Statements
      BY <1>1, <2>1, Joined
    <3>2. Statements * n = Statements * (n - 1) + Statements
      BY <1>0, <1>3
    <3> QED
      BY <2>1, <3>1, <3>2
  <2>3. ASSUME NEW v \in 1..n, NEW i \in 1..Statements
        PROVE  schema'[(v - 1) * Statements + i]
                 = [version |-> v, statement |-> i, text |-> record'[v], keys |-> v \notin Rebuilds]
    <3>1. CASE v # n
      <4>1. v \in 1..(n - 1) /\ n - 1 \in Nat
        BY <1>3, <3>1
      <4>2. (v - 1) * Statements + i \in 1..Len(schema)
        BY <1>0, <2>1, <4>1, Places
      <4>3. schema'[(v - 1) * Statements + i] = schema[(v - 1) * Statements + i]
        BY <1>1, <2>1, <4>2, Joined
      <4> QED
        BY <1>4, <1>5, <4>1, <4>3 DEF IInv, SchemaWhole
    <3>2. CASE v = n
      <4>1. (v - 1) * Statements + i = Len(schema) + i
        BY <1>0, <1>3, <2>1, <3>2
      <4>2. schema'[Len(schema) + i] = txn[p][i]
        <5>1. i \in 1..Len(txn[p])
          BY <1>1
        <5>2. (schema \o txn[p])[Len(schema) + i] = txn[p][i]
          <6>1. schema \in Seq(Row) /\ txn[p] \in Seq(Row)
            BY <2>1
          <6> QED
            BY <5>1, <6>1, JoinedAfter
        <5> QED
          BY <1>1, <5>2
      <4>3. record'[n] = Text[p][n]
        BY <1>1, <1>3 DEF IInv, TypeOK
      <4> QED
        BY <1>1, <1>2, <3>2, <4>1, <4>2, <4>3 DEF InTransaction
    <3> QED
      BY <3>1, <3>2
  <2> QED
    BY <1>5, <1>6, <2>2, <2>3 DEF SchemaWhole
<1>9. Ledger' = Append(Ledger, Text[p][n])
  <2>1. Ledger = [v \in 1..(n - 1) |-> record[v]] /\ Ledger' = [v \in 1..n |-> record'[v]]
    BY <1>4, <1>6 DEF Ledger
  <2>2. record'[n] = Text[p][n]
    BY <1>1, <1>3 DEF IInv, TypeOK
  <2>3. Ledger \in Seq(Texts) /\ Len(Ledger) = n - 1
    <3>1. \A v \in 1..(n - 1) : record[v] \in Texts
      BY <1>4 DEF Applied, IInv, TypeOK
    <3>2. n - 1 \in Nat
      BY <1>3
    <3> QED
      BY <2>1, <3>1, <3>2
  <2> QED
    BY <1>3, <1>5, <2>1, <2>2, <2>3
<1> QED
  BY <1>6, <1>7, <1>8, <1>9

------------------------------------------------------------------------------
(* Theorems.                                                                 *)

LEMMA InitRight == Init => IInv
<1> SUFFICES ASSUME Init PROVE IInv
  OBVIOUS
<1>0. Versions \in Nat /\ Applied = 1..0
  BY MigrateAssumption DEF Init, Applied
<1>1. Height = 0
  BY <1>0, HeightIs
<1>2. TypeOK
  BY MigrateAssumption DEF Init, TypeOK, Over
<1>3. NoGap /\ ProcessInv
  <2>1. 0 \in 0..Versions /\ {} = 1..0
    BY <1>0
  <2> QED
    BY <1>0, <2>1 DEF Init, NoGap, ProcessInv, Held, AtNext, InTransaction
<1>4. SchemaWhole
  BY <1>0, <1>1, MigrateAssumption DEF Init, SchemaWhole
<1> QED
  BY <1>2, <1>3, <1>4 DEF IInv

LEMMA StepKeeps == IInv /\ [Next]_vars => IInv'
<1> SUFFICES ASSUME IInv, [Next]_vars PROVE IInv'
  OBVIOUS
<1>1. ASSUME NEW p \in Processes, Commit(p) PROVE IInv'
  BY <1>1, CommitStep, TypeStep DEF IInv, Step
<1>2. ASSUME NEW p \in Processes, Start(p) \/ Step(p) \/ Die(p), ~Commit(p) PROVE IInv'
  <2>1. UNCHANGED database
    BY <1>2 DEF Start, Step, Take, Finish, Begin, Busy, Run, Fail, Die
  <2>2. ProcessInv'
    BY <1>2, ProcessStep DEF Step
  <2> QED
    BY <1>2, <2>1, <2>2, TypeStep, IdleDatabase DEF IInv
<1>3. CASE UNCHANGED vars
  <2>1. NoGap' /\ SchemaWhole'
    BY <1>3, IdleDatabase DEF vars, database
  <2> QED
    BY <1>3, <2>1
    DEF vars, IInv, TypeOK, ProcessInv, Held, AtNext, InTransaction, Applied, database
<1> QED
  BY <1>1, <1>2, <1>3 DEF Next

\* What each process has read, applied and not yet committed fits the database after every
\* step (run_migrations, _apply).
THEOREM InductiveInvariant == Spec => []IInv
BY InitRight, StepKeeps, PTL DEF Spec

\* Every variable keeps to its set: the type invariant of the migrations.
THEOREM TypeCorrect == Spec => []TypeOK
BY InductiveInvariant, PTL DEF IInv

\* No migration is ever half there: the database holds every statement of every recorded
\* version, once and in order, and nothing of any other, and one process at a time writes
\* a migration that no one has recorded (_apply, _transactional_ddl).
THEOREM AlwaysWhole == Spec => []Whole
<1>1. IInv => Whole
  BY DEF IInv, ProcessInv, AtNext, InTransaction, Whole, OneWriter
<1> QED
  BY <1>1, InductiveInvariant, PTL

\* To whoever opens the database the schema moves up one whole version at a time, whatever
\* processes race, fail and die (run_migrations).
THEOREM Refinement == Spec => ImplementsLedger
<1>1. Init => L!Init
  <2> SUFFICES ASSUME Init PROVE L!Init
    OBVIOUS
  <2>1. Applied = 1..0 /\ Versions \in Nat
    BY MigrateAssumption DEF Init, Applied
  <2>2. Height = 0
    BY <2>1, HeightIs
  <2> QED
    BY <2>2 DEF L!Init, Ledger
<1>2. IInv /\ [Next]_vars => [L!Next]_Ledger
  <2> SUFFICES ASSUME IInv, [Next]_vars PROVE [L!Next]_Ledger
    OBVIOUS
  <2>1. ASSUME NEW p \in Processes, Commit(p) PROVE L!Next
    <3>1. now[p] \in 1..Known[p] /\ Known[p] \in 0..Versions
      BY <2>1, MigrateAssumption DEF Commit, IInv, ProcessInv, AtNext
    <3>2. Text[p][now[p]] \in Texts
      BY <3>1, MigrateAssumption
    <3> QED
      BY <2>1, <3>2, CommitStep DEF L!Next, L!Apply
  <2>2. ASSUME NEW p \in Processes, Start(p) \/ Step(p) \/ Die(p), ~Commit(p)
        PROVE  UNCHANGED Ledger
    <3>1. UNCHANGED database
      BY <2>2 DEF Start, Step, Take, Finish, Begin, Busy, Run, Fail, Die
    <3> QED
      BY <3>1, IdleDatabase
  <2>3. CASE UNCHANGED vars
    BY <2>3, IdleDatabase DEF vars, database
  <2> QED
    BY <2>1, <2>2, <2>3 DEF Next
<1> QED
  BY <1>1, <1>2, InductiveInvariant, PTL DEF Spec, ImplementsLedger, L!Spec
=============================================================================
