---------------------------- MODULE Work_proofs ----------------------------
(***************************************************************************)
(* Proofs about the three components that hand out work and share no       *)
(* state: the queue of pages, for any pages, publishers and stories, and   *)
(* any limits; the ordered pool that reads the pages of a crawl; and the   *)
(* command pane's runner, for any number of runs, lines, and places in a   *)
(* queue and in the index.                                                 *)
(***************************************************************************)
EXTENDS Queue, MapOrdered, Runner, SequenceTheorems, FiniteSetTheorems, WellFoundedInduction, TLAPS

------------------------------------------------------------------------------
(* The queue of pages.                                                       *)

Row == [status : {"none", "discovered", "skipped"} \cup Tried,
        error : {"none", "unreadable", "refusing", "not news", "same story",
                 "refused", "lost", "thin"},
        via : {"none", "net", "cache"}, failures : 0..MaxSameFailures,
        kept : Pages \cup {0}]

\* A table whose rows have their type, and in which the copy kept for a page set aside is
\* a copy of its story.
Sound(r) ==
  /\ r \in [Pages -> Row]
  /\ \A p \in Aside(r, {"same story"}) :
       r[p].kept \in Pages /\ StoryOf[r[p].kept] = StoryOf[p]

\* Table s comes from r by steps that only queue pages and set them aside.
Moved(r, s) ==
  \A p \in Pages : \/ s[p] = r[p]
                   \/ {r[p].status, s[p].status} \subseteq {"discovered", "skipped"}

\* Every page set aside as a copy has its kept copy read or queued.
Held(r) == \A p \in Aside(r, {"same story"}) : r[r[p].kept].status \in KeptHolds

\* StoryHeld, of any table.
HasCopy(r) ==
  \A p \in Aside(r, {"same story"}) :
    \E q \in Pages : StoryOf[q] = StoryOf[p] /\ r[q].status \in KeptHolds

\* A page's last try is listed once, and leaves a row that was tried.
TriesOK ==
  /\ tries \in Seq([page : Pages, days : 0..ProbeEvery])
  /\ \A i, j \in DOMAIN tries : tries[i].page = tries[j].page => i = j
  /\ \A i \in DOMAIN tries : row[tries[i].page].status \in Tried

IInv ==
  /\ Sound(row)
  /\ TriesOK
  /\ cached \cup cited \cup named \cup work \subseteq Pages
  /\ closed \subseteq Hosts

-----------------------------------------------------------------------------
(* Least and greatest pages, and rows not tried.                           *)

\* A set of pages, not empty, has a least and a greatest.
LEMMA Extremes ==
  ASSUME NEW S \in SUBSET Pages, S # {}
  PROVE  Min(S) \in S /\ Max(S) \in S
<1> DEFINE Has(U) == /\ \E x \in U : \A y \in U : x <= y
                     /\ \E x \in U : \A y \in U : x >= y
           Lacks  == {U \in SUBSET S : U # {} /\ ~Has(U)}
<1>1. S \subseteq Nat /\ IsFiniteSet(S)
  BY QueueAssumption, FS_Subset
<1>2. Lacks = {}
  <2> SUFFICES ASSUME Lacks # {} PROVE FALSE
    OBVIOUS
  <2>1. IsWellFoundedOn(StrictSubsetOrdering(S), SUBSET S)
    BY <1>1, FS_StrictSubsetOrderingWellFounded, FS_FiniteSubsetsOfFinite
  <2>2. Lacks \subseteq SUBSET S
    OBVIOUS
  <2>3. PICK U \in Lacks : \A V \in Lacks : ~(<<V, U>> \in StrictSubsetOrdering(S))
    <3> HIDE DEF Lacks
    <3> QED
      BY <2>1, <2>2, WFMin
  <2>4. PICK u \in U : TRUE
    OBVIOUS
  <2>5. U \ {u} \in SUBSET S /\ U \ {u} \subseteq U /\ U \ {u} # U /\ U \in SUBSET S
    BY <2>4
  <2>6. U \ {u} \notin Lacks
    BY <2>3, <2>5 DEF StrictSubsetOrdering
  <2>7. CASE U = {u}
    BY <1>1, <2>4, <2>5, <2>7
  <2>8. CASE U \ {u} # {}
    <3>1. Has(U \ {u})
      BY <2>5, <2>6, <2>8
    <3>2. u \in Nat /\ U \subseteq Nat /\ U = (U \ {u}) \cup {u}
      BY <1>1, <2>4, <2>5
    <3>3. PICK b \in U \ {u} : \A y \in U \ {u} : b <= y
      BY <3>1
    <3>4. PICK t \in U \ {u} : \A y \in U \ {u} : t >= y
      BY <3>1
    <3>5. \E x \in U : \A y \in U : x <= y
      <4>1. CASE b <= u
        BY <3>2, <3>3, <4>1
      <4>2. CASE u <= b
        BY <3>2, <3>3, <4>2
      <4> QED
        BY <3>2, <4>1, <4>2
    <3>6. \E x \in U : \A y \in U : x >= y
      <4>1. CASE t >= u
        BY <3>2, <3>4, <4>1
      <4>2. CASE u >= t
        BY <3>2, <3>4, <4>2
      <4> QED
        BY <3>2, <4>1, <4>2
    <3> QED
      BY <3>5, <3>6
  <2> QED
    BY <2>4, <2>7, <2>8
<1>3. Has(S)
  BY <1>2
<1> QED
  BY <1>3 DEF Min, Max

\* No failures is a number of failures.
LEMMA Zero == 0 \in 0..MaxSameFailures
<1>1. MaxSameFailures \in Nat
  BY QueueAssumption
<1> QED
  BY <1>1

-----------------------------------------------------------------------------
(* The steps of prepare_queue, each of any sound table.                    *)

\* Queueing pages that were aside, or queued, keeps a table sound.
LEMMA PutSound ==
  ASSUME NEW r, Sound(r), NEW ps \in SUBSET Pages,
         \A p \in ps : r[p].status \in {"discovered", "skipped"}
  PROVE  Sound(Put(r, ps)) /\ Moved(r, Put(r, ps))
<1> DEFINE s == Put(r, ps)
<1>1. \A p \in Pages : s[p] = IF p \notin ps THEN r[p] ELSE Untried("discovered", "none", 0)
  BY DEF Put
<1>2. s = [p \in Pages |-> s[p]]
  BY DEF Put
<1> HIDE DEF s
<1>3. \A p \in Pages : p \notin ps => s[p] = r[p]
  BY <1>1
<1>4. \A p \in ps : s[p].status = "discovered" /\ s[p] \in Row
  <2> SUFFICES ASSUME NEW p \in ps PROVE s[p].status = "discovered" /\ s[p] \in Row
    OBVIOUS
  <2>1. s[p] = Untried("discovered", "none", 0)
    BY <1>1
  <2> QED
    BY <2>1, Zero DEF Untried, Row
<1> QED
  BY ZenonT(30), <1>2, <1>3, <1>4 DEF Sound, Moved, Aside, s

\* So does setting queued ones aside, for any reason but their story.
LEMMA SkipSound ==
  ASSUME NEW r, Sound(r), NEW ps \in SUBSET Queued(r), NEW why,
         \A p \in ps : why[p] \in {"unreadable", "refusing", "not news"}
  PROVE  Sound(Skip(r, ps, why)) /\ Moved(r, Skip(r, ps, why))
<1> DEFINE s == Skip(r, ps, why)
<1>1. \A p \in Pages : s[p] = IF p \notin ps THEN r[p] ELSE Untried("skipped", why[p], 0)
  BY DEF Skip
<1>2. s = [p \in Pages |-> s[p]]
  BY DEF Skip
<1> HIDE DEF s
<1>3. \A p \in Pages : p \notin ps => s[p] = r[p]
  BY <1>1
<1>4. \A p \in ps : p \in Pages /\ r[p].status = "discovered"
  BY DEF Queued
<1>5. \A p \in ps : s[p].status = "skipped" /\ s[p].error # "same story" /\ s[p] \in Row
  <2> SUFFICES ASSUME NEW p \in ps
               PROVE  s[p].status = "skipped" /\ s[p].error # "same story" /\ s[p] \in Row
    OBVIOUS
  <2>1. s[p] = Untried("skipped", why[p], 0)
    BY <1>1, <1>4
  <2>2. why[p] \in {"unreadable", "refusing", "not news"}
    OBVIOUS
  <2>3. /\ Untried("skipped", why[p], 0).status = "skipped"
        /\ Untried("skipped", why[p], 0).error # "same story"
    BY <2>2 DEF Untried
  <2>4. Untried("skipped", why[p], 0) \in Row
    BY <2>2, Zero DEF Untried, Row
  <2> QED
    BY <2>1, <2>3, <2>4
<1> QED
  BY ZenonT(30), <1>2, <1>3, <1>4, <1>5 DEF Sound, Moved, Aside, s

LEMMA MovedOn ==
  ASSUME NEW r, NEW s, NEW t, Moved(r, s), Moved(s, t)
  PROVE  Moved(r, t)
BY DEF Moved

LEMMA RequeueSound ==
  ASSUME NEW r, Sound(r), NEW un
  PROVE  Sound(Requeue(r, un)) /\ Moved(r, Requeue(r, un))
BY PutSound DEF Requeue, Aside

LEMMA DiscardSound ==
  ASSUME NEW r, Sound(r), NEW un
  PROVE  Sound(Discard(r, un)) /\ Moved(r, Discard(r, un))
<1> DEFINE ps  == Queued(r) \cap un
           why == [p \in Pages |-> IF HostOf[p] \in closed THEN "unreadable" ELSE "refusing"]
<1>1. ps \in SUBSET Queued(r) /\ \A p \in ps : why[p] \in {"unreadable", "refusing", "not news"}
  BY DEF Queued
<1> HIDE DEF ps, why
<1>2. Sound(Skip(r, ps, why)) /\ Moved(r, Skip(r, ps, why))
  BY <1>1, SkipSound
<1> QED
  BY <1>2 DEF Discard, ps, why

LEMMA NotNewsSound ==
  ASSUME NEW r, Sound(r)
  PROVE  Sound(SetAsideNotNews(r)) /\ Moved(r, SetAsideNotNews(r))
<1> DEFINE back == Put(r, Aside(r, {"not news"}) \ named)
<1>1. Sound(back) /\ Moved(r, back)
  BY PutSound DEF Aside
<1> HIDE DEF back
<1>2. Sound(Skip(back, Queued(back) \cap named, [p \in Pages |-> "not news"]))
      /\ Moved(back, Skip(back, Queued(back) \cap named, [p \in Pages |-> "not news"]))
  BY <1>1, SkipSound DEF Queued
<1> QED
  BY <1>1, <1>2, MovedOn DEF SetAsideNotNews, back

\* What is left aside as a copy once the others were put back has its copy held.
LEMMA ReturnedHolds ==
  ASSUME NEW r, Sound(r)
  PROVE  Sound(Returned(r)) /\ Moved(r, Returned(r)) /\ Held(Returned(r))
<1>1. Sound(Returned(r)) /\ Moved(r, Returned(r))
  BY PutSound DEF Returned, Aside
<1>2. Held(Returned(r))
  BY <1>1 DEF Held, Returned, Put, Aside, Sound, KeptHolds, Untried
<1> QED
  BY <1>1, <1>2

\* The copy of a queued page that is kept is of its story, is read or queued, and is the
\* one kept for itself.
LEMMA KeptCopyIs ==
  ASSUME NEW r, Sound(r), NEW un, NEW p \in Queued(r)
  PROVE  /\ KeptCopy(r, un, p) \in Pages
         /\ StoryOf[KeptCopy(r, un, p)] = StoryOf[p]
         /\ r[KeptCopy(r, un, p)].status \in KeptHolds
         /\ KeptCopy(r, un, KeptCopy(r, un, p)) = KeptCopy(r, un, p)
<1> DEFINE same   == {q \in Pages : StoryOf[q] = StoryOf[p]}
           read   == {q \in same : r[q].status \in Settled}
           queued == same \cap Queued(r)
           k      == IF read # {} THEN Min(read)
                     ELSE IF queued \ un # {} THEN Min(queued \ un) ELSE Min(queued)
<1>1. KeptCopy(r, un, p) = k
  BY DEF KeptCopy
<1>2. p \in queued /\ read \in SUBSET Pages /\ queued \in SUBSET Pages
      /\ queued \ un \in SUBSET Pages
  BY DEF Queued
<1>3. k \in read \cup queued
  BY <1>2, Extremes
<1>4. k \in Pages /\ StoryOf[k] = StoryOf[p] /\ r[k].status \in KeptHolds
  BY <1>3 DEF KeptHolds, Settled, Queued
<1>5. {q \in Pages : StoryOf[q] = StoryOf[k]} = same
  BY <1>4
<1>6. KeptCopy(r, un, k) = k
  BY <1>5 DEF KeptCopy
<1> QED
  BY <1>1, <1>4, <1>6

\* Setting copies aside keeps a copy of each story that had one.
LEMMA DropSound ==
  ASSUME NEW r, Sound(r), NEW un
  PROVE  /\ Sound(DropSameStory(r, un)) /\ Moved(r, DropSameStory(r, un))
         /\ Held(r) => HasCopy(DropSameStory(r, un))
<1> DEFINE s == DropSameStory(r, un)
           Kept(p) == r[p].status # "discovered" \/ KeptCopy(r, un, p) = p
<1>1. \A p \in Pages : Kept(p) => s[p] = r[p]
  BY DEF DropSameStory
<1>2. \A p \in Pages : ~Kept(p) => s[p] = Untried("skipped", "same story", KeptCopy(r, un, p))
  BY DEF DropSameStory
<1>3. s = [p \in Pages |-> s[p]]
  BY DEF DropSameStory
<1> HIDE DEF s
<1>4. ASSUME NEW p \in Pages, ~Kept(p)
      PROVE  /\ p \in Queued(r) /\ r[p].status = "discovered"
             /\ s[p].status = "skipped" /\ s[p].kept = KeptCopy(r, un, p) /\ s[p] \in Row
             /\ s[p].kept \in Pages /\ StoryOf[s[p].kept] = StoryOf[p]
             /\ r[s[p].kept].status \in KeptHolds
  <2>1. p \in Queued(r) /\ r[p].status = "discovered"
    BY <1>4 DEF Queued
  <2>2. s[p] = Untried("skipped", "same story", KeptCopy(r, un, p))
    BY <1>2, <1>4
  <2>3. KeptCopy(r, un, p) \in Pages /\ StoryOf[KeptCopy(r, un, p)] = StoryOf[p]
        /\ r[KeptCopy(r, un, p)].status \in KeptHolds
    BY <2>1, KeptCopyIs
  <2> DEFINE k == KeptCopy(r, un, p)
  <2>4. s[p].status = "skipped" /\ s[p].kept = k /\ s[p] \in Row
    <3>1. k \in Pages
      BY <2>3
    <3> HIDE DEF k
    <3>2. /\ Untried("skipped", "same story", k).status = "skipped"
          /\ Untried("skipped", "same story", k).kept = k
      BY DEF Untried
    <3>3. Untried("skipped", "same story", k) \in Row
      BY <3>1, Zero DEF Untried, Row
    <3>4. s[p] = Untried("skipped", "same story", k)
      BY <2>2 DEF k
    <3> QED
      BY <3>2, <3>3, <3>4
  <2> QED
    BY <2>1, <2>3, <2>4
<1>5. Sound(s)
  <2>1. \A p \in Pages : s[p] \in Row
    BY ZenonT(30), <1>1, <1>4 DEF Sound
  <2> QED
    <3>1. s \in [Pages -> Row]
      BY <1>3, <2>1
    <3>2. ASSUME NEW p \in Aside(s, {"same story"})
          PROVE  s[p].kept \in Pages /\ StoryOf[s[p].kept] = StoryOf[p]
      <4>1. CASE Kept(p)
        BY <1>1, <4>1 DEF Sound, Aside
      <4>2. CASE ~Kept(p)
        BY <1>4, <4>2 DEF Aside
      <4> QED
        BY <4>1, <4>2
    <3> QED
      BY <3>1, <3>2 DEF Sound
<1>6. Moved(r, s)
  BY <1>1, <1>4 DEF Moved
<1>7. ASSUME Held(r) PROVE HasCopy(s)
  <2> SUFFICES ASSUME NEW p \in Aside(s, {"same story"})
               PROVE  \E q \in Pages : StoryOf[q] = StoryOf[p] /\ s[q].status \in KeptHolds
    BY DEF HasCopy
  <2>1. s[p].kept \in Pages /\ StoryOf[s[p].kept] = StoryOf[p]
    BY <1>5 DEF Sound
  <2>2. r[s[p].kept].status \in KeptHolds
    <3>1. CASE Kept(p)
      BY <1>1, <1>7, <3>1 DEF Held, Aside
    <3>2. CASE ~Kept(p)
      BY <1>4, <3>2 DEF Aside
    <3> QED
      BY <3>1, <3>2
  <2>3. CASE Kept(s[p].kept)
    BY <1>1, <2>1, <2>2, <2>3
  <2>4. CASE ~Kept(s[p].kept)
    <3> DEFINE k == KeptCopy(r, un, s[p].kept)
    <3>1. s[p].kept \in Queued(r)
      BY <2>1, <2>4 DEF Queued
    <3>2. k \in Pages /\ StoryOf[k] = StoryOf[p] /\ r[k].status \in KeptHolds
          /\ KeptCopy(r, un, k) = k
      BY ZenonT(30), <2>1, <3>1, KeptCopyIs
    <3>3. s[k] = r[k]
      BY <1>1, <3>2
    <3> QED
      BY <3>2, <3>3
  <2> QED
    BY <2>3, <2>4
<1> QED
  BY <1>5, <1>6, <1>7 DEF s

-----------------------------------------------------------------------------
(* The list of tries, and what a try records.                              *)

ATry == [page : Pages, days : 0..ProbeEvery]

\* Taking a page off the list leaves the others, in their order.
LEMMA WithoutIs ==
  ASSUME TriesOK, NEW p \in Pages
  PROVE  /\ Without(p) \in Seq(ATry)
         /\ \A i, j \in DOMAIN Without(p) : Without(p)[i].page = Without(p)[j].page => i = j
         /\ \A i \in DOMAIN Without(p) :
              /\ Without(p)[i].page # p
              /\ \E j \in DOMAIN tries : Without(p)[i].page = tries[j].page
<1>1. ProbeEvery \in Nat
  BY QueueAssumption
<1>2. tries \in Seq(ATry)
  BY DEF TriesOK, ATry
<1>3. CASE Index(p) = {}
  <2>1. Without(p) = tries
    BY <1>3 DEF Without
  <2> QED
    BY <1>2, <1>3, <2>1 DEF TriesOK, Index
<1>4. CASE Index(p) # {}
  <2> DEFINE i == CHOOSE k \in Index(p) : TRUE
             joined == IF i = 1 THEN tries
                       ELSE [tries EXCEPT ![i - 1].days = Min2(@ + tries[i].days, ProbeEvery)]
             n == Len(tries)
             w == SubSeq(joined, 1, i - 1) \o SubSeq(joined, i + 1, Len(joined))
  <2>1. i \in DOMAIN tries /\ tries[i].page = p
    BY <1>4 DEF Index
  <2>2. n \in Nat /\ DOMAIN tries = 1..n /\ i \in 1..n
    BY <1>2, <2>1
  <2> HIDE DEF i
  <2>3. joined \in Seq(ATry) /\ Len(joined) = n /\ \A k \in 1..n : joined[k].page = tries[k].page
    <3>1. CASE i = 1
      BY <1>2, <2>2, <3>1
    <3>2. CASE i # 1
      <4> DEFINE d == Min2(tries[i - 1].days + tries[i].days, ProbeEvery)
      <4>1. i - 1 \in 1..n /\ tries[i] \in ATry /\ tries[i - 1] \in ATry
        BY <1>2, <2>2, <3>2
      <4>2. d \in 0..ProbeEvery
        BY <1>1, <4>1 DEF Min2, ATry
      <4>3. joined = [tries EXCEPT ![i - 1] = [tries[i - 1] EXCEPT !.days = d]]
        BY <3>2
      <4>4. [tries[i - 1] EXCEPT !.days = d] \in ATry
            /\ [tries[i - 1] EXCEPT !.days = d].page = tries[i - 1].page
        <5> HIDE DEF d
        <5> QED
          BY <4>1, <4>2 DEF ATry
      <4> HIDE DEF d, joined
      <4> QED
        BY <1>2, <2>2, <4>1, <4>3, <4>4
    <3> QED
      BY <3>1, <3>2
  <2> HIDE DEF joined
  <2>4. w \in Seq(ATry) /\ Len(w) = n - 1
        /\ \A k \in 1..(n - 1) : w[k] = IF k < i THEN joined[k] ELSE joined[k + 1]
    <3> DEFINE u == SubSeq(joined, 1, i - 1)
               v == SubSeq(joined, i + 1, n)
    <3>1. \A k \in 1..n : joined[k] \in ATry
      BY <2>2, <2>3
    <3>2. u \in Seq(ATry) /\ Len(u) = i - 1 /\ \A k \in 1..(i - 1) : u[k] = joined[k]
      <4>1. i - 1 \in Int /\ \A k \in 1..(i - 1) : joined[k] \in ATry
        BY <2>2, <3>1
      <4> HIDE DEF joined
      <4>2. /\ u \in Seq(ATry) /\ Len(u) = IF 1 <= i - 1 THEN (i - 1) - 1 + 1 ELSE 0
            /\ \A k \in 1..((i - 1) - 1 + 1) : u[k] = joined[1 + k - 1]
        BY <4>1, SubSeqProperties
      <4> HIDE DEF u
      <4> QED
        BY <2>2, <4>2
    <3>3. v \in Seq(ATry) /\ Len(v) = n - i /\ \A k \in 1..(n - i) : v[k] = joined[k + i]
      <4>1. i + 1 \in Int /\ n \in Int /\ \A k \in (i + 1)..n : joined[k] \in ATry
        BY <2>2, <3>1
      <4>2. /\ v \in Seq(ATry) /\ Len(v) = IF i + 1 <= n THEN n - (i + 1) + 1 ELSE 0
            /\ \A k \in 1..(n - (i + 1) + 1) : v[k] = joined[i + 1 + k - 1]
        BY <4>1, SubSeqProperties
      <4>3. i \in Int /\ i <= n
        BY <2>2
      <4>4. ASSUME NEW k \in 1..(n - i) PROVE v[k] = joined[k + i]
        <5>1. k \in 1..(n - (i + 1) + 1) /\ i + 1 + k - 1 = k + i
          BY <4>1, <4>3
        <5> QED
          BY <4>2, <5>1
      <4> HIDE DEF v, n
      <4>5. Len(v) = n - i
        BY <4>1, <4>2, <4>3
      <4> QED
        BY <4>2, <4>4, <4>5
    <3>4. w = u \o v
      BY <2>3
    <3> HIDE DEF u, v, w
    <3>5. /\ w \in Seq(ATry) /\ Len(w) = Len(u) + Len(v)
          /\ \A k \in 1..(Len(u) + Len(v)) : w[k] = IF k <= Len(u) THEN u[k] ELSE v[k - Len(u)]
      BY <3>2, <3>3, <3>4, ConcatProperties
    <3> HIDE DEF n
    <3>6. n \in Nat /\ i \in 1..n /\ Len(u) + Len(v) = n - 1
      BY <2>2, <3>2, <3>3
    <3>7. ASSUME NEW k \in 1..(n - 1), k < i PROVE w[k] = joined[k]
      <4>1. k \in 1..(i - 1) /\ k <= Len(u)
        BY <3>2, <3>6, <3>7
      <4> QED
        BY <3>2, <3>5, <3>6, <4>1
    <3>8. ASSUME NEW k \in 1..(n - 1), ~(k < i) PROVE w[k] = joined[k + 1]
      <4>1. ~(k <= Len(u)) /\ k - Len(u) \in 1..(n - i) /\ k - Len(u) + i = k + 1
        BY <3>2, <3>6, <3>8
      <4>2. w[k] = v[k - Len(u)]
        BY <3>5, <3>6, <4>1
      <4> QED
        BY <3>3, <4>1, <4>2
    <3> QED
      BY <3>5, <3>6, <3>7, <3>8
  <2>5. Without(p) = w
    BY <1>4 DEF Without, RemoveAt, i, joined
  <2> HIDE DEF w
  <2>6. DOMAIN w = 1..(n - 1)
    BY <2>2, <2>4
  <2>7. \A k \in 1..(n - 1) : w[k].page = IF k < i THEN tries[k].page ELSE tries[k + 1].page
    BY <2>2, <2>3, <2>4
  <2>8. \A k \in 1..(n - 1) :
          \E j \in DOMAIN tries : j # i /\ j = (IF k < i THEN k ELSE k + 1) /\ w[k].page = tries[j].page
    BY <2>2, <2>7
  <2>9. \A k, l \in 1..(n - 1) : w[k].page = w[l].page => k = l
    <3> SUFFICES ASSUME NEW k \in 1..(n - 1), NEW l \in 1..(n - 1), w[k].page = w[l].page
                 PROVE  k = l
      OBVIOUS
    <3>1. PICK j \in DOMAIN tries : j = (IF k < i THEN k ELSE k + 1) /\ w[k].page = tries[j].page
      BY <2>8
    <3>2. PICK m \in DOMAIN tries : m = (IF l < i THEN l ELSE l + 1) /\ w[l].page = tries[m].page
      BY <2>8
    <3>3. j = m
      BY <3>1, <3>2 DEF TriesOK
    <3> HIDE DEF n
    <3> QED
      BY <2>2, <3>1, <3>2, <3>3
  <2>10. \A k \in 1..(n - 1) : w[k].page # p
    BY <2>1, <2>8 DEF TriesOK
  <2> QED
    BY <2>4, <2>5, <2>6, <2>8, <2>9, <2>10
<1> QED
  BY <1>3, <1>4

\* A try leaves a row that was tried, and one read before stays read.
LEMMA RecordedIs ==
  ASSUME NEW r \in Row, NEW answer \in {"ok", "thin", "refused", "lost"},
         NEW via \in {"net", "cache"}
  PROVE  /\ Recorded(r, answer, via) \in Row
         /\ Recorded(r, answer, via).status \in Tried
         /\ r.status \in Settled => Recorded(r, answer, via).status \in Settled
<1>1. MaxSameFailures \in Nat \ {0}
  BY QueueAssumption
<1>2. Streaked(r, answer) \in 0..MaxSameFailures
  <2>1. r.failures \in 0..MaxSameFailures
    BY DEF Row
  <2>2. Min2(r.failures + 1, MaxSameFailures) \in 0..MaxSameFailures
    BY <1>1, <2>1 DEF Min2
  <2>3. 0 \in 0..MaxSameFailures /\ 1 \in 0..MaxSameFailures
    BY <1>1
  <2> QED
    BY <2>2, <2>3 DEF Streaked
<1>3. Status(answer) \in Tried /\ Error(answer) \in {"none", "refused", "lost", "thin"}
  BY DEF Status, Error, Tried, Settled, Retryable
<1>4. Tried \subseteq {"none", "discovered", "skipped"} \cup Tried
  OBVIOUS
<1>5. CASE Status(answer) \in Retryable /\ r.status \in Settled
  <2> DEFINE e == Error(answer)
  <2>1. e \in {"none", "refused", "lost", "thin"}
    BY <1>3
  <2>2. Recorded(r, answer, via) = [r EXCEPT !.error = e]
    BY <1>5 DEF Recorded
  <2> HIDE DEF e
  <2>3. [r EXCEPT !.error = e] \in Row /\ [r EXCEPT !.error = e].status = r.status
    BY <2>1 DEF Row
  <2> QED
    BY <1>5, <2>2, <2>3 DEF Tried
<1>6. CASE ~(Status(answer) \in Retryable /\ r.status \in Settled)
  <2> DEFINE new == [status |-> Status(answer), error |-> Error(answer), via |-> via,
                     failures |-> Streaked(r, answer), kept |-> 0]
  <2>1. Recorded(r, answer, via) = new
    BY <1>6 DEF Recorded
  <2>2. new \in Row /\ new.status = Status(answer)
    BY <1>2, <1>3, <1>4 DEF Row
  <2>3. r.status \in Settled => Status(answer) \in Settled
    BY <1>3, <1>6 DEF Tried
  <2> QED
    BY <1>3, <2>1, <2>2, <2>3
<1> QED
  BY <1>5, <1>6

\* Recording a try keeps the invariant, and a page read before stays read.
LEMMA RecordKeeps ==
  ASSUME IInv, NEW p \in Pages, NEW answer \in {"ok", "thin", "refused", "lost"},
         NEW via \in {"net", "cache"}, Record(p, answer, via)
  PROVE  /\ Sound(row') /\ TriesOK' /\ cited' \subseteq Pages
         /\ \A q \in Pages : row[q].status \in Settled => row'[q].status \in Settled
<1>1. row \in [Pages -> Row] /\ row[p] \in Row
  BY DEF IInv, Sound
<1> DEFINE new == Recorded(row[p], answer, via)
<1>2. new \in Row /\ new.status \in Tried /\ (row[p].status \in Settled => new.status \in Settled)
  BY <1>1, RecordedIs
<1>3. row' = [row EXCEPT ![p] = new]
  BY DEF Record
<1> HIDE DEF new
<1>4. row'[p] = new /\ \A q \in Pages \ {p} : row'[q] = row[q]
  BY <1>1, <1>3
<1>5. row' \in [Pages -> Row]
  BY <1>1, <1>2, <1>3
<1>6. new.status # "skipped"
  BY <1>2 DEF Tried, Settled, Retryable
<1>7. Sound(row')
  BY <1>4, <1>5, <1>6 DEF IInv, Sound, Aside
<1>8. TriesOK'
  <2> DEFINE w == Without(p)
             e == [page |-> p, days |-> 0]
  <2>1. /\ w \in Seq(ATry)
        /\ \A i, j \in DOMAIN w : w[i].page = w[j].page => i = j
        /\ \A i \in DOMAIN w : w[i].page # p /\ \E j \in DOMAIN tries : w[i].page = tries[j].page
    BY WithoutIs DEF IInv
  <2>2. tries' = Append(w, e) \/ tries' = w
    BY DEF Record
  <2> HIDE DEF w
  <2>3. \A i \in DOMAIN w : w[i] \in ATry
    BY <2>1
  <2>4. \A i \in DOMAIN w : row'[w[i].page].status \in Tried
    <3> SUFFICES ASSUME NEW i \in DOMAIN w PROVE row'[w[i].page].status \in Tried
      OBVIOUS
    <3>1. w[i].page \in Pages \ {p}
      BY <2>1, <2>3 DEF ATry
    <3>2. row[w[i].page].status \in Tried
      BY <2>1 DEF IInv, TriesOK
    <3> QED
      BY <1>4, <3>1, <3>2
  <2>5. CASE tries' = w
    BY <2>1, <2>4, <2>5 DEF TriesOK, ATry
  <2>6. CASE tries' = Append(w, e)
    <3>1. e \in ATry /\ e.page = p
      BY QueueAssumption DEF ATry
    <3> HIDE DEF e
    <3>2. tries' \in Seq(ATry) /\ DOMAIN tries' = 1..(Len(w) + 1)
      BY <2>1, <2>6, <3>1
    <3>3. /\ DOMAIN w = 1..Len(w) /\ Len(w) \in Nat
          /\ \A i \in 1..Len(w) : tries'[i] = w[i]
          /\ tries'[Len(w) + 1] = e
      BY <2>1, <2>6, <3>1
    <3>4. \A i, j \in DOMAIN tries' : tries'[i].page = tries'[j].page => i = j
      <4> SUFFICES ASSUME NEW i \in DOMAIN tries', NEW j \in DOMAIN tries',
                          tries'[i].page = tries'[j].page
                   PROVE  i = j
        OBVIOUS
      <4>1. (i \in DOMAIN w \/ i = Len(w) + 1) /\ (j \in DOMAIN w \/ j = Len(w) + 1)
        BY <3>2, <3>3
      <4> QED
        BY <2>1, <3>1, <3>3, <4>1
    <3>5. \A i \in DOMAIN tries' : row'[tries'[i].page].status \in Tried
      <4> SUFFICES ASSUME NEW i \in DOMAIN tries' PROVE row'[tries'[i].page].status \in Tried
        OBVIOUS
      <4>1. i \in DOMAIN w \/ i = Len(w) + 1
        BY <3>2, <3>3
      <4> QED
        BY <1>2, <1>4, <2>4, <3>1, <3>3, <4>1
    <3> QED
      BY <3>2, <3>4, <3>5 DEF TriesOK, ATry
  <2> QED
    BY <2>2, <2>5, <2>6
<1>9. cited' \subseteq Pages
  BY DEF IInv, Record
<1> QED
  BY <1>2, <1>4, <1>7, <1>8, <1>9

-----------------------------------------------------------------------------
(* The actions.                                                            *)

\* A page read before stays read, or is queued again.
Kept1 == \A p \in Pages : row[p].status \in Settled =>
           row'[p].status \in Settled \/ row'[p].status = "discovered"

LEMMA TryPages ==
  ASSUME IInv
  PROVE  \A i \in DOMAIN tries : tries[i].page \in Pages
<1>1. tries \in Seq(ATry)
  BY DEF IInv, TriesOK, ATry
<1>2. \A i \in DOMAIN tries : tries[i] \in ATry
  BY <1>1
<1> QED
  BY <1>2 DEF ATry

\* What queues pages and sets them aside keeps the tries, and the pages read.
LEMMA MovedKeeps ==
  ASSUME IInv, Sound(row'), Moved(row, row'), UNCHANGED tries
  PROVE  TriesOK' /\ Kept1
<1>1. \A p \in Pages : row[p].status \in Tried => row'[p] = row[p]
  BY DEF Moved, Tried, Settled, Retryable
<1>2. \A i \in DOMAIN tries : tries[i].page \in Pages
  BY TryPages
<1>3. TriesOK'
  BY <1>1, <1>2 DEF IInv, TriesOK
<1>4. Kept1
  BY <1>1 DEF Kept1, Tried
<1> QED
  BY <1>3, <1>4

\* The pages picked for a check are queued, or aside for what their publisher refused.
LEMMA ProbesAre ==
  ASSUME NEW r
  PROVE  Probes(r) \subseteq Queued(r) \cup Aside(r, {"refusing"})
<1> DEFINE fit(h) == {p \in (Queued(r) \cup Aside(r, {"refusing"})) \ (named \cup cached) :
                        HostOf[p] = h}
<1>1. \A h : fit(h) \subseteq Queued(r) \cup Aside(r, {"refusing"})
  OBVIOUS
<1>2. Queued(r) \cup Aside(r, {"refusing"}) \subseteq Pages
  BY DEF Queued, Aside
<1>3. \A h : fit(h) \subseteq Pages
  BY <1>1, <1>2
<1>4. ASSUME NEW x \in Probes(r) PROVE \E h : fit(h) # {} /\ x = Max(fit(h))
  BY <1>4 DEF Probes
<1> HIDE DEF fit
<1>5. \A h : fit(h) # {} => Max(fit(h)) \in fit(h)
  BY <1>3, Extremes
<1> QED
  BY <1>1, <1>4, <1>5

\* Preparing the queue keeps the invariant and the pages read, and holds every story.
LEMMA PrepareKeeps ==
  ASSUME IInv, NEW probing \in BOOLEAN, Prepare(probing)
  PROVE  IInv' /\ Kept1 /\ StoryHeld'
<1> DEFINE un       == UnreadableNow
           back     == Requeue(row, un)
           readable == Discard(back, un)
           news     == SetAsideNotNews(readable)
           stories  == Returned(news)
           tidy     == DropSameStory(stories, un)
           probes   == IF probing THEN Probes(tidy) ELSE {}
<1>1. /\ row' = Put(tidy, probes)
      /\ work' \in Chosen(Put(tidy, probes), un, probes)
      /\ UNCHANGED <<tries, cached, cited, world>>
  BY DEF Prepare
<1> HIDE DEF un
<1>2. Sound(back) /\ Moved(row, back)
  BY RequeueSound DEF IInv
<1> HIDE DEF back
<1>3. Sound(readable) /\ Moved(row, readable)
  BY <1>2, DiscardSound, MovedOn
<1> HIDE DEF readable
<1>4. Sound(news) /\ Moved(row, news)
  BY <1>3, NotNewsSound, MovedOn
<1> HIDE DEF news
<1>5. Sound(stories) /\ Moved(row, stories) /\ Held(stories)
  BY <1>4, ReturnedHolds, MovedOn
<1> HIDE DEF stories
<1>6. Sound(tidy) /\ Moved(row, tidy) /\ HasCopy(tidy)
  BY <1>5, DropSound, MovedOn
<1> HIDE DEF tidy
<1>7. probes \subseteq Queued(tidy) \cup Aside(tidy, {"refusing"})
  BY ProbesAre
<1> HIDE DEF probes
<1>8. probes \in SUBSET Pages /\ \A p \in probes : tidy[p].status \in {"discovered", "skipped"}
  BY <1>7 DEF Queued, Aside
<1>9. Sound(row') /\ Moved(row, row')
  BY <1>1, <1>6, <1>8, PutSound, MovedOn
<1>10. TriesOK' /\ Kept1
  BY <1>1, <1>9, MovedKeeps
<1>11. work' \subseteq Pages
  BY <1>1 DEF Chosen, Queued
<1>12. IInv'
  BY <1>1, <1>9, <1>10, <1>11 DEF IInv, world
<1>13. \A p \in Pages : row'[p] = IF p \notin probes THEN tidy[p]
                                  ELSE Untried("discovered", "none", 0)
  BY <1>1 DEF Put
<1>14. \A p \in Pages : p \in probes => row'[p].status = "discovered"
  BY <1>13 DEF Untried
<1>15. \A p \in Aside(row', {"same story"}) : p \in Aside(tidy, {"same story"})
  BY <1>13, <1>14 DEF Aside
<1>16. \A q \in Pages : tidy[q].status \in KeptHolds => row'[q].status \in KeptHolds
  BY <1>13, <1>14 DEF KeptHolds
<1>17. StoryHeld'
  BY <1>6, <1>15, <1>16 DEF StoryHeld, HasCopy, Aside
<1> QED
  BY <1>10, <1>12, <1>17

\* A try, however the page is read.
LEMMA TryKeeps ==
  ASSUME IInv, NEW p \in Pages, Try(p)
  PROVE  /\ Sound(row') /\ TriesOK' /\ cached' \cup cited' \subseteq Pages
         /\ Kept1
<1>1. PICK answer \in {"ok", "thin", "refused", "lost"}, via \in {"net", "cache"} :
        Record(p, answer, via)
  BY QueueAssumption DEF Try
<1>2. cached' \subseteq Pages
  BY DEF Try, IInv
<1> QED
  BY <1>1, <1>2, RecordKeeps DEF Kept1

LEMMA PageKeeps ==
  ASSUME IInv, NEW p \in Pages, Find(p) \/ Read(p) \/ Retry(p) \/ Refresh(p) \/ Relist(p)
  PROVE  IInv' /\ Kept1
<1>1. CASE Find(p)
  <2>1. row' = Put(row, {p}) /\ row[p].status = "none" /\ cached' \subseteq Pages
    BY <1>1 DEF Find, IInv
  <2>2. \A q \in Pages : row'[q] = IF q # p THEN row[q] ELSE Untried("discovered", "none", 0)
    BY <2>1 DEF Put
  <2>3. row'[p].status = "discovered" /\ row'[p] \in Row
    <3>1. row'[p] = Untried("discovered", "none", 0)
      BY <2>2
    <3> QED
      BY <3>1, Zero DEF Untried, Row
  <2>4. row' = [q \in Pages |-> row'[q]]
    BY <2>1 DEF Put
  <2>5. Sound(row')
    BY <2>2, <2>3, <2>4 DEF IInv, Sound, Aside
  <2>6. \A i \in DOMAIN tries : tries[i].page \in Pages /\ tries[i].page # p
    BY <2>1, TryPages DEF IInv, TriesOK, Tried, Settled, Retryable
  <2>7. TriesOK'
    BY <1>1, <2>2, <2>6 DEF Find, IInv, TriesOK
  <2>8. Kept1
    BY <2>1, <2>2 DEF Kept1, Settled
  <2> QED
    BY <1>1, <2>1, <2>5, <2>7, <2>8 DEF Find, IInv, world
<1>2. CASE Read(p)
  BY <1>2, TryKeeps DEF Read, IInv, world
<1>3. CASE Retry(p)
  BY <1>3, TryKeeps DEF Retry, IInv, world
<1>4. CASE Refresh(p)
  <2>1. PICK answer \in {"ok", "thin", "refused", "lost"} : Record(p, answer, "net")
    BY <1>4, QueueAssumption DEF Refresh
  <2> QED
    BY <1>4, <2>1, RecordKeeps DEF Refresh, Kept1, IInv, world
<1>5. CASE Relist(p)
  <2>1. row' = Put(row, {p}) /\ tries' = Without(p)
    BY <1>5 DEF Relist
  <2>2. \A q \in Pages : row'[q] = IF q # p THEN row[q] ELSE Untried("discovered", "none", 0)
    BY <2>1 DEF Put
  <2>3. row'[p].status = "discovered" /\ row'[p] \in Row
    <3>1. row'[p] = Untried("discovered", "none", 0)
      BY <2>2
    <3> QED
      BY <3>1, Zero DEF Untried, Row
  <2>4. row' = [q \in Pages |-> row'[q]]
    BY <2>1 DEF Put
  <2>5. Sound(row')
    BY <2>2, <2>3, <2>4 DEF IInv, Sound, Aside
  <2> DEFINE w == Without(p)
  <2>6. /\ w \in Seq(ATry)
        /\ \A i, j \in DOMAIN w : w[i].page = w[j].page => i = j
        /\ \A i \in DOMAIN w : w[i].page # p /\ \E j \in DOMAIN tries : w[i].page = tries[j].page
    BY WithoutIs DEF IInv
  <2> HIDE DEF w
  <2>7. \A i \in DOMAIN w : w[i] \in ATry
    BY <2>6
  <2>8. \A i \in DOMAIN w : row'[w[i].page].status \in Tried
    <3> SUFFICES ASSUME NEW i \in DOMAIN w PROVE row'[w[i].page].status \in Tried
      OBVIOUS
    <3>1. w[i].page \in Pages \ {p}
      BY <2>6, <2>7 DEF ATry
    <3>2. row[w[i].page].status \in Tried
      BY <2>6 DEF IInv, TriesOK
    <3> QED
      BY <2>2, <3>1, <3>2
  <2>9. TriesOK'
    BY <2>1, <2>6, <2>8 DEF TriesOK, ATry, w
  <2>10. Kept1
    BY <2>2, <2>3 DEF Kept1
  <2> QED
    BY <1>5, <2>5, <2>9, <2>10 DEF Relist, IInv, world
<1> QED
  BY <1>1, <1>2, <1>3, <1>4, <1>5

LEMMA OperatorKeeps ==
  ASSUME IInv, Operator
  PROVE  IInv' /\ Kept1
<1>1. CASE row' \in {Discard(row, UnreadableNow), SetAsideNotNews(row),
                     DropSameStory(Returned(row), UnreadableNow)}
  <2>1. Sound(row') /\ Moved(row, row')
    BY <1>1, DiscardSound, NotNewsSound, DropSound, ReturnedHolds, MovedOn DEF IInv
  <2> QED
    BY <2>1, MovedKeeps DEF Operator, IInv, world
<1>2. ASSUME NEW p \in Queued(row), row' = [row EXCEPT ![p] = NoRow] PROVE IInv' /\ Kept1
  <2>1. p \in Pages /\ row[p].status = "discovered" /\ row \in [Pages -> Row]
    BY DEF Queued, IInv, Sound
  <2>2. NoRow \in Row /\ NoRow.status = "none"
    BY Zero DEF NoRow, Untried, Row
  <2>3. \A q \in Pages : row'[q] = IF q # p THEN row[q] ELSE NoRow
    BY <1>2, <2>1
  <2>4. Sound(row')
    BY <1>2, <2>1, <2>2, <2>3 DEF IInv, Sound, Aside
  <2>5. \A i \in DOMAIN tries : tries[i].page \in Pages /\ tries[i].page # p
    BY <2>1, TryPages DEF IInv, TriesOK, Tried, Settled, Retryable
  <2>6. TriesOK'
    BY <2>3, <2>5 DEF Operator, IInv, TriesOK
  <2>7. Kept1
    BY <2>1, <2>3 DEF Kept1, Settled
  <2> QED
    BY <2>4, <2>6, <2>7 DEF Operator, IInv, world
<1> QED
  BY <1>1, <1>2 DEF Operator

LEMMA DayKeeps ==
  ASSUME IInv, NextDay
  PROVE  IInv' /\ Kept1
<1>1. tries' \in Seq(ATry) /\ DOMAIN tries' = DOMAIN tries
      /\ \A i \in DOMAIN tries : tries'[i].page = tries[i].page
  <2>1. tries \in Seq(ATry) /\ ProbeEvery \in Nat
    BY QueueAssumption DEF IInv, TriesOK, ATry
  <2>2. CASE tries = <<>>
    BY <2>1, <2>2 DEF NextDay
  <2>3. CASE tries # <<>>
    <3> DEFINE n == Len(tries)
               d == Min2(tries[n].days + 1, ProbeEvery)
               t == [tries[n] EXCEPT !.days = d]
    <3>1. n \in 1..n /\ n \in Nat /\ DOMAIN tries = 1..n /\ tries[n] \in ATry
      BY <2>1, <2>3
    <3>2. tries' = [tries EXCEPT ![n] = t]
      BY <2>3 DEF NextDay
    <3>3. d \in 0..ProbeEvery
      BY <2>1, <3>1 DEF Min2, ATry
    <3> HIDE DEF d
    <3>4. t \in ATry /\ t.page = tries[n].page
      BY <3>1, <3>3 DEF ATry
    <3> HIDE DEF t, n
    <3> QED
      BY <2>1, <3>1, <3>2, <3>4
  <2> QED
    BY <2>2, <2>3
<1>2. TriesOK'
  BY <1>1 DEF NextDay, IInv, TriesOK, ATry
<1> QED
  BY <1>2 DEF NextDay, IInv, Kept1, world

LEMMA WorldKeeps ==
  ASSUME IInv, World
  PROVE  IInv' /\ Kept1
<1>1. \A S, U, V : V \in Toggled(S, U) => V \subseteq S \cup U
  BY DEF Toggled
<1>2. closed' \subseteq Hosts /\ named' \subseteq Pages
  BY ZenonT(30), <1>1, QueueAssumption DEF World, IInv
<1> QED
  BY <1>2 DEF World, IInv, TriesOK, Sound, Kept1

LEMMA StepKeeps ==
  ASSUME IInv, [Next]_vars
  PROVE  IInv' /\ Kept1 /\ (Prepared => StoryHeld')
<1>1. ASSUME NEW p \in Pages, Find(p) \/ Read(p) \/ Retry(p) \/ Refresh(p) \/ Relist(p)
      PROVE  IInv' /\ Kept1
  BY <1>1, PageKeeps
<1>2. ASSUME NEW probing \in BOOLEAN, Prepare(probing) PROVE IInv' /\ Kept1 /\ StoryHeld'
  BY <1>2, PrepareKeeps
<1>3. ASSUME Die PROVE IInv' /\ Kept1
  BY <1>3 DEF Die, IInv, TriesOK, Kept1, world
<1>4. ASSUME Operator PROVE IInv' /\ Kept1
  BY <1>4, OperatorKeeps
<1>5. ASSUME NextDay PROVE IInv' /\ Kept1
  BY <1>5, DayKeeps
<1>6. ASSUME World PROVE IInv' /\ Kept1
  BY <1>6, WorldKeeps
<1>7. ASSUME UNCHANGED vars PROVE IInv' /\ Kept1
  BY <1>7 DEF vars, IInv, TriesOK, Kept1
<1>8. IInv' /\ Kept1
  BY <1>1, <1>2, <1>3, <1>4, <1>5, <1>6, <1>7 DEF Next
<1>9. Prepared => StoryHeld'
  BY <1>2 DEF Prepared
<1> QED
  BY <1>8, <1>9

-----------------------------------------------------------------------------
(* The theorems.                                                           *)

\* The table is sound and the tries name tried pages, each once, always.
THEOREM InductiveInvariant == Spec => []IInv
<1>1. Init => IInv
  <2> SUFFICES ASSUME Init PROVE IInv
    OBVIOUS
  <2>1. NoRow \in Row /\ NoRow.status = "none"
    BY Zero DEF NoRow, Untried, Row
  <2>2. row \in [Pages -> Row] /\ \A p \in Pages : row[p].status = "none"
    BY <2>1 DEF Init
  <2>3. Sound(row)
    BY <2>2 DEF Sound, Aside
  <2>4. tries = <<>> /\ TriesOK
    BY DEF Init, TriesOK
  <2> QED
    BY <2>3, <2>4 DEF Init, IInv
<1>2. IInv /\ [Next]_vars => IInv'
  BY StepKeeps
<1> QED
  BY <1>1, <1>2, PTL DEF Spec

\* Every variable keeps to its set: the type invariant of the queue.
THEOREM TypeCorrect == Spec => []TypeOK
<1>1. IInv => TypeOK
  <2> SUFFICES ASSUME IInv PROVE TypeOK
    OBVIOUS
  <2>1. row \in [Pages -> Row]
    BY DEF IInv, Sound
  <2>2. \A i \in DOMAIN tries : tries[i] \in ATry
    <3>1. tries \in Seq(ATry)
      BY DEF IInv, TriesOK, ATry
    <3> QED
      BY <3>1
  <2>3. \A i \in DOMAIN tries : tries[i].days \in 0..ProbeEvery
    BY <2>2 DEF ATry
  <2> QED
    BY <2>1, <2>3 DEF IInv, TriesOK, TypeOK, Row
<1> QED
  BY <1>1, InductiveInvariant, PTL

\* Whenever the queue has been prepared, whatever was found, failed, closed, named or
\* dropped before, no story is left with copies set aside and none read or queued.
THEOREM NoStoryIsLost == Spec => NoStoryLost
<1>1. IInv /\ [Next]_vars => [Prepared => StoryHeld']_vars
  BY StepKeeps
<1> QED
  BY <1>1, InductiveInvariant, PTL DEF Spec, NoStoryLost

\* No failure, tidying or ruling makes a page that was read count as unread, but for a
\* listing that is queued again.
THEOREM SettledStays == Spec => SettledKept
<1>1. IInv /\ [Next]_vars =>
        [\A p \in Pages : row[p].status \in Settled =>
           row'[p].status \in Settled \/ row'[p].status = "discovered"]_vars
  BY StepKeeps DEF Kept1
<1> QED
  BY <1>1, InductiveInvariant, PTL DEF Spec, SettledKept

------------------------------------------------------------------------------
(* The ordered pool that reads the pages of a crawl, several at a time, and  *)
(* whose variables are its own: for any number of items, workers and money,  *)
(* whatever calls raise and whenever the caller leaves.                      *)

\* The generator is on its way out.
Leaving == pc \in {"drop", "shutdown", "end"}

\* The item it is at, and those before it, of which it waits for none any more.
AtItem ==
  /\ pc \in {"stop", "future", "result", "body"} => item <= arg.n
  /\ pc = "body" => state[item] = "finished"
  /\ \A i \in Items : i < item => state[i] \in {"finished", "cancelled"}
  /\ outcome = "none" <=> ~Leaving

\* What was handed over is what finished before the item at hand, and in the caller's body
\* the item too; a caller that leaves there takes the item with it.
Before == {i \in Items : i < item /\ state[i] = "finished"}
InOrder ==
  /\ \A j, k \in DOMAIN yielded : j < k => yielded[j] < yielded[k]
  /\ \A k \in DOMAIN yielded : yielded[k] <= item
  /\ pc \in {"next", "stop", "future", "result"} => \A k \in DOMAIN yielded : yielded[k] < item
  /\ outcome # "abandoned" => Given = Before \cup (IF pc = "body" THEN {item} ELSE {})

\* With no executor nothing is made that is not asked for.
SerialInv ==
  Serial =>
    /\ pc \in {"next", "result", "body", "end"} /\ ~stopped
    /\ \A i \in Items : /\ i > item => state[i] = "queued"
                        /\ i = item /\ (pc = "next" \/ outcome = "done") => state[i] = "queued"
                        /\ state[i] # "cancelled"
                        /\ state[i] = "running" => pc = "result"

\* With one, the queue is cancelled from its front, for the ceiling or on the way out, and
\* for nothing else.
QueueInv ==
  ~Serial => \A i \in Items :
    /\ pc \in {"stop", "drop"} /\ i < drop => state[i] # "queued"
    /\ (stopped /\ pc # "stop") \/ pc \in {"shutdown", "end"} => state[i] # "queued"
    /\ state[i] = "cancelled" => stopped \/ Leaving

\* It stops for the ceiling only, and comes to its end only when every call was made or
\* the ceiling is reached.
StopInv ==
  /\ (pc = "stop" => stopped) /\ (stopped => ceiling_reached)
  /\ outcome = "done" => \/ item = arg.n + 1 /\ \A i \in Items : state[i] = "finished"
                         \/ ceiling_reached /\ (~Serial => item = arg.n + 1)

PoolInv == PoolTypeOK /\ AtItem /\ InOrder /\ SerialInv /\ QueueInv /\ StopInv

------------------------------------------------------------------------------
(* Types and the ledger.                                                     *)

LEMMA PoolSizes ==
  ASSUME PoolTypeOK
  PROVE  arg.n \in Nat \ {0} /\ arg.limit \in Nat /\ arg.ceiling \in Nat
BY MapOrderedAssumption DEF PoolTypeOK

LEMMA PoolTypeStep ==
  ASSUME PoolInv, [PoolNext]_poolVars
  PROVE  PoolTypeOK' /\ arg' = arg
<1> USE PoolSizes DEF PoolInv, PoolTypeOK, State
<1>1. ASSUME NEW i \in Items, Take(i) PROVE PoolTypeOK' /\ arg' = arg
  BY <1>1 DEF Take, Items
<1>2. ASSUME NEW i \in Items, Return(i) PROVE PoolTypeOK' /\ arg' = arg
  BY <1>2 DEF Return, Items
<1>3. CASE NextSerial
  BY <1>3 DEF NextSerial, Leave, Items
<1>4. CASE NextPooled
  <2>1. UNCHANGED <<arg, state, item, yielded>>
    BY <1>4 DEF NextPooled
  <2>2. /\ pc' \in {"end", "drop", "stop", "future"} /\ drop' \in {drop, 1}
        /\ stopped' \in {stopped, TRUE} /\ outcome' \in {outcome, "done"}
    BY <1>4 DEF NextPooled, Leave
  <2>3. 1 \in 1..(arg.n + 1)
    BY PoolSizes
  <2> QED
    BY <2>1, <2>2, <2>3 DEF Items
<1>5. CASE Cancel
  BY <1>5 DEF Cancel, Items
<1>11. CASE Cancelled
  BY <1>11 DEF Cancelled, Items
<1>6. CASE Future
  BY <1>6 DEF Future, Items, AtItem
<1>7. CASE Yield
  <2>1. item \in Items /\ yielded' = Append(yielded, item) /\ pc' = "body"
        /\ UNCHANGED <<arg, state, item, drop, stopped, outcome>>
    BY <1>7 DEF Yield, Items, AtItem
  <2>2. Append(yielded, item) \in Seq(Items)
    BY <2>1
  <2> QED
    BY <2>1, <2>2 DEF Items
<1>8. CASE Raise \/ Shutdown \/ Abandon
  BY <1>8 DEF Raise, Shutdown, Abandon, Leave, Items
<1>9. CASE Body
  BY <1>9 DEF Body, Items, AtItem
<1>10. CASE UNCHANGED poolVars
  BY <1>10 DEF poolVars, Items
<1> QED
  BY <1>1, <1>2, <1>3, <1>4, <1>5, <1>6, <1>7, <1>8, <1>9, <1>10, <1>11
  DEF PoolNext, Generator, Caller, Calls

\* What is on the ledger stays there, so a ceiling once reached stays reached.
LEMMA CeilingStays ==
  ASSUME PoolTypeOK, PoolTypeOK', arg' = arg,
         \A i \in Items : state[i] \in {"finished", "failed"} => state'[i] = state[i],
         ceiling_reached
  PROVE  ceiling_reached'
<1>1. In({"finished", "failed"}) \subseteq In({"finished", "failed"})'
  BY DEF In, Items
<1>2. IsFiniteSet(In({"finished", "failed"})')
  <2>1. IsFiniteSet(1..arg.n)
    <3>1. 1 \in Int /\ arg.n \in Int
      BY PoolSizes
    <3> QED
      BY <3>1, FS_Interval, Zenon
  <2>2. In({"finished", "failed"})' \subseteq 1..arg.n
    BY DEF In, Items
  <2> QED
    BY <2>1, <2>2, FS_Subset
<1>3. IsFiniteSet(In({"finished", "failed"})) /\ Spent <= Spent'
  BY <1>1, <1>2, FS_Subset DEF Spent
<1>4. Spent \in Nat /\ Spent' \in Nat
  BY <1>2, <1>3, FS_CardinalityType DEF Spent
<1> QED
  BY <1>3, <1>4, PoolSizes DEF ceiling_reached

\* A call that has ended stays as it ended.
LEMMA EndedStays ==
  ASSUME PoolInv, [PoolNext]_poolVars, NEW i \in Items, state[i] \in {"finished", "failed", "cancelled"}
  PROVE  state'[i] = state[i]
<1> USE DEF PoolInv, PoolTypeOK, Items
<1>1. ASSUME NEW j \in Items, Take(j) \/ Return(j) PROVE state'[i] = state[i]
  BY <1>1 DEF Take, Return
<1>2. CASE NextSerial
  BY <1>2, PoolSizes DEF NextSerial, SerialInv
<1>3. CASE Cancel
  BY <1>3 DEF Cancel
<1>4. CASE NextPooled \/ Cancelled \/ Future \/ Yield \/ Raise \/ Shutdown \/ Caller \/ UNCHANGED poolVars
  BY <1>4 DEF NextPooled, Cancelled, Future, Yield, Raise, Shutdown, Caller, Body, Abandon, poolVars
<1> QED
  BY <1>1, <1>2, <1>3, <1>4 DEF PoolNext, Generator, Calls

------------------------------------------------------------------------------
(* The invariant, conjunct by conjunct.                                      *)

LEMMA AtItemStep ==
  ASSUME PoolInv, [PoolNext]_poolVars
  PROVE  AtItem'
<1>0. PoolTypeOK' /\ arg' = arg
  BY PoolTypeStep
<1> USE PoolSizes, <1>0 DEF PoolInv, PoolTypeOK, AtItem, Leaving, Items
<1>1. ASSUME NEW i \in Items, Take(i) \/ Return(i) PROVE AtItem'
  BY <1>1 DEF Take, Return
<1>2. CASE NextSerial
  BY <1>2 DEF NextSerial, Leave, Serial
<1>3. CASE NextPooled
  BY <1>3 DEF NextPooled, Leave
<1>4. CASE Cancel
  BY <1>4 DEF Cancel
<1>5. CASE Cancelled
  BY <1>5 DEF Cancelled
<1>6. CASE Future
  BY <1>6 DEF Future
<1>7. CASE Yield \/ Raise \/ Shutdown
  BY <1>7 DEF Yield, Raise, Shutdown, Leave
<1>8. CASE Body \/ Abandon
  BY <1>8 DEF Body, Abandon, Leave
<1>9. CASE UNCHANGED poolVars
  BY <1>9 DEF poolVars
<1> QED
  BY <1>1, <1>2, <1>3, <1>4, <1>5, <1>6, <1>7, <1>8, <1>9 DEF PoolNext, Generator, Caller, Calls

LEMMA SerialStep ==
  ASSUME PoolInv, [PoolNext]_poolVars
  PROVE  SerialInv'
<1>0. PoolTypeOK' /\ arg' = arg /\ (Serial' <=> Serial)
  BY PoolTypeStep DEF Serial
<1> USE PoolSizes, <1>0 DEF PoolInv, PoolTypeOK, SerialInv, Items
<1>1. ASSUME NEW i \in Items, Take(i) \/ Return(i) PROVE SerialInv'
  BY <1>1 DEF Take, Return
<1>2. CASE NextSerial
  BY <1>2 DEF NextSerial, Leave, AtItem, Leaving
<1>3. CASE NextPooled \/ Cancel \/ Cancelled \/ Future \/ Shutdown
  BY <1>3 DEF NextPooled, Cancel, Cancelled, Future, Shutdown
<1>4. CASE Yield \/ Raise \/ Abandon
  BY <1>4 DEF Yield, Raise, Abandon, Leave, AtItem, Leaving
<1>5. CASE Body
  BY <1>5 DEF Body, AtItem, Leaving
<1>6. CASE UNCHANGED poolVars
  BY <1>6 DEF poolVars
<1> QED
  BY <1>1, <1>2, <1>3, <1>4, <1>5, <1>6 DEF PoolNext, Generator, Caller, Calls

LEMMA QueueStep ==
  ASSUME PoolInv, [PoolNext]_poolVars
  PROVE  QueueInv'
<1>0. PoolTypeOK' /\ arg' = arg /\ (Serial' <=> Serial)
  BY PoolTypeStep DEF Serial
<1> USE PoolSizes, <1>0 DEF PoolInv, PoolTypeOK, QueueInv, Items, Leaving, State
<1>1. ASSUME NEW i \in Items, Take(i) PROVE QueueInv'
  BY <1>1 DEF Take
<1>2. ASSUME NEW i \in Items, Return(i) PROVE QueueInv'
  BY <1>2 DEF Return
<1>3. CASE NextSerial \/ NextPooled
  BY <1>3 DEF NextSerial, NextPooled, Leave
<1>4. CASE Cancel
  <2>1. /\ pc \in {"stop", "drop"} /\ drop \in Items /\ drop' = drop + 1
        /\ state' = IF state[drop] = "queued" THEN [state EXCEPT ![drop] = "cancelled"] ELSE state
        /\ UNCHANGED <<pc, stopped>>
    BY <1>4 DEF Cancel
  <2>2. \A i \in Items : state'[i] = IF i = drop /\ state[i] = "queued" THEN "cancelled" ELSE state[i]
    BY <2>1
  <2> QED
    BY <2>1, <2>2 DEF StopInv
<1>5. CASE Cancelled
  BY <1>5 DEF Cancelled
<1>6. CASE Future \/ Yield \/ Body \/ UNCHANGED poolVars
  BY <1>6 DEF Future, Yield, Body, poolVars
<1>7. CASE Raise \/ Abandon
  BY <1>7 DEF Raise, Abandon, Leave
<1>8. CASE Shutdown
  BY <1>8 DEF Shutdown, In
<1> QED
  BY <1>1, <1>2, <1>3, <1>4, <1>5, <1>6, <1>7, <1>8 DEF PoolNext, Generator, Caller, Calls

LEMMA StopStep ==
  ASSUME PoolInv, [PoolNext]_poolVars
  PROVE  StopInv'
<1>0. PoolTypeOK' /\ arg' = arg /\ (Serial' <=> Serial)
  BY PoolTypeStep DEF Serial
<1>a. ceiling_reached => ceiling_reached'
  BY <1>0, EndedStays, CeilingStays DEF PoolInv
<1>b. (\A i \in Items : state[i] = "finished") => \A i \in Items' : state'[i] = "finished"
  BY <1>0, EndedStays DEF Items
<1> USE <1>0, <1>a, <1>b DEF PoolInv, StopInv
<1>1. ASSUME NEW i \in Items, Take(i) \/ Return(i) PROVE StopInv'
  BY <1>1 DEF Take, Return
<1>2. CASE NextSerial /\ (item > arg.n \/ ceiling_reached)
  <2>1. Serial /\ pc = "next" /\ pc' = "end" /\ outcome' = "done" /\ UNCHANGED <<state, item, stopped>>
    BY <1>2 DEF NextSerial, Leave
  <2>2. CASE item > arg.n
    <3>1. item = arg.n + 1
      BY <2>2, PoolSizes DEF PoolTypeOK
    <3>2. \A i \in Items : i < item /\ state[i] = "finished"
      BY <2>1, <3>1, PoolSizes DEF SerialInv, AtItem, Items
    <3> QED
      BY <2>1, <3>1, <3>2
  <2>3. CASE ceiling_reached
    BY <2>1, <2>3
  <2> QED
    BY <1>2, <2>2, <2>3
<1>3. CASE NextSerial /\ ~(item > arg.n \/ ceiling_reached)
  BY <1>3 DEF NextSerial, AtItem, Leaving
<1>4. CASE NextPooled /\ item > arg.n
  BY <1>4, PoolSizes DEF NextPooled, Leave, QueueInv, AtItem, Leaving, PoolTypeOK, Items
<1>5. CASE NextPooled /\ ~(item > arg.n)
  BY <1>5 DEF NextPooled, AtItem, Leaving
<1>6. CASE Cancel \/ Cancelled \/ Shutdown \/ UNCHANGED poolVars
  BY <1>6 DEF Cancel, Cancelled, Shutdown, poolVars
<1>7. CASE Future \/ Yield \/ Body
  BY <1>7 DEF Future, Yield, Body, AtItem, Leaving
<1>8. CASE Raise \/ Abandon
  BY <1>8 DEF Raise, Abandon, Leave
<1> QED
  BY <1>1, <1>2, <1>3, <1>4, <1>5, <1>6, <1>7, <1>8 DEF PoolNext, Generator, Caller, Calls

\* One result handed over, in the order of the input.
LEMMA YieldStep ==
  ASSUME PoolInv, Yield
  PROVE  InOrder'
<1> USE DEF PoolInv, PoolTypeOK
<1>1. /\ pc = "result" /\ pc' = "body" /\ state[item] = "finished"
      /\ yielded' = Append(yielded, item) /\ UNCHANGED <<arg, state, item, outcome>>
      /\ item \in Items /\ yielded \in Seq(Items)
  BY PoolSizes DEF Yield, AtItem, Items
<1>2. /\ DOMAIN yielded = 1..Len(yielded) /\ DOMAIN yielded' = 1..(Len(yielded) + 1)
      /\ Len(yielded) \in Nat
      /\ \A k \in DOMAIN yielded : yielded'[k] = yielded[k] /\ yielded[k] \in Items
      /\ yielded'[Len(yielded) + 1] = item
  BY <1>1
<1>3. \A k \in DOMAIN yielded : yielded[k] < item
  BY <1>1 DEF InOrder
<1>4. \A j, k \in DOMAIN yielded' : j < k => yielded'[j] < yielded'[k]
  <2> SUFFICES ASSUME NEW j \in DOMAIN yielded', NEW k \in DOMAIN yielded', j < k
               PROVE  yielded'[j] < yielded'[k]
    OBVIOUS
  <2>1. j \in DOMAIN yielded
    BY <1>2
  <2>2. CASE k \in DOMAIN yielded
    BY <1>2, <2>1, <2>2 DEF InOrder
  <2>3. CASE k = Len(yielded) + 1
    BY <1>2, <1>3, <2>1, <2>3
  <2> QED
    BY <1>2, <2>2, <2>3
<1>5. \A k \in DOMAIN yielded' : yielded'[k] <= item
  BY <1>1, <1>2, <1>3, PoolSizes DEF Items
<1>6. Given' = Given \cup {item}
  <2>1. Given \subseteq Given' /\ item \in Given'
    BY <1>2 DEF Given
  <2>2. Given' \subseteq Given \cup {item}
    BY <1>2 DEF Given
  <2> QED
    BY <2>1, <2>2
<1>7. outcome # "abandoned" => Given = Before
  BY <1>1 DEF InOrder
<1>8. Before' = Before
  BY <1>1 DEF Before, Items
<1> QED
  BY <1>1, <1>4, <1>5, <1>6, <1>7, <1>8 DEF InOrder

LEMMA InOrderStep ==
  ASSUME PoolInv, [PoolNext]_poolVars
  PROVE  InOrder'
<1>0. PoolTypeOK' /\ arg' = arg /\ Items' = Items /\ arg.n \in Nat \ {0} /\ item \in 1..(arg.n + 1)
  BY PoolTypeStep, PoolSizes DEF Items, PoolInv, PoolTypeOK
<1>a. yielded \in Seq(Items) /\ \A k \in DOMAIN yielded : yielded[k] \in Items
  BY DEF PoolInv, PoolTypeOK
<1>b. ASSUME item' = item, \A i \in Items : i < item => state'[i] = state[i]
      PROVE  Before' = Before
  BY <1>0, <1>b DEF Before
<1>c. \A i \in Items : i < item => state'[i] = state[i]
  BY EndedStays DEF PoolInv, AtItem
<1> USE DEF PoolInv
<1>1. CASE Yield
  BY <1>1, YieldStep
<1>2. CASE Body
  <2>1. /\ pc = "body" /\ pc' = "next" /\ item' = item + 1 /\ UNCHANGED <<state, yielded, outcome>>
        /\ state[item] = "finished" /\ item \in Items /\ Given' = Given
    BY <1>0, <1>2 DEF Body, AtItem, Items, Given
  <2>2. Before' = Before \cup {item}
    BY <1>0, <2>1 DEF Before, Items
  <2>3. \A k \in DOMAIN yielded : yielded[k] < item'
    BY <1>0, <1>a, <2>1 DEF InOrder, Items
  <2> QED
    BY <1>0, <1>a, <2>1, <2>2, <2>3 DEF InOrder, Items
<1>3. CASE Future /\ state[item] = "cancelled"
  <2>1. /\ pc = "future" /\ pc' = "next" /\ item' = item + 1 /\ UNCHANGED <<state, yielded, outcome>>
        /\ item \in Items /\ Given' = Given
    BY <1>0, <1>3 DEF Future, AtItem, Items, Given
  <2>2. Before' = Before
    BY <1>0, <1>3, <2>1 DEF Before, Items
  <2>3. \A k \in DOMAIN yielded : yielded[k] < item'
    BY <1>0, <1>a, <2>1 DEF InOrder, Items
  <2> QED
    BY <1>0, <1>a, <2>1, <2>2, <2>3 DEF InOrder, Items
<1>4. CASE Raise \/ Abandon
  <2>1. /\ UNCHANGED <<item, yielded, state>> /\ pc' \in {"drop", "end"} /\ Given' = Given
        /\ outcome' \in {"raised", "abandoned"} /\ pc \in {"result", "body"}
        /\ (outcome' = "raised" => pc = "result") /\ outcome # "abandoned"
    BY <1>4 DEF Raise, Abandon, Leave, Given, AtItem, Leaving
  <2> QED
    BY <1>b, <2>1 DEF InOrder
<1>5. CASE \/ (Future /\ state[item] # "cancelled") \/ NextSerial \/ NextPooled \/ Cancel
           \/ Cancelled \/ Shutdown \/ Calls \/ UNCHANGED poolVars
  <2>1. UNCHANGED <<item, yielded>> /\ (pc' = "body" <=> pc = "body")
        /\ (outcome' = outcome \/ (outcome' = "done" /\ pc = "next"))
        /\ (pc' \in {"next", "stop", "future", "result"} => pc \in {"next", "stop", "future", "result"})
    BY <1>5 DEF Future, NextSerial, NextPooled, Cancel, Cancelled, Shutdown, Calls, Take, Return,
                poolVars, Leave
  <2>2. Given' = Given /\ Before' = Before
    BY <1>b, <1>c, <2>1 DEF Given
  <2>3. outcome' # "abandoned" => outcome # "abandoned"
    BY <2>1 DEF AtItem, Leaving
  <2> QED
    BY <2>1, <2>2, <2>3 DEF InOrder
<1> QED
  BY <1>1, <1>2, <1>3, <1>4, <1>5 DEF PoolNext, Generator, Caller

------------------------------------------------------------------------------
(* Theorems.                                                                 *)

\* Where the loop is, what was handed over and what the queue still holds fit each other
\* after every step (map_ordered).
THEOREM PoolIsKept == PoolSpec => []PoolInv
<1>1. PoolInit => PoolInv
  <2> SUFFICES ASSUME PoolInit PROVE PoolInv
    OBVIOUS
  <2>1. PoolTypeOK
    <3>1. arg.n \in Nat \ {0} /\ arg \in [n : Counts, limit : Limits, ceiling : Ceilings]
      BY MapOrderedAssumption DEF PoolInit
    <3>2. 1 \in 1..(arg.n + 1) /\ state \in [Items -> State] /\ yielded \in Seq(Items)
      BY <3>1 DEF PoolInit, State
    <3> QED
      BY <3>1, <3>2 DEF PoolInit, PoolTypeOK
  <2>2. AtItem /\ SerialInv /\ QueueInv /\ StopInv
    BY <2>1, PoolSizes DEF PoolInit, AtItem, SerialInv, QueueInv, StopInv, Items, Leaving
  <2>3. InOrder
    BY <2>1, PoolSizes DEF PoolInit, InOrder, Given, Before, Items
  <2> QED
    BY <2>1, <2>2, <2>3 DEF PoolInv
<1>2. PoolInv /\ [PoolNext]_poolVars => PoolInv'
  BY PoolTypeStep, AtItemStep, InOrderStep, SerialStep, QueueStep, StopStep DEF PoolInv
<1> QED
  BY <1>1, <1>2, PTL DEF PoolSpec

\* Every variable keeps to its set: the type invariant of the ordered pool.
THEOREM PoolTypeCorrect == PoolSpec => []PoolTypeOK
BY PoolIsKept, PTL DEF PoolInv

\* What was paid for is handed over, in order, once: a loop that ends gave its caller the
\* result of every call that was made, and one that raised every result before that
\* (map_ordered).
THEOREM NothingIsLost == PoolSpec => []NothingPaidIsLost
<1>1. PoolInv => NothingPaidIsLost
  <2> SUFFICES ASSUME PoolInv PROVE NothingPaidIsLost
    OBVIOUS
  <2>0. arg.n \in Nat \ {0} /\ item \in 1..(arg.n + 1) /\ state \in [Items -> State]
    BY PoolSizes DEF PoolInv, PoolTypeOK
  <2>1. \A j, k \in DOMAIN yielded : j < k => yielded[j] < yielded[k]
    BY DEF PoolInv, InOrder
  <2>2. ASSUME outcome \in {"done", "raised"} PROVE Given = Before /\ Leaving
    BY <2>2 DEF PoolInv, InOrder, AtItem, Leaving
  <2>3. ASSUME outcome = "done" PROVE Given = Called /\ (ceiling_reached \/ Called = Items)
    <3>1. CASE item = arg.n + 1 /\ \A i \in Items : state[i] = "finished"
      BY <2>0, <2>2, <2>3, <3>1 DEF Before, Called, In, Items
    <3>2. CASE ceiling_reached /\ ~Serial /\ item = arg.n + 1
      BY <2>0, <2>2, <2>3, <3>2 DEF Before, Called, In, Items, PoolInv, AtItem
    <3>3. CASE ceiling_reached /\ Serial
      BY <2>0, <2>2, <2>3, <3>3 DEF Before, Called, In, Items, PoolInv, AtItem, SerialInv
    <3> QED
      BY <2>3, <3>1, <3>2, <3>3 DEF PoolInv, StopInv
  <2>4. ASSUME outcome = "raised" PROVE Given = {i \in Called : i < item}
    BY <2>0, <2>2, <2>4 DEF Before, Called, In, Items, PoolInv, AtItem
  <2> QED
    BY <2>1, <2>3, <2>4 DEF NothingPaidIsLost
<1> QED
  BY <1>1, PoolIsKept, PTL

\* Once the queue was cancelled, for the ceiling or on the way out, no call is started
\* again, however the workers and the cancelling interleave.
THEOREM NothingStartsAgain == PoolSpec => NothingStartsOnceOver
<1>1. PoolInv /\ [PoolNext]_poolVars
        => [Over => \A i \in Items : state[i] \in {"queued", "cancelled"} => state'[i] = state[i]]_poolVars
  <2> SUFFICES ASSUME PoolInv, PoolNext, Over, NEW i \in Items, state[i] \in {"queued", "cancelled"}
               PROVE  state'[i] = state[i]
    OBVIOUS
  <2>1. CASE state[i] = "cancelled"
    BY <2>1, EndedStays
  <2>2. CASE state[i] = "queued"
    <3>1. Serial /\ pc = "end"
      BY <2>2 DEF PoolInv, QueueInv, SerialInv, Over
    <3>2. state' = state \/ \E j \in Items : state[j] = "running" /\ Return(j)
      BY <3>1 DEF PoolNext, Generator, Caller, Calls, NextSerial, NextPooled, Cancel, Cancelled,
                  Future, Yield, Raise, Shutdown, Body, Abandon, Take, Return
    <3> QED
      BY <2>2, <3>2 DEF Return, PoolInv, PoolTypeOK
  <2> QED
    BY <2>1, <2>2
<1> QED
  BY <1>1, PoolIsKept, PTL DEF PoolSpec, NothingStartsOnceOver

------------------------------------------------------------------------------
(* The runner.                                                               *)

\* Only the slot's run is running.
OneRunning == \A r \in Runs : status[r] = "running" => current = r

\* A run that has not started has no thread.
NotStarted == \A r \in Runs : status[r] = "none" => thread[r] = "none"

\* Where a run's thread stands says what its child may be; a run has a verdict only
\* once that is settled.
ChildFollows ==
  \A r \in Runs :
    /\ thread[r] \in {"none", "spawn"} => child[r] = "none"
    /\ thread[r] \notin {"hold", "read", "wait"} => ~Alive(r)
    /\ thread[r] = "wait" => child[r] # "open"
    /\ status[r] \in {"ok", "failed"} => thread[r] \in {"finish", "record", "end", "done", "died"}

\* The runs that were put into the index.
Ended(r) == thread[r] \in {"end", "done"}

\* One thread at a time holds the lock, with the index as it still is, or with none of it.
OneRecording ==
  /\ \A r \in Runs : thread[r] = "record" <=> recording = r
  /\ recording # None =>
       \/ entries = index
       \/ entries = <<>> /\ \A q \in Runs : Ended(q) => q \in unread

\* What the index holds was recorded.
WasRecorded == \A r \in ToSet(index) : Ended(r)

RunnerInv ==
  /\ RunnerTypeOK /\ OneRunning /\ NotStarted /\ ChildFollows
  /\ OneRecording /\ WasRecorded /\ NoRecordLost

------------------------------------------------------------------------------
(* Types.                                                                    *)

LEMMA Positive == QueueMax \in Nat \ {0} /\ IndexLimit \in Nat \ {0} /\ LineBound \in Nat
BY RunnerAssumption

\* An event leaves every queue within its bound.
LEMMA EmitType ==
  ASSUME RunnerTypeOK, NEW event \in Runs \union {0}, Emit(event)
  PROVE  stream' \in [Runs -> Seq(Runs \union {0})] /\ \A r \in Runs : Len(stream'[r]) <= QueueMax
<1>1. ASSUME NEW p \in Runs, Len(stream[p]) < QueueMax
      PROVE  /\ Append(stream[p], event) \in Seq(Runs \union {0})
             /\ Len(Append(stream[p], event)) <= QueueMax
  BY <1>1, Positive DEF RunnerTypeOK
<1> QED
  BY <1>1 DEF RunnerTypeOK, Emit

LEMMA InToSet ==
  ASSUME NEW R, NEW s \in Seq(R)
  PROVE  \A x : x \in ToSet(s) <=> \E i \in 1..Len(s) : s[i] = x
BY DEF ToSet

\* The index keeps to its limit, and holds of the runs given it the first ones.
LEMMA NewestType ==
  ASSUME NEW runs \in Seq(Runs)
  PROVE  /\ Newest(runs) \in Seq(Runs) /\ Len(Newest(runs)) <= IndexLimit
         /\ Len(Newest(runs)) <= Len(runs)
         /\ \A i \in 1..Len(Newest(runs)) : Newest(runs)[i] = runs[i]
         /\ Len(Newest(runs)) = Len(runs) \/ Len(Newest(runs)) = IndexLimit
<1> DEFINE n == IF Len(runs) > IndexLimit THEN IndexLimit ELSE Len(runs)
<1>1. n \in 0..Len(runs) /\ n <= IndexLimit /\ (n = Len(runs) \/ n = IndexLimit)
  BY Positive
<1> HIDE DEF n
<1>2. /\ SubSeq(runs, 1, n) \in Seq(Runs) /\ Len(SubSeq(runs, 1, n)) = n
      /\ \A i \in 1..n : SubSeq(runs, 1, n)[i] = runs[i]
  BY <1>1
<1>3. Newest(runs) = SubSeq(runs, 1, n)
  BY DEF Newest, n
<1> QED
  BY <1>1, <1>2, <1>3

\* A run is recorded once, so none of its own records is removed from what was read.
LEMMA RecordWritesIs ==
  ASSUME RunnerInv, NEW r \in Runs, RecordWrites(r)
  PROVE  /\ thread[r] = "record" /\ index \in Seq(Runs) /\ entries \in Seq(Runs)
         /\ \/ index' = Newest(<<r>> \o entries) /\ thread' = [thread EXCEPT ![r] = "end"]
            \/ index' = index /\ thread' = [thread EXCEPT ![r] = "died"]
         /\ entries = index \/ (entries = <<>> /\ \A q \in Runs : Ended(q) => q \in unread)
<1>1. /\ thread[r] = "record" /\ index \in Seq(Runs) /\ entries \in Seq(Runs)
      /\ entries = index \/ (entries = <<>> /\ \A q \in Runs : Ended(q) => q \in unread)
  BY RunnerAssumption DEF RecordWrites, At, RunnerInv, OneRecording, RunnerTypeOK, Runs, None
<1>2. r \notin ToSet(index)
  BY <1>1 DEF RunnerInv, WasRecorded, Ended
<1>3. ~\E i \in 1..Len(index) : index[i] = r
  BY <1>1, <1>2 DEF ToSet
<1>4. ~\E i \in 1..Len(entries) : entries[i] = r
  BY <1>1, <1>3
<1>5. RemoveFirst(entries, r) = entries
  BY <1>4 DEF RemoveFirst
<1> QED
  BY <1>1, <1>5 DEF RecordWrites, GoTo

LEMMA RunnerTypeStep ==
  ASSUME RunnerInv, [RunnerNext]_runnerVars
  PROVE  RunnerTypeOK'
<1> USE DEF RunnerInv, RunnerTypeOK, paneVars, indexVars, childVars, At, GoTo, None
<1>0. 0 \notin Runs
  BY DEF Runs
<1>1. CASE CancelReads
  BY <1>0, <1>1 DEF CancelReads, Busy
<1>2. CASE CancelActs
  BY <1>0, <1>2 DEF CancelActs
<1>3. ASSUME NEW r \in Runs, Start(r) PROVE RunnerTypeOK'
  BY <1>3 DEF Start
<1>4. ASSUME NEW r \in Runs, Spawn(r) \/ Eof(r) \/ Clear(r) \/ Judge(r) PROVE RunnerTypeOK'
  <2>1. CASE Spawn(r)
    BY <2>1 DEF Spawn
  <2>2. CASE Eof(r)
    BY <2>2 DEF Eof
  <2>3. CASE Clear(r)
    BY <2>3 DEF Clear
  <2>4. CASE Judge(r)
    BY <2>4 DEF Judge
  <2> QED
    BY <1>4, <2>1, <2>2, <2>3, <2>4
<1>5. ASSUME NEW r \in Runs, Hold(r) PROVE RunnerTypeOK'
  BY <1>5, EmitType DEF Hold
<1>6. ASSUME NEW r \in Runs, ReadLine(r) PROVE RunnerTypeOK'
  <2>1. printed' \in 0..LineBound
    BY <1>6, Positive DEF ReadLine
  <2>2. stream' \in [Runs -> Seq(Runs \union {0})] /\ \A q \in Runs : Len(stream'[q]) <= QueueMax
    BY <1>6, EmitType DEF ReadLine
  <2> QED
    BY <1>6, <2>1, <2>2 DEF ReadLine
<1>7. ASSUME NEW r \in Runs, Wait(r) PROVE RunnerTypeOK'
  BY <1>7, EmitType DEF Wait
<1>8. ASSUME NEW r \in Runs, Settle(r) PROVE RunnerTypeOK'
  BY <1>8 DEF Settle
<1>9. ASSUME NEW r \in Runs, RecordReads(r) PROVE RunnerTypeOK'
  <2>1. entries' \in Seq(Runs) /\ unread' \subseteq Runs
    <3>1. entries' \in {index, <<>>}
          /\ unread' \in {unread, {q \in Runs : thread[q] \in {"end", "done"}}}
      BY <1>9, Zenon DEF RecordReads, ReadIndex
    <3>2. index \in Seq(Runs) /\ <<>> \in Seq(Runs) /\ unread \subseteq Runs
      OBVIOUS
    <3> QED
      BY <3>1, <3>2, Zenon
  <2> QED
    BY <1>9, <2>1 DEF RecordReads
<1>10. ASSUME NEW r \in Runs, RecordWrites(r) PROVE RunnerTypeOK'
  <2>1. <<r>> \o entries \in Seq(Runs)
    BY <1>10, RecordWritesIs
  <2>2. index' \in Seq(Runs) /\ Len(index') <= IndexLimit
    <3>1. CASE index' = Newest(<<r>> \o entries)
      BY <2>1, <3>1, NewestType, Zenon
    <3>2. CASE index' = index
      BY <3>2
    <3> QED
      BY <1>10, <3>1, <3>2, RecordWritesIs
  <2>3. thread' = [thread EXCEPT ![r] = "end"] \/ thread' = [thread EXCEPT ![r] = "died"]
    BY <1>10 DEF RecordWrites
  <2>4. \A t \in {"end", "died"} : thread' = [thread EXCEPT ![r] = t] =>
          thread' \in [Runs -> {"none", "spawn", "hold", "read", "wait", "clear", "close", "settle",
                                "finish", "record", "end", "done", "died"}]
    OBVIOUS
  <2> QED
    BY <1>10, <2>2, <2>3, <2>4 DEF RecordWrites
<1>11. ASSUME NEW r \in Runs, End(r) PROVE RunnerTypeOK'
  BY <1>11, EmitType DEF End
<1>12. ASSUME NEW r \in Runs, ChildCloses(r) \/ ChildEnds(r) PROVE RunnerTypeOK'
  <2>1. CASE ChildCloses(r)
    BY <2>1 DEF ChildCloses
  <2>2. CASE ChildEnds(r)
    BY <2>2 DEF ChildEnds
  <2> QED
    BY <1>12, <2>1, <2>2
<1>13. ASSUME NEW r \in Runs, Subscribe(r) \/ GetNothing(r) PROVE RunnerTypeOK'
  <2>1. CASE Subscribe(r)
    BY <2>1 DEF Subscribe
  <2>2. CASE GetNothing(r)
    BY <2>2 DEF GetNothing, EndPump
  <2> QED
    BY <1>13, <2>1, <2>2
<1>14. ASSUME NEW r \in Runs, Get(r) PROVE RunnerTypeOK'
  <2>1. Tail(stream[r]) \in Seq(Runs \union {0}) /\ Len(Tail(stream[r])) <= QueueMax
    BY <1>14, Positive DEF Get
  <2>2. stream' = [stream EXCEPT ![r] = Tail(stream[r])]
    BY <1>14 DEF Get
  <2>3. stream' \in [Runs -> Seq(Runs \union {0})] /\ \A q \in Runs : Len(stream'[q]) <= QueueMax
    BY <2>1, <2>2
  <2> QED
    BY <1>14, <2>3 DEF Get, EndPump
<1>15. CASE UNCHANGED runnerVars
  BY <1>15 DEF runnerVars
<1> QED
  BY <1>1, <1>2, <1>3, <1>4, <1>5, <1>6, <1>7, <1>8, <1>9, <1>10, <1>11, <1>12, <1>13, <1>14, <1>15
  DEF RunnerNext, Execute, Pump

------------------------------------------------------------------------------
(* The invariant, conjunct by conjunct.                                      *)

\* The slot, the statuses and the children.
LEMMA SlotStep ==
  ASSUME RunnerInv, [RunnerNext]_runnerVars
  PROVE  OneRunning' /\ NotStarted' /\ ChildFollows'
<1> DEFINE Goal == OneRunning' /\ NotStarted' /\ ChildFollows'
<1> USE DEF RunnerInv, RunnerTypeOK, OneRunning, NotStarted, ChildFollows, Alive, paneVars, indexVars,
            childVars, At, GoTo, None
<1>0. 0 \notin Runs
  BY DEF Runs
<1>1. CASE CancelReads
  BY <1>1 DEF CancelReads
<1>2. CASE CancelActs
  BY <1>2 DEF CancelActs
<1>3. ASSUME NEW r \in Runs, Start(r) PROVE Goal
  BY <1>0, <1>3 DEF Start, Busy
<1>4. ASSUME NEW r \in Runs, Spawn(r) PROVE Goal
  <2>1. thread[r] = "spawn" /\ UNCHANGED <<current, status>>
        /\ (thread[r] = "spawn" => child[r] = "none")
    BY <1>4 DEF Spawn
  <2>2. CASE child' = [child EXCEPT ![r] = "open"] /\ thread' = [thread EXCEPT ![r] = "hold"]
    BY <2>1, <2>2
  <2>3. CASE child' = child /\ thread' = [thread EXCEPT ![r] = "close"]
    BY <2>1, <2>3
  <2> QED
    BY <1>4, <2>2, <2>3 DEF Spawn
<1>5. ASSUME NEW r \in Runs, Hold(r) \/ Eof(r) \/ Clear(r) PROVE Goal
  <2>1. CASE Hold(r)
    BY <2>1 DEF Hold
  <2>2. CASE Eof(r)
    BY <2>2 DEF Eof
  <2>3. CASE Clear(r)
    BY <2>3 DEF Clear
  <2> QED
    BY <1>5, <2>1, <2>2, <2>3
<1>6. ASSUME NEW r \in Runs, ReadLine(r) PROVE Goal
  BY <1>6 DEF ReadLine
<1>7. ASSUME NEW r \in Runs, Wait(r) PROVE Goal
  BY <1>7 DEF Wait
<1>8. ASSUME NEW r \in Runs, Judge(r) PROVE Goal
  BY <1>8 DEF Judge
<1>9. ASSUME NEW r \in Runs, Settle(r) PROVE Goal
  BY <1>9 DEF Settle
<1>10. ASSUME NEW r \in Runs, RecordReads(r) \/ RecordWrites(r) \/ End(r) PROVE Goal
  <2>1. /\ UNCHANGED <<current, status, child>> /\ thread[r] \in {"finish", "record", "end"}
        /\ \E there \in {"record", "end", "done", "died"} : thread' = [thread EXCEPT ![r] = there]
    BY <1>10 DEF RecordReads, RecordWrites, End
  <2> QED
    BY <2>1
<1>11. ASSUME NEW r \in Runs, ChildCloses(r) \/ ChildEnds(r) PROVE Goal
  <2>1. CASE ChildCloses(r)
    BY <2>1 DEF ChildCloses
  <2>2. CASE ChildEnds(r)
    BY <2>2 DEF ChildEnds
  <2> QED
    BY <1>11, <2>1, <2>2
<1>12. ASSUME NEW r \in Runs, Pump(r) PROVE Goal
  BY <1>12 DEF Pump, Subscribe, Get, GetNothing
<1>13. CASE UNCHANGED runnerVars
  BY <1>13 DEF runnerVars
<1> QED
  BY <1>1, <1>2, <1>3, <1>4, <1>5, <1>6, <1>7, <1>8, <1>9, <1>10, <1>11, <1>12, <1>13
  DEF RunnerNext, Execute

\* The lock and the index.
LEMMA RecordWritesKeeps ==
  ASSUME RunnerInv, NEW r \in Runs, RecordWrites(r)
  PROVE  OneRecording' /\ WasRecorded' /\ NoRecordLost'
<1> USE DEF RunnerInv, RunnerTypeOK, Ended
<1> DEFINE all == <<r>> \o entries
<1>0. /\ thread[r] = "record" /\ index \in Seq(Runs) /\ entries \in Seq(Runs)
      /\ recording' = None /\ unread' = unread
      /\ entries = index \/ (entries = <<>> /\ \A q \in Runs : Ended(q) => q \in unread)
  BY RecordWritesIs DEF RecordWrites
<1>1. \/ index' = Newest(all) /\ thread' = [thread EXCEPT ![r] = "end"]
      \/ index' = index /\ thread' = [thread EXCEPT ![r] = "died"]
  BY RecordWritesIs
<1>2. /\ all \in Seq(Runs) /\ Len(all) = Len(entries) + 1 /\ all[1] = r
      /\ \A i \in 1..Len(entries) : all[i + 1] = entries[i]
      /\ \A i \in 2..Len(all) : i - 1 \in 1..Len(entries) /\ all[i] = entries[i - 1]
  BY <1>0
<1> HIDE DEF all
<1>3. OneRecording'
  <2>1. \A q \in Runs : thread'[q] # "record"
    <3>1. \A q \in Runs : q # r => thread[q] # "record"
      BY <1>0 DEF OneRecording
    <3>2. thread'[r] # "record" /\ \A q \in Runs : q # r => thread'[q] = thread[q]
      BY <1>1
    <3> QED
      BY <3>1, <3>2
  <2>2. \A q \in Runs : recording' # q
    BY <1>0 DEF Runs, None
  <2> HIDE DEF RunnerInv, RunnerTypeOK, Ended
  <2> QED
    BY <1>0, <2>1, <2>2 DEF OneRecording
<1>4. CASE index' = index /\ thread' = [thread EXCEPT ![r] = "died"]
  <2>1. \A q \in Runs : Ended(q)' <=> Ended(q)
    BY <1>0, <1>4
  <2>2. \A q \in ToSet(index) : q \in Runs
    BY DEF ToSet
  <2> QED
    BY <1>0, <1>3, <1>4, <2>1, <2>2 DEF WasRecorded, NoRecordLost
<1>5. CASE index' = Newest(all) /\ thread' = [thread EXCEPT ![r] = "end"]
  <2>1. /\ index' \in Seq(Runs) /\ Len(index') <= IndexLimit /\ Len(index') <= Len(all)
        /\ \A i \in 1..Len(index') : index'[i] = all[i]
        /\ Len(index') = Len(all) \/ Len(index') = IndexLimit
    BY <1>2, <1>5, NewestType, Zenon
  <2>2. ASSUME NEW q \in ToSet(index') PROVE q = r \/ q \in ToSet(index)
    <3>1. PICK i \in 1..Len(index') : index'[i] = q
      BY <2>1, InToSet
    <3>2. CASE i = 1
      BY <1>2, <2>1, <3>1, <3>2
    <3>3. CASE i # 1
      <4>1. i \in 2..Len(all)
        BY <1>0, <1>2, <2>1, <3>3
      <4>2. i - 1 \in 1..Len(entries) /\ q = entries[i - 1]
        BY <1>2, <2>1, <3>1, <4>1
      <4>3. q \in ToSet(entries)
        BY <1>0, <4>2, InToSet
      <4>4. entries = index
        BY <1>0, <4>2
      <4> QED
        BY <4>3, <4>4
    <3> QED
      BY <3>2, <3>3
  <2>3. WasRecorded'
    <3>1. \A q \in Runs : q = r \/ Ended(q) => Ended(q)'
      BY <1>0, <1>5
    <3>2. \A q \in ToSet(index') : q = r \/ (q \in Runs /\ Ended(q))
      <4>1. \A q \in ToSet(index) : q \in Runs
        BY DEF ToSet
      <4> QED
        BY <2>2, <4>1 DEF WasRecorded
    <3> QED
      BY <3>1, <3>2 DEF WasRecorded
  <2>4. CASE Len(index') = IndexLimit
    BY <1>3, <2>3, <2>4 DEF NoRecordLost
  <2>5. CASE Len(index') = Len(all) /\ Len(index') # IndexLimit
    <3>1. index' = all
      BY <1>2, <2>1, <2>5
    <3>2. r \in ToSet(index')
      <4>1. 1 \in 1..Len(index') /\ index'[1] = r
        BY <1>0, <1>2, <3>1
      <4> QED
        BY <2>1, <4>1, InToSet
    <3>3. ASSUME NEW q \in ToSet(entries) PROVE q \in ToSet(index')
      <4>1. PICK i \in 1..Len(entries) : entries[i] = q
        BY <1>0, InToSet
      <4>2. all[i + 1] = entries[i]
        BY <1>2, Zenon
      <4>3. i \in Nat /\ i <= Len(entries) /\ Len(entries) \in Nat
        BY <1>0
      <4>4. Len(index') = Len(entries) + 1
        BY <1>2, <3>1
      <4>5. i + 1 \in 1..Len(index')
        BY <4>3, <4>4
      <4>6. index'[i + 1] = q
        BY <3>1, <4>1, <4>2, Zenon
      <4> QED
        BY <2>1, <4>5, <4>6, InToSet
    <3>4. entries = index => Len(index) # IndexLimit
      BY <1>0, <1>2, <2>1, <2>5, Positive
    <3>5. ASSUME NEW q \in Runs, Ended(q)' PROVE q \in ToSet(index') \/ q \in unread'
      <4>1. CASE q = r
        BY <3>2, <4>1
      <4>2. CASE q # r
        <5>1. Ended(q)
          BY <1>0, <1>5, <3>5, <4>2
        <5>2. CASE entries = index
          BY <1>0, <3>3, <3>4, <5>1, <5>2 DEF NoRecordLost
        <5> QED
          BY <1>0, <5>1, <5>2
      <4> QED
        BY <4>1, <4>2
    <3> QED
      BY <1>3, <2>3, <3>5 DEF NoRecordLost
  <2> QED
    BY <2>1, <2>4, <2>5
<1> QED
  BY <1>1, <1>4, <1>5

LEMMA RecordStep ==
  ASSUME RunnerInv, [RunnerNext]_runnerVars
  PROVE  OneRecording' /\ WasRecorded' /\ NoRecordLost'
<1> DEFINE Goal == OneRecording' /\ WasRecorded' /\ NoRecordLost'
<1>1. ASSUME NEW r \in Runs, RecordWrites(r) PROVE Goal
  BY <1>1, RecordWritesKeeps
<1>0. \A q \in ToSet(index) : q \in Runs
  BY DEF RunnerInv, RunnerTypeOK, ToSet
<1> USE DEF Ended
<1>a. ASSUME UNCHANGED indexVars, UNCHANGED thread PROVE Goal
  BY <1>a DEF indexVars, RunnerInv, OneRecording, WasRecorded, NoRecordLost
<1>b. ASSUME NEW r \in Runs, NEW s, thread' = [thread EXCEPT ![r] = s], UNCHANGED indexVars,
             thread[r] \notin {"record", "end", "done"}, s \notin {"record", "end", "done"}
      PROVE  Goal
  BY <1>0, <1>b DEF indexVars, RunnerInv, RunnerTypeOK, OneRecording, WasRecorded, NoRecordLost
<1> USE DEF paneVars, childVars, At, GoTo
<1>2. CASE CancelReads \/ CancelActs \/ UNCHANGED runnerVars
  BY <1>2, <1>a DEF CancelReads, CancelActs, runnerVars, indexVars
<1>3. ASSUME NEW r \in Runs, Start(r) PROVE Goal
  <2>1. thread[r] = "none" /\ UNCHANGED indexVars
    BY <1>3 DEF Start, RunnerInv, NotStarted
  <2>2. CASE UNCHANGED thread
    BY <1>a, <2>1, <2>2
  <2>3. CASE thread' = [thread EXCEPT ![r] = "spawn"]
    BY <1>b, <2>1, <2>3
  <2> QED
    BY <1>3, <2>2, <2>3 DEF Start
<1>4. ASSUME NEW r \in Runs, Spawn(r) \/ Hold(r) \/ Eof(r) \/ Wait(r) \/ Clear(r) \/ Judge(r)
                             \/ Settle(r)
      PROVE  Goal
  <2>1. UNCHANGED indexVars /\ thread[r] \notin {"record", "end", "done"}
    BY <1>4 DEF Spawn, Hold, Eof, Wait, Clear, Judge, Settle
  <2>2. \E s \in {"hold", "close", "read", "wait", "clear", "finish", "settle"} :
          thread' = [thread EXCEPT ![r] = s]
    BY <1>4 DEF Spawn, Hold, Eof, Wait, Clear, Judge, Settle
  <2> QED
    BY <1>b, <2>1, <2>2
<1>5. ASSUME NEW r \in Runs, RecordReads(r) PROVE Goal
  <2>1. /\ thread[r] = "finish" /\ thread' = [thread EXCEPT ![r] = "record"] /\ recording = None
        /\ recording' = r /\ index' = index
        /\ \/ entries' = index /\ unread' = unread
           \/ entries' = <<>> /\ unread' = {q \in Runs : Ended(q)}
    BY <1>5 DEF RecordReads, ReadIndex
  <2>a. \A q \in Runs : Ended(q)' <=> Ended(q)
    BY <2>1 DEF RunnerInv, RunnerTypeOK
  <2>2. OneRecording'
    <3>1. \A q \in Runs : thread'[q] = "record" <=> recording' = q
      BY <2>1 DEF RunnerInv, RunnerTypeOK, OneRecording, Runs, None
    <3>2. \/ entries' = index'
          \/ entries' = <<>> /\ \A q \in Runs : Ended(q)' => q \in unread'
      BY <2>1, <2>a
    <3> QED
      BY <3>1, <3>2 DEF OneRecording
  <2>3. WasRecorded'
    BY <1>0, <2>1, <2>a DEF RunnerInv, WasRecorded
  <2>4. NoRecordLost'
    BY <2>1, <2>a DEF RunnerInv, NoRecordLost
  <2> QED
    BY <2>2, <2>3, <2>4
<1>6. ASSUME NEW r \in Runs, End(r) PROVE Goal
  <2>1. /\ thread[r] = "end" /\ thread' = [thread EXCEPT ![r] = "done"] /\ UNCHANGED indexVars
    BY <1>6 DEF End
  <2>2. UNCHANGED <<recording, index, entries, unread>>
    BY <2>1 DEF indexVars
  <2>4. OneRecording'
    BY <1>0, <2>1, <2>2 DEF RunnerInv, RunnerTypeOK, OneRecording
  <2>5. WasRecorded' /\ NoRecordLost'
    BY <1>0, <2>1, <2>2 DEF RunnerInv, RunnerTypeOK, WasRecorded, NoRecordLost
  <2> QED
    BY <2>4, <2>5
<1>7. ASSUME NEW r \in Runs, ReadLine(r) \/ ChildCloses(r) \/ ChildEnds(r) \/ Pump(r) PROVE Goal
  BY <1>7, <1>a DEF ReadLine, ChildCloses, ChildEnds, Pump, Subscribe, Get, GetNothing
<1> QED
  BY <1>1, <1>2, <1>3, <1>4, <1>5, <1>6, <1>7 DEF RunnerNext, Execute

------------------------------------------------------------------------------
(* Theorems.                                                                 *)

\* The slot, the children and the index fit each other after every step, but for what the
\* operator cancelled (Runner, runs._record).
THEOREM RunnerIsKept == RunnerSpec => []RunnerInv
<1>1. RunnerInit => RunnerInv
  <2> SUFFICES ASSUME RunnerInit PROVE RunnerInv
    OBVIOUS
  <2>1. RunnerTypeOK
    BY Positive DEF RunnerInit, RunnerTypeOK, Runs, None
  <2>2. OneRunning /\ NotStarted /\ ChildFollows
    BY DEF RunnerInit, OneRunning, NotStarted, ChildFollows, Alive
  <2>3. OneRecording /\ WasRecorded /\ NoRecordLost
    BY DEF RunnerInit, OneRecording, WasRecorded, NoRecordLost, ToSet, Runs, None
  <2> QED
    BY <2>1, <2>2, <2>3 DEF RunnerInv
<1>2. RunnerInv /\ [RunnerNext]_runnerVars => RunnerInv'
  BY RunnerTypeStep, SlotStep, RecordStep DEF RunnerInv
<1> QED
  BY <1>1, <1>2, PTL DEF RunnerSpec

\* Every variable keeps to its set: the type invariant of the runner.
THEOREM RunnerTypeCorrect == RunnerSpec => []RunnerTypeOK
BY RunnerIsKept, PTL DEF RunnerInv

\* A child that lives beside the slot's run is one the operator cancelled, whatever is
\* cancelled, timed out or started again meanwhile (Runner.start, Runner.cancel).
THEOREM OnlyCancelledOverlap == RunnerSpec => []OverlapWasCancelled
<1>1. RunnerInv => OverlapWasCancelled
  <2> SUFFICES ASSUME RunnerInv, NEW r \in Runs, Alive(r), current # r PROVE status[r] = "cancelled"
    BY DEF OverlapWasCancelled
  <2>1. status[r] \notin {"running", "ok", "failed"}
    BY DEF RunnerInv, OneRunning, ChildFollows
  <2>2. status[r] # "none"
    BY DEF RunnerInv, NotStarted, ChildFollows
  <2> QED
    BY <2>1, <2>2 DEF RunnerInv, RunnerTypeOK
<1> QED
  BY <1>1, RunnerIsKept, PTL

\* Two runs that end together both reach the index, and what is in it has no child left
\* (runs._record under its lock, Runner._close).
THEOREM RecordedAlways == RunnerSpec => []RunsRecorded
<1>1. RunnerInv => RunsRecorded
  <2> SUFFICES ASSUME RunnerInv PROVE RunsRecorded
    OBVIOUS
  <2>1. \A r \in ToSet(index) : r \in Runs /\ thread[r] \in {"end", "done"}
    BY DEF RunnerInv, RunnerTypeOK, ToSet, WasRecorded, Ended
  <2>2. RecordedIsOver
    BY <2>1 DEF RunnerInv, ChildFollows, RecordedIsOver
  <2> QED
    BY <2>2 DEF RunnerInv, RunsRecorded
<1> QED
  BY <1>1, RunnerIsKept, PTL
=============================================================================
