--------------------------- MODULE Identity_proofs ---------------------------
(***************************************************************************)
(* Proofs about the keys of campuses, for any articles, records and        *)
(* companies and any number of rows.                                       *)
(***************************************************************************)
EXTENDS Identity, FiniteSetTheorems, WellFoundedInduction, TLAPS

\* A row has its columns and finitely many citations.
IsRow(r) ==
  /\ r = [company |-> r.company, city |-> r.city, county |-> r.county, key |-> r.key,
          cites |-> r.cites]
  /\ IsFiniteSet(DOMAIN r.cites)

\* What the unique index on the key, the foreign key of an alias and the counter of ids give.
Sound ==
  /\ last \in Nat /\ folded \in BOOLEAN
  /\ DOMAIN rows \subseteq 1..last
  /\ \A i \in DOMAIN rows : IsRow(rows[i])
  /\ \A i, j \in DOMAIN rows : rows[i].key = rows[j].key => i = j
  /\ \A k \in DOMAIN alias : alias[k] \in DOMAIN rows

\* A key that has led to a row is stored, remembered or excluded, the very key: barred by
\* another spelling of it would not do, for that one can be lifted alone.
Named == known \subseteq Stored(rows) \cup DOMAIN alias \cup DOMAIN excluded

\* The key an article calls a row taken out by, today.
Called(n) == <<CompanyKey(n[2], folded), n[3]>>

\* Each name of a row taken out is barred, unless a key that reads like it was lifted.
OutIsBarred ==
  \A n \in out : Barred(Called(n)) \/ \E t \in lifted : Renormalise(t, folded) = Called(n)

IInv == Sound /\ Named /\ OutIsBarred

------------------------------------------------------------------------------
(* Keys.                                                                     *)

\* The rules read a spelling they have read already as itself, before and after a fold.
LEMMA ReadTwice ==
  /\ \A c, r : CompanyKey(CompanyKey(c, FALSE), r) = CompanyKey(c, r)
  /\ \A c, r : CompanyKey(CompanyKey(c, r), TRUE) = CompanyKey(c, TRUE)
  /\ \A c, r : r \in BOOLEAN => CompanyKey(CompanyKey(c, r), r) = CompanyKey(c, r)
BY IdentityAssumption DEF CompanyKey

\* What a key reaches: the one row that stores it, else its alias, and 0 only if neither.
LEMMA ReachIs ==
  ASSUME Sound, NEW k
  PROVE  /\ \A i \in DOMAIN rows : rows[i].key = k => Holder(rows, k) = i
         /\ Reach(rows, alias, k) # 0 <=> k \in Stored(rows) \cup DOMAIN alias
         /\ Reach(rows, alias, k) # 0 => Reach(rows, alias, k) \in DOMAIN rows
<1>1. ASSUME NEW i \in DOMAIN rows, rows[i].key = k PROVE Holder(rows, k) = i
  BY <1>1 DEF Sound, Holder
<1>2. 0 \notin DOMAIN rows
  BY DEF Sound
<1> QED
  BY <1>1, <1>2 DEF Sound, Reach, Stored

\* Filling a row's place leaves its key, its company and its citations.
LEMMA RecomputedRow ==
  ASSUME NEW r, IsRow(r), NEW q \in Recomputed(r)
  PROVE  IsRow(q) /\ q.key = r.key /\ q.cites = r.cites /\ q.company = r.company
<1>1. PICK n \in Fills(r, "city") \X Fills(r, "county") :
        q = [r EXCEPT !.city = n[1], !.county = n[2]]
  BY DEF Recomputed
<1>2. q = [company |-> r.company, city |-> n[1], county |-> n[2], key |-> r.key,
           cites |-> r.cites]
  BY <1>1 DEF IsRow
<1> QED
  BY <1>2 DEF IsRow

\* keys.remember adds at most one key, which nothing answered, and changes no other.
LEMMA Remembered ==
  ASSUME NEW rs, NEW al, NEW i \in DOMAIN rs, NEW k, NEW new, new = Remember(rs, al, i, k)
  PROVE  /\ DOMAIN al \subseteq DOMAIN new
         /\ \A x \in DOMAIN al : new[x] = al[x]
         /\ \A x \in DOMAIN new \ DOMAIN al : new[x] = i /\ x \notin Stored(rs)
         /\ k \in Stored(rs) \cup DOMAIN new
BY DEF Remember, Put, Stored

\* A record lands on one row of rs, and no key moves.
LEMMA Landed ==
  ASSUME NEW STATE rs, NEW STATE i, i \in DOMAIN rs,
         \A j \in DOMAIN rs : IsRow(rs[j]),
         NEW rec, NEW page, NEW routed \in BOOLEAN, Land(rs, i, rec, page, routed)
  PROVE  /\ DOMAIN rows' = DOMAIN rs
         /\ \A j \in DOMAIN rs : /\ IsRow(rows'[j]) /\ rows'[j].key = rs[j].key
                                 /\ DOMAIN rs[j].cites \subseteq DOMAIN rows'[j].cites
         /\ Stored(rows') = Stored(rs)
         /\ DOMAIN alias \subseteq DOMAIN alias'
         /\ \A k \in DOMAIN alias : alias'[k] = alias[k]
         /\ \A k \in DOMAIN alias' \ DOMAIN alias : alias'[k] = i /\ k \notin Stored(rs)
         /\ routed => Key(rec, folded) \in Stored(rs) \cup DOMAIN alias'
<1> DEFINE claim == [city |-> rec.city, county |-> rec.county]
           cited == [rs[i] EXCEPT !.cites = Put(@, page, claim)]
<1>1. PICK row \in Recomputed(cited) :
        LET written == [rs EXCEPT ![i] = row]
            kept    == IF routed THEN Remember(written, alias, i, Key(rec, folded)) ELSE alias
        IN  /\ rows' = written
            /\ alias' = Remember(written, kept, i, Key(row, folded))
  BY DEF Land
<1>2. IsRow(cited) /\ cited.key = rs[i].key /\ DOMAIN rs[i].cites \subseteq DOMAIN cited.cites
  <2> DEFINE r == rs[i]
             cites == Put(r.cites, page, claim)
  <2>1. IsRow(r)
    OBVIOUS
  <2>2. DOMAIN cites = DOMAIN r.cites \cup {page}
    BY DEF Put
  <2>3. IsFiniteSet(DOMAIN r.cites \cup {page})
    BY <2>1, FS_AddElement DEF IsRow
  <2>4. cited = [r EXCEPT !.cites = cites]
    OBVIOUS
  <2> HIDE DEF cited, cites, r
  <2>5. cited = [company |-> r.company, city |-> r.city, county |-> r.county, key |-> r.key,
                 cites |-> cites]
    BY <2>1, <2>4 DEF IsRow
  <2>6. IsRow(cited) /\ cited.key = r.key /\ DOMAIN r.cites \subseteq DOMAIN cited.cites
    BY <2>2, <2>3, <2>5 DEF IsRow
  <2> QED
    BY <2>6 DEF r
<1>3. IsRow(row) /\ row.key = rs[i].key /\ DOMAIN rs[i].cites \subseteq DOMAIN row.cites
  BY <1>2, RecomputedRow
<1> DEFINE kept == IF routed THEN Remember(rows', alias, i, Key(rec, folded)) ELSE alias
<1>4. rows' = [rs EXCEPT ![i] = row] /\ alias' = Remember(rows', kept, i, Key(row, folded))
  BY <1>1
<1> HIDE DEF cited
<1>5. /\ DOMAIN rows' = DOMAIN rs
      /\ \A j \in DOMAIN rs : /\ IsRow(rows'[j]) /\ rows'[j].key = rs[j].key
                              /\ DOMAIN rs[j].cites \subseteq DOMAIN rows'[j].cites
  BY <1>3, <1>4
<1>6. Stored(rows') = Stored(rs)
  BY <1>5 DEF Stored
<1>7. /\ DOMAIN alias \subseteq DOMAIN kept
      /\ \A k \in DOMAIN alias : kept[k] = alias[k]
      /\ \A k \in DOMAIN kept \ DOMAIN alias : kept[k] = i /\ k \notin Stored(rows')
      /\ routed => Key(rec, folded) \in Stored(rows') \cup DOMAIN kept
  BY <1>5, Remembered
<1> HIDE DEF kept
<1>8. /\ DOMAIN kept \subseteq DOMAIN alias'
      /\ \A k \in DOMAIN kept : alias'[k] = kept[k]
      /\ \A k \in DOMAIN alias' \ DOMAIN kept : alias'[k] = i /\ k \notin Stored(rows')
  <2>1. i \in DOMAIN rows'
    BY <1>5
  <2> DEFINE today == Key(row, folded)
  <2>2. alias' = Remember(rows', kept, i, today)
    BY <1>4
  <2> HIDE DEF today
  <2> QED
    BY <2>1, <2>2, Remembered
<1> QED
  BY <1>5, <1>6, <1>7, <1>8

------------------------------------------------------------------------------
(* The row that wins a key: one with the most citations, the earliest of those. *)

Wins(c, i, j) == c[i] > c[j] \/ (c[i] = c[j] /\ i < j)

\* Of finitely many rows there is one that wins over every other.
LEMMA Winner ==
  ASSUME NEW n \in Nat, NEW S \in SUBSET (1..n), S # {}, NEW c, \A i \in S : c[i] \in Nat
  PROVE  \E i \in S : \A j \in S \ {i} : Wins(c, i, j)
<1> DEFINE Won(U) == \E i \in U : \A j \in U \ {i} : Wins(c, i, j)
           Lost   == {U \in SUBSET S : U # {} /\ ~Won(U)}
<1> SUFFICES ASSUME Lost # {} PROVE FALSE
  OBVIOUS
<1>1. IsFiniteSet(S)
  <2>1. IsFiniteSet(1..n)
    BY FS_Interval
  <2> QED
    BY <2>1, FS_Subset
<1>2. IsWellFoundedOn(StrictSubsetOrdering(S), SUBSET S)
  BY <1>1, FS_StrictSubsetOrderingWellFounded, FS_FiniteSubsetsOfFinite
<1>3. Lost \subseteq SUBSET S
  OBVIOUS
<1>4. PICK U \in Lost : \A V \in Lost : ~(<<V, U>> \in StrictSubsetOrdering(S))
  <2> HIDE DEF Lost
  <2> QED
    BY <1>2, <1>3, WFMin
<1>5. PICK u \in U : TRUE
  OBVIOUS
<1>6. U \ {u} \in SUBSET S /\ U \ {u} \subseteq U /\ U \ {u} # U /\ U \in SUBSET S
  BY <1>5
<1>7. U \ {u} \notin Lost
  BY <1>4, <1>6 DEF StrictSubsetOrdering
<1>8. CASE U = {u}
  BY <1>5, <1>8
<1>9. CASE U \ {u} # {}
  <2>1. PICK b \in U \ {u} : \A j \in (U \ {u}) \ {b} : Wins(c, b, j)
    BY <1>6, <1>7, <1>9
  <2>2. b \in S /\ u \in S /\ b # u /\ b \in Nat /\ u \in Nat /\ c[b] \in Nat /\ c[u] \in Nat
    BY <1>5, <1>6, <2>1
  <2>3. CASE Wins(c, b, u)
    BY <2>1, <2>3
  <2>4. CASE Wins(c, u, b)
    <3>1. ASSUME NEW j \in U \ {u} PROVE Wins(c, u, j)
      <4>1. j \in S /\ j \in Nat /\ c[j] \in Nat
        BY <1>6, <3>1
      <4> QED
        BY <2>1, <2>2, <2>4, <3>1, <4>1 DEF Wins
    <3> QED
      BY <1>5, <3>1
  <2> QED
    BY <2>2, <2>3, <2>4 DEF Wins
<1> QED
  BY <1>5, <1>8, <1>9

\* sync keeps every alias, and a key it adds reaches a row.
LEMMA SyncedAdds ==
  ASSUME Sound, NEW rules \in BOOLEAN
  PROVE  LET new == Synced(rules)
         IN  /\ DOMAIN alias \subseteq DOMAIN new
             /\ \A k \in DOMAIN alias : new[k] = alias[k]
             /\ \A k \in DOMAIN new : new[k] \in DOMAIN rows
<1> DEFINE stored   == Stored(rows)
           natural  == {Key(rows[i], rules) : i \in DOMAIN rows} \ (stored \union DOMAIN alias)
           Size(i)  == Cardinality(DOMAIN rows[i].cites)
           With(k)  == {i \in DOMAIN rows : Key(rows[i], rules) = k}
           Best(k)  == CHOOSE i \in DOMAIN rows :
                         /\ Key(rows[i], rules) = k
                         /\ \A j \in With(k) \ {i} :
                              LET m == Size(i)
                                  o == Size(j)
                              IN  m > o \/ (m = o /\ i < j)
           renamed  == {Renormalise(k, rules) : k \in DOMAIN alias}
                         \ (stored \union DOMAIN alias \union natural)
           Old(k)   == CHOOSE o \in DOMAIN alias : Renormalise(o, rules) = k
<1>1. Synced(rules) = [k \in DOMAIN alias \union natural \union renamed |->
         IF k \in DOMAIN alias THEN alias[k]
         ELSE IF k \in natural THEN Best(k) ELSE alias[Old(k)]]
  BY DEF Synced
<1>2. ASSUME NEW k \in natural PROVE Best(k) \in DOMAIN rows
  <2> DEFINE c == [i \in DOMAIN rows |-> Size(i)]
  <2>1. With(k) # {} /\ With(k) \in SUBSET (1..last) /\ last \in Nat
    BY <1>2 DEF Sound
  <2>2. \A i \in With(k) : c[i] \in Nat
    BY FS_CardinalityType DEF Sound, IsRow
  <2>3. PICK i \in With(k) : \A j \in With(k) \ {i} : Wins(c, i, j)
    <3> HIDE DEF With, c
    <3> QED
      BY <2>1, <2>2, Winner
  <2>4. /\ i \in DOMAIN rows /\ Key(rows[i], rules) = k
        /\ \A j \in With(k) \ {i} : Size(i) > Size(j) \/ (Size(i) = Size(j) /\ i < j)
    BY <2>3 DEF Wins
  <2> QED
    BY <2>4
<1>3. ASSUME NEW k \in renamed PROVE Old(k) \in DOMAIN alias
  BY <1>3
<1> HIDE DEF Best, Old, natural, renamed, stored
<1> QED
  BY <1>1, <1>2, <1>3 DEF Sound

------------------------------------------------------------------------------
(* What each operation does to rows, keys and aliases.                       *)

\* No row goes and none loses a citation or its key; no alias moves.
NothingMoves ==
  /\ DOMAIN rows \subseteq DOMAIN rows'
  /\ \A i \in DOMAIN rows : /\ rows'[i].key = rows[i].key
                            /\ DOMAIN rows[i].cites \subseteq DOMAIN rows'[i].cites
  /\ DOMAIN alias \subseteq DOMAIN alias'
  /\ \A k \in DOMAIN alias : alias'[k] = alias[k]

\* A row is created under a key that no row stores and that is not barred, or none is.
Creates(k) ==
  \/ last' = last /\ DOMAIN rows' = DOMAIN rows
  \/ /\ last' = last + 1 /\ DOMAIN rows' = DOMAIN rows \cup {last'}
     /\ rows'[last'].key = k /\ k \notin Stored(rows) /\ ~Barred(k)

LEMMA IngestDoes ==
  ASSUME Sound, NEW rec, NEW page, NEW route, NEW force, NEW verdict,
         Ingest(rec, page, route, force, verdict)
  PROVE  /\ Sound' /\ NothingMoves /\ Creates(Key(rec, folded))
         /\ \/ known' = known
            \/ /\ known' = known \cup {Key(rec, folded)}
               /\ Key(rec, folded) \in Stored(rows') \cup DOMAIN alias'
<1> DEFINE k     == Key(rec, folded)
           byKey == IF route \in DOMAIN rows THEN route
                    ELSE IF k \in Stored(rows) THEN Holder(rows, k)
                    ELSE IF ~force /\ k \in DOMAIN alias THEN alias[k] ELSE 0
           asked == ~force /\ verdict \in Candidates(rec)
           new   == [company |-> rec.company, city |-> rec.city, county |-> rec.county,
                     key |-> k, cites |-> Empty]
           Knows == \/ known' = known
                    \/ known' = known \cup {k} /\ k \in Stored(rows') \cup DOMAIN alias'
<1>0. /\ folded' = folded
      /\ \/ /\ byKey # 0
            /\ Land(rows, byKey, rec, page, FALSE)
            /\ known' = IF route \notin DOMAIN rows THEN known \union {k} ELSE known
            /\ last' = last
         \/ /\ byKey = 0 /\ ~Barred(k) /\ asked
            /\ Land(rows, verdict, rec, page, TRUE)
            /\ known' = known \union {k} /\ last' = last
         \/ /\ byKey = 0 /\ ~Barred(k) /\ ~asked
            /\ last' = last + 1
            /\ Land(Put(rows, last + 1, new), last + 1, rec, page, FALSE)
            /\ known' = known \union {k}
  BY DEF Ingest
<1>1. /\ k \in Stored(rows) => Holder(rows, k) \in DOMAIN rows
      /\ k \in DOMAIN alias => alias[k] \in DOMAIN rows
      /\ \A j \in DOMAIN rows : IsRow(rows[j])
      /\ 0 \notin DOMAIN rows
  BY ReachIs DEF Sound, Stored
<1>2. ASSUME NEW STATE i, i \in DOMAIN rows, NEW routed \in BOOLEAN,
             Land(rows, i, rec, page, routed), last' = last
      PROVE  Sound' /\ NothingMoves /\ Creates(k) /\ Stored(rows') = Stored(rows)
               /\ (routed => k \in Stored(rows) \cup DOMAIN alias')
  <2>1. /\ DOMAIN rows' = DOMAIN rows
        /\ \A j \in DOMAIN rows : /\ IsRow(rows'[j]) /\ rows'[j].key = rows[j].key
                                  /\ DOMAIN rows[j].cites \subseteq DOMAIN rows'[j].cites
        /\ Stored(rows') = Stored(rows)
        /\ DOMAIN alias \subseteq DOMAIN alias'
        /\ \A x \in DOMAIN alias : alias'[x] = alias[x]
        /\ \A x \in DOMAIN alias' \ DOMAIN alias : alias'[x] = i /\ x \notin Stored(rows)
        /\ routed => k \in Stored(rows) \cup DOMAIN alias'
    BY <1>1, <1>2, Landed
  <2>2. Sound'
    BY <1>0, <1>2, <2>1 DEF Sound
  <2> QED
    BY <1>2, <2>1, <2>2 DEF NothingMoves, Creates
<1>3. CASE /\ byKey # 0
           /\ Land(rows, byKey, rec, page, FALSE)
           /\ known' = IF route \notin DOMAIN rows THEN known \union {k} ELSE known
           /\ last' = last
  <2>1. byKey \in DOMAIN rows /\ (route \notin DOMAIN rows => k \in Stored(rows) \cup DOMAIN alias)
    BY <1>1, <1>3
  <2>2. Sound' /\ NothingMoves /\ Creates(k) /\ Stored(rows') = Stored(rows)
    <3> HIDE DEF byKey, k
    <3> QED
      BY <1>2, <1>3, <2>1
  <2>3. Knows
    BY <1>3, <2>1, <2>2 DEF NothingMoves
  <2> QED
    BY <2>2, <2>3
<1>4. CASE /\ byKey = 0 /\ ~Barred(k) /\ asked
           /\ Land(rows, verdict, rec, page, TRUE)
           /\ known' = known \union {k} /\ last' = last
  <2>1. verdict \in DOMAIN rows
    BY <1>4 DEF Candidates
  <2>2. /\ Sound' /\ NothingMoves /\ Creates(k) /\ Stored(rows') = Stored(rows)
        /\ k \in Stored(rows) \cup DOMAIN alias'
    <3> HIDE DEF byKey, k
    <3> QED
      BY <1>2, <1>4, <2>1
  <2> QED
    BY <1>4, <2>2
<1>5. CASE /\ byKey = 0 /\ ~Barred(k) /\ ~asked
           /\ last' = last + 1
           /\ Land(Put(rows, last + 1, new), last + 1, rec, page, FALSE)
           /\ known' = known \union {k}
  <2> DEFINE rs == Put(rows, last + 1, new)
             i  == last + 1
  <2>1. k \notin Stored(rows)
    BY <1>1, <1>5
  <2>2. /\ DOMAIN rs = DOMAIN rows \cup {i} /\ i \notin DOMAIN rows
        /\ rs[i] = new /\ \A j \in DOMAIN rows : rs[j] = rows[j]
    BY DEF Put, Sound
  <2>3. IsRow(new) /\ new.key = k
    BY FS_EmptySet DEF IsRow, Empty
  <2>4. \A j \in DOMAIN rs : IsRow(rs[j])
    BY <1>1, <2>2, <2>3
  <2>5. /\ DOMAIN rows' = DOMAIN rs
        /\ \A j \in DOMAIN rs : /\ IsRow(rows'[j]) /\ rows'[j].key = rs[j].key
                                /\ DOMAIN rs[j].cites \subseteq DOMAIN rows'[j].cites
        /\ Stored(rows') = Stored(rs)
        /\ DOMAIN alias \subseteq DOMAIN alias'
        /\ \A x \in DOMAIN alias : alias'[x] = alias[x]
        /\ \A x \in DOMAIN alias' \ DOMAIN alias : alias'[x] = i
    <3> HIDE DEF new
    <3>1. Land(rs, i, rec, page, FALSE) /\ i \in DOMAIN rs
      BY <1>5, <2>2
    <3> HIDE DEF rs, i
    <3> QED
      BY <2>4, <3>1, Landed, ZenonT(60)
  <2> HIDE DEF rs, new, k
  <2>6. DOMAIN rows' = DOMAIN rows \cup {i} /\ i \notin DOMAIN rows /\ rows'[i].key = k
        /\ \A j \in DOMAIN rows : /\ IsRow(rows'[j]) /\ rows'[j].key = rows[j].key
                                  /\ DOMAIN rows[j].cites \subseteq DOMAIN rows'[j].cites
        /\ IsRow(rows'[i])
    BY <2>2, <2>3, <2>5
  <2>7. \A j \in DOMAIN rows : rows'[j].key # k
    BY <2>1, <2>6 DEF Stored
  <2>8. Sound'
    BY <1>0, <1>5, <2>5, <2>6, <2>7 DEF Sound
  <2>9. NothingMoves /\ Creates(k)
    BY <1>5, <2>1, <2>5, <2>6 DEF NothingMoves, Creates
  <2>10. k \in Stored(rows')
    BY <2>6 DEF Stored
  <2> QED
    BY <1>5, <2>8, <2>9, <2>10 DEF k
<1> QED
  BY <1>0, <1>3, <1>4, <1>5

\* A merge takes one row away, and its key and every alias of it lead to the survivor.
LEMMA MergeDoes ==
  ASSUME Sound, NEW keep, NEW dupe, Merge(keep, dupe)
  PROVE  /\ Sound'
         /\ DOMAIN rows' = DOMAIN rows \ {dupe}
         /\ \A i \in DOMAIN rows' : /\ rows'[i].key = rows[i].key
                                    /\ DOMAIN rows[i].cites \subseteq DOMAIN rows'[i].cites
         /\ keep \in DOMAIN rows' /\ dupe \in DOMAIN rows
         /\ DOMAIN rows[dupe].cites \subseteq DOMAIN rows'[keep].cites
         /\ DOMAIN alias \cup {rows[dupe].key} \subseteq DOMAIN alias'
         /\ \A k \in DOMAIN alias :
              k # rows[dupe].key /\ alias[k] # dupe => alias'[k] = alias[k]
<1> DEFINE cites == FoldedCites(keep, dupe)
           into  == [rows[keep] EXCEPT !.cites = cites]
<1>1. /\ keep \in DOMAIN rows /\ dupe \in DOMAIN rows /\ keep # dupe
      /\ IsRow(rows[keep]) /\ IsRow(rows[dupe])
  BY DEF Merge, Sound
<1>2. PICK row \in Recomputed(into) :
        rows' = [Restrict(rows, DOMAIN rows \ {dupe}) EXCEPT ![keep] = row]
  BY DEF Merge
<1>3. DOMAIN cites = DOMAIN rows[keep].cites \cup DOMAIN rows[dupe].cites
  BY DEF FoldedCites
<1>4. IsFiniteSet(DOMAIN cites)
  BY <1>1, <1>3, FS_Union DEF IsRow
<1>5. IsRow(row) /\ row.key = rows[keep].key /\ row.cites = cites
  <2>1. into = [company |-> rows[keep].company, city |-> rows[keep].city,
                county |-> rows[keep].county, key |-> rows[keep].key, cites |-> cites]
    <3> DEFINE r == rows[keep]
    <3>1. IsRow(r) /\ into = [r EXCEPT !.cites = cites]
      BY <1>1
    <3> HIDE DEF r, cites, into
    <3>2. into = [company |-> r.company, city |-> r.city, county |-> r.county,
                  key |-> r.key, cites |-> cites]
      BY <3>1 DEF IsRow
    <3> QED
      BY <3>2 DEF r
  <2> HIDE DEF into, cites
  <2>2. IsRow(into) /\ into.key = rows[keep].key /\ into.cites = cites
    BY <1>4, <2>1 DEF IsRow
  <2> QED
    BY <1>2, <2>2, RecomputedRow
<1> HIDE DEF into, cites
<1>6. /\ DOMAIN rows' = DOMAIN rows \ {dupe}
      /\ \A i \in DOMAIN rows' : rows'[i] = IF i = keep THEN row ELSE rows[i]
  BY <1>1, <1>2 DEF Restrict
<1>7. \A i \in DOMAIN rows' : /\ IsRow(rows'[i]) /\ rows'[i].key = rows[i].key
                              /\ DOMAIN rows[i].cites \subseteq DOMAIN rows'[i].cites
  BY <1>3, <1>5, <1>6 DEF Sound
<1> DEFINE flat  == [k \in DOMAIN alias |-> IF alias[k] = dupe THEN keep ELSE alias[k]]
           own   == Put(flat, rows[dupe].key, keep)
           today == Key(rows[dupe], folded)
<1>8. /\ DOMAIN own = DOMAIN alias \cup {rows[dupe].key}
      /\ \A k \in DOMAIN own : own[k] \in DOMAIN rows \ {dupe}
      /\ \A k \in DOMAIN alias : k # rows[dupe].key /\ alias[k] # dupe => own[k] = alias[k]
  BY <1>1 DEF Put, Sound
<1>9. alias' = Remember(rows, own, keep, today)
  BY DEF Merge, FoldedNames
<1>10. /\ DOMAIN own \subseteq DOMAIN alias'
       /\ \A k \in DOMAIN own : alias'[k] = own[k]
       /\ \A k \in DOMAIN alias' \ DOMAIN own : alias'[k] = keep
  <2> HIDE DEF own, today
  <2> QED
    BY <1>1, <1>9, Remembered
<1> HIDE DEF own
<1>11. Sound'
  <2>1. \A k \in DOMAIN alias' : alias'[k] \in DOMAIN rows'
    BY <1>1, <1>6, <1>8, <1>10
  <2>2. last' = last /\ folded' = folded
    BY DEF Merge
  <2> QED
    BY <1>6, <1>7, <2>1, <2>2 DEF Sound
<1>12. DOMAIN rows[dupe].cites \subseteq DOMAIN rows'[keep].cites
  BY <1>1, <1>3, <1>5, <1>6
<1> QED
  BY <1>1, <1>6, <1>7, <1>8, <1>10, <1>11, <1>12

\* Taking rows out takes their aliases, and every key of theirs that nothing else answers is
\* excluded.
LEMMA ExcludeDoes ==
  ASSUME Sound, NEW leaving, Exclude(leaving)
  PROVE  /\ Sound'
         /\ DOMAIN rows' = DOMAIN rows \ leaving
         /\ \A i \in DOMAIN rows' : rows'[i] = rows[i]
         /\ DOMAIN alias' = {k \in DOMAIN alias : alias[k] \notin leaving}
         /\ \A k \in DOMAIN alias' : alias'[k] = alias[k]
         /\ DOMAIN excluded' = DOMAIN excluded \cup Leaves(leaving)
<1>1. /\ DOMAIN rows' = DOMAIN rows \ leaving
      /\ \A i \in DOMAIN rows' : rows'[i] = rows[i]
      /\ DOMAIN alias' = {k \in DOMAIN alias : alias[k] \notin leaving}
      /\ \A k \in DOMAIN alias' : alias'[k] = alias[k]
  BY DEF Exclude, Restrict
<1>2. DOMAIN excluded' = DOMAIN excluded \cup Leaves(leaving)
  BY DEF Exclude
<1>3. last' = last /\ folded' = folded
  BY DEF Exclude
<1>4. Sound'
  BY <1>1, <1>3 DEF Sound
<1> QED
  BY <1>1, <1>2, <1>4

\* A key of a row leaving that nothing reaches afterwards is excluded.
LEMMA UnansweredIsExcluded ==
  ASSUME Sound, NEW leaving, Exclude(leaving),
         NEW i \in leaving, NEW k \in KeysOf(i), k \notin Stored(rows') \cup DOMAIN alias'
  PROVE  k \in DOMAIN excluded'
<1>1. /\ DOMAIN rows' = DOMAIN rows \ leaving
      /\ \A j \in DOMAIN rows' : rows'[j] = rows[j]
      /\ DOMAIN alias' = {x \in DOMAIN alias : alias[x] \notin leaving}
      /\ DOMAIN excluded' = DOMAIN excluded \cup Leaves(leaving)
  BY ExcludeDoes
<1>2. k \in UNION {KeysOf(j) : j \in leaving}
  OBVIOUS
<1>3. \A j \in DOMAIN rows \ leaving : rows[j].key # k
  BY <1>1 DEF Stored
<1>4. k \in DOMAIN alias => alias[k] \in leaving
  BY <1>1
<1>5. k \in Leaves(leaving)
  BY <1>2, <1>3, <1>4 DEF Leaves
<1> QED
  BY <1>1, <1>5

\* A nightly sync and a company's spelling move nothing and create nothing.
LEMMA SyncDoes ==
  ASSUME Sound, Sync \/ FoldCompany
  PROVE  Sound' /\ NothingMoves /\ rows' = rows /\ excluded' = excluded /\ last' = last
<1>1. PICK rules \in BOOLEAN : folded' = rules /\ alias' = Synced(rules) /\ UNCHANGED <<rows, excluded, last>>
  BY DEF Sync, FoldCompany, Sound
<1>2. /\ DOMAIN alias \subseteq DOMAIN alias'
      /\ \A k \in DOMAIN alias : alias'[k] = alias[k]
      /\ \A k \in DOMAIN alias' : alias'[k] \in DOMAIN rows
  BY <1>1, SyncedAdds
<1> QED
  BY <1>1, <1>2 DEF Sound, NothingMoves

------------------------------------------------------------------------------
(* The invariant.                                                            *)

LEMMA InitInvariant == Init => IInv
<1> SUFFICES ASSUME Init PROVE IInv
  OBVIOUS
<1>1. DOMAIN rows = {} /\ DOMAIN alias = {}
  BY DEF Init, Empty
<1>2. Sound
  BY <1>1 DEF Init, Sound
<1>3. Named /\ OutIsBarred
  BY DEF Init, Named, OutIsBarred
<1> QED
  BY <1>2, <1>3 DEF IInv

\* A record lands: its key is known, and answered from then on.
LEMMA IngestKeeps ==
  ASSUME IInv, NEW rec, NEW page, NEW route, NEW force, NEW verdict,
         Ingest(rec, page, route, force, verdict)
  PROVE  IInv'
<1>1. /\ Sound' /\ NothingMoves
      /\ \/ known' = known
         \/ /\ known' = known \cup {Key(rec, folded)}
            /\ Key(rec, folded) \in Stored(rows') \cup DOMAIN alias'
  BY IngestDoes DEF IInv
<1>2. UNCHANGED <<excluded, folded, out, lifted>>
  BY DEF Ingest
<1>3. Stored(rows) \subseteq Stored(rows') /\ DOMAIN alias \subseteq DOMAIN alias'
  BY <1>1 DEF NothingMoves, Stored
<1>4. Named'
  BY <1>1, <1>2, <1>3 DEF IInv, Named
<1>5. OutIsBarred'
  BY <1>2 DEF IInv, OutIsBarred, Called, Barred
<1> QED
  BY <1>1, <1>4, <1>5 DEF IInv

LEMMA MergeKeeps ==
  ASSUME IInv, NEW keep, NEW dupe, Merge(keep, dupe)
  PROVE  IInv'
<1>1. /\ Sound'
      /\ DOMAIN rows' = DOMAIN rows \ {dupe}
      /\ \A i \in DOMAIN rows' : rows'[i].key = rows[i].key
      /\ DOMAIN alias \cup {rows[dupe].key} \subseteq DOMAIN alias'
  BY MergeDoes DEF IInv
<1>2. UNCHANGED <<excluded, folded, known, out, lifted>>
  BY DEF Merge
<1>3. Stored(rows) \subseteq Stored(rows') \cup DOMAIN alias'
  BY <1>1 DEF Stored
<1>4. Named'
  BY <1>1, <1>2, <1>3 DEF IInv, Named
<1>5. OutIsBarred'
  BY <1>2 DEF IInv, OutIsBarred, Called, Barred
<1> QED
  BY <1>1, <1>4, <1>5 DEF IInv

\* Every name an article may call a row taken out by is one of the keys taken from it.
LEMMA NamesAreKeys ==
  ASSUME Sound, NEW i \in DOMAIN rows, NEW n \in NamesOf(i)
  PROVE  Called(n) \in KeysOf(i)
<1> DEFINE r == rows[i]
           townless == [r EXCEPT !.city = None]
<1>1. IsRow(r)
  BY DEF Sound
<1>2. /\ Key(r, folded) = <<CompanyKey(r.company, folded), Place(r.city, r.county)>>
      /\ r.city # None /\ r.county # None => Key(townless, folded) \in KeysOf(i)
      /\ Key(r, folded) \in KeysOf(i)
  BY DEF Key, KeysOf
<1>3. townless.company = r.company /\ townless.city = None /\ townless.county = r.county
  <2> HIDE DEF r
  <2>1. townless = [company |-> r.company, city |-> None, county |-> r.county,
                    key |-> r.key, cites |-> r.cites]
    BY <1>1 DEF IsRow
  <2> QED
    BY <2>1
<1>4. Key(townless, folded) = <<CompanyKey(r.company, folded), Place(None, r.county)>>
  <2> HIDE DEF townless
  <2> QED
    BY <1>3 DEF Key
<1>5. CASE n = <<i, r.company, Place(r.city, r.county)>>
  BY <1>2, <1>5 DEF Called
<1>6. CASE n = <<i, r.company, Place(None, r.county)>> /\ r.county # None
  <2>1. Called(n) = Key(townless, folded)
    BY <1>4, <1>6 DEF Called
  <2>2. CASE r.city # None
    BY <1>2, <1>6, <2>1, <2>2
  <2>3. CASE r.city = None
    BY <1>2, <1>4, <2>1, <2>3
  <2> QED
    BY <2>2, <2>3
<1> QED
  BY <1>5, <1>6 DEF NamesOf

LEMMA ExcludeKeeps ==
  ASSUME IInv, NEW leaving, Exclude(leaving)
  PROVE  IInv'
<1>1. /\ Sound'
      /\ DOMAIN rows' = DOMAIN rows \ leaving
      /\ \A i \in DOMAIN rows' : rows'[i] = rows[i]
      /\ DOMAIN alias' = {k \in DOMAIN alias : alias[k] \notin leaving}
      /\ DOMAIN excluded' = DOMAIN excluded \cup Leaves(leaving)
  BY ExcludeDoes DEF IInv
<1>2. UNCHANGED <<folded, known, lifted>> /\ leaving \subseteq DOMAIN rows
  BY DEF Exclude
<1>3. Named'
  <2> SUFFICES ASSUME NEW k \in known, k \notin Stored(rows') \cup DOMAIN alias'
               PROVE  k \in DOMAIN excluded'
    BY <1>2 DEF Named
  <2>1. CASE k \in Stored(rows)
    <3>1. PICK i \in DOMAIN rows : rows[i].key = k
      BY <2>1 DEF Stored
    <3>2. i \in leaving
      BY <1>1, <3>1 DEF Stored
    <3>3. k \in KeysOf(i)
      BY <3>1 DEF KeysOf
    <3> QED
      BY <3>2, <3>3, UnansweredIsExcluded DEF IInv
  <2>2. CASE k \in DOMAIN alias
    <3>1. alias[k] \in leaving
      BY <1>1, <2>2
    <3>2. k \in KeysOf(alias[k])
      BY <2>2 DEF KeysOf
    <3> QED
      BY <3>1, <3>2, UnansweredIsExcluded DEF IInv
  <2> QED
    BY <1>1, <2>1, <2>2 DEF IInv, Named
<1>4. OutIsBarred'
  <2> SUFFICES ASSUME NEW n \in out'
               PROVE  Barred(Called(n))' \/ \E t \in lifted' : Renormalise(t, folded') = Called(n)'
    BY DEF OutIsBarred
  <2>1. Called(n)' = Called(n)
    BY <1>2 DEF Called
  <2>2. CASE n \in out
    BY <1>1, <1>2, <2>1, <2>2 DEF IInv, OutIsBarred, Barred
  <2>3. CASE n \notin out
    <3>1. PICK i \in leaving : n \in NamesOf(i)
      BY <2>3 DEF Exclude
    <3>2. Reach(rows', alias', Called(n)) = 0
      BY <2>3 DEF Exclude, Called
    <3>3. Called(n) \notin Stored(rows') \cup DOMAIN alias'
      <4>1. 0 \notin DOMAIN rows'
        BY <1>1 DEF Sound
      <4>2. Called(n) \in Stored(rows') => Holder(rows', Called(n)) \in DOMAIN rows'
        BY DEF Stored, Holder
      <4>3. Called(n) \in DOMAIN alias' => alias'[Called(n)] \in DOMAIN rows'
        BY <1>1 DEF Sound
      <4> QED
        BY <3>2, <4>1, <4>2, <4>3 DEF Reach
    <3>4. Called(n) \in KeysOf(i)
      BY <1>2, <3>1, NamesAreKeys DEF IInv
    <3>5. Called(n) \in DOMAIN excluded'
      <4> DEFINE k == Called(n)
      <4>1. k \in KeysOf(i) /\ k \notin Stored(rows') \cup DOMAIN alias'
        BY <3>3, <3>4
      <4> HIDE DEF k
      <4>2. k \in DOMAIN excluded'
        BY <4>1, UnansweredIsExcluded DEF IInv
      <4> QED
        BY <4>2 DEF k
    <3> QED
      BY <2>1, <3>5 DEF Barred
  <2> QED
    BY <2>2, <2>3
<1> QED
  BY <1>1, <1>3, <1>4 DEF IInv

\* What is lifted is known no longer, and whatever it barred it now answers for as lifted.
LEMMA LiftKeeps ==
  ASSUME IInv, NEW i, Lift(i)
  PROVE  IInv'
<1> DEFINE taken == {k \in DOMAIN excluded : excluded[k] = i}
<1>1. /\ DOMAIN excluded' = DOMAIN excluded \ taken
      /\ known' = known \ taken /\ lifted' = lifted \cup taken
      /\ out' \subseteq out /\ UNCHANGED <<rows, alias, folded, last>>
  BY DEF Lift, Restrict
<1> HIDE DEF taken
<1>2. Sound' /\ Named'
  BY <1>1 DEF IInv, Sound, Named
<1>3. OutIsBarred'
  <2> SUFFICES ASSUME NEW n \in out'
               PROVE  Barred(Called(n))' \/ \E t \in lifted' : Renormalise(t, folded') = Called(n)'
    BY DEF OutIsBarred
  <2>1. Called(n)' = Called(n) /\ n \in out
    BY <1>1 DEF Called
  <2>2. Renormalise(Called(n), folded) = Called(n)
    BY ReadTwice DEF Renormalise, Called, IInv, Sound
  <2>3. CASE \E t \in lifted : Renormalise(t, folded) = Called(n)
    BY <1>1, <2>1, <2>3
  <2>4. CASE Barred(Called(n))
    <3>1. PICK e \in DOMAIN excluded : Renormalise(e, folded) = Called(n)
      BY <2>2, <2>4 DEF Barred
    <3>2. CASE e \in taken
      BY <1>1, <2>1, <3>1, <3>2
    <3>3. CASE e \notin taken
      BY <1>1, <2>1, <2>2, <3>1, <3>3 DEF Barred
    <3> QED
      BY <3>2, <3>3
  <2> QED
    BY <2>1, <2>3, <2>4 DEF IInv, OutIsBarred
<1> QED
  BY <1>2, <1>3 DEF IInv

\* A company's new spelling changes what keys read like, of names and of what bars them alike.
LEMMA SyncKeeps ==
  ASSUME IInv, Sync \/ FoldCompany
  PROVE  IInv'
<1>1. /\ Sound' /\ rows' = rows /\ excluded' = excluded
      /\ DOMAIN alias \subseteq DOMAIN alias'
      /\ UNCHANGED <<known, out, lifted>>
  BY SyncDoes DEF IInv, NothingMoves, Sync, FoldCompany
<1>2. Named'
  BY <1>1 DEF IInv, Named
<1>3. OutIsBarred'
  <2>1. CASE folded' = folded
    BY <1>1, <2>1 DEF IInv, OutIsBarred, Called, Barred
  <2>2. CASE folded = FALSE /\ folded' = TRUE
    <3> SUFFICES ASSUME NEW n \in out
                 PROVE  \/ Barred(Called(n))'
                        \/ \E t \in lifted : Renormalise(t, TRUE) = Called(n)'
      BY <1>1, <2>2 DEF OutIsBarred
    <3>1. /\ Called(n)' = Renormalise(Called(n), TRUE)
          /\ Called(n)' = Renormalise(Called(n)', TRUE)
          /\ Called(n) = Renormalise(Called(n), FALSE)
      BY <2>2, ReadTwice DEF Called, Renormalise
    <3>2. \A e : Renormalise(e, FALSE) = Called(n) => Renormalise(e, TRUE) = Called(n)'
      <4> SUFFICES ASSUME NEW e, Renormalise(e, FALSE) = Called(n)
                   PROVE  Renormalise(e, TRUE) = Called(n)'
        OBVIOUS
      <4>1. CompanyKey(e[1], FALSE) = CompanyKey(n[2], FALSE) /\ e[2] = n[3]
        BY <2>2 DEF Renormalise, Called
      <4>2. CompanyKey(e[1], TRUE) = CompanyKey(n[2], TRUE)
        BY <4>1 DEF CompanyKey
      <4> QED
        BY <2>2, <4>1, <4>2 DEF Renormalise, Called
    <3>3. CASE Barred(Called(n))
      <4>1. PICK e \in DOMAIN excluded : Renormalise(e, FALSE) = Called(n)
        BY <2>2, <3>1, <3>3 DEF Barred
      <4> QED
        BY <1>1, <2>2, <3>1, <3>2, <4>1 DEF Barred
    <3>4. CASE \E t \in lifted : Renormalise(t, folded) = Called(n)
      BY <2>2, <3>2, <3>4
    <3> QED
      BY <3>3, <3>4 DEF IInv, OutIsBarred
  <2> QED
    BY <2>1, <2>2 DEF Sync, FoldCompany, IInv, Sound
<1> QED
  BY <1>1, <1>2, <1>3 DEF IInv

LEMMA StepKeeps == IInv /\ [Next]_vars => IInv'
<1> SUFFICES ASSUME IInv, [Next]_vars PROVE IInv'
  OBVIOUS
<1>1. CASE UNCHANGED vars
  BY <1>1 DEF vars, IInv, Sound, Named, OutIsBarred, Stored, Called, Barred
<1> QED
  BY <1>1, IngestKeeps, MergeKeeps, ExcludeKeeps, LiftKeeps, SyncKeeps DEF Next

\* The unique key, the foreign key of an alias, the answer of every known key and the bar on
\* every name taken out hold of every state (upsert.py, merge.py, exclude.py, keys.py).
THEOREM InductiveInvariant == Spec => []IInv
BY InitInvariant, StepKeeps, PTL DEF Spec

\* After a sync a key remembered, or stored by a row that has not moved, is answered as the
\* rules of today read it.
LEMMA SyncedAnswers ==
  ASSUME Sound, NEW k \in DOMAIN alias \cup Stored(rows), ~Moved(k)
  PROVE  Renormalise(k, folded) \in Stored(rows) \cup DOMAIN Synced(folded)
<1> DEFINE today   == Renormalise(k, folded)
           natural == {Key(rows[i], folded) : i \in DOMAIN rows} \ (Stored(rows) \union DOMAIN alias)
           renamed == {Renormalise(x, folded) : x \in DOMAIN alias}
                        \ (Stored(rows) \union DOMAIN alias \union natural)
<1>1. DOMAIN Synced(folded) = DOMAIN alias \cup natural \cup renamed
  BY DEF Synced
<1>2. CASE k \in DOMAIN alias
  BY <1>1, <1>2
<1>3. CASE k \in Stored(rows)
  <2>1. PICK i \in DOMAIN rows : rows[i].key = k
    BY <1>3 DEF Stored
  <2>2. Key(rows[i], folded) = today
    BY <2>1 DEF Moved
  <2> QED
    BY <1>1, <2>1, <2>2
<1> QED
  BY <1>2, <1>3

\* An article that a key once led to a campus never makes a second one: however often the
\* campus is folded, moved or taken out, what it computes today reaches a row or is refused,
\* after a learned spelling from the next sync on, and but for a row that was born under the
\* old spelling and has moved (keys.sync, keys.remember, merge, exclude).
THEOREM KeysAnswer == Spec => []NamesAnswer
<1>1. IInv => NamesAnswer
  <2> SUFFICES ASSUME IInv, NEW k \in known, ~Barred(k),
                      ~(Renormalise(k, folded) # k /\ Moved(k))
               PROVE  Reach(rows, IF Renormalise(k, folded) = k THEN alias ELSE Synced(folded),
                            Renormalise(k, folded)) # 0
    BY DEF NamesAnswer
  <2>1. k \in Stored(rows) \cup DOMAIN alias
    BY DEF IInv, Named, Barred
  <2>2. CASE Renormalise(k, folded) = k
    BY <2>1, <2>2, ReachIs DEF IInv
  <2>3. CASE Renormalise(k, folded) # k
    <3> DEFINE today == Renormalise(k, folded)
               new   == Synced(folded)
    <3>1. today \in Stored(rows) \cup DOMAIN new
      BY <2>1, <2>3, SyncedAnswers DEF IInv
    <3>2. folded \in BOOLEAN /\ 0 \notin DOMAIN rows
      BY DEF IInv, Sound
    <3>3. \A x \in DOMAIN new : new[x] \in DOMAIN rows
      BY <3>2, SyncedAdds DEF IInv
    <3>4. today \in Stored(rows) => Holder(rows, today) \in DOMAIN rows
      BY DEF Stored, Holder
    <3> HIDE DEF new, today
    <3>5. Reach(rows, new, today) # 0
      BY <3>1, <3>2, <3>3, <3>4 DEF Reach
    <3> QED
      BY <2>3, <3>5 DEF new, today
  <2> QED
    BY <2>2, <2>3
<1> QED
  BY <1>1, InductiveInvariant, PTL

------------------------------------------------------------------------------
(* What a step may never do.                                                 *)

\* A key goes on reaching its row where that row stays, keeps its key and its alias, and no
\* other row takes the key.
LEMMA SameReach ==
  ASSUME Sound, Sound', NEW k, Reach(rows, alias, k) # 0, Reach(rows, alias, k) \in DOMAIN rows',
         \A i \in DOMAIN rows : i \in DOMAIN rows' => rows'[i].key = rows[i].key,
         k \in DOMAIN alias /\ k \notin Stored(rows) => k \in DOMAIN alias' /\ alias'[k] = alias[k],
         k \notin Stored(rows) => k \notin Stored(rows')
  PROVE  Reach(rows', alias', k) = Reach(rows, alias, k)
<1>1. CASE k \in Stored(rows)
  <2>1. PICK i \in DOMAIN rows : rows[i].key = k
    BY <1>1 DEF Stored
  <2>2. Reach(rows, alias, k) = i
    BY <1>1, <2>1, ReachIs DEF Reach
  <2>3. i \in DOMAIN rows' /\ rows'[i].key = k /\ k \in Stored(rows')
    BY <2>1, <2>2 DEF Stored
  <2>4. \A j \in DOMAIN rows' : rows'[j].key = k <=> j = i
    BY <2>3 DEF Sound
  <2>5. Holder(rows', k) = i
    BY <2>3, <2>4 DEF Holder
  <2> QED
    BY <2>2, <2>3, <2>5 DEF Reach
<1>2. CASE k \notin Stored(rows)
  BY <1>2 DEF Reach
<1> QED
  BY <1>1, <1>2

Redirects(k) ==
  LET r == Reach(rows, alias, k)
  IN  r # 0 /\ Reach(rows', alias', k) # r =>
        \/ r \notin DOMAIN rows'
        \/ last' > last /\ rows'[last'].key = k

\* Which campus a key reaches changes by a merge of that campus, by taking it out, or by an
\* insert the operator forced; no sync, no fill of a town and no landing record changes it.
THEOREM NothingRedirects == Spec => NotRedirected
<1>1. IInv /\ [Next]_vars => [\A k \in known : Redirects(k)]_vars
  <2> SUFFICES ASSUME IInv, Next, NEW k \in known, Reach(rows, alias, k) # 0,
                      Reach(rows, alias, k) \in DOMAIN rows',
                      ~(last' > last /\ rows'[last'].key = k)
               PROVE  Reach(rows', alias', k) = Reach(rows, alias, k)
    BY DEF Redirects
  <2>0. Sound /\ Sound'
    BY StepKeeps DEF IInv
  <2>1. ASSUME NEW page, NEW rec, NEW route, NEW force, NEW verdict,
               Ingest(rec, page, route, force, verdict)
        PROVE  Reach(rows', alias', k) = Reach(rows, alias, k)
    <3>1. NothingMoves /\ Creates(Key(rec, folded))
      BY <2>0, <2>1, IngestDoes
    <3>2. k \notin Stored(rows) => k \notin Stored(rows')
      BY <2>0, <3>1 DEF NothingMoves, Creates, Stored, Sound
    <3> QED
      BY <2>0, <3>1, <3>2, SameReach DEF NothingMoves
  <2>2. ASSUME NEW keep, NEW dupe, Merge(keep, dupe)
        PROVE  Reach(rows', alias', k) = Reach(rows, alias, k)
    <3>1. /\ DOMAIN rows' = DOMAIN rows \ {dupe} /\ dupe \in DOMAIN rows
          /\ \A i \in DOMAIN rows' : rows'[i].key = rows[i].key
          /\ DOMAIN alias \subseteq DOMAIN alias'
          /\ \A x \in DOMAIN alias :
               x # rows[dupe].key /\ alias[x] # dupe => alias'[x] = alias[x]
      BY <2>0, <2>2, MergeDoes
    <3>2. k \notin Stored(rows) =>
            /\ k \notin Stored(rows')
            /\ k \in DOMAIN alias => k \in DOMAIN alias' /\ alias'[k] = alias[k]
      BY <3>1 DEF Stored, Reach
    <3> QED
      BY <2>0, <3>1, <3>2, SameReach
  <2>3. ASSUME NEW leaving, Exclude(leaving)
        PROVE  Reach(rows', alias', k) = Reach(rows, alias, k)
    <3>1. /\ DOMAIN rows' = DOMAIN rows \ leaving
          /\ \A i \in DOMAIN rows' : rows'[i] = rows[i]
          /\ DOMAIN alias' = {x \in DOMAIN alias : alias[x] \notin leaving}
          /\ \A x \in DOMAIN alias' : alias'[x] = alias[x]
      BY <2>0, <2>3, ExcludeDoes
    <3>2. k \notin Stored(rows) =>
            /\ k \notin Stored(rows')
            /\ k \in DOMAIN alias => k \in DOMAIN alias' /\ alias'[k] = alias[k]
      BY <3>1 DEF Stored, Reach
    <3> QED
      BY <2>0, <3>1, <3>2, SameReach
  <2>4. ASSUME NEW i, Lift(i)
        PROVE  Reach(rows', alias', k) = Reach(rows, alias, k)
    BY <2>4 DEF Lift
  <2>5. CASE Sync \/ FoldCompany
    <3>1. NothingMoves /\ rows' = rows
      BY <2>0, <2>5, SyncDoes
    <3> QED
      BY <2>0, <3>1, SameReach DEF NothingMoves
  <2> QED
    BY <2>1, <2>2, <2>3, <2>4, <2>5 DEF Next
<1> QED
  BY <1>1, InductiveInvariant, PTL DEF Spec, NotRedirected, Redirects

\* No article is lost: a merge moves the citations, and only taking rows out drops any.
THEOREM NoPageLost == Spec => PagesKept
<1>1. IInv /\ [Next]_vars =>
        [\/ CitedPages(rows) \subseteq CitedPages(rows')
         \/ \E leaving \in SUBSET Ids : Exclude(leaving)]_vars
  <2> SUFFICES ASSUME IInv, Next, \A leaving \in SUBSET Ids : ~Exclude(leaving)
               PROVE  CitedPages(rows) \subseteq CitedPages(rows')
    OBVIOUS
  <2>1. ASSUME NothingMoves PROVE CitedPages(rows) \subseteq CitedPages(rows')
    BY <2>1 DEF NothingMoves, CitedPages
  <2>2. ASSUME NEW keep, NEW dupe, Merge(keep, dupe)
        PROVE  CitedPages(rows) \subseteq CitedPages(rows')
    <3>1. /\ DOMAIN rows' = DOMAIN rows \ {dupe} /\ keep \in DOMAIN rows'
          /\ \A i \in DOMAIN rows' : DOMAIN rows[i].cites \subseteq DOMAIN rows'[i].cites
          /\ DOMAIN rows[dupe].cites \subseteq DOMAIN rows'[keep].cites
      BY <2>2, MergeDoes DEF IInv
    <3> QED
      BY <3>1 DEF CitedPages
  <2>3. ASSUME NEW i, Lift(i) PROVE CitedPages(rows) \subseteq CitedPages(rows')
    BY <2>3 DEF Lift
  <2> QED
    BY <2>1, <2>2, <2>3, IngestDoes, SyncDoes DEF Next, IInv
<1> QED
  BY <1>1, InductiveInvariant, PTL DEF Spec, PagesKept

\* A campus taken out is not created again, by its town or its county, under either spelling
\* of its company, by no caller, until a key of its own is lifted.
THEOREM TakenOutStaysOut == Spec => StaysOut
<1> DEFINE Stays ==
      last' > last =>
        LET k == rows'[last'].key
        IN  (\A t \in lifted : Renormalise(t, folded) # k) => \A n \in out : Called(n) # k
<1>1. IInv /\ [Next]_vars => [Stays]_vars
  <2> SUFFICES ASSUME IInv, Next, last' > last, NEW n \in out,
                      \A t \in lifted : Renormalise(t, folded) # rows'[last'].key,
                      Called(n) = rows'[last'].key
               PROVE  FALSE
    OBVIOUS
  <2>1. last' # last
    BY DEF IInv, Sound
  <2>2. PICK rec, page, route, force, verdict : Ingest(rec, page, route, force, verdict)
    BY <2>1 DEF Next, Merge, Exclude, Lift, Sync, FoldCompany
  <2>3. rows'[last'].key = Key(rec, folded) /\ ~Barred(Key(rec, folded))
    BY <2>1, <2>2, IngestDoes DEF IInv, Creates
  <2> QED
    BY <2>3 DEF IInv, OutIsBarred
<1> QED
  BY <1>1, InductiveInvariant, PTL DEF Spec, StaysOut, Called
==============================================================================
