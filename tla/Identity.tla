------------------------------ MODULE Identity ------------------------------
(***************************************************************************)
(* Which campus an article's record lands on: the key it computes, the     *)
(* keys remembered for a campus (project_alias), the keys of campuses      *)
(* taken out (excluded_key), and the operations that move them: ingest     *)
(* (tracker/upsert.py), merge (merge.py), exclude and lift (exclude.py),   *)
(* the nightly sync and a learned company spelling (keys.py,               *)
(* companies.py). Each is one transaction.                                 *)
(*                                                                         *)
(* A key is a company, as the rules read its spelling, and a place: the    *)
(* town when the record has one, else the county. A row keeps the key it   *)
(* was born with; its town and county are filled later by what its         *)
(* citations claim. Names, states, watches and notes are left out.         *)
(***************************************************************************)
EXTENDS Naturals, FiniteSets, FiniteSetsExt, Functions

CONSTANTS
  Pages,    \* articles
  Records,  \* what each may say of a campus: records [company, city, county]
  Other,    \* the spelling a person may rule to be a spelling of Main
  Main,
  MaxId     \* rows ever created (bound); ids are never reused

ASSUME IdentityAssumption == MaxId \in Nat \ {0} /\ Other # Main

VARIABLES
  rows,      \* id -> [company, city, county, key, cites]
  alias,     \* key -> the row it reaches
  excluded,  \* key -> the row that was taken out under it
  folded,    \* whether the rules read Other as Main
  last,      \* ids handed out
  known,     \* keys that have led a record to a row (history)
  out,       \* <<id, company, place>>: the names of the rows taken out (history)
  lifted     \* keys lifted (history)

vars == <<rows, alias, excluded, folded, last, known, out, lifted>>

Ids   == 1..MaxId
None  == "none"
Empty == <<>>

CompanyKey(company, rules) == IF rules /\ company = Other THEN Main ELSE company

Place(city, county) == IF city # None THEN <<"city", city>> ELSE <<"county", county>>

Key(r, rules) == <<CompanyKey(r.company, rules), Place(r.city, r.county)>>

Renormalise(key, rules) == <<CompanyKey(key[1], rules), key[2]>>

Stored(rs)     == {rs[i].key : i \in DOMAIN rs}
Holder(rs, k)  == CHOOSE i \in DOMAIN rs : rs[i].key = k

\* The row a key reaches: the one born under it, else the one it is remembered for, else 0.
Reach(rs, al, k) == IF k \in Stored(rs) THEN Holder(rs, k)
                    ELSE IF k \in DOMAIN al THEN al[k] ELSE 0

Barred(k) == \E e \in DOMAIN excluded : Renormalise(e, folded) = Renormalise(k, folded)

Put(f, k, v) == [x \in DOMAIN f \union {k} |-> IF x = k THEN v ELSE f[x]]

\* keys.remember: only a key no row and no alias answers.
Remember(rs, al, i, k) ==
  IF k = rs[i].key \/ k \in Stored(rs) \/ k \in DOMAIN al THEN al ELSE Put(al, k, i)

\* A town or county once set stays; an empty one takes what some citation claims.
Fills(row, name) ==
  LET said == {row.cites[p][name] : p \in DOMAIN row.cites} \ {None}
  IN  IF row[name] # None \/ said = {} THEN {row[name]} ELSE said

Recomputed(row) ==
  {[row EXCEPT !.city = n[1], !.county = n[2]] :
     n \in Fills(row, "city") \X Fills(row, "county")}

Init ==
  /\ rows = Empty /\ alias = Empty /\ excluded = Empty /\ folded = FALSE /\ last = 0
  /\ known = {} /\ out = {} /\ lifted = {}

------------------------------------------------------------------------------

(* Ingest.                                                                   *)

\* The rows a record may be the same site as: an identity in common under one company, or
\* another company's row at the same place.
Candidates(rec) ==
  LET k        == Key(rec, folded)
      Names(r) == {Key(r, folded)} \union
                  (IF r.city # None /\ r.county # None
                     THEN {Key([r EXCEPT !.city = None], folded)} ELSE {})
  IN  {i \in DOMAIN rows :
         /\ rows[i].key # k
         /\ \/ rows[i].key[1] = k[1] /\ Names(rec) \intersect Names(rows[i]) # {}
            \/ rows[i].key[2] = k[2]}

\* The record's claims are cited from its page, which fills what the row does not know, and the
\* row's key of today is remembered, with the key the arbiter routed.
Land(rs, i, rec, page, routed) ==
  \E row \in Recomputed([rs[i] EXCEPT !.cites = Put(@, page, [city |-> rec.city,
                                                              county |-> rec.county])]) :
    LET written == [rs EXCEPT ![i] = row]
        kept    == IF routed THEN Remember(written, alias, i, Key(rec, folded)) ELSE alias
    IN  /\ rows' = written
        /\ alias' = Remember(written, kept, i, Key(row, folded))

\* upsert_record. `route`: the row a caller names, or 0; `verdict`: the arbiter's row, or 0.
\* existing_only refuses what would insert, which leaves a behaviour without that step.
Ingest(rec, page, route, force, verdict) ==
  LET k     == Key(rec, folded)
      byKey == IF route \in DOMAIN rows THEN route
               ELSE IF k \in Stored(rows) THEN Holder(rows, k)
               ELSE IF ~force /\ k \in DOMAIN alias THEN alias[k] ELSE 0
      asked == ~force /\ verdict \in Candidates(rec)
      named == route \notin DOMAIN rows
  IN  /\ route # 0 => ~force
      /\ \/ /\ byKey # 0
            /\ Land(rows, byKey, rec, page, FALSE)
            /\ known' = IF named THEN known \union {k} ELSE known
            /\ last' = last
         \/ /\ byKey = 0 /\ ~Barred(k) /\ asked
            /\ Land(rows, verdict, rec, page, TRUE)
            /\ known' = known \union {k} /\ last' = last
         \/ /\ byKey = 0 /\ ~Barred(k) /\ ~asked
            /\ last < MaxId /\ last' = last + 1
            /\ Land(Put(rows, last + 1, [company |-> rec.company, city |-> rec.city,
                                         county |-> rec.county, key |-> k, cites |-> Empty]),
                    last + 1, rec, page, FALSE)
            /\ known' = known \union {k}
      /\ UNCHANGED <<excluded, folded, out, lifted>>

------------------------------------------------------------------------------

(* Merge.                                                                    *)

\* The aliases after `dupe` was folded into `keep`: those that reached it are repointed, its own
\* key is remembered whoever answered it before, and its key of today if that is free.
FoldedNames(al, keep, dupe) ==
  LET flat == [k \in DOMAIN al |-> IF al[k] = dupe THEN keep ELSE al[k]]
      own  == Put(flat, rows[dupe].key, keep)
  IN  Remember(rows, own, keep, Key(rows[dupe], folded))

\* Wrong: the folded row's citations go with it.
FoldedCitesLost(keep, dupe) == rows[keep].cites

\* The survivor's copy of a page both cite stands, with what the other alone claims.
FoldedCites(keep, dupe) ==
  LET k == rows[keep].cites
      d == rows[dupe].cites
      Both(a, b) == [n \in DOMAIN a |-> IF a[n] # None THEN a[n] ELSE b[n]]
  IN  [p \in DOMAIN k \union DOMAIN d |->
         IF p \notin DOMAIN d THEN k[p] ELSE IF p \notin DOMAIN k THEN d[p] ELSE Both(k[p], d[p])]

Merge(keep, dupe) ==
  /\ {keep, dupe} \subseteq DOMAIN rows /\ keep # dupe
  /\ \E row \in Recomputed([rows[keep] EXCEPT !.cites = FoldedCites(keep, dupe)]) :
       rows' = [Restrict(rows, DOMAIN rows \ {dupe}) EXCEPT ![keep] = row]
  /\ alias' = FoldedNames(alias, keep, dupe)
  /\ UNCHANGED <<excluded, folded, last, known, out, lifted>>

------------------------------------------------------------------------------

(* Exclude and lift.                                                         *)

\* Wrong: only the key the row was born with.
KeysOfBorn(i) == {rows[i].key}

\* keys_of: every key the row could come back under.
KeysOf(i) ==
  LET r     == rows[i]
      found == {r.key, Key(r, folded)}
               \union (IF r.city # None /\ r.county # None
                         THEN {Key([r EXCEPT !.city = None], folded)} ELSE {})
               \union {k \in DOMAIN alias : alias[k] = i}
  IN  found \union {Renormalise(k, folded) : k \in found}

\* The keys of the rows leaving that no row staying holds or is reached by.
Leaves(leaving) ==
  {k \in UNION {KeysOf(i) : i \in leaving} :
     /\ \A j \in DOMAIN rows \ leaving : rows[j].key # k
     /\ k \in DOMAIN alias => alias[k] \in leaving}

\* What articles may call the rows leaving: the towns and counties they give.
NamesOf(i) ==
  {<<i, rows[i].company, Place(c, rows[i].county)>> :
     c \in IF rows[i].county # None THEN {rows[i].city, None} ELSE {}}
  \union {<<i, rows[i].company, Place(rows[i].city, rows[i].county)>>}

Exclude(leaving) ==
  LET gone == Leaves(leaving)
      by   == [k \in gone |-> Min({i \in leaving : k \in KeysOf(i)})]
  IN  /\ leaving # {} /\ leaving \subseteq DOMAIN rows
      /\ rows' = Restrict(rows, DOMAIN rows \ leaving)
      /\ alias' = Restrict(alias, {k \in DOMAIN alias : alias[k] \notin leaving})
      /\ excluded' = [k \in DOMAIN excluded \union gone |->
                        IF k \in DOMAIN excluded THEN excluded[k] ELSE by[k]]
      /\ out' = out \union {n \in UNION {NamesOf(i) : i \in leaving} :
                              Reach(rows', alias', <<CompanyKey(n[2], folded), n[3]>>) = 0}
      /\ UNCHANGED <<folded, last, known, lifted>>

\* Only what was taken from that row is forgotten; the row does not come back.
Lift(i) ==
  LET taken == {k \in DOMAIN excluded : excluded[k] = i}
  IN  /\ taken # {}
      /\ excluded' = Restrict(excluded, DOMAIN excluded \ taken)
      /\ known' = known \ taken
      /\ lifted' = lifted \union taken
      /\ out' = {n \in out : n[1] # i}
      /\ UNCHANGED <<rows, alias, folded, last>>

------------------------------------------------------------------------------

(* Sync.                                                                     *)

\* Wrong: the keys remembered are not read again by the rules of today.
SyncedNatural(rules) ==
  LET natural == {Key(rows[i], rules) : i \in DOMAIN rows} \ (Stored(rows) \union DOMAIN alias)
  IN  [k \in DOMAIN alias \union natural |->
         IF k \in DOMAIN alias THEN alias[k]
         ELSE Min({i \in DOMAIN rows : Key(rows[i], rules) = k})]

\* Wrong: a key of today goes to the row that computes it, whoever answers it.
SyncedOver(rules) ==
  LET natural == {Key(rows[i], rules) : i \in DOMAIN rows}
  IN  [k \in DOMAIN alias \union natural |->
         IF k \in natural THEN Min({i \in DOMAIN rows : Key(rows[i], rules) = k}) ELSE alias[k]]

\* The aliases sync leaves: the keys rows have today, each to the row with the most citations,
\* then the keys aliases have today, where nothing answers them yet.
Synced(rules) ==
  LET stored   == Stored(rows)
      natural  == {Key(rows[i], rules) : i \in DOMAIN rows} \ (stored \union DOMAIN alias)
      Best(k)  == CHOOSE i \in DOMAIN rows :
                    /\ Key(rows[i], rules) = k
                    /\ \A j \in {j \in DOMAIN rows : Key(rows[j], rules) = k} \ {i} :
                         LET m == Cardinality(DOMAIN rows[i].cites)
                             n == Cardinality(DOMAIN rows[j].cites)
                         IN  m > n \/ (m = n /\ i < j)
      renamed  == {Renormalise(k, rules) : k \in DOMAIN alias}
                    \ (stored \union DOMAIN alias \union natural)
      Old(k)   == CHOOSE o \in DOMAIN alias : Renormalise(o, rules) = k
  IN  [k \in DOMAIN alias \union natural \union renamed |->
         IF k \in DOMAIN alias THEN alias[k]
         ELSE IF k \in natural THEN Best(k) ELSE alias[Old(k)]]

Sync ==
  /\ alias' = Synced(folded)
  /\ UNCHANGED <<rows, excluded, folded, last, known, out, lifted>>

\* A person rules Other a spelling of Main, or a deploy brings the rule: the keys are synced.
FoldCompany ==
  /\ ~folded /\ folded' = TRUE
  /\ alias' = Synced(TRUE)
  /\ UNCHANGED <<rows, excluded, last, known, out, lifted>>

Next ==
  \/ \E page \in Pages : \E rec \in Records[page], route \in 0..last, force \in BOOLEAN :
       \E verdict \in {0} \union Candidates(rec) : Ingest(rec, page, route, force, verdict)
  \/ \E keep, dupe \in Ids : Merge(keep, dupe)
  \/ \E leaving \in SUBSET Ids : Exclude(leaving)
  \/ \E i \in Ids : Lift(i)
  \/ Sync
  \/ FoldCompany

Spec == Init /\ [][Next]_vars

------------------------------------------------------------------------------

(* Properties.                                                               *)

CitedPages(rs) == UNION {DOMAIN rs[i].cites : i \in DOMAIN rs}

\* Every variable has its type; an alias reaches a row there is.
TypeOK ==
  /\ DOMAIN rows \subseteq 1..last /\ last \in 0..MaxId
  /\ \A i \in DOMAIN rows : DOMAIN rows[i].cites \subseteq Pages /\ DOMAIN rows[i].cites # {}
  /\ \A k \in DOMAIN alias : alias[k] \in DOMAIN rows
  /\ \A k \in DOMAIN excluded : excluded[k] \in 1..last \ DOMAIN rows

\* A row born under a key that has another one today: it learned its town since.
Moved(k) == \E i \in DOMAIN rows : rows[i].key = k /\ Key(rows[i], folded) # Renormalise(k, folded)

\* An article that a key has led to a campus never makes a second one: however often the campus
\* is folded, moved or taken out, what the article computes today reaches a row or is refused.
\* Where the rules have learned its company's spelling since, that is so from the next sync on,
\* but for one case: sync re-keys what is remembered for a row and what a row would be called
\* today, and not the key of a row that was born under the old spelling and has moved.
NamesAnswer ==
  \A k \in known :
    LET today == Renormalise(k, folded)
        names == IF today = k THEN alias ELSE Synced(folded)
    IN  \/ Reach(rows, names, today) # 0
        \/ Barred(k)
        \/ today # k /\ Moved(k)

\* Which campus a key reaches changes by a merge of that campus, by taking it out, or by an
\* insert the operator forced, and by nothing that runs on its own.
NotRedirected ==
  [][\A k \in known :
       LET r == Reach(rows, alias, k)
       IN  r # 0 /\ Reach(rows', alias', k) # r =>
             \/ r \notin DOMAIN rows'
             \/ last' > last /\ rows'[last'].key = k]_vars

\* No article is lost: but for the rows taken out, every page cited stays cited.
PagesKept ==
  [][\/ CitedPages(rows) \subseteq CitedPages(rows')
     \/ \E leaving \in SUBSET Ids : Exclude(leaving)]_vars

\* A campus taken out is not created again, under its town or its county, under either spelling
\* of its company, by no caller, until a key of its own is lifted.
StaysOut ==
  [][last' > last =>
       LET k == rows'[last'].key
       IN  (\A t \in lifted : Renormalise(t, folded) # k) =>
             \A n \in out : <<CompanyKey(n[2], folded), n[3]>> # k]_vars

=============================================================================
