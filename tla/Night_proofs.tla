---------------------------- MODULE Night_proofs ----------------------------
(***************************************************************************)
(* Proofs about the night: that its booking is kept, that what is once a   *)
(* night is done once, that a plan keeps its allowance, its order and its  *)
(* floors, that the report is settled before the mail, and that a step is  *)
(* run as the plan asked; and, in the last section, about the lock that    *)
(* lets one night run at a time.                                           *)
(*                                                                         *)
(* A plan is built by folds over the menu, so most lemmas follow a list of *)
(* steps through one of them: what an ordering by insertion, a trimming or *)
(* an addition keeps.  The booking needs two labels for every step still   *)
(* ahead: the pass it is of its kind, and the units its kind has then had. *)
(***************************************************************************)
EXTENDS Night, NightLock, SequenceTheorems, FiniteSetTheorems, WellFoundedInduction, TLAPS

------------------------------------------------------------------------------
(* Counting and repeating.                                                   *)

\* What holds at 0 and passes from each number to the next holds up to n.
LEMMA UpTo ==
  ASSUME NEW n \in Nat, NEW T, 0 \in T, \A i \in 0..(n - 1) : i \in T => i + 1 \in T
  PROVE  \A i \in 0..n : i \in T
<1> DEFINE Out == {i \in 0..n : i \notin T}
<1> SUFFICES ASSUME Out # {} PROVE FALSE
  OBVIOUS
<1>1. PICK m \in Out : \A i \in Out : ~(<<i, m>> \in OpToRel(<, Nat))
  <2>1. Out \subseteq Nat
    OBVIOUS
  <2> HIDE DEF Out
  <2> QED
    BY <2>1, NatLessThanWellFounded, WFMin
<1>2. m \in Nat /\ m # 0 /\ m - 1 \in Nat /\ m - 1 \in 0..(n - 1)
  OBVIOUS
<1>3. m - 1 \notin T
  BY <1>2
<1>4. m - 1 \in Out /\ m - 1 < m
  BY <1>2, <1>3
<1> QED
  BY <1>1, <1>2, <1>4 DEF OpToRel

\* f goes from a through n of the steps of G.
Follows(f, n, a, G) == f[0] = a /\ \A i \in 1..n : f[i] = G[i][f[i - 1]]

\* Steps from P to P, one for each number, can be taken one after the other.
LEMMA Repeat ==
  ASSUME NEW n \in Nat, NEW P, NEW a \in P, NEW G \in [1..n -> [P -> P]]
  PROVE  \E f \in [0..n -> P] : Follows(f, n, a, G)
<1> DEFINE T == {m \in 0..n : \E f \in [0..m -> P] : Follows(f, m, a, G)}
<1>1. 0 \in T
  <2> DEFINE g == [i \in 0..0 |-> a]
  <2>1. g \in [0..0 -> P]
    OBVIOUS
  <2>2. Follows(g, 0, a, G)
    BY DEF Follows
  <2> HIDE DEF g
  <2> QED
    BY <2>1, <2>2
<1>2. ASSUME NEW m \in 0..(n - 1), m \in T PROVE m + 1 \in T
  <2>1. PICK f \in [0..m -> P] : Follows(f, m, a, G)
    BY <1>2
  <2> DEFINE x == G[m + 1][f[m]]
             g == [i \in 0..(m + 1) |-> IF i = m + 1 THEN x ELSE f[i]]
  <2>2. x \in P
    OBVIOUS
  <2> HIDE DEF x
  <2>3. g \in [0..(m + 1) -> P]
    BY <2>2
  <2>4. g[m + 1] = x /\ \A i \in 0..m : g[i] = f[i]
    OBVIOUS
  <2> HIDE DEF g
  <2>5. Follows(g, m + 1, a, G)
    BY <2>1, <2>4 DEF Follows, x
  <2> QED
    BY <2>3, <2>5
<1>3. n \in T
  <2> HIDE DEF T
  <2>1. \A i \in 0..(n - 1) : i \in T => i + 1 \in T
    BY <1>2
  <2>2. n \in 0..n
    OBVIOUS
  <2> QED
    BY <1>1, <2>1, <2>2, UpTo
<1> QED
  BY <1>3

------------------------------------------------------------------------------
(* Part of a plan.                                                           *)

\* Sequence t is what s has at the places I, in their order; pos says from where.
Picks(pos, t, s, I) ==
  /\ pos \in [1..Len(t) -> I]
  /\ \A k \in 1..Len(t) : t[k] = s[pos[k]]
  /\ \A k, l \in 1..Len(t) : k < l => pos[k] < pos[l]
  /\ \A i \in I : \E k \in 1..Len(t) : pos[k] = i

\* At takes just those places, and keeps their order.
LEMMA AtPicks ==
  ASSUME NEW S, NEW s \in Seq(S), NEW I \in SUBSET (1..Len(s))
  PROVE  At(s, I) \in Seq(S) /\ \E pos : Picks(pos, At(s, I), s, I)
<1> DEFINE c == Cardinality(I)
           Upto(i) == {j \in I : j <= i}
           rank == [i \in I |-> Cardinality(Upto(i))]
           pos == [k \in 1..c |-> CHOOSE i \in I : Cardinality(Upto(i)) = k]
           t == At(s, I)
<1>1. I \in SUBSET Nat /\ IsFiniteSet(I) /\ c \in Nat
  <2>1. Len(s) \in Nat
    BY LenProperties
  <2>2. IsFiniteSet(1..Len(s)) /\ 1..Len(s) \subseteq Nat
    BY <2>1, FS_Interval
  <2>3. IsFiniteSet(I)
    BY <2>2, FS_Subset
  <2> QED
    BY <2>2, <2>3, FS_CardinalityType
<1>2. \A i \in I : IsFiniteSet(Upto(i)) /\ rank[i] \in 1..c
  <2> TAKE i \in I
  <2>1. Upto(i) \in SUBSET I /\ i \in Upto(i)
    BY <1>1
  <2>2. IsFiniteSet(Upto(i)) /\ Cardinality(Upto(i)) <= c
    BY <1>1, <2>1, FS_Subset
  <2>3. Cardinality(Upto(i)) \in Nat /\ Cardinality(Upto(i)) # 0
    BY <2>1, <2>2, FS_CardinalityType, FS_EmptySet
  <2> HIDE DEF Upto, c
  <2> QED
    BY <1>1, <2>2, <2>3
<1>3. \A i, j \in I : i < j => rank[i] < rank[j]
  <2> SUFFICES ASSUME NEW i \in I, NEW j \in I, i < j PROVE rank[i] < rank[j]
    OBVIOUS
  <2>1. Upto(i) \in SUBSET Upto(j) /\ j \in Upto(j) /\ j \notin Upto(i)
    <3>1. i \in Nat /\ j \in Nat /\ \A k \in I : k \in Nat
      BY <1>1
    <3>2. \A k \in I : k <= i => k <= j
      BY <3>1
    <3>3. j <= j /\ ~(j <= i)
      BY <3>1
    <3> QED
      BY <3>2, <3>3
  <2>2. rank[i] = Cardinality(Upto(i)) /\ rank[j] = Cardinality(Upto(j))
    OBVIOUS
  <2> HIDE DEF Upto, rank, c
  <2>5. IsFiniteSet(Upto(j)) /\ rank[i] \in Int /\ rank[j] \in Int
    BY <1>1, <1>2
  <2>3. Cardinality(Upto(i)) <= Cardinality(Upto(j))
    BY <2>1, <2>5, FS_Subset
  <2>4. Cardinality(Upto(i)) # Cardinality(Upto(j))
    BY <2>1, <2>5, FS_Subset
  <2> QED
    BY <2>2, <2>3, <2>4, <2>5
<1>4. rank \in Surjection(I, 1..c)
  <2>1. \A i \in I : rank[i] \in 1..c
    BY <1>2
  <2>2. rank \in [I -> 1..c]
    BY <2>1
  <2>3. \A i, j \in I : rank[i] = rank[j] => i = j
    <3> HIDE DEF rank
    <3> QED
      BY <1>1, <1>3, <2>1
  <2>4. rank \in Injection(I, 1..c)
    <3> HIDE DEF rank, c
    <3> QED
      BY <2>2, <2>3 DEF Injection, IsInjective
  <2>5. IsFiniteSet(1..c) /\ Cardinality(1..c) = c
    BY <1>1, FS_Interval
  <2> QED
    BY <2>4, <2>5, FS_Injection
<1>5. \A k \in 1..c : pos[k] \in I /\ rank[pos[k]] = k
  <2> TAKE k \in 1..c
  <2>1. \E i \in I : rank[i] = k
    <3> HIDE DEF rank, c
    <3> QED
      BY <1>4 DEF Surjection, Range
  <2> QED
    BY <2>1
<1>6. t = [k \in 1..c |-> s[pos[k]]]
  <2>1. I \in SUBSET DOMAIN s
    OBVIOUS
  <2> QED
    BY <2>1 DEF At
<1> HIDE DEF pos, rank, c, t, Upto
<1>7. t \in Seq(S) /\ Len(t) = c
  <2>1. \A k \in 1..c : s[pos[k]] \in S
    BY <1>5, ElementOfSeq
  <2> QED
    BY <1>1, <1>6, <2>1, SeqDef
<1>8. Picks(pos, t, s, I)
  <2>1. pos \in [1..c -> I]
    BY <1>5 DEF pos
  <2>2. \A k, l \in 1..c : k < l => pos[k] < pos[l]
    <3> SUFFICES ASSUME NEW k \in 1..c, NEW l \in 1..c, k < l, ~(pos[k] < pos[l]) PROVE FALSE
      OBVIOUS
    <3>1. pos[k] \in Nat /\ pos[l] \in Nat
      BY <1>1, <1>5
    <3>2. pos[l] < pos[k] \/ pos[l] = pos[k]
      BY <3>1
    <3>3. l < k \/ l = k
      BY <1>3, <1>5, <3>2
    <3> QED
      BY <3>3
  <2>3. \A i \in I : \E k \in 1..c : pos[k] = i
    <3> TAKE i \in I
    <3>1. rank[i] \in 1..c
      BY <1>2
    <3>2. pos[rank[i]] \in I /\ rank[pos[rank[i]]] = rank[i]
      BY <1>5, <3>1
    <3>3. pos[rank[i]] = i
      <4>1. pos[rank[i]] \in Nat /\ i \in Nat /\ rank[i] \in Nat
        <5>1. \A x \in I : x \in Nat
          BY <1>1
        <5>2. \A x \in 1..c : x \in Nat
          BY <1>1
        <5> QED
          BY <3>1, <3>2, <5>1, <5>2
      <4>2. ~(pos[rank[i]] < i) /\ ~(i < pos[rank[i]])
        BY <1>3, <3>2, <4>1
      <4> QED
        BY <4>1, <4>2
    <3> QED
      BY <3>1, <3>3
  <2> QED
    BY <1>6, <1>7, <2>1, <2>2, <2>3 DEF Picks
<1> QED
  BY <1>7, <1>8 DEF t

------------------------------------------------------------------------------
(* The order of a plan.                                                      *)

\* A set of numbers that is not empty has a least.
LEMMA Least1 ==
  ASSUME NEW T \in SUBSET Nat, T # {}
  PROVE  \E m \in T : \A i \in T : m <= i
<1>1. PICK m \in T : \A i \in T : ~(<<i, m>> \in OpToRel(<, Nat))
  BY NatLessThanWellFounded, WFMin
<1>2. \A i \in T : i \in Nat /\ ~(i < m)
  <2> TAKE i \in T
  <2>1. i \in Nat /\ m \in Nat /\ <<i, m>> \in Nat \X Nat
    OBVIOUS
  <2> QED
    BY <1>1, <2>1 DEF OpToRel
<1>3. m \in Nat
  OBVIOUS
<1> QED
  BY <1>2, <1>3

\* Plan t is plan s with steps of kind `first` moved ahead of those of `later`, and no
\* other change: map says where in s each step of t was.
Rearranged(map, t, s, first, later) ==
  /\ map \in [1..Len(t) -> 1..Len(s)]
  /\ \A a \in 1..Len(t) : t[a] = s[map[a]]
  /\ \A i \in 1..Len(s) : \E a \in 1..Len(t) : map[a] = i
  /\ \A a, b \in 1..Len(t) : a # b => map[a] # map[b]
  /\ \A a, b \in 1..Len(t) : a < b /\ map[b] < map[a] =>
       /\ t[a].kind = first /\ t[b].kind # first
       /\ \E c \in 1..Len(s) : c <= map[b] /\ s[c].kind \in later
  /\ \A a, b \in 1..Len(t) : a < b /\ t[b].kind = first => t[a].kind \notin later

\* MoveAhead does that.
LEMMA MoveAheadIs ==
  ASSUME NEW s \in Seq(Step), NEW first, NEW later, first \notin later
  PROVE  /\ MoveAhead(first, later)[s] \in Seq(Step)
         /\ \E map : Rearranged(map, MoveAhead(first, later)[s], s, first, later)
<1> DEFINE behind == {i \in DOMAIN s : s[i].kind \in later}
           at     == CHOOSE i \in behind : \A j \in behind : i <= j
           rest   == at..Len(s)
           moved  == {i \in rest : s[i].kind = first}
           t      == MoveAhead(first, later)[s]
<1>1. t = IF behind = {} THEN s
          ELSE At(s, 1..(at - 1)) \o At(s, moved) \o At(s, rest \ moved)
  BY DEF MoveAhead
<1>2. Len(s) \in Nat /\ DOMAIN s = 1..Len(s)
  BY LenProperties
<1>3. CASE behind = {}
  <2> DEFINE map == [a \in 1..Len(s) |-> a]
  <2>1. t = s
    BY <1>1, <1>3
  <2>2. \A i \in 1..Len(s) : s[i].kind \notin later
    BY <1>2, <1>3
  <2>3. Rearranged(map, s, s, first, later)
    <3> HIDE DEF behind, at, t
    <3> QED
      BY <1>2, <2>2 DEF Rearranged
  <2> QED
    BY <2>1, <2>3
<1>4. CASE behind # {}
  <2>1. /\ at \in 1..Len(s) /\ s[at].kind \in later
        /\ \A i \in 1..Len(s) : s[i].kind \in later => at <= i
    <3>1. behind \in SUBSET Nat
      BY <1>2
    <3>2. \E m \in behind : \A i \in behind : m <= i
      <4> HIDE DEF behind
      <4> QED
        BY <1>4, <3>1, Least1
    <3>3. at \in behind /\ \A i \in behind : at <= i
      <4> HIDE DEF behind
      <4> QED
        BY <3>2
    <3> HIDE DEF at
    <3> QED
      BY <1>2, <3>3
  <2> DEFINE A == At(s, 1..(at - 1))
             B == At(s, moved)
             C == At(s, rest \ moved)
  <2>2. t = A \o B \o C
    BY <1>1, <1>4
  <2> HIDE DEF at
  <2>3. 1..(at - 1) \in SUBSET (1..Len(s)) /\ rest \in SUBSET (1..Len(s))
    BY <1>2, <2>1
  <2> HIDE DEF rest
  <2>4. moved \in SUBSET (1..Len(s)) /\ rest \ moved \in SUBSET (1..Len(s))
    BY <2>3
  <2>5. A \in Seq(Step) /\ \E pos : Picks(pos, A, s, 1..(at - 1))
    BY <2>3, AtPicks
  <2>6. B \in Seq(Step) /\ \E pos : Picks(pos, B, s, moved)
    <3> HIDE DEF moved
    <3> QED
      BY <2>4, AtPicks
  <2>7. C \in Seq(Step) /\ \E pos : Picks(pos, C, s, rest \ moved)
    <3> HIDE DEF moved
    <3> QED
      BY <2>4, AtPicks
  <2> HIDE DEF A, B, C, t, behind
  <2>8. PICK p, q, r : /\ Picks(p, A, s, 1..(at - 1)) /\ Picks(q, B, s, moved)
                       /\ Picks(r, C, s, rest \ moved)
    BY <2>5, <2>6, <2>7
  <2> DEFINE la == Len(A)
             lb == Len(B)
             lc == Len(C)
             map == [a \in 1..(la + lb + lc) |->
                       IF a <= la THEN p[a] ELSE IF a <= la + lb THEN q[a - la]
                       ELSE r[a - la - lb]]
  <2>9. la \in Nat /\ lb \in Nat /\ lc \in Nat
    BY <2>5, <2>6, <2>7, LenProperties
  <2>10. /\ A \o B \in Seq(Step) /\ Len(A \o B) = la + lb
         /\ \A a \in 1..(la + lb) : (A \o B)[a] = IF a <= la THEN A[a] ELSE B[a - la]
    BY <2>5, <2>6, ConcatProperties
  <2>11. /\ t \in Seq(Step) /\ Len(t) = Len(A \o B) + lc
         /\ \A a \in 1..Len(t) : t[a] = IF a <= Len(A \o B) THEN (A \o B)[a]
                                        ELSE C[a - Len(A \o B)]
    BY <2>2, <2>7, <2>10, ConcatProperties
  <2>12. /\ p \in [1..la -> 1..(at - 1)] /\ \A k \in 1..la : A[k] = s[p[k]]
         /\ \A k, l \in 1..la : k < l => p[k] < p[l]
         /\ \A i \in 1..(at - 1) : \E k \in 1..la : p[k] = i
    BY <2>8 DEF Picks
  <2>13. /\ q \in [1..lb -> moved] /\ \A k \in 1..lb : B[k] = s[q[k]]
         /\ \A k, l \in 1..lb : k < l => q[k] < q[l]
         /\ \A i \in moved : \E k \in 1..lb : q[k] = i
    BY <2>8 DEF Picks
  <2>14. /\ r \in [1..lc -> rest \ moved] /\ \A k \in 1..lc : C[k] = s[r[k]]
         /\ \A k, l \in 1..lc : k < l => r[k] < r[l]
         /\ \A i \in rest \ moved : \E k \in 1..lc : r[k] = i
    BY <2>8 DEF Picks
  <2> DEFINE n == la + lb + lc
  <2> HIDE DEF la, lb, lc
  <2>15. Len(t) = n /\ n \in Nat
    BY <2>9, <2>10, <2>11
  <2>16. \A a \in 1..la : a \in 1..n /\ map[a] = p[a] /\ t[a] = s[p[a]] /\ p[a] \in 1..(at - 1)
    <3> TAKE a \in 1..la
    <3>1. a \in 1..n /\ a <= la /\ a <= la + lb /\ a \in 1..(la + lb)
      BY <2>9
    <3>2. t[a] = A[a]
      BY <2>10, <2>11, <2>15, <3>1
    <3>3. map[a] = p[a]
      BY <3>1
    <3> HIDE DEF map, n
    <3> QED
      BY <2>12, <3>1, <3>2, <3>3
  <2>17. \A k \in 1..lb : /\ la + k \in 1..n /\ map[la + k] = q[k]
                          /\ t[la + k] = s[q[k]] /\ q[k] \in moved
    <3> TAKE k \in 1..lb
    <3>1. /\ la + k \in 1..n /\ ~(la + k <= la) /\ la + k <= la + lb /\ la + k \in 1..(la + lb)
          /\ (la + k) - la = k
      BY <2>9
    <3>2. t[la + k] = B[k]
      BY <2>10, <2>11, <2>15, <3>1
    <3>3. map[la + k] = q[k]
      BY <3>1
    <3> HIDE DEF map, n, moved
    <3> QED
      BY <2>13, <3>1, <3>2, <3>3
  <2>18. \A k \in 1..lc : /\ la + lb + k \in 1..n /\ map[la + lb + k] = r[k]
                          /\ t[la + lb + k] = s[r[k]] /\ r[k] \in rest \ moved
    <3> TAKE k \in 1..lc
    <3>1. /\ la + lb + k \in 1..n /\ ~(la + lb + k <= la) /\ ~(la + lb + k <= la + lb)
          /\ (la + lb + k) - la - lb = k /\ (la + lb + k) - (la + lb) = k
      BY <2>9
    <3>2. t[la + lb + k] = C[k]
      BY <2>10, <2>11, <2>15, <3>1
    <3>3. map[la + lb + k] = r[k]
      BY <3>1
    <3> HIDE DEF map, n, moved
    <3> QED
      BY <2>14, <3>1, <3>2, <3>3
  <2>19. \A a \in 1..n : \/ a \in 1..la
                         \/ \E k \in 1..lb : a = la + k
                         \/ \E k \in 1..lc : a = la + lb + k
    <3> TAKE a \in 1..n
    <3>1. CASE a <= la
      BY <2>9, <3>1
    <3>2. CASE la < a /\ a <= la + lb
      <4>1. a - la \in 1..lb /\ a = la + (a - la)
        BY <2>9, <3>2
      <4> QED
        BY <4>1
    <3>3. CASE la + lb < a
      <4>1. a - la - lb \in 1..lc /\ a = la + lb + (a - la - lb)
        BY <2>9, <3>3
      <4> QED
        BY <4>1
    <3> QED
      BY <2>9, <3>1, <3>2, <3>3
  <2> HIDE DEF map, n
  <2>20. /\ \A i \in moved : i \in at..Len(s) /\ s[i].kind = first
         /\ \A i \in rest \ moved : i \in at..Len(s) /\ s[i].kind # first
         /\ \A i \in 1..(at - 1) : i \in 1..Len(s) /\ s[i].kind \notin later
         /\ \A i \in at..Len(s) : i \in 1..Len(s)
    BY <1>2, <2>1 DEF rest
  <2>21. \A i \in 1..Len(s) : i \in 1..(at - 1) \/ i \in moved \/ i \in rest \ moved
    BY <1>2, <2>1 DEF rest
  <2> HIDE DEF moved
  <2>22. map \in [1..Len(t) -> 1..Len(s)]
    <3>1. \A a \in 1..n : map[a] \in 1..Len(s)
      BY <2>16, <2>17, <2>18, <2>19, <2>20
    <3> QED
      BY <2>15, <3>1 DEF map, n
  <2>23. \A a \in 1..n : t[a] = s[map[a]]
    BY <2>16, <2>17, <2>18, <2>19
  <2>24. \A i \in 1..Len(s) : \E a \in 1..n : map[a] = i
    <3> TAKE i \in 1..Len(s)
    <3>1. CASE i \in 1..(at - 1)
      BY <2>12, <2>16, <3>1
    <3>2. CASE i \in moved
      BY <2>13, <2>17, <3>2
    <3>3. CASE i \in rest \ moved
      BY <2>14, <2>18, <3>3
    <3> QED
      BY <2>21, <3>1, <3>2, <3>3
  \* Two steps change places only when the second is one of those moved.
  <2> DEFINE Fine(a, b) ==
               /\ map[a] # map[b]
               /\ map[b] < map[a] =>
                    /\ t[a].kind = first /\ t[b].kind # first
                    /\ \E c \in 1..Len(s) : c <= map[b] /\ s[c].kind \in later
               /\ t[b].kind = first => t[a].kind \notin later
  <2>25. ASSUME NEW a \in 1..n, NEW b \in 1..n, a < b
         PROVE  Fine(a, b)
    <3>1. /\ at \in Nat /\ a \in Nat /\ b \in Nat /\ \A i \in 1..(at - 1) : i \in Nat /\ i < at
          /\ \A i \in at..Len(s) : i \in Nat /\ at <= i
      BY <1>2, <2>1, <2>15
    <3>2. CASE a \in 1..la
      <4>1. /\ map[a] = p[a] /\ p[a] \in 1..(at - 1) /\ t[a].kind \notin later
        BY <2>16, <2>20, <3>2
      <4>2. CASE b \in 1..la
        <5>1. p[a] < p[b]
          BY <2>12, <2>25, <3>2, <4>2
        <5> QED
          BY <2>16, <3>1, <4>1, <4>2, <5>1
      <4>3. ASSUME NEW l \in 1..lb, b = la + l PROVE Fine(a, b)
        BY <2>17, <2>20, <3>1, <4>1, <4>3
      <4>4. ASSUME NEW l \in 1..lc, b = la + lb + l PROVE Fine(a, b)
        BY <2>18, <2>20, <3>1, <4>1, <4>4
      <4> HIDE DEF Fine
      <4> QED
        BY <2>19, <4>2, <4>3, <4>4
    <3>3. ASSUME NEW k \in 1..lb, a = la + k PROVE Fine(a, b)
      <4>1. b \notin 1..la
        BY <2>9, <2>25, <3>1, <3>3
      <4>2. ASSUME NEW l \in 1..lb, b = la + l PROVE Fine(a, b)
        <5>1. k < l
          BY <2>9, <2>25, <3>3, <4>2
        <5> QED
          BY <2>13, <2>17, <2>20, <3>1, <3>3, <4>2, <5>1
      <4>3. ASSUME NEW l \in 1..lc, b = la + lb + l PROVE Fine(a, b)
        <5>1. /\ map[a] = q[k] /\ q[k] \in at..Len(s) /\ t[a] = s[q[k]] /\ t[a].kind = first
              /\ q[k] \in moved
          BY <2>17, <2>20, <3>3
        <5>2. /\ map[b] = r[l] /\ r[l] \in at..Len(s) /\ t[b] = s[r[l]] /\ t[b].kind # first
              /\ r[l] \notin moved
          BY <2>18, <2>20, <4>3
        <5>3. at <= map[b] /\ at \in 1..Len(s) /\ s[at].kind \in later
          BY <2>1, <3>1, <5>2
        <5> QED
          BY <5>1, <5>2, <5>3
      <4> HIDE DEF Fine
      <4> QED
        BY <2>19, <4>1, <4>2, <4>3
    <3>4. ASSUME NEW k \in 1..lc, a = la + lb + k PROVE Fine(a, b)
      <4>1. b \notin 1..la /\ \A l \in 1..lb : b # la + l
        BY <2>9, <2>25, <3>1, <3>4
      <4>2. PICK l \in 1..lc : b = la + lb + l
        BY <2>19, <4>1
      <4>3. k < l
        BY <2>9, <2>25, <3>4, <4>2
      <4> QED
        BY <2>14, <2>18, <2>20, <3>1, <3>4, <4>2, <4>3
    <3> HIDE DEF Fine
    <3> QED
      BY <2>19, <3>2, <3>3, <3>4
  <2>26. \A a, b \in 1..n : a # b => map[a] # map[b]
    <3> SUFFICES ASSUME NEW a \in 1..n, NEW b \in 1..n, a # b PROVE map[a] # map[b]
      OBVIOUS
    <3>1. a < b \/ b < a
      BY <2>15
    <3> QED
      BY <2>25, <3>1
  <2>27. Rearranged(map, t, s, first, later)
    BY <2>15, <2>22, <2>23, <2>24, <2>25, <2>26 DEF Rearranged
  <2> QED
    BY <2>11, <2>27 DEF t
<1> QED
  BY <1>3, <1>4

\* Plan t is plan s in an order that keeps the steps of each kind as they were.
Stable(map, t, s) ==
  /\ map \in [1..Len(t) -> 1..Len(s)]
  /\ \A a \in 1..Len(t) : t[a] = s[map[a]]
  /\ \A i \in 1..Len(s) : \E a \in 1..Len(t) : map[a] = i
  /\ \A a, b \in 1..Len(t) : a < b /\ t[a].kind = t[b].kind => map[a] < map[b]

\* No step of kind `first` comes after one of `later`.
Ahead(t, first, later) ==
  \A a, b \in 1..Len(t) : a < b /\ t[b].kind = first => t[a].kind \notin later

LEMMA RearrangedIsStable ==
  ASSUME NEW s \in Seq(Step), NEW t \in Seq(Step), NEW map, NEW first, NEW later,
         Rearranged(map, t, s, first, later)
  PROVE  Stable(map, t, s) /\ Ahead(t, first, later)
<1>1. Len(s) \in Nat /\ Len(t) \in Nat
  BY LenProperties
<1>2. ASSUME NEW a \in 1..Len(t), NEW b \in 1..Len(t), a < b, t[a].kind = t[b].kind
      PROVE  map[a] < map[b]
  <2>1. map[a] \in Nat /\ map[b] \in Nat
    BY <1>1 DEF Rearranged
  <2>2. map[a] # map[b] /\ ~(map[b] < map[a])
    BY <1>1, <1>2 DEF Rearranged
  <2> QED
    BY <2>1, <2>2
<1> QED
  BY <1>1, <1>2 DEF Rearranged, Stable, Ahead

\* One rearrangement after another.
LEMMA StableTwice ==
  ASSUME NEW s \in Seq(Step), NEW t \in Seq(Step), NEW u \in Seq(Step),
         NEW m, NEW n, Stable(m, t, s), Stable(n, u, t)
  PROVE  \E map : Stable(map, u, s)
<1> DEFINE map == [a \in 1..Len(u) |-> m[n[a]]]
<1>1. \A a \in 1..Len(u) : n[a] \in 1..Len(t) /\ map[a] = m[n[a]] /\ map[a] \in 1..Len(s)
  BY DEF Stable
<1>2. map \in [1..Len(u) -> 1..Len(s)]
  BY <1>1
<1> HIDE DEF map
<1>3. \A i \in 1..Len(s) : \E a \in 1..Len(u) : map[a] = i
  <2> TAKE i \in 1..Len(s)
  <2>1. PICK b \in 1..Len(t) : m[b] = i
    BY DEF Stable
  <2>2. PICK a \in 1..Len(u) : n[a] = b
    BY DEF Stable
  <2> QED
    BY <1>1, <2>1, <2>2
<1>4. ASSUME NEW a \in 1..Len(u), NEW b \in 1..Len(u), a < b, u[a].kind = u[b].kind
      PROVE  map[a] < map[b]
  <2>1. n[a] < n[b]
    BY <1>4 DEF Stable
  <2>2. t[n[a]].kind = t[n[b]].kind
    BY <1>4 DEF Stable
  <2> QED
    BY SMTT(30), <1>1, <2>1, <2>2 DEF Stable
<1>5. \A a \in 1..Len(u) : u[a] = s[map[a]]
  BY ZenonT(30), <1>1 DEF Stable
<1>6. Stable(map, u, s)
  BY <1>2, <1>3, <1>4, <1>5 DEF Stable
<1> QED
  BY <1>6

\* Moving one kind ahead of tranche reviews does not put another behind what it was ahead
\* of, if that includes the tranche reviews.
LEMMA StaysAhead ==
  ASSUME NEW s \in Seq(Step), NEW t \in Seq(Step), NEW map, NEW first, NEW later,
         Rearranged(map, t, s, first, later),
         NEW other, NEW others, other # first, other \notin others, later \subseteq others,
         Ahead(s, other, others)
  PROVE  Ahead(t, other, others)
<1> SUFFICES ASSUME NEW a \in 1..Len(t), NEW b \in 1..Len(t), a < b, t[b].kind = other,
                    t[a].kind \in others
             PROVE  FALSE
  BY DEF Ahead
<1>1. /\ map[a] \in 1..Len(s) /\ map[b] \in 1..Len(s) /\ map[a] # map[b]
      /\ s[map[a]].kind \in others /\ s[map[b]].kind = other
  <2>1. \A i \in 1..Len(t) : map[i] \in 1..Len(s) /\ t[i] = s[map[i]]
    BY DEF Rearranged
  <2>2. a # b
    BY LenProperties
  <2>3. map[a] # map[b]
    BY <2>2 DEF Rearranged
  <2> QED
    BY <2>1, <2>3
<1>2. Len(s) \in Nat
  BY LenProperties
<1>3. ~(map[a] < map[b])
  BY <1>1 DEF Ahead
<1>4. map[b] < map[a]
  BY <1>1, <1>2, <1>3
<1>5. PICK c \in 1..Len(s) : c <= map[b] /\ s[c].kind \in later
  BY <1>4 DEF Rearranged
<1>6. c # map[b]
  BY <1>1, <1>5
<1> QED
  BY <1>1, <1>2, <1>5, <1>6 DEF Ahead

Ordered(t) ==
  /\ Ahead(t, "duplicates", AFTER_DUPLICATES)
  /\ Ahead(t, "logic", AFTER_LOGIC)
  /\ Ahead(t, "suspects", AFTER_LOGIC)

\* Order keeps the steps of each kind as they were, and leaves no step where a rule forbids
\* it (order of tracker/night/referee.py).
LEMMA OrderIs ==
  ASSUME NEW s \in Seq(Step)
  PROVE  Order(s) \in Seq(Step) /\ Ordered(Order(s)) /\ \E map : Stable(map, Order(s), s)
<1> DEFINE t == MoveAhead("duplicates", AFTER_DUPLICATES)[s]
           u == MoveAhead("logic", AFTER_LOGIC)[t]
           v == MoveAhead("suspects", AFTER_LOGIC)[u]
<1>1. Order(s) = v
  BY DEF Order
<1>2. t \in Seq(Step) /\ \E map : Rearranged(map, t, s, "duplicates", AFTER_DUPLICATES)
  BY MoveAheadIs DEF AFTER_DUPLICATES
<1> HIDE DEF t
<1>3. u \in Seq(Step) /\ \E map : Rearranged(map, u, t, "logic", AFTER_LOGIC)
  BY <1>2, MoveAheadIs DEF AFTER_LOGIC
<1> HIDE DEF u
<1>4. v \in Seq(Step) /\ \E map : Rearranged(map, v, u, "suspects", AFTER_LOGIC)
  BY <1>3, MoveAheadIs DEF AFTER_LOGIC
<1> HIDE DEF v
<1>5. PICK l, m, n : /\ Rearranged(l, t, s, "duplicates", AFTER_DUPLICATES)
                     /\ Rearranged(m, u, t, "logic", AFTER_LOGIC)
                     /\ Rearranged(n, v, u, "suspects", AFTER_LOGIC)
  BY <1>2, <1>3, <1>4
<1>6. Stable(l, t, s) /\ Ahead(t, "duplicates", AFTER_DUPLICATES)
  BY <1>2, <1>5, RearrangedIsStable
<1>7. Stable(m, u, t) /\ Ahead(u, "logic", AFTER_LOGIC)
  BY <1>2, <1>3, <1>5, RearrangedIsStable
<1>8. Stable(n, v, u) /\ Ahead(v, "suspects", AFTER_LOGIC)
  BY <1>3, <1>4, <1>5, RearrangedIsStable
<1>9. /\ "duplicates" \notin AFTER_DUPLICATES /\ "logic" \notin AFTER_LOGIC
      /\ AFTER_LOGIC \subseteq AFTER_DUPLICATES
  BY DEF AFTER_LOGIC, AFTER_DUPLICATES
<1>10. Ahead(u, "duplicates", AFTER_DUPLICATES)
  BY <1>2, <1>3, <1>5, <1>6, <1>9, StaysAhead
<1>11. Ahead(v, "duplicates", AFTER_DUPLICATES) /\ Ahead(v, "logic", AFTER_LOGIC)
  BY <1>3, <1>4, <1>5, <1>7, <1>9, <1>10, StaysAhead
<1>12. \E map : Stable(map, v, s)
  <2>1. \E map : Stable(map, u, s)
    BY <1>2, <1>3, <1>6, <1>7, StableTwice
  <2> QED
    BY <1>3, <1>4, <1>8, <2>1, StableTwice
<1> QED
  BY <1>1, <1>4, <1>8, <1>11, <1>12 DEF Ordered

------------------------------------------------------------------------------
(* The review of a plan.                                                     *)

\* What the menu says of every kind.
LEMMA KindsAre ==
  \A k \in Kind :
    /\ KINDS[k].lo \in Nat /\ KINDS[k].hi \in Nat /\ KINDS[k].floor \in Nat
    /\ KINDS[k].floor <= KINDS[k].hi
    /\ KINDS[k].floor > 0 => KINDS[k].choosable /\ k \notin SELECTING
    /\ Allowance(k) \in Nat /\ KINDS[k].floor <= Allowance(k)
    /\ FloorOf(k) \in {0, KINDS[k].floor}
<1> SUFFICES ASSUME NEW k \in Kind
             PROVE  /\ KINDS[k].lo \in Nat /\ KINDS[k].hi \in Nat /\ KINDS[k].floor \in Nat
                    /\ KINDS[k].floor <= KINDS[k].hi
                    /\ KINDS[k].floor > 0 => KINDS[k].choosable /\ k \notin SELECTING
                    /\ Allowance(k) \in Nat /\ KINDS[k].floor <= Allowance(k)
                    /\ FloorOf(k) \in {0, KINDS[k].floor}
  OBVIOUS
<1>1. /\ KINDS[k].lo \in Nat /\ KINDS[k].hi \in Nat /\ KINDS[k].floor \in Nat
      /\ KINDS[k].floor <= KINDS[k].hi
      /\ KINDS[k].floor > 0 => KINDS[k].choosable /\ k \notin SELECTING
  BY SMTT(60) DEF Kind, KINDS, K, SELECTING
<1>2. Baseline[k] \in Nat
  BY RefereeAssumption
<1>3. (Baseline[k] * 3) \div 2 \in Nat
  BY <1>2
<1>4. Allowance(k) \in Nat /\ KINDS[k].floor <= Allowance(k)
  BY <1>1, <1>3 DEF Allowance, Most
<1> QED
  BY <1>1, <1>4 DEF FloorOf

\* A plan under review: the steps kept, and what the night will have run after them.
Plan == [kept : Seq(Step), planning : Tonight]

\* A step that is not refused, cut to size, is one the night can run: within the night's
\* allowance, and within the passes, the second one on fresh rows.
LEMMA TrimmedIsAStep ==
  ASSUME NEW t \in Tonight, NEW step \in Wish, ~Refused(step, t)
  PROVE  /\ Trimmed(step, t) \in Step
         /\ Trimmed(step, t).kind = step.kind /\ Trimmed(step, t).origin = "director"
         /\ KINDS[step.kind].choosable
         /\ t.totals[step.kind] + Trimmed(step, t).size <= Allowance(step.kind)
         /\ step.kind \in SELECTING =>
              /\ t.passes[step.kind] < SELECTING_PASSES
              /\ t.passes[step.kind] > 0 => Trimmed(step, t).fresh
<1> DEFINE k    == step.kind
           size == Clamp(step.size, Most(KINDS[k].lo, 1), KINDS[k].hi)
           left == Allowance(k) - t.totals[k]
           fre  == k \in SELECTING /\ (step.fresh \/ t.passes[k] > 0)
<1>1. /\ k \in Kind /\ KINDS[k].choosable
      /\ ~(t.totals[k] >= Allowance(k))
      /\ k \in SELECTING => ~(t.passes[k] >= SELECTING_PASSES)
  BY DEF Refused
<1>2. /\ t.totals \in [Kind -> Nat] /\ t.passes \in [SELECTING -> Nat] /\ step.size \in Nat
      /\ step.fresh \in BOOLEAN
  BY DEF Tonight, Wish
<1>3. t.totals[k] \in Nat /\ Allowance(k) \in Nat /\ KINDS[k].lo \in Nat /\ KINDS[k].hi \in Nat
  BY <1>1, <1>2, KindsAre
<1>4. Trimmed(step, t) = [kind |-> k, size |-> Least(size, left), fresh |-> fre,
                          origin |-> "director"]
  BY DEF Trimmed, AStep
<1> HIDE DEF k, fre
<1>5. Least(size, left) \in Nat /\ t.totals[k] + Least(size, left) <= Allowance(k)
  BY <1>1, <1>3, <1>2 DEF Clamp, Least, Most
<1> HIDE DEF size, left
<1>6. fre \in BOOLEAN
  BY DEF fre
<1>7. Trimmed(step, t) \in Step
  BY <1>1, <1>4, <1>5, <1>6 DEF Step, Origin
<1>8. k \in SELECTING => t.passes[k] < SELECTING_PASSES
  BY <1>1, <1>2 DEF SELECTING_PASSES
<1>9. k \in SELECTING /\ t.passes[k] > 0 => fre
  BY DEF fre, k
<1> QED
  BY <1>1, <1>4, <1>5, <1>7, <1>8, <1>9 DEF k

LEMMA AddIs ==
  ASSUME NEW t \in Tonight, NEW step \in Step
  PROVE  /\ Add(t, step) \in Tonight
         /\ \A k \in Kind : Add(t, step).totals[k] =
              t.totals[k] + (IF k = step.kind THEN step.size ELSE 0)
         /\ \A k \in SELECTING : Add(t, step).passes[k] =
              t.passes[k] + (IF k = step.kind THEN 1 ELSE 0)
<1> DEFINE tot == [t.totals EXCEPT ![step.kind] = @ + step.size]
           pas == [k \in SELECTING |-> t.passes[k] + (IF k = step.kind THEN 1 ELSE 0)]
           row == t.rows_steps + (IF step.kind = "rows" THEN 1 ELSE 0)
           num == t.steps + 1
<1>1. /\ t.totals \in [Kind -> Nat] /\ t.passes \in [SELECTING -> Nat]
      /\ t.rows_steps \in Nat /\ t.steps \in Nat
      /\ step.kind \in Kind /\ step.size \in Nat
  BY DEF Tonight, Step
<1>2. /\ tot \in [Kind -> Nat]
      /\ \A k \in Kind : tot[k] = t.totals[k] + (IF k = step.kind THEN step.size ELSE 0)
  BY <1>1
<1>3. /\ pas \in [SELECTING -> Nat]
      /\ \A k \in SELECTING : pas[k] = t.passes[k] + (IF k = step.kind THEN 1 ELSE 0)
  BY <1>1
<1>4. row \in Nat /\ num \in Nat
  BY <1>1
<1>5. Add(t, step) = [totals |-> tot, passes |-> pas, rows_steps |-> row, steps |-> num]
  BY DEF Add
<1> HIDE DEF tot, pas, row, num
<1> QED
  BY <1>2, <1>3, <1>4, <1>5 DEF Tonight

LEMMA ReviewStepIsAPlan ==
  ASSUME NEW p \in Plan, NEW step \in Wish
  PROVE  ReviewStep(p, step) \in Plan
<1>1. p.kept \in Seq(Step) /\ p.planning \in Tonight
  BY DEF Plan
<1>2. CASE Refused(step, p.planning)
  BY <1>2 DEF ReviewStep
<1>3. CASE ~Refused(step, p.planning)
  <2> DEFINE s == Trimmed(step, p.planning)
  <2>1. s \in Step
    BY <1>1, <1>3, TrimmedIsAStep
  <2>2. ReviewStep(p, step) = [kept |-> Append(p.kept, s), planning |-> Add(p.planning, s)]
    BY <1>3 DEF ReviewStep, Keep
  <2> HIDE DEF s
  <2>3. Append(p.kept, s) \in Seq(Step)
    BY <1>1, <2>1, AppendProperties
  <2>4. Add(p.planning, s) \in Tonight
    BY <1>1, <2>1, AddIs
  <2> QED
    BY <2>2, <2>3, <2>4 DEF Plan
<1> QED
  BY <1>2, <1>3

\* Asked is the review of the steps proposed one after the other.
LEMMA AskedIs ==
  ASSUME NEW t \in Tonight, NEW proposed \in Seq(Wish)
  PROVE  \E f \in [0..Len(proposed) -> Plan] :
           /\ f[0] = [kept |-> <<>>, planning |-> t]
           /\ \A i \in 1..Len(proposed) : f[i] = ReviewStep(f[i - 1], proposed[i])
           /\ Asked(proposed, t) = f[Len(proposed)]
<1> DEFINE n == Len(proposed)
           a == [kept |-> <<>>, planning |-> t]
           Body(f) == [i \in 0..Len(proposed) |->
                         IF i = 0 THEN [kept |-> <<>>, planning |-> t]
                                  ELSE ReviewStep(f[i - 1], proposed[i])]
           asked == CHOOSE f : f = Body(f)
<1>1. Asked(proposed, t) = asked[n]
  BY DEF Asked
<1>2. n \in Nat /\ \A i \in 1..n : proposed[i] \in Wish
  BY LenProperties, ElementOfSeq
<1>3. a \in Plan
  BY EmptySeq DEF Plan
<1> DEFINE G == [i \in 1..n |-> [p \in Plan |-> ReviewStep(p, proposed[i])]]
<1>4. G \in [1..n -> [Plan -> Plan]]
  <2>1. \A i \in 1..n : \A p \in Plan : ReviewStep(p, proposed[i]) \in Plan
    BY <1>2, ReviewStepIsAPlan
  <2> HIDE DEF n
  <2> QED
    BY <2>1
<1>5. \A i \in 1..n : \A p \in Plan : G[i][p] = ReviewStep(p, proposed[i])
  OBVIOUS
<1>6. \E f \in [0..n -> Plan] : Follows(f, n, a, G)
  <2> HIDE DEF n, a, G
  <2> QED
    BY <1>2, <1>3, <1>4, Repeat
<1>7. PICK g \in [0..n -> Plan] : Follows(g, n, a, G)
  BY <1>6
<1> HIDE DEF G
<1>8. g[0] = a /\ \A i \in 1..n : g[i] = ReviewStep(g[i - 1], proposed[i])
  <2>1. \A i \in 1..n : i - 1 \in 0..n
    BY <1>2
  <2> HIDE DEF n, a
  <2> QED
    BY <1>5, <1>7, <2>1 DEF Follows
<1>9. g = Body(g)
  <2>1. \A i \in 0..n : i = 0 \/ i \in 1..n
    BY <1>2
  <2>2. \A i \in 0..n : g[i] = IF i = 0 THEN a ELSE ReviewStep(g[i - 1], proposed[i])
    BY <1>8, <2>1
  <2> QED
    BY <1>7, <2>2
<1>10. asked = Body(asked)
  <2> HIDE DEF Body
  <2> QED
    BY <1>9
<1> HIDE DEF asked
<1>11. asked[0] = a /\ \A i \in 1..n : asked[i] = ReviewStep(asked[i - 1], proposed[i])
  <2>1. \A i \in 1..n : i \in 0..n /\ i # 0
    BY <1>2
  <2>2. 0 \in 0..n
    BY <1>2
  <2> QED
    BY <1>10, <2>1, <2>2
<1>12. asked \in [0..n -> Plan]
  <2> DEFINE T == {i \in 0..n : asked[i] \in Plan}
  <2>1. 0 \in T
    BY <1>2, <1>3, <1>11
  <2>2. \A i \in 0..(n - 1) : i \in T => i + 1 \in T
    <3> TAKE i \in 0..(n - 1)
    <3> HAVE i \in T
    <3>1. i + 1 \in 1..n /\ i + 1 \in 0..n /\ (i + 1) - 1 = i
      BY <1>2
    <3>2. asked[i + 1] = ReviewStep(asked[i], proposed[i + 1])
      BY <1>11, <3>1
    <3>3. asked[i + 1] \in Plan
      BY <1>2, <3>1, <3>2, ReviewStepIsAPlan
    <3> QED
      BY <3>1, <3>3
  <2>3. \A i \in 0..n : i \in T
    <3> HIDE DEF T, n
    <3> QED
      BY <1>2, <2>1, <2>2, UpTo
  <2> QED
    BY <1>10, <2>3
<1> QED
  BY <1>1, <1>11, <1>12

------------------------------------------------------------------------------
(* What the passes and the units of a plan come to.                          *)

\* P numbers the passes of a plan that starts after t: each selecting step is one of the
\* night's passes, and the second one is on fresh rows.
Passed(P, s, t) ==
  \A j \in 1..Len(s) : s[j].kind \in SELECTING =>
    /\ P[j] \in Nat /\ t.passes[s[j].kind] < P[j] /\ P[j] <= SELECTING_PASSES
    /\ P[j] > 1 => s[j].fresh
    /\ \A i \in 1..Len(s) : i < j /\ s[i].kind = s[j].kind => P[i] < P[j]

\* L adds the units up: L[j] is what the night will have asked of the kind of step j once
\* that step has run.
Summed(L, s, t) ==
  \A j \in 1..Len(s) : KINDS[s[j].kind].choosable =>
    /\ L[j] \in Nat /\ t.totals[s[j].kind] + s[j].size <= L[j]
    /\ \A i \in 1..Len(s) : i < j /\ s[i].kind = s[j].kind => L[i] + s[j].size <= L[j]
    /\ \/ L[j] <= t.totals[s[j].kind] + s[j].size
       \/ \E i \in 1..Len(s) : /\ i < j /\ s[i].kind = s[j].kind
                               /\ L[j] <= L[i] + s[j].size

Within(L, s) ==
  \A j \in 1..Len(s) : KINDS[s[j].kind].choosable => L[j] <= Allowance(s[j].kind)

\* Every floor is met, or will be by a step of the plan.
Enough(L, s, t) ==
  \A k \in Kind : \/ FloorOf(k) <= t.totals[k]
                  \/ \E j \in 1..Len(s) : s[j].kind = k /\ FloorOf(k) <= L[j]

Choosable(s) == \A j \in 1..Len(s) : KINDS[s[j].kind].choosable

\* The night planned for once the plan p has been reviewed adds up to that plan.
AddsUp(L, P, p, t) ==
  /\ Choosable(p.kept)
  /\ Passed(P, p.kept, t) /\ Summed(L, p.kept, t) /\ Within(L, p.kept)
  /\ \A k \in Kind :
       /\ t.totals[k] <= p.planning.totals[k]
       /\ \A j \in 1..Len(p.kept) : p.kept[j].kind = k => L[j] <= p.planning.totals[k]
       /\ \/ p.planning.totals[k] <= t.totals[k]
          \/ \E j \in 1..Len(p.kept) : p.kept[j].kind = k /\ p.planning.totals[k] <= L[j]
  /\ \A k \in SELECTING :
       /\ t.passes[k] <= p.planning.passes[k]
       /\ \A j \in 1..Len(p.kept) : p.kept[j].kind = k => P[j] <= p.planning.passes[k]

\* Steps of different kinds that can follow what is planned.
Addable(f, planned) ==
  /\ \A i, j \in 1..Len(f) : i # j => f[i].kind # f[j].kind
  /\ Choosable(f)
  /\ \A j \in 1..Len(f) : f[j].kind \in SELECTING =>
       /\ planned.passes[f[j].kind] < SELECTING_PASSES
       /\ planned.passes[f[j].kind] > 0 => f[j].fresh

Longer(L, n, f, planned) ==
  [j \in 1..(n + Len(f)) |->
     IF j <= n THEN L[j] ELSE planned.totals[f[j - n].kind] + f[j - n].size]
LongerP(P, n, f, planned) ==
  [j \in 1..(n + Len(f)) |->
     IF j <= n THEN P[j]
     ELSE IF f[j - n].kind \in SELECTING THEN planned.passes[f[j - n].kind] + 1 ELSE 0]

\* Such steps, put behind a plan that adds up, carry its sums on.
LEMMA Extends ==
  ASSUME NEW t \in Tonight, NEW p \in Plan, NEW L, NEW P, AddsUp(L, P, p, t),
         NEW f \in Seq(Step), Addable(f, p.planning),
         NEW n, n = Len(p.kept), NEW M, M = Longer(L, n, f, p.planning),
         NEW Q, Q = LongerP(P, n, f, p.planning)
  PROVE  /\ Passed(Q, p.kept \o f, t) /\ Summed(M, p.kept \o f, t) /\ Choosable(p.kept \o f)
         /\ \A j \in 1..n : M[j] = L[j] /\ Q[j] = P[j] /\ (p.kept \o f)[j] = p.kept[j]
         /\ \A j \in 1..Len(f) : /\ n + j \in 1..Len(p.kept \o f)
                                 /\ (p.kept \o f)[n + j] = f[j]
                                 /\ M[n + j] = p.planning.totals[f[j].kind] + f[j].size
                                 /\ f[j].kind \in SELECTING =>
                                      Q[n + j] = p.planning.passes[f[j].kind] + 1
         /\ Len(p.kept \o f) = n + Len(f) /\ n \in Nat /\ p.kept \o f \in Seq(Step)
<1> DEFINE s == p.kept
           m == Len(f)
           u == s \o f
           tot == p.planning.totals
           pas == p.planning.passes
<1>1. /\ s \in Seq(Step) /\ n \in Nat /\ m \in Nat
      /\ tot \in [Kind -> Nat] /\ pas \in [SELECTING -> Nat]
      /\ t.totals \in [Kind -> Nat] /\ t.passes \in [SELECTING -> Nat]
  BY LenProperties DEF Plan, Tonight
<1>2. /\ u \in Seq(Step) /\ Len(u) = n + m
      /\ \A j \in 1..(n + m) : u[j] = IF j <= n THEN s[j] ELSE f[j - n]
  BY <1>1, ConcatProperties
<1>3. /\ \A j \in 1..n : s[j] \in Step /\ s[j].kind \in Kind /\ s[j].size \in Nat
      /\ \A j \in 1..m : f[j] \in Step /\ f[j].kind \in Kind /\ f[j].size \in Nat
  <2>1. /\ \A j \in 1..n : s[j] \in Step
        /\ \A j \in 1..m : f[j] \in Step
    BY <1>1, ElementOfSeq
  <2> QED
    BY <2>1 DEF Step
<1>4. /\ M = [j \in 1..(n + m) |-> IF j <= n THEN L[j] ELSE tot[f[j - n].kind] + f[j - n].size]
      /\ Q = [j \in 1..(n + m) |-> IF j <= n THEN P[j]
                ELSE IF f[j - n].kind \in SELECTING THEN pas[f[j - n].kind] + 1 ELSE 0]
  BY DEF Longer, LongerP
<1>5. /\ Choosable(s) /\ Passed(P, s, t) /\ Summed(L, s, t)
      /\ \A k \in Kind :
           /\ t.totals[k] <= tot[k]
           /\ \A j \in 1..n : s[j].kind = k => L[j] <= tot[k]
           /\ \/ tot[k] <= t.totals[k]
              \/ \E j \in 1..n : s[j].kind = k /\ tot[k] <= L[j]
      /\ \A k \in SELECTING :
           /\ t.passes[k] <= pas[k]
           /\ \A j \in 1..n : s[j].kind = k => P[j] <= pas[k]
  BY DEF AddsUp
<1>6. /\ \A i, j \in 1..m : i # j => f[i].kind # f[j].kind
      /\ Choosable(f)
      /\ \A j \in 1..m : f[j].kind \in SELECTING =>
           /\ pas[f[j].kind] < SELECTING_PASSES
           /\ pas[f[j].kind] > 0 => f[j].fresh
  BY DEF Addable
<1> HIDE DEF s, m, u, tot, pas
<1>s. n = Len(s) /\ m = Len(f)
  BY DEF s, m
<1>7. \A j \in 1..n : M[j] = L[j] /\ Q[j] = P[j] /\ u[j] = s[j] /\ j \in 1..Len(u)
  <2> TAKE j \in 1..n
  <2>1. j \in 1..(n + m) /\ j <= n
    BY <1>1
  <2> QED
    BY <1>2, <1>4, <2>1
<1>8. \A j \in 1..m : /\ n + j \in 1..Len(u) /\ u[n + j] = f[j]
                      /\ M[n + j] = tot[f[j].kind] + f[j].size
                      /\ f[j].kind \in SELECTING => Q[n + j] = pas[f[j].kind] + 1
  <2> TAKE j \in 1..m
  <2>1. n + j \in 1..(n + m) /\ ~(n + j <= n) /\ (n + j) - n = j
    BY <1>1
  <2> QED
    BY <1>2, <1>4, <2>1
<1>9. \A j \in 1..Len(u) : j \in 1..n \/ \E i \in 1..m : j = n + i
  <2> TAKE j \in 1..Len(u)
  <2>1. j \in 1..(n + m)
    BY <1>2
  <2>2. CASE j <= n
    BY <1>1, <2>1, <2>2
  <2>3. CASE ~(j <= n)
    <3>1. j - n \in 1..m /\ j = n + (j - n)
      BY <1>1, <2>1, <2>3
    <3> QED
      BY <3>1
  <2> QED
    BY <2>2, <2>3
<1>10. Choosable(u)
  <2>1. \A j \in 1..n : KINDS[u[j].kind].choosable
    BY <1>5, <1>7, <1>s DEF Choosable
  <2>2. \A j \in 1..m : KINDS[u[n + j].kind].choosable
    BY <1>6, <1>8, <1>s DEF Choosable
  <2>3. \A j \in 1..Len(u) : KINDS[u[j].kind].choosable
    BY <1>9, <2>1, <2>2
  <2> QED
    BY <2>3 DEF Choosable
<1>11. Passed(Q, u, t)
  <2> DEFINE Fine(j) ==
        /\ Q[j] \in Nat /\ t.passes[u[j].kind] < Q[j] /\ Q[j] <= SELECTING_PASSES
        /\ Q[j] > 1 => u[j].fresh
        /\ \A i \in 1..Len(u) : i < j /\ u[i].kind = u[j].kind => Q[i] < Q[j]
  <2>1. ASSUME NEW j \in 1..n, u[j].kind \in SELECTING PROVE Fine(j)
    <3>1. /\ Q[j] = P[j] /\ u[j] = s[j] /\ s[j].kind \in SELECTING
          /\ \A i \in 1..Len(u) : i < j => i \in 1..n /\ Q[i] = P[i] /\ u[i] = s[i]
      <4>1. \A i \in 1..Len(u) : i < j => i \in 1..n
        BY <1>1, <1>2
      <4> QED
        BY <1>7, <2>1, <4>1
    <3>2. /\ P[j] \in Nat /\ t.passes[s[j].kind] < P[j] /\ P[j] <= SELECTING_PASSES
          /\ P[j] > 1 => s[j].fresh
          /\ \A i \in 1..n : i < j /\ s[i].kind = s[j].kind => P[i] < P[j]
      BY <1>5, <1>s, <3>1 DEF Passed
    <3> QED
      BY <3>1, <3>2
  <2>2. ASSUME NEW i \in 1..m, u[n + i].kind \in SELECTING PROVE Fine(n + i)
    <3>1. /\ f[i].kind \in SELECTING /\ u[n + i] = f[i] /\ Q[n + i] = pas[f[i].kind] + 1
      BY <1>8, <2>2
    <3>2. /\ pas[f[i].kind] \in Nat /\ t.passes[f[i].kind] \in Nat
          /\ pas[f[i].kind] < SELECTING_PASSES /\ t.passes[f[i].kind] <= pas[f[i].kind]
          /\ pas[f[i].kind] > 0 => f[i].fresh
      BY <1>1, <1>5, <1>6, <3>1
    <3>3. \A j \in 1..Len(u) : j < n + i /\ u[j].kind = f[i].kind => Q[j] < Q[n + i]
      <4> SUFFICES ASSUME NEW j \in 1..Len(u), j < n + i, u[j].kind = f[i].kind
                   PROVE  Q[j] < Q[n + i]
        OBVIOUS
      <4>1. CASE j \in 1..n
        <5>1. s[j].kind = f[i].kind /\ Q[j] = P[j]
          BY <1>7, <4>1
        <5>2. P[j] <= pas[f[i].kind] /\ P[j] \in Nat
          BY <1>5, <1>s, <3>1, <4>1, <5>1 DEF Passed
        <5> QED
          BY <3>1, <3>2, <5>1, <5>2
      <4>2. CASE j \notin 1..n
        <5>1. PICK l \in 1..m : j = n + l
          BY <1>9, <4>2
        <5>2. l # i /\ f[l].kind = f[i].kind
          BY <1>1, <1>8, <5>1
        <5> QED
          BY <1>6, <5>2
      <4> QED
        BY <4>1, <4>2
    <3>4. /\ Q[n + i] \in Nat /\ t.passes[u[n + i].kind] < Q[n + i]
          /\ Q[n + i] <= SELECTING_PASSES
      <4>1. pas[f[i].kind] + 1 \in Nat /\ pas[f[i].kind] + 1 <= SELECTING_PASSES
        BY <3>2 DEF SELECTING_PASSES
      <4>2. t.passes[f[i].kind] < pas[f[i].kind] + 1
        BY <3>2
      <4> QED
        BY <3>1, <4>1, <4>2
    <3>5. Q[n + i] > 1 => u[n + i].fresh
      <4>1. pas[f[i].kind] + 1 > 1 => pas[f[i].kind] > 0
        BY <3>2
      <4> QED
        BY <3>1, <3>2, <4>1
    <3>6. \A j \in 1..Len(u) : j < n + i /\ u[j].kind = u[n + i].kind => Q[j] < Q[n + i]
      BY <3>1, <3>3
    <3> QED
      BY <3>4, <3>5, <3>6
  <2>3. \A j \in 1..Len(u) : u[j].kind \in SELECTING => Fine(j)
    <3> HIDE DEF Fine
    <3> QED
      BY <1>9, <2>1, <2>2
  <2> QED
    BY <2>3 DEF Passed
<1>12. Summed(M, u, t)
  <2> DEFINE Fine(j) ==
        /\ M[j] \in Nat /\ t.totals[u[j].kind] + u[j].size <= M[j]
        /\ \A i \in 1..Len(u) : i < j /\ u[i].kind = u[j].kind => M[i] + u[j].size <= M[j]
        /\ \/ M[j] <= t.totals[u[j].kind] + u[j].size
           \/ \E i \in 1..Len(u) : /\ i < j /\ u[i].kind = u[j].kind
                                   /\ M[j] <= M[i] + u[j].size
  <2>1. ASSUME NEW j \in 1..n PROVE Fine(j)
    <3>1. /\ M[j] = L[j] /\ u[j] = s[j]
          /\ \A i \in 1..Len(u) : i < j => i \in 1..n /\ M[i] = L[i] /\ u[i] = s[i]
          /\ \A i \in 1..n : i \in 1..Len(u) /\ M[i] = L[i] /\ u[i] = s[i]
      <4>1. \A i \in 1..Len(u) : i < j => i \in 1..n
        BY <1>1, <1>2
      <4> QED
        BY <1>7, <4>1
    <3>2. /\ L[j] \in Nat /\ t.totals[s[j].kind] + s[j].size <= L[j]
          /\ \A i \in 1..n : i < j /\ s[i].kind = s[j].kind => L[i] + s[j].size <= L[j]
          /\ \/ L[j] <= t.totals[s[j].kind] + s[j].size
             \/ \E i \in 1..n : /\ i < j /\ s[i].kind = s[j].kind
                                /\ L[j] <= L[i] + s[j].size
      BY <1>5, <1>s DEF Summed, Choosable
    <3> QED
      BY <3>1, <3>2
  <2>2. ASSUME NEW i \in 1..m PROVE Fine(n + i)
    <3> DEFINE k == f[i].kind
               z == f[i].size
    <3>1. /\ u[n + i] = f[i] /\ M[n + i] = tot[k] + z /\ k \in Kind /\ z \in Nat
          /\ n + i \in Nat /\ \A j \in 1..n : j < n + i
      BY <1>1, <1>3, <1>8
    <3>2. /\ tot[k] \in Nat /\ t.totals[k] \in Nat /\ t.totals[k] <= tot[k]
          /\ \A j \in 1..n : s[j].kind = k => L[j] <= tot[k]
          /\ \/ tot[k] <= t.totals[k]
             \/ \E j \in 1..n : s[j].kind = k /\ tot[k] <= L[j]
      BY <1>1, <1>5, <3>1
    <3>5. u[n + i].kind = k /\ u[n + i].size = z
      BY <3>1
    <3>6. \A j \in 1..n : L[j] \in Nat
      BY <1>5, <1>s DEF Summed, Choosable
    <3> HIDE DEF k, z
    <3>3. \A j \in 1..Len(u) : j < n + i /\ u[j].kind = k => M[j] + z <= M[n + i]
      <4> SUFFICES ASSUME NEW j \in 1..Len(u), j < n + i, u[j].kind = k
                   PROVE  M[j] + z <= M[n + i]
        OBVIOUS
      <4>1. CASE j \in 1..n
        <5>1. s[j].kind = k /\ M[j] = L[j]
          BY <1>7, <4>1
        <5> QED
          BY SMTT(30), <3>1, <3>2, <3>6, <4>1, <5>1
      <4>2. CASE j \notin 1..n
        <5>1. PICK l \in 1..m : j = n + l
          BY <1>9, <4>2
        <5>2. l # i /\ f[l].kind = k
          BY <1>1, <1>8, <5>1
        <5> QED
          BY <1>6, <5>2 DEF k
      <4> QED
        BY <4>1, <4>2
    <3>4. \/ M[n + i] <= t.totals[k] + z
          \/ \E j \in 1..Len(u) : j < n + i /\ u[j].kind = k /\ M[n + i] <= M[j] + z
      <4>1. CASE tot[k] <= t.totals[k]
        BY <3>1, <3>2, <4>1
      <4>2. ASSUME NEW j \in 1..n, s[j].kind = k, tot[k] <= L[j]
            PROVE  j < n + i /\ u[j].kind = k /\ M[n + i] <= M[j] + z /\ j \in 1..Len(u)
        <5>1. M[j] = L[j] /\ u[j] = s[j] /\ j \in 1..Len(u)
          BY <1>7
        <5>2. L[j] \in Nat /\ tot[k] \in Nat /\ z \in Nat
          BY <3>1, <3>2, <3>6
        <5>3. M[n + i] <= L[j] + z
          BY <3>1, <4>2, <5>2
        <5> QED
          BY <3>1, <4>2, <5>1, <5>3
      <4> QED
        BY <3>2, <4>1, <4>2
    <3> QED
      BY SMTT(30), <3>1, <3>2, <3>3, <3>4, <3>5
  <2>3. \A j \in 1..Len(u) : Fine(j)
    <3> HIDE DEF Fine
    <3> QED
      BY <1>9, <2>1, <2>2
  <2> QED
    BY <2>3 DEF Summed
<1> QED
  BY <1>1, <1>2, <1>7, <1>8, <1>10, <1>11, <1>12 DEF s, m, u, tot, pas

\* A plan that adds up still does once another step has been reviewed.
LEMMA ReviewStepAddsUp ==
  ASSUME NEW t \in Tonight, NEW p \in Plan, NEW step \in Wish,
         \E L, P : AddsUp(L, P, p, t)
  PROVE  \E L, P : AddsUp(L, P, ReviewStep(p, step), t)
<1>1. CASE Refused(step, p.planning)
  BY <1>1 DEF ReviewStep
<1>2. CASE ~Refused(step, p.planning)
  <2> DEFINE r == Trimmed(step, p.planning)
             f == <<r>>
             k == step.kind
             n == Len(p.kept)
             q == ReviewStep(p, step)
  <2>1. /\ p.planning \in Tonight /\ p.kept \in Seq(Step)
        /\ t.totals \in [Kind -> Nat] /\ t.passes \in [SELECTING -> Nat]
        /\ p.planning.totals \in [Kind -> Nat] /\ p.planning.passes \in [SELECTING -> Nat]
    BY DEF Plan, Tonight
  <2>2. /\ r \in Step /\ r.kind = k /\ KINDS[k].choosable
        /\ p.planning.totals[k] + r.size <= Allowance(k)
        /\ k \in SELECTING => /\ p.planning.passes[k] < SELECTING_PASSES
                              /\ p.planning.passes[k] > 0 => r.fresh
    BY <1>2, <2>1, TrimmedIsAStep
  <2>3. q.kept = Append(p.kept, r) /\ q.planning = Add(p.planning, r)
    BY <1>2 DEF ReviewStep, Keep
  <2> HIDE DEF r, q
  <2>4. f \in Seq(Step) /\ Len(f) = 1 /\ f[1] = r
    BY <2>2
  <2> HIDE DEF f
  <2>5. q.kept = p.kept \o f
    BY <2>1, <2>2, <2>3, AppendIsConcat DEF f
  <2>6. Addable(f, p.planning)
    <3>1. \A j \in 1..Len(f) : j = 1 /\ f[j].kind = k
      BY <2>2, <2>4
    <3> HIDE DEF k
    <3> QED
      BY <2>2, <2>4, <3>1 DEF Addable, Choosable
  <2>7. PICK L, P : AddsUp(L, P, p, t)
    OBVIOUS
  <2> DEFINE M == Longer(L, n, f, p.planning)
             Q == LongerP(P, n, f, p.planning)
             u == p.kept \o f
  <2>8. /\ Passed(Q, u, t) /\ Summed(M, u, t) /\ Choosable(u)
        /\ \A j \in 1..n : M[j] = L[j] /\ Q[j] = P[j] /\ u[j] = p.kept[j]
        /\ \A j \in 1..Len(f) : /\ n + j \in 1..Len(u)
                                /\ u[n + j] = f[j]
                                /\ M[n + j] = p.planning.totals[f[j].kind] + f[j].size
                                /\ f[j].kind \in SELECTING =>
                                     Q[n + j] = p.planning.passes[f[j].kind] + 1
        /\ Len(u) = n + Len(f) /\ n \in Nat /\ u \in Seq(Step)
    <3> DEFINE MM == M
               QQ == Q
               nn == n
    <3>1. MM = M /\ QQ = Q /\ nn = Len(p.kept)
      OBVIOUS
    <3> HIDE DEF MM, QQ, nn
    <3> QED
      BY ZenonT(30), <2>4, <2>6, <2>7, Extends
  <2> HIDE DEF M, Q
  <2>9. /\ Len(u) = n + 1 /\ n \in Nat /\ n + 1 \in 1..Len(u) /\ u[n + 1] = r
        /\ M[n + 1] = p.planning.totals[k] + r.size
        /\ k \in SELECTING => Q[n + 1] = p.planning.passes[k] + 1
    BY <2>2, <2>4, <2>8
  <2>10. \A j \in 1..Len(u) : j \in 1..n \/ j = n + 1
    BY <2>9
  <2>11. /\ \A i \in Kind : q.planning.totals[i] =
               p.planning.totals[i] + (IF i = k THEN r.size ELSE 0)
         /\ \A i \in SELECTING : q.planning.passes[i] =
               p.planning.passes[i] + (IF i = k THEN 1 ELSE 0)
    BY <2>1, <2>2, <2>3, AddIs
  <2>12. /\ r.size \in Nat /\ k \in Kind
    BY <2>2 DEF Step
  <2>13. /\ Within(L, p.kept)
         /\ \A i \in Kind :
              /\ t.totals[i] <= p.planning.totals[i]
              /\ \A j \in 1..n : p.kept[j].kind = i => L[j] <= p.planning.totals[i]
              /\ \/ p.planning.totals[i] <= t.totals[i]
                 \/ \E j \in 1..n : p.kept[j].kind = i /\ p.planning.totals[i] <= L[j]
         /\ \A i \in SELECTING :
              /\ t.passes[i] <= p.planning.passes[i]
              /\ \A j \in 1..n : p.kept[j].kind = i => P[j] <= p.planning.passes[i]
    BY <2>7 DEF AddsUp
  <2>14. /\ \A j \in 1..n : L[j] \in Nat
         /\ \A j \in 1..n : p.kept[j].kind \in SELECTING => P[j] \in Nat
    BY <2>7 DEF AddsUp, Summed, Choosable, Passed
  <2>15. \A j \in 1..n : j \in 1..Len(u)
    BY <2>9
  <2> HIDE DEF u, n, k
  <2>16. Within(M, u)
    <3>1. \A j \in 1..n : KINDS[u[j].kind].choosable => M[j] <= Allowance(u[j].kind)
      BY <2>8, <2>13 DEF Within, n
    <3>2. M[n + 1] <= Allowance(u[n + 1].kind)
      BY <2>2, <2>9
    <3>3. \A j \in 1..Len(u) : KINDS[u[j].kind].choosable => M[j] <= Allowance(u[j].kind)
      BY <2>10, <3>1, <3>2
    <3> QED
      BY <3>3 DEF Within
  <2>17. \A i \in Kind :
           /\ t.totals[i] <= q.planning.totals[i]
           /\ \A j \in 1..Len(u) : u[j].kind = i => M[j] <= q.planning.totals[i]
           /\ \/ q.planning.totals[i] <= t.totals[i]
              \/ \E j \in 1..Len(u) : u[j].kind = i /\ q.planning.totals[i] <= M[j]
    <3> TAKE i \in Kind
    <3>1. p.planning.totals[i] \in Nat /\ t.totals[i] \in Nat
      BY <2>1
    <3>2. CASE i = k
      <4>1. q.planning.totals[i] = p.planning.totals[i] + r.size
        BY <2>11, <3>2
      <4>2. M[n + 1] = q.planning.totals[i] /\ u[n + 1].kind = i
        BY <2>2, <2>9, <3>2, <4>1
      <4>3. \A j \in 1..n : u[j].kind = i => M[j] <= q.planning.totals[i]
        BY SMTT(30), <2>8, <2>12, <2>13, <2>14, <3>1, <4>1
      <4>4. M[n + 1] <= q.planning.totals[i] /\ q.planning.totals[i] <= M[n + 1]
        BY <2>12, <3>1, <4>1, <4>2
      <4>5. t.totals[i] <= q.planning.totals[i]
        BY <2>12, <2>13, <3>1, <4>1
      <4> QED
        BY <2>9, <2>10, <4>2, <4>3, <4>4, <4>5
    <3>3. CASE i # k
      <4>1. q.planning.totals[i] = p.planning.totals[i]
        BY <2>11, <3>1, <3>3
      <4>2. u[n + 1].kind # i
        BY <2>2, <2>9, <3>3
      <4>3. t.totals[i] <= q.planning.totals[i]
        BY <2>13, <4>1
      <4>4. \A j \in 1..Len(u) : u[j].kind = i => M[j] <= q.planning.totals[i]
        BY <2>8, <2>10, <2>13, <4>1, <4>2
      <4>5. CASE p.planning.totals[i] <= t.totals[i]
        BY <4>1, <4>3, <4>4, <4>5
      <4>6. CASE \E j \in 1..n : p.kept[j].kind = i /\ p.planning.totals[i] <= L[j]
        <5>1. PICK j \in 1..n : p.kept[j].kind = i /\ p.planning.totals[i] <= L[j]
          BY <4>6
        <5>2. j \in 1..Len(u) /\ u[j].kind = i /\ q.planning.totals[i] <= M[j]
          BY <2>8, <2>15, <4>1, <5>1
        <5> QED
          BY <4>3, <4>4, <5>2
      <4> QED
        BY <2>13, <4>5, <4>6
    <3> QED
      BY <3>2, <3>3
  <2>18. \A i \in SELECTING :
           /\ t.passes[i] <= q.planning.passes[i]
           /\ \A j \in 1..Len(u) : u[j].kind = i => Q[j] <= q.planning.passes[i]
    <3> TAKE i \in SELECTING
    <3>1. p.planning.passes[i] \in Nat /\ t.passes[i] \in Nat
      BY <2>1
    <3>2. \A j \in 1..n : u[j].kind = i => Q[j] <= p.planning.passes[i] /\ Q[j] \in Nat
      BY <2>8, <2>13, <2>14
    <3>3. CASE i = k
      <4>1. /\ q.planning.passes[i] = p.planning.passes[i] + 1
            /\ Q[n + 1] = p.planning.passes[i] + 1
        BY <2>9, <2>11, <3>3
      <4> QED
        BY <2>10, <2>13, <3>1, <3>2, <4>1
    <3>4. CASE i # k
      <4>1. q.planning.passes[i] = p.planning.passes[i]
        BY <2>11, <3>1, <3>4
      <4>2. u[n + 1].kind # i
        BY <2>2, <2>9, <3>4
      <4> QED
        BY <2>10, <2>13, <3>2, <4>1, <4>2
    <3> QED
      BY <3>3, <3>4
  <2>19. AddsUp(M, Q, q, t)
    <3>1. q.kept = u
      BY <2>5 DEF u
    <3>2. Choosable(u) /\ Passed(Q, u, t) /\ Summed(M, u, t)
      BY <2>8
    <3> QED
      BY <2>16, <2>17, <2>18, <3>1, <3>2 DEF AddsUp
  <2> QED
    BY <2>19 DEF q
<1> QED
  BY <1>1, <1>2

\* The plan of what was asked adds up.
LEMMA AskedAddsUp ==
  ASSUME NEW t \in Tonight, NEW proposed \in Seq(Wish)
  PROVE  /\ Asked(proposed, t) \in Plan
         /\ \E L, P : AddsUp(L, P, Asked(proposed, t), t)
         /\ proposed = <<>> => Asked(proposed, t).kept = <<>>
<1> DEFINE n == Len(proposed)
<1>1. PICK f \in [0..n -> Plan] :
           /\ f[0] = [kept |-> <<>>, planning |-> t]
           /\ \A i \in 1..n : f[i] = ReviewStep(f[i - 1], proposed[i])
           /\ Asked(proposed, t) = f[n]
  BY AskedIs
<1>2. n \in Nat /\ \A i \in 1..n : proposed[i] \in Wish
  BY LenProperties, ElementOfSeq
<1> DEFINE T == {i \in 0..n : \E L, P : AddsUp(L, P, f[i], t)}
<1>3. 0 \in T
  <2>1. f[0].kept = <<>> /\ f[0].planning = t
    BY <1>1
  <2>2. \A k \in Kind : t.totals[k] \in Nat
    BY DEF Tonight
  <2>3. \A k \in SELECTING : t.passes[k] \in Nat
    BY DEF Tonight
  <2>4. Len(f[0].kept) = 0
    BY <2>1
  <2>5. AddsUp(<<>>, <<>>, f[0], t)
    <3>1. \A j \in 1..Len(f[0].kept) : FALSE
      BY <2>4
    <3>2. \A k \in Kind : t.totals[k] <= t.totals[k]
      BY <2>2
    <3>3. \A k \in SELECTING : t.passes[k] <= t.passes[k]
      BY <2>3
    <3> QED
      BY <2>1, <3>1, <3>2, <3>3 DEF AddsUp, Choosable, Passed, Summed, Within
  <2>6. 0 \in 0..n
    BY <1>2
  <2> QED
    BY <2>5, <2>6
<1>4. \A i \in 0..(n - 1) : i \in T => i + 1 \in T
  <2> TAKE i \in 0..(n - 1)
  <2> HAVE i \in T
  <2>1. i + 1 \in 1..n /\ i + 1 \in 0..n /\ (i + 1) - 1 = i /\ i \in 0..n
    BY <1>2
  <2>2. f[i + 1] = ReviewStep(f[i], proposed[i + 1]) /\ f[i] \in Plan
    BY <1>1, <2>1
  <2>3. \E L, P : AddsUp(L, P, f[i], t)
    OBVIOUS
  <2>4. \E L, P : AddsUp(L, P, f[i + 1], t)
    <3> HIDE DEF n
    <3> QED
      BY <1>2, <2>1, <2>2, <2>3, ReviewStepAddsUp
  <2> QED
    BY <2>1, <2>4
<1>5. n \in T
  <2> HIDE DEF T, n
  <2>1. \A i \in 0..n : i \in T
    BY <1>2, <1>3, <1>4, UpTo
  <2> QED
    BY <1>2, <2>1
<1>6. proposed = <<>> => f[n].kept = <<>>
  BY <1>1
<1>7. n \in 0..n
  BY <1>2
<1> QED
  BY <1>1, <1>5, <1>6, <1>7

------------------------------------------------------------------------------
(* Steps in the order of the menu.                                           *)

LEMMA MenuIs ==
  /\ Menu \in Seq(Kind) /\ Len(Menu) = 14 /\ DOMAIN Menu = 1..14
  /\ \A i, j \in 1..14 : i # j => Menu[i] # Menu[j]
  /\ \A k \in Kind : \E i \in 1..14 : Menu[i] = k
<1>1. /\ "news" \in Kind /\ "twins" \in Kind /\ "free" \in Kind /\ "duplicates" \in Kind
      /\ "audit" \in Kind /\ "risks" \in Kind /\ "logic" \in Kind /\ "suspects" \in Kind
      /\ "tranches" \in Kind /\ "pipeline" \in Kind /\ "enrich" \in Kind /\ "rows" \in Kind
      /\ "reread" \in Kind /\ "recheck" \in Kind
  BY SMTT(30) DEF Kind, KINDS
<1>2. Menu \in Seq(Kind) /\ Len(Menu) = 14 /\ DOMAIN Menu = 1..14
  BY <1>1 DEF Menu
<1>3. /\ Menu[1] = "news" /\ Menu[2] = "twins" /\ Menu[3] = "free" /\ Menu[4] = "duplicates"
      /\ Menu[5] = "audit" /\ Menu[6] = "risks" /\ Menu[7] = "logic" /\ Menu[8] = "suspects"
      /\ Menu[9] = "tranches" /\ Menu[10] = "pipeline" /\ Menu[11] = "enrich"
      /\ Menu[12] = "rows" /\ Menu[13] = "reread" /\ Menu[14] = "recheck"
  BY DEF Menu
<1>4. \A i, j \in 1..14 : i # j => Menu[i] # Menu[j]
  BY <1>3
<1>5. \A k \in Kind : \E i \in 1..14 : Menu[i] = k
  <2> TAKE k \in Kind
  <2>1. k \in {"news", "twins", "free", "duplicates", "audit", "risks", "logic", "suspects",
               "tranches", "pipeline", "enrich", "rows", "reread", "recheck"}
    BY DEF Kind, KINDS
  <2> QED
    BY <1>3, <2>1
<1> QED
  BY <1>2, <1>4, <1>5

\* No two steps of s are of one kind.
Distinct(s) == \A i, j \in 1..Len(s) : i # j => s[i].kind # s[j].kind

\* Some steps of a schedule that has one step of each kind.
LEMMA MenuPart ==
  ASSUME NEW g \in [1..14 -> Step], \A i \in 1..14 : g[i].kind = Menu[i],
         NEW I \in SUBSET (1..14)
  PROVE  /\ At(g, I) \in Seq(Step) /\ Distinct(At(g, I))
         /\ \A j \in 1..Len(At(g, I)) : \E i \in I : At(g, I)[j] = g[i]
         /\ \A i \in I : \E j \in 1..Len(At(g, I)) : At(g, I)[j] = g[i]
<1>1. g \in Seq(Step) /\ Len(g) = 14
  <2>2. g \in [1..14 -> Step]
    OBVIOUS
  <2>3. 14 \in Nat
    OBVIOUS
  <2>4. g \in Seq(Step)
    BY ZenonT(30), <2>2, <2>3, SeqDef
  <2>5. DOMAIN g = 1..14
    BY <2>2
  <2> QED
    BY <2>3, <2>4, <2>5, LenProperties
<1> DEFINE s == At(g, I)
<1>2. s \in Seq(Step) /\ \E pos : Picks(pos, s, g, I)
  BY <1>1, AtPicks
<1> HIDE DEF s
<1>3. PICK pos : Picks(pos, s, g, I)
  BY <1>2
<1>4. Len(s) \in Nat
  BY <1>2, LenProperties
<1>5. \A j \in 1..Len(s) : pos[j] \in I /\ pos[j] \in 1..14 /\ s[j] = g[pos[j]]
  BY <1>3 DEF Picks
<1>6. \A i, j \in 1..Len(s) : i # j => pos[i] # pos[j]
  <2> SUFFICES ASSUME NEW i \in 1..Len(s), NEW j \in 1..Len(s), i # j PROVE pos[i] # pos[j]
    OBVIOUS
  <2>1. i < j \/ j < i
    BY <1>4
  <2>2. pos[i] < pos[j] \/ pos[j] < pos[i]
    BY <1>3, <2>1 DEF Picks
  <2>3. pos[i] \in 1..14 /\ pos[j] \in 1..14
    BY <1>5
  <2>4. pos[i] \in Nat /\ pos[j] \in Nat
    <3>1. \A x \in 1..14 : x \in Nat
      OBVIOUS
    <3> QED
      BY <2>3, <3>1
  <2> QED
    BY <2>2, <2>4
<1>7. Distinct(s)
  <2> SUFFICES ASSUME NEW i \in 1..Len(s), NEW j \in 1..Len(s), i # j
               PROVE  s[i].kind # s[j].kind
    BY DEF Distinct
  <2>1. s[i].kind = Menu[pos[i]] /\ s[j].kind = Menu[pos[j]]
    BY <1>5
  <2>2. pos[i] \in 1..14 /\ pos[j] \in 1..14 /\ pos[i] # pos[j]
    BY <1>5, <1>6
  <2>3. Menu[pos[i]] # Menu[pos[j]]
    BY <2>2, MenuIs
  <2> QED
    BY <2>1, <2>3
<1>8. \A i \in I : \E j \in 1..Len(s) : s[j] = g[i]
  <2>1. /\ \A k \in 1..Len(s) : s[k] = g[pos[k]]
        /\ \A i \in I : \E k \in 1..Len(s) : pos[k] = i
    BY <1>3, Zenon DEF Picks
  <2> SUFFICES ASSUME NEW i \in I PROVE \E j \in 1..Len(s) : s[j] = g[i]
    OBVIOUS
  <2>2. PICK k \in 1..Len(s) : pos[k] = i
    BY <2>1, Zenon
  <2>3. s[k] = g[pos[k]]
    BY <2>1, Zenon
  <2> QED
    BY <2>2, <2>3
<1> QED
  BY <1>2, <1>5, <1>7, <1>8 DEF s

\* The floors make up what is short, a step each, and not by more than a step must be long.
LEMMA FloorsAre ==
  ASSUME NEW planned \in [Kind -> Nat]
  PROVE  /\ Floors[planned] \in Seq(Step) /\ Distinct(Floors[planned])
         /\ \A j \in 1..Len(Floors[planned]) : LET step == Floors[planned][j]  k == step.kind IN
              /\ step.origin = "floor" /\ step.size \in Nat
              /\ planned[k] < FloorOf(k) /\ FloorOf(k) <= planned[k] + step.size
              /\ \/ planned[k] + step.size <= FloorOf(k)
                 \/ step.size <= Most(KINDS[k].lo, 1)
         /\ \A k \in Kind : planned[k] < FloorOf(k) =>
              \E j \in 1..Len(Floors[planned]) : Floors[planned][j].kind = k
<1> DEFINE Short(k) == FloorOf(k) - planned[k]
           Size(k)  == Clamp(Short(k), Most(KINDS[k].lo, 1), KINDS[k].hi)
           g == [i \in DOMAIN Menu |-> AStep(Menu[i], Size(Menu[i]), FALSE, "floor")]
           I == {i \in DOMAIN Menu : Short(Menu[i]) > 0}
           F == Floors[planned]
<1>1. F = At(g, I)
  BY DEF Floors
<1>2. \A k \in Kind :
        /\ Size(k) \in Nat /\ planned[k] \in Nat /\ FloorOf(k) \in Nat
        /\ Short(k) > 0 <=> planned[k] < FloorOf(k)
        /\ FloorOf(k) <= planned[k] + Size(k)
        /\ planned[k] + Size(k) <= FloorOf(k) \/ Size(k) <= Most(KINDS[k].lo, 1)
  <2> TAKE k \in Kind
  <2>1. planned[k] \in Nat
    OBVIOUS
  <2>2. /\ KINDS[k].lo \in Nat /\ KINDS[k].hi \in Nat /\ FloorOf(k) \in Nat
        /\ FloorOf(k) <= KINDS[k].hi
    BY KindsAre
  <2> QED
    BY <2>1, <2>2 DEF Clamp, Most, Least
<1>3. \A i \in 1..14 : Menu[i] \in Kind
  BY MenuIs, ElementOfSeq
<1> HIDE DEF Size, Short
<1>4. \A i \in 1..14 : g[i] = [kind |-> Menu[i], size |-> Size(Menu[i]), fresh |-> FALSE,
                               origin |-> "floor"]
  BY MenuIs DEF AStep
<1>5. \A i \in 1..14 : /\ g[i] \in Step /\ g[i].kind = Menu[i] /\ g[i].size = Size(Menu[i])
                       /\ g[i].origin = "floor"
  <2> TAKE i \in 1..14
  <2>1. Menu[i] \in Kind /\ Size(Menu[i]) \in Nat
    BY <1>2, <1>3
  <2> DEFINE k == Menu[i]
             z == Size(k)
  <2>2. g[i] = [kind |-> k, size |-> z, fresh |-> FALSE, origin |-> "floor"]
    BY <1>4
  <2>3. k \in Kind /\ z \in Nat
    BY <2>1
  <2> HIDE DEF g, k, z
  <2>4. g[i] \in Step /\ g[i].kind = k /\ g[i].size = z /\ g[i].origin = "floor"
    BY <2>2, <2>3 DEF Step, Origin
  <2> QED
    BY <2>4 DEF k, z
<1>6. I \in SUBSET (1..14) /\ \A i \in 1..14 : i \in I <=> planned[Menu[i]] < FloorOf(Menu[i])
  BY <1>2, <1>3, MenuIs
<1>7. /\ At(g, I) \in Seq(Step) /\ Distinct(At(g, I))
      /\ \A j \in 1..Len(At(g, I)) : \E i \in I : At(g, I)[j] = g[i]
      /\ \A i \in I : \E j \in 1..Len(At(g, I)) : At(g, I)[j] = g[i]
  <2>1. g \in [1..14 -> Step]
    BY <1>5, MenuIs
  <2> HIDE DEF g, I
  <2> QED
    BY <1>5, <1>6, <2>1, MenuPart
<1> HIDE DEF g, I, F
<1>8. ASSUME NEW j \in 1..Len(F)
      PROVE  /\ F[j].origin = "floor" /\ F[j].size \in Nat
             /\ planned[F[j].kind] < FloorOf(F[j].kind)
             /\ FloorOf(F[j].kind) <= planned[F[j].kind] + F[j].size
             /\ \/ planned[F[j].kind] + F[j].size <= FloorOf(F[j].kind)
                \/ F[j].size <= Most(KINDS[F[j].kind].lo, 1)
  <2>1. PICK i \in I : F[j] = g[i]
    BY <1>1, <1>7
  <2>2. i \in 1..14 /\ Menu[i] \in Kind
    BY <1>3, <1>6
  <2>3. /\ F[j].kind = Menu[i] /\ F[j].size = Size(Menu[i]) /\ F[j].origin = "floor"
    BY <1>5, <2>1, <2>2
  <2> QED
    BY <1>2, <1>6, <2>1, <2>2, <2>3
<1>9. ASSUME NEW k \in Kind, planned[k] < FloorOf(k)
      PROVE  \E j \in 1..Len(F) : F[j].kind = k
  <2>1. PICK i \in 1..14 : Menu[i] = k
    BY MenuIs
  <2>2. i \in I
    BY <1>6, <1>9, <2>1
  <2>3. PICK j \in 1..Len(F) : F[j] = g[i]
    BY <1>1, <1>7, <2>2
  <2> QED
    BY <1>5, <2>1, <2>3
<1> QED
  BY <1>1, <1>7, <1>8, <1>9 DEF F

------------------------------------------------------------------------------
(* What a reviewed plan promises.                                            *)

\* Another order of a plan, the steps of each kind as they were, keeps its passes and sums.
LEMMA StableKeeps ==
  ASSUME NEW t \in Tonight, NEW s \in Seq(Step), NEW u \in Seq(Step), NEW m, Stable(m, u, s),
         NEW L, NEW P, Passed(P, s, t), Summed(L, s, t), Choosable(s),
         NEW M, NEW Q, \A a \in 1..Len(u) : M[a] = L[m[a]] /\ Q[a] = P[m[a]]
  PROVE  /\ Choosable(u) /\ Passed(Q, u, t) /\ Summed(M, u, t)
         /\ Within(L, s) => Within(M, u)
         /\ Enough(L, s, t) => Enough(M, u, t)
<1>1. \A a \in 1..Len(u) : m[a] \in 1..Len(s) /\ u[a] = s[m[a]]
  BY DEF Stable
<1>2. \A a, b \in 1..Len(u) : a < b /\ u[a].kind = u[b].kind => m[a] < m[b]
  BY DEF Stable
<1>3. Choosable(u)
  BY <1>1 DEF Choosable
<1>4. Passed(Q, u, t)
  <2> SUFFICES ASSUME NEW j \in 1..Len(u), u[j].kind \in SELECTING
               PROVE  /\ Q[j] \in Nat /\ t.passes[u[j].kind] < Q[j] /\ Q[j] <= SELECTING_PASSES
                      /\ Q[j] > 1 => u[j].fresh
                      /\ \A i \in 1..Len(u) : i < j /\ u[i].kind = u[j].kind => Q[i] < Q[j]
    BY DEF Passed
  <2>1. /\ Q[j] = P[m[j]] /\ u[j] = s[m[j]] /\ m[j] \in 1..Len(s)
    BY <1>1
  <2>2. /\ P[m[j]] \in Nat /\ t.passes[s[m[j]].kind] < P[m[j]] /\ P[m[j]] <= SELECTING_PASSES
        /\ P[m[j]] > 1 => s[m[j]].fresh
        /\ \A i \in 1..Len(s) : i < m[j] /\ s[i].kind = s[m[j]].kind => P[i] < P[m[j]]
    BY <2>1 DEF Passed
  <2>3. ASSUME NEW i \in 1..Len(u), i < j, u[i].kind = u[j].kind PROVE Q[i] < Q[j]
    <3>1. m[i] < m[j]
      BY <1>2, <2>3
    <3>2. m[i] \in 1..Len(s) /\ s[m[i]].kind = s[m[j]].kind /\ Q[i] = P[m[i]]
      BY <1>1, <2>1, <2>3
    <3> QED
      BY <2>1, <2>2, <3>1, <3>2
  <2> QED
    BY <2>1, <2>2, <2>3
<1>5. Summed(M, u, t)
  <2> SUFFICES ASSUME NEW j \in 1..Len(u)
               PROVE  /\ M[j] \in Nat /\ t.totals[u[j].kind] + u[j].size <= M[j]
                      /\ \A i \in 1..Len(u) :
                           i < j /\ u[i].kind = u[j].kind => M[i] + u[j].size <= M[j]
                      /\ \/ M[j] <= t.totals[u[j].kind] + u[j].size
                         \/ \E i \in 1..Len(u) : /\ i < j /\ u[i].kind = u[j].kind
                                                 /\ M[j] <= M[i] + u[j].size
    BY DEF Summed
  <2>1. /\ M[j] = L[m[j]] /\ u[j] = s[m[j]] /\ m[j] \in 1..Len(s)
    BY <1>1
  <2>2. /\ L[m[j]] \in Nat /\ t.totals[s[m[j]].kind] + s[m[j]].size <= L[m[j]]
        /\ \A i \in 1..Len(s) :
             i < m[j] /\ s[i].kind = s[m[j]].kind => L[i] + s[m[j]].size <= L[m[j]]
        /\ \/ L[m[j]] <= t.totals[s[m[j]].kind] + s[m[j]].size
           \/ \E i \in 1..Len(s) : /\ i < m[j] /\ s[i].kind = s[m[j]].kind
                                   /\ L[m[j]] <= L[i] + s[m[j]].size
    BY <2>1 DEF Summed, Choosable
  <2>3. ASSUME NEW i \in 1..Len(u), i < j, u[i].kind = u[j].kind
        PROVE  M[i] + u[j].size <= M[j]
    <3>1. m[i] < m[j]
      BY <1>2, <2>3
    <3>2. m[i] \in 1..Len(s) /\ s[m[i]].kind = s[m[j]].kind /\ M[i] = L[m[i]]
      BY <1>1, <2>1, <2>3
    <3> QED
      BY <2>1, <2>2, <3>1, <3>2
  <2>4. ASSUME NEW i \in 1..Len(s), i < m[j], s[i].kind = s[m[j]].kind,
               L[m[j]] <= L[i] + s[m[j]].size
        PROVE  \E a \in 1..Len(u) : /\ a < j /\ u[a].kind = u[j].kind
                                    /\ M[j] <= M[a] + u[j].size
    <3>1. PICK a \in 1..Len(u) : m[a] = i
      BY DEF Stable
    <3>2. u[a].kind = u[j].kind /\ M[a] = L[i]
      BY <1>1, <2>1, <2>4, <3>1
    <3>3. a \in Nat /\ j \in Nat /\ i \in Nat /\ m[j] \in Nat
      <4>1. Len(u) \in Nat /\ Len(s) \in Nat
        BY LenProperties
      <4> QED
        BY <2>1, <4>1
    <3>4. a # j
      BY <2>4, <3>1, <3>3
    <3>5. ~(j < a)
      BY <1>2, <2>4, <3>1, <3>2, <3>3
    <3> QED
      BY <2>1, <2>4, <3>2, <3>3, <3>4, <3>5
  <2> QED
    BY <2>1, <2>2, <2>3, <2>4
<1>6. Within(L, s) => Within(M, u)
  BY <1>1 DEF Within
<1>7. Enough(L, s, t) => Enough(M, u, t)
  <2> SUFFICES ASSUME Enough(L, s, t), NEW k \in Kind
               PROVE  \/ FloorOf(k) <= t.totals[k]
                      \/ \E j \in 1..Len(u) : u[j].kind = k /\ FloorOf(k) <= M[j]
    BY DEF Enough
  <2>1. CASE FloorOf(k) <= t.totals[k]
    BY <2>1
  <2>2. ASSUME NEW i \in 1..Len(s), s[i].kind = k, FloorOf(k) <= L[i]
        PROVE  \E j \in 1..Len(u) : u[j].kind = k /\ FloorOf(k) <= M[j]
    <3>1. PICK a \in 1..Len(u) : m[a] = i
      BY DEF Stable
    <3>2. u[a] = s[i] /\ M[a] = L[i]
      <4>1. u[a] = s[m[a]] /\ M[a] = L[m[a]]
        BY <1>1, Zenon
      <4> QED
        BY <3>1, <4>1, Zenon
    <3>3. u[a].kind = k /\ FloorOf(k) <= M[a]
      BY <2>2, <3>2, Zenon
    <3> QED
      BY <3>3, Zenon
  <2> QED
    BY <2>1, <2>2 DEF Enough
<1> QED
  BY <1>3, <1>4, <1>5, <1>6, <1>7

\* What a plan that has been reviewed promises of the night.
Promised(s, t, first) ==
  /\ s \in Seq(Step) /\ Choosable(s)
  /\ \E P : Passed(P, s, t)
  /\ \E L : /\ Summed(L, s, t)
            /\ Roomy => Within(L, s)
            /\ first => Enough(L, s, t)

\* The steps asked for, with the floors they leave short, promise it all.
LEMMA FloorsPromised ==
  ASSUME NEW t \in Tonight, NEW p \in Plan, NEW L, NEW P, AddsUp(L, P, p, t)
  PROVE  LET F == Floors[p.planning.totals] IN
         /\ p.kept \o F \in Seq(Step)
         /\ \A j \in 1..Len(F) : F[j].origin = "floor"
         /\ \E M, Q : /\ Choosable(p.kept \o F) /\ Passed(Q, p.kept \o F, t)
                      /\ Summed(M, p.kept \o F, t)
                      /\ Roomy => Within(M, p.kept \o F)
                      /\ Enough(M, p.kept \o F, t)
<1> DEFINE tot == p.planning.totals
           F == Floors[tot]
           n == Len(p.kept)
           M == Longer(L, n, F, p.planning)
           Q == LongerP(P, n, F, p.planning)
           u == p.kept \o F
<1>1. /\ tot \in [Kind -> Nat] /\ p.planning.passes \in [SELECTING -> Nat]
      /\ p.kept \in Seq(Step) /\ t.totals \in [Kind -> Nat]
  BY DEF Plan, Tonight
<1>2. /\ F \in Seq(Step) /\ Distinct(F)
      /\ \A j \in 1..Len(F) :
           /\ F[j].origin = "floor" /\ F[j].size \in Nat
           /\ tot[F[j].kind] < FloorOf(F[j].kind)
           /\ FloorOf(F[j].kind) <= tot[F[j].kind] + F[j].size
           /\ \/ tot[F[j].kind] + F[j].size <= FloorOf(F[j].kind)
              \/ F[j].size <= Most(KINDS[F[j].kind].lo, 1)
      /\ \A k \in Kind : tot[k] < FloorOf(k) => \E j \in 1..Len(F) : F[j].kind = k
  <2> HIDE DEF tot
  <2> QED
    BY <1>1, FloorsAre
<1> HIDE DEF F
<1>3. \A j \in 1..Len(F) : F[j].kind \in Kind
  <2>1. \A j \in 1..Len(F) : F[j] \in Step
    BY <1>2, ElementOfSeq
  <2> QED
    BY <2>1 DEF Step
<1>4. \A j \in 1..Len(F) : /\ KINDS[F[j].kind].choosable /\ F[j].kind \notin SELECTING
                           /\ FloorOf(F[j].kind) > 0
                           /\ FloorOf(F[j].kind) <= Allowance(F[j].kind)
  <2> TAKE j \in 1..Len(F)
  <2> DEFINE k == F[j].kind
  <2>1. k \in Kind /\ tot[k] \in Nat /\ tot[k] < FloorOf(k)
    BY <1>1, <1>2, <1>3
  <2> HIDE DEF k, tot
  <2>2. /\ KINDS[k].floor \in Nat /\ FloorOf(k) \in {0, KINDS[k].floor}
        /\ KINDS[k].floor > 0 => KINDS[k].choosable /\ k \notin SELECTING
        /\ KINDS[k].floor <= Allowance(k)
    BY <2>1, KindsAre
  <2>3. FloorOf(k) > 0 /\ FloorOf(k) = KINDS[k].floor
    BY <2>1, <2>2
  <2> QED
    BY <2>2, <2>3 DEF k
<1>5. Addable(F, p.planning)
  BY <1>2, <1>4 DEF Addable, Distinct, Choosable
<1>6. /\ Passed(Q, u, t) /\ Summed(M, u, t) /\ Choosable(u)
      /\ \A j \in 1..n : M[j] = L[j] /\ Q[j] = P[j] /\ u[j] = p.kept[j]
      /\ \A j \in 1..Len(F) : /\ n + j \in 1..Len(u)
                              /\ u[n + j] = F[j]
                              /\ M[n + j] = tot[F[j].kind] + F[j].size
      /\ Len(u) = n + Len(F) /\ n \in Nat /\ u \in Seq(Step)
  <2> DEFINE MM == M
             QQ == Q
             nn == n
  <2>1. MM = M /\ QQ = Q /\ nn = Len(p.kept)
    OBVIOUS
  <2> HIDE DEF MM, QQ, nn
  <2> QED
    BY SMTT(30), <1>2, <1>5, <2>1, Extends
<1> HIDE DEF M, Q
<1>7. Len(F) \in Nat
  BY <1>2, LenProperties
<1>8. \A j \in 1..Len(u) : j \in 1..n \/ \E i \in 1..Len(F) : j = n + i
  <2> TAKE j \in 1..Len(u)
  <2> HIDE DEF n, u
  <2>1. CASE j <= n
    BY <1>6, <2>1
  <2>2. CASE ~(j <= n)
    <3>1. j - n \in 1..Len(F) /\ j = n + (j - n)
      BY <1>6, <1>7, <2>2
    <3> QED
      BY <3>1
  <2> QED
    BY <2>1, <2>2
<1>9. \A j \in 1..n : j \in 1..Len(u)
  BY <1>6, <1>7
<1>10. ASSUME Roomy PROVE Within(M, u)
  <2>1. Within(L, p.kept)
    BY DEF AddsUp
  <2> HIDE DEF u
  <2>2. \A j \in 1..n : KINDS[u[j].kind].choosable => M[j] <= Allowance(u[j].kind)
    BY <1>6, <2>1 DEF Within
  <2>3. \A i \in 1..Len(F) : M[n + i] <= Allowance(u[n + i].kind)
    <3> TAKE i \in 1..Len(F)
    <3> DEFINE k == F[i].kind
               z == F[i].size
    <3>1. /\ k \in Kind /\ z \in Nat /\ tot[k] \in Nat /\ tot[k] < FloorOf(k)
          /\ M[n + i] = tot[k] + z /\ u[n + i].kind = k
          /\ tot[k] + z <= FloorOf(k) \/ z <= Most(KINDS[k].lo, 1)
          /\ FloorOf(k) > 0 /\ FloorOf(k) <= Allowance(k)
      BY <1>1, <1>2, <1>3, <1>4, <1>6
    <3> HIDE DEF k, z, tot
    <3>2. FloorOf(k) + Most(KINDS[k].lo, 1) - 1 <= Allowance(k)
      BY <1>10, <3>1 DEF Roomy
    <3>3. FloorOf(k) \in Nat /\ Allowance(k) \in Nat /\ KINDS[k].lo \in Nat
      BY <3>1, KindsAre
    <3>4. Most(KINDS[k].lo, 1) \in Nat
      BY <3>3 DEF Most
    <3> DEFINE w == Most(KINDS[k].lo, 1)
    <3>5. tot[k] + z <= FloorOf(k) \/ z <= w
      BY <3>1
    <3>6. FloorOf(k) + w - 1 <= Allowance(k) /\ w \in Nat
      BY <3>2, <3>4
    <3> HIDE DEF w
    <3> QED
      BY <3>1, <3>3, <3>5, <3>6
  <2>4. \A j \in 1..Len(u) : KINDS[u[j].kind].choosable => M[j] <= Allowance(u[j].kind)
    BY <1>8, <2>2, <2>3
  <2> QED
    BY <2>4 DEF Within
<1>11. Enough(M, u, t)
  <2> SUFFICES ASSUME NEW k \in Kind
               PROVE  \/ FloorOf(k) <= t.totals[k]
                      \/ \E j \in 1..Len(u) : u[j].kind = k /\ FloorOf(k) <= M[j]
    BY DEF Enough
  <2>1. FloorOf(k) \in Nat /\ tot[k] \in Nat /\ t.totals[k] \in Nat
    BY <1>1, KindsAre
  <2>2. CASE tot[k] < FloorOf(k)
    <3>1. PICK j \in 1..Len(F) : F[j].kind = k
      BY <1>2, <2>2
    <3>2. /\ u[n + j].kind = k /\ n + j \in 1..Len(u)
          /\ FloorOf(k) <= M[n + j]
      BY <1>2, <1>6, <3>1
    <3> QED
      BY <3>2
  <2>3. CASE FloorOf(k) <= tot[k]
    <3>1. \/ tot[k] <= t.totals[k]
          \/ \E j \in 1..n : p.kept[j].kind = k /\ tot[k] <= L[j]
      BY DEF AddsUp
    <3>2. CASE tot[k] <= t.totals[k]
      <4> HIDE DEF tot
      <4> QED
        BY <2>1, <2>3, <3>2
    <3>3. ASSUME NEW j \in 1..n, p.kept[j].kind = k, tot[k] <= L[j]
          PROVE  \E i \in 1..Len(u) : u[i].kind = k /\ FloorOf(k) <= M[i]
      <4>1. M[j] = L[j] /\ u[j].kind = k /\ j \in 1..Len(u)
        BY <1>6, <1>9, <3>3
      <4>2. L[j] \in Nat
        BY <3>3 DEF AddsUp, Summed, Choosable
      <4>3. FloorOf(k) <= M[j]
        <5> HIDE DEF tot, n, u
        <5> QED
          BY <2>1, <2>3, <3>3, <4>1, <4>2
      <4> QED
        BY <4>1, <4>3
    <3> QED
      BY <3>1, <3>2, <3>3
  <2> QED
    BY <2>1, <2>2, <2>3
<1> QED
  BY <1>2, <1>6, <1>10, <1>11 DEF F

\* Review: the plan it returns promises all this, is in a legal order, and without anything
\* asked for is made of floors.
LEMMA ReviewIs ==
  ASSUME NEW t \in Tonight, NEW proposed \in Seq(Wish), NEW first \in BOOLEAN
  PROVE  /\ Promised(Review(proposed, t, first), t, first)
         /\ Ordered(Review(proposed, t, first))
         /\ proposed = <<>> => \A j \in 1..Len(Review(proposed, t, first)) :
                                 Review(proposed, t, first)[j].origin = "floor"
<1> DEFINE p == Asked(proposed, t)
           F == Floors[p.planning.totals]
           s == IF first THEN p.kept \o F ELSE p.kept
           u == Order(s)
<1>1. Review(proposed, t, first) = u
  BY DEF Review
<1>2. p \in Plan /\ (\E L, P : AddsUp(L, P, p, t)) /\ (proposed = <<>> => p.kept = <<>>)
  BY AskedAddsUp
<1> HIDE DEF p
<1>3. PICK L, P : AddsUp(L, P, p, t)
  BY <1>2
<1>4. /\ p.kept \o F \in Seq(Step) /\ \A j \in 1..Len(F) : F[j].origin = "floor"
      /\ \E M, Q : /\ Choosable(p.kept \o F) /\ Passed(Q, p.kept \o F, t)
                   /\ Summed(M, p.kept \o F, t)
                   /\ Roomy => Within(M, p.kept \o F)
                   /\ Enough(M, p.kept \o F, t)
  BY <1>2, <1>3, FloorsPromised
<1>5. p.kept \in Seq(Step) /\ F \in Seq(Step)
  <2>1. p.kept \in Seq(Step) /\ p.planning.totals \in [Kind -> Nat]
    BY <1>2 DEF Plan, Tonight
  <2> QED
    BY <2>1, FloorsAre
<1> HIDE DEF F
<1>6. /\ s \in Seq(Step) /\ Choosable(s)
      /\ \E M, Q : /\ Passed(Q, s, t) /\ Summed(M, s, t)
                   /\ Roomy => Within(M, s)
                   /\ first => Enough(M, s, t)
  <2>1. CASE first
    <3>1. s = p.kept \o F
      BY <2>1
    <3> HIDE DEF s
    <3> QED
      BY <1>4, <3>1
  <2>2. CASE ~first
    <3>1. s = p.kept
      BY <2>2
    <3>2. Choosable(p.kept) /\ Passed(P, p.kept, t) /\ Summed(L, p.kept, t) /\ Within(L, p.kept)
      BY <1>3 DEF AddsUp
    <3> HIDE DEF s
    <3> QED
      BY <1>5, <2>2, <3>1, <3>2
  <2> QED
    BY <2>1, <2>2
<1>7. proposed = <<>> => \A j \in 1..Len(s) : s[j].origin = "floor"
  <2> SUFFICES ASSUME proposed = <<>> PROVE \A j \in 1..Len(s) : s[j].origin = "floor"
    OBVIOUS
  <2>1. p.kept = <<>>
    BY <1>2
  <2>2. p.kept \o F = F
    BY <1>5, <2>1, ConcatEmptySeq
  <2>3. s = F \/ s = <<>>
    BY <2>1, <2>2
  <2>4. Len(<<>>) = 0
    OBVIOUS
  <2>5. \A j \in 1..0 : FALSE
    OBVIOUS
  <2> HIDE DEF s
  <2> QED
    BY <1>4, <2>3, <2>4, <2>5
<1> HIDE DEF s
<1>8. u \in Seq(Step) /\ Ordered(u) /\ \E m : Stable(m, u, s)
  BY <1>6, OrderIs
<1> HIDE DEF u
<1>9. PICK m, M, Q : /\ Stable(m, u, s) /\ Passed(Q, s, t) /\ Summed(M, s, t)
                     /\ Roomy => Within(M, s)
                     /\ first => Enough(M, s, t)
  BY <1>6, <1>8
<1>10. /\ Choosable(u) /\ \E P2 : Passed(P2, u, t)
       /\ \E L2 : Summed(L2, u, t) /\ (Within(M, s) => Within(L2, u))
                                  /\ (Enough(M, s, t) => Enough(L2, u, t))
  <2> DEFINE L2 == [a \in 1..Len(u) |-> M[m[a]]]
             P2 == [a \in 1..Len(u) |-> Q[m[a]]]
  <2>1. \A a \in 1..Len(u) : L2[a] = M[m[a]] /\ P2[a] = Q[m[a]]
    OBVIOUS
  <2> HIDE DEF L2, P2
  <2>3. s \in Seq(Step) /\ Choosable(s) /\ u \in Seq(Step)
    BY <1>6, <1>8
  <2>4. Stable(m, u, s) /\ Passed(Q, s, t) /\ Summed(M, s, t)
    BY <1>9
  <2>2. /\ Choosable(u) /\ Passed(P2, u, t) /\ Summed(L2, u, t)
        /\ Within(M, s) => Within(L2, u)
        /\ Enough(M, s, t) => Enough(L2, u, t)
    BY <2>1, <2>3, <2>4, StableKeeps
  <2> QED
    BY <2>2
<1>11. Promised(u, t, first)
  BY <1>8, <1>9, <1>10 DEF Promised
<1>12. proposed = <<>> => \A j \in 1..Len(u) : u[j].origin = "floor"
  BY <1>7, <1>9 DEF Stable
<1> QED
  BY <1>1, <1>8, <1>11, <1>12

------------------------------------------------------------------------------
(* A plan as it runs, as it is cut down, and behind the frame of a round.    *)

\* Summed without the bound from above: what is left when steps have been dropped.
Bounded(L, s, t) ==
  \A j \in 1..Len(s) : KINDS[s[j].kind].choosable =>
    /\ L[j] \in Nat /\ t.totals[s[j].kind] + s[j].size <= L[j]
    /\ \A i \in 1..Len(s) : i < j /\ s[i].kind = s[j].kind => L[i] + s[j].size <= L[j]

LEMMA SummedIsBounded ==
  ASSUME NEW L, NEW s, NEW t, Summed(L, s, t)
  PROVE  Bounded(L, s, t)
BY DEF Summed, Bounded

LEMMA TailIs ==
  ASSUME NEW s \in Seq(Step), s # <<>>
  PROVE  /\ Head(s) = s[1] /\ s[1] \in Step /\ 1 \in 1..Len(s)
         /\ Tail(s) \in Seq(Step) /\ Len(s) \in Nat /\ Len(s) > 0 /\ Len(Tail(s)) = Len(s) - 1
         /\ \A j \in 1..Len(Tail(s)) : /\ j + 1 \in 1..Len(s) /\ Tail(s)[j] = s[j + 1]
                                       /\ Tail(s)[j] \in Step
         /\ \A j \in 1..Len(s) : j = 1 \/ (j - 1 \in 1..Len(Tail(s)) /\ s[j] = Tail(s)[j - 1])
<1> DEFINE n == Len(s)
           u == Tail(s)
<1>1. n \in Nat /\ n # 0
  BY LenProperties, EmptySeq
<1>2. u \in Seq(Step) /\ Len(u) = n - 1 /\ \A j \in 1..(n - 1) : u[j] = s[j + 1]
  BY <1>1, HeadTailProperties
<1>3. Head(s) = s[1] /\ \A j \in 1..n : s[j] \in Step
  BY HeadTailProperties, ElementOfSeq
<1> HIDE DEF u, n
<1>4. 1 \in 1..n /\ n > 0
  BY <1>1
<1>5. \A j \in 1..(n - 1) : j + 1 \in 1..n
  BY <1>1
<1>6. \A j \in 1..n : j = 1 \/ (j - 1 \in 1..(n - 1) /\ (j - 1) + 1 = j)
  BY <1>1
<1>7. \A j \in 1..n : j = 1 \/ (j - 1 \in 1..Len(u) /\ s[j] = u[j - 1])
  BY <1>2, <1>6
<1> QED
  BY <1>1, <1>2, <1>3, <1>4, <1>5, <1>7 DEF u, n

\* The first step of a plan runs, and the rest of the plan promises what the plan did.
LEMMA RunKeepsPasses ==
  ASSUME NEW t \in Tonight, NEW s \in Seq(Step), s # <<>>, NEW P, Passed(P, s, t)
  PROVE  /\ \E Q : Passed(Q, Tail(s), Add(t, Head(s)))
         /\ \A k \in SELECTING : t.passes[k] <= SELECTING_PASSES =>
              Add(t, Head(s)).passes[k] <= SELECTING_PASSES
         /\ \A k \in SELECTING :
              t.passes[k] > 0 /\ Add(t, Head(s)).passes[k] > t.passes[k] => Head(s).fresh
<1> DEFINE h == Head(s)
           r == Tail(s)
           u == Add(t, h)
           Q == [j \in 1..Len(r) |-> P[j + 1]]
<1>1. /\ h = s[1] /\ s[1] \in Step /\ 1 \in 1..Len(s) /\ r \in Seq(Step) /\ Len(s) \in Nat
      /\ \A j \in 1..Len(r) : j + 1 \in 1..Len(s) /\ r[j] = s[j + 1]
  BY TailIs
<1> HIDE DEF h, r
<1>2. \A k \in SELECTING : /\ u.passes[k] = t.passes[k] + (IF k = h.kind THEN 1 ELSE 0)
                           /\ t.passes[k] \in Nat
  BY SMTT(30), <1>1, AddIs DEF Tonight
<1> HIDE DEF u
<1>3. \A j \in 1..Len(r) : Q[j] = P[j + 1]
  OBVIOUS
<1> HIDE DEF Q
<1>4. Len(r) \in Nat
  BY <1>1, LenProperties
<1>5. h.kind \in SELECTING =>
        /\ P[1] \in Nat /\ t.passes[h.kind] < P[1] /\ P[1] <= SELECTING_PASSES
        /\ P[1] > 1 => h.fresh
  BY <1>1 DEF Passed
<1>6. ASSUME NEW j \in 1..Len(r), r[j].kind \in SELECTING
      PROVE  /\ Q[j] \in Nat /\ u.passes[r[j].kind] < Q[j] /\ Q[j] <= SELECTING_PASSES
             /\ Q[j] > 1 => r[j].fresh
             /\ \A i \in 1..Len(r) : i < j /\ r[i].kind = r[j].kind => Q[i] < Q[j]
  <2>1. /\ j + 1 \in 1..Len(s) /\ r[j] = s[j + 1] /\ Q[j] = P[j + 1] /\ j \in Nat /\ 1 < j + 1
    BY <1>1, <1>3, <1>4
  <2>2. /\ P[j + 1] \in Nat /\ t.passes[r[j].kind] < P[j + 1] /\ P[j + 1] <= SELECTING_PASSES
        /\ P[j + 1] > 1 => r[j].fresh
        /\ \A i \in 1..Len(s) : i < j + 1 /\ s[i].kind = r[j].kind => P[i] < P[j + 1]
    BY <1>6, <2>1 DEF Passed
  <2>3. u.passes[r[j].kind] < P[j + 1]
    <3>1. CASE r[j].kind = h.kind
      <4>1. P[1] < P[j + 1]
        BY <1>1, <2>1, <2>2, <3>1
      <4> QED
        BY <1>2, <1>5, <1>6, <2>2, <3>1, <4>1
    <3>2. CASE r[j].kind # h.kind
      BY <1>2, <1>6, <2>2, <3>2
    <3> QED
      BY <3>1, <3>2
  <2>4. ASSUME NEW i \in 1..Len(r), i < j, r[i].kind = r[j].kind PROVE Q[i] < Q[j]
    <3>1. i + 1 \in 1..Len(s) /\ s[i + 1].kind = r[j].kind /\ i + 1 < j + 1 /\ Q[i] = P[i + 1]
      BY <1>1, <1>3, <1>4, <2>4
    <3> QED
      BY <2>1, <2>2, <3>1
  <2> QED
    BY <2>1, <2>2, <2>3, <2>4
<1>7. Passed(Q, r, u)
  BY <1>6 DEF Passed
<1>8. \A k \in SELECTING : t.passes[k] <= SELECTING_PASSES => u.passes[k] <= SELECTING_PASSES
  BY <1>2, <1>5 DEF SELECTING_PASSES
<1>9. \A k \in SELECTING : t.passes[k] > 0 /\ u.passes[k] > t.passes[k] => h.fresh
  BY <1>2, <1>5
<1> QED
  BY <1>7, <1>8, <1>9 DEF h, r, u

LEMMA RunKeepsSums ==
  ASSUME NEW t \in Tonight, NEW s \in Seq(Step), s # <<>>, NEW L, Bounded(L, s, t)
  PROVE  \E M : /\ Bounded(M, Tail(s), Add(t, Head(s)))
                /\ Within(L, s) =>
                     /\ Within(M, Tail(s))
                     /\ \A k \in Kind :
                          KINDS[k].choosable /\ t.totals[k] <= Allowance(k) =>
                            Add(t, Head(s)).totals[k] <= Allowance(k)
                /\ Summed(L, s, t) => Summed(M, Tail(s), Add(t, Head(s)))
                /\ Summed(L, s, t) /\ Enough(L, s, t) =>
                     Enough(M, Tail(s), Add(t, Head(s)))
<1> DEFINE h == Head(s)
           r == Tail(s)
           u == Add(t, h)
           M == [j \in 1..Len(r) |-> L[j + 1]]
<1>1. /\ h = s[1] /\ s[1] \in Step /\ 1 \in 1..Len(s) /\ r \in Seq(Step) /\ Len(s) \in Nat
      /\ \A j \in 1..Len(r) : j + 1 \in 1..Len(s) /\ r[j] = s[j + 1] /\ r[j] \in Step
      /\ \A j \in 1..Len(s) : j = 1 \/ (j - 1 \in 1..Len(r) /\ s[j] = r[j - 1])
  BY TailIs
<1> HIDE DEF h, r
<1>2. /\ \A k \in Kind : /\ u.totals[k] = t.totals[k] + (IF k = h.kind THEN h.size ELSE 0)
                         /\ t.totals[k] \in Nat
      /\ h.kind \in Kind /\ h.size \in Nat
      /\ \A j \in 1..Len(r) : r[j].kind \in Kind /\ r[j].size \in Nat
  <2>1. t.totals \in [Kind -> Nat]
    BY DEF Tonight
  <2>2. h \in Step /\ \A k \in Kind : u.totals[k] = t.totals[k] + (IF k = h.kind THEN h.size ELSE 0)
    BY <1>1, AddIs
  <2>3. \A x \in Step : x.kind \in Kind /\ x.size \in Nat
    BY DEF Step
  <2>4. \A j \in 1..Len(r) : r[j] \in Step
    BY <1>1
  <2> HIDE DEF u
  <2> QED
    BY <2>1, <2>2, <2>3, <2>4
<1> HIDE DEF u
<1>3. \A j \in 1..Len(r) : M[j] = L[j + 1]
  OBVIOUS
<1> HIDE DEF M
<1>4. Len(r) \in Nat
  BY <1>1, LenProperties
<1>5. KINDS[h.kind].choosable => L[1] \in Nat /\ t.totals[h.kind] + h.size <= L[1]
  BY <1>1 DEF Bounded
<1>6. ASSUME NEW j \in 1..Len(r), KINDS[r[j].kind].choosable
      PROVE  /\ M[j] \in Nat /\ u.totals[r[j].kind] + r[j].size <= M[j]
             /\ \A i \in 1..Len(r) : i < j /\ r[i].kind = r[j].kind => M[i] + r[j].size <= M[j]
  <2>1. /\ j + 1 \in 1..Len(s) /\ r[j] = s[j + 1] /\ M[j] = L[j + 1] /\ j \in Nat /\ 1 < j + 1
    BY <1>1, <1>3, <1>4
  <2>2. /\ L[j + 1] \in Nat /\ t.totals[r[j].kind] + r[j].size <= L[j + 1]
        /\ \A i \in 1..Len(s) : i < j + 1 /\ s[i].kind = r[j].kind => L[i] + r[j].size <= L[j + 1]
    BY <1>6, <2>1 DEF Bounded
  <2>3. u.totals[r[j].kind] + r[j].size <= L[j + 1]
    <3>1. CASE r[j].kind = h.kind
      <4>1. L[1] + r[j].size <= L[j + 1]
        BY <1>1, <2>1, <2>2, <3>1
      <4> QED
        <5>1. /\ u.totals[h.kind] = t.totals[h.kind] + h.size
              /\ t.totals[h.kind] \in Nat /\ h.size \in Nat /\ r[j].size \in Nat
          BY <1>2
        <5>2. L[1] \in Nat /\ t.totals[h.kind] + h.size <= L[1]
          BY <1>5, <1>6, <3>1
        <5>3. u.totals[h.kind] + r[j].size <= L[j + 1]
          BY SMTT(30), <2>2, <4>1, <5>1, <5>2
        <5> QED
          BY <3>1, <5>3
    <3>2. CASE r[j].kind # h.kind
      BY <1>2, <1>6, <2>2, <3>2
    <3> QED
      BY <3>1, <3>2
  <2>4. ASSUME NEW i \in 1..Len(r), i < j, r[i].kind = r[j].kind
        PROVE  M[i] + r[j].size <= M[j]
    <3>1. i + 1 \in 1..Len(s) /\ s[i + 1].kind = r[j].kind /\ M[i] = L[i + 1]
      BY <1>1, <1>3, <2>4
    <3>2. i + 1 < j + 1
      BY <1>4, <2>4
    <3> QED
      BY <2>1, <2>2, <3>1, <3>2
  <2> QED
    BY <2>1, <2>2, <2>3, <2>4
<1>7. Bounded(M, r, u)
  BY <1>6 DEF Bounded
<1>8. ASSUME Within(L, s)
      PROVE  /\ Within(M, r)
             /\ \A k \in Kind : KINDS[k].choosable /\ t.totals[k] <= Allowance(k) =>
                  u.totals[k] <= Allowance(k)
  <2>1. Within(M, r)
    BY <1>1, <1>3, <1>8 DEF Within
  <2>2. KINDS[h.kind].choosable => L[1] <= Allowance(h.kind)
    BY <1>1, <1>8 DEF Within
  <2>3. \A k \in Kind : Allowance(k) \in Nat
    BY KindsAre
  <2>4. \A k \in Kind : KINDS[k].choosable /\ t.totals[k] <= Allowance(k) =>
                  u.totals[k] <= Allowance(k)
    BY <1>2, <1>5, <2>2, <2>3
  <2> QED
    BY <2>1, <2>4
<1>9. ASSUME Summed(L, s, t), NEW j \in 1..Len(r), KINDS[r[j].kind].choosable
      PROVE  \/ M[j] <= u.totals[r[j].kind] + r[j].size
             \/ \E i \in 1..Len(r) : /\ i < j /\ r[i].kind = r[j].kind
                                     /\ M[j] <= M[i] + r[j].size
  <2>1. /\ j + 1 \in 1..Len(s) /\ r[j] = s[j + 1] /\ M[j] = L[j + 1] /\ j \in Nat /\ M[j] \in Nat
    BY <1>1, <1>3, <1>4, <1>6, <1>9
  <2>2. \/ L[j + 1] <= t.totals[r[j].kind] + r[j].size
        \/ \E i \in 1..Len(s) : /\ i < j + 1 /\ s[i].kind = r[j].kind
                                /\ L[j + 1] <= L[i] + r[j].size
    BY <1>9, <2>1 DEF Summed
  <2>3. CASE L[j + 1] <= t.totals[r[j].kind] + r[j].size
    <3>1. /\ t.totals[r[j].kind] <= u.totals[r[j].kind] /\ r[j].size \in Nat
          /\ t.totals[r[j].kind] \in Nat /\ u.totals[r[j].kind] \in Nat
      <4> DEFINE k == r[j].kind
      <4>1. k \in Kind /\ r[j].size \in Nat
        BY <1>2
      <4> HIDE DEF k
      <4>2. t.totals[k] <= u.totals[k] /\ t.totals[k] \in Nat /\ u.totals[k] \in Nat
        BY <1>2, <4>1
      <4> QED
        BY <4>1, <4>2 DEF k
    <3>2. M[j] <= u.totals[r[j].kind] + r[j].size
      BY <2>1, <2>3, <3>1
    <3> QED
      BY <3>2
  <2>4. ASSUME NEW i \in 1..Len(s), i < j + 1, s[i].kind = r[j].kind,
               L[j + 1] <= L[i] + r[j].size
        PROVE  \/ M[j] <= u.totals[r[j].kind] + r[j].size
               \/ \E l \in 1..Len(r) : /\ l < j /\ r[l].kind = r[j].kind
                                       /\ M[j] <= M[l] + r[j].size
    <3>1. CASE i = 1
      <4>1. h.kind = r[j].kind /\ KINDS[h.kind].choosable
        BY <1>1, <1>9, <2>4, <3>1
      <4>2. L[1] <= t.totals[h.kind] + h.size
        <5>1. \/ L[1] <= t.totals[h.kind] + h.size
              \/ \E l \in 1..Len(s) : l < 1
          BY <1>1, <1>9, <4>1 DEF Summed
        <5> QED
          BY <1>1, <5>1
      <4> QED
        <5>1. /\ u.totals[h.kind] = t.totals[h.kind] + h.size
              /\ t.totals[h.kind] \in Nat /\ h.size \in Nat /\ r[j].size \in Nat
          BY <1>2
        <5>2. L[1] \in Nat
          BY <1>5, <4>1
        <5>3. M[j] <= u.totals[h.kind] + r[j].size
          BY SMTT(30), <2>1, <2>4, <3>1, <4>2, <5>1, <5>2
        <5> QED
          BY <4>1, <5>3
    <3>2. CASE i # 1
      <4>1. i - 1 \in 1..Len(r) /\ s[i] = r[i - 1]
        BY <1>1, <3>2
      <4>2. M[i - 1] = L[i] /\ i - 1 < j
        <5>1. (i - 1) + 1 = i /\ i - 1 < j
          BY <1>1, <2>1, <2>4
        <5> QED
          BY <1>3, <4>1, <5>1
      <4> QED
        BY <2>1, <2>4, <4>1, <4>2
    <3> QED
      BY <3>1, <3>2
  <2> QED
    BY <2>2, <2>3, <2>4
<1>10. Summed(L, s, t) => Summed(M, r, u)
  BY <1>6, <1>9 DEF Summed
<1>11. ASSUME Summed(L, s, t), Enough(L, s, t), NEW k \in Kind
       PROVE  \/ FloorOf(k) <= u.totals[k]
              \/ \E j \in 1..Len(r) : r[j].kind = k /\ FloorOf(k) <= M[j]
  <2>1. FloorOf(k) \in Nat /\ t.totals[k] \in Nat
    BY <1>2, KindsAre
  <2>2. CASE FloorOf(k) <= t.totals[k]
    BY <1>2, <2>1, <2>2
  <2>3. ASSUME NEW i \in 1..Len(s), s[i].kind = k, FloorOf(k) <= L[i]
        PROVE  \/ FloorOf(k) <= u.totals[k]
               \/ \E j \in 1..Len(r) : r[j].kind = k /\ FloorOf(k) <= M[j]
    <3>1. CASE FloorOf(k) = 0
      BY <1>2, <2>1, <3>1
    <3>2. CASE FloorOf(k) # 0 /\ i = 1
      <4>1. h.kind = k /\ KINDS[k].choosable
        BY <1>1, <2>1, <2>3, <3>2, KindsAre
      <4>2. \/ L[1] <= t.totals[h.kind] + h.size
            \/ \E l \in 1..Len(s) : l < 1
        BY <1>1, <1>11, <4>1 DEF Summed
      <4>3. L[1] <= t.totals[h.kind] + h.size
        BY <1>1, <4>2
      <4> QED
        BY <1>2, <1>5, <2>1, <2>3, <3>2, <4>1, <4>3
    <3>3. CASE i # 1
      <4>1. i - 1 \in 1..Len(r) /\ s[i] = r[i - 1]
        BY <1>1, <3>3
      <4>2. M[i - 1] = L[i]
        <5>1. (i - 1) + 1 = i
          BY <1>1
        <5> QED
          BY <1>3, <4>1, <5>1
      <4> QED
        BY <2>3, <4>1, <4>2
    <3> QED
      BY <3>1, <3>2, <3>3
  <2> QED
    BY <1>11, <2>2, <2>3 DEF Enough
<1>12. Summed(L, s, t) /\ Enough(L, s, t) => Enough(M, r, u)
  BY <1>11 DEF Enough
<1> QED
  BY <1>7, <1>8, <1>10, <1>12 DEF h, r, u

\* The news and the twins are still to run in round 1 only, once, and only if they have not.
FrameLeft(s, ran, number) ==
  \A j \in 1..Len(s) : s[j].kind \in {"news", "twins"} =>
    /\ number = 1 /\ ran[s[j].kind][1] = 0
    /\ \A i \in 1..Len(s) : i # j => s[i].kind # s[j].kind

\* Steps a stop does not drop.
Undropped(s) == \A j \in 1..Len(s) : s[j].origin = "floor" \/ ~KINDS[s[j].kind].choosable

\* Part of a plan keeps what the plan does.
LEMMA PartKeeps ==
  ASSUME NEW s \in Seq(Step), NEW u \in Seq(Step), NEW I \in SUBSET (1..Len(s)),
         NEW pos, Picks(pos, u, s, I)
  PROVE  /\ Ordered(s) => Ordered(u)
         /\ \A ran, number : FrameLeft(s, ran, number) => FrameLeft(u, ran, number)
         /\ \A P, t : Passed(P, s, t) => \E Q : Passed(Q, u, t)
         /\ \A L, t : Bounded(L, s, t) =>
              \E M : Bounded(M, u, t) /\ (Within(L, s) => Within(M, u))
<1>1. /\ \A k \in 1..Len(u) : pos[k] \in 1..Len(s) /\ u[k] = s[pos[k]]
      /\ \A k, l \in 1..Len(u) : k < l => pos[k] < pos[l]
  BY DEF Picks
<1>2. Len(s) \in Nat /\ Len(u) \in Nat
  BY LenProperties
<1>3. \A first, later : Ahead(s, first, later) => Ahead(u, first, later)
  <2> SUFFICES ASSUME NEW first, NEW later, Ahead(s, first, later),
                      NEW a \in 1..Len(u), NEW b \in 1..Len(u), a < b, u[b].kind = first
               PROVE  u[a].kind \notin later
    BY DEF Ahead
  <2>1. pos[a] \in 1..Len(s) /\ pos[b] \in 1..Len(s) /\ u[a] = s[pos[a]] /\ u[b] = s[pos[b]]
    BY <1>1
  <2>2. pos[a] < pos[b]
    BY <1>1
  <2> QED
    BY <2>1, <2>2 DEF Ahead
<1>4. \A k, l \in 1..Len(u) : k # l => pos[k] # pos[l]
  <2> SUFFICES ASSUME NEW k \in 1..Len(u), NEW l \in 1..Len(u), k # l PROVE pos[k] # pos[l]
    OBVIOUS
  <2>1. k < l \/ l < k
    BY <1>2
  <2>2. pos[k] < pos[l] \/ pos[l] < pos[k]
    BY <1>1, <2>1
  <2>3. pos[k] \in Nat /\ pos[l] \in Nat
    BY <1>1, <1>2
  <2> QED
    BY <2>2, <2>3
<1>5. \A ran, number : FrameLeft(s, ran, number) => FrameLeft(u, ran, number)
  <2> SUFFICES ASSUME NEW ran, NEW number, FrameLeft(s, ran, number),
                      NEW j \in 1..Len(u), u[j].kind \in {"news", "twins"}
               PROVE  /\ number = 1 /\ ran[u[j].kind][1] = 0
                      /\ \A i \in 1..Len(u) : i # j => u[i].kind # u[j].kind
    BY DEF FrameLeft
  <2>1. pos[j] \in 1..Len(s) /\ u[j] = s[pos[j]]
    BY <1>1
  <2>2. /\ number = 1 /\ ran[u[j].kind][1] = 0
        /\ \A i \in 1..Len(s) : i # pos[j] => s[i].kind # u[j].kind
    BY <2>1 DEF FrameLeft
  <2>3. ASSUME NEW i \in 1..Len(u), i # j PROVE u[i].kind # u[j].kind
    <3>1. pos[i] \in 1..Len(s) /\ u[i] = s[pos[i]] /\ pos[i] # pos[j]
      BY <1>1, <1>4, <2>3
    <3> QED
      BY <2>2, <3>1
  <2> QED
    BY <2>2, <2>3
<1>6. \A P, t : Passed(P, s, t) => \E Q : Passed(Q, u, t)
  <2> SUFFICES ASSUME NEW P, NEW t, Passed(P, s, t) PROVE \E Q : Passed(Q, u, t)
    OBVIOUS
  <2> DEFINE Q == [k \in 1..Len(u) |-> P[pos[k]]]
  <2>1. \A k \in 1..Len(u) : Q[k] = P[pos[k]]
    OBVIOUS
  <2> HIDE DEF Q
  <2>2. ASSUME NEW j \in 1..Len(u), u[j].kind \in SELECTING
        PROVE  /\ Q[j] \in Nat /\ t.passes[u[j].kind] < Q[j] /\ Q[j] <= SELECTING_PASSES
               /\ Q[j] > 1 => u[j].fresh
               /\ \A i \in 1..Len(u) : i < j /\ u[i].kind = u[j].kind => Q[i] < Q[j]
    <3>1. pos[j] \in 1..Len(s) /\ u[j] = s[pos[j]] /\ Q[j] = P[pos[j]]
      BY <1>1, <2>1
    <3>2. /\ Q[j] \in Nat /\ t.passes[u[j].kind] < Q[j] /\ Q[j] <= SELECTING_PASSES
          /\ Q[j] > 1 => u[j].fresh
          /\ \A i \in 1..Len(s) : i < pos[j] /\ s[i].kind = u[j].kind => P[i] < Q[j]
      BY <2>2, <3>1 DEF Passed
    <3>3. ASSUME NEW i \in 1..Len(u), i < j, u[i].kind = u[j].kind PROVE Q[i] < Q[j]
      <4>1. pos[i] \in 1..Len(s) /\ s[pos[i]].kind = u[j].kind /\ Q[i] = P[pos[i]]
        BY <1>1, <2>1, <3>3
      <4>2. pos[i] < pos[j]
        BY <1>1, <3>3
      <4> QED
        BY <3>2, <4>1, <4>2
    <3> QED
      BY <3>2, <3>3
  <2>3. Passed(Q, u, t)
    BY <2>2 DEF Passed
  <2> QED
    BY <2>3
<1>7. \A L, t : Bounded(L, s, t) => \E M : Bounded(M, u, t) /\ (Within(L, s) => Within(M, u))
  <2> SUFFICES ASSUME NEW L, NEW t, Bounded(L, s, t)
               PROVE  \E M : Bounded(M, u, t) /\ (Within(L, s) => Within(M, u))
    OBVIOUS
  <2> DEFINE M == [k \in 1..Len(u) |-> L[pos[k]]]
  <2>1. \A k \in 1..Len(u) : M[k] = L[pos[k]]
    OBVIOUS
  <2> HIDE DEF M
  <2>2. ASSUME NEW j \in 1..Len(u), KINDS[u[j].kind].choosable
        PROVE  /\ M[j] \in Nat /\ t.totals[u[j].kind] + u[j].size <= M[j]
               /\ \A i \in 1..Len(u) :
                    i < j /\ u[i].kind = u[j].kind => M[i] + u[j].size <= M[j]
    <3>1. pos[j] \in 1..Len(s) /\ u[j] = s[pos[j]] /\ M[j] = L[pos[j]]
      BY <1>1, <2>1
    <3>2. /\ M[j] \in Nat /\ t.totals[u[j].kind] + u[j].size <= M[j]
          /\ \A i \in 1..Len(s) :
               i < pos[j] /\ s[i].kind = u[j].kind => L[i] + u[j].size <= M[j]
      BY <2>2, <3>1 DEF Bounded
    <3>3. ASSUME NEW i \in 1..Len(u), i < j, u[i].kind = u[j].kind
          PROVE  M[i] + u[j].size <= M[j]
      <4>1. pos[i] \in 1..Len(s) /\ s[pos[i]].kind = u[j].kind /\ M[i] = L[pos[i]]
        BY <1>1, <2>1, <3>3
      <4>2. pos[i] < pos[j]
        BY <1>1, <3>3
      <4> QED
        BY <3>2, <4>1, <4>2
    <3> QED
      BY <3>2, <3>3
  <2>3. Bounded(M, u, t)
    BY <2>2 DEF Bounded
  <2>4. Within(L, s) => Within(M, u)
    BY <1>1, <2>1 DEF Within
  <2> QED
    BY <2>3, <2>4
<1> QED
  BY <1>3, <1>5, <1>6, <1>7 DEF Ordered

\* Steps of the frame of a round.
Framed(f) == \A j \in 1..Len(f) : f[j].kind \in {"news", "twins", "free"}

LEMMA FrameKinds ==
  \A k \in {"news", "twins", "free"} :
    /\ k \in Kind /\ ~KINDS[k].choosable /\ k \notin SELECTING /\ FloorOf(k) = 0
    /\ k \notin AFTER_DUPLICATES /\ k \notin AFTER_LOGIC
    /\ k \notin {"duplicates", "logic", "suspects"}
<1> SUFFICES ASSUME NEW k \in {"news", "twins", "free"}
             PROVE  /\ k \in Kind /\ ~KINDS[k].choosable /\ k \notin SELECTING /\ FloorOf(k) = 0
                    /\ k \notin AFTER_DUPLICATES /\ k \notin AFTER_LOGIC
                    /\ k \notin {"duplicates", "logic", "suspects"}
  OBVIOUS
<1>1. k \in Kind /\ KINDS[k].floor = 0 /\ ~KINDS[k].choosable
  BY DEF Kind, KINDS, K
<1>2. FloorOf(k) = 0
  BY <1>1 DEF FloorOf
<1> QED
  BY <1>1, <1>2 DEF SELECTING, AFTER_DUPLICATES, AFTER_LOGIC

\* The frame in front of a plan changes nothing of what the plan promises.
LEMMA FramedKeeps ==
  ASSUME NEW f \in Seq(Step), Framed(f), NEW s \in Seq(Step), Choosable(s), NEW t, NEW first,
         Promised(s, t, first)
  PROVE  /\ f \o s \in Seq(Step)
         /\ Ordered(s) => Ordered(f \o s)
         /\ \A ran, number : FrameLeft(f, ran, number) => FrameLeft(f \o s, ran, number)
         /\ Undropped(s) => Undropped(f \o s)
         /\ \E P : Passed(P, f \o s, t)
         /\ \E L : /\ Summed(L, f \o s, t)
                   /\ Roomy => Within(L, f \o s)
                   /\ first => Enough(L, f \o s, t)
<1> DEFINE n == Len(f)
           u == f \o s
<1>1. /\ u \in Seq(Step) /\ n \in Nat /\ Len(s) \in Nat /\ Len(u) = n + Len(s)
      /\ \A j \in 1..(n + Len(s)) : u[j] = IF j <= n THEN f[j] ELSE s[j - n]
  BY ConcatProperties, LenProperties
<1> HIDE DEF u, n
<1>2. \A j \in 1..Len(u) : /\ j \in Nat
                           /\ \/ j <= n /\ j \in 1..n /\ u[j] = f[j]
                              \/ n < j /\ j - n \in 1..Len(s) /\ u[j] = s[j - n] /\ n + (j - n) = j
  <2> TAKE j \in 1..Len(u)
  <2>1. j \in 1..(n + Len(s)) /\ j \in Nat
    BY <1>1
  <2>2. CASE j <= n
    <3>1. u[j] = f[j] /\ j \in 1..n
      BY <1>1, <2>1, <2>2
    <3> QED
      BY <2>1, <2>2, <3>1
  <2>3. CASE ~(j <= n)
    <3>1. u[j] = s[j - n]
      BY <1>1, <2>1, <2>3
    <3>2. n < j /\ j - n \in 1..Len(s) /\ n + (j - n) = j
      BY <1>1, <2>1, <2>3
    <3> QED
      BY <2>1, <3>1, <3>2
  <2> QED
    BY <2>2, <2>3
<1>3. \A j \in 1..Len(s) : n + j \in 1..Len(u) /\ u[n + j] = s[j] /\ (n + j) - n = j
  <2> TAKE j \in 1..Len(s)
  <2>1. n + j \in 1..(n + Len(s)) /\ ~(n + j <= n) /\ (n + j) - n = j
    BY <1>1
  <2> QED
    BY <1>1, <2>1
<1>4. \A j \in 1..n : /\ ~KINDS[f[j].kind].choosable /\ f[j].kind \notin SELECTING
                      /\ f[j].kind \notin AFTER_DUPLICATES /\ f[j].kind \notin AFTER_LOGIC
                      /\ f[j].kind \notin {"duplicates", "logic", "suspects"}
  BY FrameKinds DEF Framed, n
<1>5. \A j \in 1..Len(s) : KINDS[s[j].kind].choosable /\ s[j].kind \notin {"news", "twins"}
  BY FrameKinds DEF Choosable
<1>6. \A first1, later : Ahead(s, first1, later) /\ (\A j \in 1..n : f[j].kind \notin later)
        => Ahead(u, first1, later)
  <2> SUFFICES ASSUME NEW first1, NEW later, Ahead(s, first1, later),
                      \A j \in 1..n : f[j].kind \notin later,
                      NEW a \in 1..Len(u), NEW b \in 1..Len(u), a < b, u[b].kind = first1
               PROVE  u[a].kind \notin later
    BY DEF Ahead
  <2>1. CASE a <= n
    BY SMTT(30), <1>1, <1>2, <2>1
  <2>2. CASE ~(a <= n)
    <3>1. /\ a - n \in 1..Len(s) /\ u[a] = s[a - n]
          /\ b - n \in 1..Len(s) /\ u[b] = s[b - n]
      BY <1>1, <1>2, <2>2
    <3>2. a - n < b - n
      BY <1>1, <1>2
    <3> QED
      BY <3>1, <3>2 DEF Ahead
  <2> QED
    BY <2>1, <2>2
<1>7. Ordered(s) => Ordered(u)
  BY <1>4, <1>6 DEF Ordered
<1>8. ASSUME NEW ran, NEW number, FrameLeft(f, ran, number),
             NEW j \in 1..Len(u), u[j].kind \in {"news", "twins"}
      PROVE  /\ number = 1 /\ ran[u[j].kind][1] = 0
             /\ \A i \in 1..Len(u) : i # j => u[i].kind # u[j].kind
  <2>1. j \in 1..n /\ u[j] = f[j]
    BY <1>2, <1>5, <1>8
  <2>2. /\ number = 1 /\ ran[u[j].kind][1] = 0
        /\ \A i \in 1..n : i # j => f[i].kind # u[j].kind
    BY <1>8, <2>1 DEF FrameLeft, n
  <2>3. ASSUME NEW i \in 1..Len(u), i # j PROVE u[i].kind # u[j].kind
    BY <1>2, <1>5, <1>8, <2>2, <2>3
  <2> QED
    BY <2>2, <2>3
<1>9. Undropped(s) => Undropped(u)
  BY <1>2, <1>4 DEF Undropped
<1>10. \E P : Passed(P, u, t)
  <2>1. PICK P : Passed(P, s, t)
    BY DEF Promised
  <2> DEFINE Q == [j \in 1..Len(u) |-> P[j - n]]
  <2>2. \A j \in 1..Len(u) : Q[j] = P[j - n]
    OBVIOUS
  <2> HIDE DEF Q
  <2>3. ASSUME NEW j \in 1..Len(u), u[j].kind \in SELECTING
        PROVE  /\ Q[j] \in Nat /\ t.passes[u[j].kind] < Q[j] /\ Q[j] <= SELECTING_PASSES
               /\ Q[j] > 1 => u[j].fresh
               /\ \A i \in 1..Len(u) : i < j /\ u[i].kind = u[j].kind => Q[i] < Q[j]
    <3>1. j - n \in 1..Len(s) /\ u[j] = s[j - n] /\ Q[j] = P[j - n]
      BY <1>2, <1>4, <2>2, <2>3
    <3>2. /\ Q[j] \in Nat /\ t.passes[u[j].kind] < Q[j] /\ Q[j] <= SELECTING_PASSES
          /\ Q[j] > 1 => u[j].fresh
          /\ \A i \in 1..Len(s) : i < j - n /\ s[i].kind = u[j].kind => P[i] < Q[j]
      BY <2>1, <2>3, <3>1 DEF Passed
    <3>3. ASSUME NEW i \in 1..Len(u), i < j, u[i].kind = u[j].kind PROVE Q[i] < Q[j]
      <4>1. i - n \in 1..Len(s) /\ u[i] = s[i - n] /\ Q[i] = P[i - n]
        BY <1>2, <1>4, <2>2, <2>3, <3>3
      <4>2. i - n < j - n
        BY <1>1, <1>2, <3>3
      <4> QED
        BY <3>2, <3>3, <4>1, <4>2
    <3> QED
      BY <3>2, <3>3
  <2>4. Passed(Q, u, t)
    BY <2>3 DEF Passed
  <2> QED
    BY <2>4
<1>11. \E L : /\ Summed(L, u, t)
              /\ Roomy => Within(L, u)
              /\ first => Enough(L, u, t)
  <2>1. PICK L : Summed(L, s, t) /\ (Roomy => Within(L, s)) /\ (first => Enough(L, s, t))
    BY DEF Promised
  <2> DEFINE M == [j \in 1..Len(u) |-> L[j - n]]
  <2>2. \A j \in 1..Len(u) : M[j] = L[j - n]
    OBVIOUS
  <2> HIDE DEF M
  <2>3. ASSUME NEW j \in 1..Len(u), KINDS[u[j].kind].choosable
        PROVE  /\ M[j] \in Nat /\ t.totals[u[j].kind] + u[j].size <= M[j]
               /\ \A i \in 1..Len(u) :
                    i < j /\ u[i].kind = u[j].kind => M[i] + u[j].size <= M[j]
               /\ \/ M[j] <= t.totals[u[j].kind] + u[j].size
                  \/ \E i \in 1..Len(u) : /\ i < j /\ u[i].kind = u[j].kind
                                          /\ M[j] <= M[i] + u[j].size
    <3>1. j - n \in 1..Len(s) /\ u[j] = s[j - n] /\ M[j] = L[j - n]
      BY <1>2, <1>4, <2>2, <2>3
    <3>2. /\ M[j] \in Nat /\ t.totals[u[j].kind] + u[j].size <= M[j]
          /\ \A i \in 1..Len(s) : i < j - n /\ s[i].kind = u[j].kind => L[i] + u[j].size <= M[j]
          /\ \/ M[j] <= t.totals[u[j].kind] + u[j].size
             \/ \E i \in 1..Len(s) : /\ i < j - n /\ s[i].kind = u[j].kind
                                     /\ M[j] <= L[i] + u[j].size
      BY <2>1, <2>3, <3>1 DEF Summed
    <3>3. ASSUME NEW i \in 1..Len(u), i < j, u[i].kind = u[j].kind
          PROVE  M[i] + u[j].size <= M[j]
      <4>1. i - n \in 1..Len(s) /\ u[i] = s[i - n] /\ M[i] = L[i - n]
        BY <1>2, <1>4, <2>2, <2>3, <3>3
      <4>2. i - n < j - n
        BY <1>1, <1>2, <3>3
      <4> QED
        BY <3>2, <3>3, <4>1, <4>2
    <3>4. ASSUME NEW i \in 1..Len(s), i < j - n, s[i].kind = u[j].kind,
                 M[j] <= L[i] + u[j].size
          PROVE  \E l \in 1..Len(u) : /\ l < j /\ u[l].kind = u[j].kind
                                      /\ M[j] <= M[l] + u[j].size
      <4>1. n + i \in 1..Len(u) /\ u[n + i] = s[i] /\ M[n + i] = L[i]
        BY <1>3, <2>2
      <4>2. n + i < j
        BY <1>1, <1>2, <3>4
      <4> QED
        BY <3>4, <4>1, <4>2
    <3> QED
      BY <3>2, <3>3, <3>4
  <2>4. Summed(M, u, t)
    BY <2>3 DEF Summed
  <2>5. Within(L, s) => Within(M, u)
    <3> SUFFICES ASSUME Within(L, s), NEW j \in 1..Len(u), KINDS[u[j].kind].choosable
                 PROVE  M[j] <= Allowance(u[j].kind)
      BY DEF Within
    <3>1. j - n \in 1..Len(s) /\ u[j] = s[j - n] /\ M[j] = L[j - n]
      BY <1>2, <1>4, <2>2
    <3> QED
      BY <3>1 DEF Within
  <2>6. Enough(L, s, t) => Enough(M, u, t)
    <3> SUFFICES ASSUME Enough(L, s, t), NEW k \in Kind
                 PROVE  \/ FloorOf(k) <= t.totals[k]
                        \/ \E j \in 1..Len(u) : u[j].kind = k /\ FloorOf(k) <= M[j]
      BY DEF Enough
    <3>1. CASE FloorOf(k) <= t.totals[k]
      BY <3>1
    <3>2. ASSUME NEW i \in 1..Len(s), s[i].kind = k, FloorOf(k) <= L[i]
          PROVE  \E j \in 1..Len(u) : u[j].kind = k /\ FloorOf(k) <= M[j]
      <4>1. n + i \in 1..Len(u) /\ u[n + i] = s[i] /\ M[n + i] = L[i]
        BY <1>3, <2>2
      <4> QED
        BY <3>2, <4>1
    <3> QED
      BY <3>1, <3>2 DEF Enough
  <2> QED
    BY <2>1, <2>4, <2>5, <2>6
<1>12. \A ran, number : FrameLeft(f, ran, number) => FrameLeft(u, ran, number)
  BY <1>8 DEF FrameLeft
<1> QED
  BY <1>1, <1>7, <1>9, <1>10, <1>11, <1>12 DEF u

------------------------------------------------------------------------------
(* The frame, the fixed schedule, and what is left of it for a night that    *)
(* lost its director.                                                        *)

LEMMA FrameIs ==
  ASSUME NEW number, NEW ask \in Step, ask.kind = "news"
  PROVE  /\ Frame(number, ask) \in Seq(Step) /\ Framed(Frame(number, ask))
         /\ \A ran : (number = 1 => ran["news"][1] = 0 /\ ran["twins"][1] = 0) =>
              FrameLeft(Frame(number, ask), ran, number)
<1> DEFINE two == AStep("twins", 60, FALSE, "frame")
           fre == AStep("free", 0, FALSE, "frame")
           f == Frame(number, ask)
<1>1. /\ two \in Step /\ two.kind = "twins" /\ fre \in Step /\ fre.kind = "free"
  BY FrameKinds DEF AStep, Step, Origin
<1>2. f = (IF Options.discover > 0 /\ number = 1 THEN <<ask, two>> ELSE <<>>) \o <<fre>>
  BY DEF Frame
<1> HIDE DEF two, fre, f
<1>3. CASE Options.discover > 0 /\ number = 1
  <2>1. f = <<ask, two>> \o <<fre>>
    BY <1>2, <1>3
  <2> DEFINE a == <<ask, two>>
             b == <<fre>>
  <2>a. /\ a \in Seq(Step) /\ Len(a) = 2 /\ a[1] = ask /\ a[2] = two
        /\ b \in Seq(Step) /\ Len(b) = 1 /\ b[1] = fre
    BY <1>1
  <2> HIDE DEF a, b
  <2>b. /\ a \o b \in Seq(Step) /\ Len(a \o b) = 3
        /\ \A j \in 1..3 : (a \o b)[j] = IF j <= 2 THEN a[j] ELSE b[j - 2]
    <3>1. /\ a \o b \in Seq(Step) /\ Len(a \o b) = Len(a) + Len(b)
          /\ \A j \in 1..(Len(a) + Len(b)) :
               (a \o b)[j] = IF j <= Len(a) THEN a[j] ELSE b[j - Len(a)]
      BY <2>a, ConcatProperties
    <3>2. Len(a) + Len(b) = 3
      BY <2>a
    <3> QED
      BY <2>a, <3>1, <3>2
  <2>2. /\ f \in Seq(Step) /\ Len(f) = 3 /\ f[1] = ask /\ f[2] = two /\ f[3] = fre
    BY <2>1, <2>a, <2>b DEF a, b
  <2>3. \A j \in 1..3 : j = 1 \/ j = 2 \/ j = 3
    OBVIOUS
  <2>4. Framed(f)
    BY <1>1, <2>2, <2>3 DEF Framed
  <2>5. ASSUME NEW ran, ran["news"][1] = 0, ran["twins"][1] = 0,
               NEW j \in 1..3, f[j].kind \in {"news", "twins"}
        PROVE  number = 1 /\ ran[f[j].kind][1] = 0 /\ \A i \in 1..3 : i # j => f[i].kind # f[j].kind
    BY <1>1, <1>3, <2>2, <2>3, <2>5
  <2>6. \A ran : ran["news"][1] = 0 /\ ran["twins"][1] = 0 => FrameLeft(f, ran, number)
    BY <2>2, <2>5 DEF FrameLeft
  <2> QED
    BY <1>3, <2>2, <2>4, <2>6 DEF f
<1>4. CASE ~(Options.discover > 0 /\ number = 1)
  <2>1. f = <<fre>>
    <3>1. f = <<>> \o <<fre>>
      BY <1>2, <1>4
    <3>2. <<fre>> \in Seq(Step)
      BY <1>1
    <3> QED
      BY <3>1, <3>2, ConcatEmptySeq
  <2>2. f \in Seq(Step) /\ Len(f) = 1 /\ f[1] = fre
    BY <1>1, <2>1
  <2>3. \A j \in 1..1 : j = 1
    OBVIOUS
  <2> QED
    BY <1>1, <2>2, <2>3 DEF Framed, FrameLeft, f
<1> QED
  BY <1>3, <1>4

LEMMA FixedStepIs ==
  ASSUME NEW k \in Kind, NEW number \in Nat
  PROVE  FixedStep(k, number) \in Step /\ FixedStep(k, number).kind = k
<1> DEFINE z == FixedSize(k)
           fr == k \in SELECTING /\ number > 1
<1>1. /\ Options["discover"] \in Nat /\ Options["pairs"] \in Nat /\ Options["findings"] \in Nat
      /\ Options["nest"] \in Nat /\ Options["audit"] \in Nat /\ Options["risks"] \in Nat
      /\ Options["suspects"] \in Nat /\ Options["pipeline"] \in Nat /\ Options["enrich"] \in Nat
      /\ Options["reread"] \in Nat /\ Options["recheck"] \in Nat
  BY RefereeAssumption
<1>2. KINDS["twins"].hi \in Nat
  BY FrameKinds, KindsAre
<1>3. k \in {"news", "twins", "free", "duplicates", "audit", "risks", "logic", "suspects",
             "tranches", "pipeline", "enrich", "rows", "reread", "recheck"}
  BY DEF Kind, KINDS
<1>4. z \in Nat
  BY <1>1, <1>2, <1>3 DEF FixedSize
<1>5. FixedStep(k, number) = [kind |-> k, size |-> z, fresh |-> fr, origin |-> "fixed"]
  BY DEF FixedStep, AStep
<1>6. fr \in BOOLEAN
  OBVIOUS
<1> HIDE DEF z, fr
<1> QED
  BY <1>4, <1>5, <1>6 DEF Step, Origin

LEMMA FixedPartIs ==
  ASSUME NEW number \in Nat, NEW kinds
  PROVE  LET s == FixedPart(number, kinds) IN
         /\ s \in Seq(Step) /\ Distinct(s)
         /\ \A j \in 1..Len(s) :
              s[j].kind \in kinds /\ (s[j].kind \in {"news", "twins"} => number = 1)
<1> DEFINE g == [i \in DOMAIN Menu |-> FixedStep(Menu[i], number)]
           I == {i \in DOMAIN Menu : Menu[i] \in kinds /\ Scheduled(Menu[i], number)}
           s == FixedPart(number, kinds)
<1>1. s = At(g, I)
  BY DEF FixedPart
<1>2. \A i \in 1..14 : Menu[i] \in Kind
  BY MenuIs, ElementOfSeq
<1>3. g \in [1..14 -> Step] /\ \A i \in 1..14 : g[i].kind = Menu[i]
  <2>1. \A i \in 1..14 :
          /\ FixedStep(Menu[i], number) \in Step
          /\ FixedStep(Menu[i], number).kind = Menu[i]
    BY <1>2, FixedStepIs
  <2>2. DOMAIN Menu = 1..14
    BY MenuIs
  <2> QED
    BY <2>1, <2>2
<1>4. I \in SUBSET (1..14) /\ \A i \in I : Menu[i] \in kinds /\ Scheduled(Menu[i], number)
  BY MenuIs
<1> HIDE DEF g, I, s
<1>5. /\ s \in Seq(Step) /\ Distinct(s)
      /\ \A j \in 1..Len(s) : \E i \in I : s[j] = g[i]
  BY <1>1, <1>3, <1>4, MenuPart
<1>6. \A k \in {"news", "twins"} : Scheduled(k, number) => number = 1
  BY DEF Scheduled, SELECTING
<1>7. \A j \in 1..Len(s) : s[j].kind \in kinds /\ (s[j].kind \in {"news", "twins"} => number = 1)
  <2> TAKE j \in 1..Len(s)
  <2>1. PICK i \in I : s[j] = g[i]
    BY <1>5
  <2>2. s[j].kind = Menu[i] /\ Menu[i] \in kinds /\ Scheduled(Menu[i], number)
    BY <1>3, <1>4, <2>1
  <2> QED
    BY <1>6, <2>2
<1> QED
  BY <1>5, <1>7 DEF s

\* Whatever is left to it, a night without its director repeats no pass and nothing that ran.
LEMMA FallbackIs ==
  ASSUME NEW number \in Nat, NEW ran, tonight \in Tonight
  PROVE  LET u == Fallback(number, ran) IN
         /\ u \in Seq(Step) /\ Distinct(u) /\ \E P : Passed(P, u, tonight)
         /\ \A j \in 1..Len(u) :
              u[j].kind \notin ran /\ (u[j].kind \in {"news", "twins"} => number = 1)
<1> DEFINE kinds == {kind \in Kind \ ran : FixedAllowed(kind)}
           s == FixedPart(number, kinds)
           u == Fallback(number, ran)
<1>1. u = [i \in DOMAIN s |-> AsFallback(s[i])]
  BY DEF Fallback
<1>2. /\ s \in Seq(Step) /\ Distinct(s)
      /\ \A j \in 1..Len(s) :
           s[j].kind \in kinds /\ (s[j].kind \in {"news", "twins"} => number = 1)
  <2> HIDE DEF kinds
  <2> QED
    BY FixedPartIs
<1>3. \A j \in 1..Len(s) : s[j] \in Step /\ s[j].kind \in Kind \ ran /\ FixedAllowed(s[j].kind)
  BY <1>2, ElementOfSeq
<1>4. tonight.passes \in [SELECTING -> Nat]
  BY DEF Tonight
<1> HIDE DEF s, u, kinds
<1>5. Len(s) \in Nat /\ DOMAIN s = 1..Len(s)
  BY <1>2, LenProperties
<1>6. \A j \in 1..Len(s) : /\ AsFallback(s[j]) \in Step /\ AsFallback(s[j]).kind = s[j].kind
                           /\ s[j].kind \in SELECTING /\ tonight.passes[s[j].kind] > 0 =>
                                AsFallback(s[j]).fresh
  <2> TAKE j \in 1..Len(s)
  <2> DEFINE k == s[j].kind
             z == s[j].size
             fr == s[j].fresh \/ (k \in SELECTING /\ tonight.passes[k] > 0)
  <2>1. k \in Kind /\ z \in Nat
    BY <1>3 DEF Step
  <2>2. AsFallback(s[j]) = [kind |-> k, size |-> z, fresh |-> fr, origin |-> "fallback"]
    BY DEF AsFallback, AStep
  <2>3. fr \in BOOLEAN /\ (k \in SELECTING /\ tonight.passes[k] > 0 => fr)
    OBVIOUS
  <2> HIDE DEF fr, k, z
  <2>4. /\ AsFallback(s[j]) \in Step /\ AsFallback(s[j]).kind = k
        /\ k \in SELECTING /\ tonight.passes[k] > 0 => AsFallback(s[j]).fresh
    BY <2>1, <2>2, <2>3 DEF Step, Origin
  <2> QED
    BY <2>4 DEF k
<1>7. /\ u \in Seq(Step) /\ Len(u) = Len(s)
      /\ \A j \in 1..Len(s) : u[j] = AsFallback(s[j])
  <2>1. u \in [1..Len(s) -> Step]
    BY <1>1, <1>5, <1>6
  <2>2. u \in Seq(Step)
    BY <1>5, <2>1, SeqDef
  <2>3. DOMAIN u = 1..Len(s)
    BY <2>1
  <2> QED
    BY <1>1, <1>5, <2>2, <2>3, LenProperties
<1>8. Distinct(u)
  BY <1>2, <1>6, <1>7 DEF Distinct
<1>9. \E P : Passed(P, u, tonight)
  <2> DEFINE P == [j \in 1..Len(u) |-> tonight.passes[u[j].kind] + 1]
  <2>1. \A j \in 1..Len(u) : P[j] = tonight.passes[u[j].kind] + 1
    OBVIOUS
  <2> HIDE DEF P
  <2>2. ASSUME NEW j \in 1..Len(u), u[j].kind \in SELECTING
        PROVE  /\ P[j] \in Nat /\ tonight.passes[u[j].kind] < P[j] /\ P[j] <= SELECTING_PASSES
               /\ P[j] > 1 => u[j].fresh
               /\ \A i \in 1..Len(u) : i < j /\ u[i].kind = u[j].kind => P[i] < P[j]
    <3> DEFINE k == u[j].kind
               n == tonight.passes[k]
    <3>1. k \in SELECTING /\ n \in Nat /\ P[j] = n + 1
      BY <1>4, <2>1, <2>2
    <3>2. u[j].kind = s[j].kind /\ FixedAllowed(s[j].kind)
      BY <1>3, <1>6, <1>7
    <3>3. n < SELECTING_PASSES
      BY <2>2, <3>2 DEF FixedAllowed
    <3>4. n > 0 => u[j].fresh
      BY <1>6, <1>7, <2>2, <3>2
    <3>5. \A i \in 1..Len(u) : i < j => u[i].kind # k
      <4>1. \A i \in 1..Len(u) : i < j => i # j
        BY <1>5, <1>7
      <4> QED
        BY <1>8, <4>1 DEF Distinct
    <3> HIDE DEF n
    <3>6. /\ P[j] \in Nat /\ n < P[j] /\ P[j] <= SELECTING_PASSES
          /\ P[j] > 1 => u[j].fresh
      BY <3>1, <3>3, <3>4 DEF SELECTING_PASSES
    <3> QED
      BY <3>5, <3>6 DEF n
  <2>3. Passed(P, u, tonight)
    BY <2>2 DEF Passed
  <2> QED
    BY <2>3
<1>10. \A j \in 1..Len(u) : u[j].kind \notin ran /\ (u[j].kind \in {"news", "twins"} => number = 1)
  BY <1>2, <1>3, <1>6, <1>7
<1> QED
  BY <1>7, <1>8, <1>9, <1>10 DEF u

------------------------------------------------------------------------------
(* The invariant of a night.                                                 *)

\* No round runs a step before it starts, and no round but the first the news or the twins.
Booked ==
  \A k \in Kind, r \in Rounds :
    /\ (round < r \/ (r = round /\ phase \in {"start", "round"})) => records[k][r] = 0
    /\ k \in {"news", "twins"} => records[k][r] <= 1 /\ (r # 1 => records[k][r] = 0)

\* What is still to run keeps every promise when it runs.
Waiting ==
  phase = "steps" =>
    /\ FrameLeft(pending, records, round)
    /\ Director => \E P : Passed(P, pending, tonight)
    /\ stopping => Undropped(pending)
    /\ Directed => \E L : /\ Bounded(L, pending, tonight)
                          /\ Roomy => Within(L, pending)
                          /\ round = 1 /\ ~stopping => /\ Summed(L, pending, tonight)
                                                       /\ Enough(L, pending, tonight)

\* What has run has kept them.
Limits ==
  /\ Directed => Ordered(pending)
  /\ NoThirdPass
  /\ Roomy => AllowanceKept
  /\ FloorsMet

\* Only a night that is still going has rows to settle.
Settling ==
  /\ phase \in {"start", "round"} => ~dirty
  /\ phase = "end" /\ ~failed /\ ~capped => ~dirty
  /\ SettledReport

NightInv ==
  /\ TypeOK /\ Booked /\ Waiting /\ Limits /\ Settling
  /\ phase = "start" => round = 1
  /\ stopping => phase \notin {"start", "round"}

LEMMA NightStarts == Init => NightInv
<1> SUFFICES ASSUME Init PROVE NightInv
  OBVIOUS
<1> DEFINE none == [k \in Kind |-> 0]
           noPass == [k \in SELECTING |-> 0]
<1>1. /\ tonight = [totals |-> none, passes |-> noPass, rows_steps |-> 0, steps |-> 0]
      /\ none \in [Kind -> Nat] /\ noPass \in [SELECTING -> Nat]
      /\ \A k \in Kind : none[k] = 0
      /\ \A k \in SELECTING : noPass[k] = 0
  BY DEF Init
<1> HIDE DEF none, noPass
<1>2. /\ tonight \in Tonight /\ \A k \in Kind : tonight.totals[k] = 0
      /\ \A k \in SELECTING : tonight.passes[k] = 0
  BY <1>1 DEF Tonight
<1>3. /\ phase = "start" /\ round = 1 /\ pending = <<>> /\ since = 0 /\ stale = 0
      /\ ~stopping /\ ~endRound /\ ~fellBack /\ ~over /\ ~capped /\ ~failed /\ ~dirty
      /\ {stopping, endRound, fellBack, over, capped, failed, dirty} \subseteq BOOLEAN
      /\ records = [k \in Kind |-> [r \in Rounds |-> 0]]
  BY DEF Init
<1>4. records \in [Kind -> [Rounds -> Nat]] /\ \A k \in Kind, r \in Rounds : records[k][r] = 0
  BY <1>3
<1>5. pending \in Seq(Step) /\ \A j \in 1..Len(pending) : FALSE
  BY <1>3
<1>6. TypeOK
  BY <1>2, <1>3, <1>4, <1>5 DEF TypeOK
<1>7. Booked
  BY <1>4 DEF Booked
<1>8. Limits
  <2>1. Ordered(pending)
    BY <1>5 DEF Ordered, Ahead
  <2>2. NoThirdPass
    BY <1>2 DEF NoThirdPass, SELECTING_PASSES
  <2>3. AllowanceKept
    BY <1>2, KindsAre DEF AllowanceKept
  <2>4. FloorsMet
    BY <1>3 DEF FloorsMet
  <2> QED
    BY <2>1, <2>2, <2>3, <2>4 DEF Limits
<1> QED
  BY <1>3, <1>6, <1>7, <1>8 DEF NightInv, Waiting, Settling, SettledReport

\* A step that leaves the plan, the counts and the choices alone and ends the round's steps,
\* or the wait for them.
LEMMA QuietKeeps ==
  ASSUME NightInv, UNCHANGED <<round, tonight, records, roundVars, stopping, fellBack, stale>>,
         phase' \in {"round", "end", "done", "refused", "killed"},
         phase' = "round" => phase = "start" /\ round \in Rounds,
         {over, capped, failed, dirty}' \subseteq BOOLEAN,
         phase' \in {"end", "done"} =>
           \/ dirty' = dirty /\ capped' = capped /\ failed' = failed
              /\ phase \in {"start", "round"}
           \/ phase' = "end" /\ (failed' \/ capped')
           \/ phase = "end" /\ phase' = "done" /\ failed' = failed /\ dirty' = (dirty /\ ~capped),
         phase' = "round" => dirty' = dirty
  PROVE  NightInv'
<1>1. TypeOK'
  BY DEF NightInv, TypeOK, roundVars
<1>2. Booked'
  BY DEF NightInv, Booked, roundVars
<1>3. Waiting'
  BY DEF Waiting
<1>4. Limits'
  <2>1. Directed' = Directed /\ pending' = pending /\ tonight' = tonight /\ round' = round
    BY DEF Directed, roundVars
  <2> QED
    BY <2>1 DEF NightInv, Limits, NoThirdPass, AllowanceKept, FloorsMet
<1>5. Settling'
  BY DEF NightInv, Settling, SettledReport
<1>6. (phase = "start" => round = 1)' /\ (stopping => phase \notin {"start", "round"})'
  BY DEF NightInv
<1> QED
  BY <1>1, <1>2, <1>3, <1>4, <1>5, <1>6 DEF NightInv

LEMMA QuietSteps ==
  ASSUME NightInv,
         Start \/ OutOfTime \/ BackupFails \/ LoopFails \/ EndNight \/ Terminated \/ Capped
  PROVE  NightInv'
<1>1. /\ {stopping, endRound, fellBack, over, capped, failed, dirty} \subseteq BOOLEAN
      /\ phase \in {"round", "steps"} => round \in Rounds
  BY DEF NightInv, TypeOK
<1>2. CASE Start
  <2>1. phase = "start" /\ phase' \in {"round", "end", "refused"}
    BY <1>2 DEF Start
  <2>2. phase' = "round" => round \in Rounds
    <3>1. phase' = "round" => Rounds # {} /\ round = 1
      BY <1>2 DEF Start, NightInv
    <3>2. Rounds # {} => 1 \in Rounds
      BY NightAssumption DEF Rounds
    <3> QED
      BY <3>1, <3>2
  <2> QED
    BY <1>1, <1>2, <2>1, <2>2, QuietKeeps DEF Start, nightVars
<1>3. CASE OutOfTime
  BY <1>1, <1>3, QuietKeeps DEF OutOfTime, nightVars
<1>4. CASE BackupFails
  BY <1>1, <1>4, QuietKeeps DEF BackupFails, nightVars
<1>5. CASE LoopFails
  BY <1>1, <1>5, QuietKeeps DEF LoopFails, nightVars
<1>6. CASE EndNight
  BY <1>1, <1>6, QuietKeeps DEF EndNight, nightVars
<1>7. CASE Terminated
  BY <1>1, <1>7, QuietKeeps DEF Terminated, nightVars
<1>8. CASE Capped
  BY <1>1, <1>8, QuietKeeps DEF Capped, nightVars
<1> QED
  BY <1>2, <1>3, <1>4, <1>5, <1>6, <1>7, <1>8

\* What a round may still run, told from the steps of its plan being of different kinds.
LEMMA DistinctFrame ==
  ASSUME NEW s, NEW ran, NEW number, Distinct(s),
         \A j \in 1..Len(s) : s[j].kind \in {"news", "twins"} =>
           number = 1 /\ ran[s[j].kind][1] = 0
  PROVE  FrameLeft(s, ran, number)
BY DEF Distinct, FrameLeft

\* The fixed schedule takes a round up, because there is no director or it has failed.
LEMMA FixedTakesOver ==
  ASSUME NightInv, phase \in {"round", "steps"}, ~stopping,
         phase' = "steps", ~Directed', since' = 0, endRound' = TRUE,
         UNCHANGED <<round, tonight, records, stopping, failed, dirty, capped, stale>>,
         {fellBack', over'} \subseteq BOOLEAN,
         \/ ~Director /\ pending' = FixedRound(round) /\ phase = "round"
         \/ Director /\ pending' = Fallback(round, {}) /\ phase = "round"
         \/ Director /\ pending' = Fallback(round, Ran)
  PROVE  NightInv'
<1>1. /\ round \in Rounds /\ round \in Nat /\ tonight \in Tonight
      /\ records \in [Kind -> [Rounds -> Nat]] /\ stale \in Nat
      /\ {stopping, failed, dirty, capped} \subseteq BOOLEAN
  BY DEF NightInv, TypeOK
<1>2. /\ pending' \in Seq(Step) /\ Distinct(pending')
      /\ Director => \E P : Passed(P, pending', tonight)
      /\ \A j \in 1..Len(pending') : pending'[j].kind \in {"news", "twins"} =>
           round = 1 /\ records[pending'[j].kind][1] = 0
  <2>1. CASE ~Director /\ pending' = FixedRound(round) /\ phase = "round"
    <3>1. /\ pending' \in Seq(Step) /\ Distinct(pending')
          /\ \A j \in 1..Len(pending') : pending'[j].kind \in {"news", "twins"} => round = 1
      BY <1>1, <2>1, FixedPartIs DEF FixedRound
    <3>2. round = 1 => \A k \in {"news", "twins"} : records[k][1] = 0
      BY <1>1, <2>1, FrameKinds DEF NightInv, Booked
    <3> QED
      BY <2>1, <3>1, <3>2
  <2>2. CASE Director /\ pending' = Fallback(round, {}) /\ phase = "round"
    <3>1. /\ pending' \in Seq(Step) /\ Distinct(pending') /\ \E P : Passed(P, pending', tonight)
          /\ \A j \in 1..Len(pending') : pending'[j].kind \in {"news", "twins"} => round = 1
      BY <1>1, <2>2, FallbackIs
    <3>2. round = 1 => \A k \in {"news", "twins"} : records[k][1] = 0
      BY <1>1, <2>2, FrameKinds DEF NightInv, Booked
    <3> QED
      BY <3>1, <3>2
  <2>3. CASE Director /\ pending' = Fallback(round, Ran)
    <3>1. /\ pending' \in Seq(Step) /\ Distinct(pending') /\ \E P : Passed(P, pending', tonight)
          /\ \A j \in 1..Len(pending') :
               pending'[j].kind \notin Ran /\ (pending'[j].kind \in {"news", "twins"} => round = 1)
      BY <1>1, <2>3, FallbackIs
    <3>2. \A k \in {"news", "twins"} : k \notin Ran => records[k][round] = 0
      BY <1>1, FrameKinds DEF Ran
    <3> QED
      BY <3>1, <3>2
  <2> QED
    BY <2>1, <2>2, <2>3
<1>3. TypeOK'
  BY <1>1, <1>2 DEF TypeOK
<1>4. Booked'
  BY DEF NightInv, Booked
<1>5. FrameLeft(pending', records, round)
  BY <1>2, DistinctFrame
<1>6. Waiting'
  BY <1>2, <1>5 DEF Waiting
<1>7. Limits'
  BY DEF NightInv, Limits, NoThirdPass, AllowanceKept, FloorsMet
<1>8. Settling'
  BY DEF NightInv, Settling, SettledReport
<1> QED
  BY <1>3, <1>4, <1>6, <1>7, <1>8 DEF NightInv

\* The director's own plan takes the round up, or up again.
LEMMA PlanTakesOver ==
  ASSUME NightInv, phase \in {"round", "steps"}, phase' = "steps", Directed,
         since' = 0, {endRound', stopping', over'} \subseteq BOOLEAN,
         UNCHANGED <<round, tonight, records, fellBack, failed, dirty, capped, stale>>,
         pending' \in Seq(Step), Ordered(pending'),
         FrameLeft(pending', records, round),
         \E P : Passed(P, pending', tonight),
         stopping' => Undropped(pending'),
         \E L : /\ Bounded(L, pending', tonight)
                /\ Roomy => Within(L, pending')
                /\ round = 1 /\ ~stopping' => /\ Summed(L, pending', tonight)
                                              /\ Enough(L, pending', tonight)
  PROVE  NightInv'
<1>1. TypeOK'
  BY DEF NightInv, TypeOK
<1>2. Booked'
  BY DEF NightInv, Booked
<1>3. Waiting'
  BY DEF Waiting, Directed
<1>4. Limits'
  BY DEF NightInv, Limits, NoThirdPass, AllowanceKept, FloorsMet, Directed
<1>5. Settling'
  BY DEF NightInv, Settling, SettledReport
<1> QED
  BY <1>1, <1>2, <1>3, <1>4, <1>5 DEF NightInv

LEMMA StartsKeep ==
  ASSUME NightInv, FixedStart \/ DirectedStart
  PROVE  NightInv'
<1>1. /\ phase = "round" /\ phase' = "steps" /\ since' = 0 /\ ~stopping /\ round \in Rounds
      /\ UNCHANGED <<round, tonight, records, failed, dirty, capped, stale>>
      /\ {stopping, endRound, fellBack, over, capped, failed, dirty} \subseteq BOOLEAN
      /\ round \in Nat /\ tonight \in Tonight
  BY DEF NightInv, TypeOK, FixedStart, DirectedStart, nightVars
<1>2. over' \in BOOLEAN
  BY <1>1 DEF FixedStart, DirectedStart, nightVars, Spend
<1>3. CASE FixedStart
  <2>1. /\ ~Directed' /\ endRound' = TRUE /\ stopping' = stopping /\ fellBack' = fellBack
        /\ pending' = IF Director THEN Fallback(round, {}) ELSE FixedRound(round)
    BY <1>3 DEF FixedStart, Directed
  <2>2. Director \in BOOLEAN
    BY NightAssumption
  <2> QED
    BY <1>1, <1>2, <2>1, <2>2, FixedTakesOver
<1>4. CASE DirectedStart /\ fellBack' = TRUE /\ pending' = Fallback(round, {}) /\ endRound' = TRUE
           /\ UNCHANGED stopping
  <2>1. ~Directed' /\ Director
    BY <1>4 DEF Directed, DirectedStart
  <2> QED
    BY <1>1, <1>2, <1>4, <2>1, FixedTakesOver
<1>5. ASSUME Directed, UNCHANGED fellBack, stopping' \in BOOLEAN, endRound' \in BOOLEAN,
             NEW plan \in Proposals,
             NEW news \in {NewsStep(n) : n \in NewsAsks}
                          \cup {AStep("news", Options.discover, FALSE, "fixed")},
             pending' = Frame(round, news)
                        \o Review(IF stopping' THEN <<>> ELSE plan, tonight, round = 1)
      PROVE  NightInv'
  <2> DEFINE proposed == IF stopping' THEN <<>> ELSE plan
             s == Review(proposed, tonight, round = 1)
             f == Frame(round, news)
  <2>1. proposed \in Seq(Wish) /\ (stopping' => proposed = <<>>)
    BY NightAssumption
  <2> HIDE DEF proposed
  <2>2. /\ Promised(s, tonight, round = 1) /\ Ordered(s)
        /\ proposed = <<>> => \A j \in 1..Len(s) : s[j].origin = "floor"
    BY <1>1, <2>1, ReviewIs
  <2>3. news \in Step /\ news.kind = "news"
    <3>1. CASE news = AStep("news", Options.discover, FALSE, "fixed")
      <4>1. Options["discover"] \in Nat
        BY RefereeAssumption
      <4> QED
        BY <3>1, <4>1, FrameKinds DEF AStep, Step, Origin
    <3>2. ASSUME NEW n \in NewsAsks, news = NewsStep(n) PROVE news \in Step /\ news.kind = "news"
      <4> DEFINE z == Clamp(n, KINDS["news"].lo, KINDS["news"].hi)
      <4>1. n \in Nat /\ KINDS["news"].lo \in Nat /\ KINDS["news"].hi \in Nat
        BY NightAssumption, FrameKinds, KindsAre
      <4>2. z \in Nat
        BY <4>1 DEF Clamp, Most, Least
      <4>3. news = [kind |-> "news", size |-> z, fresh |-> FALSE, origin |-> "director"]
        BY <3>2 DEF NewsStep, AStep
      <4> HIDE DEF z
      <4> QED
        BY <4>2, <4>3, FrameKinds DEF Step, Origin
    <3> QED
      BY <1>5, <3>1, <3>2
  <2>4. /\ f \in Seq(Step) /\ Framed(f)
        /\ \A ran : (round = 1 => ran["news"][1] = 0 /\ ran["twins"][1] = 0) =>
             FrameLeft(f, ran, round)
    BY <2>3, FrameIs
  <2>5. FrameLeft(f, records, round)
    <3>1. round = 1 => records["news"][1] = 0 /\ records["twins"][1] = 0
      BY <1>1, FrameKinds DEF NightInv, Booked
    <3> QED
      BY <2>4, <3>1
  <2> HIDE DEF f, s
  <2>6. s \in Seq(Step) /\ Choosable(s)
    BY <2>2 DEF Promised
  <2>7. /\ f \o s \in Seq(Step)
        /\ Ordered(f \o s)
        /\ FrameLeft(f \o s, records, round)
        /\ Undropped(s) => Undropped(f \o s)
        /\ \E P : Passed(P, f \o s, tonight)
        /\ \E L : /\ Summed(L, f \o s, tonight)
                  /\ Roomy => Within(L, f \o s)
                  /\ round = 1 => Enough(L, f \o s, tonight)
    BY <2>2, <2>4, <2>5, <2>6, FramedKeeps
  <2>8. pending' = f \o s
    BY <1>5 DEF f, s, proposed
  <2>9. stopping' => Undropped(pending')
    BY <2>1, <2>2, <2>7, <2>8 DEF Undropped
  <2>10. \E L : /\ Bounded(L, pending', tonight)
                /\ Roomy => Within(L, pending')
                /\ round = 1 /\ ~stopping' => /\ Summed(L, pending', tonight)
                                              /\ Enough(L, pending', tonight)
    <3>1. PICK L : /\ Summed(L, f \o s, tonight)
                   /\ Roomy => Within(L, f \o s)
                   /\ round = 1 => Enough(L, f \o s, tonight)
      BY <2>7
    <3>2. Bounded(L, f \o s, tonight)
      BY <3>1, SummedIsBounded
    <3> QED
      BY <2>8, <3>1, <3>2
  <2> QED
    BY <1>1, <1>2, <1>5, <2>7, <2>8, <2>9, <2>10, PlanTakesOver
<1>6. CASE DirectedStart
  BY <1>4, <1>5, <1>6 DEF DirectedStart
<1> QED
  BY <1>3, <1>6

LEMMA CheckInsKeep ==
  ASSUME NightInv, DirectorFails \/ DirectorStops \/ Replan
  PROVE  NightInv'
<1>1. /\ phase = "steps" /\ phase' = "steps" /\ since' = 0 /\ ~stopping /\ round \in Rounds
      /\ Directed
      /\ UNCHANGED <<round, tonight, records, failed, dirty, capped, stale>>
      /\ {stopping, endRound, fellBack, over, capped, failed, dirty} \subseteq BOOLEAN
      /\ round \in Nat /\ tonight \in Tonight
  BY DEF NightInv, TypeOK, DirectorFails, DirectorStops, Replan, Asks
<1>2. over' \in BOOLEAN
  BY <1>1 DEF DirectorFails, DirectorStops, Replan, Spend
<1>3. CASE DirectorFails
  <2>1. ~Directed' /\ Director /\ fellBack' = TRUE /\ endRound' = TRUE /\ stopping' = stopping
        /\ pending' = Fallback(round, Ran)
    BY <1>1, <1>3 DEF Directed, DirectorFails
  <2> QED
    BY <1>1, <1>2, <2>1, FixedTakesOver
<1>4. CASE DirectorStops
  <2> DEFINE I == {i \in DOMAIN pending : pending[i].origin = "floor"}
             u == At(pending, I)
  <2>1. /\ pending' = u /\ stopping' = TRUE /\ endRound' = TRUE /\ fellBack' = fellBack
    BY <1>4 DEF DirectorStops
  <2>2. /\ pending \in Seq(Step) /\ DOMAIN pending = 1..Len(pending)
    BY LenProperties DEF NightInv, TypeOK
  <2>3. I \in SUBSET (1..Len(pending)) /\ \A i \in I : pending[i].origin = "floor"
    BY <2>2
  <2> HIDE DEF I
  <2>4. u \in Seq(Step) /\ \E pos : Picks(pos, u, pending, I)
    BY <2>2, <2>3, AtPicks
  <2> HIDE DEF u
  <2>5. PICK pos : Picks(pos, u, pending, I)
    BY <2>4
  <2>6. /\ Ordered(pending) => Ordered(u)
        /\ FrameLeft(pending, records, round) => FrameLeft(u, records, round)
        /\ \A P : Passed(P, pending, tonight) => \E Q : Passed(Q, u, tonight)
        /\ \A L : Bounded(L, pending, tonight) =>
             \E M : Bounded(M, u, tonight) /\ (Within(L, pending) => Within(M, u))
    BY <2>2, <2>3, <2>4, <2>5, PartKeeps
  <2>7. /\ Ordered(pending) /\ FrameLeft(pending, records, round)
        /\ \E P : Passed(P, pending, tonight)
        /\ \E L : Bounded(L, pending, tonight) /\ (Roomy => Within(L, pending))
    BY <1>1 DEF NightInv, Waiting, Limits, Directed
  <2>8. Undropped(u)
    <3>1. \A k \in 1..Len(u) : pos[k] \in I /\ u[k] = pending[pos[k]]
      BY <2>5 DEF Picks
    <3>2. \A k \in 1..Len(u) : u[k].origin = "floor"
      BY <2>3, <3>1
    <3> QED
      BY <3>2 DEF Undropped
  <2>9. \E M : Bounded(M, u, tonight) /\ (Roomy => Within(M, u))
    BY <2>6, <2>7
  <2> QED
    BY <1>1, <1>2, <2>1, <2>4, <2>6, <2>7, <2>8, <2>9, PlanTakesOver
<1>5. ASSUME Replan, NEW plan \in Proposals, pending' = Review(plan, tonight, round = 1),
             endRound' \in {ends \in BOOLEAN : pending' = <<>> => ends}
      PROVE  NightInv'
  <2>1. stopping' = stopping /\ fellBack' = fellBack /\ plan \in Seq(Wish) /\ endRound' \in BOOLEAN
    BY <1>5, NightAssumption DEF Replan
  <2>2. Promised(pending', tonight, round = 1) /\ Ordered(pending')
    BY <1>1, <1>5, <2>1, ReviewIs
  <2>3. pending' \in Seq(Step) /\ Choosable(pending') /\ \E P : Passed(P, pending', tonight)
    BY <2>2 DEF Promised
  <2>4. FrameLeft(pending', records, round)
    BY <2>3, FrameKinds DEF FrameLeft, Choosable
  <2>5. \E L : /\ Bounded(L, pending', tonight)
               /\ Roomy => Within(L, pending')
               /\ round = 1 /\ ~stopping' => /\ Summed(L, pending', tonight)
                                             /\ Enough(L, pending', tonight)
    <3>1. PICK L : /\ Summed(L, pending', tonight)
                   /\ Roomy => Within(L, pending')
                   /\ round = 1 => Enough(L, pending', tonight)
      BY <2>2 DEF Promised
    <3>2. Bounded(L, pending', tonight)
      BY <3>1, SummedIsBounded
    <3> QED
      BY <3>1, <3>2
  <2> QED
    BY <1>1, <1>2, <2>1, <2>2, <2>3, <2>4, <2>5, PlanTakesOver
<1>6. CASE Replan
  BY <1>5, <1>6 DEF Replan
<1> QED
  BY <1>3, <1>4, <1>6

\* A step runs.
LEMMA RunsKeep ==
  ASSUME NightInv, phase = "steps", pending # <<>>, Done1,
         UNCHANGED <<round, endRound, stopping, fellBack, stale>>,
         phase' \in {"steps", "end"}, phase' = "end" => failed' \/ capped',
         since' \in Nat, {over', capped', failed'} \subseteq BOOLEAN
  PROVE  NightInv'
<1> DEFINE h == Head(pending)
           r == Tail(pending)
           k == h.kind
           u == Add(tonight, h)
<1>1. /\ round \in Rounds /\ round \in Nat /\ tonight \in Tonight /\ pending \in Seq(Step)
      /\ records \in [Kind -> [Rounds -> Nat]] /\ stale \in Nat
      /\ {stopping, endRound, fellBack} \subseteq BOOLEAN
  BY DEF NightInv, TypeOK
<1>2. /\ h = pending[1] /\ pending[1] \in Step /\ 1 \in 1..Len(pending) /\ r \in Seq(Step)
      /\ Len(pending) \in Nat
      /\ \A j \in 1..Len(r) : j + 1 \in 1..Len(pending) /\ r[j] = pending[j + 1] /\ r[j] \in Step
  BY <1>1, TailIs
<1>3. /\ u \in Tonight
      /\ \A i \in Kind : u.totals[i] = tonight.totals[i] + (IF i = k THEN h.size ELSE 0)
  <2> HIDE DEF h, u
  <2>1. h \in Step
    BY <1>2
  <2> QED
    BY <1>1, <2>1, AddIs DEF u
<1>4. k \in Kind /\ h.size \in Nat
  BY <1>2 DEF Step
<1>5. /\ tonight' = u /\ pending' = r /\ dirty' = TRUE
      /\ records' = [records EXCEPT ![k][round] = @ + 1]
  BY DEF Done1, Next1
<1> HIDE DEF h, r, u, k
<1>6. /\ records' \in [Kind -> [Rounds -> Nat]]
      /\ records'[k][round] = records[k][round] + 1
      /\ \A i \in Kind, q \in Rounds : i # k \/ q # round => records'[i][q] = records[i][q]
  BY <1>1, <1>4, <1>5
<1>7. /\ FrameLeft(pending, records, round)
      /\ Director => \E P : Passed(P, pending, tonight)
      /\ stopping => Undropped(pending)
      /\ Directed => \E L : /\ Bounded(L, pending, tonight)
                            /\ Roomy => Within(L, pending)
                            /\ round = 1 /\ ~stopping => /\ Summed(L, pending, tonight)
                                                         /\ Enough(L, pending, tonight)
  BY DEF NightInv, Waiting
<1>8. TypeOK'
  BY <1>1, <1>2, <1>3, <1>5, <1>6 DEF TypeOK
<1>9. Booked'
  <2>1. k \in {"news", "twins"} => round = 1 /\ records[k][round] = 0
    BY <1>2, <1>7 DEF FrameLeft, k
  <2> SUFFICES ASSUME NEW i \in Kind, NEW q \in Rounds
               PROVE  /\ round < q => records'[i][q] = 0
                      /\ i \in {"news", "twins"} =>
                           records'[i][q] <= 1 /\ (q # 1 => records'[i][q] = 0)
    BY DEF Booked
  <2>2. /\ round < q => records[i][q] = 0
        /\ i \in {"news", "twins"} => records[i][q] <= 1 /\ (q # 1 => records[i][q] = 0)
    BY DEF NightInv, Booked
  <2>3. CASE i # k \/ q # round
    BY <1>6, <2>2, <2>3
  <2>4. CASE i = k /\ q = round
    BY <1>1, <1>6, <2>1, <2>4
  <2> QED
    BY <2>3, <2>4
<1>10. FrameLeft(r, records', round)
  <2> SUFFICES ASSUME NEW j \in 1..Len(r), r[j].kind \in {"news", "twins"}
               PROVE  /\ round = 1 /\ records'[r[j].kind][1] = 0
                      /\ \A i \in 1..Len(r) : i # j => r[i].kind # r[j].kind
    BY DEF FrameLeft
  <2>1. /\ j + 1 \in 1..Len(pending) /\ r[j] = pending[j + 1] /\ j + 1 # 1
        /\ \A i \in 1..Len(r) : i # j => i + 1 # j + 1
    <3>1. Len(r) \in Nat
      BY <1>2, LenProperties
    <3> QED
      BY <1>2, <3>1
  <2>2. /\ round = 1 /\ records[r[j].kind][1] = 0
        /\ \A i \in 1..Len(pending) : i # j + 1 => pending[i].kind # r[j].kind
    BY <1>7, <2>1 DEF FrameLeft
  <2>3. r[j].kind # k
    BY <1>2, <2>1, <2>2 DEF k
  <2>4. r[j].kind \in Kind
    BY <1>2 DEF Step
  <2>5. records'[r[j].kind][1] = 0
    BY <1>1, <1>6, <2>2, <2>3, <2>4
  <2> QED
    BY <1>2, <2>1, <2>2, <2>5
<1>11. Director => /\ \E P : Passed(P, r, u)
                   /\ \A i \in SELECTING : u.passes[i] <= SELECTING_PASSES
  <2> SUFFICES ASSUME Director
               PROVE  /\ \E P : Passed(P, r, u)
                      /\ \A i \in SELECTING : u.passes[i] <= SELECTING_PASSES
    OBVIOUS
  <2>1. PICK P : Passed(P, pending, tonight)
    BY <1>7
  <2>2. \A i \in SELECTING : tonight.passes[i] <= SELECTING_PASSES
    BY DEF NightInv, Limits, NoThirdPass
  <2> QED
    BY <1>1, <2>1, <2>2, RunKeepsPasses DEF h, r, u
<1>12. stopping => Undropped(r)
  BY <1>2, <1>7 DEF Undropped
<1>13. Directed =>
         /\ \E L : /\ Bounded(L, r, u)
                   /\ Roomy => Within(L, r)
                   /\ round = 1 /\ ~stopping => Summed(L, r, u) /\ Enough(L, r, u)
         /\ Roomy => \A i \in Kind : KINDS[i].choosable => u.totals[i] <= Allowance(i)
  <2> SUFFICES ASSUME Directed
               PROVE  /\ \E L : /\ Bounded(L, r, u)
                                /\ Roomy => Within(L, r)
                                /\ round = 1 /\ ~stopping => Summed(L, r, u) /\ Enough(L, r, u)
                      /\ Roomy => \A i \in Kind : KINDS[i].choosable => u.totals[i] <= Allowance(i)
    OBVIOUS
  <2>1. PICK L : /\ Bounded(L, pending, tonight)
                 /\ Roomy => Within(L, pending)
                 /\ round = 1 /\ ~stopping => /\ Summed(L, pending, tonight)
                                              /\ Enough(L, pending, tonight)
    BY <1>7
  <2>2. Roomy => \A i \in Kind : KINDS[i].choosable => tonight.totals[i] <= Allowance(i)
    BY DEF NightInv, Limits, AllowanceKept
  <2>3. PICK M : /\ Bounded(M, r, u)
                 /\ Within(L, pending) =>
                      /\ Within(M, r)
                      /\ \A i \in Kind :
                           KINDS[i].choosable /\ tonight.totals[i] <= Allowance(i) =>
                             u.totals[i] <= Allowance(i)
                 /\ Summed(L, pending, tonight) => Summed(M, r, u)
                 /\ Summed(L, pending, tonight) /\ Enough(L, pending, tonight) => Enough(M, r, u)
    BY <1>1, <2>1, RunKeepsSums DEF h, r, u
  <2> QED
    BY <2>1, <2>2, <2>3
<1>14. Waiting'
  BY <1>5, <1>7, <1>10, <1>11, <1>12, <1>13 DEF Waiting, Directed
<1>15. Directed => Ordered(r)
  <2>1. \A first, later : Ahead(pending, first, later) => Ahead(r, first, later)
    <3> SUFFICES ASSUME NEW first, NEW later, Ahead(pending, first, later),
                        NEW a \in 1..Len(r), NEW b \in 1..Len(r), a < b, r[b].kind = first
                 PROVE  r[a].kind \notin later
      BY DEF Ahead
    <3>1. /\ a + 1 \in 1..Len(pending) /\ b + 1 \in 1..Len(pending)
          /\ r[a] = pending[a + 1] /\ r[b] = pending[b + 1]
      BY <1>2
    <3>2. a + 1 < b + 1
      BY <1>2, LenProperties
    <3> QED
      BY <3>1, <3>2 DEF Ahead
  <2> QED
    BY <2>1 DEF NightInv, Limits, Ordered
<1>16. FloorsMet'
  <2> SUFFICES ASSUME round > 1, Directed, NEW i \in Kind PROVE u.totals[i] >= FloorOf(i)
    BY <1>5 DEF FloorsMet, Directed
  <2>1. tonight.totals[i] >= FloorOf(i)
    BY DEF NightInv, Limits, FloorsMet
  <2>2. tonight.totals[i] \in Nat /\ FloorOf(i) \in Nat
    BY <1>1, KindsAre DEF Tonight
  <2> QED
    BY <1>3, <1>4, <2>1, <2>2
<1>17. NoThirdPass' /\ (Roomy => AllowanceKept')
  BY <1>5, <1>11, <1>13 DEF NoThirdPass, AllowanceKept, Directed
<1>18. Limits'
  BY <1>5, <1>15, <1>16, <1>17 DEF Limits, Directed
<1>19. Settling'
  BY DEF Settling, SettledReport
<1> QED
  BY <1>8, <1>9, <1>14, <1>18, <1>19 DEF NightInv

LEMMA RunStepsKeep ==
  ASSUME NightInv, RunNews \/ RunStep
  PROVE  NightInv'
<1>1. /\ phase = "steps" /\ pending # <<>> /\ Done1
      /\ UNCHANGED <<round, endRound, stopping, fellBack, stale>>
  BY DEF RunNews, RunStep, Runs
<1>2. /\ {stopping, endRound, fellBack, over, capped, failed, dirty} \subseteq BOOLEAN
      /\ since \in Nat
  BY DEF NightInv, TypeOK
<1>3. CASE RunNews
  <2>1. over' \in BOOLEAN /\ since' \in Nat /\ failed' \in BOOLEAN
    BY <1>2, <1>3 DEF RunNews, Spend
  <2>2. /\ phase' \in {"steps", "end"} /\ (phase' = "end" => failed' \/ capped')
        /\ capped' \in BOOLEAN
    BY <1>1, <1>2, <1>3 DEF RunNews
  <2> QED
    BY <1>1, <2>1, <2>2, RunsKeep
<1>4. CASE RunStep
  <2>1. over' \in BOOLEAN /\ capped' \in BOOLEAN
    BY <1>2, <1>4 DEF RunStep, Spend
  <2>2. since' \in Nat
    BY <1>2, <1>4 DEF RunStep
  <2>3. /\ phase' \in {"steps", "end"} /\ (phase' = "end" => failed' \/ capped')
        /\ failed' \in BOOLEAN
    BY <1>1, <1>2, <1>4 DEF RunStep
  <2> QED
    BY <1>1, <2>1, <2>2, <2>3, RunsKeep
<1> QED
  BY <1>3, <1>4

LEMMA EndRoundKeeps ==
  ASSUME NightInv, EndRound
  PROVE  NightInv'
<1>1. /\ round \in Rounds /\ round \in Nat /\ tonight \in Tonight /\ pending \in Seq(Step)
      /\ records \in [Kind -> [Rounds -> Nat]] /\ stale \in Nat /\ since \in Nat
      /\ {stopping, endRound, fellBack, over, capped, failed, dirty} \subseteq BOOLEAN
      /\ phase = "steps" /\ pending = <<>> /\ ~dirty' /\ dirty' \in BOOLEAN
      /\ UNCHANGED <<tonight, records, over, capped, pending, since, endRound, stopping>>
  BY DEF NightInv, TypeOK, EndRound, roundVars
<1>2. /\ fellBack' \in BOOLEAN /\ failed' \in BOOLEAN /\ stale' \in Nat
      /\ Directed' => Directed
  <2>1. /\ failed' = TRUE \/ failed' = failed
        /\ stale' = stale \/ stale' = 0 \/ stale' = stale + 1
        /\ fellBack' = fellBack \/ (fellBack' \in BOOLEAN /\ (fellBack' = fellBack \/ Directed))
    BY DEF EndRound
  <2>2. fellBack' \in BOOLEAN /\ failed' \in BOOLEAN
    BY <1>1, <2>1
  <2>3. stale' \in Nat
    BY <1>1, <2>1
  <2>4. Directed' => Directed
    BY <2>1 DEF Directed
  <2> QED
    BY <2>2, <2>3, <2>4
<1>3. \/ phase' = "end" /\ round' = round
      \/ phase' = "round" /\ round' = round + 1 /\ round < Options.rounds /\ ~stopping
  BY DEF EndRound
<1>4. round' \in Nat /\ (phase' = "round" => round' \in Rounds)
  BY <1>1, <1>3, NightAssumption DEF Rounds
<1>5. TypeOK'
  BY <1>1, <1>2, <1>3, <1>4 DEF TypeOK
<1>6. Booked'
  <2> SUFFICES ASSUME NEW k \in Kind, NEW r \in Rounds
               PROVE  /\ (round' < r \/ (r = round' /\ phase' \in {"start", "round"})) =>
                           records[k][r] = 0
                      /\ k \in {"news", "twins"} =>
                           records[k][r] <= 1 /\ (r # 1 => records[k][r] = 0)
    BY <1>1 DEF Booked
  <2>1. /\ round < r => records[k][r] = 0
        /\ k \in {"news", "twins"} => records[k][r] <= 1 /\ (r # 1 => records[k][r] = 0)
    BY DEF NightInv, Booked
  <2>2. r \in Nat
    BY NightAssumption DEF Rounds
  <2> QED
    BY <1>1, <1>3, <2>1, <2>2
<1>7. Waiting'
  BY <1>3 DEF Waiting
<1>8. FloorsMet'
  <2> SUFFICES ASSUME round' > 1, Directed, NEW k \in Kind PROVE tonight.totals[k] >= FloorOf(k)
    BY <1>1, <1>2 DEF FloorsMet
  <2>1. CASE round > 1
    BY <2>1 DEF NightInv, Limits, FloorsMet
  <2>2. CASE ~(round > 1)
    <3>1. phase' = "round" /\ ~stopping /\ round = 1
      BY <1>1, <1>3, <2>2 DEF Rounds
    <3>2. \E L : Enough(L, pending, tonight)
      BY <1>1, <3>1 DEF NightInv, Waiting
    <3>3. \A j \in 1..Len(pending) : FALSE
      BY <1>1
    <3>4. FloorOf(k) <= tonight.totals[k]
      BY <3>2, <3>3 DEF Enough
    <3>5. FloorOf(k) \in Nat /\ tonight.totals[k] \in Nat
      <4>1. tonight.totals \in [Kind -> Nat]
        BY <1>1 DEF Tonight
      <4>2. KINDS[k].floor \in Nat /\ FloorOf(k) \in {0, KINDS[k].floor}
        BY KindsAre
      <4> QED
        BY <4>1, <4>2
    <3> QED
      BY <3>4, <3>5
  <2> QED
    BY <2>1, <2>2
<1>9. Limits'
  BY <1>1, <1>2, <1>8 DEF NightInv, Limits, NoThirdPass, AllowanceKept
<1>10. Settling'
  BY <1>1, <1>3 DEF Settling, SettledReport
<1> QED
  BY <1>1, <1>3, <1>5, <1>6, <1>7, <1>9, <1>10 DEF NightInv

LEMMA NightKeeps ==
  ASSUME NightInv, [Next]_vars
  PROVE  NightInv'
<1>1. CASE UNCHANGED vars
  <2>1. UNCHANGED <<phase, round, tonight, records, pending, since, stopping, endRound,
                    fellBack, over, capped, failed, stale, dirty>>
    BY <1>1 DEF vars
  <2>2. TypeOK'
    BY <2>1 DEF NightInv, TypeOK
  <2>3. Booked' /\ Settling'
    BY <2>1 DEF NightInv, Booked, Settling, SettledReport
  <2>4. Waiting'
    BY <2>1 DEF NightInv, Waiting, Directed
  <2>5. Limits'
    BY <2>1 DEF NightInv, Limits, NoThirdPass, AllowanceKept, FloorsMet, Directed
  <2> QED
    BY <2>1, <2>2, <2>3, <2>4, <2>5 DEF NightInv
<1>2. CASE Next
  BY <1>2, QuietSteps, StartsKeep, CheckInsKeep, RunStepsKeep, EndRoundKeeps DEF Next, Step1
<1> QED
  BY <1>1, <1>2

------------------------------------------------------------------------------
(* The theorems.                                                             *)

\* The invariant holds throughout.
THEOREM NightIsKept == Spec => []NightInv
<1>1. Init => NightInv
  BY NightStarts
<1>2. NightInv /\ [Next]_vars => NightInv'
  BY NightKeeps
<1> QED
  BY <1>1, <1>2, PTL DEF Spec

\* Whoever chooses and however often it fails or stops, the news and the twins run once a
\* night, no selecting enrich pass runs a third time, and every variable keeps its type.
THEOREM OnceANight == Spec => []OncePerNight
<1>1. NightInv => OncePerNight
  <2> SUFFICES ASSUME NightInv PROVE OncePerNight
    OBVIOUS
  <2>1. TypeOK /\ NoThirdPass
    BY DEF NightInv, Limits
  <2>2. FrameOnce
    <3> SUFFICES ASSUME NEW k \in {"news", "twins"}, NEW r \in Rounds, NEW q \in Rounds
                 PROVE  /\ records[k][r] <= 1
                        /\ r # q => records[k][r] = 0 \/ records[k][q] = 0
      BY DEF FrameOnce
    <3>1. k \in Kind
      BY FrameKinds
    <3>2. /\ records[k][r] <= 1 /\ (r # 1 => records[k][r] = 0)
          /\ q # 1 => records[k][q] = 0
      BY <3>1 DEF NightInv, Booked
    <3> QED
      BY <3>2
  <2> QED
    BY <2>1, <2>2 DEF OncePerNight
<1> QED
  BY <1>1, NightIsKept, PTL

\* However often the director plans anew, what is left to run is in a legal order, every
\* floor is run, and no kind passes its allowance if a floor has room in it.
THEOREM PlansAreKept == Spec => []PlanKept
<1>1. NightInv => PlanKept
  <2> SUFFICES ASSUME NightInv PROVE PlanKept
    OBVIOUS
  <2>1. /\ Roomy => AllowanceKept
        /\ FloorsMet /\ (Directed => Ordered(pending))
    BY DEF NightInv, Limits
  <2>2. DOMAIN pending = 1..Len(pending)
    BY LenProperties DEF NightInv, TypeOK
  <2>3. ASSUME Directed, NEW i \in DOMAIN pending, NEW j \in DOMAIN pending, i < j
        PROVE  /\ pending[j].kind = "duplicates" => pending[i].kind \notin AFTER_DUPLICATES
               /\ pending[j].kind \in {"logic", "suspects"} => pending[i].kind \notin AFTER_LOGIC
    BY <2>1, <2>2, <2>3 DEF Ordered, Ahead
  <2> QED
    BY <2>1, <2>3 DEF PlanOrdered, PlanKept
<1> QED
  BY <1>1, NightIsKept, PTL

\* A night that no failure ended reports on settled rows, the ceiling having cut it short
\* or not.
THEOREM ReportIsSettled == Spec => []SettledReport
<1>1. NightInv => SettledReport
  BY DEF NightInv, Settling
<1> QED
  BY <1>1, NightIsKept, PTL

\* A step takes a selecting kind past its first pass on fresh rows only, and once the
\* director has stopped the night none of the steps it had asked for runs.
THEOREM StepsAreHonoured == Spec => StepsHonoured
<1> DEFINE Fresh == \A k \in SELECTING :
                      Director /\ tonight.passes[k] > 0 /\ tonight'.passes[k] > tonight.passes[k]
                        => Head(pending).fresh
           Honoured == stopping /\ Len(pending') < Len(pending)
                         => Head(pending).origin = "floor" \/ ~KINDS[Head(pending).kind].choosable
<1>1. ASSUME NightInv, [Next]_vars PROVE Fresh /\ Honoured
  <2>1. tonight \in Tonight /\ pending \in Seq(Step)
    BY <1>1 DEF NightInv, TypeOK
  <2>2. \A k \in SELECTING : tonight.passes[k] \in Nat
    BY <2>1 DEF Tonight
  <2>3. Len(pending) \in Nat
    BY <2>1, LenProperties
  <2>4. CASE RunNews \/ RunStep
    <3>1. /\ phase = "steps" /\ pending # <<>>
          /\ tonight' = Add(tonight, Head(pending)) /\ pending' = Tail(pending)
      BY <2>4 DEF RunNews, RunStep, Runs, Done1, Next1
    <3>2. ASSUME Director PROVE Fresh
      <4>1. PICK P : Passed(P, pending, tonight)
        BY <1>1, <3>1, <3>2 DEF NightInv, Waiting
      <4>2. \A k \in SELECTING :
              tonight.passes[k] > 0 /\ Add(tonight, Head(pending)).passes[k] > tonight.passes[k]
                => Head(pending).fresh
        BY <2>1, <3>1, <4>1, RunKeepsPasses
      <4> QED
        BY <3>1, <4>2
    <3>3. Honoured
      <4>1. stopping => Undropped(pending)
        BY <1>1, <3>1 DEF NightInv, Waiting
      <4>2. Head(pending) = pending[1] /\ 1 \in 1..Len(pending)
        BY <2>1, <3>1, TailIs
      <4> QED
        BY <4>1, <4>2 DEF Undropped
    <3> QED
      BY <3>2, <3>3
  <2>5. CASE UNCHANGED <<tonight, pending>>
    BY <2>2, <2>3, <2>5
  <2>6. CASE FixedStart \/ DirectedStart \/ DirectorFails \/ DirectorStops \/ Replan
    <3>1. tonight' = tonight
      BY <2>6 DEF FixedStart, DirectedStart, DirectorFails, DirectorStops, Replan, nightVars
    <3>2. ~stopping
      BY <1>1, <2>6
         DEF FixedStart, DirectedStart, DirectorFails, DirectorStops, Replan, Asks, NightInv
    <3> QED
      BY <2>2, <3>1, <3>2
  <2>7. CASE Start \/ OutOfTime \/ BackupFails \/ LoopFails \/ EndNight \/ Terminated
               \/ Capped \/ EndRound
    <3>1. UNCHANGED <<tonight, pending>>
      BY <2>7 DEF Start, OutOfTime, BackupFails, LoopFails, EndNight, Terminated, Capped,
                  EndRound, roundVars, nightVars
    <3> QED
      BY <2>5, <3>1
  <2> HIDE DEF Fresh, Honoured
  <2>8. CASE UNCHANGED vars
    BY <2>5, <2>8 DEF vars
  <2> QED
    BY <1>1, <2>4, <2>6, <2>7, <2>8 DEF Next, Step1
<1>2. NightInv /\ [Next]_vars => [Fresh]_vars /\ [Honoured]_vars
  <2> HIDE DEF Fresh, Honoured
  <2> QED
    BY <1>1
<1>3. Spec => [][Fresh]_vars /\ [][Honoured]_vars
  <2> HIDE DEF Fresh, Honoured
  <2> QED
    BY <1>2, NightIsKept, PTL DEF Spec
<1> QED
  BY <1>3 DEF StepsHonoured, SecondPassFresh, StopHonoured

------------------------------------------------------------------------------
(* The night's lock, whose variables are its own: one holder at a time, and  *)
(* never a night and a deployer together, until a takeover removes a lock it *)
(* has not judged.                                                           *)

\* A run whose mkdir made the directory, until its trap takes it away.
Claimed(r) == InGap(r) \/ Holds(r)

\* The directory is there for one run, which wrote its pid, or is about to.
OneClaim ==
  /\ \A r, s \in Run : Claimed(r) /\ Claimed(s) => r = s
  /\ \A r \in Run : InGap(r) => dir = NoPid
  /\ HolderNamed

\* Where a run that never comes to life again is, and where one is that has written its pid.
Dead  == {"gone", "killed", "orphan"}
Wrote == {"trap", "look", "wait", "night", "exit"} \cup Dead

\* A pid in the directory, or read from it, is another run's, which wrote it once; and the
\* run whose lock is about to be removed as stale has ended.
Written == dir \in Run => pc[dir] \in Wrote
Judged  ==
  \A r \in Run :
    /\ pc[r] \in {"ps", "rm"} => judged[r] \in Run \ {r} /\ pc[judged[r]] \in Wrote
    /\ pc[r] = "rm" => pc[judged[r]] \in Dead

\* Another lock than the judged one was made by a third run.
MadeByThird ==
  \A r \in Run : pc[r] \in {"ps", "rm"} /\ dir \notin {NoDir, judged[r]} =>
    \E t \in Run \ {r, judged[r]} : pc[t] # "new"

LockInv == (robbed \/ OneClaim) /\ Written /\ Judged /\ MadeByThird /\ RobbedAmongThree

\* Every variable keeps to its set: the type invariant of the night's lock.
THEOREM LockTypeCorrect == LockSpec => []LockTypeOK
<1>1. LockInit => LockTypeOK
  <2> SUFFICES ASSUME LockInit PROVE LockTypeOK
    OBVIOUS
  <2>1. dir \in Run \cup {NoDir, NoPid} /\ judged \in [Run -> Run \cup {NoDir}]
    BY DEF LockInit
  <2>2. pc \in [Run -> RunStates]
    BY DEF LockInit, RunStates
  <2>3. kills \in 0..MaxKills
    BY NightLockAssumption DEF LockInit
  <2> QED
    BY <2>1, <2>2, <2>3 DEF LockInit, LockTypeOK
<1>2. LockTypeOK /\ [LockNext]_lockVars => LockTypeOK'
  <2> SUFFICES ASSUME LockTypeOK, [LockNext]_lockVars PROVE LockTypeOK'
    OBVIOUS
  <2> USE NightLockAssumption DEF LockTypeOK, RunStates, Goto
  <2>1. ASSUME NEW r \in Run, StartScript(r) \/ OrphanEnds(r) \/ Interrupt(r) PROVE LockTypeOK'
    BY <2>1 DEF StartScript, OrphanEnds, Interrupt
  <2>2. ASSUME NEW r \in Run, Kill(r) \/ KillShell(r) PROVE LockTypeOK'
    BY <2>2 DEF Kill, KillShell
  <2>3. ASSUME NEW r \in Run, Take(r) PROVE LockTypeOK'
    <3>1. CASE MakeDir(r) \/ WritePid(r) \/ MakeDirAgain(r) \/ SetTrap(r)
      BY <3>1 DEF MakeDir, WritePid, MakeDirAgain, SetTrap
    <3>2. CASE ReadPid(r) \/ AskPs(r) \/ RemoveStale(r)
      BY <3>2 DEF ReadPid, AskPs, RemoveStale
    <3> QED
      BY <2>3, <3>1, <3>2 DEF Take
  <2>4. ASSUME NEW r \in Run, Go(r) PROVE LockTypeOK'
    BY <2>4 DEF Go, Look, Wait, HoursEnd, ExitTrap
  <2>5. CASE DeployerStarts \/ DeployerLooks \/ DeployerEnds
    BY <2>5 DEF DeployerStarts, DeployerLooks, DeployerEnds
  <2>6. CASE UNCHANGED lockVars
    BY <2>6 DEF lockVars
  <2> QED
    BY <2>1, <2>2, <2>3, <2>4, <2>5, <2>6 DEF LockNext
<1> QED
  BY <1>1, <1>2, PTL DEF LockSpec

------------------------------------------------------------------------------
(* One holder: each action keeps the inductive invariant.                    *)

\* A takeover that removes a lock it has not judged is one of three runs.
LEMMA RobsAmongThree ==
  ASSUME LockTypeOK, LockInv, NEW r \in Run, RemoveStale(r)
  PROVE  RobbedAmongThree'
<1> USE NightLockAssumption DEF LockTypeOK, Goto
<1>1. \A q \in Run : pc'[q] # pc[q] => q = r
  BY DEF RemoveStale
<1>2. pc[r] = "rm" /\ pc'[r] = "again"
  BY DEF RemoveStale
<1>3. CASE robbed
  BY <1>1, <1>2, <1>3 DEF LockInv, RobbedAmongThree
<1>4. CASE dir \notin {NoDir, judged[r]}
  <2>1. PICK t \in Run \ {r, judged[r]} : pc[t] # "new"
    BY <1>2, <1>4 DEF LockInv, MadeByThird
  <2>2. judged[r] \in Run \ {r} /\ pc[judged[r]] \in Dead
    BY <1>2 DEF LockInv, Judged
  <2>3. "new" \notin {pc'[r], pc'[judged[r]], pc'[t]}
    BY <1>1, <1>2, <2>1, <2>2 DEF Dead
  <2> QED
    BY <2>1, <2>2, <2>3 DEF RobbedAmongThree
<1>5. CASE ~robbed /\ dir \in {NoDir, judged[r]}
  BY <1>5 DEF RemoveStale, RobbedAmongThree
<1> QED
  BY <1>3, <1>4, <1>5

\* Where nothing more is robbed, a run that goes on takes nothing from the three.
LEMMA StillAmongThree ==
  ASSUME LockTypeOK, LockInv, robbed' = robbed, NEW r \in Run, NEW to, to # "new", Goto(r, to)
  PROVE  RobbedAmongThree'
<1>1. \A q \in Run : pc[q] # "new" => pc'[q] # "new"
  BY DEF LockTypeOK, Goto
<1> QED
  BY <1>1 DEF LockInv, RobbedAmongThree

\* So it is in take_lock, but for the step that removes a lock.
LEMMA TakesNone ==
  ASSUME LockTypeOK, LockInv, NEW r \in Run,
         MakeDir(r) \/ MakeDirAgain(r) \/ WritePid(r) \/ ReadPid(r) \/ AskPs(r) \/ SetTrap(r)
  PROVE  RobbedAmongThree'
<1>1. robbed' = robbed
  BY DEF MakeDir, MakeDirAgain, WritePid, ReadPid, AskPs, SetTrap
<1>2. \E to \in {"pid", "holder", "repid", "gone", "trap", "ps", "rm", "look"} : Goto(r, to)
  <2>1. CASE MakeDir(r)
    BY <2>1 DEF MakeDir
  <2>2. CASE MakeDirAgain(r)
    BY <2>2 DEF MakeDirAgain
  <2>3. CASE WritePid(r)
    BY <2>3 DEF WritePid
  <2>4. CASE ReadPid(r)
    BY <2>4 DEF ReadPid
  <2>5. CASE AskPs(r)
    BY <2>5 DEF AskPs
  <2>6. CASE SetTrap(r)
    BY <2>6 DEF SetTrap
  <2> QED
    BY <2>1, <2>2, <2>3, <2>4, <2>5, <2>6
<1> QED
  BY <1>1, <1>2, StillAmongThree

LEMMA TakeKeeps ==
  ASSUME LockTypeOK, LockInv, NEW r \in Run, Take(r)
  PROVE  LockInv'
<1> USE NightLockAssumption
        DEF LockTypeOK, OneClaim, HolderNamed, Claimed, InGap, Holds, Written, Judged, Dead, Wrote,
            Live, Goto
<1>1. CASE MakeDir(r) \/ MakeDirAgain(r)
  <2>1. MadeByThird'
    BY <1>1 DEF MakeDir, MakeDirAgain, LockInv, MadeByThird
  <2>2. RobbedAmongThree'
    BY <1>1, TakesNone
  <2> QED
    BY <1>1, <2>1, <2>2 DEF MakeDir, MakeDirAgain, LockInv
<1>2. CASE WritePid(r)
  <2>1. MadeByThird'
    BY <1>2 DEF WritePid, LockInv, MadeByThird
  <2>2. RobbedAmongThree'
    BY <1>2, TakesNone
  <2> QED
    BY <1>2, <2>1, <2>2 DEF WritePid, LockInv
<1>3. CASE ReadPid(r) \/ AskPs(r)
  <2>1. MadeByThird'
    BY <1>3 DEF ReadPid, AskPs, LockInv, MadeByThird
  <2>2. RobbedAmongThree'
    BY <1>3, TakesNone
  <2> QED
    BY <1>3, <2>1, <2>2 DEF ReadPid, AskPs, LockInv
<1>4. CASE RemoveStale(r)
  <2>1. MadeByThird'
    BY <1>4 DEF RemoveStale, LockInv, MadeByThird
  <2>2. RobbedAmongThree'
    BY <1>4, RobsAmongThree
  <2>3. Written' /\ Judged'
    BY <1>4 DEF RemoveStale, LockInv
  <2>4. robbed' \/ OneClaim'
    <3>1. CASE robbed \/ dir \notin {NoDir, judged[r]}
      BY <1>4, <3>1 DEF RemoveStale
    <3>2. CASE ~robbed /\ dir \in {NoDir, judged[r]}
      <4>1. judged[r] \in Run /\ pc[judged[r]] \in Dead
        BY <1>4 DEF RemoveStale, LockInv
      <4>2. \A q \in Run : ~Claimed(q)
        BY <3>2, <4>1 DEF LockInv
      <4>3. \A q \in Run : pc'[q] = IF q = r THEN "again" ELSE pc[q]
        BY <1>4 DEF RemoveStale
      <4> QED
        BY <4>2, <4>3
    <3> QED
      BY <3>1, <3>2
  <2> QED
    BY <2>1, <2>2, <2>3, <2>4 DEF LockInv
<1>5. CASE SetTrap(r)
  <2>0. RobbedAmongThree'
    BY <1>5, TakesNone
  <2>1. MadeByThird' /\ RobbedAmongThree'
    BY <1>5, <2>0 DEF SetTrap, LockInv, MadeByThird
  <2> QED
    BY <1>5, <2>1 DEF SetTrap, LockInv
<1> QED
  BY <1>1, <1>2, <1>3, <1>4, <1>5 DEF Take

LEMMA LockStepKeeps == LockTypeOK /\ LockInv /\ [LockNext]_lockVars => LockInv'
<1> SUFFICES ASSUME LockTypeOK, LockInv, [LockNext]_lockVars PROVE LockInv'
  OBVIOUS
<1>1. ASSUME NEW r \in Run, Take(r) PROVE LockInv'
  BY <1>1, TakeKeeps
<1> USE NightLockAssumption
        DEF LockTypeOK, OneClaim, HolderNamed, Claimed, InGap, Holds, Written, Judged, Dead, Wrote,
            Live, Goto
<1>2. ASSUME NEW r \in Run,
             StartScript(r) \/ Kill(r) \/ KillShell(r) \/ OrphanEnds(r) \/ Interrupt(r)
      PROVE  LockInv'
  <2>0. RobbedAmongThree'
    BY <1>2, StillAmongThree DEF StartScript, Kill, KillShell, OrphanEnds, Interrupt
  <2>1. MadeByThird' /\ RobbedAmongThree'
    BY <1>2, <2>0 DEF StartScript, Kill, KillShell, OrphanEnds, Interrupt, LockInv, MadeByThird
  <2> QED
    BY <1>2, <2>1 DEF StartScript, Kill, KillShell, OrphanEnds, Interrupt, LockInv
<1>3. ASSUME NEW r \in Run, Look(r) \/ Wait(r) \/ HoursEnd(r) PROVE LockInv'
  <2>0. RobbedAmongThree'
    BY <1>3, StillAmongThree DEF Look, Wait, HoursEnd
  <2>1. MadeByThird' /\ RobbedAmongThree'
    BY <1>3, <2>0 DEF Look, Wait, HoursEnd, LockInv, MadeByThird
  <2> QED
    BY <1>3, <2>1 DEF Look, Wait, HoursEnd, LockInv
<1>4. ASSUME NEW r \in Run, ExitTrap(r) PROVE LockInv'
  <2>0. RobbedAmongThree'
    BY <1>4, StillAmongThree DEF ExitTrap
  <2>1. MadeByThird' /\ RobbedAmongThree'
    BY <1>4, <2>0 DEF ExitTrap, LockInv, MadeByThird
  <2> QED
    BY <1>4, <2>1 DEF ExitTrap, LockInv
<1>5. CASE DeployerStarts \/ DeployerLooks \/ DeployerEnds \/ UNCHANGED lockVars
  BY <1>5 DEF DeployerStarts, DeployerLooks, DeployerEnds, lockVars, LockInv, MadeByThird,
              RobbedAmongThree
<1> QED
  BY <1>1, <1>2, <1>3, <1>4, <1>5 DEF LockNext, Go

LEMMA LockAlways == LockSpec => []LockInv
<1>1. LockInit => LockInv
  BY NightLockAssumption
     DEF LockInit, LockInv, OneClaim, HolderNamed, Claimed, InGap, Holds, Written, Judged,
         MadeByThird, RobbedAmongThree
<1> QED
  BY <1>1, LockStepKeeps, LockTypeCorrect, PTL DEF LockSpec

\* Whatever is started, ended, killed and taken over, and in whatever order: until a takeover
\* removes a lock it has not judged, one run holds the lock, the directory names it, and no two
\* nights run together but beside the loop of a killed shell; and such a takeover takes three
\* starts (take_lock and lock_holder of scripts/overnight.sh).
THEOREM OneHolderUnlessRobbed == LockSpec => []OneHolder
<1>1. LockTypeOK /\ LockInv => OneHolder
  BY DEF LockInv, OneClaim, Claimed, Holds, InNight, OneHolder, OneNight
<1> QED
  BY <1>1, LockAlways, LockTypeCorrect, PTL

\* "One of the two always sees the other": until then a deploy and the night of a live shell
\* never run together, when a deployer does not outlast the half hour the night waits for it.
THEOREM NeverBothUnlessRobbed ==
  ASSUME ~Hangs
  PROVE  LockSpec => []NeverBoth
<1>1. LockInit => NeverBoth
  BY DEF LockInit, NeverBoth
<1>2. LockTypeOK /\ OneHolder /\ NeverBoth /\ [LockNext]_lockVars => NeverBoth'
  <2> SUFFICES ASSUME LockTypeOK, OneHolder, NeverBoth, [LockNext]_lockVars PROVE NeverBoth'
    OBVIOUS
  <2> USE DEF LockTypeOK, NeverBoth, Goto
  <2>1. ASSUME NEW r \in Run,
               StartScript(r) \/ Kill(r) \/ KillShell(r) \/ OrphanEnds(r) \/ Interrupt(r)
        PROVE  NeverBoth'
    BY <2>1 DEF StartScript, Kill, KillShell, OrphanEnds, Interrupt
  <2>2. ASSUME NEW r \in Run, Take(r) PROVE NeverBoth'
    <3>1. robbed => robbed'
      BY <2>2 DEF Take, MakeDir, WritePid, ReadPid, AskPs, RemoveStale, MakeDirAgain, SetTrap
    <3>2. deployer' = deployer /\ \A q \in Run : pc'[q] = "night" => pc[q] = "night"
      BY <2>2 DEF Take, MakeDir, WritePid, ReadPid, AskPs, RemoveStale, MakeDirAgain, SetTrap
    <3> QED
      BY <3>1, <3>2
  <2>3. ASSUME NEW r \in Run, Go(r) PROVE NeverBoth'
    BY <2>3 DEF Go, Look, Wait, HoursEnd, ExitTrap
  <2>4. CASE DeployerLooks
    BY <2>4 DEF DeployerLooks, OneHolder, HolderNamed, Holds, Live
  <2>5. CASE DeployerStarts \/ DeployerEnds \/ UNCHANGED lockVars
    BY <2>5 DEF DeployerStarts, DeployerEnds, lockVars
  <2> QED
    BY <2>1, <2>2, <2>3, <2>4, <2>5 DEF LockNext
<1> QED
  BY <1>1, <1>2, OneHolderUnlessRobbed, LockTypeCorrect, PTL DEF LockSpec

\* Of two starts, the scheduled one and a person's, the lock always has one holder, whatever is
\* killed: no takeover of theirs removes another lock than it judged.
THEOREM OneHolderOfTwo ==
  ASSUME NEW a, NEW b, Run = {a, b}
  PROVE  LockSpec => [](HolderNamed /\ OneNight)
<1>1. OneHolder => HolderNamed /\ OneNight
  BY DEF OneHolder, RobbedAmongThree
<1> QED
  BY <1>1, OneHolderUnlessRobbed, PTL

=============================================================================
