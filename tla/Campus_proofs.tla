---------------------------- MODULE Campus_proofs ----------------------------
(***************************************************************************)
(* Proofs about one campus, for any pages, readings and number of          *)
(* operations.                                                             *)
(***************************************************************************)
EXTENDS Campus, SequenceTheorems, FiniteSetTheorems, WellFoundedInduction, TLAPS

-----------------------------------------------------------------------------
(* Numbers.                                                                *)

Numbers(S) == S \in SUBSET Nat /\ IsFiniteSet(S) /\ S # {}

\* A finite set of numbers, not empty, has a least and a greatest.
LEMMA Extremes ==
  ASSUME NEW S, Numbers(S)
  PROVE  /\ Min(S) \in S /\ Max(S) \in S
         /\ \A x \in S : Min(S) <= x /\ x <= Max(S)
<1> DEFINE Has(U) == /\ \E x \in U : \A y \in U : x <= y
                     /\ \E x \in U : \A y \in U : x >= y
           Lacks  == {U \in SUBSET S : U # {} /\ ~Has(U)}
<1>1. S \subseteq Nat /\ IsFiniteSet(S) /\ S # {}
  BY DEF Numbers
<1>2. Lacks = {}
  <2> SUFFICES ASSUME Lacks # {} PROVE FALSE
    OBVIOUS
  <2>1. IsWellFoundedOn(StrictSubsetOrdering(S), SUBSET S)
    BY <1>1, FS_StrictSubsetOrderingWellFounded, FS_FiniteSubsetsOfFinite
  <2>2. Lacks \subseteq SUBSET S
    OBVIOUS
  <2>3. PICK U \in Lacks : \A V \in Lacks : ~(<<V, U>> \in StrictSubsetOrdering(S))
    <3> HIDE DEF Lacks
    <3> QED
      BY <2>1, <2>2, WFMin
  <2>4. PICK u \in U : TRUE
    OBVIOUS
  <2>5. U \ {u} \in SUBSET S /\ U \ {u} \subseteq U /\ U \ {u} # U /\ U \in SUBSET S
    BY <2>4
  <2>6. U \ {u} \notin Lacks
    BY <2>3, <2>5 DEF StrictSubsetOrdering
  <2>7. CASE U = {u}
    BY <1>1, <2>4, <2>5, <2>7
  <2>8. CASE U \ {u} # {}
    <3>1. Has(U \ {u})
      BY <2>5, <2>6, <2>8
    <3>2. u \in Nat /\ U \subseteq Nat /\ U = (U \ {u}) \cup {u}
      BY <1>1, <2>4, <2>5
    <3>3. PICK b \in U \ {u} : \A y \in U \ {u} : b <= y
      BY <3>1
    <3>4. PICK t \in U \ {u} : \A y \in U \ {u} : t >= y
      BY <3>1
    <3>5. \E x \in U : \A y \in U : x <= y
      <4>1. CASE b <= u
        BY <3>2, <3>3, <4>1
      <4>2. CASE u <= b
        BY <3>2, <3>3, <4>2
      <4> QED
        BY <3>2, <4>1, <4>2
    <3>6. \E x \in U : \A y \in U : x >= y
      <4>1. CASE t >= u
        BY <3>2, <3>4, <4>1
      <4>2. CASE u >= t
        BY <3>2, <3>4, <4>2
      <4> QED
        BY <3>2, <4>1, <4>2
    <3> QED
      BY <3>5, <3>6
  <2> QED
    BY <2>4, <2>7, <2>8
<1>3. Has(S)
  BY <1>1, <1>2
<1>4. Min(S) \in S /\ \A x \in S : Min(S) <= x
  BY <1>3 DEF Min
<1>5. Max(S) \in S /\ \A x \in S : Max(S) >= x
  BY <1>3 DEF Max
<1> QED
  BY <1>1, <1>4, <1>5

\* What is stated at some numbers is finite where they are.
LEMMA ImageIs ==
  ASSUME NEW S, IsFiniteSet(S), NEW T, NEW f \in [S -> T]
  PROVE  IsFiniteSet({f[x] : x \in S}) /\ Cardinality({f[x] : x \in S}) <= Cardinality(S)
<1> DEFINE R == {f[x] : x \in S}
<1>1. f \in Surjection(S, R)
  BY DEF Surjection
<1> QED
  BY <1>1, FS_Surjection

-----------------------------------------------------------------------------
(* Ranking.                                                                *)

Key == [1..8 -> Nat]

\* Keys are compared at the first number they differ in: above is a strict order of them all.
LEMMA FirstDiffers ==
  ASSUME NEW k \in Key, NEW l \in Key, k # l
  PROVE  \E i \in 1..8 : k[i] # l[i] /\ \A j \in 1..(i - 1) : k[j] = l[j]
<1> DEFINE D == {i \in 1..8 : k[i] # l[i]}
<1>1. D # {} /\ D \in SUBSET Nat /\ D \in SUBSET (1..8)
  BY DEF Key
<1>2. IsFiniteSet(D)
  <2>1. 8 \in Nat /\ \A i \in D : i <= 8
    BY <1>1
  <2> QED
    BY <1>1, <2>1, FS_BoundedSetOfNaturals
<1>3. Min(D) \in D /\ \A x \in D : Min(D) <= x
  BY <1>1, <1>2, Extremes DEF Numbers
<1> DEFINE i == Min(D)
<1>4. i \in D /\ \A x \in D : i <= x
  BY <1>3
<1> HIDE DEF i
<1>5. \A j \in 1..(i - 1) : k[j] = l[j]
  BY <1>4
<1> QED
  BY <1>4, <1>5

LEMMA AboveIs ==
  ASSUME NEW k \in Key, NEW l \in Key
  PROVE  /\ k # l => Above(k, l) \/ Above(l, k)
         /\ ~(Above(k, l) /\ Above(l, k))
         /\ ~Above(k, k)
<1>1. DOMAIN k = 1..8 /\ DOMAIN l = 1..8
  BY DEF Key
<1>2. ~Above(k, k)
  BY <1>1 DEF Above, Key
<1>3. ASSUME k # l PROVE Above(k, l) \/ Above(l, k)
  <2>1. PICK i \in 1..8 : k[i] # l[i] /\ \A j \in 1..(i - 1) : k[j] = l[j]
    BY <1>3, FirstDiffers
  <2>2. k[i] > l[i] \/ l[i] > k[i]
    BY <2>1 DEF Key
  <2> QED
    BY <1>1, <2>1, <2>2 DEF Above
<1>4. ASSUME Above(k, l), Above(l, k) PROVE FALSE
  <2>1. PICK i \in 1..8 : k[i] > l[i] /\ \A j \in 1..(i - 1) : k[j] = l[j]
    BY <1>1, <1>4 DEF Above
  <2>2. PICK m \in 1..8 : l[m] > k[m] /\ \A j \in 1..(m - 1) : l[j] = k[j]
    BY <1>1, <1>4 DEF Above
  <2>3. i \in 1..(m - 1) \/ m \in 1..(i - 1) \/ i = m
    OBVIOUS
  <2> QED
    BY <2>1, <2>2, <2>3 DEF Key
<1> QED
  BY <1>2, <1>3, <1>4

LEMMA AboveTransitive ==
  ASSUME NEW k \in Key, NEW l \in Key, NEW h \in Key, Above(k, l), Above(l, h)
  PROVE  Above(k, h)
<1>1. DOMAIN k = 1..8 /\ DOMAIN l = 1..8
  BY DEF Key
<1>2. PICK i \in 1..8 : k[i] > l[i] /\ \A j \in 1..(i - 1) : k[j] = l[j]
  BY <1>1 DEF Above
<1>3. PICK m \in 1..8 : l[m] > h[m] /\ \A j \in 1..(m - 1) : l[j] = h[j]
  BY <1>1 DEF Above
<1>4. k[i] \in Nat /\ l[i] \in Nat /\ h[i] \in Nat /\ k[m] \in Nat /\ l[m] \in Nat /\ h[m] \in Nat
  BY DEF Key
<1>5. CASE i <= m
  <2>1. l[i] >= h[i] /\ \A j \in 1..(i - 1) : k[j] = h[j]
    BY <1>2, <1>3, <1>4, <1>5
  <2> QED
    BY <1>1, <1>2, <1>4, <2>1 DEF Above
<1>6. CASE m <= i
  <2>1. k[m] >= l[m] /\ \A j \in 1..(m - 1) : k[j] = h[j]
    BY <1>2, <1>3, <1>4, <1>6
  <2> QED
    BY <1>1, <1>3, <1>4, <2>1 DEF Above
<1> QED
  BY <1>5, <1>6

\* What ranking needs: keys of numbers, no two claims alike.
Keyed(S) == /\ IsFiniteSet(S)
            /\ \A c \in S : SortKey(c, S) \in Key
            /\ \A c, d \in S : SortKey(c, S) = SortKey(d, S) => c = d

Ranks(s, S) ==
  /\ s \in [1..Cardinality(S) -> S]
  /\ \A i, j \in DOMAIN s : i < j => Above(SortKey(s[i], S), SortKey(s[j], S))

\* There is an order from the strongest claim to the weakest.
LEMMA RankingExists ==
  ASSUME NEW S, Keyed(S)
  PROVE  \E s : Ranks(s, S)
<1> DEFINE n == Cardinality(S)
           K == [c \in S |-> SortKey(c, S)]
           Over(c) == {d \in S : Above(K[d], K[c])}
           rank == [c \in S |-> Cardinality(Over(c)) + 1]
<1>1. /\ IsFiniteSet(S) /\ n \in Nat
      /\ K \in [S -> Key] /\ \A c, d \in S : K[c] = K[d] => c = d
  BY FS_CardinalityType DEF Keyed
<1>2. \A c \in S : K[c] = SortKey(c, S)
  OBVIOUS
<1> HIDE DEF K
<1>3. ASSUME NEW c \in S PROVE IsFiniteSet(Over(c)) /\ rank[c] \in 1..n /\ rank[c] = Cardinality(Over(c)) + 1
  <2>1. Over(c) \in SUBSET S /\ c \notin Over(c)
    BY <1>1, AboveIs
  <2>2. IsFiniteSet(Over(c)) /\ Cardinality(Over(c)) <= n /\ Cardinality(Over(c)) # n
    BY <1>1, <2>1, FS_Subset
  <2>3. Cardinality(Over(c)) \in Nat /\ rank[c] = Cardinality(Over(c)) + 1
    BY <2>2, FS_CardinalityType
  <2> HIDE DEF Over, rank, n
  <2> QED
    BY <1>1, <2>2, <2>3
<1>4. ASSUME NEW c \in S, NEW d \in S, Above(K[c], K[d]) PROVE rank[c] < rank[d]
  <2>1. Over(c) \in SUBSET Over(d)
    BY <1>1, <1>4, AboveTransitive
  <2>2. c \in Over(d) /\ c \notin Over(c)
    BY <1>1, <1>4, AboveIs
  <2>3. IsFiniteSet(Over(c)) /\ IsFiniteSet(Over(d))
    BY <1>3
  <2>4. Cardinality(Over(c)) <= Cardinality(Over(d)) /\ Cardinality(Over(c)) # Cardinality(Over(d))
    BY <2>1, <2>2, <2>3, FS_Subset
  <2>5. Cardinality(Over(c)) \in Nat /\ Cardinality(Over(d)) \in Nat
    BY <2>3, FS_CardinalityType
  <2>6. rank[c] = Cardinality(Over(c)) + 1 /\ rank[d] = Cardinality(Over(d)) + 1
    OBVIOUS
  <2> HIDE DEF Over, rank
  <2> QED
    BY <2>4, <2>5, <2>6
<1> HIDE DEF rank
<1>5. \A c, d \in S : c # d => Above(K[c], K[d]) \/ Above(K[d], K[c])
  BY <1>1, AboveIs
<1>6. rank \in Injection(S, 1..n)
  <2>1. rank \in [S -> 1..n]
    BY <1>3 DEF rank
  <2>2. ASSUME NEW c \in S, NEW d \in S, c # d PROVE rank[c] # rank[d]
    <3>1. rank[c] \in 1..n /\ rank[d] \in 1..n
      BY <1>3
    <3>2. rank[c] < rank[d] \/ rank[d] < rank[c]
      BY <1>4, <1>5, <2>2
    <3> HIDE DEF n
    <3> QED
      BY <1>1, <3>1, <3>2
  <2> QED
    BY <2>1, <2>2 DEF Injection, IsInjective
<1>7. \A i \in 1..n : \E c \in S : rank[c] = i
  <2>1. IsFiniteSet(1..n) /\ Cardinality(1..n) = n
    <3> HIDE DEF n
    <3>1. 1 \in Int /\ n \in Int
      BY <1>1
    <3>2. IsFiniteSet(1..n) /\ Cardinality(1..n) = IF 1 > n THEN 0 ELSE n - 1 + 1
      BY <3>1, FS_Interval
    <3> QED
      BY <1>1, <3>2
  <2>2. rank \in Surjection(S, 1..n)
    BY <1>6, <2>1, FS_Injection
  <2> QED
    BY <2>2 DEF Surjection
<1> DEFINE s == [i \in 1..n |-> CHOOSE c \in S : rank[c] = i]
<1>8. s \in [1..n -> S] /\ \A i \in 1..n : rank[s[i]] = i
  BY <1>7
<1> HIDE DEF s
<1>9. ASSUME NEW i \in 1..n, NEW j \in 1..n, i < j PROVE Above(K[s[i]], K[s[j]])
  <2>1. s[i] \in S /\ s[j] \in S /\ rank[s[i]] = i /\ rank[s[j]] = j
    BY <1>8
  <2>2. s[i] # s[j] /\ ~(rank[s[j]] < rank[s[i]])
    BY <1>1, <1>9, <2>1
  <2> QED
    BY <1>4, <1>5, <2>1, <2>2
<1>10. Ranks(s, S)
  BY <1>2, <1>8, <1>9 DEF Ranks
<1> QED
  BY <1>10

\* Ranking leaves no claim out, and makes none up.
LEMMA RankedIs ==
  ASSUME NEW S, Keyed(S)
  PROVE  /\ Cardinality(S) \in Nat
         /\ Ranked(S) \in [1..Cardinality(S) -> S]
         /\ \A c \in S : \E i \in 1..Cardinality(S) : Ranked(S)[i] = c
<1> DEFINE n == Cardinality(S)
           s == Ranked(S)
<1>1. IsFiniteSet(S) /\ n \in Nat
  BY FS_CardinalityType DEF Keyed
<1>2. Ranks(s, S)
  BY RankingExists DEF Ranked, Ranks
<1> HIDE DEF s
<1>3. s \in [1..n -> S] /\ \A i, j \in 1..n : i < j => s[i] # s[j]
  <2>1. s \in [1..n -> S]
    BY <1>2 DEF Ranks
  <2>2. ASSUME NEW i \in 1..n, NEW j \in 1..n, i < j PROVE s[i] # s[j]
    <3>1. s[i] \in S /\ s[j] \in S /\ Above(SortKey(s[i], S), SortKey(s[j], S))
      BY <1>2, <2>1, <2>2 DEF Ranks
    <3>2. SortKey(s[i], S) \in Key
      BY <3>1 DEF Keyed
    <3> QED
      BY <3>1, <3>2, AboveIs
  <2> QED
    BY <2>1, <2>2
<1>4. s \in Injection(1..n, S)
  <2>1. \A i, j \in 1..n : i # j => i < j \/ j < i
    OBVIOUS
  <2> HIDE DEF n
  <2> QED
    BY <1>3, <2>1 DEF Injection, IsInjective
<1>5. Cardinality(1..n) = n
  <2> HIDE DEF n
  <2>1. 1 \in Int /\ n \in Int
    BY <1>1
  <2>2. Cardinality(1..n) = IF 1 > n THEN 0 ELSE n - 1 + 1
    BY <2>1, FS_Interval
  <2> QED
    BY <1>1, <2>2
<1>6. s \in Surjection(1..n, S)
  BY <1>1, <1>4, <1>5, FS_Injection
<1> QED
  BY <1>1, <1>3, <1>6 DEF Surjection, s

-----------------------------------------------------------------------------
(* Resolving a field.                                                      *)

\* Of finitely many numbers, one has the least of what is stated at them, and what is stated
\* is again finitely many.
LEMMA LeastOf ==
  ASSUME NEW J, Numbers(J), NEW f \in [J -> Nat]
  PROVE  /\ Numbers({f[i] : i \in J})
         /\ \E i \in J : \A j \in J : f[i] <= f[j]
<1> DEFINE R == {f[i] : i \in J}
<1>1. IsFiniteSet(R)
  BY ImageIs DEF Numbers
<1>2. R \in SUBSET Nat /\ R # {}
  BY DEF Numbers
<1>3. Numbers(R)
  BY <1>1, <1>2 DEF Numbers
<1>4. Min(R) \in R /\ \A x \in R : Min(R) <= x
  BY <1>3, Extremes
<1> QED
  BY <1>3, <1>4

LEMMA PartOf ==
  ASSUME NEW J, Numbers(J), NEW I, I \subseteq J, I # {}
  PROVE  Numbers(I)
BY FS_Subset DEF Numbers

LEMMA ContendersAre ==
  ASSUME NEW s, NEW at
  PROVE  /\ Contenders(s, at) \subseteq at
         /\ at # {} => Contenders(s, at) # {}
         /\ \A i \in at : s[i].confirmed /\ ~s[i].part /\ ~s[i].tertiary
              => Contenders(s, at) = {j \in at : s[j].confirmed /\ ~s[j].part /\ ~s[j].tertiary}
<1> DEFINE q == Quoted(s, at)
           w == WholeSite(s, q)
           c == FirstHand(s, w)
<1>1. q \subseteq at /\ (at # {} => q # {})
      /\ \A i \in at : s[i].confirmed => q = {j \in at : s[j].confirmed}
  BY DEF Quoted, IfAny
<1>2. w \subseteq q /\ (q # {} => w # {})
      /\ \A i \in q : ~s[i].part => w = {j \in q : ~s[j].part}
  BY DEF WholeSite, IfAny
<1>3. c \subseteq w /\ (w # {} => c # {})
      /\ \A i \in w : ~s[i].tertiary => c = {j \in w : ~s[j].tertiary}
  BY DEF FirstHand, IfAny
<1>4. Contenders(s, at) = c
  BY DEF Contenders
<1> HIDE DEF q, w, c
<1>5. ASSUME NEW i \in at, s[i].confirmed, ~s[i].part, ~s[i].tertiary
      PROVE  c = {j \in at : s[j].confirmed /\ ~s[j].part /\ ~s[j].tertiary}
  <2>1. q = {j \in at : s[j].confirmed} /\ i \in q
    BY <1>1, <1>5
  <2>2. w = {j \in q : ~s[j].part} /\ i \in w
    BY <1>2, <1>5, <2>1
  <2>3. c = {j \in w : ~s[j].tertiary}
    BY <1>3, <1>5, <2>2
  <2> QED
    BY <2>1, <2>2, <2>3
<1> QED
  BY <1>1, <1>2, <1>3, <1>4, <1>5

LEMMA PrecisionIs == \A c : Precision(c) \in Nat
BY DEF Precision

\* What First looks for,
Sooner(s, i, j) ==
  \/ s[i].value < s[j].value
  \/ /\ s[i].value = s[j].value
     /\ \/ Precision(s[i]) < Precision(s[j])
        \/ (Precision(s[i]) = Precision(s[j]) /\ i <= j)

\* and what a refinement does.
Earlier(s, i, j) == s[i].value < s[j].value \/ (s[i].value = s[j].value /\ i <= j)

\* Where the day is stated first, as precisely as it is stated, is one of the places.
LEMMA FirstIs ==
  ASSUME NEW s, NEW at, Numbers(at), \A i \in at : s[i].value \in Nat
  PROVE  First(s, at) \in at /\ \A j \in at : Sooner(s, First(s, at), j)
<1> DEFINE v == [i \in at |-> s[i].value]
<1>1. PICK a \in at : \A j \in at : v[a] <= v[j]
  <2>1. v \in [at -> Nat]
    OBVIOUS
  <2> HIDE DEF v
  <2> QED
    BY <2>1, LeastOf
<1> DEFINE A == {j \in at : s[j].value = s[a].value}
           p == [i \in A |-> Precision(s[i])]
<1>2. Numbers(A)
  BY PartOf
<1>3. PICK b \in A : \A j \in A : p[b] <= p[j]
  <2>1. p \in [A -> Nat]
    BY PrecisionIs
  <2> HIDE DEF p, A
  <2> QED
    BY <1>2, <2>1, LeastOf
<1> DEFINE B == {j \in A : Precision(s[j]) = Precision(s[b])}
<1>4. Numbers(B)
  BY <1>2, PartOf
<1>5. Min(B) \in B /\ \A j \in B : Min(B) <= j
  BY <1>4, Extremes
<1> DEFINE i == Min(B)
<1>6. i \in at /\ s[i].value = s[a].value /\ Precision(s[i]) = Precision(s[b])
  BY <1>5
<1>7. ASSUME NEW j \in at
      PROVE  \/ s[i].value < s[j].value
             \/ /\ s[i].value = s[j].value
                /\ \/ Precision(s[i]) < Precision(s[j])
                   \/ (Precision(s[i]) = Precision(s[j]) /\ i <= j)
  <2>1. s[a].value \in Nat /\ s[j].value \in Nat /\ s[a].value <= s[j].value
    BY <1>1
  <2>2. CASE s[a].value = s[j].value
    <3>1. j \in A /\ Precision(s[b]) <= Precision(s[j])
      BY <1>3, <2>2
    <3>2. Precision(s[b]) \in Nat /\ Precision(s[j]) \in Nat
      BY PrecisionIs
    <3>3. Precision(s[b]) = Precision(s[j]) => i <= j
      BY <1>5, <3>1
    <3> HIDE DEF i, A
    <3> QED
      BY <1>6, <2>2, <3>1, <3>2, <3>3
  <2> HIDE DEF i
  <2> QED
    BY <1>6, <2>1, <2>2
<1> HIDE DEF i
<1>8. \E k \in at : \A j \in at : Sooner(s, k, j)
  BY <1>6, <1>7 DEF Sooner
<1> QED
  BY <1>8 DEF First, Sooner

\* Among some places there is the earliest.
LEMMA EarliestIs ==
  ASSUME NEW s, NEW J, Numbers(J), \A i \in J : s[i].value \in Nat
  PROVE  \E i \in J : \A j \in J : Earlier(s, i, j)
<1> DEFINE v == [i \in J |-> s[i].value]
<1>1. PICK a \in J : \A j \in J : v[a] <= v[j]
  <2>1. v \in [J -> Nat]
    OBVIOUS
  <2> HIDE DEF v
  <2> QED
    BY <2>1, LeastOf
<1> DEFINE A == {j \in J : s[j].value = s[a].value}
<1>2. Min(A) \in A /\ \A j \in A : Min(A) <= j
  <2>1. Numbers(A)
    BY PartOf
  <2> QED
    BY <2>1, Extremes
<1> DEFINE i == Min(A)
<1>3. ASSUME NEW j \in J PROVE Earlier(s, i, j)
  <2>1. s[i].value = s[a].value /\ s[a].value \in Nat /\ s[j].value \in Nat
        /\ s[a].value <= s[j].value /\ (s[j].value = s[a].value => i <= j)
    BY <1>1, <1>2
  <2> HIDE DEF i, A
  <2> QED
    BY <2>1 DEF Earlier
<1>4. i \in J
  BY <1>2
<1> HIDE DEF i
<1> QED
  BY <1>3, <1>4

\* A finer date the winner's span holds is again one of the places.
LEMMA RefinedIs ==
  ASSUME NEW s, NEW at, Numbers(at), \A i \in at : s[i].value \in Nat, NEW w \in at
  PROVE  Refined(s, at, w) \in at
<1> DEFINE Inside(i)   == {j \in at : Precision(s[j]) < Precision(s[i]) /\ Days(s[j]) \subseteq Days(s[i])}
           Earliest(J) == CHOOSE i \in J : \A j \in J : \/ s[i].value < s[j].value
                                                        \/ (s[i].value = s[j].value /\ i <= j)
           Finer(i)    == IF Inside(i) = {} THEN i ELSE Earliest(Inside(i))
<1>1. ASSUME NEW J \in SUBSET at, J # {} PROVE Earliest(J) \in J
  BY <1>1, PartOf, EarliestIs DEF Earlier
<1>2. \A i \in at : Inside(i) \in SUBSET at
  OBVIOUS
<1> HIDE DEF Inside, Earliest
<1>3. \A i \in at : Finer(i) \in at
  BY <1>1, <1>2
<1> HIDE DEF Finer
<1>4. Finer(Finer(w)) \in at
  BY <1>3
<1> QED
  BY <1>4 DEF Refined, Finer, Earliest, Inside

\* The ladder's rungs and their numbers.
LEMMA RungIs ==
  /\ Rungs = {"announced", "permitting", "construction", "operational"}
  /\ DEFAULT_PHASE \in Rungs
  /\ Rungs \cap PHASE_TERMINAL = {}
  /\ "none" \notin Rungs \cup PHASE_TERMINAL
  /\ \A p \in Rungs : Rung(p) \in 1..4 /\ PHASE_PROGRESSION[Rung(p)] = p
  /\ \A n \in 1..4 : PHASE_PROGRESSION[n] \in Rungs
<1>1. DOMAIN PHASE_PROGRESSION = 1..4
  BY DEF PHASE_PROGRESSION
<1>2. /\ PHASE_PROGRESSION[1] = "announced" /\ PHASE_PROGRESSION[2] = "permitting"
      /\ PHASE_PROGRESSION[3] = "construction" /\ PHASE_PROGRESSION[4] = "operational"
  BY DEF PHASE_PROGRESSION
<1>3. \A n \in 1..4 : n = 1 \/ n = 2 \/ n = 3 \/ n = 4
  OBVIOUS
<1>4. Rungs = {"announced", "permitting", "construction", "operational"}
  BY <1>1, <1>2, <1>3 DEF Rungs, ToSet
<1>5. \A p \in Rungs : \E n \in DOMAIN PHASE_PROGRESSION : PHASE_PROGRESSION[n] = p
  BY <1>1, <1>2, <1>4
<1>6. \A p \in Rungs : Rung(p) \in 1..4 /\ PHASE_PROGRESSION[Rung(p)] = p
  BY <1>1, <1>5 DEF Rung
<1>7. \A n \in 1..4 : PHASE_PROGRESSION[n] \in Rungs
  BY <1>2, <1>3, <1>4
<1> QED
  BY <1>4, <1>6, <1>7 DEF DEFAULT_PHASE, PHASE_TERMINAL

\* The furthest stage reported is a stage one of them reports.
LEMMA FurthestIs ==
  ASSUME NEW s, NEW at, Numbers(at), \E j \in at : s[j].value \in Rungs
  PROVE  \E j \in at : s[j].value \in Rungs /\ Furthest(s, at) = s[j].value
<1> DEFINE I == {j \in at : s[j].value \in Rungs}
           r == [i \in I |-> Rung(s[i].value)]
           R == {r[i] : i \in I}
<1>1. Numbers(I)
  BY PartOf
<1>2. r \in [I -> Nat]
  BY RungIs
<1>3. R = {Rung(s[i].value) : i \in I}
  OBVIOUS
<1> HIDE DEF r
<1>4. Max(R) \in R
  BY <1>1, <1>2, LeastOf, Extremes
<1>5. PICK j \in I : Max(R) = Rung(s[j].value)
  BY <1>3, <1>4
<1>6. Furthest(s, at) = PHASE_PROGRESSION[Max(R)]
  BY <1>3 DEF Furthest
<1>7. j \in at /\ s[j].value \in Rungs
  OBVIOUS
<1>8. Furthest(s, at) = s[j].value
  <2> HIDE DEF R
  <2> QED
    BY <1>5, <1>6, <1>7, RungIs
<1> QED
  BY <1>7, <1>8

\* The phase is one a contender reports; past a stop, two publishers report progress.
LEMMA LadderIs ==
  ASSUME NEW s, NEW at, Numbers(at), \A i \in at : s[i].value \in Rungs \cup PHASE_TERMINAL
  PROVE  LET stopped == {i \in at : s[i].value \in PHASE_TERMINAL}
             out     == {i \in at : s[i].value \in Rungs}
         IN  /\ \E i \in at : Ladder(s, at) = s[i].value
             /\ stopped # {} /\ Ladder(s, at) \in Rungs
                  => Cardinality({s[i].domain : i \in out}) >= 2
<1> DEFINE stopped == {i \in at : s[i].value \in PHASE_TERMINAL}
           out     == {i \in at : s[i].value \in Rungs}
           ahead   == Progress(s, at, stopped)
           moving  == MovingAgain(s, at, stopped)
<1>1. CASE stopped = {}
  <2>1. \E j \in at : s[j].value \in Rungs
    BY <1>1 DEF Numbers
  <2>2. Ladder(s, at) = Furthest(s, at)
    BY <1>1 DEF Ladder
  <2> QED
    BY <1>1, <2>1, <2>2, FurthestIs
<1>2. CASE stopped # {} /\ moving = {}
  <2>1. Min(stopped) \in stopped
    BY <1>2, PartOf, Extremes
  <2>2. Ladder(s, at) = s[Min(stopped)].value
    BY <1>2 DEF Ladder
  <2>3. s[Min(stopped)].value \in PHASE_TERMINAL
    BY <2>1
  <2> QED
    BY <2>1, <2>2, <2>3, RungIs
<1>3. CASE stopped # {} /\ moving # {}
  <2>1. moving = ahead /\ ~(Cardinality({s[i].domain : i \in ahead}) < 2)
    BY <1>3 DEF MovingAgain
  <2>2. ahead \subseteq out
    BY DEF Progress
  <2>3. Numbers(moving) /\ \A j \in moving : s[j].value \in Rungs
    BY <1>3, <2>1, <2>2, PartOf
  <2>4. Ladder(s, at) = Furthest(s, moving)
    BY <1>3 DEF Ladder
  <2>5. PICK j \in moving : Furthest(s, moving) = s[j].value
    BY <1>3, <2>3, FurthestIs
  <2>6. Cardinality({s[i].domain : i \in out}) >= 2
    <3> DEFINE D == {s[i].domain : i \in out}
               E == {s[i].domain : i \in ahead}
               f == [i \in out |-> s[i].domain]
    <3>1. E \in SUBSET D
      BY <2>2
    <3>2. IsFiniteSet(D)
      <4>1. IsFiniteSet(out)
        BY FS_Subset DEF Numbers
      <4>2. f \in [out -> D] /\ D = {f[i] : i \in out}
        OBVIOUS
      <4> HIDE DEF f, D, out
      <4>3. IsFiniteSet({f[i] : i \in out})
        BY <4>1, <4>2, ImageIs
      <4> QED
        BY <4>2, <4>3
    <3> HIDE DEF D, E
    <3>3. Cardinality(E) <= Cardinality(D) /\ Cardinality(E) \in Nat /\ Cardinality(D) \in Nat
      BY <3>1, <3>2, FS_Subset, FS_CardinalityType
    <3>4. ~(Cardinality(E) < 2)
      BY <2>1 DEF E
    <3>5. Cardinality(D) >= 2
      BY <3>3, <3>4
    <3> QED
      BY <3>5 DEF D
  <2>7. j \in at
    BY <2>1, <2>2
  <2> QED
    BY <2>4, <2>5, <2>6, <2>7
<1> QED
  BY <1>1, <1>2, <1>3

\* The ranked claims of a field, and places of some of them.
Holds(f, s, at) == at \in SUBSET Nat /\ IsFiniteSet(at) /\ \A i \in at : s[i].value \in Value(f)

\* What a field is empty of, no claim states.
LEMMA ValueIs ==
  /\ CLAIM_OWNED_FIELDS = {"mw_planned", "mw_built", "phase", "first_announced"}
  /\ Fields = CLAIM_OWNED_FIELDS \cup {"city"}
  /\ \A f \in Fields : f \notin {"phase", "city"} => Value(f) = Nat \ {0}
  /\ Value("phase") = Rungs \cup PHASE_TERMINAL
  /\ \A f \in CLAIM_OWNED_FIELDS : Empty(f) \notin Value(f)
<1>1. Fields = {"mw_planned", "mw_built", "phase", "first_announced", "city"}
  BY DEF Fields, FIELD_POLICY
<1> QED
  BY <1>1, RungIs DEF CLAIM_OWNED_FIELDS, Value, Empty

\* A field a claim owns has a value that a contender states, whatever the row held; it is
\* empty without one.
LEMMA ChoiceIs ==
  ASSUME NEW f \in CLAIM_OWNED_FIELDS, NEW s, NEW at, Holds(f, s, at), at # {}, NEW held
  PROVE  \E i \in at : Choice(FIELD_POLICY[f], s, at, held) = s[i].value
<1>1. Numbers(at)
  BY DEF Holds, Numbers
<1>2. CASE f = "mw_planned"
  <2>1. FIELD_POLICY[f] = "prefer_weight"
    BY <1>2 DEF FIELD_POLICY
  <2>2. Choice(FIELD_POLICY[f], s, at, held) = s[Min(at)].value
    BY <2>1 DEF Choice
  <2> QED
    BY <1>1, <2>2, Extremes
<1>3. CASE f = "mw_built"
  <2> DEFINE v == [i \in at |-> s[i].value]
             R == {v[i] : i \in at}
  <2>1. FIELD_POLICY[f] = "max"
    BY <1>3 DEF FIELD_POLICY
  <2>2. R = {s[i].value : i \in at}
    OBVIOUS
  <2>3. Choice(FIELD_POLICY[f], s, at, held) = Max(R)
    BY <2>1, <2>2 DEF Choice
  <2>4. v \in [at -> Nat]
    BY <1>3, ValueIs DEF Holds, CLAIM_OWNED_FIELDS
  <2> HIDE DEF v
  <2>5. Max(R) \in R
    BY <1>1, <2>4, LeastOf, Extremes
  <2> QED
    BY <2>2, <2>3, <2>5
<1>4. CASE f = "phase"
  <2>1. FIELD_POLICY[f] = "phase"
    BY <1>4 DEF FIELD_POLICY
  <2>2. Choice(FIELD_POLICY[f], s, at, held) = Ladder(s, at)
    BY <2>1 DEF Choice
  <2>3. \A i \in at : s[i].value \in Rungs \cup PHASE_TERMINAL
    BY <1>4, ValueIs DEF Holds
  <2> QED
    BY <1>1, <2>2, <2>3, LadderIs
<1>5. CASE f = "first_announced"
  <2>1. FIELD_POLICY[f] = "min"
    BY <1>5 DEF FIELD_POLICY
  <2>2. Choice(FIELD_POLICY[f], s, at, held) = s[Refined(s, at, First(s, at))].value
    BY <2>1 DEF Choice
  <2>3. \A i \in at : s[i].value \in Nat
    BY <1>5, ValueIs DEF Holds, CLAIM_OWNED_FIELDS
  <2> QED
    BY <1>1, <2>2, <2>3, FirstIs, RefinedIs
<1> QED
  BY <1>2, <1>3, <1>4, <1>5, ValueIs

LEMMA ResolveIs ==
  ASSUME NEW f \in CLAIM_OWNED_FIELDS, NEW s, NEW at, Holds(f, s, at), NEW held
  PROVE  /\ at = {} => ResolveField(f, s, at, held) = Empty(f)
         /\ at # {} => \E i \in Contenders(s, at) :
                         ResolveField(f, s, at, held)
                           = Choice(FIELD_POLICY[f], s, Contenders(s, at), held)
                         /\ Choice(FIELD_POLICY[f], s, Contenders(s, at), held) = s[i].value
<1> DEFINE c == Contenders(s, at)
<1>1. c \subseteq at /\ (at # {} => c # {})
  BY ContendersAre
<1>2. Holds(f, s, c)
  BY <1>1, FS_Subset DEF Holds
<1>3. at # {} => \E i \in c : Choice(FIELD_POLICY[f], s, c, held) = s[i].value
  BY <1>1, <1>2, ChoiceIs
<1>4. at # {} => ResolveField(f, s, at, held) = Choice(FIELD_POLICY[f], s, c, held)
  BY DEF ResolveField
<1> QED
  BY <1>3, <1>4 DEF ResolveField

\* What the row held has no vote in such a field.
LEMMA ResolveForgets ==
  ASSUME NEW f \in CLAIM_OWNED_FIELDS, NEW s, NEW at, NEW held, NEW other
  PROVE  ResolveField(f, s, at, held) = ResolveField(f, s, at, other)
<1> DEFINE c == Contenders(s, at)
<1>1. CASE at = {}
  BY <1>1 DEF ResolveField
<1>2. CASE at # {}
  <2>1. c # {}
    BY <1>2, ContendersAre
  <2>2. FIELD_POLICY[f] \in {"prefer_weight", "max", "phase", "min"}
    BY ValueIs DEF FIELD_POLICY
  <2>3. Choice(FIELD_POLICY[f], s, c, held) = Choice(FIELD_POLICY[f], s, c, other)
    BY <2>1, <2>2 DEF Choice
  <2> QED
    BY <1>2, <2>3 DEF ResolveField
<1> QED
  BY <1>1, <1>2

\* The city is filled once.
LEMMA CityStays ==
  ASSUME NEW s, NEW at, NEW held
  PROVE  LET city == ResolveField("city", s, at, held)
         IN  ResolveField("city", s, at, city) = city
<1>1. "city" \notin CLAIM_OWNED_FIELDS /\ FIELD_POLICY["city"] = "fill_only"
  BY ValueIs DEF CLAIM_OWNED_FIELDS, FIELD_POLICY
<1> QED
  BY <1>1 DEF ResolveField, Choice

\* What the capacities are after they have been made to agree: each is stated by a claim that
\* counts, and where a plan is stated running keeps within it.
LEMMA CapacityIs ==
  ASSUME NEW by, NEW live,
         Holds("mw_planned", by["mw_planned"], live["mw_planned"]),
         Holds("mw_built", by["mw_built"], live["mw_built"]),
         NEW planned \in Nat, NEW built \in Nat
  PROVE  LET agreed == SettleCapacity(planned, built, by, live)
         IN  /\ agreed[1] \in Nat /\ agreed[2] \in Nat
             /\ agreed[1] \in {planned, built}
                  \cup {by["mw_planned"][i].value : i \in live["mw_planned"]}
             /\ agreed[2] \in {0, built} \cup {by["mw_built"][i].value : i \in live["mw_built"]}
             /\ planned # 0 => agreed[1] # 0 /\ agreed[2] <= agreed[1]
             /\ planned = 0 => agreed[1] = 0
<1> DEFINE plans    == by["mw_planned"]
           runs     == by["mw_built"]
           at       == live["mw_planned"]
           on       == live["mw_built"]
           excess   == {i \in on : runs[i].value > planned}
           plan     == {i \in at : plans[i].value = planned /\ ~plans[i].floor}
           covering == {i \in at : plans[i].value >= built /\ Support(plans[i]) > 0}
           best     == {i \in covering : \A j \in covering : Support(plans[j]) <= Support(plans[i])}
           less     == ResolveField("mw_built", runs, on \ excess, 0)
           v        == [i \in at |-> plans[i].value]
           enough   == {v[i] : i \in best}
           agreed   == SettleCapacity(planned, built, by, live)
<1>1. /\ \A i \in at : plans[i].value \in Nat /\ plans[i].value # 0
      /\ \A i \in on : runs[i].value \in Nat
  BY ValueIs DEF Holds, CLAIM_OWNED_FIELDS
<1>2. less \in Nat /\ less <= planned /\ less \in {0} \cup {runs[i].value : i \in on}
  <2>1. Holds("mw_built", runs, on \ excess) /\ "mw_built" \in CLAIM_OWNED_FIELDS
    BY FS_Subset, ValueIs DEF Holds
  <2>2. Contenders(runs, on \ excess) \subseteq on \ excess
    BY ContendersAre
  <2>3. less = 0 \/ \E i \in on \ excess : less = runs[i].value
    BY SMTT(30), <2>1, <2>2, ResolveIs DEF Empty
  <2> HIDE DEF less
  <2>4. \A i \in on \ excess : runs[i].value <= planned
    BY <1>1
  <2> QED
    BY <1>1, <2>3, <2>4
<1>3. ASSUME best # {} PROVE Min(enough) \in {plans[i].value : i \in at} /\ Min(enough) >= built
  <2>1. Numbers(best)
    BY <1>3, FS_Subset DEF Holds, Numbers
  <2>2. \A i \in best : i \in at /\ plans[i].value >= built /\ v[i] = plans[i].value
    OBVIOUS
  <2> DEFINE u == [i \in best |-> v[i]]
  <2>3. u \in [best -> Nat] /\ enough = {u[i] : i \in best}
    BY <1>1, <2>2
  <2> HIDE DEF best, v, u, enough
  <2>4. Min(enough) \in enough
    BY <2>1, <2>3, LeastOf, Extremes
  <2>5. PICK i \in best : Min(enough) = v[i]
    BY <2>4 DEF enough
  <2> QED
    BY <2>2, <2>5
<1>4. enough = {plans[i].value : i \in best}
  OBVIOUS
<1>5. agreed = IF planned = 0 \/ built <= planned THEN <<planned, built>>
               ELSE IF Strongest(runs, excess) < Strongest(plans, plan) THEN <<planned, less>>
               ELSE <<IF best = {} THEN built ELSE Min(enough), built>>
  BY <1>4 DEF SettleCapacity
<1> HIDE DEF agreed, less, excess, plan, best, enough, v
<1>6. CASE planned = 0 \/ built <= planned
  BY <1>5, <1>6 DEF agreed
<1>7. CASE ~(planned = 0 \/ built <= planned) /\ Strongest(runs, excess) < Strongest(plans, plan)
  <2>1. agreed[1] = planned /\ agreed[2] = less
    BY <1>5, <1>7
  <2> QED
    BY <1>2, <1>7, <2>1 DEF agreed
<1>8. CASE ~(planned = 0 \/ built <= planned) /\ ~(Strongest(runs, excess) < Strongest(plans, plan))
  <2>1. agreed[1] = (IF best = {} THEN built ELSE Min(enough)) /\ agreed[2] = built
    BY <1>5, <1>8
  <2>2. CASE best = {}
    BY <1>8, <2>1, <2>2 DEF agreed
  <2>3. CASE best # {}
    <3>1. agreed[1] \in {plans[i].value : i \in at} /\ agreed[1] >= built
      BY <1>3, <2>1, <2>3
    <3>2. agreed[1] \in Nat /\ agreed[1] # 0
      BY <1>1, <3>1
    <3> QED
      BY <1>8, <2>1, <3>1, <3>2 DEF agreed
  <2> QED
    BY <2>2, <2>3
<1> QED
  BY <1>6, <1>7, <1>8

-----------------------------------------------------------------------------
(* Sums.                                                                   *)

Some(t) == CHOOSE x \in t : TRUE

\* g gives every set of T the sum of f over it, one element after another.
Sums(g, T, f) ==
  g = [t \in T |-> IF t = {} THEN 0 ELSE f[Some(t)] + g[t \ {Some(t)}]]

\* A function that sums over every subset exists, for sets of a size on sets of one more.
LEMMA SumExists ==
  ASSUME NEW S, IsFiniteSet(S), NEW f \in [S -> Nat]
  PROVE  \E g : Sums(g, SUBSET S, f)
<1> DEFINE N == Cardinality(S)
           Small(m) == {t \in SUBSET S : Cardinality(t) <= m}
           Has(m) == \E g \in [Small(m) -> Nat] : Sums(g, Small(m), f)
           Out == {m \in Nat : ~Has(m)}
<1>1. N \in Nat /\ \A t \in SUBSET S : IsFiniteSet(t) /\ Cardinality(t) \in Nat /\ Cardinality(t) <= N
  BY FS_Subset, FS_CardinalityType
<1>2. Has(0)
  <2> DEFINE g == [t \in Small(0) |-> 0]
  <2>1. \A t \in Small(0) : t = {}
    BY <1>1, FS_EmptySet
  <2>2. g = [t \in Small(0) |-> IF t = {} THEN 0 ELSE f[Some(t)] + g[t \ {Some(t)}]]
    BY <2>1
  <2>3. g \in [Small(0) -> Nat]
    OBVIOUS
  <2> HIDE DEF g, Small
  <2> QED
    BY <2>2, <2>3 DEF Sums
<1>3. ASSUME NEW m \in Nat, Has(m) PROVE Has(m + 1)
  <2>1. PICK g \in [Small(m) -> Nat] : Sums(g, Small(m), f)
    BY <1>3
  <2> DEFINE h == [t \in Small(m + 1) |->
                     IF t = {} THEN 0 ELSE f[Some(t)] + g[t \ {Some(t)}]]
  <2>2. ASSUME NEW t \in Small(m + 1), t # {}
        PROVE  Some(t) \in S /\ t \ {Some(t)} \in Small(m) /\ t \ {Some(t)} \in Small(m + 1)
    <3>1. Some(t) \in t /\ t \in SUBSET S /\ IsFiniteSet(t) /\ Cardinality(t) <= m + 1
      BY <1>1, <2>2 DEF Some
    <3>2. Cardinality(t \ {Some(t)}) = Cardinality(t) - 1 /\ Cardinality(t) \in Nat
      BY <3>1, FS_RemoveElement, FS_CardinalityType
    <3>3. Cardinality(t \ {Some(t)}) <= m /\ Cardinality(t \ {Some(t)}) <= m + 1
      BY <3>1, <3>2
    <3> QED
      BY <3>1, <3>3
  <2>3. h \in [Small(m + 1) -> Nat]
    <3>1. \A t \in Small(m + 1) : t # {} => f[Some(t)] \in Nat /\ g[t \ {Some(t)}] \in Nat
      BY <2>2
    <3> HIDE DEF Small
    <3> QED
      BY <3>1
  <2>4. \A t \in Small(m) : g[t] = h[t]
    <3>1. \A t \in Small(m) : t \in Small(m + 1)
      BY <1>1
    <3> HIDE DEF Small
    <3> QED
      BY <2>1, <3>1 DEF Sums
  <2>5. \A t \in Small(m + 1) :
          h[t] = IF t = {} THEN 0 ELSE f[Some(t)] + h[t \ {Some(t)}]
    <3> HIDE DEF Small
    <3> QED
      BY <2>2, <2>4
  <2> HIDE DEF h, Small
  <2>6. Sums(h, Small(m + 1), f)
    BY <2>3, <2>5 DEF Sums
  <2> QED
    BY <2>3, <2>6
<1>4. Has(N)
  <2> SUFFICES ASSUME ~Has(N) PROVE FALSE
    OBVIOUS
  <2> HIDE DEF Has
  <2>1. Out # {} /\ Out \subseteq Nat
    BY <1>1
  <2>2. PICK m \in Out : \A k \in Out : ~(<<k, m>> \in OpToRel(<, Nat))
    <3> HIDE DEF Out
    <3> QED
      BY <2>1, NatLessThanWellFounded, WFMin
  <2>3. m \in Nat /\ m # 0 /\ m - 1 \in Nat
    BY <1>2
  <2>4. m - 1 \in Out
    <3>1. ~Has(m) /\ (m - 1) + 1 = m
      BY <2>3
    <3>2. Has(m - 1) => Has(m)
      BY <1>3, <2>3, <3>1
    <3> QED
      BY <2>3, <3>1, <3>2
  <2>5. m - 1 < m
    BY <2>3
  <2> QED
    BY <2>2, <2>3, <2>4, <2>5 DEF OpToRel
<1>5. Small(N) = SUBSET S
  BY <1>1
<1> QED
  BY <1>4, <1>5

\* Such a function gives numbers.
LEMMA SumIs ==
  ASSUME NEW S, IsFiniteSet(S), NEW f \in [S -> Nat], NEW g, Sums(g, SUBSET S, f)
  PROVE  g[S] \in Nat
<1> DEFINE Out == {t \in SUBSET S : g[t] \notin Nat}
<1>1. Out = {}
  <2> SUFFICES ASSUME Out # {} PROVE FALSE
    OBVIOUS
  <2>1. IsWellFoundedOn(StrictSubsetOrdering(S), SUBSET S)
    BY FS_StrictSubsetOrderingWellFounded, FS_FiniteSubsetsOfFinite
  <2>2. Out \subseteq SUBSET S
    OBVIOUS
  <2>3. PICK t \in Out : \A u \in Out : ~(<<u, t>> \in StrictSubsetOrdering(S))
    <3> HIDE DEF Out
    <3> QED
      BY <2>1, <2>2, WFMin
  <2>4. t \in SUBSET S /\ g[t] = IF t = {} THEN 0 ELSE f[Some(t)] + g[t \ {Some(t)}]
    BY DEF Sums
  <2>5. t # {}
    BY <2>4
  <2>6. Some(t) \in t
    BY <2>5 DEF Some
  <2>7. t \ {Some(t)} \notin Out
    BY ZenonT(30), <2>3, <2>4, <2>6 DEF StrictSubsetOrdering
  <2>8. f[Some(t)] \in Nat /\ g[t \ {Some(t)}] \in Nat
    BY <2>4, <2>6, <2>7
  <2>9. g[t] \in Nat
    BY <2>4, <2>5, <2>8
  <2> QED
    BY <2>9
<1> QED
  BY <1>1

\* The tranches' power is a number, and none is none.
LEMMA TrancheSumIs ==
  ASSUME NEW cs, NEW live, IsFiniteSet(DOMAIN cs), \A p \in DOMAIN cs : cs[p].tranche.mw \in Nat
  PROVE  /\ TrancheSum(cs, live) \in Nat
         /\ DOMAIN cs = {} => TrancheSum(cs, live) = 0
<1> DEFINE S == {p \in Described(cs) : cs[p].tranche.quoted
                                         /\ (live => cs[p].tranche.status = "serving")}
           f == [p \in S |-> cs[p].tranche.mw]
           F(g) == [t \in SUBSET S |->
                     IF t = {} THEN 0
                     ELSE LET x == CHOOSE y \in t : TRUE IN cs[x].tranche.mw + g[t \ {x}]]
           sum == CHOOSE g : g = F(g)
<1>1. S \subseteq DOMAIN cs
  BY DEF Described
<1>2. IsFiniteSet(S) /\ f \in [S -> Nat]
  BY <1>1, FS_Subset
<1>3. TrancheSum(cs, live) = sum[S]
  BY DEF TrancheSum, MapThenSumSet, MapThenFoldSet
<1>4. \A g : g = F(g) <=> Sums(g, SUBSET S, f)
  <2> TAKE g
  <2>1. \A t \in SUBSET S : t # {} => Some(t) \in S /\ f[Some(t)] = cs[Some(t)].tranche.mw
    BY DEF Some
  <2>2. F(g) = [t \in SUBSET S |-> IF t = {} THEN 0 ELSE f[Some(t)] + g[t \ {Some(t)}]]
    <3> HIDE DEF S, f
    <3> QED
      BY <2>1 DEF Some
  <2> HIDE DEF F
  <2> QED
    BY <2>2 DEF Sums
<1>5. Sums(sum, SUBSET S, f)
  <2> HIDE DEF S, f, F
  <2> QED
    BY <1>2, <1>4, SumExists
<1>6. sum[S] \in Nat
  <2> HIDE DEF S, f, sum
  <2> QED
    BY <1>2, <1>5, SumIs
<1>7. ASSUME DOMAIN cs = {} PROVE sum[S] = 0
  <2>1. S = {} /\ S \in SUBSET S
    BY <1>1, <1>7
  <2> HIDE DEF sum
  <2> QED
    BY <1>5, <2>1 DEF Sums
<1> HIDE DEF sum
<1> QED
  BY <1>3, <1>6, <1>7

-----------------------------------------------------------------------------
(* The citations, and the claims they make.                                *)

\* What a citation is: of claims that can be stated, ruled on or not, and of a tranche.
Sound(c) ==
  /\ DOMAIN c.claims \subseteq Fields
  /\ \A f \in DOMAIN c.claims : /\ Stateable(f, c.claims[f])
                                /\ c.claims[f].ruling \in Rulings \cup {"none"}
  /\ Placeable(c.tranche)

Cites(cs) ==
  /\ DOMAIN cs \subseteq Pages /\ IsFiniteSet(DOMAIN cs)
  /\ \A p \in DOMAIN cs : Sound(cs[p])

\* The order of fetching has every page cited, once.
Order(cs, at) ==
  /\ at \in Seq(Pages) /\ ToSet(at) = DOMAIN cs
  /\ \A i, j \in 1..Len(at) : at[i] = at[j] => i = j

\* The pages whose claim about a field nobody ruled out.
LivePages(cs, f) ==
  {p \in DOMAIN cs : f \in DOMAIN cs[p].claims /\ cs[p].claims[f].ruling = "none"}

LEMMA PlaceIs ==
  ASSUME NEW cs, NEW at, Order(cs, at), NEW p \in DOMAIN cs
  PROVE  Place(at, p) \in 1..Len(at) /\ at[Place(at, p)] = p
<1>1. DOMAIN at = 1..Len(at)
  BY DEF Order
<1>2. \E n \in DOMAIN at : at[n] = p
  BY DEF Order, ToSet
<1> QED
  BY <1>1, <1>2 DEF Place

LEMMA PageInfoIs ==
  ASSUME NEW p \in Pages
  PROVE  p \in Nat /\ PageInfo[p].weight \in Nat /\ PageInfo[p].published \in Nat
BY CampusAssumption

\* The claims of a field can be ranked.
LEMMA ClaimsKeyed ==
  ASSUME NEW cs, NEW at, Cites(cs), Order(cs, at), NEW f
  PROVE  Keyed(ClaimsOn(cs, at, f))
<1> DEFINE Q == {q \in DOMAIN cs : f \in DOMAIN cs[q].claims}
           c == [p \in Q |-> ClaimOf(cs, at, p, f)]
           S == ClaimsOn(cs, at, f)
<1>1. S = {c[p] : p \in Q} /\ c \in [Q -> S]
  BY DEF ClaimsOn
<1>2. IsFiniteSet(S)
  <2>1. IsFiniteSet(Q)
    BY FS_Subset DEF Cites
  <2> HIDE DEF c, S, Q
  <2>2. c \in [Q -> S]
    BY <1>1
  <2>3. IsFiniteSet({c[p] : p \in Q})
    BY <2>1, <2>2, ImageIs
  <2> QED
    BY <1>1, <2>3
<1>3. ASSUME NEW p \in Q
      PROVE  /\ c[p].page = p /\ c[p].page \in Nat /\ c[p].weight \in Nat
             /\ c[p].published \in Nat /\ c[p].fetched \in Nat
  <2>1. p \in Pages /\ p \in DOMAIN cs
    BY DEF Cites
  <2>2. Place(at, p) \in Nat
    <3>1. Place(at, p) \in 1..Len(at) /\ Len(at) \in Nat
      BY <2>1, PlaceIs, LenProperties DEF Order
    <3> QED
      BY <3>1
  <2> QED
    BY <2>1, <2>2, PageInfoIs DEF ClaimOf
<1> HIDE DEF c, Q, S
<1>4. ASSUME NEW d \in S PROVE SortKey(d, S) \in Key /\ SortKey(d, S)[8] = d.page
  <2>1. PICK p \in Q : d = c[p]
    BY <1>1
  <2>2. d.weight \in Nat /\ d.page \in Nat /\ Recency(d) \in Nat
    BY <1>3, <2>1 DEF Recency
  <2>3. \A b : Bit(b) \in Nat
    BY DEF Bit
  <2> DEFINE k == SortKey(d, S)
  <2>4. \A i \in 1..8 : k[i] \in Nat
    BY <2>2, <2>3 DEF SortKey
  <2>5. k = [i \in 1..8 |-> k[i]] /\ k[8] = d.page
    BY DEF SortKey
  <2>6. k \in Key
    <3> HIDE DEF k
    <3> QED
      BY <2>4, <2>5 DEF Key
  <2> QED
    BY <2>5, <2>6
<1>5. ASSUME NEW d \in S, NEW e \in S, SortKey(d, S) = SortKey(e, S) PROVE d = e
  <2>1. PICK p \in Q : d = c[p]
    BY <1>1
  <2>2. PICK q \in Q : e = c[q]
    BY <1>1
  <2>3. d.page = e.page
    BY <1>4, <1>5
  <2> QED
    BY <1>3, <2>1, <2>2, <2>3
<1> QED
  BY <1>2, <1>4, <1>5 DEF Keyed, S

\* Each place among a field's ranked claims is of a page that claims it, and each page has one.
LEMMA ByField ==
  ASSUME NEW cs, NEW at, Cites(cs), Order(cs, at), NEW f \in Fields
  PROVE  LET s == ClaimsByField(cs, at)[f]
         IN  /\ DOMAIN s \in SUBSET Nat /\ IsFiniteSet(DOMAIN s)
             /\ \A i \in DOMAIN s : \E p \in DOMAIN cs :
                  f \in DOMAIN cs[p].claims /\ s[i] = ClaimOf(cs, at, p, f)
             /\ \A p \in DOMAIN cs : f \in DOMAIN cs[p].claims =>
                  \E i \in DOMAIN s : s[i] = ClaimOf(cs, at, p, f)
<1> DEFINE S == ClaimsOn(cs, at, f)
           s == Ranked(S)
           n == Cardinality(S)
<1>1. ClaimsByField(cs, at)[f] = s
  BY DEF ClaimsByField
<1>2. n \in Nat /\ s \in [1..n -> S] /\ \A c \in S : \E i \in 1..n : s[i] = c
  BY ClaimsKeyed, RankedIs
<1>3. IsFiniteSet(1..n)
  <2> HIDE DEF n
  <2> QED
    BY <1>2, FS_Interval
<1>4. \A c \in S : \E p \in DOMAIN cs : f \in DOMAIN cs[p].claims /\ c = ClaimOf(cs, at, p, f)
  BY DEF ClaimsOn
<1>5. \A p \in DOMAIN cs : f \in DOMAIN cs[p].claims => ClaimOf(cs, at, p, f) \in S
  BY DEF ClaimsOn
<1> HIDE DEF s, n, S
<1>6. DOMAIN s = 1..n
  BY <1>2
<1>7. \A i \in DOMAIN s : s[i] \in S
  BY <1>2
<1>8. DOMAIN s \in SUBSET Nat /\ IsFiniteSet(DOMAIN s)
  BY <1>2, <1>3, <1>6
<1> QED
  BY <1>1, <1>2, <1>4, <1>5, <1>6, <1>7, <1>8

\* The claims that count in a merge are of live pages; only a capacity is held out.
LEMMA LiveIs ==
  ASSUME NEW cs, NEW at, Cites(cs), Order(cs, at), NEW f \in Fields
  PROVE  LET s    == ClaimsByField(cs, at)[f]
             live == HoldOutKilowatts(ClaimsByField(cs, at))[f]
         IN  /\ live \subseteq DOMAIN s /\ Holds(f, s, live)
             /\ \A i \in live : \E p \in LivePages(cs, f) : s[i] = ClaimOf(cs, at, p, f)
             /\ f \notin CAPACITY_FIELDS =>
                  \A p \in LivePages(cs, f) : \E i \in live : s[i] = ClaimOf(cs, at, p, f)
<1> DEFINE by   == ClaimsByField(cs, at)
           s    == by[f]
           live == HoldOutKilowatts(by)[f]
<1>1. /\ live \subseteq Undecided(s)
      /\ f \notin CAPACITY_FIELDS => live = Undecided(s)
  BY DEF HoldOutKilowatts
<1>2. Undecided(s) = {i \in DOMAIN s : ~s[i].decided}
  BY DEF Undecided
<1>3. /\ DOMAIN s \in SUBSET Nat /\ IsFiniteSet(DOMAIN s)
      /\ \A i \in DOMAIN s : \E p \in DOMAIN cs :
           f \in DOMAIN cs[p].claims /\ s[i] = ClaimOf(cs, at, p, f)
      /\ \A p \in DOMAIN cs : f \in DOMAIN cs[p].claims =>
           \E i \in DOMAIN s : s[i] = ClaimOf(cs, at, p, f)
  BY ByField
<1>4. \A p : LET c == ClaimOf(cs, at, p, f)
             IN  /\ c.value = cs[p].claims[f].value
                 /\ c.decided = (cs[p].claims[f].ruling # "none")
  BY DEF ClaimOf
<1> HIDE DEF s, live
<1>5. \A i \in live : \E p \in LivePages(cs, f) : s[i] = ClaimOf(cs, at, p, f)
  BY ZenonT(30), <1>1, <1>2, <1>3, <1>4 DEF LivePages
<1>6. ASSUME f \notin CAPACITY_FIELDS, NEW p \in LivePages(cs, f)
      PROVE  \E i \in live : s[i] = ClaimOf(cs, at, p, f)
  <2>1. p \in DOMAIN cs /\ f \in DOMAIN cs[p].claims /\ cs[p].claims[f].ruling = "none"
    BY DEF LivePages
  <2>2. PICK i \in DOMAIN s : s[i] = ClaimOf(cs, at, p, f)
    BY <1>3, <2>1
  <2>3. ~s[i].decided
    BY <1>4, <2>1, <2>2
  <2> QED
    BY <1>1, <1>2, <1>6, <2>2, <2>3
<1>7. live \subseteq DOMAIN s
  BY <1>1, <1>2
<1>8. \A i \in live : s[i].value \in Value(f)
  BY <1>4, <1>5 DEF LivePages, Cites, Sound, Stateable
<1>9. Holds(f, s, live)
  <2>1. IsFiniteSet(live) /\ live \in SUBSET Nat
    BY <1>3, <1>7, FS_Subset
  <2> QED
    BY <1>8, <2>1 DEF Holds
<1> QED
  BY <1>5, <1>6, <1>7, <1>9 DEF s, live

\* The tranches leave the stage the claims give, or raise it to one of theirs.
LEMMA SettledPhaseIs ==
  ASSUME NEW cs, Cites(cs), NEW stage, NEW deciding
  PROVE  /\ SettledPhase(cs, stage, deciding)
              \in {stage} \cup {BLOCK_STATUS_TO_PHASE[cs[p].tranche.status] : p \in Described(cs)}
         /\ {BLOCK_STATUS_TO_PHASE[cs[p].tranche.status] : p \in Described(cs)} \subseteq Rungs
<1> DEFINE lifting == LiftingBlocks(cs, stage, deciding)
           told(p) == BLOCK_STATUS_TO_PHASE[cs[p].tranche.status]
           from    == {told(p) : p \in lifting}
           h       == [p \in lifting |-> Height(told(p))]
           H       == {h[p] : p \in lifting}
           top     == Max({Height(x) : x \in from})
<1>1. lifting \subseteq Described(cs) /\ lifting \subseteq DOMAIN cs
  BY DEF LiftingBlocks, Described
<1>2. \A p \in Described(cs) : told(p) \in Rungs
  <2>1. \A t \in DOMAIN BLOCK_STATUS_TO_PHASE : BLOCK_STATUS_TO_PHASE[t] \in Rungs
    BY RungIs DEF BLOCK_STATUS_TO_PHASE
  <2> QED
    BY <2>1 DEF Described, Cites, Sound, Placeable
<1>3. \A x : Height(x) \in Nat /\ (Height(x) # 0 => x \in Rungs /\ Height(x) \in 1..4
                                                     /\ PHASE_PROGRESSION[Height(x)] = x)
  BY RungIs DEF Height
<1>4. {Height(x) : x \in from} = H /\ h \in [lifting -> Nat]
  BY <1>3
<1>5. SettledPhase(cs, stage, deciding)
        = IF from # {} /\ top > Height(stage) THEN PHASE_PROGRESSION[top] ELSE stage
  BY DEF SettledPhase
<1>6. CASE from # {} /\ top > Height(stage)
  <2>1. lifting # {} /\ IsFiniteSet(lifting)
    BY <1>1, <1>6, FS_Subset DEF Cites
  <2>2. Numbers(H)
    <3> HIDE DEF h, lifting
    <3>1. h \in [lifting -> Nat]
      BY <1>4
    <3>2. IsFiniteSet({h[p] : p \in lifting})
      BY <2>1, <3>1, ImageIs
    <3>3. H \in SUBSET Nat /\ H # {}
      BY <1>4, <2>1
    <3> QED
      BY <3>2, <3>3 DEF Numbers
  <2>3. top \in H
    BY <1>4, <2>2, Extremes
  <2>4. PICK p \in lifting : top = Height(told(p))
    BY <2>3
  <2> HIDE DEF top
  <2>5. Height(told(p)) # 0
    BY <1>3, <1>6, <2>4
  <2>6. PHASE_PROGRESSION[top] = told(p)
    BY <1>3, <2>4, <2>5
  <2> QED
    BY <1>1, <1>2, <1>5, <1>6, <2>6
<1>7. CASE ~(from # {} /\ top > Height(stage))
  <2> HIDE DEF top, from
  <2> QED
    BY <1>2, <1>5, <1>7
<1> QED
  BY <1>6, <1>7

-----------------------------------------------------------------------------
(* The derived row.                                                        *)

Values(cs, f) == {cs[p].claims[f].value : p \in LivePages(cs, f)}

Told(cs) == {BLOCK_STATUS_TO_PHASE[cs[p].tranche.status] : p \in Described(cs)}

By(cs, at)           == ClaimsByField(cs, at)
Counted(cs, at)      == HoldOutKilowatts(By(cs, at))
Resolved(cs, at, held) == Chosen(By(cs, at), Counted(cs, at), held)

\* A field is empty when no claim of it counts, else as a live page claims.
LEMMA ResolvedIs ==
  ASSUME NEW cs, NEW at, Cites(cs), Order(cs, at), NEW held, NEW f \in CLAIM_OWNED_FIELDS
  PROVE  /\ Values(cs, f) \subseteq Value(f)
         /\ {By(cs, at)[f][i].value : i \in Counted(cs, at)[f]} \subseteq Values(cs, f)
         /\ Counted(cs, at)[f] = {} => Resolved(cs, at, held)[f] = Empty(f)
         /\ Counted(cs, at)[f] # {} => Resolved(cs, at, held)[f] \in Values(cs, f)
<1> DEFINE s    == By(cs, at)[f]
           live == Counted(cs, at)[f]
<1>1. f \in Fields
  BY ValueIs
<1>2. Resolved(cs, at, held)[f] = ResolveField(f, s, live, held[f])
  BY <1>1 DEF Resolved, Chosen
<1>3. /\ Holds(f, s, live)
      /\ \A i \in live : \E p \in LivePages(cs, f) : s[i] = ClaimOf(cs, at, p, f)
  BY <1>1, LiveIs DEF Counted, By
<1>4. \A p : ClaimOf(cs, at, p, f).value = cs[p].claims[f].value
  BY DEF ClaimOf
<1> HIDE DEF s, live
<1>5. Values(cs, f) \subseteq Value(f)
  BY DEF Values, LivePages, Cites, Sound, Stateable
<1>6. \A i \in live : s[i].value \in Values(cs, f)
  BY <1>3, <1>4 DEF Values
<1>7. live = {} => ResolveField(f, s, live, held[f]) = Empty(f)
  BY <1>3, ResolveIs
<1>8. Contenders(s, live) \subseteq live
  BY ContendersAre
<1>9. live # {} => \E i \in live : ResolveField(f, s, live, held[f]) = s[i].value
  BY <1>3, <1>8, ResolveIs
<1> QED
  BY <1>2, <1>5, <1>6, <1>7, <1>9 DEF s, live

\* What a row derived from citations says, whatever was held: every claim-owned value is stated.
StatedBy(cs, r) ==
  /\ r.mw_planned \in {0, TrancheSum(cs, FALSE)} \cup Values(cs, "mw_planned")
                      \cup Values(cs, "mw_built")
  /\ r.mw_built \in {0, TrancheSum(cs, TRUE)} \cup Values(cs, "mw_built")
     \/ r.mw_built = r.mw_planned
  /\ r.first_announced \in {0} \cup Values(cs, "first_announced")
  /\ r.phase \in {DEFAULT_PHASE} \cup Values(cs, "phase") \cup Told(cs)

\* The row's capacities.
LEMMA CapacitiesDerived ==
  ASSUME NEW cs, NEW at, Cites(cs), Order(cs, at), NEW held
  PROVE  LET r == Recompute(cs, at, held)
         IN  /\ r.mw_planned \in Nat /\ r.mw_built \in Nat
             /\ r.mw_planned \in {0, TrancheSum(cs, FALSE)} \cup Values(cs, "mw_planned")
                                 \cup Values(cs, "mw_built")
             /\ r.mw_built \in {0, TrancheSum(cs, TRUE)} \cup Values(cs, "mw_built")
                \/ r.mw_built = r.mw_planned
             /\ Counted(cs, at)["mw_planned"] # {} => ~Breaks(r)
<1> DEFINE by      == By(cs, at)
           live    == Counted(cs, at)
           chosen  == Resolved(cs, at, held)
           planned == chosen["mw_planned"]
           built   == chosen["mw_built"]
           agreed  == SettleCapacity(planned, built, by, live)
           filled  == Fill(cs, agreed[1], agreed[2])
           r       == Recompute(cs, at, held)
           V(f)    == Values(cs, f)
<1>1. {"mw_planned", "mw_built"} \subseteq CLAIM_OWNED_FIELDS
      /\ {"mw_planned", "mw_built"} \subseteq Fields
  BY ValueIs
<1>2. r = Derive(cs, by, live, chosen)
  BY DEF Recompute, By, Counted, Resolved
<1> HIDE DEF by, live, chosen
<1>3. r.mw_planned = filled[1] /\ r.mw_built = filled[2]
  BY <1>2 DEF Derive
<1>4. /\ Value("mw_planned") = Nat \ {0} /\ Value("mw_built") = Nat \ {0}
      /\ Empty("mw_planned") = 0 /\ Empty("mw_built") = 0
  BY <1>1, ValueIs DEF Empty
<1>5. /\ V("mw_planned") \subseteq Nat \ {0} /\ V("mw_built") \subseteq Nat \ {0}
      /\ {by["mw_planned"][i].value : i \in live["mw_planned"]} \subseteq V("mw_planned")
      /\ {by["mw_built"][i].value : i \in live["mw_built"]} \subseteq V("mw_built")
      /\ IF live["mw_planned"] = {} THEN planned = 0 ELSE planned \in V("mw_planned")
      /\ IF live["mw_built"] = {} THEN built = 0 ELSE built \in V("mw_built")
  BY <1>1, <1>4, ResolvedIs DEF by, live, chosen
<1>6. Holds("mw_planned", by["mw_planned"], live["mw_planned"])
      /\ Holds("mw_built", by["mw_built"], live["mw_built"])
  BY <1>1, LiveIs DEF by, live, By, Counted
<1>7. planned \in Nat /\ built \in Nat
  BY <1>5
<1> HIDE DEF planned, built
<1>8. /\ agreed[1] \in Nat /\ agreed[2] \in Nat
      /\ agreed[1] \in {planned, built} \cup {by["mw_planned"][i].value : i \in live["mw_planned"]}
      /\ agreed[2] \in {0, built} \cup {by["mw_built"][i].value : i \in live["mw_built"]}
      /\ planned # 0 => agreed[1] # 0 /\ agreed[2] <= agreed[1]
      /\ planned = 0 => agreed[1] = 0
  BY <1>6, <1>7, CapacityIs
<1> HIDE DEF agreed, V
<1>9. /\ agreed[1] \in {0} \cup V("mw_planned") \cup V("mw_built")
      /\ agreed[2] \in {0} \cup V("mw_built")
  BY <1>5, <1>8
<1> DEFINE sum    == TrancheSum(cs, FALSE)
           summed == TrancheSum(cs, TRUE)
<1>10. sum \in Nat /\ summed \in Nat
  BY TrancheSumIs DEF Cites, Sound, Placeable
<1>11. /\ filled[1] = IF agreed[1] = 0 THEN sum ELSE agreed[1]
       /\ filled[2] = IF agreed[2] # 0 THEN agreed[2]
                      ELSE IF filled[1] # 0 /\ summed > filled[1] THEN filled[1] ELSE summed
  BY DEF Fill
<1> HIDE DEF filled, sum, summed, r
<1>12. filled[1] \in Nat /\ filled[2] \in Nat
  BY <1>8, <1>10, <1>11
<1>13. filled[1] \in {0, sum} \cup V("mw_planned") \cup V("mw_built")
  BY <1>9, <1>11
<1>14. filled[2] \in {0, summed} \cup V("mw_built") \/ filled[2] = filled[1]
  BY <1>9, <1>11
<1>15. ASSUME live["mw_planned"] # {} PROVE ~Breaks(r)
  <2>1. planned # 0
    BY <1>5, <1>15
  <2>2. agreed[1] # 0 /\ agreed[2] <= agreed[1] /\ filled[1] = agreed[1]
    BY <1>8, <1>11, <2>1
  <2>3. ~(filled[2] > filled[1])
    BY <1>8, <1>10, <1>11, <2>2
  <2> QED
    BY <1>3, <2>3 DEF Breaks
<1> QED
  BY <1>3, <1>12, <1>13, <1>14, <1>15 DEF r, V, sum, summed, live

\* The row's day of announcement: known when a live page states one.
LEMMA DayDerived ==
  ASSUME NEW cs, NEW at, Cites(cs), Order(cs, at), NEW held
  PROVE  LET r == Recompute(cs, at, held)
         IN  /\ r.first_announced \in {0} \cup Values(cs, "first_announced")
             /\ r.first_announced \in Nat
             /\ r.first_announced # 0 <=> LivePages(cs, "first_announced") # {}
<1> DEFINE f    == "first_announced"
           live == Counted(cs, at)[f]
<1>1. f \in CLAIM_OWNED_FIELDS /\ f \in Fields /\ f \notin CAPACITY_FIELDS
  BY ValueIs DEF CAPACITY_FIELDS
<1>2. Recompute(cs, at, held).first_announced = Resolved(cs, at, held)[f]
  BY DEF Recompute, Derive, Resolved, By, Counted
<1>3. /\ Values(cs, f) \subseteq Value(f)
      /\ live = {} => Resolved(cs, at, held)[f] = Empty(f)
      /\ live # {} => Resolved(cs, at, held)[f] \in Values(cs, f)
  BY <1>1, ResolvedIs
<1>4. Value(f) = Nat \ {0} /\ Empty(f) = 0
  BY <1>1, ValueIs DEF Empty
<1>5. live # {} <=> LivePages(cs, f) # {}
  BY <1>1, LiveIs DEF Counted, By
<1> HIDE DEF live
<1> QED
  BY <1>2, <1>3, <1>4, <1>5

\* The row's phase.
LEMMA PhaseDerived ==
  ASSUME NEW cs, NEW at, Cites(cs), Order(cs, at), NEW held
  PROVE  LET r == Recompute(cs, at, held)
         IN  /\ r.phase \in {DEFAULT_PHASE} \cup Values(cs, "phase") \cup Told(cs)
             /\ r.phase \in Rungs \cup PHASE_TERMINAL
             /\ \/ r.phase \in Told(cs)
                \/ r.phase = DEFAULT_PHASE /\ Counted(cs, at)["phase"] = {}
                \/ r.phase = Resolved(cs, at, held)["phase"]
<1> DEFINE f       == "phase"
           live    == Counted(cs, at)[f]
           chosen  == Resolved(cs, at, held)[f]
           stage   == IF chosen = "none" THEN DEFAULT_PHASE ELSE chosen
           deciding == {By(cs, at)[f][i] : i \in Contenders(By(cs, at)[f], live)}
           r       == Recompute(cs, at, held)
<1>1. f \in CLAIM_OWNED_FIELDS
  BY ValueIs
<1>2. r.phase = SettledPhase(cs, stage, deciding)
  BY DEF Recompute, Derive, Resolved, By, Counted
<1>3. /\ Values(cs, f) \subseteq Value(f)
      /\ live = {} => chosen = Empty(f)
      /\ live # {} => chosen \in Values(cs, f)
  BY <1>1, ResolvedIs
<1>4. Value(f) = Rungs \cup PHASE_TERMINAL /\ Empty(f) = "none" /\ Empty(f) \notin Value(f)
  BY <1>1, ValueIs DEF Empty
<1> HIDE DEF r, chosen, live, deciding
<1>5. r.phase \in {stage} \cup Told(cs) /\ Told(cs) \subseteq Rungs
  <2> HIDE DEF stage
  <2> QED
    BY <1>2, SettledPhaseIs DEF Told
<1>6. /\ r.phase \in {DEFAULT_PHASE} \cup Values(cs, f) \cup Told(cs)
      /\ r.phase \in Rungs \cup PHASE_TERMINAL
      /\ \/ r.phase \in Told(cs)
         \/ r.phase = DEFAULT_PHASE /\ live = {}
         \/ r.phase = chosen
  <2>1. CASE live = {}
    BY <1>3, <1>4, <1>5, <2>1, RungIs
  <2>2. CASE live # {}
    BY <1>3, <1>4, <1>5, <2>2
  <2> QED
    BY <2>1, <2>2
<1> QED
  BY <1>6 DEF r, chosen, live

\* Deriving the row again changes nothing: of what was held only the city counts, and it stays.
LEMMA DerivedAgain ==
  ASSUME NEW cs, NEW at, NEW held
  PROVE  Recompute(cs, at, Recompute(cs, at, held)) = Recompute(cs, at, held)
<1> DEFINE by   == By(cs, at)
           live == Counted(cs, at)
           r    == Recompute(cs, at, held)
<1>1. \A h : Recompute(cs, at, h) = Derive(cs, by, live, Chosen(by, live, h))
  BY DEF Recompute, By, Counted
<1> HIDE DEF by, live
<1>2. r.city = Chosen(by, live, held)["city"]
  <2> DEFINE chosen == Chosen(by, live, held)
  <2>1. r = Derive(cs, by, live, chosen)
    BY <1>1
  <2> HIDE DEF chosen, r
  <2>2. r.city = chosen["city"]
    BY <2>1 DEF Derive
  <2> QED
    BY <2>2 DEF chosen
<1> HIDE DEF r
<1>3. Chosen(by, live, r) = Chosen(by, live, held)
  <2>1. ASSUME NEW f \in Fields
        PROVE  ResolveField(f, by[f], live[f], r[f]) = ResolveField(f, by[f], live[f], held[f])
    <3>1. CASE f \in CLAIM_OWNED_FIELDS
      BY <3>1, ResolveForgets
    <3>2. CASE f = "city"
      <4>1. r.city = r["city"] /\ r["city"] = ResolveField("city", by["city"], live["city"], held["city"])
        BY <1>2, <3>2 DEF Chosen
      <4> QED
        BY <3>2, <4>1, CityStays
    <3> QED
      BY <3>1, <3>2, ValueIs
  <2> QED
    BY <2>1 DEF Chosen
<1> QED
  BY <1>1, <1>3 DEF r

-----------------------------------------------------------------------------
(* What each operation makes of a citation.                                *)

\* A ruling on a claim is still one, where the claim is still made.
KeepsRulings(old, new) ==
  \A f \in DOMAIN old.claims \cap DOMAIN new.claims :
    old.claims[f].ruling # "none" => new.claims[f].ruling # "none"

LEMMA StoredIs ==
  ASSUME NEW f, NEW c, NEW quoted, NEW flagged, NEW ruling
  PROVE  /\ Stateable(f, c) => Stateable(f, Stored(c, quoted, flagged, ruling))
         /\ Stored(c, quoted, flagged, ruling).ruling = ruling
         /\ Stored(c, quoted, flagged, ruling).quoted = quoted
BY DEF Stored, Stateable

LEMMA CitationIs ==
  ASSUME NEW claims, NEW tranche, NEW struck
  PROVE  LET c == Citation(claims, tranche, struck)
         IN  c.claims = claims /\ c.tranche = tranche /\ c.struck = struck
BY DEF Citation

LEMMA ReadingIs ==
  ASSUME NEW p \in Pages, NEW reading \in Readings[p]
  PROVE  /\ DOMAIN reading.claims \subseteq Fields
         /\ \A f \in DOMAIN reading.claims : Stateable(f, reading.claims[f])
         /\ Placeable(reading.tranche)
BY CampusAssumption

\* A reading with a ruling for each of its fields makes a citation.
LEMMA FreshSound ==
  ASSUME NEW p \in Pages, NEW reading \in Readings[p], NEW ruling,
         \A f \in DOMAIN reading.claims : ruling[f] \in Rulings \cup {"none"}, NEW struck
  PROVE  Sound(Citation([f \in DOMAIN reading.claims |-> Fresh(reading.claims[f], ruling[f])],
                        reading.tranche, struck))
<1> DEFINE claims == [f \in DOMAIN reading.claims |-> Fresh(reading.claims[f], ruling[f])]
<1>1. DOMAIN claims = DOMAIN reading.claims
  OBVIOUS
<1>2. ASSUME NEW f \in DOMAIN claims
      PROVE  Stateable(f, claims[f]) /\ claims[f].ruling = ruling[f]
  <2>1. claims[f] = Fresh(reading.claims[f], ruling[f]) /\ Stateable(f, reading.claims[f])
    BY ReadingIs
  <2> HIDE DEF claims
  <2> QED
    BY <2>1, StoredIs DEF Fresh
<1> HIDE DEF claims
<1>3. Sound(Citation(claims, reading.tranche, struck))
  BY <1>1, <1>2, ReadingIs, CitationIs DEF Sound
<1> QED
  BY <1>3 DEF claims

LEMMA AsReadSound ==
  ASSUME NEW p \in Pages, NEW reading \in Readings[p]
  PROVE  Sound(AsRead(reading))
<1> DEFINE ruling == [f \in DOMAIN reading.claims |-> "none"]
           claims == [f \in DOMAIN reading.claims |-> Fresh(reading.claims[f], ruling[f])]
<1>1. \A f \in DOMAIN reading.claims : ruling[f] \in Rulings \cup {"none"}
  OBVIOUS
<1>2. claims = [f \in DOMAIN reading.claims |-> Fresh(reading.claims[f], "none")]
  OBVIOUS
<1>3. Sound(Citation(claims, reading.tranche, FALSE))
  <2> HIDE DEF ruling
  <2> QED
    BY <1>1, FreshSound
<1> QED
  BY <1>2, <1>3 DEF AsRead

\* Claims put back from an earlier copy; those put back were not there.
LEMMA ReinstateIs ==
  ASSUME NEW now, Sound(now), NEW old, Sound(old), NEW names, names \subseteq DOMAIN old.claims
  PROVE  LET new == Reinstate(now, old, names)
         IN  /\ Sound(new)
             /\ DOMAIN new.claims = DOMAIN now.claims \cup names
             /\ \A f \in DOMAIN new.claims :
                  new.claims[f] = IF f \in names THEN AsHeld(old.claims[f]) ELSE now.claims[f]
             /\ \A f \in names : new.claims[f].ruling = old.claims[f].ruling
             /\ \A f \in names : new.claims[f].value = old.claims[f].value
<1> DEFINE claims == [f \in DOMAIN now.claims \cup names |->
                        IF f \in names THEN AsHeld(old.claims[f]) ELSE now.claims[f]]
           new == Reinstate(now, old, names)
<1>1. new.claims = claims /\ new.tranche = now.tranche
  BY CitationIs DEF Reinstate
<1>2. DOMAIN claims = DOMAIN now.claims \cup names
  OBVIOUS
<1>3. \A f \in DOMAIN claims :
        claims[f] = IF f \in names THEN AsHeld(old.claims[f]) ELSE now.claims[f]
  OBVIOUS
<1> HIDE DEF claims, new
<1>4. \A f : /\ Stateable(f, old.claims[f]) => Stateable(f, AsHeld(old.claims[f]))
             /\ AsHeld(old.claims[f]).ruling = old.claims[f].ruling
             /\ AsHeld(old.claims[f]).value = old.claims[f].value
  BY StoredIs DEF AsHeld, Stored
<1>5. \A f \in DOMAIN claims : /\ Stateable(f, claims[f])
                               /\ claims[f].ruling \in Rulings \cup {"none"}
  BY <1>2, <1>3, <1>4 DEF Sound
<1>6. Sound(new)
  BY <1>1, <1>2, <1>5 DEF Sound
<1> QED
  BY <1>1, <1>2, <1>3, <1>4, <1>6 DEF new

\* A re-reading: what it carries over and what it puts back.
LEMMA RereadIs ==
  ASSUME NEW p \in Pages, NEW reading \in Readings[p], NEW old, Sound(old), NEW holds
  PROVE  LET new == Reread(old, reading, holds)
         IN  /\ Sound(new) /\ KeepsRulings(old, new)
             /\ DOMAIN new.claims = DOMAIN reading.claims \cup OmittedQuietly(old, reading, holds)
             /\ \A f \in OmittedQuietly(old, reading, holds) :
                  new.claims[f].ruling = old.claims[f].ruling
<1> DEFINE carried == Carried(old, reading)
           read    == [f \in DOMAIN reading.claims |-> Fresh(reading.claims[f], carried[f])]
           now     == Citation(read, reading.tranche, old.struck)
           names   == OmittedQuietly(old, reading, holds)
           new     == Reread(old, reading, holds)
<1>1. new = Reinstate(now, old, names)
  BY DEF Reread
<1>2. \A f \in DOMAIN reading.claims :
        carried[f] = IF f \in DOMAIN old.claims THEN old.claims[f].ruling ELSE "none"
  BY DEF Carried
<1> HIDE DEF carried
<1>3. \A f \in DOMAIN reading.claims : carried[f] \in Rulings \cup {"none"}
  BY <1>2 DEF Sound
<1>4. Sound(now)
  BY <1>3, FreshSound
<1>5. names \subseteq DOMAIN old.claims /\ \A f \in names : f \notin DOMAIN reading.claims
  BY DEF OmittedQuietly
<1>6. now.claims = read /\ DOMAIN read = DOMAIN reading.claims
  BY CitationIs
<1>7. \A f \in DOMAIN reading.claims : read[f].ruling = carried[f]
  <2>1. \A c, r : Fresh(c, r).ruling = r
    BY StoredIs DEF Fresh
  <2>2. \A f \in DOMAIN reading.claims : read[f] = Fresh(reading.claims[f], carried[f])
    OBVIOUS
  <2> HIDE DEF read
  <2> QED
    BY <2>1, <2>2
<1> HIDE DEF now, read, names, new
<1>8. /\ Sound(new) /\ DOMAIN new.claims = DOMAIN now.claims \cup names
      /\ \A f \in DOMAIN new.claims :
           new.claims[f] = IF f \in names THEN AsHeld(old.claims[f]) ELSE now.claims[f]
      /\ \A f \in names : new.claims[f].ruling = old.claims[f].ruling
  BY <1>1, <1>4, <1>5, ReinstateIs
<1>9. KeepsRulings(old, new)
  BY <1>2, <1>5, <1>6, <1>7, <1>8 DEF KeepsRulings
<1> QED
  BY <1>6, <1>8, <1>9 DEF new, names

\* A second reading folded into the first takes over no claim that was ruled on.
LEMMA AbsorbIs ==
  ASSUME NEW into, Sound(into), NEW other, Sound(other)
  PROVE  Sound(Absorb(into, other)) /\ KeepsRulings(into, Absorb(into, other))
<1> DEFINE Takes(f) == \/ f \notin DOMAIN into.claims
                       \/ /\ into.claims[f].ruling = "none" /\ into.claims[f].flagged
                          /\ ~other.claims[f].flagged
           claims == [f \in DOMAIN into.claims \cup DOMAIN other.claims |->
                        IF f \in DOMAIN other.claims /\ Takes(f) THEN other.claims[f]
                                                                 ELSE into.claims[f]]
           tranche == IF into.tranche = NoTranche THEN other.tranche ELSE into.tranche
           new == Absorb(into, other)
<1>1. new.claims = claims /\ new.tranche = tranche
  <2>1. new = Citation(claims, tranche, FALSE)
    BY DEF Absorb
  <2> HIDE DEF new, claims, tranche
  <2> QED
    BY <2>1 DEF Citation
<1>2. \A f \in DOMAIN claims :
        \/ f \in DOMAIN other.claims /\ Takes(f) /\ claims[f] = other.claims[f]
        \/ f \in DOMAIN into.claims /\ claims[f] = into.claims[f]
  OBVIOUS
<1>3. \A f \in DOMAIN into.claims : into.claims[f].ruling # "none" => claims[f] = into.claims[f]
  OBVIOUS
<1>4. Placeable(tranche)
  BY DEF Sound
<1> HIDE DEF claims, tranche, new
<1>5. Sound(new)
  BY <1>1, <1>2, <1>4 DEF Sound
<1>6. KeepsRulings(into, new)
  BY <1>1, <1>3 DEF KeepsRulings
<1> QED
  BY <1>5, <1>6 DEF new

-----------------------------------------------------------------------------
(* The pages in the order they were fetched.                               *)

\* A sequence without one of its places.
LEMMA RemoveAtIs ==
  ASSUME NEW S, NEW at \in Seq(S), NEW i \in 1..Len(at)
  PROVE  /\ RemoveAt(at, i) \in Seq(S) /\ Len(RemoveAt(at, i)) = Len(at) - 1
         /\ \A k \in 1..(Len(at) - 1) :
              RemoveAt(at, i)[k] = IF k < i THEN at[k] ELSE at[k + 1]
<1> DEFINE n == Len(at)
<1>1. n \in Nat /\ i \in 1..n
  BY LenProperties
<1> DEFINE u == SubSeq(at, 1, i - 1)
           v == SubSeq(at, i + 1, n)
           w == u \o v
<1>2. \A k \in 1..n : at[k] \in S
  BY ElementOfSeq
<1>3. RemoveAt(at, i) = w
  BY DEF RemoveAt
<1> HIDE DEF n
<1>4. u \in Seq(S) /\ Len(u) = i - 1 /\ \A k \in 1..(i - 1) : u[k] = at[k]
  <2>1. i - 1 \in Int /\ 1 \in Int /\ \A k \in 1..(i - 1) : at[k] \in S
    BY <1>1, <1>2
  <2>2. /\ u \in Seq(S) /\ Len(u) = IF 1 <= i - 1 THEN (i - 1) - 1 + 1 ELSE 0
        /\ \A k \in 1..((i - 1) - 1 + 1) : u[k] = at[1 + k - 1]
    BY <2>1, SubSeqProperties
  <2> HIDE DEF u
  <2> QED
    BY <1>1, <2>2
<1>5. v \in Seq(S) /\ Len(v) = n - i /\ \A k \in 1..(n - i) : v[k] = at[k + i]
  <2>1. i + 1 \in Int /\ n \in Int /\ \A k \in (i + 1)..n : at[k] \in S
    BY <1>1, <1>2
  <2>2. /\ v \in Seq(S) /\ Len(v) = IF i + 1 <= n THEN n - (i + 1) + 1 ELSE 0
        /\ \A k \in 1..(n - (i + 1) + 1) : v[k] = at[i + 1 + k - 1]
    BY <2>1, SubSeqProperties
  <2>3. ASSUME NEW k \in 1..(n - i) PROVE v[k] = at[k + i]
    <3>1. k \in 1..(n - (i + 1) + 1) /\ i + 1 + k - 1 = k + i
      BY <1>1
    <3> QED
      BY <2>2, <3>1
  <2> HIDE DEF v
  <2>4. Len(v) = n - i
    BY <1>1, <2>2
  <2> QED
    BY <2>2, <2>3, <2>4
<1> HIDE DEF u, v
<1>6. /\ w \in Seq(S) /\ Len(w) = Len(u) + Len(v)
      /\ \A k \in 1..(Len(u) + Len(v)) : w[k] = IF k <= Len(u) THEN u[k] ELSE v[k - Len(u)]
  BY <1>4, <1>5, ConcatProperties
<1> HIDE DEF w
<1>7. Len(w) = n - 1
  BY <1>1, <1>4, <1>5, <1>6
<1>8. ASSUME NEW k \in 1..(n - 1), k < i PROVE w[k] = at[k]
  <2>1. k \in 1..(i - 1) /\ k <= Len(u) /\ k \in 1..(Len(u) + Len(v))
    BY <1>1, <1>4, <1>5, <1>8
  <2> QED
    BY <1>4, <1>6, <2>1
<1>9. ASSUME NEW k \in 1..(n - 1), ~(k < i) PROVE w[k] = at[k + 1]
  <2>1. /\ ~(k <= Len(u)) /\ k - Len(u) \in 1..(n - i) /\ (k - Len(u)) + i = k + 1
        /\ k \in 1..(Len(u) + Len(v))
    BY <1>1, <1>4, <1>5, <1>9
  <2>2. w[k] = v[k - Len(u)]
    BY <1>6, <2>1
  <2> QED
    BY <1>5, <2>1, <2>2
<1> QED
  BY <1>3, <1>6, <1>7, <1>8, <1>9 DEF n

LEMMA WithSound ==
  ASSUME NEW cs, Cites(cs), NEW p \in Pages, NEW c, Sound(c)
  PROVE  Cites(With(cs, p, c))
<1> DEFINE new == With(cs, p, c)
<1>1. IsFiniteSet(DOMAIN cs \cup {p})
  BY FS_AddElement DEF Cites
<1>2. /\ DOMAIN new = DOMAIN cs \cup {p} /\ new[p] = c
      /\ \A q \in DOMAIN cs : q # p => new[q] = cs[q]
  BY DEF With
<1> HIDE DEF new
<1>3. Cites(new)
  BY <1>1, <1>2 DEF Cites
<1> QED
  BY <1>3 DEF new

\* A page cited already keeps its place.
LEMMA OrderKept ==
  ASSUME NEW cs, NEW at, Order(cs, at), NEW p \in DOMAIN cs, NEW c
  PROVE  Order(With(cs, p, c), at)
<1>1. DOMAIN With(cs, p, c) = DOMAIN cs
  BY DEF With
<1> QED
  BY <1>1 DEF Order

\* Two orders joined are one of the pages of both.
LEMMA Joined ==
  ASSUME NEW a \in Seq(Pages), NEW b \in Seq(Pages), NEW cs, ToSet(a) \cup ToSet(b) = DOMAIN cs,
         ToSet(a) \cap ToSet(b) = {},
         \A i, j \in 1..Len(a) : a[i] = a[j] => i = j,
         \A i, j \in 1..Len(b) : b[i] = b[j] => i = j
  PROVE  Order(cs, a \o b)
<1> DEFINE w == a \o b
           m == Len(a)
           n == Len(b)
<1>1. m \in Nat /\ n \in Nat /\ DOMAIN a = 1..m /\ DOMAIN b = 1..n
  BY LenProperties
<1>2. /\ w \in Seq(Pages) /\ Len(w) = m + n
      /\ \A k \in 1..(m + n) : w[k] = IF k <= m THEN a[k] ELSE b[k - m]
  BY ConcatProperties
<1>3. DOMAIN w = 1..(m + n)
  BY <1>2, LenProperties
<1> HIDE DEF w, m, n
<1>4. \A k \in 1..(m + n) : IF k <= m THEN k \in DOMAIN a /\ w[k] = a[k]
                                      ELSE k - m \in DOMAIN b /\ w[k] = b[k - m]
  BY <1>1, <1>2
<1>5. ToSet(w) = ToSet(a) \cup ToSet(b)
  <2>1. \A x \in ToSet(w) : x \in ToSet(a) \cup ToSet(b)
    BY <1>3, <1>4 DEF ToSet
  <2>2. ASSUME NEW x \in ToSet(a) PROVE x \in ToSet(w)
    <3>1. PICK i \in 1..m : x = a[i]
      BY <1>1 DEF ToSet
    <3>2. i \in 1..(m + n) /\ w[i] = x
      BY <1>1, <1>2, <3>1
    <3> QED
      BY <1>3, <3>2 DEF ToSet
  <2>3. ASSUME NEW x \in ToSet(b) PROVE x \in ToSet(w)
    <3>1. PICK i \in 1..n : x = b[i]
      BY <1>1 DEF ToSet
    <3>2. i + m \in 1..(m + n) /\ ~(i + m <= m) /\ (i + m) - m = i
      BY <1>1
    <3>3. w[i + m] = x
      BY <1>2, <3>1, <3>2
    <3> QED
      BY <1>3, <3>2, <3>3 DEF ToSet
  <2> QED
    BY <2>1, <2>2, <2>3
<1>6. ASSUME NEW k \in 1..(m + n), NEW l \in 1..(m + n), w[k] = w[l] PROVE k = l
  <2>1. CASE k <= m /\ l <= m
    <3>1. k \in 1..m /\ l \in 1..m /\ a[k] = a[l]
      BY <1>1, <1>4, <1>6, <2>1
    <3> QED
      BY <3>1 DEF m
  <2>2. CASE ~(k <= m) /\ ~(l <= m)
    <3>1. k - m \in 1..n /\ l - m \in 1..n /\ b[k - m] = b[l - m]
      BY <1>1, <1>4, <1>6, <2>2
    <3>2. k - m = l - m
      BY <3>1 DEF n
    <3> QED
      BY <1>1, <3>2
  <2>3. CASE k <= m /\ ~(l <= m)
    <3>1. w[k] \in ToSet(a) /\ w[l] \in ToSet(b)
      BY <1>4, <2>3 DEF ToSet
    <3> QED
      BY <1>6, <3>1
  <2>4. CASE ~(k <= m) /\ l <= m
    <3>1. w[k] \in ToSet(b) /\ w[l] \in ToSet(a)
      BY <1>4, <2>4 DEF ToSet
    <3> QED
      BY <1>6, <3>1
  <2> QED
    BY <2>1, <2>2, <2>3, <2>4
<1>7. Order(cs, w)
  BY <1>2, <1>5, <1>6 DEF Order
<1> QED
  BY <1>7 DEF w

\* One page alone.
LEMMA OneIs ==
  ASSUME NEW p \in Pages
  PROVE  /\ <<p>> \in Seq(Pages) /\ ToSet(<<p>>) = {p}
         /\ \A i, j \in 1..Len(<<p>>) : <<p>>[i] = <<p>>[j] => i = j
BY DEF ToSet

\* A page that a merge brings comes first, before those the row has.
LEMMA OrderFirst ==
  ASSUME NEW cs, NEW at, Order(cs, at), NEW p \in Pages \ DOMAIN cs, NEW c
  PROVE  Order(With(cs, p, c), <<p>> \o at)
<1>1. DOMAIN With(cs, p, c) = DOMAIN cs \cup {p}
  BY DEF With
<1>2. ToSet(<<p>>) = {p} /\ ToSet(at) = DOMAIN cs
  BY OneIs DEF Order
<1>3. ToSet(<<p>>) \cup ToSet(at) = DOMAIN With(cs, p, c) /\ ToSet(<<p>>) \cap ToSet(at) = {}
  BY <1>1, <1>2
<1> QED
  BY <1>3, OneIs, Joined DEF Order

\* A page fetched comes last.
LEMMA OrderLast ==
  ASSUME Order(cites, fetched), NEW p \in Pages, NEW c
  PROVE  Order(With(cites, p, c), FetchedLast(p))
<1> DEFINE n    == Len(fetched)
           i    == Place(fetched, p)
           rest == IF p \in Cited THEN RemoveAt(fetched, i) ELSE fetched
<1>1. /\ fetched \in Seq(Pages) /\ n \in Nat /\ ToSet(fetched) = Cited /\ DOMAIN fetched = 1..n
      /\ \A k, l \in 1..n : fetched[k] = fetched[l] => k = l
  BY LenProperties DEF Order, Cited
<1>2. /\ rest \in Seq(Pages) /\ ToSet(rest) = Cited \ {p}
      /\ \A k, l \in 1..Len(rest) : rest[k] = rest[l] => k = l
  <2>1. CASE p \notin Cited
    BY <1>1, <2>1
  <2>2. CASE p \in Cited
    <3>1. i \in 1..n /\ fetched[i] = p
      BY <2>2, PlaceIs DEF Cited
    <3> HIDE DEF i, n
    <3> DEFINE w == RemoveAt(fetched, i)
               old(k) == IF k < i THEN k ELSE k + 1
    <3>2. /\ w \in Seq(Pages) /\ Len(w) = n - 1
          /\ \A k \in 1..(n - 1) : w[k] = IF k < i THEN fetched[k] ELSE fetched[k + 1]
      BY <1>1, <3>1, RemoveAtIs DEF n
    <3>3. DOMAIN w = 1..(n - 1)
      BY <3>2, LenProperties
    <3> HIDE DEF w
    <3>4. \A k \in 1..(n - 1) : old(k) \in 1..n /\ old(k) # i /\ w[k] = fetched[old(k)]
      BY <1>1, <3>1, <3>2
    <3>5. \A k, l \in 1..(n - 1) : w[k] = w[l] => k = l
      <4> SUFFICES ASSUME NEW k \in 1..(n - 1), NEW l \in 1..(n - 1), w[k] = w[l] PROVE k = l
        OBVIOUS
      <4>1. old(k) = old(l)
        <5> HIDE DEF old
        <5> QED
          BY <1>1, <3>4
      <4> QED
        BY <1>1, <3>1, <4>1
    <3>6. ASSUME NEW q \in Cited \ {p} PROVE \E k \in 1..(n - 1) : w[k] = q
      <4>1. PICK j \in 1..n : fetched[j] = q
        BY <1>1 DEF ToSet
      <4>2. j # i
        BY <3>1, <4>1
      <4>3. CASE j < i
        <5>1. j \in 1..(n - 1) /\ w[j] = q
          BY <1>1, <3>1, <3>2, <4>1, <4>3
        <5> QED
          BY <5>1
      <4>4. CASE i < j
        <5>1. j - 1 \in 1..(n - 1) /\ ~(j - 1 < i) /\ (j - 1) + 1 = j
          BY <1>1, <3>1, <4>4
        <5>2. w[j - 1] = q
          BY <3>2, <4>1, <5>1
        <5> QED
          BY <5>1, <5>2
      <4> QED
        BY <1>1, <3>1, <4>2, <4>3, <4>4
    <3>7. \A k \in 1..(n - 1) : w[k] \in Cited /\ w[k] # p
      <4> HIDE DEF old
      <4> QED
        BY <1>1, <3>1, <3>4 DEF ToSet
    <3>8. ToSet(w) = Cited \ {p}
      BY <3>3, <3>6, <3>7 DEF ToSet
    <3> QED
      BY <2>2, <3>2, <3>5, <3>8 DEF w, i
  <2> QED
    BY <2>1, <2>2
<1> HIDE DEF rest
<1>3. Append(rest, p) = rest \o <<p>>
  BY <1>2, AppendIsConcat
<1>4. ToSet(rest) \cup ToSet(<<p>>) = DOMAIN With(cites, p, c) /\ ToSet(rest) \cap ToSet(<<p>>) = {}
  <2>1. DOMAIN With(cites, p, c) = Cited \cup {p}
    BY DEF With, Cited
  <2>2. ToSet(<<p>>) = {p} /\ ToSet(rest) = Cited \ {p}
    BY <1>2, OneIs
  <2> QED
    BY <2>1, <2>2
<1>5. Order(With(cites, p, c), rest \o <<p>>)
  BY <1>2, <1>4, OneIs, Joined
<1> QED
  BY <1>3, <1>5 DEF FetchedLast, rest

-----------------------------------------------------------------------------
(* The invariant.                                                          *)

IInv ==
  /\ Cites(cites) /\ Order(cites, fetched)
  /\ Cites(night.cites)
  /\ ops \in 0..OpBound
  /\ Settled

\* No citations are well-formed, and what is derived of none is an empty row.
LEMMA NoneDerived ==
  /\ Cites(<<>>) /\ Order(<<>>, <<>>)
  /\ \A held : LET r == Recompute(<<>>, <<>>, held)
               IN  /\ r.mw_planned = 0 /\ r.mw_built = 0 /\ r.first_announced = 0
                   /\ r.phase = DEFAULT_PHASE /\ r.city = held["city"]
<1> DEFINE none == <<>>
<1>1. DOMAIN none = {} /\ none \in Seq(Pages) /\ Len(none) = 0 /\ ToSet(none) = {}
  BY DEF ToSet
<1>2. Cites(none) /\ Order(none, none)
  BY <1>1, FS_EmptySet DEF Cites, Order
<1> HIDE DEF none
<1>3. ASSUME NEW held
      PROVE  LET r == Recompute(none, none, held)
             IN  /\ r.mw_planned = 0 /\ r.mw_built = 0 /\ r.first_announced = 0
                 /\ r.phase = DEFAULT_PHASE /\ r.city = held["city"]
  <2> DEFINE by   == By(none, none)
             live == Counted(none, none)
             chosen == Resolved(none, none, held)
             r    == Recompute(none, none, held)
             agreed == SettleCapacity(0, 0, by, live)
             filled == Fill(none, 0, 0)
  <2>1. \A f \in Fields : live[f] = {}
    <3> SUFFICES ASSUME NEW f \in Fields PROVE live[f] = {}
      OBVIOUS
    <3>1. \A i \in live[f] : \E p \in LivePages(none, f) : TRUE
      BY <1>2, LiveIs DEF Counted, By
    <3> HIDE DEF live
    <3> QED
      BY <1>1, <3>1 DEF LivePages
  <2>2. /\ chosen["mw_planned"] = 0 /\ chosen["mw_built"] = 0 /\ chosen["first_announced"] = 0
        /\ chosen["phase"] = "none"
    <3>1. \A f \in CLAIM_OWNED_FIELDS : chosen[f] = Empty(f)
      <4> HIDE DEF live, chosen
      <4>1. \A f \in CLAIM_OWNED_FIELDS : live[f] = {}
        BY <2>1, ValueIs
      <4> QED
        BY <1>2, <4>1, ResolvedIs DEF live, chosen
    <3> HIDE DEF chosen
    <3> QED
      BY <3>1, ValueIs DEF Empty
  <2>3. chosen["city"] = held["city"]
    <3>1. live["city"] = {} /\ "city" \in Fields /\ "city" \notin CLAIM_OWNED_FIELDS
      BY <2>1, ValueIs DEF CLAIM_OWNED_FIELDS
    <3>2. chosen["city"] = ResolveField("city", by["city"], live["city"], held["city"])
      BY <3>1 DEF Resolved, Chosen
    <3>3. Contenders(by["city"], live["city"]) = {}
      BY <3>1, ContendersAre
    <3> HIDE DEF chosen, by, live
    <3> QED
      BY <3>1, <3>2, <3>3 DEF ResolveField, Choice
  <2>4. r = Derive(none, by, live, chosen)
    BY DEF Recompute, By, Counted, Resolved
  <2> HIDE DEF by, live, chosen, r
  <2>5. agreed[1] = 0 /\ agreed[2] = 0
    BY DEF SettleCapacity
  <2>6. filled[1] = 0 /\ filled[2] = 0
    <3>1. TrancheSum(none, TRUE) = 0 /\ TrancheSum(none, FALSE) = 0
      BY <1>1, <1>2, TrancheSumIs DEF Cites
    <3> QED
      BY <3>1 DEF Fill
  <2>7. \A stage, deciding : SettledPhase(none, stage, deciding) = stage
    <3>1. Described(none) = {}
      BY <1>1 DEF Described
    <3>2. \A stage, deciding : LiftingBlocks(none, stage, deciding) = {}
      BY <3>1 DEF LiftingBlocks
    <3> QED
      BY <3>2 DEF SettledPhase
  <2>8. r.mw_planned = 0 /\ r.mw_built = 0
    BY <2>2, <2>4, <2>5, <2>6 DEF Derive
  <2>9. r.first_announced = 0 /\ r.city = held["city"]
    BY <2>2, <2>3, <2>4 DEF Derive
  <2>10. r.phase = DEFAULT_PHASE
    BY <2>2, <2>4, <2>7 DEF Derive
  <2> QED
    BY <2>8, <2>9, <2>10 DEF r
<1> QED
  BY <1>2, <1>3 DEF none

LEMMA InitKeeps ==
  ASSUME Init
  PROVE  IInv
<1>1. cites = <<>> /\ fetched = <<>> /\ night.cites = <<>> /\ ops = 0
  BY DEF Init, NoNight
<1>2. ops \in 0..OpBound
  BY <1>1, CampusAssumption
<1>3. Recompute(<<>>, <<>>, row) = row
  <2> DEFINE r == Recompute(<<>>, <<>>, row)
             blank == [mw_planned |-> 0, mw_built |-> 0, phase |-> DEFAULT_PHASE,
                       first_announced |-> 0, city |-> "none"]
  <2>1. row = blank
    BY DEF Init
  <2>2. /\ r.mw_planned = 0 /\ r.mw_built = 0 /\ r.first_announced = 0
        /\ r.phase = DEFAULT_PHASE /\ r.city = row["city"]
    BY NoneDerived
  <2>3. r = [mw_planned |-> r.mw_planned, mw_built |-> r.mw_built, phase |-> r.phase,
             first_announced |-> r.first_announced, city |-> r.city]
    BY DEF Recompute, Derive
  <2> HIDE DEF r
  <2>4. r = blank
    BY <2>1, <2>2, <2>3
  <2> QED
    BY <2>1, <2>4 DEF r
<1> QED
  BY <1>1, <1>2, <1>3, NoneDerived DEF IInv, Settled

\* A write leaves the row settled; one that is rolled back leaves everything.
LEMMA WriteKeeps ==
  ASSUME IInv, NEW cs, NEW at, Cites(cs), Order(cs, at), Write(cs, at) \/ WriteEnforced(cs, at),
         night' = night, Step
  PROVE  IInv'
<1>1. ops' \in 0..OpBound
  BY CampusAssumption DEF Step, IInv
<1>2. CASE Write(cs, at)
  <2>1. cites' = cs /\ fetched' = at /\ row' = Recompute(cs, at, row)
    BY <1>2 DEF Write
  <2>2. Settled'
    BY <2>1, DerivedAgain DEF Settled
  <2> QED
    BY <1>1, <2>1, <2>2 DEF IInv
<1>3. CASE UNCHANGED <<cites, fetched, row>>
  BY <1>1, <1>3 DEF IInv, Settled
<1> QED
  BY <1>2, <1>3 DEF WriteEnforced

\* What an operation writes: citations of every page cited before, none without a ruling it had.
Rewrites(cs, at) ==
  /\ Step /\ night' = night
  /\ Write(cs, at) \/ WriteEnforced(cs, at)
  /\ Cites(cs) /\ Order(cs, at)
  /\ \A p \in Cited : KeepsRulings(cites[p], cs[p])

LEMMA SameRulings == \A c : KeepsRulings(c, c)
BY DEF KeepsRulings

\* One page's citation replaced.
LEMMA OneRewritten ==
  ASSUME IInv, NEW p \in Pages, NEW c, Sound(c), NEW at, Order(With(cites, p, c), at),
         p \in Cited => KeepsRulings(cites[p], c),
         Step, night' = night, Write(With(cites, p, c), at) \/ WriteEnforced(With(cites, p, c), at)
  PROVE  \E cs, to : Rewrites(cs, to)
<1> DEFINE new == With(cites, p, c)
<1>1. Cites(new)
  BY WithSound DEF IInv
<1>2. \A q \in Cited : IF q = p THEN new[q] = c ELSE new[q] = cites[q]
  BY DEF With, Cited
<1> HIDE DEF new
<1>3. \A q \in Cited : KeepsRulings(cites[q], new[q])
  BY <1>2, SameRulings
<1>4. Rewrites(new, at)
  BY <1>1, <1>3 DEF Rewrites, new
<1> QED
  BY <1>4

LEMMA CitedSound ==
  ASSUME IInv, NEW p \in Cited
  PROVE  Sound(cites[p]) /\ p \in Pages /\ p \in DOMAIN cites
BY DEF IInv, Cites, Cited

LEMMA IngestRewrites ==
  ASSUME IInv, NEW p \in Pages, NEW reading \in Readings[p], NEW holds, NEW cached,
         Ingest(p, reading, holds, cached)
  PROVE  \E cs, at : Rewrites(cs, at)
<1>0. Step /\ night' = night /\ Order(cites, fetched)
  BY DEF Ingest, IInv
<1>1. CASE p \in Cited
  <2> DEFINE c  == Reread(cites[p], reading, holds)
             at == IF cached THEN fetched ELSE FetchedLast(p)
  <2>1. Sound(c) /\ KeepsRulings(cites[p], c)
    BY <1>1, CitedSound, RereadIs
  <2>2. Order(With(cites, p, c), at)
    BY <1>0, <1>1, OrderKept, OrderLast DEF Cited
  <2>3. WriteEnforced(With(cites, p, c), at)
    BY <1>1 DEF Ingest
  <2> HIDE DEF c, at
  <2> QED
    BY <1>0, <2>1, <2>2, <2>3, OneRewritten
<1>2. CASE p \notin Cited
  <2>1. Sound(AsRead(reading))
    BY AsReadSound
  <2>2. Order(With(cites, p, AsRead(reading)), FetchedLast(p))
    BY <1>0, OrderLast
  <2>3. WriteEnforced(With(cites, p, AsRead(reading)), FetchedLast(p))
    BY <1>2 DEF Ingest
  <2> QED
    BY <1>0, <1>2, <2>1, <2>2, <2>3, OneRewritten
<1> QED
  BY <1>1, <1>2

LEMMA FoldRewrites ==
  ASSUME IInv, NEW p \in Pages, NEW reading \in Readings[p], FoldReading(p, reading)
  PROVE  \E cs, at : Rewrites(cs, at)
<1> DEFINE c == Absorb(cites[p], AsRead(reading))
<1>1. Step /\ night' = night /\ p \in Cited /\ WriteEnforced(With(cites, p, c), fetched)
  BY DEF FoldReading
<1>2. Sound(c) /\ KeepsRulings(cites[p], c)
  BY <1>1, CitedSound, AsReadSound, AbsorbIs
<1>3. Order(With(cites, p, c), fetched)
  BY <1>1, OrderKept DEF Cited, IInv
<1> HIDE DEF c
<1> QED
  BY <1>1, <1>2, <1>3, OneRewritten

LEMMA MergeRewrites ==
  ASSUME IInv, NEW p \in Pages, NEW reading \in Readings[p], NEW ruled, MergeIn(p, reading, ruled)
  PROVE  \E cs, at : Rewrites(cs, at)
<1> DEFINE ruling == [f \in DOMAIN reading.claims |-> IF f = ruled THEN "superseded" ELSE "none"]
           copied == [f \in DOMAIN reading.claims |->
                        Fresh(reading.claims[f], IF f = ruled THEN "superseded" ELSE "none")]
           copy   == Citation(copied, reading.tranche, FALSE)
           c      == IF p \in Cited THEN Absorb(cites[p], copy) ELSE copy
           at     == IF p \in Cited THEN fetched ELSE <<p>> \o fetched
<1>1. Step /\ night' = night /\ Write(With(cites, p, c), at)
  BY DEF MergeIn
<1>2. Sound(copy)
  <2>1. \A f \in DOMAIN reading.claims : ruling[f] \in Rulings \cup {"none"}
    BY DEF Rulings
  <2>2. copied = [f \in DOMAIN reading.claims |-> Fresh(reading.claims[f], ruling[f])]
    OBVIOUS
  <2> HIDE DEF ruling, copied
  <2> QED
    BY <2>1, <2>2, FreshSound
<1> HIDE DEF copy
<1>3. Sound(c) /\ (p \in Cited => KeepsRulings(cites[p], c))
  BY <1>2, CitedSound, AbsorbIs
<1>4. Order(With(cites, p, c), at)
  BY OrderKept, OrderFirst DEF IInv, Cited
<1> HIDE DEF c, at
<1> QED
  BY <1>1, <1>3, <1>4, OneRewritten

LEMMA SupersedeRewrites ==
  ASSUME IInv, NEW p \in Pages, NEW f, NEW reason \in Rulings, Supersede(p, f, reason)
  PROVE  \E cs, at : Rewrites(cs, at)
<1> DEFINE old   == cites[p]
           new   == Stored(old.claims[f], old.claims[f].quoted, TRUE, reason)
           ruled == With(old.claims, f, new)
           c     == Citation(ruled, old.tranche, old.struck)
<1>1. /\ Step /\ night' = night /\ p \in Cited /\ f \in DOMAIN old.claims
      /\ Write(With(cites, p, c), fetched)
  BY DEF Supersede
<1>2. Sound(old)
  BY <1>1, CitedSound
<1> HIDE DEF old
<1>3. Stateable(f, new) /\ new.ruling = reason
  <2>1. Stateable(f, old.claims[f])
    BY <1>1, <1>2 DEF Sound
  <2> QED
    BY <2>1 DEF Stored, Stateable
<1> HIDE DEF new
<1>4. /\ DOMAIN ruled = DOMAIN old.claims /\ ruled[f] = new
      /\ \A g \in DOMAIN old.claims : g # f => ruled[g] = old.claims[g]
  BY <1>1 DEF With
<1> HIDE DEF ruled
<1>5. c.claims = ruled /\ c.tranche = old.tranche
  BY DEF Citation
<1> HIDE DEF c
<1>6. Sound(c)
  BY <1>2, <1>3, <1>4, <1>5 DEF Sound
<1>7. KeepsRulings(old, c)
  BY <1>3, <1>4, <1>5 DEF KeepsRulings, Rulings
<1>8. Order(With(cites, p, c), fetched)
  BY <1>1, OrderKept DEF Cited, IInv
<1> QED
  BY <1>1, <1>6, <1>7, <1>8, OneRewritten DEF old

LEMMA RuleOutRewrites ==
  ASSUME IInv, NEW p \in Pages, RuleOut(p)
  PROVE  \E cs, at : Rewrites(cs, at)
<1> DEFINE c == Citation(cites[p].claims, cites[p].tranche, TRUE)
<1>1. Step /\ night' = night /\ p \in Cited /\ Write(With(cites, p, c), fetched)
  BY DEF RuleOut, Described, Cited
<1>2. c.claims = cites[p].claims /\ c.tranche = cites[p].tranche
  BY DEF Citation
<1> HIDE DEF c
<1>3. Sound(c) /\ KeepsRulings(cites[p], c)
  BY <1>1, <1>2, CitedSound DEF Sound, KeepsRulings
<1>4. Order(With(cites, p, c), fetched)
  BY <1>1, OrderKept DEF Cited, IInv
<1> QED
  BY <1>1, <1>3, <1>4, OneRewritten

\* The pages a restore puts a claim back on quoted it at the snapshot and do not make it now.
LEMMA RestoreRewrites ==
  ASSUME IInv, NEW still, Restore(still)
  PROVE  \E cs, at : Rewrites(cs, at)
<1> DEFINE found == {f \in Lost : Sayers(f) \intersect still # {}}
           Names(p) == {f \in found : p = Min(Sayers(f) \intersect still)}
           cs == [p \in Cited |-> IF Names(p) = {} THEN cites[p]
                                  ELSE Reinstate(cites[p], night.cites[p], Names(p))]
<1>1. Step /\ night' = night /\ WriteEnforced(cs, fetched)
  BY DEF Restore
<1>2. ASSUME NEW p \in Cited
      PROVE  /\ p \in DOMAIN night.cites \/ Names(p) = {}
             /\ Names(p) # {} => Names(p) \subseteq DOMAIN night.cites[p].claims
             /\ Names(p) \cap DOMAIN cites[p].claims = {}
  <2>1. ASSUME NEW f \in found PROVE Min(Sayers(f) \intersect still) \in Sayers(f)
    <3> DEFINE Z == Sayers(f) \intersect still
    <3>1. Z \subseteq Cited /\ Z # {}
      BY DEF Sayers
    <3>2. Cited \subseteq Nat /\ IsFiniteSet(Cited)
      BY CampusAssumption DEF IInv, Cites, Cited
    <3>3. Numbers(Z)
      BY <3>1, <3>2, FS_Subset DEF Numbers
    <3>4. Min(Z) \in Z
      BY <3>3, Extremes
    <3> QED
      BY <3>4
  <2>2. \A f \in Names(p) : p \in Sayers(f)
    BY <2>1
  <2> HIDE DEF Names
  <2> QED
    BY <2>2 DEF Sayers
<1> HIDE DEF Names
<1>3. ASSUME NEW p \in Cited PROVE Sound(cs[p]) /\ KeepsRulings(cites[p], cs[p])
  <2>1. Sound(cites[p])
    BY CitedSound
  <2>2. CASE Names(p) = {}
    BY <2>1, <2>2, SameRulings
  <2>3. CASE Names(p) # {}
    <3> DEFINE new == Reinstate(cites[p], night.cites[p], Names(p))
    <3>1. Sound(night.cites[p])
      BY <1>2, <2>3 DEF IInv, Cites
    <3>2. cs[p] = new
      BY <2>3
    <3>3. /\ Sound(new)
          /\ \A f \in DOMAIN new.claims :
               new.claims[f] = IF f \in Names(p) THEN AsHeld(night.cites[p].claims[f])
                                                 ELSE cites[p].claims[f]
      BY <1>2, <2>1, <2>3, <3>1, ReinstateIs
    <3> HIDE DEF new, cs
    <3>4. KeepsRulings(cites[p], new)
      BY <1>2, <3>3 DEF KeepsRulings
    <3> QED
      BY <3>2, <3>3, <3>4
  <2> QED
    BY <2>2, <2>3
<1>4. DOMAIN cs = DOMAIN cites
  BY DEF Cited
<1> HIDE DEF cs
<1>5. Cites(cs) /\ Order(cs, fetched)
  BY <1>3, <1>4 DEF IInv, Cites, Order, Cited
<1>6. Rewrites(cs, fetched)
  BY <1>1, <1>3, <1>5 DEF Rewrites
<1> QED
  BY <1>6

\* Every step but the snapshot is such a write.
LEMMA StepRewrites ==
  ASSUME IInv, Next
  PROVE  Snapshot \/ \E cs, at : Rewrites(cs, at)
<1>1. CASE \E p \in Pages : \E reading \in Readings[p] :
             \E holds \in {{}, Fields}, cached \in BOOLEAN : Ingest(p, reading, holds, cached)
  BY <1>1, IngestRewrites
<1>2. CASE \E p \in Pages : \E reading \in Readings[p] : FoldReading(p, reading)
  BY <1>2, FoldRewrites
<1>3. CASE \E p \in Pages : \E reading \in Readings[p] :
             \E ruled \in (DOMAIN reading.claims \intersect RuledOn) \union {"none"} :
               MergeIn(p, reading, ruled)
  BY <1>3, MergeRewrites
<1>4. CASE \E p \in Pages, f \in RuledOn, reason \in Rulings : Supersede(p, f, reason)
  BY <1>4, SupersedeRewrites
<1>5. CASE \E p \in Pages : RuleOut(p)
  BY <1>5, RuleOutRewrites
<1>6. CASE \E still \in SUBSET Pages : Restore(still)
  BY <1>6, RestoreRewrites
<1> QED
  BY <1>1, <1>2, <1>3, <1>4, <1>5, <1>6 DEF Next

LEMMA StepKeeps ==
  ASSUME IInv, [Next]_vars
  PROVE  IInv'
<1>1. CASE Snapshot
  <2>1. night'.cites = cites /\ UNCHANGED <<cites, fetched, row>>
    BY <1>1 DEF Snapshot
  <2>2. ops' \in 0..OpBound
    BY <1>1, CampusAssumption DEF Snapshot, Step, IInv
  <2> QED
    BY <2>1, <2>2 DEF IInv, Settled
<1>2. CASE \E cs, at : Rewrites(cs, at)
  BY <1>2, WriteKeeps DEF Rewrites
<1>3. CASE UNCHANGED vars
  BY <1>3 DEF vars, IInv, Settled
<1> QED
  BY <1>1, <1>2, <1>3, StepRewrites

THEOREM InductiveInvariant == Spec => []IInv
<1>1. Init => IInv
  BY InitKeeps
<1>2. IInv /\ [Next]_vars => IInv'
  BY StepKeeps
<1> QED
  BY <1>1, <1>2, PTL DEF Spec

-----------------------------------------------------------------------------
(* What follows.                                                           *)

LEMMA LiveValuesAre ==
  ASSUME IInv, NEW f
  PROVE  LiveValues(f) = Values(cites, f)
<1>1. {q \in Pages : Live(q, f)} = LivePages(cites, f)
  BY DEF IInv, Cites, Live, LivePages, Cited
<1> QED
  BY <1>1 DEF LiveValues, Values

LEMMA TypesFollow ==
  ASSUME IInv
  PROVE  TypeOK
<1>1. Cited \subseteq Pages /\ IsFiniteSet(Cited) /\ ToSet(fetched) = Cited /\ ops \in 0..OpBound
  BY DEF IInv, Cites, Order, Cited
<1>2. Len(fetched) = Cardinality(Cited)
  <2> DEFINE n == Len(fetched)
  <2>1. n \in Nat /\ DOMAIN fetched = 1..n /\ fetched \in Seq(Pages)
    BY LenProperties DEF IInv, Order
  <2>2. fetched \in [1..n -> Cited]
    <3>1. \A i \in 1..n : fetched[i] \in Cited
      BY <1>1, <2>1 DEF ToSet
    <3>2. fetched = [i \in 1..n |-> fetched[i]]
      BY <2>1
    <3> QED
      BY <3>1, <3>2
  <2>3. fetched \in Injection(1..n, Cited)
    BY <2>2 DEF Injection, IsInjective, IInv, Order
  <2>4. fetched \in Surjection(1..n, Cited)
    BY <1>1, <2>1, <2>2 DEF Surjection, ToSet
  <2>5. Cardinality(1..n) = Cardinality(Cited)
    <3> HIDE DEF n
    <3> QED
      BY <1>1, <2>3, <2>4, FS_Injection
  <2>6. Cardinality(1..n) = n
    <3> HIDE DEF n
    <3>1. 1 \in Int /\ n \in Int
      BY <2>1
    <3>2. Cardinality(1..n) = IF 1 > n THEN 0 ELSE n - 1 + 1
      BY <3>1, FS_Interval
    <3> QED
      BY <2>1, <3>2
  <2> QED
    BY <2>5, <2>6
<1>3. \A p \in Cited : \A f \in DOMAIN cites[p].claims :
        cites[p].claims[f].ruling \in Rulings \union {"none"}
  BY DEF IInv, Cites, Sound, Cited
<1> DEFINE r == Recompute(cites, fetched, row)
<1>4. /\ r.phase \in Rungs \union PHASE_TERMINAL
      /\ r.mw_planned \in Nat /\ r.mw_built \in Nat /\ r.first_announced \in Nat
  BY CapacitiesDerived, DayDerived, PhaseDerived DEF IInv
<1> HIDE DEF r
<1>5. r = row
  BY DEF r, IInv, Settled
<1> QED
  BY <1>1, <1>2, <1>3, <1>4, <1>5 DEF TypeOK

LEMMA StatedFollows ==
  ASSUME IInv
  PROVE  Stated
<1> DEFINE r == Recompute(cites, fetched, row)
<1>1. StatedBy(cites, r)
  BY CapacitiesDerived, DayDerived, PhaseDerived DEF IInv, StatedBy
<1> HIDE DEF r
<1>2. r = row
  BY DEF r, IInv, Settled
<1>3. StatedBy(cites, row)
  BY <1>1, <1>2
<1> QED
  BY <1>3, LiveValuesAre DEF StatedBy, Stated, Told

LEMMA PlanFollows ==
  ASSUME IInv
  PROVE  RunningWithinStatedPlan
<1> DEFINE r == Recompute(cites, fetched, row)
<1>1. Counted(cites, fetched)["mw_planned"] # {} => ~Breaks(r)
  BY CapacitiesDerived DEF IInv
<1> HIDE DEF r
<1>2. r = row
  BY DEF r, IInv, Settled
<1> QED
  BY <1>1, <1>2 DEF RunningWithinStatedPlan, StatedPlans, Counted, By

\* Past a strong report of a stop the contenders are the strong reports, so a stage of the
\* ladder is reached by two publishers' or by a tranche.
LEMMA RestartFollows ==
  ASSUME IInv
  PROVE  OneReportRestartsNothing
<1> DEFINE reports == {p \in Pages : Strong(p, "phase")}
           stops   == {p \in reports : cites[p].claims["phase"].value \in PHASE_TERMINAL}
           others  == {PageInfo[p].domain : p \in reports \ stops}
<1> SUFFICES ASSUME stops # {}, row.phase \in Rungs, row.phase \notin Told(cites)
             PROVE  Cardinality(others) >= 2
  BY DEF OneReportRestartsNothing, Told
<1> DEFINE s    == By(cites, fetched)["phase"]
           live == Counted(cites, fetched)["phase"]
           at   == Contenders(s, live)
           strong == {j \in live : s[j].confirmed /\ ~s[j].part /\ ~s[j].tertiary}
           C(p) == ClaimOf(cites, fetched, p, "phase")
           stage == Resolved(cites, fetched, row)["phase"]
<1>0. "phase" \in Fields /\ "phase" \in CLAIM_OWNED_FIELDS /\ "phase" \notin CAPACITY_FIELDS
  BY ValueIs DEF CAPACITY_FIELDS
<1>1. /\ Holds("phase", s, live)
      /\ \A i \in live : \E p \in LivePages(cites, "phase") : s[i] = C(p)
      /\ \A p \in LivePages(cites, "phase") : \E i \in live : s[i] = C(p)
  BY <1>0, LiveIs DEF Counted, By, IInv
<1>2. \A p : LET c == cites[p].claims["phase"]
             IN  /\ C(p).value = c.value /\ C(p).domain = PageInfo[p].domain
                 /\ C(p).confirmed = ~c.flagged /\ C(p).part = c.part
                 /\ C(p).tertiary = PageInfo[p].tertiary
  BY DEF ClaimOf
<1>3. \A p \in LivePages(cites, "phase") :
        (C(p).confirmed /\ ~C(p).part /\ ~C(p).tertiary) <=> p \in reports
  <2>1. ASSUME NEW p \in LivePages(cites, "phase")
        PROVE  p \in Pages /\ Live(p, "phase") /\ ~cites[p].claims["phase"].floor
    BY <1>0 DEF IInv, Cites, Sound, Stateable, LivePages, Live, Cited
  <2> HIDE DEF C
  <2> QED
    BY <1>2, <2>1 DEF Strong, ReportedWhole, Reported
<1>4. reports \subseteq LivePages(cites, "phase")
  BY DEF Strong, ReportedWhole, Reported, Live, LivePages, Cited
<1> HIDE DEF C, s, live, reports
<1>5. at = strong /\ \E i \in at : s[i].value \in PHASE_TERMINAL
  <2>1. PICK p \in stops : TRUE
    OBVIOUS
  <2>2. PICK i \in live : s[i] = C(p)
    BY <1>1, <1>4
  <2>3. i \in strong /\ s[i].value \in PHASE_TERMINAL
    BY <1>2, <1>3, <1>4, <2>2
  <2>4. at = strong
    BY <2>3, ContendersAre
  <2> QED
    BY <2>3, <2>4
<1>6. row.phase = stage /\ stage = Choice("phase", s, at, row["phase"]) /\ live # {}
  <2>1. live # {}
    BY <1>5, ContendersAre
  <2>2. row.phase = stage
    <3> DEFINE r == Recompute(cites, fetched, row)
    <3>1. \/ r.phase \in Told(cites)
          \/ r.phase = DEFAULT_PHASE /\ live = {}
          \/ r.phase = stage
      BY PhaseDerived DEF IInv, live
    <3> HIDE DEF r, stage
    <3>2. r = row
      BY DEF r, IInv, Settled
    <3> QED
      BY <2>1, <3>1, <3>2
  <2>3. stage = ResolveField("phase", s, live, row["phase"])
    BY <1>0 DEF Resolved, Chosen, s, live
  <2>4. FIELD_POLICY["phase"] = "phase"
    BY DEF FIELD_POLICY
  <2>5. ResolveField("phase", s, live, row["phase"]) = Choice("phase", s, at, row["phase"])
    BY <1>0, <2>1, <2>4 DEF ResolveField
  <2> QED
    BY <2>1, <2>2, <2>3, <2>5
<1>7. stage = Ladder(s, at) /\ Numbers(at) /\ \A i \in at : s[i].value \in Rungs \cup PHASE_TERMINAL
  <2>1. at # {} /\ at \subseteq live
    BY <1>6, ContendersAre
  <2>2. Choice("phase", s, at, row["phase"]) = Ladder(s, at)
    BY <2>1 DEF Choice
  <2>3. Numbers(at)
    BY <1>1, <2>1, FS_Subset DEF Holds, Numbers
  <2>4. \A i \in live : s[i].value \in Rungs \cup PHASE_TERMINAL
    BY <1>1, ValueIs DEF Holds
  <2> QED
    BY <1>6, <2>1, <2>2, <2>3, <2>4
<1> DEFINE out   == {i \in at : s[i].value \in Rungs}
           heard == {s[i].domain : i \in out}
<1> HIDE DEF at, stage
<1>8. Cardinality(heard) >= 2
  <2>1. {i \in at : s[i].value \in PHASE_TERMINAL} # {}
    BY <1>5
  <2>2. Ladder(s, at) \in Rungs
    BY <1>6, <1>7
  <2> QED
    BY <1>7, <2>1, <2>2, LadderIs
<1>9. heard \subseteq others
  <2> SUFFICES ASSUME NEW i \in out PROVE s[i].domain \in others
    OBVIOUS
  <2>1. i \in strong /\ s[i].value \in Rungs /\ i \in live
    BY <1>5
  <2>2. PICK p \in LivePages(cites, "phase") : s[i] = C(p)
    BY <1>1, <2>1
  <2>3. p \in reports
    BY <1>3, <2>1, <2>2
  <2>4. p \notin stops
    BY <1>2, <2>1, <2>2, RungIs
  <2>5. s[i].domain = PageInfo[p].domain
    BY <1>2, <2>2
  <2> QED
    BY <2>3, <2>4, <2>5
<1>10. IsFiniteSet(others)
  <2> DEFINE Z == reports \ stops
             f == [p \in Z |-> PageInfo[p].domain]
  <2>1. IsFiniteSet(Z)
    <3>1. Z \subseteq DOMAIN cites /\ IsFiniteSet(DOMAIN cites)
      BY <1>4 DEF LivePages, IInv, Cites
    <3> QED
      BY <3>1, FS_Subset
  <2>2. f \in [Z -> others] /\ others = {f[p] : p \in Z}
    OBVIOUS
  <2> HIDE DEF f, Z, others
  <2>3. f \in [Z -> others]
    BY <2>2
  <2>4. IsFiniteSet({f[p] : p \in Z})
    BY <2>1, <2>3, ImageIs
  <2> QED
    BY <2>2, <2>4
<1> HIDE DEF heard, others
<1>11. Cardinality(heard) <= Cardinality(others)
  BY <1>9, <1>10, FS_Subset
<1>12. IsFiniteSet(heard) /\ Cardinality(heard) \in Nat /\ Cardinality(others) \in Nat
  BY <1>9, <1>10, FS_Subset, FS_CardinalityType
<1> QED
  BY <1>8, <1>11, <1>12

\* Type correctness: citations, their order, the rulings and the row keep their types.
THEOREM TypeCorrect == Spec => []TypeOK
<1>1. IInv => TypeOK
  BY TypesFollow
<1> QED
  BY <1>1, InductiveInvariant, PTL

\* Whatever was read, merged, ruled on or restored, the row is its citations': each value is
\* stated by a claim nobody ruled out or by the tranches, and deriving it again changes nothing.
THEOREM RowIsDerived == Spec => []Derived
<1>1. IInv => Derived
  BY TypesFollow, StatedFollows DEF Derived, IInv
<1> QED
  BY <1>1, InductiveInvariant, PTL

\* Running never exceeds planned while a claim that counts states the plan.
THEOREM RunningKeepsWithin == Spec => []RunningWithinStatedPlan
<1>1. IInv => RunningWithinStatedPlan
  BY PlanFollows
<1> QED
  BY <1>1, InductiveInvariant, PTL

\* No single publisher's report restarts a campus that a strong report says has stopped.
THEOREM NothingRestartsAlone == Spec => []OneReportRestartsNothing
<1>1. IInv => OneReportRestartsNothing
  BY RestartFollows
<1> QED
  BY <1>1, InductiveInvariant, PTL

\* A ruling stands through every operation, as long as the citation makes the claim.
THEOREM RulingsAlwaysStand == Spec => RulingStands
<1> DEFINE Stands == \A p \in Cited : \A f \in DOMAIN cites[p].claims :
                       cites[p].claims[f].ruling # "none" /\ f \in DOMAIN cites'[p].claims
                         => cites'[p].claims[f].ruling # "none"
<1>1. IInv /\ [Next]_vars => [Stands]_vars
  <2> SUFFICES ASSUME IInv, Next PROVE Stands \/ UNCHANGED vars
    BY DEF vars
  <2>1. CASE Snapshot
    BY <2>1 DEF Snapshot
  <2>2. CASE \E cs, at : Rewrites(cs, at)
    <3>1. PICK cs, at : Rewrites(cs, at)
      BY <2>2
    <3>2. cites' = cs \/ cites' = cites
      BY <3>1 DEF Rewrites, Write, WriteEnforced
    <3>3. \A p \in Cited : KeepsRulings(cites[p], cs[p])
      BY <3>1 DEF Rewrites
    <3> QED
      BY <3>2, <3>3 DEF KeepsRulings
  <2> QED
    BY <2>1, <2>2, StepRewrites
<1>2. Spec => [][Stands]_vars
  BY <1>1, InductiveInvariant, PTL DEF Spec
<1> QED
  BY <1>2 DEF RulingStands

\* The claims of a re-read that repeats less, while the article has every sentence.
LEMMA RereadLosesNothing ==
  ASSUME NEW p \in Pages, NEW reading \in Readings[p], NEW old, Sound(old)
  PROVE  LET new == Reread(old, reading, Fields)
         IN  \A f \in CLAIM_OWNED_FIELDS \cap DOMAIN old.claims : old.claims[f].quoted =>
               /\ f \in DOMAIN new.claims
               /\ f \notin DOMAIN reading.claims => new.claims[f].ruling = old.claims[f].ruling
<1>1. ASSUME NEW f \in CLAIM_OWNED_FIELDS \cap DOMAIN old.claims, old.claims[f].quoted,
             f \notin DOMAIN reading.claims
      PROVE  f \in OmittedQuietly(old, reading, Fields)
  BY <1>1, ValueIs DEF OmittedQuietly
<1> QED
  BY <1>1, RereadIs

\* A re-read loses no quoted claim the article still makes, nor a day of announcement with it.
THEOREM NothingIsLostQuietly == Spec => NothingLostQuietly
<1> DEFINE Keeps ==
      \A p \in Cited : \A reading \in Readings[p] :
        cites' = With(cites, p, Reread(cites[p], reading, Fields)) =>
          /\ \A f \in CLAIM_OWNED_FIELDS \intersect DOMAIN cites[p].claims :
               cites[p].claims[f].quoted => f \in DOMAIN cites'[p].claims
          /\ row.first_announced # 0 /\ "first_announced" \notin DOMAIN reading.claims
               /\ (\A q \in Cited : Live(q, "first_announced")
                                      => cites[q].claims["first_announced"].quoted)
               => row'.first_announced # 0
<1>1. IInv /\ IInv' => Keeps
  <2> SUFFICES ASSUME IInv, IInv', NEW p \in Cited, NEW reading \in Readings[p],
                      cites' = With(cites, p, Reread(cites[p], reading, Fields))
               PROVE  /\ \A f \in CLAIM_OWNED_FIELDS \intersect DOMAIN cites[p].claims :
                           cites[p].claims[f].quoted => f \in DOMAIN cites'[p].claims
                      /\ row.first_announced # 0 /\ "first_announced" \notin DOMAIN reading.claims
                           /\ (\A q \in Cited : Live(q, "first_announced")
                                                  => cites[q].claims["first_announced"].quoted)
                           => row'.first_announced # 0
    OBVIOUS
  <2> DEFINE day == "first_announced"
             old == cites[p]
             new == Reread(old, reading, Fields)
  <2>1. p \in Pages /\ Sound(old)
    BY CitedSound
  <2>2. cites'[p] = new /\ \A q \in Cited : q # p => cites'[q] = cites[q]
    BY DEF With, Cited
  <2>3. DOMAIN cites' = Cited
    BY DEF With, Cited
  <2> HIDE DEF old, new
  <2>4. \A f \in CLAIM_OWNED_FIELDS \cap DOMAIN old.claims : old.claims[f].quoted =>
          /\ f \in DOMAIN new.claims
          /\ f \notin DOMAIN reading.claims => new.claims[f].ruling = old.claims[f].ruling
    BY <2>1, RereadLosesNothing DEF new
  <2>5. ASSUME row.first_announced # 0, day \notin DOMAIN reading.claims,
               \A q \in Cited : Live(q, day) => cites[q].claims[day].quoted
        PROVE  row'.first_announced # 0
    <3>1. LivePages(cites, day) # {}
      <4> DEFINE r == Recompute(cites, fetched, row)
      <4>1. r.first_announced # 0 <=> LivePages(cites, day) # {}
        BY DayDerived DEF IInv
      <4> HIDE DEF r
      <4>2. r = row
        BY DEF r, IInv, Settled
      <4> QED
        BY <2>5, <4>1, <4>2
    <3>2. PICK q \in LivePages(cites, day) : TRUE
      BY <3>1
    <3>3. /\ q \in Cited /\ q \in Pages /\ day \in DOMAIN cites[q].claims
          /\ cites[q].claims[day].ruling = "none" /\ cites[q].claims[day].quoted
      BY <2>5, <3>2 DEF LivePages, Cited, Live, IInv, Cites
    <3>4. day \in DOMAIN cites'[q].claims /\ cites'[q].claims[day].ruling = "none"
      <4>1. CASE q # p
        BY <2>2, <3>3, <4>1
      <4>2. CASE q = p
        <5>1. day \in CLAIM_OWNED_FIELDS \cap DOMAIN old.claims /\ old.claims[day].quoted
              /\ old.claims[day].ruling = "none"
          BY <3>3, <4>2, ValueIs DEF old
        <5> QED
          BY <2>2, <2>4, <2>5, <4>2, <5>1
      <4> QED
        BY <4>1, <4>2
    <3>5. LivePages(cites', day) # {}
      BY <2>3, <3>3, <3>4 DEF LivePages
    <3> DEFINE cs == cites'
               at == fetched'
               r  == Recompute(cs, at, row')
    <3>6. Cites(cs) /\ Order(cs, at) /\ r = row'
      BY DEF IInv, Settled
    <3> HIDE DEF cs, at
    <3>7. r.first_announced # 0 <=> LivePages(cs, day) # {}
      BY <3>6, DayDerived
    <3> HIDE DEF r
    <3> QED
      BY <3>5, <3>6, <3>7 DEF cs
  <2> QED
    BY <2>2, <2>4, <2>5 DEF old
<1>2. IInv /\ IInv' => [Keeps]_vars
  BY <1>1
<1>3. Spec => [][Keeps]_vars
  BY <1>2, InductiveInvariant, PTL DEF Spec
<1> QED
  BY <1>3 DEF NothingLostQuietly

-----------------------------------------------------------------------------
(* Two rankings whose claims say the same.                                 *)

\* Two claims that say the same, whenever they were fetched.
Same(c, d) ==
  /\ c.value = d.value /\ c.precision = d.precision /\ c.published = d.published
  /\ c.confirmed = d.confirmed /\ c.tertiary = d.tertiary /\ c.stopSaid = d.stopSaid
  /\ c.domain = d.domain

\* Places among two rankings whose claims say the same, in the same order.
Twins(s, at, t, bt, g) ==
  /\ Numbers(at) /\ Numbers(bt)
  /\ g \in [at -> bt]
  /\ \A j \in bt : \E i \in at : g[i] = j
  /\ \A i, k \in at : i < k => g[i] < g[k]
  /\ \A i \in at : Same(s[i], t[g[i]])

\* The twins of some of the places.
Image(g, X) == {g[i] : i \in X}

\* Twins lie as the places they are twins of.
LEMMA TwinOrder ==
  ASSUME NEW s, NEW at, NEW t, NEW bt, NEW g, Twins(s, at, t, bt, g), NEW i \in at, NEW k \in at
  PROVE  /\ i \in Nat /\ g[i] \in bt /\ g[i] \in Nat
         /\ i <= k <=> g[i] <= g[k]
         /\ g[i] = g[k] => i = k
<1>1. i \in Nat /\ k \in Nat /\ g[i] \in Nat /\ g[k] \in Nat /\ g[i] \in bt
  BY DEF Twins, Numbers
<1>2. (i < k => g[i] < g[k]) /\ (k < i => g[k] < g[i])
  BY DEF Twins
<1> QED
  BY <1>1, <1>2

\* The least of the twins is the twin of the least.
LEMMA TwinMin ==
  ASSUME NEW s, NEW at, NEW t, NEW bt, NEW g, Twins(s, at, t, bt, g),
         NEW X \in SUBSET at, X # {}
  PROVE  Min(X) \in X /\ Image(g, X) # {} /\ Min(Image(g, X)) = g[Min(X)]
<1> DEFINE m == Min(X)
           Y == Image(g, X)
           n == Min(Y)
<1>1. m \in X /\ \A x \in X : m <= x
  BY PartOf, Extremes DEF Twins
<1>2. Y \subseteq bt /\ g[m] \in Y
  BY <1>1, TwinOrder DEF Image
<1>3. n \in Y /\ \A y \in Y : n <= y
  <2>1. Numbers(Y)
    BY <1>2, PartOf DEF Twins
  <2> QED
    BY <2>1, Extremes
<1>4. PICK x \in X : n = g[x]
  BY <1>3 DEF Image
<1> HIDE DEF m, n, Y
<1>5. g[m] <= n /\ n <= g[m] /\ n \in Nat /\ g[m] \in Nat
  BY <1>1, <1>2, <1>3, <1>4, TwinOrder
<1> QED
  BY <1>1, <1>2, <1>5 DEF m, n, Y

\* The claim that states a day first is the twin of the one that does in the other ranking.
LEMMA TwinFirst ==
  ASSUME NEW s, NEW at, NEW t, NEW bt, NEW g, Twins(s, at, t, bt, g),
         \A i \in at : s[i].value \in Nat
  PROVE  First(s, at) \in at /\ First(t, bt) = g[First(s, at)]
<1> DEFINE i == First(s, at)
           j == First(t, bt)
<1>1. Numbers(at) /\ Numbers(bt)
  BY DEF Twins
<1>2. \A k \in at : /\ t[g[k]].value = s[k].value /\ s[k].value \in Nat
                    /\ Precision(t[g[k]]) = Precision(s[k]) /\ Precision(s[k]) \in Nat
  BY PrecisionIs DEF Twins, Same, Precision
<1>3. \A l \in bt : t[l].value \in Nat
  BY <1>2 DEF Twins
<1>4. i \in at /\ \A k \in at : Sooner(s, i, k)
  BY <1>1, FirstIs
<1>5. j \in bt /\ \A k \in bt : Sooner(t, j, k)
  BY <1>1, <1>3, FirstIs
<1> HIDE DEF i, j
<1>6. PICK k \in at : g[k] = j
  BY <1>5 DEF Twins
<1>7. Sooner(s, i, k) /\ Sooner(t, g[k], g[i])
  BY <1>4, <1>5, <1>6, TwinOrder
<1>8. (k <= i <=> g[k] <= g[i]) /\ i \in Nat /\ k \in Nat
  BY <1>4, TwinOrder
<1>9. i = k
  BY <1>2, <1>4, <1>7, <1>8 DEF Sooner
<1> QED
  BY <1>4, <1>6, <1>9 DEF i, j

\* The place a refinement chooses among some.
EarliestOf(u, K) == CHOOSE i \in K : \A j \in K : Earlier(u, i, j)

\* It chooses twins among twins,
LEMMA TwinEarliest ==
  ASSUME NEW s, NEW at, NEW t, NEW bt, NEW g, Twins(s, at, t, bt, g),
         \A i \in at : s[i].value \in Nat, NEW J \in SUBSET at, J # {}
  PROVE  EarliestOf(s, J) \in J /\ EarliestOf(t, Image(g, J)) = g[EarliestOf(s, J)]
<1> DEFINE K == Image(g, J)
           i == EarliestOf(s, J)
           j == EarliestOf(t, K)
<1>1. K \subseteq bt /\ K # {}
  BY TwinOrder DEF Image
<1>2. Numbers(J) /\ Numbers(K)
  BY <1>1, PartOf DEF Twins
<1>3. \A k \in at : t[g[k]].value = s[k].value /\ s[k].value \in Nat
  BY DEF Twins, Same
<1>4. \A l \in K : t[l].value \in Nat
  BY <1>3 DEF Image
<1>5. i \in J /\ \A k \in J : Earlier(s, i, k)
  BY <1>2, EarliestIs DEF EarliestOf
<1> HIDE DEF K
<1>6. j \in K /\ \A k \in K : Earlier(t, j, k)
  BY <1>2, <1>4, EarliestIs DEF EarliestOf
<1> HIDE DEF i, j
<1>7. PICK k \in J : g[k] = j
  BY <1>6 DEF Image, K
<1>8. g[i] \in K
  BY <1>5 DEF Image, K
<1>9. Earlier(s, i, k) /\ Earlier(t, g[k], g[i])
  BY <1>5, <1>6, <1>7, <1>8
<1>10. (k <= i <=> g[k] <= g[i]) /\ i \in Nat /\ k \in Nat
  BY <1>5, TwinOrder
<1>11. i = k
  BY <1>3, <1>5, <1>9, <1>10 DEF Earlier
<1> QED
  BY <1>5, <1>7, <1>11 DEF i, j, K

\* and so refines a claim and its twin alike.
LEMMA TwinRefined ==
  ASSUME NEW s, NEW at, NEW t, NEW bt, NEW g, Twins(s, at, t, bt, g),
         \A i \in at : s[i].value \in Nat, NEW w \in at
  PROVE  Refined(s, at, w) \in at /\ Refined(t, bt, g[w]) = g[Refined(s, at, w)]
<1> DEFINE Inside(u, U, i) == {j \in U : Precision(u[j]) < Precision(u[i])
                                          /\ Days(u[j]) \subseteq Days(u[i])}
           Finer(u, U, i) == IF Inside(u, U, i) = {} THEN i ELSE EarliestOf(u, Inside(u, U, i))
<1>1. \A k \in at : /\ Precision(t[g[k]]) = Precision(s[k])
                    /\ Days(t[g[k]]) = Days(s[k])
  BY DEF Twins, Same, Precision, Days
<1>2. ASSUME NEW i \in at PROVE Inside(t, bt, g[i]) = Image(g, Inside(s, at, i))
  BY <1>1 DEF Twins, Image
<1>3. ASSUME NEW J \in SUBSET at, J # {}
      PROVE  EarliestOf(s, J) \in J /\ EarliestOf(t, Image(g, J)) = g[EarliestOf(s, J)]
  BY <1>3, TwinEarliest
<1>4. \A i \in at : Inside(s, at, i) \in SUBSET at
  OBVIOUS
<1>5. \A J \in SUBSET at : J = {} <=> Image(g, J) = {}
  BY DEF Image
<1> HIDE DEF Inside
<1>6. ASSUME NEW i \in at PROVE Finer(s, at, i) \in at /\ Finer(t, bt, g[i]) = g[Finer(s, at, i)]
  BY <1>2, <1>3, <1>4, <1>5
<1> HIDE DEF Finer
<1>7. LET r == Finer(s, at, Finer(s, at, w))
      IN  r \in at /\ Finer(t, bt, Finer(t, bt, g[w])) = g[r]
  BY <1>6
<1>8. \A u, U, i : Refined(u, U, i) = Finer(u, U, Finer(u, U, i))
  BY DEF Refined, Finer, Inside, EarliestOf, Earlier
<1> QED
  BY <1>7, <1>8

\* What the claims at some places say.
ValuesAt(s, X)    == {s[i].value : i \in X}
PublishedAt(s, X) == {s[i].published : i \in X}
DomainsAt(s, X)   == {s[i].domain : i \in X}
RungsAt(s, X)     == {Rung(s[i].value) : i \in {j \in X : s[j].value \in Rungs}}

\* The claims at the twins of some places say the same.
LEMMA TwinValues ==
  ASSUME NEW s, NEW at, NEW t, NEW bt, NEW g, Twins(s, at, t, bt, g), NEW X \in SUBSET at
  PROVE  /\ ValuesAt(t, Image(g, X)) = ValuesAt(s, X)
         /\ PublishedAt(t, Image(g, X)) = PublishedAt(s, X)
         /\ DomainsAt(t, Image(g, X)) = DomainsAt(s, X)
         /\ Furthest(t, Image(g, X)) = Furthest(s, X)
<1>1. \A i \in X : /\ t[g[i]].value = s[i].value /\ t[g[i]].published = s[i].published
                   /\ t[g[i]].domain = s[i].domain
  BY DEF Twins, Same
<1>2. ValuesAt(t, Image(g, X)) = ValuesAt(s, X)
  BY <1>1 DEF Image, ValuesAt
<1>3. PublishedAt(t, Image(g, X)) = PublishedAt(s, X)
  BY <1>1 DEF Image, PublishedAt
<1>4. DomainsAt(t, Image(g, X)) = DomainsAt(s, X)
  BY <1>1 DEF Image, DomainsAt
<1>5. RungsAt(t, Image(g, X)) = RungsAt(s, X)
  BY <1>1 DEF Image, RungsAt
<1>6. \A u, U : Furthest(u, U) = PHASE_PROGRESSION[Max(RungsAt(u, U))]
  BY DEF Furthest, RungsAt
<1> QED
  BY <1>2, <1>3, <1>4, <1>5, <1>6

\* A stage is told alike from twins, a stop and a restart after it included.
LEMMA TwinLadder ==
  ASSUME NEW s, NEW at, NEW t, NEW bt, NEW g, Twins(s, at, t, bt, g)
  PROVE  Ladder(t, bt) = Ladder(s, at)
<1> DEFINE Stopped(u, U) == {i \in U : u[i].value \in PHASE_TERMINAL}
           out    == Progress(s, at, Stopped(s, at))
           moving == MovingAgain(s, at, Stopped(s, at))
           going  == MovingAgain(t, bt, Stopped(t, bt))
<1>1. \A i \in at : Same(s[i], t[g[i]])
  BY DEF Twins
<1>2. bt = Image(g, at)
  BY DEF Twins, Image
<1>3. Stopped(t, bt) = Image(g, Stopped(s, at))
  BY <1>1, <1>2 DEF Same, Image
<1>4. Stopped(s, at) \in SUBSET at
  OBVIOUS
<1> HIDE DEF Stopped
<1>5. PublishedAt(t, Stopped(t, bt)) = PublishedAt(s, Stopped(s, at))
  BY <1>3, <1>4, TwinValues
<1>6. Progress(t, bt, Stopped(t, bt)) = Image(g, out)
  <2> DEFINE Ahead(c, P) == /\ c.value \in Rungs \ {DEFAULT_PHASE}
                            /\ c.confirmed /\ ~c.tertiary /\ ~c.stopSaid
                            /\ c.published > Max(P)
  <2>1. \A u, U, X : Progress(u, U, X) = {i \in U : Ahead(u[i], PublishedAt(u, X))}
    BY DEF Progress, PublishedAt
  <2>2. \A P : \A i \in at : Ahead(t[g[i]], P) <=> Ahead(s[i], P)
    BY <1>1 DEF Same
  <2> HIDE DEF Ahead
  <2> QED
    BY <1>2, <1>5, <2>1, <2>2 DEF Image
<1>7. out \in SUBSET at
  BY DEF Progress
<1> HIDE DEF out
<1>8. DomainsAt(t, Image(g, out)) = DomainsAt(s, out)
  BY <1>7, TwinValues
<1>9. (\E j \in Stopped(t, bt) : t[j].published = 0)
        <=> (\E i \in Stopped(s, at) : s[i].published = 0)
  BY <1>5 DEF PublishedAt
<1>10. going = Image(g, moving) /\ moving \in SUBSET at
  <2>1. CASE \E i \in Stopped(s, at) : s[i].published = 0
    <3>1. moving = {} /\ going = {}
      BY <1>9, <2>1 DEF MovingAgain
    <3> QED
      BY <3>1 DEF Image
  <2>2. CASE ~(\E i \in Stopped(s, at) : s[i].published = 0)
    <3>1. moving = IF Cardinality(DomainsAt(s, out)) < 2 THEN {} ELSE out
      BY <2>2 DEF MovingAgain, DomainsAt, out
    <3>2. going = IF Cardinality(DomainsAt(s, out)) < 2 THEN {} ELSE Image(g, out)
      <4>1. going = IF Cardinality(DomainsAt(t, Image(g, out))) < 2 THEN {} ELSE Image(g, out)
        BY <1>6, <1>9, <2>2 DEF MovingAgain, DomainsAt
      <4> QED
        BY <1>8, <4>1
    <3> HIDE DEF moving, going
    <3>3. Image(g, {}) = {}
      BY DEF Image
    <3> QED
      BY <1>7, <3>1, <3>2, <3>3
  <2> QED
    BY <2>1, <2>2
<1>11. /\ Ladder(s, at) = IF Stopped(s, at) = {} THEN Furthest(s, at)
                          ELSE IF moving = {} THEN s[Min(Stopped(s, at))].value
                          ELSE Furthest(s, moving)
       /\ Ladder(t, bt) = IF Stopped(t, bt) = {} THEN Furthest(t, bt)
                          ELSE IF going = {} THEN t[Min(Stopped(t, bt))].value
                          ELSE Furthest(t, going)
  BY DEF Ladder, Stopped
<1> HIDE DEF moving, going
<1>12. Furthest(t, bt) = Furthest(s, at) /\ Furthest(t, going) = Furthest(s, moving)
  BY <1>2, <1>10, TwinValues
<1>13. moving = {} <=> going = {}
  BY <1>10 DEF Image
<1>14. Stopped(s, at) = {} <=> Stopped(t, bt) = {}
  BY <1>3 DEF Image
<1>15. Stopped(s, at) # {} => t[Min(Stopped(t, bt))].value = s[Min(Stopped(s, at))].value
  <2> DEFINE X == Stopped(s, at)
  <2>1. X # {} => Min(X) \in at /\ Min(Image(g, X)) = g[Min(X)]
    BY <1>4, TwinMin
  <2> HIDE DEF X
  <2> QED
    BY <1>1, <1>3, <2>1 DEF Same, X
<1> QED
  BY <1>11, <1>12, <1>13, <1>14, <1>15

\* A field that claims own resolves alike from twins.
LEMMA TwinChoice ==
  ASSUME NEW f \in CLAIM_OWNED_FIELDS, NEW s, NEW at, NEW t, NEW bt, NEW g,
         Twins(s, at, t, bt, g), \A i \in at : s[i].value \in Value(f), NEW held, NEW other
  PROVE  Choice(FIELD_POLICY[f], t, bt, other) = Choice(FIELD_POLICY[f], s, at, held)
<1>1. \A i \in at : Same(s[i], t[g[i]])
  BY DEF Twins
<1>2. bt = Image(g, at) /\ at # {} /\ bt # {}
  BY DEF Twins, Image, Numbers
<1>3. CASE f = "mw_planned"
  <2>1. FIELD_POLICY[f] = "prefer_weight"
    BY <1>3 DEF FIELD_POLICY
  <2>2. Min(at) \in at /\ Min(bt) = g[Min(at)]
    BY <1>2, TwinMin
  <2> QED
    BY <1>1, <1>2, <2>1, <2>2 DEF Choice, Same
<1>4. CASE f = "mw_built"
  <2>1. FIELD_POLICY[f] = "max"
    BY <1>4 DEF FIELD_POLICY
  <2>2. ValuesAt(t, bt) = ValuesAt(s, at)
    BY <1>2, TwinValues
  <2> QED
    BY <1>2, <2>1, <2>2 DEF Choice, ValuesAt
<1>5. CASE f = "phase"
  <2>1. FIELD_POLICY[f] = "phase"
    BY <1>5 DEF FIELD_POLICY
  <2>2. Ladder(t, bt) = Ladder(s, at)
    BY TwinLadder
  <2> QED
    BY <1>2, <2>1, <2>2 DEF Choice
<1>6. CASE f = "first_announced"
  <2>1. FIELD_POLICY[f] = "min"
    BY <1>6 DEF FIELD_POLICY
  <2>2. \A i \in at : s[i].value \in Nat
    BY <1>6, ValueIs
  <2> DEFINE r == Refined(s, at, First(s, at))
  <2>3. First(s, at) \in at /\ First(t, bt) = g[First(s, at)]
    BY <2>2, TwinFirst
  <2>4. r \in at /\ Refined(t, bt, g[First(s, at)]) = g[r]
    BY <2>2, <2>3, TwinRefined
  <2>5. Refined(t, bt, First(t, bt)) = g[r]
    BY <2>3, <2>4
  <2>6. /\ Choice(FIELD_POLICY[f], t, bt, other) = t[Refined(t, bt, First(t, bt))].value
        /\ Choice(FIELD_POLICY[f], s, at, held) = s[r].value
    BY <1>2, <2>1 DEF Choice
  <2> HIDE DEF r
  <2> QED
    BY <1>1, <2>4, <2>5, <2>6 DEF Same
<1> QED
  BY <1>3, <1>4, <1>5, <1>6, ValueIs

-----------------------------------------------------------------------------
(* The claims a weak page cannot displace.                                 *)

\* The pages whose claim about a field is quoted, first-hand, of the whole site and not ruled out.
Core(cs, f) ==
  {q \in LivePages(cs, f) : /\ ~cs[q].claims[f].flagged /\ ~cs[q].claims[f].part
                            /\ ~PageInfo[q].tertiary}

\* As long as there is such a page, these are the contenders.
LEMMA CoreContends ==
  ASSUME NEW cs, NEW at, Cites(cs), Order(cs, at), NEW f \in Fields, Core(cs, f) # {}
  PROVE  LET s == By(cs, at)[f]
             c == Contenders(s, Counted(cs, at)[f])
         IN  /\ c \subseteq DOMAIN s /\ c \subseteq Counted(cs, at)[f] /\ c # {}
             /\ Numbers(c) /\ Holds(f, s, c)
             /\ \A i \in c : \E q \in Core(cs, f) : s[i] = ClaimOf(cs, at, q, f)
             /\ \A q \in Core(cs, f) : \E i \in c : s[i] = ClaimOf(cs, at, q, f)
<1> DEFINE by   == By(cs, at)
           s    == by[f]
           live == Counted(cs, at)[f]
           c    == Contenders(s, live)
           C(q) == ClaimOf(cs, at, q, f)
<1>1. /\ live \subseteq DOMAIN s /\ Holds(f, s, live)
      /\ \A i \in live : \E q \in LivePages(cs, f) : s[i] = C(q)
  BY LiveIs DEF By, Counted
<1>2. /\ live = {i \in Undecided(s) : f \in CAPACITY_FIELDS => ~Misread(by, s[i])}
      /\ Undecided(s) = {i \in DOMAIN s : ~s[i].decided}
  BY DEF Counted, HoldOutKilowatts, Undecided
<1>3. \A q \in DOMAIN cs : f \in DOMAIN cs[q].claims => \E i \in DOMAIN s : s[i] = C(q)
  BY ByField DEF By
<1>4. \A q : /\ C(q).decided <=> cs[q].claims[f].ruling # "none"
             /\ C(q).confirmed <=> ~cs[q].claims[f].flagged
             /\ C(q).part = cs[q].claims[f].part /\ C(q).tertiary = PageInfo[q].tertiary
  BY DEF ClaimOf
<1>5. \A d : Misread(by, d) => ~d.confirmed
  BY DEF Misread
<1> HIDE DEF by, s, live, C
<1>6. ASSUME NEW q \in Core(cs, f)
      PROVE  \E i \in live : s[i] = C(q) /\ s[i].confirmed /\ ~s[i].part /\ ~s[i].tertiary
  <2>1. /\ q \in DOMAIN cs /\ f \in DOMAIN cs[q].claims /\ cs[q].claims[f].ruling = "none"
        /\ ~cs[q].claims[f].flagged /\ ~cs[q].claims[f].part /\ ~PageInfo[q].tertiary
    BY DEF Core, LivePages
  <2>2. PICK i \in DOMAIN s : s[i] = C(q)
    BY <1>3, <2>1
  <2>3. ~s[i].decided /\ s[i].confirmed /\ ~s[i].part /\ ~s[i].tertiary
    BY <1>4, <2>1, <2>2
  <2>4. i \in live
    BY <1>2, <1>5, <2>3
  <2> QED
    BY <2>2, <2>3, <2>4
<1>7. PICK p \in Core(cs, f) : TRUE
  OBVIOUS
<1>8. c = {j \in live : s[j].confirmed /\ ~s[j].part /\ ~s[j].tertiary}
  <2>1. PICK i \in live : s[i].confirmed /\ ~s[i].part /\ ~s[i].tertiary
    BY <1>6, <1>7
  <2> QED
    BY <2>1, ContendersAre
<1> HIDE DEF c
<1>9. \A q \in Core(cs, f) : \E i \in c : s[i] = C(q)
  BY <1>6, <1>8
<1>10. ASSUME NEW i \in c PROVE \E q \in Core(cs, f) : s[i] = C(q)
  <2>1. PICK q \in LivePages(cs, f) : s[i] = C(q)
    BY <1>1, <1>8
  <2>2. ~cs[q].claims[f].flagged /\ ~cs[q].claims[f].part /\ ~PageInfo[q].tertiary
    BY <1>4, <1>8, <2>1
  <2> QED
    BY <2>1, <2>2 DEF Core
<1>11. c \subseteq live /\ c # {}
  BY <1>7, <1>8, <1>9
<1>12. Numbers(c) /\ Holds(f, s, c)
  BY <1>1, <1>11, FS_Subset DEF Numbers, Holds
<1> QED
  BY <1>1, <1>9, <1>10, <1>11, <1>12 DEF by, s, live, c, C

\* A place is before another when its claim is above the other's.
LEMMA RankedSorted ==
  ASSUME NEW S, Keyed(S)
  PROVE  \A i, j \in DOMAIN Ranked(S) :
           i < j <=> Above(SortKey(Ranked(S)[i], S), SortKey(Ranked(S)[j], S))
<1> DEFINE s == Ranked(S)
<1>1. Ranks(s, S)
  BY RankingExists DEF Ranked, Ranks
<1> HIDE DEF s
<1>2. DOMAIN s = 1..Cardinality(S) /\ Cardinality(S) \in Nat
  BY <1>1, FS_CardinalityType DEF Ranks, Keyed
<1>3. \A i \in DOMAIN s : i \in Nat /\ s[i] \in S
  BY <1>1, <1>2 DEF Ranks
<1>4. \A i \in DOMAIN s : SortKey(s[i], S) \in Key
  BY <1>3 DEF Keyed
<1>5. \A i, j \in DOMAIN s : i < j => Above(SortKey(s[i], S), SortKey(s[j], S))
  BY <1>1 DEF Ranks
<1>6. ASSUME NEW i \in DOMAIN s, NEW j \in DOMAIN s,
             Above(SortKey(s[i], S), SortKey(s[j], S))
      PROVE  i < j
  <2>1. i # j /\ ~(j < i)
    BY <1>4, <1>5, <1>6, AboveIs
  <2>2. i \in Nat /\ j \in Nat
    BY <1>3
  <2> QED
    BY <2>1, <2>2
<1> QED
  BY <1>5, <1>6 DEF s

\* Among such pages a newer one outdates an older one, and only they outdate each other.
Outdated(cs, f, q) ==
  /\ PageInfo[q].published # 0
  /\ \E r \in Core(cs, f) : /\ cs[r].claims[f].part = cs[q].claims[f].part
                            /\ PageInfo[r].tertiary = PageInfo[q].tertiary
                            /\ PageInfo[r].published > PageInfo[q].published + STALE_AFTER

\* What the claim of such a page is ranked by,
CoreKey(cs, at, f, q) ==
  <<1, 1, 1, 1, Bit(~Outdated(cs, f, q)), PageInfo[q].weight,
    IF ByPublication /\ PageInfo[q].published # 0 THEN PageInfo[q].published ELSE Place(at, q), q>>

\* which is its key among all claims about the field.
LEMMA CoreKeyIs ==
  ASSUME NEW cs, NEW at, NEW f, NEW q \in Core(cs, f)
  PROVE  SortKey(ClaimOf(cs, at, q, f), ClaimsOn(cs, at, f)) = CoreKey(cs, at, f, q)
<1> DEFINE S    == ClaimsOn(cs, at, f)
           C(r) == ClaimOf(cs, at, r, f)
           Q    == {r \in DOMAIN cs : f \in DOMAIN cs[r].claims}
<1>1. S = {C(r) : r \in Q}
  BY DEF ClaimsOn
<1>2. \A r : /\ C(r).decided = (cs[r].claims[f].ruling # "none")
             /\ C(r).confirmed = ~cs[r].claims[f].flagged
             /\ C(r).part = cs[r].claims[f].part /\ C(r).tertiary = PageInfo[r].tertiary
             /\ C(r).published = PageInfo[r].published /\ C(r).weight = PageInfo[r].weight
             /\ C(r).fetched = Place(at, r) /\ C(r).page = r
  BY DEF ClaimOf
<1>3. /\ q \in Q /\ cs[q].claims[f].ruling = "none"
      /\ ~cs[q].claims[f].flagged /\ ~cs[q].claims[f].part /\ ~PageInfo[q].tertiary
  BY DEF Core, LivePages
<1>4. Core(cs, f) = {r \in Q : /\ cs[r].claims[f].ruling = "none" /\ ~cs[r].claims[f].flagged
                               /\ ~cs[r].claims[f].part /\ ~PageInfo[r].tertiary}
  BY DEF Core, LivePages
<1> HIDE DEF C, Q
<1>5. \A r \in Q : Standing(C(r)) = Standing(C(q))
        <=> /\ r \in Core(cs, f) /\ cs[r].claims[f].part = cs[q].claims[f].part
            /\ PageInfo[r].tertiary = PageInfo[q].tertiary
  BY <1>2, <1>3, <1>4 DEF Standing
<1>6. Stale(C(q), S) <=> Outdated(cs, f, q)
  BY <1>1, <1>2, <1>4, <1>5 DEF Stale, Outdated
<1> HIDE DEF S
<1>7. /\ Bit(~C(q).decided) = 1 /\ Bit(C(q).confirmed) = 1
      /\ Bit(~C(q).part) = 1 /\ Bit(~C(q).tertiary) = 1
      /\ Bit(~Stale(C(q), S)) = Bit(~Outdated(cs, f, q))
      /\ Recency(C(q)) = IF ByPublication /\ PageInfo[q].published # 0
                         THEN PageInfo[q].published ELSE Place(at, q)
  BY <1>2, <1>3, <1>6 DEF Bit, Recency
<1>8. SortKey(C(q), S) = CoreKey(cs, at, f, q)
  BY <1>2, <1>7 DEF SortKey, CoreKey
<1> QED
  BY <1>8 DEF C, S

-----------------------------------------------------------------------------
(* A weak page.                                                            *)

\* A first-hand page is dated, where days of publication and places in the order of fetching
\* are compared.
Datable ==
  ByPublication => \A p \in Pages : PageInfo[p].tertiary \/ PageInfo[p].published # 0

\* The citations with a page more, first or last in the order of fetching, which claims nothing
\* both quoted and first-hand.
Grows(cs, at, new, to, p) ==
  /\ Cites(cs) /\ Order(cs, at) /\ Cites(new) /\ Order(new, to)
  /\ p \notin DOMAIN cs /\ DOMAIN new = DOMAIN cs \cup {p}
  /\ \A q \in DOMAIN cs : new[q] = cs[q]
  /\ \E k \in {0, 1} : \A q \in DOMAIN cs : Place(to, q) = Place(at, q) + k
  /\ PageInfo[p].tertiary \/ \A f \in DOMAIN new[p].claims : new[p].claims[f].flagged

\* Such a page neither is nor changes a page with a quoted first-hand claim.
LEMMA CoreStays ==
  ASSUME NEW cs, NEW at, NEW new, NEW to, NEW p, Grows(cs, at, new, to, p), NEW f
  PROVE  /\ Core(new, f) = Core(cs, f)
         /\ \A q \in Core(cs, f) : /\ q \in DOMAIN cs /\ q \in DOMAIN new /\ new[q] = cs[q]
                                   /\ q \in Pages /\ ~PageInfo[q].tertiary
<1>1. p \notin Core(new, f)
  BY DEF Grows, Core, LivePages
<1>2. \A q \in DOMAIN cs : q \in Core(new, f) <=> q \in Core(cs, f)
  BY DEF Grows, Core, LivePages
<1>3. \A q \in Core(cs, f) : q \in DOMAIN cs /\ ~PageInfo[q].tertiary
  BY DEF Core, LivePages
<1>4. \A q \in Core(new, f) : q \in DOMAIN cs
  BY <1>1 DEF Grows, Core, LivePages
<1> QED
  BY <1>2, <1>3, <1>4 DEF Grows, Cites

\* A ranking of two keys is not changed by moving both by as much in one number.
LEMMA AboveMoved ==
  ASSUME NEW k, NEW l, NEW k2, NEW l2, DOMAIN k = 1..8, DOMAIN k2 = 1..8,
         \A i \in 1..8 : (k[i] > l[i] <=> k2[i] > l2[i]) /\ (k[i] = l[i] <=> k2[i] = l2[i])
  PROVE  Above(k, l) <=> Above(k2, l2)
BY DEF Above

\* So two quoted first-hand claims keep their order.
LEMMA CoreAbove ==
  ASSUME Datable, NEW cs, NEW at, NEW new, NEW to, NEW p, Grows(cs, at, new, to, p), NEW f,
         NEW q \in Core(cs, f), NEW r \in Core(cs, f)
  PROVE  Above(CoreKey(cs, at, f, q), CoreKey(cs, at, f, r))
           <=> Above(CoreKey(new, to, f, q), CoreKey(new, to, f, r))
<1> DEFINE k  == CoreKey(cs, at, f, q)
           l  == CoreKey(cs, at, f, r)
           k2 == CoreKey(new, to, f, q)
           l2 == CoreKey(new, to, f, r)
<1>1. /\ q \in DOMAIN cs /\ new[q] = cs[q] /\ q \in Pages /\ ~PageInfo[q].tertiary
      /\ r \in DOMAIN cs /\ new[r] = cs[r] /\ r \in Pages /\ ~PageInfo[r].tertiary
  BY CoreStays
<1>2. (Outdated(new, f, q) <=> Outdated(cs, f, q)) /\ (Outdated(new, f, r) <=> Outdated(cs, f, r))
  BY <1>1, CoreStays DEF Outdated
<1>3. PICK d \in {0, 1} : \A x \in DOMAIN cs : Place(to, x) = Place(at, x) + d
  BY DEF Grows
<1>4. Place(at, q) \in Nat /\ Place(at, r) \in Nat
  <2>1. Len(at) \in Nat /\ Place(at, q) \in 1..Len(at) /\ Place(at, r) \in 1..Len(at)
    BY <1>1, PlaceIs, LenProperties DEF Grows, Order
  <2> QED
    BY <2>1
<1>5. PageInfo[q].published \in Nat /\ PageInfo[r].published \in Nat
  BY <1>1, PageInfoIs
<1>6. /\ ByPublication => PageInfo[q].published # 0 /\ PageInfo[r].published # 0
  BY <1>1 DEF Datable
<1>7. (k[7] > l[7] <=> k2[7] > l2[7]) /\ (k[7] = l[7] <=> k2[7] = l2[7])
  <2>1. CASE ByPublication
    <3>1. k[7] = k2[7] /\ l[7] = l2[7]
      BY <1>6, <2>1 DEF CoreKey
    <3> QED
      BY <3>1
  <2>2. CASE ~ByPublication
    <3>1. k[7] = Place(at, q) /\ l[7] = Place(at, r)
          /\ k2[7] = Place(at, q) + d /\ l2[7] = Place(at, r) + d
      BY <1>1, <1>3, <2>2 DEF CoreKey
    <3> QED
      BY <1>4, <3>1
  <2> QED
    BY <2>1, <2>2
<1>8. \A i \in 1..8 : i # 7 => k2[i] = k[i] /\ l2[i] = l[i]
  <2>1. Bit(~Outdated(new, f, q)) = Bit(~Outdated(cs, f, q))
        /\ Bit(~Outdated(new, f, r)) = Bit(~Outdated(cs, f, r))
    BY <1>2 DEF Bit
  <2>2. \A i \in 1..8 : i \in {1, 2, 3, 4, 5, 6, 7, 8}
    OBVIOUS
  <2> QED
    BY <2>1, <2>2 DEF CoreKey
<1>9. DOMAIN k = 1..8 /\ DOMAIN k2 = 1..8
  BY DEF CoreKey
<1> HIDE DEF k, l, k2, l2
<1>10. \A i \in 1..8 : (k[i] > l[i] <=> k2[i] > l2[i]) /\ (k[i] = l[i] <=> k2[i] = l2[i])
  BY <1>7, <1>8
<1>11. Above(k, l) <=> Above(k2, l2)
  BY <1>9, <1>10, AboveMoved
<1> QED
  BY <1>11 DEF k, l, k2, l2

\* What a place among the contenders is, and how two of them lie.
LEMMA CorePlaces ==
  ASSUME NEW cs, NEW at, Cites(cs), Order(cs, at), NEW f \in Fields, Core(cs, f) # {}
  PROVE  LET s == By(cs, at)[f]
             c == Contenders(s, Counted(cs, at)[f])
         IN  /\ \A i \in c : /\ s[i].page \in Core(cs, f)
                             /\ s[i] = ClaimOf(cs, at, s[i].page, f)
             /\ \A q \in Core(cs, f) : \E i \in c : s[i].page = q
             /\ \A i, j \in c : i < j <=> Above(CoreKey(cs, at, f, s[i].page),
                                                CoreKey(cs, at, f, s[j].page))
             /\ \A i, j \in c : s[i].page = s[j].page => i = j
<1> DEFINE S == ClaimsOn(cs, at, f)
           s == By(cs, at)[f]
           c == Contenders(s, Counted(cs, at)[f])
           K(i) == CoreKey(cs, at, f, s[i].page)
<1>1. /\ c \subseteq DOMAIN s /\ Numbers(c)
      /\ \A i \in c : \E q \in Core(cs, f) : s[i] = ClaimOf(cs, at, q, f)
      /\ \A q \in Core(cs, f) : \E i \in c : s[i] = ClaimOf(cs, at, q, f)
  BY CoreContends
<1>2. Keyed(S) /\ s = Ranked(S)
  BY ClaimsKeyed DEF By, ClaimsByField
<1>3. \A q : ClaimOf(cs, at, q, f).page = q
  BY DEF ClaimOf
<1>4. /\ \A i \in DOMAIN s : s[i] \in S
      /\ \A i, j \in DOMAIN s : i < j <=> Above(SortKey(s[i], S), SortKey(s[j], S))
  BY <1>2, RankedIs, RankedSorted
<1> HIDE DEF s, c, S
<1>5. \A i \in c : s[i].page \in Core(cs, f) /\ s[i] = ClaimOf(cs, at, s[i].page, f)
  BY <1>1, <1>3
<1>6. \A q \in Core(cs, f) : \E i \in c : s[i].page = q
  BY <1>1, <1>3
<1>7. \A i \in c : SortKey(s[i], S) = K(i) /\ K(i) \in Key
  <2>1. \A i \in c : SortKey(s[i], S) = K(i)
    BY <1>5, CoreKeyIs DEF S
  <2>2. \A i \in c : SortKey(s[i], S) \in Key
    BY <1>1, <1>2, <1>4 DEF Keyed
  <2> QED
    BY <2>1, <2>2
<1>8. \A i, j \in c : i < j <=> Above(K(i), K(j))
  BY <1>1, <1>4, <1>7
<1>9. ASSUME NEW i \in c, NEW j \in c, s[i].page = s[j].page PROVE i = j
  <2>1. K(i) = K(j) /\ K(i) \in Key
    BY <1>7, <1>9
  <2>2. ~(i < j) /\ ~(j < i)
    BY <1>8, <2>1, AboveIs
  <2>3. i \in Nat /\ j \in Nat
    BY <1>1 DEF Numbers
  <2> QED
    BY <2>2, <2>3
<1> QED
  BY <1>5, <1>6, <1>8, <1>9 DEF s, c

\* With a weak page more the contenders are the same claims, in the same order.
LEMMA CoreTwins ==
  ASSUME Datable, NEW cs, NEW at, NEW new, NEW to, NEW p, Grows(cs, at, new, to, p),
         NEW f \in Fields, Core(cs, f) # {}
  PROVE  \E g : Twins(By(cs, at)[f], Contenders(By(cs, at)[f], Counted(cs, at)[f]),
                      By(new, to)[f], Contenders(By(new, to)[f], Counted(new, to)[f]), g)
<1> DEFINE s == By(cs, at)[f]
           c == Contenders(s, Counted(cs, at)[f])
           t == By(new, to)[f]
           d == Contenders(t, Counted(new, to)[f])
           core == Core(cs, f)
           g == [i \in c |-> CHOOSE j \in d : t[j].page = s[i].page]
<1>1. /\ Cites(cs) /\ Order(cs, at) /\ Cites(new) /\ Order(new, to) /\ Core(new, f) = core
      /\ \A q \in core : new[q] = cs[q]
  BY CoreStays DEF Grows
<1>2. Numbers(c) /\ Numbers(d)
  BY <1>1, CoreContends
<1>3. /\ \A i \in c : s[i].page \in core /\ s[i] = ClaimOf(cs, at, s[i].page, f)
      /\ \A q \in core : \E i \in c : s[i].page = q
      /\ \A i, j \in c : i < j <=> Above(CoreKey(cs, at, f, s[i].page),
                                         CoreKey(cs, at, f, s[j].page))
  BY <1>1, CorePlaces
<1>4. /\ \A i \in d : t[i].page \in core /\ t[i] = ClaimOf(new, to, t[i].page, f)
      /\ \A q \in core : \E i \in d : t[i].page = q
      /\ \A i, j \in d : i < j <=> Above(CoreKey(new, to, f, t[i].page),
                                         CoreKey(new, to, f, t[j].page))
      /\ \A i, j \in d : t[i].page = t[j].page => i = j
  BY <1>1, CorePlaces
<1>5. \A q \in core, r \in core :
        Above(CoreKey(cs, at, f, q), CoreKey(cs, at, f, r))
          <=> Above(CoreKey(new, to, f, q), CoreKey(new, to, f, r))
  BY CoreAbove
<1> HIDE DEF s, c, t, d
<1>6. \A i \in c : g[i] \in d /\ t[g[i]].page = s[i].page
  BY <1>3, <1>4
<1>7. g \in [c -> d]
  BY <1>6
<1> HIDE DEF g
<1>8. ASSUME NEW j \in d PROVE \E i \in c : g[i] = j
  <2>1. PICK i \in c : s[i].page = t[j].page
    BY <1>3, <1>4
  <2> QED
    BY <1>4, <1>6, <2>1
<1>9. ASSUME NEW i \in c, NEW k \in c, i < k PROVE g[i] < g[k]
  BY <1>3, <1>4, <1>5, <1>6, <1>9
<1>10. ASSUME NEW i \in c PROVE Same(s[i], t[g[i]])
  <2> DEFINE q == s[i].page
  <2>1. q \in core /\ s[i] = ClaimOf(cs, at, q, f) /\ t[g[i]] = ClaimOf(new, to, q, f)
    BY <1>3, <1>4, <1>6
  <2>2. new[q] = cs[q]
    BY <1>1, <2>1
  <2> HIDE DEF q
  <2> QED
    BY <2>1, <2>2 DEF Same, ClaimOf
<1>11. Twins(s, c, t, d, g)
  BY <1>2, <1>7, <1>8, <1>9, <1>10 DEF Twins
<1> QED
  BY <1>11 DEF s, c, t, d

\* A field with a quoted first-hand claim that counts keeps what its claims resolve to.
LEMMA CoreResolved ==
  ASSUME Datable, NEW cs, NEW at, NEW new, NEW to, NEW p, Grows(cs, at, new, to, p),
         NEW f \in CLAIM_OWNED_FIELDS, Core(cs, f) # {}, NEW held, NEW other
  PROVE  Resolved(new, to, other)[f] = Resolved(cs, at, held)[f]
<1> DEFINE s == By(cs, at)[f]
           c == Contenders(s, Counted(cs, at)[f])
           t == By(new, to)[f]
           d == Contenders(t, Counted(new, to)[f])
<1>1. f \in Fields
  BY ValueIs
<1>2. /\ Cites(cs) /\ Order(cs, at) /\ Cites(new) /\ Order(new, to) /\ Core(new, f) # {}
  BY CoreStays DEF Grows
<1>3. PICK g : Twins(s, c, t, d, g)
  BY <1>1, CoreTwins
<1>4. c # {} /\ c \subseteq Counted(cs, at)[f] /\ \A i \in c : s[i].value \in Value(f)
  BY <1>1, <1>2, CoreContends DEF Holds
<1>5. d # {} /\ d \subseteq Counted(new, to)[f]
  BY <1>1, <1>2, CoreContends
<1>6. Resolved(cs, at, held)[f] = ResolveField(f, s, Counted(cs, at)[f], held[f])
      /\ Resolved(new, to, other)[f] = ResolveField(f, t, Counted(new, to)[f], other[f])
  BY <1>1 DEF Resolved, Chosen
<1> HIDE DEF s, t
<1>7. ResolveField(f, s, Counted(cs, at)[f], held[f]) = Choice(FIELD_POLICY[f], s, c, held[f])
      /\ ResolveField(f, t, Counted(new, to)[f], other[f]) = Choice(FIELD_POLICY[f], t, d, other[f])
  BY <1>4, <1>5 DEF ResolveField
<1> HIDE DEF c, d
<1>8. Choice(FIELD_POLICY[f], t, d, other[f]) = Choice(FIELD_POLICY[f], s, c, held[f])
  BY <1>3, <1>4, TwinChoice
<1> QED
  BY <1>6, <1>7, <1>8 DEF s, c, t, d

\* It is one of them that states it.
LEMMA CoreStates ==
  ASSUME NEW cs, NEW at, Cites(cs), Order(cs, at), NEW f \in CLAIM_OWNED_FIELDS,
         Core(cs, f) # {}, NEW held
  PROVE  LET s == By(cs, at)[f]
         IN  \E i \in Counted(cs, at)[f], q \in Core(cs, f) :
               /\ s[i] = ClaimOf(cs, at, q, f) /\ Resolved(cs, at, held)[f] = s[i].value
               /\ s[i].confirmed /\ ~s[i].tertiary
<1> DEFINE s    == By(cs, at)[f]
           live == Counted(cs, at)[f]
           c    == Contenders(s, live)
<1>1. f \in Fields
  BY ValueIs
<1>2. /\ c \subseteq live /\ c # {} /\ \A i \in c : \E q \in Core(cs, f) : s[i] = ClaimOf(cs, at, q, f)
  BY <1>1, CoreContends
<1>3. Holds(f, s, live)
  BY <1>1, LiveIs DEF By, Counted
<1>4. Resolved(cs, at, held)[f] = ResolveField(f, s, live, held[f])
  BY <1>1 DEF Resolved, Chosen
<1>5. \A q \in Core(cs, f) : ClaimOf(cs, at, q, f).confirmed /\ ~ClaimOf(cs, at, q, f).tertiary
  BY DEF Core, ClaimOf
<1> HIDE DEF s, live
<1>6. PICK i \in c : ResolveField(f, s, live, held[f]) = s[i].value
  BY <1>2, <1>3, ResolveIs
<1>7. PICK q \in Core(cs, f) : s[i] = ClaimOf(cs, at, q, f)
  BY <1>2
<1>8. i \in live /\ s[i].confirmed /\ ~s[i].tertiary
  BY <1>2, <1>5, <1>7
<1> QED
  BY <1>4, <1>6, <1>7, <1>8 DEF s, live

\* How well the best supported of some claims is supported.
LEMMA StrongestIs ==
  ASSUME NEW s, NEW at, IsFiniteSet(at)
  PROVE  /\ Strongest(s, at) \in 0..3
         /\ (\A i \in at : ~(s[i].confirmed /\ ~s[i].tertiary)) => Strongest(s, at) <= 2
         /\ (\E i \in at : s[i].confirmed /\ ~s[i].tertiary) => Strongest(s, at) = 3
<1> DEFINE v == [i \in at |-> Support(s[i])]
           V == {v[i] : i \in at}
<1>1. \A c : /\ Support(c) \in 0..2
             /\ Support(c) = 2 <=> c.confirmed /\ ~c.tertiary
  BY DEF Support, Bit
<1>2. V = {Support(s[i]) : i \in at}
  OBVIOUS
<1>3. Strongest(s, at) = IF at = {} THEN 0 ELSE 1 + Max(V)
  BY <1>2 DEF Strongest
<1>4. v \in [at -> Nat] /\ \A i \in at : v[i] \in 0..2 /\ (v[i] = 2 <=> s[i].confirmed /\ ~s[i].tertiary)
  BY <1>1
<1> HIDE DEF v
<1>5. CASE at = {}
  BY <1>3, <1>5
<1>6. CASE at # {}
  <2>1. Numbers(V)
    <3>1. IsFiniteSet(V)
      BY <1>4, ImageIs
    <3> QED
      BY <1>4, <1>6, <3>1 DEF Numbers
  <2>2. Max(V) \in V /\ \A x \in V : x <= Max(V)
    BY <2>1, Extremes
  <2> DEFINE m == Max(V)
  <2>3. PICK i \in at : m = v[i]
    BY <2>2
  <2>4. \A k \in at : v[k] <= m
    BY <2>2
  <2> HIDE DEF m, V
  <2>5. m \in 0..2
    BY <1>4, <2>3
  <2>6. (\A k \in at : ~(s[k].confirmed /\ ~s[k].tertiary)) => m <= 1
    BY <1>4, <2>3, <2>5
  <2>7. (\E k \in at : s[k].confirmed /\ ~s[k].tertiary) => m = 2
    BY <1>4, <2>4, <2>5
  <2> QED
    BY <1>3, <1>6, <2>5, <2>6, <2>7 DEF m
<1> QED
  BY <1>5, <1>6

\* The row's running figure is then the one its claims resolve to.
LEMMA BuiltStands ==
  ASSUME NEW cs, NEW at, Cites(cs), Order(cs, at), NEW held, Core(cs, "mw_built") # {}
  PROVE  Recompute(cs, at, held).mw_built = Resolved(cs, at, held)["mw_built"]
<1> DEFINE by      == By(cs, at)
           live    == Counted(cs, at)
           runs    == by["mw_built"]
           chosen  == Resolved(cs, at, held)
           planned == chosen["mw_planned"]
           built   == chosen["mw_built"]
           excess  == {i \in live["mw_built"] : runs[i].value > planned}
           plan    == {i \in live["mw_planned"] : by["mw_planned"][i].value = planned
                                                   /\ ~by["mw_planned"][i].floor}
           agreed  == SettleCapacity(planned, built, by, live)
<1>1. {"mw_planned", "mw_built"} \subseteq CLAIM_OWNED_FIELDS \cap Fields
  BY ValueIs
<1>2. PICK i \in live["mw_built"] : built = runs[i].value /\ runs[i].confirmed /\ ~runs[i].tertiary
  BY <1>1, CoreStates
<1>3. Holds("mw_planned", by["mw_planned"], live["mw_planned"])
      /\ Holds("mw_built", runs, live["mw_built"])
  BY <1>1, LiveIs DEF By, Counted
<1>4. built # 0
  BY <1>1, <1>2, <1>3, ValueIs DEF Holds
<1>5. Recompute(cs, at, held).mw_built = Fill(cs, agreed[1], agreed[2])[2]
  BY DEF Recompute, Derive, By, Counted, Resolved
<1> HIDE DEF by, live, chosen
<1>6. agreed[2] = built
  <2>1. CASE planned = 0 \/ built <= planned
    BY <2>1 DEF SettleCapacity
  <2>2. CASE ~(planned = 0 \/ built <= planned)
    <3>1. IsFiniteSet(excess) /\ IsFiniteSet(plan)
      BY <1>3, FS_Subset DEF Holds
    <3>2. planned \in Nat /\ built \in Nat
      <4>1. {planned, built} \subseteq Nat
        BY <1>1, ResolvedIs, ValueIs DEF chosen, Empty
      <4> QED
        BY <4>1
    <3>3. i \in excess
      BY <1>2, <2>2, <3>2
    <3>4. Strongest(runs, excess) = 3 /\ Strongest(by["mw_planned"], plan) \in 0..3
      <4> HIDE DEF excess, plan
      <4> QED
        BY <1>2, <3>1, <3>3, StrongestIs
    <3>5. ~(Strongest(runs, excess) < Strongest(by["mw_planned"], plan))
      BY <3>4
    <3> QED
      BY <2>2, <3>5 DEF SettleCapacity
  <2> QED
    BY <2>1, <2>2
<1> HIDE DEF agreed, built
<1> QED
  BY <1>4, <1>5, <1>6 DEF Fill, built, chosen

\* And so is the plan, if no such report disputes it.
LEMMA PlanStands ==
  ASSUME NEW cs, NEW at, Cites(cs), Order(cs, at), NEW held, Core(cs, "mw_planned") # {},
         \A q \in Core(cs, "mw_planned") :
           /\ ~cs[q].claims["mw_planned"].floor
           /\ \A r \in LivePages(cs, "mw_built") :
                \/ PageInfo[r].tertiary \/ cs[r].claims["mw_built"].flagged
                \/ cs[r].claims["mw_built"].value <= cs[q].claims["mw_planned"].value
  PROVE  Recompute(cs, at, held).mw_planned = Resolved(cs, at, held)["mw_planned"]
<1> DEFINE by      == By(cs, at)
           live    == Counted(cs, at)
           plans   == by["mw_planned"]
           runs    == by["mw_built"]
           chosen  == Resolved(cs, at, held)
           planned == chosen["mw_planned"]
           built   == chosen["mw_built"]
           excess  == {i \in live["mw_built"] : runs[i].value > planned}
           plan    == {i \in live["mw_planned"] : plans[i].value = planned /\ ~plans[i].floor}
           agreed  == SettleCapacity(planned, built, by, live)
<1>1. {"mw_planned", "mw_built"} \subseteq CLAIM_OWNED_FIELDS \cap Fields
  BY ValueIs
<1>2. PICK i \in live["mw_planned"], q \in Core(cs, "mw_planned") :
        /\ plans[i] = ClaimOf(cs, at, q, "mw_planned") /\ planned = plans[i].value
        /\ plans[i].confirmed /\ ~plans[i].tertiary
  BY <1>1, CoreStates
<1>3. /\ Holds("mw_planned", plans, live["mw_planned"])
      /\ Holds("mw_built", runs, live["mw_built"])
      /\ \A j \in live["mw_built"] : \E r \in LivePages(cs, "mw_built") :
           runs[j] = ClaimOf(cs, at, r, "mw_built")
  BY <1>1, LiveIs DEF By, Counted
<1>4. planned # 0 /\ planned \in Nat
  BY <1>1, <1>2, <1>3, ValueIs DEF Holds
<1>5. Recompute(cs, at, held).mw_planned = Fill(cs, agreed[1], agreed[2])[1]
  BY DEF Recompute, Derive, By, Counted, Resolved
<1> HIDE DEF by, live, chosen
<1>6. i \in plan
  BY <1>2 DEF ClaimOf
<1>7. ASSUME NEW j \in excess PROVE ~(runs[j].confirmed /\ ~runs[j].tertiary)
  <2>1. PICK r \in LivePages(cs, "mw_built") : runs[j] = ClaimOf(cs, at, r, "mw_built")
    BY <1>3
  <2>2. /\ runs[j].value = cs[r].claims["mw_built"].value
        /\ runs[j].confirmed <=> ~cs[r].claims["mw_built"].flagged
        /\ runs[j].tertiary = PageInfo[r].tertiary
        /\ planned = cs[q].claims["mw_planned"].value
    <3>1. \A x, f : LET c == ClaimOf(cs, at, x, f)
                  IN  /\ c.value = cs[x].claims[f].value
                      /\ c.confirmed <=> ~cs[x].claims[f].flagged
                      /\ c.tertiary = PageInfo[x].tertiary
      BY DEF ClaimOf
    <3> QED
      BY <1>2, <2>1, <3>1
  <2>3. runs[j].value > planned /\ runs[j].value \in Nat
    BY <1>1, <1>3, ValueIs DEF Holds
  <2> QED
    BY <1>4, <2>2, <2>3
<1>8. IsFiniteSet(excess) /\ IsFiniteSet(plan)
  BY <1>3, FS_Subset DEF Holds
<1>9. Strongest(runs, excess) < Strongest(plans, plan)
  <2> HIDE DEF excess, plan
  <2>1. Strongest(plans, plan) = 3
    BY <1>2, <1>6, <1>8, StrongestIs
  <2>2. Strongest(runs, excess) <= 2 /\ Strongest(runs, excess) \in 0..3
    BY <1>7, <1>8, StrongestIs
  <2> QED
    BY <2>1, <2>2
<1>10. agreed[1] = planned
  BY <1>9 DEF SettleCapacity
<1> HIDE DEF agreed, planned
<1> QED
  BY <1>4, <1>5, <1>10 DEF Fill, planned, chosen

\* A page fetched first moves the others by one place, a page fetched last by none.
LEMMA PlacesMove ==
  ASSUME NEW cs, NEW at, Order(cs, at), NEW new, NEW to, Order(new, to),
         DOMAIN cs \subseteq DOMAIN new, NEW k \in {0, 1}, Len(to) = Len(at) + 1,
         \A n \in 1..Len(at) : to[n + k] = at[n]
  PROVE  \A q \in DOMAIN cs : Place(to, q) = Place(at, q) + k
<1> SUFFICES ASSUME NEW q \in DOMAIN cs PROVE Place(to, q) = Place(at, q) + k
  OBVIOUS
<1>1. Len(at) \in Nat /\ Place(at, q) \in 1..Len(at) /\ at[Place(at, q)] = q
  BY PlaceIs, LenProperties DEF Order
<1>2. Place(to, q) \in 1..Len(to) /\ to[Place(to, q)] = q
  BY PlaceIs
<1>3. Place(at, q) + k \in 1..Len(to) /\ to[Place(at, q) + k] = q
  BY <1>1
<1> QED
  BY <1>2, <1>3 DEF Order

\* A page that is cited from now on is the first or the last fetched.
LEMMA FetchedIs ==
  ASSUME IInv, Next, NEW p \in Pages \ Cited, p \in DOMAIN cites'
  PROVE  fetched' \in {Append(fetched, p), <<p>> \o fetched}
<1>1. \A q, c, at : /\ DOMAIN With(cites, q, c) = Cited \cup {q}
                    /\ Write(With(cites, q, c), at) \/ WriteEnforced(With(cites, q, c), at)
                         => q = p /\ fetched' = at
  <2>1. \A q, c : DOMAIN With(cites, q, c) = Cited \cup {q}
    BY DEF With, Cited
  <2>2. cites' # cites
    BY DEF Cited
  <2>3. \A cs, at : Write(cs, at) \/ WriteEnforced(cs, at) => cites' = cs /\ fetched' = at
    BY <2>2 DEF Write, WriteEnforced
  <2> QED
    BY <2>1, <2>3
<1>2. ASSUME NEW q \in Pages, NEW reading, NEW holds, NEW cached, Ingest(q, reading, holds, cached)
      PROVE  fetched' = Append(fetched, p)
  <2>1. CASE q \in Cited
    <3>1. q = p
      BY <1>1, <1>2, <2>1 DEF Ingest
    <3> QED
      BY <2>1, <3>1
  <2>2. CASE q \notin Cited
    <3>1. q = p /\ fetched' = FetchedLast(q)
      BY <1>1, <1>2, <2>2 DEF Ingest
    <3> QED
      BY <2>2, <3>1 DEF FetchedLast
  <2> QED
    BY <2>1, <2>2
<1>3. ASSUME NEW q \in Pages, NEW reading, FoldReading(q, reading) PROVE FALSE
  BY <1>1, <1>3 DEF FoldReading
<1>4. ASSUME NEW q \in Pages, NEW reading, NEW ruled, MergeIn(q, reading, ruled)
      PROVE  fetched' = <<p>> \o fetched
  <2>1. \E c : Write(With(cites, q, c), IF q \in Cited THEN fetched ELSE <<q>> \o fetched)
    BY <1>4 DEF MergeIn
  <2>2. q = p /\ fetched' = IF q \in Cited THEN fetched ELSE <<q>> \o fetched
    BY <1>1, <2>1
  <2> QED
    BY <2>2
<1>5. ASSUME NEW q \in Pages, NEW f, NEW reason, Supersede(q, f, reason) PROVE FALSE
  <2>1. q \in Cited /\ \E c : Write(With(cites, q, c), fetched)
    BY <1>5 DEF Supersede
  <2> QED
    BY <1>1, <2>1
<1>6. ASSUME NEW q \in Pages, RuleOut(q) PROVE FALSE
  <2>1. q \in Cited /\ \E c : Write(With(cites, q, c), fetched)
    BY <1>6 DEF RuleOut, Described, Cited
  <2> QED
    BY <1>1, <2>1
<1>7. ASSUME Snapshot PROVE FALSE
  BY <1>7 DEF Snapshot, Cited
<1>8. ASSUME NEW still, Restore(still) PROVE FALSE
  <2>1. \E cs : DOMAIN cs = Cited /\ WriteEnforced(cs, fetched)
    BY <1>8 DEF Restore
  <2>2. DOMAIN cites' = Cited
    BY <2>1 DEF WriteEnforced, Write, Cited
  <2> QED
    BY <2>2
<1> QED
  BY <1>2, <1>3, <1>4, <1>5, <1>6, <1>7, <1>8 DEF Next

\* What a step that cites a weak page does to the citations.
LEMMA WeakPageGrows ==
  ASSUME IInv, IInv', Next, NEW p \in Pages, NEW reading \in Readings[p], p \notin Cited,
         cites' = With(cites, p, AsRead(reading)),
         PageInfo[p].tertiary \/ \A f \in DOMAIN reading.claims : ~reading.claims[f].quoted
  PROVE  /\ Grows(cites, fetched, cites', fetched', p)
         /\ cites'[p].tranche = reading.tranche
         /\ DOMAIN cites'[p].claims = DOMAIN reading.claims
<1>1. /\ DOMAIN cites' = Cited \cup {p} /\ cites'[p] = AsRead(reading)
      /\ \A q \in Cited : cites'[q] = cites[q]
  BY DEF With, Cited
<1>2. /\ Cites(cites) /\ Order(cites, fetched)
      /\ Cites(cites') /\ Order(cites', fetched')
  BY DEF IInv
<1>3. fetched \in Seq(Pages) /\ Len(fetched) \in Nat
  BY <1>2, LenProperties DEF Order
<1>4. \E k \in {0, 1} : \A q \in Cited : Place(fetched', q) = Place(fetched, q) + k
  <2>1. CASE fetched' = Append(fetched, p)
    <3>1. Len(fetched') = Len(fetched) + 1 /\ \A n \in 1..Len(fetched) : fetched'[n + 0] = fetched[n]
      BY <1>3, <2>1
    <3> QED
      BY <1>1, <1>2, <3>1, PlacesMove DEF Cited
  <2>2. CASE fetched' = <<p>> \o fetched
    <3>1. Len(fetched') = Len(fetched) + 1 /\ \A n \in 1..Len(fetched) : fetched'[n + 1] = fetched[n]
      BY <1>3, <2>2
    <3> QED
      BY <1>1, <1>2, <3>1, PlacesMove DEF Cited
  <2> QED
    BY <1>1, <2>1, <2>2, FetchedIs
<1>5. /\ cites'[p].tranche = reading.tranche /\ DOMAIN cites'[p].claims = DOMAIN reading.claims
      /\ \A f \in DOMAIN reading.claims : ~reading.claims[f].quoted => cites'[p].claims[f].flagged
  <2> DEFINE claims == [f \in DOMAIN reading.claims |-> Fresh(reading.claims[f], "none")]
  <2>1. AsRead(reading) = Citation(claims, reading.tranche, FALSE)
    BY DEF AsRead
  <2>2. /\ DOMAIN claims = DOMAIN reading.claims
        /\ \A f \in DOMAIN reading.claims : claims[f] = Fresh(reading.claims[f], "none")
    OBVIOUS
  <2>3. \A c : ~c.quoted => Fresh(c, "none").flagged
    BY DEF Fresh, Stored
  <2> HIDE DEF claims
  <2>4. AsRead(reading).claims = claims /\ AsRead(reading).tranche = reading.tranche
    BY <2>1 DEF Citation
  <2> QED
    BY <1>1, <2>2, <2>3, <2>4
<1> QED
  BY <1>1, <1>2, <1>4, <1>5 DEF Grows, Cited

\* A stage reported first-hand is not moved by such a page, if it tells of no tranche.
LEMMA PhaseStands ==
  ASSUME Datable, NEW cs, NEW at, NEW new, NEW to, NEW p, Grows(cs, at, new, to, p),
         Core(cs, "phase") # {}, new[p].tranche = NoTranche, NEW held, NEW other
  PROVE  Recompute(new, to, other).phase = Recompute(cs, at, held).phase
<1> DEFINE s == By(cs, at)["phase"]
           c == Contenders(s, Counted(cs, at)["phase"])
           t == By(new, to)["phase"]
           d == Contenders(t, Counted(new, to)["phase"])
           Stage(v) == IF v = "none" THEN DEFAULT_PHASE ELSE v
           stage    == Stage(Resolved(cs, at, held)["phase"])
           Decided(u, U) == {u[i] : i \in U}
           Stops(D) == {x.published : x \in {y \in D : y.value \in PHASE_TERMINAL}} \ {0}
<1>1. "phase" \in Fields /\ "phase" \in CLAIM_OWNED_FIELDS
  BY ValueIs
<1>2. Stage(Resolved(new, to, other)["phase"]) = stage
  BY <1>1, CoreResolved
<1>3. /\ Recompute(cs, at, held).phase = SettledPhase(cs, stage, Decided(s, c))
      /\ Recompute(new, to, other).phase
           = SettledPhase(new, Stage(Resolved(new, to, other)["phase"]), Decided(t, d))
  BY DEF Recompute, Derive, By, Counted, Resolved
<1>4. PICK g : Twins(s, c, t, d, g)
  BY <1>1, CoreTwins
<1> HIDE DEF s, c, t, d, stage
<1>5. Stops(Decided(t, d)) = Stops(Decided(s, c))
  <2>1. /\ \A j \in d : \E i \in c : t[j].value = s[i].value /\ t[j].published = s[i].published
        /\ \A i \in c : \E j \in d : t[j].value = s[i].value /\ t[j].published = s[i].published
    BY <1>4 DEF Twins, Same
  <2> QED
    BY <2>1
<1>6. Described(new) = Described(cs) /\ \A x \in Described(cs) : new[x] = cs[x]
  BY DEF Described, Grows
<1>7. LiftingBlocks(new, stage, Decided(t, d)) = LiftingBlocks(cs, stage, Decided(s, c))
  <2> DEFINE Lifts(x, y, S) ==
        /\ ~(/\ "phase" \in DOMAIN x.claims /\ ~(x.tranche.status = "serving")
             /\ x.claims["phase"].ruling = "misread")
        /\ stage \in PHASE_TERMINAL =>
             \/ x.tranche.status = "serving"
             \/ S # {} /\ PageInfo[y].published > Max(S)
  <2>1. \A z, D : LiftingBlocks(z, stage, D) = {y \in Described(z) : Lifts(z[y], y, Stops(D))}
    BY DEF LiftingBlocks
  <2> HIDE DEF Lifts, Stops, Decided
  <2> QED
    BY <1>5, <1>6, <2>1
<1> HIDE DEF Decided
<1>8. SettledPhase(new, stage, Decided(t, d)) = SettledPhase(cs, stage, Decided(s, c))
  <2> DEFINE L == LiftingBlocks(cs, stage, Decided(s, c))
             From(z, M) == {BLOCK_STATUS_TO_PHASE[z[x].tranche.status] : x \in M}
             Up(F) == IF F # {} /\ Max({Height(x) : x \in F}) > Height(stage)
                      THEN PHASE_PROGRESSION[Max({Height(x) : x \in F})] ELSE stage
  <2>1. \A z, D : SettledPhase(z, stage, D) = Up(From(z, LiftingBlocks(z, stage, D)))
    BY DEF SettledPhase
  <2>2. L \subseteq Described(cs)
    BY DEF LiftingBlocks
  <2>3. From(new, L) = From(cs, L)
    BY <1>6, <2>2
  <2> HIDE DEF From, Up, L
  <2> QED
    BY <1>7, <2>1, <2>3 DEF L
<1> HIDE DEF Stage
<1> QED
  BY <1>2, <1>3, <1>8 DEF stage

\* A new page that only claims without a quote or at second hand moves no value a quoted
\* first-hand report of the whole site states.
THEOREM WeakDisplacesNothing ==
  ASSUME Datable
  PROVE  Spec => WeakNeverDisplaces
<1> DEFINE Stays ==
      \A p \in Pages : \A reading \in Readings[p] :
        /\ p \notin Cited
        /\ cites' = With(cites, p, AsRead(reading))
        /\ PageInfo[p].tertiary \/ \A f \in DOMAIN reading.claims : ~reading.claims[f].quoted
        => \A f \in CLAIM_OWNED_FIELDS :
             /\ f = "phase" => reading.tranche = NoTranche
             /\ f = "mw_planned" => PlanUndisputed
             /\ (\E q \in Cited : Strong(q, f) /\ cites[q].claims[f].value = row[f])
             => row'[f] = row[f]
<1>1. IInv /\ IInv' /\ [Next]_vars => [Stays]_vars
  <2> SUFFICES ASSUME IInv, IInv', Next, NEW p \in Pages, NEW reading \in Readings[p],
                      p \notin Cited, cites' = With(cites, p, AsRead(reading)),
                      PageInfo[p].tertiary \/ \A f \in DOMAIN reading.claims : ~reading.claims[f].quoted,
                      NEW f \in CLAIM_OWNED_FIELDS,
                      f = "phase" => reading.tranche = NoTranche,
                      f = "mw_planned" => PlanUndisputed,
                      NEW q \in Cited, Strong(q, f)
               PROVE  row'[f] = row[f]
    BY DEF vars
  <2> DEFINE cs == cites
             at == fetched
             new == cites'
             to == fetched'
             held == row
             other == row'
  <2>1. Grows(cs, at, new, to, p) /\ new[p].tranche = reading.tranche
    BY WeakPageGrows
  <2>2. Recompute(cs, at, held) = held /\ Recompute(new, to, other) = other
    BY DEF IInv, Settled
  <2>3. Core(cs, f) # {}
    BY DEF Core, LivePages, Strong, ReportedWhole, Reported, Live, Cited
  <2>4. \A g, x : x \in Cited => (x \in Core(cs, g) <=> ReportedWhole(x, g))
    BY DEF Core, LivePages, ReportedWhole, Reported, Live, Cited
  <2>5. \A r : r \in LivePages(cs, "mw_built") /\ ~PageInfo[r].tertiary
               /\ ~cs[r].claims["mw_built"].flagged => r \in Cited /\ Reported(r, "mw_built")
    BY DEF LivePages, Reported, Live, Cited
  <2>6. \A x : x \in Core(cs, "mw_planned") => x \in Cited
    BY DEF Core, LivePages, Cited
  <2>7. f = "mw_planned" =>
          \A x \in Core(cs, "mw_planned") :
            /\ ~cs[x].claims["mw_planned"].floor
            /\ \A r \in LivePages(cs, "mw_built") :
                 \/ PageInfo[r].tertiary \/ cs[r].claims["mw_built"].flagged
                 \/ cs[r].claims["mw_built"].value <= cs[x].claims["mw_planned"].value
    BY <2>4, <2>5, <2>6 DEF PlanUndisputed, Strong
  <2> HIDE DEF cs, at, new, to, held, other
  <2>8. /\ Cites(cs) /\ Order(cs, at) /\ Cites(new) /\ Order(new, to)
    BY <2>1 DEF Grows
  <2>9. Resolved(new, to, other)[f] = Resolved(cs, at, held)[f] /\ Core(new, f) # {}
    BY <2>1, <2>3, CoreResolved, CoreStays
  <2>10. other[f] = held[f]
    <3>1. CASE f = "mw_planned"
      <4>1. Recompute(cs, at, held).mw_planned = Resolved(cs, at, held)["mw_planned"]
        BY <2>3, <2>7, <2>8, <3>1, PlanStands
      <4>2. \A x \in Core(new, "mw_planned") :
              /\ ~new[x].claims["mw_planned"].floor
              /\ \A r \in LivePages(new, "mw_built") :
                   \/ PageInfo[r].tertiary \/ new[r].claims["mw_built"].flagged
                   \/ new[r].claims["mw_built"].value <= new[x].claims["mw_planned"].value
        <5> SUFFICES ASSUME NEW x \in Core(new, "mw_planned")
                     PROVE  /\ ~new[x].claims["mw_planned"].floor
                            /\ \A r \in LivePages(new, "mw_built") :
                                 \/ PageInfo[r].tertiary \/ new[r].claims["mw_built"].flagged
                                 \/ new[r].claims["mw_built"].value
                                      <= new[x].claims["mw_planned"].value
          OBVIOUS
        <5>1. x \in Core(cs, "mw_planned") /\ new[x] = cs[x]
          BY <2>1, CoreStays
        <5>2. ASSUME NEW r \in LivePages(new, "mw_built"), r # p
              PROVE  r \in LivePages(cs, "mw_built") /\ new[r] = cs[r]
          BY <2>1, <5>2 DEF Grows, LivePages
        <5>3. p \in LivePages(new, "mw_built") =>
                PageInfo[p].tertiary \/ new[p].claims["mw_built"].flagged
          BY <2>1 DEF Grows, LivePages
        <5> QED
          BY <2>7, <3>1, <5>1, <5>2, <5>3
      <4>3. Recompute(new, to, other).mw_planned = Resolved(new, to, other)["mw_planned"]
        BY <2>8, <2>9, <3>1, <4>2, PlanStands
      <4> QED
        BY <2>2, <2>9, <3>1, <4>1, <4>3
    <3>2. CASE f = "mw_built"
      <4>1. Recompute(cs, at, held).mw_built = Resolved(cs, at, held)["mw_built"]
        BY <2>3, <2>8, <3>2, BuiltStands
      <4>2. Recompute(new, to, other).mw_built = Resolved(new, to, other)["mw_built"]
        BY <2>8, <2>9, <3>2, BuiltStands
      <4> QED
        BY <2>2, <2>9, <3>2, <4>1, <4>2
    <3>3. CASE f = "first_announced"
      <4>1. \A z, y, h : Recompute(z, y, h).first_announced = Resolved(z, y, h)["first_announced"]
        BY DEF Recompute, Derive, Resolved, By, Counted
      <4> QED
        BY <2>2, <2>9, <3>3, <4>1
    <3>4. CASE f = "phase"
      <4>1. Recompute(new, to, other).phase = Recompute(cs, at, held).phase
        BY <2>1, <2>3, <3>4, PhaseStands
      <4> QED
        BY <2>2, <3>4, <4>1
    <3> QED
      BY <3>1, <3>2, <3>3, <3>4, ValueIs
  <2> QED
    BY <2>10 DEF held, other
<1>2. Spec => [][Stays]_vars
  BY <1>1, InductiveInvariant, PTL DEF Spec
<1> QED
  BY <1>2 DEF WeakNeverDisplaces

=============================================================================
