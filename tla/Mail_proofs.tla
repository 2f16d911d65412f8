----------------------------- MODULE Mail_proofs -----------------------------
(***************************************************************************)
(* Proofs about the morning's mail, for any accounts, updates, sends,      *)
(* attempts and days.                                                      *)
(***************************************************************************)
EXTENDS Mail, FiniteSetTheorems, WellFoundedInduction, TLAPS

\* A send that has a message in hand, and what it is.
Holding(p) == send[p].pc \in {"post", "sent", "failed"}

InHandIs ==
  \A p \in Sends :
    IF Holding(p)
    THEN /\ Daily(send[p].msg) /\ send[p].msg.prepared = send[p].now
         /\ send[p].pc = "post" => send[p].tries < Attempts
    ELSE send[p].msg = NoMessage /\ send[p].tries = 0

\* What was prepared was prepared by now.
InThePast ==
  /\ \A p \in Sends : send[p].now <= clock
  /\ \A m \in ledger : m.prepared <= clock

\* The unique constraint on what a person was sent.
KeysOnce ==
  \A m, n \in ledger : m.to = n.to /\ m.keys \cap n.keys # {} => m = n

\* One message a person a day, of those that were recorded.
DayOnce ==
  \A m, n \in ledger :
    /\ m.to = n.to /\ Daily(m) /\ Daily(n) /\ ~m.forced /\ ~n.forced
    /\ Day(m.prepared) = Day(n.prepared)
    => m = n

\* A send that has been alone since it began knows the whole ledger: its message carries
\* no key of it, no daily message is younger, and none is of its day unless it is forced.
Knows(p) ==
  /\ send[p].msg.keys \cap SentKeys(send[p].msg.to) = {}
  /\ ~Over(p) => \A m \in ledger : Daily(m) => m.prepared <= send[p].now
  /\ Holding(p) /\ ~send[p].msg.forced =>
       \A m \in ledger : m.to = send[p].msg.to /\ Daily(m) => Day(m.prepared) < Day(send[p].now)

Alone == \A p, q \in Sends : ~Over(p) /\ ~Over(q) => p = q

\* Once the run's own row is committed, a row stamped before the send's time is committed too.
StampsSeen ==
  \A p \in Sends : send[p].pc \notin {"new", "open", "ended"} =>
    \A s \in unsaved : at[s] >= send[p].now

IInv ==
  /\ TypeOK /\ InHandIs /\ InThePast /\ KeysOnce /\ StampsSeen
  /\ ~overlapped => DayOnce /\ Alone /\ \A p \in Sends : Knows(p)

------------------------------------------------------------------------------
(* What NothingFallsBetween rests on.                                        *)

\* Only a daily message carries updates.
Silent(m) == ~Daily(m) => m.keys = {}

\* What is recorded was delivered, under its key.
Posted == \A m \in ledger : Silent(m) /\ (Daily(m) => Delivered(m))

\* What is being written is younger than the ledger.
Younger == \A s \in unsaved, m \in ledger : m.prepared <= at[s]

\* Why a message need not have carried a row stamped before it.
Excused(m, s) == m.news[s] = {} \/ (m.last = None /\ at[s] < m.prepared - PerDay)

\* A message knows each row stamped before it, and carries one of its card, or one was sent
\* before, unless an earlier message passed the row already.
Carries(m) ==
  \A s \in Visible : at[s] < m.prepared =>
    /\ s \in DOMAIN m.news
    /\ Passed(m.to, s) # {} \/ Excused(m, s) \/ m.news[s] \cap (m.keys \cup SentKeys(m.to)) # {}

InHandTells(p) ==
  \A m \in {send[p].msg} :
    /\ Silent(m)
    /\ Holding(p) => Carries(m)
    /\ send[p].pc = "sent" => Delivered(m)

Told(a, s) ==
  Passed(a, s) # {} =>
    \E m \in Passed(a, s) :
      s \in DOMAIN m.news /\ (Excused(m, s) \/ m.news[s] \cap DeliveredKeys(a) # {})

TInv ==
  /\ IInv /\ Posted /\ Younger
  /\ \A a \in Account, s \in Visible : Told(a, s)
  /\ \A p \in Sends : InHandTells(p)

------------------------------------------------------------------------------
(* Largest and least, days, and small sets.                                  *)

\* A finite set of numbers has one that is largest by any measure.
LEMMA Largest ==
  ASSUME NEW S, IsFiniteSet(S), S # {}, NEW c, \A x \in S : c[x] \in Int
  PROVE  \E x \in S : \A y \in S : c[x] >= c[y]
<1> DEFINE Has(U) == \E x \in U : \A y \in U : c[x] >= c[y]
           Lacks  == {U \in SUBSET S : U # {} /\ ~Has(U)}
<1> SUFFICES ASSUME Lacks # {} PROVE FALSE
  OBVIOUS
<1>1. IsWellFoundedOn(StrictSubsetOrdering(S), SUBSET S)
  BY FS_StrictSubsetOrderingWellFounded, FS_FiniteSubsetsOfFinite
<1>2. Lacks \subseteq SUBSET S
  OBVIOUS
<1>3. PICK U \in Lacks : \A V \in Lacks : ~(<<V, U>> \in StrictSubsetOrdering(S))
  <2> HIDE DEF Lacks
  <2> QED
    BY <1>1, <1>2, WFMin
<1>4. PICK u \in U : TRUE
  OBVIOUS
<1>5. U \ {u} \in SUBSET S /\ U \ {u} \subseteq U /\ U \ {u} # U /\ U \in SUBSET S
  BY <1>4
<1>6. U \ {u} \notin Lacks
  BY <1>3, <1>5 DEF StrictSubsetOrdering
<1>7. CASE U = {u}
  BY <1>4, <1>7
<1>8. CASE U \ {u} # {}
  <2>1. PICK b \in U \ {u} : \A y \in U \ {u} : c[b] >= c[y]
    BY <1>5, <1>6, <1>8
  <2>2. b \in U /\ u \in U /\ c[b] \in Int /\ c[u] \in Int /\ \A y \in U : c[y] \in Int
    BY <1>4, <1>5, <2>1
  <2>3. CASE c[b] >= c[u]
    BY <2>1, <2>2, <2>3
  <2>4. CASE c[u] >= c[b]
    BY <2>1, <2>2, <2>4
  <2> QED
    BY <2>2, <2>3, <2>4
<1> QED
  BY <1>4, <1>7, <1>8

LEMMA MaxIs ==
  ASSUME NEW S \in SUBSET Tick, S # {}
  PROVE  Max(S) \in S /\ \A t \in S : t <= Max(S)
<1>1. IsFiniteSet(S) /\ \A x \in S : x \in Int
  <2>1. IsFiniteSet(Tick)
    BY MailAssumption, FS_Interval DEF Tick
  <2>2. IsFiniteSet(S)
    BY <2>1, FS_Subset
  <2> QED
    BY <2>2, MailAssumption DEF Tick
<1> DEFINE c == [x \in S |-> x]
<1>2. \A x \in S : c[x] = x /\ c[x] \in Int
  BY <1>1
<1>3. \E x \in S : \A y \in S : c[x] >= c[y]
  <2> HIDE DEF c
  <2> QED
    BY <1>1, <1>2, Largest
<1>4. PICK x \in S : \A y \in S : x >= y
  BY <1>2, <1>3
<1> QED
  BY <1>1, <1>4 DEF Max

LEMMA MinIs ==
  ASSUME NEW S \in SUBSET DOMAIN Accounts, S # {}
  PROVE  Min(S) \in S /\ Accounts[Min(S)] \in Account
<1>1. IsFiniteSet(S) /\ \A x \in S : x \in Int
  <2>1. Len(Accounts) \in Nat /\ DOMAIN Accounts = 1..Len(Accounts)
    BY MailAssumption
  <2>2. IsFiniteSet(1..Len(Accounts))
    BY <2>1, FS_Interval
  <2> QED
    BY <2>1, <2>2, FS_Subset
<1> DEFINE c == [x \in S |-> -x]
<1>2. \A x \in S : c[x] = -x /\ c[x] \in Int
  BY <1>1
<1>3. \E x \in S : \A y \in S : c[x] >= c[y]
  <2> HIDE DEF c
  <2> QED
    BY <1>1, <1>2, Largest
<1>4. PICK x \in S : \A y \in S : x <= y
  BY <1>1, <1>2, <1>3
<1>5. Min(S) \in S
  BY <1>4 DEF Min
<1> QED
  BY <1>5 DEF Account

\* An earlier time is of no later day.
LEMMA DaysGoOn ==
  ASSUME NEW t \in Nat, NEW u \in Nat, t <= u
  PROVE  Day(t) \in Int /\ Day(u) \in Int /\ Day(t) <= Day(u)
<1>1. PerDay \in Nat \ {0} /\ Zone \in Int
  BY MailAssumption
<1>2. ASSUME NEW x \in Int
      PROVE  /\ x \div PerDay \in Int
             /\ PerDay * (x \div PerDay) <= x /\ x < PerDay * (x \div PerDay) + PerDay
  BY <1>1, <1>2
<1>3. ASSUME NEW x \in Nat
      PROVE  /\ Day(x) \in Int
             /\ PerDay * Day(x) <= x + Zone /\ x + Zone < PerDay * Day(x) + PerDay
  <2>1. x + Zone \in Int
    BY <1>1, <1>3
  <2> QED
    BY <1>2, <2>1 DEF Day
<1>4. ASSUME Day(u) < Day(t) PROVE FALSE
  <2>1. Day(u) \in Int /\ Day(t) \in Int /\ Day(u) + 1 <= Day(t)
    BY <1>3, <1>4
  <2>2. PerDay * (Day(u) + 1) <= PerDay * Day(t)
    BY <1>1, <2>1
  <2>3. PerDay * (Day(u) + 1) = PerDay * Day(u) + PerDay
    BY <1>1, <2>1
  <2>4. PerDay * Day(t) <= t + Zone /\ u + Zone < PerDay * Day(u) + PerDay
    BY <1>3
  <2>5. PerDay * Day(t) \in Int /\ PerDay * Day(u) + PerDay \in Int
    BY <1>1, <2>1
  <2> QED
    BY <1>1, <2>2, <2>3, <2>4, <2>5
<1> QED
  BY <1>3, <1>4

LEMMA AtMostOne ==
  ASSUME NEW S, \A x, y \in S : x = y
  PROVE  Cardinality(S) <= 1
<1>1. CASE S = {}
  BY <1>1, FS_EmptySet
<1>2. CASE S # {}
  <2>1. PICK x : S = {x}
    BY <1>2
  <2> QED
    BY <2>1, FS_Singleton
<1> QED
  BY <1>1, <1>2

------------------------------------------------------------------------------
(* Messages.                                                                 *)

LEMMA NoMessageIs ==
  /\ NoMessage \in MessageType /\ NoMessage.keys = {} /\ ~Daily(NoMessage)
  /\ NoMessage.prepared = 0
<1>1. 0 \in Tick
  BY MailAssumption DEF Tick
<1>2. <<>> \in UNION {[S -> SUBSET Signals] : S \in SUBSET Signals}
  <2>1. {} \in SUBSET Signals /\ <<>> \in [{} -> SUBSET Signals]
    OBVIOUS
  <2> QED
    BY <2>1
<1> QED
  BY <1>1, <1>2 DEF NoMessage, MessageType, Daily

LEMMA AlertIs ==
  ASSUME TypeOK, NEW a \in Account
  PROVE  /\ Alert(a) \in MessageType /\ Alert(a).keys = {} /\ ~Daily(Alert(a))
         /\ Alert(a).prepared = clock
BY NoMessageIs DEF Alert, MessageType, Daily, TypeOK

\* The last daily message is no earlier than any.
LEMMA LastIs ==
  ASSUME TypeOK, NEW a
  PROVE  /\ LastEmail(a) \in Tick \cup {None}
         /\ \A m \in ledger : m.to = a /\ Daily(m) =>
              LastEmail(a) # None /\ LastEmail(a) \in Tick /\ m.prepared <= LastEmail(a)
         /\ LastEmail(a) # None =>
              \E m \in ledger : m.to = a /\ Daily(m) /\ m.prepared = LastEmail(a)
<1> DEFINE times == {m.prepared : m \in {m \in Rows(a) : Daily(m)}}
<1>1. times \in SUBSET Tick
  BY DEF TypeOK, Rows, MessageType
<1>2. /\ \A m \in ledger : m.to = a /\ Daily(m) => m.prepared \in times
      /\ \A t \in times : \E m \in ledger : m.to = a /\ Daily(m) /\ m.prepared = t
  BY DEF Rows
<1>3. LastEmail(a) = IF times = {} THEN None ELSE Max(times)
  BY DEF LastEmail
<1>4. None \notin Tick
  BY MailAssumption DEF Tick
<1> HIDE DEF times
<1> QED
  BY <1>1, <1>2, <1>3, <1>4, MaxIs

\* The words of rows that are there.
LEMMA WordsAre ==
  ASSUME TypeOK, NEW S \in SUBSET Visible
  PROVE  Words(S) \in SUBSET (Signals \X Reading)
<1> SUFFICES ASSUME NEW s \in S PROVE s \in Signals /\ Says(s) \in Reading
  BY DEF Words
<1>1. s \in Signals /\ says[s] \in DOMAIN Readings[s]
  BY DEF Visible, TypeOK
<1>2. Readings[s] \in Seq(Reading)
  BY <1>1, MailAssumption
<1> QED
  BY <1>1, <1>2 DEF Says

\* What a message knows of the rows stamped before it.
LEMMA NewsIs ==
  ASSUME NEW now
  PROVE  /\ News(now) \in UNION {[S -> SUBSET Signals] : S \in SUBSET Signals}
         /\ DOMAIN News(now) = {s \in Signals : at[s] # None /\ at[s] < now}
         /\ \A s \in DOMAIN News(now) :
              News(now)[s] = IF IsNews(s, Day(now)) THEN CardOf(s, Day(now)) ELSE {}
<1> DEFINE D == {s \in Signals : at[s] # None /\ at[s] < now}
           W(s) == IF IsNews(s, Day(now)) THEN CardOf(s, Day(now)) ELSE {}
<1>1. News(now) = [s \in D |-> W(s)]
  BY DEF News
<1>2. \A s \in D : W(s) \in SUBSET Signals
  BY DEF CardOf, Digest, Visible
<1>3. D \in SUBSET Signals
  OBVIOUS
<1> HIDE DEF D, W
<1>4. News(now) \in [D -> SUBSET Signals]
  BY <1>1, <1>2
<1> QED
  BY <1>1, <1>3, <1>4 DEF D, W

\* What a person is sent today carries no update she has been sent.
LEMMA TodayIs ==
  ASSUME TypeOK, NEW p \in Sends, send[p].todo # {}, NEW STATE m,
         m = Today(p, LastEmail(Person(p)))
  PROVE  /\ m \in MessageType /\ Daily(m) /\ m.to = Person(p)
         /\ m.prepared = send[p].now /\ m.forced = send[p].force
         /\ m.keys \cap SentKeys(Person(p)) = {}
         /\ m.last = LastEmail(Person(p)) /\ m.news = News(send[p].now)
         /\ m.keys = UNION Choose(Person(p), Since(m.last, send[p].now), Day(send[p].now))
<1> DEFINE a     == Person(p)
           last  == LastEmail(a)
           now   == send[p].now
           cards == Choose(a, Since(last, now), Day(now))
           lead  == {s \in UNION cards : \E c \in cards : Best(c, Day(now)) = s}
<1>1. m = Message(a, cards, last, now, send[p].force)
  BY DEF Today
<1>2. a \in Account /\ last \in Tick \cup {None} /\ now \in Tick /\ send[p].force \in BOOLEAN
  <2>1. send[p].todo \in SUBSET DOMAIN Accounts /\ now \in Tick /\ send[p].force \in BOOLEAN
    BY DEF TypeOK, SendType
  <2>2. a \in Account
    BY <2>1, MinIs DEF Person
  <2>3. last \in Tick \cup {None}
    BY LastIs
  <2> QED
    BY <2>1, <2>2, <2>3
<1>3. \A card \in cards : card \subseteq Visible /\ card \cap SentKeys(a) = {}
  <2>1. \A card \in cards : card \in Cards(Day(now)) /\ ~IsSent(card, a)
    BY DEF Choose, Owed
  <2>2. \A card \in Cards(Day(now)) : card \subseteq Visible
    BY DEF Cards, Digest
  <2> QED
    BY <2>1, <2>2 DEF IsSent
<1>4. UNION cards \subseteq Visible /\ (UNION cards) \cap SentKeys(a) = {} /\ Visible \subseteq Signals
  <2>1. Visible \subseteq Signals
    BY DEF Visible
  <2> HIDE DEF cards, a
  <2> QED
    BY <1>3, <2>1
<1>5. Words(lead) \in SUBSET (Signals \X Reading) /\ Words(WatchList) \in SUBSET (Signals \X Reading)
  <2>1. lead \subseteq Visible
    BY <1>4
  <2>2. WatchList \subseteq Visible
    BY DEF WatchList, Digest
  <2> HIDE DEF lead
  <2> QED
    BY <2>1, <2>2, WordsAre
<1>6. m = [to |-> a, kind |-> IF cards = {} THEN "quiet" ELSE "updates",
           keys |-> UNION cards, lead |-> Words(lead),
           last |-> last, watch |-> Words(WatchList), prepared |-> now, forced |-> send[p].force,
           news |-> News(now)]
  BY <1>1 DEF Message
<1> HIDE DEF cards, a, last, now, lead
<1>7. m \in MessageType
  <2> DEFINE w == News(now)   l == Words(lead)   v == Words(WatchList)
             k == UNION cards   i == IF cards = {} THEN "quiet" ELSE "updates"
             N == UNION {[S -> SUBSET Signals] : S \in SUBSET Signals}
             P == SUBSET (Signals \X Reading)
  <2>1. w \in N
    BY NewsIs
  <2>2. l \in P /\ v \in P /\ k \in SUBSET Signals /\ i \in {"updates", "quiet", "alert", "none"}
    BY <1>4, <1>5
  <2>3. m = [to |-> a, kind |-> i, keys |-> k, lead |-> l, last |-> last, watch |-> v,
             prepared |-> now, forced |-> send[p].force, news |-> w]
    BY <1>6
  <2>4. MessageType =
          [to : Account \cup {None}, kind : {"updates", "quiet", "alert", "none"},
           keys : SUBSET Signals, lead : P, last : Tick \cup {None}, watch : P,
           prepared : Tick, forced : BOOLEAN, news : N]
    BY DEF MessageType
  <2> HIDE DEF w, l, v, k, i, N, P
  <2> QED
    BY <1>2, <2>1, <2>2, <2>3, <2>4
<1>8. /\ Daily(m) /\ m.to = a /\ m.prepared = now /\ m.forced = send[p].force
      /\ m.keys = UNION cards /\ m.last = last /\ m.news = News(now)
  BY <1>6 DEF Daily
<1> QED
  BY <1>4, <1>7, <1>8 DEF a, now, last, cards

------------------------------------------------------------------------------
(* What a step of a send does.                                               *)

\* It begins, knowing whether another is under way.
Begins(p) ==
  /\ send[p].pc = "new" /\ send'[p].pc = "open" /\ send'[p].now = clock
  /\ ledger' = ledger
  /\ overlapped' = (overlapped \/ \E q \in Sends : ~Over(q))

\* It ends, whatever it was at.
Ends(p) ==
  /\ ~Over(p) /\ send'[p] = Ended /\ UNCHANGED <<ledger, overlapped>>

\* It goes on with nothing in hand; what it had may have been recorded.
GoesOn(p) ==
  /\ ~Over(p) /\ send'[p].pc = "next" /\ send'[p].now = send[p].now
  /\ send[p].pc = "open" => unsaved = {}
  /\ \/ ledger' = ledger
     \/ \E a \in Account : ledger' = ledger \cup {Alert(a)}
     \/ send[p].pc = "sent" /\ ~Clashes(p) /\ ledger' = ledger \cup {send[p].msg}
  /\ ledger' = ledger \/ unsaved = {}
  /\ UNCHANGED overlapped

\* It has a message made, or goes on with the one it has.
Makes(p) ==
  /\ send[p].pc = "next" /\ send'[p].pc = "post" /\ send'[p].now = send[p].now
  /\ send'[p].tries = 0 /\ ~AlreadyEmailed(p)
  /\ send'[p].msg.to = Person(p) /\ Daily(send'[p].msg)
  /\ send'[p].msg.prepared = send[p].now /\ send'[p].msg.forced = send[p].force
  /\ send'[p].msg.keys \cap SentKeys(Person(p)) = {}
  /\ send[p].todo # {} /\ send'[p].msg = Today(p, LastEmail(Person(p)))
  /\ UNCHANGED <<ledger, overlapped>>

Holds(p) ==
  /\ Holding(p) /\ send'[p].pc \in {"post", "sent", "failed"}
  /\ send'[p].now = send[p].now /\ send'[p].msg = send[p].msg
  /\ send'[p].pc = "post" => send'[p].tries < Attempts
  /\ send'[p].pc = "sent" => \E n \in inbox' : IdempotencyKey(n) = IdempotencyKey(send[p].msg)
  /\ UNCHANGED <<ledger, overlapped>>

\* What it leaves alone, and the types of what it does not.
Keeps(p) ==
  /\ UNCHANGED <<clock, at, says, unsaved, status>>
  /\ send' \in [Sends -> SendType] /\ \A q \in Sends \ {p} : send'[q] = send[q]
  /\ ledger' \subseteq MessageType /\ inbox' \subseteq MessageType /\ inbox \subseteq inbox'

Empty(p) == send'[p].msg = NoMessage /\ send'[p].tries = 0

\* The step of a send that sets it to r, where r is of the type.
LEMMA Sets ==
  ASSUME TypeOK, NEW p \in Sends, NEW STATE r, r \in SendType, Go(p, r)
  PROVE  /\ send' \in [Sends -> SendType] /\ \A q \in Sends \ {p} : send'[q] = send[q]
         /\ send'[p] = r
BY DEF TypeOK, Go

LEMMA Records ==
  /\ New \in SendType /\ Ended \in SendType
  /\ Ended.pc = "ended" /\ Ended.msg = NoMessage /\ Ended.tries = 0
  /\ New.msg = NoMessage /\ New.tries = 0 /\ New.now = 0 /\ Ended.now = 0
<1>1. 0 \in Tick /\ 0 \in 0..Attempts
  BY MailAssumption DEF Tick
<1>2. /\ New \in SendType
      /\ New.msg = NoMessage /\ New.tries = 0 /\ New.now = 0
  BY <1>1, NoMessageIs DEF New, SendType
<1> QED
  BY <1>2 DEF Ended, SendType

LEMMA NextPersonIs ==
  ASSUME TypeOK, NEW p \in Sends
  PROVE  /\ NextPerson(p) \in SendType
         /\ NextPerson(p).pc = "next" /\ NextPerson(p).now = send[p].now
         /\ NextPerson(p).msg = NoMessage /\ NextPerson(p).tries = 0
<1>1. send[p] \in SendType
  BY DEF TypeOK
<1>2. 0 \in 0..Attempts
  BY MailAssumption
<1>3. send[p].todo \ {Min(send[p].todo)} \subseteq DOMAIN Accounts
  BY <1>1 DEF SendType
<1> QED
  BY <1>1, <1>2, <1>3, NoMessageIs DEF SendType, NextPerson

LEMMA StepDoes ==
  ASSUME TypeOK, InHandIs, NEW p \in Sends, Step(p)
  PROVE  /\ Keeps(p)
         /\ \/ Empty(p) /\ (Begins(p) \/ Ends(p) \/ GoesOn(p))
            \/ Makes(p) \/ Holds(p)
<1> DEFINE Goal == /\ Keeps(p)
                   /\ \/ Empty(p) /\ (Begins(p) \/ Ends(p) \/ GoesOn(p))
                      \/ Makes(p) \/ Holds(p)
<1>0. send[p] \in SendType /\ ledger \subseteq MessageType /\ inbox \subseteq MessageType
      /\ send[p].msg \in MessageType
  BY DEF TypeOK, SendType
<1>a. ASSUME NEW STATE r, r \in SendType, Go(p, r), UNCHANGED <<clock, at, says, unsaved, status>>,
             ledger' \subseteq MessageType, inbox' \subseteq MessageType, inbox \subseteq inbox'
      PROVE  Keeps(p) /\ send'[p] = r
  BY <1>a, Sets DEF Keeps
<1>b. ASSUME Go(p, Ended), ~Over(p),
             UNCHANGED <<clock, at, says, unsaved, status, ledger, inbox, overlapped>>
      PROVE  Goal
  <2>1. Keeps(p) /\ send'[p] = Ended
    BY <1>0, <1>a, <1>b, Records
  <2> QED
    BY <1>b, <2>1, Records DEF Empty, Ends
<1>c. 0 \in 0..Attempts
  BY MailAssumption
<1>1. CASE Start(p)
  <2>1. PICK force \in Forces, people \in {DOMAIN Accounts} \cup {{i} : i \in DOMAIN Accounts} :
          Go(p, [New EXCEPT !.pc = "open", !.now = clock, !.todo = people, !.force = force])
    BY <1>1 DEF Start
  <2> DEFINE r == [New EXCEPT !.pc = "open", !.now = clock, !.todo = people, !.force = force]
  <2>2. people \subseteq DOMAIN Accounts /\ force \in BOOLEAN /\ clock \in Tick
    BY MailAssumption DEF TypeOK
  <2>3. r \in SendType /\ r.pc = "open" /\ r.now = clock /\ r.msg = NoMessage /\ r.tries = 0
    BY <2>2, Records DEF SendType
  <2> HIDE DEF r
  <2>4. Keeps(p) /\ send'[p] = r
    BY <1>0, <1>1, <1>a, <2>1, <2>3 DEF Start, rows, r
  <2> QED
    BY <1>1, <2>3, <2>4 DEF Start, Here, Empty, Begins
<1>2. CASE Open(p)
  <2> DEFINE r == [send[p] EXCEPT !.pc = "next", !.todo = {i \in @ : Listed(Accounts[i])}]
  <2>1. {i \in send[p].todo : Listed(Accounts[i])} \subseteq DOMAIN Accounts
    BY <1>0 DEF SendType
  <2>2. r \in SendType /\ r.pc = "next" /\ r.now = send[p].now /\ r.msg = send[p].msg
        /\ r.tries = send[p].tries
    BY <1>0, <2>1 DEF SendType
  <2>3. Go(p, r)
    BY <1>2 DEF Open
  <2> HIDE DEF r
  <2>4. Keeps(p) /\ send'[p] = r
    BY <1>0, <1>2, <1>a, <2>2, <2>3 DEF Open, rows
  <2>5. send[p].msg = NoMessage /\ send[p].tries = 0
    BY <1>2 DEF Open, Here, InHandIs, Holding
  <2> QED
    BY <1>2, <2>2, <2>4, <2>5 DEF Open, Here, Over, Empty, GoesOn, Free
<1>3. CASE Compose(p) /\ Skips(p)
  <2>1. Keeps(p) /\ send'[p] = NextPerson(p)
    BY <1>0, <1>3, <1>a, NextPersonIs DEF Compose, rows
  <2> QED
    BY <1>3, <2>1, NextPersonIs DEF Compose, Here, Over, Empty, GoesOn
<1>4. CASE Compose(p) /\ ~Skips(p)
  <2> DEFINE m == Today(p, LastEmail(Person(p)))
             r == [send[p] EXCEPT !.pc = "post", !.msg = m]
  <2>1. /\ m \in MessageType /\ Daily(m) /\ m.to = Person(p)
        /\ m.prepared = send[p].now /\ m.forced = send[p].force
        /\ m.keys \cap SentKeys(Person(p)) = {}
    BY <1>4, TodayIs DEF Compose
  <2> HIDE DEF m
  <2>2. r \in SendType /\ r.pc = "post" /\ r.now = send[p].now /\ r.msg = m
        /\ r.tries = send[p].tries
    BY <1>0, <2>1 DEF SendType
  <2>3. Go(p, r)
    BY <1>4 DEF Compose, m
  <2> HIDE DEF r
  <2>4. Keeps(p) /\ send'[p] = r
    BY <1>0, <1>4, <1>a, <2>2, <2>3 DEF Compose, rows
  <2>5. send[p].pc = "next" /\ send[p].tries = 0
    BY <1>4 DEF Compose, Here, InHandIs, Holding
  <2> QED
    BY <1>4, <2>1, <2>2, <2>4, <2>5 DEF Compose, Makes, Skips, m
<1>5. CASE Answered(p) \/ Unanswered(p) \/ Refused(p)
  <2>1. send[p].pc = "post" /\ send[p].tries \in 0..Attempts /\ send[p].tries < Attempts
    BY <1>0, <1>5 DEF Answered, Unanswered, Refused, Here, InHandIs, Holding, SendType
  <2>2. send[p].tries + 1 \in 0..Attempts
        /\ (send[p].tries + 1 # Attempts => send[p].tries + 1 < Attempts)
    <3>1. Attempts \in Nat
      BY MailAssumption
    <3>2. \A k \in 0..Attempts : k < Attempts =>
            k + 1 \in 0..Attempts /\ (k + 1 # Attempts => k + 1 < Attempts)
      BY <3>1
    <3> QED
      BY <2>1, <3>2
  <2> DEFINE Through == \E n \in inbox' : IdempotencyKey(n) = IdempotencyKey(send[p].msg)
  <2>3. \E r \in SendType : /\ Go(p, r) /\ r.pc \in {"post", "sent", "failed"}
                            /\ r.now = send[p].now /\ r.msg = send[p].msg
                            /\ r.pc = "post" => r.tries < Attempts
                            /\ r.pc = "sent" => Through
    <3>1. CASE Answered(p)
      <4> DEFINE r == [send[p] EXCEPT !.pc = "sent"]
      <4>1. r \in SendType /\ r.pc = "sent" /\ r.now = send[p].now /\ r.msg = send[p].msg
        BY <1>0 DEF SendType
      <4>2. Through
        BY <3>1 DEF Answered, Deliver
      <4> QED
        BY <3>1, <4>1, <4>2 DEF Answered
    <3>2. CASE Refused(p)
      <4> DEFINE r == [send[p] EXCEPT !.pc = "failed"]
      <4>1. r \in SendType /\ r.pc = "failed" /\ r.now = send[p].now /\ r.msg = send[p].msg
        BY <1>0 DEF SendType
      <4> QED
        BY <3>2, <4>1 DEF Refused
    <3>3. CASE Unanswered(p)
      <4> DEFINE r == Again(p)
      <4>1. r \in SendType /\ r.pc = (IF send[p].tries + 1 = Attempts THEN "failed" ELSE "post")
            /\ r.tries = send[p].tries + 1 /\ r.now = send[p].now /\ r.msg = send[p].msg
        BY <1>0, <2>2 DEF SendType, Again
      <4>2. Go(p, r)
        BY <3>3 DEF Unanswered
      <4> HIDE DEF r
      <4> QED
        BY <2>2, <4>1, <4>2
    <3> QED
      BY <1>5, <3>1, <3>2, <3>3
  <2>4. PICK r \in SendType : /\ Go(p, r) /\ r.pc \in {"post", "sent", "failed"}
                              /\ r.now = send[p].now /\ r.msg = send[p].msg
                              /\ r.pc = "post" => r.tries < Attempts
                              /\ r.pc = "sent" => Through
    BY <2>3
  <2>5. inbox' \subseteq MessageType /\ inbox \subseteq inbox'
        /\ UNCHANGED <<clock, at, says, unsaved, status, ledger, overlapped>>
    BY <1>0, <1>5 DEF Answered, Unanswered, Refused, Deliver, rows
  <2>6. Keeps(p) /\ send'[p] = r
    BY <1>0, <1>a, <2>4, <2>5
  <2> QED
    BY <2>1, <2>4, <2>5, <2>6 DEF Holds, Holding
<1>6. CASE RecordSent(p)
  <2>1. Keeps(p) /\ send'[p] = NextPerson(p)
    BY <1>0, <1>6, <1>a, NextPersonIs DEF RecordSent, rows
  <2> QED
    BY <1>6, <2>1, NextPersonIs DEF RecordSent, Free, Here, Over, Empty, GoesOn
<1>7. CASE RecordFailed(p)
  <2> DEFINE r == [NextPerson(p) EXCEPT !.failed = TRUE]
  <2>1. r \in SendType /\ r.pc = "next" /\ r.now = send[p].now /\ r.msg = NoMessage
        /\ r.tries = 0
    BY NextPersonIs DEF SendType
  <2>2. Go(p, r)
    BY <1>7 DEF RecordFailed
  <2> HIDE DEF r
  <2>3. Keeps(p) /\ send'[p] = r
    BY <1>0, <1>7, <1>a, <2>1, <2>2 DEF RecordFailed, rows
  <2> QED
    BY <1>7, <2>1, <2>3 DEF RecordFailed, Here, Over, Holding, Empty, GoesOn
<1>8. CASE Finish(p) /\ ~Go(p, Ended)
  <2> DEFINE r == [send[p] EXCEPT !.alert = TRUE, !.todo = AdminsInOrder]
  <2>1. r \in SendType /\ r.pc = send[p].pc /\ r.now = send[p].now /\ r.msg = send[p].msg
        /\ r.tries = send[p].tries
    BY <1>0 DEF SendType, AdminsInOrder
  <2>2. Go(p, r)
    BY <1>8 DEF Finish
  <2> HIDE DEF r
  <2>3. Keeps(p) /\ send'[p] = r
    BY <1>0, <1>8, <1>a, <2>1, <2>2 DEF Finish, rows
  <2>4. send[p].pc = "next" /\ send[p].msg = NoMessage /\ send[p].tries = 0
    BY <1>8 DEF Finish, Here, InHandIs, Holding
  <2> QED
    BY <1>8, <2>1, <2>3, <2>4 DEF Finish, Over, Holding, Empty, GoesOn
<1>9. CASE AlertNext(p)
  <2>1. Person(p) \in Account
    BY <1>0, <1>9, MinIs DEF AlertNext, Person, SendType
  <2>2. Alert(Person(p)) \in MessageType
    BY <2>1, AlertIs
  <2>3. ledger' \in {ledger, ledger \cup {Alert(Person(p))}}
    BY <1>9 DEF AlertNext
  <2>4. Keeps(p) /\ send'[p] = NextPerson(p)
    BY <1>0, <1>9, <1>a, <2>2, <2>3, NextPersonIs DEF AlertNext, rows
  <2> QED
    BY <1>9, <2>1, <2>3, <2>4, NextPersonIs DEF AlertNext, Free, Here, Over, Empty, GoesOn
<1>10. CASE RecordClash(p) \/ (Finish(p) /\ Go(p, Ended)) \/ Done(p) \/ Busy(p) \/ Die(p)
  BY <1>10, <1>b DEF RecordClash, Finish, Done, Busy, Die, Here, Over, rows
<1> QED
  BY <1>1, <1>2, <1>3, <1>4, <1>5, <1>6, <1>7, <1>8, <1>9, <1>10 DEF Step

------------------------------------------------------------------------------
(* The invariant, part by part.                                              *)

\* What goes on around the mailer leaves its sends and its ledger alone.
Around ==
  \/ Wait \/ Save \/ Undo \/ UNCHANGED vars
  \/ (\E s \in Signals : Write(s) \/ Repoint(s)) \/ (\E a \in Account : Become(a))

LEMMA AroundLeaves ==
  ASSUME TypeOK, Around
  PROVE  /\ UNCHANGED <<send, ledger, inbox, overlapped>>
         /\ clock' \in Tick /\ clock <= clock'
         /\ at' \in [Signals -> Tick \cup {None}]
         /\ says' \in [Signals -> Nat \cup {None}]
         /\ \A s \in Signals : at'[s] # None => says'[s] \in DOMAIN Readings[s]
         /\ unsaved' \subseteq {s \in Signals : at'[s] # None}
         /\ status' \in [Account -> Statuses]
         /\ \A s \in unsaved' : (s \in unsaved /\ at'[s] = at[s]) \/ at'[s] = clock
         /\ \A s \in Visible' : at'[s] = at[s] /\ (s \in Visible \/ s \in unsaved)
         /\ Visible \subseteq Visible'
         /\ clock' = clock \/ (clock' = clock + 1 /\ \A p \in Sends : ~Over(p) => send[p].now = clock)
<1>0. clock \in Tick /\ clock \in Nat /\ (clock < LastTick => clock + 1 \in Tick)
  BY MailAssumption DEF TypeOK, Tick
<1> USE DEF TypeOK, Visible
<1>1. CASE Wait
  BY <1>0, <1>1 DEF Wait, rows
<1>2. CASE Save
  BY <1>0, <1>2 DEF Save
<1>3. CASE Undo
  BY <1>0, <1>3 DEF Undo
<1>4. ASSUME NEW s \in Signals, Write(s)
      PROVE  /\ UNCHANGED <<send, ledger, inbox, overlapped, clock, status>>
             /\ at' \in [Signals -> Tick \cup {None}]
             /\ says' \in [Signals -> Nat \cup {None}]
             /\ \A q \in Signals : at'[q] # None => says'[q] \in DOMAIN Readings[q]
             /\ unsaved' \subseteq {q \in Signals : at'[q] # None}
             /\ \A q \in unsaved' : (q \in unsaved /\ at'[q] = at[q]) \/ at'[q] = clock
             /\ \A q \in Visible' : at'[q] = at[q] /\ q \in Visible
             /\ Visible \subseteq Visible'
  <2>1. clock # None
    BY <1>0, MailAssumption
  <2>2. PICK i \in DOMAIN Readings[s] : says' = [says EXCEPT ![s] = i]
    BY <1>4 DEF Write
  <2>3. i \in Nat
    <3>1. Readings[s] \in Seq(Reading)
      BY <1>4, MailAssumption
    <3>2. DOMAIN Readings[s] = 1..Len(Readings[s]) /\ Len(Readings[s]) \in Nat
      BY <3>1
    <3> QED
      BY <2>2, <3>2
  <2> QED
    BY <1>0, <1>4, <2>1, <2>2, <2>3 DEF Write
<1>7. ASSUME NEW s \in Signals, Repoint(s)
      PROVE  /\ says' \in [Signals -> Nat \cup {None}]
             /\ \A q \in Signals : at'[q] # None => says'[q] \in DOMAIN Readings[q]
             /\ UNCHANGED <<clock, at, unsaved, status, send, ledger, inbox, overlapped>>
  <2>1. Readings[s] \in Seq(Reading) /\ says[s] \in DOMAIN Readings[s] /\ says[s] < Len(Readings[s])
    BY <1>7, MailAssumption DEF Repoint
  <2>2. says[s] + 1 \in DOMAIN Readings[s] /\ says[s] + 1 \in Nat
    <3>1. Len(Readings[s]) \in Nat /\ DOMAIN Readings[s] = 1..Len(Readings[s])
      BY <2>1
    <3> HIDE DEF Reading
    <3> QED
      BY <2>1, <3>1
  <2> QED
    BY <1>7, <2>2 DEF Repoint
<1>5. CASE \E a \in Account : Become(a)
  BY <1>0, <1>5 DEF Become, rows
<1>6. CASE UNCHANGED vars
  BY <1>0, <1>6 DEF vars
<1> QED
  BY <1>0, <1>1, <1>2, <1>3, <1>4, <1>5, <1>6, <1>7 DEF Around

LEMMA NextIs == [Next]_vars => Around \/ \E p \in Sends : Step(p)
BY DEF Next, Around

LEMMA TypeStep ==
  ASSUME TypeOK, InHandIs, [Next]_vars
  PROVE  TypeOK' /\ InHandIs'
<1>1. CASE Around
  BY <1>1, AroundLeaves DEF TypeOK, InHandIs, Holding
<1>2. ASSUME NEW p \in Sends, Step(p) PROVE TypeOK' /\ InHandIs'
  <2>1. /\ Keeps(p)
        /\ \/ Empty(p) /\ (Begins(p) \/ Ends(p) \/ GoesOn(p))
           \/ Makes(p) \/ Holds(p)
    BY <1>2, StepDoes
  <2>2. overlapped' \in BOOLEAN
    BY <2>1 DEF TypeOK, Begins, Ends, GoesOn, Makes, Holds
  <2>3. TypeOK'
    BY <2>1, <2>2 DEF TypeOK, Keeps
  <2>4. IF Holding(p)'
        THEN /\ Daily(send'[p].msg) /\ send'[p].msg.prepared = send'[p].now
             /\ send'[p].pc = "post" => send'[p].tries < Attempts
        ELSE send'[p].msg = NoMessage /\ send'[p].tries = 0
    <3>1. CASE Empty(p) /\ (Begins(p) \/ Ends(p) \/ GoesOn(p))
      BY <3>1, Records DEF Empty, Begins, Ends, GoesOn, Holding
    <3>2. CASE Makes(p)
      BY <3>2, MailAssumption DEF Makes, Holding
    <3>3. CASE Holds(p)
      BY <3>3 DEF Holds, Holding, InHandIs
    <3> QED
      BY <2>1, <3>1, <3>2, <3>3
  <2>5. InHandIs'
    BY <2>1, <2>4 DEF InHandIs, Keeps, Holding
  <2> QED
    BY <2>3, <2>5
<1> QED
  BY <1>1, <1>2, NextIs

\* What every message and every send says of the clock.
LEMMA PastStep ==
  ASSUME IInv, [Next]_vars
  PROVE  InThePast' /\ StampsSeen' /\ KeysOnce'
<1> USE DEF IInv
<1>0. clock \in Nat /\ 0 <= clock /\ \A p \in Sends : send[p].now \in Nat
  BY MailAssumption DEF TypeOK, SendType, Tick
<1>1. CASE Around
  <2>1. /\ UNCHANGED <<send, ledger, inbox, overlapped>>
        /\ clock' \in Tick /\ clock <= clock'
        /\ \A s \in unsaved' : (s \in unsaved /\ at'[s] = at[s]) \/ at'[s] = clock
    BY <1>1, AroundLeaves
  <2>2. clock' \in Nat /\ \A m \in ledger : m.prepared \in Nat
    BY <2>1, MailAssumption DEF Tick, TypeOK, MessageType
  <2>3. InThePast'
    BY <1>0, <2>1, <2>2 DEF InThePast
  <2>4. StampsSeen'
    BY <1>0, <2>1 DEF StampsSeen, InThePast
  <2> QED
    BY <2>1, <2>3, <2>4 DEF KeysOnce
<1>2. ASSUME NEW p \in Sends, Step(p) PROVE InThePast' /\ StampsSeen' /\ KeysOnce'
  <2>1. /\ Keeps(p)
        /\ \/ Empty(p) /\ (Begins(p) \/ Ends(p) \/ GoesOn(p))
           \/ Makes(p) \/ Holds(p)
    BY <1>2, StepDoes
  <2>2. send'[p].now <= clock
    BY <1>0, <2>1, Records DEF Begins, Ends, GoesOn, Makes, Holds, InThePast
  <2>3. \/ ledger' = ledger
        \/ \E a \in Account : ledger' = ledger \cup {Alert(a)}
        \/ Holding(p) /\ ~Clashes(p) /\ ledger' = ledger \cup {send[p].msg}
    BY <2>1 DEF Begins, Ends, GoesOn, Makes, Holds, Holding
  <2>4. \A m \in ledger' : m.prepared <= clock
    BY <1>0, <2>3, AlertIs DEF InThePast, InHandIs
  <2>5. InThePast'
    BY <2>1, <2>2, <2>4 DEF InThePast, Keeps
  <2>6. send'[p].pc \notin {"new", "open", "ended"} =>
          /\ send'[p].now = send[p].now
          /\ send[p].pc \notin {"new", "open", "ended"} \/ unsaved = {}
    BY <2>1, Records DEF Begins, Ends, GoesOn, Makes, Holds, Holding, Over
  <2>7. StampsSeen'
    BY <2>1, <2>6 DEF StampsSeen, Keeps
  <2>8. KeysOnce'
    <3>1. CASE ledger' = ledger
      BY <3>1 DEF KeysOnce
    <3>2. ASSUME NEW a \in Account, ledger' = ledger \cup {Alert(a)} PROVE KeysOnce'
      BY <3>2, AlertIs DEF KeysOnce
    <3>3. CASE Holding(p) /\ ~Clashes(p) /\ ledger' = ledger \cup {send[p].msg}
      <4>1. \A m \in ledger : m.to = send[p].msg.to => m.keys \cap send[p].msg.keys = {}
        BY <3>3 DEF Clashes, SentKeys, Rows
      <4> QED
        BY <3>3, <4>1 DEF KeysOnce
    <3> QED
      BY <2>3, <3>1, <3>2, <3>3
  <2> QED
    BY <2>5, <2>7, <2>8
<1> QED
  BY <1>1, <1>2, NextIs

\* What a send that was never overlapped knows of the ledger, and what follows for it.
LEMMA AloneStep ==
  ASSUME IInv, [Next]_vars, ~overlapped'
  PROVE  DayOnce' /\ Alone' /\ \A p \in Sends : Knows(p)'
<1> USE DEF IInv
<1>0. /\ ~overlapped /\ DayOnce /\ Alone /\ \A p \in Sends : Knows(p)
      /\ \A p \in Sends : send[p].now \in Nat /\ Day(send[p].now) \in Int
      /\ \A m \in ledger : m.prepared \in Nat /\ Day(m.prepared) \in Int
  <2>1. ~overlapped
    <3>1. CASE Around
      BY <3>1, AroundLeaves
    <3>2. ASSUME NEW p \in Sends, Step(p) PROVE ~overlapped
      BY <3>2, StepDoes DEF Begins, Ends, GoesOn, Makes, Holds
    <3> QED
      BY <3>1, <3>2, NextIs
  <2>2. /\ \A p \in Sends : send[p].now \in Nat
        /\ \A m \in ledger : m.prepared \in Nat
    BY MailAssumption DEF TypeOK, SendType, MessageType, Tick
  <2> QED
    BY <2>1, <2>2, DaysGoOn
<1>1. CASE Around
  BY <1>0, <1>1, AroundLeaves DEF DayOnce, Alone, Knows, Over, Holding, SentKeys, Rows
<1>2. ASSUME NEW p \in Sends, Step(p)
      PROVE  DayOnce' /\ Alone' /\ \A q \in Sends : Knows(q)'
  <2>1. /\ Keeps(p)
        /\ \/ Empty(p) /\ (Begins(p) \/ Ends(p) \/ GoesOn(p))
           \/ Makes(p) \/ Holds(p)
    BY <1>2, StepDoes
  <2>2. \A q \in Sends \ {p} : Over(q)
    <3>1. CASE Begins(p)
      BY <1>0, <3>1 DEF Begins
    <3>2. CASE ~Over(p)
      BY <1>0, <3>2 DEF Alone
    <3>3. Begins(p) \/ ~Over(p)
      BY <2>1 DEF Ends, GoesOn, Makes, Holds, Holding, Over
    <3> QED
      BY <3>1, <3>2, <3>3
  <2>3. \A q \in Sends \ {p} : send'[q] = send[q] /\ Over(q)' /\ send'[q].msg.keys = {}
    <3>1. \A q \in Sends \ {p} : send'[q] = send[q] /\ Over(q)
      BY <2>1, <2>2 DEF Keeps
    <3>2. \A q \in Sends \ {p} : send[q].msg = NoMessage
      BY <3>1 DEF InHandIs, Holding, Over
    <3> QED
      BY <3>1, <3>2, NoMessageIs DEF Over
  <2>4. Alone'
    BY <2>3 DEF Alone
  <2>5. ASSUME NEW q \in Sends \ {p} PROVE Knows(q)'
    BY <2>3 DEF Knows, Over, Holding
  <2>6. CASE Empty(p) /\ (Begins(p) \/ Ends(p) \/ GoesOn(p))
    <3>1. send'[p].msg.keys = {} /\ ~Holding(p)'
      BY <2>6, NoMessageIs, Records DEF Empty, Begins, Ends, GoesOn, Holding
    <3>2. CASE Begins(p)
      <4>1. \A m \in ledger' : m.prepared <= send'[p].now
        BY <3>2 DEF Begins, InThePast
      <4>2. DayOnce'
        BY <1>0, <3>2 DEF Begins, DayOnce
      <4> QED
        BY <2>4, <2>5, <3>1, <4>1, <4>2 DEF Knows
    <3>3. CASE Ends(p)
      <4>1. Over(p)' /\ DayOnce'
        BY <1>0, <3>3, Records DEF Ends, Over, DayOnce
      <4> QED
        BY <2>4, <2>5, <3>1, <4>1 DEF Knows
    <3>4. CASE GoesOn(p)
      <4>0. ~Over(p) /\ send'[p].now = send[p].now
        BY <3>4 DEF GoesOn
      <4>1. CASE ledger' = ledger
        <5>1. DayOnce' /\ \A m \in ledger' : Daily(m) => m.prepared <= send'[p].now
          BY <1>0, <4>0, <4>1 DEF DayOnce, Knows
        <5> QED
          BY <2>4, <2>5, <3>1, <5>1 DEF Knows
      <4>2. ASSUME NEW a \in Account, ledger' = ledger \cup {Alert(a)}
            PROVE  DayOnce' /\ \A m \in ledger' : Daily(m) => m.prepared <= send'[p].now
        BY <1>0, <4>0, <4>2, AlertIs DEF DayOnce, Knows
      <4>3. CASE Holding(p) /\ ledger' = ledger \cup {send[p].msg}
        <5>1. Daily(send[p].msg) /\ send[p].msg.prepared = send[p].now
          BY <4>3 DEF InHandIs
        <5>2. \A m \in ledger' : Daily(m) => m.prepared <= send'[p].now
          BY <1>0, <4>0, <4>3, <5>1 DEF Knows
        <5>3. ~send[p].msg.forced =>
                \A m \in ledger : m.to = send[p].msg.to /\ Daily(m) =>
                  Day(m.prepared) # Day(send[p].msg.prepared)
          BY <1>0, <4>3, <5>1 DEF Knows
        <5>4. DayOnce'
          BY <1>0, <4>3, <5>3 DEF DayOnce
        <5> QED
          BY <2>4, <2>5, <3>1, <5>2, <5>4 DEF Knows
      <4> QED
        BY <2>4, <2>5, <3>1, <3>4, <4>1, <4>2, <4>3 DEF GoesOn, Knows, Holding
    <3> QED
      BY <2>6, <3>2, <3>3, <3>4
  <2>7. CASE Makes(p)
    <3>0. ~Over(p) /\ ledger' = ledger /\ send'[p].now = send[p].now
      BY <2>7 DEF Makes, Over
    <3>1. DayOnce'
      BY <1>0, <3>0 DEF DayOnce
    <3>2. (send[p].msg.keys \cap SentKeys(send[p].msg.to))' = {}
      <4>1. send'[p].msg.to = Person(p) /\ send'[p].msg.keys \cap SentKeys(Person(p)) = {}
        BY <2>7 DEF Makes
      <4>2. \A m \in ledger' : m.to = send'[p].msg.to => m.keys \cap send'[p].msg.keys = {}
        BY <3>0, <4>1 DEF SentKeys, Rows
      <4> QED
        BY <4>2 DEF SentKeys, Rows
    <3>3. \A m \in ledger' : Daily(m) => m.prepared <= send'[p].now
      BY <1>0, <3>0 DEF Knows
    <3>4. ASSUME ~send'[p].msg.forced, NEW m \in ledger, m.to = Person(p), Daily(m)
          PROVE  Day(m.prepared) < Day(send[p].now)
      <4> DEFINE last == LastEmail(Person(p))
      <4>1. last # None /\ last \in Nat /\ m.prepared <= last
        BY <3>4, LastIs, MailAssumption DEF Tick
      <4>2. PICK n \in ledger : Daily(n) /\ n.prepared = last
        BY <4>1, LastIs
      <4>3. last <= send[p].now
        BY <1>0, <3>0, <4>2 DEF Knows
      <4>4. Day(last) # Day(send[p].now)
        BY <2>7, <3>4, <4>1 DEF Makes, AlreadyEmailed
      <4> HIDE DEF last
      <4>5. Day(last) \in Int /\ Day(m.prepared) <= Day(last)
        BY <1>0, <4>1, DaysGoOn
      <4>6. Day(last) <= Day(send[p].now)
        BY <1>0, <4>1, <4>3, DaysGoOn
      <4> QED
        BY <1>0, <4>4, <4>5, <4>6
    <3>5. Knows(p)'
      BY <2>7, <3>0, <3>2, <3>3, <3>4 DEF Knows, Makes
    <3> QED
      BY <2>4, <2>5, <3>1, <3>5
  <2>8. CASE Holds(p)
    <3>1. /\ ~Over(p) /\ Holding(p) /\ ledger' = ledger /\ send'[p].now = send[p].now
          /\ send'[p].msg = send[p].msg
      BY <2>8 DEF Holds, Over, Holding
    <3>2. DayOnce' /\ Knows(p)'
      BY <1>0, <3>1 DEF DayOnce, Knows, SentKeys, Rows
    <3> QED
      BY <2>4, <2>5, <3>2
  <2> QED
    BY <2>1, <2>6, <2>7, <2>8
<1> QED
  BY <1>1, <1>2, NextIs

------------------------------------------------------------------------------
(* What a message tells.                                                     *)

\* The message made for a person carries every row that was stamped before the send's time,
\* is news, and is no card she has been sent a row of.
LEMMA Composed ==
  ASSUME TypeOK, NEW p \in Sends, send[p].pc = "next", send[p].todo # {},
         NEW m, m = Today(p, LastEmail(Person(p)))
  PROVE  Silent(m) /\ Carries(m)
<1> DEFINE a     == Person(p)
           now   == send[p].now
           today == Day(now)
           since == Since(m.last, now)
           cards == Choose(a, since, today)
<1>1. /\ Daily(m) /\ m.to = a /\ m.prepared = now /\ m.keys = UNION cards
      /\ m.last = LastEmail(a) /\ m.news = News(now)
  BY TodayIs
<1>2. now \in Nat
  <2>1. now \in Tick
    BY DEF TypeOK, SendType
  <2> QED
    BY <2>1, MailAssumption DEF Tick
<1> HIDE DEF today
<1>3. ASSUME NEW s \in Visible, at[s] < now
      PROVE  s \in Signals /\ at[s] \in Nat /\ s \in DOMAIN m.news
             /\ (m.news[s] # {} => IsNews(s, today) /\ m.news[s] = CardOf(s, today))
  <2>1. s \in Signals /\ at[s] # None /\ at[s] \in Nat
    BY MailAssumption DEF Visible, TypeOK, Tick
  <2>2. s \in DOMAIN News(now)
    BY <1>3, <2>1, NewsIs
  <2> QED
    BY <1>1, <2>1, <2>2, NewsIs DEF today
<1>4. ASSUME NEW s \in Visible, at[s] < now, Passed(a, s) = {}, ~Excused(m, s)
      PROVE  m.news[s] \cap (m.keys \cup SentKeys(a)) # {}
  <2>0. /\ IsNews(s, today) /\ m.news[s] = CardOf(s, today)
        /\ ~(m.last = None /\ at[s] < now - PerDay)
        /\ s \in Signals /\ at[s] \in Nat
    BY <1>1, <1>3, <1>4 DEF Excused
  <2>1. at[s] >= since
    <3>1. CASE m.last = None
      <4>1. PerDay \in Nat
        BY MailAssumption
      <4>2. since = now - PerDay
        BY <3>1 DEF Since
      <4>3. ~(at[s] < now - PerDay)
        BY <2>0, <3>1
      <4> HIDE DEF since, now
      <4> QED
        BY <1>2, <2>0, <4>1, <4>2, <4>3
    <3>2. CASE m.last # None
      <4>1. PICK n \in ledger : Daily(n) /\ n.prepared = m.last /\ n.to = a
        BY <1>1, <3>2, LastIs
      <4>2. n.prepared \in Nat
        BY MailAssumption DEF TypeOK, MessageType, Tick
      <4>3. ~(n.prepared > at[s])
        BY <1>4, <4>1 DEF Passed, Rows
      <4> QED
        BY <2>0, <3>2, <4>1, <4>2, <4>3 DEF Since
    <3> QED
      BY <3>1, <3>2
  <2> DEFINE card == CardOf(s, today)
  <2>2. s \in card /\ card \in Cards(today)
    <3>1. s \in Digest(today) /\ SameCard(s, s)
      BY <2>0 DEF IsNews, Notable, Digest, SameCard
    <3>2. card = {t \in Digest(today) : SameCard(s, t)}
      BY <3>1 DEF CardOf
    <3> QED
      BY <3>1, <3>2 DEF Cards
  <2>3. Best(card, today) = s /\ Notable(s, today) /\ ~Scheduled(s, today)
    BY <2>0 DEF IsNews
  <2> HIDE DEF card
  <2>4. CASE ~IsSent(card, a)
    <3>1. card \in cards
      BY <2>1, <2>2, <2>3, <2>4 DEF Choose, Owed
    <3>2. s \in m.keys
      BY <1>1, <2>2, <3>1
    <3> QED
      BY <2>0, <2>2, <3>2 DEF card
  <2>5. CASE IsSent(card, a)
    BY <2>0, <2>5 DEF IsSent, card
  <2> QED
    BY <2>4, <2>5
<1>5. Silent(m)
  BY <1>1 DEF Silent
<1>6. Carries(m)
  BY <1>1, <1>3, <1>4 DEF Carries
<1> QED
  BY <1>5, <1>6

------------------------------------------------------------------------------
(* What stays as it is when rows, the ledger and the inbox grow.             *)

Onward ==
  /\ Visible \subseteq Visible' /\ \A c \in Visible : at'[c] = at[c]
  /\ ledger \subseteq ledger' /\ inbox \subseteq inbox'

LEMMA LedgerGrows ==
  ASSUME Onward
  PROVE  /\ \A m : Delivered(m) => Delivered(m)'
         /\ \A a : SentKeys(a) \subseteq SentKeys(a)'
         /\ \A a : DeliveredKeys(a) \subseteq DeliveredKeys(a)'
         /\ \A a : \A c \in Visible : Passed(a, c) \subseteq Passed(a, c)'
<1>1. ledger \subseteq ledger' /\ inbox \subseteq inbox' /\ \A c \in Visible : at'[c] = at[c]
  BY DEF Onward
<1>2. \A m : Delivered(m) => Delivered(m)'
  BY <1>1 DEF Delivered
<1>3. \A a : Rows(a) \subseteq Rows(a)'
  BY <1>1 DEF Rows
<1>4. \A a : DeliveredKeys(a) \subseteq DeliveredKeys(a)'
  BY <1>1, <1>2 DEF DeliveredKeys
<1> QED
  BY <1>1, <1>2, <1>3, <1>4 DEF SentKeys, Passed

\* What a message carries of the rows there were, it carries when there are more.
LEMMA CarriesOn ==
  ASSUME Onward, NEW m, Carries(m), NEW s \in Visible, at[s] < m.prepared
  PROVE  /\ s \in DOMAIN m.news
         /\ \/ Passed(m.to, s)' # {} \/ Excused(m, s)'
            \/ m.news[s] \cap (m.keys \cup SentKeys(m.to)') # {}
<1>1. /\ Passed(m.to, s) \subseteq Passed(m.to, s)' /\ SentKeys(m.to) \subseteq SentKeys(m.to)'
      /\ Excused(m, s)' <=> Excused(m, s)
  BY LedgerGrows DEF Excused, Onward
<1> QED
  BY <1>1 DEF Carries

LEMMA ToldOn ==
  ASSUME Onward, NEW a \in Account, NEW s \in Visible, Told(a, s), Passed(a, s) # {}
  PROVE  Told(a, s)'
<1>1. /\ Passed(a, s) \subseteq Passed(a, s)' /\ DeliveredKeys(a) \subseteq DeliveredKeys(a)'
      /\ \A m : Excused(m, s)' <=> Excused(m, s)
  BY LedgerGrows DEF Excused, Onward
<1> QED
  BY <1>1 DEF Told

\* What goes on around the mailer.
LEMMA TellsAround ==
  ASSUME TInv, Around
  PROVE  /\ Posted' /\ Younger'
         /\ \A a \in Account, s \in Visible' : Told(a, s)'
         /\ \A p \in Sends : InHandTells(p)'
<1> USE DEF TInv
<1>0. /\ UNCHANGED <<send, ledger, inbox, overlapped>>
      /\ \A s \in unsaved' : (s \in unsaved /\ at'[s] = at[s]) \/ at'[s] = clock
      /\ \A s \in Visible' : at'[s] = at[s] /\ (s \in Visible \/ s \in unsaved)
      /\ Visible \subseteq Visible'
  BY AroundLeaves DEF IInv
<1>1. Onward
  BY <1>0 DEF Onward
<1>2. Posted'
  BY <1>0, <1>1, LedgerGrows DEF Posted, Silent, Daily
<1>3. (\A p \in Sends : send[p].now \in Nat) /\ \A m \in ledger : m.prepared \in Nat
  BY MailAssumption DEF Tick, IInv, TypeOK, SendType, MessageType
<1>4. Younger'
  BY <1>0 DEF Younger, IInv, InThePast
<1>5. \A s \in Visible' \ Visible : s \in unsaved /\ at'[s] = at[s] /\ at[s] \in Nat
  BY <1>0, MailAssumption DEF IInv, TypeOK, Tick
<1>6. ASSUME NEW a \in Account, NEW s \in Visible' PROVE Told(a, s)'
  <2>1. CASE s \in Visible
    <3>1. Told(a, s)
      BY <2>1
    <3>2. Passed(a, s)' = Passed(a, s)
      BY <1>0, <2>1 DEF Passed, Rows
    <3> QED
      BY <1>1, <2>1, <3>1, <3>2, ToldOn DEF Told
  <2>2. CASE s \notin Visible
    <3>1. ASSUME NEW m \in ledger PROVE ~(m.prepared > at'[s])
      BY <1>3, <1>5, <2>2, <3>1 DEF Younger
    <3>2. Passed(a, s)' = {}
      BY <1>0, <3>1 DEF Passed, Rows
    <3> QED
      BY <3>2 DEF Told
  <2> QED
    BY <2>1, <2>2
<1>7. ASSUME NEW p \in Sends PROVE InHandTells(p)'
  <2> SUFFICES ASSUME NEW m, m = send[p].msg
               PROVE  /\ Silent(m)' /\ (Holding(p) => Carries(m)')
                      /\ send[p].pc = "sent" => Delivered(m)'
    BY <1>0 DEF InHandTells, Holding
  <2>1. Silent(m) /\ (Holding(p) => Carries(m)) /\ (send[p].pc = "sent" => Delivered(m))
    <3>1. InHandTells(p) /\ m \in {send[p].msg}
      OBVIOUS
    <3> QED
      BY <3>1 DEF InHandTells
  <2>2. ASSUME Holding(p), NEW s \in Visible' \ Visible PROVE ~(at'[s] < m.prepared)
    <3>1. m.prepared = send[p].now /\ send[p].pc \notin {"new", "open", "ended"}
      BY <2>2 DEF IInv, InHandIs, Holding
    <3>2. at[s] >= send[p].now
      BY <1>5, <3>1 DEF IInv, StampsSeen
    <3> QED
      BY <1>3, <1>5, <3>1, <3>2
  <2>3. Carries(m) /\ Holding(p) => Carries(m)'
    <3> SUFFICES ASSUME Carries(m), Holding(p), NEW s \in Visible', at'[s] < m.prepared
                 PROVE  /\ s \in DOMAIN m.news
                        /\ \/ Passed(m.to, s)' # {} \/ Excused(m, s)'
                           \/ m.news[s] \cap (m.keys \cup SentKeys(m.to)') # {}
      BY DEF Carries
    <3>1. s \in Visible /\ at[s] < m.prepared
      BY <1>0, <2>2
    <3> QED
      BY <1>1, <3>1, CarriesOn
  <2>4. Silent(m)' <=> Silent(m)
    BY DEF Silent, Daily
  <2> QED
    BY <1>1, <2>1, <2>3, <2>4, LedgerGrows
<1> QED
  BY <1>2, <1>4, <1>6, <1>7

\* A step of a send.
LEMMA TellsStep ==
  ASSUME TInv, NEW p \in Sends, Step(p)
  PROVE  /\ Posted' /\ Younger'
         /\ \A a \in Account, s \in Visible' : Told(a, s)'
         /\ \A q \in Sends : InHandTells(q)'
<1> USE DEF TInv
<1>0. /\ Keeps(p)
      /\ \/ Empty(p) /\ (Begins(p) \/ Ends(p) \/ GoesOn(p))
         \/ Makes(p) \/ Holds(p)
  BY StepDoes DEF IInv
<1>1. \/ ledger' = ledger
      \/ unsaved = {} /\ \E a \in Account : ledger' = ledger \cup {Alert(a)}
      \/ /\ unsaved = {} /\ send[p].pc = "sent" /\ GoesOn(p)
         /\ ledger' = ledger \cup {send[p].msg}
  BY <1>0 DEF Begins, Ends, GoesOn, Makes, Holds
<1>2. /\ UNCHANGED <<clock, at, says, unsaved, status>> /\ inbox \subseteq inbox'
      /\ Visible' = Visible /\ \A q \in Sends \ {p} : send'[q] = send[q]
  BY <1>0 DEF Keeps, Visible
<1>3. Onward
  BY <1>1, <1>2 DEF Onward
<1>4. \A m : (Silent(m) <=> Silent(m)') /\ (Delivered(m) => Delivered(m)')
  BY <1>3, LedgerGrows DEF Silent, Daily
<1>5. \A a \in Account : Alert(a).keys = {} /\ ~Daily(Alert(a))
  BY AlertIs DEF IInv
<1>6. ASSUME send[p].pc = "sent"
      PROVE  /\ Holding(p) /\ Daily(send[p].msg)
             /\ \A m \in {send[p].msg} : Silent(m) /\ Carries(m) /\ Delivered(m)
  <2>1. Holding(p) /\ InHandTells(p)
    BY <1>6 DEF Holding
  <2>2. Daily(send[p].msg)
    BY <2>1 DEF IInv, InHandIs
  <2> QED
    BY <1>6, <2>1, <2>2 DEF InHandTells
<1>7. ASSUME NEW m \in ledger'
      PROVE  Silent(m) /\ (Daily(m) => Delivered(m)')
  <2>1. CASE m \in ledger
    BY <1>4, <2>1 DEF Posted
  <2>2. ASSUME NEW a \in Account, m = Alert(a) PROVE Silent(m) /\ ~Daily(m)
    BY <1>5, <2>2 DEF Silent
  <2>3. CASE send[p].pc = "sent" /\ m = send[p].msg
    BY <1>4, <1>6, <2>3
  <2> QED
    BY <1>1, <2>1, <2>2, <2>3
<1>8. Posted'
  BY <1>4, <1>7 DEF Posted, Daily
<1>9. Younger'
  BY <1>1, <1>2 DEF Younger
<1>10. ASSUME NEW a \in Account, NEW s \in Visible' PROVE Told(a, s)'
  <2>0. s \in Visible /\ Told(a, s)
    BY <1>2
  <2> SUFFICES ASSUME Passed(a, s)' # {} PROVE Told(a, s)'
    BY DEF Told
  <2>1. CASE Passed(a, s) # {}
    BY <1>3, <2>0, <2>1, ToldOn
  <2>2. CASE Passed(a, s) = {}
    <3>1. PICK m \in Passed(a, s)' : TRUE
      OBVIOUS
    <3>2. m \in ledger' /\ m.to = a /\ Daily(m) /\ m.prepared > at[s]
      BY <1>2, <3>1 DEF Passed, Rows, Daily
    <3>3. m \notin ledger
      BY <2>2, <3>2 DEF Passed, Rows
    <3>4. send[p].pc = "sent" /\ m = send[p].msg
      BY <1>1, <1>5, <3>2, <3>3
    <3>5. Carries(m)
      BY <1>6, <3>4
    <3>6. at[s] < m.prepared
      <4>1. m \in MessageType
        BY <1>0, <3>2 DEF Keeps
      <4>2. at[s] \in Nat /\ m.prepared \in Nat
        BY <2>0, <4>1, MailAssumption DEF IInv, TypeOK, Visible, MessageType, Tick
      <4> QED
        BY <3>2, <4>2
    <3>7. /\ s \in DOMAIN m.news
          /\ Excused(m, s) \/ m.news[s] \cap (m.keys \cup SentKeys(a)) # {}
      BY <2>0, <2>2, <3>2, <3>5, <3>6 DEF Carries
    <3>8. CASE Excused(m, s)
      <4>1. Excused(m, s)'
        BY <1>2, <3>8 DEF Excused
      <4> QED
        BY <3>1, <3>7, <4>1 DEF Told
    <3>9. CASE m.news[s] \cap (m.keys \cup SentKeys(a)) # {}
      <4>1. PICK c \in m.news[s] : c \in m.keys \cup SentKeys(a)
        BY <3>9
      <4>2. PICK n \in ledger' : n.to = a /\ c \in n.keys
        BY <1>3, <3>2, <4>1 DEF SentKeys, Rows, Onward
      <4>3. Daily(n)
        BY <1>7, <4>2 DEF Silent
      <4>4. c \in DeliveredKeys(a)'
        BY <1>7, <4>2, <4>3 DEF DeliveredKeys
      <4> QED
        BY <3>1, <3>7, <4>1, <4>4 DEF Told
    <3> QED
      BY <3>7, <3>8, <3>9
  <2> QED
    BY <2>1, <2>2
<1>11. \A m : Carries(m) => Carries(m)'
  <2> SUFFICES ASSUME NEW m, Carries(m), NEW s \in Visible, at[s] < m.prepared
               PROVE  /\ s \in DOMAIN m.news
                      /\ \/ Passed(m.to, s)' # {} \/ Excused(m, s)'
                         \/ m.news[s] \cap (m.keys \cup SentKeys(m.to)') # {}
    BY <1>2 DEF Carries
  <2> QED
    BY <1>3, CarriesOn
<1>12. ASSUME NEW q \in Sends PROVE InHandTells(q)'
  <2> SUFFICES ASSUME NEW m, m = send'[q].msg
               PROVE  /\ Silent(m)
                      /\ Holding(q)' => Carries(m)'
                      /\ send'[q].pc = "sent" => Delivered(m)'
    BY <1>4 DEF InHandTells
  <2>1. CASE q # p
    <3>1. send'[q] = send[q] /\ InHandTells(q)
      BY <1>2, <2>1
    <3>2. /\ Silent(m)
          /\ Holding(q) => Carries(m)
          /\ send[q].pc = "sent" => Delivered(m)
      BY <3>1 DEF InHandTells
    <3> QED
      BY <1>4, <1>11, <3>1, <3>2 DEF Holding
  <2>2. CASE q = p /\ Empty(p) /\ (Begins(p) \/ Ends(p) \/ GoesOn(p))
    <3>1. m.keys = {} /\ ~Holding(p)' /\ send'[p].pc # "sent"
      BY <2>2, NoMessageIs, Records DEF Empty, Holding, Begins, Ends, GoesOn
    <3> QED
      BY <2>2, <3>1 DEF Silent
  <2>3. CASE q = p /\ Makes(p)
    <3>1. /\ send[p].pc = "next" /\ send[p].todo # {}
          /\ m = Today(p, LastEmail(Person(p))) /\ send'[p].pc = "post"
      BY <2>3 DEF Makes
    <3>2. Silent(m) /\ Carries(m)
      BY <3>1, Composed DEF IInv
    <3> QED
      BY <1>11, <2>3, <3>1, <3>2
  <2>4. CASE q = p /\ Holds(p)
    <3>1. /\ Holding(p) /\ m = send[p].msg
          /\ send'[p].pc = "sent" => \E n \in inbox' : IdempotencyKey(n) = IdempotencyKey(m)
      BY <2>4 DEF Holds
    <3>2. Silent(m) /\ Carries(m)
      BY <3>1 DEF InHandTells
    <3>3. send'[p].pc = "sent" => Delivered(m)'
      BY <3>1 DEF Delivered, IdempotencyKey
    <3> QED
      BY <1>11, <2>4, <3>2, <3>3
  <2> QED
    BY <1>0, <2>1, <2>2, <2>3, <2>4
<1> QED
  BY <1>8, <1>9, <1>10, <1>12

------------------------------------------------------------------------------
(* The theorems.                                                             *)

LEMMA InitIs == Init => IInv
<1> SUFFICES ASSUME Init PROVE IInv
  OBVIOUS
<1>1. 0 \in Tick /\ None \notin Tick
  BY MailAssumption DEF Tick
<1>2. \A p \in Sends : send[p] = New
  BY DEF Init
<1>3. New.pc = "new"
  BY DEF New
<1>4. TypeOK
  BY <1>1, Records DEF Init, TypeOK
<1>5. InHandIs /\ InThePast /\ KeysOnce /\ StampsSeen
  BY <1>2, <1>3, Records DEF Init, InHandIs, InThePast, KeysOnce, StampsSeen, Holding
<1>6. DayOnce /\ Alone /\ \A p \in Sends : Knows(p)
  <2>1. \A p \in Sends : Over(p) /\ ~Holding(p) /\ send[p].msg.keys = {}
    BY <1>2, <1>3, Records, NoMessageIs DEF Over, Holding
  <2> QED
    BY <2>1 DEF Init, DayOnce, Alone, Knows
<1> QED
  BY <1>4, <1>5, <1>6 DEF IInv

LEMMA InvariantStep == IInv /\ [Next]_vars => IInv'
<1> SUFFICES ASSUME IInv, [Next]_vars PROVE IInv'
  OBVIOUS
<1>1. TypeOK' /\ InHandIs'
  BY TypeStep DEF IInv
<1>2. InThePast' /\ StampsSeen' /\ KeysOnce'
  BY PastStep
<1>3. ~overlapped' => DayOnce' /\ Alone' /\ \A p \in Sends : Knows(p)'
  BY AloneStep
<1> QED
  BY <1>1, <1>2, <1>3 DEF IInv

\* Nothing is lost of the invariant by any step: messages in hand, the ledger and its
\* clock, the unique constraint, and what a send knows that no other has overlapped.
THEOREM InductiveInvariant == Spec => []IInv
BY InitIs, InvariantStep, PTL DEF Spec

\* Every variable keeps its type, whatever the sends and the commands around them do.
THEOREM TypeCorrect == Spec => []TypeOK
<1>1. IInv => TypeOK
  BY DEF IInv
<1> QED
  BY <1>1, InductiveInvariant, PTL

\* Two messages to a person that are recorded or in a hand, and share an update, are one,
\* as long as no two sends have overlapped.
LEMMA SharedIsSame ==
  ASSUME IInv, ~overlapped, NEW m, NEW n, m \in ledger \/ InHand(m), n \in ledger \/ InHand(n),
         m.to = n.to, m.keys \cap n.keys # {}
  PROVE  m = n
<1> USE DEF IInv
<1>1. CASE m \in ledger /\ n \in ledger
  BY <1>1 DEF KeysOnce
<1>2. ASSUME NEW x \in ledger, NEW y, InHand(y), x.to = y.to, x.keys \cap y.keys # {}
      PROVE  FALSE
  BY <1>2 DEF InHand, Knows, SentKeys, Rows
<1>3. CASE InHand(m) /\ InHand(n)
  <2>1. PICK p \in Sends, q \in Sends : send[p].msg = m /\ send[q].msg = n
    BY <1>3 DEF InHand
  <2>2. ~Over(p) /\ ~Over(q)
    BY <2>1, NoMessageIs DEF InHandIs, Holding, Over
  <2> QED
    BY <2>1, <2>2 DEF Alone
<1> QED
  BY <1>1, <1>2, <1>3

\* The same of two daily messages of a day that nobody forced.
LEMMA OfADayIsSame ==
  ASSUME IInv, ~overlapped, NEW m, NEW n, m \in ledger \/ InHand(m), n \in ledger \/ InHand(n),
         m.to = n.to, Daily(m), Daily(n), ~m.forced, ~n.forced,
         Day(m.prepared) = Day(n.prepared)
  PROVE  m = n
<1> USE DEF IInv
<1>1. CASE m \in ledger /\ n \in ledger
  BY <1>1 DEF DayOnce
<1>2. \A p \in Sends : Daily(send[p].msg) => Holding(p) /\ ~Over(p)
                                            /\ send[p].msg.prepared = send[p].now
  BY NoMessageIs DEF InHandIs, Holding, Over
<1>3. ASSUME NEW x \in ledger, NEW y, InHand(y), x.to = y.to, Daily(x), Daily(y), ~y.forced,
             Day(x.prepared) = Day(y.prepared)
      PROVE  FALSE
  <2>1. PICK p \in Sends : send[p].msg = y
    BY <1>3 DEF InHand
  <2>2. Day(x.prepared) < Day(send[p].now) /\ y.prepared = send[p].now
    BY <1>2, <1>3, <2>1 DEF Knows
  <2>3. send[p].now \in Nat /\ Day(send[p].now) \in Int
    <3>1. send[p].now \in Nat
      BY MailAssumption DEF TypeOK, SendType, Tick
    <3> QED
      BY <3>1, DaysGoOn
  <2> QED
    BY <1>3, <2>2, <2>3
<1>4. CASE InHand(m) /\ InHand(n)
  <2>1. PICK p \in Sends, q \in Sends : send[p].msg = m /\ send[q].msg = n
    BY <1>4 DEF InHand
  <2> QED
    BY <1>2, <2>1 DEF Alone
<1> QED
  BY <1>1, <1>3, <1>4

\* An update goes to a person twice only when the message that carried it first left no
\* record (notify.send_all, _record): what a send finds in notify_sent when it chooses is
\* still all there is when it records, unless another send overlapped it.
THEOREM OnlyUnrecordedRepeats == Spec => []RepeatOnlyUnrecorded
<1>1. IInv => RepeatOnlyUnrecorded
  <2> SUFFICES ASSUME IInv, ~overlapped, NEW a \in Account, NEW s \in Signals
               PROVE  Cardinality({m \in Accounted(a) : s \in m.keys}) <= 1
    BY DEF RepeatOnlyUnrecorded
  <2> DEFINE S == {m \in Accounted(a) : s \in m.keys}
  <2>1. \A m \in S : (m \in ledger \/ InHand(m)) /\ m.to = a /\ s \in m.keys
    BY DEF Accounted
  <2> HIDE DEF S
  <2>2. \A m, n \in S : m = n
    <3> SUFFICES ASSUME NEW m \in S, NEW n \in S PROVE m = n
      OBVIOUS
    <3>1. s \in m.keys \cap n.keys /\ m.to = n.to
      BY <2>1
    <3> QED
      BY <2>1, <3>1, SharedIsSame
  <2>3. Cardinality(S) <= 1
    BY <2>2, AtMostOne
  <2> QED
    BY <2>3 DEF S
<1> QED
  BY <1>1, InductiveInvariant, PTL

\* A person gets one message a day, of those that nobody forced and that left a record
\* (_already_emailed_today): the time a message was prepared at is what its row keeps, so
\* the day it is looked up by is the day it was made for.
THEOREM OneADay == Spec => []OneMessageADay
<1>1. IInv => OneMessageADay
  <2> SUFFICES ASSUME IInv, ~overlapped, NEW a \in Account, NEW t \in Tick
               PROVE  Cardinality({m \in Accounted(a) : Daily(m) /\ ~m.forced
                                                       /\ Day(m.prepared) = Day(t)}) <= 1
    BY DEF OneMessageADay
  <2> DEFINE S == {m \in Accounted(a) : Daily(m) /\ ~m.forced /\ Day(m.prepared) = Day(t)}
  <2>1. \A m \in S : /\ m \in ledger \/ InHand(m)
                     /\ m.to = a /\ Daily(m) /\ ~m.forced /\ Day(m.prepared) = Day(t)
    BY DEF Accounted
  <2> HIDE DEF S
  <2>2. \A m, n \in S : m = n
    <3> SUFFICES ASSUME NEW m \in S, NEW n \in S PROVE m = n
      OBVIOUS
    <3>1. m.to = n.to /\ Day(m.prepared) = Day(n.prepared)
      BY <2>1
    <3> QED
      BY <2>1, <3>1, OfADayIsSame
  <2>3. Cardinality(S) <= 1
    BY <2>2, AtMostOne
  <2> QED
    BY <2>3 DEF S
<1> QED
  BY <1>1, InductiveInvariant, PTL

\* Once a send has its own row committed, no row that an open transaction still holds was
\* stamped before the send's time: what the message does not see, the next one's window
\* still reaches (notify.send_all commits the run before it builds a message).
THEOREM StampsAreSeen == Spec => []StampsSeen
<1>1. IInv => StampsSeen
  BY DEF IInv
<1> QED
  BY <1>1, InductiveInvariant, PTL

\* What is recorded was delivered, and every row that a message passed was told of: kept by
\* every step, whatever the articles are dated to and come to be dated to.
THEOREM TellsAlways == Spec => []TInv
<1>1. Init => TInv
  <2> SUFFICES ASSUME Init PROVE TInv
    OBVIOUS
  <2>1. IInv
    BY InitIs
  <2>2. \A p \in Sends : send[p] = New /\ New.pc = "new" /\ New.msg = NoMessage
    BY Records DEF Init, New
  <2>3. Visible = {}
    BY DEF Init, Visible
  <2>4. Posted /\ Younger /\ \A a \in Account, s \in Visible : Told(a, s)
    BY <2>3 DEF Init, Posted, Younger
  <2>5. \A p \in Sends : InHandTells(p)
    BY <2>2, NoMessageIs DEF InHandTells, Silent, Holding
  <2> QED
    BY <2>1, <2>4, <2>5 DEF TInv
<1>2. TInv /\ [Next]_vars => TInv'
  <2> SUFFICES ASSUME TInv, [Next]_vars PROVE TInv'
    OBVIOUS
  <2>1. IInv'
    BY InvariantStep DEF TInv
  <2>2. CASE Around
    BY <2>1, <2>2, TellsAround DEF TInv
  <2>3. ASSUME NEW p \in Sends, Step(p) PROVE TInv'
    BY <2>1, <2>3, TellsStep DEF TInv
  <2> QED
    BY <2>2, <2>3, NextIs
<1> QED
  BY <1>1, <1>2, PTL DEF Spec

\* Nothing falls between two messages (notify.choose, since and is_sent): once a message has
\* moved a person's window past a row, the message knew the row, and the row was delivered to
\* her, or one of the card it was on that day, or it was no news that day, or the message was
\* her first and the row there a day before. Overlapping sends are included, and articles
\* that are dated ahead, or replaced by others between one message and the next.
THEOREM NothingFalls == Spec => []NothingFallsBetween
<1>1. TInv => NothingFallsBetween
  BY DEF TInv, Told, Excused, NothingFallsBetween
<1> QED
  BY <1>1, TellsAlways, PTL
==============================================================================
