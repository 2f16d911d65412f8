-------------------------------- MODULE Mail --------------------------------
(***************************************************************************)
(* The morning's mail (tracker/notify.py, send_all): one message a person  *)
(* a day, chosen from what the campuses' rows say (tracker/feed.py), and a *)
(* ledger of what was sent, so that no update goes out twice.              *)
(*                                                                         *)
(* A send is a process of its own, started by a schedule or by hand, with  *)
(* no lock: two may overlap. It posts to a service that delivers a key     *)
(* once, whose answer may be lost, and writes its ledger into a database   *)
(* that another command may be holding; it may die between any two steps.  *)
(***************************************************************************)
EXTENDS Integers, Sequences, FiniteSetsExt

CONSTANTS
  Accounts,     \* accounts.listing: a sequence, oldest first
  Admins,       \* those of them that are told of a run's problems
  Signals,      \* the updates: [project, kind, label, happened]
  Readings,     \* what each row comes to say, one article after another (bound)
  Sends,        \* processes that run `tracker notify send`, each once (bound)
  Attempts,     \* SEND_ATTEMPTS
  ReportWindow, CatchUp, Background,  \* REPORT_WINDOW_DAYS, CATCH_UP_DAYS, BACKGROUND_DAYS
  NotifyWeight,
  PerDay,       \* ticks of the clock in a day
  Zone,         \* ticks by which the schedule's zone is ahead of UTC
  LastTick,     \* where the clock stops (bound)
  Forces,       \* whether a send may be forced (bound)
  Quiet,        \* whether the crawler may have gone quiet (bound)
  Statuses,     \* what an account may become (bound)
  None

Account == {Accounts[i] : i \in DOMAIN Accounts}
Tick    == 0..LastTick
Dawn    == -1000   \* dt.date.min, before any date
Reading == [published : Int \cup {None}, weight : Nat]

ASSUME MailAssumption ==
  /\ Accounts \in Seq(Account) /\ Admins \subseteq Account
  /\ {Attempts, PerDay} \subseteq Nat \ {0}
  /\ {ReportWindow, CatchUp, Background, NotifyWeight, LastTick} \subseteq Nat
  /\ Statuses \subseteq {"mailed", "idle", "apart", "disabled"} /\ "mailed" \in Statuses
  /\ Forces \subseteq BOOLEAN /\ Quiet \subseteq BOOLEAN /\ None \notin Int
  /\ Zone \in Int
  /\ IsFiniteSet(Signals) /\ Readings \in [Signals -> Seq(Reading)]
  /\ \A s \in Signals : s.happened = None \/ (s.happened \in Int /\ s.happened > Dawn)

VARIABLES
  clock,
  at,        \* recorded_at (closed_at) of each signal's row, or None
  says,      \* the place in its Readings of what the row says, or None
  unsaved,   \* rows in the open transaction of the command that is writing
  status,    \* of each account: mailed, idle (follows nothing), apart (follows everything,
             \* or waits for approval), or disabled
  send,      \* what each process is doing
  ledger,    \* notify_delivery rows of messages sent, with their notify_sent rows
  inbox,     \* the daily messages the service has delivered
  overlapped \* whether two sends were ever under way at once (history)

vars == <<clock, at, says, unsaved, status, send, ledger, inbox, overlapped>>
rows == <<at, says, unsaved>>

\* Times are kept in UTC. A send reads its day off the machine's zone (local_time); the day a
\* row was stored on is the date of its stamp as it stands.
Day(t) == (t + Zone) \div PerDay
StoredOn(s) == at[s] \div PerDay
Says(s) == Readings[s][says[s]]

-----------------------------------------------------------------------------
(* What a row says on a day (feed.signals_for, reported_on, notable).      *)

\* A slip is keyed on the date it slipped to: that date is no date it happened on.
Ahead(s, today) == s.happened # None /\ s.happened > today
Happened(s, today) == IF s.label = "delayed" /\ Ahead(s, today) THEN None ELSE s.happened
Expected(s, today) == s.kind = "milestone" /\ s.label # "delayed" /\ Ahead(s, today)
Weight(s, today) == IF Expected(s, today) THEN 1 ELSE Says(s).weight

\* The first date that is no later than today, and never later than the row itself; none
\* where the machine's zone is behind UTC and has yet to reach the day the row was stored.
Past(d, today) == d # None /\ d <= today
Earlier(d, e) == IF d <= e THEN d ELSE e
ReportedOn(s, today) ==
  LET stored == StoredOn(s)
  IN  IF Past(Says(s).published, today) THEN Earlier(Says(s).published, stored)
      ELSE IF Past(Happened(s, today), today) THEN Earlier(Happened(s, today), stored)
      ELSE IF stored <= today THEN stored ELSE None

Recalled(s, today) ==
  /\ s.kind = "milestone" /\ Past(Says(s).published, today) /\ Happened(s, today) # None
  /\ Says(s).published - Happened(s, today) > Background

InWindow(s, today) ==
  /\ ~Recalled(s, today)
  /\ ReportedOn(s, today) # None /\ today - ReportedOn(s, today) <= ReportWindow

Visible == {s \in Signals : at[s] # None} \ unsaved
Digest(today) == {s \in Visible : InWindow(s, today)}

\* Rows that say the same of the same campus are one card, judged by its best row. The
\* sign, which differs within a card only at weight 1, is left out of the order.
SameCard(s, t) == s.project = t.project /\ s.kind = t.kind /\ s.label = t.label
Cards(today) == {{t \in Digest(today) : SameCard(s, t)} : s \in Digest(today)}

Rank(s, today) == <<Weight(s, today), ReportedOn(s, today), at[s],
                    IF Happened(s, today) = None THEN Dawn ELSE Happened(s, today)>>
Above(a, b) == \E i \in DOMAIN a : a[i] > b[i] /\ \A j \in 1..(i - 1) : a[j] = b[j]
Best(card, today) ==
  CHOOSE s \in card : \A t \in card : ~Above(Rank(t, today), Rank(s, today))

Notable(s, today) ==
  ~Expected(s, today) /\ Weight(s, today) >= NotifyWeight /\ InWindow(s, today)
\* Recorded before its own date: a schedule when it was read, and no news when it passes.
Scheduled(s, today) == Happened(s, today) # None /\ StoredOn(s) < Happened(s, today)

\* Of each row stamped before a time, saved or not, its card if it is news that day (history).
CardOf(s, today) == {t \in Digest(today) : SameCard(s, t)} \cup {s}
IsNews(s, today) ==
  /\ Notable(s, today) /\ ~Scheduled(s, today)
  /\ Best(CardOf(s, today), today) = s
News(now) ==
  [s \in {s \in Signals : at[s] # None /\ at[s] < now} |->
     IF IsNews(s, Day(now)) THEN CardOf(s, Day(now)) ELSE {}]

-----------------------------------------------------------------------------
(* The ledger, and today's message for one person.                         *)

\* A row of a message that failed is only ever shown, and is left out.
Rows(a) == {m \in ledger : m.to = a}
Daily(m) == m.kind \in {"updates", "quiet"}
SentKeys(a) == UNION {m.keys : m \in Rows(a)}

\* prepared_at of the last daily message the person was sent.
LastEmail(a) ==
  LET times == {m.prepared : m \in {m \in Rows(a) : Daily(m)}}
  IN  IF times = {} THEN None ELSE Max(times)

\* A mutant: a card is looked up by its best row alone.
IsSentByItself(card, a) == Best(card, Day(clock)) \in SentKeys(a)

IsSent(card, a) == card \cap SentKeys(a) # {}

Owed(card, s, a, since, today) ==
  /\ Notable(s, today) /\ ~IsSent(card, a) /\ ~Scheduled(s, today)
  /\ at[s] >= since \/ today - ReportedOn(s, today) <= CatchUp

Choose(a, since, today) ==
  {card \in Cards(today) : Owed(card, Best(card, today), a, since, today)}

Since(last, now) == IF last = None THEN now - PerDay ELSE last

\* What watchfor lists: every obstacle inside the window on the day it is asked.
WatchList == {s \in Digest(Day(clock)) : s.kind = "obstacle_opened"}

Words(S) == {<<s, Says(s)>> : s \in S}

Message(a, cards, last, now, force) ==
  [to |-> a, kind |-> IF cards = {} THEN "quiet" ELSE "updates",
   keys |-> UNION cards,
   lead |-> Words({s \in UNION cards : \E c \in cards : Best(c, Day(now)) = s}),
   last |-> last, watch |-> Words(WatchList), prepared |-> now, forced |-> force,
   news |-> News(now)]

NoMessage ==
  [to |-> None, kind |-> "none", keys |-> {}, lead |-> {}, last |-> None, watch |-> {},
   prepared |-> 0, forced |-> FALSE, news |-> <<>>]

Alert(a) == [NoMessage EXCEPT !.to = a, !.kind = "alert", !.prepared = clock]

\* Same person, day and words give the same key; a forced message carries its own clock.
IdempotencyKey(m) ==
  [to |-> m.to, day |-> Day(m.prepared), kind |-> m.kind, lead |-> m.lead, watch |-> m.watch,
   last |-> IF m.last = None THEN None ELSE Day(m.last),
   forced |-> IF m.forced THEN m.prepared ELSE None]

\* todo holds places in the list of accounts, which is gone through in its order.
New == [pc |-> "new", now |-> 0, todo |-> {}, force |-> FALSE,
        msg |-> NoMessage, tries |-> 0, failed |-> FALSE, alert |-> FALSE]
Ended == [New EXCEPT !.pc = "ended"]
Over(p) == send[p].pc \in {"new", "ended"}

Init ==
  /\ clock = 0
  /\ at = [s \in Signals |-> None] /\ says = at /\ unsaved = {}
  /\ status \in [Account -> Statuses]
  /\ send = [p \in Sends |-> New]
  /\ ledger = {} /\ inbox = {} /\ overlapped = FALSE

-----------------------------------------------------------------------------
(* Around the mailer.                                                      *)

\* Once no send is left to see it, nothing more happens here (bound).
Left == \E p \in Sends : send[p].pc # "ended"

\* A tick is hours: a send or a transaction sees at most one go by (bound).
Wait ==
  /\ Left /\ clock < LastTick /\ clock' = clock + 1
  /\ \A p \in Sends : ~Over(p) => send[p].now = clock
  /\ \A s \in unsaved : at[s] = clock
  /\ UNCHANGED <<rows, status, send, ledger, inbox, overlapped>>

\* A row is stamped in a transaction that holds the database from then on.
Write(s) ==
  /\ Left /\ at[s] = None
  /\ at' = [at EXCEPT ![s] = clock] /\ unsaved' = unsaved \cup {s}
  /\ \E i \in DOMAIN Readings[s] : says' = [says EXCEPT ![s] = i]
  /\ UNCHANGED <<clock, status, send, ledger, inbox, overlapped>>

Save ==
  /\ unsaved # {} /\ unsaved' = {}
  /\ UNCHANGED <<clock, at, says, status, send, ledger, inbox, overlapped>>

Undo ==
  /\ unsaved # {} /\ unsaved' = {}
  /\ at' = [s \in Signals |-> IF s \in unsaved THEN None ELSE at[s]]
  /\ says' = [s \in Signals |-> IF s \in unsaved THEN None ELSE says[s]]
  /\ UNCHANGED <<clock, status, send, ledger, inbox, overlapped>>

\* A merge or a re-read cites another article for a row that is there, or weighs it anew;
\* its stamp stays. In a transaction of its own (bound).
Repoint(s) ==
  /\ Left /\ at[s] # None /\ unsaved = {} /\ says[s] < Len(Readings[s])
  /\ says' = [says EXCEPT ![s] = @ + 1]
  /\ UNCHANGED <<clock, at, unsaved, status, send, ledger, inbox, overlapped>>

Become(a) ==
  /\ Left /\ \E how \in Statuses \ {status[a]} : status' = [status EXCEPT ![a] = how]
  /\ UNCHANGED <<clock, rows, send, ledger, inbox, overlapped>>

-----------------------------------------------------------------------------
(* One send.                                                               *)

\* A write waits for the command that holds the database, or gives up on it.
Free == unsaved = {}

Go(p, r) == send' = [send EXCEPT ![p] = r]
Here(p, pc) == send[p].pc = pc
Person(p) == Accounts[Min(send[p].todo)]
NextPerson(p) == [send[p] EXCEPT !.pc = "next", !.todo = @ \ {Min(@)}, !.msg = NoMessage,
                                 !.tries = 0]

\* --user names one person; --force lifts the rule of one message a day, and is used
\* once there has been one (bound).
Start(p) ==
  /\ Here(p, "new")
  /\ \E force \in Forces, people \in {DOMAIN Accounts} \cup {{i} : i \in DOMAIN Accounts} :
       /\ force => \E a \in Account : LastEmail(a) # None
       /\ Go(p, [New EXCEPT !.pc = "open", !.now = clock, !.todo = people, !.force = force])
  /\ overlapped' = (overlapped \/ \E q \in Sends : ~Over(q))
  /\ UNCHANGED <<clock, rows, status, ledger, inbox>>

Listed(a) == status[a] \notin {"apart", "disabled"}

\* The run's own row is committed before anybody's message is built, and the accounts are
\* read then, once; what each follows is read with their message.
Open(p) ==
  /\ Here(p, "open") /\ Free
  /\ Go(p, [send[p] EXCEPT !.pc = "next", !.todo = {i \in @ : Listed(Accounts[i])}])
  /\ UNCHANGED <<clock, rows, status, ledger, inbox, overlapped>>

\* A mutant: the same time rather than the same day.
AlreadyEmailedByClock(p) ==
  /\ ~send[p].force /\ LastEmail(Person(p)) # None
  /\ LastEmail(Person(p)) = send[p].now

AlreadyEmailed(p) ==
  /\ ~send[p].force /\ LastEmail(Person(p)) # None
  /\ Day(LastEmail(Person(p))) = Day(send[p].now)

Skips(p) == status[Person(p)] = "idle" \/ AlreadyEmailed(p)

Today(p, last) ==
  Message(Person(p), Choose(Person(p), Since(last, send[p].now), Day(send[p].now)),
          last, send[p].now, send[p].force)

Compose(p) ==
  /\ Here(p, "next") /\ ~send[p].alert /\ send[p].todo # {}
  /\ Go(p, IF Skips(p) THEN NextPerson(p)
           ELSE [send[p] EXCEPT !.pc = "post", !.msg = Today(p, LastEmail(Person(p)))])
  /\ UNCHANGED <<clock, rows, status, ledger, inbox, overlapped>>

\* The service: a key it has delivered is not delivered again.
Deliver(m) ==
  inbox' = IF \E n \in inbox : IdempotencyKey(n) = IdempotencyKey(m) THEN inbox
           ELSE inbox \cup {m}

Answered(p) ==
  /\ Here(p, "post") /\ Deliver(send[p].msg)
  /\ Go(p, [send[p] EXCEPT !.pc = "sent"])
  /\ UNCHANGED <<clock, rows, status, ledger, overlapped>>

\* No answer, or one that clears by itself; what was posted may have gone through.
Again(p) == [send[p] EXCEPT !.tries = @ + 1,
                            !.pc = IF send[p].tries + 1 = Attempts THEN "failed" ELSE "post"]
Unanswered(p) ==
  /\ Here(p, "post") /\ Go(p, Again(p))
  /\ Deliver(send[p].msg) \/ inbox' = inbox
  /\ UNCHANGED <<clock, rows, status, ledger, overlapped>>

Refused(p) ==
  /\ Here(p, "post") /\ Go(p, [send[p] EXCEPT !.pc = "failed"])
  /\ UNCHANGED <<clock, rows, status, ledger, inbox, overlapped>>

Clashes(p) == send[p].msg.keys \cap SentKeys(send[p].msg.to) # {}

\* A mutant: the window moves to when a message went, not to when it was prepared.
RecordSentNow(p) ==
  /\ Here(p, "sent") /\ Free /\ ~Clashes(p)
  /\ ledger' = ledger \cup {[send[p].msg EXCEPT !.prepared = clock]}
  /\ Go(p, NextPerson(p))
  /\ UNCHANGED <<clock, rows, status, inbox, overlapped>>

RecordSent(p) ==
  /\ Here(p, "sent") /\ Free /\ ~Clashes(p)
  /\ ledger' = ledger \cup {send[p].msg}
  /\ Go(p, NextPerson(p))
  /\ UNCHANGED <<clock, rows, status, inbox, overlapped>>

\* uq_notify_sent_account_signal: another send has recorded one of them since.
RecordClash(p) ==
  /\ Here(p, "sent") /\ Free /\ Clashes(p)
  /\ Go(p, Ended)
  /\ UNCHANGED <<clock, rows, status, ledger, inbox, overlapped>>

RecordFailed(p) ==
  /\ Here(p, "failed") /\ Free
  /\ Go(p, [NextPerson(p) EXCEPT !.failed = TRUE])
  /\ UNCHANGED <<clock, rows, status, ledger, inbox, overlapped>>

AdminsInOrder == {i \in DOMAIN Accounts : Accounts[i] \in Admins}

\* The counts are committed; problems are a failed person or a crawler gone quiet.
Finish(p) ==
  /\ Here(p, "next") /\ ~send[p].alert /\ send[p].todo = {} /\ Free
  /\ \E stale \in Quiet :
       Go(p, IF send[p].failed \/ stale
             THEN [send[p] EXCEPT !.alert = TRUE, !.todo = AdminsInOrder]
             ELSE Ended)
  /\ UNCHANGED <<clock, rows, status, ledger, inbox, overlapped>>

\* The accounts are listed again, but the last of them is still the row the loop held.
HeldOver(a) == a = Accounts[Len(Accounts)]

\* Each is posted and recorded like a person's, and nobody is told when that fails.
AlertNext(p) ==
  /\ Here(p, "next") /\ send[p].alert /\ send[p].todo # {}
  /\ \/ /\ status[Person(p)] = "disabled" \/ HeldOver(Person(p))
        /\ ledger' = ledger
     \/ /\ status[Person(p)] # "disabled" \/ HeldOver(Person(p))
        /\ Free
        /\ ledger' \in {ledger, ledger \cup {Alert(Person(p))}}
  /\ Go(p, NextPerson(p))
  /\ UNCHANGED <<clock, rows, status, inbox, overlapped>>

Done(p) ==
  /\ Here(p, "next") /\ send[p].alert /\ send[p].todo = {}
  /\ Go(p, Ended)
  /\ UNCHANGED <<clock, rows, status, ledger, inbox, overlapped>>

\* Five seconds of a held database end the send: the flush is outside what _commit
\* retries, or leaves a session that can only be rolled back.
Busy(p) ==
  /\ ~Free
  /\ \/ send[p].pc \in {"open", "sent", "failed"}
     \/ Here(p, "next") /\ (send[p].alert <=> send[p].todo # {})
  /\ Go(p, Ended)
  /\ UNCHANGED <<clock, rows, status, ledger, inbox, overlapped>>

Die(p) ==
  /\ ~Over(p) /\ Go(p, Ended)
  /\ UNCHANGED <<clock, rows, status, ledger, inbox, overlapped>>

Step(p) ==
  \/ Start(p) \/ Open(p) \/ Compose(p)
  \/ Answered(p) \/ Unanswered(p) \/ Refused(p)
  \/ RecordSent(p) \/ RecordClash(p) \/ RecordFailed(p)
  \/ Finish(p) \/ AlertNext(p) \/ Done(p) \/ Busy(p) \/ Die(p)

Next ==
  \/ Wait \/ Save \/ Undo
  \/ \E s \in Signals : Write(s) \/ Repoint(s)
  \/ \E a \in Account : Become(a)
  \/ \E p \in Sends : Step(p)

Spec == Init /\ [][Next]_vars

-----------------------------------------------------------------------------
(* Properties.                                                             *)

MessageType ==
  [to : Account \cup {None}, kind : {"updates", "quiet", "alert", "none"}, keys : SUBSET Signals,
   lead : SUBSET (Signals \X Reading), last : Tick \cup {None},
   watch : SUBSET (Signals \X Reading), prepared : Tick, forced : BOOLEAN,
   news : UNION {[S -> SUBSET Signals] : S \in SUBSET Signals}]

SendType ==
  [pc : {"new", "open", "next", "post", "sent", "failed", "ended"}, now : Tick,
   todo : SUBSET DOMAIN Accounts, force : BOOLEAN, msg : MessageType, tries : 0..Attempts,
   failed : BOOLEAN, alert : BOOLEAN]

TypeOK ==
  /\ clock \in Tick /\ at \in [Signals -> Tick \cup {None}]
  /\ says \in [Signals -> Nat \cup {None}]
  /\ \A s \in Signals : at[s] # None => says[s] \in DOMAIN Readings[s]
  /\ unsaved \subseteq {s \in Signals : at[s] # None}
  /\ status \in [Account -> Statuses]
  /\ send \in [Sends -> SendType]
  /\ ledger \subseteq MessageType /\ inbox \subseteq MessageType /\ overlapped \in BOOLEAN

InHand(m) == \E p \in Sends : send[p].msg = m
\* Delivered, and neither lost by a send that died nor given up as failed.
Accounted(a) == {m \in inbox : m.to = a /\ (m \in ledger \/ InHand(m))}

\* An update reaches a person again only when the message that carried it first left no
\* record: its send died, found the database held, or took lost answers for a failure.
\* Rows folded into one card count as sent together. Two sends that overlap are apart.
RepeatOnlyUnrecorded ==
  overlapped \/ \A a \in Account, s \in Signals :
    Cardinality({m \in Accounted(a) : s \in m.keys}) <= 1

\* One message a person a day, whoever runs the command twice: a second one on a day was
\* asked for with --force, or the first left no record. An alert is no day's message.
OneMessageADay ==
  overlapped \/ \A a \in Account, t \in Tick :
    Cardinality({m \in Accounted(a) : Daily(m) /\ ~m.forced /\ Day(m.prepared) = Day(t)}) <= 1

\* What was delivered under a message's key is its words: they show the best row of each
\* card, and what else a card folds went with them.
Delivered(m) == \E n \in inbox : IdempotencyKey(n) = IdempotencyKey(m)
DeliveredKeys(a) == UNION {m.keys : m \in {m \in inbox \cup ledger : m.to = a /\ Delivered(m)}}

\* The daily messages a person was sent that were prepared after the row's stamp.
Passed(a, s) == {m \in Rows(a) : Daily(m) /\ m.prepared > at[s]}

\* Nothing falls between two messages: once a person's window has moved past a row, it was
\* delivered to her, or a row of the card it was on that day, unless on the day of a message
\* that passed it it was no news, or that was her first message and the row was there a day
\* before. The run's own row, committed before a message is built, is what makes the stamps
\* of others visible; what an article is dated to, and when, may change under it.
NothingFallsBetween ==
  \A a \in Account, s \in Visible :
    Passed(a, s) # {} =>
      \E m \in Passed(a, s) :
        /\ s \in DOMAIN m.news
        /\ \/ m.news[s] = {} \/ m.news[s] \cap DeliveredKeys(a) # {}
           \/ m.last = None /\ at[s] < m.prepared - PerDay
=============================================================================
