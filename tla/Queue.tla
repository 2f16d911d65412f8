------------------------------- MODULE Queue --------------------------------
(***************************************************************************)
(* The queue of pages (tracker/ingest/discover.py) and what a crawl writes *)
(* back to it (tracker/ingest/crawl.py, record_url): the table ingest_url, *)
(* one row an address.                                                     *)
(*                                                                         *)
(* Before a crawl the queue is tidied in one transaction (prepare_queue);  *)
(* the crawl then records one page at a time, a transaction each, and may  *)
(* die between two. What publishers refuse is never listed by hand: it is  *)
(* learned from the rows. Pages are numbered in the order of their rows'   *)
(* ids; the choices a crawl makes among readable pages are left open.      *)
(***************************************************************************)
EXTENDS Naturals, Sequences, FiniteSetsExt, SequencesExt

CONSTANTS
  Pages,          \* the addresses, numbered by row id
  Hosts,          \* publishers
  HostOf,         \* the publisher of each page
  StoryOf,        \* the story each page tells: copies have one headline
  RefusingAfter,  \* pages in a row refused before a publisher is refusing
  RefusingDays,   \* days those refusals fall on
  ProbeEvery,     \* days between two checks of a publisher
  ProbeLimit,     \* checks a crawl makes
  CrawlLimit,     \* pages a crawl reads
  MaxSameFailures,
  Watched,        \* hosts with an entry that can be marked closed (bound)
  Syndicated,     \* pages whose body a feed may bring (bound)
  Ruled,          \* pages a rule of screen.py may come to name (bound)
  Answers,        \* what a publisher may answer (bound)
  Revisited       \* cited pages, listings among them, that are read again (bound)

ASSUME QueueAssumption ==
  /\ Pages \subseteq Nat /\ IsFiniteSet(Pages) /\ HostOf \in [Pages -> Hosts] /\ DOMAIN StoryOf = Pages
  /\ {RefusingAfter, RefusingDays, ProbeEvery, ProbeLimit, CrawlLimit, MaxSameFailures}
       \subseteq Nat \ {0}
  /\ Answers \subseteq {"ok", "thin", "refused", "lost"}
  /\ Watched \subseteq Hosts /\ Ruled \subseteq Pages

VARIABLES
  row,      \* the table: a row a page, or NoRow
  tries,    \* rows whose last try asked the publisher, the latest last, each with the
            \* days to the next one (to today, for the last), ProbeEvery at the most
  cached,   \* pages whose body is on disk
  closed,   \* publishers marked closed and not found open since
  named,    \* pages a rule says no campus story can be in
  cited,    \* pages a campus cites: read and written from
  work      \* what the crawl under way has still to read

vars == <<row, tries, cached, closed, named, cited, work>>
world == <<closed, named>>

\* A row not tried since: the columns nothing reads before its next try are left empty.
Untried(status, error, kept) ==
  [status |-> status, error |-> error, via |-> "none", failures |-> 0, kept |-> kept]
NoRow == Untried("none", "none", 0)

Settled   == {"ok"}                      \* ok, no_project
Retryable == {"fetch_error", "thin"}     \* thin: thin_content, parse_error, llm_error
Tried     == Settled \cup Retryable
KeptHolds == Settled \cup {"discovered"}
Unread    == {"unreadable", "refusing"}  \* DISCARDED_UNREADABLE, DISCARDED_REFUSING

Queued(r) == {p \in Pages : r[p].status = "discovered"}
Aside(r, why) == {p \in Pages : r[p].status = "skipped" /\ r[p].error \in why}

Put(r, ps) ==
  [p \in Pages |-> IF p \notin ps THEN r[p]
                   ELSE Untried("discovered", "none", 0)]
Skip(r, ps, why) ==
  [p \in Pages |-> IF p \notin ps THEN r[p]
                   ELSE Untried("skipped", why[p], 0)]

-----------------------------------------------------------------------------
(* What the rows say of a publisher.                                       *)

Index(p) == {i \in DOMAIN tries : tries[i].page = p}

Min2(a, b) == IF a < b THEN a ELSE b

\* tries without p: the days after p's try count to the one before it.
Without(p) ==
  IF Index(p) = {} THEN tries
  ELSE LET i == CHOOSE i \in Index(p) : TRUE
           joined == IF i = 1 THEN tries
                     ELSE [tries EXCEPT ![i - 1].days = Min2(@ + tries[i].days, ProbeEvery)]
       IN  RemoveAt(joined, i)

\* Days since the i-th try.
Age(i) == MapThenSumSet(LAMBDA j : tries[j].days, i..Len(tries))

\* What a page's last try says about its publisher.
Said(p) ==
  IF row[p].error = "refused" /\ row[p].status \in {"fetch_error", "ok"} THEN "refused"
  ELSE IF row[p].status = "fetch_error" \/ (row[p].status = "ok" /\ row[p].error # "none")
       THEN "nothing" ELSE "read"

TriesOf(h) == {i \in DOMAIN tries : HostOf[tries[i].page] = h}

\* The refusals with no page read since.
Streak(h) ==
  {i \in TriesOf(h) : /\ Said(tries[i].page) = "refused"
                      /\ \A j \in TriesOf(h) : j > i => Said(tries[j].page) # "read"}

Refusing(h) ==
  /\ h \notin closed
  /\ Cardinality(Streak(h)) >= RefusingAfter
  /\ Cardinality({Age(i) : i \in Streak(h)}) >= RefusingDays

\* The weekly check is due: none of its pages asked for in ProbeEvery.
LastAsked(h) == Age(Max(TriesOf(h)))
Due(h) == LastAsked(h) >= ProbeEvery

\* The pages no fetch will read. A run asks once and remembers the answer.
UnreadableNow ==
  LET shut == closed \cup {h \in Hosts : Refusing(h)}
  IN  {p \in Pages \ cached : HostOf[p] \in shut}

-----------------------------------------------------------------------------
(* The steps of prepare_queue: each reads the table the one before wrote.  *)
(* un is UnreadableNow.                                                    *)

Requeue(r, un) == Put(r, Aside(r, Unread) \ un)

Discard(r, un) ==
  Skip(r, Queued(r) \cap un,
       [p \in Pages |-> IF HostOf[p] \in closed THEN "unreadable" ELSE "refusing"])

SetAsideNotNews(r) ==
  LET back == Put(r, Aside(r, {"not news"}) \ named)
  IN  Skip(back, Queued(back) \cap named, [p \in Pages |-> "not news"])

\* The copy of p's story that is kept: one read, else the best one queued.
KeptCopy(r, un, p) ==
  LET same   == {q \in Pages : StoryOf[q] = StoryOf[p]}
      read   == {q \in same : r[q].status \in Settled}
      queued == same \cap Queued(r)
  IN  IF read # {} THEN Min(read)
      ELSE IF queued \ un # {} THEN Min(queued \ un) ELSE Min(queued)

\* Wrong: only a kept copy that failed gives its turn back.
ReturnedFailed(r) ==
  Put(r, {p \in Aside(r, {"same story"}) : r[r[p].kept].status \in Retryable})

Returned(r) == Put(r, {p \in Aside(r, {"same story"}) : r[r[p].kept].status \notin KeptHolds})
DropSameStory(r, un) ==
  [p \in Pages |-> IF r[p].status # "discovered" \/ KeptCopy(r, un, p) = p THEN r[p]
                   ELSE Untried("skipped", "same story", KeptCopy(r, un, p))]

\* Wrong: looks for a page to check among the queued ones only.
ProbesQueued(r) ==
  {Max({p \in Queued(r) : HostOf[p] = h}) :
     h \in {g \in Hosts : Refusing(g) /\ Due(g) /\ \E p \in Queued(r) : HostOf[p] = g}}

\* One page of each publisher whose check is due, the longest unchecked first.
Probes(r) ==
  LET fit(h) == {p \in (Queued(r) \cup Aside(r, {"refusing"})) \ (named \cup cached) : HostOf[p] = h}
      due == {h \in Hosts : Refusing(h) /\ Due(h) /\ fit(h) # {}}
      before(g, h) == Max(TriesOf(g)) < Max(TriesOf(h))
      first == {h \in due : Cardinality({g \in due : before(g, h)}) < ProbeLimit}
  IN  {Max(fit(h)) : h \in first}

-----------------------------------------------------------------------------
(* What a try writes: record_url, and the cache.                           *)

Status(answer) == IF answer \in {"refused", "lost"} THEN "fetch_error" ELSE answer
Error(answer)  == IF answer = "ok" THEN "none" ELSE answer

\* How often it has failed this way, to MaxSameFailures: where the retries stop.
Streaked(r, answer) ==
  IF Status(answer) \notin Retryable THEN 0
  ELSE IF r.status = Status(answer) /\ r.error = Error(answer)
       THEN Min2(r.failures + 1, MaxSameFailures) ELSE 1

\* Wrong: the last try is all a row holds.
RecordedLast(r, answer, via) ==
  [status |-> Status(answer), error |-> Error(answer), via |-> via,
   failures |-> Streaked(r, answer), kept |-> 0]

\* A failed re-read of a page read before keeps what the good read recorded.
Recorded(r, answer, via) ==
  IF Status(answer) \in Retryable /\ r.status \in Settled
  THEN [r EXCEPT !.error = Error(answer)]
  ELSE [status |-> Status(answer), error |-> Error(answer), via |-> via,
        failures |-> Streaked(r, answer), kept |-> 0]

Record(p, answer, via) ==
  /\ row' = [row EXCEPT ![p] = Recorded(@, answer, via)]
  /\ tries' = IF row'[p].via = "net" THEN Append(Without(p), [page |-> p, days |-> 0])
              ELSE Without(p)
  /\ cited' = IF answer = "ok" THEN cited \cup {p} ELSE cited

\* A page is served from the cache, or asked for and, when it came, cached.
Try(p) ==
  \/ /\ p \in cached
     /\ \E answer \in {"ok", "thin"} : Record(p, answer, "cache")
     /\ UNCHANGED cached
  \/ /\ p \notin cached
     /\ \E answer \in Answers :
          /\ Record(p, answer, "net")
          /\ cached' = IF answer \in {"ok", "thin"} THEN cached \cup {p} ELSE cached

-----------------------------------------------------------------------------
(* Finding pages, tidying the queue and reading it.                        *)

Find(p) ==
  /\ row[p].status = "none"
  /\ row' = Put(row, {p})
  /\ \E body \in SUBSET ({p} \cap Syndicated) : cached' = cached \cup body
  /\ UNCHANGED <<tries, cited, work, world>>

\* What pending hands the crawl: the checks first, a page no fetch will read last.
Chosen(r, un, probes) ==
  {w \in SUBSET Queued(r) :
     /\ Cardinality(w) = Min2(CrawlLimit, Cardinality(Queued(r)))
     /\ probes \subseteq w
     /\ (w \ probes) \cap un # {} => Queued(r) \ w \subseteq un}

\* Only the nightly read of the queue makes the checks; sync leaves them to it.
Prepare(probing) ==
  /\ work = {}
  /\ UNCHANGED <<tries, cached, cited, world>>
  /\ \E un \in {UnreadableNow} :
     \E back \in {Requeue(row, un)} :
     \E readable \in {Discard(back, un)} :
     \E news \in {SetAsideNotNews(readable)} :
     \E stories \in {Returned(news)} :
     \E tidy \in {DropSameStory(stories, un)} :
     \E probes \in {IF probing THEN Probes(tidy) ELSE {}} :
       /\ row' = Put(tidy, probes)
       /\ work' \in Chosen(Put(tidy, probes), un, probes)

Read(p) ==
  /\ p \in work
  /\ Try(p)
  /\ work' = work \ {p}
  /\ UNCHANGED world

Die == work # {} /\ work' = {} /\ UNCHANGED <<row, tries, cached, cited, world>>

\* sync --retry-failed.
Retry(p) ==
  /\ work = {}
  /\ row[p].status \in Retryable /\ row[p].failures < MaxSameFailures
  /\ Try(p)
  /\ UNCHANGED <<work, world>>

\* sync's refresh of what a campus cites: no cache, so the publisher is asked.
Refresh(p) ==
  /\ work = {} /\ p \in Revisited \cap cited
  /\ \E answer \in Answers :
       Record(p, answer, "net")
  /\ UNCHANGED <<work, cached, world>>

\* watch.relist: a cited listing is queued again.
Relist(p) ==
  /\ work = {} /\ p \in Revisited \cap cited /\ row[p].status # "discovered"
  /\ row' = Put(row, {p})
  /\ tries' = Without(p)
  /\ UNCHANGED <<cached, cited, work, world>>

\* The operator's own tidying: queue unreadable, aside and duplicates, each with
\* --drop, and queue drop.
Operator ==
  /\ work = {}
  /\ row' \in {Discard(row, UnreadableNow), SetAsideNotNews(row),
               DropSameStory(Returned(row), UnreadableNow)}
                \cup {[row EXCEPT ![p] = NoRow] : p \in Queued(row)}
  /\ UNCHANGED <<tries, cached, cited, work, world>>

NextDay ==
  /\ work = {}
  /\ tries' = IF tries = <<>> THEN tries
              ELSE [tries EXCEPT ![Len(tries)].days = Min2(@ + 1, ProbeEvery)]
  /\ UNCHANGED <<row, cached, cited, work, world>>

-----------------------------------------------------------------------------
(* The world: feeds.toml and the closed publishers' own checks, screen.py  *)
(* and the publishers.                                                     *)

Toggled(set, of) == {(set \ {x}) \cup ({x} \ set) : x \in of}

World ==
  /\ \/ closed' \in Toggled(closed, Watched) /\ UNCHANGED named
     \/ named' \in Toggled(named, Ruled) /\ UNCHANGED closed
  /\ UNCHANGED <<row, tries, cached, cited, work>>

Init ==
  /\ row = [p \in Pages |-> NoRow] /\ tries = <<>> /\ work = {}
  /\ cached = {} /\ cited = {} /\ named = {} /\ closed = {}

Next ==
  \/ \E p \in Pages : Find(p) \/ Read(p) \/ Retry(p) \/ Refresh(p) \/ Relist(p)
  \/ \E probing \in BOOLEAN : Prepare(probing)
  \/ Die \/ Operator \/ NextDay \/ World

Spec == Init /\ [][Next]_vars

\* The queue is read each night and what it chose is read sooner or later.
FairSpec ==
  /\ Spec
  /\ SF_vars(Prepare(TRUE)) /\ SF_vars(\E p \in Pages : Read(p)) /\ SF_vars(NextDay)

-----------------------------------------------------------------------------
(* Properties.                                                             *)

TypeOK ==
  /\ row \in [Pages -> [status : {"none", "discovered", "skipped"} \cup Tried,
                        error : {"none", "unreadable", "refusing", "not news", "same story",
                                 "refused", "lost", "thin"},
                        via : {"none", "net", "cache"}, failures : 0..MaxSameFailures,
                        kept : Pages \cup {0}]]
  /\ cached \cup cited \cup named \cup work \subseteq Pages
  /\ closed \subseteq Hosts
  /\ \A i \in DOMAIN tries : /\ tries[i].days \in 0..ProbeEvery
                             /\ row[tries[i].page].status \in Tried

\* Whenever the queue has been prepared, a story with a copy set aside has a copy
\* that was read or is queued to be.
StoryHeld ==
  \A p \in Aside(row, {"same story"}) :
    \E q \in Pages : StoryOf[q] = StoryOf[p] /\ row[q].status \in KeptHolds
Prepared == \E probing \in BOOLEAN : Prepare(probing)
NoStoryLost == [][Prepared => StoryHeld']_vars

\* A page that was read stops counting as read only when its listing is queued again.
SettledKept ==
  [][\A p \in Pages : row[p].status \in Settled =>
        row'[p].status \in Settled \/ row'[p].status = "discovered"]_vars

\* A page set aside because its publisher refused is asked for or comes back, unless
\* the publisher goes on failing us, is marked closed, or a rule names the page.
HeldBack(p, why) == row[p].status = "skipped" /\ row[p].error \in why
Excused(p) == HostOf[p] \in closed \/ p \in named
Fails(h) == \E p \in Pages : /\ HostOf[p] = h /\ row'[p].error \in {"refused", "lost"}
                             /\ tries' # tries
ComesBack(why) ==
  \A p \in Pages :
    \/ []<><<Fails(HostOf[p])>>_vars
    \/ HeldBack(p, why) ~> (~HeldBack(p, why) \/ Excused(p))
RefusedComesBack == ComesBack({"refusing"})

=============================================================================
