# A verification of dc-tracker

`dc-tracker` keeps one SQLite file of United States data-center projects, built from
articles, filings and hand-made records, and corrected every night by a loop of paid and
free passes. This directory holds TLA+ modules of the parts of it where order,
concurrency, crashes and budgets decide whether the data stays right; TLC configurations
that check them on small instances; and proofs, checked by TLAPS, of what must hold for
every instance. Each module is written from the source it names, and `PROJECT.json` maps
every definition to its lines.

## 1. Inventory

One process runs one command. What is shared between processes is the file system: the
database, its write lock, the night's lock directory, snapshots, ledgers and logs. Inside
a process the concurrency is a thread pool for slow calls (`parallel.map_ordered`) and, in
the console, a thread per request and one per running command.

### 1.1 The database and who may write it

| component | state | operations | what is hard, and what makes it right |
|---|---|---|---|
| write lock (`tracker/db.py` 425-843, `tracker/cli/lock.py`) | a lock file beside the database, a guard file with an OS lock, warnings on disk | claim, release, reclaim of a dead holder's lock, `lock break` with or without `--force` / `--stop-process` | two commands, crashes at any point, reused pids, a person breaking the lock: one owner at a time, nobody removes a live owner's lock, every claim ends |
| migrations (`tracker/db.py` 298-422) | `schema_version`, the schema | `init_db`: list pending files, apply each in one transaction after looking again | two processes starting at once, a crash inside a migration: each file is applied once, in order, whole |
| snapshots (`tracker/db.py` 946-998) | dated copies made by `VACUUM INTO` | take, verify, prune | a crash half way through the copy; a copy that is no database |
| sync (`scripts/sync_db.py`) | two databases on two machines | pull, push a whole file | the far end changed in between; a push that would lose rows |

### 1.2 How a row is made and kept

| component | state | operations | what is hard, and what makes it right |
|---|---|---|---|
| write path (`upsert.py`, `normalize.py`, `vocab.py`, `confidence.py`) | claims per source and field, the stored value of each field | upsert, recompute | the order articles arrive in must not decide the value; a locked value is kept; a source withdrawn takes its claims along |
| identity (`dedup.py`, `keys.py`, `merge.py`, `dupresolve.py`, `gatekeeper.py`, `pairs.py`, `mixed.py`, `exclude.py`) | dedup keys, aliases, pairs ruled apart, excluded keys | match, merge, split, exclude | a merge moves every child row; a row merged away or excluded must not come back |
| statements (`facts.py`) | `fact`, a cache of every statement | follow, settle on each commit | the cache never differs from what it is made from |
| invariants (`invariants.py`) | a tally | check, enforce | relations held at write time, others only reported |
| structure (`blocks.py`, `blockcheck.py`, `nesting.py`, `parties.py`, `companies.py`, `tracks.py`, `capex.py`, `supply.py`, `delays.py`, `compute.py`) | blocks, roles, companies | derive, rule, undo | sums that count a tranche twice |
| losses (`losses.py`, `changes.py`) | a snapshot and the database now | find values lost without a ruling, put them back | a value put back against a ruling |
| labels and suspicion (`labels.py`, `training.py`, `suspect.py`, `suspect_transformer.py`) | training labels, scores | record, score | read-only for the data |
| reports (`export.py`, `quality.py`, `clean.py`, `gaps.py`, `funnel.py`, `sources.py`, `policy.py`, `required.py`, `roster.py`, `answer_key.py`, `answer_apply.py`, `overview.py`) | none, or a file | read, count, print | determinism |

### 1.3 How news comes in

| component | state | operations | what is hard, and what makes it right |
|---|---|---|---|
| discovery (`ingest/discover.py`, `search.py`, `watch.py`, `probe.py`, `wiki.py`, `headlines.py`, `screen.py`) | `ingest_url` queue: status, failures, who read it | find, queue, set aside | a page queued twice; a page that fails for ever; a status that never leaves the queue |
| crawl (`ingest/crawl.py`, `fetch.py`) | queue rows, sources | fetch a batch, extract, gate on evidence, write in order | a page fetched and paid for but not written; one page of several failing |
| other readers (`ingest/edgar.py`, `pjm.py`, `manual.py`, `enrich.py`, `geo.py`, `records.py`, `iso_maps.py`, `desk.py`, `robots.py`, `point.py`, `prospect.py`, `gapfill.py`, `backfill.py`, `dates.py`) | sources and claims | read, write through upsert | the same record read twice |
| concurrency (`parallel.py`) | a pool and its queue of futures | `map_ordered` | results in order, none that was paid for lost, nothing started once the queue is cancelled |

### 1.4 Paid judgement

| component | state | operations | what is hard, and what makes it right |
|---|---|---|---|
| model access (`llm.py`, `agent.py`, `judged.py`, `infer.py`, `triage.py`, `conflicts.py`, `audit.py`, `logic.py`, `riskcheck.py`) | conversations, prompt versions | call, retry, parse | an answer paid for and lost; a conversation without an end |
| spend (`spend.py`, `runlog.py`) | one ledger file per night, appended by every child | record, tally, allowance, ceiling | calls in flight when the ceiling is read |
| memory of failures (`attempts.py`, `declines.py`) | notes per row and question | remember, expire when the evidence changes | a note that outlives its reason hides a field for ever |

### 1.5 The night

| component | state | operations | what is hard, and what makes it right |
|---|---|---|---|
| night lock (`scripts/overnight.sh`) | a lock directory with a pid | take, take over, drop on exit; wait for the deployer | see section 3.2 |
| loop (`tracker/overnight.py`) | counts, the running minimum, rounds, what was spent | start, rounds, steps, fallback, end | the ceiling, a director that fails, a phase that fails, a stop by signal: the night ends, settles what it changed and reports |
| referee and menu (`night/referee.py`, `night/steps.py`) | what ran tonight | review a plan, order it, gates, floors | a proposal is cut to what is allowed, put in a legal order, and the floor of the round is kept |
| director (`night/director.py`, `briefing.py`) | one conversation a night | check in, look things up, fold, fail | turns and lookups are bounded; two bad answers end it |
| guard and record (`night/guard.py`, `record.py`, `loopstatus.py`) | accuracy counts, one line per step | compare, write, draw | counts taken at different times |

### 1.6 The console and its readers

| component | state | operations | what is hard, and what makes it right |
|---|---|---|---|
| runner (`webui/runner.py`, `runs.py`, `catalog.py`) | one slot, one child process, a run file | start, stream, cancel, time out, close | cancel racing the end of the process and the next start |
| HTTP (`webui/server.py`, `reads.py`, `query.py`, `dataset.py`, `publicapi.py`, `assets.py`, `article.py`, `docsite.py`, `mapsummary.py`, `statussite.py`) | an engine, a cache | serve reads | a cached answer that is stale after a commit |
| sign-in (`webui/auth.py`, `accounts.py`, `apikeys.py`, `account_mail.py`, `account_notice.py`) | accounts, invites, reset links, sessions, keys, counters of attempts | sign in, invite, sign up, reset, revoke | a link used twice; a session of an account that was switched off |
| mail (`notify.py`, `feed.py`, `watchlist.py`, `watchfor.py`) | watches, a ledger of what was sent | build, send, mark | one message a day, nothing twice and nothing left out, whatever fails between sending and recording |
| tunnel (`webui/tunnel.py`) | a child process | start, watch, stop | a tunnel that dies |
| terminal views (`tui/`, `theme.py`, `cli/`) | a snapshot of the data | read, draw, call the above | none of its own |
| tests on the host (`scripts/remote_suite.*`) | one checkout on one host, a lock | start, follow, collect | two suites at once |

## 2. Plan

In order of what a mistake would cost.

1. `WriteLock`, with `ExclusiveLock` as what it promises: every writing command rests on it. **Done**, refinement and mutual exclusion proved.
2. `NightLock`: which night runs, and never beside a deploy. **Done.**
3. `Referee` and `Night`: what a round may run, the ceiling, the fallback, the end of the night. **Done** (the conversation inside a check-in is `Director`).
4. `MapOrdered`: the pool every paid pass runs its calls through. **Done.**
5. `Runner`: the console's one slot, cancelling, the index of runs, the pumps. **Done.**
6. `Migrate`, with `SchemaLedger` as what it promises: migrations from several processes, with crashes. **Done.**
7. `Claims` and `Campus`: the merge engine and everything that writes one campus. **Done** for the five fields whose policies differ.
8. `Identity`: which campus a record lands on, through merges, exclusions and renamings. **Done.**
9. `Facts`: the stored statements beside the rows they are made from. **Done.**
10. `Queue`: the pages, what their publishers answer, what is set aside and what comes back. **Done.**
11. `Mail`: the morning's message and the ledger of what was sent. **Done.**
12. Left: `Director` (the bounds of one check-in), `Accounts` (links used once, sessions of an account switched off), `sync_db.py`, `attempts.py` and `declines.py`.

Abstract specifications worth stating: the exclusive lock and the ledger of migrations (done);
for the night a budgeted sequence of steps that ends with a report; for the pool the `for` loop
it replaces; for the statement cache a view that is always fresh.

Proved (section 5): of every module that has state, each safety property its run checks; and the
refinements of the exclusive lock and the ledger of migrations. What is left to TLC is liveness.

## 3. The modules

| module | models | how |
|---|---|---|
| `ExclusiveLock` | what the write lock promises | abstract |
| `WriteLock` | `tracker/db.py` 428-843, `tracker/cli/lock.py` 109-259 | one action per system call |
| `NightLock` | `scripts/overnight.sh`, and the deployer (external) | one action per shell command that touches the directory |
| `Referee` | `tracker/night/referee.py`, `tracker/night/steps.py` | operators, no state |
| `Night` | `tracker/overnight.py` 930-1395, over `Referee` | one action per step, check-in and way to end |
| `MapOrdered` | `tracker/parallel.py`, with `spend.ceiling_reached` as the crawl passes it | one action per cancelled future, call and yield |
| `Runner` | `tracker/webui/runner.py`, `runs.py`, the pump of `tui/commands.py` | one action per read or write of what threads share |
| `SchemaLedger` | what the migrations promise | abstract |
| `Migrate` | `tracker/db.py` 205-422 | one action per transaction boundary and statement |
| `Claims` | the merge engine of `tracker/upsert.py` | operators, no state |
| `Campus` | `upsert.py`, `conflicts.py`, `blocks.py`, `losses.py`, over `Claims` | one action per transaction |
| `Identity` | `dedup.py`, `keys.py`, `merge.py`, `exclude.py`, `companies.py` and the routing of `upsert.py` | one action per transaction |
| `Facts` | `tracker/facts.py` | one action per flush, rebuild, read and end of a transaction |
| `Queue` | `ingest/discover.py`, `record_url` of `ingest/crawl.py`, `watch.relist` | one action per transaction |
| `Mail` | `notify.py`, `feed.py`, `cli/people.py` 1449-1530 | one action per commit, post and answer of a send |
| `..._proofs` | theorems about the module named, `Night_proofs` about `NightLock` too; `Work_proofs` about `Queue`, `MapOrdered` and `Runner` | section 5 |
| `MC...` | the small instances | constants only |

Every module that models code also holds, beside a definition, the wrong variants of it that
a plausible bug would make ("Wrong:"). No `Next` uses them. Each property of a passing run is
violated by one of them, so each depends on the code it is about.

What joins the modules: `Night` runs its steps under the lock of `NightLock`, and each writing
step takes the one of `WriteLock`; a crawl takes pages from `Queue`, reads them through
`MapOrdered`, asks `Identity` for a campus and writes to `Campus`, which ends in a `Facts`
rebuild. Each of these boundaries is one call whose effect on the other side is an input there:
`Night`'s steps mark rows dirty, `Identity` takes any record, `Campus` any reading, `Queue` any
answer. They share no state but the database, and the database lets one write through at a time.

### 3.1 `WriteLock` and `ExclusiveLock`

`WriteLock` models `acquire_write_lock`, `_claim`, `_reclaim`, `_reclaim_guard`, `release`,
`break_write_lock` and `stop_lock_holder` of `tracker/db.py`, and `break_cmd` of
`tracker/cli/lock.py`, one action per system call: between any two of them another process
may run, die, or come back under the same pid. Its state is the lock file (who created it,
whether its text is written, whether an unwritten one is older than the ten seconds' grace),
the holder of the guard, where each process and each break is, the incarnation of each pid,
the text a claimant last read, the two inspections of a break and the warnings on disk.
A command takes the lock once in its life, so `<<pid, incarnation>>` stands for the text.

| parameter | what it decides | where it matters |
|---|---|---|
| `Pid`, `MaxGen` | processes, and how often a pid is reused | three pids are a dead holder and two reclaimers, or a holder, a reclaimer and a newcomer; that a pid used again changes nothing is left to the theorem `OneOwner`, since with a break beside it the instance has too many states |
| `Breaker`, `Flags` | breaks and their flags | one break beside two claimants is the least that can take a lock from one for another |
| `CrashInGap` | whether a command may die between create and write | leaves an empty lock |
| `Windows` | whether a busy file refuses to open, read or go | POSIX never does |
| `SlowStat` | whether a process may be stopped between reading an empty lock and looking at its age | section 6 |
| `OtherUser` | processes `kill(pid, 0)` may not reach | section 6 |

`ExclusiveLock` is what the file stands for: an owner, and perhaps a lock lying about without
one. `ImplementsLock` maps the file protocol to it: a command becomes owner only when nothing
is there, and what a dead command left is removed first.

| run | question | instance |
|---|---|---|
| `lock_break` | `MutualExclusion`: never two owners, whatever is interleaved, killed and reclaimed; `OwnedLockLeftAlone`: no reclaim and no plain or `--stop-process` break takes a running owner's lock; `ImplementsLock` | three pids, one incarnation each, one break, plain or stopping, POSIX (330,000 states under symmetry) |
| `lock_live` | `CommandsEnd`: every claim and every break ends | two pids, a forced break, deaths between create and write, slow processes, refusals |

`lock_break` has no death between create and write and no refused delete, because a break beside
an abandoned empty lock does go wrong (section 4); without a break the theorem `OneOwner` covers
both, and `lock_live` has them.

Fairness: a running process is scheduled (`WF` of its steps, `WF` of coming round again), and
a claim that sleeps again and again finds its deadline passed (`SF` of `GiveUp`: the wait
checks a monotonic clock each time, and time goes on while the process does not see it).
Nothing makes a person start a break or a process die.

### 3.2 `NightLock`

`NightLock` models `take_lock`, `lock_holder`, `wait_for_deploy`, `run_night` and the EXIT trap
of `scripts/overnight.sh`, and the deployer as the script describes it (external: it is not in
the repository). The directory and the pid in it are one variable; every shell command that
touches the directory is one action, and so are the two of a look at a lock, `cat pid` (126,
`ReadPid`) and `ps` (129, `AskPs`): between them the holder may end and another start may take the
lock. A run may be killed outright (`Kill`), or its shell alone (`KillShell`), which leaves the loop
it runs in the background (201) going as an `orphan` under a lock whose pid is nobody's; both
together at most `MaxKills` times. Told to stop, it runs its trap (`Interrupt`). `Hangs` says
whether a deployer may outlast the half hour a night waits for it. `robbed` is history: a takeover
has removed another lock than the one whose pid it read.

Run `night_lock`, with three starts and two kills (10,929 states):

* `OneHolder`: one run holds the lock, the directory names it, and nights run one at a time, but
  beside the loop of a killed shell; until a takeover robs, which takes three starts.
* `NeverBoth`: until then, the night of a live shell never runs beside a deploy.
* `StartsAgain`: a lock left behind with a pid in it refuses no later start.

Three starts are the least with which a takeover can rob (section 4): two that judged the lock
of a dead one, or, with no kill, one that read the pid of a holder which ends before it is asked
for and whose place a third takes. Both happen in the instance, so what the properties say is that
nothing else goes wrong. The deployer hanging past the wait is allowed by the script on purpose ("a
night that never starts is worse"), so `NeverBoth` is checked with `Hangs = FALSE`. `StartsAgain`
leaves out the directory without a pid: `lock_holder` takes it for a run that is starting however
old it is, so a run killed between `mkdir` and `echo` leaves a lock that somebody has to remove by
hand. Fairness: a live shell runs on, a night's hours run out and its wait is bounded.

### 3.3 `Referee` and `Night`

`Referee` holds the rules as operators on plans: a step is a kind, a size and whether it takes
fresh rows only; `Review` trims each step of a plan to what its kind, its gates and the night's
allowance permit, adds the floors of round 1, and sorts. The fixed round and its baseline are
there too. Budgets, efforts, notes and the naming of rows are left out: they decide what a step
costs or reads, not whether it runs.

`Night` is `Night.main` and what it calls: the snapshot and the first count, then rounds. A
directed round plans, runs the frame (news, twins, free) and then the pending steps one by one,
checking in after every three and when the plan is used up; a check-in brings a new plan, a
stop, or a failure that hands the night to the fixed schedule (`Fallback`), less what has run.
Every paid step asks for the ceiling first. A count, a snapshot or the loop itself may fail. At
the end come the settle a ceiling makes necessary, the losses and the report. The ledger is one
flag that any paid call may set (`over`); counts are reduced to whether a round lowered one
(`stale`); what a step changed and nobody re-derived is `dirty`.

Run `night_director`: two rounds, five kinds turned on, every plan of up to two of five wishes
at every check-in, at most seven steps.

* `OncePerNight`: whoever chooses and whatever fails, no enrich pass that picks its own rows runs
  three times, and news and twins run once a night, with a director failing in between or not.
* `PlanKept`: while the director chooses, re-planning does not creep past the allowance (where it
  has room for a floor made up by a step of the least size, `Roomy`; section 4), what is pending
  stays in a legal order, and past round 1 every floor has been run.
* `StepsHonoured`: a second enrich pass takes fresh rows only; once the director stopped, only
  frame and floor steps run.
* `SettledReport`: a night no failure ended reports on settled rows only. (One that a failure ended
  does not: section 4.)
* `NightEnds`: no director can plan on for ever.

The instance is chosen so that limits bite: two wishes for the whole duplicate allowance exceed
it, a wish for five tranches is below its floor, two full enrich passes meet the limit of one
and a half, and a second news step is refused. `MaxSteps` is the code's constant cut to seven,
enough for two check-ins of three steps and the limit itself. The fixed schedule appears as what
a failed director leaves; a night that never had a director is not a run of its own. Fairness
(`NightEnds` only): weak fairness of the loop's own step; the director's answers, failures
and the money are free. The loop puts no timeout on a step's command, so that a command ends
is an assumption: its own calls to the network and the model have timeouts.

### 3.4 `MapOrdered`

`map_ordered` submits every item at once to an executor of `limit` threads and yields results in
input order, asking `stop` before each. The state is the future of each item, where the
generator is, the item it is at, and what the caller has been given. Cancelling is one action
per future, because workers go on taking items between two cancels (an item can be cancelled and
a later one started). With `limit <= 1` or one item there is no executor and the same
actions are the serial loop. `stop` is the crawl's: the spend ceiling, reached when `ceiling`
calls have ended, at one unit a call. The executor is external: a free worker takes the first
item not taken, and shutting down waits for calls in flight. The caller writes the result and
comes back, or breaks, raises or is interrupted (`Abandon`), which closes the generator.

Run `map_pool`: one to four items, limits 0 to 3, ceilings 0 to 5, two calls that may raise, a
caller that may leave. `NothingPaidIsLost`: every result that came before the end was given to
the caller; `NothingStartsOnceOver`: once the queue is cancelled no call starts; `Ends`. Four
items on three workers leave one queued while all are busy; ceilings 0 and 5 are the
night whose money is gone before it starts and the one that never runs out. Fairness: the
generator and the caller's body run on, and calls end (the client has a timeout).

### 3.5 `Runner`

`Runner` models the command pane: `start` and `cancel` on the interface's thread, `_execute` and
`_close` on a thread per run, the child, the pump that drains a run's queue into the pane, and
`runs.record`. `_current`, `_process` and a run's status are shared and, but for `start`, read
and written without the lock; so `cancel` is two actions (what it read, what it did), `_close`
is two (the status it judged by, the status it wrote) and `record` is two, held together by
`runs._lock` (`recording`). A listener's queue holds `QueueMax` events and drops the rest. Files
may fail: `runs.begin` raises after the slot was taken (`Start`, 104), and the run then holds it with
neither a thread nor a pump; an index that cannot be read counts as empty; one that cannot be written
ends the run's thread where it is (`died`). SIGTERM is not what ends a child: it may go on as long as
it likes, closing its output or not (neither `ChildCloses` nor `ChildEnds` is fair).

Run `runner_slot` (292,107 states): two runs, so that a cancelled one and its successor overlap; a
queue of two and one line, so that the end of a run may find the queue full. The index keeps the
newest `IndexLimit` runs (200 in the code, two here, so that a lost record cannot pass for one that
was dropped for its age).

* `OverlapWasCancelled`: a child that lives beside the slot's run is one that was cancelled;
  the slot alone never lets two commands write.
* `RunsRecorded`: a run whose end is announced is in the index, unless an index at its limit dropped
  it or the index could once not be read after it (`unread`), and a run in the index has no child.
* `AllEnd`: every run that took the slot gives it back and its thread ends, and every pump ends,
  though its end may have been dropped, sent before it listened, or never sent. Two things alone hold
  the slot for ever: a child that holds its output open, because the timeout starts only after it has
  closed it (175), and a start whose log could not be made (section 4).

Fairness: the threads are scheduled and a cancel that has begun goes on. The operator and the
children owe nothing: a child that closes its output and never exits is killed, and `AllEnd` says so.

### 3.6 `Claims` and `Campus`

`Claims` is the merge engine as operators: `Ranked` (the sequence of a field's claims in order of
ruled out, quoted, whole site, first-hand, stale, weight, recency, page), `Contenders`, a resolver
per policy (`prefer_weight`, `max`, `min` with the refinement of dates, the ladder of phases with
stops and restarts, `fill_only`), the kilowatt misreads held out, and `SettleCapacity`. All but
`Ranked` work on places in the ranked sequence, so that "the strongest of those left" is the least
place of a set. A claim is a record of what the engine
looks at; values are small numbers; the calendar has years of `YearDays` days.

`Campus` keeps the citations of one campus (claims with their rulings, at most one tranche, the
ruling on that), the order they were fetched in, the row derived from them and a night's
snapshot. An operation is one transaction that ends with `Recompute`: a reading or re-reading of
a page, a second record of the reading under way, a merge that brings another copy of a page, a
ruling on a claim (`Supersede`) or on a page's tranches (`RuleOut`), the snapshot and the restore
of what was lost. A write that would break running <= planned is rolled back, where the code
enforces it.

Run `campus_held`: four operations over a newspaper, two pages of one wire service (one of which
repeats less when it is read again) and a directory, with a stopped and a restarted phase, a year and a half-year date, a
figure a thousand times too large, one for a single building, one that is a minimum, tranches
planned and serving.

* `Derived`: every value is stated by a claim nobody ruled out or by the tranches that may fill
  it, and deriving the row again changes nothing, whatever order the articles came in.
* `RunningWithinStatedPlan`: where a claim that counts (not ruled out, not held out as kilowatts)
  states a plan, running does not exceed the campus's, through paths that enforce it and paths
  that do not.
* `OneReportRestartsNothing`: a campus reported stopped goes on only by two publishers or a
  tranche.
* `WeakNeverDisplaces`: a page without quotes or at second hand moves no value that a quoted
  first-hand report of the whole site states; a plan, as long as no quoted first-hand report disputes
  it (section 4).
* `RulingStands`: a ruling on a claim stands as long as the citation makes the claim.
* `NothingLostQuietly`: a re-read that repeats less takes nothing quoted away while the article
  still says it.

Four operations are a reading, a ruling, a second page and a re-read or a restore, the longest
chain in which one of the five fields depends on another operation. Left out: fields whose policy is one of those
modelled, events, obstacles, parties and notes, more than one tranche a page, whether a ruling
on tranches outlives a re-read.

### 3.7 `Identity`

`Identity` keeps the campuses with the key each was born with, the keys remembered
(`project_alias`), the keys of campuses taken out (`excluded_key`) and whether a second spelling
of the company is ruled to be the first. A key is a company and a place: the town if the record
has one, else the county. Actions: `Ingest` (a caller's route, the stored key, the alias, the
exclusion, the arbiter's verdict, the insert), `Merge`, `Exclude`, `Lift`, `Sync` and
`FoldCompany`. `known`, `out` and `lifted` are history: keys that have led an article to a
campus, names of campuses taken out, keys lifted.

Run `identity_names`: a county and a town of it, two spellings of one company, three rows.

* `NamesAnswer`: an article that a key has led to a campus never makes a second one: the key it
  computes today (`Renormalise`: the same place under the spelling the rules know now) reaches a row
  or is refused. Where that is another key than it came with, it is so from the next `sync` on, which
  is the promise of `keys.py` 104; and one case is excepted by name, because the code does break it:
  a row born under the old spelling that has learned its town since (`Moved`; section 4).
* `NotRedirected`: which campus a key reaches changes only by a merge of that campus, by taking
  it out, or by an insert the operator forced.
* `PagesKept`: but for the rows taken out, every page cited stays cited.
* `StaysOut`: a campus taken out is not created again, under its town or county, under either
  spelling, until a key of its own is lifted.

Three rows are two spellings of one campus and a third that takes a name of theirs. Left out:
how alike two names are (the arbiter's verdict is any candidate), `remove_alias`, milestones,
obstacles and watches a merge moves. The key a town fills in later is remembered at the next
write or sync, as in the code; `known` has the keys articles came with, and the properties ask for
what the same article computes today.

### 3.8 `Queue`

`Queue` keeps a row a page of `ingest_url` (status, error, how it was asked for, failures in a
row, the page kept instead of it), the tries of each publisher with the days between them, the
pages cached and cited, the publishers marked closed, the pages a rule names, and what the crawl
under way has still to read. `Prepare` is `prepare_queue` and `pending` in one transaction:
requeue what is readable again, discard what is not, set aside what is not news, give back the
copies whose kept page failed, drop copies, add the weekly probes, choose. `Read` records a page
(`record_url`), `Retry` and `Refresh` ask again, `Relist` queues a listing again, `Operator`
makes the tidying by hand; `World` closes or opens a publisher and adds or drops a rule. The
destructive state (what is left to do) is a variable; what the properties say about the past
they read off the rows. Days count to `ProbeEvery`, where they stop mattering.

Run `queue_pages`: three pages of one publisher, the last two of one story, one of them cached
from a feed, ruled on and revisited; a publisher refuses after two refusals on two days.

* `NoStoryLost`: whenever the queue has been prepared, a story with a copy set aside has a copy
  that was read or is queued to be.
* `SettledKept`: a page that was read stops counting as read only when its listing is queued
  again.
* `RefusedComesBack`: a page set aside because its publisher refused is asked for or comes back,
  unless the publisher goes on failing, is marked closed, or a rule names the page.

Fairness: the queue is read each night and what it chose is read (strong, since `World` and
`Operator` may disable it for a moment), and days pass. Left out: finding and screening pages, a
page in another language, a page whose outcome is to be decided by a person, the order among
readable pages, the back-off of the refresh (`Refresh` may come at any time, for the pages in
`Revisited`); the answer "lost" is modelled and not in the instance.

### 3.9 `Migrate` and `SchemaLedger`

`Migrate` models `run_migrations` and `_apply` as several processes run them at once, each with a
checkout of its own: what was applied as it looked, the next pending version with foreign keys
turned off where the file asks, `BEGIN IMMEDIATE` with its wait, the second look, each statement,
the version row, and a failure or a death anywhere. A checkout may be older, or hold another text
of a version. `SchemaLedger` is what whoever opens the database may rely on: the schema is at some
version and goes up one whole version at a time.

Run `migrate_race`: three processes, one a version behind and one with another text of the second
version, two statements each, the second version a rebuild, four starts.

* `Whole`: the database holds every statement of every recorded version, once and in order, and
  nothing of any other; and whoever writes runs a migration no one has recorded, with foreign keys
  as it asks.
* `ImplementsLedger`; `EndsAll`: every start ends, done or not.

Two statements are the least that can be half done; with three versions and four starts a process
can wait for one, find the next applied too, and be started again after it died. What the
statements do, and the steps in Python that some migrations run, is left out. Fairness: a process
that lives goes on.

### 3.10 `Facts`

`Facts` is the cache of statements as one session keeps it: the rows as the session's objects
have them, as flushed and as committed, with the stored statements of each; the marks and what
was read ahead, which live in `session.info` and so outside every rollback; an open savepoint. A
writer edits objects; a flush marks the campuses it touched, where a citation is and where it
was; `Rebuild`, `Preload`, `Read`, `Commit`, `Rollback` and the three ends of a savepoint are the
code's. A citation is one value that it claims, and a statement says whether the campus holds it.

Run `facts_session`: two campuses, one citation that moves between them, two values, three edits
a transaction.

* `Agrees`: what is committed is exactly the statements of what is committed.
* `StaleIsMarked`: in a transaction a campus whose stored statements are not those of its flushed
  rows is marked.
* `ReaderSeesTheWrite`: who asks in a transaction is told what its flushed writes say.

Two campuses are what a citation needs to move between; a second citation would only be a second
input of the same kind. A savepoint is opened only where nothing waits to be rebuilt, which is
what its two callers do (`SavepointAnytime = FALSE`); with `TRUE` the second and the third fail, because the
marks a rebuild takes off do not come back with the savepoint (`facts.py` 459). Left out: the
collections of citations a session has already loaded (taken to be fresh), ids used again, a
campus deleted by the database alone, an input deleted while it is still in its campus's collection.
That one would mark nothing, since `_campuses_changed` asks for `state.deleted` (645) before the
session has set it; every caller takes the input out of the collection first (`merge.py` 153,
`backfill.py` 997, `logic.py` 1669), and so does `Move`.

### 3.11 `Mail`

`Mail` is `tracker notify send`. A send notes the time, commits a row of its own, lists the
accounts, and for each builds a message from what the rows say today (`Digest`, `Cards`, `Best`,
`Owed`: the report date, the window, what is only recalled or scheduled, cards of rows that say the
same), posts it up to `Attempts` times under a key made of the person, the day and the words, and
commits the record of it before the next person; then its counts, and an alert to administrators
when something went wrong. A send may die before any step. Around it: a clock of half-days; a
command that stamps rows in a transaction which holds the database until it is saved or undone
(`Write`, `Save`, `Undo`), during which a send waits or gives up (`Busy`); a merge or a re-read that
gives a row another article, with another date or weight, and leaves its stamp (`Repoint`, through
the `Readings` of the row); accounts that are disabled or follow something else (`Become`). The
service delivers a key once, and its answer may be lost (`Unanswered`) or be a refusal.

There are two calendars, as in the code: a send's day is local (`Day`, `Zone` ticks ahead of UTC),
while the day a row was stored on is the UTC date of its stamp (`StoredOn`), which is what
`reported_on` and the test for a schedule compare the local day with. So a row may be stored on a
day the mailer has not reached, be cited from an article dated ahead, or be re-pointed to one, and
drop out of what is news and come back.

Run `mail_day`: two sends, one account that is also the administrator, three local days of two
ticks in a zone half a day behind UTC, two attempts, and two rows of one story: one from an article
without a date, and one reported long before it is stored, which only "stored since the last
message" admits, or cited from, or re-pointed to, an article dated ahead (1,990,040 states).

* `RepeatOnlyUnrecorded`: an update is delivered to a person in two messages only when the first
  left no record: its send died, found the database held, or took lost answers for a failure. A
  card folds rows, and any row of it that was sent counts.
* `OneMessageADay`: the same of a day's message, but for one asked for with `--force`.
* `NothingFallsBetween`: once a message recorded for a person is prepared after a row's stamp, one of
  the messages that passed the row knew of it, and on that day it was no news, or it or a row of its
  card was delivered to her, or that was her first message and the row was more than a day old. It
  rests on the order of three things: the time, the run's own commit, which waits for whoever is
  writing, and the digest. What was delivered under a message's key is its words: a row that joins a
  card between a delivery without a record and the send that repeats it is recorded as sent, and no
  words were ever its own.

What a row was worth on the day a message was prepared is kept in the message (`news`, history):
asked again later, it may have another answer. The property does not say that a row which was no
news when it was passed is sent when it becomes news: it is then owed only while it was reported
within `CATCH_UP_DAYS`, and the instance has one that never is (section 4).

The first two leave out sends that overlap (`overlapped`): nothing keeps two apart, and then each
may deliver (section 4). `CatchUp` is one day here and two weeks in the code: the shorter it is, the
more the window alone decides, which is the harder case. Bounds: a send or a transaction sees one
tick at most; `--force` is used once there has been a message; each send is a process used once, and
nothing is written once both have ended (`Left`); a row goes through its `Readings` in order, each
in a transaction of its own; the crawler has not gone quiet (`Quiet = {FALSE}`), so only a failed
message brings an alert. Two sends over four ticks reach each order of send, row and day; a second
account would share only the database, and a death between two people is a death between two sends.
What an account follows is one status; unconfirmed rows (and one confirmed later), the rows of failed
messages, which are only shown, and the wording are left out; the service's memory of a key (a day)
has no end; the rows an open session may still hold from the person before are taken as read afresh,
which only rows stamped after the send began could tell apart. A closed obstacle is stamped a moment
before its transaction takes the database (`logic.py` 1829); here the two are one step.

## 4. Findings

Where the code does other than the repository says. None is a run of its own: the runs state what
does hold, and leave these out where the module's section says so. The ones a hazard is about are
listed there too.

| where | what is said | what happens |
|---|---|---|
| `db.py` 762 | 749: a lock that changed hands in between is never the one deleted | an empty lock inspected as abandoned looks the same to a break as the empty one a new command has just created (`CrashInGap` with a break, three pids) |
| `cli/lock.py` 255 | 223: a lock that changed hands is warned about anew | `break_cmd` and `break_write_lock` inspect separately, and a forced break acts on the second with the warning of the first |
| `overnight.sh` 145 | 115: one at a time | reading a lock's pid (126), asking for the process (129) and removing the lock are three steps; with three starts the second of two takeovers removes the first's new lock, and with no kill at all a start that read the pid of a holder which then ends removes the lock a third has taken meanwhile: two nights, a lock that names one of them or none (`OneHolder` without `robbed` fails) |
| `overnight.sh` 201 | 115: one at a time | the loop is a background child of the shell: a shell killed alone (SIGKILL, no trap) leaves it running under a lock whose pid is nobody's, and the next start takes that over and runs a second night beside it |
| `overnight.py` 1095 | 1090: a bug in the loop must cost the rounds left, not the settle and the report | the settle after the rounds runs only when a ceiling ended them; after a failure in mid-round the losses and the report go out on rows nobody re-derived (`SettledReport` without `~failed` fails) |
| `overnight.py` 1384 | `docs/loop-director.md` 76: the director may not change a floor | a stop keeps the steps the referee added; the part of a floor the director had planned itself is dropped |
| `referee.py` 345 | 17: a kind's units across the night may not pass one and a half times what fixed nights ask | a floor that is left short is made up by a step of at least its kind's smallest size, unlike a wish past the allowance, which is cut: with a baseline of 16 (allowance 24), 15 duplicates asked for and a floor step of 10, 25 (`AllowanceKept` without `Roomy` fails) |
| `referee.py` 342 | `docs/loop-director.md` 87: once a night | a once-a-night kind planned below its floor gets a second step for the rest |
| `parallel.py` 105 | `spend.py` 625: the overshoot is one wave of calls | while the result at hand is slow the other workers run through the queue; `stop` is asked only between results. `judged.py` submits a wave at a time and does keep the bound |
| `webui/runner.py` 109 | `docs/tui.md` 88: cancel the running command | a cancel whose two reads straddle the end of one run and the start of the next marks the second and signals the first |
| `webui/runner.py` 175 | 37: a wedged command is stopped rather than holding the single slot for ever | the timeout is on `wait`, after the loop over the child's output has ended: a child that hangs with its output open is never stopped (`AllEnd` without its exception fails) |
| `webui/runner.py` 104 | 37: the same | `runs.begin` runs after the slot was taken and outside any `try`: where it raises (a full disk), the run stays `running` with no thread, and every later start is refused |
| `blocks.py` 2069 | `upsert.py` 2328: running never above planned, guaranteed by the code above | where no plan is stated, or the only one is held out as kilowatts, recomputing outside `upsert_record` leaves running above planned: an unquoted plan of 50,000 beside a quoted 100 running, and a merge that brings a tranche of 50, which fills the plan |
| `upsert.py` 811 | 780: of a plan and a running figure above it, the better supported one decides | the running figure is supported by any claim above the plan, one that lost its own field included: all quoted, a paper's plan of 50, another's 60 running in one building and a directory's 40 for the site, a second directory's 120 takes the plan to 120, on the support of the paper's 60 (`WeakNeverDisplaces` without `PlanUndisputed` fails) |
| `keys.py` 139 | 104: a change to the company rules reaches every stored row before the next article | `sync` re-keys the names rows have today and their aliases, not the key a row was born with. Four steps: a county record under one spelling creates a campus, the campus learns its town, the spelling is ruled to be another's, and the same article again computes a key that nothing answers and creates a second campus, synced or not (`NamesAnswer` without `Moved` fails) |
| `watch.py` 529 | `crawl.py` 3513: a failed re-read of a page that was read keeps what the good read recorded | a relisted page is queued like a new one, so its next failure is one of a page never read |
| `ingest/discover.py` 3045 | 2153: a publisher whose weekly check answers gets its pages back | a page discarded while its publisher was marked closed keeps that mark, and is no page to check with after |
| `notify.py` 1065 | 1023: a busy writer is waited out rather than losing the record | the `flush` before `_commit` is outside its retry, and a flush that fails inside it leaves a session that only a rollback brings back: after five seconds the send ends with a message delivered and unrecorded |
| `notify.py` 1008 | `cli/people.py` 1476: nothing is ever sent to anybody twice | a message that was delivered and whose answers were all lost, or whose send died, is owed again; 885 covers only a re-run on the same day with the same words. Two sends that overlap may also deliver one update in two messages: the second to record ends on the unique constraint |
| `feed.py` 674, `notify.py` 848 | `notify.py` 34: a fact that landed behind a window that had already run and was never sent at all is a thing of the past | a row whose article is dated ahead of the send, or that is re-pointed to such a one, or stored on a UTC day the local day has not reached, is no news when a message passes it; when it becomes news it is no longer newer than the last message, and is owed only while it was reported within `CATCH_UP_DAYS` (14) |
| `feed.py` 165 | `cli/people.py` 1475: no more than 45 days old | the window is 60 days |
| `notify.py` 825 | `cli/people.py` 1474: every update not yet sent | a card counts as sent if any row of it was, so a fresh row of a card stays unsent behind an older one that was sent, for as long as both are in the window |

Three more that contradict nothing but are worth knowing. The second look of a migration, under
the lock (`db.py` 345), compares the version and not the text, so a process with another checkout
goes on over a text it does not have; and behind a migration longer than `busy_timeout` (216) a
waiting process fails. Failures of alternating kinds restart a page's count (`crawl.py` 3536), so
it may be retried without end. A key that two rows excluded together share is recorded for one
of them, and lifting that one (`exclude.py` 212) lifts it for both.

## 5. Proofs

TLAPS checks the theorems of the `..._proofs` modules, for every value of the constants that
their named assumptions allow: any numbers of processes, runs, items, campuses, versions, starts.
Where a theorem needs more it says `ASSUME`, and what it needs is in the table. Each inductive
invariant was checked by TLC on the module's own instance before it was proved.

| module | proved | under |
|---|---|---|
| `WriteLock_proofs` | `OneOwner` (`MutualExclusion`), `OwnerKeepsLock` (`OwnedLockLeftAlone`), `Refinement` (`ImplementsLock`) | `Honest` |
| `Night_proofs` | `OnceANight` (`OncePerNight`), `PlansAreKept` (`PlanKept`), `ReportIsSettled` (`SettledReport`), `StepsAreHonoured` (`StepsHonoured`) | |
| `Night_proofs`, the lock | `OneHolderUnlessRobbed` (`OneHolder`) | |
| | `NeverBothUnlessRobbed` (`NeverBoth`) | `~Hangs` |
| | `OneHolderOfTwo` (`HolderNamed`, `OneNight`) | two starts |
| `Work_proofs`, the queue | `NoStoryIsLost` (`NoStoryLost`), `SettledStays` (`SettledKept`) | |
| `Work_proofs`, the pool | `NothingIsLost` (`NothingPaidIsLost`), `NothingStartsAgain` (`NothingStartsOnceOver`) | |
| `Work_proofs`, the runner | `OnlyCancelledOverlap` (`OverlapWasCancelled`), `RecordedAlways` (`RunsRecorded`) | |
| `Campus_proofs` | `RowIsDerived` (`Derived`), `RunningKeepsWithin` (`RunningWithinStatedPlan`), `NothingRestartsAlone` (`OneReportRestartsNothing`), `RulingsAlwaysStand` (`RulingStands`), `NothingIsLostQuietly` (`NothingLostQuietly`) | |
| | `WeakDisplacesNothing` (`WeakNeverDisplaces`) | `Datable` |
| `Migrate_proofs` | `AlwaysWhole` (`Whole`), `Refinement` (`ImplementsLedger`) | |
| `Facts_proofs` | `CommittedAgrees` (`Agrees`), `WrongIsMarked` (`StaleIsMarked`), `AnsweredRight` (`ReaderSeesTheWrite`) | `~SavepointAnytime` |
| `Identity_proofs` | `KeysAnswer` (`NamesAnswer`), `NothingRedirects` (`NotRedirected`), `NoPageLost` (`PagesKept`), `TakenOutStaysOut` (`StaysOut`) | |
| `Mail_proofs` | `OnlyUnrecordedRepeats` (`RepeatOnlyUnrecorded`), `OneADay` (`OneMessageADay`), `StampsAreSeen`, `NothingFalls` (`NothingFallsBetween`) | |

Each also has its types (`TypeCorrect`, `LockTypeCorrect`, `PoolTypeCorrect`, `RunnerTypeCorrect`),
`Identity` as part of `Sound` and `Night` of its invariant. Two modules of proofs are about components
that share no variable: `Night_proofs` extends `Night` and `NightLock`, `Work_proofs` extends `Queue`,
`MapOrdered` and `Runner`, which is why the names in `NightLock`, `MapOrdered` and `Runner` that every
specification has begin with `Lock`, `Pool` and `Runner`.

**`WriteLock`.** `MutualExclusion` is not inductive: it does not say why a reclaimer that has
judged a lock, and is about to delete whatever file is there, does not delete a new one. `IInv`
does, in six parts: an owner's text is the one on disk (`OwnerOnDisk`); texts name incarnations
that have begun (`Born`); what a reclaimer judged stale names a command that has ended, and just
before the unlink it is still what is on disk (`ReclaimsTheDead`), which holds because only the
holder of the guard deletes a file that is not its own (`GuardHeld`); the same for a break
(`BreaksTheDead`); and beside a break an empty file still has its creator
(`UnwrittenIsStarting`). The proof has a lemma for each action, or family of actions with the
same effect (`SpawnKeeps` ... `ClockKeeps`), brought together in `StepKeeps`. The refinement
rests on the same invariant: a step either creates a file where there was none, deletes one that
nobody owns, ends its owner, or is a stutter. `Honest` is what mutual exclusion rests on, and
each part is needed: `kill(pid, 0)` tells the truth (no other user's processes), nobody forces a
break, no process is stopped between reading an empty lock and looking at its age, and beside a
break no empty lock is left behind, by a crash or by a refused delete (section 4). `lock_break`
satisfies it.

**`NightLock`.** The script's takeover is not safe for any number of starts (section 4), so the
theorem says what takes the safety away, and that nothing else does: a takeover that removes another
lock than the one whose pid it read, which takes three starts. Nothing is assumed of the runs, which
may end, be interrupted or killed between any two commands, with their loops or without. Inductive
with: until then at most one run has the directory, and it is there for that run (`OneClaim`); a pid
in it, or read from it, was written by the run it names (`Written`), and a run about to remove a
lock read the pid of one that has ended (`Judged`); and a directory other than the judged one was
made by a third run (`MadeByThird`), so a robbery takes three (`RobsAmongThree`). `OneHolderOfTwo`
is the case of a scheduled start and a person's: there the condition is discharged. `~Hangs`, which
only `NeverBothUnlessRobbed` needs, is the deployer ending within the half hour a night waits.

**`Night`.** What the referee promises when it reviews a plan has to survive every step that is
taken out of it, every revision and the hand-over to the fixed schedule. A review is a recursion
over the plan, so its effect is stated by labels: for a reviewed plan there is a sequence `L` that
gives, at each pending step, what its kind will amount to by then, and a sequence `P` that gives its
pass (`AddsUp`, by induction on the length, as the least counterexample). `Waiting` says that such
labels exist for what is pending, from tonight's tally on: they stay within the allowance
(`Within`), they reach the floors in round 1 (`Enough`), and second passes are fresh (`Passed`).
Running a step takes the head off the labels; sorting permutes the steps without reordering a kind
(`At`, `MoveAhead`), so the labels move along. `Booked`, `Limits` and `Settling` are about what has
run. `Roomy` guards the allowance only (section 4).

**`MapOrdered`.** What was handed over is a function of the position: everything before the item
at hand that finished (`InOrder`), and nothing before it is still to come (`AtItem`). The queue
is cancelled from its front (`QueueInv`), though workers take items while that goes on, and the
loop ends with `done` only when all was made or the ceiling was reached (`StopInv`).

**`Runner`.** A run's status, its thread and its child are three things written by three
parties; `ChildFollows` says which combinations exist, `OneRecording` that the index read under
the lock is the index still. A record is then missing only from an index at its limit, or one that
could not be read after it was written: `unread` holds those, and any number of reads may fail.

**`Queue`.** `NoStoryLost` and `SettledKept` are about steps, and rest on a table that is `Sound`: a
page set aside as a copy names a page of its own story as the one kept. `Prepare` is eight passes
over the table, and each has a lemma: what it leaves `Sound` and how it moved rows (`Moved`: only
between queued and set aside). The order of the passes matters for one of them: giving back the
copies whose kept page failed leaves every kept page read or queued (`Held`), and the passes after
it may not undo that; a copy dropped later names the best of its story (`KeptCopyIs`), which
is kept itself.

**`Campus`.** The invariant is short: the citations and the snapshot's are well-formed (`Cites`), the
fetch order lists the pages cited once each (`Order`), and the row is what they imply (`Settled`).
What takes the length is that the operators of `Claims` are what they look like. A ranking exists:
the claims above a claim are counted, the counts differ, and so are the places (`RankingExists`,
from `AboveTransitive` and `FirstDiffers`); from then on each resolver is shown to return a value of
one of its contenders (`ValueIs`, `LadderIs`, `RefinedIs`, `ChoiceIs`). The row depends on what was
held before only through the town, which a second derivation leaves alone (`CityStays`,
`ResolveForgets`): so deriving is idempotent (`DerivedAgain`), and `Settled` holds after any write.
`Stated`, `RunningWithinStatedPlan` and `OneReportRestartsNothing` are then facts about a derived row,
not about histories (`StatedFollows`, `PlanFollows`, `RestartFollows`). The sum of the tranches is a
fold of the library, evaluated by recursion on a set: it exists and is a number by the least
counterexample under inclusion (`SumExists`, `TrancheSumIs`). Last, every operation rewrites the
citations in one of few ways, and none of them takes a ruling off a claim it keeps
(`OneRewritten`, `StepRewrites`); `NothingLostQuietly` compares the rows derived before and after,
so it uses the invariant on both sides.

`WeakNeverDisplaces` compares two rankings of one field, the second with a claim more. As long as
a quoted first-hand claim of the whole site counts, such claims are all that is resolved from
(`CoreContends`), and a weak page adds none (`CoreStays`). Their keys change in one number only,
the place of fetching, which moves by as much for all of them (`PlacesMove`), so both rankings list
the same claims in the same order, at other places (`CoreTwins`). Each resolver says the same of
two such lists (`TwinChoice`): the heaviest, the highest, the earliest with its refinements, and the
ladder of stages with its stops. What comes after resolving is shown to leave the value: the
running figure has the best support there is (`BuiltStands`), an undisputed plan too (`PlanStands`),
and a stage is only moved by a tranche (`PhaseStands`). The theorem asks for `Datable`: where rows
are merged by publication date, a first-hand page has one. The restriction is of the model, which
writes the time of fetching as a place in the order of fetching: a page that a merge puts first
moves the places of the others, and an undated page would be compared by that place with another
page's day. In the code both are timestamps that do not move. The checked instance satisfies it, with
an undated directory.

**`Migrate`.** What a process read as applied is a prefix and still applied (`Held`), so the
migration it is at is the next one of what it knows (`AtNext`); an open transaction is the only
one and holds the first statements of one version that is not recorded (`InTransaction`). That
the database then holds the statements of 1..n in order is `SchemaWhole`; the height of the
ledger is n (`HeightIs`), and only a commit moves it, by one.

**`Facts`.** A campus whose stored statements are wrong is marked (`Marks`), a gone one included;
what was read ahead is what is stored for any campus not marked since (`AheadIsStored`); and a
savepoint goes back to statements that were right (`SavedAgrees`), which is why
`~SavepointAnytime` is needed: it says that a savepoint is opened only when nothing is marked, as
both callers do. With it `TRUE`, TLC breaks the property.

**`Identity`.** Two parts are not obvious. A known key must be stored, remembered or excluded
*itself* (`Named`): that another spelling of it is barred would not do, since that one can be
lifted alone. And each name of a row taken out is barred under today's reading, or reads like a
key that was lifted (`OutIsBarred`): a learned spelling changes what names read like, for the
names and for the lifts at once. That an article finds its campus under a spelling learned since is
`SyncedAnswers`: what `sync` leaves remembered answers today's reading of every key that was
remembered or is what a row is called today, and the keys it leaves out are those of rows that have
`Moved`. `Sync` picks, for a key that several rows claim, the newest row;
that there is one needs well-founded induction (`Winner`).

**`Mail`.** Neither property is inductive: nothing locks a send out, so what it knows is the
invariant. A send that nobody overlapped is `Alone`, and so what it read still holds when it
records (`Knows`): its message carries no update of the ledger, no daily message is younger than
its own time, and, unless forced, none is of its day. The last rests on days going on with time
(`DaysGoOn`) and on the last message being the latest of a finite set (`MaxIs`, from `Largest`).
Overlapped sends are apart, but for the unique constraint: a person's recorded messages share no
update whatever overlaps (`KeysOnce`). `StampsSeen` is what the send's own row is committed for:
after it, no row that is still uncommitted was stamped before the send's time.

`NothingFallsBetween` needs what was true when each message was made: rows are re-pointed, dates
pass and the local day lags the UTC one, so a row that was no news then may be news now, and nothing
about the present says which. The message keeps it (`news`), and the invariant is about that
(`TInv`): a message in hand knows every visible row stamped before it (`StampsSeen` is why), and
carries each that was news then, or one of the row's card was delivered before, or an earlier message
passed the row (`Carries`, from `Composed`, which compares the person's window with what the last
message passed); a recorded message's words were delivered (`Posted`), and no uncommitted row is
older than one (`Younger`); so every row that a recorded message passed is told or excused (`Told`).
It holds for any zone, any articles, any re-pointing, and for sends that overlap.

Out of TLAPS's reach and left to TLC: liveness, which needs `ENABLED`. The library's induction
theorems cannot be instantiated by the provers at hand; where an induction over data was needed (a
plan, a set of claims, a set of pages), it is a minimal counterexample under a well-founded order
(`WFMin`).

## 6. What is only model-checked, and what is not modelled

Only model-checked: all liveness (`CommandsEnd`, `StartsAgain`, `NightEnds`, `Ends`, `AllEnd`,
`EndsAll`, `RefusedComesBack`), which needs fairness and `ENABLED`.

Assumed: the file system's `O_EXCL`, `unlink`, `mkdir` and the OS lock behind the guard are
atomic; a pid is reused only after its process has ended; an executor hands out items in
order of submission; SQLite lets one transaction write at a time and drops one that is not
committed, schema changes included. Outside the safety runs, because the code gives the
guarantee up:

* `--force` breaks a running command's lock on purpose.
* Another user's process answers `kill(pid, 0)` with `PermissionError`, which counts as dead. All
  commands of a host run as one user (`OtherUser = {}`).
* A reclaimer stopped between reading an empty lock and its `stat` may find the file gone and go
  on to unlink what is created next (`SlowStat`). It takes a failed write and a process stopped
  between two adjacent calls; liveness is checked with it.
* `release` reads and unlinks without the guard: after a forced break it may take another's lock.

Not modelled: what `PROJECT.json` lists as `not_modelled`, with the reason for each. Most of it
is data (matching, scoring, formats, prompts), reads only, or drawing; together these are the
larger part of the source by far. What has state worth a module and has none yet is the end of
the plan: `Director`, accounts, sync, the memory of failures. What each module leaves out
of the code it models is at the end of its section above.

## 7. Running it

    tlc -workers 2 -config MCWriteLock_break.cfg MCWriteLock.tla
    tlapm WriteLock_proofs.tla        (and each other ..._proofs.tla)

`PROJECT.json` names the module, configuration and expected outcome of every run. The
longest takes a little over two minutes, most take a few seconds.
