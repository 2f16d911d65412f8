------------------------------ MODULE WriteLock ------------------------------
(***************************************************************************)
(* The database's write lock (tracker/db.py) and the command that breaks   *)
(* it (tracker/cli/lock.py).                                               *)
(*                                                                         *)
(* Every writing command takes a lock file beside the database.  The file  *)
(* is made by an exclusive create, its holder's text (pid, command, start  *)
(* time) is written a moment later, and a file whose holder has died is    *)
(* reclaimed under an operating-system lock on a guard file.  `tracker     *)
(* lock break` removes a lock by hand, in two steps when the holder lives. *)
(*                                                                         *)
(* A process is a pid and an incarnation of it: pids are reused.  A        *)
(* command takes the lock once in its life, so the text that names it is   *)
(* the pair <<pid, incarnation>>.                                          *)
(***************************************************************************)
EXTENDS Naturals

CONSTANTS
  Pid,         \* process ids
  Breaker,     \* `tracker lock break` invocations that may be under way
  MaxGen,      \* bound: incarnations of one pid
  NoFile,      \* there is no lock file
  Absent,      \* what reading a missing file gives (None)
  Empty,       \* the text of a lock file whose holder is not written yet
  NoOne,       \* nobody holds the guard
  OtherUser,   \* pids that run as another user, which kill(pid, 0) cannot reach
  Windows,     \* whether the host refuses to open or delete a busy file
  SlowStat,    \* whether a process may lose the CPU between read and stat
  CrashInGap,  \* whether a command may die between create and write
  Flags        \* the flags `lock break` is run with

ASSUME WriteLockAssumption ==
  /\ MaxGen \in Nat
  /\ OtherUser \subseteq Pid
  /\ Flags \subseteq {"none", "force", "stop_process"}
  /\ Windows \in BOOLEAN /\ SlowStat \in BOOLEAN /\ CrashInGap \in BOOLEAN
  /\ NoOne \notin Pid \cup Breaker /\ Pid \cap Breaker = {}
  /\ Absent # Empty
  /\ {Absent, Empty, NoOne} \cap (Pid \X (1..MaxGen)) = {}
  /\ NoFile \notin [by : Pid \X (1..MaxGen), written : BOOLEAN, old : BOOLEAN]

VARIABLES
  lockFile,  \* the lock file: who created it, is its text written, is it past the grace
  guard,     \* who holds the operating-system lock on the guard file
  pc,        \* where each process is
  gen,       \* the incarnation of each pid
  raw,       \* the lock text each process last read in _claim
  bpc,       \* where each `lock break` is
  flag,      \* the flag it was run with
  first,     \* the lock break_cmd inspected: its text and whether it was alive
  second,    \* the lock break_write_lock inspected again
  armed      \* the warning on disk for each flag: the text it was given for

procVars  == <<pc, gen, raw>>
breakVars == <<bpc, flag, first, second, armed>>
vars      == <<lockFile, guard, procVars, breakVars>>

------------------------------------------------------------------------------

Token == Pid \X (1..MaxGen)
Text  == Token \cup {Absent, Empty}
File  == [by : Token, written : BOOLEAN, old : BOOLEAN]
Seen  == [text : Text, alive : BOOLEAN]

Me(p) == <<p, gen[p]>>

PidStates == {"gone", "other", "create", "write", "undo", "read", "judge", "guard",
              "reread", "restat", "unlink", "sleep", "held", "check", "remove", "done"}
BreakStates == {"off", "inspect", "decide", "stop", "reinspect", "guard", "reread",
                "unlink", "disarm"}

\* Between its exclusive create and the end of its release a command owns the lock.
Writing == {"write", "undo"}
Holding == {"held", "check", "remove"}
Owning(p) == pc[p] \in Writing \cup Holding

\* _read_lock: the text of the file, or None when there is none.
LockText == IF lockFile = NoFile THEN Absent
            ELSE IF lockFile.written THEN lockFile.by ELSE Empty

\* _pid_alive: kill(pid, 0) answers, which it does not for another user's process.
PidAlive(p) == pc[p] # "gone" /\ p \notin OtherUser

\* _held: an unwritten lock counts as held while the file now at the path is young.
Held(text) == IF text = Empty THEN lockFile # NoFile /\ ~lockFile.old
              ELSE text # Absent /\ PidAlive(text[1])

Init ==
  /\ lockFile = NoFile
  /\ guard = NoOne
  /\ pc = [p \in Pid |-> "gone"]
  /\ gen = [p \in Pid |-> 0]
  /\ raw = [p \in Pid |-> Absent]
  /\ bpc = [b \in Breaker |-> "off"]
  /\ flag = [b \in Breaker |-> "none"]
  /\ first = [b \in Breaker |-> [text |-> Absent, alive |-> FALSE]]
  /\ second = [b \in Breaker |-> [text |-> Absent, alive |-> FALSE]]
  /\ armed = [f \in {"force", "stop_process"} |-> Absent]

Goto(p, s)  == pc' = [pc EXCEPT ![p] = s]
BGoto(b, s) == bpc' = [bpc EXCEPT ![b] = s]

\* inspect_write_lock: the text, and whether its holder is still there.
Inspected == [text |-> LockText, alive |-> LockText # Absent /\ Held(LockText)]

------------------------------------------------------------------------------
(* Mutants: what a bug in one step would make of it.                         *)

\* Create without O_EXCL.
CreateShared(p) ==
  /\ pc[p] = "create"
  /\ lockFile' = [by |-> Me(p), written |-> FALSE, old |-> FALSE]
  /\ Goto(p, "write")
  /\ UNCHANGED <<guard, gen, raw, breakVars>>

GiveUpNever(p) == FALSE /\ pc[p] = "sleep"

\* The reclaim deletes what it judged without looking again.
RereadNothing(p) ==
  /\ pc[p] = "reread"
  /\ Goto(p, "unlink")
  /\ UNCHANGED <<lockFile, guard, gen, raw, breakVars>>

BreakRereadNothing(b) ==
  /\ bpc[b] = "reread"
  /\ BGoto(b, "unlink")
  /\ UNCHANGED <<lockFile, guard, procVars, flag, first, second, armed>>

------------------------------------------------------------------------------
(* Processes come and go.  The kernel frees the guard however one ends.      *)

\* A pid starts a writing command, or some unrelated program.
Spawn(p) ==
  /\ pc[p] = "gone" /\ gen[p] < MaxGen
  /\ gen' = [gen EXCEPT ![p] = @ + 1]
  /\ \E s \in {"create", "other"} : Goto(p, s)
  /\ UNCHANGED <<lockFile, guard, raw, breakVars>>

MayEnd(p) == pc[p] \in Writing => CrashInGap

Drop(x) == guard' = IF guard = x THEN NoOne ELSE guard

Die(p) ==
  /\ pc[p] # "gone" /\ MayEnd(p)
  /\ Goto(p, "gone")
  /\ Drop(p)
  /\ UNCHANGED <<lockFile, gen, raw, breakVars>>

\* Ten seconds pass on an unwritten file.  Creating the file and writing it are
\* microseconds apart, so its creator, if it lives, is not still in between.
Age ==
  /\ lockFile # NoFile
  /\ ~lockFile.written /\ ~lockFile.old
  /\ \A p \in Pid : lockFile.by = Me(p) => pc[p] \notin Writing
  /\ lockFile' = [lockFile EXCEPT !.old = TRUE]
  /\ UNCHANGED <<guard, procVars, breakVars>>

------------------------------------------------------------------------------
(* _claim: create the file, or judge the one that is there and come round.   *)

Create(p) ==
  /\ pc[p] = "create"
  /\ lockFile = NoFile
  /\ lockFile' = [by |-> Me(p), written |-> FALSE, old |-> FALSE]
  /\ Goto(p, "write")
  /\ UNCHANGED <<guard, gen, raw, breakVars>>

CreateExists(p) ==
  /\ pc[p] = "create"
  /\ lockFile # NoFile
  /\ Goto(p, "read")
  /\ UNCHANGED <<lockFile, guard, gen, raw, breakVars>>

\* Windows refuses a name another process is opening or deleting.
Busy(p) ==
  /\ Windows
  /\ pc[p] \in {"create", "read"}
  /\ Goto(p, "sleep")
  /\ UNCHANGED <<lockFile, guard, gen, raw, breakVars>>

\* The write goes to the file this process created, on disk or already unlinked.
Write(p) ==
  /\ pc[p] = "write"
  /\ lockFile' = IF lockFile # NoFile /\ lockFile.by = Me(p)
                 THEN [lockFile EXCEPT !.written = TRUE, !.old = FALSE]
                 ELSE lockFile
  /\ Goto(p, "held")
  /\ UNCHANGED <<guard, gen, raw, breakVars>>

WriteFails(p) ==
  /\ pc[p] = "write"
  /\ Goto(p, "undo")
  /\ UNCHANGED <<lockFile, guard, gen, raw, breakVars>>

Undo(p) ==
  /\ pc[p] = "undo"
  /\ lockFile' = NoFile \/ (Windows /\ UNCHANGED lockFile)
  /\ Goto(p, "done")
  /\ UNCHANGED <<guard, gen, raw, breakVars>>

Read(p) ==
  /\ pc[p] = "read"
  /\ raw' = [raw EXCEPT ![p] = LockText]
  /\ Goto(p, IF LockText = Absent THEN "sleep" ELSE "judge")
  /\ UNCHANGED <<lockFile, guard, gen, breakVars>>

\* A held lock refuses the command (AlreadyRunning); any other is to be reclaimed.
Judge(p) ==
  /\ pc[p] = "judge"
  /\ Goto(p, IF Held(raw[p]) THEN "done" ELSE "guard")
  /\ UNCHANGED <<lockFile, guard, gen, raw, breakVars>>

Retry(p) ==
  /\ pc[p] = "sleep"
  /\ Goto(p, "create")
  /\ UNCHANGED <<lockFile, guard, gen, raw, breakVars>>

\* The deadline on contention: the claim is refused.
GiveUp(p) ==
  /\ pc[p] = "sleep"
  /\ Goto(p, "done")
  /\ UNCHANGED <<lockFile, guard, gen, raw, breakVars>>

------------------------------------------------------------------------------
(* _reclaim, under _reclaim_guard: delete the lock if it is still that lock. *)

TakeGuard(p) ==
  /\ pc[p] = "guard"
  /\ guard = NoOne
  /\ guard' = p
  /\ Goto(p, "reread")
  /\ UNCHANGED <<lockFile, gen, raw, breakVars>>

GuardTimeout(p) ==
  /\ pc[p] = "guard"
  /\ guard # NoOne
  /\ Goto(p, "done")
  /\ UNCHANGED <<lockFile, guard, gen, raw, breakVars>>

\* Not the lock that was judged, or empty again but a new file: leave it.
Reread(p) ==
  /\ pc[p] = "reread"
  /\ \/ /\ LockText # raw[p] \/ Windows
        /\ Goto(p, "sleep") /\ guard' = NoOne
     \/ /\ LockText = raw[p] /\ raw[p] # Empty
        /\ Goto(p, "unlink") /\ UNCHANGED guard
     \/ /\ LockText = raw[p] /\ raw[p] = Empty /\ SlowStat
        /\ Goto(p, "restat") /\ UNCHANGED guard
     \/ /\ LockText = raw[p] /\ raw[p] = Empty /\ ~SlowStat
        /\ IF Held(Empty) THEN Goto(p, "sleep") /\ guard' = NoOne
                          ELSE Goto(p, "unlink") /\ UNCHANGED guard
  /\ UNCHANGED <<lockFile, gen, raw, breakVars>>

Restat(p) ==
  /\ pc[p] = "restat"
  /\ IF Held(Empty) THEN Goto(p, "sleep") /\ guard' = NoOne
                    ELSE Goto(p, "unlink") /\ UNCHANGED guard
  /\ UNCHANGED <<lockFile, gen, raw, breakVars>>

Unlink(p) ==
  /\ pc[p] = "unlink"
  /\ \/ lockFile' = NoFile /\ Goto(p, "create")
     \/ Windows /\ UNCHANGED lockFile /\ Goto(p, "done")
  /\ guard' = NoOne
  /\ UNCHANGED <<gen, raw, breakVars>>

------------------------------------------------------------------------------
(* release: once, and only if the file on disk still names this command.     *)

Release(p) ==
  /\ pc[p] = "held"
  /\ Goto(p, "check")
  /\ UNCHANGED <<lockFile, guard, gen, raw, breakVars>>

ReleaseCheck(p) ==
  /\ pc[p] = "check"
  /\ \/ Goto(p, IF LockText = Me(p) THEN "remove" ELSE "done")
     \/ Windows /\ Goto(p, "done")
  /\ UNCHANGED <<lockFile, guard, gen, raw, breakVars>>

ReleaseRemove(p) ==
  /\ pc[p] = "remove"
  /\ \/ lockFile' = NoFile
     \/ Windows /\ UNCHANGED lockFile
  /\ Goto(p, "done")
  /\ UNCHANGED <<guard, gen, raw, breakVars>>

------------------------------------------------------------------------------
(* `tracker lock break`.                                                     *)

StartBreak(b) ==
  /\ bpc[b] = "off"
  /\ \E f \in Flags : flag' = [flag EXCEPT ![b] = f]
  /\ BGoto(b, "inspect")
  /\ UNCHANGED <<lockFile, guard, procVars, first, second, armed>>

Inspect(b) ==
  /\ bpc[b] = "inspect"
  /\ \/ /\ first' = [first EXCEPT ![b] = Inspected]
        /\ BGoto(b, IF LockText = Absent THEN "off" ELSE "decide")
     \/ Windows /\ UNCHANGED first /\ BGoto(b, "off")
  /\ UNCHANGED <<lockFile, guard, procVars, flag, second, armed>>

\* A live holder is refused without a flag, warned about the first time, and acted
\* on when the warning on disk was given for this very lock.
Decide(b) ==
  /\ bpc[b] = "decide"
  /\ LET live    == first[b].alive
         isArmed == flag[b] # "none" /\ armed[flag[b]] = first[b].text
     IN  \/ /\ live /\ flag[b] = "none"
            /\ BGoto(b, "off") /\ UNCHANGED armed
         \/ /\ live /\ flag[b] # "none" /\ ~isArmed
            /\ armed' = [armed EXCEPT ![flag[b]] = first[b].text]
            /\ BGoto(b, "off")
         \/ /\ live /\ isArmed
            /\ BGoto(b, IF flag[b] = "stop_process" THEN "stop" ELSE "reinspect")
            /\ UNCHANGED armed
         \/ /\ ~live
            /\ BGoto(b, "reinspect") /\ UNCHANGED armed
  /\ UNCHANGED <<lockFile, guard, procVars, flag, first, second>>

\* stop_lock_holder: refuses a lock with no pid and a pid that is no tracker command;
\* a process may also refuse to stop.
Stop(b) ==
  /\ bpc[b] = "stop"
  /\ \/ /\ BGoto(b, "off")
        /\ UNCHANGED <<pc, guard>>
     \/ /\ first[b].text # Empty
        /\ LET p == first[b].text[1] IN
             \/ /\ ~PidAlive(p)
                /\ BGoto(b, "reinspect") /\ UNCHANGED <<pc, guard>>
             \/ /\ PidAlive(p) /\ pc[p] # "other" /\ MayEnd(p)
                /\ BGoto(b, "reinspect") /\ Goto(p, "gone") /\ Drop(p)
  /\ UNCHANGED <<lockFile, gen, raw, flag, first, second, armed>>

\* break_write_lock inspects again; only --force goes on against a live holder.
Reinspect(b) ==
  /\ bpc[b] = "reinspect"
  /\ \/ /\ second' = [second EXCEPT ![b] = Inspected]
        /\ BGoto(b, IF LockText = Absent THEN "disarm"
                    ELSE IF Inspected.alive /\ flag[b] # "force" THEN "off" ELSE "guard")
     \/ Windows /\ UNCHANGED second /\ BGoto(b, "disarm")
  /\ UNCHANGED <<lockFile, guard, procVars, flag, first, armed>>

BreakGuard(b) ==
  /\ bpc[b] = "guard"
  /\ \/ guard = NoOne /\ guard' = b /\ BGoto(b, "reread")
     \/ guard # NoOne /\ UNCHANGED guard /\ BGoto(b, "off")
  /\ UNCHANGED <<lockFile, procVars, flag, first, second, armed>>

BreakReread(b) ==
  /\ bpc[b] = "reread"
  /\ \/ /\ LockText # second[b].text \/ Windows
        /\ guard' = NoOne /\ BGoto(b, "off")
     \/ /\ LockText = second[b].text
        /\ UNCHANGED guard /\ BGoto(b, "unlink")
  /\ UNCHANGED <<lockFile, procVars, flag, first, second, armed>>

BreakUnlink(b) ==
  /\ bpc[b] = "unlink"
  /\ \/ lockFile' = NoFile /\ BGoto(b, "disarm")
     \/ Windows /\ UNCHANGED lockFile /\ BGoto(b, "off")
  /\ guard' = NoOne
  /\ UNCHANGED <<procVars, flag, first, second, armed>>

Disarm(b) ==
  /\ bpc[b] = "disarm"
  /\ armed' = IF flag[b] = "none" THEN armed ELSE [armed EXCEPT ![flag[b]] = Absent]
  /\ BGoto(b, "off")
  /\ UNCHANGED <<lockFile, guard, procVars, flag, first, second>>

\* A person presses ctrl-c, or the terminal goes away.
BreakDies(b) ==
  /\ bpc[b] # "off"
  /\ BGoto(b, "off")
  /\ Drop(b)
  /\ UNCHANGED <<lockFile, procVars, flag, first, second, armed>>

\* Ten minutes pass since a warning was given.
Expire ==
  /\ \E f \in DOMAIN armed : armed[f] # Absent /\ armed' = [armed EXCEPT ![f] = Absent]
  /\ UNCHANGED <<lockFile, guard, procVars, bpc, flag, first, second>>

------------------------------------------------------------------------------

\* The steps a running command takes of itself; a person or a crash decides the rest.
Step(p) ==
  \/ Create(p) \/ CreateExists(p) \/ Write(p) \/ WriteFails(p) \/ Undo(p)
  \/ Read(p) \/ Judge(p) \/ TakeGuard(p) \/ GuardTimeout(p)
  \/ Reread(p) \/ Restat(p) \/ Unlink(p)
  \/ Release(p) \/ ReleaseCheck(p) \/ ReleaseRemove(p)

Loop(p) == Busy(p) \/ Retry(p) \/ GiveUp(p)

BreakStep(b) ==
  \/ Inspect(b) \/ Decide(b) \/ Stop(b) \/ Reinspect(b) \/ BreakGuard(b)
  \/ BreakReread(b) \/ BreakUnlink(b) \/ Disarm(b)

Next ==
  \/ \E p \in Pid : Spawn(p) \/ Die(p) \/ Step(p) \/ Loop(p)
  \/ \E b \in Breaker : StartBreak(b) \/ BreakStep(b) \/ BreakDies(b)
  \/ Age
  \/ Expire

Spec == Init /\ [][Next]_vars

\* A running process is scheduled; an open file is let go of in the end, and a claim
\* that keeps sleeping finds its deadline passed.
Fairness ==
  /\ \A p \in Pid : WF_vars(Step(p)) /\ WF_vars(Retry(p)) /\ SF_vars(GiveUp(p))
  /\ \A b \in Breaker : WF_vars(BreakStep(b))

FairSpec == Spec /\ Fairness

------------------------------------------------------------------------------

TypeOK ==
  /\ lockFile \in File \cup {NoFile}
  /\ guard \in Pid \cup Breaker \cup {NoOne}
  /\ pc \in [Pid -> PidStates]
  /\ gen \in [Pid -> 0..MaxGen]
  /\ raw \in [Pid -> Text]
  /\ bpc \in [Breaker -> BreakStates]
  /\ flag \in [Breaker -> {"none", "force", "stop_process"}]
  /\ first \in [Breaker -> Seen]
  /\ second \in [Breaker -> Seen]
  /\ armed \in [{"force", "stop_process"} -> Text]

------------------------------------------------------------------------------
(* Safety, where nobody forces a break and kill(pid, 0) tells the truth.     *)

\* At most one command owns the write lock ("refuse to start a second writing run"):
\* whatever the interleaving of creates, crashes, pid reuse, reclaims and breaks.
MutualExclusion == \A p, q \in Pid : Owning(p) /\ Owning(q) => p = q

\* Whoever owns the lock is the one the file on disk was created by, and its text is
\* there exactly from the write on: the create and the owner cannot come apart.
OwnerOnDisk ==
  \A p \in Pid : Owning(p) =>
    /\ lockFile # NoFile /\ lockFile.by = Me(p)
    /\ lockFile.written <=> pc[p] \in Holding
    /\ pc[p] \in Writing => ~lockFile.old

\* The incarnation a lock text names has ended.
Defunct(t) == gen[t[1]] > t[2] \/ (gen[t[1]] = t[2] /\ pc[t[1]] = "gone")

\* Nothing names an incarnation that has not started.
Born ==
  /\ \A p \in Pid : pc[p] # "gone" => gen[p] >= 1
  /\ lockFile # NoFile => gen[lockFile.by[1]] >= lockFile.by[2]
  /\ \A p \in Pid : raw[p] \in Token => gen[raw[p][1]] >= raw[p][2]

\* A lock judged stale names a command that has ended, and one about to be unlinked is
\* still the file on disk: nobody deletes the lock of a command that owns it.
ReclaimsTheDead ==
  \A p \in Pid :
    /\ pc[p] = "judge" => raw[p] # Absent
    /\ pc[p] \in {"guard", "reread", "restat", "unlink"} =>
         raw[p] # Absent /\ (raw[p] \in Token => Defunct(raw[p]))
    /\ pc[p] = "unlink" =>
         /\ lockFile # NoFile /\ LockText = raw[p]
         /\ raw[p] = Empty => lockFile.old
    /\ pc[p] # "restat"

\* The same for a lock a break has inspected and found stale.
BreaksTheDead ==
  \A b \in Breaker :
    /\ flag[b] \in Flags \cup {"none"}
    /\ bpc[b] \in {"decide", "stop"} => first[b].text # Absent
    /\ bpc[b] \in {"guard", "reread", "unlink"} =>
         second[b].text \in Token /\ Defunct(second[b].text)
    /\ bpc[b] = "unlink" => lockFile # NoFile /\ LockText = second[b].text

\* An unwritten lock beside a break still has its creator between create and write.
UnwrittenIsStarting ==
  Breaker # {} /\ lockFile # NoFile /\ ~lockFile.written =>
    lockFile.by = Me(lockFile.by[1]) /\ pc[lockFile.by[1]] \in Writing

\* Between taking the guard and letting go, and only then, a process holds it.
GuardHeld ==
  /\ \A p \in Pid : guard = p <=> pc[p] \in {"reread", "restat", "unlink"}
  /\ \A b \in Breaker : guard = b <=> bpc[b] \in {"reread", "unlink"}

\* The inductive invariant behind MutualExclusion.
IInv ==
  /\ OwnerOnDisk /\ Born /\ ReclaimsTheDead /\ BreaksTheDead
  /\ UnwrittenIsStarting /\ GuardHeld

Owners == {p \in Pid : Owning(p)}
Promise == INSTANCE ExclusiveLock WITH
  Command <- Token,
  Nobody  <- NoOne,
  owner   <- IF Owners = {} THEN NoOne ELSE LET p == CHOOSE p \in Owners : TRUE IN Me(p),
  left    <- Owners = {} /\ lockFile # NoFile

\* The file protocol implements the lock it stands for: a command comes to own the lock
\* only when the file is gone, and a dead command's file is removed before that.
ImplementsLock == Promise!Spec

------------------------------------------------------------------------------
(* What the flags and a slow process change, and liveness.                   *)

\* Every claim ends, with the lock or with a refusal, whoever else comes, dies,
\* reclaims or breaks: no wait in _claim or _reclaim_guard is without an end.
ClaimEnds == \A p \in Pid : pc[p] = "create" ~> pc[p] \in {"held", "done", "gone"}

\* A command that owns the lock gives it up and a break comes to its end, even when
\* each finds that the other has taken the file away.
BreakEnds == \A b \in Breaker : bpc[b] = "inspect" ~> bpc[b] = "off"

\* No command waits for ever, for the lock or for the guard of another.
CommandsEnd == ClaimEnds /\ BreakEnds

\* What break_write_lock and _reclaim say: a lock that a running command owns is removed
\* by nobody but that command.
OwnedLockLeftAlone ==
  [][\A p \in Pid :
       Owning(p) /\ lockFile # NoFile /\ lockFile.by = Me(p) /\ lockFile' = NoFile
         => pc[p] # pc'[p]]_vars

==============================================================================
