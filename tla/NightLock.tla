------------------------------ MODULE NightLock ------------------------------
(***************************************************************************)
(* The lock a night holds (scripts/overnight.sh) and the agreement it has  *)
(* with the deployer, which lives outside the repository.                  *)
(*                                                                         *)
(* The lock is a directory made by mkdir with the holder's pid written in  *)
(* it a moment later.  A lock whose pid is no live overnight run is taken  *)
(* over; the EXIT trap removes the directory.  The deployer raises its own *)
(* flag (it is running) before it looks at the lock, and a night raises    *)
(* its own (the lock) before it looks for the deployer.                    *)
(*                                                                         *)
(* Names every specification has carry `Lock' here, so that one module of  *)
(* proofs can extend this one beside Night.                                *)
(***************************************************************************)
EXTENDS Naturals, FiniteSets

CONSTANTS
  Run,         \* starts of overnight.sh, each a process of its own
  NoDir,       \* there is no lock directory
  NoPid,       \* the directory holds no pid yet
  MaxKills,    \* bound: runs that end without their EXIT trap
  Hangs        \* whether a deployer may outlast the night's wait for it

ASSUME NightLockAssumption ==
  /\ MaxKills \in Nat /\ Hangs \in BOOLEAN
  /\ NoDir # NoPid /\ {NoDir, NoPid} \cap Run = {}

VARIABLES
  dir,      \* the lock directory: the pid in it, NoPid, or NoDir
  pc,       \* where each run is
  judged,   \* the pid each run read in a lock it looks at, until it is done with it
  deployer, \* the deployer: "off", "running", "deploying"
  kills,    \* runs that ended without their trap so far
  robbed    \* history: a takeover has removed another lock than the one it judged

lockVars == <<dir, pc, judged, deployer, kills, robbed>>

------------------------------------------------------------------------------

RunStates == {"new", "mkdir", "pid", "holder", "ps", "rm", "again", "repid", "trap",
              "look", "wait", "night", "exit", "gone", "killed", "orphan"}

\* ps finds the process and its command line names overnight.sh. That of the loop, which
\* goes on as an orphan when its shell is killed, does not.
Live(r)    == pc[r] \notin {"new", "gone", "killed", "orphan"}
Goto(r, s) == pc' = [pc EXCEPT ![r] = s]

\* Between its mkdir and its echo a run's directory is there without a pid.
InGap(r) == pc[r] \in {"pid", "repid"}

LockInit ==
  /\ dir = NoDir
  /\ pc = [r \in Run |-> "new"]
  /\ judged = [r \in Run |-> NoDir]
  /\ deployer = "off"
  /\ kills = 0 /\ robbed = FALSE

\* launchd at 18:01, or a person in tmux.
StartScript(r) ==
  /\ pc[r] = "new"
  /\ Goto(r, "mkdir")
  /\ UNCHANGED <<dir, judged, deployer, kills, robbed>>

\* Killed outright with its loop, or the machine is reset: no trap runs, the directory
\* stays.
Kill(r) ==
  /\ Live(r)
  /\ kills < MaxKills
  /\ kills' = kills + 1
  /\ Goto(r, "killed")
  /\ judged' = [judged EXCEPT ![r] = NoDir]
  /\ UNCHANGED <<dir, deployer, robbed>>

\* Only the shell is killed: the loop it runs in the background goes on, under a lock
\* whose pid is nobody's.
KillShell(r) ==
  /\ pc[r] = "night"
  /\ kills < MaxKills
  /\ kills' = kills + 1
  /\ Goto(r, "orphan")
  /\ UNCHANGED <<dir, judged, deployer, robbed>>

\* The hours of such a loop run out, or it is killed as well.
OrphanEnds(r) ==
  /\ pc[r] = "orphan"
  /\ Goto(r, "killed")
  /\ UNCHANGED <<dir, judged, deployer, kills, robbed>>

------------------------------------------------------------------------------
(* Mutants.                                                                  *)

\* The directory is made whether or not it is there (mkdir -p).
MakeDirAnyway(r) ==
  /\ pc[r] = "mkdir"
  /\ dir' = NoPid /\ Goto(r, "pid")
  /\ UNCHANGED <<judged, deployer, kills, robbed>>

\* Any lock refuses a start, as before stale locks were taken over.
PsRefuses(r) ==
  /\ pc[r] = "ps"
  /\ Goto(r, "gone")
  /\ judged' = [judged EXCEPT ![r] = NoDir]
  /\ UNCHANGED <<dir, deployer, kills, robbed>>

\* The night does not look for the deployer.
LookAway(r) ==
  /\ pc[r] = "look"
  /\ Goto(r, "night")
  /\ UNCHANGED <<dir, judged, deployer, kills, robbed>>

------------------------------------------------------------------------------
(* take_lock                                                                 *)

MakeDir(r) ==
  /\ pc[r] = "mkdir"
  /\ IF dir = NoDir THEN dir' = NoPid /\ Goto(r, "pid")
                    ELSE UNCHANGED dir /\ Goto(r, "holder")
  /\ UNCHANGED <<judged, deployer, kills, robbed>>

\* echo $$ > pid: into whatever directory is there.  Under `take_lock ||` the shell
\* does not stop when the echo fails, so a run whose directory is gone goes on.
WritePid(r) ==
  /\ InGap(r)
  /\ dir' = IF dir = NoDir THEN NoDir ELSE r
  /\ Goto(r, "trap")
  /\ UNCHANGED <<judged, deployer, kills, robbed>>

\* lock_holder, cat: no pid, or no directory any more, is a run that is starting.
ReadPid(r) ==
  /\ pc[r] = "holder"
  /\ IF dir \in Run THEN judged' = [judged EXCEPT ![r] = dir] /\ Goto(r, "ps")
                   ELSE UNCHANGED judged /\ Goto(r, "gone")
  /\ UNCHANGED <<dir, deployer, kills, robbed>>

\* lock_holder, ps: a run that lives now holds the lock, any other pid is stale.
AskPs(r) ==
  /\ pc[r] = "ps"
  /\ IF Live(judged[r]) THEN judged' = [judged EXCEPT ![r] = NoDir] /\ Goto(r, "gone")
                        ELSE UNCHANGED judged /\ Goto(r, "rm")
  /\ UNCHANGED <<dir, deployer, kills, robbed>>

\* rm -rf takes whatever lock is there by now.
RemoveStale(r) ==
  /\ pc[r] = "rm"
  /\ dir' = NoDir
  /\ robbed' = (robbed \/ dir \notin {NoDir, judged[r]})
  /\ judged' = [judged EXCEPT ![r] = NoDir]
  /\ Goto(r, "again")
  /\ UNCHANGED <<deployer, kills>>

MakeDirAgain(r) ==
  /\ pc[r] = "again"
  /\ IF dir = NoDir THEN dir' = NoPid /\ Goto(r, "repid")
                    ELSE UNCHANGED dir /\ Goto(r, "gone")
  /\ UNCHANGED <<judged, deployer, kills, robbed>>

SetTrap(r) ==
  /\ pc[r] = "trap"
  /\ Goto(r, "look")
  /\ UNCHANGED <<dir, judged, deployer, kills, robbed>>

------------------------------------------------------------------------------
(* wait_for_deploy, run_night and the EXIT trap                              *)

Look(r) ==
  /\ pc[r] = "look"
  /\ Goto(r, IF deployer = "off" THEN "night" ELSE "wait")
  /\ UNCHANGED <<dir, judged, deployer, kills, robbed>>

\* The loop looks every five seconds and stops waiting after half an hour.
Wait(r) ==
  /\ pc[r] = "wait"
  /\ deployer = "off" \/ Hangs
  /\ Goto(r, "night")
  /\ UNCHANGED <<dir, judged, deployer, kills, robbed>>

\* The night is over, or was told to stop and has stopped.
HoursEnd(r) ==
  /\ pc[r] = "night"
  /\ Goto(r, "exit")
  /\ UNCHANGED <<dir, judged, deployer, kills, robbed>>

\* A signal before the night has begun ends the shell, through its trap.
Interrupt(r) ==
  /\ pc[r] \in {"look", "wait"}
  /\ Goto(r, "exit")
  /\ UNCHANGED <<dir, judged, deployer, kills, robbed>>

ExitTrap(r) ==
  /\ pc[r] = "exit"
  /\ dir' = NoDir
  /\ Goto(r, "gone")
  /\ UNCHANGED <<judged, deployer, kills, robbed>>

------------------------------------------------------------------------------
(* The deployer: it runs, looks for a live night in the lock, and deploys    *)
(* only when there is none.                                                  *)

DeployerStarts ==
  /\ deployer = "off"
  /\ deployer' = "running"
  /\ UNCHANGED <<dir, pc, judged, kills, robbed>>

DeployerLooks ==
  /\ deployer = "running"
  /\ deployer' = IF dir \in Run /\ Live(dir) THEN "off" ELSE "deploying"
  /\ UNCHANGED <<dir, pc, judged, kills, robbed>>

\* It is done, or dies.
DeployerEnds ==
  /\ deployer # "off"
  /\ deployer' = "off"
  /\ UNCHANGED <<dir, pc, judged, kills, robbed>>

------------------------------------------------------------------------------

Take(r) == MakeDir(r) \/ WritePid(r) \/ ReadPid(r) \/ AskPs(r) \/ RemoveStale(r)
           \/ MakeDirAgain(r) \/ SetTrap(r)
Go(r)   == Look(r) \/ Wait(r) \/ HoursEnd(r) \/ ExitTrap(r)

LockNext ==
  \/ \E r \in Run : \/ StartScript(r) \/ Kill(r) \/ KillShell(r) \/ OrphanEnds(r)
                    \/ Interrupt(r) \/ Take(r) \/ Go(r)
  \/ DeployerStarts \/ DeployerLooks \/ DeployerEnds

LockSpec == LockInit /\ [][LockNext]_lockVars

\* A live shell runs on, a night's hours run out and its wait for the deployer is bounded.
Fairness == \A r \in Run : WF_lockVars(Take(r)) /\ WF_lockVars(Go(r))

FairLockSpec == LockSpec /\ Fairness

------------------------------------------------------------------------------

LockTypeOK ==
  /\ dir \in Run \cup {NoDir, NoPid}
  /\ pc \in [Run -> RunStates]
  /\ judged \in [Run -> Run \cup {NoDir}]
  /\ deployer \in {"off", "running", "deploying"}
  /\ kills \in 0..MaxKills
  /\ robbed \in BOOLEAN

\* A run past take_lock, up to its trap, believes it holds the lock.
Holds(r) == pc[r] \in {"trap", "look", "wait", "night", "exit"}

\* Its loop runs, an orphan's included.
InNight(r) == pc[r] \in {"night", "orphan"}

\* "One at a time": two nights never run together, but for the loop of a killed shell.
OneNight ==
  \A r, s \in Run : InNight(r) /\ InNight(s) => r = s \/ "orphan" \in {pc[r], pc[s]}

\* While a run holds the lock its pid is the one in the directory, so the deployer, the
\* next run and --status all see it.
HolderNamed == \A r \in Run : Holds(r) => dir = r

\* Another lock than the judged one is only there to remove when a third run took it.
RobbedAmongThree ==
  robbed => \E r, s, t \in Run : r # s /\ s # t /\ r # t /\ "new" \notin {pc[r], pc[s], pc[t]}

\* One run holds the lock, and the directory says which. However many starts, ends, kills and
\* takeovers there are, one thing alone takes that away, and not between two starts: a
\* takeover that removes another lock than the one whose pid it read.
OneHolder == LockTypeOK /\ (robbed \/ (HolderNamed /\ OneNight)) /\ RobbedAmongThree

\* "One of the two always sees the other, so they never both go ahead", until then.
NeverBoth == robbed \/ ~(deployer = "deploying" /\ \E r \in Run : pc[r] = "night")

\* A start that meets only the remains of a run that was killed gets the lock: a lock
\* left behind does not refuse every later start.  The one that does is a directory
\* whose run died before its echo: it counts as "starting" however old it is.
StartsAgain ==
  \A r \in Run :
    (pc[r] = "mkdir" /\ dir # NoPid /\ \A s \in Run \ {r} : ~Live(s))
    ~> (Holds(r) \/ pc[r] = "killed" \/ \E s \in Run \ {r} : Live(s))
==============================================================================
