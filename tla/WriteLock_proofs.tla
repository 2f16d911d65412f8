-------------------------- MODULE WriteLock_proofs --------------------------
(***************************************************************************)
(* Proofs about the write lock, for any number of processes and breaks.    *)
(***************************************************************************)
EXTENDS WriteLock, TLAPS

\* The type invariant needs to know that a process that runs has an incarnation.
Running == \A p \in Pid : pc[p] # "gone" => gen[p] >= 1

LEMMA TokenOfRunning ==
  ASSUME TypeOK, Running, NEW p \in Pid, pc[p] # "gone"
  PROVE  Me(p) \in Token
BY WriteLockAssumption DEF TypeOK, Running, Me, Token

LEMMA LockTextType ==
  ASSUME TypeOK
  PROVE  LockText \in Text /\ Inspected \in Seen
<1>1. LockText \in Text
  BY DEF TypeOK, LockText, Text, File
<1>2. (LockText # Absent /\ Held(LockText)) \in BOOLEAN
  BY DEF Held
<1> QED
  BY <1>1, <1>2 DEF Inspected, Seen

\* Every variable keeps to its set: the type invariant of the write lock.
THEOREM TypeCorrect == Spec => []TypeOK
<1>1. Init => TypeOK /\ Running
  BY WriteLockAssumption DEF Init, TypeOK, Running, Text, Seen, PidStates, BreakStates
<1>2. TypeOK /\ Running /\ [Next]_vars => (TypeOK /\ Running)'
  <2> SUFFICES ASSUME TypeOK, Running, [Next]_vars
               PROVE  TypeOK' /\ Running'
    OBVIOUS
  <2> USE DEF TypeOK, Running, Goto, breakVars, procVars
  <2>1. ASSUME NEW p \in Pid, Spawn(p) PROVE TypeOK' /\ Running'
    BY <2>1, WriteLockAssumption DEF Spawn, PidStates
  <2>2. ASSUME NEW p \in Pid, Die(p) PROVE TypeOK' /\ Running'
    BY <2>2 DEF Die, Drop, PidStates
  <2>3. ASSUME NEW p \in Pid, Create(p) PROVE TypeOK' /\ Running'
    <3>1. Me(p) \in Token
      BY <2>3, TokenOfRunning DEF Create
    <3> QED
      BY <2>3, <3>1 DEF Create, File, PidStates
  <2>4. ASSUME NEW p \in Pid,
               CreateExists(p) \/ WriteFails(p) \/ Judge(p) \/ GuardTimeout(p)
                 \/ Release(p) \/ ReleaseCheck(p) \/ Busy(p) \/ Retry(p) \/ GiveUp(p)
        PROVE  TypeOK' /\ Running'
    BY <2>4 DEF CreateExists, WriteFails, Judge, GuardTimeout, Release, ReleaseCheck,
                Busy, Retry, GiveUp, PidStates
  <2>5. ASSUME NEW p \in Pid, Write(p) PROVE TypeOK' /\ Running'
    BY <2>5 DEF Write, File, PidStates
  <2>6. ASSUME NEW p \in Pid, Undo(p) \/ ReleaseRemove(p) \/ Unlink(p)
        PROVE  TypeOK' /\ Running'
    BY <2>6 DEF Undo, ReleaseRemove, Unlink, PidStates
  <2>7. ASSUME NEW p \in Pid, Read(p) PROVE TypeOK' /\ Running'
    BY <2>7, LockTextType DEF Read, PidStates
  <2>8. ASSUME NEW p \in Pid, TakeGuard(p) \/ Reread(p) \/ Restat(p)
        PROVE  TypeOK' /\ Running'
    BY <2>8 DEF TakeGuard, Reread, Restat, PidStates
  <2>9. CASE Age
    BY <2>9 DEF Age, File
  <2>10. CASE Expire
    BY <2>10 DEF Expire, Text
  <2>11. ASSUME NEW b \in Breaker, StartBreak(b) PROVE TypeOK' /\ Running'
    BY <2>11, WriteLockAssumption DEF StartBreak, BGoto, BreakStates
  <2>12. ASSUME NEW b \in Breaker, Inspect(b) \/ Reinspect(b) PROVE TypeOK' /\ Running'
    BY <2>12, LockTextType DEF Inspect, Reinspect, BGoto, BreakStates
  <2>13. ASSUME NEW b \in Breaker, Decide(b) PROVE TypeOK' /\ Running'
    <3>1. first[b].text \in Text
      BY DEF Seen
    <3> QED
      BY <2>13, <3>1 DEF Decide, BGoto, BreakStates
  <2>14. ASSUME NEW b \in Breaker, Stop(b) PROVE TypeOK' /\ Running'
    BY <2>14 DEF Stop, BGoto, BreakStates, Drop, PidStates
  <2>15. ASSUME NEW b \in Breaker,
                BreakGuard(b) \/ BreakReread(b) \/ BreakUnlink(b) \/ BreakDies(b)
         PROVE  TypeOK' /\ Running'
    BY <2>15 DEF BreakGuard, BreakReread, BreakUnlink, BreakDies, Drop, BGoto, BreakStates
  <2>16. ASSUME NEW b \in Breaker, Disarm(b) PROVE TypeOK' /\ Running'
    BY <2>16 DEF Disarm, BGoto, BreakStates, Text
  <2>17. CASE UNCHANGED vars
    BY <2>17 DEF vars
  <2> QED
    BY <2>1, <2>2, <2>3, <2>4, <2>5, <2>6, <2>7, <2>8, <2>9, <2>10, <2>11, <2>12, <2>13,
       <2>14, <2>15, <2>16, <2>17 DEF Next, Step, Loop, BreakStep
<1> QED
  BY <1>1, <1>2, PTL DEF Spec

------------------------------------------------------------------------------
(* Mutual exclusion: each action keeps the inductive invariant IInv.         *)

\* What mutual exclusion rests on: kill(pid, 0) tells the truth, nobody forces a break,
\* no process is stopped between reading an empty lock and looking at its age, and beside
\* a break no empty lock is left behind (its text would not tell it from a new one).
Honest ==
  /\ ~SlowStat /\ OtherUser = {} /\ "force" \notin Flags
  /\ CrashInGap \/ Windows => Breaker = {}

LEMMA NoFileIsNone == NoFile \notin File
BY WriteLockAssumption DEF File, Token

\* A pid comes back: a text that named it names an earlier incarnation.
LEMMA SpawnKeeps ==
  ASSUME TypeOK, IInv, NEW p \in Pid, Spawn(p)
  PROVE  IInv'
<1> USE DEF TypeOK, IInv, Spawn, Goto, breakVars
<1>1. OwnerOnDisk'
  BY DEF OwnerOnDisk, Owning, Writing, Holding, Me
<1>2. Born'
  BY DEF Born, Me, Token, File, LockText, Text
<1>3. ReclaimsTheDead'
  BY SMTT(30) DEF ReclaimsTheDead, Defunct, LockText, OwnerOnDisk, Owning, Writing,
     Holding, Me, Born, Token, Text
<1>4. BreaksTheDead'
  BY SMTT(30) DEF BreaksTheDead, Defunct, LockText, OwnerOnDisk, Owning, Writing,
     Holding, Me, Born, Token
<1>5. UnwrittenIsStarting'
  BY DEF UnwrittenIsStarting, Writing, Me
<1>6. GuardHeld'
  BY DEF GuardHeld
<1> QED
  BY <1>1, <1>2, <1>3, <1>4, <1>5, <1>6

\* A command dies: its lock stays, and now names a command that has ended.
LEMMA DieKeeps ==
  ASSUME Honest, TypeOK, IInv, NEW p \in Pid, Die(p)
  PROVE  IInv'
<1> USE DEF TypeOK, IInv, Die, Goto, Drop, MayEnd, breakVars
<1>1. OwnerOnDisk'
  BY DEF OwnerOnDisk, Owning, Writing, Holding, Me
<1>2. Born'
  BY DEF Born
<1>3. ReclaimsTheDead'
  BY DEF ReclaimsTheDead, Defunct, LockText
<1>4. BreaksTheDead'
  BY DEF BreaksTheDead, Defunct, LockText
<1>5. UnwrittenIsStarting'
  BY DEF Honest, UnwrittenIsStarting, Writing, Me
<1>6. GuardHeld'
  BY WriteLockAssumption DEF GuardHeld
<1> QED
  BY <1>1, <1>2, <1>3, <1>4, <1>5, <1>6

\* The create finds no file, so nobody owned the lock.
LEMMA CreateKeeps ==
  ASSUME TypeOK, IInv, NEW p \in Pid, Create(p)
  PROVE  IInv'
<1>1. Me(p) \in Token
  <2>1. Running
    BY DEF IInv, Born, Running
  <2> QED BY <2>1, TokenOfRunning DEF Create
<1>2. lockFile' \in File /\ lockFile'.by = Me(p) /\ ~lockFile'.written /\ ~lockFile'.old
  BY <1>1 DEF Create, File
<1>3. lockFile' # NoFile
  BY <1>2, NoFileIsNone
<1>4. \A q \in Pid : ~Owning(q)
  BY DEF IInv, OwnerOnDisk, Create
<1> USE DEF TypeOK, IInv, Create, Goto, breakVars
<1>5. OwnerOnDisk'
  BY <1>1, <1>2, <1>3, <1>4 DEF OwnerOnDisk, Owning, Writing, Holding, Me
<1>6. Born'
  BY <1>1, <1>2, <1>3, <1>4 DEF Born, Me
<1>7. ReclaimsTheDead'
  BY <1>1, <1>2, <1>3, <1>4 DEF ReclaimsTheDead, Defunct, LockText
<1>8. BreaksTheDead'
  BY <1>1, <1>2, <1>3, <1>4 DEF BreaksTheDead, Defunct, LockText
<1>9. UnwrittenIsStarting'
  BY <1>1, <1>2, <1>3, <1>4 DEF UnwrittenIsStarting, Writing, Me
<1>10. GuardHeld'
  BY <1>1, <1>2, <1>3, <1>4 DEF GuardHeld
<1> QED
  BY <1>5, <1>6, <1>7, <1>8, <1>9, <1>10

\* Steps of a claim or a release that touch neither the file nor the guard.
LEMMA QuietKeeps ==
  ASSUME TypeOK, IInv, NEW p \in Pid,
         CreateExists(p) \/ WriteFails(p) \/ GuardTimeout(p) \/ Release(p) \/
           ReleaseCheck(p) \/ Busy(p) \/ Retry(p) \/ GiveUp(p)
  PROVE  IInv'
<1> USE DEF TypeOK, IInv, CreateExists, WriteFails, GuardTimeout, Release, ReleaseCheck,
   Busy, Retry, GiveUp, Goto, breakVars
<1>1. OwnerOnDisk'
  BY DEF OwnerOnDisk, Owning, Writing, Holding, Me
<1>2. Born'
  BY DEF Born
<1>3. ReclaimsTheDead'
  BY SMTT(30) DEF ReclaimsTheDead, Defunct, LockText, OwnerOnDisk, Owning, Writing,
     Holding, Me, Born, Token, Text
<1>4. BreaksTheDead'
  BY SMTT(30) DEF BreaksTheDead, Defunct, LockText, OwnerOnDisk, Owning, Writing,
     Holding, Me, Born, Token
<1>5. UnwrittenIsStarting'
  BY SMTT(30) DEF UnwrittenIsStarting, Writing, Me, File, Token, OwnerOnDisk, Owning,
     Holding
<1>6. GuardHeld'
  BY DEF GuardHeld
<1> QED
  BY <1>1, <1>2, <1>3, <1>4, <1>5, <1>6

\* The owner writes its text into the file it created.
LEMMA WriteKeeps ==
  ASSUME TypeOK, IInv, NEW p \in Pid, Write(p)
  PROVE  IInv'
<1>1. lockFile # NoFile /\ lockFile.by = Me(p) /\ lockFile \in File
  BY DEF TypeOK, IInv, OwnerOnDisk, Write, Owning, Writing
<1>2. lockFile' = [lockFile EXCEPT !.written = TRUE, !.old = FALSE]
  BY <1>1 DEF Write
<1>3. lockFile' = [by |-> Me(p), written |-> TRUE, old |-> FALSE]
  BY <1>1, <1>2 DEF File
<1>4. lockFile' # NoFile
  <2>1. Me(p) \in Token
    BY <1>1 DEF File
  <2>2. lockFile' \in File
    BY <1>3, <2>1 DEF File
  <2> QED
    BY <2>2, NoFileIsNone
<1>5. \A q \in Pid : Owning(q) => q = p
  BY <1>1 DEF IInv, OwnerOnDisk, Me
<1> USE DEF TypeOK, IInv, Write, Goto, breakVars
<1>6. OwnerOnDisk'
  BY <1>1, <1>3, <1>4, <1>5 DEF OwnerOnDisk, Owning, Writing, Holding, Me
<1>7. Born'
  BY <1>1, <1>3, <1>4, <1>5 DEF Born
<1>8. ReclaimsTheDead'
  BY <1>1, <1>3, <1>4, <1>5, SMTT(30) DEF ReclaimsTheDead, Defunct, LockText,
     OwnerOnDisk, Owning, Writing, Holding, Me
<1>9. BreaksTheDead'
  BY WriteLockAssumption, <1>1, <1>3, <1>4, <1>5, SMTT(30) DEF BreaksTheDead, Defunct,
     LockText, OwnerOnDisk, Owning, Writing, Holding, Me, Born, Token
<1>10. UnwrittenIsStarting'
  BY <1>1, <1>3, <1>4, <1>5 DEF UnwrittenIsStarting
<1>11. GuardHeld'
  BY <1>1, <1>3, <1>4, <1>5 DEF GuardHeld
<1> QED
  BY <1>6, <1>7, <1>8, <1>9, <1>10, <1>11

\* The owner deletes its own file.
LEMMA RemoveKeeps ==
  ASSUME Honest, TypeOK, IInv, NEW p \in Pid, Undo(p) \/ ReleaseRemove(p)
  PROVE  IInv'
<1> USE DEF TypeOK, IInv, Undo, ReleaseRemove, Goto, breakVars
<1>1. OwnerOnDisk'
  BY DEF OwnerOnDisk, Owning, Writing, Holding, Me
<1>2. Born'
  BY DEF Born
<1>3. ReclaimsTheDead'
  BY SMTT(30) DEF ReclaimsTheDead, Defunct, LockText, OwnerOnDisk, Owning, Writing,
     Holding, Held, Me, Text, Token, Born, GuardHeld, File, PidStates
<1>4. BreaksTheDead'
  BY WriteLockAssumption, SMTT(30) DEF BreaksTheDead, Defunct, LockText, OwnerOnDisk,
     Owning, Writing, Holding, Me, Born, Token
<1>5. UnwrittenIsStarting'
  BY DEF Honest, UnwrittenIsStarting
<1>6. GuardHeld'
  BY DEF GuardHeld
<1> QED
  BY <1>1, <1>2, <1>3, <1>4, <1>5, <1>6

\* A text that is read names an incarnation that has started.
LEMMA ReadKeeps ==
  ASSUME TypeOK, IInv, NEW p \in Pid, Read(p)
  PROVE  IInv'
<1> USE DEF TypeOK, IInv, Read, Goto, breakVars
<1>1. OwnerOnDisk'
  BY DEF OwnerOnDisk, Owning, Writing, Holding, Me
<1>2. Born'
  BY WriteLockAssumption DEF Born, Me, Token, File, LockText, Text
<1>3. ReclaimsTheDead'
  BY DEF ReclaimsTheDead, Defunct, LockText
<1>4. BreaksTheDead'
  BY DEF BreaksTheDead, Defunct, LockText
<1>5. UnwrittenIsStarting'
  BY DEF UnwrittenIsStarting, Writing, Me
<1>6. GuardHeld'
  BY DEF GuardHeld
<1> QED
  BY <1>1, <1>2, <1>3, <1>4, <1>5, <1>6

\* kill(pid, 0) fails only for a command that has ended, and an empty text is judged again.
LEMMA JudgeKeeps ==
  ASSUME Honest, TypeOK, IInv, NEW p \in Pid, Judge(p)
  PROVE  IInv'
<1> USE DEF TypeOK, IInv, Judge, Goto, PidAlive, breakVars
<1>1. OwnerOnDisk'
  BY DEF OwnerOnDisk, Owning, Writing, Holding, Me
<1>2. Born'
  BY DEF Born
<1>3. ReclaimsTheDead'
  BY WriteLockAssumption, SMTT(30) DEF Honest, ReclaimsTheDead, Defunct, LockText,
     OwnerOnDisk, Owning, Writing, Holding, Held, Me, Text, Token, Born, GuardHeld,
     File, PidStates
<1>4. BreaksTheDead'
  BY DEF BreaksTheDead, Defunct, LockText
<1>5. UnwrittenIsStarting'
  BY DEF UnwrittenIsStarting, Writing, Me
<1>6. GuardHeld'
  BY DEF GuardHeld
<1> QED
  BY <1>1, <1>2, <1>3, <1>4, <1>5, <1>6

\* One holder of the guard at a time.
LEMMA TakeGuardKeeps ==
  ASSUME TypeOK, IInv, NEW p \in Pid, TakeGuard(p)
  PROVE  IInv'
<1> USE DEF TypeOK, IInv, TakeGuard, Goto, breakVars
<1>1. OwnerOnDisk'
  BY DEF OwnerOnDisk, Owning, Writing, Holding, Me
<1>2. Born'
  BY DEF Born
<1>3. ReclaimsTheDead'
  BY DEF ReclaimsTheDead, Defunct, LockText
<1>4. BreaksTheDead'
  BY DEF BreaksTheDead, Defunct, LockText
<1>5. UnwrittenIsStarting'
  BY DEF UnwrittenIsStarting, Writing, Me
<1>6. GuardHeld'
  BY WriteLockAssumption DEF GuardHeld
<1> QED
  BY <1>1, <1>2, <1>3, <1>4, <1>5, <1>6

\* Under the guard the file still holds the text that was judged stale.
LEMMA RereadKeeps ==
  ASSUME Honest, TypeOK, IInv, NEW p \in Pid, Reread(p) \/ Restat(p)
  PROVE  IInv'
<1> USE DEF TypeOK, IInv, Reread, Restat, Goto, breakVars
<1>1. OwnerOnDisk'
  BY DEF OwnerOnDisk, Owning, Writing, Holding, Me
<1>2. Born'
  BY DEF Born
<1>3. ReclaimsTheDead'
  BY SMTT(30) DEF Honest, ReclaimsTheDead, Defunct, LockText, OwnerOnDisk, Owning,
     Writing, Holding, Held, Me, Text, Token, Born, GuardHeld, File, PidStates
<1>4. BreaksTheDead'
  BY SMTT(30) DEF BreaksTheDead, Defunct, LockText, OwnerOnDisk, Owning, Writing,
     Holding, Me, Born, Token
<1>5. UnwrittenIsStarting'
  BY SMTT(30) DEF UnwrittenIsStarting, Writing, Me, File, Token, OwnerOnDisk, Owning,
     Holding
<1>6. GuardHeld'
  BY WriteLockAssumption DEF GuardHeld
<1> QED
  BY <1>1, <1>2, <1>3, <1>4, <1>5, <1>6

\* The file a reclaimer deletes belongs to nobody who runs.
LEMMA UnlinkKeeps ==
  ASSUME Honest, TypeOK, IInv, NEW p \in Pid, Unlink(p)
  PROVE  IInv'
<1>1. \A q \in Pid : ~Owning(q)
  <2> SUFFICES ASSUME NEW q \in Pid, Owning(q) PROVE FALSE
    OBVIOUS
  <2>1. lockFile # NoFile /\ lockFile.by = Me(q) /\ lockFile.by \in Token
    BY DEF TypeOK, IInv, OwnerOnDisk, File
  <2>2. LockText = raw[p] /\ (raw[p] = Empty => lockFile.old)
    BY DEF Unlink, IInv, ReclaimsTheDead
  <2>3. CASE lockFile.written
    <3>1. raw[p] = Me(q) /\ Me(q) \in Token
      BY <2>1, <2>2, <2>3 DEF LockText
    <3>2. Defunct(Me(q)) /\ pc[q] # "gone"
      BY <3>1 DEF Unlink, IInv, ReclaimsTheDead, Owning, Writing, Holding
    <3> QED
      BY <3>2 DEF Defunct, Me, TypeOK
  <2>4. CASE ~lockFile.written
    BY <2>1, <2>2, <2>4 DEF LockText, IInv, OwnerOnDisk, Owning
  <2> QED
    BY <2>3, <2>4
<1> USE DEF TypeOK, IInv, Unlink, Goto, breakVars
<1>2. OwnerOnDisk'
  BY <1>1 DEF OwnerOnDisk, Owning, Writing, Holding, Me
<1>3. Born'
  BY <1>1 DEF Born
<1>4. ReclaimsTheDead'
  BY <1>1, SMTT(30) DEF ReclaimsTheDead, Defunct, LockText, OwnerOnDisk, Owning,
     Writing, Holding, Held, Me, Text, Token, Born, GuardHeld, File, PidStates
<1>5. BreaksTheDead'
  BY WriteLockAssumption, <1>1, SMTT(30) DEF BreaksTheDead, Defunct, LockText,
     OwnerOnDisk, Owning, Writing, Holding, Held, Me, Text, Token, Born, GuardHeld,
     File, UnwrittenIsStarting, Seen
<1>6. UnwrittenIsStarting'
  BY <1>1 DEF Honest, UnwrittenIsStarting
<1>7. GuardHeld'
  BY WriteLockAssumption, <1>1 DEF GuardHeld
<1> QED
  BY <1>2, <1>3, <1>4, <1>5, <1>6, <1>7

\* Steps of a break that touch neither the file nor a process.
LEMMA QuietBreakKeeps ==
  ASSUME TypeOK, IInv, NEW b \in Breaker,
         StartBreak(b) \/ Inspect(b) \/ Decide(b) \/ Disarm(b) \/ BreakDies(b)
  PROVE  IInv'
<1> USE DEF TypeOK, IInv, StartBreak, Inspect, Decide, Disarm, BreakDies, BGoto, Drop,
   Inspected, procVars
<1>1. OwnerOnDisk'
  BY DEF OwnerOnDisk, Owning, Writing, Holding, Me
<1>2. Born'
  BY DEF Born
<1>3. ReclaimsTheDead'
  BY DEF ReclaimsTheDead, Defunct, LockText
<1>4. BreaksTheDead'
  BY DEF BreaksTheDead, Defunct, LockText
<1>5. UnwrittenIsStarting'
  BY DEF UnwrittenIsStarting, Writing, Me
<1>6. GuardHeld'
  BY WriteLockAssumption DEF GuardHeld
<1> QED
  BY <1>1, <1>2, <1>3, <1>4, <1>5, <1>6

\* --stop-process ends the holder, who may be in any state.
LEMMA StopKeeps ==
  ASSUME Honest, TypeOK, IInv, NEW b \in Breaker, Stop(b)
  PROVE  IInv'
<1>1. first[b].text # Empty => first[b].text[1] \in Pid
  BY DEF Stop, TypeOK, Seen, Text, Token, IInv, BreaksTheDead
<1> USE DEF TypeOK, IInv, Stop, Goto, BGoto, Drop, MayEnd, PidAlive, procVars
<1>2. OwnerOnDisk'
  BY <1>1 DEF OwnerOnDisk, Owning, Writing, Holding, Me
<1>3. Born'
  BY <1>1 DEF Born
<1>4. ReclaimsTheDead'
  BY <1>1, SMTT(30) DEF ReclaimsTheDead, Defunct, LockText, OwnerOnDisk, Owning,
     Writing, Holding, Me, Born, Token, Text
<1>5. BreaksTheDead'
  BY <1>1, SMTT(30) DEF BreaksTheDead, Defunct, LockText, OwnerOnDisk, Owning, Writing,
     Holding, Me, Born, Token
<1>6. UnwrittenIsStarting'
  BY <1>1, SMTT(30) DEF Honest, UnwrittenIsStarting, Writing, Me, File, Token,
     OwnerOnDisk, Owning, Holding
<1>7. GuardHeld'
  BY WriteLockAssumption, <1>1 DEF GuardHeld
<1> QED
  BY <1>2, <1>3, <1>4, <1>5, <1>6, <1>7

\* A break goes on only against a lock whose holder has ended.
LEMMA ReinspectKeeps ==
  ASSUME Honest, TypeOK, IInv, NEW b \in Breaker, Reinspect(b)
  PROVE  IInv'
<1>1. ~Windows /\ flag[b] # "force"
  BY DEF Honest, IInv, BreaksTheDead
<1>2. second' = [second EXCEPT ![b] = Inspected] /\ second'[b].text = LockText
  BY <1>1 DEF Reinspect, TypeOK, Inspected
<1>3. bpc'[b] = "guard" => LockText # Absent /\ ~Held(LockText)
  BY <1>1 DEF Reinspect, TypeOK, BGoto, Inspected
<1>4. bpc'[b] \in {"disarm", "off", "guard"}
  BY DEF Reinspect, TypeOK, BGoto
<1>5. bpc'[b] = "guard" => LockText \in Token /\ Defunct(LockText)
  <2> SUFFICES ASSUME LockText # Absent, ~Held(LockText)
               PROVE  LockText \in Token /\ Defunct(LockText)
    BY <1>3
  <2>1. lockFile # NoFile /\ lockFile \in File /\ lockFile.by \in Token
    BY DEF TypeOK, LockText, File
  <2>2. CASE lockFile.written
    <3>1. LockText = lockFile.by /\ LockText # Empty
      BY <2>1, <2>2, WriteLockAssumption DEF LockText, Token
    <3>2. pc[lockFile.by[1]] = "gone"
      BY <2>1, <3>1 DEF Held, PidAlive, Honest
    <3> QED
      BY <2>1, <3>1, <3>2 DEF Defunct, IInv, Born, Token, TypeOK
  <2>3. CASE ~lockFile.written
    <3>1. lockFile.old
      BY <2>1, <2>3 DEF LockText, Held
    <3> QED
      BY <2>1, <2>3, <3>1 DEF IInv, UnwrittenIsStarting, OwnerOnDisk, Owning, Token
  <2> QED
    BY <2>2, <2>3
<1> USE DEF TypeOK, IInv, Reinspect, BGoto, Inspected, PidAlive, procVars
<1>6. OwnerOnDisk'
  BY <1>1, <1>2, <1>4, <1>5 DEF OwnerOnDisk, Owning, Writing, Holding, Me
<1>7. Born'
  BY <1>1, <1>2, <1>4, <1>5 DEF Born
<1>8. ReclaimsTheDead'
  BY <1>1, <1>2, <1>4, <1>5 DEF ReclaimsTheDead, Defunct, LockText
<1>9. BreaksTheDead'
  BY <1>1, <1>2, <1>4, <1>5 DEF BreaksTheDead, Defunct, LockText
<1>10. UnwrittenIsStarting'
  BY <1>1, <1>2, <1>4, <1>5 DEF UnwrittenIsStarting, Writing, Me
<1>11. GuardHeld'
  BY <1>1, <1>2, <1>4, <1>5 DEF GuardHeld
<1> QED
  BY <1>6, <1>7, <1>8, <1>9, <1>10, <1>11

\* Under the guard the file still holds the text the break found stale.
LEMMA BreakRereadKeeps ==
  ASSUME TypeOK, IInv, NEW b \in Breaker, BreakGuard(b) \/ BreakReread(b)
  PROVE  IInv'
<1> USE DEF TypeOK, IInv, BreakGuard, BreakReread, BGoto, procVars
<1>1. OwnerOnDisk'
  BY DEF OwnerOnDisk, Owning, Writing, Holding, Me
<1>2. Born'
  BY DEF Born
<1>3. ReclaimsTheDead'
  BY DEF ReclaimsTheDead, Defunct, LockText
<1>4. BreaksTheDead'
  BY WriteLockAssumption, SMTT(30) DEF BreaksTheDead, Defunct, LockText, OwnerOnDisk,
     Owning, Writing, Holding, Me, Born, Token
<1>5. UnwrittenIsStarting'
  BY DEF UnwrittenIsStarting, Writing, Me
<1>6. GuardHeld'
  BY WriteLockAssumption DEF GuardHeld
<1> QED
  BY <1>1, <1>2, <1>3, <1>4, <1>5, <1>6

\* The file a break deletes belongs to nobody who runs.
LEMMA BreakUnlinkKeeps ==
  ASSUME Honest, TypeOK, IInv, NEW b \in Breaker, BreakUnlink(b)
  PROVE  IInv'
<1>1. \A q \in Pid : ~Owning(q)
  BY WriteLockAssumption, SMTT(30)
     DEF BreakUnlink, TypeOK, IInv, BreaksTheDead, Defunct, LockText, OwnerOnDisk, Owning,
         Writing, Holding, Me, Token, Born
<1> USE DEF TypeOK, IInv, BreakUnlink, BGoto, procVars
<1>2. OwnerOnDisk'
  BY <1>1 DEF OwnerOnDisk, Owning, Writing, Holding, Me
<1>3. Born'
  BY <1>1 DEF Born
<1>4. ReclaimsTheDead'
  BY WriteLockAssumption, <1>1 DEF ReclaimsTheDead, Defunct, LockText, GuardHeld
<1>5. BreaksTheDead'
  BY <1>1 DEF BreaksTheDead, Defunct, LockText, GuardHeld
<1>6. UnwrittenIsStarting'
  BY <1>1 DEF Honest, UnwrittenIsStarting
<1>7. GuardHeld'
  BY WriteLockAssumption, <1>1 DEF GuardHeld
<1> QED
  BY <1>2, <1>3, <1>4, <1>5, <1>6, <1>7

\* Time passes: an unwritten lock grows old, a warning expires.
LEMMA ClockKeeps ==
  ASSUME TypeOK, IInv, Age \/ Expire
  PROVE  IInv'
<1> USE DEF TypeOK, IInv, Age, Expire, procVars, breakVars
<1>1. OwnerOnDisk'
  BY DEF OwnerOnDisk, Owning, Writing, Holding, Me
<1>2. Born'
  BY DEF Born, Me, Token, File, LockText, Text
<1>3. ReclaimsTheDead'
  BY DEF ReclaimsTheDead, Defunct, LockText
<1>4. BreaksTheDead'
  BY WriteLockAssumption, SMTT(30) DEF BreaksTheDead, Defunct, LockText, OwnerOnDisk,
     Owning, Writing, Holding, Me, Born, Token
<1>5. UnwrittenIsStarting'
  BY SMTT(30) DEF UnwrittenIsStarting, Writing, Me, File, Token, OwnerOnDisk, Owning,
     Holding
<1>6. GuardHeld'
  BY DEF GuardHeld
<1> QED
  BY <1>1, <1>2, <1>3, <1>4, <1>5, <1>6

\* Whatever order creates, crashes, pid reuse, reclaims and breaks come in, the invariant
\* that a lock about to be deleted belongs to nobody who runs is kept by every step.
LEMMA StepKeeps ==
  ASSUME Honest, TypeOK, IInv, [Next]_vars
  PROVE  IInv'
<1>1. ASSUME NEW p \in Pid, Spawn(p) \/ Die(p) PROVE IInv'
  BY <1>1, SpawnKeeps, DieKeeps
<1>2. ASSUME NEW p \in Pid, Step(p) \/ Loop(p) PROVE IInv'
  BY <1>2, CreateKeeps, QuietKeeps, WriteKeeps, RemoveKeeps, ReadKeeps, JudgeKeeps,
     TakeGuardKeeps, RereadKeeps, UnlinkKeeps DEF Step, Loop
<1>3. ASSUME NEW b \in Breaker, StartBreak(b) \/ BreakStep(b) \/ BreakDies(b) PROVE IInv'
  BY <1>3, QuietBreakKeeps, StopKeeps, ReinspectKeeps, BreakRereadKeeps, BreakUnlinkKeeps
     DEF BreakStep
<1>4. CASE Age \/ Expire
  BY <1>4, ClockKeeps
<1>5. CASE UNCHANGED vars
  BY <1>5 DEF vars, procVars, breakVars, IInv, OwnerOnDisk, Owning, Me, Born, LockText,
     ReclaimsTheDead, Defunct, BreaksTheDead, UnwrittenIsStarting, GuardHeld
<1> QED
  BY <1>1, <1>2, <1>3, <1>4, <1>5 DEF Next

LEMMA InitInvariant == Init => IInv
BY WriteLockAssumption
   DEF Init, IInv, OwnerOnDisk, Owning, Writing, Holding, Born, Token, ReclaimsTheDead,
       BreaksTheDead, UnwrittenIsStarting, GuardHeld

\* At most one command owns the write lock, for any number of processes, incarnations and
\* breaks (acquire_write_lock, _claim, _reclaim, break_write_lock, stop_lock_holder).
THEOREM OneOwner ==
  ASSUME Honest
  PROVE  Spec => []MutualExclusion
<1>1. TypeOK /\ IInv /\ [Next]_vars => IInv'
  BY StepKeeps
<1>2. IInv => MutualExclusion
  BY DEF IInv, OwnerOnDisk, MutualExclusion, Me
<1> QED
  BY <1>1, <1>2, InitInvariant, TypeCorrect, PTL DEF Spec

\* A step that takes an owner's file away is the owner's own: a reclaim or a break deletes
\* only what belongs to nobody who runs.
THEOREM OwnerKeepsLock ==
  ASSUME Honest
  PROVE  Spec => OwnedLockLeftAlone
<1> DEFINE Kept == \A p \in Pid :
      Owning(p) /\ lockFile # NoFile /\ lockFile.by = Me(p) /\ lockFile' = NoFile
        => pc[p] # pc'[p]
<1>1. TypeOK /\ IInv /\ [Next]_vars => IInv' /\ [Kept]_vars
  <2> SUFFICES ASSUME TypeOK, IInv, [Next]_vars PROVE IInv' /\ Kept
    OBVIOUS
  <2>1. IInv'
    BY StepKeeps
  <2>2. ASSUME NEW p \in Pid, Owning(p), lockFile' = NoFile PROVE pc[p] # pc'[p]
    BY <2>1, <2>2 DEF IInv, OwnerOnDisk, Owning
  <2> QED
    BY <2>1, <2>2
<1> QED
  BY <1>1, InitInvariant, TypeCorrect, PTL DEF Spec, OwnedLockLeftAlone

------------------------------------------------------------------------------
(* The file protocol implements the exclusive lock (ExclusiveLock).          *)

\* A claim comes to own the lock by creating its file, and by nothing else: every other
\* step leaves the file, deletes it, or writes into it, and adds no owner.
LEMMA OnlyCreateTakes ==
  ASSUME TypeOK, IInv, [Next]_vars
  PROVE  \/ \E p \in Pid : Create(p)
         \/ /\ Owners' \subseteq Owners
            /\ \/ lockFile' = NoFile
               \/ lockFile # NoFile /\ lockFile'.by = lockFile.by
<1> DEFINE Adds == /\ \A q \in Pid : Owning(q)' => Owning(q)
                   /\ \/ lockFile' = NoFile
                      \/ lockFile # NoFile /\ lockFile'.by = lockFile.by
<1> SUFFICES ASSUME \A p \in Pid : ~Create(p) PROVE Adds
  BY DEF Owners
<1> USE DEF TypeOK, Owning, Writing, Holding, Goto, Drop, breakVars, procVars
<1>1. ASSUME NEW p \in Pid, Spawn(p) \/ Die(p) PROVE Adds
  BY <1>1 DEF Spawn, Die
<1>2. ASSUME NEW p \in Pid,
             CreateExists(p) \/ WriteFails(p) \/ Judge(p) \/ GuardTimeout(p) \/ Read(p)
               \/ Release(p) \/ ReleaseCheck(p) \/ Busy(p) \/ Retry(p) \/ GiveUp(p)
      PROVE  Adds
  BY <1>2 DEF CreateExists, WriteFails, Judge, GuardTimeout, Read, Release, ReleaseCheck,
              Busy, Retry, GiveUp
<1>3. ASSUME NEW p \in Pid, Write(p) PROVE Adds
  <2>1. lockFile # NoFile /\ lockFile.by = Me(p) /\ lockFile \in File
    BY <1>3 DEF IInv, OwnerOnDisk, Write
  <2>2. lockFile' = [lockFile EXCEPT !.written = TRUE, !.old = FALSE]
    BY <1>3, <2>1 DEF Write
  <2>3. lockFile'.by = lockFile.by
    BY <2>1, <2>2 DEF File
  <2> QED
    BY <1>3, <2>1, <2>3 DEF Write
<1>4. ASSUME NEW p \in Pid, Undo(p) \/ ReleaseRemove(p) \/ Unlink(p) PROVE Adds
  BY <1>4 DEF Undo, ReleaseRemove, Unlink
<1>5. ASSUME NEW p \in Pid, TakeGuard(p) \/ Reread(p) \/ Restat(p) PROVE Adds
  BY <1>5 DEF TakeGuard, Reread, Restat
<1>6. CASE Age
  BY <1>6 DEF Age, File
<1>7. CASE Expire
  BY <1>7 DEF Expire
<1>8. ASSUME NEW b \in Breaker, StartBreak(b) \/ BreakStep(b) \/ BreakDies(b) PROVE Adds
  BY <1>8 DEF StartBreak, BreakStep, Inspect, Decide, Stop, Reinspect, BreakGuard,
              BreakReread, BreakUnlink, Disarm, BreakDies
<1>9. CASE UNCHANGED vars
  BY <1>9 DEF vars
<1> QED
  BY <1>1, <1>2, <1>3, <1>4, <1>5, <1>6, <1>7, <1>8, <1>9 DEF Next, Step, Loop

\* The owner the mapping gives is the creator of the file on disk.
TheOwner == IF Owners = {} THEN NoOne ELSE LET p == CHOOSE p \in Owners : TRUE IN Me(p)
LeftLying == Owners = {} /\ lockFile # NoFile

LEMMA OwnerByFile ==
  TypeOK /\ IInv /\ Owners # {} =>
    TheOwner = lockFile.by /\ TheOwner \in Token /\ lockFile # NoFile
<1> SUFFICES ASSUME TypeOK, IInv, Owners # {}
             PROVE  TheOwner = lockFile.by /\ TheOwner \in Token /\ lockFile # NoFile
  OBVIOUS
<1> DEFINE q == CHOOSE p \in Owners : TRUE
<1>1. q \in Pid /\ Owning(q)
  BY DEF Owners
<1>2. lockFile # NoFile /\ lockFile.by = Me(q)
  BY <1>1 DEF IInv, OwnerOnDisk
<1>3. lockFile.by \in Token
  BY <1>2 DEF TypeOK, File
<1>4. TheOwner = Me(q)
  BY DEF TheOwner
<1> QED
  BY <1>2, <1>3, <1>4

\* Each step of the file protocol takes the exclusive lock, leaves it, reclaims it, or
\* changes nothing of it.
LEMMA StepImplements ==
  ASSUME TypeOK, IInv, TypeOK', IInv', [Next]_vars
  PROVE  [Promise!Next]_<<TheOwner, LeftLying>>
<1>0. (TypeOK /\ IInv /\ Owners # {} =>
         TheOwner = lockFile.by /\ TheOwner \in Token /\ lockFile # NoFile)'
  BY OwnerByFile, PTL
<1>1. CASE \E p \in Pid : Create(p)
  <2>1. lockFile = NoFile /\ Owners = {}
    BY <1>1 DEF Create, IInv, OwnerOnDisk, Owners
  <2>2. Owners' # {}
    BY <1>1 DEF Create, Owners, Owning, Writing, Goto, TypeOK
  <2>3. TheOwner = NoOne /\ ~LeftLying /\ LeftLying \in BOOLEAN
    BY <2>1 DEF TheOwner, LeftLying
  <2>4. TheOwner' \in Token /\ LeftLying' = FALSE
    BY <1>0, <2>2 DEF LeftLying
  <2> QED
    BY <2>3, <2>4 DEF Promise!Next, Promise!Acquire, TheOwner, LeftLying
<1>2. CASE /\ Owners' \subseteq Owners
           /\ \/ lockFile' = NoFile
              \/ lockFile # NoFile /\ lockFile'.by = lockFile.by
  <2>1. CASE Owners' # {}
    <3>1. TheOwner = lockFile.by /\ TheOwner' = lockFile'.by /\ lockFile' # NoFile
      BY <1>0, <1>2, <2>1, OwnerByFile
    <3>2. UNCHANGED <<TheOwner, LeftLying>>
      BY <1>2, <2>1, <3>1 DEF LeftLying
    <3> QED
      BY <3>2
  <2>2. CASE Owners # {} /\ Owners' = {}
    <3>1. TheOwner # NoOne /\ TheOwner' = NoOne /\ LeftLying' \in BOOLEAN
      BY <2>2, OwnerByFile, WriteLockAssumption DEF TheOwner, LeftLying, Token
    <3> QED
      BY <3>1 DEF Promise!Next, Promise!Leave, TheOwner, LeftLying
  <2>3. CASE Owners = {}
    <3>1. Owners' = {} /\ TheOwner = NoOne /\ TheOwner' = NoOne
      BY <1>2, <2>3 DEF TheOwner
    <3>2. LeftLying' => LeftLying
      BY <1>2, <2>3 DEF LeftLying
    <3> QED
      BY <3>1, <3>2 DEF Promise!Next, Promise!Reclaim, TheOwner, LeftLying
  <2> QED
    BY <2>1, <2>2, <2>3
<1> QED
  BY <1>1, <1>2, OnlyCreateTakes

\* The lock file, its guard, the reclaim and the break implement the exclusive lock: it is
\* taken only when no file is there, and what a dead command left is removed before that.
THEOREM Refinement ==
  ASSUME Honest
  PROVE  Spec => ImplementsLock
<1>1. Init => Promise!Init
  BY DEF Init, Promise!Init, Owners, Owning, Writing, Holding
<1>2. TypeOK /\ IInv /\ [Next]_vars => IInv'
  BY StepKeeps
<1>3. TypeOK /\ IInv /\ (TypeOK /\ IInv)' /\ [Next]_vars
        => [Promise!Next]_<<TheOwner, LeftLying>>
  BY StepImplements
<1> QED
  BY <1>1, <1>2, <1>3, InitInvariant, TypeCorrect, PTL
     DEF Spec, ImplementsLock, Promise!Spec, TheOwner, LeftLying
==============================================================================
