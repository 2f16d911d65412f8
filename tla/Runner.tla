------------------------------- MODULE Runner -------------------------------
(***************************************************************************)
(* The command pane's runner (tracker/webui/runner.py, with the history of *)
(* webui/runs.py and the pump of tui/commands.py): one slot, one child at  *)
(* a time, cancellation, the timeout, the index of runs and the queues the *)
(* pane drains.                                                            *)
(*                                                                         *)
(* start and cancel run on the interface's thread, one call at a time;     *)
(* every run has a thread of its own that spawns and follows its child,    *)
(* and a pump thread that drains its queue. None of them waits for the     *)
(* others, and `_current`, `_process` and a run's status are read and      *)
(* written without the lock, except in start.                              *)
(*                                                                         *)
(* Names every specification has carry `Runner' here, so that one module   *)
(* of proofs can extend this one beside Queue.                             *)
(***************************************************************************)
EXTENDS Naturals, Sequences, SequencesExt

CONSTANTS
  RunBound,   \* runs the operator starts (bound)
  LineBound,  \* lines the children print (bound)
  QueueMax,   \* what a listener's queue holds; a full one drops the event
  IndexLimit  \* INDEX_LIMIT: the runs the index keeps

ASSUME RunnerAssumption ==
  {RunBound, LineBound} \subseteq Nat /\ {QueueMax, IndexLimit} \subseteq Nat \ {0}

Runs == 1..RunBound
None == 0

VARIABLES
  current,    \* Runner._current: the run in the slot
  process,    \* Runner._process: the run whose child it is
  listeners,  \* Runner._listeners: the pumps subscribed
  status,     \* each run's status; "none" before it starts
  thread,     \* where each run's _execute stands
  child,      \* each child: "none", "open" (it holds its output), "closed", "gone"
  printed,    \* lines the children have printed
  cancelling, \* what a cancel under way has read: <<process, run>>
  stream,     \* each pump's queue: 0 for a line, r for the end of run r
  pump,       \* where each pump stands
  index,      \* the index file: the runs recorded, the latest first
  recording,  \* the run whose thread holds runs._lock
  entries,    \* the index as that thread read it
  unread      \* the runs recorded before an index that could not be read (for NoRecordLost)

runnerVars == <<current, process, listeners, status, thread, child, printed, cancelling,
                stream, pump, index, recording, entries, unread>>
paneVars  == <<listeners, stream, pump>>
indexVars == <<index, recording, entries, unread>>
childVars == <<child, printed>>

\* The slot is taken: start raises.
Busy == current # None /\ status[current] = "running"

Alive(r) == child[r] \in {"open", "closed"}

RunnerInit ==
  /\ current = None /\ process = None /\ listeners = {}
  /\ status = [r \in Runs |-> "none"] /\ thread = [r \in Runs |-> "none"]
  /\ child = [r \in Runs |-> "none"] /\ printed = 0
  /\ cancelling = <<None, None>>
  /\ stream = [r \in Runs |-> <<>>] /\ pump = [r \in Runs |-> "none"]
  /\ index = <<>> /\ recording = None /\ entries = <<>> /\ unread = {}

------------------------------------------------------------------------------

(* The interface's thread.                                                   *)

\* Wrong: the slot is not looked at.
StartOver(r) ==
  /\ cancelling = <<None, None>> /\ status[r] = "none" /\ \A q \in 1..(r - 1) : status[q] # "none"
  /\ current' = r /\ listeners' = {}
  /\ status' = [status EXCEPT ![r] = "running"]
  /\ thread' = [thread EXCEPT ![r] = "spawn"] /\ pump' = [pump EXCEPT ![r] = "subscribe"]
  /\ UNCHANGED <<process, childVars, cancelling, stream, indexVars>>

\* The slot is taken before the run's log is made: where runs.begin raises, the run holds it
\* with neither a thread nor a pump.
Start(r) ==
  /\ cancelling = <<None, None>> /\ status[r] = "none" /\ \A q \in 1..(r - 1) : status[q] # "none"
  /\ ~Busy
  /\ current' = r /\ listeners' = {}
  /\ status' = [status EXCEPT ![r] = "running"]
  /\ \/ thread' = [thread EXCEPT ![r] = "spawn"] /\ pump' = [pump EXCEPT ![r] = "subscribe"]
     \/ UNCHANGED <<thread, pump>>
  /\ UNCHANGED <<process, childVars, cancelling, stream, indexVars>>

\* cancel reads the process and the run, one after the other; False when there is none.
CancelReads ==
  /\ cancelling = <<None, None>> /\ process # None /\ Busy
  /\ cancelling' = <<process, current>>
  /\ UNCHANGED <<current, process, status, thread, childVars, paneVars, indexVars>>

\* The process it read, which need not be this run's child, gets SIGTERM, and may go on.
CancelActs ==
  /\ cancelling # <<None, None>>
  /\ status' = [status EXCEPT ![cancelling[2]] = "cancelled"]
  /\ cancelling' = <<None, None>>
  /\ UNCHANGED <<current, process, thread, child, printed, paneVars, indexVars>>

------------------------------------------------------------------------------

(* A run's thread.                                                           *)

At(r, here) == thread[r] = here
GoTo(r, there) == thread' = [thread EXCEPT ![r] = there]

\* The event goes to whoever listens now, and is dropped where the queue is full.
Emit(event) ==
  stream' = [p \in Runs |-> IF p \in listeners /\ Len(stream[p]) < QueueMax
                             THEN Append(stream[p], event) ELSE stream[p]]

\* Popen starts the child, or raises.
Spawn(r) ==
  /\ At(r, "spawn")
  /\ \/ child' = [child EXCEPT ![r] = "open"] /\ GoTo(r, "hold")
     \/ UNCHANGED child /\ GoTo(r, "close")
  /\ UNCHANGED <<current, process, status, printed, cancelling, paneVars, indexVars>>

Hold(r) ==
  /\ At(r, "hold") /\ GoTo(r, "read")
  /\ process' = r
  /\ Emit(0)
  /\ UNCHANGED <<current, listeners, status, childVars, cancelling, pump, indexVars>>

ReadLine(r) ==
  /\ At(r, "read") /\ child[r] = "open" /\ printed < LineBound
  /\ printed' = printed + 1
  /\ Emit(0)
  /\ UNCHANGED <<current, process, listeners, status, thread, child, cancelling, pump,
                 indexVars>>

\* The loop over its output ends only when nothing holds it open.
Eof(r) ==
  /\ At(r, "read") /\ child[r] # "open" /\ GoTo(r, "wait")
  /\ UNCHANGED <<current, process, status, childVars, cancelling, paneVars, indexVars>>

\* Wrong: no timeout.
WaitForever(r) ==
  /\ At(r, "wait") /\ child[r] = "gone" /\ GoTo(r, "clear")
  /\ UNCHANGED <<current, process, status, childVars, cancelling, paneVars, indexVars>>

\* process.wait returns, or times out and the child is killed.
Wait(r) ==
  /\ At(r, "wait") /\ GoTo(r, "clear")
  /\ child' = [child EXCEPT ![r] = "gone"]
  /\ \/ child[r] = "gone" /\ UNCHANGED stream
     \/ child[r] = "closed" /\ Emit(0)
  /\ UNCHANGED <<current, process, listeners, status, printed, cancelling, pump,
                 indexVars>>

\* The finally: whatever `_process` holds by now.
Clear(r) ==
  /\ At(r, "clear") /\ GoTo(r, "close")
  /\ process' = None
  /\ UNCHANGED <<current, status, childVars, cancelling, paneVars, indexVars>>

\* _close reads the status, and writes it unless the run was cancelled by then.
Judge(r) ==
  /\ At(r, "close")
  /\ GoTo(r, IF status[r] = "cancelled" THEN "finish" ELSE "settle")
  /\ UNCHANGED <<current, process, status, childVars, cancelling, paneVars, indexVars>>

Settle(r) ==
  /\ At(r, "settle") /\ GoTo(r, "finish")
  /\ \E s \in IF child[r] = "none" THEN {"failed"} ELSE {"ok", "failed"} :
       status' = [status EXCEPT ![r] = s]
  /\ UNCHANGED <<current, process, childVars, cancelling, paneVars, indexVars>>

\* The index as it is read, an unreadable one as empty, and who then need not be found in it.
ReadIndex ==
  /\ entries' \in {index, <<>>}
  /\ unread' = IF entries' = index THEN unread
                ELSE {q \in Runs : thread[q] \in {"end", "done"}}

\* Wrong: the index is read without the lock.
RecordReadsUnlocked(r) ==
  /\ At(r, "finish") /\ GoTo(r, "record")
  /\ recording' = r /\ ReadIndex
  /\ UNCHANGED <<current, process, status, childVars, cancelling, paneVars, index>>

RecordReads(r) ==
  /\ At(r, "finish") /\ recording = None /\ GoTo(r, "record")
  /\ recording' = r /\ ReadIndex
  /\ UNCHANGED <<current, process, status, childVars, cancelling, paneVars, index>>

\* An index at its limit drops the run recorded first.
Newest(runs) == SubSeq(runs, 1, IF Len(runs) > IndexLimit THEN IndexLimit ELSE Len(runs))

\* The index is replaced whole, or stays as it was and the thread dies of the failure, its end
\* not sent; the lock is released either way.
RecordWrites(r) ==
  /\ At(r, "record")
  /\ \/ index' = Newest(<<r>> \o RemoveFirst(entries, r)) /\ GoTo(r, "end")
     \/ UNCHANGED index /\ GoTo(r, "died")
  /\ recording' = None /\ entries' = <<>>
  /\ UNCHANGED <<current, process, status, childVars, cancelling, paneVars, unread>>

End(r) ==
  /\ At(r, "end") /\ GoTo(r, "done")
  /\ Emit(r)
  /\ UNCHANGED <<current, process, listeners, status, childVars, cancelling, pump,
                 indexVars>>

\* What the run's thread does by itself, whatever its child prints.
Execute(r) == \/ Spawn(r) \/ Hold(r) \/ Eof(r) \/ Wait(r) \/ Clear(r)
              \/ Judge(r) \/ Settle(r) \/ RecordReads(r) \/ RecordWrites(r) \/ End(r)

------------------------------------------------------------------------------

(* A child, which may close its output before it ends.                       *)

ChildCloses(r) ==
  /\ child[r] = "open" /\ \E s \in {"closed", "gone"} : child' = [child EXCEPT ![r] = s]
  /\ UNCHANGED <<current, process, status, thread, printed, cancelling, paneVars, indexVars>>

ChildEnds(r) ==
  /\ child[r] = "closed" /\ child' = [child EXCEPT ![r] = "gone"]
  /\ UNCHANGED <<current, process, status, thread, printed, cancelling, paneVars, indexVars>>

------------------------------------------------------------------------------

(* A pump: the thread that drains one queue into the pane.                   *)

EndPump(r) ==
  /\ pump' = [pump EXCEPT ![r] = "ended"]
  /\ listeners' = listeners \ {r}

Subscribe(r) ==
  /\ pump[r] = "subscribe" /\ pump' = [pump EXCEPT ![r] = "get"]
  /\ listeners' = listeners \union {r}
  /\ UNCHANGED <<current, process, status, thread, childVars, cancelling, stream, indexVars>>

Get(r) ==
  /\ pump[r] = "get" /\ stream[r] # <<>>
  /\ stream' = [stream EXCEPT ![r] = Tail(@)]
  /\ IF Head(stream[r]) = 0 THEN UNCHANGED <<pump, listeners>>
                            ELSE EndPump(r)
  /\ UNCHANGED <<current, process, status, thread, childVars, cancelling, indexVars>>

\* Nothing for half a second: it goes on only while the slot's run is running.
GetNothing(r) ==
  /\ pump[r] = "get" /\ stream[r] = <<>> /\ ~Busy
  /\ EndPump(r)
  /\ UNCHANGED <<current, process, status, thread, childVars, cancelling, stream, indexVars>>

\* What the pump's thread does.
Pump(r) == Subscribe(r) \/ Get(r) \/ GetNothing(r)

RunnerNext ==
  \/ CancelReads \/ CancelActs
  \/ \E r \in Runs : \/ Start(r) \/ Execute(r) \/ ReadLine(r)
                     \/ ChildCloses(r) \/ ChildEnds(r) \/ Pump(r)

\* The threads are scheduled; the operator and the children owe nothing.
RunnerSpec ==
  /\ RunnerInit /\ [][RunnerNext]_runnerVars
  /\ WF_runnerVars(CancelActs)
  /\ \A r \in Runs : WF_runnerVars(Execute(r)) /\ WF_runnerVars(Pump(r))

------------------------------------------------------------------------------

(* Properties.                                                               *)

\* Every variable has its type.
RunnerTypeOK ==
  /\ {current, process, recording} \subseteq Runs \union {None}
  /\ listeners \subseteq Runs
  /\ status \in [Runs -> {"none", "running", "ok", "failed", "cancelled"}]
  /\ thread \in [Runs -> {"none", "spawn", "hold", "read", "wait", "clear", "close", "settle",
                          "finish", "record", "end", "done", "died"}]
  /\ child \in [Runs -> {"none", "open", "closed", "gone"}]
  /\ printed \in 0..LineBound
  /\ cancelling \in (Runs \X Runs) \union {<<None, None>>}
  /\ stream \in [Runs -> Seq(Runs \union {0})] /\ \A r \in Runs : Len(stream[r]) <= QueueMax
  /\ pump \in [Runs -> {"none", "subscribe", "get", "ended"}]
  /\ index \in Seq(Runs) /\ Len(index) <= IndexLimit /\ entries \in Seq(Runs)
  /\ unread \subseteq Runs

\* A child that lives beside the slot's run is one the operator cancelled: the slot alone
\* never lets two commands write.
OverlapWasCancelled ==
  \A r \in Runs : Alive(r) /\ current # r => status[r] = "cancelled"

\* A run whose end is announced is in the index, whatever other runs were recorded meanwhile:
\* only an index that is full of later ones, or that once could not be read, leaves it out.
NoRecordLost ==
  \A r \in Runs : thread[r] \in {"end", "done"} =>
    r \in ToSet(index) \/ Len(index) = IndexLimit \/ r \in unread

\* A recorded run writes nothing any more: its child is gone.
RecordedIsOver == \A r \in ToSet(index) : ~Alive(r)

\* The index and the children agree: what ended is recorded, what is recorded has ended.
RunsRecorded == RunnerTypeOK /\ NoRecordLost /\ RecordedIsOver

\* A run that took the slot gives it back and its thread ends, whatever its child does: a child
\* that closes its output and never ends is killed. Two things only hold the slot for ever: a
\* child that holds its output open, and a start whose log could not be made.
RunEnds ==
  \A r \in Runs : status[r] = "running" ~>
    \/ thread[r] \in {"done", "died"} /\ status[r] # "running"
    \/ [](child[r] = "open")
    \/ [](thread[r] = "none")

\* Every pump ends, though its end may have been dropped, sent before it listened, sent after
\* the next start forgot it or never sent: only a slot taken for ever keeps one waiting.
PumpEnds == \A r \in Runs : pump[r] = "subscribe" ~> (pump[r] = "ended" \/ []Busy)

\* Nothing waits for ever on a child or on a queue but for what holds the slot for ever.
AllEnd == RunEnds /\ PumpEnds

=============================================================================
