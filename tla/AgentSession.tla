---------------------------- MODULE AgentSession ----------------------------
(***************************************************************************)
(* A resident agent session over one spatial PNG: the session               *)
(* (zdx_spatial_agent_session.py), its checkpoint manager and worker thread *)
(* (zdx_checkpoint.py) and the frame store the worker commits to            *)
(* (zdx_pixel_memory/spatial_store.py), which another process may use too.  *)
(*                                                                          *)
(* The content of a PNG is abstracted to what tells two apart: the version  *)
(* "v" of the resident values and the generation "g" of the VM they were    *)
(* captured with, the number "o" of commits made by other processes, the    *)
(* executable rows "plane", and whether the document still decodes ("ok").  *)
(* Every change of the resident values is a new version.                    *)
(*                                                                          *)
(* The session holds its own lock while a barrier waits, so the branch of   *)
(* submit() that finds another barrier pending has no caller here.          *)
(***************************************************************************)
EXTENDS Integers, Sequences

CONSTANTS Interval,    \* checkpoint_interval
          MaxCalls,    \* bound: calls of the session
          MaxOthers,   \* bound: commits of another process
          MaxFaults    \* bound: crashes, I/O errors and damage

VARIABLES
  primary, backup,     \* the PNG and its .bak: a content, or Gone
  session,             \* the session's fields
  doing,               \* what the caller of the session is waiting for, if anything
  pending,             \* manager._pending: <<>> or <<request>>
  work, step,          \* the worker's request and where it is
  ids,                 \* [next, submitted, committed] request ids
  committedGeneration, \* manager._last_committed_generation
  artifact,            \* manager._current_artifact_sha256, as a content
  failed, managerClosed, \* manager._error is set; manager._closed
  promised,            \* version a returned call declared durable; -1 after damage
  calls, others, faults

fileVars == <<primary, backup>>
managerVars == <<pending, work, step, ids, committedGeneration, artifact, failed,
                 managerClosed>>
agentVars == <<fileVars, session, doing, managerVars, promised, calls, others, faults>>

Gone == [v |-> 0, g |-> 0, o |-> 0, plane |-> 0, ok |-> FALSE]

Fresh == [v |-> 1, g |-> 0, o |-> 0, plane |-> 1, ok |-> TRUE]

\* a SpatialFrame.blank with an empty document
Blank == [v |-> 0, g |-> 0, o |-> 0, plane |-> 0, ok |-> TRUE]

\* what a reader finds, or would find after the commit that is under way
Shown == IF primary = Gone THEN backup ELSE primary

StoreLocked == step \in {"backup", "replace"}

NoSession == [v |-> 0, g |-> 0, vm |-> 0, o |-> 0, plane |-> 0, dirty |-> FALSE, then |-> "return"]

AgentInit ==
  /\ primary = Fresh /\ backup = Gone
  /\ session = NoSession
  /\ doing = "closed"
  /\ pending = <<>> /\ work = <<>> /\ step = "none"
  /\ ids = [next |-> 1, submitted |-> 0, committed |-> 0]
  /\ committedGeneration = 0
  /\ artifact = Gone
  /\ failed = FALSE /\ managerClosed = FALSE
  /\ promised = 0
  /\ calls = 0 /\ others = 0 /\ faults = 0

-----------------------------------------------------------------------------
(* The frame store.                                                         *)

\* Mutant: a backup is taken whatever program it carries
AnyPlane(current, old) == TRUE

ExecutionPlaneMatches(current, old) == current.plane = old.plane

\* _read_frame_unlocked: the primary, or a backup with the same program
Readable ==
  \/ primary.ok
  \/ /\ primary # Gone /\ backup.ok
     /\ ExecutionPlaneMatches(primary, backup)

ReadFrame == IF primary.ok THEN primary ELSE backup

(* Another process commits through the store (write, update, delete, clear, *)
(* transaction_frame, or a deployment that installs a program), reading and *)
(* writing under the file lock.                                             *)
OtherCommit(plane) ==
  /\ others < MaxOthers
  /\ ~StoreLocked
  /\ Readable
  /\ others' = others + 1
  /\ backup' = ReadFrame
  /\ primary' = [ReadFrame EXCEPT !.o = @ + 1, !.plane = plane]
  /\ UNCHANGED <<session, doing, managerVars, promised, calls, faults>>

(* A reader that cannot decode the primary and has no backup with the same  *)
(* program moves the primary aside and raises.                              *)
Quarantine ==
  /\ ~StoreLocked
  /\ primary # Gone /\ ~Readable
  /\ primary' = Gone
  /\ UNCHANGED <<backup, session, doing, managerVars, promised, calls, others, faults>>

\* the document of the primary is damaged on disk: no promise outlives that
DamagePrimary ==
  /\ faults < MaxFaults
  /\ ~StoreLocked /\ primary.ok
  /\ faults' = faults + 1
  /\ primary' = [primary EXCEPT !.ok = FALSE]
  /\ promised' = -1
  /\ UNCHANGED <<backup, session, doing, managerVars, calls, others>>

-----------------------------------------------------------------------------
(* The session.  Opening it starts a manager and its worker.                *)

Open(found) ==
  /\ doing = "closed" /\ ~StoreLocked
  /\ calls < MaxCalls
  /\ calls' = calls + 1
  /\ primary' = found
  /\ session' = [v |-> found.v, g |-> found.g, vm |-> found.g, o |-> found.o,
                 plane |-> found.plane, dirty |-> found.v = 0, then |-> "return"]
  /\ doing' = "idle"
  /\ pending' = <<>> /\ work' = <<>> /\ step' = "wait"
  /\ ids' = [next |-> 1, submitted |-> 0, committed |-> 0]
  /\ committedGeneration' = 0
  /\ artifact' = found
  /\ failed' = FALSE /\ managerClosed' = FALSE
  /\ UNCHANGED <<backup, promised, others, faults>>

OpenSession == Readable /\ Open(ReadFrame)

\* the store's constructor finds no file and writes an empty document
OpenBlank == primary = Gone /\ Open(Blank)

CallSession ==
  /\ doing = "idle" /\ calls < MaxCalls
  /\ calls' = calls + 1
  /\ UNCHANGED <<fileVars, others, faults>>

(* SpatialCheckpointManager.submit of the resident values s, a barrier or   *)
(* not: the frame and the values are cloned into the request.               *)
Refused(s) == managerClosed \/ failed \/ s.g < committedGeneration

\* Mutant: a request waiting for the worker is not replaced
SubmitFirstWins(s, barrier) ==
  LET request == [id |-> ids.next, v |-> s.v, g |-> s.g, o |-> s.o,
                  plane |-> s.plane, barrier |-> barrier]
  IN /\ ~Refused(s)
     /\ pending' = IF pending = <<>> THEN <<request>> ELSE pending
     /\ ids' = [ids EXCEPT !.next = @ + 1, !.submitted = ids.next]

\* latest wins: an ordinary request that waits is replaced
Submit(s, barrier) ==
  LET request == [id |-> ids.next, v |-> s.v, g |-> s.g, o |-> s.o,
                  plane |-> s.plane, barrier |-> barrier]
  IN /\ ~Refused(s)
     /\ pending' = <<request>>
     /\ ids' = [ids EXCEPT !.next = @ + 1, !.submitted = ids.next]

\* the refused call raises; what it changed before stays changed
SubmitRaises(s) == Refused(s) /\ UNCHANGED <<pending, ids>>

KeepManager == UNCHANGED <<work, step, committedGeneration, artifact, failed, managerClosed>>

(* execute(): the VM is put back to the captured state, runs, and is        *)
(* captured; every Interval generations a checkpoint is submitted.          *)
Execute ==
  LET s == [session EXCEPT !.v = @ + 1, !.g = @ + 1, !.vm = session.g + 1, !.dirty = TRUE]
      due == s.g % Interval = 0
  IN /\ CallSession
     /\ \/ /\ due /\ Submit(s, FALSE)
           /\ session' = [s EXCEPT !.dirty = FALSE]
        \/ /\ due /\ SubmitRaises(s)
           /\ session' = s
        \/ /\ ~due /\ session' = s
           /\ UNCHANGED <<pending, ids>>
     /\ KeepManager
     /\ UNCHANGED <<doing, promised>>

\* a program that fails leaves the VM ahead of the captured state
ExecuteFails ==
  /\ CallSession
  /\ session' = [session EXCEPT !.vm = session.g + 1]
  /\ UNCHANGED <<doing, managerVars, promised>>

\* mailbox, send, receive, mark_dirty, and every change of agent memory
Mutate ==
  /\ CallSession
  /\ session' = [session EXCEPT !.v = @ + 1, !.dirty = TRUE]
  /\ UNCHANGED <<doing, managerVars, promised>>

\* _activate_vm and _capture_state
Captured(s) == [s EXCEPT !.vm = s.g]

\* checkpoint(barrier=False)
CheckpointOrdinary ==
  LET s == Captured(session)
  IN /\ CallSession
     /\ \/ Submit(s, FALSE) /\ session' = [s EXCEPT !.dirty = FALSE]
        \/ SubmitRaises(s) /\ session' = s
     /\ KeepManager
     /\ UNCHANGED <<doing, promised>>

(* checkpoint(barrier=True), on its own or as the first half of flush() and *)
(* close() of a dirty session: the call waits for its own request.          *)
StartBarrier(then) ==
  LET s == Captured(session)
  IN /\ CallSession
     /\ then # "return" => session.dirty
     /\ \/ /\ Submit(s, TRUE)
           /\ session' = [s EXCEPT !.then = then]
           /\ doing' = "barrier"
        \/ SubmitRaises(s) /\ session' = s /\ UNCHANGED doing
     /\ KeepManager
     /\ UNCHANGED promised

\* flush() and close() of a session that is not dirty
StartFlush(then) ==
  /\ CallSession
  /\ ~session.dirty
  /\ session' = [session EXCEPT !.then = then]
  /\ doing' = "flushing"
  /\ UNCHANGED <<managerVars, promised>>

\* Mutant: the call waits for any commit at all
WaitedAny == ids.committed > 0 \/ ids.submitted = 0

\* the predicate of wait_for_request, for the last request submitted
Waited == ids.committed >= ids.submitted

Promise == promised' = IF promised = -1 \/ session.v < promised THEN promised ELSE session.v

BarrierReturns ==
  /\ doing = "barrier" /\ ~failed /\ Waited
  /\ session' = [session EXCEPT !.dirty = FALSE]
  /\ Promise
  /\ doing' = IF session.then = "return" THEN "idle" ELSE "flushing"
  /\ UNCHANGED <<fileVars, managerVars, calls, others, faults>>

\* manager.flush returns True; close() goes on to stop the worker
FlushReturns ==
  /\ doing = "flushing" /\ ~failed /\ Waited
  /\ Promise
  /\ managerClosed' = (managerClosed \/ session.then = "close")
  /\ doing' = IF session.then = "close" THEN "joining" ELSE "idle"
  /\ UNCHANGED <<fileVars, session, pending, work, step, ids, committedGeneration,
                 artifact, failed, calls, others, faults>>

\* flush(timeout) returns False; close(timeout) stops the worker all the same
FlushTimesOut ==
  /\ doing = "flushing" /\ ~failed /\ ~Waited
  /\ managerClosed' = (managerClosed \/ session.then = "close")
  /\ doing' = IF session.then = "close" THEN "joining" ELSE "idle"
  /\ UNCHANGED <<fileVars, session, pending, work, step, ids, committedGeneration,
                 artifact, failed, promised, calls, others, faults>>

\* close(flush=False): whatever is pending is still written, nothing is promised
CloseUnflushed ==
  /\ CallSession
  /\ session' = [session EXCEPT !.then = "close"]
  /\ managerClosed' = TRUE
  /\ doing' = "joining"
  /\ UNCHANGED <<pending, work, step, ids, committedGeneration, artifact, failed, promised>>

\* a wait ends with the worker's error, which is raised to the caller
WaitRaises ==
  /\ doing \in {"barrier", "flushing"} /\ failed
  /\ doing' = "idle"
  /\ UNCHANGED <<fileVars, session, managerVars, promised, calls, others, faults>>

Close ==
  /\ doing = "joining" /\ step = "dead" /\ ~failed
  /\ doing' = "closed"
  /\ session' = NoSession
  /\ step' = "none"
  /\ UNCHANGED <<fileVars, pending, work, ids, committedGeneration, artifact, failed,
                 managerClosed, promised, calls, others, faults>>

(* The join ends with the worker's error, or with TimeoutError: the session *)
(* stays open over a manager that is closed.                                *)
CloseRaises ==
  /\ doing = "joining" /\ step = "dead" /\ failed
  /\ doing' = "idle"
  /\ UNCHANGED <<fileVars, session, managerVars, promised, calls, others, faults>>

CloseTimesOut ==
  /\ doing = "joining" /\ step # "dead"
  /\ doing' = "idle"
  /\ UNCHANGED <<fileVars, session, managerVars, promised, calls, others, faults>>

-----------------------------------------------------------------------------
(* The worker thread.                                                       *)

KeepSession == UNCHANGED <<session, doing, promised, calls, others>>

TakeRequest ==
  /\ step = "wait" /\ pending # <<>>
  /\ work' = pending /\ pending' = <<>>
  /\ step' = "verify"
  /\ KeepSession
  /\ UNCHANGED <<fileVars, ids, committedGeneration, artifact, failed, managerClosed, faults>>

WorkerExits ==
  /\ step = "wait" /\ pending = <<>> /\ managerClosed
  /\ step' = "dead"
  /\ KeepSession
  /\ UNCHANGED <<fileVars, pending, work, ids, committedGeneration, artifact, failed,
                 managerClosed, faults>>

\* an exception: the error is published and the thread ends
WorkerFails ==
  /\ failed' = TRUE /\ step' = "dead" /\ work' = <<>>
  /\ UNCHANGED <<pending, ids, committedGeneration, artifact, managerClosed>>
  /\ KeepSession

\* Mutant: the parent of the snapshot is not compared
NoCompare == TRUE

\* commit_snapshot: the file must be the one this session last wrote or read
ParentUnchanged == primary = artifact

CommitBegins ==
  /\ step = "verify" /\ ParentUnchanged
  /\ step' = "backup"
  /\ KeepSession
  /\ UNCHANGED <<fileVars, pending, work, ids, committedGeneration, artifact, failed,
                 managerClosed, faults>>

CommitConflict ==
  /\ step = "verify" /\ ~ParentUnchanged
  /\ WorkerFails
  /\ UNCHANGED <<fileVars, faults>>

\* atomic_write_bytes: the primary becomes the backup ...
CommitBackup ==
  /\ step = "backup"
  /\ backup' = primary /\ primary' = Gone
  /\ step' = "replace"
  /\ KeepSession
  /\ UNCHANGED <<pending, work, ids, committedGeneration, artifact, failed,
                 managerClosed, faults>>

Content(r) == [v |-> r.v, g |-> r.g, o |-> r.o, plane |-> r.plane, ok |-> TRUE]

\* ... and the written file takes its place
CommitReplace ==
  /\ step = "replace"
  /\ primary' = Content(work[1])
  /\ step' = "publish"
  /\ KeepSession
  /\ UNCHANGED <<backup, pending, work, ids, committedGeneration, artifact, failed,
                 managerClosed, faults>>

(* A lock that is not got in time, a document too large for its region, an  *)
(* I/O error of the commit, which undoes the move, or of the manifest, when *)
(* the frame is already in place: the worker ends.                          *)
CommitFails ==
  /\ step \in {"verify", "backup", "replace", "publish"}
  /\ faults < MaxFaults
  /\ faults' = faults + 1
  /\ primary' = IF step = "replace" THEN backup ELSE primary
  /\ backup' = IF step = "replace" THEN Gone ELSE backup
  /\ WorkerFails

\* the manifest is saved and the waiting callers see the request committed
Publish ==
  /\ step = "publish"
  /\ ids' = [ids EXCEPT !.committed = work[1].id]
  /\ committedGeneration' = work[1].g
  /\ artifact' = Content(work[1])
  /\ work' = <<>> /\ step' = "wait"
  /\ KeepSession
  /\ UNCHANGED <<fileVars, pending, failed, managerClosed, faults>>

\* the process dies: a later start finds the files as they are
AgentCrash ==
  /\ faults < MaxFaults
  /\ doing # "closed"
  /\ faults' = faults + 1
  /\ session' = NoSession /\ doing' = "closed"
  /\ pending' = <<>> /\ work' = <<>> /\ step' = "none"
  /\ UNCHANGED <<fileVars, ids, committedGeneration, artifact, failed, managerClosed,
                 promised, calls, others>>

AgentCalls ==
  \/ OpenSession \/ Execute \/ ExecuteFails \/ Mutate
  \/ CheckpointOrdinary \/ CloseUnflushed
  \/ \E then \in {"return", "flush", "close"} : StartBarrier(then)
  \/ \E then \in {"flush", "close"} : StartFlush(then)

AgentReturns == BarrierReturns \/ FlushReturns \/ WaitRaises \/ Close \/ CloseRaises

WorkerSteps ==
  \/ TakeRequest \/ WorkerExits \/ CommitBegins \/ CommitConflict
  \/ CommitBackup \/ CommitReplace \/ Publish

(* Not in here: a crash between the two renames of a commit, which leaves   *)
(* no primary, and a start that finds none.  AgentNextAnyCrash has both.    *)
AgentNext ==
  \/ AgentCalls \/ AgentReturns \/ WorkerSteps
  \/ FlushTimesOut \/ CloseTimesOut \/ CommitFails \/ (AgentCrash /\ primary # Gone)
  \/ Quarantine \/ DamagePrimary
  \/ \E change \in {0, 1} : OtherCommit(Shown.plane + change)

AgentNextAnyCrash == AgentNext \/ AgentCrash \/ OpenBlank

(* Both threads are left to run; timeouts, faults, calls and the other      *)
(* process are not owed.                                                    *)
AgentFairness == WF_agentVars(WorkerSteps) /\ WF_agentVars(AgentReturns)

AgentSpec == AgentInit /\ [][AgentNext]_agentVars /\ AgentFairness

AgentSpecAnyCrash == AgentInit /\ [][AgentNextAnyCrash]_agentVars

-----------------------------------------------------------------------------
(* Properties.                                                              *)

(* What a barrier checkpoint, a flush or a close that returned declared     *)
(* durable is on disk from then on: coalesced requests, crashes, I/O errors *)
(* and other processes never take it back (submit, wait_for_request, _run). *)
PromisesAreDurable == Shown.v >= promised

(* The worker never overwrites a commit of another process that the session *)
(* has not read: only damage, or the loss it causes, takes one back         *)
(* (commit_snapshot's comparison of the parent artifact).                   *)
OtherCommitsAreKept ==
  [][(Shown.ok /\ Shown'.ok) => Shown'.o >= Shown.o]_agentVars

(* Recovery from a backup never brings back an older program, and nor does  *)
(* a checkpoint of a session that started before the program was replaced   *)
(* (_read_frame_unlocked, _execution_plane_matches).                        *)
ProgramNeverRollsBack ==
  [][(primary # Gone /\ primary' # Gone) => primary'.plane >= primary.plane]_agentVars

(* A caller that waits for the worker is let go: the request is committed   *)
(* or the worker's error is raised (no lost wake-up, no wait on a dead      *)
(* thread).                                                                 *)
WaitingCallsReturn == (doing \in {"barrier", "flushing", "joining"}) ~> (doing \in {"idle", "closed"})

(* What the documentation says of a commit: whatever a crash interrupts, a  *)
(* later start finds the last durable program and memory or the new one.    *)
CrashKeepsFrame == promised # -1 => Shown.plane > 0 /\ Shown.v >= promised
=============================================================================
