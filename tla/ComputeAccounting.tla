-------------------------- MODULE ComputeAccounting --------------------------
(***************************************************************************)
(* The coordinator that is deployed: class ComputeCoordinator of           *)
(* zdx_compute.py, which adds contribution accounting to the queue of      *)
(* ComputeQueue.  complete and fail look at the running record before they *)
(* take the lock, and record and save the contribution after they gave it  *)
(* up, so a call is several steps here and the calls of the server's       *)
(* connection threads interleave.  The second _save is outside the lock:   *)
(* json.dump visits the dictionaries of self._state one after another in   *)
(* key order, while other threads change them, and the os.replace may come *)
(* after that of a younger image.                                          *)
(*                                                                         *)
(* What a call does under the lock is taken from ComputeQueue.  Nothing    *)
(* that the lock protects changes while it is held, so the locked _save    *)
(* reads its image together with the mutation; its os.replace is a step of *)
(* its own.  _save does not raise here, see ComputeQueue for that.         *)
(***************************************************************************)
EXTENDS ComputeQueue, TLC

CONSTANT Connections

VARIABLES
    thread,         \* where each connection thread is in its call
    contrib,        \* self._state["contributions"]
    filed,          \* "contributions" in the state file
    accepted        \* history: the answer that was accepted, per task

accountingVars == <<vars, thread, contrib, filed, accepted>>

\* Mutant: the insertion order of _load, without sort_keys.
InsertionOrder ==
    <<"queued", "running", "completed", "failed", "workers", "attempts", "contributions">>

\* json.dump with sort_keys; "version" never changes.
DumpOrder ==
    <<"attempts", "completed", "contributions", "failed", "queued", "running", "workers">>

Idle == [pc |-> "idle"]

Request(what, w, t, l) == [what |-> what, worker |-> w, task |-> t, lease |-> l]

\* A call whose reply is of no interest here.
Quiet == Request("quiet", None, None, None)

\* No thread is inside "with self._lock".
LockFree == \A c \in Connections : thread[c].pc # "locked"

\* The whole of self._state, read at once.
Image(s) == s @@ ("contributions" :> contrib)

AccountingInit ==
    /\ Init
    /\ thread = [c \in Connections |-> Idle]
    /\ contrib = {}
    /\ filed = {}
    /\ accepted = [t \in Tasks |-> NoAck]

Goto(c, next) == thread' = [thread EXCEPT ![c] = next]

\* Thread c takes the lock, changes self._state to s and dumps it; seen says
\* whether complete or fail will record a contribution afterwards.
Locked(c, s, req, seen) ==
    /\ LockFree
    /\ mem' = s
    /\ Goto(c, [pc |-> "locked", req |-> req, seen |-> seen, image |-> Image(s)])
    /\ UNCHANGED <<disk, granted, ack, saveFaults, contrib, filed>>

-----------------------------------------------------------------------------
(* The calls that zdx_compute.py inherits: one locked part                 *)

CallSubmit(c, t) ==
    /\ thread[c] = Idle
    /\ t \notin Known(mem)
    /\ Locked(c, [mem EXCEPT !.queued = mem.queued \cup {t}, !.attempts[t] = 0],
              Request("submitted", None, t, None), FALSE)
    /\ UNCHANGED <<lastLease, accepted>>

CallRegister(c, w, caps) ==
    /\ thread[c] = Idle
    /\ Locked(c, [mem EXCEPT !.workers[w] = caps], Quiet, FALSE)
    /\ UNCHANGED <<lastLease, accepted>>

CallClaim(c, w, avail) ==
    LET s == RequeueExpired(mem)
        l == lastLease + 1
    IN  /\ thread[c] = Idle
        /\ mem.workers[w] # None
        /\ \E t \in First(Fitting(s, w, avail)) :
              Locked(c, Leased(s, w, t, l), Request("claimed", w, t, l), FALSE)
        /\ lastLease' = l
        /\ UNCHANGED accepted

\* claim that finds no task saves in any case, status when it requeued one.
CallClaimNothing(c, w, avail) ==
    /\ thread[c] = Idle
    /\ mem.workers[w] # None
    /\ Fitting(RequeueExpired(mem), w, avail) = {}
    /\ Locked(c, RequeueExpired(mem), Quiet, FALSE)
    /\ UNCHANGED <<lastLease, accepted>>

CallStatus(c) ==
    /\ thread[c] = Idle
    /\ Expired(mem) # {}
    /\ Locked(c, RequeueExpired(mem), Quiet, FALSE)
    /\ UNCHANGED <<lastLease, accepted>>

\* claim by an unregistered worker requeues, raises and does not save.
CallClaimUnregistered(c, w) ==
    /\ thread[c] = Idle
    /\ LockFree
    /\ ClaimUnregistered(w)
    /\ UNCHANGED <<thread, contrib, filed, accepted>>

CallRelease(c, w, t, l) ==
    /\ thread[c] = Idle
    /\ LeasedTo(mem, w, t, l)
    /\ Locked(c, Yield(mem, {t}), Quiet, FALSE)
    /\ UNCHANGED <<lastLease, accepted>>

-----------------------------------------------------------------------------
(* complete and fail                                                       *)

\* Mutant: the record is looked up after super() has removed it.
ReadTooLate(c, what, w, t, l) ==
    /\ thread[c] = Idle
    /\ Goto(c, [pc |-> "read", req |-> Request(what, w, t, l), seen |-> FALSE])
    /\ UNCHANGED <<vars, contrib, filed, accepted>>

\* running = self._state["running"].get(task_id), without the lock.
ReadRunning(c, what, w, t, l) ==
    /\ thread[c] = Idle
    /\ Goto(c, [pc |-> "read", req |-> Request(what, w, t, l),
                seen |-> mem.running[t] # None])
    /\ UNCHANGED <<vars, contrib, filed, accepted>>

\* Mutant: what was seen before the lock is not checked again under it.
AcceptAsSeen(c) ==
    LET req == thread[c].req
        s   == Retired(mem, req.task)
    IN  /\ thread[c].pc = "read"
        /\ thread[c].seen
        /\ Locked(c, IF req.what = "completed"
                     THEN [s EXCEPT !.completed = s.completed \cup {req.task}]
                     ELSE [s EXCEPT !.failed = s.failed \cup {req.task}],
                  req, thread[c].seen)
        /\ accepted' = [accepted EXCEPT ![req.task] =
                          [what |-> req.what, worker |-> req.worker, lease |-> req.lease]]
        /\ UNCHANGED lastLease

\* super().complete or super().fail accepts the answer.
Accept(c) ==
    LET req == thread[c].req
        s   == Retired(mem, req.task)
    IN  /\ thread[c].pc = "read"
        /\ LeasedTo(mem, req.worker, req.task, req.lease)
        /\ Locked(c, IF req.what = "completed"
                     THEN [s EXCEPT !.completed = s.completed \cup {req.task}]
                     ELSE [s EXCEPT !.failed = s.failed \cup {req.task}],
                  req, thread[c].seen)
        /\ accepted' = [accepted EXCEPT ![req.task] =
                          [what |-> req.what, worker |-> req.worker, lease |-> req.lease]]
        /\ UNCHANGED lastLease

\* ... or raises, and the call ends.
Refuse(c) ==
    /\ thread[c].pc = "read"
    /\ LockFree
    /\ ~ LeasedTo(mem, thread[c].req.worker, thread[c].req.task, thread[c].req.lease)
    /\ Goto(c, Idle)
    /\ UNCHANGED <<vars, contrib, filed, accepted>>

-----------------------------------------------------------------------------
(* The end of a call                                                       *)

\* os.replace: the image becomes the file.
Replace(image) ==
    /\ disk' = [f \in DOMAIN disk |-> image[f]]
    /\ filed' = image["contributions"]

\* The caller gets its reply.
Reply(req) ==
    /\ ack' = IF req.what \in {"submitted", "completed", "failed"}
              THEN [ack EXCEPT ![req.task] =
                      [what |-> req.what, worker |-> req.worker, lease |-> req.lease]]
              ELSE ack
    /\ granted' = IF req.what = "claimed"
                  THEN [granted EXCEPT ![req.task] =
                          Append(@, [worker |-> req.worker, lease |-> req.lease])]
                  ELSE granted

\* The locked _save ends and the lock is released; then the call returns or,
\* if the running record was seen, goes on to _record.
Unlock(c) ==
    /\ thread[c].pc = "locked"
    /\ Replace(thread[c].image)
    /\ IF thread[c].seen
       THEN Goto(c, [pc |-> "record", req |-> thread[c].req]) /\ UNCHANGED <<ack, granted>>
       ELSE Goto(c, Idle) /\ Reply(thread[c].req)
    /\ UNCHANGED <<mem, lastLease, saveFaults, contrib, accepted>>

\* Mutant: the record is not attributed to the worker.
RecordUnattributed(c) ==
    LET req == thread[c].req
        new == [task |-> req.task, worker |-> None, n |-> Cardinality(contrib),
                what |-> req.what]
    IN  /\ thread[c].pc = "record"
        /\ contrib' = contrib \cup {new}
        /\ Goto(c, [pc |-> "dump", req |-> req, image |-> <<>>])
        /\ UNCHANGED <<vars, filed, accepted>>

\* _record: the key is made of the task, the worker and the number of records.
Record(c) ==
    LET req == thread[c].req
        new == [task |-> req.task, worker |-> req.worker, n |-> Cardinality(contrib),
                what |-> req.what]
    IN  /\ thread[c].pc = "record"
        /\ contrib' = {r \in contrib : \/ r.task # new.task
                                       \/ r.worker # new.worker
                                       \/ r.n # new.n} \cup {new}
        /\ Goto(c, [pc |-> "dump", req |-> req, image |-> <<>>])
        /\ UNCHANGED <<vars, filed, accepted>>

\* json.dump of the second _save reaches the next dictionary.
DumpNext(c) ==
    LET image == thread[c].image
        f     == DumpOrder[Cardinality(DOMAIN image) + 1]
    IN  /\ thread[c].pc = "dump"
        /\ Cardinality(DOMAIN image) < Len(DumpOrder)
        /\ Goto(c, [thread[c] EXCEPT !.image = image @@ (f :> Image(mem)[f])])
        /\ UNCHANGED <<vars, contrib, filed, accepted>>

\* The second _save ends, and with it the call.
Finish(c) ==
    /\ thread[c].pc = "dump"
    /\ Cardinality(DOMAIN thread[c].image) = Len(DumpOrder)
    /\ Replace(thread[c].image)
    /\ Reply(thread[c].req)
    /\ Goto(c, Idle)
    /\ UNCHANGED <<mem, lastLease, saveFaults, contrib, accepted>>

-----------------------------------------------------------------------------

\* A second passes; the leases in unfinished images have the same deadlines.
AccountingTick ==
    /\ Tick
    /\ thread' = [c \in Connections |->
                    IF /\ thread[c].pc \in {"locked", "dump"}
                       /\ "running" \in DOMAIN thread[c].image
                    THEN [thread[c] EXCEPT !.image = Aged(thread[c].image)]
                    ELSE thread[c]]
    /\ UNCHANGED <<contrib, filed, accepted>>

\* The process dies in the middle of its calls and is started again.
AccountingRestart ==
    /\ Restart
    /\ thread' = [c \in Connections |-> Idle]
    /\ contrib' = filed
    /\ UNCHANGED <<filed, accepted>>

AccountingNext ==
    \/ \E c \in Connections, t \in Tasks : CallSubmit(c, t)
    \/ \E c \in Connections, w \in Workers, caps \in Capabilities : CallRegister(c, w, caps)
    \/ \E c \in Connections, w \in Workers, avail \in Availability : CallClaim(c, w, avail)
    \/ \E c \in Connections, w \in Workers, avail \in Availability :
          CallClaimNothing(c, w, avail)
    \/ \E c \in Connections : CallStatus(c)
    \/ \E c \in Connections, w \in Workers : CallClaimUnregistered(c, w)
    \/ \E c \in Connections, w \in Workers, t \in Tasks : \E l \in Presentable(t) :
          \/ CallRelease(c, w, t, l)
          \/ ReadRunning(c, "completed", w, t, l)
          \/ ReadRunning(c, "failed", w, t, l)
    \/ \E c \in Connections :
          Accept(c) \/ Refuse(c) \/ Unlock(c) \/ Record(c) \/ DumpNext(c) \/ Finish(c)
    \/ AccountingTick

AccountingSpec == AccountingInit /\ [][AccountingNext]_accountingVars

CrashSpec == AccountingInit /\ [][AccountingNext \/ AccountingRestart]_accountingVars

-----------------------------------------------------------------------------
(* Properties                                                              *)

\* Type invariant of the contributions and of the threads.
AccountingTypeOK ==
    /\ mem \in State /\ disk \in State
    /\ \A r \in contrib \cup filed :
          r.task \in Tasks /\ r.worker \in Workers /\ r.what \in {"completed", "failed"}
    /\ \A c \in Connections :
          thread[c].pc \in {"idle", "read", "locked", "record", "dump"}

\* Whatever the threads do between their locks, self._state itself stays
\* consistent: each task in one place, no counter without its task.
OnePlaceInMemory == WellPlaced(mem)

\* Two calls for the same task, with the same lease or with none, never both
\* reach _record: a task is paid for at most once.
CountedOnce ==
    \A r, q \in contrib : r.task = q.task => r = q

\* When no call is in progress, every task whose answer was accepted on a lease
\* identifier has its contribution, with the verdict that was accepted and for
\* the worker that gave it (complete and fail of zdx_compute.py).
AcceptedIsCounted ==
    (\A c \in Connections : thread[c] = Idle) =>
        \A t \in mem.completed \cup mem.failed :
            accepted[t].lease # None =>
                \E r \in contrib : /\ r.task = t
                                   /\ r.worker = accepted[t].worker
                                   /\ r.what = accepted[t].what

\* However torn or stale the image of an unlocked _save is, the file never has
\* an outcome for a task that it also has queued or running, and never an
\* outcome that was not accepted or given up: json.dump visits "completed" and
\* "failed" before "queued" and "running", and outcomes are final.
OutcomesFirst ==
    /\ disk.completed \subseteq mem.completed
    /\ disk.failed \subseteq mem.failed
    /\ (disk.completed \cup disk.failed) \cap (disk.queued \cup Running(disk)) = {}

=============================================================================
