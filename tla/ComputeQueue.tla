---------------------------- MODULE ComputeQueue ----------------------------
(***************************************************************************)
(* The durable task queue of the coordinator: class ComputeCoordinator of  *)
(* zdx_compute_core.py.  Every public method runs under one RLock, so each *)
(* one is a single action here: its checks, its mutation of self._state    *)
(* and its trailing _save.  What is hard is what happens around the lock:  *)
(* leases that expire while a worker still computes, answers that arrive   *)
(* late or twice, a _save that raises after the state was mutated, and a   *)
(* coordinator that dies and reloads the file.                             *)
(*                                                                         *)
(* self._state is the record mem, the file of the last successful          *)
(* os.replace is disk.  A dictionary keyed by task is a set where only its *)
(* keys matter, and a function into records or None where its values do.   *)
(* A missing "attempts" entry reads as 0, as in attempts.get(task_id, 0).  *)
(* Time is relative: a lease carries ttl, the seconds left until its       *)
(* lease_until (0: lease_until <= now), and Tick lets every lease, in      *)
(* memory and in the file, age by one second.                              *)
(***************************************************************************)
EXTENDS Integers, Sequences, FiniteSets, FiniteSetsExt

CONSTANTS
    Tasks,          \* task identifiers
    Workers,        \* worker identifiers
    None,           \* Python's None
    TaskSpec,       \* memory_mb, threads, max_seconds, required features, order
    Features,       \* names of VM features
    Capabilities,   \* capability reports a worker may register
    Availability,   \* available_memory_mb and cpu_count of a poll
    LeaseSeconds,   \* lease_seconds of the constructor
    MaxAttempts,    \* max_attempts of the constructor
    Legacy,         \* tasks the loaded file has running without a lease_id
    MaxSaveFaults   \* bound: how often _save may raise

VARIABLES
    mem,            \* self._state
    disk,           \* the state file
    lastLease,      \* number of uuid4 lease identifiers drawn so far
    granted,        \* history: the leases handed to workers, per task
    ack,            \* history: what the coordinator last acknowledged, per task
    saveFaults      \* how often _save has raised

vars == <<mem, disk, lastLease, granted, ack, saveFaults>>

\* ComputeTask.validate: memory_mb, threads and max_seconds are positive.
TaskShape ==
    [memory : Nat \ {0}, threads : Nat \ {0}, seconds : Nat \ {0},
     features : SUBSET Features, rank : Nat]

\* What register_worker stores; 0 stands for a limit that is absent, not an
\* integer or not positive, all of which claim ignores.
CapabilityShape ==
    [memory : Nat, safe : Nat, cpu : Nat, features : SUBSET Features]

ASSUME TasksAssumption ==
    /\ TaskSpec \in [Tasks -> TaskShape]
    /\ \A t, u \in Tasks : TaskSpec[t].rank = TaskSpec[u].rank => t = u
    /\ Legacy \subseteq Tasks
ASSUME ReportsAssumption ==
    /\ Capabilities \subseteq CapabilityShape
    /\ Availability \subseteq [memory : Nat, cpu : Nat]
ASSUME LimitsAssumption ==
    /\ LeaseSeconds \in Nat \ {0}
    /\ MaxAttempts \in Nat \ {0}
    /\ MaxSaveFaults \in Nat
ASSUME NoneAssumption ==
    /\ None \notin [worker : Workers, lease : Nat \cup {None}, ttl : Nat,
                    attempts : Nat]
    /\ None \notin Nat
    /\ None \notin Capabilities
    /\ None \notin Workers

-----------------------------------------------------------------------------
(* The state                                                               *)

\* A value of self._state["running"].
Lease ==
    [worker : Workers, lease : Nat \cup {None}, ttl : Nat, attempts : Nat]

State ==
    [queued    : SUBSET Tasks,
     running   : [Tasks -> Lease \cup {None}],
     completed : SUBSET Tasks,
     failed    : SUBSET Tasks,
     attempts  : [Tasks -> Nat],
     workers   : [Workers -> Capabilities \cup {None}]]

Running(s) == {t \in Tasks : s.running[t] # None}

\* The seconds a fresh lease of t lasts: min(lease_seconds, max_seconds).
LeaseTime(t) == Min({LeaseSeconds, TaskSpec[t].seconds})

\* _load and the setdefault of __init__: an empty state, or the file of an
\* older version whose running records have neither lease_id nor attempts.
Loaded(holder) ==
    [queued    |-> {},
     running   |-> [t \in Tasks |->
                      IF t \in Legacy
                      THEN [worker |-> holder, lease |-> None,
                            ttl |-> LeaseTime(t), attempts |-> 1]
                      ELSE None],
     completed |-> {},
     failed    |-> {},
     attempts  |-> [t \in Tasks |-> 0],
     workers   |-> [w \in Workers |-> None]]

NoAck == [what |-> "none", worker |-> None, lease |-> None]

Init ==
    /\ \E w \in Workers : mem = Loaded(w)
    /\ disk = mem
    /\ lastLease = 0
    /\ granted = [t \in Tasks |-> <<>>]
    /\ ack = [t \in Tasks |->
                IF t \in Legacy THEN [NoAck EXCEPT !.what = "submitted"]
                ELSE NoAck]
    /\ saveFaults = 0

-----------------------------------------------------------------------------
(* Helpers                                                                 *)

\* _save: temporary file, fsync, os.replace.  The file is the new state or,
\* when the call raises, still the old one; self._state is not rolled back.
Save(s, ok) ==
    /\ mem' = s
    /\ disk' = IF ok THEN s ELSE disk
    /\ saveFaults' = IF ok THEN saveFaults ELSE saveFaults + 1
    /\ ok \/ saveFaults < MaxSaveFaults

\* attempts.get(task_id, running.get("attempts", 1))
AttemptsOf(s, t) ==
    IF s.attempts[t] = 0 THEN s.running[t].attempts ELSE s.attempts[t]

\* Mutants of Yield: an off-by-one in the limit; an attempt given back.
YieldOneTooOften(s, ts) ==
    LET dead == {t \in ts : AttemptsOf(s, t) > MaxAttempts}
    IN  [s EXCEPT
           !.running  = [t \in Tasks |-> IF t \in ts THEN None ELSE s.running[t]],
           !.queued   = s.queued \cup (ts \ dead),
           !.failed   = s.failed \cup dead]
YieldRefunds(s, ts) ==
    [s EXCEPT
       !.running  = [t \in Tasks |-> IF t \in ts THEN None ELSE s.running[t]],
       !.queued   = s.queued \cup ts,
       !.attempts = [t \in Tasks |-> s.attempts[t] - (IF t \in ts THEN 1 ELSE 0)]]

\* The tasks ts lose their lease: back to the queue, or, when the attempts
\* are used up, to the failed tasks, which forgets the attempt counter.
Yield(s, ts) ==
    LET dead == {t \in ts : AttemptsOf(s, t) >= MaxAttempts}
    IN  [s EXCEPT
           !.running  = [t \in Tasks |-> IF t \in ts THEN None ELSE s.running[t]],
           !.queued   = s.queued \cup (ts \ dead),
           !.failed   = s.failed \cup dead,
           !.attempts = [t \in Tasks |-> IF t \in dead THEN 0 ELSE s.attempts[t]]]

\* Mutant: a record without a lease identifier never expires.
ExpiredIfIdentified(s) ==
    {t \in Running(s) : s.running[t].ttl = 0 /\ s.running[t].lease # None}


Expired(s) == {t \in Running(s) : s.running[t].ttl = 0}

\* _requeue_expired_locked
RequeueExpired(s) == Yield(s, Expired(s))

\* Mutant: the identifier is not compared.
LeaseUnchecked(record, l) == TRUE

\* _validate_lease_locked: a caller without a lease identifier is let through.
LeaseValid(record, l) == l # None => record.lease = l

\* The guard complete, release and fail share.
LeasedTo(s, w, t, l) ==
    /\ s.running[t] # None
    /\ s.running[t].worker = w
    /\ LeaseValid(s.running[t], l)

\* The lease identifiers a caller can present: None, from a worker that
\* predates them, or one that some claim returned.
Presentable(t) == {None} \cup {granted[t][i].lease : i \in DOMAIN granted[t]}

Memory(t) == TaskSpec[t].memory
Threads(t) == TaskSpec[t].threads

\* reserved_memory and reserved_threads: the sums over the worker's leases.
Holding(s, w) == {t \in Running(s) : s.running[t].worker = w}
ReservedMemory(s, w) == MapThenSumSet(Memory, Holding(s, w))
ReservedThreads(s, w) == MapThenSumSet(Threads, Holding(s, w))

\* min of the reported value and of the registered limits that are set.
MemoryLimit(caps, available) ==
    Min({available} \cup {m \in {caps.memory, caps.safe} : m > 0})
CpuLimit(caps, count) ==
    Min({Max({1, count})} \cup {c \in {caps.cpu} : c > 0})

\* Mutant: every task is compared with the limits alone.
FittingAlone(s, w, avail) ==
    LET caps == s.workers[w]
    IN  {t \in s.queued : /\ Memory(t) <= MemoryLimit(caps, avail.memory)
                          /\ Threads(t) <= CpuLimit(caps, avail.cpu)
                          /\ TaskSpec[t].features \subseteq caps.features}

\* The queued tasks worker w may take: each fits into what the worker's
\* limits leave after its running leases, and asks for no missing feature.
\* (max(0, .) makes no difference: memory_mb and threads are positive.)
Fitting(s, w, avail) ==
    LET caps   == s.workers[w]
        memory == MemoryLimit(caps, avail.memory) - ReservedMemory(s, w)
        cpu    == CpuLimit(caps, avail.cpu) - ReservedThreads(s, w)
    IN  {t \in s.queued : /\ Memory(t) <= memory
                          /\ Threads(t) <= cpu
                          /\ TaskSpec[t].features \subseteq caps.features}

\* candidates are sorted by (created_at, task_id); the first that fits wins.
First(ts) == {t \in ts : \A u \in ts : TaskSpec[t].rank <= TaskSpec[u].rank}

\* The mutation of claim for the chosen task.
Leased(s, w, t, l) ==
    LET n == s.attempts[t] + 1
    IN  [s EXCEPT
           !.queued = s.queued \ {t},
           !.attempts[t] = n,
           !.running[t] = [worker |-> w, lease |-> l, ttl |-> LeaseTime(t),
                           attempts |-> n]]

\* Mutant: the running record stays.
RetiredStillRunning(s, t) == [s EXCEPT !.attempts[t] = 0]

\* The task leaves running for good.
Retired(s, t) ==
    [s EXCEPT !.running[t] = None, !.attempts[t] = 0]

-----------------------------------------------------------------------------
(* The operations                                                          *)

\* Mutant: only open tasks are looked up.
SubmitAgain(t, ok) ==
    /\ t \notin mem.queued \cup Running(mem)
    /\ Save([mem EXCEPT !.queued = mem.queued \cup {t}, !.attempts[t] = 0], ok)
    /\ ack' = IF ok THEN [ack EXCEPT ![t] = [NoAck EXCEPT !.what = "submitted"]]
              ELSE ack
    /\ UNCHANGED <<lastLease, granted>>

\* submit: refused when the task is known in any of the four places.
Submit(t, ok) ==
    /\ t \notin mem.queued \cup Running(mem) \cup mem.completed \cup mem.failed
    /\ Save([mem EXCEPT !.queued = mem.queued \cup {t}, !.attempts[t] = 0], ok)
    /\ ack' = IF ok THEN [ack EXCEPT ![t] = [NoAck EXCEPT !.what = "submitted"]]
              ELSE ack
    /\ UNCHANGED <<lastLease, granted>>

\* register_worker: replaces what was registered, also while leases run.
RegisterWorker(w, caps, ok) ==
    /\ Save([mem EXCEPT !.workers[w] = caps], ok)
    /\ UNCHANGED <<lastLease, granted, ack>>

\* claim by a worker that is not registered: the expired leases are requeued
\* in memory before the ValueError, and nothing is saved.
ClaimUnregistered(w) ==
    /\ mem.workers[w] = None
    /\ mem' = RequeueExpired(mem)
    /\ UNCHANGED <<disk, lastLease, granted, ack, saveFaults>>

\* claim that leases task t.
ClaimTask(w, avail, t, ok) ==
    LET s == RequeueExpired(mem)
        l == lastLease + 1
    IN  /\ mem.workers[w] # None
        /\ t \in First(Fitting(s, w, avail))
        /\ lastLease' = l
        /\ Save(Leased(s, w, t, l), ok)
        /\ granted' = IF ok
                      THEN [granted EXCEPT
                              ![t] = Append(@, [worker |-> w, lease |-> l])]
                      ELSE granted
        /\ UNCHANGED ack

\* claim that finds no task.
ClaimNothing(w, avail, ok) ==
    LET s == RequeueExpired(mem)
    IN  /\ mem.workers[w] # None
        /\ Fitting(s, w, avail) = {}
        /\ Save(s, ok)
        /\ UNCHANGED <<lastLease, granted, ack>>

\* Mutant: the answer is sent before the file is written.
AnswerEarly(t, what, w, l, ok) ==
    ack' = [ack EXCEPT ![t] = [what |-> what, worker |-> w, lease |-> l]]

\* What the caller of complete or fail learns: nothing when _save raises.
Answer(t, what, w, l, ok) ==
    ack' = IF ok THEN [ack EXCEPT ![t] = [what |-> what, worker |-> w, lease |-> l]]
           ELSE ack

\* complete: lease_until is not looked at, an expired lease that nobody
\* requeued yet still counts.
Complete(w, t, l, ok) ==
    /\ LeasedTo(mem, w, t, l)
    /\ Save([Retired(mem, t) EXCEPT !.completed = mem.completed \cup {t}], ok)
    /\ Answer(t, "completed", w, l, ok)
    /\ UNCHANGED <<lastLease, granted>>

\* fail: no retry, whatever the number of attempts.
Fail(w, t, l, ok) ==
    /\ LeasedTo(mem, w, t, l)
    /\ Save([Retired(mem, t) EXCEPT !.failed = mem.failed \cup {t}], ok)
    /\ Answer(t, "failed", w, l, ok)
    /\ UNCHANGED <<lastLease, granted>>

\* Mutant: no _save after the mutation.
ReleaseUnsaved(w, t, l, ok) ==
    /\ LeasedTo(mem, w, t, l)
    /\ mem' = Yield(mem, {t})
    /\ UNCHANGED <<disk, lastLease, granted, ack, saveFaults>>

\* release: an explicit yield, counted like an expired lease.
Release(w, t, l, ok) ==
    /\ LeasedTo(mem, w, t, l)
    /\ Save(Yield(mem, {t}), ok)
    /\ UNCHANGED <<lastLease, granted, ack>>

\* status: saves only when a lease was requeued.
Status(ok) ==
    /\ Expired(mem) # {}
    /\ Save(RequeueExpired(mem), ok)
    /\ UNCHANGED <<lastLease, granted, ack>>

\* The process dies, with or without unsaved state, and is started again.
Restart ==
    /\ mem' = disk
    /\ UNCHANGED <<disk, lastLease, granted, ack, saveFaults>>

Aged(s) ==
    [s EXCEPT !.running =
       [t \in Tasks |->
          IF s.running[t] = None THEN None
          ELSE [s.running[t] EXCEPT !.ttl = Max({0, s.running[t].ttl - 1})]]]

\* One second passes for time.time().
Tick ==
    /\ mem' = Aged(mem)
    /\ disk' = Aged(disk)
    /\ UNCHANGED <<lastLease, granted, ack, saveFaults>>

Next ==
    \/ \E t \in Tasks, ok \in BOOLEAN : Submit(t, ok)
    \/ \E w \in Workers, caps \in Capabilities, ok \in BOOLEAN :
          RegisterWorker(w, caps, ok)
    \/ \E w \in Workers : ClaimUnregistered(w)
    \/ \E w \in Workers, avail \in Availability, t \in Tasks, ok \in BOOLEAN :
          ClaimTask(w, avail, t, ok)
    \/ \E w \in Workers, avail \in Availability, ok \in BOOLEAN :
          ClaimNothing(w, avail, ok)
    \/ \E w \in Workers, t \in Tasks, ok \in BOOLEAN : \E l \in Presentable(t) :
          \/ Complete(w, t, l, ok)
          \/ Fail(w, t, l, ok)
          \/ Release(w, t, l, ok)
    \/ \E ok \in BOOLEAN : Status(ok)
    \/ Restart
    \/ Tick

Spec == Init /\ [][Next]_vars

\* Fairness of the deployment: time passes, a worker that is not registered
\* connects and registers, and run_forever of every registered worker polls
\* again and again with all it has; such a call can be delayed but _save does
\* not fail for ever.  Nothing is assumed of answers: they may all be lost.
Fairness ==
    /\ WF_vars(Tick)
    /\ \A w \in Workers :
          /\ WF_vars(/\ mem.workers[w] = None
                     /\ \E caps \in Capabilities : RegisterWorker(w, caps, TRUE))
          /\ \A avail \in Availability :
                WF_vars(\/ \E t \in Tasks : ClaimTask(w, avail, t, TRUE)
                        \/ ClaimNothing(w, avail, TRUE))

FairSpec == Spec /\ Fairness

-----------------------------------------------------------------------------
(* Properties                                                              *)

\* Type invariant of the queue in memory, of the file and of the histories.
TypeOK ==
    /\ mem \in State
    /\ disk \in State
    /\ lastLease \in Nat
    /\ granted \in [Tasks -> Seq([worker : Workers, lease : Nat])]
    /\ ack \in [Tasks -> [what   : {"none", "submitted", "completed", "failed"},
                         worker : Workers \cup {None},
                         lease  : Nat \cup {None}]]
    /\ saveFaults \in 0..MaxSaveFaults

WellPlaced(s) ==
    /\ s.queued \cap (Running(s) \cup s.completed \cup s.failed) = {}
    /\ Running(s) \cap (s.completed \cup s.failed) = {}
    /\ s.completed \cap s.failed = {}
    /\ \A t \in s.queued : s.attempts[t] < MaxAttempts
    /\ \A t \in Tasks \ (s.queued \cup Running(s)) : s.attempts[t] = 0

\* A task is in at most one of the four dictionaries, a queued task has an
\* attempt left, and no counter outlives its task; in memory and in whatever
\* file a restart would load (submit, claim, complete, release, fail,
\* _requeue_expired_locked and the _save at the end of each).
OnePlace == WellPlaced(mem) /\ WellPlaced(disk)

\* However often leases expire, are released, or are forgotten by a restart,
\* claim hands a task to workers at most max_attempts times.
GrantsBounded == \A t \in Tasks : Len(granted[t]) <= MaxAttempts

Known(s) == s.queued \cup Running(s) \cup s.completed \cup s.failed

\* What submit, complete and fail have acknowledged survives every restart and
\* every later failure of _save: the task is still in the file, and with the
\* acknowledged outcome once there is one.
AcknowledgedIsDurable ==
    \A t \in Tasks :
        /\ ack[t].what = "submitted" => t \in Known(disk)
        /\ ack[t].what = "completed" => t \in disk.completed
        /\ ack[t].what = "failed"    => t \in disk.failed

\* A result or failure that was accepted on a lease identifier came from the
\* worker that the newest lease of the task was handed to, on that very lease:
\* complete and fail refuse every earlier one, restarts in between included.
NewestLeaseAnswers ==
    \A t \in Tasks :
        ack[t].what \in {"completed", "failed"} /\ ack[t].lease # None =>
            /\ granted[t] # <<>>
            /\ granted[t][Len(granted[t])] =
                 [worker |-> ack[t].worker, lease |-> ack[t].lease]

\* As long as no _save raised, memory and file differ at most by leases that
\* have expired (requeued by the claim of an unregistered worker, which does
\* not save): a crash at any point loses nothing.
CrashLosesNothing ==
    saveFaults = 0 => RequeueExpired(mem) = RequeueExpired(disk)

\* When claim hands a lease to a worker, the memory and threads of all its
\* running leases fit the limits the worker has registered, however its
\* earlier leases were obtained, expired or reloaded.
ReservationsFit ==
    [][\A w \in Workers, t \in Tasks :
         (/\ lastLease' # lastLease
          /\ mem'.running[t] # None
          /\ mem'.running[t].lease = lastLease'
          /\ mem'.running[t].worker = w) =>
            LET caps == mem'.workers[w]
            IN  /\ \A m \in {caps.memory, caps.safe} \ {0} :
                      ReservedMemory(mem', w) <= m
                /\ caps.cpu # 0 => ReservedThreads(mem', w) <= caps.cpu]_vars

\* The view of the queue that its users have: see TaskLifecycle.
Outcome(t) ==
    CASE t \in disk.completed -> "completed"
      [] t \in disk.failed -> "failed"
      [] t \in disk.queued \cup Running(disk) -> "open"
      [] OTHER -> "unknown"

Lifecycle ==
    INSTANCE TaskLifecycle WITH
        status <- [t \in Tasks |-> Outcome(t)],
        grants <- [t \in Tasks |-> Len(granted[t])]

\* The queue implements the lifecycle of TaskLifecycle on what the file says:
\* outcomes are final, and nothing is handed out beyond max_attempts or after
\* an outcome.
ImplementsLifecycle == Lifecycle!Spec

\* A task that was accepted ends up completed or failed in the file, even if
\* every worker dies silently after every poll: leases expire, and attempts
\* run out.
EveryTaskRetires ==
    \A t \in Tasks :
        ack[t].what = "submitted" ~> t \in disk.completed \cup disk.failed

=============================================================================
