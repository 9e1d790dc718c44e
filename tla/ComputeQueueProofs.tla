-------------------------- MODULE ComputeQueueProofs --------------------------
(***************************************************************************)
(* The theorems about ComputeQueue, for any tasks, workers, limits and     *)
(* number of save faults: every operation keeps the invariant, so the      *)
(* properties hold, and the queue implements TaskLifecycle.                *)
(***************************************************************************)
EXTENDS ComputeQueueSaves

USE TasksAssumption, ReportsAssumption, LimitsAssumption, NoneAssumption

-----------------------------------------------------------------------------
(* One lemma per operation                                                 *)

\* The queue with its expired leases requeued is as good as it was.
LEMMA RequeueSound ==
    ASSUME IInv
    PROVE  LET s == RequeueExpired(mem)
           IN  /\ s \in State
               /\ Sound(s, granted, lastLease)
               /\ Ahead(s, mem)
               /\ s.completed = mem.completed
               /\ mem.failed \subseteq s.failed
<1>1. /\ mem \in State /\ granted \in Grants /\ lastLease \in Nat
      /\ Sound(mem, granted, lastLease)
  BY Zenon DEF IInv, TypeOK, Grants, Grant
<1>2. Expired(mem) \in SUBSET Running(mem)
  BY ExpiredRunning
<1>3. Sound(Yield(mem, Expired(mem)), granted, lastLease)
  BY <1>1, <1>2, YieldSound
<1>4. Ahead(Yield(mem, Expired(mem)), mem)
  BY <1>1, <1>2, YieldAhead
<1>5. /\ Yield(mem, Expired(mem)) \in State
      /\ Yield(mem, Expired(mem)).completed = mem.completed
  BY <1>1, <1>2, YieldFields
<1> QED
  BY <1>3, <1>4, <1>5 DEF RequeueExpired, Ahead

\* submit keeps the invariant, whether or not its _save succeeds.
LEMMA SubmitStep ==
    ASSUME IInv, NEW t \in Tasks, NEW ok \in BOOLEAN, Submit(t, ok)
    PROVE  IInv'
<1> DEFINE s == [mem EXCEPT !.queued = mem.queued \cup {t}, !.attempts[t] = 0]
<1>1. /\ mem \in State /\ granted \in Grants /\ lastLease \in Nat
      /\ Sound(mem, granted, lastLease)
  BY Zenon DEF IInv, TypeOK, Grants, Grant
<1>2. t \in Tasks \ Known(mem)
  BY DEF Submit, Known
<1>3. s \in State /\ Sound(s, granted, lastLease) /\ Ahead(s, mem) /\ t \in Known(s)
  BY <1>1, <1>2, SubmittedSound, Zenon
<1>4. Save(s, ok) /\ UNCHANGED <<granted, lastLease>>
  BY DEF Submit
<1> HIDE DEF s
<1>5. /\ mem' \in State /\ disk' \in State
      /\ saveFaults' \in 0..MaxSaveFaults
      /\ Sound(mem', granted', lastLease')
      /\ Sound(disk', granted', lastLease')
      /\ Ahead(mem', disk')
      /\ Ahead(disk', disk)
      /\ LeasesDrawn'
      /\ CrashLosesNothing'
  BY <1>3, <1>4, SaveStep
<1>6. CASE ~ ok
  <2>1. UNCHANGED ack
    BY <1>6 DEF Submit
  <2> QED
    BY <1>3, <1>4, <2>1, QuietSave
<1>7. CASE ok
  <2>1. /\ disk' = s
        /\ ack' = [ack EXCEPT ![t] = [NoAck EXCEPT !.what = "submitted"]]
    BY <1>4, <1>7 DEF Submit, Save
  <2>2. [NoAck EXCEPT !.what = "submitted"]
           \in [what : {"none", "submitted", "completed", "failed"},
                worker : Workers \cup {None}, lease : Nat \cup {None}]
    BY DEF NoAck
  <2>3. TypeOK'
    BY <1>1, <1>4, <1>5, <2>1, <2>2, Zenon DEF IInv, TypeOK
  <2>4. /\ ack'[t].what = "submitted"
        /\ \A u \in Tasks : u # t => ack'[u] = ack[u]
    BY <2>1 DEF NoAck, IInv, TypeOK
  <2>5. AcknowledgedIsDurable'
    BY <1>3, <1>5, <2>1, <2>4 DEF IInv, AcknowledgedIsDurable, Ahead
  <2>6. NewestLeaseAnswers' /\ GrantsBounded'
    BY <1>4, <2>4 DEF IInv, NewestLeaseAnswers, GrantsBounded
  <2> QED
    BY <1>5, <2>3, <2>5, <2>6 DEF IInv
<1> QED
  BY <1>6, <1>7

\* register_worker keeps the invariant, also while leases run.
LEMMA RegisterStep ==
    ASSUME IInv, NEW w \in Workers, NEW caps \in Capabilities, NEW ok \in BOOLEAN,
           RegisterWorker(w, caps, ok)
    PROVE  IInv'
<1> DEFINE s == [mem EXCEPT !.workers[w] = caps]
<1>1. /\ mem \in State /\ granted \in Grants /\ lastLease \in Nat
      /\ Sound(mem, granted, lastLease)
  BY Zenon DEF IInv, TypeOK, Grants, Grant
<1>2. s \in State /\ Sound(s, granted, lastLease) /\ Ahead(s, mem)
  BY <1>1, RegisteredSound
<1>3. Save(s, ok) /\ UNCHANGED <<granted, lastLease, ack>>
  BY DEF RegisterWorker
<1> QED
  BY <1>2, <1>3, QuietSave

\* The claim of an unregistered worker, which requeues without saving, keeps
\* the invariant.
LEMMA ClaimUnregisteredStep ==
    ASSUME IInv, NEW w \in Workers, ClaimUnregistered(w)
    PROVE  IInv'
<1>1. /\ RequeueExpired(mem) \in State
      /\ Sound(RequeueExpired(mem), granted, lastLease)
      /\ Ahead(RequeueExpired(mem), mem)
  BY RequeueSound
<1>2. /\ mem' = RequeueExpired(mem)
      /\ UNCHANGED <<disk, lastLease, granted, ack, saveFaults>>
  BY DEF ClaimUnregistered
<1>3. Ahead(mem', disk') /\ Ahead(disk', disk)
  BY <1>1, <1>2 DEF IInv, Ahead
<1>4. CrashLosesNothing'
  BY <1>2, RequeueTwice DEF IInv, TypeOK, CrashLosesNothing
<1>5. AcknowledgedIsDurable' /\ NewestLeaseAnswers' /\ GrantsBounded'
  BY <1>2, <1>3, QuietHistory
<1>6. TypeOK' /\ LeasesDrawn'
  BY <1>1, <1>2, Zenon DEF IInv, TypeOK, LeasesDrawn
<1>7. Sound(mem', granted', lastLease') /\ Sound(disk', granted', lastLease')
  BY <1>1, <1>2 DEF IInv
<1> QED
  BY <1>3, <1>4, <1>5, <1>6, <1>7 DEF IInv

\* A claim that finds nothing, and status, keep the invariant.
LEMMA RequeueStep ==
    ASSUME IInv, NEW ok \in BOOLEAN, Save(RequeueExpired(mem), ok),
           UNCHANGED <<lastLease, granted, ack>>
    PROVE  IInv'
BY RequeueSound, QuietSave

\* release keeps the invariant.
LEMMA ReleaseStep ==
    ASSUME IInv, NEW w \in Workers, NEW t \in Tasks, NEW l, NEW ok \in BOOLEAN,
           Release(w, t, l, ok)
    PROVE  IInv'
<1>1. /\ mem \in State /\ granted \in Grants /\ lastLease \in Nat
      /\ Sound(mem, granted, lastLease)
  BY Zenon DEF IInv, TypeOK, Grants, Grant
<1>2. {t} \in SUBSET Running(mem)
  BY DEF Release, LeasedTo, Running
<1>3. /\ Yield(mem, {t}) \in State
      /\ Sound(Yield(mem, {t}), granted, lastLease)
      /\ Ahead(Yield(mem, {t}), mem)
  BY <1>1, <1>2, YieldFields, YieldSound, YieldAhead
<1>4. Save(Yield(mem, {t}), ok) /\ UNCHANGED <<lastLease, granted, ack>>
  BY DEF Release
<1> QED
  BY <1>3, <1>4, QuietSave

\* complete and fail: the accepted lease is the newest one handed out.
LEMMA AnswerStep ==
    ASSUME IInv, NEW w \in Workers, NEW t \in Tasks, NEW l \in Presentable(t),
           NEW ok \in BOOLEAN, Complete(w, t, l, ok) \/ Fail(w, t, l, ok)
    PROVE  IInv'
<1> PICK what \in {"completed", "failed"} :
       /\ Answer(t, what, w, l, ok)
       /\ what = "completed" => Save(Done(mem, t), ok)
       /\ what = "failed" => Save(GivenUp(mem, t), ok)
  BY DEF Complete, Fail, Done, GivenUp
<1> DEFINE s == IF what = "completed" THEN Done(mem, t) ELSE GivenUp(mem, t)
<1>1. /\ mem \in State /\ granted \in Grants /\ lastLease \in Nat
      /\ Sound(mem, granted, lastLease)
  BY Zenon DEF IInv, TypeOK, Grants, Grant
<1>2. LeasedTo(mem, w, t, l) /\ UNCHANGED <<lastLease, granted>> /\ Save(s, ok)
  BY DEF Complete, Fail
<1>3. t \in Running(mem)
  BY <1>2 DEF LeasedTo, Running
<1>4. /\ s \in State /\ Sound(s, granted, lastLease) /\ Ahead(s, mem)
      /\ what = "completed" => t \in s.completed
      /\ what = "failed" => t \in s.failed
  BY <1>1, <1>3, OutcomeSound
<1> HIDE DEF s
<1>5. /\ mem' \in State /\ disk' \in State
      /\ saveFaults' \in 0..MaxSaveFaults
      /\ Sound(mem', granted', lastLease')
      /\ Sound(disk', granted', lastLease')
      /\ Ahead(mem', disk')
      /\ Ahead(disk', disk)
      /\ LeasesDrawn'
      /\ CrashLosesNothing'
  BY <1>2, <1>4, SaveStep
<1>6. CASE ~ ok
  <2>1. UNCHANGED ack
    BY <1>6 DEF Answer
  <2> QED
    BY <1>2, <1>4, <2>1, QuietSave
<1>7. CASE ok
  <2>1. disk' = s /\ ack' = [ack EXCEPT ![t] = [what |-> what, worker |-> w, lease |-> l]]
    BY <1>2, <1>7 DEF Save, Answer
  <2>2. l \in Nat \cup {None}
    <3>1. DOMAIN granted[t] = 1..Len(granted[t])
      BY <1>1 DEF Grants
    <3>2. \A i \in DOMAIN granted[t] : granted[t][i].lease \in Nat
      BY <1>1, <3>1, GrantLease
    <3> QED
      BY <3>2 DEF Presentable
  <2>3. TypeOK'
    BY <1>1, <1>2, <1>5, <2>1, <2>2, Zenon DEF IInv, TypeOK
  <2>4. /\ ack'[t] = [what |-> what, worker |-> w, lease |-> l]
        /\ \A u \in Tasks : u # t => ack'[u] = ack[u]
    BY <2>1 DEF IInv, TypeOK
  <2>5. AcknowledgedIsDurable'
    BY <1>4, <1>5, <2>1, <2>4, SMTT(30) DEF IInv, AcknowledgedIsDurable, Ahead
  <2>6. l # None => /\ granted[t] # <<>>
                    /\ granted[t][Len(granted[t])] = [worker |-> w, lease |-> l]
    <3> SUFFICES ASSUME l # None
                 PROVE  /\ granted[t] # <<>>
                        /\ granted[t][Len(granted[t])] = [worker |-> w, lease |-> l]
      OBVIOUS
    <3>1. granted[t] \in Seq(Grant)
      BY <1>1 DEF Grants
    <3>2. PICK i \in 1..Len(granted[t]) : granted[t][i].lease = l
      BY <3>1 DEF Presentable
    <3>3. granted[t][i] \in Grant
      BY <3>1, SeqElement
    <3>4. mem.running[t].lease = l /\ mem.running[t].worker = w
      BY <1>2 DEF LeasedTo, LeaseValid
    <3>5. i = Len(granted[t]) /\ granted[t][i].worker = w
      BY <1>1, <1>3, <3>2, <3>4, SMTT(30) DEF Sound
    <3>6. granted[t][i] = [worker |-> w, lease |-> l]
      BY <3>2, <3>3, <3>5 DEF Grant
    <3>7. granted[t] # <<>>
      BY <3>2
    <3> QED
      BY <3>5, <3>6, <3>7
  <2>7. NewestLeaseAnswers' /\ GrantsBounded'
    BY <1>2, <2>4, <2>6, SMTT(30) DEF IInv, NewestLeaseAnswers, GrantsBounded
  <2> QED
    BY <1>5, <2>3, <2>5, <2>7 DEF IInv
<1> QED
  BY <1>6, <1>7

\* claim that leases a task: the identifier is new, the attempt is counted, and
\* the worker learns of the lease only when both are in the file.
LEMMA ClaimStep ==
    ASSUME IInv, NEW w \in Workers, NEW avail \in Availability, NEW t \in Tasks,
           NEW ok \in BOOLEAN, ClaimTask(w, avail, t, ok)
    PROVE  IInv' /\ Ahead(disk', disk) /\ (ok => disk' = mem' /\ t \in Running(disk'))
<1> DEFINE s == RequeueExpired(mem)
           y == Leased(s, w, t, lastLease + 1)
           h == [granted EXCEPT ![t] = Append(@, [worker |-> w, lease |-> lastLease + 1])]
<1>1. /\ mem \in State /\ disk \in State /\ granted \in Grants /\ lastLease \in Nat
      /\ Sound(disk, granted, lastLease) /\ Ahead(mem, disk) /\ TypeOK
      /\ \A u \in Tasks : \A i \in 1..Len(granted[u]) : granted[u][i].lease <= lastLease
  BY Zenon DEF IInv, TypeOK, Grants, Grant, LeasesDrawn
<1>2. /\ s \in State /\ Sound(s, granted, lastLease) /\ Ahead(s, mem)
      /\ s.completed = mem.completed /\ mem.failed \subseteq s.failed
  BY RequeueSound
<1>3. t \in s.queued
  BY SMTT(30) DEF ClaimTask, First, Fitting
<1>4. /\ lastLease' = lastLease + 1
      /\ Save(y, ok)
      /\ granted' = (IF ok THEN h ELSE granted)
      /\ UNCHANGED ack
  BY SMTT(30) DEF ClaimTask
<1> HIDE DEF s
<1>5. /\ y \in State /\ y.completed = s.completed /\ y.failed = s.failed
      /\ Known(y) = Known(s) /\ Running(y) = Running(s) \cup {t}
  BY <1>1, <1>2, <1>3, LeasedFields, SMTT(30)
<1>6. Sound(y, granted, lastLease + 1) /\ Sound(disk, granted, lastLease + 1)
  BY <1>1, <1>2, <1>3, LeasedSound, SoundLater, Zenon
<1>7. /\ h \in Grants
      /\ Sound(y, h, lastLease + 1)
      /\ Len(h[t]) <= MaxAttempts
      /\ \A u \in Tasks : \A i \in 1..Len(h[u]) : h[u][i].lease <= lastLease + 1
  BY <1>1, <1>2, <1>3, GrantedSound, Zenon
<1>8. \A u \in Tasks : u # t => h[u] = granted[u]
  BY <1>1 DEF Grants
<1>9. ack[t].what \notin {"completed", "failed"}
  BY <1>1, <1>2, <1>3, SMTT(30) DEF IInv, AcknowledgedIsDurable, Ahead, Sound, WellPlaced
<1> HIDE DEF y, h
<1>10. Ahead(y, disk) /\ Ahead(y, y) /\ Ahead(disk, disk)
  BY <1>1, <1>2, <1>5, SMTT(30) DEF Ahead
<1>11. CASE ok
  <2>1. mem' = y /\ disk' = y /\ granted' = h /\ saveFaults' = saveFaults
    BY <1>4, <1>11 DEF Save
  <2>2. TypeOK'
    <3>1. lastLease' \in Nat
      BY <1>1, <1>4
    <3>2. granted' \in [Tasks -> Seq([worker : Workers, lease : Nat])]
      BY <1>7, <2>1, Zenon DEF Grants, Grant
    <3>3. mem' \in State /\ disk' \in State
      BY <1>5, <2>1
    <3>4. UNCHANGED ack /\ UNCHANGED saveFaults
      BY <1>4, <2>1
    <3> QED
      BY <1>1, <3>1, <3>2, <3>3, <3>4, Zenon DEF TypeOK
  <2>3. GrantsBounded' /\ LeasesDrawn'
    BY <1>4, <1>7, <1>8, <2>1, SMTT(30) DEF IInv, GrantsBounded, LeasesDrawn
  <2>4. AcknowledgedIsDurable'
    BY <1>4, <1>10, <2>1, SMTT(30) DEF IInv, AcknowledgedIsDurable, Ahead
  <2>5. NewestLeaseAnswers'
    BY <1>4, <1>8, <1>9, <2>1, SMTT(30) DEF IInv, NewestLeaseAnswers
  <2>6. CrashLosesNothing'
    BY <2>1 DEF CrashLosesNothing
  <2> QED
    BY <1>4, <1>5, <1>7, <1>10, <2>1, <2>2, <2>3, <2>4, <2>5, <2>6, SMTT(30) DEF IInv
<1>12. CASE ~ ok
  <2>1. /\ mem' = y /\ disk' = disk /\ granted' = granted
        /\ saveFaults' = saveFaults + 1 /\ saveFaults < MaxSaveFaults
    BY <1>4, <1>12 DEF Save
  <2>2. TypeOK' /\ saveFaults' # 0
    <3>1. lastLease' \in Nat
      BY <1>1, <1>4
    <3>2. saveFaults' \in 0..MaxSaveFaults /\ saveFaults' # 0
      BY <1>1, <2>1 DEF TypeOK
    <3>3. mem' \in State /\ disk' \in State
      BY <1>1, <1>5, <2>1, SMTT(30)
    <3>4. UNCHANGED ack /\ UNCHANGED granted
      BY <1>4, <2>1
    <3> QED
      BY <1>1, <3>1, <3>2, <3>3, <3>4, Zenon DEF TypeOK
  <2>3. LeasesDrawn'
    <3> SUFFICES ASSUME NEW u \in Tasks, NEW i \in 1..Len(granted[u])
                 PROVE  granted[u][i].lease <= lastLease + 1
      BY <1>4, <2>1, SMTT(30) DEF LeasesDrawn
    <3>1. granted[u][i].lease \in Nat
      BY <1>1, GrantLease
    <3> QED
      BY <1>1, <3>1, SMTT(30)
  <2>4. AcknowledgedIsDurable' /\ NewestLeaseAnswers' /\ GrantsBounded'
    BY <1>4, <1>10, <2>1, QuietHistory
  <2>5. CrashLosesNothing'
    BY <2>2 DEF CrashLosesNothing
  <2> QED
    BY <1>4, <1>6, <1>10, <1>12, <2>1, <2>2, <2>3, <2>4, <2>5, SMTT(30) DEF IInv
<1> QED
  BY <1>11, <1>12, SMTT(30)

\* A restart, which replaces self._state by the file, keeps the invariant.
LEMMA RestartStep ==
    ASSUME IInv, Restart
    PROVE  IInv'
<1>1. mem' = disk /\ UNCHANGED <<disk, lastLease, granted, ack, saveFaults>>
  BY DEF Restart
<1>2. Ahead(mem', disk') /\ Ahead(disk', disk)
  BY <1>1 DEF Ahead
<1>3. AcknowledgedIsDurable' /\ NewestLeaseAnswers' /\ GrantsBounded'
  BY <1>1, <1>2, QuietHistory
<1>4. TypeOK' /\ LeasesDrawn' /\ CrashLosesNothing'
  BY <1>1, Zenon DEF IInv, TypeOK, LeasesDrawn, CrashLosesNothing
<1>5. Sound(mem', granted', lastLease') /\ Sound(disk', granted', lastLease')
  BY <1>1 DEF IInv
<1> QED
  BY <1>2, <1>3, <1>4, <1>5 DEF IInv

\* The passing of a second keeps the invariant and what the file knows.
LEMMA TickStep ==
    ASSUME IInv, Tick
    PROVE  IInv' /\ Ahead(disk', disk)
<1>1. /\ mem' = Aged(mem) /\ disk' = Aged(disk)
      /\ UNCHANGED <<lastLease, granted, ack, saveFaults>>
  BY DEF Tick
<1>2. /\ mem \in State /\ disk \in State /\ granted \in Grants /\ lastLease \in Nat
      /\ Sound(mem, granted, lastLease) /\ Sound(disk, granted, lastLease)
      /\ Ahead(mem, disk)
  BY Zenon DEF IInv, TypeOK, Grants, Grant
<1>3. /\ Aged(mem) \in State /\ Sound(Aged(mem), granted, lastLease)
      /\ Aged(disk) \in State /\ Sound(Aged(disk), granted, lastLease)
  BY <1>2, AgedSound
<1>4. /\ Aged(mem).completed = mem.completed /\ Aged(mem).failed = mem.failed
      /\ Known(Aged(mem)) = Known(mem)
      /\ Aged(disk).completed = disk.completed /\ Aged(disk).failed = disk.failed
      /\ Known(Aged(disk)) = Known(disk)
  BY <1>2, AgedFields, SMTT(30)
<1>5. Ahead(mem', disk') /\ Ahead(disk', disk)
  BY <1>1, <1>2, <1>4 DEF Ahead
<1>6. AcknowledgedIsDurable' /\ NewestLeaseAnswers' /\ GrantsBounded'
  BY <1>1, <1>5, QuietHistory
<1>7. TypeOK' /\ LeasesDrawn'
  BY <1>1, <1>3, Zenon DEF IInv, TypeOK, LeasesDrawn
<1>8. CrashLosesNothing'
  <2> SUFFICES ASSUME saveFaults = 0
               PROVE  RequeueExpired(Aged(mem)) = RequeueExpired(Aged(disk))
    BY <1>1 DEF CrashLosesNothing
  <2>1. RequeueExpired(mem) = RequeueExpired(disk)
    BY DEF IInv, CrashLosesNothing
  <2>2. WellPlaced(mem) /\ WellPlaced(disk)
    BY <1>2, SMTT(30) DEF Sound
  <2>3. /\ RequeueExpired(Aged(mem)) = RequeueExpired(Aged(RequeueExpired(mem)))
        /\ RequeueExpired(Aged(disk)) = RequeueExpired(Aged(RequeueExpired(disk)))
    BY <1>2, <2>2, RequeueLater
  <2> QED
    BY <2>1, <2>3
<1> QED
  BY <1>1, <1>3, <1>5, <1>6, <1>7, <1>8 DEF IInv

-----------------------------------------------------------------------------
(* Safety                                                                  *)

\* No operation, failed save, restart or passing of time leaves the inductive
\* invariant.
LEMMA NextIInv == IInv /\ [Next]_vars => IInv'
<1> SUFFICES ASSUME IInv, [Next]_vars PROVE IInv'
  OBVIOUS
<1>1. ASSUME NEW t \in Tasks, NEW ok \in BOOLEAN, Submit(t, ok) PROVE IInv'
  BY <1>1, SubmitStep
<1>2. ASSUME NEW w \in Workers, NEW caps \in Capabilities, NEW ok \in BOOLEAN,
             RegisterWorker(w, caps, ok)
      PROVE  IInv'
  BY <1>2, RegisterStep
<1>3. ASSUME NEW w \in Workers, ClaimUnregistered(w) PROVE IInv'
  BY <1>3, ClaimUnregisteredStep
<1>4. ASSUME NEW w \in Workers, NEW avail \in Availability, NEW t \in Tasks,
             NEW ok \in BOOLEAN, ClaimTask(w, avail, t, ok)
      PROVE  IInv'
  BY <1>4, ClaimStep
<1>5. ASSUME NEW w \in Workers, NEW avail \in Availability, NEW ok \in BOOLEAN,
             ClaimNothing(w, avail, ok)
      PROVE  IInv'
  BY <1>5, RequeueStep DEF ClaimNothing
<1>6. ASSUME NEW w \in Workers, NEW t \in Tasks, NEW ok \in BOOLEAN,
             NEW l \in Presentable(t),
             Complete(w, t, l, ok) \/ Fail(w, t, l, ok) \/ Release(w, t, l, ok)
      PROVE  IInv'
  BY <1>6, AnswerStep, ReleaseStep
<1>7. ASSUME NEW ok \in BOOLEAN, Status(ok) PROVE IInv'
  BY <1>7, RequeueStep DEF Status
<1>8. CASE Restart
  BY <1>8, RestartStep
<1>9. CASE Tick
  BY <1>9, TickStep
<1>10. CASE UNCHANGED vars
  BY <1>10, Zenon DEF vars, IInv, TypeOK, GrantsBounded, LeasesDrawn,
     AcknowledgedIsDurable, NewestLeaseAnswers, CrashLosesNothing
<1> QED
  BY <1>1, <1>2, <1>3, <1>4, <1>5, <1>6, <1>7, <1>8, <1>9, <1>10, SMTT(30) DEF Next

\* The inductive invariant holds throughout every behaviour of the queue.
THEOREM QueueInvariant == Spec => []IInv
BY InitIInv, NextIInv, PTL DEF Spec

\* self._state, the file and the histories keep their types.
THEOREM TypeCorrect == Spec => []TypeOK
<1>1. IInv => TypeOK
  BY DEF IInv
<1> QED
  BY <1>1, QueueInvariant, PTL

\* No task is ever in two of queued, running, completed and failed.
THEOREM OnePlaceHolds == Spec => []OnePlace
<1>1. IInv => OnePlace
  BY SMTT(30) DEF IInv, Sound, OnePlace
<1> QED
  BY <1>1, QueueInvariant, PTL

\* claim hands a task out at most max_attempts times, restarts included.
THEOREM GrantsBoundedHolds == Spec => []GrantsBounded
<1>1. IInv => GrantsBounded
  BY SMTT(30) DEF IInv
<1> QED
  BY <1>1, QueueInvariant, PTL

\* What submit, complete and fail acknowledged is never lost.
THEOREM AcknowledgedIsDurableHolds == Spec => []AcknowledgedIsDurable
<1>1. IInv => AcknowledgedIsDurable
  BY DEF IInv
<1> QED
  BY <1>1, QueueInvariant, PTL

\* complete and fail accept a lease identifier only if it is the newest.
THEOREM NewestLeaseAnswersHolds == Spec => []NewestLeaseAnswers
<1>1. IInv => NewestLeaseAnswers
  BY DEF IInv
<1> QED
  BY <1>1, QueueInvariant, PTL

\* Without failing saves, a crash at any point loses nothing.
THEOREM CrashLosesNothingHolds == Spec => []CrashLosesNothing
<1>1. IInv => CrashLosesNothing
  BY DEF IInv
<1> QED
  BY <1>1, QueueInvariant, PTL

-----------------------------------------------------------------------------
(* Implementation of TaskLifecycle                                         *)

\* A step that moves the file forward and hands out at most one task, which
\* then is running in the file.
Forward ==
    /\ Ahead(disk', disk)
    /\ \/ UNCHANGED granted
       \/ \E t \in Tasks : \E e \in Grant :
             /\ granted' = [granted EXCEPT ![t] = Append(@, e)]
             /\ t \in Running(disk')

\* Every step of the queue, failed saves and restarts included, is one.
LEMMA FileForward ==
    ASSUME IInv, [Next]_vars PROVE Forward
<1>1. /\ mem \in State /\ granted \in Grants /\ lastLease \in Nat
      /\ Sound(mem, granted, lastLease) /\ Ahead(disk, disk)
  BY Zenon DEF IInv, TypeOK, Grants, Grant, Ahead
<1>2. ASSUME NEW t \in Tasks, NEW ok \in BOOLEAN, Submit(t, ok) PROVE Forward
  <2> DEFINE s == [mem EXCEPT !.queued = mem.queued \cup {t}, !.attempts[t] = 0]
  <2>1. t \in Tasks \ Known(mem) /\ Save(s, ok) /\ UNCHANGED <<granted, lastLease>>
    BY <1>2 DEF Submit, Known
  <2>2. s \in State /\ Sound(s, granted, lastLease) /\ Ahead(s, mem)
    BY <1>1, <2>1, SubmittedSound, Zenon
  <2> HIDE DEF s
  <2> QED
    BY <2>1, <2>2, SaveStep DEF Forward
<1>3. ASSUME NEW w \in Workers, NEW caps \in Capabilities, NEW ok \in BOOLEAN,
             RegisterWorker(w, caps, ok)
      PROVE  Forward
  <2> DEFINE s == [mem EXCEPT !.workers[w] = caps]
  <2>1. Save(s, ok) /\ UNCHANGED <<granted, lastLease>>
    BY <1>3 DEF RegisterWorker
  <2>2. s \in State /\ Sound(s, granted, lastLease) /\ Ahead(s, mem)
    BY <1>1, RegisteredSound
  <2> HIDE DEF s
  <2> QED
    BY <2>1, <2>2, SaveStep, SMTT(30) DEF Forward
<1>4. ASSUME NEW w \in Workers, ClaimUnregistered(w) PROVE Forward
  BY <1>1, <1>4 DEF ClaimUnregistered, Forward
<1>5. ASSUME NEW w \in Workers, NEW avail \in Availability, NEW t \in Tasks,
             NEW ok \in BOOLEAN, ClaimTask(w, avail, t, ok)
      PROVE  Forward
  <2>1. Ahead(disk', disk) /\ (ok => t \in Running(disk'))
    BY <1>5, ClaimStep
  <2>2. /\ ok => granted' = [granted EXCEPT
                   ![t] = Append(@, [worker |-> w, lease |-> lastLease + 1])]
        /\ ~ ok => granted' = granted
    BY <1>5 DEF ClaimTask
  <2>3. [worker |-> w, lease |-> lastLease + 1] \in Grant
    BY <1>1, SMTT(30) DEF Grant
  <2> QED
    BY <2>1, <2>2, <2>3, SMTT(30) DEF Forward
<1>6. ASSUME NEW ok \in BOOLEAN, Save(RequeueExpired(mem), ok),
             UNCHANGED <<granted, lastLease>>
      PROVE  Forward
  BY <1>6, RequeueSound, SaveStep, SMTT(30) DEF Forward
<1>7. ASSUME NEW w \in Workers, NEW t \in Tasks, NEW ok \in BOOLEAN, NEW l,
             Complete(w, t, l, ok) \/ Fail(w, t, l, ok)
      PROVE  Forward
  <2>1. t \in Running(mem) /\ UNCHANGED <<granted, lastLease>>
    BY <1>7 DEF Complete, Fail, LeasedTo, Running
  <2>2. PICK s \in {Done(mem, t), GivenUp(mem, t)} : Save(s, ok)
    BY <1>7 DEF Complete, Fail, Done, GivenUp
  <2>3. s \in State /\ Sound(s, granted, lastLease) /\ Ahead(s, mem)
    BY <1>1, <2>1, OutcomeSound, SMTT(30)
  <2> QED
    BY <2>1, <2>2, <2>3, SaveStep, SMTT(30) DEF Forward
<1>8. ASSUME NEW w \in Workers, NEW t \in Tasks, NEW ok \in BOOLEAN, NEW l,
             Release(w, t, l, ok)
      PROVE  Forward
  <2>1. {t} \in SUBSET Running(mem)
    BY <1>8 DEF Release, LeasedTo, Running
  <2>2. /\ Yield(mem, {t}) \in State
        /\ Sound(Yield(mem, {t}), granted, lastLease)
        /\ Ahead(Yield(mem, {t}), mem)
    BY <1>1, <2>1, YieldFields, YieldSound, YieldAhead, SMTT(30)
  <2>3. Save(Yield(mem, {t}), ok) /\ UNCHANGED <<lastLease, granted>>
    BY <1>8, SMTT(30) DEF Release
  <2> QED
    BY <2>2, <2>3, SaveStep, SMTT(30) DEF Forward
<1>9. ASSUME Restart PROVE Forward
  BY <1>1, <1>9 DEF Restart, Forward
<1>10. ASSUME Tick PROVE Forward
  BY <1>10, TickStep DEF Tick, Forward
<1>11. ASSUME UNCHANGED vars PROVE Forward
  BY <1>1, <1>11 DEF vars, Forward
<1>12. ASSUME NEW w \in Workers, NEW avail \in Availability, NEW ok \in BOOLEAN,
              ClaimNothing(w, avail, ok)
       PROVE  Forward
  <2>1. Save(RequeueExpired(mem), ok) /\ UNCHANGED <<granted, lastLease>>
    BY <1>12 DEF ClaimNothing
  <2> QED
    BY <1>6, <2>1
<1>13. ASSUME NEW ok \in BOOLEAN, Status(ok) PROVE Forward
  <2>1. Save(RequeueExpired(mem), ok) /\ UNCHANGED <<granted, lastLease>>
    BY <1>13 DEF Status
  <2> QED
    BY <1>6, <2>1
<1> QED
  BY <1>2, <1>3, <1>4, <1>5, <1>7, <1>8, <1>9, <1>10, <1>11, <1>12, <1>13, SMTT(30) DEF Next

\* What the file says of every task, now and after a step.
LEMMA OutcomeForward ==
    ASSUME WellPlaced(disk), WellPlaced(disk'), Ahead(disk', disk)
    PROVE  \A t \in Tasks :
              /\ Outcome(t)' \in {"unknown", "open", "completed", "failed"}
              /\ Outcome(t)' \in Lifecycle!Successors(Outcome(t))
<1> SUFFICES ASSUME NEW t \in Tasks
             PROVE  /\ Outcome(t)' \in {"unknown", "open", "completed", "failed"}
                    /\ Outcome(t)' \in Lifecycle!Successors(Outcome(t))
  OBVIOUS
<1>1. CASE t \in disk.completed
  BY <1>1 DEF Outcome, Ahead, WellPlaced, Lifecycle!Successors
<1>2. CASE t \in disk.failed /\ t \notin disk.completed
  BY <1>2 DEF Outcome, Ahead, WellPlaced, Lifecycle!Successors
<1>3. CASE t \in disk.queued \cup Running(disk) /\ t \notin disk.completed \cup disk.failed
  <2>1. t \in Known(disk')
    BY <1>3 DEF Ahead, Known
  <2> QED
    BY <1>3, <2>1 DEF Outcome, Known, Lifecycle!Successors
<1>4. CASE t \notin Known(disk)
  <2>1. Outcome(t) = "unknown"
    BY <1>4 DEF Outcome, Known
  <2>2. Outcome(t)' \in {"unknown", "open", "completed", "failed"}
    BY DEF Outcome
  <2> QED
    BY <2>1, <2>2 DEF Lifecycle!Successors
<1> QED
  BY <1>1, <1>2, <1>3, <1>4, SMTT(30) DEF Known

\* The coordinator's queue implements the lifecycle it promises its users.
THEOREM ImplementsLifecycleHolds == Spec => ImplementsLifecycle
<1>1. Init => Lifecycle!Init
  <2> SUFFICES ASSUME Init PROVE Lifecycle!Init
    OBVIOUS
  <2> PICK h \in Workers : mem = Loaded(h)
    BY DEF Init
  <2>1. \A t \in Tasks : [worker |-> h, lease |-> None, ttl |-> LeaseTime(t),
                          attempts |-> 1] # None
    BY LeaseTimeType
  <2>2. disk.queued = {} /\ disk.completed = {} /\ disk.failed = {}
        /\ Running(disk) = Legacy
    BY <2>1 DEF Init, Loaded, Running
  <2>3. \A t \in Tasks : Outcome(t) = IF t \in Legacy THEN "open" ELSE "unknown"
    BY <2>2 DEF Outcome
  <2>4. \A t \in Tasks : Len(granted[t]) = 0
    BY DEF Init
  <2> QED
    BY <2>3, <2>4 DEF Lifecycle!Init
<1>2. ASSUME IInv, IInv', [Next]_vars
      PROVE  [Lifecycle!Next]_(Lifecycle!lifecycleVars)
  <2>1. WellPlaced(disk) /\ WellPlaced(disk') /\ Ahead(disk', disk)
    BY <1>2, FileForward, Zenon DEF IInv, Sound, Forward
  <2>2. Lifecycle!Advance
    BY <2>1, OutcomeForward, SMTT(30) DEF Lifecycle!Advance
  <2>3. CASE UNCHANGED granted
    BY <2>2, <2>3 DEF Lifecycle!Next, Lifecycle!Move
  <2>4. ASSUME NEW t \in Tasks, NEW e \in Grant, t \in Running(disk'),
               granted' = [granted EXCEPT ![t] = Append(@, e)]
        PROVE  Lifecycle!Grant(t)
    <3>1. granted \in Grants /\ granted[t] \in Seq(Grant)
      BY <1>2, Zenon DEF IInv, TypeOK, Grants, Grant
    <3>2. /\ granted'[t] = Append(granted[t], e)
          /\ \A u \in Tasks : u # t => granted'[u] = granted[u]
      BY <2>4, <3>1, SMTT(30) DEF Grants
    <3>3. Len(granted'[t]) = Len(granted[t]) + 1 /\ Len(granted[t]) \in Nat
      BY <3>1, <3>2, SeqAppend
    <3>4. Len(granted'[t]) <= MaxAttempts
      BY <1>2 DEF IInv, GrantsBounded
    <3>5. Outcome(t)' = "open"
      BY <2>1, <2>4 DEF Outcome, WellPlaced
    <3>6. [u \in Tasks |-> Len(granted'[u])]
             = [[u \in Tasks |-> Len(granted[u])] EXCEPT ![t] = @ + 1]
      BY <3>2, <3>3, Zenon
    <3> QED
      BY <2>2, <3>3, <3>4, <3>5, <3>6 DEF Lifecycle!Grant
  <2> QED
    BY <1>2, <2>3, <2>4, FileForward, SMTT(30) DEF Forward, Lifecycle!Next
<1> QED
  BY <1>1, <1>2, QueueInvariant, PTL DEF Spec, ImplementsLifecycle, Lifecycle!Spec

=============================================================================
