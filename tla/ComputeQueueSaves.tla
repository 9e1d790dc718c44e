-------------------------- MODULE ComputeQueueSaves --------------------------
(***************************************************************************)
(* The invariant IInv of ComputeQueue holds initially, and what a _save,   *)
(* successful or not, and the requeueing of expired leases do to it.       *)
(***************************************************************************)
EXTENDS ComputeQueueLemmas

USE TasksAssumption, ReportsAssumption, LimitsAssumption, NoneAssumption

-----------------------------------------------------------------------------
(* The inductive invariant                                                 *)

\* The initial state, an empty file or one of an older version.
LEMMA InitIInv == Init => IInv
<1> SUFFICES ASSUME Init PROVE IInv
  OBVIOUS
<1> PICK h \in Workers : mem = Loaded(h)
  BY DEF Init
<1>1. mem \in State /\ disk = mem
  <2>1. \A t \in Tasks : [worker |-> h, lease |-> None, ttl |-> LeaseTime(t),
                          attempts |-> 1] \in Lease
    BY LeaseTimeType DEF Lease
  <2> QED
    BY <2>1 DEF Init, Loaded, State
<1>2. /\ mem.queued = {} /\ mem.completed = {} /\ mem.failed = {}
      /\ mem.attempts = [t \in Tasks |-> 0]
      /\ \A t \in Running(mem) : mem.running[t].lease = None
      /\ Running(mem) = Legacy
  <2>1. \A t \in Tasks : [worker |-> h, lease |-> None, ttl |-> LeaseTime(t),
                          attempts |-> 1] # None
    BY LeaseTimeType
  <2> QED
    BY <2>1 DEF Loaded, Running
<1>3. granted = [t \in Tasks |-> <<>>] /\ lastLease = 0 /\ saveFaults = 0
  BY DEF Init
<1>4. \A t \in Tasks : Len(granted[t]) = 0
  BY <1>3
<1>5. Sound(mem, granted, lastLease)
  BY <1>2, <1>3, <1>4 DEF Sound, WellPlaced, Known, Running
<1>6. TypeOK
  <2>1. ack \in [Tasks -> [what   : {"none", "submitted", "completed", "failed"},
                           worker : Workers \cup {None},
                           lease  : Nat \cup {None}]]
    BY DEF Init, NoAck
  <2>2. granted \in [Tasks -> Seq([worker : Workers, lease : Nat])]
    BY <1>3
  <2> QED
    BY <1>1, <1>3, <2>1, <2>2 DEF TypeOK
<1>7. \A t \in Tasks : /\ ack[t].what \in {"none", "submitted"}
                       /\ ack[t].what = "submitted" => t \in Legacy
  BY DEF Init, NoAck
<1>8. AcknowledgedIsDurable /\ NewestLeaseAnswers
  BY <1>1, <1>2, <1>7 DEF AcknowledgedIsDurable, NewestLeaseAnswers, Known
<1>9. GrantsBounded /\ LeasesDrawn /\ Ahead(mem, disk) /\ CrashLosesNothing
  BY <1>1, <1>4 DEF GrantsBounded, LeasesDrawn, Ahead, CrashLosesNothing
<1> QED
  BY <1>1, <1>5, <1>6, <1>8, <1>9 DEF IInv

\* A step that acknowledges nothing and hands out nothing keeps what was
\* acknowledged, because the file only gains tasks and outcomes.
LEMMA QuietHistory ==
    ASSUME IInv, UNCHANGED <<granted, ack>>, Ahead(disk', disk)
    PROVE  /\ AcknowledgedIsDurable'
           /\ NewestLeaseAnswers'
           /\ GrantsBounded'
BY DEF IInv, Ahead, AcknowledgedIsDurable, NewestLeaseAnswers, GrantsBounded

\* A mutation that is sound and only adds tasks and outcomes, followed by a
\* _save that succeeds or raises.
LEMMA SaveStep ==
    ASSUME IInv, NEW s \in State, NEW ok \in BOOLEAN, Save(s, ok),
           UNCHANGED <<granted, lastLease>>,
           Sound(s, granted, lastLease), Ahead(s, mem)
    PROVE  /\ mem' \in State /\ disk' \in State
           /\ saveFaults' \in 0..MaxSaveFaults
           /\ Sound(mem', granted', lastLease')
           /\ Sound(disk', granted', lastLease')
           /\ Ahead(mem', disk')
           /\ Ahead(disk', disk)
           /\ LeasesDrawn'
           /\ CrashLosesNothing'
<1>1. TypeOK /\ Ahead(mem, disk)
  BY DEF IInv
<1>2. /\ mem' = s /\ disk' = (IF ok THEN s ELSE disk)
      /\ saveFaults' = (IF ok THEN saveFaults ELSE saveFaults + 1)
      /\ ok \/ saveFaults < MaxSaveFaults
  BY DEF Save
<1>3. saveFaults' \in 0..MaxSaveFaults
  BY <1>1, <1>2 DEF TypeOK
<1>4. Ahead(s, disk)
  BY <1>1 DEF Ahead
<1>5. Ahead(s, s) /\ Ahead(disk, disk)
  BY DEF Ahead
<1>6. LeasesDrawn'
  BY DEF IInv, LeasesDrawn
<1>7. CrashLosesNothing'
  <2>1. CASE ok
    BY <1>2, <2>1 DEF CrashLosesNothing
  <2>2. CASE ~ ok
    BY <1>1, <1>2, <2>2 DEF CrashLosesNothing, TypeOK
  <2> QED
    BY <2>1, <2>2
<1>8. CASE ok
  BY <1>1, <1>2, <1>3, <1>4, <1>5, <1>6, <1>7, <1>8
<1>9. CASE ~ ok
  BY <1>1, <1>2, <1>3, <1>4, <1>5, <1>6, <1>7, <1>9 DEF IInv, TypeOK
<1> QED
  BY <1>8, <1>9

\* The same, for an operation that acknowledges nothing.
LEMMA QuietSave ==
    ASSUME IInv, NEW s \in State, NEW ok \in BOOLEAN, Save(s, ok),
           UNCHANGED <<granted, lastLease, ack>>,
           Sound(s, granted, lastLease), Ahead(s, mem)
    PROVE  IInv'
<1>1. /\ mem' \in State /\ disk' \in State
      /\ saveFaults' \in 0..MaxSaveFaults
      /\ Sound(mem', granted', lastLease')
      /\ Sound(disk', granted', lastLease')
      /\ Ahead(mem', disk')
      /\ Ahead(disk', disk)
      /\ LeasesDrawn'
      /\ CrashLosesNothing'
  BY SaveStep
<1>2. AcknowledgedIsDurable' /\ NewestLeaseAnswers' /\ GrantsBounded'
  BY <1>1, QuietHistory
<1>3. TypeOK'
  BY <1>1, Zenon DEF IInv, TypeOK
<1> QED
  BY <1>1, <1>2, <1>3 DEF IInv

\* Expired leases are leases.
LEMMA ExpiredRunning == \A s : Expired(s) \in SUBSET Running(s)
BY DEF Expired

\* release and _requeue_expired_locked forget no task and no outcome.
LEMMA YieldAhead ==
    ASSUME NEW s \in State, NEW ts \in SUBSET Running(s)
    PROVE  Ahead(Yield(s, ts), s)
BY YieldFields DEF Ahead

\* Two states with the same fields are the same state.
LEMMA StateEquality ==
    ASSUME NEW x \in State, NEW y \in State,
           x.queued = y.queued, x.completed = y.completed, x.failed = y.failed,
           x.workers = y.workers,
           \A t \in Tasks : x.running[t] = y.running[t],
           \A t \in Tasks : x.attempts[t] = y.attempts[t]
    PROVE  x = y
<1>1. x.running = y.running
  BY DEF State
<1>2. x.attempts = y.attempts
  BY DEF State
<1> QED
  BY <1>1, <1>2 DEF State

\* With no lease to take back, Yield changes nothing.
LEMMA YieldNothing ==
    ASSUME NEW s \in State, NEW ts \in SUBSET Running(s)
    PROVE  ts = {} => Yield(s, ts) = s
<1> DEFINE z == Yield(s, ts)
           dead == {t \in ts : AttemptsOf(s, t) >= MaxAttempts}
<1>1. dead \subseteq ts
  OBVIOUS
<1>2. /\ z \in State
      /\ z.queued = s.queued \cup (ts \ dead)
      /\ z.failed = s.failed \cup dead
      /\ z.completed = s.completed
      /\ z.workers = s.workers
      /\ \A t \in Tasks : z.running[t] = IF t \in ts THEN None ELSE s.running[t]
      /\ \A t \in Tasks : z.attempts[t] = IF t \in dead THEN 0 ELSE s.attempts[t]
  BY YieldFields
<1> HIDE DEF z, dead
<1> HAVE ts = {}
<1>3. /\ z.queued = s.queued /\ z.failed = s.failed
      /\ \A t \in Tasks : z.running[t] = s.running[t]
      /\ \A t \in Tasks : z.attempts[t] = s.attempts[t]
  BY <1>1, <1>2
<1> QED
  BY <1>2, <1>3, StateEquality DEF z

\* Requeueing the expired leases twice is requeueing them once.
LEMMA RequeueTwice ==
    ASSUME NEW s \in State
    PROVE  RequeueExpired(RequeueExpired(s)) = RequeueExpired(s)
<1> DEFINE y == RequeueExpired(s)
<1> HIDE DEF y
<1>1. /\ y \in State
      /\ Running(y) = Running(s) \ Expired(s)
      /\ \A t \in Tasks : y.running[t] = IF t \in Expired(s) THEN None ELSE s.running[t]
  BY YieldFields, ExpiredRunning DEF y, RequeueExpired
<1>2. Expired(y) = {}
  BY <1>1 DEF Expired, Running
<1>3. Yield(y, Expired(y)) = y
  BY <1>1, <1>2, ExpiredRunning, YieldNothing
<1> QED
  BY <1>3 DEF y, RequeueExpired

\* The tasks that _requeue_expired_locked gives up.
Dead(s) == {t \in Expired(s) : AttemptsOf(s, t) >= MaxAttempts}

\* What _requeue_expired_locked does to each field.
LEMMA RequeueFields ==
    ASSUME NEW s \in State
    PROVE  LET y == RequeueExpired(s)
           IN  /\ y \in State
               /\ y.queued = s.queued \cup (Expired(s) \ Dead(s))
               /\ y.failed = s.failed \cup Dead(s)
               /\ y.completed = s.completed /\ y.workers = s.workers
               /\ \A t \in Tasks :
                     y.running[t] = IF t \in Expired(s) THEN None ELSE s.running[t]
               /\ \A t \in Tasks :
                     y.attempts[t] = IF t \in Dead(s) THEN 0 ELSE s.attempts[t]
               /\ Running(y) = Running(s) \ Expired(s)
<1>1. Expired(s) \in SUBSET Running(s)
  BY ExpiredRunning
<1> QED
  BY <1>1, YieldFields DEF RequeueExpired, Dead

\* Requeueing what has expired now or later gives what requeueing it all later
\* gives: nothing depends on when the expired leases are noticed.
LEMMA RequeueLater ==
    ASSUME NEW s \in State, WellPlaced(s)
    PROVE  RequeueExpired(Aged(s)) = RequeueExpired(Aged(RequeueExpired(s)))
<1> DEFINE a == Aged(s)
           y == RequeueExpired(s)
           b == Aged(y)
           ra == RequeueExpired(a)
           rb == RequeueExpired(b)
<1> HIDE DEF a, y, b, ra, rb
<1>1. /\ a \in State
      /\ a.queued = s.queued /\ a.completed = s.completed /\ a.failed = s.failed
      /\ a.attempts = s.attempts /\ a.workers = s.workers
      /\ Running(a) = Running(s)
      /\ \A t \in Running(s) :
            /\ a.running[t].attempts = s.running[t].attempts
            /\ s.running[t].ttl = 0 => a.running[t].ttl = 0
  BY AgedFields DEF a
<1>2. /\ y \in State
      /\ y.queued = s.queued \cup (Expired(s) \ Dead(s))
      /\ y.failed = s.failed \cup Dead(s)
      /\ y.completed = s.completed /\ y.workers = s.workers
      /\ \A t \in Tasks : y.running[t] = IF t \in Expired(s) THEN None ELSE s.running[t]
      /\ \A t \in Tasks : y.attempts[t] = IF t \in Dead(s) THEN 0 ELSE s.attempts[t]
      /\ Running(y) = Running(s) \ Expired(s)
  BY RequeueFields DEF y
<1>3. /\ b \in State
      /\ b.queued = y.queued /\ b.completed = y.completed /\ b.failed = y.failed
      /\ b.attempts = y.attempts /\ b.workers = y.workers
      /\ Running(b) = Running(y)
  BY <1>2, AgedFields DEF b
<1>4. \A t \in Running(y) : b.running[t] = a.running[t]
  BY <1>2, Zenon DEF Aged, a, b, Running, State
<1>5. /\ ra \in State
      /\ ra.queued = a.queued \cup (Expired(a) \ Dead(a))
      /\ ra.failed = a.failed \cup Dead(a)
      /\ ra.completed = a.completed /\ ra.workers = a.workers
      /\ \A t \in Tasks : ra.running[t] = IF t \in Expired(a) THEN None ELSE a.running[t]
      /\ \A t \in Tasks : ra.attempts[t] = IF t \in Dead(a) THEN 0 ELSE a.attempts[t]
      /\ Running(ra) = Running(a) \ Expired(a)
  BY <1>1, RequeueFields, SMTT(30) DEF ra
<1>6. /\ rb \in State
      /\ rb.queued = b.queued \cup (Expired(b) \ Dead(b))
      /\ rb.failed = b.failed \cup Dead(b)
      /\ rb.completed = b.completed /\ rb.workers = b.workers
      /\ \A t \in Tasks : rb.running[t] = IF t \in Expired(b) THEN None ELSE b.running[t]
      /\ \A t \in Tasks : rb.attempts[t] = IF t \in Dead(b) THEN 0 ELSE b.attempts[t]
      /\ Running(rb) = Running(b) \ Expired(b)
  BY <1>3, RequeueFields DEF rb
<1>7. Expired(s) \subseteq Expired(a) /\ Expired(a) \subseteq Running(s)
      /\ Running(s) \subseteq Tasks /\ Expired(s) \subseteq Running(s)
  BY <1>1 DEF Expired, Running
<1>8. Expired(b) = Expired(a) \ Expired(s)
  BY <1>1, <1>2, <1>3, <1>4, <1>7, SMTT(30) DEF Expired
<1>9. \A t \in Expired(a) : AttemptsOf(a, t) = AttemptsOf(s, t)
  BY <1>1, <1>7 DEF AttemptsOf
<1>10. \A t \in Expired(b) : AttemptsOf(b, t) = AttemptsOf(s, t)
  <2> SUFFICES ASSUME NEW t \in Expired(b) PROVE AttemptsOf(b, t) = AttemptsOf(s, t)
    OBVIOUS
  <2> Running(y) = Running(s) \ Expired(s)
    BY <1>2
  <2>1. t \in Running(y) /\ t \in Running(s) /\ t \notin Expired(s) /\ t \in Tasks
    BY <1>7, <1>8
  <2>2. b.attempts[t] = s.attempts[t]
    <3>1. t \notin Dead(s)
      BY <2>1 DEF Dead
    <3>2. y.attempts[t] = s.attempts[t]
      BY <1>2, <2>1, <3>1
    <3> QED
      BY <1>3, <3>2
  <2>3. b.running[t].attempts = s.running[t].attempts
    BY <1>1, <1>4, <2>1
  <2> QED
    BY <2>2, <2>3 DEF AttemptsOf
<1>11. Dead(a) = Dead(s) \cup Dead(b)
  BY <1>7, <1>8, <1>9, <1>10 DEF Dead
<1>12. Dead(s) \subseteq Expired(s) /\ Dead(b) \subseteq Expired(b)
  BY DEF Dead
<1>13. /\ ra.queued = rb.queued /\ ra.failed = rb.failed
       /\ ra.completed = rb.completed /\ ra.workers = rb.workers
  <2>1. /\ ra.queued = s.queued \cup (Expired(a) \ Dead(a))
        /\ ra.failed = s.failed \cup Dead(a)
        /\ ra.completed = s.completed /\ ra.workers = s.workers
    BY <1>1, <1>5, SMTT(30)
  <2>2. /\ rb.queued = (s.queued \cup (Expired(s) \ Dead(s))) \cup (Expired(b) \ Dead(b))
        /\ rb.failed = (s.failed \cup Dead(s)) \cup Dead(b)
        /\ rb.completed = s.completed /\ rb.workers = s.workers
    BY <1>2, <1>3, <1>6
  <2>3. Expired(a) \ Dead(a) = (Expired(s) \ Dead(s)) \cup (Expired(b) \ Dead(b))
    BY <1>7, <1>8, <1>11, <1>12, Zenon
  <2> QED
    BY <1>11, <2>1, <2>2, <2>3
<1>14. \A t \in Tasks : ra.running[t] = rb.running[t]
  <2> SUFFICES ASSUME NEW t \in Tasks PROVE ra.running[t] = rb.running[t]
    OBVIOUS
  <2>1. CASE t \in Expired(a)
    <3>1. CASE t \in Expired(s)
      <4>1. b.running[t] = None
        BY <1>2, <1>3, <3>1, SMTT(30) DEF Running
      <4> QED
        BY <1>5, <1>6, <2>1, <4>1, SMTT(30)
    <3>2. CASE t \notin Expired(s)
      BY <1>5, <1>6, <1>8, <2>1, <3>2, SMTT(30)
    <3> QED
      BY <3>1, <3>2
  <2>2. CASE t \notin Expired(a)
    <3>1. ra.running[t] = a.running[t] /\ rb.running[t] = b.running[t]
      BY <1>5, <1>6, <1>8, <2>2
    <3>2. CASE t \in Running(s)
      BY <1>2, <1>4, <1>7, <2>2, <3>1, <3>2, SMTT(30)
    <3>3. CASE t \notin Running(s)
      <4>1. a.running[t] = None /\ b.running[t] = None
        BY <1>1, <1>2, <1>3, <3>3, SMTT(30) DEF Running
      <4> QED
        BY <3>1, <4>1
    <3> QED
      BY <3>2, <3>3
  <2> QED
    BY <2>1, <2>2
<1>15. \A t \in Tasks : ra.attempts[t] = rb.attempts[t]
  <2> SUFFICES ASSUME NEW t \in Tasks PROVE ra.attempts[t] = rb.attempts[t]
    OBVIOUS
  <2>1. ra.attempts[t] = IF t \in Dead(a) THEN 0 ELSE s.attempts[t]
    BY <1>1, <1>5, SMTT(30)
  <2>2. rb.attempts[t] = IF t \in Dead(b) THEN 0 ELSE y.attempts[t]
    BY <1>3, <1>6
  <2>3. y.attempts[t] = IF t \in Dead(s) THEN 0 ELSE s.attempts[t]
    BY <1>2
  <2> QED
    BY <1>11, <2>1, <2>2, <2>3
<1>16. ra = rb
  <2>1. ra \in State /\ rb \in State
    BY <1>5, <1>6, SMTT(30)
  <2> QED
    BY <2>1, <1>13, <1>14, <1>15, StateEquality
<1> QED
  BY <1>16 DEF ra, rb, a, b, y

=============================================================================
