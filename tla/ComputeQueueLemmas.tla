-------------------------- MODULE ComputeQueueLemmas --------------------------
(***************************************************************************)
(* The inductive invariant of ComputeQueue and lemmas about the operators  *)
(* it is built from.  IInv is the invariant.  Its core is Sound, what a    *)
(* queue state owes to the history of handed out leases; it holds of the   *)
(* memory and of the file alike, because a restart turns one into the      *)
(* other.                                                                  *)
(***************************************************************************)
EXTENDS ComputeQueue, TLAPS

\* A queue state s against the leases g handed out and the n lease
\* identifiers drawn so far: a task nobody knows was never handed out, an
\* attempt is counted for every grant, and a running record is the newest
\* grant of its task or one that never left the coordinator.
Sound(s, g, n) ==
    /\ WellPlaced(s)
    /\ \A t \in Tasks \ Known(s) : g[t] = <<>>
    /\ \A t \in s.queued \cup Running(s) : Len(g[t]) <= s.attempts[t]
    /\ \A t \in Running(s) :
          /\ s.attempts[t] <= MaxAttempts
          /\ s.running[t].lease # None => s.running[t].lease <= n
          /\ \A i \in 1..Len(g[t]) :
                g[t][i].lease = s.running[t].lease =>
                   /\ i = Len(g[t])
                   /\ g[t][i].worker = s.running[t].worker

\* Nothing that is in the file is missing from memory.
Ahead(m, d) ==
    /\ d.completed \subseteq m.completed
    /\ d.failed \subseteq m.failed
    /\ Known(d) \subseteq Known(m)

LeasesDrawn ==
    \A t \in Tasks : \A i \in 1..Len(granted[t]) : granted[t][i].lease <= lastLease

IInv ==
    /\ TypeOK
    /\ Sound(mem, granted, lastLease)
    /\ Sound(disk, granted, lastLease)
    /\ Ahead(mem, disk)
    /\ GrantsBounded
    /\ LeasesDrawn
    /\ AcknowledgedIsDurable
    /\ NewestLeaseAnswers
    /\ CrashLosesNothing

USE TasksAssumption, ReportsAssumption, LimitsAssumption, NoneAssumption

-----------------------------------------------------------------------------
(* Lemmas about the operators                                              *)

\* The smaller of two numbers is one of them.
LEMMA MinPair ==
    ASSUME NEW a \in Nat, NEW b \in Nat
    PROVE  Min({a, b}) \in {a, b}
<1>1. \E x \in {a, b} : \A y \in {a, b} : x =< y
  OBVIOUS
<1> QED
  BY <1>1 DEF Min

\* The larger of two integers is one of them and no smaller than both.
LEMMA MaxPair ==
    ASSUME NEW a \in Int, NEW b \in Int
    PROVE  /\ Max({a, b}) \in {a, b}
           /\ Max({a, b}) >= a
           /\ Max({a, b}) >= b
<1>1. \E x \in {a, b} : \A y \in {a, b} : x >= y
  OBVIOUS
<1> QED
  BY <1>1 DEF Max

\* One second less, but never below zero.
LEMMA CountDown ==
    ASSUME NEW n \in Nat
    PROVE  /\ Max({0, n - 1}) \in Nat
           /\ n = 0 => Max({0, n - 1}) = 0
<1> DEFINE a == n - 1
           m == Max({0, a})
<1>1. a \in Int /\ 0 \in Int
  OBVIOUS
<1> HIDE DEF a
<1>2. m \in {0, a} /\ m >= 0 /\ m >= a
  BY <1>1, MaxPair
<1> HIDE DEF m
<1>3. m \in Nat /\ (n = 0 => m = 0)
  BY <1>1, <1>2 DEF a
<1> QED
  BY <1>3 DEF m, a

\* A fresh lease of claim has a length.
LEMMA LeaseTimeType == \A t \in Tasks : LeaseTime(t) \in Nat
BY MinPair DEF LeaseTime, TaskShape

\* What Yield (release, _requeue_expired_locked) does to each field.
LEMMA YieldFields ==
    ASSUME NEW s \in State, NEW ts \in SUBSET Running(s)
    PROVE  LET y    == Yield(s, ts)
               dead == {t \in ts : AttemptsOf(s, t) >= MaxAttempts}
           IN  /\ y \in State
               /\ y.queued = s.queued \cup (ts \ dead)
               /\ y.failed = s.failed \cup dead
               /\ y.completed = s.completed
               /\ y.workers = s.workers
               /\ \A t \in Tasks : y.running[t] = IF t \in ts THEN None ELSE s.running[t]
               /\ \A t \in Tasks : y.attempts[t] = IF t \in dead THEN 0 ELSE s.attempts[t]
               /\ Running(y) = Running(s) \ ts
               /\ Known(y) = Known(s)
BY Zenon DEF Yield, State, Running, Known

\* What claim's mutation does to each field.
LEMMA LeasedFields ==
    ASSUME NEW s \in State, NEW w \in Workers, NEW t \in s.queued, NEW l \in Nat
    PROVE  LET y == Leased(s, w, t, l)
           IN  /\ y \in State
               /\ y.queued = s.queued \ {t}
               /\ y.failed = s.failed
               /\ y.completed = s.completed
               /\ y.workers = s.workers
               /\ \A u \in Tasks : u # t => y.running[u] = s.running[u]
               /\ \A u \in Tasks : u # t => y.attempts[u] = s.attempts[u]
               /\ y.attempts[t] = s.attempts[t] + 1
               /\ y.running[t] # None
               /\ y.running[t].worker = w
               /\ y.running[t].lease = l
               /\ Running(y) = Running(s) \cup {t}
               /\ Known(y) = Known(s)
<1> DEFINE n == s.attempts[t] + 1
           r == [worker |-> w, lease |-> l, ttl |-> LeaseTime(t), attempts |-> n]
           y == Leased(s, w, t, l)
<1>1. t \in Tasks /\ n \in Nat /\ LeaseTime(t) \in Nat
  BY LeaseTimeType DEF State
<1>2. r \in Lease /\ r # None
  BY <1>1 DEF Lease
<1>3. /\ y.queued = s.queued \ {t}
      /\ y.failed = s.failed
      /\ y.completed = s.completed
      /\ y.workers = s.workers
      /\ y.running = [s.running EXCEPT ![t] = r]
      /\ y.attempts = [s.attempts EXCEPT ![t] = n]
      /\ y \in State
  BY <1>1, <1>2, Zenon DEF Leased, State
<1>4. /\ \A u \in Tasks : u # t => y.running[u] = s.running[u]
      /\ \A u \in Tasks : u # t => y.attempts[u] = s.attempts[u]
      /\ y.attempts[t] = n
      /\ y.running[t] = r
  BY <1>1, <1>3 DEF State
<1>5. Running(y) = Running(s) \cup {t}
  BY <1>1, <1>2, <1>4 DEF Running
<1> QED
  BY <1>2, <1>3, <1>4, <1>5 DEF Known

\* What complete and fail do to each field but the outcome they add.
LEMMA RetiredFields ==
    ASSUME NEW s \in State, NEW t \in Running(s)
    PROVE  LET y == Retired(s, t)
           IN  /\ y \in State
               /\ y.queued = s.queued
               /\ y.failed = s.failed
               /\ y.completed = s.completed
               /\ y.workers = s.workers
               /\ \A u \in Tasks : u # t => y.running[u] = s.running[u]
               /\ \A u \in Tasks : u # t => y.attempts[u] = s.attempts[u]
               /\ y.attempts[t] = 0
               /\ y.running[t] = None
               /\ Running(y) = Running(s) \ {t}
BY Zenon DEF Retired, State, Running

Grant == [worker : Workers, lease : Nat]
Grants == [Tasks -> Seq(Grant)]

\* Elements of sequences, and of sequences that grow.
LEMMA SeqElement ==
    ASSUME NEW S, NEW q \in Seq(S), NEW i \in 1..Len(q)
    PROVE  q[i] \in S
OBVIOUS

\* Appending to a sequence, as claim does to the history of grants.
LEMMA SeqAppend ==
    ASSUME NEW S, NEW q \in Seq(S), NEW e \in S
    PROVE  /\ Append(q, e) \in Seq(S)
           /\ Len(Append(q, e)) = Len(q) + 1
           /\ Len(q) \in Nat
           /\ Append(q, e)[Len(q) + 1] = e
           /\ \A i \in 1..Len(q) : Append(q, e)[i] = q[i]
OBVIOUS

\* Every entry of the history of grants carries a lease identifier.
LEMMA GrantLease ==
    ASSUME NEW g \in Grants, NEW u \in Tasks, NEW i \in 1..Len(g[u])
    PROVE  g[u][i].lease \in Nat
<1>1. g[u] \in Seq(Grant)
  BY DEF Grants
<1>2. g[u][i] \in Grant
  BY <1>1, SeqElement
<1> QED
  BY <1>2 DEF Grant

\* Yield keeps a state sound: an expired or released lease leaves no trace
\* but its attempt.
LEMMA YieldSound ==
    ASSUME NEW s \in State, NEW ts \in SUBSET Running(s), NEW n \in Nat,
           NEW g \in Grants, Sound(s, g, n)
    PROVE  Sound(Yield(s, ts), g, n)
<1> DEFINE y == Yield(s, ts)
           dead == {t \in ts : AttemptsOf(s, t) >= MaxAttempts}
<1> HIDE DEF y, dead
<1>1. /\ y \in State
      /\ y.queued = s.queued \cup (ts \ dead)
      /\ y.failed = s.failed \cup dead
      /\ y.completed = s.completed
      /\ \A t \in Tasks : y.running[t] = IF t \in ts THEN None ELSE s.running[t]
      /\ \A t \in Tasks : y.attempts[t] = IF t \in dead THEN 0 ELSE s.attempts[t]
      /\ Running(y) = Running(s) \ ts
      /\ Known(y) = Known(s)
  BY YieldFields DEF y, dead
<1>2. dead \subseteq ts /\ ts \subseteq Tasks /\ s.queued \subseteq Tasks
  BY DEF dead, Running, State
<1>3. \A t \in ts \ dead : s.attempts[t] < MaxAttempts
  <2> SUFFICES ASSUME NEW t \in ts \ dead PROVE s.attempts[t] < MaxAttempts
    OBVIOUS
  <2>1. s.attempts[t] \in Nat /\ s.running[t] \in Lease
    BY <1>2 DEF State, Running
  <2>2. AttemptsOf(s, t) \in Nat
    BY <2>1 DEF AttemptsOf, Lease
  <2>3. ~ (AttemptsOf(s, t) >= MaxAttempts)
    BY DEF dead
  <2> QED
    BY <2>1, <2>2, <2>3 DEF AttemptsOf
<1>4. WellPlaced(y)
  <2>1. WellPlaced(s)
    BY DEF Sound
  <2>2. /\ y.queued \cap (Running(y) \cup y.completed \cup y.failed) = {}
        /\ Running(y) \cap (y.completed \cup y.failed) = {}
        /\ y.completed \cap y.failed = {}
    BY <1>1, <1>2, <2>1 DEF WellPlaced
  <2>3. \A t \in y.queued : y.attempts[t] < MaxAttempts
    BY <1>1, <1>2, <1>3, <2>1 DEF WellPlaced
  <2>4. \A t \in Tasks \ (y.queued \cup Running(y)) : y.attempts[t] = 0
    BY <1>1, <1>2, <2>1 DEF WellPlaced
  <2> QED
    BY <2>2, <2>3, <2>4 DEF WellPlaced
<1>5. \A t \in Tasks \ Known(y) : g[t] = <<>>
  BY <1>1 DEF Sound
<1>6. \A t \in y.queued \cup Running(y) : Len(g[t]) <= y.attempts[t]
  <2> SUFFICES ASSUME NEW t \in y.queued \cup Running(y)
               PROVE  Len(g[t]) <= y.attempts[t]
    OBVIOUS
  <2>1. t \in s.queued \cup Running(s) /\ t \notin dead
    BY <1>1, <1>2, <1>4 DEF WellPlaced
  <2>2. y.attempts[t] = s.attempts[t]
    BY <1>1, <1>2, <2>1 DEF Running
  <2> QED
    BY <2>1, <2>2 DEF Sound
<1>7. \A t \in Running(y) :
          /\ t \in Running(s)
          /\ y.running[t] = s.running[t]
          /\ y.attempts[t] = s.attempts[t]
  BY <1>1, <1>2 DEF Running
<1> QED
  BY <1>4, <1>5, <1>6, <1>7 DEF Sound, y

\* Drawing further lease identifiers keeps a state sound.
LEMMA SoundLater ==
    ASSUME NEW s \in State, NEW g \in Grants, NEW n \in Nat, Sound(s, g, n)
    PROVE  Sound(s, g, n + 1)
<1>1. \A t \in Running(s) : s.running[t].lease # None =>
         s.running[t].lease \in Nat /\ s.running[t].lease <= n + 1
  BY DEF Sound, State, Running, Lease
<1> QED
  BY <1>1 DEF Sound

\* A lease that claim draws but cannot save keeps the state sound: no worker
\* ever sees its identifier.
LEMMA LeasedSound ==
    ASSUME NEW s \in State, NEW w \in Workers, NEW t \in s.queued, NEW n \in Nat,
           NEW g \in Grants, Sound(s, g, n),
           \A u \in Tasks : \A i \in 1..Len(g[u]) : g[u][i].lease <= n
    PROVE  Sound(Leased(s, w, t, n + 1), g, n + 1)
<1> DEFINE y == Leased(s, w, t, n + 1)
<1> HIDE DEF y
<1>1. /\ y \in State
      /\ y.queued = s.queued \ {t}
      /\ y.failed = s.failed
      /\ y.completed = s.completed
      /\ \A u \in Tasks : u # t => y.running[u] = s.running[u]
      /\ \A u \in Tasks : u # t => y.attempts[u] = s.attempts[u]
      /\ y.attempts[t] = s.attempts[t] + 1
      /\ y.running[t] # None
      /\ y.running[t].worker = w
      /\ y.running[t].lease = n + 1
      /\ Running(y) = Running(s) \cup {t}
      /\ Known(y) = Known(s)
  BY LeasedFields, SMTT(30) DEF y
<1>2. t \in Tasks /\ Running(s) \subseteq Tasks /\ s.queued \subseteq Tasks
      /\ s.attempts[t] \in Nat /\ s.attempts[t] < MaxAttempts /\ t \notin Running(s)
  BY DEF State, Running, Sound, WellPlaced
<1>3. WellPlaced(y)
  BY <1>1, <1>2, SMTT(30) DEF WellPlaced, Sound
<1>4. \A u \in Tasks \ Known(y) : g[u] = <<>>
  BY <1>1 DEF Sound
<1>5. \A u \in y.queued \cup Running(y) : Len(g[u]) <= y.attempts[u]
  <2>1. Len(g[t]) <= s.attempts[t] /\ Len(g[t]) \in Nat
    BY <1>2 DEF Sound, Grants
  <2>2. Len(g[t]) <= y.attempts[t]
    BY <1>1, <1>2, <2>1
  <2>3. \A u \in (y.queued \cup Running(y)) \ {t} : Len(g[u]) <= y.attempts[u]
    BY <1>1, <1>2 DEF Sound
  <2> QED
    BY <2>2, <2>3
<1>6. \A u \in Running(y) :
          /\ y.attempts[u] <= MaxAttempts
          /\ y.running[u].lease # None => y.running[u].lease <= n + 1
          /\ \A i \in 1..Len(g[u]) :
                g[u][i].lease = y.running[u].lease =>
                   /\ i = Len(g[u])
                   /\ g[u][i].worker = y.running[u].worker
  <2> SUFFICES ASSUME NEW u \in Running(y)
               PROVE  /\ y.attempts[u] <= MaxAttempts
                      /\ y.running[u].lease # None => y.running[u].lease <= n + 1
                      /\ \A i \in 1..Len(g[u]) :
                            g[u][i].lease = y.running[u].lease =>
                               /\ i = Len(g[u])
                               /\ g[u][i].worker = y.running[u].worker
    OBVIOUS
  <2>1. CASE u = t
    <3>1. \A i \in 1..Len(g[t]) : g[t][i].lease \in Nat /\ g[t][i].lease <= n
      BY <1>2, GrantLease
    <3>2. \A i \in 1..Len(g[t]) : g[t][i].lease # n + 1
      BY <3>1
    <3> QED
      BY <1>1, <1>2, <2>1, <3>2, SMTT(30)
  <2>2. CASE u # t
    <3>1. u \in Running(s) /\ u \in Tasks
      BY <1>1, <1>2, <2>2
    <3>2. Sound(s, g, n + 1)
      BY SoundLater
    <3> QED
      BY <1>1, <2>2, <3>1, <3>2, SMTT(30) DEF Sound
  <2> QED
    BY <2>1, <2>2
<1> QED
  BY <1>3, <1>4, <1>5, <1>6, SMTT(30) DEF Sound, y

\* A lease that claim saves and hands out keeps the state sound.
LEMMA GrantedSound ==
    ASSUME NEW s \in State, NEW w \in Workers, NEW t \in s.queued, NEW n \in Nat,
           NEW g \in Grants, Sound(s, g, n),
           \A u \in Tasks : \A i \in 1..Len(g[u]) : g[u][i].lease <= n
    PROVE  LET h == [g EXCEPT ![t] = Append(@, [worker |-> w, lease |-> n + 1])]
           IN  /\ h \in Grants
               /\ Sound(Leased(s, w, t, n + 1), h, n + 1)
               /\ Len(h[t]) <= MaxAttempts
               /\ \A u \in Tasks : \A i \in 1..Len(h[u]) : h[u][i].lease <= n + 1
<1> DEFINE y == Leased(s, w, t, n + 1)
           e == [worker |-> w, lease |-> n + 1]
           h == [g EXCEPT ![t] = Append(@, e)]
<1> HIDE DEF y
<1>1. /\ y \in State
      /\ y.queued = s.queued \ {t}
      /\ y.attempts[t] = s.attempts[t] + 1
      /\ y.running[t].worker = w
      /\ y.running[t].lease = n + 1
      /\ Running(y) = Running(s) \cup {t}
      /\ Known(y) = Known(s)
  BY LeasedFields, SMTT(30) DEF y
<1>2. t \in Tasks /\ t \in Known(s) /\ s.attempts[t] \in Nat
      /\ s.attempts[t] < MaxAttempts /\ Len(g[t]) <= s.attempts[t]
      /\ g[t] \in Seq(Grant)
  BY DEF State, Running, Sound, WellPlaced, Known, Grants
<1>3. Sound(y, g, n + 1)
  BY LeasedSound DEF y
<1>4. e \in Grant
  BY DEF Grant
<1> HIDE DEF e
<1>a. Append(g[t], e) \in Seq(Grant)
  BY <1>2, <1>4, SeqAppend
<1>5. /\ h \in Grants
      /\ h[t] = Append(g[t], e)
      /\ \A u \in Tasks : u # t => h[u] = g[u]
  BY <1>2, <1>a DEF Grants
<1> HIDE DEF h
<1>6. /\ Len(h[t]) = Len(g[t]) + 1
      /\ Len(g[t]) \in Nat
      /\ h[t][Len(h[t])] = e
      /\ \A i \in 1..Len(g[t]) : h[t][i] = g[t][i]
  BY <1>2, <1>4, <1>5, SeqAppend
<1>7. Len(h[t]) <= MaxAttempts
  BY <1>2, <1>6
<1>8. \A u \in Tasks : \A i \in 1..Len(h[u]) : h[u][i].lease <= n + 1
  <2>1. \A i \in 1..Len(h[t]) : h[t][i].lease <= n + 1
    <3> SUFFICES ASSUME NEW i \in 1..Len(h[t]) PROVE h[t][i].lease <= n + 1
      OBVIOUS
    <3>1. CASE i = Len(h[t])
      BY <1>6, <3>1 DEF e
    <3>2. CASE i # Len(h[t])
      <4>1. i \in 1..Len(g[t])
        BY <1>6, <3>2
      <4>2. g[t][i].lease \in Nat /\ g[t][i].lease <= n
        BY <1>2, <4>1, GrantLease
      <4>3. h[t][i] = g[t][i]
        BY <1>6, <4>1, Zenon
      <4>4. h[t][i].lease = g[t][i].lease
        BY <4>3, Zenon
      <4> QED
        BY <4>2, <4>4
    <3> QED
      BY <3>1, <3>2
  <2>2. \A u \in Tasks \ {t} : \A i \in 1..Len(h[u]) : h[u][i].lease <= n + 1
    <3> SUFFICES ASSUME NEW u \in Tasks \ {t}, NEW i \in 1..Len(h[u])
                 PROVE  h[u][i].lease <= n + 1
      OBVIOUS
    <3>1. i \in 1..Len(g[u])
      BY <1>5
    <3>2. g[u][i].lease \in Nat /\ g[u][i].lease <= n
      BY <3>1, GrantLease
    <3> QED
      BY <1>5, <3>2
  <2> QED
    BY <2>1, <2>2
<1>9. Sound(y, h, n + 1)
  <2>1. WellPlaced(y)
    BY <1>3 DEF Sound
  <2>2. \A u \in Tasks \ Known(y) : h[u] = <<>>
    BY <1>1, <1>2, <1>3, <1>5, SMTT(30) DEF Sound
  <2>3. \A u \in y.queued \cup Running(y) : Len(h[u]) <= y.attempts[u]
    <3>1. Len(h[t]) <= y.attempts[t]
      BY <1>1, <1>2, <1>6, SMTT(30)
    <3>2. \A u \in (y.queued \cup Running(y)) \ {t} : u \in Tasks
      BY <1>1 DEF State, Running
    <3> QED
      BY <1>3, <1>5, <3>1, <3>2, SMTT(30) DEF Sound
  <2>4. \A u \in Running(y) :
          /\ y.attempts[u] <= MaxAttempts
          /\ y.running[u].lease # None => y.running[u].lease <= n + 1
    BY <1>3, SMTT(30) DEF Sound
  <2>5. \A u \in Running(y) : \A i \in 1..Len(h[u]) :
           h[u][i].lease = y.running[u].lease =>
              /\ i = Len(h[u])
              /\ h[u][i].worker = y.running[u].worker
    <3> SUFFICES ASSUME NEW u \in Running(y), NEW i \in 1..Len(h[u]),
                        h[u][i].lease = y.running[u].lease
                 PROVE  i = Len(h[u]) /\ h[u][i].worker = y.running[u].worker
      OBVIOUS
    <3>1. CASE u # t
      <4>1. u \in Tasks
        BY SMTT(30) DEF Running
      <4> QED
        BY <1>3, <1>5, <3>1, <4>1, SMTT(30) DEF Sound
    <3>2. CASE u = t
      <4>1. i = Len(h[t])
        <5> SUFFICES ASSUME i # Len(h[t]) PROVE FALSE
          OBVIOUS
        <5>1. i \in 1..Len(g[t])
          BY <1>6, <3>2
        <5>2. g[t][i].lease \in Nat /\ g[t][i].lease <= n
          BY <1>2, <5>1, GrantLease, SMTT(30)
        <5>3. g[t][i].lease = n + 1
          BY <1>1, <1>6, <3>2, <5>1, SMTT(30)
        <5> QED
          BY <5>2, <5>3
      <4> QED
        BY <1>1, <1>6, <3>2, <4>1, SMTT(30) DEF e
    <3> QED
      BY <3>1, <3>2
  <2> QED
    BY <2>1, <2>2, <2>3, <2>4, <2>5, SMTT(30) DEF Sound
<1> QED
  BY <1>5, <1>7, <1>8, <1>9, SMTT(30) DEF h, e, y

Done(s, t) == [Retired(s, t) EXCEPT !.completed = s.completed \cup {t}]
GivenUp(s, t) == [Retired(s, t) EXCEPT !.failed = s.failed \cup {t}]

\* complete and fail move one running task to one outcome, and nothing else.
LEMMA OutcomeSound ==
    ASSUME NEW s \in State, NEW t \in Running(s), NEW n \in Nat,
           NEW g \in Grants, Sound(s, g, n),
           NEW y \in {Done(s, t), GivenUp(s, t)}
    PROVE  /\ y \in State
           /\ Sound(y, g, n)
           /\ Ahead(y, s)
           /\ y = Done(s, t) => t \in y.completed
           /\ y = GivenUp(s, t) => t \in y.failed
<1> DEFINE r == Retired(s, t)
<1> HIDE DEF r
<1>1. /\ r \in State
      /\ r.queued = s.queued
      /\ r.failed = s.failed
      /\ r.completed = s.completed
      /\ r.workers = s.workers
      /\ \A u \in Tasks : u # t => r.running[u] = s.running[u]
      /\ \A u \in Tasks : u # t => r.attempts[u] = s.attempts[u]
      /\ r.attempts[t] = 0
      /\ r.running[t] = None
      /\ Running(r) = Running(s) \ {t}
  BY RetiredFields, SMTT(30) DEF r
<1>2. /\ y \in State
      /\ y.queued = r.queued
      /\ y.running = r.running
      /\ y.attempts = r.attempts
      /\ \/ y.completed = s.completed \cup {t} /\ y.failed = s.failed
         \/ y.failed = s.failed \cup {t} /\ y.completed = s.completed
      /\ y = Done(s, t) => t \in y.completed
      /\ y = GivenUp(s, t) => t \in y.failed
  <2>1. t \in Tasks /\ s.completed \cup {t} \in SUBSET Tasks
        /\ s.failed \cup {t} \in SUBSET Tasks
    BY DEF Running, State
  <2> QED
    BY <1>1, <2>1 DEF Done, GivenUp, State, r
<1>3. /\ Running(y) = Running(s) \ {t}
      /\ Known(y) = Known(s)
  BY <1>1, <1>2, SMTT(30) DEF Running, Known
<1>4. t \in Tasks /\ s.queued \subseteq Tasks /\ Running(s) \subseteq Tasks
  BY DEF Running, State
<1>5. WellPlaced(y)
  BY <1>1, <1>2, <1>3, <1>4, SMTT(30) DEF WellPlaced, Sound
<1>6. \A u \in y.queued \cup Running(y) :
         /\ u \in s.queued \cup Running(s)
         /\ y.attempts[u] = s.attempts[u]
         /\ y.running[u] = s.running[u]
  BY <1>1, <1>2, <1>3, <1>4, SMTT(30) DEF WellPlaced, Sound
<1>7. Sound(y, g, n)
  BY <1>3, <1>5, <1>6, SMTT(30) DEF Sound
<1>8. Ahead(y, s)
  BY <1>2, <1>3, SMTT(30) DEF Ahead
<1> QED
  BY <1>2, <1>7, <1>8

\* submit adds one unknown task to the queue, with no attempt counted.
LEMMA SubmittedSound ==
    ASSUME NEW s \in State, NEW t \in Tasks \ Known(s), NEW n \in Nat,
           NEW g \in Grants, Sound(s, g, n)
    PROVE  LET y == [s EXCEPT !.queued = s.queued \cup {t}, !.attempts[t] = 0]
           IN  y \in State /\ Sound(y, g, n) /\ Ahead(y, s) /\ t \in Known(y)
<1> DEFINE y == [s EXCEPT !.queued = s.queued \cup {t}, !.attempts[t] = 0]
<1>1. /\ y \in State
      /\ y.queued = s.queued \cup {t}
      /\ y.running = s.running
      /\ y.completed = s.completed
      /\ y.failed = s.failed
      /\ y.attempts = [s.attempts EXCEPT ![t] = 0]
  BY Zenon DEF State
<1>2. /\ \A u \in Tasks : u # t => y.attempts[u] = s.attempts[u]
      /\ y.attempts[t] = 0
  BY <1>1 DEF State
<1> HIDE DEF y
<1>3. Running(y) = Running(s) /\ Known(y) = Known(s) \cup {t}
  BY <1>1 DEF Running, Known
<1>4. t \notin s.queued \cup Running(s) \cup s.completed \cup s.failed
      /\ s.queued \subseteq Tasks /\ Running(s) \subseteq Tasks /\ g[t] = <<>>
  BY DEF Known, State, Running, Sound
<1>5. WellPlaced(y)
  BY <1>1, <1>2, <1>3, <1>4, SMTT(30) DEF WellPlaced, Sound
<1>6. \A u \in y.queued \cup Running(y) : Len(g[u]) <= y.attempts[u]
  <2>1. Len(g[t]) <= y.attempts[t]
    BY <1>2, <1>4
  <2>2. \A u \in (y.queued \cup Running(y)) \ {t} :
           u \in s.queued \cup Running(s) /\ y.attempts[u] = s.attempts[u]
    BY <1>1, <1>2, <1>3, <1>4
  <2> QED
    BY <2>1, <2>2 DEF Sound
<1>7. \A u \in Running(y) : u \in Running(s) /\ y.attempts[u] = s.attempts[u]
                            /\ y.running[u] = s.running[u]
  BY <1>1, <1>2, <1>3, <1>4
<1>8. Sound(y, g, n)
  BY <1>3, <1>5, <1>6, <1>7, SMTT(30) DEF Sound
<1> QED
  BY <1>1, <1>3, <1>8 DEF Ahead, y

\* register_worker touches no task.
LEMMA RegisteredSound ==
    ASSUME NEW s \in State, NEW w \in Workers, NEW caps \in Capabilities,
           NEW n \in Nat, NEW g \in Grants, Sound(s, g, n)
    PROVE  LET y == [s EXCEPT !.workers[w] = caps]
           IN  y \in State /\ Sound(y, g, n) /\ Ahead(y, s)
<1> DEFINE y == [s EXCEPT !.workers[w] = caps]
<1>1. /\ y \in State
      /\ y.queued = s.queued
      /\ y.running = s.running
      /\ y.completed = s.completed
      /\ y.failed = s.failed
      /\ y.attempts = s.attempts
  BY SMTT(30) DEF State
<1> HIDE DEF y
<1>2. Running(y) = Running(s) /\ Known(y) = Known(s)
  BY <1>1 DEF Running, Known
<1>3. WellPlaced(y)
  BY <1>1, <1>2 DEF WellPlaced, Sound
<1>4. Sound(y, g, n)
  BY <1>1, <1>2, <1>3 DEF Sound
<1> QED
  BY <1>1, <1>2, <1>4 DEF Ahead, y

\* The passing of time shortens leases and changes nothing else.
LEMMA AgedFields ==
    ASSUME NEW s \in State
    PROVE  LET y == Aged(s)
           IN  /\ y \in State
               /\ y.queued = s.queued
               /\ y.completed = s.completed
               /\ y.failed = s.failed
               /\ y.attempts = s.attempts
               /\ y.workers = s.workers
               /\ Running(y) = Running(s)
               /\ Known(y) = Known(s)
               /\ \A t \in Running(s) :
                     /\ y.running[t].worker = s.running[t].worker
                     /\ y.running[t].lease = s.running[t].lease
                     /\ y.running[t].attempts = s.running[t].attempts
                     /\ s.running[t].ttl = 0 => y.running[t].ttl = 0
<1> DEFINE y == Aged(s)
           older(t) == [s.running[t] EXCEPT !.ttl = Max({0, s.running[t].ttl - 1})]
<1>1. \A t \in Running(s) :
         /\ older(t) \in Lease
         /\ older(t).worker = s.running[t].worker
         /\ older(t).lease = s.running[t].lease
         /\ older(t).attempts = s.running[t].attempts
         /\ s.running[t].ttl = 0 => older(t).ttl = 0
  <2> SUFFICES ASSUME NEW t \in Running(s)
               PROVE  /\ older(t) \in Lease
                      /\ older(t).worker = s.running[t].worker
                      /\ older(t).lease = s.running[t].lease
                      /\ older(t).attempts = s.running[t].attempts
                      /\ s.running[t].ttl = 0 => older(t).ttl = 0
    BY Zenon
  <2>1. s.running[t] \in Lease
    BY DEF Running, State
  <2>2. s.running[t].ttl \in Nat
    BY <2>1 DEF Lease
  <2>3. /\ Max({0, s.running[t].ttl - 1}) \in Nat
        /\ s.running[t].ttl = 0 => Max({0, s.running[t].ttl - 1}) = 0
    BY <2>2, CountDown
  <2> QED
    BY <2>1, <2>3 DEF Lease
<1>2. \A t \in Running(s) : older(t) # None
  BY <1>1, Zenon DEF Lease
<1> HIDE DEF older
<1>3. y.running = [t \in Tasks |-> IF s.running[t] = None THEN None ELSE older(t)]
  BY DEF Aged, older, State
<1>4. /\ y.queued = s.queued
      /\ y.completed = s.completed
      /\ y.failed = s.failed
      /\ y.attempts = s.attempts
      /\ y.workers = s.workers
  BY DEF Aged, State
<1>5. y.running \in [Tasks -> Lease \cup {None}]
  BY <1>1, <1>3 DEF Running
<1>6. y \in State
  <2>1. y = [s EXCEPT !.running = y.running]
    BY DEF Aged, State
  <2> QED
    BY <1>5, <2>1 DEF State
<1> HIDE DEF y
<1>7. Running(y) = Running(s)
  BY <1>2, <1>3 DEF Running
<1>8. \A t \in Running(s) : y.running[t] = older(t)
  BY <1>3 DEF Running
<1> QED
  BY <1>1, <1>4, <1>6, <1>7, <1>8 DEF Known, y

\* A state whose leases are one second older is as sound as it was.
LEMMA AgedSound ==
    ASSUME NEW s \in State, NEW n \in Nat, NEW g \in Grants, Sound(s, g, n)
    PROVE  Aged(s) \in State /\ Sound(Aged(s), g, n)
<1> DEFINE y == Aged(s)
<1> HIDE DEF y
<1>1. /\ y \in State
      /\ y.queued = s.queued
      /\ y.completed = s.completed
      /\ y.failed = s.failed
      /\ y.attempts = s.attempts
      /\ Running(y) = Running(s)
      /\ Known(y) = Known(s)
      /\ \A t \in Running(s) :
            /\ y.running[t].worker = s.running[t].worker
            /\ y.running[t].lease = s.running[t].lease
  BY AgedFields DEF y
<1>2. WellPlaced(y)
  BY <1>1 DEF WellPlaced, Sound
<1>3. Sound(y, g, n)
  BY <1>1, <1>2, SMTT(30) DEF Sound
<1> QED
  BY <1>1, <1>3 DEF y

=============================================================================
