--------------------------- MODULE ReplicatedState ---------------------------
(***************************************************************************)
(* The replicated task state of a cluster of servers: the operation log of  *)
(* zdx_cluster.py, the gossip agent of zdx_gossip.py that exchanges logs,   *)
(* and the server layers (zdx_server_gossip_core.py, zdx_server.py) that    *)
(* turn changes of the local compute queue into operations and rebuild the  *)
(* local queue from the log.                                                *)
(*                                                                          *)
(* An operation is numbered in the order of its creation (its UUID) and     *)
(* kept once in opTable; a log is a set of such numbers.  A lease is a      *)
(* number, 0 standing for the empty lease id.                               *)
(***************************************************************************)
EXTENDS Integers, FiniteSets, Sequences, SequencesExt

CONSTANTS Nodes,         \* the servers of the cluster
          Tasks,         \* task ids
          Peers,         \* Peers[n]: the gossip peers configured at n
          Skew,          \* Skew[n]: how far the clock of n is off
          MaxAttempts,   \* ComputeCoordinator.max_attempts
          MaxOperations, \* MAX_OPERATIONS
          MaxMessages,   \* bound: compute messages handled in all
          MaxFaults      \* bound: server crashes and lost connections

ASSUME ReplicatedAssumption == /\ Peers \in [Nodes -> SUBSET Nodes]
                               /\ Skew \in [Nodes -> Int]

VARIABLES
  opTable,   \* every operation ever created, by number
  log,       \* log[n]: ReplicatedClusterState._state["operations"] of n, saved
  local,     \* local[n]: ComputeCoordinator._state of n
  handling,  \* handling[n]: <<>>, or <<before>> between a reply and its deltas
  link,      \* link[n]: the gossip exchange n has open
  messages,  \* compute messages handled so far
  leases,    \* lease ids given out so far
  accepted,  \* accepted[n]: tasks whose submission n has acknowledged
  faults

clusterVars == <<opTable, log, local, handling, link, messages, leases,
                 accepted, faults>>

EmptyQueue == [queued |-> {}, running |-> [t \in {} |-> 0], completed |-> {},
               failed |-> {}, contributions |-> {}]

Known(q) == q.queued \cup DOMAIN q.running \cup q.completed \cup q.failed

Without(f, t) == [u \in DOMAIN f \ {t} |-> f[u]]

With(f, t, v) == [u \in DOMAIN f \cup {t} |-> IF u = t THEN v ELSE f[u]]

-----------------------------------------------------------------------------
(* The log and its materialised picture.                                    *)

OrderedOperations(table, ids) ==
  LET Earlier(i, j) ==
        \/ table[i].timestamp < table[j].timestamp
        \/ table[i].timestamp = table[j].timestamp /\ i < j
  IN [k \in 1..Cardinality(ids) |->
        table[CHOOSE i \in ids : Cardinality({j \in ids : Earlier(j, i)}) = k - 1]]

LeaseMatches(expected, lease) == lease = expected

(* A task_submit is taken whatever is known of the task; every other kind   *)
(* needs the task where it should be, and all but a claim its live lease.   *)
ApplyOperation(q, o) ==
  LET t == o.task
      live == t \in DOMAIN q.running /\ LeaseMatches(q.running[t], o.lease)
      stopped == [q EXCEPT !.running = Without(q.running, t)]
  IN CASE o.kind = "task_submit" -> [q EXCEPT !.queued = @ \cup {t}]
       [] o.kind = "lease_claim" /\ t \in q.queued ->
            [q EXCEPT !.queued = @ \ {t}, !.running = With(@, t, o.lease)]
       [] o.kind = "lease_release" /\ live ->
            [stopped EXCEPT !.queued = @ \cup {t}]
       [] o.kind = "task_complete" /\ live ->
            [stopped EXCEPT !.completed = @ \cup {t}, !.queued = @ \ {t}]
       [] o.kind = "task_fail" /\ live ->
            [stopped EXCEPT !.failed = @ \cup {t}, !.queued = @ \ {t}]
       [] o.kind = "contribution" ->
            [q EXCEPT !.contributions = @ \cup {<<t, o.lease>>}]
       [] OTHER -> q

MaterializedFrom(table, ids) ==
  LET ops == OrderedOperations(table, ids)
      after[k \in 0..Cardinality(ids)] ==
        IF k = 0 THEN EmptyQueue ELSE ApplyOperation(after[k - 1], ops[k])
  IN after[Cardinality(ids)]

Materialized(ids) == MaterializedFrom(opTable, ids)

Operation(n, kind, t, lease) ==
  [kind |-> kind, task |-> t, lease |-> lease,
   timestamp |-> messages + Skew[n]]

\* append: one after the other until the log is full, when the rest is lost
Appended(n, table, ids, new) ==
  LET room == MaxOperations - Cardinality(ids)
      kept == IF Len(new) <= room THEN new ELSE SubSeq(new, 1, room)
  IN [table |-> table \o kept,
      ids |-> ids \cup (Len(table) + 1 .. Len(table) + Len(kept))]

\* merge: the union, when the snapshot itself is within the limit
Merged(n, ids) ==
  /\ Cardinality(ids) <= MaxOperations
  /\ log' = [log EXCEPT ![n] = @ \cup ids]

-----------------------------------------------------------------------------
(* The local compute queue of a server.                                     *)

Idle == [step |-> "idle", peer |-> {}, snapshot |-> {}]

(* release() and an expired lease: the task is queued again, or failed      *)
(* when its attempts are spent.  A lease that came with the log brings no   *)
(* count with it and is taken to be the first.                              *)
Returned(q, t) ==
  LET attempts == IF t \in DOMAIN q.attempts THEN q.attempts[t] ELSE 1
      stopped == [q EXCEPT !.running = Without(@, t)]
  IN IF attempts >= MaxAttempts
     THEN [stopped EXCEPT !.failed = @ \cup {t}, !.attempts = Without(@, t)]
     ELSE [stopped EXCEPT !.queued = @ \cup {t}]

\* status() and claim() first return the leases E that have expired by then
RECURSIVE Expired(_, _)
Expired(q, E) ==
  IF E = {} THEN q
  ELSE LET t == CHOOSE u \in E : TRUE IN Expired(Returned(q, t), E \ {t})

Submitted(q, t) == [q EXCEPT !.queued = @ \cup {t}, !.attempts = With(@, t, 0)]

Claimed(q, t, lease) ==
  LET before == IF t \in DOMAIN q.attempts THEN q.attempts[t] ELSE 0
  IN [q EXCEPT !.queued = @ \ {t}, !.running = With(@, t, lease),
               !.attempts = With(@, t, before + 1)]

Ended(q, t, where) ==
  LET stopped == [q EXCEPT !.running = Without(q.running, t),
                           !.attempts = Without(@, t),
                           !.contributions = @ \cup {<<t, Cardinality(@)>>}]
  IN IF where = "completed" THEN [stopped EXCEPT !.completed = @ \cup {t}]
     ELSE [stopped EXCEPT !.failed = @ \cup {t}]

(* _recover_from_cluster_state: status(), which returns the leases E, then  *)
(* everything but the attempts is replaced.                                 *)
Recovered(n, ids, E) ==
  LET m == Materialized(ids)
  IN [Expired(local[n], E) EXCEPT !.queued = m.queued, !.running = m.running,
        !.completed = m.completed, !.failed = m.failed,
        !.contributions = m.contributions]

ClusterInit ==
  /\ opTable = <<>>
  /\ log = [n \in Nodes |-> {}]
  /\ local = [n \in Nodes |-> [queued |-> {}, running |-> [t \in {} |-> 0],
                completed |-> {}, failed |-> {}, contributions |-> {},
                attempts |-> [t \in {} |-> 0]]]
  /\ handling = [n \in Nodes |-> <<>>]
  /\ link = [n \in Nodes |-> Idle]
  /\ messages = 0
  /\ leases = 0
  /\ accepted = [n \in Nodes |-> {}]
  /\ faults = 0

-----------------------------------------------------------------------------
(* A compute message.  The server takes the picture "before" (which returns *)
(* the leases E that have expired), lets the queue carry the request out    *)
(* and answers; the deltas are recorded in a later step of the same thread. *)

StartHandling(n, before, after) ==
  /\ messages < MaxMessages
  /\ handling[n] = <<>>
  /\ messages' = messages + 1
  /\ handling' = [handling EXCEPT ![n] = <<before>>]
  /\ local' = [local EXCEPT ![n] = after]
  /\ UNCHANGED <<opTable, log, link, faults>>

HandleSubmit(n, t, E) ==
  LET before == Expired(local[n], E) IN
  /\ t \notin Known(before)
  /\ StartHandling(n, before, Submitted(before, t))
  /\ accepted' = [accepted EXCEPT ![n] = @ \cup {t}]
  /\ UNCHANGED leases

HandlePoll(n, t, E) ==
  LET before == Expired(local[n], E) IN
  /\ t \in before.queued
  /\ StartHandling(n, before, Claimed(before, t, leases + 1))
  /\ leases' = leases + 1
  /\ UNCHANGED accepted

\* compute_register, or a poll that finds nothing it could run
HandleOther(n, E) ==
  LET before == Expired(local[n], E) IN
  /\ StartHandling(n, before, before)
  /\ UNCHANGED <<leases, accepted>>

HandleEnd(n, t, where, E) ==
  LET before == Expired(local[n], E) IN
  /\ t \in DOMAIN before.running
  /\ StartHandling(n, before, IF where = "released" THEN Returned(before, t)
                              ELSE Ended(before, t, where))
  /\ UNCHANGED <<leases, accepted>>

(* A heartbeat, or a message the queue refuses: status() returns the leases *)
(* E and nothing is recorded.                                               *)
HandleRefused(n, E) ==
  /\ E # {}
  /\ local' = [local EXCEPT ![n] = Expired(@, E)]
  /\ UNCHANGED <<opTable, log, handling, link, messages, leases, accepted, faults>>

(* What _record_compute_deltas of the gossip layer appends, all of it       *)
(* judged against one materialised picture m.  Completed and failed records *)
(* of the queue carry no lease id, so theirs is the empty one.              *)
BaseDeltas(n, after) ==
  LET m == Materialized(log[n])
      Ops(kind, S) == SetToSeq({Operation(n, kind, t, 0) : t \in S})
      claims == {Operation(n, "lease_claim", t, after.running[t]) :
                   t \in DOMAIN after.running \ DOMAIN m.running}
      rewards == {Operation(n, "contribution", c[1], c[2]) :
                   c \in after.contributions \ m.contributions}
  IN Ops("task_submit", after.queued \ Known(m)) \o SetToSeq(claims)
     \o Ops("task_complete", after.completed \ m.completed)
     \o Ops("task_fail", after.failed \ m.failed) \o SetToSeq(rewards)

(* The releases zdx_server.py adds, judged against the picture after those  *)
(* deltas: release_task raises, and the rest is skipped, at a task whose    *)
(* replicated lease is another one.                                         *)
ReleaseDeltas(n, before, after, m) ==
  LET back == DOMAIN before.running \cap after.queued \cap DOMAIN m.running
      live == {t \in back : LeaseMatches(m.running[t], before.running[t])}
      Release(S) == SetToSeq({Operation(n, "lease_release", t, before.running[t]) :
                                t \in S})
  IN IF live = back THEN {Release(live)} ELSE {Release(S) : S \in SUBSET live}

\* Mutant: only what the message changed is compared with the log
DeltasOfMessage(n, E) ==
  /\ handling[n] # <<>>
  /\ LET after == Expired(local[n], E)
         first == Appended(n, opTable, log[n],
                    IF after.queued = handling[n][1].queued THEN BaseDeltas(n, after) ELSE <<>>)
     IN /\ opTable' = first.table
        /\ log' = [log EXCEPT ![n] = first.ids]
        /\ local' = [local EXCEPT ![n] = after]
  /\ handling' = [handling EXCEPT ![n] = <<>>]
  /\ UNCHANGED <<link, messages, leases, accepted, faults>>

(* The rest of _handle_compute: a second status(), which again returns the  *)
(* leases E expired by now, and the deltas against the first.  The two are  *)
(* taken at different times: a gossip push may rebuild the queue between.   *)
RecordDeltas(n, E) ==
  /\ handling[n] # <<>>
  /\ LET before == handling[n][1]
         after == Expired(local[n], E)
         first == Appended(n, opTable, log[n], BaseDeltas(n, after))
         m == MaterializedFrom(first.table, first.ids)
     IN \E released \in ReleaseDeltas(n, before, after, m) :
          LET all == Appended(n, first.table, first.ids, released)
          IN /\ opTable' = all.table
             /\ log' = [log EXCEPT ![n] = all.ids]
             /\ local' = [local EXCEPT ![n] = after]
  /\ handling' = [handling EXCEPT ![n] = <<>>]
  /\ UNCHANGED <<link, messages, leases, accepted, faults>>

-----------------------------------------------------------------------------
(* Gossip.  _exchange pushes a snapshot, needs the acknowledgement, pulls   *)
(* the peer's snapshot and merges it.  Only the receiver of a push rebuilds *)
(* its compute queue.                                                       *)

Connect(n, p) ==
  /\ p \in Peers[n]
  /\ link[n] = Idle
  /\ link' = [link EXCEPT ![n] = [step |-> "push", peer |-> {p}, snapshot |-> log[n]]]
  /\ UNCHANGED <<opTable, log, local, handling, messages, leases, accepted, faults>>

\* Mutant: the pushed operations are merged and the queue is left alone
PushUnrecovered(n, p) ==
  /\ link[n].step = "push" /\ p \in link[n].peer
  /\ Merged(p, link[n].snapshot)
  /\ link' = [link EXCEPT ![n].step = "pull", ![n].snapshot = {}]
  /\ UNCHANGED <<opTable, local, handling, messages, leases, accepted, faults>>

\* p handles cluster_state_push: merge, rebuild the queue, acknowledge
HandlePush(n, p) ==
  /\ link[n].step = "push" /\ p \in link[n].peer
  /\ Merged(p, link[n].snapshot)
  /\ \E E \in SUBSET DOMAIN local[p].running :
       local' = [local EXCEPT ![p] = Recovered(p, log'[p], E)]
  /\ link' = [link EXCEPT ![n].step = "pull", ![n].snapshot = {}]
  /\ UNCHANGED <<opTable, handling, messages, leases, accepted, faults>>

\* p handles cluster_state_pull
HandlePull(n, p) ==
  /\ link[n].step = "pull" /\ p \in link[n].peer
  /\ link' = [link EXCEPT ![n].step = "merge", ![n].snapshot = log[p]]
  /\ UNCHANGED <<opTable, log, local, handling, messages, leases, accepted, faults>>

MergePulled(n) ==
  /\ link[n].step = "merge"
  /\ Merged(n, link[n].snapshot)
  /\ link' = [link EXCEPT ![n] = Idle]
  /\ UNCHANGED <<opTable, local, handling, messages, leases, accepted, faults>>

\* the connection is lost: _run passes on to the next peer
Drop(n) ==
  /\ faults < MaxFaults
  /\ link[n] # Idle
  /\ faults' = faults + 1
  /\ link' = [link EXCEPT ![n] = Idle]
  /\ UNCHANGED <<opTable, log, local, handling, messages, leases, accepted>>

(* A server dies and starts again: the log is read back (every change was   *)
(* saved), the compute queue is rebuilt from it, and a handler that had     *)
(* answered but not recorded its deltas is gone.                            *)
CrashRestart(n) ==
  /\ faults < MaxFaults
  /\ faults' = faults + 1
  /\ Cardinality(log[n]) <= MaxOperations
  /\ \E E \in SUBSET DOMAIN local[n].running :
       local' = [local EXCEPT ![n] = Recovered(n, log[n], E)]
  /\ handling' = [handling EXCEPT ![n] = <<>>]
  /\ link' = [m \in Nodes |-> IF m = n \/ n \in link[m].peer THEN Idle ELSE link[m]]
  /\ UNCHANGED <<opTable, log, messages, leases, accepted>>

HandleCompute(n) ==
  \E E \in SUBSET DOMAIN local[n].running :
    \/ HandleOther(n, E) \/ HandleRefused(n, E)
    \/ \E t \in Tasks :
         \/ HandleSubmit(n, t, E)
         \/ HandlePoll(n, t, E)
         \/ \E where \in {"completed", "failed", "released"} : HandleEnd(n, t, where, E)

FinishHandling(n) == \E E \in SUBSET DOMAIN local[n].running : RecordDeltas(n, E)

Exchange(n) ==
  \/ \E p \in Nodes : Connect(n, p) \/ HandlePush(n, p) \/ HandlePull(n, p)
  \/ MergePulled(n)

ClusterNext ==
  \E n \in Nodes : \/ HandleCompute(n) \/ FinishHandling(n) \/ Exchange(n)
                   \/ Drop(n) \/ CrashRestart(n)

(* A handler that has answered goes on to record, and an exchange that is    *)
(* open ends: both are threads that are simply left to run, and these       *)
(* formulas say what weak fairness of RecordDeltas and of the steps of an   *)
(* exchange says.  The gossip thread takes its peers in turn, for ever.     *)
(* Nothing obliges a client to send a message, a connection to break or a   *)
(* server to crash.                                                         *)
ClusterFairness ==
  \A n \in Nodes :
    /\ []<>(handling[n] = <<>>)
    /\ []<>(link[n] = Idle)
    /\ \A p \in Nodes : SF_clusterVars(Connect(n, p))

ClusterSpec == ClusterInit /\ [][ClusterNext]_clusterVars /\ ClusterFairness

-----------------------------------------------------------------------------
(* Properties.                                                              *)

(* Between two compute messages a server answers for nothing its own log    *)
(* does not know: every task of its queue and every contribution is in the  *)
(* picture the log materialises to, whatever gossip, expiry and restarts    *)
(* did since (_record_compute_deltas leaves nothing out).                   *)
QuietServerIsRecorded ==
  \A n \in Nodes : handling[n] = <<>> =>
    LET m == Materialized(log[n])
    IN Known(local[n]) \subseteq Known(m) /\ local[n].contributions \subseteq m.contributions

(* Once no client sends anything more, gossip makes all logs equal and puts *)
(* every task they record into the compute queue of every server, for good, *)
(* although a connection is lost or a server crashes during an exchange     *)
(* (_exchange, merge, _handle_cluster).                                     *)
ClusterConverges ==
  <>[](\A n, p \in Nodes :
         log[n] = log[p] /\ Known(Materialized(log[n])) \subseteq Known(local[p]))

(* What the documentation promises of master changes and partitions: a task *)
(* a server holds as completed, the change recorded, stays completed there. *)
CompletedStaysCompleted ==
  [][\A n \in Nodes : handling[n] = <<>> =>
       local[n].completed \subseteq local'[n].completed]_clusterVars

(* A task whose submission a server acknowledged is in its queue, in some   *)
(* state, from then on, while no fault happens.                             *)
AcceptedTaskIsKept ==
  faults = 0 => \A n \in Nodes : accepted[n] \subseteq Known(local[n])
=============================================================================
