------------------------------- MODULE Karma -------------------------------
(***************************************************************************)
(* ZDXKarmaSystem: reputation, suspension, eviction, cluster membership    *)
(* and the election of a cluster's master, with the process dying and      *)
(* reloading its file between any two calls.                               *)
(*                                                                         *)
(* Every public call is one action, the save() it ends with included; a    *)
(* call that does not save leaves karmaDisk alone.  Reading is not free of *)
(* effects: is_suspended lifts a suspension that has run out.              *)
(***************************************************************************)
EXTENDS Integers, FiniteSets, FiniteSetsExt

CONSTANTS
    Nodes, Clusters,
    ClusterSize,        \* CLUSTER_SIZE
    SuspensionTime,     \* SUSPENSION_DURATION, in ticks
    DecayPeriod,        \* INACTIVITY_DECAY_PERIOD, in ticks
    Events,             \* the KarmaEvents that occur
    StartXP,            \* experience of each node in the file first loaded
    MaxNow, MaxReports  \* bounds: ticks; events and decays

VARIABLES
    score,      \* node -> KarmaScore
    evicted,    \* eviction_queue
    members,    \* clusters: cluster -> nodes
    karmaNow,   \* time.time(), in ticks
    karmaDisk,  \* what the last save() wrote
    reports     \* events reported and decays applied, for the bound only

karmaVars == <<score, evicted, members, karmaNow, karmaDisk, reports>>

-----------------------------------------------------------------------------
KARMA_ADJUSTMENTS ==
    [valid_contribution |-> <<10, 15>>, correct_computation |-> <<5, 10>>,
     compute_cycle_completed |-> <<8, 20>>, uptime_heartbeat |-> <<1, 1>>,
     peer_validation |-> <<3, 5>>, frame_sync_success |-> <<2, 3>>,
     auth_failure |-> <<-5, 0>>, replay_attack |-> <<-20, -10>>,
     signature_forgery |-> <<-50, -25>>, dos_attempt |-> <<-30, -15>>,
     revocation_violation |-> <<-100, 0>>, malformed_packet |-> <<-3, 0>>,
     timeout_violation |-> <<-2, 0>>, enrollment_abuse |-> <<-25, -10>>,
     computation_fraud |-> <<-40, -20>>, state_corruption |-> <<-60, -30>>]

LevelRank(xp) ==
    CASE xp >= 100000 -> 5 [] xp >= 10000 -> 4 [] xp >= 1000 -> 3
      [] xp >= 100 -> 2 [] OTHER -> 1
MassMultiplier == <<10, 15, 25, 40, 60>>     \* tenths

\* is_suspended: what it returns, and the record it leaves behind.
TimeServed(s) == s.suspended /\ karmaNow - s.suspendedAt > SuspensionTime
IsSuspended(s) == s.suspended /\ ~TimeServed(s)
Lifted(s) == IF TimeServed(s) THEN [s EXCEPT !.suspended = FALSE, !.violations = 0]
             ELSE s

\* mass, in thousandths; suspension_status is read before is_suspended.
Mass(s) == IF s.suspended THEN 0
           ELSE MassMultiplier[LevelRank(s.xp)] * s.xp
                * (IF s.karma > 10 THEN s.karma ELSE 10)

NewScore(xp) == [karma |-> 50, xp |-> xp, suspended |-> FALSE, suspendedAt |-> 0,
                 evictionPending |-> FALSE, violations |-> 0, clusters |-> {},
                 lastActive |-> 0]

KarmaInit ==
    /\ score = [n \in Nodes |-> NewScore(StartXP[n])]
    /\ evicted = {} /\ members = [c \in Clusters |-> {}]
    /\ karmaNow = 0 /\ reports = 0
    /\ karmaDisk = [score |-> score, evicted |-> evicted, members |-> members]

Save == karmaDisk' = [score |-> score', evicted |-> evicted', members |-> members']

-----------------------------------------------------------------------------
Within(lo, v, hi) == IF v < lo THEN lo ELSE IF v > hi THEN hi ELSE v

\* The score after report_event; violations beyond three are not told apart.
Reported(s, e, severe) ==
    LET delta == KARMA_ADJUSTMENTS[e]
        karma == Within(0, s.karma + delta[1], 100)
        violations == IF delta[1] < 0 THEN Within(0, s.violations + 1, 3)
                      ELSE s.violations
        suspends == karma <= 0 \/ (violations >= 3 /\ severe)
    IN  [s EXCEPT !.karma = karma,
                  !.xp = IF @ + delta[2] < 0 THEN 0 ELSE @ + delta[2],
                  !.violations = violations,
                  !.lastActive = karmaNow,
                  !.suspended = @ \/ suspends,
                  !.suspendedAt = IF suspends THEN karmaNow ELSE @]

\* karma <= -50 cannot happen after the clamp, so only this event evicts.
Evicts(e) == e = "revocation_violation"

\* report_event with _suspend_node and _mark_eviction, on a state that the
\* caller may already have changed (s, and the members m).
ReportTail(n, e, severe, s, m) ==
    LET r == Reported(s, e, severe) IN
    /\ score' = [score EXCEPT ![n] =
                    IF Evicts(e) THEN [r EXCEPT !.evictionPending = TRUE, !.clusters = {}]
                    ELSE r]
    /\ evicted' = IF Evicts(e) THEN evicted \cup {n} ELSE evicted
    /\ members' = IF Evicts(e) THEN [c \in Clusters |-> m[c] \ {n}] ELSE m

\* Mutant: nothing is written at the end.
ReportUnsaved(n, e, severe) ==
    /\ reports < MaxReports /\ reports' = reports + 1
    /\ ReportTail(n, e, severe, score[n], members)
    /\ UNCHANGED <<karmaNow, karmaDisk>>

ReportEvent(n, e, severe) ==
    /\ reports < MaxReports /\ reports' = reports + 1
    /\ ReportTail(n, e, severe, score[n], members)
    /\ Save
    /\ UNCHANGED karmaNow

\* register_cluster_activity: adds the node with no regard to capacity or
\* standing; saves only through report_event.
Joined(s, c) == [s EXCEPT !.clusters = @ \cup {c}]
RegisterActivity(n, c, cycleCompleted) ==
    LET m == [members EXCEPT ![c] = @ \cup {n}] IN
    /\ IF cycleCompleted
       THEN /\ reports < MaxReports /\ reports' = reports + 1
            /\ ReportTail(n, "compute_cycle_completed", FALSE, Joined(score[n], c), m)
            /\ Save
       ELSE /\ score' = [score EXCEPT ![n] = [Joined(@, c) EXCEPT !.lastActive = karmaNow]]
            /\ members' = m
            /\ UNCHANGED <<evicted, karmaDisk, reports>>
    /\ UNCHANGED karmaNow

\* can_participate is evaluated first and may lift the suspension even when the
\* call then refuses.
JoinCluster(n, c) ==
    LET s == IF n \in evicted THEN score[n] ELSE Lifted(score[n])
        allowed == /\ n \notin evicted /\ ~IsSuspended(score[n]) /\ s.karma > 0
                   /\ Cardinality(members[c]) < ClusterSize
                   /\ c \notin s.clusters
    IN  /\ score' = [score EXCEPT ![n] = IF allowed THEN Joined(s, c) ELSE s]
        /\ members' = IF allowed THEN [members EXCEPT ![c] = @ \cup {n}] ELSE members
        /\ UNCHANGED <<evicted, karmaNow, reports>>
        /\ IF allowed THEN Save ELSE UNCHANGED karmaDisk

\* Mutant: the node's own record keeps the membership.
LeaveOneSided(n, c) ==
    /\ c \in score[n].clusters
    /\ members' = [members EXCEPT ![c] = @ \ {n}]
    /\ UNCHANGED <<score, evicted, karmaNow, reports>>
    /\ Save

LeaveCluster(n, c) ==
    /\ c \in score[n].clusters
    /\ score' = [score EXCEPT ![n].clusters = @ \ {c}]
    /\ members' = [members EXCEPT ![c] = @ \ {n}]
    /\ UNCHANGED <<evicted, karmaNow, reports>>
    /\ Save

Lost(xp) == (xp * 15) \div 100
Decayed[k \in Nat, xp \in Nat] == IF k = 0 THEN xp ELSE Decayed[k - 1, xp - Lost(xp)]

\* apply_inactivity_decay: last_activity_time is left where it was.
ApplyDecay(n) ==
    LET idle == karmaNow - score[n].lastActive
        xp == Decayed[idle \div DecayPeriod, score[n].xp]
    IN  /\ idle >= DecayPeriod
        /\ xp < score[n].xp
        /\ reports < MaxReports /\ reports' = reports + 1
        /\ score' = [score EXCEPT ![n].xp = xp]
        /\ UNCHANGED <<evicted, members, karmaNow>>
        /\ Save

\* get_master_node_candidates lifts the suspensions it looks at.
Looked(c) == {n \in members[c] : LevelRank(score[n].xp) = 5}
AfterLook(c) == [n \in Nodes |-> IF n \in Looked(c) THEN Lifted(score[n]) ELSE score[n]]
Candidates(c) ==
    {n \in Looked(c) : /\ ~IsSuspended(score[n]) /\ ~score[n].evictionPending
                       /\ score[n].karma > 0}

\* elect_master_node: any candidate of the greatest mass; a tie is settled by
\* the iteration order of a set of strings.
Elected(c) ==
    {n \in Candidates(c) :
        \A k \in Candidates(c) : Mass(AfterLook(c)[k]) <= Mass(AfterLook(c)[n])}

ElectMaster(c) ==
    /\ score' = AfterLook(c) /\ score' # score
    /\ UNCHANGED <<evicted, members, karmaNow, karmaDisk, reports>>

Tick ==
    /\ karmaNow < MaxNow /\ karmaNow' = karmaNow + 1
    /\ UNCHANGED <<score, evicted, members, karmaDisk, reports>>

\* The process dies and a new one loads the file.
Restart ==
    /\ score' = karmaDisk.score /\ evicted' = karmaDisk.evicted
    /\ members' = karmaDisk.members
    /\ UNCHANGED <<karmaNow, karmaDisk, reports>>

KarmaNext ==
    \/ \E n \in Nodes, e \in Events, severe \in BOOLEAN : ReportEvent(n, e, severe)
    \/ \E n \in Nodes, c \in Clusters, done \in BOOLEAN : RegisterActivity(n, c, done)
    \/ \E n \in Nodes, c \in Clusters : JoinCluster(n, c) \/ LeaveCluster(n, c)
    \/ \E n \in Nodes : ApplyDecay(n)
    \/ \E c \in Clusters : ElectMaster(c)
    \/ Tick
    \/ Restart

KarmaSpec == KarmaInit /\ [][KarmaNext]_karmaVars

-----------------------------------------------------------------------------
\* A node's own list of clusters and the clusters' lists of nodes agree, in
\* memory and in the file, over eviction, half-saved joins and restarts.
MembershipAgrees ==
    /\ \A n \in Nodes, c \in Clusters : (n \in members[c]) <=> (c \in score[n].clusters)
    /\ \A n \in Nodes, c \in Clusters :
          (n \in karmaDisk.members[c]) <=> (c \in karmaDisk.score[n].clusters)

\* "Mark node for permanent eviction": no later event, election or restart
\* brings an evicted node back into the running for master.
EvictionIsPermanent ==
    [][/\ evicted \subseteq evicted'
       /\ \A c \in Clusters : Elected(c)' \cap evicted = {}]_karmaVars
=============================================================================
