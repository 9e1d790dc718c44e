---------------------------- MODULE TrustService ----------------------------
(***************************************************************************)
(* How a server keeps trusting its peers: the authentication pipeline with  *)
(* its rate limit and sequence numbers (zdx_auth_pipeline.py), the record   *)
(* of when a peer proved who it is (zdx_state.py), the reviews asked for    *)
(* (zdx_rectification.py), the challenges that settle a review of age       *)
(* (zdx_reattest.py) and the handlers that tie them together                *)
(* (zdx_server_core.py).                                                    *)
(*                                                                          *)
(* Settling a review writes three files one after the other; messages of    *)
(* other connections, and a restart, may come between them.  Signatures are *)
(* valid or not; times are ticks.                                           *)
(***************************************************************************)
EXTENDS Integers, Sequences, FiniteSets

CONSTANTS TrustPeers,     \* the peers of the trusted-peers file
          MaxAge,         \* MAX_MESSAGE_AGE
          RateWindow, RateLimit,          \* RATE_LIMIT_WINDOW, RATE_LIMIT_MAX_MESSAGES
          ReattestAfter,  \* reattest_after_seconds
          ActiveWithin,   \* active_within_seconds
          ChallengeTTL,   \* CHALLENGE_TTL_SECONDS
          ReportWindow, ReportLimit,      \* REPORTER_WINDOW_SECONDS, MAX_REPORTS_PER_WINDOW
          MaxPending,     \* MAX_PENDING
          TrustMaxTime, MaxSequences, MaxReviews, MaxChallenges  \* bounds

VARIABLES trustNow, enrolled, revoked,
          guard,       \* _replay_guards: [peer -> [last, count, start] or NoGuard]
          auth,        \* auth_peers: [peer -> [first, last, proven]]; -1 for never
          reviews,     \* [id -> review], ids in the order of requested_at
          challenges,  \* [id -> challenge]
          answering,   \* [peer -> its reattest_response under way]
          accepted,    \* [peer -> sequence numbers accepted by its present guard]
          proofs       \* challenges that were verified, in order

trustVars == <<trustNow, enrolled, revoked, guard, auth, reviews, challenges, answering,
               accepted, proofs>>

NoGuard == [last |-> -1, count |-> 0, start |-> -1]
Never == [first |-> -1, last |-> -1, proven |-> -1]
NotAnswering == [stage |-> "none", review |-> 0]
Server == "server"

TrustInit ==
  /\ trustNow = 0
  /\ enrolled = TrustPeers /\ revoked = {}
  /\ guard = [p \in TrustPeers |-> NoGuard]
  /\ auth = [p \in TrustPeers |-> Never]
  /\ reviews = <<>> /\ challenges = <<>>
  /\ answering = [p \in TrustPeers |-> NotAnswering]
  /\ accepted = [p \in TrustPeers |-> <<>>]
  /\ proofs = <<>>

-----------------------------------------------------------------------------
(* process_message: stages in order, the stateful ones last.                *)

\* counts past the limit are not told apart
Counted(g) == IF g.start = -1 \/ trustNow - g.start > RateWindow
              THEN [g EXCEPT !.start = trustNow, !.count = 1]
              ELSE [g EXCEPT !.count = IF @ > RateLimit THEN @ ELSE @ + 1]

\* Mutant: a sequence number may be used again
NextInSequenceLoose(g, seq) == seq >= g.last

NextInSequence(g, seq) == seq > g.last

Stage(p, stamp, genuine, seq) ==
  CASE trustNow - stamp > MaxAge \/ stamp - trustNow > MaxAge -> "timestamp"
    [] ~genuine -> "signature_verification"
    [] p \in revoked -> "revocation_check"
    [] p \notin enrolled -> "enrollment_check"
    [] Counted(guard[p]).count > RateLimit -> "rate_limit"
    [] ~NextInSequence(guard[p], seq) -> "replay_protection"
    [] OTHER -> "dispatch"

\* what the pipeline leaves in the guard of p when it stops at a stage
GuardAfter(p, stage, seq) ==
  CASE stage = "dispatch" -> [Counted(guard[p]) EXCEPT !.last = seq]
    [] stage \in {"rate_limit", "replay_protection"} -> Counted(guard[p])
    [] OTHER -> guard[p]

Authenticated(p, stamp, seq) ==
  /\ Stage(p, stamp, TRUE, seq) = "dispatch"
  /\ guard' = [guard EXCEPT ![p] = GuardAfter(p, "dispatch", seq)]
  /\ accepted' = [accepted EXCEPT ![p] = Append(@, seq)]
  /\ auth' = [auth EXCEPT ![p].first = IF @ = -1 THEN stamp ELSE @, ![p].last = stamp]

-----------------------------------------------------------------------------
(* RectificationQueue.                                                      *)

PendingReviews(rs, target, reason) ==
  {i \in DOMAIN rs : rs[i].status = "pending" /\ rs[i].target = target /\ rs[i].reason = reason}

\* request raises: the queue is full, or the reporter asks too often
RequestRefused(rs, reporter) ==
  \/ Cardinality({i \in DOMAIN rs : rs[i].status = "pending"}) >= MaxPending
  \/ Cardinality({i \in DOMAIN rs : rs[i].reporter = reporter
                                    /\ trustNow - rs[i].at <= ReportWindow}) >= ReportLimit

\* a request for what this reporter already asked for is coalesced
Requested(rs, reporter, target, reason) ==
  IF \E i \in PendingReviews(rs, target, reason) : rs[i].reporter = reporter THEN rs
  ELSE Append(rs, [reporter |-> reporter, target |-> target, reason |-> reason,
                   at |-> trustNow, status |-> "pending"])

\* long_authenticated_peers, as the record stands when it is asked
Due(a) ==
  {p \in TrustPeers :
     /\ a[p].first # -1
     /\ trustNow - (IF a[p].proven # -1 THEN a[p].proven ELSE a[p].first) >= ReattestAfter
     /\ trustNow - a[p].last <= ActiveWithin}

(* _queue_long_authenticated_peers: one request per due peer that has none, *)
(* until one is refused, which ends the whole heartbeat.                    *)
RECURSIVE Queued(_, _)
Queued(rs, due) ==
  IF due = {} THEN [reviews |-> rs, refused |-> FALSE]
  ELSE LET p == CHOOSE q \in due : TRUE
       IN IF RequestRefused(rs, Server) THEN [reviews |-> rs, refused |-> TRUE]
          ELSE Queued(Requested(rs, Server, p, "authentication_age"), due \ {p})

ToReview(a) ==
  {p \in Due(a) : p \in enrolled \ revoked /\ PendingReviews(reviews, p, "authentication_age") = {}}

-----------------------------------------------------------------------------
(* ReattestationChallengeStore.                                             *)

Usable(c) == c.status = "pending" /\ c.expires > trustNow

\* issue: cleanup first, then the challenge the review already has or a new one
Issued(cs, review, p) ==
  LET cleaned == [i \in DOMAIN cs |-> IF Usable(cs[i]) THEN cs[i] ELSE [cs[i] EXCEPT !.status = "gone"]]
  IN IF \E i \in DOMAIN cleaned : Usable(cleaned[i]) /\ cleaned[i].review = review
                                  /\ cleaned[i].node = p
     THEN cleaned
     ELSE Append(cleaned, [review |-> review, node |-> p, expires |-> trustNow + ChallengeTTL,
                           status |-> "pending"])

-----------------------------------------------------------------------------
(* Messages.                                                                *)

Quiet(p) == answering[p].stage = "none"

(* A message that the pipeline stops: repeated or too frequent messages of  *)
(* a known peer are reported for review (_observe_authenticated_auth_error).*)
Refuse(p, stamp, genuine, seq) ==
  LET stage == Stage(p, stamp, genuine, seq)
      reason == IF stage = "rate_limit" THEN "rate_limit_pattern" ELSE "replay_pattern"
      observed == stage \in {"rate_limit", "replay_protection"}
  IN /\ Quiet(p) /\ stage # "dispatch"
     /\ Len(reviews) < MaxReviews
     /\ guard' = [guard EXCEPT ![p] = GuardAfter(p, stage, seq)]
     /\ reviews' = IF observed /\ PendingReviews(reviews, p, reason) = {}
                      /\ ~RequestRefused(reviews, Server)
                   THEN Requested(reviews, Server, p, reason) ELSE reviews
     /\ UNCHANGED <<trustNow, enrolled, revoked, auth, challenges, answering, accepted, proofs>>

\* heartbeat: reviews are queued for due peers, and the sender is challenged
Heartbeat(p, stamp, seq) ==
  LET queued == Queued(reviews, ToReview(auth'))
      own == PendingReviews(queued.reviews, p, "authentication_age")
  IN /\ Quiet(p)
     /\ Authenticated(p, stamp, seq)
     /\ Len(queued.reviews) <= MaxReviews
     /\ reviews' = queued.reviews
     /\ challenges' = IF queued.refused \/ own = {} THEN challenges
                      ELSE Issued(challenges, CHOOSE i \in own : \A j \in own : i <= j, p)
     /\ Len(challenges') <= MaxChallenges
     /\ UNCHANGED <<trustNow, enrolled, revoked, answering, proofs>>

\* rectification_request of one peer about another
Report(p, stamp, seq, target, reason) ==
  /\ Quiet(p)
  /\ Authenticated(p, stamp, seq)
  /\ reviews' = IF /\ target \in enrolled \ revoked
                   /\ reason = "authentication_age" => target \in Due(auth')
                   /\ ~RequestRefused(reviews, p)
                THEN Requested(reviews, p, target, reason) ELSE reviews
  /\ Len(reviews') <= MaxReviews
  /\ UNCHANGED <<trustNow, enrolled, revoked, challenges, answering, proofs>>

\* reattest_response, up to the save of verify
Verify(p, stamp, seq, i, genuine) ==
  /\ Quiet(p)
  /\ Authenticated(p, stamp, seq)
  /\ i \in DOMAIN challenges
  /\ IF challenges[i].status # "pending" \/ challenges[i].node # p
     THEN UNCHANGED <<challenges, answering, proofs>>
     ELSE IF ~Usable(challenges[i]) \/ ~genuine
     THEN /\ challenges' = [challenges EXCEPT ![i].status = "failed"]
          /\ UNCHANGED <<answering, proofs>>
     ELSE /\ challenges' = [challenges EXCEPT ![i].status = "verified"]
          /\ answering' = [answering EXCEPT ![p] =
                             [stage |-> "resolve", review |-> challenges[i].review]]
          /\ proofs' = Append(proofs, i)
  /\ UNCHANGED <<trustNow, enrolled, revoked, reviews>>

\* resolve, if the review is still pending; else the handler raises
Resolve(p) ==
  LET r == answering[p].review
  IN /\ answering[p].stage = "resolve"
     /\ IF r \in PendingReviews(reviews, p, "authentication_age")
        THEN /\ reviews' = [reviews EXCEPT ![r].status = "resolved"]
             /\ answering' = [answering EXCEPT ![p].stage = "record"]
        ELSE /\ answering' = [answering EXCEPT ![p] = NotAnswering]
             /\ UNCHANGED reviews
     /\ UNCHANGED <<trustNow, enrolled, revoked, guard, auth, challenges, accepted, proofs>>

\* record_reattested_peer
RecordReattested(p) ==
  /\ answering[p].stage = "record"
  /\ auth' = [auth EXCEPT ![p].proven = trustNow,
                          ![p].last = IF @ > trustNow THEN @ ELSE trustNow]
  /\ answering' = [answering EXCEPT ![p] = NotAnswering]
  /\ UNCHANGED <<trustNow, enrolled, revoked, guard, reviews, challenges, accepted, proofs>>

-----------------------------------------------------------------------------
(* Operators, time and restarts.                                            *)

RegisterPeer(p) ==
  /\ p \in revoked
  /\ enrolled' = enrolled \cup {p} /\ revoked' = revoked \ {p}
  /\ UNCHANGED <<trustNow, guard, auth, reviews, challenges, answering, accepted, proofs>>

RevokePeer(p) ==
  /\ p \notin revoked
  /\ enrolled' = enrolled \ {p} /\ revoked' = revoked \cup {p}
  /\ guard' = [guard EXCEPT ![p] = NoGuard]
  /\ accepted' = [accepted EXCEPT ![p] = <<>>]
  /\ UNCHANGED <<trustNow, auth, reviews, challenges, answering, proofs>>

TrustTick ==
  /\ trustNow < TrustMaxTime
  /\ trustNow' = trustNow + 1
  /\ UNCHANGED <<enrolled, revoked, guard, auth, reviews, challenges, answering, accepted, proofs>>

\* guards and revocations live in memory only
TrustRestart ==
  /\ enrolled' = TrustPeers /\ revoked' = {}
  /\ guard' = [p \in TrustPeers |-> NoGuard]
  /\ accepted' = [p \in TrustPeers |-> <<>>]
  /\ answering' = [p \in TrustPeers |-> NotAnswering]
  /\ UNCHANGED <<trustNow, auth, reviews, challenges, proofs>>

Stamps == {s \in {trustNow - 1, trustNow} : s >= 0}

TrustNext ==
  \/ \E p \in TrustPeers, stamp \in Stamps, seq \in 0..MaxSequences :
       \/ Heartbeat(p, stamp, seq)
       \/ \E genuine \in BOOLEAN : Refuse(p, stamp, genuine, seq)
       \/ \E i \in 1..MaxChallenges, genuine \in BOOLEAN : Verify(p, stamp, seq, i, genuine)
       \/ \E target \in TrustPeers, reason \in {"authentication_age", "operator_review"} :
            Report(p, stamp, seq, target, reason)
  \/ \E p \in TrustPeers : Resolve(p) \/ RecordReattested(p) \/ RegisterPeer(p) \/ RevokePeer(p)
  \/ TrustTick
  \/ TrustRestart

-----------------------------------------------------------------------------
(* Properties.                                                              *)

(* A peer counts as re-attested only because a review of its age, opened    *)
(* before, was resolved; a challenge is good for one proof; and a peer's    *)
(* guard accepts its sequence numbers in strictly rising order - whatever   *)
(* expires, is repeated, is revoked or dies between the three files that a  *)
(* response touches (_handle_reattest_response, verify, check_sequence).    *)
TrustIsEarned ==
  /\ \A p \in TrustPeers : auth[p].proven # -1 =>
       \E i \in DOMAIN reviews : /\ reviews[i].target = p /\ reviews[i].status = "resolved"
                                 /\ reviews[i].at <= auth[p].proven
  /\ \A i, j \in DOMAIN proofs : i # j => proofs[i] # proofs[j]
  /\ \A p \in TrustPeers : \A i, j \in DOMAIN accepted[p] :
       i < j => accepted[p][i] < accepted[p][j]
=============================================================================
