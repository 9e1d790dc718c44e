--------------------------- MODULE SessionServer ---------------------------
(***************************************************************************)
(* The session server: the handshake (zdx_session.py), the registry of      *)
(* sessions (zdx_network.py), the registry of nodes (zdx_node_registry.py)  *)
(* and the thread that serves one connection (zdx_session_server.py).       *)
(*                                                                          *)
(* Each registry takes its own lock per call, so a connection's thread is   *)
(* modelled one locked call at a time; threads interleave, peers reconnect  *)
(* while their old connection is still being served or cleaned up, sessions *)
(* run out, a message may arrive twice, and the server may restart.         *)
(***************************************************************************)
EXTENDS Naturals, FiniteSets, Sequences

CONSTANTS Conns,        \* connections, one thread each
          Peers,        \* enrolled identities
          MaxSessions,  \* bound: sessions established
          MaxSequence   \* bound: messages of a session

VARIABLES sessions,      \* _sessions: [id -> [peer, active, last] or Gone]
          peerSession,   \* _peer_session: [peer -> id], 0 for none
          spent,         \* sessions whose expires_at has passed
          handshakes,    \* ids in _challenges
          threads,       \* [conn -> the state of its handle_client]
          nodes,         \* node registry: [peer -> session id or Unregistered]
          sessionNodes,  \* _session_nodes: [id -> peer or NoPeer]
          overdue,       \* nodes not seen for longer than stale_after
          scheduled,     \* nodes of the scheduler
          established,   \* sessions established so far
          applied        \* [id -> sequence numbers acted on, in order]

sessionVars == <<sessions, peerSession, spent, handshakes, threads, nodes, sessionNodes,
                 overdue, scheduled, established, applied>>

Ids == 1..MaxSessions
Gone == [peer |-> "none", active |-> FALSE, last |-> 0]
NoPeer == "none"
NoSession == 0          \* a registered node without a session
Unregistered == MaxSessions + 1  \* no record of the node
Resting == [at |-> "none", id |-> 0, peer |-> NoPeer, kind |-> "none"]

Kinds == {"identity", "capability_report", "heartbeat", "other"}

SessionInit ==
  /\ sessions = [i \in Ids |-> Gone]
  /\ peerSession = [p \in Peers |-> 0]
  /\ spent = {} /\ handshakes = {} /\ overdue = {} /\ scheduled = {} /\ established = 0
  /\ threads = [c \in Conns |-> Resting]
  /\ nodes = [p \in Peers |-> Unregistered]
  /\ sessionNodes = [i \in Ids |-> NoPeer]
  /\ applied = [i \in Ids |-> <<>>]

Thread(c, at) == threads' = [threads EXCEPT ![c].at = at]

registry == <<nodes, sessionNodes, overdue>>
store == <<sessions, peerSession>>

-----------------------------------------------------------------------------
(* SessionRegistry.                                                         *)

\* Mutant: the session the peer had before is left in place
EstablishBeside(p) ==
  /\ established < MaxSessions
  /\ established' = established + 1
  /\ sessions' = [sessions EXCEPT ![established'] = [peer |-> p, active |-> FALSE, last |-> 0]]
  /\ peerSession' = [peerSession EXCEPT ![p] = established']

Establish(p) ==
  /\ established < MaxSessions
  /\ established' = established + 1
  /\ sessions' = [i \in Ids |->
       IF i = established' THEN [peer |-> p, active |-> FALSE, last |-> 0]
       ELSE IF i = peerSession[p] THEN Gone ELSE sessions[i]]
  /\ peerSession' = [peerSession EXCEPT ![p] = established']

\* close of every session in ids
CloseAll(ids) ==
  /\ sessions' = [i \in Ids |-> IF i \in ids THEN Gone ELSE sessions[i]]
  /\ peerSession' = [p \in Peers |->
       IF peerSession[p] \in ids /\ sessions[peerSession[p]] # Gone THEN 0 ELSE peerSession[p]]

Known(i, p) == sessions[i] # Gone /\ i \notin spent /\ sessions[i].peer = p

\* what get() closes when it is asked for session i
Fails(i) == CloseAll({i} \cap spent)

-----------------------------------------------------------------------------
(* The handshake.                                                           *)

\* accept_hello
Hello(c, p) ==
  /\ threads[c].at = "none"
  /\ Establish(p)
  /\ handshakes' = handshakes \cup {established'}
  /\ threads' = [threads EXCEPT ![c] = [at |-> "challenged", id |-> established', peer |-> p,
                                        kind |-> "none"]]
  /\ UNCHANGED <<spent, registry, scheduled, applied>>

\* accept_confirmation
Confirm(c) ==
  LET i == threads[c].id
  IN /\ threads[c].at = "challenged"
     /\ i \in handshakes
     /\ handshakes' = IF i \in spent \/ Known(i, threads[c].peer) THEN handshakes \ {i} ELSE handshakes
     /\ IF Known(i, threads[c].peer)
        THEN /\ sessions' = [sessions EXCEPT ![i].active = TRUE]
             /\ UNCHANGED peerSession
             /\ Thread(c, "open")
        ELSE /\ Fails(i)
             /\ threads' = [threads EXCEPT ![c] = Resting]
     /\ UNCHANGED <<spent, registry, scheduled, established, applied>>

\* the connection is lost before the session is confirmed: nothing to clean up
Abandon(c) ==
  /\ threads[c].at = "challenged"
  /\ threads' = [threads EXCEPT ![c] = Resting]
  /\ UNCHANGED <<store, spent, handshakes, registry, scheduled, established, applied>>

-----------------------------------------------------------------------------
(* Serving a message: validate, act, answer.                                *)

\* validate_replay: the next number, nothing else
InOrder(i, seq) == seq = sessions[i].last + 1

\* MessageAuthenticator.validate of the next message or of a repeated one
Validate(c, seq, kind) ==
  LET i == threads[c].id
  IN /\ threads[c].at = "open"
     /\ seq \in 1..MaxSequence
     /\ seq \in {Len(applied[i]), Len(applied[i]) + 1}
     /\ IF Known(i, threads[c].peer) /\ sessions[i].active /\ InOrder(i, seq)
        THEN /\ sessions' = [sessions EXCEPT ![i].last = seq]
             /\ applied' = [applied EXCEPT ![i] = Append(@, seq)]
             /\ threads' = [threads EXCEPT ![c].at = "act", ![c].kind = kind]
             /\ UNCHANGED peerSession
        ELSE /\ Fails(i)
             /\ Thread(c, "get")
             /\ UNCHANGED applied
     /\ UNCHANGED <<spent, handshakes, registry, scheduled, established>>

\* ZDXNodeRegistry.register
Register(i, p) ==
  /\ nodes' = [nodes EXCEPT ![p] = i]
  /\ sessionNodes' = [s \in Ids |-> IF s = i THEN p
                                    ELSE IF s = nodes[p] THEN NoPeer ELSE sessionNodes[s]]
  /\ overdue' = overdue \ {p}

\* what the message does to the node registry and to the scheduler
Act(c) ==
  LET i == threads[c].id
      p == threads[c].peer
      kind == threads[c].kind
      registers == kind = "identity" \/ (kind = "capability_report" /\ nodes[p] # Unregistered)
      beats == kind = "heartbeat" /\ nodes[p] = i
  IN /\ threads[c].at = "act"
     /\ \/ /\ registers
           /\ Register(i, p)
           /\ scheduled' = scheduled \cup {p}
           /\ Thread(c, "answer")
        \/ /\ beats
           /\ overdue' = overdue \ {p}
           /\ Thread(c, "answer")
           /\ UNCHANGED <<nodes, sessionNodes, scheduled>>
        \/ /\ kind = "other"
           /\ Thread(c, "answer")
           /\ UNCHANGED <<registry, scheduled>>
        \/ /\ ~registers /\ ~beats /\ kind # "other"
           /\ Thread(c, "get")
           /\ UNCHANGED <<registry, scheduled>>
     /\ UNCHANGED <<store, spent, handshakes, established, applied>>

\* next_sequence for the response, then remove_stale
Answer(c) ==
  LET i == threads[c].id
  IN /\ threads[c].at = "answer"
     /\ IF Known(i, threads[c].peer)
        THEN /\ Thread(c, "sweep")
             /\ nodes' = [p \in Peers |-> IF p \in overdue THEN Unregistered ELSE nodes[p]]
             /\ sessionNodes' = [s \in Ids |->
                  IF \E p \in overdue : nodes[p] = s THEN NoPeer ELSE sessionNodes[s]]
             /\ overdue' = {}
             /\ UNCHANGED store
        ELSE /\ Fails(i)
             /\ Thread(c, "get")
             /\ UNCHANGED registry
     /\ UNCHANGED <<spent, handshakes, scheduled, established, applied>>

\* sessions.cleanup
Sweep(c) ==
  /\ threads[c].at = "sweep"
  /\ CloseAll(spent)
  /\ threads' = [threads EXCEPT ![c].at = "open", ![c].kind = "none"]
  /\ UNCHANGED <<spent, handshakes, registry, scheduled, established, applied>>

-----------------------------------------------------------------------------
(* The finally block of handle_client, call by call.                        *)

LoseConnection(c) ==
  /\ threads[c].at \in {"open", "answer"}
  /\ Thread(c, "get")
  /\ UNCHANGED <<store, spent, handshakes, registry, scheduled, established, applied>>

\* sessions.get: the peer is only known while the session is
LookUpPeer(c) ==
  LET i == threads[c].id
  IN /\ threads[c].at = "get"
     /\ threads' = [threads EXCEPT ![c].at = "disconnect",
                      ![c].peer = IF Known(i, threads[c].peer) THEN @ ELSE NoPeer]
     /\ Fails(i)
     /\ UNCHANGED <<spent, handshakes, registry, scheduled, established, applied>>

\* registry.disconnect
Disconnect(c) ==
  LET i == threads[c].id
  IN /\ threads[c].at = "disconnect"
     /\ nodes' = [p \in Peers |-> IF p = sessionNodes[i] /\ nodes[p] # Unregistered
                                  THEN NoSession ELSE nodes[p]]
     /\ sessionNodes' = [sessionNodes EXCEPT ![i] = NoPeer]
     /\ Thread(c, "close")
     /\ UNCHANGED <<store, spent, handshakes, overdue, scheduled, established, applied>>

CloseSession(c) ==
  /\ threads[c].at = "close"
  /\ CloseAll({threads[c].id})
  /\ Thread(c, "unschedule")
  /\ UNCHANGED <<spent, handshakes, registry, scheduled, established, applied>>

RemoveFromScheduler(c) ==
  /\ threads[c].at = "unschedule"
  /\ scheduled' = scheduled \ {threads[c].peer}
  /\ threads' = [threads EXCEPT ![c] = Resting]
  /\ UNCHANGED <<store, spent, handshakes, registry, established, applied>>

-----------------------------------------------------------------------------
(* Time and restarts.                                                       *)

Expire(i) ==
  /\ sessions[i] # Gone /\ i \notin spent
  /\ spent' = spent \cup {i}
  /\ UNCHANGED <<store, handshakes, threads, registry, scheduled, established, applied>>

GrowStale(p) ==
  /\ nodes[p] # Unregistered /\ p \notin overdue
  /\ overdue' = overdue \cup {p}
  /\ UNCHANGED <<store, spent, handshakes, threads, nodes, sessionNodes, scheduled, established,
                 applied>>

\* node_registry.json is reloaded with the sessions it names; sessions are not
RestartServer ==
  /\ established > 0
  /\ sessions' = [i \in Ids |-> Gone]
  /\ peerSession' = [p \in Peers |-> 0]
  /\ handshakes' = {} /\ scheduled' = {}
  /\ threads' = [c \in Conns |-> Resting]
  /\ sessionNodes' = [i \in Ids |-> IF \E p \in Peers : nodes[p] = i
                                    THEN CHOOSE p \in Peers : nodes[p] = i ELSE NoPeer]
  /\ UNCHANGED <<spent, nodes, overdue, established, applied>>

SessionNext ==
  \/ \E c \in Conns, p \in Peers : Hello(c, p)
  \/ \E c \in Conns, seq \in 1..MaxSequence, kind \in Kinds : Validate(c, seq, kind)
  \/ \E c \in Conns : Confirm(c) \/ Abandon(c) \/ Act(c) \/ Answer(c) \/ Sweep(c)
  \/ \E c \in Conns : LoseConnection(c) \/ LookUpPeer(c) \/ Disconnect(c)
  \/ \E c \in Conns : CloseSession(c) \/ RemoveFromScheduler(c)
  \/ \E i \in Ids : Expire(i)
  \/ \E p \in Peers : GrowStale(p)
  \/ RestartServer

-----------------------------------------------------------------------------
(* Properties.                                                              *)

(* However reconnections, expiry, clean-up and restarts interleave, a peer  *)
(* has at most one session and the two indexes of each registry agree:      *)
(* _peer_session names the only session of a peer, a node's session leads   *)
(* back to the node, and no session leads to a node that has moved on.  The *)
(* messages acted on in a session are 1, 2, 3 ... with none repeated.       *)
SessionsAgree ==
  /\ \A i \in Ids : sessions[i] # Gone => peerSession[sessions[i].peer] = i
  /\ \A p \in Peers : peerSession[p] # 0 => sessions[peerSession[p]].peer = p
  /\ \A p \in Peers, i \in Ids : nodes[p] = i <=> sessionNodes[i] = p
  /\ \A i \in Ids : \A k \in DOMAIN applied[i] : applied[i][k] = k
=============================================================================
