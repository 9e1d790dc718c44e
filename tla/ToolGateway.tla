----------------------------- MODULE ToolGateway -----------------------------
(***************************************************************************)
(* The tool gateway of an agent session (zdx_agent_tool_gateway.py): a      *)
(* proposal is bound to the VM generation and the policy, authorised, and   *)
(* its handler run between a durable intent and a durable result.           *)
(*                                                                          *)
(* A proposal is what the caller asks for with the generation and the       *)
(* policy it was made under; the three stand for the action hash.           *)
(* "resident" is the agent memory of the session and "durable" what its     *)
(* last checkpoint wrote, so a crash puts the first back to the second, the *)
(* VM generation included, and the same proposal can be made again.  One    *)
(* caller runs execute() at a time; the VM and the checkpoint worker run    *)
(* beside it.                                                               *)
(***************************************************************************)
EXTENDS Naturals

CONSTANTS
  Actions,        \* [tool, operation, resource] records a caller may ask for
  Policies,       \* sets of rules [tool, operations, prefixes, barrier]
  Registered,     \* the tools with a handler
  Covers,         \* pairs <<prefix, resource>> where resource starts with prefix
  NoResource,     \* the empty resource
  External,       \* is an external authorizer configured
  MaxGeneration,  \* bound: VM generations
  MaxRequests,    \* bound: calls of execute()
  MaxGatewayCrashes \* bound: crashes

ASSUME GatewayAssumption ==
  /\ MaxGeneration \in Nat
  /\ Actions # {} /\ Policies # {} /\ {} \notin Policies
  /\ External \in BOOLEAN

NoPolicy == {}

Proposals == [action : Actions, generation : 0..MaxGeneration, policy : Policies]

VARIABLES
  policy,         \* the policy the gateway was opened with, or NoPolicy
  resident,       \* [generation, policy, intents, results] of the session
  durable,        \* the same on disk
  stage,          \* where the call of execute() is
  proposal,       \* what it proposed
  effects,        \* effects[p]: times the handler ran for p
  requests, gatewayCrashes

gatewayVars == <<policy, resident, durable, stage, proposal, effects, requests, gatewayCrashes>>

EmptyMemory == [generation |-> 0, policy |-> NoPolicy, intents |-> {}, results |-> {}]

GatewayInit ==
  /\ policy = NoPolicy
  /\ resident = EmptyMemory /\ durable = EmptyMemory
  /\ stage = "none"
  /\ proposal = CHOOSE p \in Proposals : TRUE
  /\ effects = [p \in Proposals |-> 0]
  /\ requests = 0 /\ gatewayCrashes = 0

-----------------------------------------------------------------------------
(* Authorisation.                                                           *)

Rules(tool) == {r \in policy : r.tool = tool}

\* _local_decision: a rule for the tool grants the operation and the resource
LocallyAllowed(a) ==
  \E r \in Rules(a.tool) :
    /\ a.operation \in r.operations
    /\ IF r.prefixes = {} THEN a.resource = NoResource
       ELSE \E prefix \in r.prefixes : <<prefix, a.resource>> \in Covers

\* _normalize_external_decision: anything but an allow bound to this action
\* and this policy is a denial, an exception of the authorizer included
Bound == [decision |-> "allow", action |-> TRUE, policy |-> TRUE]

Answers == [decision : {"allow", "deny"}, action : BOOLEAN, policy : BOOLEAN]

ExternallyAllowed(answer) == External => answer = Bound

NeedsBarrier(a) == \E r \in Rules(a.tool) : r.barrier

-----------------------------------------------------------------------------
(* Life of the gateway and of the session around it.                        *)

\* __init__: the first policy is stored, any other one is refused later
OpenGateway(p) ==
  /\ stage = "none"
  /\ resident.policy \in {NoPolicy, p}
  /\ policy' = p
  /\ resident' = [resident EXCEPT !.policy = p]
  /\ stage' = "idle"
  /\ UNCHANGED <<durable, proposal, effects, requests, gatewayCrashes>>

\* the VM runs a frame in another thread: proposals made before are stale
ExecuteVM ==
  /\ stage # "none"
  /\ resident.generation < MaxGeneration
  /\ resident' = [resident EXCEPT !.generation = @ + 1]
  /\ UNCHANGED <<policy, durable, stage, proposal, effects, requests,
                 gatewayCrashes>>

\* a checkpoint that is not one of the gateway's own commits what is resident
CommitResident ==
  /\ stage # "none"
  /\ durable' = resident
  /\ UNCHANGED <<policy, resident, stage, proposal, effects, requests,
                 gatewayCrashes>>

GatewayCrash ==
  /\ gatewayCrashes < MaxGatewayCrashes
  /\ stage # "none"
  /\ gatewayCrashes' = gatewayCrashes + 1
  /\ resident' = durable
  /\ policy' = NoPolicy
  /\ stage' = "none"
  /\ UNCHANGED <<durable, proposal, effects, requests>>

-----------------------------------------------------------------------------
(* execute().                                                               *)

Keep == UNCHANGED <<policy, requests, gatewayCrashes>>

Go(from, to) == stage = from /\ stage' = to

\* propose(): bound to the generation of this moment
Propose(a) ==
  /\ Go("idle", "proposed")
  /\ requests < MaxRequests
  /\ requests' = requests + 1
  /\ proposal' = [action |-> a, generation |-> resident.generation,
                  policy |-> policy]
  /\ UNCHANGED <<policy, resident, durable, effects, gatewayCrashes>>

\* authorize(): a stale proposal raises, a denial raises, both before anything
Authorize(answer) ==
  /\ Go("proposed", IF /\ proposal.generation = resident.generation
                       /\ LocallyAllowed(proposal.action)
                       /\ ExternallyAllowed(answer)
                    THEN "allowed" ELSE "idle")
  /\ Keep /\ UNCHANGED <<resident, durable, proposal, effects>>

\* a stored result is returned without running the tool
ReturnStored ==
  /\ Go("allowed", "idle")
  /\ proposal \in resident.results
  /\ Keep /\ UNCHANGED <<resident, durable, proposal, effects>>

\* an intent without a result: AmbiguousToolOutcomeError; no handler: refused
RefuseToRun ==
  /\ Go("allowed", "idle")
  /\ proposal \notin resident.results
  /\ proposal \in resident.intents \/ proposal.action.tool \notin Registered
  /\ Keep /\ UNCHANGED <<resident, durable, proposal, effects>>

StoreIntent ==
  /\ Go("allowed", IF NeedsBarrier(proposal.action) THEN "intended" ELSE "ready")
  /\ proposal \notin resident.results \cup resident.intents
  /\ proposal.action.tool \in Registered
  /\ resident' = [resident EXCEPT !.intents = @ \cup {proposal}]
  /\ Keep /\ UNCHANGED <<durable, proposal, effects>>

\* Mutant: the intent is not written before the handler runs
IntentUnwritten ==
  /\ Go("intended", "ready")
  /\ Keep /\ UNCHANGED <<resident, durable, proposal, effects>>

\* session.checkpoint(barrier=True) before the handler
WriteIntent ==
  /\ Go("intended", "ready")
  /\ durable' = resident
  /\ Keep /\ UNCHANGED <<resident, proposal, effects>>

RunHandler(ok) ==
  /\ Go("ready", IF ok THEN "ran" ELSE "raised")
  /\ effects' = [effects EXCEPT ![proposal] = @ + 1]
  /\ Keep /\ UNCHANGED <<resident, durable, proposal>>

(* The handler raised: the intent becomes ambiguous, is checkpointed, and   *)
(* ToolExecutionError reaches the caller.                                   *)
RecordFailure ==
  /\ Go("raised", "idle")
  /\ durable' = IF NeedsBarrier(proposal.action) THEN resident ELSE durable
  /\ Keep /\ UNCHANGED <<resident, proposal, effects>>

\* Mutant: the intent is dropped before the result is there
DropIntentFirst ==
  /\ Go("ran", "stored")
  /\ resident' = [resident EXCEPT !.intents = @ \ {proposal}]
  /\ Keep /\ UNCHANGED <<durable, proposal, effects>>

\* the result is stored first ...
StoreResult ==
  /\ Go("ran", "stored")
  /\ resident' = [resident EXCEPT !.results = @ \cup {proposal}]
  /\ Keep /\ UNCHANGED <<durable, proposal, effects>>

\* ... the intent deleted next ...
DeleteIntent ==
  /\ Go("stored", "deleted")
  /\ proposal \in resident.intents
  /\ resident' = [resident EXCEPT !.intents = @ \ {proposal}]
  /\ Keep /\ UNCHANGED <<durable, proposal, effects>>

\* ... and the two checkpointed together before the result is returned
WriteResult ==
  /\ Go("deleted", "idle")
  /\ durable' = IF NeedsBarrier(proposal.action) THEN resident ELSE durable
  /\ Keep /\ UNCHANGED <<resident, proposal, effects>>

(* A quota or a checkpoint error at any of these points is raised: before   *)
(* the handler as it is, after it as AmbiguousToolOutcomeError.             *)
StepFails ==
  /\ stage \in {"allowed", "intended", "raised", "ran", "stored", "deleted"}
  /\ stage' = "idle"
  /\ Keep /\ UNCHANGED <<resident, durable, proposal, effects>>

GatewayNext ==
  \/ \E p \in Policies : OpenGateway(p)
  \/ ExecuteVM \/ CommitResident \/ GatewayCrash
  \/ \E a \in Actions : Propose(a)
  \/ \E answer \in Answers : Authorize(answer)
  \/ ReturnStored \/ RefuseToRun \/ StoreIntent \/ WriteIntent
  \/ \E ok \in BOOLEAN : RunHandler(ok)
  \/ RecordFailure \/ StoreResult \/ DeleteIntent \/ WriteResult
  \/ StepFails

GatewaySpec == GatewayInit /\ [][GatewayNext]_gatewayVars

-----------------------------------------------------------------------------
(* Properties.                                                              *)

\* the policy of the proposal asks for a barrier before its tool runs
Guarded(p) == \A r \in p.policy : r.tool = p.action.tool => r.barrier

(* The handler of a tool whose rule asks for a barrier runs at most once    *)
(* for a proposal, whatever is retried, fails or crashes (execute()'s       *)
(* intent and result records).                                              *)
GuardedRunsOnce == \A p \in Proposals : Guarded(p) => effects[p] <= 1

(* An effect is never forgotten: from before the handler of such a tool     *)
(* runs there is an intent or a result for it on disk.                      *)
EffectIsOnRecord ==
  \A p \in Proposals : Guarded(p) /\ effects[p] > 0 =>
    p \in durable.intents \cup durable.results
=============================================================================
