-------------------------- MODULE ToolGatewayProofs --------------------------
(***************************************************************************)
(* A guarded tool runs at most once per proposal, and what ran is on disk,  *)
(* for every set of actions, policies and tools, any number of requests,    *)
(* generations and crashes.                                                 *)
(***************************************************************************)
EXTENDS ToolGateway, TLAPS

Memories == [generation : 0..MaxGeneration, policy : Policies \cup {NoPolicy},
             intents : SUBSET Proposals, results : SUBSET Proposals]

Recorded(m) == m.intents \cup m.results

GatewayTypes ==
  /\ policy \in Policies \cup {NoPolicy}
  /\ stage # "none" => policy \in Policies
  /\ resident \in Memories /\ durable \in Memories
  /\ proposal \in Proposals
  /\ effects \in [Proposals -> Nat]

\* Whatever ran is on record in the session and on disk: a crash that puts the
\* first back to the second forgets nothing, and neither does a commit.
EffectsRecorded ==
  \A p \in Proposals : Guarded(p) /\ effects[p] > 0 =>
    p \in Recorded(resident) /\ p \in Recorded(durable)

\* A proposal under way was made under the policy in force, and once it is
\* allowed there is a rule for its tool.
ProposalBound ==
  /\ stage \notin {"none", "idle"} => proposal.policy = policy
  /\ stage = "allowed" => \E r \in policy : r.tool = proposal.action.tool

\* Between the intent and the handler the proposal has not run, and its intent
\* is in the session; right before the handler it is on disk as well.
IntentFirst ==
  Guarded(proposal) =>
    /\ stage \in {"intended", "ready"} => effects[proposal] = 0 /\ proposal \in resident.intents
    /\ stage = "ready" => proposal \in durable.intents

\* An intent is only deleted when the result has taken its place.
ResultFirst == stage = "stored" => proposal \in resident.results

GatewayInv ==
  /\ GatewayTypes /\ EffectsRecorded /\ ProposalBound /\ IntentFirst /\ ResultFirst
  /\ GuardedRunsOnce

\* There is something to propose: the initial proposal is one of them.
LEMMA ProposalsExist == (CHOOSE p \in Proposals : TRUE) \in Proposals
<1>1. PICK a \in Actions : TRUE
  BY GatewayAssumption
<1>2. PICK q \in Policies : TRUE
  BY GatewayAssumption
<1>3. 0 \in 0..MaxGeneration
  BY GatewayAssumption
<1>4. [action |-> a, generation |-> 0, policy |-> q] \in Proposals
  BY <1>1, <1>2, <1>3 DEF Proposals
<1> QED
  BY <1>4

\* A new gateway satisfies the invariant.
LEMMA GatewayStarts == GatewayInit => GatewayInv
<1> SUFFICES ASSUME GatewayInit PROVE GatewayInv
  OBVIOUS
<1>1. GatewayTypes
  <2>1. EmptyMemory \in Memories
    BY GatewayAssumption DEF EmptyMemory, Memories, NoPolicy
  <2> QED
    BY <2>1, ProposalsExist DEF GatewayInit, GatewayTypes
<1>2. EffectsRecorded /\ GuardedRunsOnce
  BY DEF GatewayInit, EffectsRecorded, GuardedRunsOnce
<1>3. ProposalBound /\ IntentFirst /\ ResultFirst
  BY DEF GatewayInit, ProposalBound, IntentFirst, ResultFirst
<1> QED
  BY <1>1, <1>2, <1>3 DEF GatewayInv

\* A guarded proposal that is allowed needs the barrier: the policy in force is
\* the one it was made under, which has a rule for its tool.
LEMMA GuardedNeedsBarrier ==
  ASSUME ProposalBound, stage = "allowed", Guarded(proposal)
  PROVE  NeedsBarrier(proposal.action)
<1>1. PICK r \in policy : r.tool = proposal.action.tool
  BY DEF ProposalBound
<1>2. r.barrier
  BY <1>1 DEF ProposalBound, Guarded
<1> QED
  BY <1>1, <1>2 DEF NeedsBarrier, Rules

\* The steps that leave what ran and what is recorded alone, or only move what
\* the session holds to disk.
LEMMA GatewayKeeps ==
  ASSUME GatewayInv, effects' = effects, resident' = resident,
         durable' \in {durable, resident}
  PROVE  EffectsRecorded' /\ GuardedRunsOnce'
<1>1. EffectsRecorded'
  BY DEF GatewayInv, EffectsRecorded, Guarded
<1>2. GuardedRunsOnce'
  BY DEF GatewayInv, GuardedRunsOnce, Guarded
<1> QED
  BY <1>1, <1>2

\* Every step of the gateway, of the VM and of the checkpoints, and a crash,
\* keeps the invariant.
LEMMA GatewaySteps == GatewayInv /\ [GatewayNext]_gatewayVars => GatewayInv'
<1> SUFFICES ASSUME GatewayInv, [GatewayNext]_gatewayVars PROVE GatewayInv'
  OBVIOUS
<1> USE GatewayAssumption DEF GatewayInv
<1>1. ASSUME NEW q \in Policies, OpenGateway(q) PROVE GatewayInv'
  <2>1. GatewayTypes'
    BY <1>1 DEF OpenGateway, GatewayTypes, Memories
  <2>2. Recorded(resident)' = Recorded(resident)
    BY <1>1 DEF OpenGateway, GatewayTypes, Memories, Recorded
  <2>3. EffectsRecorded' /\ GuardedRunsOnce'
    BY <1>1, <2>2 DEF OpenGateway, EffectsRecorded, GuardedRunsOnce, Guarded, Recorded
  <2>4. ProposalBound' /\ IntentFirst' /\ ResultFirst'
    BY <1>1 DEF OpenGateway, ProposalBound, IntentFirst, ResultFirst
  <2> QED
    BY <2>1, <2>3, <2>4
<1>2. CASE ExecuteVM
  <2>1. GatewayTypes'
    BY <1>2 DEF ExecuteVM, GatewayTypes, Memories
  <2>2. resident'.intents = resident.intents /\ resident'.results = resident.results
    BY <1>2 DEF ExecuteVM, GatewayTypes, Memories
  <2>3. EffectsRecorded' /\ GuardedRunsOnce'
    BY <1>2, <2>2 DEF ExecuteVM, EffectsRecorded, GuardedRunsOnce, Guarded, Recorded
  <2>4. ProposalBound' /\ IntentFirst' /\ ResultFirst'
    BY <1>2, <2>2 DEF ExecuteVM, ProposalBound, IntentFirst, ResultFirst, Guarded
  <2> QED
    BY <2>1, <2>3, <2>4
<1>3. CASE CommitResident
  <2>1. GatewayTypes'
    BY <1>3 DEF CommitResident, GatewayTypes
  <2>2. EffectsRecorded' /\ GuardedRunsOnce'
    BY <1>3, GatewayKeeps DEF CommitResident
  <2>3. ProposalBound' /\ IntentFirst' /\ ResultFirst'
    BY <1>3 DEF CommitResident, ProposalBound, IntentFirst, ResultFirst, Guarded
  <2> QED
    BY <2>1, <2>2, <2>3
<1>4. CASE GatewayCrash
  <2>1. GatewayTypes'
    BY <1>4 DEF GatewayCrash, GatewayTypes
  <2>2. EffectsRecorded' /\ GuardedRunsOnce'
    BY <1>4 DEF GatewayCrash, EffectsRecorded, GuardedRunsOnce, Guarded
  <2>3. ProposalBound' /\ IntentFirst' /\ ResultFirst'
    BY <1>4 DEF GatewayCrash, ProposalBound, IntentFirst, ResultFirst
  <2> QED
    BY <2>1, <2>2, <2>3
<1>5. ASSUME NEW a \in Actions, Propose(a) PROVE GatewayInv'
  <2>1. proposal' \in Proposals /\ proposal'.policy = policy
    <3>1. stage = "idle" /\ policy \in Policies /\ resident.generation \in 0..MaxGeneration
      BY <1>5 DEF Propose, Go, GatewayTypes, Memories
    <3> QED
      BY <1>5, <3>1 DEF Propose, Proposals
  <2>2. GatewayTypes'
    BY <1>5, <2>1 DEF Propose, Go, GatewayTypes
  <2>3. EffectsRecorded' /\ GuardedRunsOnce'
    BY <1>5, GatewayKeeps DEF Propose
  <2>4. ProposalBound' /\ IntentFirst' /\ ResultFirst'
    BY <1>5, <2>1 DEF Propose, Go, ProposalBound, IntentFirst, ResultFirst
  <2> QED
    BY <2>2, <2>3, <2>4
<1>6. ASSUME NEW answer \in Answers, Authorize(answer) PROVE GatewayInv'
  <2>1. GatewayTypes'
    BY <1>6 DEF Authorize, Go, Keep, GatewayTypes
  <2>2. EffectsRecorded' /\ GuardedRunsOnce'
    BY <1>6, GatewayKeeps DEF Authorize, Keep
  <2>3. ProposalBound'
    BY <1>6 DEF Authorize, Go, Keep, ProposalBound, LocallyAllowed, Rules
  <2>4. IntentFirst' /\ ResultFirst'
    BY <1>6 DEF Authorize, Go, Keep, IntentFirst, ResultFirst
  <2> QED
    BY <2>1, <2>2, <2>3, <2>4
<1>7. CASE ReturnStored \/ RefuseToRun \/ StepFails
  <2>1. stage' = "idle" /\ stage # "none"
        /\ UNCHANGED <<policy, resident, durable, proposal, effects>>
    BY <1>7 DEF ReturnStored, RefuseToRun, StepFails, Go, Keep
  <2>2. GatewayTypes'
    BY <2>1 DEF GatewayTypes
  <2>3. EffectsRecorded' /\ GuardedRunsOnce'
    BY <2>1, GatewayKeeps
  <2>4. ProposalBound' /\ IntentFirst' /\ ResultFirst'
    BY <2>1 DEF ProposalBound, IntentFirst, ResultFirst
  <2> QED
    BY <2>2, <2>3, <2>4
<1>8. CASE StoreIntent
  <2>1. GatewayTypes'
    BY <1>8 DEF StoreIntent, Go, Keep, GatewayTypes, Memories
  <2>2. /\ resident'.intents = resident.intents \cup {proposal}
        /\ resident'.results = resident.results
    BY <1>8 DEF StoreIntent, GatewayTypes, Memories
  <2>3. EffectsRecorded' /\ GuardedRunsOnce'
    BY <1>8, <2>2 DEF StoreIntent, Keep, EffectsRecorded, GuardedRunsOnce, Guarded, Recorded
  <2>4. ProposalBound' /\ ResultFirst'
    BY <1>8 DEF StoreIntent, Go, Keep, ProposalBound, ResultFirst
  <2>5. IntentFirst'
    <3>1. Guarded(proposal) => stage' = "intended"
      BY <1>8, GuardedNeedsBarrier DEF StoreIntent, Go
    <3>2. Guarded(proposal) => effects[proposal] = 0
      BY <1>8 DEF StoreIntent, EffectsRecorded, Recorded, GatewayTypes
    <3> QED
      BY <1>8, <2>2, <3>1, <3>2 DEF StoreIntent, Keep, IntentFirst, Guarded
  <2> QED
    BY <2>1, <2>3, <2>4, <2>5
<1>9. CASE WriteIntent
  <2>1. GatewayTypes'
    BY <1>9 DEF WriteIntent, Go, Keep, GatewayTypes
  <2>2. EffectsRecorded' /\ GuardedRunsOnce'
    BY <1>9, GatewayKeeps DEF WriteIntent
  <2>3. ProposalBound' /\ ResultFirst'
    BY <1>9 DEF WriteIntent, Go, Keep, ProposalBound, ResultFirst
  <2>4. IntentFirst'
    BY <1>9 DEF WriteIntent, Go, Keep, IntentFirst, Guarded
  <2> QED
    BY <2>1, <2>2, <2>3, <2>4
<1>10. ASSUME NEW ok \in BOOLEAN, RunHandler(ok) PROVE GatewayInv'
  <2>1. effects' \in [Proposals -> Nat] /\ effects'[proposal] = effects[proposal] + 1
        /\ \A p \in Proposals : p # proposal => effects'[p] = effects[p]
    BY <1>10 DEF RunHandler, GatewayTypes
  <2>2. GatewayTypes'
    BY <1>10, <2>1 DEF RunHandler, Go, Keep, GatewayTypes
  <2>3. Guarded(proposal) => /\ effects[proposal] = 0
                             /\ proposal \in resident.intents /\ proposal \in durable.intents
    BY <1>10 DEF RunHandler, Go, IntentFirst
  <2>4. EffectsRecorded'
    BY <1>10, <2>1, <2>3 DEF RunHandler, EffectsRecorded, Guarded, Recorded
  <2>5. GuardedRunsOnce'
    BY <2>1, <2>3 DEF GuardedRunsOnce, Guarded
  <2>6. ProposalBound' /\ IntentFirst' /\ ResultFirst'
    BY <1>10 DEF RunHandler, Go, Keep, ProposalBound, IntentFirst, ResultFirst
  <2> QED
    BY <2>2, <2>4, <2>5, <2>6
<1>11. CASE RecordFailure \/ WriteResult
  <2>1. /\ stage' = "idle" /\ stage # "none"
        /\ UNCHANGED <<policy, resident, proposal, effects>>
        /\ durable' \in {durable, resident}
    BY <1>11 DEF RecordFailure, WriteResult, Go, Keep
  <2>2. GatewayTypes'
    BY <2>1 DEF GatewayTypes
  <2>3. EffectsRecorded' /\ GuardedRunsOnce'
    BY <2>1, GatewayKeeps
  <2>4. ProposalBound' /\ IntentFirst' /\ ResultFirst'
    BY <2>1 DEF ProposalBound, IntentFirst, ResultFirst
  <2> QED
    BY <2>2, <2>3, <2>4
<1>12. CASE StoreResult
  <2>1. GatewayTypes'
    BY <1>12 DEF StoreResult, Go, Keep, GatewayTypes, Memories
  <2>2. /\ resident'.intents = resident.intents
        /\ resident'.results = resident.results \cup {proposal}
    BY <1>12 DEF StoreResult, GatewayTypes, Memories
  <2>3. EffectsRecorded' /\ GuardedRunsOnce'
    BY <1>12, <2>2 DEF StoreResult, Keep, EffectsRecorded, GuardedRunsOnce, Guarded, Recorded
  <2>4. ProposalBound' /\ IntentFirst' /\ ResultFirst'
    BY <1>12, <2>2 DEF StoreResult, Go, Keep, ProposalBound, IntentFirst, ResultFirst
  <2> QED
    BY <2>1, <2>3, <2>4
<1>13. CASE DeleteIntent
  <2>1. GatewayTypes'
    BY <1>13 DEF DeleteIntent, Go, Keep, GatewayTypes, Memories
  <2>2. /\ resident'.intents = resident.intents \ {proposal}
        /\ resident'.results = resident.results
        /\ proposal \in resident.results
    BY <1>13 DEF DeleteIntent, Go, GatewayTypes, Memories, ResultFirst
  <2>3. EffectsRecorded' /\ GuardedRunsOnce'
    BY <1>13, <2>2 DEF DeleteIntent, Keep, EffectsRecorded, GuardedRunsOnce, Guarded, Recorded
  <2>4. ProposalBound' /\ IntentFirst' /\ ResultFirst'
    BY <1>13 DEF DeleteIntent, Go, Keep, ProposalBound, IntentFirst, ResultFirst
  <2> QED
    BY <2>1, <2>3, <2>4
<1>14. CASE UNCHANGED gatewayVars
  BY <1>14 DEF gatewayVars, GatewayTypes, EffectsRecorded, ProposalBound, IntentFirst,
               ResultFirst, GuardedRunsOnce, Guarded
<1> QED
  BY <1>1, <1>2, <1>3, <1>4, <1>5, <1>6, <1>7, <1>8, <1>9, <1>10, <1>11, <1>12, <1>13, <1>14
     DEF GatewayNext

\* The handler of a tool whose rule asks for a barrier runs at most once for a
\* proposal (execute()'s intent and result records), whatever crashes.
THEOREM ToolsRunOnce == GatewaySpec => []GuardedRunsOnce
<1>1. GatewayInv => GuardedRunsOnce
  BY DEF GatewayInv
<1> QED
  BY GatewayStarts, GatewaySteps, <1>1, PTL DEF GatewaySpec

\* Once such a handler has run, an intent or a result for it is on disk.
THEOREM EffectsAreOnRecord == GatewaySpec => []EffectIsOnRecord
<1>1. GatewayInv => EffectIsOnRecord
  BY DEF GatewayInv, EffectsRecorded, EffectIsOnRecord, Recorded
<1> QED
  BY GatewayStarts, GatewaySteps, <1>1, PTL DEF GatewaySpec
=============================================================================
