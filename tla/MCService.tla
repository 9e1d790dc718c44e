------------------------------ MODULE MCService ------------------------------
(* The services around the queue, side by side: a behaviour follows one of    *)
(* them.  The artifact service is followed twice, from the uploads to the     *)
(* queued task and from the task to the worker.                               *)
EXTENDS StateStore, Karma, SessionServer, TrustService, ArtifactService, TLC

CONSTANTS n1, n2   \* nodes with karma

VARIABLE part  \* the component this behaviour follows

serviceVars == <<part, storeVars, karmaVars, sessionVars, trustVars, artifactVars>>

\* one node near its election threshold, one just above it
MCXP == n1 :> 99995 @@ n2 :> 100040
MCEvents == {"valid_contribution", "signature_forgery", "revocation_violation"}

\* an artifact of two chunks; clients send either of them, anywhere
MCArtifact == <<1, 2>>
MCChunkData == {<<1>>, <<2>>}

StoreRests == StoreStart("update", Missing)

MCInit == /\ KarmaInit /\ SessionInit /\ TrustInit /\ ArtifactInit
          /\ \/ part = "store" /\ StoreInit
             \/ part \in {"karma", "sessions", "trust", "uploads", "serving"} /\ StoreRests

MCNext ==
  \/ /\ part = "store" /\ StoreNext
     /\ UNCHANGED <<part, karmaVars, sessionVars, trustVars, artifactVars>>
  \/ /\ part = "karma" /\ KarmaNext
     /\ UNCHANGED <<part, storeVars, sessionVars, trustVars, artifactVars>>
  \/ /\ part = "sessions" /\ SessionNext
     /\ UNCHANGED <<part, storeVars, karmaVars, trustVars, artifactVars>>
  \/ /\ part = "trust" /\ TrustNext
     /\ UNCHANGED <<part, storeVars, karmaVars, sessionVars, artifactVars>>
  \/ /\ part = "uploads" /\ (UploadNext \/ SubmitBind \/ SubmitQueue \/ ServerCrash)
     /\ UNCHANGED <<part, storeVars, karmaVars, sessionVars, trustVars>>
  \/ /\ part = "serving" /\ (TaskNext \/ WorkerNext)
     /\ UNCHANGED <<part, storeVars, karmaVars, sessionVars, trustVars>>

MCSpec == MCInit /\ [][MCNext]_serviceVars
=============================================================================
