------------------------------- MODULE MCAgent -------------------------------
(***************************************************************************)
(* The resident agent: the session with its checkpoint worker and store,    *)
(* the tool gateway, and the namespaced memory.  The three share no         *)
(* variable, so one run explores them one beside the other.                 *)
(***************************************************************************)
EXTENDS AgentSession, ToolGateway, AgentMemory

VARIABLE part  \* the component this behaviour is about

agentAllVars == <<agentVars, gatewayVars, memoryVars, part>>

Act(t, o, r) == [tool |-> t, operation |-> o, resource |-> r]

Rule(t, o, p, b) == [tool |-> t, operations |-> o, prefixes |-> p, barrier |-> b]

MCActions == {Act("mail", "send", "inbox/a"), Act("clock", "read", "")}
MCPolicies == {{Rule("mail", {"send"}, {"inbox/"}, TRUE), Rule("clock", {"read"}, {}, FALSE)},
               {Rule("mail", {"send"}, {"outbox/"}, TRUE)}}
MCCovers == {<<"inbox/", "inbox/a">>}
MCKeys == {<<"a", 0>>, <<"b", 0>>}
MCMemPolicy ==
  [n \in {"working", "facts"} |->
     IF n = "working" THEN [max_entries |-> 2, max_bytes |-> 4, eviction |-> "fifo"]
     ELSE [max_entries |-> 2, max_bytes |-> 3, eviction |-> "reject"]]

MCInit == /\ part \in {"session", "gateway", "memory"}
          /\ AgentInit /\ GatewayInit /\ MemoryInit

MCNext ==
  /\ UNCHANGED part
  /\ \/ part = "session" /\ AgentNext /\ UNCHANGED <<gatewayVars, memoryVars>>
     \/ part = "gateway" /\ GatewayNext /\ UNCHANGED <<agentVars, memoryVars>>
     \/ part = "memory" /\ MemoryNext /\ UNCHANGED <<agentVars, gatewayVars>>

MCSpec == MCInit /\ [][MCNext]_agentAllVars /\ AgentFairness

MCSpecAnyCrash ==
  /\ MCInit /\ part = "session"
  /\ [][AgentNextAnyCrash /\ UNCHANGED <<gatewayVars, memoryVars, part>>]_agentAllVars
=============================================================================
