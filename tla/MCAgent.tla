-------------------------------- MODULE MCAgent --------------------------------
(* Small instances for TLC of the four modules about the Agent's own stores:    *)
(* conversations, event stream, risk authorization, workflow executor.  They    *)
(* share no state, so that a behaviour is one of one of them: `part` says of    *)
(* which, and the others stay as they were at the start.                        *)
EXTENDS AgentConversation, AgentEvents, RiskAuthorization, WorkflowExecutor, TLC

VARIABLE part

agentVars == <<part, vars, streamVars, riskVars, workflowVars>>

MCSymmetry == Permutations(Requests)

\* A step that needs the source, one that needs the first, and one that needs both.
MCDependsOn == [s \in 1..3 |-> CASE s = 1 -> {} [] s = 2 -> {1} [] s = 3 -> {1, 2}]

AgentInit ==
  /\ part \in {"conversation", "events", "risk", "workflow"}
  /\ Init /\ StreamInit /\ RiskInit /\ WorkflowInit

AgentNext ==
  /\ UNCHANGED part
  /\ \/ /\ part = "conversation"
        /\ Next
        /\ UNCHANGED <<streamVars, riskVars, workflowVars>>
     \/ /\ part = "events"
        /\ StreamNext
        /\ UNCHANGED <<vars, riskVars, workflowVars>>
     \/ /\ part = "risk"
        /\ RiskNext
        /\ UNCHANGED <<vars, streamVars, workflowVars>>
     \/ /\ part = "workflow"
        /\ WorkflowNext
        /\ UNCHANGED <<vars, streamVars, riskVars>>

AgentSpec == AgentInit /\ [][AgentNext]_agentVars

=============================================================================
