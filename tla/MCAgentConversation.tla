------------------------- MODULE MCAgentConversation -------------------------
(* Small instances of AgentConversation for TLC.                            *)
EXTENDS AgentConversation, TLC

Symmetry == Permutations(Requests)

=============================================================================
