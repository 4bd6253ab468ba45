------------------------ MODULE MCConversationSystem ------------------------
(* Instances of ConversationSystem for TLC.                                *)
EXTENDS ConversationSystem, TLC

\* Operators are interchangeable.
AgentSymmetry == Permutations(Agents)
=============================================================================
