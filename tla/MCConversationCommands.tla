----------------------- MODULE MCConversationCommands -----------------------
(* Instances of ConversationCommands for TLC.                              *)
EXTENDS ConversationCommands, TLC

\* Operators are interchangeable.
AgentSymmetry == Permutations(Agents)
=============================================================================
