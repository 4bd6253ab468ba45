----------------------------- MODULE Ownership ------------------------------
(***************************************************************************)
(* Who owns a conversation, as the rest of the system sees it: the bot,    *)
(* the handoff queue, a human (one operator, or nobody in particular after *)
(* a reply from the page inbox), or nobody any more.  The version is what  *)
(* a run of the AI compares before it sends: it counts the ownerships the  *)
(* conversation has had.                                                   *)
(*                                                                         *)
(* This is what the command service promises.  ConversationCommands, with  *)
(* its transactions, keys, deadlines and handoff rows, implements it.      *)
(***************************************************************************)
EXTENDS Naturals

CONSTANTS Agents, NULL

VARIABLES owner, holder, version

ownershipVars == <<owner, holder, version>>

Init == owner = "bot_owned" /\ holder = NULL /\ version = 0

\* A new ownership begins.
Begins(own, h) == owner' = own /\ holder' = h /\ version' = version + 1

RequestHandoff == owner = "bot_owned" /\ Begins("handoff_requested", NULL)

\* An operator answers the queue, or takes over from the bot.
Claim(a) == owner \in {"bot_owned", "handoff_requested"} /\ Begins("human_owned", a)

\* A human answered from the page inbox: nobody is the operator.
Pause == owner \in {"bot_owned", "handoff_requested"} /\ Begins("human_owned", NULL)

\* An operator joins a conversation that nobody holds; the ownership goes on.
Join(a) ==
  /\ owner = "human_owned" /\ holder = NULL
  /\ holder' = a
  /\ UNCHANGED <<owner, version>>

\* A control that was over is released and claimed again at once, and not by
\* another operator.
Reclaim(a) ==
  /\ owner = "human_owned" /\ holder \in {a, NULL}
  /\ holder' = a /\ version' = version + 2
  /\ UNCHANGED owner

\* Only a transfer takes a conversation away from its operator.
Transfer(a) == owner # "closed" /\ Begins("human_owned", a)

Return == owner \in {"handoff_requested", "human_owned"} /\ Begins("bot_owned", NULL)

Close == owner # "closed" /\ Begins("closed", NULL)

Next ==
  \/ RequestHandoff \/ Pause \/ Return \/ Close
  \/ \E a \in Agents : Claim(a) \/ Join(a) \/ Reclaim(a) \/ Transfer(a)

Spec == Init /\ [][Next]_ownershipVars

=============================================================================
