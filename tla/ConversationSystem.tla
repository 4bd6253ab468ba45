------------------------- MODULE ConversationSystem -------------------------
(***************************************************************************)
(* The conversation row under every writer of the platform: the command    *)
(* service of ConversationCommands, and the writers that do not go through *)
(* it:                                                                     *)
(*  - the five-minute sweep of api/src/server.ts, which closes idle        *)
(*    conversations in one UPDATE and returns idle handoff requests to the *)
(*    bot through cancelHandoff, on ids it selected earlier;               *)
(*  - POST /chats/bulk-close (routes/session-management.routes.ts);        *)
(*  - releaseAgentSessions (utils/releaseAgentSessions.ts), when an        *)
(*    operator is deactivated or deleted;                                  *)
(*  - inbound customer messages, which move last_activity_at, and the      *)
(*    guardrails, which pause the assistant.                               *)
(***************************************************************************)
EXTENDS ConversationCommands

CONSTANTS
  StaleSession,  \* ticks without activity after which a session is closed
  StaleHandoff   \* ticks without activity after which a request times out

VARIABLES
  flagged,  \* a guardrail paused the assistant (ai_auto_reply_enabled = false)
  picked,   \* the sweep has selected this conversation as a stale request
  removal   \* the removal of an operator in progress: a record, or NULL

sysVars == <<flagged, picked, removal>>
allVars == <<conv, commands, replies, echoes, outbox, tx, clock, flagged, picked, removal>>

ASSUME StaleAssumption == StaleSession \in Nat /\ StaleHandoff \in Nat

SysInit == Init /\ flagged = FALSE /\ picked = FALSE /\ removal = NULL

Idle(v, ticks) == v.lastActivity < clock - ticks

\* An inbound message moves last_activity_at, by session id: the row may have
\* been closed since the session was looked up.
CustomerMessage ==
  /\ conv' = [conv EXCEPT !.lastActivity = clock]
  /\ UNCHANGED <<commands, replies, echoes, outbox, tx, clock, flagged, picked, removal>>

\* A guardrail block pauses the assistant; an operator resumes it.
GuardrailPause ==
  /\ ~flagged
  /\ flagged' = TRUE
  /\ UNCHANGED <<vars, picked, removal>>

GuardrailResume ==
  /\ flagged
  /\ flagged' = FALSE
  /\ UNCHANGED <<vars, picked, removal>>

\* Faulty variant: the raw UPDATE forgets the version.
RawCloseKeepsVersion(v) == [v EXCEPT !.ownership = "closed", !.status = "closed"]

\* Faulty variant: the raw UPDATE forgets the legacy status.
RawCloseKeepsStatus(v) == [v EXCEPT !.ownership = "closed", !.version = @ + 1]

\* The raw UPDATE of both bulk writers: ownership, status and version only.
RawClose(v) ==
  [v EXCEPT !.ownership = "closed", !.status = "closed", !.version = @ + 1]

\* autoCloseStaleSessions, first half: idle sessions the bot serves, except
\* the ones a guardrail flagged for review.
CloseStaleSession ==
  /\ conv.status \in {"bot", "waiting"}
  /\ Idle(conv, StaleSession)
  /\ ~flagged
  /\ conv' = RawClose(conv)
  /\ UNCHANGED <<commands, replies, echoes, outbox, tx, clock, flagged, picked, removal>>

\* Second half: the candidate is selected without a lock, and cancelled by a
\* transaction of its own.
SelectStaleHandoff ==
  /\ ~picked
  /\ conv.ownership = "handoff_requested"
  /\ Idle(conv, StaleHandoff)
  /\ picked' = TRUE
  /\ UNCHANGED <<vars, flagged, removal>>

\* Faulty variant: only a row already back with the bot is touched.
CancelOnlyDangling ==
  /\ picked
  /\ picked' = FALSE
  /\ conv' = IF conv.ownership = "bot_owned" THEN CancelledRow(conv, "system") ELSE conv
  /\ UNCHANGED <<commands, replies, echoes, outbox, tx, clock, flagged, removal>>

CancelStaleHandoff ==
  /\ picked
  /\ picked' = FALSE
  /\ conv' = IF conv.ownership \in {"bot_owned", "handoff_requested"}
               THEN CancelledRow(conv, "system") ELSE conv
  /\ UNCHANGED <<commands, replies, echoes, outbox, tx, clock, flagged, removal>>

\* bulk-close by ids: whatever the state of the conversation.
BulkClose ==
  /\ conv.status # "closed"
  /\ conv' = RawClose(conv)
  /\ UNCHANGED <<commands, replies, echoes, outbox, tx, clock, flagged, picked, removal>>

\* Faulty variant: the removal does not ask for the status of the session.
HeldByAnyStatus(v, agent) == v.assigned = agent

\* A conversation an operator's removal re-queues.
HeldBy(v, agent) == v.assigned = agent /\ v.status \in {"active", "handoff"}

\* Faulty variant: the human-control columns survive the removal.
UnassignOnly(v) ==
  [v EXCEPT !.assigned = NULL, !.status = "handoff",
            !.ownership = "handoff_requested", !.version = @ + 1]

\* Step 2 of releaseAgentSessions: the session waits for an operator again.
Requeue(v) ==
  ClearHumanControl([v EXCEPT !.assigned = NULL, !.status = "handoff",
                              !.ownership = "handoff_requested", !.version = @ + 1])

\* Step 3: the operator's accepted handoffs return to the queue.
ReturnHandoffs(v, agent) ==
  SetHandoff(v, {i \in DOMAIN v.handoffs :
                   v.handoffs[i].status = "accepted" /\ v.handoffs[i].agent = agent},
             "requested", NULL)

\* Step 1 reads the affected sessions; the operator may hold others too.
RemovalSelect(agent) ==
  /\ removal = NULL
  /\ \E others \in BOOLEAN :
       removal' = [agent |-> agent, step |-> "update",
                   affected |-> others \/ HeldBy(conv, agent)]
  /\ UNCHANGED <<vars, flagged, picked>>

\* The UPDATE matches this row: its lock is kept to the commit, so steps 2 and
\* 3 are one.
RemovalUpdateHeld ==
  /\ removal # NULL /\ removal.step = "update"
  /\ removal.affected /\ HeldBy(conv, removal.agent)
  /\ conv' = ReturnHandoffs(Requeue(conv), removal.agent)
  /\ removal' = NULL
  /\ UNCHANGED <<commands, replies, echoes, outbox, tx, clock, flagged, picked>>

\* It does not match, or is skipped: this conversation stays unlocked.
RemovalUpdateMisses ==
  /\ removal # NULL /\ removal.step = "update"
  /\ ~(removal.affected /\ HeldBy(conv, removal.agent))
  /\ removal' = [removal EXCEPT !.step = "return"]
  /\ UNCHANGED <<vars, flagged, picked>>

RemovalReturnHandoffs ==
  /\ removal # NULL /\ removal.step = "return"
  /\ conv' = ReturnHandoffs(conv, removal.agent)
  /\ removal' = NULL
  /\ UNCHANGED <<commands, replies, echoes, outbox, tx, clock, flagged, picked>>

StaleSweep == CloseStaleSession \/ SelectStaleHandoff \/ CancelStaleHandoff

AgentRemoval ==
  \/ \E a \in Agents : RemovalSelect(a)
  \/ RemovalUpdateHeld
  \/ RemovalUpdateMisses
  \/ RemovalReturnHandoffs

\* The bound on versions holds back every writer the environment drives; the
\* sweeps run at any version.
SysNext ==
  \/ Next /\ UNCHANGED sysVars
  \/ conv.version < MaxVersion /\ (BulkClose \/ AgentRemoval)
  \/ CustomerMessage
  \/ GuardrailPause
  \/ GuardrailResume
  \/ StaleSweep

SysSpec == SysInit /\ [][SysNext]_allVars

\* The sweeps are timers of every api process.
SysFairSpec ==
  /\ SysSpec
  /\ WF_allVars(SweepTimedControl /\ UNCHANGED sysVars)
  /\ WF_allVars(CloseStaleSession)
  /\ WF_allVars(SelectStaleHandoff)
  /\ WF_allVars(CancelStaleHandoff)

-----------------------------------------------------------------------------
(* Properties.                                                             *)

\* Whoever writes the row, with or without the command service: a conversation
\* in the queue or with the bot has neither an operator nor a human-control
\* policy, and one a human owns has a policy.  So neither expiry nor a second
\* operator can act on a control that is over.
ControlEndsWithOwnership ==
  /\ conv.ownership \in {"bot_owned", "handoff_requested"}
       => conv.assigned = NULL /\ conv.mode = NULL /\ conv.until = NULL
  /\ conv.ownership = "human_owned" => conv.mode # NULL

\* The version fence of ConversationCommands under every writer.
SysVersionFencesOwner ==
  [][ \/ conv'.ownership # conv.ownership
      \/ conv.assigned # NULL /\ conv'.assigned # conv.assigned
      => conv'.version > conv.version ]_allVars

\* No writer reopens a closed conversation: only a late message's timestamp and
\* the handoff rows of a removed operator still move.
ClosedRowIsFinal ==
  [][ conv.ownership = "closed"
      => [conv' EXCEPT !.handoffs = conv.handoffs,
                       !.lastActivity = conv.lastActivity] = conv ]_allVars

\* A request nobody answers leaves the queue, unless the customer writes again.
StaleRequestEnds ==
  (conv.ownership = "handoff_requested" /\ Idle(conv, StaleHandoff))
    ~> ~(conv.ownership = "handoff_requested" /\ Idle(conv, StaleHandoff))

\* What closeConversation's comment promises and the raw closes do not keep:
\* "Requested handoffs are rejected (conversation_closed); accepted ones
\* completed. [...] live human-control is cleared."
CloseSettlesEverything ==
  conv.ownership = "closed" => Open(conv) = {} /\ conv.mode = NULL

\* What the sweep's comment promises ("Return stale UNACCEPTED handoffs to bot")
\* and a customer who writes between its SELECT and its cancel does not get: a
\* request times out only when its conversation is stale.
OnlyStaleRequestsTimeOut ==
  [][ picked /\ ~picked' /\ conv.ownership = "handoff_requested"
      => Idle(conv, StaleHandoff) ]_allVars
=============================================================================
