------------------------ MODULE ConversationCommands ------------------------
(***************************************************************************)
(* The conversation command service                                        *)
(* (api/src/services/conversation-command.service.ts): the transactions    *)
(* that move one conversation between the bot, the handoff queue and a     *)
(* human operator.                                                         *)
(*                                                                         *)
(* A command opens a database transaction, waits for the row lock of the   *)
(* chat_sessions row and then runs to its commit.  Postgres' now() is the  *)
(* time the transaction began, not the time the lock was granted, so a     *)
(* transaction is modelled by two steps: Begin records now(), the command  *)
(* itself is the step that holds the lock.  Everything behind the row lock *)
(* is one record, conv; the helpers below map one value of it to another,  *)
(* so that a command that releases and claims again in one transaction is  *)
(* their composition.                                                      *)
(*                                                                         *)
(* One conversation is modelled: no command touches the rows of another.   *)
(***************************************************************************)
EXTENDS Integers, Sequences

CONSTANTS
  Agents,      \* operators of the tenant
  Conns,       \* database connections that run client commands
  Keys,        \* idempotency keys clients may send
  Keyed,       \* the commands that carry a key in this instance
  ClientMsgs,  \* clientMessageId values of operator replies
  PageMsgs,    \* externalMessageId values of page-inbox replies
  NULL,        \* SQL NULL
  HOUR,        \* clock ticks in an hour
  MaxHours,    \* longest timed control, in hours (24 in the code)
  MaxTxAge,    \* ticks a transaction may wait for the row lock
  MaxClock,    \* bound: last tick
  MaxVersion,  \* bound: no command commits from this ownership version on
  MaxHandoffs  \* bound: handoff rows of the conversation

VARIABLES
  conv,      \* the chat_sessions row, its handoff_requests and system events
  commands,  \* conversation_commands: how often a keyed command was applied
  replies,   \* operator messages stored per clientMessageId
  echoes,    \* page-inbox messages stored per externalMessageId
  outbox,    \* handoff rows that have a notification_outbox row
  tx,        \* per connection: now() of its open transaction, or NULL
  clock      \* the database clock

vars == <<conv, commands, replies, echoes, outbox, tx, clock>>

Ownerships == {"bot_owned", "handoff_requested", "human_owned", "closed"}
Statuses == {"active", "closed", "waiting", "handoff", "bot"}
HandoffStatuses == {"requested", "accepted", "rejected", "completed", "timeout"}
CommandNames == {"request_handoff", "claim", "release", "cancel_handoff",
                 "close", "reset", "transfer"}
ClientActors == {"agent", "customer"}

ASSUME NullAssumption == /\ NULL \notin Agents
                         /\ NULL \notin Int
                         /\ NULL \notin Keys
                         /\ NULL \notin {"timed", "indefinite"}
ASSUME BoundAssumption == /\ HOUR \in Nat \ {0}
                          /\ MaxHours \in Nat \ {0}
                          /\ MaxTxAge \in Nat
                          /\ MaxClock \in Nat
                          /\ MaxVersion \in Nat
                          /\ MaxHandoffs \in Nat
                          /\ Keyed \subseteq CommandNames

HandoffRow == [status : HandoffStatuses, agent : Agents \union {NULL}]

Conversation ==
  [ownership : Ownerships, status : Statuses, version : Nat,
   assigned : Agents \union {NULL},
   mode : {"timed", "indefinite", NULL},
   hours : (1..MaxHours) \union {NULL},
   until : Nat \union {NULL},
   lastActivity : Nat,
   handoffs : Seq(HandoffRow),
   events : Nat]

Indefinite == [mode |-> "indefinite", hours |-> NULL]

Timed(h) == [mode |-> "timed", hours |-> h]

Policies == {Indefinite} \union {Timed(h) : h \in 1..MaxHours}

-----------------------------------------------------------------------------
(* Row helpers.                                                            *)

\* The legacy status column that goes with an ownership.
DeriveStatusFromOwnership(own, prev) ==
  CASE own \in {"human_owned", "handoff_requested"} -> "handoff"
    [] own = "closed" -> "closed"
    [] own = "bot_owned" -> IF prev \in {"active", "waiting", "bot"} THEN prev ELSE "bot"

\* One UPDATE: ownership, the status the AI pipeline serves, version + 1.
ApplyOwnershipTransition(v, next) ==
  LET st == DeriveStatusFromOwnership(next, v.status)
  IN  [v EXCEPT !.ownership = next,
                !.status = IF next = "bot_owned" /\ st = "active" THEN "bot" ELSE st,
                !.version = @ + 1]

PersistSystemEvent(v) == [v EXCEPT !.events = @ + 1]

\* The newest handoff row in one of the statuses S: a set of at most one index.
LockHandoff(v, S) ==
  {i \in DOMAIN v.handoffs :
     /\ v.handoffs[i].status \in S
     /\ \A j \in DOMAIN v.handoffs : v.handoffs[j].status \in S => j <= i}

\* UPDATE handoff_requests of the rows ids.
SetHandoff(v, ids, st, agent) ==
  [v EXCEPT !.handoffs =
     [i \in DOMAIN v.handoffs |->
        IF i \in ids THEN [status |-> st, agent |-> agent] ELSE v.handoffs[i]]]

\* The same UPDATE where it leaves assigned_agent_id alone.
SetHandoffStatus(v, ids, st) ==
  [v EXCEPT !.handoffs =
     [i \in DOMAIN v.handoffs |->
        IF i \in ids THEN [v.handoffs[i] EXCEPT !.status = st] ELSE v.handoffs[i]]]

\* The human-control columns of a policy, on the clock of the transaction.
HumanControlColumns(v, policy, now) ==
  [v EXCEPT !.mode = policy.mode,
            !.hours = policy.hours,
            !.until = IF policy.mode = "timed" THEN now + HOUR * policy.hours ELSE NULL]

ClearHumanControl(v) == [v EXCEPT !.mode = NULL, !.hours = NULL, !.until = NULL]

Assign(v, agent) == [v EXCEPT !.assigned = agent]

\* human_control_until <= now() on the locked row.
TimedDeadlinePassed(v, now) == v.until # NULL /\ v.until <= now

ApplyClaim(v, agent, policy, now) ==
  LET accepted == SetHandoff(v, LockHandoff(v, {"requested"}), "accepted", agent)
      owned == Assign(ApplyOwnershipTransition(accepted, "human_owned"), agent)
  IN  PersistSystemEvent(HumanControlColumns(owned, policy, now))

\* Faulty variant: the pause writes no system event.
UnassignedPauseWithoutEvent(v, now) ==
  LET accepted == SetHandoffStatus(v, LockHandoff(v, {"requested"}), "accepted")
      owned == Assign(ApplyOwnershipTransition(accepted, "human_owned"), NULL)
  IN  HumanControlColumns(owned, Indefinite, now)

ApplyUnassignedHumanPause(v, now) ==
  LET accepted == SetHandoffStatus(v, LockHandoff(v, {"requested"}), "accepted")
      owned == Assign(ApplyOwnershipTransition(accepted, "human_owned"), NULL)
  IN  PersistSystemEvent(HumanControlColumns(owned, Indefinite, now))

\* Faulty variant: the accepted handoff is not completed.
ReleaseForgetsHandoff(v) ==
  PersistSystemEvent(ClearHumanControl(Assign(ApplyOwnershipTransition(v, "bot_owned"), NULL)))

ApplyRelease(v) ==
  LET completed == SetHandoffStatus(v, LockHandoff(v, {"accepted"}), "completed")
      returned == Assign(ApplyOwnershipTransition(completed, "bot_owned"), NULL)
  IN  PersistSystemEvent(ClearHumanControl(returned))

\* Faulty variant: the human-control columns survive the close.
CloseKeepsControl(v) ==
  LET open == LockHandoff(v, {"requested", "accepted"})
      rejected == {i \in open : v.handoffs[i].status = "requested"}
      settled == SetHandoffStatus(SetHandoffStatus(v, rejected, "rejected"),
                                  open \ rejected, "completed")
  IN  PersistSystemEvent(ApplyOwnershipTransition(settled, "closed"))

\* closeConversation's row changes: only the newest open handoff is settled.
ApplyClose(v) ==
  LET open == LockHandoff(v, {"requested", "accepted"})
      rejected == {i \in open : v.handoffs[i].status = "requested"}
      settled == SetHandoffStatus(SetHandoffStatus(v, rejected, "rejected"),
                                  open \ rejected, "completed")
  IN  PersistSystemEvent(ClearHumanControl(ApplyOwnershipTransition(settled, "closed")))

\* Faulty variant: any operator may take a timed conversation over.
MayTakeTimed(v, agent) ==
  v.ownership = "human_owned" => v.assigned \in {agent, NULL} \/ v.mode = "timed"

\* An operator may act on a human-owned conversation that nobody else holds.
MayTake(v, agent) == v.ownership = "human_owned" => v.assigned \in {agent, NULL}

-----------------------------------------------------------------------------
(* Transactions.                                                           *)

Init ==
  /\ conv = [ownership |-> "bot_owned", status |-> "waiting", version |-> 0,
             assigned |-> NULL, mode |-> NULL, hours |-> NULL, until |-> NULL,
             lastActivity |-> 0, handoffs |-> <<>>, events |-> 0]
  /\ commands = [ck \in CommandNames \X Keys |-> 0]
  /\ replies = [m \in ClientMsgs |-> 0]
  /\ echoes = [m \in PageMsgs |-> 0]
  /\ outbox = {}
  /\ tx = [c \in Conns |-> NULL]
  /\ clock = 0

\* A transaction opens; now() is fixed here, the row lock is still awaited.
Begin(c) ==
  /\ tx[c] = NULL
  /\ tx' = [tx EXCEPT ![c] = clock]
  /\ UNCHANGED <<conv, commands, replies, echoes, outbox, clock>>

\* A rejected command, a replayed one, a duplicate, a crash: nothing commits.
EndWithoutEffect(c) ==
  /\ tx[c] # NULL
  /\ tx' = [tx EXCEPT ![c] = NULL]
  /\ UNCHANGED <<conv, commands, replies, echoes, outbox, clock>>

KeyChoice(cmd) == IF cmd \in Keyed THEN Keys \union {NULL} ELSE {NULL}

\* Faulty variant: the stored result is not looked up.
WithConversationNoReplay(c, cmd, key) ==
  /\ tx[c] # NULL /\ conv.version < MaxVersion
  /\ tx' = [tx EXCEPT ![c] = NULL]
  /\ commands' = IF key = NULL THEN commands
                 ELSE [commands EXCEPT ![<<cmd, key>>] = @ + 1]
  /\ UNCHANGED clock

\* withConversation: the lock is held, a stored result of the key is replayed
\* (EndWithoutEffect), otherwise the body runs and its result is stored.
WithConversation(c, cmd, key) ==
  /\ tx[c] # NULL /\ conv.version < MaxVersion
  /\ tx' = [tx EXCEPT ![c] = NULL]
  /\ key # NULL => commands[<<cmd, key>>] = 0
  /\ commands' = IF key = NULL THEN commands
                 ELSE [commands EXCEPT ![<<cmd, key>>] = @ + 1]
  /\ UNCHANGED clock

WithConversationUnkeyed(c) ==
  /\ tx[c] # NULL /\ conv.version < MaxVersion
  /\ tx' = [tx EXCEPT ![c] = NULL]
  /\ UNCHANGED <<commands, clock>>

RequestHandoff(c, notify, disabled) ==
  \E key \in KeyChoice("request_handoff") :
    /\ WithConversation(c, "request_handoff", key)
    /\ conv.ownership # "closed"
    /\ UNCHANGED <<replies, echoes>>
    /\ \/ /\ disabled \/ conv.ownership = "human_owned"
          /\ UNCHANGED <<conv, outbox>>
       \/ /\ ~disabled /\ conv.ownership # "human_owned"
          /\ \/ conv.ownership = "handoff_requested"
             \/ LockHandoff(conv, {"requested"}) # {}
          /\ conv' = IF conv.ownership = "handoff_requested" THEN conv
                     ELSE ApplyOwnershipTransition(conv, "handoff_requested")
          /\ UNCHANGED outbox
       \/ /\ ~disabled /\ conv.ownership = "bot_owned"
          /\ LockHandoff(conv, {"requested"}) = {}
          /\ Len(conv.handoffs) < MaxHandoffs
          /\ LET saved == [conv EXCEPT !.handoffs =
                             Append(@, [status |-> "requested", agent |-> NULL])]
             IN conv' = PersistSystemEvent(
                          ApplyOwnershipTransition(saved, "handoff_requested"))
          /\ outbox' = IF notify THEN outbox \union {Len(conv.handoffs) + 1} ELSE outbox

\* updatePolicy: the caller carried an explicit control mode.
ClaimConversation(c, agent, policy, updatePolicy) ==
  \E key \in KeyChoice("claim") :
    LET held == IF conv.assigned = NULL THEN Assign(conv, agent) ELSE conv
        expired == conv.mode = "timed" /\ TimedDeadlinePassed(conv, tx[c])
    IN
    /\ WithConversation(c, "claim", key)
    /\ conv.ownership # "closed"
    /\ MayTake(conv, agent)
    /\ conv' = IF conv.ownership # "human_owned"
                 THEN ApplyClaim(conv, agent, policy, tx[c])
               ELSE IF updatePolicy /\ expired
                 THEN ApplyClaim(ApplyRelease(held), agent, policy, tx[c])
               ELSE IF updatePolicy
                 THEN HumanControlColumns(held, policy, tx[c])
               ELSE held
    /\ UNCHANGED <<replies, echoes, outbox>>

\* Faulty variant: the slide does not ask whether the deadline is still ahead.
SendAlwaysSlides(c, agent, msg) ==
  LET held == IF conv.assigned = NULL THEN Assign(conv, agent) ELSE conv
      owned == IF conv.ownership # "human_owned"
                 THEN ApplyClaim(conv, agent, Indefinite, tx[c])
               ELSE IF conv.mode # "timed"
                 THEN held
               ELSE [held EXCEPT !.until = tx[c] + HOUR * conv.hours]
  IN
  /\ WithConversationUnkeyed(c)
  /\ conv.ownership # "closed"
  /\ replies[msg] = 0
  /\ MayTake(conv, agent)
  /\ conv' = [owned EXCEPT !.lastActivity = tx[c]]
  /\ replies' = [replies EXCEPT ![msg] = @ + 1]
  /\ UNCHANGED <<echoes, outbox>>

\* The reply dedupes, takes over or slides the deadline, and is stored.
SendHumanMessage(c, agent, msg) ==
  LET held == IF conv.assigned = NULL THEN Assign(conv, agent) ELSE conv
      owned == IF conv.ownership # "human_owned"
                 THEN ApplyClaim(conv, agent, Indefinite, tx[c])
               ELSE IF conv.mode # "timed" \/ conv.hours = NULL
                 THEN held
               ELSE IF conv.until > tx[c]
                 THEN [held EXCEPT !.until = tx[c] + HOUR * conv.hours]
               ELSE ApplyClaim(ApplyRelease(held), agent, Indefinite, tx[c])
  IN
  /\ WithConversationUnkeyed(c)
  /\ conv.ownership # "closed"
  /\ replies[msg] = 0
  /\ MayTake(conv, agent)
  /\ conv' = [owned EXCEPT !.lastActivity = tx[c]]
  /\ replies' = [replies EXCEPT ![msg] = @ + 1]
  /\ UNCHANGED <<echoes, outbox>>

IngestPageHumanReply(c, msg) ==
  LET paused == IF conv.ownership \in {"bot_owned", "handoff_requested"}
                  THEN ApplyUnassignedHumanPause(conv, tx[c]) ELSE conv
  IN
  /\ WithConversationUnkeyed(c)
  /\ conv.ownership # "closed"
  /\ echoes[msg] = 0
  /\ conv' = [paused EXCEPT !.lastActivity = tx[c]]
  /\ echoes' = [echoes EXCEPT ![msg] = @ + 1]
  /\ UNCHANGED <<replies, outbox>>

ReleaseConversation(c, agent) ==
  \E key \in KeyChoice("release") :
    /\ WithConversation(c, "release", key)
    /\ conv.ownership \in {"bot_owned", "human_owned"}
    /\ MayTake(conv, agent)
    /\ conv' = IF conv.ownership = "bot_owned" THEN conv ELSE ApplyRelease(conv)
    /\ UNCHANGED <<replies, echoes, outbox>>

\* The row a system actor may release: re-checked under the lock.
ControlExpired(v, now) ==
  /\ v.ownership = "human_owned"
  /\ v.mode = "timed"
  /\ TimedDeadlinePassed(v, now)

\* The inbound-message caller; the sweep is SweepTimedControl.
ReleaseExpiredHumanControl(c) ==
  /\ WithConversationUnkeyed(c)
  /\ ControlExpired(conv, tx[c])
  /\ conv' = ApplyRelease(conv)
  /\ UNCHANGED <<replies, echoes, outbox>>

\* Faulty variant: the candidate query joins handoff_requests, so a control that
\* began without a handoff is never found.
SweepOnlyHandoffs ==
  /\ ControlExpired(conv, clock)
  /\ LockHandoff(conv, {"accepted"}) # {}
  /\ conv' = ApplyRelease(conv)
  /\ UNCHANGED <<commands, replies, echoes, outbox, tx, clock>>

\* One candidate of a sweep batch: SKIP LOCKED never waits, so now() is the
\* time the lock was granted.
SweepTimedControl ==
  /\ ControlExpired(conv, clock)
  /\ conv' = ApplyRelease(conv)
  /\ UNCHANGED <<commands, replies, echoes, outbox, tx, clock>>

\* Faulty variant: the session returns to the bot, the queue row stays requested.
CancelLeavesRow(v, actor) ==
  IF v.ownership = "bot_owned" THEN v
  ELSE PersistSystemEvent(ClearHumanControl(Assign(ApplyOwnershipTransition(v, "bot_owned"), NULL)))

\* cancelHandoff on the locked row, by a customer, an operator or the system
\* (the stale-handoff sweep, see ConversationSystem).
CancelledRow(v, actor) ==
  LET open == LockHandoff(v, {"requested"})
      closed == SetHandoffStatus(v, open, IF actor = "system" THEN "timeout" ELSE "rejected")
      returned == Assign(ApplyOwnershipTransition(closed, "bot_owned"), NULL)
  IN  IF v.ownership = "bot_owned"
        THEN SetHandoffStatus(v, open, "rejected")
        ELSE PersistSystemEvent(ClearHumanControl(returned))

CancelHandoff(c, actor) ==
  \E key \in KeyChoice("cancel_handoff") :
    /\ WithConversation(c, "cancel_handoff", key)
    /\ conv.ownership \in {"bot_owned", "handoff_requested"}
    /\ conv' = CancelledRow(conv, actor)
    /\ UNCHANGED <<replies, echoes, outbox>>

CloseConversation(c) ==
  \E key \in KeyChoice("close") :
    /\ WithConversation(c, "close", key)
    /\ conv' = IF conv.ownership = "closed" THEN conv ELSE ApplyClose(conv)
    /\ UNCHANGED <<replies, echoes, outbox>>

\* Close and wipe the transcript in one transaction.
ResetConversation(c) ==
  \E key \in KeyChoice("reset") :
    /\ WithConversation(c, "reset", key)
    /\ conv' = IF conv.ownership = "closed" THEN conv ELSE ApplyClose(conv)
    /\ replies' = [m \in ClientMsgs |-> 0]
    /\ echoes' = [m \in PageMsgs |-> 0]
    /\ UNCHANGED outbox

TransferConversation(c, target) ==
  \E key \in KeyChoice("transfer") :
    LET accepted == SetHandoff(conv, LockHandoff(conv, {"requested"}), "accepted", target)
        kept == conv.ownership = "human_owned" /\ conv.mode # NULL
        owned == Assign(ApplyOwnershipTransition(accepted, "human_owned"), target)
    IN
    /\ WithConversation(c, "transfer", key)
    /\ conv.ownership # "closed"
    /\ conv' = PersistSystemEvent(
                 IF kept THEN owned ELSE HumanControlColumns(owned, Indefinite, tx[c]))
    /\ UNCHANGED <<replies, echoes, outbox>>

\* Time passes; no transaction waits longer than MaxTxAge.
Tick ==
  /\ clock < MaxClock
  /\ \A c \in Conns : tx[c] # NULL => clock - tx[c] < MaxTxAge
  /\ clock' = clock + 1
  /\ UNCHANGED <<conv, commands, replies, echoes, outbox, tx>>

ClientCommand(c) ==
  \/ \E notify, disabled \in BOOLEAN : RequestHandoff(c, notify, disabled)
  \/ \E a \in Agents, p \in Policies, u \in BOOLEAN : ClaimConversation(c, a, p, u)
  \/ \E a \in Agents, m \in ClientMsgs : SendHumanMessage(c, a, m)
  \/ \E m \in PageMsgs : IngestPageHumanReply(c, m)
  \/ \E a \in Agents : ReleaseConversation(c, a)
  \/ ReleaseExpiredHumanControl(c)
  \/ \E actor \in ClientActors : CancelHandoff(c, actor)
  \/ CloseConversation(c)
  \/ ResetConversation(c)
  \/ \E a \in Agents : TransferConversation(c, a)

Next ==
  \/ \E c \in Conns : Begin(c) \/ EndWithoutEffect(c) \/ ClientCommand(c)
  \/ SweepTimedControl
  \/ Tick

Spec == Init /\ [][Next]_vars

\* The sweep runs every minute in every api process.
FairSpec == Spec /\ WF_vars(SweepTimedControl)

-----------------------------------------------------------------------------
(* Properties.                                                             *)

\* The columns of every row hold values of their types.
TypeOK ==
  /\ conv \in Conversation
  /\ commands \in [CommandNames \X Keys -> Nat]
  /\ replies \in [ClientMsgs -> Nat]
  /\ echoes \in [PageMsgs -> Nat]
  /\ outbox \in SUBSET Nat
  /\ tx \in [Conns -> Nat \union {NULL}]
  /\ clock \in Nat

Open(v) == {i \in DOMAIN v.handoffs : v.handoffs[i].status \in {"requested", "accepted"}}

\* "The single open HandoffRequest": a conversation never has two open handoff
\* rows, so which row lockHandoff calls the newest never matters.
SingleOpenHandoff == \A i, j \in Open(conv) : i = j

\* The handoff row and the ownership column, written by different statements,
\* agree: the queue holds a requested row exactly when the conversation waits
\* for an operator, and an accepted row only while a human owns it.  A closed
\* or returned conversation leaves no open row behind.
HandoffMatchesOwnership ==
  /\ \A i \in DOMAIN conv.handoffs :
       conv.handoffs[i].status = "accepted" => conv.ownership = "human_owned"
  /\ (\E i \in DOMAIN conv.handoffs : conv.handoffs[i].status = "requested")
       <=> conv.ownership = "handoff_requested"

\* Human control is live exactly while a human owns the conversation, and a
\* deadline exists exactly for timed control: the expiry predicate of the sweep
\* can neither miss a timed control nor hit a conversation the bot serves.
ControlMatchesOwnership ==
  /\ conv.mode # NULL <=> conv.ownership = "human_owned"
  /\ conv.until # NULL <=> conv.mode = "timed"
  /\ conv.hours # NULL <=> conv.mode = "timed"
  /\ conv.assigned # NULL => conv.ownership \in {"human_owned", "closed"}

\* A conversation the bot owns has a status the AI pipeline serves ('bot' or
\* 'waiting'), and no other ownership has one: the status gate of runTurn and
\* the ownership column never disagree about who may answer.
BotServesExactlyItsOwn == conv.status \in {"bot", "waiting"} <=> conv.ownership = "bot_owned"

\* Rule of the service: every applied transition writes exactly one system
\* event, also when one command releases and claims again.
OneEventPerTransition == conv.events = conv.version

\* A retried request is applied once: per idempotency key, per clientMessageId
\* and per externalMessageId.
AppliedAtMostOnce ==
  /\ \A ck \in CommandNames \X Keys : commands[ck] <= 1
  /\ \A m \in ClientMsgs : replies[m] <= 1
  /\ \A m \in PageMsgs : echoes[m] <= 1

\* The operator who holds the conversation; a closed one keeps the column.
Holder == IF conv.ownership = "human_owned" THEN conv.assigned ELSE NULL

Owned == INSTANCE Ownership
           WITH owner <- conv.ownership, holder <- Holder, version <- conv.version

\* The command service implements Ownership: every commit is one move of the
\* owner or none.  No claim, reply or expired control takes a conversation from
\* one operator and gives it to another, no command reopens a closed one, and
\* the version counts the ownerships, whatever the order in which concurrent
\* transactions get the row lock.
ImplementsOwnership == Owned!Spec

\* No command reopens or changes a closed conversation.
ClosedIsFinal == [][ conv.ownership = "closed" => conv' = conv ]_vars

\* The deadline d of the control is over at time t.
DeadlineOver(v, t) == v.ownership = "human_owned" /\ v.mode = "timed" /\ v.until <= t

\* No step renews a control whose deadline is over at time t: it stays as it is,
\* or a new control begins with a new version.
NoRenewal(t) ==
  DeadlineOver(conv, t) /\ conv'.version = conv.version
    => conv'.until = conv.until /\ conv'.mode = conv.mode

\* The hard deadline as far as now() can keep it: a control whose deadline has
\* been over for as long as a transaction can wait is never renewed.
HardDeadlineUpToLockWait == [][ NoRenewal(clock - MaxTxAge) ]_vars

\* Stated by a comment of sendHumanMessage and not kept when the row lock is
\* awaited past the deadline: "a reply that lands after the deadline must not
\* resurrect the expired control (the hard-deadline invariant)".
HardDeadline == [][ NoRenewal(clock) ]_vars

\* The sweep ends every expired control.
ExpiredControlEnds == DeadlineOver(conv, clock) ~> ~DeadlineOver(conv, clock)
=============================================================================
