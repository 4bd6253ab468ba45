---------------------- MODULE ConversationSystemProofs ----------------------
(***************************************************************************)
(* Theorems about ConversationSystem: what remains true of the             *)
(* conversation row when it is written by the command service and by the   *)
(* writers that bypass it.  The raw closes and the removal of an operator  *)
(* break the agreement of row and handoff rows that                        *)
(* ConversationCommandsProofs rests on, so the row has a weaker invariant  *)
(* here, which says nothing of the handoff rows.  The lemmas on the row    *)
(* helpers, field by field, are those of that module.                      *)
(***************************************************************************)
EXTENDS ConversationSystem, ConversationCommandsProofs

\* What every writer of the row keeps.
RowKept(v) ==
  /\ v \in Conversation
  /\ v.ownership \in {"bot_owned", "handoff_requested"} => v.assigned = NULL /\ v.mode = NULL
  /\ v.ownership = "human_owned" => v.mode # NULL
  /\ v.until # NULL <=> v.mode = "timed"
  /\ v.hours # NULL <=> v.mode = "timed"
  /\ v.status \in {"bot", "waiting"} <=> v.ownership = "bot_owned"
  /\ v.status = "closed" <=> v.ownership = "closed"

SysInv == RowKept(conv) /\ Ledger

\* A step from row v to row w: the invariant and the version fence.
Fences(v, w) ==
  \/ w.ownership # v.ownership
  \/ v.assigned # NULL /\ w.assigned # v.assigned
  => w.version > v.version

RowStep(v, w) ==
  /\ RowKept(w)
  /\ Fences(v, w)
  /\ v.ownership = "closed" =>
       [w EXCEPT !.handoffs = v.handoffs, !.lastActivity = v.lastActivity] = v

\* w is a new ownership of the row v by own, with the operator agent.
Begins(v, w, own, agent) ==
  /\ RowKept(w)
  /\ w.ownership = own
  /\ w.assigned = agent
  /\ w.version > v.version

-----------------------------------------------------------------------------
(* The row helpers.                                                        *)

\* A row that leaves closed alone and begins something new is fenced.
LEMMA BeginsStep ==
  ASSUME NEW v, NEW w, NEW own, NEW agent, v.ownership # "closed", Begins(v, w, own, agent)
  PROVE  RowStep(v, w)
BY DEF Begins, RowStep, Fences

\* A step that leaves ownership, operator and version alone.
LEMMA SameOwner ==
  ASSUME NEW v, NEW w, v.ownership # "closed", RowKept(w), w.ownership = v.ownership,
         v.assigned \in {w.assigned, NULL}
  PROVE  RowStep(v, w)
BY DEF RowStep, Fences

\* Equal rows.
LEMMA SameRowStep ==
  ASSUME NEW v, RowKept(v)
  PROVE  RowStep(v, v)
<1>1. [v EXCEPT !.handoffs = v.handoffs, !.lastActivity = v.lastActivity] = v
  BY DEF RowKept, Conversation
<1> QED  BY <1>1 DEF RowStep, Fences

\* Only the handoff rows and the time of the last message differ.
LEMMA RowsOnly ==
  ASSUME NEW v, RowKept(v), NEW w \in Conversation,
         w.ownership = v.ownership, w.status = v.status, w.version = v.version,
         w.assigned = v.assigned, w.mode = v.mode, w.hours = v.hours, w.until = v.until,
         w.events = v.events
  PROVE  RowStep(v, w)
<1>1. RowKept(w)
  BY DEF RowKept
<1>2. [w EXCEPT !.handoffs = v.handoffs, !.lastActivity = v.lastActivity] = v
  BY DEF RowKept, Conversation
<1> QED  BY <1>1, <1>2 DEF RowStep, Fences

\* A human takes the row over.
LEMMA TakenRow ==
  ASSUME NEW v \in Conversation, NEW u \in Conversation, u.version = v.version,
         NEW agent \in Agents \union {NULL}, NEW policy \in Policies, NEW now \in Nat
  PROVE  Begins(v, Taken(u, agent, policy, now), "human_owned", agent)
<1> DEFINE w == Taken(u, agent, policy, now)
<1>1. RowIs(w, "human_owned", "handoff", u.version + 1, agent, policy.mode, policy.hours,
            Deadline(policy, now), u.lastActivity, u.handoffs, u.events + 1)
  BY TakenForm
<1>2. /\ policy.mode # NULL
      /\ Deadline(policy, now) # NULL <=> policy.mode = "timed"
      /\ policy.hours # NULL <=> policy.mode = "timed"
  BY PolicyColumns
<1> HIDE DEF w
<1>3. RowKept(w)
  BY <1>1, <1>2 DEF RowIs, RowKept
<1>4. w.version > v.version
  BY <1>1 DEF RowIs, Conversation
<1>5. Begins(v, w, "human_owned", agent)
  BY <1>1, <1>3, <1>4 DEF Begins, RowIs
<1> QED  BY <1>5 DEF w

\* The row returns to the bot.
LEMMA ReturnedRow ==
  ASSUME NEW v \in Conversation, NEW u \in Conversation, u.version = v.version
  PROVE  Begins(v, Returned(u), "bot_owned", NULL)
<1> DEFINE w == Returned(u)
<1>1. RowIs(w, "bot_owned", StatusFor("bot_owned", u.status), u.version + 1, NULL,
            NULL, NULL, NULL, u.lastActivity, u.handoffs, u.events + 1)
  BY ReturnedForm
<1>2. StatusFor("bot_owned", u.status) \in {"bot", "waiting"}
  BY DEF StatusFor
<1> HIDE DEF w
<1>3. RowKept(w)
  BY <1>1, <1>2, NullAssumption DEF RowIs, RowKept
<1>4. w.version > v.version
  BY <1>1 DEF RowIs, Conversation
<1>5. Begins(v, w, "bot_owned", NULL)
  BY <1>1, <1>3, <1>4 DEF Begins, RowIs
<1> QED  BY <1>5 DEF w

\* A claim, whichever handoff row it accepts.
LEMMA ClaimRow ==
  ASSUME NEW v \in Conversation, NEW agent \in Agents, NEW policy \in Policies, NEW now \in Nat
  PROVE  Begins(v, ApplyClaim(v, agent, policy, now), "human_owned", agent)
<1> DEFINE u == SetHandoff(v, LockHandoff(v, {"requested"}), "accepted", agent)
<1>1. RowsUpdated(u, v, LockHandoff(v, {"requested"}), "accepted")
  BY HandoffUpdate DEF HandoffStatuses
<1>2. ApplyClaim(v, agent, policy, now) = Taken(u, agent, policy, now)
  BY DEF ApplyClaim, Taken
<1> HIDE DEF u
<1> QED  BY <1>1, <1>2, TakenRow DEF RowsUpdated

\* The pause of a page-inbox reply.
LEMMA PauseRow ==
  ASSUME NEW v \in Conversation, NEW now \in Nat
  PROVE  Begins(v, ApplyUnassignedHumanPause(v, now), "human_owned", NULL)
<1> DEFINE u == SetHandoffStatus(v, LockHandoff(v, {"requested"}), "accepted")
<1>1. RowsUpdated(u, v, LockHandoff(v, {"requested"}), "accepted")
  BY StatusUpdate DEF HandoffStatuses
<1>2. ApplyUnassignedHumanPause(v, now) = Taken(u, NULL, Indefinite, now)
  BY DEF ApplyUnassignedHumanPause, Taken
<1> HIDE DEF u
<1> QED  BY <1>1, <1>2, TakenRow, IndefinitePolicy DEF RowsUpdated

\* A release, whichever handoff row it completes.
LEMMA ReleaseRow ==
  ASSUME NEW v \in Conversation
  PROVE  Begins(v, ApplyRelease(v), "bot_owned", NULL)
<1> DEFINE u == SetHandoffStatus(v, LockHandoff(v, {"accepted"}), "completed")
<1>1. RowsUpdated(u, v, LockHandoff(v, {"accepted"}), "completed")
  BY StatusUpdate DEF HandoffStatuses
<1>2. ApplyRelease(v) = Returned(u)
  BY DEF ApplyRelease, Returned
<1> HIDE DEF u
<1> QED  BY <1>1, <1>2, ReturnedRow DEF RowsUpdated

\* Release and claim in one transaction.
LEMMA ReclaimRow ==
  ASSUME NEW v \in Conversation, NEW agent \in Agents, NEW policy \in Policies, NEW now \in Nat
  PROVE  Begins(v, ApplyClaim(ApplyRelease(v), agent, policy, now), "human_owned", agent)
<1> DEFINE r == ApplyRelease(v)
           w == ApplyClaim(r, agent, policy, now)
<1>1. Begins(v, r, "bot_owned", NULL)
  BY ReleaseRow
<1> HIDE DEF r
<1>2. r \in Conversation /\ r.version > v.version
  BY <1>1 DEF Begins, RowKept
<1>3. Begins(r, w, "human_owned", agent)
  BY <1>2, ClaimRow
<1> HIDE DEF w
<1>4. w.version > v.version
  <2>1. w \in Conversation /\ w.version > r.version
    BY <1>3 DEF Begins, RowKept
  <2>2. w.version \in Nat /\ r.version \in Nat /\ v.version \in Nat
    BY <1>2, <2>1 DEF Conversation
  <2> QED  BY <1>2, <2>1, <2>2
<1>5. Begins(v, w, "human_owned", agent)
  BY <1>3, <1>4 DEF Begins
<1> QED  BY <1>5 DEF w, r

\* A cancelled request, by whoever; the bot's own row only loses the request.
LEMMA CancelRow ==
  ASSUME NEW v, RowKept(v), v.ownership \in {"bot_owned", "handoff_requested"}, NEW actor
  PROVE  RowStep(v, CancelledRow(v, actor))
<1> DEFINE st == IF actor = "system" THEN "timeout" ELSE "rejected"
           u == SetHandoffStatus(v, LockHandoff(v, {"requested"}), st)
           w == SetHandoffStatus(v, LockHandoff(v, {"requested"}), "rejected")
<1>1. RowsUpdated(u, v, LockHandoff(v, {"requested"}), st)
  <2>1. st \in HandoffStatuses
    BY DEF HandoffStatuses
  <2> HIDE DEF st
  <2> QED  BY <2>1, StatusUpdate DEF RowKept
<1>2. RowsUpdated(w, v, LockHandoff(v, {"requested"}), "rejected")
  BY StatusUpdate DEF HandoffStatuses, RowKept
<1>3. CancelledRow(v, actor) = IF v.ownership = "bot_owned" THEN w ELSE Returned(u)
  BY DEF CancelledRow, Returned
<1> HIDE DEF u, w, st
<1>4. CASE v.ownership = "bot_owned"
  BY <1>2, <1>3, <1>4, RowsOnly DEF RowsUpdated
<1>5. CASE v.ownership # "bot_owned"
  <2>1. Begins(v, Returned(u), "bot_owned", NULL)
    BY <1>1, ReturnedRow DEF RowsUpdated, RowKept
  <2> QED  BY <1>3, <1>5, <2>1, BeginsStep
<1> QED  BY <1>4, <1>5

\* A close through the command service.
LEMMA CloseRow ==
  ASSUME NEW v, RowKept(v), v.ownership # "closed"
  PROVE  RowStep(v, ApplyClose(v))
<1> DEFINE open == LockHandoff(v, {"requested", "accepted"})
           rejected == {i \in open : v.handoffs[i].status = "requested"}
           r == SetHandoffStatus(v, rejected, "rejected")
           u == SetHandoffStatus(r, open \ rejected, "completed")
           t == ApplyOwnershipTransition(u, "closed")
           c == ClearHumanControl(t)
           w == PersistSystemEvent(c)
<1>1. ApplyClose(v) = w
  BY DEF ApplyClose
<1> HIDE DEF rejected, open
<1>2. RowsUpdated(r, v, rejected, "rejected")
  BY StatusUpdate DEF HandoffStatuses, RowKept
<1> HIDE DEF r
<1>3. RowsUpdated(u, r, open \ rejected, "completed")
  BY <1>2, StatusUpdate DEF HandoffStatuses, RowsUpdated
<1> HIDE DEF u
<1>4. RowIs(t, "closed", "closed", u.version + 1,
            u.assigned, u.mode, u.hours, u.until, u.lastActivity, u.handoffs, u.events)
  <2>1. StatusFor("closed", u.status) = "closed"
    BY DEF StatusFor
  <2> QED  BY <1>3, <2>1, TransitionForm DEF Ownerships, RowsUpdated
<1> HIDE DEF t
<1>5. RowIs(c, t.ownership, t.status, t.version, t.assigned, NULL, NULL, NULL,
            t.lastActivity, t.handoffs, t.events)
  BY <1>4, ClearForm DEF RowIs
<1> HIDE DEF c
<1>6. RowIs(w, c.ownership, c.status, c.version, c.assigned, c.mode, c.hours, c.until,
            c.lastActivity, c.handoffs, c.events + 1)
  BY <1>5, EventForm DEF RowIs
<1> HIDE DEF w
<1>7. RowIs(w, "closed", "closed", v.version + 1, v.assigned, NULL, NULL, NULL,
            v.lastActivity, u.handoffs, v.events + 1)
  BY <1>2, <1>3, <1>4, <1>5, <1>6 DEF RowIs, RowsUpdated
<1>8. RowKept(w) /\ w.version > v.version
  BY <1>7, NullAssumption DEF RowIs, RowKept, Conversation
<1> QED  BY <1>1, <1>8 DEF RowStep, Fences

\* A raw close: two columns and the version, the human control stays.
LEMMA RawCloseRow ==
  ASSUME NEW v, RowKept(v), v.ownership # "closed"
  PROVE  RowStep(v, RawClose(v))
<1> DEFINE n == v.version + 1
           w == [v EXCEPT !.ownership = "closed", !.status = "closed", !.version = n]
<1>1. n \in Nat /\ n > v.version
  BY DEF RowKept, Conversation
<1>2. RawClose(v) = w
  BY DEF RawClose
<1> HIDE DEF n
<1>3. /\ w \in Conversation
      /\ w.ownership = "closed" /\ w.status = "closed" /\ w.version = n
      /\ w.mode = v.mode /\ w.hours = v.hours /\ w.until = v.until
  BY <1>1 DEF RowKept, Conversation, Ownerships, Statuses
<1> HIDE DEF w
<1>4. RowKept(w)
  BY <1>3 DEF RowKept
<1> QED  BY <1>1, <1>2, <1>3, <1>4 DEF RowStep, Fences

\* The rows of a removed operator: no column of the session changes.
LEMMA ReturnHandoffsRow ==
  ASSUME NEW v, RowKept(v), NEW agent
  PROVE  RowStep(v, ReturnHandoffs(v, agent))
<1> DEFINE ids == {i \in DOMAIN v.handoffs :
                     v.handoffs[i].status = "accepted" /\ v.handoffs[i].agent = agent}
           w == SetHandoff(v, ids, "requested", NULL)
<1>1. ReturnHandoffs(v, agent) = w
  BY DEF ReturnHandoffs
<1> HIDE DEF ids
<1>2. RowsUpdated(w, v, ids, "requested")
  BY HandoffUpdate DEF HandoffStatuses, RowKept
<1> HIDE DEF w
<1> QED  BY <1>1, <1>2, RowsOnly DEF RowsUpdated

\* The session of a removed operator waits in the queue again.
LEMMA RequeueRow ==
  ASSUME NEW v, RowKept(v)
  PROVE  Begins(v, Requeue(v), "handoff_requested", NULL)
<1> DEFINE n == v.version + 1
           u == [v EXCEPT !.assigned = NULL, !.status = "handoff",
                          !.ownership = "handoff_requested", !.version = n]
           w == ClearHumanControl(u)
<1>1. n \in Nat /\ n > v.version
  BY DEF RowKept, Conversation
<1>2. Requeue(v) = w
  BY DEF Requeue
<1> HIDE DEF n
<1>3. /\ u \in Conversation
      /\ u.ownership = "handoff_requested" /\ u.status = "handoff" /\ u.version = n
      /\ u.assigned = NULL
  BY <1>1 DEF RowKept, Conversation, Ownerships, Statuses
<1> HIDE DEF u
<1>4. RowIs(w, u.ownership, u.status, u.version, u.assigned, NULL, NULL, NULL,
            u.lastActivity, u.handoffs, u.events)
  BY <1>3, ClearForm
<1> HIDE DEF w
<1>5. RowKept(w)
  BY <1>3, <1>4, NullAssumption DEF RowKept, RowIs
<1> QED  BY <1>1, <1>2, <1>3, <1>4, <1>5 DEF Begins, RowIs

\* A message moves last_activity_at, of a closed row too.
LEMMA ActivityRow ==
  ASSUME NEW v \in Conversation, NEW now \in Nat
  PROVE  LET w == [v EXCEPT !.lastActivity = now]
         IN  RowIs(w, v.ownership, v.status, v.version, v.assigned, v.mode, v.hours, v.until,
                   now, v.handoffs, v.events)
BY DEF Conversation, RowIs

\* An operator's own row: assigned if it was free.
LEMMA HeldRowKept ==
  ASSUME NEW v, RowKept(v), v.ownership = "human_owned", NEW agent \in Agents,
         MayTake(v, agent), NEW held, held = IF v.assigned = NULL THEN Assign(v, agent) ELSE v
  PROVE  /\ RowKept(held) /\ held.ownership = "human_owned" /\ held.assigned = agent
         /\ held.mode = v.mode /\ held.hours = v.hours /\ held.version = v.version
<1>1. CASE v.assigned = NULL
  <2>1. RowIs(held, v.ownership, v.status, v.version, agent, v.mode,
              v.hours, v.until, v.lastActivity, v.handoffs, v.events)
    BY <1>1, AssignForm DEF RowKept
  <2> QED  BY <2>1 DEF RowKept, RowIs
<1>2. CASE v.assigned # NULL
  BY <1>2 DEF MayTake
<1> QED  BY <1>1, <1>2

-----------------------------------------------------------------------------
(* The commands.                                                           *)

\* The ledgers under a keyed command that stores no message.
LEMMA KeyedKeeps ==
  ASSUME SysInv, NEW c \in Conns, NEW cmd \in CommandNames, NEW key \in KeyChoice(cmd),
         WithConversation(c, cmd, key), UNCHANGED <<replies, echoes>>, outbox' \in SUBSET Nat
  PROVE  Ledger' /\ tx[c] \in Nat
<1>1. key \in Keys \union {NULL}
  BY KeyChoiceType
<1>2. Ledger
  BY DEF SysInv
<1>3. Ledger'
  BY <1>1, <1>2, KeyedLedger DEF Ledger
<1>4. tx[c] \in Nat
  BY <1>2, LockGranted DEF WithConversation
<1> QED  BY <1>3, <1>4

LEMMA SysRequestStep ==
  ASSUME SysInv, NEW c \in Conns, NEW notify \in BOOLEAN, NEW disabled \in BOOLEAN,
         RequestHandoff(c, notify, disabled)
  PROVE  RowStep(conv, conv') /\ Ledger'
<1>1. PICK key \in KeyChoice("request_handoff") :
        WithConversation(c, "request_handoff", key)
  BY DEF RequestHandoff
<1>2. /\ replies' = replies /\ echoes' = echoes
      /\ conv.ownership # "closed"
  BY DEF RequestHandoff
<1>3. RowKept(conv) /\ conv \in Conversation
  BY DEF SysInv, RowKept
<1>4. Len(conv.handoffs) + 1 \in Nat
  BY <1>3 DEF Conversation
<1>5. outbox' \in SUBSET Nat
  BY <1>4 DEF RequestHandoff, SysInv, Ledger
<1>6. Ledger'
  <2>1. "request_handoff" \in CommandNames
    BY DEF CommandNames
  <2> QED  BY <1>1, <1>2, <1>5, <2>1, KeyedKeeps
<1> DEFINE h == Append(conv.handoffs, [status |-> "requested", agent |-> NULL])
           s == [conv EXCEPT !.handoffs = h]
           t == ApplyOwnershipTransition(conv, "handoff_requested")
           u == ApplyOwnershipTransition(s, "handoff_requested")
           w == PersistSystemEvent(u)
<1>7. \/ conv' = conv
      \/ conv.ownership = "bot_owned" /\ conv' = t
      \/ conv.ownership = "bot_owned" /\ conv' = w
  <2>1. conv.ownership \in Ownerships
    BY <1>3 DEF Conversation
  <2> QED  BY <1>2, <2>1 DEF RequestHandoff, Ownerships
<1>8. StatusFor("handoff_requested", conv.status) = "handoff"
  BY DEF StatusFor
<1>9. CASE conv' = conv
  BY <1>3, <1>6, <1>9, SameRowStep
<1>10. CASE conv.ownership = "bot_owned" /\ conv' = t
  <2>1. RowIs(t, "handoff_requested", "handoff", conv.version + 1, conv.assigned, conv.mode,
              conv.hours, conv.until, conv.lastActivity, conv.handoffs, conv.events)
    BY <1>3, <1>8, TransitionForm DEF Ownerships
  <2> HIDE DEF t
  <2>2. t.version > conv.version
    BY <2>1, <1>3 DEF RowIs, Conversation
  <2>3. Begins(conv, t, "handoff_requested", NULL)
    BY <1>3, <1>10, <2>1, <2>2 DEF RowIs, RowKept, Begins
  <2> QED  BY <1>2, <1>6, <1>10, <2>3, BeginsStep
<1>11. CASE conv.ownership = "bot_owned" /\ conv' = w
  <2>1. h \in Seq(HandoffRow)
    BY <1>3 DEF Conversation, HandoffRow, HandoffStatuses
  <2> HIDE DEF h
  <2>2. RowIs(s, conv.ownership, conv.status, conv.version, conv.assigned, conv.mode,
              conv.hours, conv.until, conv.lastActivity, h, conv.events)
    BY <1>3, <2>1 DEF Conversation, RowIs
  <2> HIDE DEF s
  <2>3. RowIs(u, "handoff_requested", "handoff", s.version + 1, s.assigned, s.mode,
              s.hours, s.until, s.lastActivity, s.handoffs, s.events)
    BY <1>8, <2>2, TransitionForm DEF Ownerships, RowIs
  <2> HIDE DEF u
  <2>4. RowIs(w, u.ownership, u.status, u.version, u.assigned, u.mode, u.hours, u.until,
              u.lastActivity, u.handoffs, u.events + 1)
    BY <2>3, EventForm DEF RowIs
  <2> HIDE DEF w
  <2>5. w.version > conv.version
    BY <1>3, <2>2, <2>3, <2>4 DEF RowIs, Conversation
  <2>6. Begins(conv, w, "handoff_requested", NULL)
    BY <1>3, <1>11, <2>2, <2>3, <2>4, <2>5 DEF RowIs, RowKept, Begins
  <2> QED  BY <1>2, <1>6, <1>11, <2>6, BeginsStep
<1> QED  BY <1>7, <1>9, <1>10, <1>11

LEMMA SysClaimStep ==
  ASSUME SysInv, NEW c \in Conns, NEW agent \in Agents, NEW policy \in Policies,
         NEW updatePolicy \in BOOLEAN, ClaimConversation(c, agent, policy, updatePolicy)
  PROVE  RowStep(conv, conv') /\ Ledger'
<1> DEFINE held == IF conv.assigned = NULL THEN Assign(conv, agent) ELSE conv
           expired == conv.mode = "timed" /\ TimedDeadlinePassed(conv, tx[c])
<1>1. PICK key \in KeyChoice("claim") : WithConversation(c, "claim", key)
  BY DEF ClaimConversation
<1>2. /\ conv.ownership # "closed"
      /\ MayTake(conv, agent)
      /\ replies' = replies /\ echoes' = echoes /\ outbox' = outbox
  BY DEF ClaimConversation
<1>3. conv' = IF conv.ownership # "human_owned"
                 THEN ApplyClaim(conv, agent, policy, tx[c])
               ELSE IF updatePolicy /\ expired
                 THEN ApplyClaim(ApplyRelease(held), agent, policy, tx[c])
               ELSE IF updatePolicy
                 THEN HumanControlColumns(held, policy, tx[c])
               ELSE held
  BY DEF ClaimConversation
<1>4. Ledger' /\ tx[c] \in Nat
  <2>1. "claim" \in CommandNames /\ outbox \in SUBSET Nat
    BY DEF CommandNames, SysInv, Ledger
  <2> QED  BY <1>1, <1>2, <2>1, KeyedKeeps
<1>5. RowKept(conv) /\ conv \in Conversation
  BY DEF SysInv, RowKept
<1>6. CASE conv.ownership # "human_owned"
  BY <1>2, <1>3, <1>4, <1>5, <1>6, ClaimRow, BeginsStep
<1>7. CASE conv.ownership = "human_owned"
  <2> HIDE DEF expired
  <2>1. /\ RowKept(held) /\ held.ownership = "human_owned" /\ held.assigned = agent
        /\ held.version = conv.version
    BY <1>2, <1>5, <1>7, HeldRowKept
  <2>2. conv.assigned \in {agent, NULL}
    BY <1>2, <1>7 DEF MayTake
  <2> HIDE DEF held
  <2>3. CASE updatePolicy /\ expired
    <3>1. Begins(held, conv', "human_owned", agent)
      BY <1>3, <1>4, <1>7, <2>1, <2>3, ReclaimRow DEF RowKept
    <3>2. Begins(conv, conv', "human_owned", agent)
      BY <2>1, <3>1 DEF Begins
    <3> QED  BY <1>2, <1>4, <3>2, BeginsStep
  <2>4. CASE updatePolicy /\ ~expired
    <3>1. conv' = HumanControlColumns(held, policy, tx[c])
      BY <1>3, <1>7, <2>4
    <3>2. RowIs(conv', held.ownership, held.status, held.version, held.assigned,
                policy.mode, policy.hours, Deadline(policy, tx[c]),
                held.lastActivity, held.handoffs, held.events)
      BY <1>4, <2>1, <3>1, ControlForm DEF Deadline, RowKept
    <3>3. /\ policy.mode # NULL
          /\ Deadline(policy, tx[c]) # NULL <=> policy.mode = "timed"
          /\ policy.hours # NULL <=> policy.mode = "timed"
      BY <1>4, PolicyColumns
    <3>4. RowKept(conv') /\ conv'.ownership = "human_owned" /\ conv'.assigned = agent
      BY <2>1, <3>2, <3>3 DEF RowKept, RowIs
    <3> QED  BY <1>2, <1>4, <1>7, <2>2, <3>4, SameOwner
  <2>5. CASE ~updatePolicy
    BY <1>2, <1>3, <1>4, <1>7, <2>1, <2>2, <2>5, SameOwner
  <2> QED  BY <2>3, <2>4, <2>5
<1> QED  BY <1>6, <1>7

\* last_activity_at moves with the message a command stores.
LEMMA Touched ==
  ASSUME NEW v, NEW w, NEW now \in Nat, v.ownership # "closed", RowStep(v, w)
  PROVE  RowStep(v, [w EXCEPT !.lastActivity = now])
<1> DEFINE u == [w EXCEPT !.lastActivity = now]
<1>1. RowIs(u, w.ownership, w.status, w.version, w.assigned, w.mode, w.hours, w.until,
            now, w.handoffs, w.events)
  BY ActivityRow DEF RowStep, RowKept
<1> HIDE DEF u
<1>2. RowKept(u) /\ Fences(v, u)
  BY <1>1 DEF RowStep, RowKept, RowIs, Fences
<1>3. RowStep(v, u)
  BY <1>2 DEF RowStep
<1> QED  BY <1>3 DEF u

LEMMA SysSendStep ==
  ASSUME SysInv, NEW c \in Conns, NEW agent \in Agents, NEW msg \in ClientMsgs,
         SendHumanMessage(c, agent, msg)
  PROVE  RowStep(conv, conv') /\ Ledger'
<1> DEFINE held == IF conv.assigned = NULL THEN Assign(conv, agent) ELSE conv
           owned == IF conv.ownership # "human_owned"
                 THEN ApplyClaim(conv, agent, Indefinite, tx[c])
               ELSE IF conv.mode # "timed" \/ conv.hours = NULL
                 THEN held
               ELSE IF conv.until > tx[c]
                 THEN [held EXCEPT !.until = tx[c] + HOUR * conv.hours]
               ELSE ApplyClaim(ApplyRelease(held), agent, Indefinite, tx[c])
<1>1. /\ WithConversationUnkeyed(c)
      /\ conv.ownership # "closed"
      /\ replies[msg] = 0
      /\ MayTake(conv, agent)
      /\ conv' = [owned EXCEPT !.lastActivity = tx[c]]
      /\ replies' = [replies EXCEPT ![msg] = @ + 1]
      /\ echoes' = echoes /\ outbox' = outbox
  BY DEF SendHumanMessage
<1>2. Ledger'
  <2>1. replies' \in [ClientMsgs -> {0, 1}]
    BY <1>1 DEF SysInv, Ledger
  <2> QED  BY <1>1, <2>1, UnkeyedLedger DEF SysInv, Ledger
<1>3. tx[c] \in Nat
  BY <1>1, LockGranted DEF WithConversationUnkeyed, SysInv
<1>4. RowKept(conv) /\ conv \in Conversation
  BY DEF SysInv, RowKept
<1>5. RowStep(conv, owned)
  <2>1. CASE conv.ownership # "human_owned"
    BY <1>1, <1>3, <1>4, <2>1, ClaimRow, BeginsStep, IndefinitePolicy
  <2>2. CASE conv.ownership = "human_owned"
    <3>1. /\ RowKept(held) /\ held.ownership = "human_owned" /\ held.assigned = agent
          /\ held.version = conv.version /\ held.mode = conv.mode /\ held.hours = conv.hours
      BY <1>1, <1>4, <2>2, HeldRowKept
    <3>2. conv.assigned \in {agent, NULL}
      BY <1>1, <2>2 DEF MayTake
    <3> HIDE DEF held
    <3>3. CASE conv.mode # "timed" \/ conv.hours = NULL
      <4>1. owned = held
        BY <2>2, <3>3
      <4> QED  BY <1>1, <2>2, <3>1, <3>2, <4>1, SameOwner
    <3>4. CASE conv.mode = "timed" /\ conv.hours # NULL /\ conv.until > tx[c]
      <4> DEFINE end == tx[c] + HOUR * conv.hours
      <4>1. owned = [held EXCEPT !.until = end]
        BY <2>2, <3>4
      <4>2. end \in Nat /\ end # NULL
        <5>1. conv.hours \in Nat
          BY <1>4, <3>4, BoundAssumption DEF Conversation
        <5>2. HOUR \in Nat
          BY BoundAssumption
        <5>3. HOUR * conv.hours \in Nat
          BY <5>1, <5>2
        <5> QED  BY <1>3, <5>3, NullAssumption
      <4> HIDE DEF owned, end
      <4>3. RowIs(owned, held.ownership, held.status, held.version, held.assigned, held.mode,
                  held.hours, end, held.lastActivity, held.handoffs, held.events)
        BY <3>1, <4>1, <4>2 DEF RowKept, Conversation, RowIs
      <4>4. RowKept(owned) /\ owned.ownership = "human_owned" /\ owned.assigned = agent
        BY <3>1, <3>4, <4>2, <4>3 DEF RowKept, RowIs
      <4> QED  BY <1>1, <2>2, <3>2, <4>4, SameOwner
    <3>5. CASE conv.mode = "timed" /\ conv.hours # NULL /\ ~(conv.until > tx[c])
      <4>1. owned = ApplyClaim(ApplyRelease(held), agent, Indefinite, tx[c])
        BY <2>2, <3>5
      <4> HIDE DEF owned
      <4>2. Begins(held, owned, "human_owned", agent)
        BY <1>3, <3>1, <4>1, ReclaimRow, IndefinitePolicy DEF RowKept
      <4>3. Begins(conv, owned, "human_owned", agent)
        BY <3>1, <4>2 DEF Begins
      <4> QED  BY <1>1, <4>3, BeginsStep
    <3> QED  BY <3>3, <3>4, <3>5
  <2> QED  BY <2>1, <2>2
<1> HIDE DEF owned
<1> QED  BY <1>1, <1>2, <1>3, <1>5, Touched

LEMMA SysIngestStep ==
  ASSUME SysInv, NEW c \in Conns, NEW msg \in PageMsgs, IngestPageHumanReply(c, msg)
  PROVE  RowStep(conv, conv') /\ Ledger'
<1> DEFINE paused == IF conv.ownership \in {"bot_owned", "handoff_requested"}
                       THEN ApplyUnassignedHumanPause(conv, tx[c]) ELSE conv
<1>1. /\ WithConversationUnkeyed(c)
      /\ conv.ownership # "closed"
      /\ echoes[msg] = 0
      /\ conv' = [paused EXCEPT !.lastActivity = tx[c]]
      /\ echoes' = [echoes EXCEPT ![msg] = @ + 1]
      /\ replies' = replies /\ outbox' = outbox
  BY DEF IngestPageHumanReply
<1>2. Ledger'
  <2>1. echoes' \in [PageMsgs -> {0, 1}]
    BY <1>1 DEF SysInv, Ledger
  <2> QED  BY <1>1, <2>1, UnkeyedLedger DEF SysInv, Ledger
<1>3. tx[c] \in Nat
  BY <1>1, LockGranted DEF WithConversationUnkeyed, SysInv
<1>4. RowKept(conv) /\ conv \in Conversation
  BY DEF SysInv, RowKept
<1>5. RowStep(conv, paused)
  BY <1>1, <1>3, <1>4, PauseRow, BeginsStep, SameRowStep
<1> HIDE DEF paused
<1> QED  BY <1>1, <1>2, <1>3, <1>5, Touched

LEMMA SysReleaseStep ==
  ASSUME SysInv, NEW c \in Conns, NEW agent \in Agents, ReleaseConversation(c, agent)
  PROVE  RowStep(conv, conv') /\ Ledger'
<1>1. PICK key \in KeyChoice("release") : WithConversation(c, "release", key)
  BY DEF ReleaseConversation
<1>2. /\ conv.ownership \in {"bot_owned", "human_owned"}
      /\ conv' = IF conv.ownership = "bot_owned" THEN conv ELSE ApplyRelease(conv)
      /\ replies' = replies /\ echoes' = echoes /\ outbox' = outbox
  BY DEF ReleaseConversation
<1>3. Ledger'
  <2>1. "release" \in CommandNames /\ outbox \in SUBSET Nat
    BY DEF CommandNames, SysInv, Ledger
  <2> QED  BY <1>1, <1>2, <2>1, KeyedKeeps
<1>4. RowKept(conv) /\ conv \in Conversation
  BY DEF SysInv, RowKept
<1> QED  BY <1>2, <1>3, <1>4, SameRowStep, ReleaseRow, BeginsStep

\* The two releases of an expired control, by a message and by the sweep.
LEMMA SysExpiryStep ==
  ASSUME SysInv, SweepTimedControl \/ \E c \in Conns : ReleaseExpiredHumanControl(c)
  PROVE  RowStep(conv, conv') /\ Ledger'
<1>1. conv.ownership = "human_owned" /\ conv' = ApplyRelease(conv)
  BY DEF SweepTimedControl, ReleaseExpiredHumanControl, ControlExpired
<1>2. RowStep(conv, conv')
  BY <1>1, ReleaseRow, BeginsStep DEF SysInv, RowKept
<1>3. CASE SweepTimedControl
  BY <1>2, <1>3 DEF SweepTimedControl, SysInv, Ledger, TxFresh
<1>4. ASSUME NEW c \in Conns, ReleaseExpiredHumanControl(c) PROVE Ledger'
  BY <1>4, UnkeyedLedger DEF ReleaseExpiredHumanControl, SysInv, Ledger
<1> QED  BY <1>2, <1>3, <1>4

LEMMA SysCancelStep ==
  ASSUME SysInv, NEW c \in Conns, NEW actor, CancelHandoff(c, actor)
  PROVE  RowStep(conv, conv') /\ Ledger'
<1>1. PICK key \in KeyChoice("cancel_handoff") : WithConversation(c, "cancel_handoff", key)
  BY DEF CancelHandoff
<1>2. /\ conv.ownership \in {"bot_owned", "handoff_requested"}
      /\ conv' = CancelledRow(conv, actor)
      /\ replies' = replies /\ echoes' = echoes /\ outbox' = outbox
  BY DEF CancelHandoff
<1>3. Ledger'
  <2>1. "cancel_handoff" \in CommandNames /\ outbox \in SUBSET Nat
    BY DEF CommandNames, SysInv, Ledger
  <2> QED  BY <1>1, <1>2, <2>1, KeyedKeeps
<1> QED  BY <1>2, <1>3, CancelRow DEF SysInv

\* Closing a row, or finding it closed.
LEMMA SysClosedRow ==
  ASSUME SysInv, conv' = IF conv.ownership = "closed" THEN conv ELSE ApplyClose(conv)
  PROVE  RowStep(conv, conv')
BY SameRowStep, CloseRow DEF SysInv

LEMMA SysCloseStep ==
  ASSUME SysInv, NEW c \in Conns, CloseConversation(c)
  PROVE  RowStep(conv, conv') /\ Ledger'
<1>1. PICK key \in KeyChoice("close") : WithConversation(c, "close", key)
  BY DEF CloseConversation
<1>2. /\ conv' = IF conv.ownership = "closed" THEN conv ELSE ApplyClose(conv)
      /\ replies' = replies /\ echoes' = echoes /\ outbox' = outbox
  BY DEF CloseConversation
<1>3. Ledger'
  <2>1. "close" \in CommandNames /\ outbox \in SUBSET Nat
    BY DEF CommandNames, SysInv, Ledger
  <2> QED  BY <1>1, <1>2, <2>1, KeyedKeeps
<1> QED  BY <1>2, <1>3, SysClosedRow

LEMMA SysResetStep ==
  ASSUME SysInv, NEW c \in Conns, ResetConversation(c)
  PROVE  RowStep(conv, conv') /\ Ledger'
<1>1. PICK key \in KeyChoice("reset") : WithConversation(c, "reset", key)
  BY DEF ResetConversation
<1>2. /\ conv' = IF conv.ownership = "closed" THEN conv ELSE ApplyClose(conv)
      /\ replies' = [m \in ClientMsgs |-> 0]
      /\ echoes' = [m \in PageMsgs |-> 0]
      /\ outbox' = outbox
  BY DEF ResetConversation
<1>3. Ledger'
  <2>1. key \in Keys \union {NULL} /\ "reset" \in CommandNames
    BY KeyChoiceType DEF CommandNames
  <2>2. replies' \in [ClientMsgs -> {0, 1}] /\ echoes' \in [PageMsgs -> {0, 1}]
    BY <1>2
  <2> QED  BY <1>1, <1>2, <2>1, <2>2, KeyedLedger DEF SysInv, Ledger
<1> QED  BY <1>2, <1>3, SysClosedRow

LEMMA SysTransferStep ==
  ASSUME SysInv, NEW c \in Conns, NEW target \in Agents, TransferConversation(c, target)
  PROVE  RowStep(conv, conv') /\ Ledger'
<1> DEFINE u == SetHandoff(conv, LockHandoff(conv, {"requested"}), "accepted", target)
           kept == conv.ownership = "human_owned" /\ conv.mode # NULL
<1>1. PICK key \in KeyChoice("transfer") : WithConversation(c, "transfer", key)
  BY DEF TransferConversation
<1>2. /\ conv.ownership # "closed"
      /\ replies' = replies /\ echoes' = echoes /\ outbox' = outbox
  BY DEF TransferConversation
<1>3. conv' = IF kept THEN Kept(u, target) ELSE Taken(u, target, Indefinite, tx[c])
  BY DEF TransferConversation, Kept, Taken
<1>4. Ledger' /\ tx[c] \in Nat
  <2>1. "transfer" \in CommandNames /\ outbox \in SUBSET Nat
    BY DEF CommandNames, SysInv, Ledger
  <2> QED  BY <1>1, <1>2, <2>1, KeyedKeeps
<1>5. RowKept(conv) /\ conv \in Conversation
  BY DEF SysInv, RowKept
<1>6. RowsUpdated(u, conv, LockHandoff(conv, {"requested"}), "accepted")
  BY <1>5, HandoffUpdate DEF HandoffStatuses
<1> HIDE DEF u
<1>7. CASE kept
  <2> DEFINE t == ApplyOwnershipTransition(u, "human_owned")
             a == Assign(t, target)
             w == PersistSystemEvent(a)
  <2>1. conv' = w
    BY <1>3, <1>7 DEF Kept
  <2>2. StatusFor("human_owned", u.status) = "handoff"
    BY DEF StatusFor
  <2>3. RowIs(t, "human_owned", "handoff", u.version + 1,
              u.assigned, u.mode, u.hours, u.until, u.lastActivity, u.handoffs, u.events)
    BY <1>6, <2>2, TransitionForm DEF Ownerships, RowsUpdated
  <2> HIDE DEF t
  <2>4. RowIs(a, t.ownership, t.status, t.version, target, t.mode, t.hours, t.until,
              t.lastActivity, t.handoffs, t.events)
    BY <2>3, AssignForm DEF RowIs
  <2> HIDE DEF a
  <2>5. RowIs(w, a.ownership, a.status, a.version, a.assigned, a.mode, a.hours, a.until,
              a.lastActivity, a.handoffs, a.events + 1)
    BY <2>4, EventForm DEF RowIs
  <2> HIDE DEF w
  <2>6. RowIs(w, "human_owned", "handoff", conv.version + 1, target, conv.mode, conv.hours,
              conv.until, conv.lastActivity, u.handoffs, conv.events + 1)
    BY <1>6, <2>3, <2>4, <2>5 DEF RowIs, RowsUpdated
  <2>7. w.version > conv.version
    BY <1>5, <2>6 DEF RowIs, Conversation
  <2>8. Begins(conv, w, "human_owned", target)
    BY <1>5, <1>7, <2>6, <2>7 DEF RowIs, RowKept, Begins
  <2> QED  BY <1>2, <1>4, <2>1, <2>8, BeginsStep
<1>8. CASE ~kept
  <2>1. Begins(conv, conv', "human_owned", target)
    BY <1>3, <1>4, <1>5, <1>6, <1>8, TakenRow, IndefinitePolicy DEF RowsUpdated
  <2> QED  BY <1>2, <1>4, <2>1, BeginsStep
<1> QED  BY <1>7, <1>8

\* Every step of the command service.
LEMMA CommandStep ==
  ASSUME SysInv, Next
  PROVE  RowStep(conv, conv') /\ Ledger'
<1>1. ASSUME NEW c \in Conns, Begin(c) PROVE RowStep(conv, conv') /\ Ledger'
  <2>1. clock <= clock + MaxTxAge
    BY BoundAssumption DEF SysInv, Ledger
  <2>2. Ledger'
    BY <1>1, <2>1 DEF Begin, SysInv, Ledger, TxFresh
  <2> QED  BY <1>1, <2>2, SameRowStep DEF Begin, SysInv
<1>2. ASSUME NEW c \in Conns, EndWithoutEffect(c) PROVE RowStep(conv, conv') /\ Ledger'
  <2>1. Ledger'
    BY <1>2 DEF EndWithoutEffect, SysInv, Ledger, TxFresh
  <2> QED  BY <1>2, <2>1, SameRowStep DEF EndWithoutEffect, SysInv
<1>3. ASSUME NEW c \in Conns, ClientCommand(c) PROVE RowStep(conv, conv') /\ Ledger'
  BY <1>3, SysRequestStep, SysClaimStep, SysSendStep, SysIngestStep, SysReleaseStep,
     SysExpiryStep, SysCancelStep, SysCloseStep, SysResetStep, SysTransferStep
     DEF ClientCommand
<1>4. CASE SweepTimedControl
  BY <1>4, SysExpiryStep
<1>5. CASE Tick
  <2>1. \A c \in Conns : tx'[c] # NULL => tx'[c] <= clock' /\ clock' <= tx'[c] + MaxTxAge
    BY <1>5, BoundAssumption DEF Tick, SysInv, Ledger, TxFresh
  <2>2. Ledger'
    BY <1>5, <2>1 DEF Tick, SysInv, Ledger, TxFresh
  <2> QED  BY <1>5, <2>2, SameRowStep DEF Tick, SysInv
<1> QED  BY <1>1, <1>2, <1>3, <1>4, <1>5 DEF Next

-----------------------------------------------------------------------------
(* The other writers.                                                      *)

\* The ledgers are not theirs.
LEMMA LedgerSame ==
  ASSUME Ledger, UNCHANGED <<commands, replies, echoes, outbox, tx, clock>>
  PROVE  Ledger'
BY DEF Ledger, TxFresh

LEMMA CustomerStep ==
  ASSUME SysInv, CustomerMessage
  PROVE  RowStep(conv, conv') /\ Ledger'
<1>1. conv' = [conv EXCEPT !.lastActivity = clock] /\ clock \in Nat /\ conv \in Conversation
  BY DEF CustomerMessage, SysInv, Ledger, RowKept
<1>2. RowIs(conv', conv.ownership, conv.status, conv.version, conv.assigned, conv.mode,
            conv.hours, conv.until, clock, conv.handoffs, conv.events)
  BY <1>1, ActivityRow
<1>3. RowStep(conv, conv')
  BY <1>2, RowsOnly DEF RowIs, SysInv
<1> QED  BY <1>3, LedgerSame DEF CustomerMessage, SysInv

\* Both raw closes meet an open row: its status says so.
LEMMA RawCloseStep ==
  ASSUME SysInv, CloseStaleSession \/ BulkClose
  PROVE  RowStep(conv, conv') /\ Ledger'
<1>1. conv.status # "closed" /\ conv' = RawClose(conv)
  BY DEF CloseStaleSession, BulkClose
<1>2. RowStep(conv, conv')
  BY <1>1, RawCloseRow DEF SysInv, RowKept
<1>3. Ledger'
  BY LedgerSame DEF CloseStaleSession, BulkClose, SysInv
<1> QED  BY <1>2, <1>3

LEMMA CancelStaleStep ==
  ASSUME SysInv, CancelStaleHandoff
  PROVE  RowStep(conv, conv') /\ Ledger'
<1>1. RowStep(conv, conv')
  BY CancelRow, SameRowStep DEF CancelStaleHandoff, SysInv
<1> QED  BY <1>1, LedgerSame DEF CancelStaleHandoff, SysInv

LEMMA RemovalStep ==
  ASSUME SysInv, AgentRemoval
  PROVE  RowStep(conv, conv') /\ Ledger'
<1>1. ASSUME NEW a \in Agents, RemovalSelect(a) PROVE RowStep(conv, conv') /\ Ledger'
  BY <1>1, SameRowStep, LedgerSame DEF RemovalSelect, SysInv, vars
<1>2. CASE RemovalUpdateMisses
  BY <1>2, SameRowStep, LedgerSame DEF RemovalUpdateMisses, SysInv, vars
<1>3. CASE RemovalReturnHandoffs
  BY <1>3, ReturnHandoffsRow, LedgerSame DEF RemovalReturnHandoffs, SysInv
<1>4. CASE RemovalUpdateHeld
  <2> DEFINE q == Requeue(conv)
             w == ReturnHandoffs(q, removal.agent)
  <2>1. conv' = w /\ conv.status # "closed"
    BY <1>4 DEF RemovalUpdateHeld, HeldBy
  <2>2. conv.ownership # "closed"
    BY <2>1 DEF SysInv, RowKept
  <2>3. Begins(conv, q, "handoff_requested", NULL)
    BY RequeueRow DEF SysInv
  <2> HIDE DEF q
  <2>4. RowStep(q, w)
    BY <2>3, ReturnHandoffsRow DEF Begins
  <2>5. /\ w.ownership = q.ownership /\ w.version = q.version
    <3> DEFINE ids == {i \in DOMAIN q.handoffs :
                  q.handoffs[i].status = "accepted" /\ q.handoffs[i].agent = removal.agent}
    <3>1. w = SetHandoff(q, ids, "requested", NULL)
      BY DEF ReturnHandoffs
    <3> HIDE DEF ids, w
    <3>2. RowsUpdated(w, q, ids, "requested")
      BY <2>3, <3>1, HandoffUpdate DEF HandoffStatuses, Begins, RowKept
    <3> QED  BY <3>2 DEF RowsUpdated
  <2> HIDE DEF w
  <2>6. RowStep(conv, w)
    BY <2>2, <2>3, <2>4, <2>5 DEF RowStep, Fences, Begins
  <2> QED  BY <1>4, <2>1, <2>6, LedgerSame DEF RemovalUpdateHeld, SysInv
<1> QED  BY <1>1, <1>2, <1>3, <1>4 DEF AgentRemoval

\* Every step of the platform on the row.
LEMMA SysStep ==
  ASSUME SysInv, [SysNext]_allVars
  PROVE  RowStep(conv, conv') /\ Ledger'
<1>1. CASE Next
  BY <1>1, CommandStep
<1>2. CASE BulkClose \/ CloseStaleSession
  BY <1>2, RawCloseStep
<1>3. CASE AgentRemoval
  BY <1>3, RemovalStep
<1>4. CASE CustomerMessage
  BY <1>4, CustomerStep
<1>5. CASE GuardrailPause \/ GuardrailResume \/ SelectStaleHandoff \/ UNCHANGED allVars
  <2>1. conv' = conv /\ UNCHANGED <<commands, replies, echoes, outbox, tx, clock>>
    BY <1>5 DEF GuardrailPause, GuardrailResume, SelectStaleHandoff, vars, allVars
  <2> QED  BY <2>1, SameRowStep, LedgerSame DEF SysInv
<1>6. CASE CancelStaleHandoff
  BY <1>6, CancelStaleStep
<1> QED  BY <1>1, <1>2, <1>3, <1>4, <1>5, <1>6 DEF SysNext, StaleSweep

-----------------------------------------------------------------------------
(* The theorems.                                                           *)

\* The invariant of the row holds under every writer of the platform.
THEOREM SysInvariance == SysSpec => []SysInv
<1>1. SysInit => SysInv
  <2> SUFFICES ASSUME SysInit PROVE SysInv
    OBVIOUS
  <2>1. IInv
    BY InitIInv DEF SysInit
  <2>2. conv.status = "waiting" /\ conv.ownership = "bot_owned"
    BY DEF SysInit, Init
  <2> QED  BY <2>1, <2>2 DEF IInv, Consistent, SysInv, RowKept
<1>2. SysInv /\ [SysNext]_allVars => SysInv'
  BY SysStep DEF SysInv, RowStep
<1> QED  BY <1>1, <1>2, PTL DEF SysSpec

\* Every column and ledger keeps its type under all writers.
THEOREM SysTypeCorrect == SysSpec => []TypeOK
<1>1. SysInv => TypeOK
  BY DEF SysInv, RowKept, Ledger, TypeOK
<1> QED  BY <1>1, SysInvariance, PTL

\* A conversation in the queue or with the bot has neither an operator nor a
\* control policy, and one that a human owns has a policy, whether the command
\* service, a raw close or the removal of an operator wrote the row last.
THEOREM ControlEnds == SysSpec => []ControlEndsWithOwnership
<1>1. SysInv => ControlEndsWithOwnership
  BY NullAssumption DEF SysInv, RowKept, ControlEndsWithOwnership
<1> QED  BY <1>1, SysInvariance, PTL

\* The status gate of the AI pipeline and the ownership column agree under all
\* writers.
THEOREM SysStatusAgrees == SysSpec => []BotServesExactlyItsOwn
<1>1. SysInv => BotServesExactlyItsOwn
  BY DEF SysInv, RowKept, BotServesExactlyItsOwn
<1> QED  BY <1>1, SysInvariance, PTL

\* The version moves with every change of owner and every operator who loses
\* the conversation, whoever writes: what finalizeReply compares is a fence.
THEOREM SysOwnerFenced == SysSpec => SysVersionFencesOwner
<1>1. SysInv /\ [SysNext]_allVars =>
        [ \/ conv'.ownership # conv.ownership
          \/ conv.assigned # NULL /\ conv'.assigned # conv.assigned
          => conv'.version > conv.version ]_allVars
  BY SysStep DEF RowStep, Fences
<1> QED  BY <1>1, SysInvariance, PTL DEF SysSpec, SysVersionFencesOwner

\* No writer reopens or reassigns a closed conversation.
THEOREM SysClosedStays == SysSpec => ClosedRowIsFinal
<1>1. SysInv /\ [SysNext]_allVars =>
        [ conv.ownership = "closed"
          => [conv' EXCEPT !.handoffs = conv.handoffs,
                           !.lastActivity = conv.lastActivity] = conv ]_allVars
  BY SysStep DEF RowStep
<1> QED  BY <1>1, SysInvariance, PTL DEF SysSpec, ClosedRowIsFinal

=============================================================================
