--------------------- MODULE ConversationCommandsProofs ---------------------
(***************************************************************************)
(* Theorems about ConversationCommands, for every set of operators,        *)
(* connections and keys, every bound and every length of an hour.          *)
(***************************************************************************)
EXTENDS ConversationCommands, TLAPS

\* What the fields of one value of the conversation row have to do with each
\* other, as one predicate of that value.
Consistent(v) ==
  /\ v \in Conversation
  /\ \A i, j \in Open(v) : i = j
  /\ \A i \in DOMAIN v.handoffs :
       v.handoffs[i].status = "accepted" => v.ownership = "human_owned"
  /\ (\E i \in DOMAIN v.handoffs : v.handoffs[i].status = "requested")
       <=> v.ownership = "handoff_requested"
  /\ v.mode # NULL <=> v.ownership = "human_owned"
  /\ v.until # NULL <=> v.mode = "timed"
  /\ v.hours # NULL <=> v.mode = "timed"
  /\ v.assigned # NULL => v.ownership \in {"human_owned", "closed"}
  /\ v.status \in {"bot", "waiting"} <=> v.ownership = "bot_owned"
  /\ v.events = v.version

\* The rows of a conversation are numbered from 1.
LEMMA RowIndices ==
  ASSUME NEW v \in Conversation
  PROVE  /\ DOMAIN v.handoffs \subseteq Nat
         /\ \A i \in DOMAIN v.handoffs : v.handoffs[i] \in HandoffRow
BY DEF Conversation

\* An UPDATE of handoff rows changes nothing else and keeps the row type.
LEMMA SetHandoffStatusType ==
  ASSUME NEW v \in Conversation, NEW ids, NEW st \in HandoffStatuses
  PROVE  SetHandoffStatus(v, ids, st) \in Conversation
<1> DEFINE h == [i \in DOMAIN v.handoffs |->
        IF i \in ids THEN [v.handoffs[i] EXCEPT !.status = st] ELSE v.handoffs[i]]
<1>1. v.handoffs \in Seq(HandoffRow)
  BY DEF Conversation
<1>2. \A i \in DOMAIN v.handoffs : h[i] \in HandoffRow
  BY <1>1, RowIndices DEF HandoffRow
<1>3. h \in Seq(HandoffRow)
  <2>1. DOMAIN v.handoffs = 1..Len(v.handoffs) /\ Len(v.handoffs) \in Nat
    BY <1>1
  <2>2. h \in [1..Len(v.handoffs) -> HandoffRow]
    BY <1>2, <2>1
  <2> QED BY <2>1, <2>2
<1>4. SetHandoffStatus(v, ids, st) = [v EXCEPT !.handoffs = h]
  BY DEF SetHandoffStatus
<1> HIDE DEF h
<1> QED BY <1>3, <1>4 DEF Conversation

\* The same for an UPDATE that also sets the operator.
LEMMA SetHandoffType ==
  ASSUME NEW v \in Conversation, NEW ids, NEW st \in HandoffStatuses,
         NEW agent \in Agents \union {NULL}
  PROVE  SetHandoff(v, ids, st, agent) \in Conversation
<1> DEFINE h == [i \in DOMAIN v.handoffs |->
        IF i \in ids THEN [status |-> st, agent |-> agent] ELSE v.handoffs[i]]
<1>1. v.handoffs \in Seq(HandoffRow)
  BY DEF Conversation
<1>2. \A i \in DOMAIN v.handoffs : h[i] \in HandoffRow
  BY <1>1, RowIndices DEF HandoffRow
<1>3. h \in Seq(HandoffRow)
  <2>1. DOMAIN v.handoffs = 1..Len(v.handoffs) /\ Len(v.handoffs) \in Nat
    BY <1>1
  <2>2. h \in [1..Len(v.handoffs) -> HandoffRow]
    BY <1>2, <2>1
  <2> QED BY <2>1, <2>2
<1>4. SetHandoff(v, ids, st, agent) = [v EXCEPT !.handoffs = h]
  BY DEF SetHandoff
<1> HIDE DEF h
<1> QED BY <1>3, <1>4 DEF Conversation

\* In a consistent conversation the newest open row is the only one.
LEMMA LockedRow ==
  ASSUME NEW v, Consistent(v), NEW S \in SUBSET {"requested", "accepted"}
  PROVE  LockHandoff(v, S) = {i \in DOMAIN v.handoffs : v.handoffs[i].status \in S}
<1>1. DOMAIN v.handoffs \subseteq Nat
  BY RowIndices DEF Consistent
<1>2. \A i, j \in DOMAIN v.handoffs :
        v.handoffs[i].status \in S /\ v.handoffs[j].status \in S => i = j
  BY DEF Consistent, Open
<1> QED BY <1>1, <1>2 DEF LockHandoff

\* A value of the row, field by field.
RowIs(w, own, st, ver, asg, md, hr, un, act, rows, ev) ==
  /\ w \in Conversation
  /\ w.ownership = own /\ w.status = st /\ w.version = ver /\ w.assigned = asg
  /\ w.mode = md /\ w.hours = hr /\ w.until = un /\ w.lastActivity = act
  /\ w.handoffs = rows /\ w.events = ev

\* The status an ownership transition writes.
StatusFor(next, prev) ==
  IF next \in {"human_owned", "handoff_requested"} THEN "handoff"
  ELSE IF next = "closed" THEN "closed"
  ELSE IF prev = "waiting" THEN "waiting" ELSE "bot"

\* The row helpers, field by field: the ownership transition ...
LEMMA TransitionForm ==
  ASSUME NEW v \in Conversation, NEW next \in Ownerships
  PROVE  RowIs(ApplyOwnershipTransition(v, next), next, StatusFor(next, v.status), v.version + 1,
               v.assigned, v.mode, v.hours, v.until, v.lastActivity, v.handoffs, v.events)
<1> DEFINE st == DeriveStatusFromOwnership(next, v.status)
           new == IF next = "bot_owned" /\ st = "active" THEN "bot" ELSE st
<1>1. new = StatusFor(next, v.status)
  BY DEF DeriveStatusFromOwnership, StatusFor, Conversation, Statuses, Ownerships
<1>2. new \in Statuses
  BY <1>1 DEF StatusFor, Statuses
<1>3. ApplyOwnershipTransition(v, next) =
        [v EXCEPT !.ownership = next, !.status = new, !.version = v.version + 1]
  BY DEF ApplyOwnershipTransition
<1>4. v.version + 1 \in Nat
  BY DEF Conversation
<1> DEFINE n == v.version + 1
<1> HIDE DEF new, n
<1>5. RowIs([v EXCEPT !.ownership = next, !.status = new, !.version = n],
            next, new, n, v.assigned, v.mode, v.hours, v.until, v.lastActivity,
            v.handoffs, v.events)
  BY <1>2, <1>4 DEF RowIs, Conversation, n
<1> QED BY <1>1, <1>3, <1>5 DEF n

\* ... the system event ...
LEMMA EventForm ==
  ASSUME NEW v \in Conversation
  PROVE  RowIs(PersistSystemEvent(v), v.ownership, v.status, v.version, v.assigned, v.mode,
               v.hours, v.until, v.lastActivity, v.handoffs, v.events + 1)
BY DEF RowIs, Conversation, PersistSystemEvent

\* ... the assignment ...
LEMMA AssignForm ==
  ASSUME NEW v \in Conversation, NEW agent \in Agents \union {NULL}
  PROVE  RowIs(Assign(v, agent), v.ownership, v.status, v.version, agent, v.mode,
               v.hours, v.until, v.lastActivity, v.handoffs, v.events)
BY DEF RowIs, Conversation, Assign

\* ... the end of human control ...
LEMMA ClearForm ==
  ASSUME NEW v \in Conversation
  PROVE  RowIs(ClearHumanControl(v), v.ownership, v.status, v.version, v.assigned, NULL,
               NULL, NULL, v.lastActivity, v.handoffs, v.events)
BY DEF RowIs, Conversation, ClearHumanControl

\* A policy is either indefinite or a whole number of hours.
LEMMA PolicyForm ==
  ASSUME NEW policy \in Policies
  PROVE  \/ policy.mode = "indefinite" /\ policy.hours = NULL
         \/ policy.mode = "timed" /\ policy.hours \in 1..MaxHours
BY DEF Policies, Indefinite, Timed

\* ... and its beginning under a policy.
LEMMA ControlForm ==
  ASSUME NEW v \in Conversation, NEW policy \in Policies, NEW now \in Nat
  PROVE  /\ RowIs(HumanControlColumns(v, policy, now), v.ownership, v.status, v.version,
                  v.assigned, policy.mode, policy.hours,
                  IF policy.mode = "timed" THEN now + HOUR * policy.hours ELSE NULL,
                  v.lastActivity, v.handoffs, v.events)
         /\ policy.mode = "timed" => now + HOUR * policy.hours \in Nat
<1> DEFINE end == IF policy.mode = "timed" THEN now + HOUR * policy.hours ELSE NULL
<1>1. policy.mode = "timed" => now + HOUR * policy.hours \in Nat
  <2> SUFFICES ASSUME policy.mode = "timed" PROVE now + HOUR * policy.hours \in Nat
    OBVIOUS
  <2>1. policy.hours \in Nat
    BY PolicyForm, BoundAssumption
  <2>2. HOUR \in Nat
    BY BoundAssumption
  <2>3. HOUR * policy.hours \in Nat
    BY <2>1, <2>2
  <2> QED BY <2>3
<1>2. /\ policy.mode \in {"timed", "indefinite", NULL}
      /\ policy.hours \in (1..MaxHours) \union {NULL}
      /\ end \in Nat \union {NULL}
  BY <1>1, PolicyForm
<1>3. HumanControlColumns(v, policy, now) =
        [v EXCEPT !.mode = policy.mode, !.hours = policy.hours, !.until = end]
  BY DEF HumanControlColumns
<1> HIDE DEF end
<1>4. RowIs(HumanControlColumns(v, policy, now), v.ownership, v.status, v.version,
                  v.assigned, policy.mode, policy.hours, end,
                  v.lastActivity, v.handoffs, v.events)
  BY <1>2, <1>3 DEF RowIs, Conversation
<1> QED BY <1>1, <1>4 DEF end

\* u is v after an UPDATE that sets the status of the handoff rows ids to st.
RowsUpdated(u, v, ids, st) ==
  /\ u \in Conversation
  /\ u.ownership = v.ownership /\ u.status = v.status /\ u.version = v.version
  /\ u.assigned = v.assigned /\ u.mode = v.mode /\ u.hours = v.hours
  /\ u.until = v.until /\ u.lastActivity = v.lastActivity /\ u.events = v.events
  /\ DOMAIN u.handoffs = DOMAIN v.handoffs
  /\ \A i \in DOMAIN v.handoffs :
       u.handoffs[i].status = IF i \in ids THEN st ELSE v.handoffs[i].status

\* The rows that are in one of the statuses S.
RowsIn(v, S) == {i \in DOMAIN v.handoffs : v.handoffs[i].status \in S}

\* Both UPDATEs change the rows they name and nothing else.
LEMMA StatusUpdate ==
  ASSUME NEW v \in Conversation, NEW ids, NEW st \in HandoffStatuses
  PROVE  RowsUpdated(SetHandoffStatus(v, ids, st), v, ids, st)
<1> DEFINE u == SetHandoffStatus(v, ids, st)
           h == [i \in DOMAIN v.handoffs |->
                   IF i \in ids THEN [v.handoffs[i] EXCEPT !.status = st] ELSE v.handoffs[i]]
<1>1. u \in Conversation
  BY SetHandoffStatusType
<1>2. u = [v EXCEPT !.handoffs = h]
  BY DEF SetHandoffStatus
<1>3. \A i \in DOMAIN v.handoffs :
        h[i].status = IF i \in ids THEN st ELSE v.handoffs[i].status
  BY RowIndices DEF HandoffRow
<1>4. DOMAIN h = DOMAIN v.handoffs
  OBVIOUS
<1> HIDE DEF h, u
<1>5. /\ u.ownership = v.ownership /\ u.status = v.status /\ u.version = v.version
      /\ u.assigned = v.assigned /\ u.mode = v.mode /\ u.hours = v.hours
      /\ u.until = v.until /\ u.lastActivity = v.lastActivity /\ u.events = v.events
      /\ u.handoffs = h
  BY <1>2 DEF Conversation
<1>6. RowsUpdated(u, v, ids, st)
  BY <1>1, <1>3, <1>4, <1>5 DEF RowsUpdated
<1> QED BY <1>6 DEF u

LEMMA HandoffUpdate ==
  ASSUME NEW v \in Conversation, NEW ids, NEW st \in HandoffStatuses,
         NEW agent \in Agents \union {NULL}
  PROVE  RowsUpdated(SetHandoff(v, ids, st, agent), v, ids, st)
<1> DEFINE u == SetHandoff(v, ids, st, agent)
           h == [i \in DOMAIN v.handoffs |->
                   IF i \in ids THEN [status |-> st, agent |-> agent] ELSE v.handoffs[i]]
<1>1. u \in Conversation
  BY SetHandoffType
<1>2. u = [v EXCEPT !.handoffs = h]
  BY DEF SetHandoff
<1>3. \A i \in DOMAIN v.handoffs :
        h[i].status = IF i \in ids THEN st ELSE v.handoffs[i].status
  BY RowIndices DEF HandoffRow
<1>4. DOMAIN h = DOMAIN v.handoffs
  OBVIOUS
<1> HIDE DEF h, u
<1>5. /\ u.ownership = v.ownership /\ u.status = v.status /\ u.version = v.version
      /\ u.assigned = v.assigned /\ u.mode = v.mode /\ u.hours = v.hours
      /\ u.until = v.until /\ u.lastActivity = v.lastActivity /\ u.events = v.events
      /\ u.handoffs = h
  BY <1>2 DEF Conversation
<1>6. RowsUpdated(u, v, ids, st)
  BY <1>1, <1>3, <1>4, <1>5 DEF RowsUpdated
<1> QED BY <1>6 DEF u

\* The statements every return to the bot ends with.
Returned(u) == PersistSystemEvent(ClearHumanControl(Assign(ApplyOwnershipTransition(u, "bot_owned"), NULL)))

\* The statements every takeover by a human ends with.
Taken(u, agent, policy, now) ==
  PersistSystemEvent(HumanControlColumns(
    Assign(ApplyOwnershipTransition(u, "human_owned"), agent), policy, now))

\* The deadline a policy sets.
Deadline(policy, now) == IF policy.mode = "timed" THEN now + HOUR * policy.hours ELSE NULL

LEMMA ReturnedForm ==
  ASSUME NEW u \in Conversation
  PROVE  RowIs(Returned(u), "bot_owned", StatusFor("bot_owned", u.status), u.version + 1, NULL,
               NULL, NULL, NULL, u.lastActivity, u.handoffs, u.events + 1)
<1> DEFINE t == ApplyOwnershipTransition(u, "bot_owned")
           a == Assign(t, NULL)
           c == ClearHumanControl(a)
           w == PersistSystemEvent(c)
<1>1. Returned(u) = w
  BY DEF Returned
<1>2. RowIs(t, "bot_owned", StatusFor("bot_owned", u.status), u.version + 1,
            u.assigned, u.mode, u.hours, u.until, u.lastActivity, u.handoffs, u.events)
  BY TransitionForm DEF Ownerships
<1> HIDE DEF t
<1>3. RowIs(a, t.ownership, t.status, t.version, NULL, t.mode, t.hours, t.until,
            t.lastActivity, t.handoffs, t.events)
  BY <1>2, AssignForm DEF RowIs
<1> HIDE DEF a
<1>4. RowIs(c, a.ownership, a.status, a.version, a.assigned, NULL, NULL, NULL,
            a.lastActivity, a.handoffs, a.events)
  BY <1>3, ClearForm DEF RowIs
<1> HIDE DEF c
<1>5. RowIs(w, c.ownership, c.status, c.version, c.assigned, c.mode, c.hours, c.until,
            c.lastActivity, c.handoffs, c.events + 1)
  BY <1>4, EventForm DEF RowIs
<1> HIDE DEF w
<1> QED BY <1>1, <1>2, <1>3, <1>4, <1>5 DEF RowIs

LEMMA TakenForm ==
  ASSUME NEW u \in Conversation, NEW agent \in Agents \union {NULL},
         NEW policy \in Policies, NEW now \in Nat
  PROVE  RowIs(Taken(u, agent, policy, now), "human_owned", "handoff", u.version + 1, agent,
               policy.mode, policy.hours, Deadline(policy, now), u.lastActivity, u.handoffs,
               u.events + 1)
<1> DEFINE t == ApplyOwnershipTransition(u, "human_owned")
           a == Assign(t, agent)
           c == HumanControlColumns(a, policy, now)
           w == PersistSystemEvent(c)
<1>1. Taken(u, agent, policy, now) = w
  BY DEF Taken
<1>2. RowIs(t, "human_owned", "handoff", u.version + 1,
            u.assigned, u.mode, u.hours, u.until, u.lastActivity, u.handoffs, u.events)
  <2>1. StatusFor("human_owned", u.status) = "handoff"
    BY DEF StatusFor
  <2> QED BY <2>1, TransitionForm DEF Ownerships
<1> HIDE DEF t
<1>3. RowIs(a, t.ownership, t.status, t.version, agent, t.mode, t.hours, t.until,
            t.lastActivity, t.handoffs, t.events)
  BY <1>2, AssignForm DEF RowIs
<1> HIDE DEF a
<1>4. RowIs(c, a.ownership, a.status, a.version, a.assigned, policy.mode, policy.hours,
            Deadline(policy, now), a.lastActivity, a.handoffs, a.events)
  BY <1>3, ControlForm DEF RowIs, Deadline
<1> HIDE DEF c
<1>5. RowIs(w, c.ownership, c.status, c.version, c.assigned, c.mode, c.hours, c.until,
            c.lastActivity, c.handoffs, c.events + 1)
  BY <1>4, EventForm DEF RowIs
<1> HIDE DEF w
<1> QED BY <1>1, <1>2, <1>3, <1>4, <1>5 DEF RowIs

\* The columns of a policy agree with each other.
LEMMA PolicyColumns ==
  ASSUME NEW policy \in Policies, NEW now \in Nat
  PROVE  /\ policy.mode # NULL
         /\ Deadline(policy, now) # NULL <=> policy.mode = "timed"
         /\ policy.hours # NULL <=> policy.mode = "timed"
<1>1. policy.mode = "timed" => now + HOUR * policy.hours \in Nat
  <2>1. policy.mode = "timed" => policy.hours \in Nat
    BY PolicyForm, BoundAssumption
  <2>2. HOUR \in Nat
    BY BoundAssumption
  <2> QED BY <2>1, <2>2
<1> QED BY <1>1, PolicyForm, NullAssumption, BoundAssumption DEF Deadline

LEMMA IndefinitePolicy == Indefinite \in Policies
BY DEF Policies

\* What a takeover does to a conversation whose requested row was accepted.
TakenOver(w, v, agent) ==
  /\ Consistent(w)
  /\ w.ownership = "human_owned"
  /\ w.assigned = agent
  /\ w.version = v.version + 1

LEMMA TakenConsistent ==
  ASSUME NEW v, Consistent(v), v.ownership # "closed",
         NEW u, RowsUpdated(u, v, RowsIn(v, {"requested"}), "accepted"),
         NEW agent \in Agents \union {NULL}, NEW policy \in Policies, NEW now \in Nat
  PROVE  TakenOver(Taken(u, agent, policy, now), v, agent)
<1> DEFINE w == Taken(u, agent, policy, now)
<1>1. RowIs(w, "human_owned", "handoff", u.version + 1, agent,
            policy.mode, policy.hours, Deadline(policy, now), u.lastActivity, u.handoffs,
            u.events + 1)
  BY TakenForm DEF RowsUpdated
<1> HIDE DEF w
<1>2. \A i \in DOMAIN w.handoffs :
        /\ w.handoffs[i].status # "requested"
        /\ i \in Open(w) => i \in Open(v)
  BY <1>1 DEF RowIs, RowsUpdated, RowsIn, Open
<1>3. \A i, j \in Open(w) : i = j
  BY <1>2 DEF Consistent, Open
<1>4. /\ w.mode # NULL
      /\ w.until # NULL <=> w.mode = "timed"
      /\ w.hours # NULL <=> w.mode = "timed"
  BY <1>1, PolicyColumns DEF RowIs
<1>5. w.events = w.version /\ w.version = v.version + 1
  BY <1>1 DEF RowIs, RowsUpdated, Consistent
<1>6. TakenOver(w, v, agent)
  BY <1>1, <1>2, <1>3, <1>4, <1>5 DEF Consistent, TakenOver, RowIs
<1> QED BY <1>6 DEF w

\* An operator's claim accepts the queued row and takes the conversation over.
LEMMA ClaimConsistent ==
  ASSUME NEW v, Consistent(v), v.ownership # "closed",
         NEW agent \in Agents, NEW policy \in Policies, NEW now \in Nat
  PROVE  TakenOver(ApplyClaim(v, agent, policy, now), v, agent)
<1> DEFINE u == SetHandoff(v, LockHandoff(v, {"requested"}), "accepted", agent)
<1>1. RowsUpdated(u, v, RowsIn(v, {"requested"}), "accepted")
  BY LockedRow, HandoffUpdate DEF HandoffStatuses, RowsIn, Consistent
<1>2. ApplyClaim(v, agent, policy, now) = Taken(u, agent, policy, now)
  BY DEF ApplyClaim, Taken
<1> HIDE DEF u
<1> QED BY <1>1, <1>2, TakenConsistent

\* A page-inbox reply does the same for nobody in particular.
LEMMA PauseConsistent ==
  ASSUME NEW v, Consistent(v), v.ownership # "closed", NEW now \in Nat
  PROVE  TakenOver(ApplyUnassignedHumanPause(v, now), v, NULL)
<1> DEFINE u == SetHandoffStatus(v, LockHandoff(v, {"requested"}), "accepted")
<1>1. RowsUpdated(u, v, RowsIn(v, {"requested"}), "accepted")
  BY LockedRow, StatusUpdate DEF HandoffStatuses, RowsIn, Consistent
<1>2. ApplyUnassignedHumanPause(v, now) = Taken(u, NULL, Indefinite, now)
  BY DEF ApplyUnassignedHumanPause, Taken
<1> HIDE DEF u
<1> QED BY <1>1, <1>2, TakenConsistent, IndefinitePolicy

\* Returning the conversation to the bot once its open row is settled.
LEMMA ReturnedConsistent ==
  ASSUME NEW v, Consistent(v), NEW u \in Conversation,
         u.version = v.version, u.events = v.events,
         \A i \in DOMAIN u.handoffs : u.handoffs[i].status \notin {"requested", "accepted"}
  PROVE  /\ Consistent(Returned(u))
         /\ Returned(u).ownership = "bot_owned"
         /\ Returned(u).assigned = NULL
         /\ Returned(u).version = v.version + 1
<1> DEFINE w == Returned(u)
<1>1. RowIs(w, "bot_owned", StatusFor("bot_owned", u.status), u.version + 1, NULL,
            NULL, NULL, NULL, u.lastActivity, u.handoffs, u.events + 1)
  BY ReturnedForm
<1> HIDE DEF w
<1>2. \A i \in DOMAIN w.handoffs : w.handoffs[i].status \notin {"requested", "accepted"}
  BY <1>1 DEF RowIs
<1>3. Consistent(w)
  BY <1>1, <1>2, NullAssumption DEF Consistent, RowIs, Open, StatusFor
<1> QED BY <1>1, <1>3 DEF RowIs, w

\* Releasing completes the accepted row: no open row is left.
LEMMA ReleaseConsistent ==
  ASSUME NEW v, Consistent(v), v.ownership = "human_owned"
  PROVE  /\ Consistent(ApplyRelease(v))
         /\ ApplyRelease(v).ownership = "bot_owned"
         /\ ApplyRelease(v).assigned = NULL
         /\ ApplyRelease(v).version = v.version + 1
<1> DEFINE u == SetHandoffStatus(v, LockHandoff(v, {"accepted"}), "completed")
<1>1. RowsUpdated(u, v, RowsIn(v, {"accepted"}), "completed")
  <2>1. LockHandoff(v, {"accepted"}) = RowsIn(v, {"accepted"})
    BY LockedRow DEF RowsIn
  <2>2. v \in Conversation /\ "completed" \in HandoffStatuses
    BY DEF HandoffStatuses, Consistent
  <2> QED BY <2>1, <2>2, StatusUpdate
<1>2. ApplyRelease(v) = Returned(u)
  BY DEF ApplyRelease, Returned
<1> HIDE DEF u
<1>3. \A i \in DOMAIN v.handoffs : v.handoffs[i].status # "requested"
  BY DEF Consistent
<1>4. \A i \in DOMAIN u.handoffs : u.handoffs[i].status \notin {"requested", "accepted"}
  BY <1>1, <1>3 DEF RowsUpdated, RowsIn
<1> QED BY <1>1, <1>2, <1>4, ReturnedConsistent DEF RowsUpdated

\* Cancelling settles the requested row; a conversation the bot already owns
\* stays as it is.
LEMMA CancelConsistent ==
  ASSUME NEW v, Consistent(v), v.ownership \in {"bot_owned", "handoff_requested"},
         NEW actor
  PROVE  /\ Consistent(CancelledRow(v, actor))
         /\ CancelledRow(v, actor).ownership = "bot_owned"
         /\ CancelledRow(v, actor).assigned = NULL
         /\ CancelledRow(v, actor).version =
              IF v.ownership = "bot_owned" THEN v.version ELSE v.version + 1
<1> DEFINE st == IF actor = "system" THEN "timeout" ELSE "rejected"
           u == SetHandoffStatus(v, LockHandoff(v, {"requested"}), st)
           w == SetHandoffStatus(v, LockHandoff(v, {"requested"}), "rejected")
<1>1. RowsUpdated(u, v, RowsIn(v, {"requested"}), st)
  <2>1. st \in HandoffStatuses
    BY DEF HandoffStatuses
  <2> HIDE DEF st
  <2> QED BY <2>1, LockedRow, StatusUpdate DEF RowsIn, Consistent
<1>2. RowsUpdated(w, v, RowsIn(v, {"requested"}), "rejected")
  BY LockedRow, StatusUpdate DEF HandoffStatuses, RowsIn, Consistent
<1>3. CancelledRow(v, actor) = IF v.ownership = "bot_owned" THEN w ELSE Returned(u)
  BY DEF CancelledRow, Returned
<1>4. st \notin {"requested", "accepted"}
  OBVIOUS
<1>5. \A i \in DOMAIN v.handoffs : v.handoffs[i].status # "accepted"
  BY DEF Consistent
<1> HIDE DEF u, w, st
<1>6. CASE v.ownership = "bot_owned"
  <2>1. \A i \in DOMAIN w.handoffs : w.handoffs[i].status \notin {"requested", "accepted"}
    BY <1>2, <1>5 DEF RowsUpdated, RowsIn
  <2>2. Consistent(w)
    BY <1>2, <1>6, <2>1 DEF Consistent, RowsUpdated, Open
  <2> QED BY <1>2, <1>3, <1>6, <2>2 DEF RowsUpdated, Consistent
<1>7. CASE v.ownership = "handoff_requested"
  <2>1. \A i \in DOMAIN u.handoffs : u.handoffs[i].status \notin {"requested", "accepted"}
    BY <1>1, <1>4, <1>5 DEF RowsUpdated, RowsIn
  <2> QED BY <1>1, <1>3, <1>7, <2>1, ReturnedConsistent DEF RowsUpdated
<1> QED BY <1>6, <1>7

\* Closing settles the open row, whichever it is, and ends the human control.
LEMMA CloseConsistent ==
  ASSUME NEW v, Consistent(v)
  PROVE  /\ Consistent(ApplyClose(v))
         /\ ApplyClose(v).ownership = "closed"
         /\ ApplyClose(v).assigned = v.assigned
         /\ ApplyClose(v).version = v.version + 1
<1> DEFINE open == LockHandoff(v, {"requested", "accepted"})
           rejected == {i \in open : v.handoffs[i].status = "requested"}
           r == SetHandoffStatus(v, rejected, "rejected")
           u == SetHandoffStatus(r, open \ rejected, "completed")
           t == ApplyOwnershipTransition(u, "closed")
           c == ClearHumanControl(t)
           w == PersistSystemEvent(c)
<1>1. ApplyClose(v) = w
  BY DEF ApplyClose
<1>2. open = RowsIn(v, {"requested", "accepted"})
  BY LockedRow DEF RowsIn
<1>3. rejected = RowsIn(v, {"requested"})
  BY <1>2 DEF RowsIn
<1> HIDE DEF rejected, open
<1>4. RowsUpdated(r, v, rejected, "rejected")
  BY StatusUpdate DEF HandoffStatuses, Consistent
<1> HIDE DEF r
<1>5. RowsUpdated(u, r, open \ rejected, "completed")
  BY <1>4, StatusUpdate DEF HandoffStatuses, RowsUpdated
<1> HIDE DEF u
<1>6. RowIs(t, "closed", "closed", u.version + 1,
            u.assigned, u.mode, u.hours, u.until, u.lastActivity, u.handoffs, u.events)
  <2>1. StatusFor("closed", u.status) = "closed"
    BY DEF StatusFor
  <2> QED BY <1>5, <2>1, TransitionForm DEF Ownerships, RowsUpdated
<1> HIDE DEF t
<1>7. RowIs(c, t.ownership, t.status, t.version, t.assigned, NULL, NULL, NULL,
            t.lastActivity, t.handoffs, t.events)
  BY <1>6, ClearForm DEF RowIs
<1> HIDE DEF c
<1>8. RowIs(w, c.ownership, c.status, c.version, c.assigned, c.mode, c.hours, c.until,
            c.lastActivity, c.handoffs, c.events + 1)
  BY <1>7, EventForm DEF RowIs
<1> HIDE DEF w
<1>9. RowIs(w, "closed", "closed", v.version + 1, v.assigned, NULL, NULL, NULL,
            v.lastActivity, u.handoffs, v.events + 1)
  BY <1>4, <1>5, <1>6, <1>7, <1>8 DEF RowIs, RowsUpdated
<1>10. \A i \in DOMAIN u.handoffs : u.handoffs[i].status \notin {"requested", "accepted"}
  BY <1>2, <1>3, <1>4, <1>5 DEF RowsUpdated, RowsIn
<1>11. Consistent(w)
  BY <1>9, <1>10, NullAssumption DEF Consistent, RowIs, Open
<1> QED BY <1>1, <1>9, <1>11 DEF RowIs

\* A free conversation a human owns may be given an operator ...
LEMMA HeldConsistent ==
  ASSUME NEW v, Consistent(v), v.ownership = "human_owned", NEW agent \in Agents
  PROVE  /\ Consistent(Assign(v, agent))
         /\ Assign(v, agent).ownership = "human_owned"
         /\ Assign(v, agent).assigned = agent
         /\ Assign(v, agent).version = v.version
         /\ Assign(v, agent).mode = v.mode
         /\ Assign(v, agent).until = v.until
<1> DEFINE w == Assign(v, agent)
<1>1. RowIs(w, v.ownership, v.status, v.version, agent, v.mode,
               v.hours, v.until, v.lastActivity, v.handoffs, v.events)
  BY AssignForm DEF Consistent
<1> HIDE DEF w
<1>2. Consistent(w)
  BY <1>1 DEF Consistent, RowIs, Open
<1> QED BY <1>1, <1>2 DEF RowIs, w

\* ... a new policy ...
LEMMA PolicyConsistent ==
  ASSUME NEW v, Consistent(v), v.ownership = "human_owned", NEW policy \in Policies, NEW now \in Nat
  PROVE  /\ Consistent(HumanControlColumns(v, policy, now))
         /\ HumanControlColumns(v, policy, now).ownership = "human_owned"
         /\ HumanControlColumns(v, policy, now).assigned = v.assigned
         /\ HumanControlColumns(v, policy, now).version = v.version
<1> DEFINE w == HumanControlColumns(v, policy, now)
<1>1. RowIs(w, v.ownership, v.status, v.version, v.assigned, policy.mode, policy.hours,
            Deadline(policy, now), v.lastActivity, v.handoffs, v.events)
  BY ControlForm DEF Consistent, Deadline
<1> HIDE DEF w
<1>2. Consistent(w)
  BY <1>1, PolicyColumns DEF Consistent, RowIs, Open
<1> QED BY <1>1, <1>2 DEF RowIs, w

\* ... or, under timed control, a later deadline.
LEMMA SlideConsistent ==
  ASSUME NEW v, Consistent(v), v.mode = "timed", NEW end \in Nat
  PROVE  /\ Consistent([v EXCEPT !.until = end])
         /\ [v EXCEPT !.until = end].ownership = v.ownership
         /\ [v EXCEPT !.until = end].assigned = v.assigned
         /\ [v EXCEPT !.until = end].version = v.version
<1> DEFINE w == [v EXCEPT !.until = end]
<1>1. RowIs(w, v.ownership, v.status, v.version, v.assigned, v.mode, v.hours, end,
            v.lastActivity, v.handoffs, v.events)
  BY DEF Consistent, Conversation, RowIs
<1>2. end # NULL
  BY NullAssumption
<1> HIDE DEF w
<1>3. Consistent(w)
  BY <1>1, <1>2 DEF Consistent, RowIs, Open
<1> QED BY <1>1, <1>3 DEF RowIs, w

\* A message moves last_activity_at only.
LEMMA ActivityConsistent ==
  ASSUME NEW v, Consistent(v), NEW now \in Nat
  PROVE  /\ Consistent([v EXCEPT !.lastActivity = now])
         /\ [v EXCEPT !.lastActivity = now].ownership = v.ownership
         /\ [v EXCEPT !.lastActivity = now].assigned = v.assigned
         /\ [v EXCEPT !.lastActivity = now].version = v.version
<1> DEFINE w == [v EXCEPT !.lastActivity = now]
<1>1. RowIs(w, v.ownership, v.status, v.version, v.assigned, v.mode, v.hours, v.until,
            now, v.handoffs, v.events)
  BY DEF Consistent, Conversation, RowIs
<1> HIDE DEF w
<1>2. Consistent(w)
  BY <1>1 DEF Consistent, RowIs, Open
<1> QED BY <1>1, <1>2 DEF RowIs, w

\* A transfer that keeps the running control: takeover without new columns.
Kept(u, agent) ==
  PersistSystemEvent(Assign(ApplyOwnershipTransition(u, "human_owned"), agent))

LEMMA KeptConsistent ==
  ASSUME NEW v, Consistent(v), v.ownership = "human_owned",
         NEW u, RowsUpdated(u, v, RowsIn(v, {"requested"}), "accepted"), NEW agent \in Agents
  PROVE  TakenOver(Kept(u, agent), v, agent)
<1> DEFINE t == ApplyOwnershipTransition(u, "human_owned")
           a == Assign(t, agent)
           w == PersistSystemEvent(a)
<1>1. Kept(u, agent) = w
  BY DEF Kept
<1>2. RowIs(t, "human_owned", "handoff", u.version + 1,
            u.assigned, u.mode, u.hours, u.until, u.lastActivity, u.handoffs, u.events)
  <2>1. StatusFor("human_owned", u.status) = "handoff"
    BY DEF StatusFor
  <2> QED BY <2>1, TransitionForm DEF Ownerships, RowsUpdated
<1> HIDE DEF t
<1>3. RowIs(a, t.ownership, t.status, t.version, agent, t.mode, t.hours, t.until,
            t.lastActivity, t.handoffs, t.events)
  BY <1>2, AssignForm DEF RowIs
<1> HIDE DEF a
<1>4. RowIs(w, a.ownership, a.status, a.version, a.assigned, a.mode, a.hours, a.until,
            a.lastActivity, a.handoffs, a.events + 1)
  BY <1>3, EventForm DEF RowIs
<1> HIDE DEF w
<1>5. RowIs(w, "human_owned", "handoff", v.version + 1, agent, v.mode, v.hours, v.until,
            v.lastActivity, u.handoffs, v.events + 1)
  BY <1>2, <1>3, <1>4 DEF RowIs, RowsUpdated
<1>6. \A i \in DOMAIN w.handoffs :
        /\ w.handoffs[i].status # "requested"
        /\ i \in Open(w) => i \in Open(v)
  BY <1>5 DEF RowIs, RowsUpdated, RowsIn, Open
<1>7. \A i, j \in Open(w) : i = j
  BY <1>6 DEF Consistent, Open
<1>8. TakenOver(w, v, agent)
  BY <1>5, <1>6, <1>7 DEF Consistent, TakenOver, RowIs
<1> QED BY <1>1, <1>8

\* A new request: one requested row in a conversation that had no open row.
LEMMA RequestConsistent ==
  ASSUME NEW v, Consistent(v), v.ownership = "bot_owned"
  PROVE  LET saved == [v EXCEPT !.handoffs = Append(@, [status |-> "requested", agent |-> NULL])]
             w == PersistSystemEvent(ApplyOwnershipTransition(saved, "handoff_requested"))
         IN  /\ Consistent(w)
             /\ w.ownership = "handoff_requested"
             /\ w.assigned = NULL
             /\ w.version = v.version + 1
<1> DEFINE row == [status |-> "requested", agent |-> NULL]
           h == Append(v.handoffs, row)
           u == [v EXCEPT !.handoffs = h]
           t == ApplyOwnershipTransition(u, "handoff_requested")
           w == PersistSystemEvent(t)
<1>1. v.handoffs \in Seq(HandoffRow) /\ row \in HandoffRow
  BY DEF Consistent, Conversation, HandoffRow, HandoffStatuses
<1>2. /\ h \in Seq(HandoffRow)
      /\ DOMAIN h = DOMAIN v.handoffs \union {Len(v.handoffs) + 1}
      /\ \A i \in DOMAIN v.handoffs : h[i] = v.handoffs[i]
      /\ h[Len(v.handoffs) + 1] = row
      /\ Len(v.handoffs) + 1 \notin DOMAIN v.handoffs
  <2> HIDE DEF row
  <2> QED BY <1>1
<1>3. \A i \in DOMAIN v.handoffs : v.handoffs[i].status \notin {"requested", "accepted"}
  BY DEF Consistent
<1> HIDE DEF h
<1>4. RowIs(u, v.ownership, v.status, v.version, v.assigned, v.mode, v.hours, v.until,
            v.lastActivity, h, v.events)
  BY <1>2 DEF Consistent, Conversation, RowIs
<1> HIDE DEF u
<1>5. RowIs(t, "handoff_requested", "handoff", u.version + 1,
            u.assigned, u.mode, u.hours, u.until, u.lastActivity, u.handoffs, u.events)
  <2>1. StatusFor("handoff_requested", u.status) = "handoff"
    BY DEF StatusFor
  <2> QED BY <1>4, <2>1, TransitionForm DEF Ownerships, RowIs
<1> HIDE DEF t
<1>6. RowIs(w, t.ownership, t.status, t.version, t.assigned, t.mode, t.hours, t.until,
            t.lastActivity, t.handoffs, t.events + 1)
  BY <1>5, EventForm DEF RowIs
<1> HIDE DEF w
<1>7. RowIs(w, "handoff_requested", "handoff", v.version + 1, v.assigned, v.mode, v.hours,
            v.until, v.lastActivity, h, v.events + 1)
  BY <1>4, <1>5, <1>6 DEF RowIs
<1>8. h[Len(v.handoffs) + 1].status = "requested"
  BY <1>2
<1>9. /\ \A i \in DOMAIN h : h[i].status # "accepted"
      /\ \E i \in DOMAIN h : h[i].status = "requested"
      /\ \A i \in DOMAIN h : h[i].status \in {"requested", "accepted"} => i = Len(v.handoffs) + 1
  BY <1>2, <1>3, <1>8
<1>10. \A i, j \in Open(w) : i = j
  BY <1>7, <1>9 DEF RowIs, Open
<1>11. /\ v.mode = NULL /\ v.assigned = NULL
       /\ v.until # NULL <=> v.mode = "timed"
       /\ v.hours # NULL <=> v.mode = "timed"
       /\ v.events = v.version
  BY DEF Consistent
<1>12. Consistent(w)
  BY <1>7, <1>9, <1>10, <1>11 DEF Consistent, RowIs
<1>13. Consistent(w) /\ w.ownership = "handoff_requested" /\ w.assigned = NULL
       /\ w.version = v.version + 1
  BY <1>7, <1>11, <1>12 DEF RowIs
<1> QED BY <1>13 DEF w, t, u, h

-----------------------------------------------------------------------------
(* The inductive invariant and its preservation.                           *)

\* No open transaction began in the future or waits longer than MaxTxAge.
TxFresh ==
  \A c \in Conns : tx[c] # NULL => tx[c] <= clock /\ clock <= tx[c] + MaxTxAge

\* Everything but the conversation row.
Ledger ==
  /\ commands \in [CommandNames \X Keys -> {0, 1}]
  /\ replies \in [ClientMsgs -> {0, 1}]
  /\ echoes \in [PageMsgs -> {0, 1}]
  /\ outbox \in SUBSET Nat
  /\ tx \in [Conns -> Nat \union {NULL}]
  /\ clock \in Nat
  /\ TxFresh

IInv == Consistent(conv) /\ Ledger

\* One move of the abstract Ownership, or none, between two values of the row.
HolderOf(v) == IF v.ownership = "human_owned" THEN v.assigned ELSE NULL

Begun(v, w, own, h) ==
  w.ownership = own /\ HolderOf(w) = h /\ w.version = v.version + 1

OwnerMove(v, w) ==
  \/ w.ownership = v.ownership /\ HolderOf(w) = HolderOf(v) /\ w.version = v.version
  \/ v.ownership = "bot_owned" /\ Begun(v, w, "handoff_requested", NULL)
  \/ v.ownership \in {"bot_owned", "handoff_requested"} /\ Begun(v, w, "human_owned", NULL)
  \/ v.ownership \in {"handoff_requested", "human_owned"} /\ Begun(v, w, "bot_owned", NULL)
  \/ v.ownership # "closed" /\ Begun(v, w, "closed", NULL)
  \/ \E a \in Agents :
       \/ v.ownership # "closed" /\ Begun(v, w, "human_owned", a)
       \/ /\ v.ownership = "human_owned" /\ w.ownership = "human_owned" /\ w.assigned = a
          /\ \/ v.assigned = NULL /\ w.version = v.version
             \/ v.assigned \in {a, NULL} /\ w.version = v.version + 2

\* What every step makes of the conversation row.
ConvStep ==
  /\ Consistent(conv')
  /\ OwnerMove(conv, conv')
  /\ conv.ownership = "closed" => conv' = conv
  /\ NoRenewal(clock - MaxTxAge)

\* A step that leaves the row alone, and one that begins a new ownership.
LEMMA SameRow ==
  ASSUME IInv, conv' = conv
  PROVE  ConvStep
BY DEF IInv, ConvStep, OwnerMove, HolderOf, NoRenewal, DeadlineOver

LEMMA NewVersion ==
  ASSUME IInv, Consistent(conv'), conv'.version > conv.version, conv.ownership # "closed",
         OwnerMove(conv, conv')
  PROVE  ConvStep
<1>1. conv.version \in Nat
  BY DEF IInv, Consistent, Conversation
<1>2. conv'.version # conv.version
  BY <1>1
<1> QED BY <1>2 DEF ConvStep, NoRenewal

\* An operator takes the conversation over, or releases and claims it again.
LEMMA TakenStep ==
  ASSUME IInv, conv.ownership # "closed", NEW agent \in Agents, TakenOver(conv', conv, agent)
  PROVE  ConvStep
<1>1. conv.version \in Nat
  BY DEF IInv, Consistent, Conversation
<1>2. Begun(conv, conv', "human_owned", agent)
  BY DEF TakenOver, Begun, HolderOf
<1>3. OwnerMove(conv, conv')
  BY <1>2 DEF OwnerMove
<1> QED BY <1>1, <1>3, NewVersion DEF TakenOver

LEMMA ReclaimedStep ==
  ASSUME IInv, conv.ownership = "human_owned", NEW agent \in Agents, MayTake(conv, agent),
         Consistent(conv'), conv'.ownership = "human_owned", conv'.assigned = agent,
         conv'.version = conv.version + 2
  PROVE  ConvStep
<1>1. conv.version \in Nat
  BY DEF IInv, Consistent, Conversation
<1>2. OwnerMove(conv, conv')
  BY DEF OwnerMove, MayTake
<1> QED BY <1>1, <1>2, NewVersion

\* What a transaction that got the lock knows of its now().
LEMMA LockGranted ==
  ASSUME Ledger, NEW c \in Conns, tx[c] # NULL
  PROVE  tx[c] \in Nat /\ tx[c] <= clock /\ clock <= tx[c] + MaxTxAge
BY DEF Ledger, TxFresh

\* A keyed command applies a key once and ends its transaction.
LEMMA KeyedLedger ==
  ASSUME Ledger, NEW c \in Conns, NEW cmd \in CommandNames, NEW key \in Keys \union {NULL},
         WithConversation(c, cmd, key)
  PROVE  /\ commands' \in [CommandNames \X Keys -> {0, 1}]
         /\ tx' \in [Conns -> Nat \union {NULL}]
         /\ clock' = clock
         /\ TxFresh'
<1>1. commands' \in [CommandNames \X Keys -> {0, 1}]
  <2>1. CASE key = NULL
    BY <2>1 DEF WithConversation, Ledger
  <2>2. CASE key # NULL
    <3> DEFINE ck == <<cmd, key>>
    <3>1. ck \in CommandNames \X Keys
      BY <2>2
    <3>2. commands[ck] = 0 /\ commands' = [commands EXCEPT ![ck] = commands[ck] + 1]
      BY <2>2 DEF WithConversation
    <3>3. commands \in [CommandNames \X Keys -> {0, 1}]
      BY DEF Ledger
    <3> HIDE DEF ck
    <3> QED BY <3>1, <3>2, <3>3
  <2> QED BY <2>1, <2>2
<1>2. tx' = [tx EXCEPT ![c] = NULL] /\ clock' = clock
  BY DEF WithConversation
<1> QED BY <1>1, <1>2 DEF Ledger, TxFresh

LEMMA UnkeyedLedger ==
  ASSUME Ledger, NEW c \in Conns, WithConversationUnkeyed(c)
  PROVE  /\ commands' \in [CommandNames \X Keys -> {0, 1}]
         /\ tx' \in [Conns -> Nat \union {NULL}]
         /\ clock' = clock
         /\ TxFresh'
<1>1. tx' = [tx EXCEPT ![c] = NULL] /\ clock' = clock /\ commands' = commands
  BY DEF WithConversationUnkeyed
<1> QED BY <1>1 DEF Ledger, TxFresh

LEMMA KeyChoiceType ==
  ASSUME NEW cmd, NEW key \in KeyChoice(cmd)
  PROVE  key \in Keys \union {NULL}
BY DEF KeyChoice

LEMMA RequestStep ==
  ASSUME IInv, NEW c \in Conns, NEW notify \in BOOLEAN, NEW disabled \in BOOLEAN,
         RequestHandoff(c, notify, disabled)
  PROVE  ConvStep /\ Ledger'
<1>1. PICK key \in KeyChoice("request_handoff") :
        WithConversation(c, "request_handoff", key)
  BY DEF RequestHandoff
<1>2. /\ replies' = replies /\ echoes' = echoes
      /\ conv.ownership # "closed"
  BY DEF RequestHandoff
<1>3. Len(conv.handoffs) + 1 \in Nat
  BY DEF IInv, Consistent, Conversation
<1>4. outbox' \in SUBSET Nat
  BY <1>3 DEF RequestHandoff, IInv, Ledger
<1>5. Ledger'
  <2>1. key \in Keys \union {NULL}
    BY KeyChoiceType
  <2>2. "request_handoff" \in CommandNames
    BY DEF CommandNames
  <2> QED BY <1>1, <1>2, <1>4, <2>1, <2>2, KeyedLedger DEF IInv, Ledger
<1>6. LockHandoff(conv, {"requested"}) # {} => conv.ownership = "handoff_requested"
  BY DEF IInv, Consistent, LockHandoff
<1>7. \/ conv' = conv
      \/ /\ conv.ownership = "bot_owned"
         /\ LET saved == [conv EXCEPT !.handoffs =
                             Append(@, [status |-> "requested", agent |-> NULL])]
            IN conv' = PersistSystemEvent(
                         ApplyOwnershipTransition(saved, "handoff_requested"))
  BY <1>6 DEF RequestHandoff
<1>8. CASE conv' = conv
  BY <1>5, <1>8, SameRow
<1>9. CASE conv' # conv
  <2>1. /\ Consistent(conv') /\ conv'.version = conv.version + 1
        /\ conv.ownership = "bot_owned" /\ conv'.ownership = "handoff_requested"
    BY <1>7, <1>9, RequestConsistent DEF IInv
  <2>2. conv'.version > conv.version
    BY <2>1 DEF IInv, Consistent, Conversation
  <2>3. OwnerMove(conv, conv')
    BY <2>1 DEF OwnerMove, Begun, HolderOf
  <2> QED BY <1>2, <1>5, <2>1, <2>2, <2>3, NewVersion
<1> QED BY <1>8, <1>9

\* The row an operator acts on: a free one is assigned to the operator.
LEMMA HeldRow ==
  ASSUME IInv, conv.ownership = "human_owned", NEW agent \in Agents, MayTake(conv, agent),
         NEW held, held = IF conv.assigned = NULL THEN Assign(conv, agent) ELSE conv
  PROVE  /\ Consistent(held)
         /\ held.ownership = "human_owned"
         /\ held.assigned = agent
         /\ held.version = conv.version
         /\ held.mode = conv.mode
         /\ held.until = conv.until
<1>1. CASE conv.assigned = NULL
  BY <1>1, HeldConsistent DEF IInv
<1>2. CASE conv.assigned # NULL
  BY <1>2 DEF IInv, MayTake
<1> QED BY <1>1, <1>2

\* An operator who may act on the row and leaves its version alone is fenced.
LEMMA SameVersion ==
  ASSUME IInv, NEW agent \in Agents, MayTake(conv, agent), conv.ownership = "human_owned",
         Consistent(conv'), conv'.ownership = "human_owned", conv'.assigned = agent,
         conv'.version = conv.version, NoRenewal(clock - MaxTxAge)
  PROVE  ConvStep
<1>1. OwnerMove(conv, conv')
  BY DEF OwnerMove, HolderOf, MayTake
<1> QED BY <1>1 DEF ConvStep, MayTake

\* Releasing and claiming again in one transaction raises the version twice.
LEMMA ReclaimConsistent ==
  ASSUME NEW v, Consistent(v), v.ownership = "human_owned", NEW agent \in Agents,
         NEW policy \in Policies, NEW now \in Nat
  PROVE  /\ Consistent(ApplyClaim(ApplyRelease(v), agent, policy, now))
         /\ ApplyClaim(ApplyRelease(v), agent, policy, now).ownership = "human_owned"
         /\ ApplyClaim(ApplyRelease(v), agent, policy, now).assigned = agent
         /\ ApplyClaim(ApplyRelease(v), agent, policy, now).version = v.version + 2
<1> DEFINE r == ApplyRelease(v)
<1>1. Consistent(r) /\ r.ownership = "bot_owned" /\ r.version = v.version + 1
  BY ReleaseConsistent
<1>2. v.version \in Nat
  BY DEF Consistent, Conversation
<1> HIDE DEF r
<1>3. TakenOver(ApplyClaim(r, agent, policy, now), r, agent)
  BY <1>1, ClaimConsistent
<1>4. /\ Consistent(ApplyClaim(r, agent, policy, now))
      /\ ApplyClaim(r, agent, policy, now).ownership = "human_owned"
      /\ ApplyClaim(r, agent, policy, now).assigned = agent
      /\ ApplyClaim(r, agent, policy, now).version = v.version + 2
  BY <1>1, <1>2, <1>3 DEF TakenOver
<1> QED BY <1>4 DEF r

LEMMA ClaimStep ==
  ASSUME IInv, NEW c \in Conns, NEW agent \in Agents, NEW policy \in Policies,
         NEW updatePolicy \in BOOLEAN, ClaimConversation(c, agent, policy, updatePolicy)
  PROVE  ConvStep /\ Ledger'
<1> DEFINE held == IF conv.assigned = NULL THEN Assign(conv, agent) ELSE conv
           expired == conv.mode = "timed" /\ TimedDeadlinePassed(conv, tx[c])
<1>1. PICK key \in KeyChoice("claim") : WithConversation(c, "claim", key)
  BY DEF ClaimConversation
<1>2. /\ conv.ownership # "closed"
      /\ MayTake(conv, agent)
      /\ replies' = replies /\ echoes' = echoes /\ outbox' = outbox
  BY DEF ClaimConversation
<1>3. conv' = IF conv.ownership # "human_owned"
                 THEN ApplyClaim(conv, agent, policy, tx[c])
               ELSE IF updatePolicy /\ expired
                 THEN ApplyClaim(ApplyRelease(held), agent, policy, tx[c])
               ELSE IF updatePolicy
                 THEN HumanControlColumns(held, policy, tx[c])
               ELSE held
  BY DEF ClaimConversation
<1>4. Ledger'
  <2>1. key \in Keys \union {NULL} /\ "claim" \in CommandNames
    BY KeyChoiceType DEF CommandNames
  <2> QED BY <1>1, <1>2, <2>1, KeyedLedger DEF IInv, Ledger
<1>5. tx[c] \in Nat /\ clock <= tx[c] + MaxTxAge
  BY <1>1, LockGranted DEF WithConversation, IInv
<1>6. conv.version \in Nat
  BY DEF IInv, Consistent, Conversation
<1>7. CASE conv.ownership # "human_owned"
  <2>1. TakenOver(conv', conv, agent)
    BY <1>2, <1>3, <1>5, <1>7, ClaimConsistent DEF IInv
  <2> QED BY <1>2, <1>4, <2>1, TakenStep
<1>8. CASE conv.ownership = "human_owned"
  <2> HIDE DEF expired
  <2>1. /\ Consistent(held) /\ held.ownership = "human_owned" /\ held.assigned = agent
        /\ held.version = conv.version /\ held.mode = conv.mode /\ held.until = conv.until
    BY <1>2, <1>8, HeldRow
  <2> HIDE DEF held
  <2>2. CASE updatePolicy /\ expired
    <3>1. /\ Consistent(conv') /\ conv'.version = conv.version + 2
          /\ conv'.ownership = "human_owned" /\ conv'.assigned = agent
      BY <1>3, <1>5, <1>8, <2>1, <2>2, ReclaimConsistent
    <3> QED BY <1>2, <1>4, <1>8, <3>1, ReclaimedStep
  <2>3. CASE updatePolicy /\ ~expired
    <3>1. /\ Consistent(conv') /\ conv'.ownership = "human_owned" /\ conv'.assigned = agent
          /\ conv'.version = conv.version
      BY <1>3, <1>5, <1>8, <2>1, <2>3, PolicyConsistent
    <3>2. ~DeadlineOver(conv, clock - MaxTxAge)
      <4>1. conv.mode = "timed" => conv.until \in Nat
        BY DEF IInv, Consistent, Conversation
      <4>2. clock \in Nat /\ MaxTxAge \in Nat
        BY BoundAssumption DEF IInv, Ledger
      <4>3. conv.mode = "timed" => ~(conv.until <= tx[c])
        BY <2>3, <4>1, NullAssumption DEF expired, TimedDeadlinePassed
      <4> QED BY <1>5, <4>1, <4>2, <4>3 DEF DeadlineOver
    <3> QED BY <1>2, <1>4, <1>8, <3>1, <3>2, SameVersion DEF NoRenewal
  <2>4. CASE ~updatePolicy
    <3>1. conv' = held
      BY <1>3, <1>8, <2>4
    <3>2. NoRenewal(clock - MaxTxAge)
      BY <2>1, <3>1 DEF NoRenewal
    <3> QED BY <1>2, <1>4, <1>8, <2>1, <3>1, <3>2, SameVersion
  <2> QED BY <2>2, <2>3, <2>4
<1> QED BY <1>7, <1>8

LEMMA SendStep ==
  ASSUME IInv, NEW c \in Conns, NEW agent \in Agents, NEW msg \in ClientMsgs,
         SendHumanMessage(c, agent, msg)
  PROVE  ConvStep /\ Ledger'
<1> DEFINE held == IF conv.assigned = NULL THEN Assign(conv, agent) ELSE conv
           owned == IF conv.ownership # "human_owned"
                 THEN ApplyClaim(conv, agent, Indefinite, tx[c])
               ELSE IF conv.mode # "timed" \/ conv.hours = NULL
                 THEN held
               ELSE IF conv.until > tx[c]
                 THEN [held EXCEPT !.until = tx[c] + HOUR * conv.hours]
               ELSE ApplyClaim(ApplyRelease(held), agent, Indefinite, tx[c])
<1>1. /\ WithConversationUnkeyed(c)
      /\ conv.ownership # "closed"
      /\ replies[msg] = 0
      /\ MayTake(conv, agent)
      /\ conv' = [owned EXCEPT !.lastActivity = tx[c]]
      /\ replies' = [replies EXCEPT ![msg] = @ + 1]
      /\ echoes' = echoes /\ outbox' = outbox
  BY DEF SendHumanMessage
<1>2. Ledger'
  <2>1. replies' \in [ClientMsgs -> {0, 1}]
    BY <1>1 DEF IInv, Ledger
  <2> QED BY <1>1, <2>1, UnkeyedLedger DEF IInv, Ledger
<1>3. tx[c] \in Nat /\ clock <= tx[c] + MaxTxAge
  BY <1>1, LockGranted DEF WithConversationUnkeyed, IInv
<1>4. conv.version \in Nat
  BY DEF IInv, Consistent, Conversation
<1>5. /\ Consistent(owned) => /\ Consistent(conv') /\ conv'.ownership = owned.ownership
                              /\ conv'.assigned = owned.assigned
                              /\ conv'.version = owned.version
      /\ owned \in Conversation => conv'.mode = owned.mode /\ conv'.until = owned.until
  <2> HIDE DEF owned
  <2> QED BY <1>1, <1>3, ActivityConsistent DEF Conversation
<1>6. CASE conv.ownership # "human_owned"
  <2>1. TakenOver(owned, conv, agent)
    BY <1>1, <1>3, <1>6, ClaimConsistent, IndefinitePolicy DEF IInv
  <2>2. TakenOver(conv', conv, agent)
    BY <1>5, <2>1 DEF TakenOver
  <2> QED BY <1>1, <1>2, <2>2, TakenStep
<1>7. CASE conv.ownership = "human_owned"
  <2>1. /\ Consistent(held) /\ held.ownership = "human_owned" /\ held.assigned = agent
        /\ held.version = conv.version /\ held.mode = conv.mode /\ held.until = conv.until
    BY <1>1, <1>7, HeldRow
  <2> HIDE DEF held
  <2>2. CASE conv.mode # "timed" \/ conv.hours = NULL
    <3>1. owned = held
      BY <1>7, <2>2
    <3> HIDE DEF owned
    <3>2. NoRenewal(clock - MaxTxAge)
      BY <1>5, <2>1, <3>1 DEF NoRenewal, Consistent
    <3> QED BY <1>1, <1>2, <1>5, <1>7, <2>1, <3>1, <3>2, SameVersion
  <2>3. CASE conv.mode = "timed" /\ conv.hours # NULL /\ conv.until > tx[c]
    <3>1. owned = [held EXCEPT !.until = tx[c] + HOUR * conv.hours]
      BY <1>7, <2>3
    <3>2. tx[c] + HOUR * conv.hours \in Nat
      <4>1. conv.hours \in Nat
        BY <2>3, BoundAssumption DEF IInv, Consistent, Conversation
      <4>2. HOUR \in Nat
        BY BoundAssumption
      <4>3. HOUR * conv.hours \in Nat
        BY <4>1, <4>2
      <4> QED BY <1>3, <4>3
    <3> HIDE DEF owned
    <3>3. /\ Consistent(owned) /\ owned.ownership = "human_owned" /\ owned.assigned = agent
          /\ owned.version = conv.version
      BY <2>1, <2>3, <3>1, <3>2, SlideConsistent
    <3>4. ~DeadlineOver(conv, clock - MaxTxAge)
      <4>1. conv.until \in Nat
        BY <2>3 DEF IInv, Consistent, Conversation
      <4>2. clock \in Nat /\ MaxTxAge \in Nat
        BY BoundAssumption DEF IInv, Ledger
      <4> QED BY <1>3, <2>3, <4>1, <4>2 DEF DeadlineOver
    <3> QED BY <1>1, <1>2, <1>5, <1>7, <3>3, <3>4, SameVersion DEF NoRenewal
  <2>4. CASE conv.mode = "timed" /\ conv.hours # NULL /\ ~(conv.until > tx[c])
    <3>1. owned = ApplyClaim(ApplyRelease(held), agent, Indefinite, tx[c])
      BY <1>7, <2>4
    <3> HIDE DEF owned
    <3>2. /\ Consistent(owned) /\ owned.version = conv.version + 2
          /\ owned.ownership = "human_owned" /\ owned.assigned = agent
      BY <1>3, <2>1, <3>1, ReclaimConsistent, IndefinitePolicy
    <3> QED BY <1>1, <1>2, <1>5, <1>7, <3>2, ReclaimedStep
  <2> QED BY <2>2, <2>3, <2>4
<1> QED BY <1>6, <1>7

LEMMA IngestStep ==
  ASSUME IInv, NEW c \in Conns, NEW msg \in PageMsgs, IngestPageHumanReply(c, msg)
  PROVE  ConvStep /\ Ledger'
<1> DEFINE paused == IF conv.ownership \in {"bot_owned", "handoff_requested"}
                       THEN ApplyUnassignedHumanPause(conv, tx[c]) ELSE conv
<1>1. /\ WithConversationUnkeyed(c)
      /\ conv.ownership # "closed"
      /\ echoes[msg] = 0
      /\ conv' = [paused EXCEPT !.lastActivity = tx[c]]
      /\ echoes' = [echoes EXCEPT ![msg] = @ + 1]
      /\ replies' = replies /\ outbox' = outbox
  BY DEF IngestPageHumanReply
<1>2. Ledger'
  <2>1. echoes' \in [PageMsgs -> {0, 1}]
    BY <1>1 DEF IInv, Ledger
  <2> QED BY <1>1, <2>1, UnkeyedLedger DEF IInv, Ledger
<1>3. tx[c] \in Nat
  BY <1>1, LockGranted DEF WithConversationUnkeyed, IInv
<1>4. conv.version \in Nat
  BY DEF IInv, Consistent, Conversation
<1>5. /\ Consistent(paused) => /\ Consistent(conv') /\ conv'.ownership = paused.ownership
                               /\ conv'.assigned = paused.assigned
                               /\ conv'.version = paused.version
      /\ paused \in Conversation => conv'.mode = paused.mode /\ conv'.until = paused.until
  <2> HIDE DEF paused
  <2> QED BY <1>1, <1>3, ActivityConsistent DEF Conversation
<1>6. CASE conv.ownership \in {"bot_owned", "handoff_requested"}
  <2>1. TakenOver(paused, conv, NULL)
    BY <1>3, <1>6, PauseConsistent DEF IInv
  <2>2. OwnerMove(conv, conv')
    BY <1>5, <1>6, <2>1 DEF TakenOver, OwnerMove, Begun, HolderOf
  <2> QED BY <1>1, <1>2, <1>4, <1>5, <2>1, <2>2, NewVersion DEF TakenOver
<1>7. CASE conv.ownership \notin {"bot_owned", "handoff_requested"}
  <2>1. paused = conv
    BY <1>7
  <2>2. Consistent(paused) /\ paused \in Conversation
    BY <2>1 DEF IInv, Consistent
  <2> HIDE DEF paused
  <2> QED BY <1>1, <1>2, <1>5, <2>1, <2>2 DEF ConvStep, OwnerMove, HolderOf, NoRenewal
<1> QED BY <1>6, <1>7

\* A step that returns a human-owned conversation to the bot.
LEMMA ReleasedRow ==
  ASSUME IInv, conv.ownership = "human_owned", conv' = ApplyRelease(conv)
  PROVE  ConvStep
<1>1. /\ Consistent(conv') /\ conv'.version = conv.version + 1
      /\ conv'.ownership = "bot_owned"
  BY ReleaseConsistent DEF IInv
<1>2. conv.version \in Nat
  BY DEF IInv, Consistent, Conversation
<1>3. OwnerMove(conv, conv')
  BY <1>1 DEF OwnerMove, Begun, HolderOf
<1> QED BY <1>1, <1>2, <1>3, NewVersion

LEMMA ReleaseStep ==
  ASSUME IInv, NEW c \in Conns, NEW agent \in Agents, ReleaseConversation(c, agent)
  PROVE  ConvStep /\ Ledger'
<1>1. PICK key \in KeyChoice("release") : WithConversation(c, "release", key)
  BY DEF ReleaseConversation
<1>2. /\ conv.ownership \in {"bot_owned", "human_owned"}
      /\ conv' = IF conv.ownership = "bot_owned" THEN conv ELSE ApplyRelease(conv)
      /\ replies' = replies /\ echoes' = echoes /\ outbox' = outbox
  BY DEF ReleaseConversation
<1>3. Ledger'
  <2>1. key \in Keys \union {NULL} /\ "release" \in CommandNames
    BY KeyChoiceType DEF CommandNames
  <2> QED BY <1>1, <1>2, <2>1, KeyedLedger DEF IInv, Ledger
<1> QED BY <1>2, <1>3, SameRow, ReleasedRow

LEMMA ReleaseExpiredStep ==
  ASSUME IInv, NEW c \in Conns, ReleaseExpiredHumanControl(c)
  PROVE  ConvStep /\ Ledger'
<1>1. /\ WithConversationUnkeyed(c)
      /\ conv.ownership = "human_owned"
      /\ conv' = ApplyRelease(conv)
      /\ replies' = replies /\ echoes' = echoes /\ outbox' = outbox
  BY DEF ReleaseExpiredHumanControl, ControlExpired
<1>2. Ledger'
  BY <1>1, UnkeyedLedger DEF IInv, Ledger
<1> QED BY <1>1, <1>2, ReleasedRow

LEMMA SweepStep ==
  ASSUME IInv, SweepTimedControl
  PROVE  ConvStep /\ Ledger'
<1>1. /\ conv.ownership = "human_owned"
      /\ conv' = ApplyRelease(conv)
      /\ UNCHANGED <<commands, replies, echoes, outbox, tx, clock>>
  BY DEF SweepTimedControl, ControlExpired
<1>2. Ledger'
  BY <1>1 DEF IInv, Ledger, TxFresh
<1> QED BY <1>1, <1>2, ReleasedRow

LEMMA CancelStep ==
  ASSUME IInv, NEW c \in Conns, NEW actor, CancelHandoff(c, actor)
  PROVE  ConvStep /\ Ledger'
<1>1. PICK key \in KeyChoice("cancel_handoff") : WithConversation(c, "cancel_handoff", key)
  BY DEF CancelHandoff
<1>2. /\ conv.ownership \in {"bot_owned", "handoff_requested"}
      /\ conv' = CancelledRow(conv, actor)
      /\ replies' = replies /\ echoes' = echoes /\ outbox' = outbox
  BY DEF CancelHandoff
<1>3. Ledger'
  <2>1. key \in Keys \union {NULL} /\ "cancel_handoff" \in CommandNames
    BY KeyChoiceType DEF CommandNames
  <2> QED BY <1>1, <1>2, <2>1, KeyedLedger DEF IInv, Ledger
<1>4. /\ Consistent(conv') /\ conv'.ownership = "bot_owned" /\ conv'.assigned = NULL
      /\ conv'.version = IF conv.ownership = "bot_owned" THEN conv.version ELSE conv.version + 1
  BY <1>2, CancelConsistent DEF IInv
<1>5. conv.version \in Nat /\ (conv.ownership = "bot_owned" => conv.assigned = NULL)
  BY DEF IInv, Consistent, Conversation
<1>6. CASE conv.ownership = "bot_owned"
  BY <1>3, <1>4, <1>5, <1>6 DEF ConvStep, OwnerMove, HolderOf, NoRenewal, DeadlineOver
<1>7. CASE conv.ownership = "handoff_requested"
  <2>1. OwnerMove(conv, conv')
    BY <1>4, <1>7 DEF OwnerMove, Begun, HolderOf
  <2> QED BY <1>3, <1>4, <1>5, <1>7, <2>1, NewVersion
<1> QED BY <1>2, <1>6, <1>7

\* A step that closes the conversation, or finds it closed.
LEMMA ClosedRow ==
  ASSUME IInv, conv' = IF conv.ownership = "closed" THEN conv ELSE ApplyClose(conv)
  PROVE  ConvStep
<1>1. CASE conv.ownership = "closed"
  BY <1>1, SameRow
<1>2. CASE conv.ownership # "closed"
  <2>1. Consistent(conv') /\ conv'.version = conv.version + 1 /\ conv'.ownership = "closed"
    BY <1>2, CloseConsistent DEF IInv
  <2>2. conv.version \in Nat
    BY DEF IInv, Consistent, Conversation
  <2>3. OwnerMove(conv, conv')
    BY <1>2, <2>1 DEF OwnerMove, Begun, HolderOf
  <2> QED BY <1>2, <2>1, <2>2, <2>3, NewVersion
<1> QED BY <1>1, <1>2

LEMMA CloseStep ==
  ASSUME IInv, NEW c \in Conns, CloseConversation(c)
  PROVE  ConvStep /\ Ledger'
<1>1. PICK key \in KeyChoice("close") : WithConversation(c, "close", key)
  BY DEF CloseConversation
<1>2. /\ conv' = IF conv.ownership = "closed" THEN conv ELSE ApplyClose(conv)
      /\ replies' = replies /\ echoes' = echoes /\ outbox' = outbox
  BY DEF CloseConversation
<1>3. Ledger'
  <2>1. key \in Keys \union {NULL} /\ "close" \in CommandNames
    BY KeyChoiceType DEF CommandNames
  <2> QED BY <1>1, <1>2, <2>1, KeyedLedger DEF IInv, Ledger
<1> QED BY <1>2, <1>3, ClosedRow

LEMMA ResetStep ==
  ASSUME IInv, NEW c \in Conns, ResetConversation(c)
  PROVE  ConvStep /\ Ledger'
<1>1. PICK key \in KeyChoice("reset") : WithConversation(c, "reset", key)
  BY DEF ResetConversation
<1>2. /\ conv' = IF conv.ownership = "closed" THEN conv ELSE ApplyClose(conv)
      /\ replies' = [m \in ClientMsgs |-> 0]
      /\ echoes' = [m \in PageMsgs |-> 0]
      /\ outbox' = outbox
  BY DEF ResetConversation
<1>3. Ledger'
  <2>1. key \in Keys \union {NULL} /\ "reset" \in CommandNames
    BY KeyChoiceType DEF CommandNames
  <2>2. replies' \in [ClientMsgs -> {0, 1}] /\ echoes' \in [PageMsgs -> {0, 1}]
    BY <1>2
  <2> QED BY <1>1, <1>2, <2>1, <2>2, KeyedLedger DEF IInv, Ledger
<1> QED BY <1>2, <1>3, ClosedRow

LEMMA TransferStep ==
  ASSUME IInv, NEW c \in Conns, NEW target \in Agents, TransferConversation(c, target)
  PROVE  ConvStep /\ Ledger'
<1> DEFINE u == SetHandoff(conv, LockHandoff(conv, {"requested"}), "accepted", target)
           kept == conv.ownership = "human_owned" /\ conv.mode # NULL
<1>1. PICK key \in KeyChoice("transfer") : WithConversation(c, "transfer", key)
  BY DEF TransferConversation
<1>2. /\ conv.ownership # "closed"
      /\ replies' = replies /\ echoes' = echoes /\ outbox' = outbox
  BY DEF TransferConversation
<1>3. conv' = IF kept THEN Kept(u, target) ELSE Taken(u, target, Indefinite, tx[c])
  BY DEF TransferConversation, Kept, Taken
<1>4. Ledger'
  <2>1. key \in Keys \union {NULL} /\ "transfer" \in CommandNames
    BY KeyChoiceType DEF CommandNames
  <2> QED BY <1>1, <1>2, <2>1, KeyedLedger DEF IInv, Ledger
<1>5. RowsUpdated(u, conv, RowsIn(conv, {"requested"}), "accepted")
  <2>1. LockHandoff(conv, {"requested"}) = RowsIn(conv, {"requested"})
    BY LockedRow DEF RowsIn, IInv
  <2>2. conv \in Conversation /\ "accepted" \in HandoffStatuses
    BY DEF HandoffStatuses, Consistent, IInv
  <2> QED BY <2>1, <2>2, HandoffUpdate
<1> HIDE DEF u
<1>6. tx[c] \in Nat
  BY <1>1, LockGranted DEF WithConversation, IInv
<1>7. TakenOver(conv', conv, target)
  BY <1>2, <1>3, <1>5, <1>6, KeptConsistent, TakenConsistent, IndefinitePolicy DEF IInv
<1> QED BY <1>2, <1>4, <1>7, TakenStep

\* Every step: the row moves as ConvStep says and the rest keeps its bounds.
LEMMA EveryStep ==
  ASSUME IInv, [Next]_vars
  PROVE  ConvStep /\ Ledger'
<1>1. ASSUME NEW c \in Conns, Begin(c) PROVE ConvStep /\ Ledger'
  <2>1. clock <= clock + MaxTxAge
    BY BoundAssumption DEF IInv, Ledger
  <2>2. Ledger'
    BY <1>1, <2>1 DEF Begin, IInv, Ledger, TxFresh
  <2> QED BY <1>1, <2>2, SameRow DEF Begin
<1>2. ASSUME NEW c \in Conns, EndWithoutEffect(c) PROVE ConvStep /\ Ledger'
  <2>1. Ledger'
    BY <1>2 DEF EndWithoutEffect, IInv, Ledger, TxFresh
  <2> QED BY <1>2, <2>1, SameRow DEF EndWithoutEffect
<1>3. ASSUME NEW c \in Conns, ClientCommand(c) PROVE ConvStep /\ Ledger'
  BY <1>3, RequestStep, ClaimStep, SendStep, IngestStep, ReleaseStep, ReleaseExpiredStep,
     CancelStep, CloseStep, ResetStep, TransferStep DEF ClientCommand
<1>4. CASE SweepTimedControl
  BY <1>4, SweepStep
<1>5. CASE Tick
  <2>1. \A c \in Conns : tx'[c] # NULL => tx'[c] <= clock' /\ clock' <= tx'[c] + MaxTxAge
    BY <1>5, BoundAssumption DEF Tick, IInv, Ledger, TxFresh
  <2>2. Ledger'
    BY <1>5, <2>1 DEF Tick, IInv, Ledger, TxFresh
  <2> QED BY <1>5, <2>2, SameRow DEF Tick
<1>6. CASE UNCHANGED vars
  <2>1. Ledger'
    BY <1>6 DEF vars, IInv, Ledger, TxFresh
  <2> QED BY <1>6, <2>1, SameRow DEF vars
<1> QED BY <1>1, <1>2, <1>3, <1>4, <1>5, <1>6 DEF Next

LEMMA InitIInv ==
  ASSUME Init
  PROVE  IInv
<1> DEFINE row == [ownership |-> "bot_owned", status |-> "waiting", version |-> 0,
             assigned |-> NULL, mode |-> NULL, hours |-> NULL, until |-> NULL,
             lastActivity |-> 0, handoffs |-> <<>>, events |-> 0]
<1>1. conv = row
  BY DEF Init
<1>2. row \in Conversation
  BY DEF Conversation, Ownerships, Statuses
<1>3. row.handoffs = <<>> /\ DOMAIN row.handoffs = {}
  OBVIOUS
<1>4. Consistent(row)
  BY <1>2, <1>3, NullAssumption DEF Consistent, Open
<1>5. Ledger
  BY DEF Init, Ledger, TxFresh
<1> QED BY <1>1, <1>4, <1>5 DEF IInv

-----------------------------------------------------------------------------
(* The theorems.                                                           *)

\* The inductive invariant holds in every reachable state.
THEOREM Invariance == Spec => []IInv
<1>1. Init => IInv
  BY InitIInv
<1>2. IInv /\ [Next]_vars => IInv'
  BY EveryStep DEF IInv, ConvStep
<1> QED BY <1>1, <1>2, PTL DEF Spec

\* Every column keeps its type, whatever the clients send.
THEOREM TypeCorrect == Spec => []TypeOK
<1>1. IInv => TypeOK
  BY DEF IInv, Ledger, Consistent, TypeOK
<1> QED BY <1>1, Invariance, PTL

\* A conversation of the command service never has two open handoff rows.
THEOREM OneOpenHandoff == Spec => []SingleOpenHandoff
<1>1. IInv => SingleOpenHandoff
  BY DEF IInv, Consistent, SingleOpenHandoff
<1> QED BY <1>1, Invariance, PTL

\* The queue row and the ownership column agree.
THEOREM QueueAgrees == Spec => []HandoffMatchesOwnership
<1>1. IInv => HandoffMatchesOwnership
  BY DEF IInv, Consistent, HandoffMatchesOwnership
<1> QED BY <1>1, Invariance, PTL

\* Human control is live exactly while a human owns the conversation.
THEOREM ControlAgrees == Spec => []ControlMatchesOwnership
<1>1. IInv => ControlMatchesOwnership
  BY DEF IInv, Consistent, ControlMatchesOwnership
<1> QED BY <1>1, Invariance, PTL

\* The AI pipeline's status gate and the ownership column agree.
THEOREM StatusAgrees == Spec => []BotServesExactlyItsOwn
<1>1. IInv => BotServesExactlyItsOwn
  BY DEF IInv, Consistent, BotServesExactlyItsOwn
<1> QED BY <1>1, Invariance, PTL

\* One system event per transition.
THEOREM EventsAgree == Spec => []OneEventPerTransition
<1>1. IInv => OneEventPerTransition
  BY DEF IInv, Consistent, OneEventPerTransition
<1> QED BY <1>1, Invariance, PTL

\* No key, clientMessageId or externalMessageId is applied twice.
THEOREM Idempotent == Spec => []AppliedAtMostOnce
<1>1. IInv => AppliedAtMostOnce
  BY DEF IInv, Ledger, AppliedAtMostOnce
<1> QED BY <1>1, Invariance, PTL

\* A closed conversation never changes again.
THEOREM ClosedStays == Spec => ClosedIsFinal
<1>1. IInv /\ [Next]_vars => [ conv.ownership = "closed" => conv' = conv ]_vars
  BY EveryStep DEF ConvStep
<1> QED BY <1>1, Invariance, PTL DEF Spec, ClosedIsFinal

\* A control that has been over for as long as a transaction can wait for the
\* row lock is never renewed.
THEOREM DeadlineKept == Spec => HardDeadlineUpToLockWait
<1>1. IInv /\ [Next]_vars => [ NoRenewal(clock - MaxTxAge) ]_vars
  BY EveryStep DEF ConvStep
<1> QED BY <1>1, Invariance, PTL DEF Spec, HardDeadlineUpToLockWait

\* Every step of the command service is one move of Ownership, or none.
LEMMA RefinedStep ==
  ASSUME IInv, [Next]_vars
  PROVE  [Owned!Next]_(Owned!ownershipVars)
<1>1. OwnerMove(conv, conv')
  BY EveryStep DEF ConvStep
<1>2. Holder = HolderOf(conv) /\ Holder' = HolderOf(conv')
  BY DEF Holder, HolderOf
<1>3. CASE conv'.ownership = conv.ownership /\ Holder' = Holder /\ conv'.version = conv.version
  BY <1>3 DEF Owned!ownershipVars
<1>4. CASE conv.ownership = "bot_owned" /\ Begun(conv, conv', "handoff_requested", NULL)
  BY <1>2, <1>4 DEF Begun, Owned!Next, Owned!RequestHandoff, Owned!Begins
<1>5. CASE /\ conv.ownership \in {"bot_owned", "handoff_requested"}
           /\ Begun(conv, conv', "human_owned", NULL)
  BY <1>2, <1>5 DEF Begun, Owned!Next, Owned!Pause, Owned!Begins
<1>6. CASE /\ conv.ownership \in {"handoff_requested", "human_owned"}
           /\ Begun(conv, conv', "bot_owned", NULL)
  BY <1>2, <1>6 DEF Begun, Owned!Next, Owned!Return, Owned!Begins
<1>7. CASE conv.ownership # "closed" /\ Begun(conv, conv', "closed", NULL)
  BY <1>2, <1>7 DEF Begun, Owned!Next, Owned!Close, Owned!Begins
<1>8. ASSUME NEW a \in Agents, conv.ownership # "closed", Begun(conv, conv', "human_owned", a)
      PROVE  Owned!Next
  BY <1>2, <1>8 DEF Begun, Owned!Next, Owned!Transfer, Owned!Begins
<1>9. ASSUME NEW a \in Agents,
             conv.ownership = "human_owned", conv'.ownership = "human_owned",
             conv'.assigned = a, conv.assigned = NULL, conv'.version = conv.version
      PROVE  Owned!Next
  BY <1>2, <1>9 DEF HolderOf, Owned!Next, Owned!Join
<1>10. ASSUME NEW a \in Agents,
              conv.ownership = "human_owned", conv'.ownership = "human_owned",
              conv'.assigned = a, conv.assigned \in {a, NULL},
              conv'.version = conv.version + 2
       PROVE  Owned!Next
  BY <1>2, <1>10 DEF HolderOf, Owned!Next, Owned!Reclaim
<1> QED BY <1>1, <1>2, <1>3, <1>4, <1>5, <1>6, <1>7, <1>8, <1>9, <1>10 DEF OwnerMove

\* The command service implements the abstract Ownership, for any number of
\* operators and concurrent transactions.
THEOREM RefinesOwnership == Spec => ImplementsOwnership
<1>1. Init => Owned!Init
  BY DEF Init, Owned!Init, Holder
<1> QED BY <1>1, RefinedStep, Invariance, PTL DEF Spec, ImplementsOwnership, Owned!Spec
=============================================================================
