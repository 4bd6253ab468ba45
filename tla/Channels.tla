------------------------------ MODULE Channels ------------------------------
(***************************************************************************)
(* One customer's thread on an external channel (Messenger, WhatsApp, ...).*)
(* Inbound: the webhook endpoint records an event under its dedupe key and *)
(* queues it, and Bull workers run processInboundEvent                     *)
(* (api/src/channels/inbound-pipeline.ts), which finds or opens the        *)
(* session of the thread and saves the message.  Outbound: an operator's   *)
(* reply goes to the session's binding and the outcome is written to the   *)
(* message (api/src/channels/delivery-state.ts, outbound-router.ts).       *)
(*                                                                         *)
(* Bull runs a job again after an error, and also when its worker is dead  *)
(* or only slow; the statements of two runs interleave.  Processing inside *)
(* the webhook call, when there is no queue, is ATTEMPTS = 1 without a     *)
(* stall.                                                                  *)
(*                                                                         *)
(* Abstracted: one thread of one connection that is not removed; events    *)
(* that are customer messages (receipts, echoes and button presses take    *)
(* other paths); replies that fit one channel message; the turn that       *)
(* follows a saved message, which is TurnCoalescer's; who may reply, which *)
(* is ConversationCommands'; lead capture, media, realtime.                *)
(***************************************************************************)
EXTENDS Naturals, FiniteSets

CONSTANTS
  Events,       \* dedupe keys of the customer's messages
  Workers,      \* concurrent runs of the queue processor
  Replies,      \* an operator's replies: their clientMessageIds
  Tasks,        \* deliveries in progress
  NULL,
  ATTEMPTS,     \* attempts of a job
  MaxSessions,  \* bound: sessions that are opened
  MaxPosts,     \* bound: how often a reply is posted
  MaxFaults     \* bound: errors, deaths and stalls

ASSUME ChannelsAssumption ==
  /\ NULL \notin Events \cup Workers \cup Replies /\ IsFiniteSet(Workers)
  /\ ATTEMPTS \in Nat \ {0}
  /\ MaxSessions \in Nat /\ MaxPosts \in Nat /\ MaxFaults \in Nat

VARIABLES
  log,       \* webhook_event_log: the status of every event
  job,       \* the Bull jobs
  run,       \* the runs of processInboundEvent
  session,   \* chat_sessions of the thread
  binding,   \* conversation_bindings: the session the thread is bound to
  copies,    \* messages saved for each event
  reply,     \* messages of the operator: status, session
  task,      \* deliverOperatorReply in progress
  taken,     \* how often the channel took a reply
  posts, faults,
  torn,      \* history: runs of an event that saved and failed, or overlapped
  skipped,   \* history: events dropped by the entitlement gate
  raced,     \* history: a closed thread was reopened by two runs at once
  lost       \* history: replies whose delivery died or left no verdict

inboundVars == <<log, job, run, copies, torn, skipped, raced>>
outboundVars == <<reply, task, taken, posts, lost>>
vars == <<inboundVars, session, binding, outboundVars, faults>>

-----------------------------------------------------------------------------

Sessions == 1..MaxSessions

NoSession == 0

LogStatuses == {"none", "received", "processing", "processed", "skipped", "failed"}

Jobs == [state : {"none", "waiting", "active", "done", "dead"},
         owner : Workers \cup {NULL}, failures : 0..ATTEMPTS, stalled : BOOLEAN]

RunPcs == {"idle", "dedupe", "mark", "gate", "find", "open", "save", "after", "failed"}

\* A run of processInboundEvent: its event, the session it found bound, and
\* whether it has saved the message.
Runs == [e : Events \cup {NULL}, pc : RunPcs, bound : Sessions \cup {NoSession},
         saved : BOOLEAN]

IdleRun == [e |-> NULL, pc |-> "idle", bound |-> NoSession, saved |-> FALSE]

IdleTask == [r |-> NULL, pc |-> "idle"]

Init ==
  /\ log = [e \in Events |-> "none"]
  /\ job = [e \in Events |->
              [state |-> "none", owner |-> NULL, failures |-> 0, stalled |-> FALSE]]
  /\ run = [w \in Workers |-> IdleRun]
  /\ session = [s \in Sessions |-> "none"]
  /\ binding = NoSession
  /\ copies = [e \in Events |-> 0]
  /\ reply = [r \in Replies |-> [status |-> "none", session |-> NoSession]]
  /\ task = [t \in Tasks |-> IdleTask]
  /\ taken = [r \in Replies |-> 0]
  /\ posts = 0 /\ faults = 0
  /\ torn = [e \in Events |-> 0]
  /\ skipped = {} /\ raced = FALSE /\ lost = {}

Fault == faults < MaxFaults /\ faults' = faults + 1

Goto(w, pc) == run' = [run EXCEPT ![w].pc = pc]

-----------------------------------------------------------------------------
(* The webhook endpoint.                                                   *)

\* The first delivery inserts the row and queues the event, unless queue.add
\* throws, which is logged, or the process dies in between.  A repeated one
\* conflicts on the dedupe key and is ignored, queued or not.
Receive(e) ==
  /\ log[e] = "none"
  /\ log' = [log EXCEPT ![e] = "received"]
  /\ \/ job' = [job EXCEPT ![e].state = "waiting"] /\ UNCHANGED faults
     \/ Fault /\ UNCHANGED job
  /\ UNCHANGED <<run, session, binding, copies, torn, skipped, raced, outboundVars>>

-----------------------------------------------------------------------------
(* Bull.                                                                   *)

Take(w, e) ==
  /\ run[w] = IdleRun /\ job[e].state = "waiting"
  /\ job' = [job EXCEPT ![e].state = "active", ![e].owner = w]
  /\ run' = [run EXCEPT ![w] = [IdleRun EXCEPT !.e = e, !.pc = "dedupe"]]
  /\ UNCHANGED <<log, session, binding, copies, torn, skipped, raced,
                 outboundVars, faults>>

\* The verdict of a run counts only while it holds the job.
Complete(w) ==
  LET e == run[w].e IN
  /\ job' = IF job[e].owner # w THEN job
            ELSE [job EXCEPT ![e].state = "done", ![e].owner = NULL]
  /\ run' = [run EXCEPT ![w] = IdleRun]

AttemptFails(w) ==
  LET e == run[w].e
      n == job[e].failures + 1 IN
  /\ job' = IF job[e].owner # w THEN job
            ELSE [job EXCEPT ![e] = [@ EXCEPT
                    !.state = IF n < ATTEMPTS THEN "waiting" ELSE "dead",
                    !.owner = NULL, !.failures = n]]
  /\ run' = [run EXCEPT ![w] = IdleRun]
  /\ torn' = IF run[w].saved THEN [torn EXCEPT ![e] = @ + 1] ELSE torn

\* The lock of the job ran out: it runs again, once.
Stall(e) ==
  /\ job[e].state = "active" /\ Fault
  /\ job' = [job EXCEPT ![e] = [@ EXCEPT
       !.state = IF job[e].stalled THEN "dead" ELSE "waiting",
       !.owner = NULL, !.stalled = TRUE]]
  /\ UNCHANGED <<log, run, session, binding, copies, torn, skipped, raced,
                 outboundVars>>

WorkerDies(w) ==
  /\ run[w] # IdleRun /\ Fault
  /\ run' = [run EXCEPT ![w] = IdleRun]
  /\ torn' = IF run[w].saved THEN [torn EXCEPT ![run[w].e] = @ + 1] ELSE torn
  /\ UNCHANGED <<log, job, session, binding, copies, skipped, raced,
                 outboundVars>>

-----------------------------------------------------------------------------
(* processInboundEvent.                                                    *)

\* Mutant: an event that another run has begun counts as handled.
SeenInProgress(e) == log[e] \in {"processing", "processed", "skipped"}

Seen(e) == log[e] \in {"processed", "skipped"}

Overlaps(w) == \E v \in Workers \ {w} : run[v].e = run[w].e

Dedupe(w) ==
  /\ run[w].pc = "dedupe"
  /\ IF Seen(run[w].e)
       THEN Complete(w) /\ UNCHANGED torn
       ELSE /\ Goto(w, "mark")
            /\ torn' = IF Overlaps(w) THEN [torn EXCEPT ![run[w].e] = @ + 1] ELSE torn
            /\ UNCHANGED job
  /\ UNCHANGED <<log, session, binding, copies, skipped, raced,
                 outboundVars, faults>>

\* markEventProcessing saves the row it read, whatever became of it since.
MarkEventProcessing(w) ==
  /\ run[w].pc = "mark"
  /\ log' = [log EXCEPT ![run[w].e] = "processing"]
  /\ Goto(w, "gate")
  /\ UNCHANGED <<job, session, binding, copies, torn, skipped, raced,
                 outboundVars, faults>>

\* The plan may or may not include the channel.
EntitlementGate(w) ==
  /\ run[w].pc = "gate"
  /\ \/ /\ Goto(w, "find")
        /\ UNCHANGED <<log, job, skipped>>
     \/ /\ log' = [log EXCEPT ![run[w].e] = "skipped"]
        /\ skipped' = skipped \cup {run[w].e}
        /\ Complete(w)
  /\ UNCHANGED <<session, binding, copies, torn, raced, outboundVars, faults>>

\* findOrCreateConversation reads the binding and its session without a lock.
FindConversation(w) ==
  /\ run[w].pc = "find"
  /\ run' = [run EXCEPT ![w].bound = binding,
       ![w].pc = IF binding # NoSession /\ session[binding] # "closed"
                 THEN "save" ELSE "open"]
  /\ UNCHANGED <<log, job, session, binding, copies, torn, skipped, raced,
                 outboundVars, faults>>

\* Mutant: the binding keeps the closed session (the stale relation that the
\* comment in the code warns of).
ReboundToOld(w, s) == IF run[w].bound = NoSession THEN s ELSE run[w].bound

\* The binding is created with the session, or moved to it.
Rebound(w, s) == s

\* The transaction that opens a session.  A first binding is unique; moving
\* the binding of a closed session compares nothing.
OpenConversation(w, s) ==
  /\ run[w].pc = "open"
  /\ session[s] = "none" /\ \A t \in 1..(s - 1) : session[t] # "none"
  /\ IF run[w].bound = NoSession /\ binding # NoSession
       THEN Goto(w, "failed") /\ UNCHANGED <<session, binding, raced>>
       ELSE /\ session' = [session EXCEPT ![s] = "open"]
            /\ binding' = Rebound(w, s)
            /\ raced' = (raced \/ binding # run[w].bound)
            /\ Goto(w, "save")
  /\ UNCHANGED <<log, job, copies, torn, skipped, outboundVars, faults>>

SaveMessage(w) ==
  /\ run[w].pc = "save"
  /\ copies' = [copies EXCEPT ![run[w].e] = @ + 1]
  /\ run' = [run EXCEPT ![w].pc = "after", ![w].saved = TRUE]
  /\ UNCHANGED <<log, job, session, binding, torn, skipped, raced,
                 outboundVars, faults>>

\* The binding is touched, the counters updated, the turn scheduled; the event
\* is marked last.
MarkEventProcessed(w) ==
  /\ run[w].pc = "after"
  /\ log' = [log EXCEPT ![run[w].e] = "processed"]
  /\ Complete(w)
  /\ UNCHANGED <<session, binding, copies, torn, skipped, raced,
                 outboundVars, faults>>

\* A statement throws, the limit of open sessions included.  Only from the
\* gate on does the handler record it.
Throws(w) ==
  /\ run[w] # IdleRun /\ Fault
  /\ IF run[w].pc \in {"dedupe", "mark", "gate", "failed"}
       THEN AttemptFails(w)
       ELSE Goto(w, "failed") /\ UNCHANGED <<job, torn>>
  /\ UNCHANGED <<log, session, binding, copies, skipped, raced, outboundVars>>

\* The catch block saves 'failed' and throws on.
FailEvent(w) ==
  /\ run[w].pc = "failed"
  /\ log' = [log EXCEPT ![run[w].e] = "failed"]
  /\ AttemptFails(w)
  /\ UNCHANGED <<session, binding, copies, skipped, raced, outboundVars, faults>>

RunStep(w) ==
  \/ Dedupe(w) \/ MarkEventProcessing(w) \/ EntitlementGate(w)
  \/ FindConversation(w) \/ SaveMessage(w) \/ MarkEventProcessed(w)
  \/ Throws(w) \/ FailEvent(w) \/ WorkerDies(w)
  \/ \E s \in Sessions : OpenConversation(w, s)

\* An operator or a sweep closes the conversation.
CloseSession(s) ==
  /\ session[s] = "open"
  /\ session' = [session EXCEPT ![s] = "closed"]
  /\ UNCHANGED <<inboundVars, binding, outboundVars, faults>>

-----------------------------------------------------------------------------
(* Operator replies.                                                       *)

Starts(t, r) ==
  /\ task[t] = IdleTask
  /\ posts < MaxPosts /\ posts' = posts + 1
  /\ task' = [task EXCEPT ![t] = [r |-> r, pc |-> "route"]]
  /\ UNCHANGED <<inboundVars, session, binding, taken, lost, faults>>

\* The reply is persisted as sent, and then delivered.
PostReply(t, r, s) ==
  /\ reply[r].status = "none" /\ session[s] = "open"
  /\ reply' = [reply EXCEPT ![r] = [status |-> "sent", session |-> s]]
  /\ Starts(t, r)

\* The client posts the reply again.  claimFailedForRetry updates a failed
\* message only, but takes the number of elements of [rows, count] for the
\* number of rows, so every caller wins.
RepostReply(t, r) ==
  /\ reply[r].status # "none"
  /\ reply' = [reply EXCEPT ![r].status = IF @ = "failed" THEN "sending" ELSE @]
  /\ Starts(t, r)

TaskGoto(t, pc) == task' = [task EXCEPT ![t].pc = pc]

\* routeOutboundMessage: the session's binding; the connection may be inactive
\* or the channel no longer in the plan, and each read may throw.
Route(t) ==
  /\ task[t].pc = "route"
  /\ \/ binding = reply[task[t].r].session /\ TaskGoto(t, "send")
     \/ TaskGoto(t, "refused")
  /\ UNCHANGED <<inboundVars, session, binding, reply, taken, posts, lost, faults>>

\* The channel takes the reply, refuses it, or takes it and the answer or the
\* row of message_deliveries is lost.
Send(t) ==
  /\ task[t].pc = "send"
  /\ \E took \in BOOLEAN, pc \in {"took", "refused"} :
       /\ pc = "took" => took
       /\ TaskGoto(t, pc)
       /\ taken' = IF took THEN [taken EXCEPT ![task[t].r] = @ + 1] ELSE taken
  /\ UNCHANGED <<inboundVars, session, binding, reply, posts, lost, faults>>

\* markDeliverySent: only a message that is being retried changes.
MarkDeliverySent(t) ==
  LET r == task[t].r IN
  /\ task[t].pc = "took"
  /\ reply' = [reply EXCEPT ![r].status = IF @ = "sending" THEN "sent" ELSE @]
  /\ task' = [task EXCEPT ![t] = IdleTask]
  /\ UNCHANGED <<inboundVars, session, binding, taken, posts, lost, faults>>

\* Mutant: like its sibling, only a retried message changes.
MarkFailedIfRetried(t) ==
  LET r == task[t].r IN
  /\ task[t].pc = "refused"
  /\ reply' = [reply EXCEPT ![r].status = IF @ = "sending" THEN "failed" ELSE @]
  /\ task' = [task EXCEPT ![t] = IdleTask]
  /\ UNCHANGED <<inboundVars, session, binding, taken, posts, lost, faults>>

MarkDeliveryFailed(t) ==
  LET r == task[t].r IN
  /\ task[t].pc = "refused"
  /\ reply' = [reply EXCEPT ![r].status = "failed"]
  /\ task' = [task EXCEPT ![t] = IdleTask]
  /\ UNCHANGED <<inboundVars, session, binding, taken, posts, lost, faults>>

\* The update of a success throws and the message is marked failed instead;
\* the update of a failure throws, which is swallowed, or the process dies.
TaskFails(t) ==
  /\ task[t] # IdleTask /\ Fault
  /\ \/ /\ task[t].pc = "took"
        /\ TaskGoto(t, "refused")
        /\ UNCHANGED lost
     \/ /\ task' = [task EXCEPT ![t] = IdleTask]
        /\ lost' = lost \cup {task[t].r}
  /\ UNCHANGED <<inboundVars, session, binding, reply, taken, posts>>

TaskStep(t) ==
  Route(t) \/ Send(t) \/ MarkDeliverySent(t) \/ MarkDeliveryFailed(t) \/ TaskFails(t)

-----------------------------------------------------------------------------

Next ==
  \/ \E e \in Events : Receive(e) \/ Stall(e)
  \/ \E w \in Workers : RunStep(w) \/ \E e \in Events : Take(w, e)
  \/ \E s \in Sessions : CloseSession(s)
  \/ \E t \in Tasks :
       \/ TaskStep(t)
       \/ \E r \in Replies :
            \/ RepostReply(t, r)
            \/ \E s \in Sessions : PostReply(t, r, s)

Spec == Init /\ [][Next]_vars

-----------------------------------------------------------------------------
(* Properties.                                                             *)

ChannelsTypeOK ==
  /\ log \in [Events -> LogStatuses]
  /\ job \in [Events -> Jobs]
  /\ run \in [Workers -> Runs]
  /\ session \in [Sessions -> {"none", "open", "closed"}]
  /\ binding \in Sessions \cup {NoSession}
  /\ copies \in [Events -> Nat] /\ torn \in [Events -> Nat]
  /\ reply \in [Replies -> [status : {"none", "sent", "sending", "failed"},
                             session : Sessions \cup {NoSession}]]
  /\ task \in [Tasks -> [r : Replies \cup {NULL},
                          pc : {"idle", "route", "send", "took", "refused"}]]
  /\ taken \in [Replies -> Nat]
  /\ skipped \subseteq Events /\ lost \subseteq Replies /\ raced \in BOOLEAN
  /\ posts \in 0..MaxPosts /\ faults \in 0..MaxFaults

\* A queued message is saved: a job that Bull counts as done has saved its
\* message (or the plan did not include the channel), whichever of its runs
\* failed, died, stalled or found the other's mark.  And it is saved once,
\* except for the runs that failed after they had saved it, or overlapped
\* (inbound-pipeline.ts:56-65, 237-244).
SavedOnce ==
  \A e \in Events :
    /\ job[e].state = "done" => copies[e] > 0 \/ e \in skipped
    /\ copies[e] <= torn[e] + 1

\* The thread has at most one open session, and replies reach it: the binding
\* names it, through first contacts that collide on the unique key, closings
\* and reopenings (inbound-pipeline.ts:613-840).  Not so when two runs reopen
\* the thread at once, since the second moves the binding without a look.
OneThread ==
  ~ raced => \A s \in Sessions : session[s] = "open" => binding = s

\* The operator is not told that a reply was sent which the channel never
\* took: when nothing is in progress for a reply that is marked sent, it was
\* taken, or its delivery died or could not be recorded, however often it was
\* posted and in whatever order the deliveries end (delivery-state.ts:53-124).
SentWasTaken ==
  \A r \in Replies :
    (reply[r].status = "sent" /\ \A t \in Tasks : task[t].r # r) =>
      taken[r] > 0 \/ r \in lost

=============================================================================
