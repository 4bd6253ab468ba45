--------------------------- MODULE TurnCoalescer ---------------------------
(***************************************************************************)
(* How one conversation's customer messages become bot replies.            *)
(*                                                                         *)
(* A message is persisted, then scheduled: a delayed Bull job per message  *)
(* (turn-coalescer.ts).  A job takes the session's Redis run-lock, reads   *)
(* the session row, picks the newest unanswered message as the live turn,  *)
(* runs the agent, and commits the reply together with the durable answer  *)
(* watermark (finalizeReply).  When scheduling fails the ingress falls     *)
(* back to the legacy inline path (forwardMessageToN8n), which takes the   *)
(* same lock and drains with replies that do not look at the watermark.    *)
(*                                                                         *)
(* Ownership commands, whose own correctness ConversationCommands is       *)
(* about, appear as TakeOver and HandBack: each moves ownership_version.   *)
(* Message texts, prompts and timings are left out: a message is its       *)
(* number, in created_at order, and its kind.                              *)
(***************************************************************************)
EXTENDS Integers, Sequences, FiniteSets

CONSTANTS
  Procs,          \* API requests and Bull workers that can run at one time
  N,              \* messages the customer sends
  Kinds,          \* the kinds of message, a subset of AllKinds
  Faults,         \* the faults that may happen, a subset of AllFaults
  HandoffEnabled, \* bot.settings.features.handoffEnabled
  MaxRearms,      \* MAX_REARM_ATTEMPTS
  MaxDrainTurns,  \* MAX_DRAIN_TURNS
  MaxWindow,      \* rows that the guardrails' window and the history query take (11)
  MaxVersion,     \* bound: operators move ownership while version is below it
  MaxStalls       \* bound: deliveries Bull repeats (its maxStalledCount is 2)

\* clean: answered by the agent; spam: the guardrails block it; warn: they
\* answer it with a canned warning; human: it holds an escalation keyword.
AllKinds == {"clean", "spam", "warn", "human"}

\* schedule: Redis or Bull fails inside scheduleTurn; unlocked: Redis fails when
\* the inline path asks for the lock; lapse: the lock's TTL passes while its
\* owner runs; stall: Bull delivers a job again, its first worker dead or merely
\* slow; database: a query outside the job's catch fails; webhook: the tenant sets
\* a custom webhook; expiry: turn:state expires.
AllFaults == {"schedule", "unlocked", "lapse", "stall", "database", "webhook", "expiry"}

ASSUME ProcsAssumption == IsFiniteSet(Procs)
ASSUME BoundsAssumption ==
  /\ N \in Nat /\ MaxRearms \in Nat /\ MaxDrainTurns \in Nat
  /\ MaxWindow \in Nat \ {0} /\ MaxVersion \in Nat /\ MaxStalls \in Nat
ASSUME SwitchesAssumption ==
  Kinds \subseteq AllKinds /\ Faults \subseteq AllFaults /\ HandoffEnabled \in BOOLEAN

VARIABLES
  kind,    \* the kind of each persisted user message, in created_at order
  thread,  \* the messages table: m for user message m, -m for a reply whose
           \* live turn is m, 0 for another bot message
  flagged, \* messages with guardrail_flagged
  chat,    \* the chat_sessions row: status, version, ai_auto_reply_enabled and
           \* the answer watermark
  lock,    \* agent:lock:{session}: free, an owner token, or a dead owner's
  last,    \* turn:state lastPendingId, 0 when the key is absent
  due,     \* the quiet window after the last scheduled message has passed
  jobs,    \* waiting turn-coalesce jobs, counted by their attempt number
  run,     \* what each process is doing
  webhook, \* the tenant has a custom webhook URL
  stalls,  \* deliveries repeated so far
  left,    \* history: the newest message a run deliberately left unanswered
  lapsed   \* history: the run-lock's TTL passed under a live owner

vars == <<kind, thread, flagged, chat, lock, last, due, jobs, run, webhook,
          stalls, left, lapsed>>
env  == <<webhook, stalls, lapsed>>

Msgs   == 1..N
Marks  == 0..N
Larger(a, b) == IF a < b THEN b ELSE a

\* Statuses in which the bot takes the turn; "human" is handoff, active or closed.
Serves == {"waiting", "bot"}

Free  == <<"free">>
Dead  == <<"dead">>
Token(p, path) == <<p, path>>

Outcomes == {"none", "response", "infra", "handoff", "warn", "keyword", "emergency"}
\* finalizeReply's staleGuard, and the outcomes that end in handleBotHandoff.
StaleGuarded == {"response", "warn"}
HandsOff     == {"handoff", "keyword", "emergency"}

JobSteps    == {"locked", "loaded", "turn", "think", "check", "commit", "announce",
                "settle", "relay", "relayed"}
InlineSteps == {"schedule", "forward", "warn", "warning", "canned", "acquire", "drain",
                "reason", "send", "escalate", "advance", "stop", "rescue"}

\* A process: its step, the path it is on, the message it works for, the
\* session row it read (status, version, ai, mark) and its own bookkeeping.
Idle == [step |-> "idle", path |-> "none", hwm |-> 0, status |-> "bot", version |-> 0,
         ai |-> TRUE, mark |-> 0, attempt |-> 0, bound |-> 0, done |-> {},
         outcome |-> "none"]

Runs == [step: {"idle"} \cup JobSteps \cup InlineSteps,
         path: {"none", "job", "inline", "relay"}, hwm: Marks,
         status: Serves \cup {"human"}, version: Nat, ai: BOOLEAN, mark: Marks,
         attempt: 0..MaxRearms, bound: Marks, done: SUBSET Msgs, outcome: Outcomes]

TypeOK ==
  /\ kind \in Seq(Kinds) /\ Len(kind) <= N
  /\ thread \in Seq(-N..N)
  /\ flagged \subseteq Msgs
  /\ chat \in [status: Serves \cup {"human"}, version: Nat, ai: BOOLEAN, mark: Marks]
  /\ lock \in {Free, Dead} \cup (Procs \X {"job", "inline"})
  /\ last \in Marks /\ due \in BOOLEAN
  /\ jobs \in [0..MaxRearms -> Nat]
  /\ run \in [Procs -> Runs]
  /\ webhook \in BOOLEAN /\ stalls \in Nat /\ left \in Marks /\ lapsed \in BOOLEAN

Init ==
  /\ kind = <<>> /\ thread = <<>> /\ flagged = {}
  /\ chat \in [status: Serves, version: {0}, ai: {TRUE}, mark: {0}]
  /\ lock = Free /\ last = 0 /\ due = FALSE
  /\ jobs = [a \in 0..MaxRearms |-> 0]
  /\ run = [p \in Procs |-> Idle]
  /\ webhook = FALSE /\ stalls = 0 /\ left = 0 /\ lapsed = FALSE

-----------------------------------------------------------------------------
(* The queries of unanswered-window.ts and message-forwarding.service.ts.  *)

Arrived == 1..Len(kind)

\* The unanswered window (mark, hwm] without flagged messages.
Window(mark, hwm) == {m \in Arrived : mark < m /\ m <= hwm /\ m \notin flagged}

\* getNewestUnansweredUserMessage and getOldestUnansweredUserMessage: one message
\* or none.
Newest(mark) ==
  {m \in Window(mark, N) : \A n \in Window(mark, N) : n <= m}
Oldest(mark, upTo) ==
  {m \in Window(mark, upTo) : \A n \in Window(mark, upTo) : m <= n}

\* getUnansweredUserWindow, for the guardrails: the newest MaxWindow of the window.
GateWindow(mark, hwm) ==
  {m \in Window(mark, hwm) :
     Cardinality({n \in Window(mark, hwm) : m < n}) < MaxWindow}

\* getCoalescedHistory: the customer's messages among the newest MaxWindow - 1
\* visible rows before the live turn; bot messages take rows, too.
BotRowsBetween(m, hwm) ==
  {i \in DOMAIN thread : /\ thread[i] <= 0
                         /\ \E j \in DOMAIN thread : j < i /\ thread[j] = m
                         /\ \E j \in DOMAIN thread : i < j /\ thread[j] = hwm}
History(hwm) ==
  {m \in Arrived :
     /\ m < hwm /\ m \notin flagged
     /\ Cardinality({n \in Arrived : m < n /\ n < hwm /\ n \notin flagged})
          + Cardinality(BotRowsBetween(m, hwm)) < MaxWindow - 1}

\* getLatestUnansweredUserMessage: the latest visible message, if a customer sent
\* it.  It knows the thread, not the watermark.
LatestUnanswered ==
  {m \in Msgs : \E i \in DOMAIN thread :
     /\ thread[i] = m /\ m \notin flagged
     /\ \A j \in DOMAIN thread : i < j => thread[j] \in flagged}

-----------------------------------------------------------------------------
(* Steps shared by the paths.                                              *)

\* The process's next record, and the common case of a next step only.
Becomes(p, r) == run' = [run EXCEPT ![p] = r]
Goto(p, step) == Becomes(p, [run[p] EXCEPT !.step = step])

\* Read the session row into the process's ChatSession entity.
Loaded(r) == [r EXCEPT !.status = chat.status, !.version = chat.version,
                       !.ai = chat.ai, !.mark = chat.mark]

Added(q, a)   == [q EXCEPT ![a] = @ + 1]
Removed(q, a) == [q EXCEPT ![a] = @ - 1]

\* releaseSessionLock and RELEASE_LUA: only the owner's token deletes the key.
Release(p, path) == lock' = IF lock = Token(p, path) THEN Free ELSE lock

\* A job's end: drop the lock and the process.
EndJob(p) == Release(p, "job") /\ Becomes(p, Idle)

LeaveUpTo(m) == left' = Larger(left, m)

\* rearmWithBackoff: queue the next attempt, or give up at the cap (on the whole
\* backlog when the run had not picked its turn yet).
RearmWithBackoff(p) ==
  LET r == run[p] IN
  IF r.attempt + 1 > MaxRearms
    THEN LeaveUpTo(IF r.hwm = 0 THEN Len(kind) ELSE r.hwm) /\ UNCHANGED jobs
    ELSE jobs' = Added(jobs, r.attempt + 1) /\ UNCHANGED left

\* handleBotHandoff: requestHandoff moves a bot-owned session to the queue and
\* leaves any other as it is; with handoffs disabled a fallback message goes out,
\* with no ownership check at all.
BotHandoff ==
  IF HandoffEnabled
    THEN /\ chat' = IF chat.status \in Serves
                      THEN [chat EXCEPT !.status = "human", !.version = @ + 1]
                      ELSE chat
         /\ UNCHANGED thread
    ELSE thread' = Append(thread, 0) /\ UNCHANGED chat

\* enforceBlock: atomicDisableAutoReply pauses the session.
PauseAutoReply == chat' = [chat EXCEPT !.ai = FALSE]

\* runInboundGate on one message, in enforce mode: a paused session rejects any.
GateRejects(m) == ~chat.ai \/ kind[m] = "spam"

\* transitionWaitingToBot, for an entity whose own status is r.status.
WaitingToBot(r) ==
  chat' = IF r.status = "waiting" /\ chat.status = "waiting"
            THEN [chat EXCEPT !.status = "bot"] ELSE chat

\* finalizeReply's look for a newer message.  The transaction is READ COMMITTED:
\* what commits after the UPDATE's snapshot, while it waits for the row or before
\* it commits itself, is not seen.
StaleAtSnapshot(r) == r.outcome \in StaleGuarded /\ Window(r.hwm, N) # {}

\* Mutant of the predicate: it forgets the watermark.
FinalizeIgnoringWatermark(r) ==
  /\ chat.ai
  /\ chat.status \in Serves
  /\ chat.version = r.version

\* finalizeReply's predicate on the row, compared under the row's lock.
MayFinalize(r) ==
  /\ chat.ai
  /\ chat.status \in Serves
  /\ chat.version = r.version
  /\ chat.mark < r.hwm

\* Reply and watermark commit together.
Finalize(r) ==
  /\ thread' = Append(thread, -r.hwm)
  /\ chat' = [chat EXCEPT !.mark = r.hwm]

\* advanceCoalescedWatermark: monotone; its errors are swallowed.
AdvanceWatermark(m) ==
  \/ chat' = [chat EXCEPT !.mark = Larger(@, m)]
  \/ "database" \in Faults /\ UNCHANGED chat

-----------------------------------------------------------------------------
(* Ingress: persist the message, then schedule its turn.                   *)

\* The customer's message is saved by a request that already holds the session
\* entity it loaded.
Ingest(p, k) ==
  /\ run[p].step = "idle" /\ Len(kind) < N
  /\ kind' = Append(kind, k)
  /\ thread' = Append(thread, Len(kind) + 1)
  /\ Becomes(p, [Loaded(Idle) EXCEPT !.step = "schedule",
                                     !.path = "inline", !.hwm = Len(kind) + 1])
  /\ UNCHANGED <<flagged, chat, lock, last, due, jobs, env, left>>

\* scheduleTurn: STATE_UPDATE_LUA and dueAt, then one delayed job.
ScheduleTurn(p) ==
  /\ run[p].step = "schedule"
  /\ last' = run[p].hwm /\ due' = FALSE
  /\ jobs' = Added(jobs, 0)
  /\ Becomes(p, Idle)
  /\ UNCHANGED <<kind, thread, flagged, chat, lock, env, left>>

\* A custom-webhook tenant is not coalesced.  The check is cached, so a webhook
\* just configured may go unseen (ScheduleTurn stays enabled).
ScheduleCustomWebhook(p) ==
  /\ run[p].step = "schedule" /\ webhook
  /\ Goto(p, "forward")
  /\ UNCHANGED <<kind, thread, flagged, chat, lock, last, due, jobs, env, left>>

\* scheduleTurn's catch: some prefix of its three Redis writes happened, the add
\* perhaps with its acknowledgement lost, and the message is forwarded inline.
ScheduleFails(p) ==
  /\ run[p].step = "schedule" /\ "schedule" \in Faults
  /\ \/ UNCHANGED <<last, due, jobs>>
     \/ last' = run[p].hwm /\ UNCHANGED <<due, jobs>>
     \/ last' = run[p].hwm /\ due' = FALSE /\ jobs' \in {jobs, Added(jobs, 0)}
  /\ Goto(p, "forward")
  /\ UNCHANGED <<kind, thread, flagged, chat, lock, env, left>>

-----------------------------------------------------------------------------
(* coalesceProcessor.                                                      *)

\* Mutant: a lock miss drops the job instead of re-arming it.
TakeJobOrDrop(p, a) ==
  /\ run[p].step = "idle" /\ jobs[a] > 0
  /\ jobs' = Removed(jobs, a)
  /\ IF lock = Free
       THEN /\ lock' = Token(p, "job")
            /\ Becomes(p, [Idle EXCEPT !.step = "locked", !.path = "job",
                                       !.attempt = a])
       ELSE UNCHANGED <<lock, run>>
  /\ UNCHANGED <<kind, thread, flagged, chat, last, due, env, left>>

\* SET NX on the run-lock; a miss re-arms at a flat delay with attempt 0.
TakeJob(p, a) ==
  /\ run[p].step = "idle" /\ jobs[a] > 0
  /\ IF lock = Free
       THEN /\ lock' = Token(p, "job")
            /\ jobs' = Removed(jobs, a)
            /\ Becomes(p, [Idle EXCEPT !.step = "locked", !.path = "job",
                                       !.attempt = a])
       ELSE jobs' = Added(Removed(jobs, a), 0) /\ UNCHANGED <<lock, run>>
  /\ UNCHANGED <<kind, thread, flagged, chat, last, due, env, left>>

\* sessionRepository.findOne: the row every later gate of this run looks at.
LoadSession(p) ==
  /\ run[p].step = "locked"
  /\ Becomes(p, [Loaded(run[p]) EXCEPT !.step = "loaded"])
  /\ UNCHANGED <<kind, thread, flagged, chat, lock, last, due, jobs, env, left>>

\* Under the lock: the newest unanswered message, then the fresh webhook check,
\* then the due time.
PickTurn(p) ==
  LET r == run[p] IN
  /\ r.step = "loaded"
  /\ \/ /\ Newest(r.mark) = {}
        /\ EndJob(p) /\ UNCHANGED jobs
     \/ \E hwm \in Newest(r.mark) :
        /\ webhook
        /\ Becomes(p, [r EXCEPT !.step = "relay", !.bound = IF last # 0 THEN last ELSE hwm])
        /\ UNCHANGED <<lock, jobs>>
     \/ /\ Newest(r.mark) # {} /\ ~webhook /\ ~due
        /\ jobs' = Added(jobs, 0) /\ EndJob(p)
     \/ \E hwm \in Newest(r.mark) :
        /\ ~webhook /\ due
        /\ Becomes(p, [r EXCEPT !.step = "turn", !.hwm = hwm])
        /\ UNCHANGED <<lock, jobs>>
  /\ UNCHANGED <<kind, thread, flagged, chat, last, due, env, left>>

\* Mutant: the live turn takes no row of the guardrails' window.
RejectedShort(r) ==
  LET w == {m \in Window(r.mark, r.hwm) :
              Cardinality({n \in Window(r.mark, r.hwm) : m < n}) < MaxWindow - 1}
  IN {m \in w : \E s \in w : s <= m /\ GateRejects(s)}

\* gateTurnWindow: what the guardrails flag of the window.  A blocked message
\* pauses the session, and a paused session flags whatever is still to be vetted.
Rejected(r) ==
  LET w == GateWindow(r.mark, r.hwm) IN {m \in w : \E s \in w : s <= m /\ GateRejects(s)}

\* resolveTurnAutoresponse: a canned reply in place of the agent's, for what the
\* guardrails saw or a keyword anywhere in the window (a full window is read again
\* without the limit); keywords count only once the session is in status bot.
Autoresponse(r) ==
  IF \E m \in GateWindow(r.mark, r.hwm) : kind[m] = "warn" THEN "warn"
  ELSE IF r.status = "bot" /\ \E m \in Window(r.mark, r.hwm) : kind[m] = "human"
    THEN "keyword"
  ELSE "none"

\* runTurn up to the agent: the gates on the entity read earlier, then the
\* guardrails over the whole window.
GateTurn(p) ==
  LET r == run[p] IN
  /\ r.step = "turn"
  /\ \/ /\ r.status \notin Serves
        /\ LeaveUpTo(r.hwm) /\ EndJob(p) /\ UNCHANGED <<chat, flagged>>
     \/ /\ r.status \in Serves /\ Rejected(r) # {}
        /\ flagged' = flagged \cup Rejected(r)
        /\ PauseAutoReply /\ LeaveUpTo(r.hwm) /\ EndJob(p)
     \/ /\ r.status \in Serves /\ Rejected(r) = {} /\ ~r.ai
        /\ LeaveUpTo(r.hwm) /\ EndJob(p) /\ UNCHANGED <<chat, flagged>>
     \/ /\ r.status \in Serves /\ Rejected(r) = {} /\ r.ai
        /\ Becomes(p, [r EXCEPT
             !.step = IF Autoresponse(r) = "none" THEN "think" ELSE "check",
             !.outcome = Autoresponse(r)])
        /\ UNCHANGED <<chat, flagged, lock, left>>
  /\ UNCHANGED <<kind, thread, last, due, jobs, env>>

\* agentService.run and resolveTurnOutcome.
Think(p) ==
  /\ run[p].step = "think"
  /\ \E o \in {"response", "infra", "handoff"} :
       Becomes(p, [run[p] EXCEPT !.step = "check", !.outcome = o])
  /\ UNCHANGED <<kind, thread, flagged, chat, lock, last, due, jobs, env, left>>

\* Anything that throws after the lock was taken, the handoff included.
JobThrows(p) ==
  /\ run[p].step \in JobSteps \ {"relayed"}
  /\ RearmWithBackoff(p) /\ EndJob(p)
  /\ UNCHANGED <<kind, thread, flagged, chat, last, due, env>>

\* finalizeReply, the snapshot: a newer message rolls it back as 'stale' ...
CheckNewer(p) ==
  LET r == run[p] IN
  /\ r.step = "check"
  /\ \/ ~StaleAtSnapshot(r) /\ Goto(p, "commit") /\ UNCHANGED <<jobs, lock, left>>
     \/ StaleAtSnapshot(r) /\ RearmWithBackoff(p) /\ EndJob(p)
  /\ UNCHANGED <<kind, thread, flagged, chat, last, due, env>>

\* ... and the row: reply and watermark commit, or a failed predicate rolls back.
CommitTurn(p) ==
  LET r == run[p] IN
  /\ r.step = "commit"
  /\ \/ /\ MayFinalize(r) /\ Finalize(r)
        /\ Goto(p, IF r.outcome \in HandsOff THEN "announce" ELSE "settle")
        /\ UNCHANGED <<jobs, lock, left>>
     \/ /\ ~MayFinalize(r)
        /\ RearmWithBackoff(p) /\ EndJob(p)
        /\ UNCHANGED <<thread, chat>>
  /\ UNCHANGED <<kind, flagged, last, due, env>>

\* handleBotHandoff after the reply; the entity follows the command's result.
HandOffTurn(p) ==
  /\ run[p].step = "announce"
  /\ BotHandoff
  /\ Becomes(p, [run[p] EXCEPT !.step = "settle", !.status = chat'.status])
  /\ UNCHANGED <<kind, flagged, lock, last, due, jobs, env, left>>

\* An agent's turn moves waiting to bot; an answered turn clears turn:state if
\* nothing newer was scheduled.
SettleTurn(p) ==
  LET r == run[p] IN
  /\ r.step = "settle"
  /\ IF r.outcome \in {"warn", "keyword"} THEN UNCHANGED chat ELSE WaitingToBot(r)
  /\ last' = IF last = r.hwm THEN 0 ELSE last
  /\ EndJob(p)
  /\ UNCHANGED <<kind, thread, flagged, due, jobs, env, left>>

\* The custom-webhook drain: forward the oldest unanswered message up to the
\* bound, still holding the run-lock ...
RelayNext(p) ==
  LET r == run[p] IN
  /\ r.step = "relay"
  /\ \/ Oldest(r.mark, r.bound) = {} /\ EndJob(p)
     \/ \E m \in Oldest(r.mark, r.bound) :
        /\ Becomes(p, [r EXCEPT !.step = "forward", !.path = "relay", !.hwm = m,
                                !.done = {}])
        /\ UNCHANGED lock
  /\ UNCHANGED <<kind, thread, flagged, chat, last, due, jobs, env, left>>

\* ... and advance the watermark past it.
RelayAdvance(p) ==
  LET m == run[p].hwm IN
  /\ run[p].step = "relayed"
  /\ AdvanceWatermark(m)
  /\ Becomes(p, [run[p] EXCEPT !.step = "relay", !.path = "job", !.mark = m])
  /\ UNCHANGED <<kind, thread, flagged, lock, last, due, jobs, env, left>>

-----------------------------------------------------------------------------
(* forwardMessageToN8n and the drain behind it.                            *)

\* The forward is over: a relay goes on with its loop, a request ends.
EndForward(p) ==
  Becomes(p, IF run[p].path = "relay" THEN [run[p] EXCEPT !.step = "relayed"] ELSE Idle)

\* The drain is over: platformAgentPath's finally releases the lock.
EndDrain(p) == EndForward(p) /\ Release(p, "inline")

\* The routing gates on the entity in hand, the guardrails on this message,
\* then the canned replies.
Forward(p) ==
  LET r       == run[p]
      blocked == GateRejects(r.hwm)
      next    == CASE kind[r.hwm] = "warn" -> "warn"
                   [] kind[r.hwm] = "human" /\ r.status = "bot" -> "canned"
                   [] OTHER -> "acquire"
  IN
  /\ r.step = "forward"
  /\ \/ /\ r.status \notin Serves
        /\ LeaveUpTo(r.hwm) /\ EndForward(p) /\ UNCHANGED <<chat, flagged>>
     \/ /\ r.status \in Serves /\ blocked
        /\ flagged' = flagged \cup {r.hwm}
        /\ PauseAutoReply /\ LeaveUpTo(r.hwm) /\ EndForward(p)
     \/ /\ r.status \in Serves /\ ~blocked
        /\ Becomes(p, [r EXCEPT !.step = next,
                                !.outcome = CASE next = "warn" -> "warn"
                                               [] next = "canned" -> "keyword"
                                               [] OTHER -> "none"])
        /\ UNCHANGED <<chat, flagged, left>>
  /\ UNCHANGED <<kind, thread, lock, last, due, jobs, env>>

\* The guardrail warning goes through finalizeReply, too; a stale one is dropped.
CheckWarning(p) ==
  LET r == run[p] IN
  /\ r.step = "warn"
  /\ IF StaleAtSnapshot(r) THEN LeaveUpTo(r.hwm) /\ EndForward(p)
                            ELSE Goto(p, "warning") /\ UNCHANGED left
  /\ UNCHANGED <<kind, thread, flagged, chat, lock, last, due, jobs, env>>

ForwardWarning(p) ==
  LET r == run[p] IN
  /\ r.step = "warning"
  /\ IF MayFinalize(r) THEN Finalize(r) /\ UNCHANGED left
                       ELSE LeaveUpTo(r.hwm) /\ UNCHANGED <<thread, chat>>
  /\ EndForward(p)
  /\ UNCHANGED <<kind, flagged, lock, last, due, jobs, env>>

\* Mutant: the fence is not passed to sendBotMessage.
Unfenced(r) == TRUE

\* sendBotMessage under its fence: the version is compared in the transaction
\* that saves the reply.  The watermark is not.
Fenced(r) == chat.version = r.version

\* The escalation-keyword reply; a tripped fence suppresses reply and handoff.
ForwardCanned(p) ==
  LET r == run[p] IN
  /\ r.step = "canned"
  /\ IF Fenced(r)
       THEN thread' = Append(thread, -r.hwm) /\ Goto(p, "escalate") /\ UNCHANGED left
       ELSE LeaveUpTo(r.hwm) /\ EndForward(p) /\ UNCHANGED thread
  /\ UNCHANGED <<kind, flagged, chat, lock, last, due, jobs, env>>

\* acquireSessionLock: a miss leaves the message to the run in flight; a Redis
\* failure goes on with no lock.
AcquireSessionLock(p) ==
  /\ run[p].step = "acquire"
  /\ \/ lock = Free /\ lock' = Token(p, "inline") /\ Goto(p, "drain")
     \/ lock # Free /\ EndForward(p) /\ UNCHANGED lock
     \/ "unlocked" \in Faults /\ Goto(p, "drain") /\ UNCHANGED lock
  /\ UNCHANGED <<kind, thread, flagged, chat, last, due, jobs, env, left>>

\* The head of runLegacyDrain's loop, with legacyPreTurnGate's fresh read.
DrainNext(p) ==
  LET r     == run[p]
      turns == {m \in LatestUnanswered :
                  m \notin r.done /\ Cardinality(r.done) < MaxDrainTurns}
      open  == chat.ai /\ chat.status \in Serves
  IN
  /\ r.step = "drain"
  /\ \/ \E m \in turns :
        /\ open
        /\ Becomes(p, [r EXCEPT !.step = "reason", !.hwm = m, !.done = @ \cup {m},
                                !.version = chat.version])
        /\ UNCHANGED left
     \/ \E m \in turns : ~open /\ LeaveUpTo(m) /\ Goto(p, "stop")
     \/ turns = {} /\ Goto(p, "stop") /\ UNCHANGED left
  /\ UNCHANGED <<kind, thread, flagged, chat, lock, last, due, jobs, env>>

\* The agent's run and legacyPostRunGate.
DrainReason(p) ==
  LET r == run[p] IN
  /\ r.step = "reason"
  /\ IF chat.ai /\ Fenced(r)
       THEN /\ \E o \in {"response", "infra", "handoff"} :
                 Becomes(p, [r EXCEPT !.step = "send", !.outcome = o])
            /\ UNCHANGED left
       ELSE LeaveUpTo(r.hwm) /\ Goto(p, "stop")
  /\ UNCHANGED <<kind, thread, flagged, chat, lock, last, due, jobs, env>>

\* Mutant: a suppressed reply does not break out of the drain.
DrainSendGoesOn(p) ==
  LET r == run[p] IN
  /\ r.step = "send"
  /\ thread' = IF Fenced(r) THEN Append(thread, -r.hwm) ELSE thread
  /\ Goto(p, IF Fenced(r) /\ r.outcome \in HandsOff THEN "escalate" ELSE "advance")
  /\ UNCHANGED <<kind, flagged, chat, lock, last, due, jobs, env, left>>

\* dispatchLegacyAgentResult: the fenced reply.
DrainSend(p) ==
  LET r == run[p] IN
  /\ r.step = "send"
  /\ IF Fenced(r)
       THEN /\ thread' = Append(thread, -r.hwm)
            /\ Goto(p, IF r.outcome \in HandsOff THEN "escalate" ELSE "advance")
            /\ UNCHANGED left
       ELSE LeaveUpTo(r.hwm) /\ Goto(p, "stop") /\ UNCHANGED thread
  /\ UNCHANGED <<kind, flagged, chat, lock, last, due, jobs, env>>

\* handleBotHandoff after a drain turn, a canned reply or the emergency one.
Escalate(p) ==
  LET r == run[p] IN
  /\ r.step = "escalate"
  /\ BotHandoff
  /\ CASE r.outcome = "handoff" ->
             /\ Becomes(p, [r EXCEPT !.step = "advance", !.status = chat'.status])
             /\ UNCHANGED lock
       [] r.outcome = "keyword" ->
             /\ Becomes(p, IF r.path = "relay"
                             THEN [r EXCEPT !.step = "relayed", !.status = chat'.status,
                                            !.version = chat'.version]
                             ELSE Idle)
             /\ UNCHANGED lock
       [] OTHER -> EndDrain(p)
  /\ UNCHANGED <<kind, flagged, last, due, jobs, env, left>>

\* After the reply: the watermark, then the next turn unless this one handed off
\* or met an upstream failure.
DrainAdvance(p) ==
  LET r == run[p] IN
  /\ r.step = "advance"
  /\ AdvanceWatermark(r.hwm)
  /\ Goto(p, IF r.outcome = "response" THEN "drain" ELSE "stop")
  /\ UNCHANGED <<kind, thread, flagged, lock, last, due, jobs, env, left>>

\* The drain returns: waiting becomes bot, the lock is released.
DrainStop(p) ==
  /\ run[p].step = "stop"
  /\ WaitingToBot(run[p]) /\ EndDrain(p)
  /\ UNCHANGED <<kind, thread, flagged, last, due, jobs, env, left>>

\* The agent, the send or the handoff throws: platformAgentPath's catch.
DrainThrows(p) ==
  LET r == run[p] IN
  /\ \/ r.step \in {"drain", "reason", "send", "advance"}
     \/ r.step = "escalate" /\ r.outcome = "handoff"
  /\ Goto(p, "rescue")
  /\ UNCHANGED <<kind, thread, flagged, chat, lock, last, due, jobs, env, left>>

\* legacyEmergencyFallback: a fresh ownership read, a fenced canned reply.
DrainRescue(p) ==
  /\ run[p].step = "rescue"
  /\ LeaveUpTo(run[p].hwm)
  /\ IF chat.status \in Serves
       THEN /\ thread' = Append(thread, 0)
            /\ Becomes(p, [run[p] EXCEPT !.step = "escalate", !.outcome = "emergency",
                                         !.version = chat.version])
            /\ UNCHANGED lock
       ELSE EndDrain(p) /\ UNCHANGED thread
  /\ UNCHANGED <<kind, flagged, chat, last, due, jobs, env>>

\* Anything else that throws: a request's error is logged by its caller, a
\* relay's reaches the job's catch.
ForwardThrows(p) ==
  LET r == run[p] IN
  /\ "database" \in Faults
  /\ \/ r.step \in {"forward", "warn", "warning", "canned", "rescue"}
     \/ r.step = "escalate" /\ r.outcome # "handoff"
  /\ IF r.path = "relay" THEN RearmWithBackoff(p) ELSE UNCHANGED <<jobs, left>>
  /\ Becomes(p, Idle)
  /\ lock' = IF lock \in {Token(p, "job"), Token(p, "inline")} THEN Free ELSE lock
  /\ UNCHANGED <<kind, thread, flagged, chat, last, due, env>>

-----------------------------------------------------------------------------
(* The surroundings: operators, clocks, Redis and Bull.                    *)

Unattended == <<kind, thread, flagged, last, due, jobs, run, lock, left>>

\* An ownership command (claim, handoff, close) takes the session from the bot.
TakeOver ==
  /\ chat.status \in Serves /\ chat.version < MaxVersion
  /\ chat' = [chat EXCEPT !.status = "human", !.version = @ + 1]
  /\ UNCHANGED <<Unattended, env>>

\* A release, a cancelled handoff or an expired control gives it back.
HandBack ==
  /\ chat.status = "human" /\ chat.version < MaxVersion
  /\ chat' = [chat EXCEPT !.status = "bot", !.version = @ + 1]
  /\ UNCHANGED <<Unattended, env>>

\* An operator re-enables AI replies after a guardrail pause.
Reactivate ==
  /\ ~chat.ai
  /\ chat' = [chat EXCEPT !.ai = TRUE]
  /\ UNCHANGED <<Unattended, env>>

\* The dueAt of computeDueAt passes.
QuietWindowPasses ==
  /\ ~due /\ due' = TRUE
  /\ UNCHANGED <<kind, thread, flagged, chat, lock, last, jobs, run, env, left>>

\* The lock's TTL passes: after its owner died, or under an owner whose
\* heartbeat fails or whose drain turn outlasts the TTL.
LockLapses ==
  /\ lock = Dead \/ (lock # Free /\ "lapse" \in Faults)
  /\ lock' = Free /\ lapsed' = (lapsed \/ lock # Dead)
  /\ UNCHANGED <<kind, thread, flagged, chat, last, due, jobs, run, webhook, stalls, left>>

\* Bull finds a job stalled and delivers it again; its worker may be dead.
JobStalls(p) ==
  /\ run[p].path \in {"job", "relay"}
  /\ "stall" \in Faults /\ stalls < MaxStalls
  /\ stalls' = stalls + 1
  /\ jobs' = Added(jobs, run[p].attempt)
  /\ \/ UNCHANGED <<run, lock>>
     \/ /\ Becomes(p, Idle)
        /\ lock' = IF lock \in {Token(p, "job"), Token(p, "inline")} THEN Dead ELSE lock
  /\ UNCHANGED <<kind, thread, flagged, chat, last, due, webhook, left, lapsed>>

\* The tenant sets a custom webhook URL.
ConfigureWebhook ==
  /\ "webhook" \in Faults /\ ~webhook /\ webhook' = TRUE
  /\ UNCHANGED <<Unattended, chat, stalls, lapsed>>

\* turn:state reaches its TTL.
StateExpires ==
  /\ "expiry" \in Faults /\ last # 0 /\ last' = 0
  /\ UNCHANGED <<kind, thread, flagged, chat, lock, due, jobs, run, env, left>>

-----------------------------------------------------------------------------
Ingress(p) ==
  ScheduleTurn(p) \/ ScheduleCustomWebhook(p) \/ ScheduleFails(p)

Job(p) ==
  \/ LoadSession(p) \/ PickTurn(p) \/ GateTurn(p) \/ Think(p)
  \/ CheckNewer(p) \/ CommitTurn(p) \/ HandOffTurn(p) \/ SettleTurn(p)
  \/ RelayNext(p) \/ RelayAdvance(p)

Inline(p) ==
  \/ Forward(p) \/ CheckWarning(p) \/ ForwardWarning(p) \/ ForwardCanned(p) \/ AcquireSessionLock(p)
  \/ DrainNext(p) \/ DrainReason(p) \/ DrainSend(p) \/ Escalate(p)
  \/ DrainAdvance(p) \/ DrainStop(p) \/ DrainRescue(p)

Surroundings ==
  \/ TakeOver \/ HandBack \/ Reactivate \/ QuietWindowPasses \/ LockLapses
  \/ ConfigureWebhook \/ StateExpires

Next ==
  \/ \E p \in Procs :
       \/ \E k \in Kinds : Ingest(p, k)
       \/ \E a \in 0..MaxRearms : TakeJob(p, a)
       \/ Ingress(p) \/ Job(p) \/ Inline(p)
       \/ JobThrows(p) \/ DrainThrows(p) \/ ForwardThrows(p) \/ JobStalls(p)
  \/ Surroundings

Spec == Init /\ [][Next]_vars

\* A process that runs goes on running; Bull delivers waiting jobs, and some job
\* meets a free lock if the lock is free again and again; the quiet window and a
\* dead owner's TTL pass.
Fairness ==
  /\ \A p \in Procs : WF_vars(Ingress(p) \/ Job(p) \/ Inline(p))
  /\ SF_vars(lock = Free /\ \E p \in Procs, a \in 0..MaxRearms : TakeJob(p, a))
  /\ WF_vars(QuietWindowPasses)
  /\ WF_vars(lock = Dead /\ LockLapses)

\* No outage lasts for ever: a step of a job that is tried again and again
\* succeeds at last.
Recovery ==
  /\ SF_vars(\E p \in Procs : LoadSession(p))
  /\ SF_vars(\E p \in Procs : PickTurn(p))
  /\ SF_vars(\E p \in Procs : GateTurn(p))
  /\ SF_vars(\E p \in Procs : Think(p))
  /\ SF_vars(\E p \in Procs : CheckNewer(p))
  /\ SF_vars(\E p \in Procs : CommitTurn(p))

FairSpec == Spec /\ Fairness
RecoveringSpec == FairSpec /\ Recovery

-----------------------------------------------------------------------------
(* Properties.                                                             *)

Answered(m) == \E i \in DOMAIN thread : thread[i] = -m

\* No message is the live turn of two replies (finalizeReply's predicate on the
\* watermark, whatever the lock does; the drain has only the lock).
NeverAnsweredTwice ==
  \A i, j \in DOMAIN thread : thread[i] < 0 /\ thread[i] = thread[j] => i = j

\* The watermark stands at a message some reply answered: runs that skip what it
\* covers skip nothing the customer is still waiting for, unless a run left that
\* message on purpose (human in charge, guardrails, given up).  It is asked as long
\* as no custom webhook is set: what the drain of one promises is RelayForwards.
WatermarkIsAnswered ==
  ~webhook /\ chat.mark # 0 => Answered(chat.mark) \/ chat.mark <= left

\* "This forwards every message exactly once" (turn-coalescer.ts:328): a message
\* that the drain of a custom webhook is about to move the watermark past was
\* answered, flagged or left on purpose.
RelayForwards ==
  \A p \in Procs : run[p].step = "relayed" =>
    Answered(run[p].hwm) \/ run[p].hwm \in flagged \/ run[p].hwm <= left

\* In a session the bot serves, when nothing is queued or running, every message
\* is answered, by itself or in the turn of a later one, or was flagged, or
\* deliberately left: none is stranded.
AtRest ==
  /\ chat.status \in Serves
  /\ \A p \in Procs : run[p].step = "idle"
  /\ \A a \in 0..MaxRearms : jobs[a] = 0

NoMessageStranded ==
  AtRest => \A m \in Arrived : \/ m \in flagged \/ m <= left
                              \/ \E n \in Arrived : m <= n /\ Answered(n)

\* The bot speaks only in a session it owns, and a reply computed before an
\* ownership change never lands after it, not even after a claim and a release.
ReplyFenced ==
  [][\A p \in Procs :
       Len(thread') > Len(thread) /\ thread'[Len(thread')] <= 0 /\ run'[p] # run[p]
         => /\ chat.status \in Serves
            /\ thread'[Len(thread')] < 0 => run[p].version = chat.version]_vars

\* What the comment on finalizeReply's predicate says ("closes the READ COMMITTED
\* race so no stale reply commits"): an agent's answer is committed only while it
\* answers the newest message.  A message that commits after the statement's
\* snapshot gets past it; it is answered by a turn of its own (NoMessageStranded).
NoStaleAnswer ==
  [][\A p \in Procs :
       run[p].step = "commit" /\ run[p].outcome = "response" /\ run'[p].step = "settle"
         => Window(run[p].hwm, N) = {}]_vars

\* Whatever the agent reads, its live turn or the customer's messages in its
\* history, is flagged if the guardrails block it: "every user message the agent
\* could see is gated, with no off-by-one" (unanswered-window.ts:224-226).  A burst
\* may be longer than what is vetted, so its oldest messages are never vetted at
\* all, and a pause, a handback or another delivery may come between the two looks.
\* It is asked as long as the run-lock excludes: a run that goes on after its lock
\* has lapsed may flag what keeps an older, unvetted message out of the history.
BlockedNeverRead ==
  ~lapsed => \A p \in Procs : run[p].step = "think" =>
    \A m \in (History(run[p].hwm) \cup {run[p].hwm}) \ flagged : kind[m] # "spam"

\* Every message is eventually answered, flagged or deliberately left.
EveryMessageSettles ==
  \A m \in Msgs :
    m \in Arrived ~> \/ m \in flagged \/ m <= left
                    \/ \E n \in m..N : Answered(n)

\* What the comment on MAX_REARM_ATTEMPTS promises and two jobs that reset each
\* other's counter by lock misses do not keep: failing turns are not retried for
\* ever, the give-up cap of rearmWithBackoff empties the queue in the end.
RetriesEnd == <>[](\A a \in 0..MaxRearms : jobs[a] = 0)
=============================================================================
