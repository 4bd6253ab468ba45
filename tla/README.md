# Verification of the Axentrio platform

Axentrio is a multi-tenant customer-conversation platform: customers write
through a web widget or a messaging channel, an AI agent answers, books
appointments and captures leads, and human operators take conversations over
from a portal. This directory holds TLA+ specifications of its core, **who owns
a conversation, and which customer message gets which reply**, and of the four
subsystems around it that keep state under concurrency and failure: operator
alerts, bookings with their calendar mirror, billing, and the messaging
channels. All paths below are relative to `src/api/src/` unless they say
otherwise.

| module | what it is |
| --- | --- |
| `Ownership` | the abstract promise of the command service: owner, holder, version |
| `ConversationCommands` | the command service: transactions on one conversation's ownership; implements `Ownership` |
| `ConversationSystem` | the same row under every writer of the platform (extends `ConversationCommands`) |
| `TurnCoalescer` | how customer messages become bot replies: scheduling, run-lock, watermark, inline drain |
| `EmailLedger` | the durable email ledger and its retry worker |
| `HandoffAlerts` | the alert outbox, its dispatchers and channels, composed with `EmailLedger` |
| `Bookings` | one bot's diary: creates, requests, moves, cancellations, change of calendar |
| `CalendarMirror` | one booking and its event in the owner's calendar, with the reconciler |
| `CalendarSync` | the same with the owner's changes pulled back (extends `CalendarMirror`) |
| `Billing` | one tenant's accounts and tier against Stripe's events, dunning and overrides |
| `Channels` | one thread on an external channel: inbound events, sessions, operator replies |
| `ConversationCommandsProofs`, `ConversationSystemProofs`, `TurnCoalescerProofs`, `HandoffAlertsProofs`, `BookingsProofs`, `CalendarSyncProofs`, `BillingProofs`, `ChannelsProofs` | theorems about the module of that name, for all constants |
| `MC*` | instances for TLC: symmetry sets, derived constants and state constraints only |

## 1. Inventory

### The conversation core

**Command service** (`services/conversation-command.service.ts`,
`services/session-ownership.ts`, `services/timed-control-expiry.service.ts`).
State: the `chat_sessions` row (ownership, legacy status, `ownership_version`,
operator, human-control mode, hours and deadline, last activity), the
conversation's `handoff_requests`, `conversation_commands` (idempotency ledger),
operator and page messages, system events, `notification_outbox`. Operations:
`requestHandoff`, `claimConversation`, `sendHumanMessage`,
`ingestPageHumanReply`, `releaseConversation`, `releaseExpiredHumanControl`,
`cancelHandoff`, `closeConversation`, `resetConversation`,
`transferConversation`, and the minute sweep over expired timed controls. Each
is a transaction that waits for the row lock. Hard: `now()` is the time the
transaction began, not the time the lock was granted; commands are retried;
several tables are written by different statements and must agree; an AI run is
in flight while all this happens and is fenced only by the version. Correct
means: handoff rows, control columns, status and events agree with the
ownership, nothing is applied twice, every change of owner moves the version,
and expired control ends.

**Other writers of the row** (`server.ts` five-minute sweep,
`routes/session-management.routes.ts` bulk-close,
`utils/releaseAgentSessions.ts`). They bypass the command service with raw
UPDATEs, or select first and write later. Correct means: the rules other parts
rely on (the version fence, status = ownership, closed stays closed) survive
them.

**Turn coalescer and forwarding** (`services/turn-coalescer.ts`,
`services/message-forwarding.service.ts`, `services/unanswered-window.ts`,
`services/session-lock.ts`, with the guardrails of
`guardrails/inbound-guardrails.service.ts` and the ingress of
`services/widget-ingest.ts`). State: messages and their guardrail flags, the
answer watermark on the session row, Redis `agent:lock` and `turn:state`,
delayed Bull jobs, and the entity each process loaded earlier. Operations:
persist, schedule, run a job, vet the window, run the agent, commit the reply
(`finalizeReply`), hand off, re-arm, drain inline. Hard: everything here is
concurrent, and Redis, Bull, the database and the agent each may fail between
two steps. Correct means: a message is answered once, never by a reply that
ignores a takeover, is not read by the agent if the guardrails block it, and
always settles in the end.

### Around the core

**Handoff alerts and email** (`notifications/notification-outbox.worker.ts`,
`services/handoff-notification.service.ts`, `services/notification.service.ts`,
`services/email-delivery.service.ts`, `notifications/email-retry.worker.ts`).
State: outbox rows, notifications, `email_deliveries`. A call site dispatches
after the commit, a sweep is its backstop, a retry worker works off failed mail.
Hard: two dispatchers on one row, errors that are swallowed, a provider that
takes a mail whose transaction is then lost. Correct means: a row is retired
only after both channels were tried, nobody is toasted twice, mail is repeated
only when the ledger could not know, and everything settles.

**Bookings** (`booking/booking-providers/internal.provider.ts`, `capacity.ts`,
`scheduler/calendar-rekey.ts`). State: booking rows with their itinerary key,
advisory locks. Hard: count and write are apart, a move takes two locks, a
change of calendar rewrites the keys that are locked and may fail half-way.
Correct means: the day cap and the gap hold, no circular wait, and what was
cancelled stays so.

**Calendar mirror** (`booking/booking-providers/calendar-sync.ts`,
`scheduler/sync-reconciler.ts`, `scheduler/inbound-calendar-sync.ts`). State:
`sync_pending`, lease, attempts, reference, the event; the credential's cursor,
lease and attempts. Hard: the row commits before the event is written, calls fail
before or after they took effect, and the calendar reports the platform's own
writes among the owner's. Correct means: a difference between event and row is
on record, and both directions come to rest.

**Billing** (`billing/events.ts`, `billing/service.ts`, `billing/dunning.ts`,
`billing/token-budget.service.ts`, `billing/onboarding-trial.ts`). State:
accounts, tier, trial reservation, applied events, dunning clock. Hard: events
repeated, concurrent and out of order; the sweep cancels at Stripe before it
looks at the row again. Correct means: credited once, one trial, no tier without
payment, every past-due account on a clock, and agreement with Stripe in the end.

**Channels** (`channels/inbound-pipeline.ts`,
`channels/inbound-queue.processor.ts`, `channels/channel-webhook.routes.ts`,
`channels/outbound-router.ts`, `channels/delivery-state.ts`). State: the event
log, Bull jobs, sessions and the conversation's binding, the delivery status of
replies. Hard: redelivery, stalled jobs beside their second run, reopening a
closed thread, delivery detached from the request. Correct means: a job that is
done saved its message, one open session per thread, and a reply marked sent was
taken.

### How the parts interact

Ingress (widget, channels) persists a message and schedules a turn; for an
external channel `Channels` finds or opens the session the message goes to. The
turn reads the session row; before it speaks it compares `ownership_version`.
That every change of owner moves it is what `Ownership` promises,
`ConversationCommands` implements (`ImplementsOwnership`) and the raw writers
keep (`SysVersionFencesOwner`); `TurnCoalescer` uses it through its `TakeOver`
and `HandBack` actions, which are steps of `Ownership` again (`SeesOwnership`): the
two halves meet in that specification. A turn that hands off calls `requestHandoff`, whose
outbox row is where `HandoffAlerts` begins (its `RequestHandoff`); the mail it
and the booking code send goes through `EmailLedger`. A row that `Bookings`
writes is then mirrored by `CalendarMirror`; `CalendarSync` moves and cancels it
again for the owner. Realtime events are emitted after commits and carry no
state back.

### Not modelled

`PROJECT.json` lists every part with its files and the reason. Parts with
control of their own that are open:

| part | state | hard behaviour | properties wanted |
| --- | --- | --- | --- |
| pending confirmation (`agent/pending-booking-confirmation.ts`) | Redis record per session | read, compare and delete are separate calls (line 203) | a yes books what was asked last |
| legal invoices (`billing/legal-invoice/*`) | invoice state | partial failure between Stripe and the register | one invoice per payment |
| metering (`billing/token-budget.service.ts:213`) | balance per period | usage added while another request rolls the period | no tokens lost or counted twice |
| delivery receipts, echoes (`channels/*`) | delivery status | receipts out of order | the status only advances |
| insights, knowledge ingestion, memory, leads | leases, document status, gaps | overlapping jobs, retries | one refresh at a time; a failed document is retried or marked |
| tenant deletion, compliance | tombstones | crash in the middle, replay after a restore | nothing erased comes back |
| widget identity | session tokens | resume against a closed session | one live session per visitor |

Left out for good: language-model providers, prompt assembly, the agent's loop
over its tools, travel scoring, the slot engine's arithmetic on hours and time
zones, channel payload translation, file storage (pure I/O or arithmetic without
control of its own), the portal, the mobile app, the widget and the shared
packages (caches over the API), infrastructure descriptions.

## 2. Modules and their correspondence with the code

### ConversationCommands

`conv` is the session row with its handoff rows and a count of its system
events: everything behind one row lock. `tx[c]` is `now()` of the transaction
connection `c` has open. `Begin` fixes it; the command itself is one step (the
lock is held from there to the commit); `Tick` moves the clock in between, so a
transaction can have waited. `EndWithoutEffect` is a rejection, a replayed key,
a duplicate message or a crash: nothing commits.

The row helpers (`ApplyOwnershipTransition`, `ApplyClaim`, `ApplyRelease`,
`ApplyClose`, `CancelledRow`, ...) are functions from row to row named after the
code's helpers, so a command that releases and claims again in one transaction
(an expired claim, a reply to an expired control) is their composition, as it
is in the code. `WithConversation` is `withConversation`: replay or run and
record. `SweepTimedControl` uses the current clock because `SKIP LOCKED` never
waits.

Abstractions: one conversation (no command touches another's rows); message
texts, reasons and results are dropped; `handoffs` is ordered by creation, so
"newest" is the highest index; the outbox is the set of handoff rows that got
an outbox row.

`Ownership` drops all of that and keeps three variables. The refinement mapping
is `owner <- conv.ownership`, `holder <- Holder`, `version <- conv.version`,
where `Holder` is the operator if a human owns the conversation. It says at once
that every change of owner moves the version, that only a transfer takes a
conversation away from its operator, that nothing leaves `closed`, and that no
command skips a stage.

### ConversationSystem

Adds the auto-close UPDATE, the two-step stale-handoff sweep (`picked` between
SELECT and cancel), bulk-close, and the removal of an operator as the code's
three statements: the first reads, the second locks and re-queues, the third
re-queues handoff rows by *their own* operator column. When the UPDATE matches
the row its lock is held to the commit, so steps two and three are then one.

### TurnCoalescer

Messages are numbers in `created_at` order with a kind (clean, spam, warn,
human) that stands for what the guardrails and keyword rules say of them.
`thread` is the messages table (`m`, `-m` for a reply whose live turn is `m`,
`0` for another bot message), `chat` the columns the pipeline reads, `jobs` the
waiting Bull jobs counted by attempt, and `run[p]` what request or worker `p`
is doing, including the session entity it loaded **earlier**: gates on the
entity read `run[p].status`, gates on the row read `chat`. Each await that lets
another process in is a step boundary; a database transaction is
one step, except `finalizeReply`'s: what commits after the snapshot of its UPDATE
and before it holds the row is not seen by its look for newer messages
(`CheckNewer`), while the columns of the row itself are compared under the row's
lock (`CommitTurn`). `GateWindow` and `History` have the limits of their queries
(`MaxWindow` and one less; the code: 11 and 10).

`LeaveUpTo` and `left` are history: they record where the code deliberately does
not answer (human in charge, guardrail block, given up, emergency fallback);
`lapsed` says that the lock's TTL has passed under a live owner.

Faults are switched on per run by the constant `Faults`: `schedule` (Redis or
Bull fails inside `scheduleTurn` after any prefix of its writes), `unlocked`
(Redis fails while asked for the lock), `lapse` (lock TTL passes under its
owner), `stall` (Bull delivers again, worker dead or slow), `database`,
`webhook` (tenant sets a custom webhook), `expiry` (`turn:state` expires). The
agent may always throw.

Left out: documents and non-text messages, waiting for dependencies at boot,
shadow-mode guardrails and loop counters, the difference between `created_at`
order and commit order, the loss of a process between persisting a message and
scheduling it, and Bull's own giving up on a job that stalls too often
(`maxStalledCount`).

### EmailLedger and HandoffAlerts

`sendDurable` is the steps `FindOrCreate`, `LockRow`, `CallProvider`,
`SaveOutcome` of a caller for a key: the row is locked only from the second read
to the commit, and `ledger` changes only with the commit. The retry worker's
read, resend and `advanceAfterFailure` are separate statements and separate
steps. A dispatcher (call site or sweep) walks through `notifyNewHandoff`:
recipients, notes, toasts, emails, then the row is retired. `swallowed` records
errors the code only logs; `taken` and `unknown` count what the provider took
and what the ledger never learned.

### Bookings

A request reads, resolves the key and checks the offer (`Start`), then locks,
checks and writes in steps of their own, so nothing but the advisory lock holds
count and write together. `Matches` is the status in the WHERE clause or the
unique idempotency key, `Excludes` the exclusion constraint. `Reconnect`,
`RekeySelect` and `RekeyRow` are a change of calendar and `rekeyBotBookings`,
row by row; `RekeyFails` is any error but a conflict, after any row, which the
callers log and nobody repeats. `straddled`, `blind` and `overtaken` are history:
a row written by a request that a change of calendar overtook, a row written
beside one that a failed rewrite left on another key, and a move whose "same day"
was read before another move.

### CalendarMirror

The caller's write after its commit (`Call*`) and the reconciler (`Rec*`) share
the row, the reference and the event. Every call to the calendar may fail
without effect or after it. A deleted event may keep its id (`removed`): a create
under that id then returns it as if it were there (`Created`); whether the
calendar still knows it is left open. `fresh` is the comparison of `updated_at`, the only
use the code makes of it. `gaveUp` and `unguarded` are history: the reconciler
gave up, or a step was taken that the code leaves without a flag (listed under
the deviations).

### CalendarSync

`feed` says that the calendar has a change of the event past the stored cursor;
every action that writes the event sets it, the mirror's own included
(`Mirrors`). A round (`Pull*`) has one step per await: claim, list, get, read
the row, renew the lease (`PullActs`), cancel or move or put back, store the
cursor; a lease that ends after its renewal does not stop what follows it. The move and the
cancellation are the provider's, so the process then writes the event as a
caller of `CalendarMirror`; `pull[i].late` keeps what changes after the listing.
A lease ends when its process is dead, or, as a fault, slow. A round that lists
nothing is left out. `skipped` is history: the cursor passes a difference that
was not applied (no reference yet, a new cursor, `MAX_ROUND_ATTEMPTS`);
`crossed`: a round moved the booking while the event was being written.

### Billing

`stripe` is the provider's truth, an external process that appends to `events`;
webhook calls take any event that is not more than `MaxAhead` older ones ahead,
any number of times. A call matches the row first (`Deliver`) and applies the
handler after it locked the rows (`Apply`), mark and effect in one commit; it
may fail in between. `SweepRead`, `SweepCancel`, `SweepDrop` are the dunning
sweep's three awaits. `disordered` is history: an event was applied before an
older one, or by a match that the rows no longer bear out when they are locked;
a checkout was opened beside another; or the sweep dropped another subscription
than the one it had cancelled.

### Channels

`Receive` is the webhook route (log row, then job). A Bull attempt is a run of
`processInboundEvent`, whose awaits are its steps; `Stall` lets a second run
start beside the first. `torn` counts the extra copies that the code's own
failure paths explain (a run that failed or was overlapped after saving).
`PostReply` and `RepostReply` start a detached delivery task whose outcome is
written by `MarkDeliverySent` or `MarkDeliveryFailed`.

## 3. Runs

Distinct states and times are those of two workers.

| run | bounds | states, time |
| --- | --- | --- |
| `commands` | 2 operators, 2 connections, 1 key on claim, hour = 2 ticks, 4 ticks, 4 versions, 2 handoff rows | 300,200 in 1 min |
| `system` | 2 operators, 1 connection, 4 ticks, 3 versions, stale after 1 (session) and 2 (request) ticks | 971,268 in 2 min |
| `coalescer_safety` | 2 processes, 2 messages (clean, spam), faults lapse and stall, 1 re-arm, 2 ownership changes | 1,741,084 in 1 min |
| `coalescer_inline` | 2 processes, 1 message of any kind, every fault but stall, no retry of a job, 2 ownership changes | 1,215,086 in 1 min |
| `coalescer_liveness` | 2 processes, 2 clean messages, fault stall, 1 ownership change | 39,931 in 2 min |
| `coalescer_relay` | 2 processes, 1 clean message, fault webhook | violated, as expected |
| `alerts` | 1 handoff or booking mail, 1 user on both channels, 1 sweeping and 2 retrying processes, 1 failing statement, 2 crashes | 149,076 in 1.5 min |
| `bookings` | 2 bookings, 2 requests, 2 keys, 3 slots on 2 days, cap 1, gap 1, 2 changes of calendar | 4,093,115 in 2.5 min |
| `mirror` | 2 times, 1 customer, 1 reconciler, 2 pulling processes, 2 attempts each, 1 move, edit of the owner or fault | 269,641 in 1 min |
| `billing` | 2 sessions, 1 pack, 2 webhook workers, 6 events, an event overtakes 1, 1 override, 1 failure | 1,289,405 in 1 min |
| `channels` | 2 events, 2 runs, 2 sessions, 1 reply, 2 deliveries, 3 attempts, events, faults and posts together at most 4 | 461,790 in 0.5 min |
| `system_single_handoff` | as `system` | violated, as expected |

Why the bounds suffice. Two connections are enough because a transaction is a
pair of steps and a third only repeats an interleaving of two. Two ticks to the
hour and four ticks let a deadline be set, passed, and passed by more than a
lock wait. Four versions allow request, claim, release and claim again; two
handoff rows allow an old and a new one. In the coalescer two processes are a
run and its rival (a second delivery, an inline drain, an ingress), two messages
a burst and its end, one re-arm distinguishes retrying from giving up, two
ownership changes are the claim and release that end where they began. With two
messages and a window of two the guardrails' limit leaves nothing out; with
three it does, and `coalescer_safety.cfg` with `N = 3`, `Faults = {"stall"}` and
`MaxVersion = 1` (950,416 states) was checked as well; for bursts and windows of
any size there is the proof (`ReadsVetted`). Alerts:
the call site and one sweep are two dispatchers on the row, and two retriers
share a mail; `MAX_ATTEMPTS` is 2 (the code's 5 only repeats the retry).
Bookings: a cap of one makes two rows the overfull day, three slots on two days
give a same-day and a cross-day move and a gap across midnight; two changes of
calendar leave a key and return to it. Mirror: calls fail without bound, so one
move or one edit is enough for a row and an event that differ in either
direction; two pulling processes are the round and the one that takes its lease;
two attempts (the code: 6) tell backing off from giving up. A second reconciler
adds nothing where the properties speak: its claim while the first is at work is
`unguarded`. Billing: six events are two subscriptions' creation, failed invoice
and end; one overtaking is the out-of-order delivery that the handlers are
written for. Channels: two events are the collision of first contacts and of
reopenings; the three attempts are the code's.

`CONSTRAINT`s: `NotExcused` (bookings, mirror) and `Bounded` (channels) do not go
on from states that the properties excuse (`straddled`, `blind` and `overtaken`,
`unguarded` and `skipped`, `raced`); both `Bounded` give the inputs and faults
one budget; `BookedAtFirst` (mirror) fixes which of two interchangeable times is
booked. None of them cuts off a step with a fairness condition, except into a
state that satisfies the liveness property. With one pulling process, a budget
of two was checked as well. Symmetry is used on processes and interchangeable
values only where no liveness is checked. Deadlock is checked for the two row
specifications; the others may rest once their bounded work is done.

What the passing runs show:

* `commands`: `SingleOpenHandoff`, `HandoffMatchesOwnership`,
  `ControlMatchesOwnership` and `OneEventPerTransition` relate tables written by
  different statements after every sequence of commands; `AppliedAtMostOnce` is
  idempotency under retry; `ImplementsOwnership` is the refinement above;
  `HardDeadlineUpToLockWait` is the deadline rule as far as `now()` can keep it;
  `ExpiredControlEnds` is liveness of the sweep.
* `system`: the version fence, the status/ownership agreement, the end of
  control with ownership and finality of closed rows survive all writers, and a
  request nobody answers leaves the queue.
* `coalescer_safety`: with a lapsing lock, repeated deliveries and dying
  workers, no message is answered twice and none is stranded, although a message
  may commit between `finalizeReply`'s look and its write; and until the lock
  first lapses under its owner, the agent reads no message the guardrails block.
* `coalescer_inline`: with scheduling failing half-way and the lock absent or
  lost, replies stay fenced, and as long as no webhook is set the watermark never
  passes an unanswered message.
* `coalescer_liveness`: every persisted message is answered, flagged or
  deliberately left.
* `alerts`: `SentMeansAttempted`, `ToastOnce` and `TakenOnce` hold through
  replays, overlaps and crashes; `AlertSettles` and `RetrySettles` say that no
  row stays open.
* `bookings`: `DayCapacity` and `KeptApart` hold for every interleaving except
  those that the code leaves open (below); `NoMutualWait`;
  `CancelledIsFinal`.
* `mirror`: `SyncAccounted` (the reconciler's clear does not wipe out the flag
  of a move after its claim, no cursor is stored past a change that came after
  its listing) and `SyncConverges` (mirror, reconciler and rounds come to rest).
* `billing`: `CreditedOnce`, `OneTrial`, `NoUnpaidTier` in any order of events;
  `Converges` once all events were applied, in order and by a match that still
  held (not `disordered`); `PastDueIsTimed`.
* `channels`: `SavedOnce`, `OneThread`, `SentWasTaken`.

### Where the code deviates from what it says

Kept as runs:

* `system_single_handoff`. `releaseAgentSessions` selects handoff rows by their
  own operator column, which a transfer does not change. When a transferred
  conversation's current operator is removed, the session goes back to the queue
  but its row, which names the first operator, stays accepted. The request is
  cancelled (no row to settle), the bot serves again, and the next request, which
  reuses only a `requested` row, opens a second one, against "the single open
  HandoffRequest".
* `coalescer_relay`. The drain of a custom webhook holds the run-lock that the
  path it calls asks for: the forward misses it and ends, the message is not
  answered, and the watermark moves past it, against "forwards every message
  exactly once". Whether drain and inline path could both answer a message is
  therefore not asked of this code, except for the canned replies, which take no
  lock (below).

Stated as definitions; each is found by putting the definition in the cfg named:

| definition | how to reproduce |
| --- | --- |
| `HardDeadline` | `commands.cfg`: a reply that waited for the lock past the deadline renews the control |
| `CloseSettlesEverything` | `system.cfg`: raw closes leave handoff rows open and control columns set |
| `OnlyStaleRequestsTimeOut` | `system.cfg`: the customer writes between SELECT and cancel |
| `NoStaleAnswer` | `coalescer_safety.cfg`, as a PROPERTY: a message commits after the snapshot of `finalizeReply`'s UPDATE, against "closes the READ COMMITTED race so no stale reply commits" (`message-forwarding.service.ts:1061`); the message is not lost, it gets a turn of its own |
| `NoMessageStranded` | `coalescer_inline.cfg` with `N = 2`, `Faults = {"schedule"}`, `Kinds = {"clean"}`, `MaxRearms = 2`, `MaxVersion = 0`: the inline path leaves its message to a run that has looked for the last time |
| `NeverAnsweredTwice` | `coalescer_inline.cfg` with `Faults = {"schedule", "lapse"}`: the drain's replies do not compare the watermark |
| `NeverAnsweredTwice` | `coalescer_relay.cfg` with `N = 2` and `Kinds = {"clean", "warn"}` or `{"clean", "human"}`: the inline path's canned replies take no lock, and the drain answers the same message |
| `ReplyFenced` | `coalescer_inline.cfg` with `HandoffEnabled = FALSE`: the fallback message is not fenced |
| `RetriesEnd` | `coalescer_liveness.cfg` with `FairSpec`: lock misses reset the attempt counter |
| `OnlyOwnersTimes` | `mirror.cfg`, as a PROPERTY: a round takes an event that is not written yet, or that a failed write left behind, for the owner's move and moves the booking back (`inbound-calendar-sync.ts:278`), against "The Booking row is source of truth. The Calendar Mirror follows the row" (`docs/booking-rules.md:237`) |
| `PromotionOnTransition` | `billing.cfg`, as a PROPERTY: an `updated` event makes the Stripe account primary again after an override without a change of status (`billing/events.ts:653`, against `events.ts:30-31` and `service.ts:777-779`) |

Read off the models; the passing properties exclude exactly these histories:

* Guardrails (`lapsed`). Messages m1 (to be blocked) to m4 are more than a turn
  vets; run A answers them from m4 with m1 unvetted, which is harmless while the
  history does not reach back to m1. If A's lock lapsed and run B picked the same
  turn before A committed, B may vet m2 to m4 after a later message was blocked:
  the session is paused, so all three are flagged. Once the pause is lifted, the
  next turn's history skips them and shows m1 to the agent (found with `N = 6`
  and `MaxWindow = 3`, and out of reach of the run). The inline drain takes its
  message from `getLatestUnansweredUserMessage` and vets only the message of its
  own request (`message-forwarding.service.ts:706`); `BlockedNeverRead` speaks of
  the coalesced turn only.
* Alerts. Handoff mail passes no `retainPayload`, so a failed one is never
  retried, although `notification-outbox.worker.ts:67-69` leaves it to the
  ledger. The sweep's last update is by id and may write `dead` over `sent`. A
  booking mail whose first attempt dies stays `pending`.
* Bookings. A move within the day skips the count on the strength of a day read
  before the lock (`internal.provider.ts:4102-4106`; `overtaken`). A request in
  progress across a change of calendar holds the lock of the key the bot has
  left (`straddled`). A rewrite of the keys that fails half-way is logged as
  non-fatal (`google-calendar.service.ts:185`) and leaves rows on the old key; the
  next request compares the gap with rows of the new key only and may book over
  them (`blind`; `KeptApart` without that excuse is violated in 11 steps).
* Mirror (`unguarded`, `gaveUp`). A failed delete after a cancellation, a
  process that dies in the middle of a move and a swallowed `markSyncPending`
  are not flagged; two requests' writes may arrive out of order; `createEvent`
  accepts an event found under its id at another time; a cancellation before the
  reference is saved leaves its event; a worker that outlives its lease overlaps
  the next one (against `sync-reconciler.ts:9-10`); `terminal` and
  `recordFailure` write by id; giving up is not final for a row without a
  reference (`reflagOrphanedMirrors`, against `sync-reconciler.ts:14-15`).
* Inbound rounds (`skipped`, `crossed`). A change of an event whose reference is
  not saved yet, or that comes before a new cursor, is never applied; after six
  failed rounds the change set is skipped. A round and a reconciler that work on
  one booking at the same time can take turns in undoing each other, each
  writing what it read before the other's write.
* Billing (`disordered`, unpaid). A subscription that was never paid for keeps
  its place on the row, so the next one's events are refused; so do two sessions
  open together; `updated` after `deleted` brings a cancelled row back; a late
  `checkout.session.completed` overwrites the row's subscription. The row is
  matched before it is locked (`resolveEventRow`): an event that was matched by
  the customer while another is applied, or was not matched because the row came
  a moment later, is marked processed without effect: under the lock the row is
  read again (`events.ts:199-205`), the match (`events.ts:69-113`) is not made
  again. The drop looks at the
  status only (`dunning.ts:167`), so a second past-due subscription may be
  dropped for the first. The last two are out of reach of the run's six events;
  they came up when the invariant behind `Converges` was checked on larger
  bounds, before it was proved.
* Channels (`raced`, `torn`, `lost`). Two runs that reopen a closed thread at
  once leave an open session unbound (`inbound-pipeline.ts:691-747`, against
  `database/migrations/1791500000000-WidgetOpenSessionIdentity.ts:22-23`).
  `claimFailedForRetry` and `markDeliverySent` test the length of
  `[rows, count]`, so posting a delivered reply again sends it again (against
  `delivery-state.ts:10-12`). A message whose job cannot be queued after its log
  row was written is lost; one whose run fails after saving is saved twice; a
  reply stays `sent` when the process dies before it is delivered, and `failed`
  when a retry's success could not be written.

## 4. Fairness

* `FairSpec` of `ConversationCommands` and `SysFairSpec`: weak fairness of the
  sweeps. They are `setInterval` timers of every API process, re-select their
  candidates on each tick and skip what is locked. Customers, operators and the
  clock get no fairness: they may stop.
* `Fairness` of `TurnCoalescer`: a process that runs goes on running; Bull
  delivers waiting jobs, and a lock that is free again and again is at last met
  by some job (jobs re-arm at a fixed delay, the lock is not held for ever); the
  quiet window and a dead owner's TTL pass.
* `Recovery` adds that no outage lasts for ever: each step of a job that is
  tried again and again succeeds at last. Without it a permanently failing agent
  exhausts the re-arm cap, which counts as deliberately left, or, through lock
  misses that reset the counter, is retried for ever (`RetriesEnd` above).

* `HandoffAlerts`: weak fairness of each process (timers fire, awaited calls
  return) and of the backoffs. Failures and deaths get none and are bounded;
  the sweep and the retry worker are `setInterval` timers of every process.
* `CalendarSync`: weak fairness of a request or a round in progress, of the
  reconciler and its reflagging and of the rounds (five-minute timers of every
  process), and of time (backoff and lease end).
* `Bookings`, `Billing` and `Channels` state safety only.

## 5. Proofs

Checked by TLAPS for every value of the constants (any number of operators,
connections, keys, processes and messages, any bounds).

**ConversationCommandsProofs.** Assumptions: `NullAssumption` (NULL differs from
the values it stands beside) and `BoundAssumption` (bounds are naturals). The
invariants of the run are not inductive one by one: that a release completes
*the* accepted row needs that there is only one; that only one is open needs
the agreement of rows and ownership; that the sweep clears exactly live
controls needs control/ownership agreement. They are therefore one predicate
`Consistent` of a row value, which is proved of every row helper
(`ClaimConsistent`, `ReleaseConsistent`, `CloseConsistent`, ...); a command is a
composition of helpers, so each action's lemma composes theirs. `IInv` adds
`Ledger`: types and counts of the idempotency ledgers and, for the deadline
rule, that an open transaction began at most `MaxTxAge` ticks ago and not in the
future. `Invariance` is `Spec => []IInv`; `TypeCorrect`, `OneOpenHandoff`,
`QueueAgrees`, `ControlAgrees`, `StatusAgrees`, `EventsAgree` and `Idempotent`
follow from it, and the action properties `OwnerFenced`, `ClosedStays` and
`DeadlineKept` from it and `EveryStep`, which says of every step that it keeps
the row or fences it. `RefinesOwnership` is the refinement: the initial row maps
to `Ownership`'s, and each action, under `Consistent`, to one of its steps or a
stutter; it contains what `OnlyTransferReassigns` and `ClosedIsFinal` say.

**TurnCoalescerProofs.** Assumptions: the set of processes is finite, bounds are
naturals, switches have their types.

* `TypeCorrect`, with all faults.
* `RepliesFenced` (assuming `HandoffEnabled`): with all faults the bot speaks
  only in a session it owns, and never with a reply computed before an
  ownership change. Invariant: a process's version is never ahead of the row's,
  and while the two agree, what the process saw served by the bot still is
  (`Sound`), because every change of status away from the bot moves the version
  (`Advances`).
* `CoalescedOnce` (assuming neither `schedule` nor `webhook` in `Faults`): no
  message is answered twice. The invariant says that only the coalesced path
  runs and that the watermark stands at or above every reply (`MarkCovers`). The
  lock appears nowhere in it: finalizeReply's comparison is enough, whatever
  the lock does.
* `ReadsVetted` (same assumption): until the lock first lapses under its owner,
  every message the agent reads was vetted or is flagged, for bursts and windows
  of any size. A turn vets only the newest `MaxWindow` messages, so older ones get
  under the watermark unvetted; what keeps them from the agent is that `MaxWindow`
  unflagged messages lie between them and the watermark (`Buried`), more than a
  history shows. That stays so because the run that commits read the row's own
  watermark, and no other run flags anything below it: both are the lock's work
  (`VettedIn`).
* `MarkAnswered`, with all faults: as long as the tenant sets no webhook, the
  watermark stands at an answered message or at one a run left on purpose. The
  drain moves it after its reply, so the invariant says that a run about to move
  it has its reply in the thread (`BackedIn`).
* `CoalescedNotStranded` (assuming neither `schedule` nor `webhook`): every
  unanswered message is in hand: by a queued job, by a process that has not picked
  its turn yet, or by a run whose live turn is that message or a later one
  (`InHand`); a carrier queues a job, answers or leaves before it ends.
* `SeesOwnership`, with all faults: the pipeline's view of owner and version
  implements `Ownership`. `TakeOver` and `HandBack`, which stand for the commands,
  and the pipeline's own handoff are its steps `Pause` and `Return`, and
  everything else leaves owner and version alone.

**ConversationSystemProofs.** The raw closes break the agreement of the row with
its handoff rows, so `Consistent` is lost. What every writer keeps is `RowKept`:
status and ownership agree, an operator and a control window exist only under a
human owner, a deadline exactly under a timed control. The helpers' forms are
those of `ConversationCommandsProofs`; with `Ledger` this is inductive
(`SysInvariance`), and `ControlEnds`, `SysStatusAgrees`, `SysOwnerFenced` and
`SysClosedStays` follow.

**HandoffAlertsProofs.** Assumptions: the kinds of callers are disjoint, the
markers differ from what they mark. Of the ledger: one caller at a time is past
the row lock of a key, and every taking of a mail is unknown, recorded as sent or
about to be (`KeyOK`); hence `TakenAtMostOnce`. Of the dispatchers: what lies
behind a program counter (`DispOK`), so that `sent` is written only after both
channels (`SentWasAttempted`), and each toast stands for a notification row that
exactly one dispatcher created (`Toasts`; `ToastedAtMostOnce`).

**BookingsProofs.** Assumption: finitely many bookings. `NoDeadlock`: what a
transaction holds sorts before what it still has to take (`LocksInOrder`).
`DiaryApart` and `CapKept`: a request that no change of calendar has crossed works
on the key the bot resolves to (`CalmIsCurrent`), which all held rows are on unless
a rewrite is in progress or has failed (`RowsFollow`), and, since it holds that
key's lock, what it checked still holds when it writes (`CheckHolds`). After a
failed rewrite the rows left behind are what `blind` watches for: a row that is
written while there are none is compared with all held rows. The day cap counts
rows of every key and needs no such excuse.
`CancelledStays` is the action property.

**CalendarSyncProofs.** While nothing was left unflagged or skipped, one call
and one reconciler at most are at work and each knows the row it works for;
`OnRecord` says that event and booking agree, or the flag is on and nobody is
about to clear it, or the reconciler gave up, or the row is found as an orphan,
or a call still has its write to make. `SyncInv`: a change is in the feed or
`OnRecord` holds, and a round that ends without a failure or a later change has
seen to `OnRecord`. `OnRecord` leaves out one more state (`Gone`), an event that is
gone from a confirmed booking whose id the calendar still keeps: that deletion is
in the feed, or was skipped. `Accounted` is `SyncAccounted`.

**BillingProofs.** Assumptions: `NullAssumption`, disjoint sessions and packs.
`IInv` says what an event is evidence of (an active subscription was paid for, an
expired session abandoned), that a call in progress is the only one for its
event, that the rows agree, and whom the reservation names; from it
`PacksCreditedOnce`, `TrialIsOne`, `TierIsPaid`, `PastDueTimed`. `Converges` needs
a second invariant about order (`ConvInv`, which like `Converges` speaks of
histories that are not `disordered` and have no unpaid subscription). Stripe's log
runs through one session after the other and its last event that sets a status
(an anchor) agrees with Stripe; the processed events are the first ones; the
account names a subscription that they have not ended; and, once all anchors are
processed, it has the status that the last one sets, or the sweep dropped it and
the event of the end is still to come.

**ChannelsProofs.** Assumption: finitely many workers. `SavedAtMostOnce`: the
copies of a message and the runs past the check for duplicates that have not
saved yet are at most one more than the torn runs (`CopiesAccounted`).
`ThreadIsOne`: a run opens a session only when it found none or a closed one.
`SentIsTaken`: a delivery that is about to report has been taken.

Every safety property of a passing run is a theorem, those of `TurnCoalescer` under
the fault assumptions named, which contain the faults of the run that checks them.

Only model-checked: what is stated under fairness (`ExpiredControlEnds`,
`StaleRequestEnds`, `EveryMessageSettles`, `AlertSettles`, `RetrySettles`,
`SyncConverges`); liveness and ENABLED are out of the prover's reach.

## 6. Plan

Next, in this order:

1. Refinement: the writers of `ConversationSystem` as steps of a weaker `Ownership`
   (the removal of an operator puts a held conversation back in the queue, which
   none of its present steps does), and an abstract ledger (a key is taken once
   or its outcome is unknown) that `EmailLedger` implements.
2. The parts listed as open under "Not modelled": pending confirmation first,
   since it writes the rows of `Bookings`.

Runs stay few, one for each question; the coalescer's smaller runs may be joined
to make room.
