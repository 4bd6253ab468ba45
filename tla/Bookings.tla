------------------------------ MODULE Bookings ------------------------------
(***************************************************************************)
(* The diary of one bot: how bookings are created, requested, accepted,    *)
(* declined, moved and cancelled by concurrent callers, and what keeps the *)
(* diary within the service's day cap and its minimum gap                  *)
(* (api/src/booking/booking-providers/internal.provider.ts, capacity.ts),  *)
(* while the owner connects another calendar and every row is moved to the *)
(* new itinerary key (api/src/scheduler/calendar-rekey.ts).                *)
(*                                                                         *)
(* A caller reads the booking and resolves the key first; only then does a *)
(* transaction take the advisory lock of the key, count, and write.  The   *)
(* count and the write are separate steps here, so nothing but the lock    *)
(* holds them together.  The exclusion constraint and the status in a      *)
(* WHERE clause are evaluated by the write itself.                         *)
(*                                                                         *)
(* Abstracted: one service; slots of one length, numbered, with the buffers*)
(* inside them; a booking is known by its idempotency key; the business    *)
(* ceilings over all services, which are the same count without the        *)
(* shortcut for a move within the day; travel times, except that they make *)
(* a move lock the itinerary it leaves too; change requests; e-mails and   *)
(* reminders; the calendar event, which CalendarMirror follows; the other  *)
(* bots of the same calendar, whose rows may keep a rewritten one behind as*)
(* a failure of the rewrite does.                                          *)
(***************************************************************************)
EXTENDS Integers, FiniteSets

CONSTANTS
  Bookings,       \* idempotency keys, each of one customer's wish
  Procs,          \* requests in progress
  Keys,           \* itinerary keys, numbered in the order they sort in
  BotKey,         \* the one a bot without a calendar resolves to
  Slots,          \* start times
  SlotsPerDay,
  Cap,            \* maxBookingsPerDay of the service
  Gap,            \* minGapMin, in slots
  NULL,
  MaxReconnects   \* bound: how often the calendar is changed

ASSUME BookingsAssumption ==
  /\ Keys \subseteq Nat /\ BotKey \in Keys
  /\ Slots \subseteq Nat /\ SlotsPerDay \in Nat \ {0}
  /\ Cap \in Nat \ {0} /\ Gap \in Nat /\ MaxReconnects \in Nat
  /\ NULL \notin Procs /\ NULL \notin Bookings /\ IsFiniteSet(Bookings)

VARIABLES
  rows,         \* chatbot_bookings
  lock,         \* the advisory lock of every key: who holds it
  op,           \* the requests in progress; calm is history: the calendar
                \* was not being changed when the request began, nor since
  itinerary,    \* the key the bot's calendar resolves to
  rekey,        \* rekeyBotBookings: the rows it has still to rewrite
  reconnects,
  straddled,    \* history: a row was written by a request that was not calm
  blind,        \* history: a row was written beside one on another key, which a
                \* rewrite that failed had left behind
  overtaken     \* history: a booking was moved by a request that had read it
                \* before another request moved it to another day

vars == <<rows, lock, op, itinerary, rekey, reconnects, straddled, blind, overtaken>>

-----------------------------------------------------------------------------

Statuses == {"absent", "request_created", "confirmed", "cancelled"}

Rows == [status : Statuses, slot : Slots \cup {0}, key : Keys]

Idle == [pc |-> "idle", do |-> NULL, b |-> NULL, slot |-> 0, oldDay |-> 0,
         key |-> 0, keys |-> {}, calm |-> FALSE]

DayOf(s) == s \div SlotsPerDay

\* No rewrite of the rows is under way; the last one may have failed.
Settled == {"idle", "failed"}

Init ==
  /\ itinerary = BotKey
  /\ rows = [b \in Bookings |-> [status |-> "absent", slot |-> 0, key |-> BotKey]]
  /\ lock = [k \in Keys |-> NULL]
  /\ op = [p \in Procs |-> Idle]
  /\ rekey = [pc |-> "idle", todo |-> {}]
  /\ reconnects = 0
  /\ straddled = FALSE /\ blind = FALSE /\ overtaken = FALSE

\* Rows that count: held ones (status IN ('pending','confirmed')), except the
\* one that the caller excludes.
Held(except) == {b \in Bookings \ except : rows[b].status = "confirmed"}

\* A create excludes nothing: its row is not there yet.
Own(o) == IF o.do = "create" THEN {} ELSE {o.b}

\* Start times that are apart far enough: they do not overlap, and leave the gap.
Apart(s, t) == s - t > Gap \/ t - s > Gap

\* loadAllBusy, computeSlots and the gap half of enforceBusinessCapacity: only
\* rows on the given key are seen.
Fits(slot, key, except) ==
  \A b \in Held(except) : rows[b].key = key => Apart(rows[b].slot, slot)

-----------------------------------------------------------------------------
(* What comes before the transaction.                                      *)

\* The booking, if there is one, is read, the key resolved, the slot found to
\* be on offer; keys are the locks that the transaction is going to take.
Start(p, do, b, slot, keys) ==
  /\ op[p] = Idle
  /\ Fits(slot, itinerary, IF do = "create" THEN {} ELSE {b})
  /\ op' = [op EXCEPT ![p] =
       [pc |-> "lock", do |-> do, b |-> b, slot |-> slot, oldDay |-> DayOf(rows[b].slot),
        key |-> itinerary, keys |-> keys, calm |-> rekey.pc \in Settled]]
  /\ UNCHANGED <<rows, lock, itinerary, rekey, reconnects, straddled, blind, overtaken>>

\* createBooking returns the row it finds under its idempotency key.
CreateBooking(p, b, slot) ==
  /\ rows[b].status = "absent"
  /\ Start(p, "create", b, slot, {itinerary})

AcceptRequest(p, b) ==
  /\ rows[b].status = "request_created"
  /\ Start(p, "accept", b, rows[b].slot, {itinerary})

\* The itinerary that the booking leaves is locked too when the travel gate
\* has to look at it.
RescheduleBooking(p, b, slot) ==
  /\ rows[b].status = "confirmed"
  /\ \E keys \in {{itinerary}, {itinerary, rows[b].key}} :
       Start(p, "move", b, slot, keys)

-----------------------------------------------------------------------------
(* The transaction.                                                        *)

Step(p, pc) == op' = [op EXCEPT ![p].pc = pc]

\* Commit or rollback: either ends the transaction and with it its locks.
End(p) ==
  /\ op' = [op EXCEPT ![p] = Idle]
  /\ lock' = [k \in Keys |-> IF lock[k] = p THEN NULL ELSE lock[k]]

\* Mutant: the caller's own key first, then the other.
OwnKeyFirst(o) ==
  IF o.key \in o.keys THEN o.key ELSE CHOOSE k \in o.keys : TRUE

\* The keys are locked in sorted order.
NextKey(o) == CHOOSE k \in o.keys : \A l \in o.keys : k <= l

\* Mutant: the transaction takes no lock.
TakeNoLock(p) ==
  /\ op[p].pc = "lock"
  /\ op' = [op EXCEPT ![p].keys = {}, ![p].pc = "check"]
  /\ UNCHANGED <<rows, lock, itinerary, rekey, reconnects, straddled, blind, overtaken>>

TakeLock(p) ==
  /\ op[p].pc = "lock"
  /\ LET k == NextKey(op[p])
         left == op[p].keys \ {k}
     IN /\ lock[k] = NULL
        /\ lock' = [lock EXCEPT ![k] = p]
        /\ op' = [op EXCEPT ![p].keys = left,
                            ![p].pc = IF left = {} THEN "check" ELSE "lock"]
  /\ UNCHANGED <<rows, itinerary, rekey, reconnects, straddled, blind, overtaken>>

\* enforceServiceDayCapacity.  A move within the day that was read before the
\* lock is not counted.
HasRoom(o) ==
  \/ o.do = "move" /\ o.oldDay = DayOf(o.slot)
  \/ Cardinality({b \in Held(Own(o)) : DayOf(rows[b].slot) = DayOf(o.slot)}) < Cap

\* The two gates; a refusal rolls the transaction back.
Check(p) ==
  /\ op[p].pc = "check"
  /\ IF HasRoom(op[p]) /\ Fits(op[p].slot, op[p].key, Own(op[p]))
       THEN Step(p, "write") /\ UNCHANGED lock
       ELSE End(p)
  /\ UNCHANGED <<rows, itinerary, rekey, reconnects, straddled, blind, overtaken>>

\* excl_chatbot_bookings_slot: no two held rows of one key overlap.
Excludes(b, slot, key) ==
  \E c \in Held({b}) : rows[c].key = key /\ rows[c].slot = slot

\* Mutant: the accept and the move match the row by its id alone.
MatchesById(o) ==
  rows[o.b].status # "absent" <=> o.do # "create"

\* uq_chatbot_bookings_idempotency, and the WHERE of the two updates.
Matches(o) ==
  rows[o.b].status = CASE o.do = "create" -> "absent"
                       [] o.do = "accept" -> "request_created"
                       [] o.do = "move"   -> "confirmed"

\* Mutant: an accept leaves the row on the key it was requested under.
WrittenOnOldKey(o) ==
  [status |-> "confirmed", slot |-> o.slot,
   key |-> IF o.do = "accept" THEN rows[o.b].key ELSE o.key]

\* The row after the write: the key moves with the booking.
Written(o) == [status |-> "confirmed", slot |-> o.slot, key |-> o.key]

\* Held rows that a request does not see.
LeftBehind(o) == {b \in Held({o.b}) : rows[b].key # o.key}

\* The INSERT of a create, the UPDATE of an accept or of a move, and the commit.
Write(p) ==
  LET o == op[p] IN
  /\ o.pc = "write"
  /\ End(p)
  /\ IF Matches(o) /\ ~ Excludes(o.b, o.slot, o.key)
       THEN /\ rows' = [rows EXCEPT ![o.b] = Written(o)]
            /\ straddled' = (straddled \/ ~ o.calm)
            /\ blind' = (blind \/ (rekey.pc = "failed" /\ LeftBehind(o) # {}))
            /\ overtaken' = (overtaken \/ (o.do = "move" /\ o.oldDay # DayOf(rows[o.b].slot)))
       ELSE UNCHANGED <<rows, straddled, blind, overtaken>>
  /\ UNCHANGED <<itinerary, rekey, reconnects>>

\* A query of the transaction fails, the travel gate refuses, or the process dies.
Fails(p) ==
  /\ op[p] # Idle
  /\ End(p)
  /\ UNCHANGED <<rows, itinerary, rekey, reconnects, straddled, blind, overtaken>>

-----------------------------------------------------------------------------
(* The writes that take no lock.                                           *)

Becomes(b, row) ==
  /\ rows' = [rows EXCEPT ![b] = row]
  /\ UNCHANGED <<lock, op, itinerary, rekey, reconnects, straddled, blind, overtaken>>

\* createRequest: the service takes requests only, or nothing can be confirmed.
CreateRequest(b, slot) ==
  /\ rows[b].status = "absent"
  /\ Becomes(b, [status |-> "request_created", slot |-> slot, key |-> itinerary])

DeclineRequest(b) ==
  /\ rows[b].status = "request_created"
  /\ Becomes(b, [rows[b] EXCEPT !.status = "cancelled"])

CancelBooking(b) ==
  /\ rows[b].status = "confirmed"
  /\ Becomes(b, [rows[b] EXCEPT !.status = "cancelled"])

\* The owner connects, picks or disconnects a calendar: the bot resolves to
\* another key, and then its rows are rewritten one by one.
Reconnect(k) ==
  /\ reconnects < MaxReconnects
  /\ rekey.pc \in Settled /\ k # itinerary
  /\ itinerary' = k
  /\ rekey' = [pc |-> "select", todo |-> {}]
  /\ reconnects' = reconnects + 1
  /\ op' = [p \in Procs |-> [op[p] EXCEPT !.calm = FALSE]]
  /\ UNCHANGED <<rows, lock, straddled, blind, overtaken>>

RekeySelect ==
  /\ rekey.pc = "select"
  /\ LET todo == {b \in Held({}) : rows[b].key # itinerary}
     IN rekey' = [pc |-> IF todo = {} THEN "idle" ELSE "run", todo |-> todo]
  /\ UNCHANGED <<rows, lock, op, itinerary, reconnects, straddled, blind, overtaken>>

\* A row that would overlap another one on the new key stays where it is.
RekeyRow(b) ==
  /\ b \in rekey.todo
  /\ rekey' = [pc |-> IF rekey.todo = {b} THEN "idle" ELSE "run",
               todo |-> rekey.todo \ {b}]
  /\ rows' = IF rows[b].status = "confirmed" /\ Excludes(b, rows[b].slot, itinerary)
               THEN rows
               ELSE [rows EXCEPT ![b].key = itinerary]
  /\ UNCHANGED <<lock, op, itinerary, reconnects, straddled, blind, overtaken>>

\* Any other error of the SELECT or of an UPDATE, or the death of the process:
\* the rows not yet rewritten keep the old key, and the callers of the rewrite log
\* it and go on.  Nothing comes back to it before the calendar is changed again.
RekeyFails ==
  /\ rekey.pc \notin Settled
  /\ rekey' = [pc |-> "failed", todo |-> {}]
  /\ UNCHANGED <<rows, lock, op, itinerary, reconnects, straddled, blind, overtaken>>

Next ==
  \/ \E p \in Procs :
       \/ TakeLock(p) \/ Check(p) \/ Write(p) \/ Fails(p)
       \/ \E b \in Bookings :
            \/ AcceptRequest(p, b)
            \/ \E slot \in Slots : CreateBooking(p, b, slot) \/ RescheduleBooking(p, b, slot)
  \/ \E b \in Bookings :
       \/ DeclineRequest(b) \/ CancelBooking(b) \/ RekeyRow(b)
       \/ \E slot \in Slots : CreateRequest(b, slot)
  \/ RekeySelect \/ RekeyFails
  \/ \E k \in Keys : Reconnect(k)

Spec == Init /\ [][Next]_vars

-----------------------------------------------------------------------------
(* Properties.                                                             *)

BookingsTypeOK ==
  /\ rows \in [Bookings -> Rows]
  /\ lock \in [Keys -> Procs \cup {NULL}]
  /\ op \in [Procs ->
       {Idle} \cup
       [pc : {"lock", "check", "write"}, do : {"create", "accept", "move"},
        b : Bookings, slot : Slots \cup {0}, oldDay : Nat, key : Keys,
        keys : SUBSET Keys, calm : BOOLEAN]]
  /\ itinerary \in Keys
  /\ rekey \in [pc : {"idle", "select", "run", "failed"}, todo : SUBSET Bookings]
  /\ reconnects \in 0..MaxReconnects
  /\ straddled \in BOOLEAN /\ blind \in BOOLEAN /\ overtaken \in BOOLEAN

OnDay(d) == {b \in Held({}) : DayOf(rows[b].slot) = d}

\* No day holds more bookings of the service than its cap, however creates,
\* accepted requests and moves interleave: the count is taken and used under
\* one lock (internal.provider.ts:1574, 2893, 4097).  It does not hold when a
\* calendar was changed under a request in progress, which then holds another
\* lock, nor when two requests move one booking, since the day it leaves is
\* read before the lock.
DayCapacity ==
  ~ straddled /\ ~ overtaken =>
    \A s \in Slots : Cardinality(OnDay(DayOf(s))) <= Cap

\* No two held bookings overlap or stand closer than the gap, whatever keys
\* they were requested, accepted and rewritten under (capacity.ts:180, and
\* the exclusion constraint): only rows of one key are compared, so a row on
\* a key that the bot has left would not be seen.  A rewrite that fails does
\* leave such rows, silently (google-calendar.service.ts:185): the property
\* ends with the first row written beside them, unless another change of
\* calendar has rewritten them before that.
KeptApart ==
  ~ straddled /\ ~ blind =>
    \A b, c \in Held({}) : b # c => Apart(rows[b].slot, rows[c].slot)

\* p waits for a lock that q holds.
WaitsFor(p, q) ==
  /\ op[p].pc = "lock" /\ op[q] # Idle
  /\ lock[NextKey(op[p])] = q

\* No two transactions wait for each other's advisory lock, although a move
\* takes two of them (internal.provider.ts:4091).
NoMutualWait == \A p, q \in Procs : ~ (WaitsFor(p, q) /\ WaitsFor(q, p))

\* A booking that was cancelled, or a request that was declined, stays as it
\* is: an accept or a move that had read it before finds no row
\* (internal.provider.ts:2920, 4156).
CancelledIsFinal ==
  [][\A b \in Bookings : rows[b].status = "cancelled" =>
       rows'[b].status = "cancelled" /\ rows'[b].slot = rows[b].slot]_rows

=============================================================================
