--------------------------- MODULE CalendarMirror ---------------------------
(***************************************************************************)
(* One booking and its event in the owner's calendar.  Whoever books,      *)
(* moves or cancels it commits the row first and writes the event after    *)
(* (api/src/booking/booking-providers/calendar-sync.ts); a write that      *)
(* failed leaves sync_pending, which the reconciler works off              *)
(* (api/src/scheduler/sync-reconciler.ts).  Every process may run the      *)
(* reconciler, a call to the calendar may fail before or after it took     *)
(* effect, the owner may delete the event, and a process may die between   *)
(* any two steps.                                                          *)
(*                                                                         *)
(* CalendarSync composes it with the way back and states the properties.   *)
(*                                                                         *)
(* The rules of the diary are in Bookings.  Abstracted: one booking, one   *)
(* reference, one connected calendar that the tenant's plan includes; the  *)
(* body and the place of the event; e-mails.  A failing query of the       *)
(* reconciler is counted like a failing call, so only the calls fail here. *)
(* updated_at is compared only with the value that a claim returned, so it *)
(* is kept as what it is for: fresh says that the row was not written      *)
(* since.                                                                  *)
(***************************************************************************)
EXTENDS Integers, FiniteSets

CONSTANTS
  Times,             \* start times
  Callers,           \* requests that can be in progress for the booking
  Workers,           \* processes that run the sweeps
  NULL,
  MaxAttempts,       \* MAX_ATTEMPTS
  MaxMoves,          \* bound: moves that are asked for
  MaxFaults          \* bound: processes that die, edits of the owner

ASSUME MirrorAssumption ==
  /\ NULL \notin Times
  /\ MaxAttempts \in Nat \ {0}
  /\ MaxMoves \in Nat /\ MaxFaults \in Nat

VARIABLES
  row,       \* the row of chatbot_bookings
  ref,       \* its chatbot_booking_references row exists
  event,     \* the event's time, NULL: there is no event
  removed,   \* the calendar: an event of the booking was deleted, and keeps its id
  call,      \* writes of the event that follow a booking, a move, a cancel
  rec,       \* reconcilePendingBookingSyncs in every process
  moves, faults,
  gaveUp,    \* history: the reconciler gave up, and nothing was flagged since
  unguarded  \* history: the event was left behind by one of the steps that
             \* the code leaves unflagged (see Leaves)

vars == <<row, ref, event, removed, call, rec, moves, faults,
          gaveUp, unguarded>>

-----------------------------------------------------------------------------

Idle == [pc |-> "idle", do |-> NULL, time |-> NULL, ref |-> FALSE]

RecIdle == [pc |-> "idle", status |-> NULL, attempts |-> 0, fresh |-> FALSE,
            ref |-> FALSE, time |-> NULL]

Slots == Times \cup {NULL}

Statuses == {"absent", "confirmed", "cancelled"}

BookingRows == [status: Statuses, time: Slots, pending: BOOLEAN,
                attempts: 0..MaxAttempts, claimed: BOOLEAN, due: BOOLEAN]

CallRecords == [pc: {"idle", "ref", "call", "save", "flag"},
                do: {NULL, "book", "move", "cancel"}, time: Slots, ref: BOOLEAN]

RecRecords == [pc: {"idle", "ref", "meta", "update", "create", "save", "delete",
                    "clear", "terminal", "fail"},
               status: Statuses \cup {NULL}, attempts: 0..MaxAttempts, fresh: BOOLEAN,
               ref: BOOLEAN, time: Slots]

MirrorTypeOK ==
  /\ row \in BookingRows
  /\ row.status # "absent" => row.time \in Times
  /\ ref \in BOOLEAN /\ event \in Slots /\ removed \in BOOLEAN
  /\ call \in [Callers -> CallRecords] /\ rec \in [Workers -> RecRecords]
  /\ moves \in 0..MaxMoves /\ faults \in 0..MaxFaults
  /\ gaveUp \in BOOLEAN /\ unguarded \in BOOLEAN

Init ==
  /\ row = [status |-> "absent", time |-> NULL, pending |-> FALSE,
            attempts |-> 0, claimed |-> FALSE, due |-> TRUE]
  /\ ref = FALSE /\ event = NULL /\ removed = FALSE
  /\ call = [c \in Callers |-> Idle]
  /\ rec = [w \in Workers |-> RecIdle]
  /\ moves = 0 /\ faults = 0
  /\ gaveUp = FALSE /\ unguarded = FALSE

\* The row is written; updated_at is new.
WriteRow(new) ==
  /\ row' = new
  /\ rec' = [w \in Workers |-> [rec[w] EXCEPT !.fresh = FALSE]]

\* A step leaves the event behind the row, or may come to, and sets no flag.
Leaves(cond) == unguarded' = (unguarded \/ cond)

InFlight == {c \in Callers : call[c].pc # "idle"}

-----------------------------------------------------------------------------
(* Booking, moving and cancelling: the row first, then the event.          *)

Begin(c, do, t) ==
  call' = [call EXCEPT ![c] = [Idle EXCEPT !.pc = IF do = "book" THEN "call" ELSE "ref",
                                           !.do = do, !.time = t]]

\* mirrorCreatedBooking, mirrorAcceptedRequest.
Book(c, t) ==
  /\ row.status = "absent"
  /\ WriteRow([row EXCEPT !.status = "confirmed", !.time = t])
  /\ Begin(c, "book", t)
  /\ UNCHANGED <<ref, event, removed, moves, faults, gaveUp, unguarded>>

Moved(c, t) ==
  /\ row.status = "confirmed"
  /\ WriteRow([row EXCEPT !.time = t])
  /\ Begin(c, "move", t)
  /\ Leaves(InFlight # {})

\* rescheduleBooking, when the diary allows it.
Move(c, t) ==
  /\ moves < MaxMoves /\ moves' = moves + 1
  /\ call[c] = Idle /\ t # row.time
  /\ Moved(c, t)
  /\ UNCHANGED <<ref, event, removed, faults, gaveUp>>

Cancelled(c) ==
  /\ row.status = "confirmed"
  /\ WriteRow([row EXCEPT !.status = "cancelled"])
  /\ Begin(c, "cancel", NULL)
  /\ Leaves(InFlight # {})

Cancel(c) ==
  /\ call[c] = Idle
  /\ Cancelled(c)
  /\ UNCHANGED <<ref, event, removed, moves, faults, gaveUp>>

\* canonicalRef; a cancel without a reference has nothing to delete.
CallReadRef(c) ==
  /\ call[c].pc = "ref"
  /\ IF call[c].do = "cancel" /\ ~ ref
       THEN /\ call' = [call EXCEPT ![c] = Idle]
            /\ Leaves(event # NULL)
       ELSE /\ call' = [call EXCEPT ![c].pc = "call", ![c].ref = ref]
            /\ UNCHANGED unguarded
  /\ UNCHANGED <<row, ref, event, removed, rec, moves, faults, gaveUp>>

\* createEvent under the deterministic id returns the event it finds, whatever
\* its time; a deleted one, too, if the calendar still knows its id, and then
\* there is no event.
Created(t) ==
  IF event # NULL THEN {event} ELSE IF removed THEN {NULL, t} ELSE {t}

\* What a deletion leaves.
Deleted == event' = NULL /\ removed' = (removed \/ event # NULL)

\* syncCalendarCreate, and syncCalendarMirror without a reference.
CallCreate(c) ==
  /\ call[c].pc = "call"
  /\ call[c].do = "book" \/ (call[c].do = "move" /\ ~ call[c].ref)
  /\ \/ /\ event' \in Created(call[c].time)
        /\ Leaves(event \notin {NULL, call[c].time})
        /\ call' = [call EXCEPT ![c].pc = "save"]
     \/ /\ event' \in {event} \cup Created(call[c].time)
        /\ call' = [call EXCEPT ![c].pc = "flag"]
        /\ UNCHANGED unguarded
  /\ UNCHANGED <<row, ref, removed, rec, moves, faults, gaveUp>>

CallSaveRef(c) ==
  /\ call[c].pc = "save"
  /\ ref' = TRUE
  /\ call' = [call EXCEPT ![c] = Idle]
  /\ UNCHANGED <<row, event, removed, rec, moves, faults, gaveUp, unguarded>>

Updated(t) == IF event # NULL THEN {t} ELSE Created(t)

\* syncCalendarMirror with a reference: an event that is gone is created again.
CallUpdate(c) ==
  /\ call[c].pc = "call" /\ call[c].do = "move" /\ call[c].ref
  /\ \/ /\ event' \in Updated(call[c].time)
        /\ call' = [call EXCEPT ![c] = Idle]
     \/ /\ event' \in {event} \cup Updated(call[c].time)
        /\ call' = [call EXCEPT ![c].pc = "flag"]
  /\ UNCHANGED <<row, ref, removed, rec, moves, faults, gaveUp, unguarded>>

\* syncCalendarCancel: a failure is logged.
CallDelete(c) ==
  /\ call[c].pc = "call" /\ call[c].do = "cancel"
  /\ Deleted \/ UNCHANGED <<event, removed>>
  /\ Leaves(event' # NULL)
  /\ call' = [call EXCEPT ![c] = Idle]
  /\ UNCHANGED <<row, ref, rec, moves, faults, gaveUp>>

\* markSyncPending.
MarkSyncPending(c) ==
  /\ call[c].pc = "flag"
  /\ WriteRow([row EXCEPT !.pending = TRUE, !.attempts = 0, !.due = TRUE])
  /\ call' = [call EXCEPT ![c] = Idle]
  /\ gaveUp' = FALSE
  /\ UNCHANGED <<ref, event, removed, moves, faults, unguarded>>

\* The process dies, or the update that sets the flag fails, which is
\* swallowed.  A booking without a reference is found again, a move or a
\* cancel is not.
CallDies(c) ==
  /\ faults < MaxFaults /\ faults' = faults + 1
  /\ call[c].pc # "idle"
  /\ Leaves(call[c].do # "book")
  /\ call' = [call EXCEPT ![c] = Idle]
  /\ UNCHANGED <<row, ref, event, removed, rec, moves, gaveUp>>

CallStep(c) ==
  \/ CallReadRef(c) \/ CallCreate(c) \/ CallSaveRef(c)
  \/ CallUpdate(c) \/ CallDelete(c) \/ MarkSyncPending(c)

-----------------------------------------------------------------------------
(* The reconciler.                                                         *)

\* reflagOrphanedMirrors.  The grace window is longer than the first write of
\* the event takes.
Orphaned ==
  /\ row.status = "confirmed" /\ ~ row.pending /\ ~ ref
  /\ \A c \in InFlight : call[c].do # "book"

Reflag ==
  /\ Orphaned
  /\ WriteRow([row EXCEPT !.pending = TRUE])
  /\ gaveUp' = FALSE
  /\ UNCHANGED <<ref, event, removed, call, moves, faults, unguarded>>

\* The claim: a lease, and a copy of the row's status and attempts.  A worker
\* that outlived its lease still acts on what it read.
Claim(w) ==
  /\ rec[w] = RecIdle
  /\ ~ Orphaned
  /\ row.pending /\ row.due /\ ~ row.claimed
  /\ row' = [row EXCEPT !.claimed = TRUE]
  /\ rec' = [rec EXCEPT ![w] =
       [RecIdle EXCEPT !.pc = "ref", !.status = row.status,
                       !.attempts = row.attempts, !.fresh = TRUE]]
  /\ Leaves(\E v \in Workers : rec[v] # RecIdle)
  /\ UNCHANGED <<ref, event, removed, call, moves, faults, gaveUp>>

RecGoto(w, pc) == rec' = [rec EXCEPT ![w].pc = pc, ![w].time = NULL]

RecReadRef(w) ==
  /\ rec[w].pc = "ref"
  /\ rec' = [rec EXCEPT ![w].ref = ref, ![w].status = NULL,
       ![w].pc = CASE rec[w].status = "confirmed" -> "meta"
                   [] rec[w].status = "cancelled" /\ ref -> "delete"
                   [] OTHER -> "clear"]
  /\ Leaves(rec[w].status = "cancelled" /\ ~ ref /\ event # NULL)
  /\ UNCHANGED <<row, ref, event, removed, call, moves, faults, gaveUp>>

\* loadEventMeta reads the live time.
RecLoadMeta(w) ==
  /\ rec[w].pc = "meta"
  /\ rec' = [rec EXCEPT ![w].time = row.time, ![w].ref = FALSE,
                        ![w].pc = IF rec[w].ref THEN "update" ELSE "create"]
  /\ UNCHANGED <<row, ref, event, removed, call, moves, faults, gaveUp, unguarded>>

\* An event that is gone was deleted by the owner: applyExternalRemoval
\* cancels the booking, and finds no event to delete.
RecUpdate(w) ==
  /\ rec[w].pc = "update"
  /\ \/ /\ event # NULL
        /\ event' = rec[w].time
        /\ RecGoto(w, "clear")
        /\ UNCHANGED <<row, unguarded>>
     \/ /\ event = NULL
        /\ event' = NULL
        /\ IF row.status = "confirmed"
             THEN /\ row' = [row EXCEPT !.status = "cancelled"]
                  /\ rec' = [v \in Workers |-> [rec[v] EXCEPT !.fresh = FALSE,
                               !.pc = IF v = w THEN "clear" ELSE @,
                               !.time = IF v = w THEN NULL ELSE @]]
                  /\ Leaves(InFlight # {})
             ELSE RecGoto(w, "clear") /\ UNCHANGED <<row, unguarded>>
     \/ /\ \E t \in {event, IF event = NULL THEN NULL ELSE rec[w].time} : event' = t
        /\ \E pc \in {"fail", "terminal"} : RecGoto(w, pc)
        /\ UNCHANGED <<row, unguarded>>
  /\ UNCHANGED <<ref, removed, call, moves, faults, gaveUp>>

RecCreate(w) ==
  /\ rec[w].pc = "create"
  /\ \/ /\ event' \in Created(rec[w].time)
        /\ Leaves(event \notin {NULL, rec[w].time})
        /\ RecGoto(w, "save")
     \/ /\ event' \in {event} \cup Created(rec[w].time)
        /\ RecGoto(w, "fail")
        /\ UNCHANGED unguarded
  /\ UNCHANGED <<row, ref, removed, call, moves, faults, gaveUp>>

RecSaveRef(w) ==
  /\ rec[w].pc = "save"
  /\ ref' = TRUE
  /\ RecGoto(w, "clear")
  /\ UNCHANGED <<row, event, removed, call, moves, faults, gaveUp, unguarded>>

RecDelete(w) ==
  /\ rec[w].pc = "delete"
  /\ \/ Deleted /\ RecGoto(w, "clear")
     \/ /\ Deleted \/ UNCHANGED <<event, removed>>
        /\ \E pc \in {"fail", "terminal"} : RecGoto(w, pc)
  /\ UNCHANGED <<row, ref, call, moves, faults, gaveUp, unguarded>>

\* The reconciler's last write, and the end of its work on the row.
RecEnds(w, new) ==
  /\ row' = new
  /\ rec' = [v \in Workers |-> IF v = w THEN RecIdle ELSE [rec[v] EXCEPT !.fresh = FALSE]]

\* clear: WHERE updated_at is still the claim's.
RecClear(w) ==
  /\ rec[w].pc = "clear"
  /\ IF rec[w].fresh
       THEN RecEnds(w, [row EXCEPT !.pending = FALSE, !.claimed = FALSE,
                                   !.attempts = 0, !.due = TRUE])
       ELSE rec' = [rec EXCEPT ![w] = RecIdle] /\ UNCHANGED row
  /\ UNCHANGED <<ref, event, removed, call, moves, faults, gaveUp, unguarded>>

RecTerminal(w) ==
  /\ rec[w].pc = "terminal"
  /\ RecEnds(w, [row EXCEPT !.pending = FALSE, !.claimed = FALSE])
  /\ gaveUp' = TRUE
  /\ UNCHANGED <<ref, event, removed, call, moves, faults, unguarded>>

\* The attempts of the claim, plus one.  Past MAX_ATTEMPTS every count acts
\* alike.
NextAttempt(n) == IF n < MaxAttempts THEN n + 1 ELSE n

\* recordFailure: back off, or give up.
RecordFailure(w) ==
  LET n == NextAttempt(rec[w].attempts) IN
  /\ rec[w].pc = "fail"
  /\ IF n >= MaxAttempts
       THEN /\ RecEnds(w, [row EXCEPT !.pending = FALSE, !.claimed = FALSE, !.attempts = n])
            /\ gaveUp' = TRUE
       ELSE /\ RecEnds(w, [row EXCEPT !.claimed = FALSE, !.attempts = n, !.due = FALSE])
            /\ UNCHANGED gaveUp
  /\ UNCHANGED <<ref, event, removed, call, moves, faults, unguarded>>

RecDies(w) ==
  /\ faults < MaxFaults /\ faults' = faults + 1
  /\ rec[w] # RecIdle
  /\ rec' = [rec EXCEPT ![w] = RecIdle]
  /\ UNCHANGED <<row, ref, event, removed, call, moves, gaveUp, unguarded>>

RecStep(w) ==
  \/ Claim(w) \/ RecReadRef(w) \/ RecLoadMeta(w) \/ RecUpdate(w) \/ RecCreate(w)
  \/ RecSaveRef(w) \/ RecDelete(w) \/ RecClear(w) \/ RecTerminal(w) \/ RecordFailure(w)

-----------------------------------------------------------------------------

OwnerDeletes ==
  /\ faults < MaxFaults /\ faults' = faults + 1
  /\ event # NULL /\ Deleted
  /\ UNCHANGED <<row, ref, call, rec, moves, gaveUp, unguarded>>

\* Time: a backoff or a lease runs out.
Elapse ==
  /\ \/ ~ row.due /\ row' = [row EXCEPT !.due = TRUE]
     \/ row.claimed /\ row' = [row EXCEPT !.claimed = FALSE]
  /\ UNCHANGED <<ref, event, removed, call, rec, moves, faults, gaveUp, unguarded>>

\* Everything that goes on without anybody asking for it.
Background ==
  \/ \E c \in Callers : CallStep(c) \/ CallDies(c)
  \/ \E w \in Workers : RecStep(w) \/ RecDies(w)
  \/ Reflag \/ Elapse

\* The event says what the row says.
Mirrored ==
  CASE row.status = "confirmed" -> event = row.time
    [] row.status = "cancelled" -> event = NULL
    [] OTHER -> TRUE

=============================================================================
