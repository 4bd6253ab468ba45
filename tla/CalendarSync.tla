---------------------------- MODULE CalendarSync ----------------------------
(***************************************************************************)
(* CalendarMirror in both directions: every few minutes each process also  *)
(* pulls the changes of the connected calendar and applies what the owner  *)
(* did there to the booking (api/src/scheduler/inbound-calendar-sync.ts).  *)
(*                                                                         *)
(* The calendar lists what changed since a cursor, the platform's own      *)
(* writes included.  A round claims the credential with a lease, lists,    *)
(* reads the event anew, reads the row, and moves or cancels the booking,  *)
(* or puts the event back when the rules of the diary refuse the new time. *)
(* The move and the cancellation are those of the booking provider, so     *)
(* they write the event again.  The cursor is stored at the end.           *)
(*                                                                         *)
(* Abstracted: the window of the listing and its pages; an event that was  *)
(* made all-day or turned round is one whose new time is refused; the mail *)
(* to the owner; Graph's cursor, which behaves like Google's.              *)
(***************************************************************************)
EXTENDS CalendarMirror

CONSTANTS
  Pullers,             \* processes that pull; each writes the event as a caller
  MAX_ROUND_ATTEMPTS,  \* rounds that fail before their changes are skipped
  MaxEdits             \* bound: times that the owner sets

ASSUME SyncAssumption ==
  /\ Pullers \subseteq Callers
  /\ MAX_ROUND_ATTEMPTS \in Nat \ {0} /\ MaxEdits \in Nat

VARIABLES
  feed,     \* the event was changed since the stored cursor
  cred,     \* chatbot_calendar_credentials: who claimed it, whether the lease
            \* is over, inbound_attempts
  pull,     \* the rounds in progress
  edits,
  skipped,  \* history: the cursor passes a change that was not applied
  crossed   \* history: a round moved the booking to a time that the event had
            \* no more, or while a reconciler was at work

syncVars == <<feed, cred, pull, edits, skipped, crossed>>
allVars == <<vars, syncVars>>

Customers == Callers \ Pullers

-----------------------------------------------------------------------------

PullIdle == [pc |-> "idle", late |-> FALSE, seen |-> NULL, time |-> NULL,
             failed |-> FALSE]

Rounds == [pc: {"idle", "list", "get", "read", "cancel", "cancelling", "move", "moving",
                "restore", "restoring", "end"},
           late: BOOLEAN, seen: Slots, time: Slots, failed: BOOLEAN]

\* A round that acts knows the times it acts on.
HasTimes(r) ==
  /\ r.pc \in {"move", "moving"} => r.seen \in Times
  /\ r.pc \in {"move", "moving", "restore", "restoring"} => r.time \in Times

SyncTypeOK ==
  /\ MirrorTypeOK
  /\ feed \in BOOLEAN
  /\ cred \in [holder: Pullers \cup {NULL}, over: BOOLEAN, attempts: Nat]
  /\ pull \in [Pullers -> Rounds]
  /\ \A i \in Pullers : HasTimes(pull[i])
  /\ edits \in 0..MaxEdits /\ skipped \in BOOLEAN /\ crossed \in BOOLEAN

SyncInit ==
  /\ Init
  /\ feed = FALSE
  /\ cred = [holder |-> NULL, over |-> FALSE, attempts |-> 0]
  /\ pull = [i \in Pullers |-> PullIdle]
  /\ edits = 0 /\ skipped = FALSE /\ crossed = FALSE

\* The calendar notes a change of the event, also for the rounds that have
\* their listing already.
Noted(next) ==
  /\ feed' = (feed \/ event' # event)
  /\ pull' = [i \in Pullers |->
       [next[i] EXCEPT !.late = @ \/ (next[i].pc \notin {"idle", "list"} /\ event' # event)]]

Mirrors(step) == step /\ Noted(pull) /\ UNCHANGED <<cred, edits, skipped, crossed>>

-----------------------------------------------------------------------------
(* syncExternalCalendarChanges and processCredential.                      *)

PullGoto(i, pc) == pull' = [pull EXCEPT ![i].pc = pc]

\* The candidate is handled; one that could not be fails the round.
Handled(i, failed) == [pull EXCEPT ![i].pc = "end", ![i].failed = failed,
                                   ![i].seen = NULL, ![i].time = NULL]

PullDone(i) == pull' = Handled(i, FALSE)

PullFails(i) == pull' = Handled(i, TRUE)

\* A round with nothing to list leaves everything as it was, and is left out.
PullClaim(i) ==
  /\ feed
  /\ pull[i] = PullIdle /\ call[i] = Idle
  /\ cred.holder = NULL \/ cred.over
  /\ cred' = [cred EXCEPT !.holder = i, !.over = FALSE]
  /\ PullGoto(i, "list")
  /\ UNCHANGED <<vars, feed, edits, skipped, crossed>>

\* holdLease: it is renewed, unless somebody else has claimed the credential
\* since, which ends the round.
HoldsLease(i) == cred.holder = i /\ cred' = [cred EXCEPT !.over = FALSE]

LosesLease(i) ==
  /\ pull[i].pc \in {"list", "get", "read", "cancel", "move", "restore", "end"}
  /\ call[i] = Idle /\ cred.holder # i
  /\ pull' = [pull EXCEPT ![i] = PullIdle]
  /\ UNCHANGED <<vars, feed, cred, edits, skipped, crossed>>

\* The listing, and the bookings it matches.  A cursor that is missing, or
\* that the calendar no longer knows, is replaced by a new one, and nothing is
\* listed.
PullList(i) ==
  /\ pull[i].pc = "list" /\ HoldsLease(i)
  /\ \/ /\ PullGoto(i, IF ref /\ row.status = "confirmed" THEN "get" ELSE "end")
        /\ skipped' = (skipped \/ (~ ref /\ ~ Mirrored))
        /\ UNCHANGED faults
     \/ /\ faults < MaxFaults /\ faults' = faults + 1
        /\ PullGoto(i, "end")
        /\ skipped' = (skipped \/ ~ Mirrored)
  /\ UNCHANGED <<row, ref, event, removed, call, rec, moves, gaveUp, unguarded, feed, edits, crossed>>

\* listChanges throws: recordRoundFailure.
PullListThrows(i) ==
  /\ pull[i].pc = "list" /\ cred.holder = i
  /\ faults < MaxFaults /\ faults' = faults + 1
  /\ cred' = [holder |-> NULL, over |-> FALSE, attempts |-> cred.attempts + 1]
  /\ pull' = [pull EXCEPT ![i] = PullIdle]
  /\ UNCHANGED <<row, ref, event, removed, call, rec, moves, gaveUp, unguarded,
                 feed, edits, skipped, crossed>>

\* A fresh read of the event; it may throw, or find no access.
PullGet(i) ==
  /\ pull[i].pc = "get" /\ HoldsLease(i)
  /\ \/ pull' = [pull EXCEPT ![i].pc = "read", ![i].seen = event]
     \/ PullFails(i)
  /\ UNCHANGED <<vars, feed, edits, skipped, crossed>>

\* applyExternalEventState reads the row, decideInboundChange compares.
PullRead(i) ==
  /\ pull[i].pc = "read" /\ HoldsLease(i)
  /\ IF row.status # "confirmed" \/ pull[i].seen = row.time
       THEN PullDone(i)
       ELSE pull' = [pull EXCEPT ![i].pc = IF pull[i].seen = NULL THEN "cancel" ELSE "move",
                                 ![i].time = row.time]
  /\ UNCHANGED <<vars, feed, edits, skipped, crossed>>

Acting == [cancel |-> "cancelling", move |-> "moving", restore |-> "restoring"]

\* The lease is renewed before each of the three.  What they do then takes queries
\* and calls of its own, and a lease that runs out meanwhile does not stop it.
PullActs(i) ==
  /\ pull[i].pc \in DOMAIN Acting /\ HoldsLease(i)
  /\ PullGoto(i, Acting[pull[i].pc])
  /\ UNCHANGED <<vars, feed, edits, skipped, crossed>>

\* externalCancelBooking.
PullCancel(i) ==
  /\ pull[i].pc = "cancelling"
  /\ IF row.status = "confirmed"
       THEN Cancelled(i) /\ PullDone(i)
       ELSE PullDone(i) /\ UNCHANGED <<row, rec, call, unguarded>>
  /\ UNCHANGED <<ref, event, removed, moves, faults, gaveUp, feed, cred, edits, skipped, crossed>>

\* externalRescheduleBooking: done, refused by the diary, or an error.
PullMove(i) ==
  /\ pull[i].pc = "moving"
  /\ \/ /\ Moved(i, pull[i].seen) /\ PullDone(i)
        /\ crossed' = (crossed \/ event # pull[i].seen \/ \E w \in Workers : rec[w] # RecIdle)
     \/ PullGoto(i, "restore") /\ UNCHANGED <<row, rec, call, unguarded, crossed>>
     \/ PullFails(i) /\ UNCHANGED <<row, rec, call, unguarded, crossed>>
  /\ UNCHANGED <<ref, event, removed, moves, faults, gaveUp, feed, cred, edits, skipped>>

\* restoreExternalEvent puts the event back to the time of the row as it was
\* read; the call may fail before or after that.
PullRestore(i) ==
  /\ pull[i].pc = "restoring"
  /\ \E t \in {event, IF event = NULL THEN NULL ELSE pull[i].time}, failed \in BOOLEAN :
       /\ t = event => failed \/ event = pull[i].time
       /\ event' = t
       /\ Leaves(~ failed /\ (row.status # "confirmed" \/ row.time # pull[i].time))
       /\ Noted(Handled(i, failed))
  /\ UNCHANGED <<row, ref, removed, call, rec, moves, faults, gaveUp, cred, edits, skipped, crossed>>

\* Mutant: the cursor is the one of now, not of the listing.
PullEndWithFreshCursor(i) ==
  /\ pull[i].pc = "end" /\ call[i] = Idle /\ cred.holder = i
  /\ LET again == pull[i].failed /\ cred.attempts + 1 < MAX_ROUND_ATTEMPTS IN
       /\ cred' = [holder |-> NULL, over |-> FALSE,
                   attempts |-> IF again THEN cred.attempts + 1 ELSE 0]
       /\ feed' = (again /\ feed)
       /\ skipped' = (skipped \/ (pull[i].failed /\ ~ again /\ ~ Mirrored))
  /\ pull' = [pull EXCEPT ![i] = PullIdle]
  /\ UNCHANGED <<vars, edits, crossed>>

\* Mutant: a round that fails is not counted.
PullEndUncounted(i) ==
  /\ pull[i].pc = "end" /\ call[i] = Idle /\ cred.holder = i
  /\ cred' = [holder |-> NULL, over |-> FALSE, attempts |-> 0]
  /\ feed' = IF pull[i].failed THEN feed ELSE pull[i].late
  /\ pull' = [pull EXCEPT ![i] = PullIdle]
  /\ UNCHANGED <<vars, edits, skipped, crossed>>

\* persistCursor, or recordRoundFailure while there are attempts left; nobody
\* else has counted any since the claim, or the lease were lost.
PullEnd(i) ==
  /\ pull[i].pc = "end" /\ call[i] = Idle /\ cred.holder = i
  /\ LET again == pull[i].failed /\ cred.attempts + 1 < MAX_ROUND_ATTEMPTS IN
       /\ cred' = [holder |-> NULL, over |-> FALSE,
                   attempts |-> IF again THEN cred.attempts + 1 ELSE 0]
       /\ feed' = IF again THEN feed ELSE pull[i].late
       /\ skipped' = (skipped \/ (pull[i].failed /\ ~ again /\ ~ Mirrored))
  /\ pull' = [pull EXCEPT ![i] = PullIdle]
  /\ UNCHANGED <<vars, edits, crossed>>

PullStep(i) ==
  \/ PullClaim(i) \/ PullList(i) \/ PullGet(i) \/ PullRead(i) \/ PullActs(i)
  \/ PullCancel(i) \/ PullMove(i) \/ PullRestore(i) \/ PullEnd(i) \/ LosesLease(i)

\* The process dies, with the call that it has in progress.
PullDies(i) ==
  /\ faults < MaxFaults /\ faults' = faults + 1
  /\ pull[i] # PullIdle
  /\ pull' = [pull EXCEPT ![i] = PullIdle]
  /\ call' = [call EXCEPT ![i] = Idle]
  /\ Leaves(call[i] # Idle)
  /\ UNCHANGED <<row, ref, event, removed, rec, moves, gaveUp, feed, cred, edits, skipped, crossed>>

\* The lease of a claim runs out: its process is dead, or slow.
LeaseEnds ==
  /\ cred.holder # NULL /\ ~ cred.over
  /\ IF pull[cred.holder] = PullIdle THEN UNCHANGED faults
     ELSE faults < MaxFaults /\ faults' = faults + 1
  /\ cred' = [cred EXCEPT !.over = TRUE]
  /\ UNCHANGED <<row, ref, event, removed, call, rec, moves, gaveUp, unguarded,
                 feed, pull, edits, skipped, crossed>>

\* The owner drags the event to another time.
OwnerMoves(t) ==
  /\ edits < MaxEdits /\ edits' = edits + 1
  /\ event \notin {NULL, t} /\ event' = t
  /\ Noted(pull)
  /\ UNCHANGED <<row, ref, removed, call, rec, moves, faults, gaveUp, unguarded, cred,
                 skipped, crossed>>

CustomerStep(c) == Cancel(c) \/ \E t \in Times : Book(c, t) \/ Move(c, t)

SyncNext ==
  \/ \E c \in Customers : Mirrors(CustomerStep(c))
  \/ Mirrors(Background)
  \/ Mirrors(OwnerDeletes)
  \/ \E t \in Times : OwnerMoves(t)
  \/ \E i \in Pullers : PullStep(i) \/ PullListThrows(i) \/ PullDies(i)
  \/ LeaseEnds

\* Both timers fire, a request or a round that is in progress goes on, and
\* time passes.
SyncFairness ==
  /\ \A c \in Customers : WF_allVars(Mirrors(CallStep(c)))
  /\ \A w \in Workers : WF_allVars(Mirrors(RecStep(w)))
  /\ \A i \in Pullers : WF_allVars(PullStep(i) \/ Mirrors(CallStep(i)))
  /\ WF_allVars(Mirrors(Reflag)) /\ WF_allVars(Mirrors(Elapse))
  /\ WF_allVars(LeaseEnds /\ UNCHANGED faults)

SyncSpec == SyncInit /\ [][SyncNext]_allVars /\ SyncFairness

-----------------------------------------------------------------------------
(* Properties.                                                             *)

\* Whenever no write of the event is in progress, event and booking agree, or
\* something is on record that will bring them together: the flag, a confirmed
\* row without a reference, or a change that the stored cursor has not passed;
\* or the reconciler gave up.  So the reconciler's clear does not wipe out the
\* flag of a move after its claim (sync-reconciler.ts:396), and no cursor is
\* stored past a change that came after its listing
\* (inbound-calendar-sync.ts:235).  Not so after the steps that the code leaves
\* unflagged (see Leaves), or when a round skips what it lists.
SyncAccounted ==
  InFlight = {} =>
    Mirrored \/ row.pending \/ Orphaned \/ feed \/ gaveUp \/ unguarded \/ skipped

\* Once customers and owner are done, event and booking agree for good and the
\* flag is off, or the reconciler gives up: however often the calendar fails
\* and whoever dies with a claim in hand, both directions stop, a row does not
\* stay flagged, and a change that keeps failing is skipped
\* (sync-reconciler.ts:427-450, inbound-calendar-sync.ts:223-232).  Not so when
\* a round acts on an event that the reconciler is just writing: then they can
\* chase each other for ever.
SyncConverges ==
  \/ <>[](Mirrored /\ ~ row.pending)
  \/ []<>gaveUp
  \/ <>(unguarded \/ skipped \/ crossed)

\* A round moves a booking only after the owner has moved the event, since "The
\* Booking row is source of truth.  The Calendar Mirror follows the row"
\* (docs/booking-rules.md:237).  It does not hold: the calendar lists the
\* platform's own writes too, and an event that is behind the row, because its
\* write is still in progress or failed, is taken for the owner's move, which
\* undoes the customer's.
OnlyOwnersTimes ==
  [][\A i \in Pullers :
       (call[i] = Idle /\ call'[i].do = "move") => edits > 0]_allVars

=============================================================================
