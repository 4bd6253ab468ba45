--------------------------- MODULE HandoffAlerts ---------------------------
(***************************************************************************)
(* Operator alerts for a handoff: the outbox row that requestHandoff       *)
(* writes in its transaction, the dispatch the call sites start after the  *)
(* commit, and the sweep that is its backstop                              *)
(* (api/src/notifications/notification-outbox.worker.ts), both through     *)
(* notifyNewHandoff (api/src/services/handoff-notification.service.ts) and *)
(* createForRecipients (api/src/services/notification.service.ts), on top  *)
(* of the email ledger.                                                    *)
(*                                                                         *)
(* A dispatcher is a call site (one per handoff) or a sweeping process.    *)
(* It may stop at any point, its backoff may end while another dispatcher  *)
(* is still working on the row, and statements may fail.  Left out:        *)
(* last_error, wording, the push job behind a notification, the paging of  *)
(* the sweep (a batch is every due row).                                   *)
(***************************************************************************)
EXTENDS EmailLedger

CONSTANTS
    Handoffs,           \* handoff requests that may be made
    PlatformUsers,      \* active users with handoffPlatform
    EmailUsers,         \* active users with handoffEmail
    Sweepers,           \* processes that run the sweep
    Mailer,             \* the booking code, which mails with a retained payload
    MAX_ATTEMPTS,       \* dispatches before a row is parked as dead
    MaxCrashes,         \* bound: processes that die in one behaviour
    MaxWork             \* bound: handoffs and booking emails in one behaviour

\* The call site of handoff h is the dispatcher h.
Dispatchers == Handoffs \cup Sweepers

HandoffKeys == Handoffs \X EmailUsers

ASSUME AlertAssumption ==
    /\ HandoffKeys \subseteq Keys
    /\ HandoffKeys \cap Retained = {}
    /\ Callers = Dispatchers \cup Retriers \cup {Mailer}
    /\ Handoffs \cap Sweepers = {}
    /\ Dispatchers \cap Retriers = {}
    /\ Mailer \notin Dispatchers \cup Retriers
    /\ MAX_ATTEMPTS \in Nat \ {0}
    /\ MaxCrashes \in Nat
    /\ MaxWork \in Nat

None == "none"

ASSUME NoneAssumption == None \notin Handoffs \cup PlatformUsers

VARIABLES
    outbox,     \* notification_outbox: status, attempt_count, whether it is due
    disp,       \* each dispatcher: program counter, handoff, users still to do
    batch,      \* each sweeper: the rows it claimed and their attempt numbers
    notes,      \* notifications: the users with a row, per handoff
    toasts,     \* history: desktop toasts emitted, per handoff and user
    swallowed,  \* history: handoffs with a channel error that was only logged
    crashes,
    work

alertVars == <<outbox, disp, batch, notes, toasts, swallowed, crashes, work>>
vars == <<mailVars, alertVars>>

Outbox == [status : {"none", "pending", "sent", "dead"}, attempts : Nat, due : BOOLEAN]

DispPcs == {"idle", "next", "users", "platform", "save", "email",
            "emails", "notified", "threw"}

Dispatch == [pc : DispPcs, h : Handoffs \cup {None}, todo : SUBSET PlatformUsers,
             u : PlatformUsers \cup {None}, created : SUBSET PlatformUsers]

Idle == [pc |-> "idle", h |-> None, todo |-> {}, u |-> None, created |-> {}]

\* Rows claimed and not yet dispatched; 0 marks the others.
NoBatch == [h \in Handoffs |-> 0]

(* The rows, ledger, dispatchers and counters have their types. *)
AlertTypeOK ==
    /\ MailTypeOK
    /\ outbox \in [Handoffs -> Outbox]
    /\ disp \in [Dispatchers -> Dispatch]
    /\ batch \in [Sweepers -> [Handoffs -> Nat]]
    /\ notes \in [Handoffs -> SUBSET PlatformUsers]
    /\ toasts \in [Handoffs -> [PlatformUsers -> Nat]]
    /\ swallowed \in SUBSET Handoffs
    /\ crashes \in 0..MaxCrashes
    /\ work \in 0..MaxWork

Init ==
    /\ MailInit
    /\ outbox = [h \in Handoffs |-> [status |-> "none", attempts |-> 0, due |-> FALSE]]
    /\ disp = [d \in Dispatchers |-> Idle]
    /\ batch = [w \in Sweepers |-> NoBatch]
    /\ notes = [h \in Handoffs |-> {}]
    /\ toasts = [h \in Handoffs |-> [u \in PlatformUsers |-> 0]]
    /\ swallowed = {}
    /\ crashes = 0
    /\ work = 0

Fresh(h) == [Idle EXCEPT !.pc = "users", !.h = h]

DispGoto(d, pc) == disp' = [disp EXCEPT ![d].pc = pc]

-----------------------------------------------------------------------------
(* Work arrives *)

\* requestHandoff with opts.notify commits: the outbox row is in the same
\* transaction, due after the grace; the call site then dispatches unawaited.
RequestHandoff(h) ==
    /\ work < MaxWork
    /\ outbox[h].status = "none"
    /\ work' = work + 1
    /\ outbox' = [outbox EXCEPT ![h].status = "pending"]
    /\ disp' = [disp EXCEPT ![h] = Fresh(h)]
    /\ UNCHANGED <<mailVars, batch, notes, toasts, swallowed, crashes>>

\* A booking email, sent with retainPayload.
BookingMail(k) ==
    /\ work < MaxWork
    /\ k \in Retained
    /\ ledger[k].status = "none"
    /\ send[Mailer][k] = "idle"
    /\ work' = work + 1
    /\ Goto(Mailer, k, "create")
    /\ UNCHANGED <<ledger, retry, faults, taken, unknown, outbox, disp,
                   batch, notes, toasts, swallowed, crashes>>

\* The grace or the backoff of a row ends.
Elapse(h) ==
    /\ outbox[h].status = "pending"
    /\ ~outbox[h].due
    /\ outbox' = [outbox EXCEPT ![h].due = TRUE]
    /\ UNCHANGED <<mailVars, disp, batch, notes, toasts, swallowed, crashes, work>>

-----------------------------------------------------------------------------
(* The sweep *)

\* Mutant: rows at the cap are not claimed, as if every claim ended in a verdict.
DueRowsBelowCap == {h \in Handoffs : /\ outbox[h].status = "pending" /\ outbox[h].due
                                     /\ outbox[h].attempts < MAX_ATTEMPTS}

DueRows == {h \in Handoffs : outbox[h].status = "pending" /\ outbox[h].due}

\* The claiming transaction of runSweep: attempt counted and backoff started
\* on every row before any of them is dispatched.
SweepClaim(w) ==
    /\ disp[w].pc = "idle"
    /\ DueRows # {}
    /\ outbox' = [h \in Handoffs |->
                    IF h \in DueRows
                    THEN [outbox[h] EXCEPT !.attempts = @ + 1, !.due = FALSE]
                    ELSE outbox[h]]
    /\ batch' = [batch EXCEPT ![w] =
                    [h \in Handoffs |-> IF h \in DueRows THEN outbox[h].attempts + 1
                                                         ELSE 0]]
    /\ DispGoto(w, "next")
    /\ UNCHANGED <<mailVars, notes, toasts, swallowed, crashes, work>>

\* The loop over the claimed rows.
SweepNext(w) ==
    /\ disp[w].pc = "next"
    /\ \/ /\ batch[w] = NoBatch
          /\ disp' = [disp EXCEPT ![w] = Idle]
       \/ \E h \in Handoffs : /\ batch[w][h] > 0
                              /\ disp' = [disp EXCEPT ![w] = Fresh(h)]
    /\ UNCHANGED <<mailVars, outbox, batch, notes, toasts, swallowed, crashes, work>>

\* The row is settled by id only, whatever its status is by now: sent after
\* the notify, dead when it threw at the cap, left pending before it.
SweepSettle(w) ==
    /\ disp[w].pc \in {"notified", "threw"}
    /\ LET h == disp[w].h IN
       /\ outbox' = [outbox EXCEPT ![h].status =
                        IF disp[w].pc = "notified" THEN "sent"
                        ELSE IF batch[w][h] >= MAX_ATTEMPTS THEN "dead" ELSE @]
       /\ batch' = [batch EXCEPT ![w][h] = 0]
    /\ disp' = [disp EXCEPT ![w] = [Idle EXCEPT !.pc = "next"]]
    /\ UNCHANGED <<mailVars, notes, toasts, swallowed, crashes, work>>

\* The settling update fails: after a notify that is caught like a failed
\* notify; in the catch block it ends the sweep, claimed rows and all.
SweepSettleFails(w) ==
    /\ disp[w].pc \in {"notified", "threw"}
    /\ Fault
    /\ \/ /\ disp[w].pc = "notified"
          /\ DispGoto(w, "threw")
          /\ UNCHANGED batch
       \/ /\ disp[w].pc = "threw"
          /\ disp' = [disp EXCEPT ![w] = Idle]
          /\ batch' = [batch EXCEPT ![w] = NoBatch]
    /\ UNCHANGED <<ledger, send, retry, taken, unknown, outbox, notes,
                   toasts, swallowed, crashes, work>>

-----------------------------------------------------------------------------
(* The call site *)

\* Mutant: the row is retired first and the notify follows.
MarkBeforeNotify(h) ==
    /\ disp[h].pc \in {"users", "notified"}
    /\ outbox' = [outbox EXCEPT ![h].status = IF @ = "pending" THEN "sent" ELSE @]
    /\ disp' = [disp EXCEPT ![h] = IF @.pc = "users" THEN @ ELSE Idle]
    /\ UNCHANGED <<mailVars, batch, notes, toasts, swallowed, crashes, work>>

\* markDispatched touches only a row that is still pending.
MarkDispatched(h) ==
    /\ disp[h].pc = "notified"
    /\ outbox' = [outbox EXCEPT ![h].status = IF @ = "pending" THEN "sent" ELSE @]
    /\ disp' = [disp EXCEPT ![h] = Idle]
    /\ UNCHANGED <<mailVars, batch, notes, toasts, swallowed, crashes, work>>

\* The notify or the update threw: logged, and the row is the sweep's.
CallSiteGivesUp(h) ==
    /\ \/ disp[h].pc = "threw" /\ UNCHANGED faults
       \/ disp[h].pc = "notified" /\ Fault
    /\ disp' = [disp EXCEPT ![h] = Idle]
    /\ UNCHANGED <<ledger, send, retry, taken, unknown, outbox, batch,
                   notes, toasts, swallowed, crashes, work>>

-----------------------------------------------------------------------------
(* notifyNewHandoff, by any dispatcher *)

\* The recipients are read; an error here is the only one that leaves it.
ReadUsers(d) ==
    /\ disp[d].pc = "users"
    /\ \/ /\ disp' = [disp EXCEPT ![d].pc = "platform", ![d].todo = PlatformUsers]
          /\ UNCHANGED faults
       \/ /\ Fault
          /\ DispGoto(d, "threw")
    /\ UNCHANGED <<ledger, send, retry, taken, unknown, outbox, batch,
                   notes, toasts, swallowed, crashes, work>>

\* createForUsers, one recipient: skipped when the dedupe key exists.
FindNote(d, u) ==
    /\ disp[d].pc = "platform"
    /\ u \in disp[d].todo
    /\ disp' = IF u \in notes[disp[d].h]
               THEN [disp EXCEPT ![d].todo = @ \ {u}]
               ELSE [disp EXCEPT ![d].todo = @ \ {u}, ![d].u = u, ![d].pc = "save"]
    /\ UNCHANGED <<mailVars, outbox, batch, notes, toasts, swallowed, crashes, work>>

\* Mutant: a skipped duplicate counts as created.
SaveNoteCountsDuplicate(d) ==
    /\ disp[d].pc = "save"
    /\ LET h == disp[d].h IN
       /\ notes' = [notes EXCEPT ![h] = @ \cup {disp[d].u}]
       /\ disp' = [disp EXCEPT ![d].pc = "platform", ![d].u = None,
                               ![d].created = @ \cup {disp[d].u}]
    /\ UNCHANGED <<mailVars, outbox, batch, toasts, swallowed, crashes, work>>

\* The insert.  A duplicate key and any other error are skipped alike.
SaveNote(d) ==
    /\ disp[d].pc = "save"
    /\ LET h == disp[d].h
           u == disp[d].u IN
       \/ /\ u \in notes[h]
          /\ disp' = [disp EXCEPT ![d].pc = "platform", ![d].u = None]
          /\ UNCHANGED <<faults, notes, swallowed>>
       \/ /\ u \notin notes[h]
          /\ notes' = [notes EXCEPT ![h] = @ \cup {u}]
          /\ disp' = [disp EXCEPT ![d].pc = "platform", ![d].u = None,
                                  ![d].created = @ \cup {u}]
          /\ UNCHANGED <<faults, swallowed>>
       \/ /\ Fault
          /\ disp' = [disp EXCEPT ![d].pc = "platform", ![d].u = None]
          /\ swallowed' = swallowed \cup {h}
          /\ UNCHANGED notes
    /\ UNCHANGED <<ledger, send, retry, taken, unknown, outbox, batch,
                   toasts, crashes, work>>

\* A lookup fails: the whole platform channel is given up, toasts included.
PlatformFails(d) ==
    /\ disp[d].pc = "platform"
    /\ disp[d].todo # {}
    /\ Fault
    /\ disp' = [disp EXCEPT ![d].pc = "email", ![d].todo = {}, ![d].created = {}]
    /\ swallowed' = swallowed \cup {disp[d].h}
    /\ UNCHANGED <<ledger, send, retry, taken, unknown, outbox, batch,
                   notes, toasts, crashes, work>>

\* One toast for each recipient whose row this call created.
EmitToasts(d) ==
    /\ disp[d].pc = "platform"
    /\ disp[d].todo = {}
    /\ LET h == disp[d].h IN
       toasts' = [toasts EXCEPT ![h] = [u \in PlatformUsers |->
                     IF u \in disp[d].created THEN @[u] + 1 ELSE @[u]]]
    /\ disp' = [disp EXCEPT ![d].pc = "email", ![d].created = {}]
    /\ UNCHANGED <<mailVars, outbox, batch, notes, swallowed, crashes, work>>

\* The emails of all recipients start together, unless one of the reads
\* before them fails, which is only logged.
StartEmails(d) ==
    /\ disp[d].pc = "email"
    /\ LET h == disp[d].h IN
       \/ /\ send' = [send EXCEPT ![d] = [k \in Keys |->
                         IF k \in {h} \X EmailUsers THEN "create" ELSE @[k]]]
          /\ DispGoto(d, "emails")
          /\ UNCHANGED <<faults, swallowed>>
       \/ /\ Fault
          /\ EmailUsers # {}
          /\ DispGoto(d, "notified")
          /\ swallowed' = swallowed \cup {h}
          /\ UNCHANGED send
    /\ UNCHANGED <<ledger, retry, taken, unknown, outbox, batch, notes,
                   toasts, crashes, work>>

\* Promise.allSettled: failures and exceptions of single emails are dropped.
EmailsSettled(d) ==
    /\ disp[d].pc = "emails"
    /\ LET mine == {disp[d].h} \X EmailUsers IN
       /\ \A k \in mine : send[d][k] \in Settled
       /\ swallowed' = IF \E k \in mine : send[d][k] = "threw"
                       THEN swallowed \cup {disp[d].h} ELSE swallowed
       /\ send' = [send EXCEPT ![d] = [k \in Keys |-> "idle"]]
    /\ DispGoto(d, "notified")
    /\ UNCHANGED <<ledger, retry, faults, taken, unknown, outbox, batch,
                   notes, toasts, crashes, work>>

\* The booking code ignores what its email came to.
MailerDone(k) ==
    /\ send[Mailer][k] \in Settled
    /\ Goto(Mailer, k, "idle")
    /\ UNCHANGED <<ledger, retry, faults, taken, unknown, alertVars>>

-----------------------------------------------------------------------------
(* Processes die and come back empty-handed *)

DispatcherCrash(d) ==
    /\ crashes < MaxCrashes
    /\ disp[d].pc # "idle"
    /\ crashes' = crashes + 1
    /\ DropSends(d)
    /\ disp' = [disp EXCEPT ![d] = Idle]
    /\ batch' = IF d \in Sweepers THEN [batch EXCEPT ![d] = NoBatch] ELSE batch
    /\ UNCHANGED <<retry, outbox, notes, toasts, swallowed, work>>

MailCrash ==
    /\ crashes < MaxCrashes
    /\ crashes' = crashes + 1
    /\ \/ \E r \in Retriers : RetrierCrash(r)
       \/ /\ \E k \in Keys : send[Mailer][k] # "idle"
          /\ DropSends(Mailer)
          /\ UNCHANGED retry
    /\ UNCHANGED <<outbox, disp, batch, notes, toasts, swallowed, work>>

-----------------------------------------------------------------------------

SweepStep(w) == SweepClaim(w) \/ SweepNext(w) \/ SweepSettle(w)

NotifyStep(d) ==
    \/ ReadUsers(d) \/ SaveNote(d) \/ EmitToasts(d) \/ StartEmails(d)
    \/ EmailsSettled(d) \/ \E u \in PlatformUsers : FindNote(d, u)

Ledger == MailStep /\ UNCHANGED alertVars

Next ==
    \/ \E h \in Handoffs : RequestHandoff(h) \/ Elapse(h)
    \/ \E k \in Retained : BookingMail(k)
    \/ \E w \in Sweepers : SweepStep(w) \/ SweepSettleFails(w)
    \/ \E h \in Handoffs : MarkDispatched(h) \/ CallSiteGivesUp(h)
    \/ \E d \in Dispatchers : NotifyStep(d) \/ PlatformFails(d)
    \/ \E k \in Keys : MailerDone(k)
    \/ Ledger
    \/ \E d \in Dispatchers : DispatcherCrash(d)
    \/ MailCrash

\* What process c does next, failures and deaths apart.
SendSteps(c) == (\E k \in Keys : SendStep(c, k)) /\ UNCHANGED alertVars

Runs(c) ==
    \/ SendSteps(c)
    \/ c \in Dispatchers /\ NotifyStep(c)
    \/ c \in Sweepers /\ SweepStep(c)
    \/ c \in Handoffs /\ (MarkDispatched(c) \/ CallSiteGivesUp(c))
    \/ c \in Retriers /\ RetryStep(c) /\ UNCHANGED alertVars
    \/ c = Mailer /\ \E k \in Keys : MailerDone(k)

\* Timers fire and awaited calls return; nothing obliges a statement to fail
\* or a process to die.
Fairness ==
    /\ \A h \in Handoffs : WF_vars(Elapse(h))
    /\ \A k \in Retained : WF_vars(MailElapse(k) /\ UNCHANGED alertVars)
    /\ \A c \in Callers : WF_vars(Runs(c))

Spec == Init /\ [][Next]_vars /\ Fairness

-----------------------------------------------------------------------------
(* Properties *)

(* A row is retired as sent only after a dispatcher went through both      *)
(* channels: every opted-in user then has a notification and an email row, *)
(* unless an error on the way was swallowed.  A dispatcher that died, was  *)
(* overtaken or found its recipients unreadable does not retire the row.   *)
SentMeansAttempted ==
    \A h \in Handoffs : outbox[h].status = "sent" /\ h \notin swallowed =>
        /\ notes[h] = PlatformUsers
        /\ \A u \in EmailUsers : ledger[<<h, u>>].status \in {"sent", "failed"}

(* However many dispatchers replay a row, a user's desktop toasts once.    *)
ToastOnce == \A h \in Handoffs, u \in PlatformUsers : toasts[h][u] <= 1

(* The intent survives: a committed row is eventually dispatched or parked *)
(* as dead, although the call site may die before it dispatches, sweepers  *)
(* may die in the middle of a batch, and claims may overlap.               *)
AlertSettles ==
    \A h \in Handoffs :
        outbox[h].status = "pending" ~> outbox[h].status \in {"sent", "dead"}

(* No retained email is stuck: a failed row is sent or reaches the cap,    *)
(* with replicas that share rows, throw, and die between send and backoff. *)
RetrySettles ==
    \A k \in Retained :
        ledger[k].status = "failed" ~>
            \/ ledger[k].status = "sent"
            \/ ledger[k].attempts >= MAX_MAIL_ATTEMPTS
=============================================================================
