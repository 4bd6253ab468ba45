------------------------------ MODULE Billing ------------------------------
(***************************************************************************)
(* One tenant's billing: the checkout that opens a Stripe session, the     *)
(* webhook endpoint that applies Stripe's events to the billing accounts   *)
(* and to Tenant.tier, the dunning sweep that ends an unpaid subscription, *)
(* the super-admin override and the onboarding trial                       *)
(* (api/src/billing, api/src/webhooks/billing-webhook.routes.ts).          *)
(*                                                                         *)
(* Stripe delivers every event at least once, to any process, in any order *)
(* and more than once; a handler may fail, a process may die.  The account *)
(* rows are locked FOR UPDATE from the second half of a handler to its     *)
(* commit, so that half is one step; the row is matched before the lock.   *)
(*                                                                         *)
(* Abstracted: one catalog price, so one paid plan "pro" (a price that is  *)
(* not in the catalog leaves the rows alone); pending plan changes and     *)
(* their schedules; the dates beside the dunning clock; refunds and        *)
(* trial_will_end, which only write the audit trail; e-mails, whose ledger *)
(* is EmailLedger.                                                         *)
(***************************************************************************)
EXTENDS Integers, Sequences, FiniteSets

CONSTANTS
  Subs,          \* Stripe checkout sessions; each may become a subscription
  Packs,         \* token packs somebody buys, each through its own session
  Workers,       \* processes that can handle a webhook call
  NULL,
  MaxEvents,     \* bound: events Stripe emits
  MaxAhead,      \* bound: older events that an event may overtake
  MaxOverrides,  \* bound: super-admin overrides
  MaxFaults      \* bound: failed or lost attempts

ASSUME BillingAssumption ==
  /\ NULL \notin Subs /\ Subs \cap Packs = {}
  /\ MaxEvents \in Nat /\ MaxAhead \in Nat /\ MaxOverrides \in Nat /\ MaxFaults \in Nat

VARIABLES
  stripe,      \* Stripe's state of every session and of its subscription
  events,      \* the events Stripe has emitted, in order
  processed,   \* the events whose chatbot_stripe_webhook_events row says
               \* 'processed'; to have no row, or a failed one, is the same
  db,          \* the committed rows the handlers change
  worker,      \* the webhook calls in progress
  sweep,       \* the dunning sweep of one process (dunningSweepInFlight)
  overrides, faults,
  disordered,  \* history: an event was applied before an older one, or by a
               \* match that was read too early; a checkout was started beside
               \* another that was not over; or the sweep dropped another
               \* subscription than the one it had cancelled
  trials,      \* history: who was given a trial
  paid         \* history: subscriptions Stripe ever reported as good

vars == <<stripe, events, processed, db, worker, sweep, overrides, faults,
          disordered, trials, paid>>

-----------------------------------------------------------------------------

Live == {"trialing", "active", "past_due"}

\* Sessions and subscriptions that Stripe has done with, or never saw.
Over == {"none", "abandoned", "unpaid", "cancelled"}

Statuses == Live \cup {"none", "cancelled"}

Tiers == {"free", "pro", "enterprise"}

\* A row of tenant_billing_accounts; clock is dunning_started_at: unset, less
\* than three days ago, or more.
Accounts ==
  [status : Statuses, plan : Tiers, sub : Subs \cup {NULL},
   primary : BOOLEAN, clock : {NULL, "running", "over"}]

NoAccount == [status |-> "none", plan |-> "free", sub |-> NULL,
              primary |-> FALSE, clock |-> NULL]

\* chatbot_tenant_trial_reservations: at most one row for the tenant.
Reservations == [session : Subs \cup {NULL}, sub : Subs \cup {NULL}]

\* NULL is no row and no date.
ASSUME NullAssumption == NULL \notin Accounts \cup Reservations \cup {"running", "over"}

\* The committed rows: the two accounts, Tenant.tier, the reservation and the
\* credits for packs.
Rows == [stripe : Accounts \cup {NULL}, manual : Accounts, tier : Tiers,
         trial : Reservations \cup {NULL}, credit : [Packs -> Nat]]

EventTypes == {"created", "updated", "deleted", "paid", "failed",
               "completed", "expired", "topup"}

EventRecords == [type : EventTypes, about : Subs \cup Packs, status : Statuses \cup {NULL}]

Event(type, about, status) == [type |-> type, about |-> about, status |-> status]

Init ==
  /\ stripe = [s \in Subs |-> "none"]
  /\ events = <<>>
  /\ processed = {}
  /\ db = [stripe |-> NULL, manual |-> NoAccount, tier |-> "free",
           trial |-> NULL, credit |-> [p \in Packs |-> 0]]
  /\ worker = [w \in Workers |-> [event |-> 0, matched |-> FALSE]]
  /\ sweep = [pc |-> "idle", sub |-> NULL]
  /\ overrides = 0 /\ faults = 0
  /\ disordered = FALSE
  /\ trials = {} /\ paid = {}

-----------------------------------------------------------------------------
(* Stripe, as the code meets it: what it does on its own and the events it *)
(* emits for that.                                                          *)

Emit(new) ==
  /\ Len(events) + Len(new) <= MaxEvents
  /\ events' = events \o new

Turns(s, from, to, new) ==
  /\ stripe[s] \in from
  /\ stripe' = [stripe EXCEPT ![s] = to]
  /\ Emit(new)

\* The customer finishes a checkout whose session carries the trial.
CompleteTrialCheckout(s) ==
  /\ Turns(s, {"offered"}, "trialing",
           <<Event("created", s, "trialing"), Event("completed", s, NULL)>>)
  /\ trials' = trials \cup {s} /\ paid' = paid \cup {s}

\* Without one the subscription waits for its first payment.
CompleteCheckout(s) ==
  /\ Turns(s, {"open"}, "incomplete", <<Event("created", s, "none")>>)
  /\ UNCHANGED <<trials, paid>>

FirstPayment(s) ==
  /\ Turns(s, {"incomplete"}, "active",
           <<Event("updated", s, "active"), Event("paid", s, NULL),
             Event("completed", s, NULL)>>)
  /\ paid' = paid \cup {s}
  /\ UNCHANGED trials

NeverPaid(s) ==
  /\ Turns(s, {"incomplete"}, "unpaid", <<Event("updated", s, "none")>>)
  /\ UNCHANGED <<trials, paid>>

Abandon(s) ==
  /\ Turns(s, {"open", "offered"}, "abandoned", <<Event("expired", s, NULL)>>)
  /\ UNCHANGED <<trials, paid>>

\* A renewal, or a change of the subscription made in the portal.
Renew(s) ==
  /\ Turns(s, {"trialing", "active"}, "active", <<Event("updated", s, "active")>>)
  /\ UNCHANGED <<trials, paid>>

PaymentFails(s) ==
  /\ Turns(s, {"trialing", "active"}, "past_due",
           <<Event("failed", s, NULL), Event("updated", s, "past_due")>>)
  /\ UNCHANGED <<trials, paid>>

PaymentRecovers(s) ==
  /\ Turns(s, {"past_due"}, "active",
           <<Event("updated", s, "active"), Event("paid", s, NULL)>>)
  /\ UNCHANGED <<trials, paid>>

SubscriptionEnds(s) ==
  /\ Turns(s, Live, "cancelled", <<Event("deleted", s, NULL)>>)
  /\ UNCHANGED <<trials, paid>>

BuyPack(p) ==
  /\ db.stripe # NULL
  /\ \A i \in 1..Len(events) : events[i].about # p
  /\ Emit(<<Event("topup", p, NULL)>>)
  /\ UNCHANGED <<stripe, trials, paid>>

StripeStep ==
  /\ \/ \E s \in Subs :
          \/ CompleteTrialCheckout(s) \/ CompleteCheckout(s) \/ FirstPayment(s)
          \/ NeverPaid(s) \/ Abandon(s) \/ Renew(s) \/ PaymentFails(s)
          \/ PaymentRecovers(s) \/ SubscriptionEnds(s)
     \/ \E p \in Packs : BuyPack(p)
  /\ UNCHANGED <<processed, db, worker, sweep, overrides, faults, disordered>>

-----------------------------------------------------------------------------
(* The service: checkout, override, onboarding trial.                      *)

\* startCheckout and createCheckoutSession: refused while the primary account
\* is a live Stripe one; creates the Stripe account's row; the first session
\* to insert the tenant's reservation row carries the trial.
StartCheckout(s) ==
  /\ stripe[s] = "none"
  /\ ~ (db.stripe # NULL /\ db.stripe.primary /\ db.stripe.status \in Live)
  /\ stripe' = [stripe EXCEPT ![s] = IF db.trial = NULL THEN "offered" ELSE "open"]
  /\ db' = [db EXCEPT
       !.stripe = IF @ = NULL THEN NoAccount ELSE @,
       !.trial = IF @ = NULL THEN [session |-> s, sub |-> NULL] ELSE @]
  /\ disordered' = (disordered \/ \E t \in Subs : stripe[t] \notin Over)
  /\ UNCHANGED <<events, processed, worker, sweep, overrides, faults,
                 trials, paid>>

\* The manual account becomes the primary one.
ManualPrimary(status, plan) ==
  [db EXCEPT
     !.stripe = IF @ = NULL THEN NULL ELSE [@ EXCEPT !.primary = FALSE],
     !.manual = [@ EXCEPT !.status = status, !.plan = plan, !.primary = TRUE],
     !.tier = plan]

SetTierManual(tier) ==
  /\ overrides < MaxOverrides
  /\ overrides' = overrides + 1
  /\ db' = ManualPrimary(IF tier = "free" THEN "none" ELSE "active", tier)
  /\ UNCHANGED <<stripe, events, processed, worker, sweep, faults,
                 disordered, trials, paid>>

\* autoProvision grants it with the tenant, before any checkout.
GrantOnboardingProTrial ==
  /\ db.stripe = NULL /\ db.trial = NULL
  /\ db' = [ManualPrimary("trialing", "pro") EXCEPT
              !.trial = [session |-> NULL, sub |-> NULL]]
  /\ trials' = trials \cup {"onboarding"}
  /\ UNCHANGED <<stripe, events, processed, worker, sweep, overrides, faults,
                 disordered, paid>>

ExpireOnboardingProTrial ==
  /\ db.manual.primary /\ db.manual.status = "trialing"
  /\ db' = [db EXCEPT !.manual = [@ EXCEPT !.status = "none", !.plan = "free"],
                      !.tier = "free"]
  /\ UNCHANGED <<stripe, events, processed, worker, sweep, overrides, faults,
                 disordered, trials, paid>>

-----------------------------------------------------------------------------
(* The webhook endpoint.                                                   *)

\* Plausible slip: no fallback to the customer.
ResolvesBySubscription(e) == db.stripe # NULL /\ db.stripe.sub = e.about

\* resolveEventRow, read before any lock: by subscription id, else by customer
\* where the event type allows it.
Resolves(e) ==
  /\ db.stripe # NULL
  /\ \/ db.stripe.sub = e.about
     \/ e.type = "created"
     \/ e.type \in {"updated", "deleted", "paid", "failed"} /\ db.stripe.sub = NULL

\* The row read again under the lock already belongs to another subscription.
Mismatch(e) == db.stripe.sub \notin {NULL, e.about}

\* handleSubscriptionDeleted, and the rows the dunning sweep drops.
Dropped ==
  [db EXCEPT
     !.stripe = [@ EXCEPT !.status = "cancelled", !.plan = "free",
                          !.sub = NULL, !.clock = NULL],
     !.tier = IF db.stripe.primary THEN "free" ELSE @]

OnDeleted(e) == IF Mismatch(e) THEN db ELSE Dropped

\* Plausible slip: only the failed invoice starts the clock.
UpsertedUnstamped(e) ==
  [db EXCEPT
     !.stripe = [@ EXCEPT
       !.sub = e.about,
       !.status = e.status,
       !.plan = IF e.status = "past_due" THEN db.stripe.plan ELSE "pro",
       !.clock = IF e.status \in {"active", "trialing"} THEN NULL ELSE db.stripe.clock],
     !.trial = IF @ # NULL /\ @.sub = NULL THEN [@ EXCEPT !.sub = e.about] ELSE @]

\* buildSubscriptionUpdateFields and the claim of the trial reservation.
Upserted(e) ==
  [db EXCEPT
     !.stripe = [@ EXCEPT
       !.sub = e.about,
       !.status = e.status,
       !.plan = IF e.status = "past_due" THEN db.stripe.plan
                ELSE IF e.status = "cancelled" THEN "free" ELSE "pro",
       !.clock = IF e.status \in {"active", "trialing"} THEN NULL
                 ELSE IF e.status = "past_due" /\ db.stripe.primary /\ db.stripe.clock = NULL
                      THEN "running" ELSE db.stripe.clock],
     !.trial = IF @ # NULL /\ @.sub = NULL THEN [@ EXCEPT !.sub = e.about] ELSE @]

\* Plausible slip: every update of a primary account moves the tier.
CascadesAlways(e) == TRUE

\* resolveSubscriptionOutcome: only a status that grants access moves the tier,
\* and makes the Stripe account the primary one.
Cascades(e) == e.status \in {"trialing", "active"}

OnUpsert(e) ==
  IF Mismatch(e) THEN db
  ELSE IF ~ Cascades(e) THEN Upserted(e)
  ELSE [Upserted(e) EXCEPT
          !.stripe = [@ EXCEPT !.primary = TRUE],
          !.manual = [@ EXCEPT !.primary = FALSE],
          !.tier = "pro"]

OnInvoicePaid(e) ==
  IF Mismatch(e) THEN db
  ELSE [db EXCEPT !.stripe = [@ EXCEPT
          !.status = IF db.stripe.status = "past_due" THEN "active" ELSE db.stripe.status,
          !.clock = NULL]]

OnInvoiceFailed(e) ==
  IF Mismatch(e) \/ db.stripe.status \notin {"active", "trialing"} THEN db
  ELSE [db EXCEPT !.stripe = [@ EXCEPT
          !.status = "past_due",
          !.clock = IF db.stripe.clock = NULL THEN "running" ELSE db.stripe.clock]]

\* handleCheckoutSessionCompleted: bookkeeping of the subscription id.
OnCompleted(e) ==
  IF db.stripe = NULL THEN db ELSE [db EXCEPT !.stripe.sub = e.about]

\* Plausible slip: the session is not compared.
OnExpiredAnySession(e) ==
  IF db.trial # NULL /\ db.trial.sub = NULL THEN [db EXCEPT !.trial = NULL] ELSE db

\* handleCheckoutSessionExpired: releases the reservation of this very session
\* while no subscription claimed it.
OnExpired(e) ==
  IF db.trial # NULL /\ db.trial.session = e.about /\ db.trial.sub = NULL
  THEN [db EXCEPT !.trial = NULL]
  ELSE db

\* creditTokenTopUp, inside the same savepoint.
OnTopUp(e) == [db EXCEPT !.credit[e.about] = @ + 1]

\* handleNormalizedEvent.
Handled(e, matched) ==
  CASE e.type = "topup" -> OnTopUp(e)
    [] e.type = "completed" -> OnCompleted(e)
    [] e.type = "expired" -> OnExpired(e)
    [] e.type \in {"created", "updated"} /\ matched -> OnUpsert(e)
    [] e.type = "deleted" /\ matched -> OnDeleted(e)
    [] e.type = "paid" /\ matched -> OnInvoicePaid(e)
    [] e.type = "failed" /\ matched -> OnInvoiceFailed(e)
    [] e.type \in {"created", "updated", "deleted", "paid", "failed"} /\ ~ matched -> db

\* Plausible slip: the look at the event's row without the try-lock.
MayStartTwice(i) == i \notin processed

\* pg_try_advisory_xact_lock, then the status of the event's row: a call that
\* finds the lock taken answers 503, one that finds it processed answers 200.
MayStart(i) ==
  /\ \A w \in Workers : worker[w].event # i
  /\ i \notin processed

Overtaken(i) == {j \in 1..(i - 1) : j \notin processed}

Deliver(w, i) ==
  /\ worker[w].event = 0
  /\ Cardinality(Overtaken(i)) <= MaxAhead
  /\ MayStart(i)
  /\ worker' = [worker EXCEPT ![w] = [event |-> i, matched |-> Resolves(events[i])]]
  /\ UNCHANGED <<stripe, events, processed, db, sweep, overrides, faults,
                 disordered, trials, paid>>

Finish(w) == worker' = [worker EXCEPT ![w] = [event |-> 0, matched |-> FALSE]]

\* The locked half of the handler and the commit of rows and event status.
Apply(w) ==
  LET i == worker[w].event
      e == events[i] IN
  /\ i # 0
  /\ db' = Handled(e, worker[w].matched)
  /\ processed' = processed \cup {i}
  /\ disordered' = (disordered \/ Overtaken(i) # {} \/ db' # Handled(e, Resolves(e)))
  /\ Finish(w)
  /\ UNCHANGED <<stripe, events, sweep, overrides, faults, trials, paid>>

\* The handler throws: its savepoint is rolled back, 'failed' is committed and
\* Stripe will call again.  Or the process or its connection dies, and nothing
\* is committed at all.
Fails(w) ==
  /\ worker[w].event # 0
  /\ faults < MaxFaults /\ faults' = faults + 1
  /\ Finish(w)
  /\ UNCHANGED <<stripe, events, processed, db, sweep, overrides, disordered,
                 trials, paid>>

WebhookStep ==
  \E w \in Workers :
    \/ \E i \in 1..Len(events) : Deliver(w, i)
    \/ Apply(w)
    \/ Fails(w)

-----------------------------------------------------------------------------
(* The dunning sweep.                                                      *)

\* Three days pass.
GraceElapses ==
  /\ db.stripe # NULL /\ db.stripe.clock = "running"
  /\ db' = [db EXCEPT !.stripe.clock = "over"]
  /\ UNCHANGED <<stripe, events, processed, worker, sweep, overrides, faults,
                 disordered, trials, paid>>

Overdue ==
  /\ db.stripe # NULL
  /\ db.stripe.primary /\ db.stripe.status = "past_due"
  /\ db.stripe.sub # NULL /\ db.stripe.clock = "over"

SweepRead ==
  /\ sweep.pc = "idle" /\ Overdue
  /\ sweep' = [pc |-> "cancel", sub |-> db.stripe.sub]
  /\ UNCHANGED <<stripe, events, processed, db, worker, overrides, faults,
                 disordered, trials, paid>>

\* subscriptions.cancel at Stripe; 'resource_missing' counts as done.
SweepCancel ==
  /\ sweep.pc = "cancel"
  /\ sweep' = [sweep EXCEPT !.pc = "drop"]
  /\ IF stripe[sweep.sub] \in Live
     THEN Turns(sweep.sub, Live, "cancelled", <<Event("deleted", sweep.sub, NULL)>>)
     ELSE UNCHANGED <<stripe, events>>
  /\ UNCHANGED <<processed, db, worker, overrides, faults, disordered, trials, paid>>

\* Any other error of Stripe, or a crash before or after the call.
SweepGivesUp ==
  /\ sweep.pc # "idle"
  /\ faults < MaxFaults /\ faults' = faults + 1
  /\ sweep' = [pc |-> "idle", sub |-> NULL]
  /\ UNCHANGED <<stripe, events, processed, db, worker, overrides, disordered,
                 trials, paid>>

\* The guarded update: it looks at the status again, not at the subscription.
SweepDrop ==
  LET drops == db.stripe.status = "past_due" /\ db.stripe.primary IN
  /\ sweep.pc = "drop"
  /\ sweep' = [pc |-> "idle", sub |-> NULL]
  /\ db' = IF drops THEN Dropped ELSE db
  /\ disordered' = (disordered \/ (drops /\ db.stripe.sub # sweep.sub))
  /\ UNCHANGED <<stripe, events, processed, worker, overrides, faults, trials, paid>>

SweepStep == SweepRead \/ SweepCancel \/ SweepGivesUp \/ SweepDrop

-----------------------------------------------------------------------------

Next ==
  \/ StripeStep
  \/ \E s \in Subs : StartCheckout(s)
  \/ \E tier \in {"free", "enterprise"} : SetTierManual(tier)
  \/ GrantOnboardingProTrial
  \/ ExpireOnboardingProTrial
  \/ WebhookStep
  \/ GraceElapses
  \/ SweepStep

Spec == Init /\ [][Next]_vars

-----------------------------------------------------------------------------

\* Type correctness.
BillingTypeOK ==
  /\ stripe \in [Subs -> {"none", "open", "offered", "abandoned", "unpaid", "incomplete",
                          "trialing", "active", "past_due", "cancelled"}]
  /\ events \in Seq(EventRecords) /\ processed \subseteq 1..Len(events)
  /\ db \in Rows
  /\ worker \in [Workers -> [event : 0..Len(events), matched : BOOLEAN]]
  /\ sweep \in [pc : {"idle", "cancel", "drop"}, sub : Subs \cup {NULL}]
  /\ disordered \in BOOLEAN
  /\ trials \subseteq Subs \cup {"onboarding"} /\ paid \subseteq Subs
  /\ overrides \in 0..MaxOverrides /\ faults \in 0..MaxFaults

\* A pack is credited once however often its event is delivered, and exactly
\* when its event is marked processed: credit and mark share one commit.
CreditedOnce ==
  \A p \in Packs :
    db.credit[p] = Cardinality({i \in 1..Len(events) :
                     events[i].about = p /\ i \in processed})

\* The tenant never gets a second trial, whichever sessions are opened, abandoned
\* or completed and in whatever order Stripe reports it.
OneTrial == Cardinality(trials) <= 1

\* Paid access goes only to a tenant that paid, or was given a trial.
NoUnpaidTier == db.tier = "pro" => trials \cup paid # {}

Settled ==
  /\ \A i \in 1..Len(events) : i \in processed
  /\ \A w \in Workers : worker[w].event = 0
  /\ sweep.pc = "idle"

LiveSubs == {s \in Subs : stripe[s] \in Live}

\* Once every event has been applied, and in Stripe's order, the account says
\* what Stripe says; whatever failed, was repeated or raced with the sweep
\* (events.ts:64-114, 150-285).  Left out are the histories in which the code does lose
\* track: the row goes on naming a subscription that was never paid for, and
\* then refuses the events of the next one; a row that was matched before the
\* lock may be another by the time of the lock; and the sweep may drop a
\* subscription that followed the one it cancelled.
Converges ==
  (Settled /\ ~ disordered /\ db.stripe # NULL /\ \A s \in Subs : stripe[s] # "unpaid") =>
    IF LiveSubs = {} THEN db.stripe.status \notin Live
    ELSE db.stripe.status \in {stripe[s] : s \in LiveSubs}

\* A primary account that is past due always has its clock and its subscription,
\* so that the sweep ends it when the grace period is over, in whichever order
\* the failed invoice and the update arrive.
PastDueIsTimed ==
  (db.stripe # NULL /\ db.stripe.primary /\ db.stripe.status = "past_due") =>
    db.stripe.clock # NULL /\ db.stripe.sub # NULL

\* service.ts and events.ts on the primary switch: a webhook makes the Stripe
\* account primary only when its status turns into one that grants access; after
\* a manual override its events change the row alone.
PromotionOnTransition ==
  [][(db.stripe # NULL /\ ~ db.stripe.primary /\ db'.stripe.primary)
       => db.stripe.status \notin {"trialing", "active"}]_vars

=============================================================================
