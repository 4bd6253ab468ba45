--------------------------- MODULE BillingProofs ---------------------------
(***************************************************************************)
(* Theorems about Billing, for any number of checkouts, packs, webhook     *)
(* processes, events, overrides and faults, in any order of delivery.      *)
(***************************************************************************)
EXTENDS Billing, TLAPS, FiniteSetTheorems, SequenceTheorems

-----------------------------------------------------------------------------
(* The inductive invariant.                                                *)

\* What an event says is so: a topup is about a pack and everything else about a
\* session, a status that grants access was paid for or tried, and a session
\* that expired was abandoned.
EventOK(e) ==
  /\ e.type = "topup" <=> e.about \in Packs
  /\ e.type \in {"created", "updated"} => e.status \in Statuses
  /\ e.type \in {"created", "updated"} /\ e.status \in {"trialing", "active"} => e.about \in paid
  /\ e.type = "expired" => stripe[e.about] = "abandoned"

EventsOK ==
  /\ \A i \in 1..Len(events) : EventOK(events[i])
  /\ \A s \in Subs : stripe[s] \in Live => s \in paid

\* A call in progress is the only one for its event, which is not processed yet;
\* a row that was matched stays.
CallsOK ==
  /\ \A w \in Workers :
       /\ worker[w].event \notin processed
       /\ worker[w].matched => db.stripe # NULL
       /\ \A v \in Workers : worker[v].event = worker[w].event /\ worker[v].event # 0 => v = w
  /\ sweep.pc # "idle" => sweep.sub \in Subs /\ db.stripe # NULL

\* Rows that agree: a live account has a subscription, and one that is past due
\* its clock; a paid tier has its reason.
RowsOK(d) ==
  /\ d \in Rows
  /\ d.stripe # NULL =>
       /\ d.stripe.status \in Live => d.stripe.sub # NULL
       /\ d.stripe.status = "past_due" /\ d.stripe.primary => d.stripe.clock # NULL
  /\ d.tier = "pro" => trials \cup paid # {}

\* The reservation names who has or may get the trial.
ReservationOK(d) ==
  /\ \A s \in Subs : stripe[s] = "offered" => d.trial # NULL /\ d.trial.session = s
  /\ \A x \in trials :
       /\ d.trial # NULL
       /\ \/ x \in Subs /\ d.trial.session = x /\ stripe[x] \notin {"none", "open", "offered", "abandoned"}
          \/ x = "onboarding" /\ d.trial.session = NULL

IInv ==
  /\ BillingTypeOK /\ EventsOK /\ CallsOK /\ RowsOK(db) /\ ReservationOK(db)
  /\ CreditedOnce

-----------------------------------------------------------------------------
(* The handlers.                                                           *)

\* The new rows agree, and the reservation and the credits are the old ones or
\* what the handler makes of them.
Account(a) ==
  /\ a \in Accounts
  /\ a.status \in Live => a.sub # NULL
  /\ a.status = "past_due" /\ a.primary => a.clock # NULL

\* Writing an account that agrees keeps the rows in agreement.
LEMMA WritesAccount ==
  ASSUME RowsOK(db), NEW a, Account(a)
  PROVE  LET d == [db EXCEPT !.stripe = a]
         IN  RowsOK(d) /\ d.trial = db.trial /\ d.credit = db.credit /\ d.stripe = a
             /\ d.manual = db.manual /\ d.tier = db.tier
<1> DEFINE d == [db EXCEPT !.stripe = a]
<1>1. db \in Rows /\ a \in Accounts
  BY DEF RowsOK, Account
<1>2. d \in Rows /\ d.trial = db.trial /\ d.credit = db.credit /\ d.stripe = a
      /\ d.manual = db.manual /\ d.tier = db.tier
  BY <1>1 DEF Rows
<1> HIDE DEF d
<1>3. RowsOK(d)
  BY <1>2 DEF RowsOK, Account
<1> QED  BY <1>2, <1>3 DEF d

\* The account of the tenant, when there is one.
LEMMA TheAccount ==
  ASSUME RowsOK(db), db.stripe # NULL
  PROVE  Account(db.stripe)
BY DEF RowsOK, Account, Rows

\* handleCheckoutSessionCompleted.
LEMMA CompletedOK ==
  ASSUME RowsOK(db), NEW e, e.about \in Subs
  PROVE  /\ RowsOK(OnCompleted(e)) /\ OnCompleted(e).trial = db.trial
         /\ OnCompleted(e).credit = db.credit
         /\ db.stripe # NULL => OnCompleted(e).stripe # NULL
<1>1. CASE db.stripe = NULL
  BY <1>1 DEF OnCompleted
<1>2. CASE db.stripe # NULL
  <2> DEFINE a == [db.stripe EXCEPT !.sub = e.about]
  <2>1. Account(db.stripe) /\ e.about # NULL
    BY <1>2, TheAccount, BillingAssumption
  <2>2. /\ a \in Accounts /\ a.status = db.stripe.status /\ a.sub = e.about
        /\ a.primary = db.stripe.primary /\ a.clock = db.stripe.clock
    BY <2>1 DEF Account, Accounts
  <2>3. OnCompleted(e) = [db EXCEPT !.stripe = a]
    BY <1>2 DEF OnCompleted
  <2> HIDE DEF a
  <2>4. Account(a) /\ a # NULL
    BY <2>1, <2>2, NullAssumption DEF Account
  <2> QED  BY <2>3, <2>4, WritesAccount
<1> QED  BY <1>1, <1>2

\* creditTokenTopUp.
LEMMA TopUpOK ==
  ASSUME RowsOK(db), NEW e, e.about \in Packs
  PROVE  LET d == OnTopUp(e) IN
         /\ RowsOK(d) /\ d.trial = db.trial /\ d.stripe = db.stripe
         /\ d.credit = [db.credit EXCEPT ![e.about] = db.credit[e.about] + 1]
<1> DEFINE c == [db.credit EXCEPT ![e.about] = db.credit[e.about] + 1]
<1> DEFINE d == [db EXCEPT !.credit = c]
<1>1. db \in Rows /\ db.credit \in [Packs -> Nat]
  BY DEF RowsOK, Rows
<1>2. c \in [Packs -> Nat]
  BY <1>1
<1>3. OnTopUp(e) = d
  BY DEF OnTopUp
<1> HIDE DEF c
<1>4. /\ d \in Rows /\ d.trial = db.trial /\ d.credit = c /\ d.stripe = db.stripe
      /\ d.tier = db.tier
  BY <1>1, <1>2 DEF Rows
<1> HIDE DEF d
<1>5. RowsOK(d)
  BY <1>4 DEF RowsOK
<1> QED  BY <1>3, <1>4, <1>5 DEF c

\* handleCheckoutSessionExpired.
LEMMA ExpiredOK ==
  ASSUME RowsOK(db), ReservationOK(db), NEW e, e.about \in Subs, stripe[e.about] = "abandoned"
  PROVE  LET d == OnExpired(e) IN
         RowsOK(d) /\ ReservationOK(d) /\ d.stripe = db.stripe /\ d.credit = db.credit
<1>1. CASE db.trial # NULL /\ db.trial.session = e.about /\ db.trial.sub = NULL
  <2> DEFINE d == [db EXCEPT !.trial = NULL]
  <2>1. OnExpired(e) = d
    BY <1>1 DEF OnExpired
  <2>2. /\ d \in Rows /\ d.trial = NULL /\ d.credit = db.credit /\ d.stripe = db.stripe
        /\ d.tier = db.tier
    BY DEF RowsOK, Rows
  <2>3. trials = {}
    BY <1>1, BillingAssumption DEF ReservationOK
  <2>4. \A s \in Subs : stripe[s] # "offered"
    BY <1>1 DEF ReservationOK
  <2> HIDE DEF d
  <2>5. RowsOK(d) /\ ReservationOK(d)
    BY <2>2, <2>3, <2>4 DEF RowsOK, ReservationOK
  <2> QED  BY <2>1, <2>2, <2>5
<1>2. CASE ~ (db.trial # NULL /\ db.trial.session = e.about /\ db.trial.sub = NULL)
  BY <1>2 DEF OnExpired
<1> QED  BY <1>1, <1>2

\* invoice.paid.
LEMMA InvoicePaidOK ==
  ASSUME RowsOK(db), db.stripe # NULL, NEW e
  PROVE  LET d == OnInvoicePaid(e) IN
         RowsOK(d) /\ d.trial = db.trial /\ d.credit = db.credit /\ d.stripe # NULL
<1>1. CASE Mismatch(e)
  BY <1>1 DEF OnInvoicePaid
<1>2. CASE ~ Mismatch(e)
  <2> DEFINE st == IF db.stripe.status = "past_due" THEN "active" ELSE db.stripe.status
  <2> DEFINE a == [db.stripe EXCEPT !.status = st, !.clock = NULL]
  <2>1. Account(db.stripe)
    BY TheAccount
  <2>2. st \in Statuses /\ st # "past_due" /\ (st \in Live => db.stripe.sub # NULL)
    BY <2>1 DEF Account, Accounts, Statuses, Live
  <2>3. OnInvoicePaid(e) = [db EXCEPT !.stripe = a]
    BY <1>2 DEF OnInvoicePaid
  <2> HIDE DEF st
  <2>4. /\ a \in Accounts /\ a.status = st /\ a.sub = db.stripe.sub
    BY <2>1, <2>2 DEF Account, Accounts
  <2> HIDE DEF a
  <2>5. Account(a) /\ a # NULL
    BY <2>2, <2>4, NullAssumption DEF Account
  <2> QED  BY <2>3, <2>5, WritesAccount
<1> QED  BY <1>1, <1>2

\* invoice.payment_failed.
LEMMA InvoiceFailedOK ==
  ASSUME RowsOK(db), db.stripe # NULL, NEW e
  PROVE  LET d == OnInvoiceFailed(e) IN
         RowsOK(d) /\ d.trial = db.trial /\ d.credit = db.credit /\ d.stripe # NULL
<1>1. CASE Mismatch(e) \/ db.stripe.status \notin {"active", "trialing"}
  BY <1>1 DEF OnInvoiceFailed
<1>2. CASE ~ (Mismatch(e) \/ db.stripe.status \notin {"active", "trialing"})
  <2> DEFINE ck == IF db.stripe.clock = NULL THEN "running" ELSE db.stripe.clock
  <2> DEFINE a == [db.stripe EXCEPT !.status = "past_due", !.clock = ck]
  <2>1. Account(db.stripe)
    BY TheAccount
  <2>2. ck \in {NULL, "running", "over"} /\ ck # NULL /\ db.stripe.sub # NULL
    BY <1>2, <2>1, NullAssumption DEF Account, Accounts, Live
  <2>3. OnInvoiceFailed(e) = [db EXCEPT !.stripe = a]
    BY <1>2 DEF OnInvoiceFailed
  <2> HIDE DEF ck
  <2>4. a \in Accounts /\ a.status = "past_due" /\ a.sub = db.stripe.sub /\ a.clock = ck
    BY <2>1, <2>2 DEF Account, Accounts, Statuses, Live
  <2> HIDE DEF a
  <2>5. Account(a) /\ a # NULL
    BY <2>2, <2>4, NullAssumption DEF Account
  <2> QED  BY <2>3, <2>5, WritesAccount
<1> QED  BY <1>1, <1>2

\* The rows of an ended subscription.
LEMMA DroppedOK ==
  ASSUME RowsOK(db), db.stripe # NULL
  PROVE  /\ RowsOK(Dropped) /\ Dropped.trial = db.trial /\ Dropped.credit = db.credit
         /\ Dropped.stripe # NULL
         /\ Dropped.stripe.status = "cancelled" /\ Dropped.stripe.sub = NULL
<1> DEFINE a == [db.stripe EXCEPT !.status = "cancelled", !.plan = "free",
                                  !.sub = NULL, !.clock = NULL]
<1> DEFINE t == IF db.stripe.primary THEN "free" ELSE db.tier
<1> DEFINE d == [db EXCEPT !.stripe = a, !.tier = t]
<1>1. Account(db.stripe)
  BY TheAccount
<1>2. a \in Accounts /\ a.status = "cancelled" /\ a.sub = NULL
  BY <1>1 DEF Account, Accounts, Statuses, Tiers
<1>3. t \in Tiers /\ (t = "pro" => db.tier = "pro")
  BY DEF RowsOK, Rows, Tiers
<1>4. Dropped = d
  BY DEF Dropped
<1> HIDE DEF a, t
<1>5. /\ d \in Rows /\ d.stripe = a /\ d.tier = t /\ d.trial = db.trial
      /\ d.credit = db.credit
  BY <1>2, <1>3 DEF RowsOK, Rows
<1> HIDE DEF d
<1>6. RowsOK(d) /\ a # NULL
  BY <1>2, <1>3, <1>5, NullAssumption DEF RowsOK, Live
<1> QED  BY <1>2, <1>4, <1>5, <1>6

\* handleSubscriptionDeleted.
LEMMA DeletedOK ==
  ASSUME RowsOK(db), db.stripe # NULL, NEW e
  PROVE  LET d == OnDeleted(e) IN
         RowsOK(d) /\ d.trial = db.trial /\ d.credit = db.credit /\ d.stripe # NULL
BY DroppedOK DEF OnDeleted

\* The reservation that a subscription claims stays with its session.
SameReservation(d) ==
  \/ d.trial = db.trial
  \/ db.trial # NULL /\ d.trial # NULL /\ d.trial.session = db.trial.session

LEMMA ReservationStays ==
  ASSUME ReservationOK(db), NEW d, SameReservation(d)
  PROVE  ReservationOK(d)
BY DEF ReservationOK, SameReservation

\* handleSubscriptionUpsert: the row that a created or updated subscription writes.
LEMMA UpsertedOK ==
  ASSUME RowsOK(db), db.stripe # NULL, NEW e, e.about \in Subs, e.status \in Statuses
  PROVE  LET d == Upserted(e) IN
         /\ RowsOK(d) /\ SameReservation(d) /\ d.credit = db.credit /\ d.stripe # NULL
         /\ d.stripe.status = e.status /\ d.stripe.sub = e.about
<1> DEFINE pl == IF e.status = "past_due" THEN db.stripe.plan
                 ELSE IF e.status = "cancelled" THEN "free" ELSE "pro"
           ck == IF e.status \in {"active", "trialing"} THEN NULL
                 ELSE IF e.status = "past_due" /\ db.stripe.primary /\ db.stripe.clock = NULL
                      THEN "running" ELSE db.stripe.clock
           a == [db.stripe EXCEPT !.sub = e.about, !.status = e.status, !.plan = pl,
                                  !.clock = ck]
           r == IF db.trial # NULL /\ db.trial.sub = NULL
                THEN [db.trial EXCEPT !.sub = e.about] ELSE db.trial
           d == [db EXCEPT !.stripe = a, !.trial = r]
<1>1. Account(db.stripe) /\ e.about # NULL /\ db \in Rows
  BY TheAccount, BillingAssumption DEF RowsOK
<1>2. pl \in Tiers
  BY <1>1 DEF Account, Accounts, Tiers
<1>3. /\ ck \in {NULL, "running", "over"}
      /\ e.status = "past_due" /\ db.stripe.primary => ck # NULL
  BY <1>1, NullAssumption DEF Account, Accounts
<1>4. /\ r \in Reservations \cup {NULL}
      /\ r = db.trial \/ (db.trial # NULL /\ r # NULL /\ r.session = db.trial.session)
  <2>1. CASE db.trial # NULL /\ db.trial.sub = NULL
    <3>1. db.trial \in Reservations
      BY <1>1, <2>1 DEF Rows
    <3>2. /\ [db.trial EXCEPT !.sub = e.about] \in Reservations
          /\ [db.trial EXCEPT !.sub = e.about].session = db.trial.session
      BY <3>1 DEF Reservations
    <3> QED  BY <2>1, <3>2, NullAssumption
  <2>2. CASE ~ (db.trial # NULL /\ db.trial.sub = NULL)
    <3>1. r = db.trial
      BY <2>2
    <3>2. db.trial \in Reservations \cup {NULL}
      BY <1>1 DEF Rows
    <3> HIDE DEF r
    <3> QED  BY <3>1, <3>2
  <2> QED  BY <2>1, <2>2
<1>5. Upserted(e) = d
  BY DEF Upserted
<1> HIDE DEF pl, ck, r
<1>6. /\ a \in Accounts /\ a.status = e.status /\ a.sub = e.about
      /\ a.primary = db.stripe.primary /\ a.clock = ck
  BY <1>1, <1>2, <1>3 DEF Account, Accounts
<1> HIDE DEF a
<1>7. /\ d \in Rows /\ d.stripe = a /\ d.trial = r /\ d.credit = db.credit /\ d.tier = db.tier
  BY <1>1, <1>4, <1>6 DEF Rows
<1> HIDE DEF d
<1>8. RowsOK(d) /\ a # NULL
  BY <1>1, <1>3, <1>6, <1>7, NullAssumption DEF RowsOK
<1> QED  BY <1>4, <1>5, <1>6, <1>7, <1>8 DEF SameReservation

LEMMA UpsertOK ==
  ASSUME RowsOK(db), db.stripe # NULL, NEW e, e.about \in Subs, e.status \in Statuses,
         e.status \in {"trialing", "active"} => e.about \in paid
  PROVE  LET d == OnUpsert(e) IN
         /\ RowsOK(d) /\ SameReservation(d) /\ d.credit = db.credit /\ d.stripe # NULL
         /\ ~ Mismatch(e) => d.stripe.status = e.status /\ d.stripe.sub = e.about
<1> DEFINE u == Upserted(e)
           a == [u.stripe EXCEPT !.primary = TRUE]
           m == [u.manual EXCEPT !.primary = FALSE]
           d == [u EXCEPT !.stripe = a, !.manual = m, !.tier = "pro"]
<1>1. CASE Mismatch(e)
  BY <1>1 DEF OnUpsert, SameReservation
<1>2. CASE ~ Mismatch(e) /\ ~ Cascades(e)
  BY <1>2, UpsertedOK DEF OnUpsert
<1>3. CASE ~ Mismatch(e) /\ Cascades(e)
  <2>1. /\ RowsOK(u) /\ SameReservation(u) /\ u.credit = db.credit /\ u.stripe # NULL
        /\ u.stripe.status = e.status /\ u.stripe.sub = e.about
    BY UpsertedOK
  <2>2. OnUpsert(e) = d
    BY <1>3 DEF OnUpsert
  <2> HIDE DEF u
  <2>3. u \in Rows /\ u.stripe \in Accounts /\ u.manual \in Accounts
    BY <2>1 DEF RowsOK, Rows
  <2>4. /\ a \in Accounts /\ a.status = e.status /\ a.sub = e.about /\ m \in Accounts
    BY <2>1, <2>3 DEF Accounts
  <2> HIDE DEF a, m
  <2>5. /\ d \in Rows /\ d.stripe = a /\ d.tier = "pro" /\ d.trial = u.trial
        /\ d.credit = u.credit
    BY <2>3, <2>4 DEF Rows, Tiers
  <2> HIDE DEF d
  <2>6. e.status \in {"trialing", "active"} /\ e.about \in paid /\ e.about # NULL
    BY <1>3, BillingAssumption DEF Cascades
  <2>7. RowsOK(d) /\ a # NULL
    BY <2>4, <2>5, <2>6, NullAssumption DEF RowsOK
  <2>8. SameReservation(d)
    BY <2>1, <2>5 DEF SameReservation
  <2> QED  BY <2>1, <2>2, <2>4, <2>5, <2>7, <2>8
<1> QED  BY <1>1, <1>2, <1>3

\* What handleNormalizedEvent makes of the rows: they agree, the reservation is
\* right, and a topup is credited once.
LEMMA HandledOK ==
  ASSUME RowsOK(db), ReservationOK(db), NEW e \in EventRecords, EventOK(e),
         NEW m \in BOOLEAN, m => db.stripe # NULL
  PROVE  LET d == Handled(e, m) IN
         /\ RowsOK(d) /\ ReservationOK(d) /\ (db.stripe # NULL => d.stripe # NULL)
         /\ d.credit = IF e.type = "topup"
                       THEN [db.credit EXCEPT ![e.about] = db.credit[e.about] + 1]
                       ELSE db.credit
<1>1. e.type \in EventTypes /\ e.about \in Subs \cup Packs
  BY DEF EventRecords
<1>2. CASE e.type = "topup"
  <2>1. Handled(e, m) = OnTopUp(e) /\ e.about \in Packs
    BY <1>2 DEF Handled, EventOK
  <2>2. SameReservation(OnTopUp(e))
    BY <2>1, TopUpOK DEF SameReservation
  <2> QED  BY <1>2, <2>1, <2>2, TopUpOK, ReservationStays
<1>3. CASE e.type # "topup"
  <2>1. e.about \in Subs
    BY <1>1, <1>3 DEF EventOK
  <2>2. CASE e.type = "completed"
    <3>1. Handled(e, m) = OnCompleted(e)
      BY <2>2 DEF Handled
    <3>2. SameReservation(OnCompleted(e))
      BY <2>1, CompletedOK DEF SameReservation
    <3> QED  BY <1>3, <2>1, <3>1, <3>2, CompletedOK, ReservationStays
  <2>3. CASE e.type = "expired"
    <3>1. Handled(e, m) = OnExpired(e)
      BY <2>3 DEF Handled
    <3> QED  BY <1>3, <2>1, <2>3, <3>1, ExpiredOK DEF EventOK
  <2>4. CASE e.type \notin {"completed", "expired"} /\ ~ m
    <3>1. Handled(e, m) = db
      BY <1>1, <1>3, <2>4 DEF Handled, EventTypes
    <3> QED  BY <1>3, <3>1
  <2>5. CASE e.type \in {"created", "updated"} /\ m
    <3>1. Handled(e, m) = OnUpsert(e)
      BY <2>5 DEF Handled
    <3>2. e.status \in Statuses /\ (e.status \in {"trialing", "active"} => e.about \in paid)
      BY <2>5 DEF EventOK
    <3> QED  BY <1>3, <2>1, <2>5, <3>1, <3>2, UpsertOK, ReservationStays
  <2>6. CASE e.type = "deleted" /\ m
    <3>1. Handled(e, m) = OnDeleted(e)
      BY <2>6 DEF Handled
    <3>2. SameReservation(OnDeleted(e))
      BY <2>6, DeletedOK DEF SameReservation
    <3> QED  BY <1>3, <2>6, <3>1, <3>2, DeletedOK, ReservationStays
  <2>7. CASE e.type = "paid" /\ m
    <3>1. Handled(e, m) = OnInvoicePaid(e)
      BY <2>7 DEF Handled
    <3>2. SameReservation(OnInvoicePaid(e))
      BY <2>7, InvoicePaidOK DEF SameReservation
    <3> QED  BY <1>3, <2>7, <3>1, <3>2, InvoicePaidOK, ReservationStays
  <2>8. CASE e.type = "failed" /\ m
    <3>1. Handled(e, m) = OnInvoiceFailed(e)
      BY <2>8 DEF Handled
    <3>2. SameReservation(OnInvoiceFailed(e))
      BY <2>8, InvoiceFailedOK DEF SameReservation
    <3> QED  BY <1>3, <2>8, <3>1, <3>2, InvoiceFailedOK, ReservationStays
  <2> QED  BY <1>1, <1>3, <2>2, <2>3, <2>4, <2>5, <2>6, <2>7, <2>8 DEF EventTypes
<1> QED  BY <1>2, <1>3

-----------------------------------------------------------------------------
(* The events.                                                             *)

\* The processed events about a pack.
CreditedBy(p) == {i \in 1..Len(events) : events[i].about = p /\ i \in processed}

\* They are finitely many.
LEMMA CreditedFinite ==
  ASSUME BillingTypeOK, NEW p
  PROVE  IsFiniteSet(CreditedBy(p)) /\ Cardinality(CreditedBy(p)) \in Nat
<1>1. Len(events) \in Nat
  BY DEF BillingTypeOK
<1>2. IsFiniteSet(1..Len(events))
  BY <1>1, FS_Interval
<1>3. CreditedBy(p) \subseteq 1..Len(events)
  BY DEF CreditedBy
<1> QED  BY <1>2, <1>3, FS_Subset, FS_CardinalityType

\* Emitting events keeps the old ones in their places.
LEMMA EmitEffect ==
  ASSUME BillingTypeOK, NEW new \in Seq(EventRecords), events' = events \o new
  PROVE  /\ events' \in Seq(EventRecords)
         /\ Len(events') = Len(events) + Len(new)
         /\ \A i \in 1..Len(events) : i \in 1..Len(events') /\ events'[i] = events[i]
         /\ \A i \in 1..Len(events') : i \notin 1..Len(events) =>
              i - Len(events) \in 1..Len(new) /\ events'[i] = new[i - Len(events)]
<1>1. events \in Seq(EventRecords)
  BY DEF BillingTypeOK
<1> QED  BY <1>1

\* Stripe moves on by itself: one session changes, events follow, and what was
\* paid or given stays so.
StripeMoves(s, to, new) ==
  /\ s \in Subs /\ stripe[s] # "abandoned"
  /\ to \in {"abandoned", "unpaid", "incomplete", "trialing", "active", "past_due", "cancelled"}
  /\ to = "abandoned" => stripe[s] \in {"open", "offered"}
  /\ to \in Live => s \in paid'
  /\ stripe' = [stripe EXCEPT ![s] = to]
  /\ new \in Seq(EventRecords) /\ events' = events \o new
  /\ \A k \in 1..Len(new) : EventOK(new[k])'
  /\ paid \subseteq paid' /\ paid' \subseteq Subs
  /\ \/ trials' = trials
     \/ trials' = trials \cup {s} /\ stripe[s] = "offered" /\ to = "trialing"

\* The same without a session, when a pack is bought.
Emits(new) ==
  /\ stripe' = stripe /\ paid' = paid /\ trials' = trials
  /\ new \in Seq(EventRecords) /\ events' = events \o new
  /\ \A k \in 1..Len(new) : EventOK(new[k])'

Rest == UNCHANGED <<processed, db, worker, overrides, faults, disordered>>

\* What new events change in the parts that do not look at Stripe.
LEMMA EmitKeeps ==
  ASSUME IInv, NEW new \in Seq(EventRecords), events' = events \o new,
         UNCHANGED <<processed, db, worker>>
  PROVE  /\ CreditedOnce' /\ processed' \subseteq 1..Len(events')
         /\ events' \in Seq(EventRecords)
         /\ worker' \in [Workers -> [event : 0..Len(events'), matched : BOOLEAN]]
<1>1. BillingTypeOK /\ CreditedOnce
  BY DEF IInv
<1>2. /\ processed \subseteq 1..Len(events) /\ Len(events) \in Nat /\ Len(new) \in Nat
      /\ worker \in [Workers -> [event : 0..Len(events), matched : BOOLEAN]]
  BY <1>1 DEF BillingTypeOK
<1>3. /\ events' \in Seq(EventRecords)
      /\ Len(events') = Len(events) + Len(new)
      /\ \A i \in 1..Len(events) : i \in 1..Len(events') /\ events'[i] = events[i]
  BY <1>1, EmitEffect
<1>4. \A p \in Packs : CreditedBy(p)' = CreditedBy(p)
  BY <1>2, <1>3 DEF CreditedBy
<1>5. CreditedOnce'
  BY <1>1, <1>4 DEF CreditedOnce, CreditedBy
<1>6. 0..Len(events) \subseteq 0..Len(events')
  BY <1>2, <1>3
<1>7. worker \in [Workers -> [event : 0..Len(events'), matched : BOOLEAN]]
  BY <1>2, <1>6
<1> QED  BY <1>2, <1>3, <1>5, <1>7

\* Stripe's own steps keep the invariant.
LEMMA MovesStep ==
  ASSUME IInv, NEW s, NEW to, NEW new, StripeMoves(s, to, new), Rest,
         sweep' \in [pc : {"idle", "cancel", "drop"}, sub : Subs \cup {NULL}],
         sweep'.pc # "idle" => sweep.pc # "idle" /\ sweep'.sub = sweep.sub
  PROVE  IInv'
<1>1. /\ BillingTypeOK /\ EventsOK /\ CallsOK /\ RowsOK(db) /\ ReservationOK(db)
      /\ CreditedOnce
  BY DEF IInv
<1>2. /\ CreditedOnce' /\ processed' \subseteq 1..Len(events')
      /\ events' \in Seq(EventRecords)
      /\ worker' \in [Workers -> [event : 0..Len(events'), matched : BOOLEAN]]
  BY EmitKeeps DEF StripeMoves, Rest
<1>3. BillingTypeOK'
  BY <1>1, <1>2 DEF BillingTypeOK, StripeMoves, Rest
<1>4. s \in Subs /\ stripe' = [stripe EXCEPT ![s] = to] /\ stripe'[s] = to
      /\ \A t \in Subs : t # s => stripe'[t] = stripe[t]
  BY <1>1 DEF StripeMoves, BillingTypeOK
<1>5. EventsOK'
  <2>1. ASSUME NEW i \in 1..Len(events') PROVE EventOK(events[i])'
    <3>1. CASE i \in 1..Len(events)
      <4>1. EventOK(events[i]) /\ events'[i] = events[i] /\ events[i] \in EventRecords
        BY <1>1, <3>1, EmitEffect DEF EventsOK, StripeMoves, BillingTypeOK
      <4>2. events[i].type = "expired" => stripe'[events[i].about] = "abandoned"
        BY <1>1, <1>4, <4>1 DEF EventOK, StripeMoves, EventRecords
      <4>3. paid \subseteq paid'
        BY DEF StripeMoves
      <4> QED  BY <4>1, <4>2, <4>3 DEF EventOK
    <3>2. CASE i \notin 1..Len(events)
      <4>1. i - Len(events) \in 1..Len(new) /\ events'[i] = new[i - Len(events)]
        BY <1>1, <3>2, EmitEffect DEF StripeMoves
      <4>2. \A k \in 1..Len(new) : EventOK(new[k])'
        BY DEF StripeMoves
      <4> QED  BY <4>1, <4>2 DEF EventOK
    <3> QED  BY <3>1, <3>2
  <2>2. \A t \in Subs : stripe'[t] \in Live => t \in paid'
    BY <1>1, <1>4 DEF EventsOK, StripeMoves
  <2> QED  BY <2>1, <2>2 DEF EventsOK
<1>6. CallsOK'
  BY <1>1 DEF CallsOK, Rest
<1>7. RowsOK(db)'
  BY <1>1 DEF RowsOK, StripeMoves, Rest
<1>8. ReservationOK(db)'
  <2>1. db' = db
    BY DEF Rest
  <2>2. \A t \in Subs : stripe'[t] = "offered" => stripe[t] = "offered"
    BY <1>4 DEF StripeMoves
  <2>3. ASSUME NEW x \in trials
        PROVE  /\ db.trial # NULL
               /\ \/ /\ x \in Subs /\ db.trial.session = x
                     /\ stripe'[x] \notin {"none", "open", "offered", "abandoned"}
                  \/ x = "onboarding" /\ db.trial.session = NULL
    BY <1>1, <1>4, <2>3 DEF ReservationOK, StripeMoves
  <2>4. ASSUME trials' = trials \cup {s}, stripe[s] = "offered", to = "trialing"
        PROVE  /\ db.trial # NULL /\ db.trial.session = s
               /\ stripe'[s] \notin {"none", "open", "offered", "abandoned"}
    BY <1>1, <1>4, <2>4 DEF ReservationOK
  <2> QED  BY <1>1, <1>4, <2>1, <2>2, <2>3, <2>4 DEF ReservationOK, StripeMoves
<1> QED  BY <1>2, <1>3, <1>5, <1>6, <1>7, <1>8 DEF IInv

\* One, two or three events are a sequence of events.
LEMMA EventSeqs ==
  ASSUME NEW a \in EventRecords
  PROVE  /\ <<a>> \in Seq(EventRecords)
         /\ \A b \in EventRecords : <<a, b>> \in Seq(EventRecords)
         /\ \A b, c \in EventRecords : <<a, b, c>> \in Seq(EventRecords)
OBVIOUS

\* An event of a session, field by field.
LEMMA EventParts ==
  ASSUME NEW s \in Subs \cup Packs, NEW ty \in EventTypes, NEW st \in Statuses \cup {NULL}
  PROVE  /\ Event(ty, s, st) \in EventRecords
         /\ Event(ty, s, st).type = ty /\ Event(ty, s, st).about = s
         /\ Event(ty, s, st).status = st
BY DEF Event, EventRecords

\* An event of a session that says nothing of a status or an end is right.
LEMMA PlainEvent ==
  ASSUME NEW s \in Subs, NEW ty \in {"deleted", "paid", "failed", "completed"}
  PROVE  Event(ty, s, NULL) \in EventRecords /\ EventOK(Event(ty, s, NULL))'
<1> DEFINE e == Event(ty, s, NULL)
<1>1. e \in EventRecords /\ e.type = ty /\ e.about = s
  BY EventParts DEF EventTypes
<1> HIDE DEF e
<1>2. EventOK(e)'
  BY <1>1, BillingAssumption DEF EventOK
<1> QED  BY <1>1, <1>2 DEF e

\* So is one that reports a status, when it grants access to who paid only.
LEMMA StatusEvent ==
  ASSUME NEW s \in Subs, NEW ty \in {"created", "updated"}, NEW st \in Statuses,
         st \in {"trialing", "active"} => s \in paid'
  PROVE  Event(ty, s, st) \in EventRecords /\ EventOK(Event(ty, s, st))'
<1> DEFINE e == Event(ty, s, st)
<1>1. e \in EventRecords /\ e.type = ty /\ e.about = s /\ e.status = st
  BY EventParts DEF EventTypes
<1> HIDE DEF e
<1>2. EventOK(e)'
  BY <1>1, BillingAssumption DEF EventOK
<1> QED  BY <1>1, <1>2 DEF e

\* The statuses that Stripe reports.
LEMMA ReportedStatuses == {"trialing", "active", "past_due", "none"} \subseteq Statuses
BY DEF Statuses, Live

\* One step of a session at Stripe, with the events it emits.
LEMMA SessionStep ==
  ASSUME IInv, NEW s \in Subs,
         \/ CompleteTrialCheckout(s) \/ CompleteCheckout(s) \/ FirstPayment(s)
         \/ NeverPaid(s) \/ Abandon(s) \/ Renew(s) \/ PaymentFails(s)
         \/ PaymentRecovers(s) \/ SubscriptionEnds(s)
  PROVE  \E to, new : StripeMoves(s, to, new)
<1>1. /\ BillingTypeOK /\ EventsOK /\ paid \subseteq Subs
  BY DEF IInv, BillingTypeOK
<1>2. stripe[s] \in Live => s \in paid
  BY <1>1 DEF EventsOK
<1>3. ASSUME NEW a \in EventRecords, EventOK(a)',
             NEW to \in {"abandoned", "unpaid", "incomplete", "active", "cancelled"},
             stripe[s] # "abandoned", to = "abandoned" => stripe[s] \in {"open", "offered"},
             to \in Live => s \in paid,
             stripe' = [stripe EXCEPT ![s] = to], events' = events \o <<a>>,
             UNCHANGED <<trials, paid>>
      PROVE  StripeMoves(s, to, <<a>>)
  <2>1. <<a>> \in Seq(EventRecords) /\ Len(<<a>>) = 1 /\ <<a>>[1] = a
    BY <1>3, EventSeqs
  <2>2. \A k \in 1..Len(<<a>>) : <<a>>[k] = a
    BY <2>1
  <2>3. \A k \in 1..Len(<<a>>) : EventOK(<<a>>[k])'
    BY <1>3, <2>2 DEF EventOK
  <2> QED  BY <1>1, <1>3, <2>1, <2>3 DEF StripeMoves
<1>4. ASSUME NEW a \in EventRecords, NEW b \in EventRecords, EventOK(a)', EventOK(b)',
             NEW to \in {"trialing", "active", "past_due"},
             stripe[s] # "abandoned", s \in paid',
             stripe' = [stripe EXCEPT ![s] = to], events' = events \o <<a, b>>,
             paid \subseteq paid', paid' \subseteq Subs,
             \/ trials' = trials
             \/ trials' = trials \cup {s} /\ stripe[s] = "offered" /\ to = "trialing"
      PROVE  StripeMoves(s, to, <<a, b>>)
  <2>1. <<a, b>> \in Seq(EventRecords) /\ Len(<<a, b>>) = 2
    BY <1>4, EventSeqs
  <2>2. \A k \in 1..Len(<<a, b>>) : <<a, b>>[k] = a \/ <<a, b>>[k] = b
    BY <2>1
  <2>3. \A k \in 1..Len(<<a, b>>) : EventOK(<<a, b>>[k])'
    BY <1>4, <2>2 DEF EventOK
  <2> QED  BY <1>1, <1>4, <2>1, <2>3 DEF StripeMoves
<1>5. CASE CompleteTrialCheckout(s)
  <2> DEFINE a == Event("created", s, "trialing")
             b == Event("completed", s, NULL)
  <2>1. s \in paid' /\ paid \subseteq paid' /\ paid' \subseteq Subs
    BY <1>1, <1>5 DEF CompleteTrialCheckout
  <2>2. a \in EventRecords /\ EventOK(a)' /\ b \in EventRecords /\ EventOK(b)'
    BY <2>1, StatusEvent, PlainEvent, ReportedStatuses
  <2>3. /\ stripe[s] = "offered" /\ stripe' = [stripe EXCEPT ![s] = "trialing"]
        /\ events' = events \o <<a, b>> /\ trials' = trials \cup {s}
    BY <1>5 DEF CompleteTrialCheckout, Turns, Emit
  <2> HIDE DEF a, b
  <2>4. StripeMoves(s, "trialing", <<a, b>>)
    BY <1>4, <2>1, <2>2, <2>3
  <2> QED  BY <2>4
<1>6. CASE CompleteCheckout(s)
  <2> DEFINE a == Event("created", s, "none")
  <2>1. a \in EventRecords /\ EventOK(a)'
    BY StatusEvent, ReportedStatuses
  <2>2. /\ stripe[s] = "open" /\ stripe' = [stripe EXCEPT ![s] = "incomplete"]
        /\ events' = events \o <<a>> /\ UNCHANGED <<trials, paid>>
    BY <1>6 DEF CompleteCheckout, Turns, Emit
  <2> HIDE DEF a
  <2>3. StripeMoves(s, "incomplete", <<a>>)
    BY <1>3, <2>1, <2>2 DEF Live
  <2> QED  BY <2>3
<1>7. CASE FirstPayment(s)
  <2> DEFINE a == Event("updated", s, "active")
             b == Event("paid", s, NULL)
             c == Event("completed", s, NULL)
             new == <<a, b, c>>
  <2>1. s \in paid' /\ paid \subseteq paid' /\ paid' \subseteq Subs /\ trials' = trials
    BY <1>1, <1>7 DEF FirstPayment
  <2>2. /\ a \in EventRecords /\ EventOK(a)' /\ b \in EventRecords /\ EventOK(b)'
        /\ c \in EventRecords /\ EventOK(c)'
    BY <2>1, StatusEvent, PlainEvent, ReportedStatuses
  <2>3. /\ stripe[s] = "incomplete" /\ stripe' = [stripe EXCEPT ![s] = "active"]
        /\ events' = events \o new
    BY <1>7 DEF FirstPayment, Turns, Emit
  <2> HIDE DEF a, b, c
  <2>4. new \in Seq(EventRecords) /\ Len(new) = 3
    BY <2>2, EventSeqs
  <2>5. \A k \in 1..Len(new) : new[k] = a \/ new[k] = b \/ new[k] = c
    BY <2>4
  <2>6. \A k \in 1..Len(new) : EventOK(new[k])'
    BY <2>2, <2>5 DEF EventOK
  <2> HIDE DEF new
  <2>7. StripeMoves(s, "active", new)
    BY <2>1, <2>3, <2>4, <2>6 DEF StripeMoves
  <2> QED  BY <2>7
<1>8. CASE NeverPaid(s)
  <2> DEFINE a == Event("updated", s, "none")
  <2>1. a \in EventRecords /\ EventOK(a)'
    BY StatusEvent, ReportedStatuses
  <2>2. /\ stripe[s] = "incomplete" /\ stripe' = [stripe EXCEPT ![s] = "unpaid"]
        /\ events' = events \o <<a>> /\ UNCHANGED <<trials, paid>>
    BY <1>8 DEF NeverPaid, Turns, Emit
  <2> HIDE DEF a
  <2>3. StripeMoves(s, "unpaid", <<a>>)
    BY <1>3, <2>1, <2>2 DEF Live
  <2> QED  BY <2>3
<1>9. CASE Abandon(s)
  <2> DEFINE a == Event("expired", s, NULL)
  <2>1. /\ stripe[s] \in {"open", "offered"} /\ stripe' = [stripe EXCEPT ![s] = "abandoned"]
        /\ events' = events \o <<a>> /\ UNCHANGED <<trials, paid>>
    BY <1>9 DEF Abandon, Turns, Emit
  <2>2. a \in EventRecords /\ a.type = "expired" /\ a.about = s
    BY EventParts DEF EventTypes
  <2> HIDE DEF a
  <2>3. EventOK(a)'
    BY <1>1, <2>1, <2>2, BillingAssumption DEF EventOK, BillingTypeOK
  <2>4. StripeMoves(s, "abandoned", <<a>>)
    BY <1>3, <2>1, <2>2, <2>3 DEF Live
  <2> QED  BY <2>4
<1>10. CASE Renew(s)
  <2> DEFINE a == Event("updated", s, "active")
  <2>1. /\ stripe[s] \in {"trialing", "active"} /\ stripe' = [stripe EXCEPT ![s] = "active"]
        /\ events' = events \o <<a>> /\ UNCHANGED <<trials, paid>>
    BY <1>10 DEF Renew, Turns, Emit
  <2>2. s \in paid
    BY <1>2, <2>1 DEF Live
  <2>3. a \in EventRecords /\ EventOK(a)'
    BY <2>1, <2>2, StatusEvent, ReportedStatuses
  <2> HIDE DEF a
  <2>4. StripeMoves(s, "active", <<a>>)
    BY <1>3, <2>1, <2>2, <2>3
  <2> QED  BY <2>4
<1>11. CASE PaymentFails(s)
  <2> DEFINE a == Event("failed", s, NULL)
             b == Event("updated", s, "past_due")
  <2>1. /\ stripe[s] \in {"trialing", "active"} /\ stripe' = [stripe EXCEPT ![s] = "past_due"]
        /\ events' = events \o <<a, b>> /\ UNCHANGED <<trials, paid>>
    BY <1>11 DEF PaymentFails, Turns, Emit
  <2>2. s \in paid /\ paid' = paid
    BY <1>2, <2>1 DEF Live
  <2>3. a \in EventRecords /\ EventOK(a)' /\ b \in EventRecords /\ EventOK(b)'
    BY <2>2, StatusEvent, PlainEvent, ReportedStatuses
  <2> HIDE DEF a, b
  <2>4. StripeMoves(s, "past_due", <<a, b>>)
    BY <1>1, <1>4, <2>1, <2>2, <2>3
  <2> QED  BY <2>4
<1>12. CASE PaymentRecovers(s)
  <2> DEFINE a == Event("updated", s, "active")
             b == Event("paid", s, NULL)
  <2>1. /\ stripe[s] = "past_due" /\ stripe' = [stripe EXCEPT ![s] = "active"]
        /\ events' = events \o <<a, b>> /\ UNCHANGED <<trials, paid>>
    BY <1>12 DEF PaymentRecovers, Turns, Emit
  <2>2. s \in paid /\ paid' = paid
    BY <1>2, <2>1 DEF Live
  <2>3. a \in EventRecords /\ EventOK(a)' /\ b \in EventRecords /\ EventOK(b)'
    BY <2>2, StatusEvent, PlainEvent, ReportedStatuses
  <2> HIDE DEF a, b
  <2>4. StripeMoves(s, "active", <<a, b>>)
    BY <1>1, <1>4, <2>1, <2>2, <2>3
  <2> QED  BY <2>4
<1>13. CASE SubscriptionEnds(s)
  <2> DEFINE a == Event("deleted", s, NULL)
  <2>1. /\ stripe[s] \in Live /\ stripe' = [stripe EXCEPT ![s] = "cancelled"]
        /\ events' = events \o <<a>> /\ UNCHANGED <<trials, paid>>
    BY <1>13 DEF SubscriptionEnds, Turns, Emit
  <2>2. a \in EventRecords /\ EventOK(a)'
    BY PlainEvent
  <2> HIDE DEF a
  <2>3. StripeMoves(s, "cancelled", <<a>>)
    BY <1>3, <2>1, <2>2 DEF Live
  <2> QED  BY <2>3
<1> QED  BY <1>5, <1>6, <1>7, <1>8, <1>9, <1>10, <1>11, <1>12, <1>13

\* Buying a pack.
LEMMA BuyPackStep ==
  ASSUME IInv, NEW p \in Packs, BuyPack(p), Rest, UNCHANGED sweep
  PROVE  IInv'
<1> DEFINE a == Event("topup", p, NULL)
           new == <<a>>
<1>1. /\ BillingTypeOK /\ EventsOK /\ CallsOK /\ RowsOK(db) /\ ReservationOK(db)
      /\ CreditedOnce
  BY DEF IInv
<1>2. events' = events \o new /\ UNCHANGED <<stripe, trials, paid>>
  BY DEF BuyPack, Emit
<1>3. a \in EventRecords /\ a.type = "topup" /\ a.about = p
  BY EventParts DEF EventTypes
<1> HIDE DEF a
<1>4. EventOK(a)'
  BY <1>3 DEF EventOK
<1>5. new \in Seq(EventRecords) /\ Len(new) = 1 /\ new[1] = a
  BY <1>3, EventSeqs
<1> HIDE DEF new
<1>6. /\ CreditedOnce' /\ processed' \subseteq 1..Len(events')
      /\ events' \in Seq(EventRecords)
      /\ worker' \in [Workers -> [event : 0..Len(events'), matched : BOOLEAN]]
  BY <1>2, <1>5, EmitKeeps DEF Rest
<1>7. BillingTypeOK'
  BY <1>1, <1>2, <1>6 DEF BillingTypeOK, Rest
<1>8. EventsOK'
  <2>1. ASSUME NEW i \in 1..Len(events') PROVE EventOK(events[i])'
    <3>1. CASE i \in 1..Len(events)
      <4>1. EventOK(events[i]) /\ events'[i] = events[i]
        BY <1>1, <1>2, <1>5, <3>1, EmitEffect DEF EventsOK
      <4> QED  BY <1>2, <4>1 DEF EventOK
    <3>2. CASE i \notin 1..Len(events)
      <4>1. i - Len(events) \in 1..Len(new) /\ events'[i] = new[i - Len(events)]
        BY <1>1, <1>2, <1>5, <3>2, EmitEffect
      <4>2. events'[i] = a
        BY <1>5, <4>1
      <4> QED  BY <1>4, <4>2 DEF EventOK
    <3> QED  BY <3>1, <3>2
  <2> QED  BY <1>1, <1>2, <2>1 DEF EventsOK
<1>9. CallsOK' /\ RowsOK(db)' /\ ReservationOK(db)'
  BY <1>1, <1>2 DEF CallsOK, RowsOK, ReservationOK, Rest
<1> QED  BY <1>6, <1>7, <1>8, <1>9 DEF IInv

\* Stripe by itself.
LEMMA StripeStepInv ==
  ASSUME IInv, StripeStep
  PROVE  IInv'
<1>1. Rest /\ UNCHANGED sweep
  BY DEF StripeStep, Rest
<1>2. sweep \in [pc : {"idle", "cancel", "drop"}, sub : Subs \cup {NULL}]
  BY DEF IInv, BillingTypeOK
<1>3. ASSUME NEW s \in Subs,
             \/ CompleteTrialCheckout(s) \/ CompleteCheckout(s) \/ FirstPayment(s)
             \/ NeverPaid(s) \/ Abandon(s) \/ Renew(s) \/ PaymentFails(s)
             \/ PaymentRecovers(s) \/ SubscriptionEnds(s)
      PROVE  IInv'
  <2>1. PICK to, new : StripeMoves(s, to, new)
    BY <1>3, SessionStep
  <2> QED  BY <1>1, <1>2, <2>1, MovesStep
<1>4. ASSUME NEW p \in Packs, BuyPack(p) PROVE IInv'
  BY <1>1, <1>4, BuyPackStep
<1> QED  BY <1>3, <1>4 DEF StripeStep

-----------------------------------------------------------------------------
(* The service, the webhook endpoint and the sweep.                        *)

\* A step that writes rows only.
LEMMA WritesStep ==
  ASSUME IInv, RowsOK(db)', ReservationOK(db)', db'.credit = db.credit,
         db.stripe # NULL => db'.stripe # NULL,
         UNCHANGED <<stripe, events, processed, worker>>, trials \subseteq trials',
         trials' \subseteq Subs \cup {"onboarding"}, paid' = paid,
         sweep' = sweep \/ sweep' = [pc |-> "idle", sub |-> NULL],
         disordered' \in BOOLEAN, overrides' \in 0..MaxOverrides, faults' = faults
  PROVE  IInv'
<1>1. /\ BillingTypeOK /\ EventsOK /\ CallsOK /\ CreditedOnce
  BY DEF IInv
<1>2. /\ sweep' \in [pc : {"idle", "cancel", "drop"}, sub : Subs \cup {NULL}]
      /\ sweep'.pc # "idle" => sweep' = sweep
  BY <1>1 DEF BillingTypeOK
<1>3. BillingTypeOK'
  BY <1>1, <1>2 DEF BillingTypeOK, RowsOK
<1>4. EventsOK'
  BY <1>1 DEF EventsOK, EventOK
<1>5. CallsOK'
  BY <1>1, <1>2 DEF CallsOK
<1>6. CreditedOnce'
  BY <1>1 DEF CreditedOnce
<1> QED  BY <1>3, <1>4, <1>5, <1>6 DEF IInv

\* startCheckout.
LEMMA StartCheckoutStep ==
  ASSUME IInv, NEW s \in Subs, StartCheckout(s)
  PROVE  IInv'
<1> DEFINE to == IF db.trial = NULL THEN "offered" ELSE "open"
           a == IF db.stripe = NULL THEN NoAccount ELSE db.stripe
           n == [session |-> s, sub |-> NULL]
           r == IF db.trial = NULL THEN n ELSE db.trial
           d == [db EXCEPT !.stripe = a, !.trial = r]
<1>1. /\ BillingTypeOK /\ EventsOK /\ CallsOK /\ RowsOK(db) /\ ReservationOK(db)
      /\ CreditedOnce /\ db \in Rows
  BY DEF IInv, BillingTypeOK
<1>2. /\ stripe[s] = "none" /\ stripe' = [stripe EXCEPT ![s] = to] /\ db' = d
      /\ disordered' \in BOOLEAN
      /\ UNCHANGED <<events, processed, worker, sweep, overrides, faults, trials, paid>>
  BY <1>1 DEF StartCheckout, BillingTypeOK
<1>3. n \in Reservations /\ n.session = s /\ n # NULL
  <2>1. n \in Reservations /\ n.session = s
    BY DEF Reservations
  <2> QED  BY <2>1, NullAssumption
<1>4. NoAccount \in Accounts /\ NoAccount.status = "none" /\ NoAccount # NULL
  <2>1. NoAccount \in Accounts /\ NoAccount.status = "none"
    BY DEF NoAccount, Accounts, Statuses, Tiers
  <2> QED  BY <2>1, NullAssumption
<1> HIDE DEF n
<1>5. Account(a) /\ a # NULL
  BY <1>1, <1>4, TheAccount DEF Account, Live
<1>6. /\ r \in Reservations /\ r # NULL
      /\ db.trial # NULL => r = db.trial
      /\ db.trial = NULL => r.session = s
  BY <1>1, <1>3 DEF Rows
<1>7. to \in {"offered", "open"} /\ (to = "offered" => db.trial = NULL)
  OBVIOUS
<1> HIDE DEF a, r, to
<1>8. /\ d \in Rows /\ d.stripe = a /\ d.trial = r /\ d.credit = db.credit /\ d.tier = db.tier
  BY <1>1, <1>5, <1>6 DEF Rows, Account
<1> HIDE DEF d
<1>9. stripe'[s] = to /\ \A t \in Subs : t # s => stripe'[t] = stripe[t]
  BY <1>1, <1>2 DEF BillingTypeOK
<1>10. RowsOK(db)'
  BY <1>1, <1>2, <1>5, <1>8 DEF RowsOK, Account
<1>11. ReservationOK(db)'
  <2>1. ASSUME NEW t \in Subs, stripe'[t] = "offered"
        PROVE  r.session = t
    BY <1>1, <1>6, <1>7, <1>9, <2>1 DEF ReservationOK
  <2>2. ASSUME NEW x \in trials
        PROVE  \/ x \in Subs /\ r.session = x /\ stripe'[x] \notin {"none", "open", "offered", "abandoned"}
               \/ x = "onboarding" /\ r.session = NULL
    BY <1>1, <1>2, <1>6, <1>9, <2>2 DEF ReservationOK
  <2> QED  BY <1>2, <1>6, <1>8, <2>1, <2>2 DEF ReservationOK
<1>12. BillingTypeOK'
  BY <1>1, <1>2, <1>7, <1>8 DEF BillingTypeOK
<1>13. EventsOK'
  <2>1. \A i \in 1..Len(events) : events[i] \in EventRecords
    BY <1>1 DEF BillingTypeOK
  <2>2. ASSUME NEW i \in 1..Len(events) PROVE EventOK(events[i])'
    BY <1>1, <1>2, <1>9, <2>1 DEF EventsOK, EventOK
  <2> QED  BY <1>1, <1>2, <1>7, <1>9, <2>2 DEF EventsOK, Live
<1>14. CallsOK' /\ CreditedOnce'
  BY <1>1, <1>2, <1>5, <1>8 DEF CallsOK, CreditedOnce
<1> QED  BY <1>10, <1>11, <1>12, <1>13, <1>14 DEF IInv

\* The manual account becomes the primary one.
LEMMA ManualOK ==
  ASSUME RowsOK(db), NEW st \in Statuses, NEW t \in Tiers
  PROVE  LET d == ManualPrimary(st, t) IN
         /\ d \in Rows /\ d.tier = t /\ d.trial = db.trial /\ d.credit = db.credit
         /\ d.stripe = NULL \/ Account(d.stripe)
         /\ db.stripe # NULL => d.stripe # NULL
<1> DEFINE a == IF db.stripe = NULL THEN NULL ELSE [db.stripe EXCEPT !.primary = FALSE]
           m == [db.manual EXCEPT !.status = st, !.plan = t, !.primary = TRUE]
           d == [db EXCEPT !.stripe = a, !.manual = m, !.tier = t]
<1>1. db \in Rows /\ db.manual \in Accounts
  BY DEF RowsOK, Rows
<1>2. m \in Accounts
  BY <1>1 DEF Accounts
<1>3. ASSUME db.stripe # NULL
      PROVE  Account([db.stripe EXCEPT !.primary = FALSE])
  <2> DEFINE b == [db.stripe EXCEPT !.primary = FALSE]
  <2>1. Account(db.stripe)
    BY <1>3, TheAccount
  <2>2. b \in Accounts /\ b.status = db.stripe.status /\ b.sub = db.stripe.sub
    BY <2>1 DEF Account, Accounts
  <2>3. b.primary = FALSE
    BY <2>1 DEF Account, Accounts
  <2> HIDE DEF b
  <2>4. Account(b)
    BY <2>1, <2>2, <2>3 DEF Account
  <2> QED  BY <2>4 DEF b
<1>4. (a = NULL \/ Account(a)) /\ (db.stripe # NULL => a # NULL)
  BY <1>3, NullAssumption DEF Account
<1>5. ManualPrimary(st, t) = d
  BY DEF ManualPrimary
<1> HIDE DEF a, m
<1>6. /\ d \in Rows /\ d.stripe = a /\ d.tier = t /\ d.trial = db.trial /\ d.credit = db.credit
  BY <1>1, <1>2, <1>4 DEF Rows, Account
<1> QED  BY <1>4, <1>5, <1>6

\* setTierManual.
LEMMA SetTierStep ==
  ASSUME IInv, NEW t \in {"free", "enterprise"}, SetTierManual(t)
  PROVE  IInv'
<1> DEFINE st == IF t = "free" THEN "none" ELSE "active"
           d == ManualPrimary(st, t)
<1>1. RowsOK(db) /\ ReservationOK(db) /\ BillingTypeOK
  BY DEF IInv
<1>2. st \in Statuses /\ t \in Tiers
  BY DEF Statuses, Live, Tiers
<1>3. /\ d \in Rows /\ d.tier = t /\ d.trial = db.trial /\ d.credit = db.credit
      /\ d.stripe = NULL \/ Account(d.stripe)
      /\ db.stripe # NULL => d.stripe # NULL
  BY <1>1, <1>2, ManualOK
<1>4. /\ db' = d /\ overrides' \in 0..MaxOverrides
      /\ UNCHANGED <<stripe, events, processed, worker, sweep, faults, disordered, trials, paid>>
  BY <1>1, BillingAssumption DEF SetTierManual, BillingTypeOK
<1> HIDE DEF d
<1>5. RowsOK(db)'
  BY <1>3, <1>4 DEF RowsOK, Account
<1>6. ReservationOK(db)'
  BY <1>1, <1>3, <1>4 DEF ReservationOK
<1> QED  BY <1>1, <1>3, <1>4, <1>5, <1>6, WritesStep DEF BillingTypeOK

\* grantOnboardingProTrial.
LEMMA GrantStep ==
  ASSUME IInv, GrantOnboardingProTrial
  PROVE  IInv'
<1> DEFINE m == ManualPrimary("trialing", "pro")
           n == [session |-> NULL, sub |-> NULL]
           d == [m EXCEPT !.trial = n]
<1>1. RowsOK(db) /\ ReservationOK(db) /\ BillingTypeOK
  BY DEF IInv
<1>2. /\ m \in Rows /\ m.tier = "pro" /\ m.trial = db.trial /\ m.credit = db.credit
      /\ m.stripe = NULL \/ Account(m.stripe)
  BY <1>1, ManualOK DEF Statuses, Live, Tiers
<1>3. /\ db.stripe = NULL /\ db.trial = NULL /\ db' = d
      /\ trials' = trials \cup {"onboarding"}
      /\ UNCHANGED <<stripe, events, processed, worker, sweep, overrides, faults,
                     disordered, paid>>
  BY DEF GrantOnboardingProTrial
<1>4. n \in Reservations /\ n.session = NULL /\ n # NULL
  <2>1. n \in Reservations /\ n.session = NULL
    BY DEF Reservations
  <2> QED  BY <2>1, NullAssumption
<1> HIDE DEF m, n
<1>5. d \in Rows /\ d.stripe = m.stripe /\ d.tier = "pro" /\ d.trial = n /\ d.credit = db.credit
  BY <1>2, <1>4 DEF Rows
<1> HIDE DEF d
<1>6. RowsOK(db)'
  BY <1>2, <1>3, <1>5 DEF RowsOK, Account
<1>7. trials = {} /\ \A s \in Subs : stripe[s] # "offered"
  BY <1>1, <1>3 DEF ReservationOK
<1>8. ReservationOK(db)'
  BY <1>3, <1>4, <1>5, <1>7 DEF ReservationOK
<1> QED  BY <1>1, <1>3, <1>5, <1>6, <1>8, WritesStep DEF BillingTypeOK

\* The end of the onboarding trial.
LEMMA ExpireStep ==
  ASSUME IInv, ExpireOnboardingProTrial
  PROVE  IInv'
<1> DEFINE m == [db.manual EXCEPT !.status = "none", !.plan = "free"]
           d == [db EXCEPT !.manual = m, !.tier = "free"]
<1>1. RowsOK(db) /\ ReservationOK(db) /\ BillingTypeOK /\ db \in Rows /\ db.manual \in Accounts
  BY DEF IInv, BillingTypeOK, Rows
<1>2. m \in Accounts
  BY <1>1 DEF Accounts, Statuses, Tiers
<1>3. /\ db' = d
      /\ UNCHANGED <<stripe, events, processed, worker, sweep, overrides, faults,
                     disordered, trials, paid>>
  BY DEF ExpireOnboardingProTrial
<1> HIDE DEF m
<1>4. d \in Rows /\ d.stripe = db.stripe /\ d.tier = "free" /\ d.trial = db.trial
      /\ d.credit = db.credit
  BY <1>1, <1>2 DEF Rows, Tiers
<1> HIDE DEF d
<1>5. RowsOK(db)' /\ ReservationOK(db)'
  BY <1>1, <1>3, <1>4 DEF RowsOK, ReservationOK
<1> QED  BY <1>1, <1>3, <1>4, <1>5, WritesStep DEF BillingTypeOK

\* The grace period passes.
LEMMA GraceStep ==
  ASSUME IInv, GraceElapses
  PROVE  IInv'
<1> DEFINE a == [db.stripe EXCEPT !.clock = "over"]
           d == [db EXCEPT !.stripe = a]
<1>1. RowsOK(db) /\ ReservationOK(db) /\ BillingTypeOK
  BY DEF IInv
<1>2. /\ db.stripe # NULL /\ db' = d
      /\ UNCHANGED <<stripe, events, processed, worker, sweep, overrides, faults,
                     disordered, trials, paid>>
  BY DEF GraceElapses
<1>3. Account(db.stripe)
  BY <1>1, <1>2, TheAccount
<1>4. a \in Accounts /\ a.status = db.stripe.status /\ a.sub = db.stripe.sub /\ a.clock = "over"
  BY <1>3 DEF Account, Accounts
<1> HIDE DEF a
<1>5. Account(a) /\ a # NULL
  BY <1>3, <1>4, NullAssumption DEF Account
<1>6. RowsOK(d) /\ d.trial = db.trial /\ d.credit = db.credit /\ d.stripe = a
  BY <1>1, <1>5, WritesAccount
<1> HIDE DEF d
<1>7. RowsOK(db)' /\ ReservationOK(db)'
  BY <1>1, <1>2, <1>6 DEF RowsOK, ReservationOK
<1> QED  BY <1>1, <1>2, <1>5, <1>6, <1>7, WritesStep DEF BillingTypeOK

\* The guarded update of the sweep.
LEMMA SweepDropStep ==
  ASSUME IInv, SweepDrop
  PROVE  IInv'
<1>1. RowsOK(db) /\ ReservationOK(db) /\ BillingTypeOK /\ CallsOK
  BY DEF IInv
<1>2. /\ db.stripe # NULL /\ (db' = Dropped \/ db' = db)
      /\ sweep' = [pc |-> "idle", sub |-> NULL]
      /\ UNCHANGED <<stripe, events, processed, worker, overrides, faults, trials, paid>>
  BY <1>1 DEF SweepDrop, CallsOK
<1>3. disordered' \in BOOLEAN
  BY <1>1 DEF SweepDrop, BillingTypeOK
<1>4. /\ RowsOK(Dropped) /\ Dropped.trial = db.trial /\ Dropped.credit = db.credit
      /\ Dropped.stripe # NULL
  BY <1>1, <1>2, DroppedOK
<1>5. RowsOK(db)' /\ ReservationOK(db)'
  <2>1. CASE db' = Dropped
    <3> DEFINE d == Dropped
    <3>1. db' = d /\ RowsOK(d) /\ d.trial = db.trial
      BY <1>4, <2>1
    <3> HIDE DEF d
    <3> QED  BY <1>1, <1>2, <3>1 DEF RowsOK, ReservationOK
  <2>2. CASE db' = db
    BY <1>1, <1>2, <2>2 DEF RowsOK, ReservationOK
  <2> QED  BY <1>2, <2>1, <2>2
<1> QED  BY <1>1, <1>2, <1>3, <1>4, <1>5, WritesStep DEF BillingTypeOK

\* A step that leaves the rows and Stripe alone.
LEMMA CallStep ==
  ASSUME IInv, UNCHANGED <<stripe, events, processed, db, overrides, disordered, trials, paid>>,
         faults' \in 0..MaxFaults, CallsOK',
         worker' \in [Workers -> [event : 0..Len(events), matched : BOOLEAN]],
         sweep' \in [pc : {"idle", "cancel", "drop"}, sub : Subs \cup {NULL}]
  PROVE  IInv'
<1>1. BillingTypeOK' 
  BY DEF IInv, BillingTypeOK
<1>2. EventsOK' /\ CreditedOnce'
  BY DEF IInv, EventsOK, EventOK, CreditedOnce
<1>3. RowsOK(db)' /\ ReservationOK(db)'
  BY DEF IInv, RowsOK, ReservationOK
<1> QED  BY <1>1, <1>2, <1>3 DEF IInv

\* A fault stays within its bound.
LEMMA FaultBound ==
  ASSUME BillingTypeOK, faults < MaxFaults, faults' = faults + 1
  PROVE  faults' \in 0..MaxFaults
BY BillingAssumption DEF BillingTypeOK

\* An event is delivered: nobody else is at it.
LEMMA DeliverStep ==
  ASSUME IInv, NEW w \in Workers, NEW i \in 1..Len(events), Deliver(w, i)
  PROVE  IInv'
<1> DEFINE m == Resolves(events[i])
           n == [event |-> i, matched |-> m]
<1>1. BillingTypeOK /\ CallsOK /\ Len(events) \in Nat
  BY DEF IInv, BillingTypeOK
<1>2. /\ worker[w].event = 0 /\ MayStart(i) /\ worker' = [worker EXCEPT ![w] = n]
      /\ UNCHANGED <<stripe, events, processed, db, sweep, overrides, faults,
                     disordered, trials, paid>>
  BY DEF Deliver
<1>3. m \in BOOLEAN /\ (m => db.stripe # NULL)
  BY DEF Resolves
<1> HIDE DEF m
<1>4. n \in [event : 0..Len(events), matched : BOOLEAN] /\ n.event = i /\ n.matched = m
  BY <1>1, <1>3
<1> HIDE DEF n
<1>5. /\ worker \in [Workers -> [event : 0..Len(events), matched : BOOLEAN]]
      /\ worker'[w] = n /\ \A v \in Workers : v # w => worker'[v] = worker[v]
  BY <1>1, <1>2 DEF BillingTypeOK
<1>6. CallsOK'
  <2>1. ASSUME NEW v \in Workers
        PROVE  /\ worker'[v].event \notin processed
               /\ worker'[v].matched => db.stripe # NULL
    BY <1>1, <1>2, <1>3, <1>4, <1>5 DEF CallsOK, MayStart
  <2>2. ASSUME NEW v \in Workers, NEW u \in Workers, worker'[v].event = worker'[u].event,
               worker'[v].event # 0
        PROVE  v = u
    BY <1>1, <1>2, <1>4, <1>5, <2>2 DEF CallsOK, MayStart
  <2> QED  BY <1>1, <1>2, <2>1, <2>2 DEF CallsOK
<1>7. worker' \in [Workers -> [event : 0..Len(events), matched : BOOLEAN]]
  BY <1>2, <1>4, <1>5
<1> QED  BY <1>1, <1>2, <1>6, <1>7, CallStep DEF BillingTypeOK

\* The call of a worker ends.
LEMMA FinishEffect ==
  ASSUME BillingTypeOK, CallsOK, NEW w \in Workers, Finish(w)
  PROVE  /\ worker' \in [Workers -> [event : 0..Len(events), matched : BOOLEAN]]
         /\ worker'[w].event = 0 /\ worker'[w].matched = FALSE
         /\ \A v \in Workers : v # w => worker'[v] = worker[v]
<1>1. Len(events) \in Nat
  BY DEF BillingTypeOK
<1> QED  BY <1>1 DEF BillingTypeOK, Finish

\* A call fails.
LEMMA FailsStep ==
  ASSUME IInv, NEW w \in Workers, Fails(w)
  PROVE  IInv'
<1>1. BillingTypeOK /\ CallsOK /\ 0 \notin processed
  BY DEF IInv, BillingTypeOK
<1>2. /\ worker' \in [Workers -> [event : 0..Len(events), matched : BOOLEAN]]
      /\ worker'[w].event = 0 /\ worker'[w].matched = FALSE
      /\ \A v \in Workers : v # w => worker'[v] = worker[v]
  BY <1>1, FinishEffect DEF Fails
<1>3. /\ UNCHANGED <<stripe, events, processed, db, sweep, overrides, disordered, trials, paid>>
      /\ faults' \in 0..MaxFaults
  BY <1>1, FaultBound DEF Fails
<1>4. CallsOK'
  BY <1>1, <1>2, <1>3 DEF CallsOK
<1> QED  BY <1>1, <1>2, <1>3, <1>4, CallStep DEF BillingTypeOK

\* An event is applied: its credit and its mark are one commit.
LEMMA ApplyStep ==
  ASSUME IInv, NEW w \in Workers, Apply(w)
  PROVE  IInv'
<1>1. /\ BillingTypeOK /\ EventsOK /\ CallsOK /\ RowsOK(db) /\ ReservationOK(db)
      /\ CreditedOnce /\ 0 \notin processed /\ Len(events) \in Nat
      /\ worker \in [Workers -> [event : 0..Len(events), matched : BOOLEAN]]
  BY DEF IInv, BillingTypeOK
<1>2. PICK i \in 1..Len(events) : worker[w].event = i
  BY <1>1 DEF Apply
<1>3. PICK e \in EventRecords : events[i] = e
  BY <1>1 DEF BillingTypeOK
<1>4. PICK m \in BOOLEAN : worker[w].matched = m
  BY <1>1
<1>5. /\ db' = Handled(e, m) /\ processed' = processed \cup {i} /\ Finish(w)
      /\ UNCHANGED <<stripe, events, sweep, overrides, faults, trials, paid>>
  BY <1>2, <1>3, <1>4 DEF Apply
<1>6. disordered' \in BOOLEAN
  BY <1>1 DEF Apply, BillingTypeOK
<1>7. EventOK(e) /\ (m => db.stripe # NULL) /\ i \notin processed
  BY <1>1, <1>2, <1>3, <1>4 DEF EventsOK, CallsOK
<1> DEFINE d == Handled(e, m)
<1>8. /\ RowsOK(d) /\ ReservationOK(d) /\ (db.stripe # NULL => d.stripe # NULL)
      /\ d.credit = IF e.type = "topup"
                    THEN [db.credit EXCEPT ![e.about] = db.credit[e.about] + 1]
                    ELSE db.credit
  BY <1>1, <1>7, HandledOK
<1>9. db' = d
  BY <1>5
<1> HIDE DEF d
<1>10. RowsOK(db)' /\ ReservationOK(db)'
  BY <1>5, <1>8, <1>9 DEF RowsOK, ReservationOK
<1>11. /\ worker' \in [Workers -> [event : 0..Len(events), matched : BOOLEAN]]
       /\ worker'[w].event = 0 /\ worker'[w].matched = FALSE
       /\ \A v \in Workers : v # w => worker'[v] = worker[v]
  BY <1>1, <1>5, FinishEffect
<1>12. BillingTypeOK'
  BY <1>1, <1>2, <1>5, <1>6, <1>8, <1>9, <1>11 DEF BillingTypeOK, RowsOK
<1>13. EventsOK'
  BY <1>1, <1>5 DEF EventsOK, EventOK
<1>14. CallsOK'
  <2>1. ASSUME NEW v \in Workers
        PROVE  /\ worker'[v].event \notin processed'
               /\ worker'[v].matched => db'.stripe # NULL
    <3>1. CASE v = w
      BY <1>1, <1>2, <1>5, <1>11, <3>1
    <3>2. CASE v # w
      <4>1. worker'[v] = worker[v] /\ worker[v].event # i
        BY <1>1, <1>2, <1>11, <3>2 DEF CallsOK
      <4> QED  BY <1>1, <1>5, <1>8, <1>9, <4>1 DEF CallsOK
    <3> QED  BY <3>1, <3>2
  <2>2. ASSUME NEW v \in Workers, NEW u \in Workers, worker'[v].event = worker'[u].event,
               worker'[v].event # 0
        PROVE  v = u
    BY <1>1, <1>11, <2>2 DEF CallsOK
  <2>3. sweep'.pc # "idle" => sweep'.sub \in Subs /\ db'.stripe # NULL
    BY <1>1, <1>5, <1>8, <1>9 DEF CallsOK
  <2> QED  BY <2>1, <2>2, <2>3 DEF CallsOK
<1>15. CreditedOnce'
  <2> SUFFICES ASSUME NEW p \in Packs PROVE db'.credit[p] = Cardinality(CreditedBy(p)')
    BY DEF CreditedOnce, CreditedBy
  <2>1. db.credit[p] = Cardinality(CreditedBy(p)) /\ db.credit \in [Packs -> Nat]
    BY <1>1 DEF CreditedOnce, CreditedBy, BillingTypeOK, Rows
  <2>2. IsFiniteSet(CreditedBy(p)) /\ Cardinality(CreditedBy(p)) \in Nat /\ i \notin CreditedBy(p)
    BY <1>1, <1>7, CreditedFinite DEF CreditedBy
  <2>3. CASE e.about = p
    <3>1. CreditedBy(p)' = CreditedBy(p) \cup {i}
      BY <1>2, <1>3, <1>5, <2>3 DEF CreditedBy
    <3>2. Cardinality(CreditedBy(p) \cup {i}) = Cardinality(CreditedBy(p)) + 1
      BY <2>2, FS_AddElement
    <3>3. e.type = "topup"
      BY <1>7, <2>3 DEF EventOK
    <3>4. d.credit = [db.credit EXCEPT ![p] = db.credit[p] + 1]
      BY <1>8, <2>3, <3>3
    <3>5. d.credit[p] = db.credit[p] + 1
      BY <2>1, <3>4
    <3> QED  BY <1>9, <2>1, <3>1, <3>2, <3>5
  <2>4. CASE e.about # p
    <3>1. CreditedBy(p)' = CreditedBy(p)
      BY <1>2, <1>3, <1>5, <2>4 DEF CreditedBy
    <3>2. d.credit[p] = db.credit[p]
      BY <1>8, <2>1, <2>4
    <3> QED  BY <1>9, <2>1, <3>1, <3>2
  <2> QED  BY <2>3, <2>4
<1> QED  BY <1>10, <1>12, <1>13, <1>14, <1>15 DEF IInv

\* The sweep reads, cancels and gives up.
LEMMA SweepReadStep ==
  ASSUME IInv, SweepRead
  PROVE  IInv'
<1>1. BillingTypeOK /\ CallsOK /\ db \in Rows
  BY DEF IInv, BillingTypeOK
<1>2. /\ db.stripe # NULL /\ db.stripe.sub # NULL
      /\ sweep' = [pc |-> "cancel", sub |-> db.stripe.sub]
      /\ UNCHANGED <<stripe, events, processed, db, worker, overrides, faults,
                     disordered, trials, paid>>
  BY DEF SweepRead, Overdue
<1>3. db.stripe.sub \in Subs
  BY <1>1, <1>2 DEF Rows, Accounts
<1>4. sweep' \in [pc : {"idle", "cancel", "drop"}, sub : Subs \cup {NULL}] /\ sweep'.sub \in Subs
  BY <1>2, <1>3
<1>5. CallsOK'
  BY <1>1, <1>2, <1>4 DEF CallsOK
<1> QED  BY <1>1, <1>2, <1>4, <1>5, CallStep DEF BillingTypeOK

LEMMA SweepGivesUpStep ==
  ASSUME IInv, SweepGivesUp
  PROVE  IInv'
<1>1. BillingTypeOK /\ CallsOK
  BY DEF IInv
<1>2. /\ sweep' = [pc |-> "idle", sub |-> NULL] /\ faults' \in 0..MaxFaults
      /\ UNCHANGED <<stripe, events, processed, db, worker, overrides, disordered, trials, paid>>
  BY <1>1, FaultBound DEF SweepGivesUp
<1>3. CallsOK'
  BY <1>1, <1>2 DEF CallsOK
<1> QED  BY <1>1, <1>2, <1>3, CallStep DEF BillingTypeOK

LEMMA SweepCancelStep ==
  ASSUME IInv, SweepCancel
  PROVE  IInv'
<1>1. BillingTypeOK /\ CallsOK
  BY DEF IInv
<1>2. PICK s \in Subs : sweep.sub = s
  BY <1>1 DEF SweepCancel, CallsOK
<1>3. sweep.pc = "cancel" /\ sweep' = [sweep EXCEPT !.pc = "drop"]
      /\ UNCHANGED <<processed, db, worker, overrides, faults, disordered, trials, paid>>
  BY DEF SweepCancel
<1>4. /\ sweep' \in [pc : {"idle", "cancel", "drop"}, sub : Subs \cup {NULL}]
      /\ sweep'.sub = s
  BY <1>1, <1>2, <1>3 DEF BillingTypeOK
<1>5. CASE stripe[s] \in Live
  <2>1. stripe' = [stripe EXCEPT ![s] = "cancelled"] /\ events' = events \o <<Event("deleted", s, NULL)>>
    BY <1>2, <1>5 DEF SweepCancel, Turns, Emit
  <2>2. SubscriptionEnds(s)
    <3>1. Len(events) + Len(<<Event("deleted", s, NULL)>>) <= MaxEvents
      BY <1>2, <1>5 DEF SweepCancel, Turns, Emit
    <3> QED  BY <1>3, <1>5, <2>1, <3>1 DEF SubscriptionEnds, Turns, Emit
  <2>3. PICK to, new : StripeMoves(s, to, new)
    BY <2>2, SessionStep
  <2> QED  BY <1>2, <1>3, <1>4, <2>3, MovesStep DEF Rest
<1>6. CASE stripe[s] \notin Live
  <2>1. UNCHANGED <<stripe, events>>
    BY <1>2, <1>6 DEF SweepCancel
  <2>2. CallsOK'
    BY <1>1, <1>2, <1>3, <1>4, <2>1 DEF CallsOK
  <2> QED  BY <1>1, <1>3, <1>4, <2>1, <2>2, CallStep DEF BillingTypeOK
<1> QED  BY <1>5, <1>6

-----------------------------------------------------------------------------
(* The theorems.                                                           *)

\* The invariant holds at the start.
LEMMA InitInv ==
  ASSUME Init
  PROVE  IInv
<1>1. NoAccount \in Accounts
  BY DEF NoAccount, Accounts, Statuses, Tiers
<1>2. /\ events = <<>> /\ Len(events) = 0 /\ processed = {} /\ events \in Seq(EventRecords)
      /\ stripe = [s \in Subs |-> "none"] /\ trials = {} /\ paid = {}
  BY DEF Init
<1>3. /\ db \in Rows /\ db.stripe = NULL /\ db.trial = NULL /\ db.tier = "free"
      /\ db.credit = [p \in Packs |-> 0]
  BY <1>1 DEF Init, Rows, Tiers
<1>4. worker \in [Workers -> [event : 0..0, matched : BOOLEAN]]
      /\ \A w \in Workers : worker[w].event = 0 /\ worker[w].matched = FALSE
  BY DEF Init
<1>5. sweep \in [pc : {"idle", "cancel", "drop"}, sub : Subs \cup {NULL}] /\ sweep.pc = "idle"
  BY DEF Init
<1>6. BillingTypeOK
  <2>1. overrides = 0 /\ faults = 0 /\ disordered = FALSE
    BY DEF Init
  <2>2. /\ overrides \in 0..MaxOverrides /\ faults \in 0..MaxFaults
        /\ disordered \in BOOLEAN
    <3>1. overrides \in 0..MaxOverrides /\ faults \in 0..MaxFaults
      BY <2>1, BillingAssumption
    <3>2. disordered \in BOOLEAN
      BY <2>1, Zenon
    <3> QED  BY <3>1, <3>2
  <2>3. worker \in [Workers -> [event : 0..Len(events), matched : BOOLEAN]]
    BY <1>2, <1>4
  <2> QED  BY <1>2, <1>3, <1>5, <2>2, <2>3 DEF BillingTypeOK
<1>7. EventsOK
  BY <1>2 DEF EventsOK, Live
<1>8. CallsOK
  BY <1>2, <1>4, <1>5 DEF CallsOK
<1>9. RowsOK(db) /\ ReservationOK(db)
  BY <1>2, <1>3 DEF RowsOK, ReservationOK
<1>10. CreditedOnce
  <2>1. \A p \in Packs : {i \in 1..Len(events) : events[i].about = p /\ i \in processed} = {}
    BY <1>2
  <2> QED  BY <1>3, <2>1, FS_EmptySet DEF CreditedOnce
<1> QED  BY <1>6, <1>7, <1>8, <1>9, <1>10 DEF IInv

\* Every step keeps the invariant.
LEMMA StepInv ==
  ASSUME IInv, [Next]_vars
  PROVE  IInv'
<1>1. CASE StripeStep
  BY <1>1, StripeStepInv
<1>2. ASSUME NEW s \in Subs, StartCheckout(s) PROVE IInv'
  BY <1>2, StartCheckoutStep
<1>3. ASSUME NEW t \in {"free", "enterprise"}, SetTierManual(t) PROVE IInv'
  BY <1>3, SetTierStep
<1>4. CASE GrantOnboardingProTrial \/ ExpireOnboardingProTrial \/ GraceElapses
  BY <1>4, GrantStep, ExpireStep, GraceStep
<1>5. CASE WebhookStep
  BY <1>5, DeliverStep, ApplyStep, FailsStep DEF WebhookStep
<1>6. CASE SweepStep
  BY <1>6, SweepReadStep, SweepCancelStep, SweepGivesUpStep, SweepDropStep DEF SweepStep
<1>7. CASE UNCHANGED vars
  BY <1>7 DEF vars, IInv, BillingTypeOK, EventsOK, EventOK, CallsOK, RowsOK, ReservationOK,
     CreditedOnce
<1> QED  BY <1>1, <1>2, <1>3, <1>4, <1>5, <1>6, <1>7 DEF Next

\* The inductive invariant holds of every behaviour of Stripe, the webhook
\* endpoint, the service and the dunning sweep.
THEOREM Invariance == Spec => []IInv
<1>1. Init => IInv
  BY InitInv
<1>2. IInv /\ [Next]_vars => IInv'
  BY StepInv
<1> QED  BY <1>1, <1>2, PTL DEF Spec

\* Rows, events, calls and the sweep keep their types, under any delivery.
THEOREM TypeCorrect == Spec => []BillingTypeOK
<1>1. IInv => BillingTypeOK
  BY DEF IInv
<1> QED  BY <1>1, Invariance, PTL

\* A pack is credited exactly once when its event is processed
\* (runStripeWebhookIdempotent, creditTokenTopUp), however often and to however
\* many processes Stripe delivers it, and whichever attempts fail.
THEOREM PacksCreditedOnce == Spec => []CreditedOnce
<1>1. IInv => CreditedOnce
  BY DEF IInv
<1> QED  BY <1>1, Invariance, PTL

\* The tenant has at most one trial, of a session or from onboarding: the
\* reservation names it, and is released only for a session that was abandoned
\* (handleCheckoutSessionExpired).
THEOREM TrialIsOne == Spec => []OneTrial
<1>1. IInv => OneTrial
  <2> SUFFICES ASSUME IInv PROVE OneTrial
    OBVIOUS
  <2>1. \A x, y \in trials : x = y
    BY BillingAssumption DEF IInv, ReservationOK
  <2>2. trials = {} \/ \E x : trials = {x}
    BY <2>1
  <2>3. Cardinality({}) = 0 /\ \A x : Cardinality({x}) = 1
    BY FS_EmptySet, FS_Singleton
  <2>4. CASE trials = {}
    BY <2>4, <2>3 DEF OneTrial
  <2>5. ASSUME NEW x, trials = {x} PROVE OneTrial
    <3>1. Cardinality(trials) = 1
      BY <2>5, <2>3, Zenon
    <3> QED  BY <3>1 DEF OneTrial
  <2> QED  BY <2>2, <2>4, <2>5
<1> QED  BY <1>1, Invariance, PTL

\* The tier is pro only for a tenant that paid or was given a trial: an event
\* that grants access is emitted for one of these only
\* (resolveSubscriptionOutcome).
THEOREM TierIsPaid == Spec => []NoUnpaidTier
<1>1. IInv => NoUnpaidTier
  BY DEF IInv, RowsOK, NoUnpaidTier
<1> QED  BY <1>1, Invariance, PTL

\* A primary account that is past due has its clock and its subscription, in
\* whatever order invoice and update arrive (buildSubscriptionUpdateFields,
\* handleNormalizedEvent), so that runDunningSweep ends it.
THEOREM PastDueTimed == Spec => []PastDueIsTimed
<1>1. IInv => PastDueIsTimed
  BY DEF IInv, RowsOK, PastDueIsTimed, Live
<1> QED  BY <1>1, Invariance, PTL

-----------------------------------------------------------------------------
(* Convergence.  As long as events are applied in their order, and by a     *)
(* match that is still right, the log of events is enough to tell what the  *)
(* account says: sessions follow each other, the last event that sets a     *)
(* status (an anchor) agrees with Stripe, and once every anchor is applied  *)
(* the account has the status of the last one.  The sweep may drop the      *)
(* account earlier, but then the event of the end is still to come.         *)

\* Events of a subscription; those among them that set its status, and what
\* they set.
SubTypes == {"created", "updated", "deleted", "paid", "failed", "completed"}
IsAnchor(e) == e.type \in {"created", "updated", "deleted"}
Says(e) == IF e.type = "deleted" THEN "cancelled" ELSE e.status
Began == Live \cup {"cancelled"}

LastAnchor(a) ==
  /\ a \in 1..Len(events) /\ IsAnchor(events[a])
  /\ \A i \in 1..Len(events) : IsAnchor(events[i]) => i <= a

NoAnchor == \A i \in 1..Len(events) : ~ IsAnchor(events[i])

NoneUnpaid == \A s \in Subs : stripe[s] # "unpaid"

\* Stripe and its log: one session at a time, an end is the last word on its
\* subscription, and an invoice event stands beside the update it belongs to.
Alone == \A s, t \in Subs : stripe[s] \notin Over /\ stripe[t] \notin Over => s = t

Reported(e) ==
  /\ e.type \in SubTypes => e.about \in Subs /\ stripe[e.about] \in Began \cup {"incomplete"}
  /\ e.type \in {"paid", "failed", "completed"} => stripe[e.about] \in Began
  /\ e.type \in {"created", "updated"} /\ e.status \in Live => stripe[e.about] \in Began
  /\ e.type = "deleted" => stripe[e.about] = "cancelled"

DeletedLast ==
  \A i, j \in 1..Len(events) :
    i < j /\ events[i].type = "deleted" => events[j].about # events[i].about

DeletedTold ==
  \A s \in Subs : stripe[s] = "cancelled" =>
    \E i \in 1..Len(events) : events[i].type = "deleted" /\ events[i].about = s

InTurn ==
  \A i, j \in 1..Len(events) :
    i < j /\ events[i].type \in SubTypes /\ events[j].type \in SubTypes
      /\ events[i].about # events[j].about =>
    \E d \in 1..Len(events) : /\ i <= d /\ d < j /\ events[d].type = "deleted"
                              /\ events[d].about = events[i].about

Paired ==
  \A i \in 1..Len(events) :
    /\ events[i].type = "paid" =>
         i - 1 \in 1..Len(events) /\ events[i - 1].type = "updated" /\ events[i - 1].status = "active"
    /\ events[i].type = "failed" => i + 1 \in 1..Len(events) /\ IsAnchor(events[i + 1])

\* The status of the subscription that is live, if any, is e's.
Agrees(e) ==
  IF LiveSubs = {} THEN Says(e) \notin Live
  ELSE LiveSubs = {e.about} /\ stripe[e.about] = Says(e)

Reflected ==
  \/ NoAnchor /\ LiveSubs = {}
  \/ \E a \in 1..Len(events) : LastAnchor(a) /\ Agrees(events[a])

LogOK ==
  /\ Alone /\ (\A i \in 1..Len(events) : Reported(events[i]))
  /\ DeletedLast /\ DeletedTold /\ InTurn /\ Paired /\ Reflected

\* The rows: the processed events are the first ones, the account names a
\* subscription of theirs that they have not ended, and it has the status of
\* the last anchor when that is processed.
Prefix == \A i \in processed : \A j \in 1..Len(events) : j < i => j \in processed

Opened == \A s \in Subs : stripe[s] # "none" => db.stripe # NULL

SubKnown ==
  db.stripe # NULL /\ db.stripe.sub # NULL =>
    /\ \E i \in processed : events[i].type \in SubTypes /\ events[i].about = db.stripe.sub
    /\ \A i \in processed : ~ (events[i].type = "deleted" /\ events[i].about = db.stripe.sub)
    /\ db.stripe.status \in Live => stripe[db.stripe.sub] \in Began

SweepKnown ==
  /\ sweep.pc # "idle" => stripe[sweep.sub] \in Began
  /\ sweep.pc = "drop" => stripe[sweep.sub] = "cancelled"

AllTold == \A i \in 1..Len(events) : IsAnchor(events[i]) => i \in processed

StatusTold ==
  db.stripe # NULL /\ AllTold =>
    \/ NoAnchor /\ db.stripe.status = "none"
    \/ \E a \in 1..Len(events) : LastAnchor(a) /\ db.stripe.status = Says(events[a])

Ordered == LogOK /\ Prefix /\ SubKnown /\ SweepKnown /\ StatusTold

ConvInv == Opened /\ (disordered = FALSE /\ NoneUnpaid => Ordered)

\* New events go after the old ones.
LEMMA EmitIndex ==
  ASSUME BillingTypeOK, NEW new \in Seq(EventRecords), events' = events \o new
  PROVE  /\ Len(events) \in Nat /\ Len(new) \in Nat /\ Len(events') = Len(events) + Len(new)
         /\ \A i \in 1..Len(events) : i \in 1..Len(events') /\ events'[i] = events[i]
         /\ \A k \in 1..Len(new) : /\ Len(events) + k \in 1..Len(events')
                                   /\ events'[Len(events) + k] = new[k]
         /\ \A i \in 1..Len(events') : i \in 1..Len(events) \/ \E k \in 1..Len(new) : i = Len(events) + k
<1>1. events \in Seq(EventRecords) /\ Len(events) \in Nat /\ Len(new) \in Nat
  BY DEF BillingTypeOK
<1>2. Len(events') = Len(events) + Len(new)
  BY <1>1
<1>3. ASSUME NEW k \in 1..Len(new)
      PROVE  Len(events) + k \in 1..Len(events') /\ events'[Len(events) + k] = new[k]
  BY <1>1, <1>2
<1>4. ASSUME NEW i \in 1..Len(events'), i \notin 1..Len(events)
      PROVE  \E k \in 1..Len(new) : i = Len(events) + k
  <2>1. i - Len(events) \in 1..Len(new) /\ i = Len(events) + (i - Len(events))
    BY <1>1, <1>2, <1>4
  <2> QED BY <2>1
<1> QED BY <1>1, <1>2, <1>3, <1>4, EmitEffect

\* What Stripe's next events have to fit: NewEvents says it of the sequence,
\* StatesGo of the sessions.
StatesGo ==
  \A t \in Subs :
    /\ stripe[t] \in Began => stripe'[t] \in Began
    /\ stripe[t] = "incomplete" => stripe'[t] \in Began \cup {"incomplete"}
    /\ stripe[t] = "cancelled" => stripe'[t] = "cancelled"

NewEvents(new) ==
  /\ \A k \in 1..Len(new) : Reported(new[k])'
  /\ \A k \in 1..Len(new), i \in 1..Len(events) :
       events[i].type = "deleted" => new[k].about # events[i].about
  /\ \A k \in 1..Len(new) : new[k].type = "deleted" => k = Len(new)
  /\ \A t \in Subs : stripe'[t] = "cancelled" =>
       stripe[t] = "cancelled" \/ \E k \in 1..Len(new) : new[k].type = "deleted" /\ new[k].about = t
  /\ \A k \in 1..Len(new), t \in Subs :
       new[k].type \in SubTypes /\ t # new[k].about => stripe[t] \in Over
  /\ \A k, l \in 1..Len(new) : new[k].about = new[l].about
  /\ \A k \in 1..Len(new) :
       /\ new[k].type = "paid" =>
            k - 1 \in 1..Len(new) /\ new[k - 1].type = "updated" /\ new[k - 1].status = "active"
       /\ new[k].type = "failed" => k + 1 \in 1..Len(new) /\ IsAnchor(new[k + 1])
  /\ \/ /\ \A k \in 1..Len(new) : ~ IsAnchor(new[k])
        /\ \A t \in Subs : stripe[t] \in Live \/ stripe'[t] \in Live => stripe'[t] = stripe[t]
     \/ \E a \in 1..Len(new) : /\ IsAnchor(new[a]) /\ Agrees(new[a])'
                               /\ \A k \in 1..Len(new) : IsAnchor(new[k]) => k <= a

LEMMA LogGrows ==
  ASSUME BillingTypeOK, LogOK, NEW new \in Seq(EventRecords), events' = events \o new,
         Alone', StatesGo, NewEvents(new)
  PROVE  LogOK'
<1>0. PICK n \in Nat, m \in Nat : n = Len(events) /\ m = Len(new)
  BY EmitIndex
<1>1. /\ n = Len(events) /\ m = Len(new) /\ Len(events') = n + m
      /\ \A i \in 1..n : i \in 1..Len(events') /\ events'[i] = events[i]
      /\ \A k \in 1..m : n + k \in 1..Len(events') /\ events'[n + k] = new[k]
      /\ \A i \in 1..Len(events') : i \in 1..n \/ \E k \in 1..m : i = n + k
  BY <1>0, EmitIndex
<1>2. /\ \A i \in 1..n : Reported(events[i])
      /\ DeletedLast /\ DeletedTold /\ InTurn /\ Paired /\ Reflected
  BY <1>1 DEF LogOK
<1>3. ASSUME NEW i \in 1..Len(events') PROVE Reported(events[i])'
  <2>1. CASE i \in 1..n
    <3>1. Reported(events[i]) /\ events'[i] = events[i]
      BY <1>1, <1>2, <2>1
    <3> QED BY <3>1 DEF Reported, StatesGo, SubTypes, Began
  <2>2. ASSUME NEW k \in 1..m, i = n + k PROVE Reported(events[i])'
    <3>1. Reported(new[k])' /\ events'[i] = new[k]
      BY <1>1, <2>2 DEF NewEvents
    <3> QED BY <3>1 DEF Reported
  <2> QED BY <1>1, <2>1, <2>2
<1>4. DeletedLast'
  <2> SUFFICES ASSUME NEW i \in 1..Len(events'), NEW j \in 1..Len(events'), i < j,
                      events'[i].type = "deleted"
               PROVE  events'[j].about # events'[i].about
    BY DEF DeletedLast
  <2>1. CASE i \in 1..n /\ j \in 1..n
    BY <1>1, <1>2, <2>1 DEF DeletedLast
  <2>2. ASSUME i \in 1..n, NEW k \in 1..m, j = n + k PROVE events'[j].about # events'[i].about
    BY <1>1, <2>2 DEF NewEvents
  <2>3. ASSUME NEW k \in 1..m, i = n + k PROVE FALSE
    <3>1. k = m
      BY <1>1, <2>3 DEF NewEvents
    <3> QED BY <1>1, <2>3, <3>1
  <2> QED BY <1>1, <2>1, <2>2, <2>3
<1>5. DeletedTold'
  <2> SUFFICES ASSUME NEW t \in Subs, stripe'[t] = "cancelled"
               PROVE  \E i \in 1..Len(events') : events'[i].type = "deleted" /\ events'[i].about = t
    BY DEF DeletedTold
  <2>1. CASE stripe[t] = "cancelled"
    BY <1>1, <1>2, <2>1 DEF DeletedTold
  <2>2. ASSUME NEW k \in 1..m, new[k].type = "deleted", new[k].about = t
        PROVE  \E i \in 1..Len(events') : events'[i].type = "deleted" /\ events'[i].about = t
    <3>1. n + k \in 1..Len(events') /\ events'[n + k] = new[k]
      BY <1>1
    <3> QED BY <2>2, <3>1
  <2> QED BY <1>1, <2>1, <2>2 DEF NewEvents
<1>6. InTurn'
  <2> SUFFICES ASSUME NEW i \in 1..Len(events'), NEW j \in 1..Len(events'), i < j,
                      events'[i].type \in SubTypes, events'[j].type \in SubTypes,
                      events'[i].about # events'[j].about
               PROVE  \E d \in 1..Len(events') : /\ i <= d /\ d < j /\ events'[d].type = "deleted"
                                                 /\ events'[d].about = events'[i].about
    BY ZenonT(40) DEF InTurn
  <2>1. CASE i \in 1..n /\ j \in 1..n
    <3>1. PICK d \in 1..n : /\ i <= d /\ d < j /\ events[d].type = "deleted"
                            /\ events[d].about = events[i].about
      BY <1>1, <1>2, <2>1 DEF InTurn
    <3> QED BY <1>1, <2>1, <3>1
  <2>2. ASSUME i \in 1..n, NEW k \in 1..m, j = n + k
        PROVE  \E d \in 1..Len(events') : /\ i <= d /\ d < j /\ events'[d].type = "deleted"
                                          /\ events'[d].about = events'[i].about
    <3>1. /\ events'[i] = events[i] /\ events'[j] = new[k] /\ Reported(events[i])
          /\ events[i].about \in Subs
      BY <1>1, <1>2, <2>2 DEF Reported
    <3>2. stripe[events[i].about] \in Over /\ stripe[events[i].about] \in Began \cup {"incomplete"}
      BY <1>1, <2>2, <3>1 DEF NewEvents, Reported
    <3>3. stripe[events[i].about] = "cancelled"
      BY <3>2 DEF Over, Began, Live
    <3>4. PICK d \in 1..n : events[d].type = "deleted" /\ events[d].about = events[i].about
      BY <1>1, <1>2, <3>1, <3>3 DEF DeletedTold
    <3>5. i <= d
      <4>1. ~(d < i)
        BY <1>1, <1>2, <2>2, <3>4 DEF DeletedLast
      <4> QED BY <1>1, <2>2, <4>1
    <3>6. d < j
      BY <1>1, <2>2
    <3> QED BY <1>1, <3>1, <3>4, <3>5, <3>6
  <2>3. ASSUME NEW k \in 1..m, i = n + k PROVE FALSE
    <3>1. PICK l \in 1..m : j = n + l
      BY <1>1, <2>3
    <3> QED BY <1>1, <2>3, <3>1 DEF NewEvents
  <2> QED BY <1>1, <2>1, <2>2, <2>3
<1>7. Paired'
  <2> SUFFICES ASSUME NEW i \in 1..Len(events')
               PROVE  /\ events'[i].type = "paid" =>
                           /\ i - 1 \in 1..Len(events') /\ events'[i - 1].type = "updated"
                           /\ events'[i - 1].status = "active"
                      /\ events'[i].type = "failed" => i + 1 \in 1..Len(events') /\ IsAnchor(events'[i + 1])
    BY DEF Paired, IsAnchor
  <2>1. CASE i \in 1..n
    BY <1>1, <1>2, <2>1 DEF Paired
  <2>2. ASSUME NEW k \in 1..m, i = n + k
        PROVE  /\ events'[i].type = "paid" =>
                    /\ i - 1 \in 1..Len(events') /\ events'[i - 1].type = "updated"
                    /\ events'[i - 1].status = "active"
               /\ events'[i].type = "failed" => i + 1 \in 1..Len(events') /\ IsAnchor(events'[i + 1])
    <3>1. events'[i] = new[k] /\ i - 1 = n + (k - 1) /\ i + 1 = n + (k + 1)
      <4>1. \A l \in 1..m : events'[n + l] = new[l]
        BY <1>1
      <4>2. events'[i] = new[k]
        BY <2>2, <4>1
      <4> QED BY <1>0, <2>2, <4>2
    <3>2. /\ new[k].type = "paid" =>
               k - 1 \in 1..m /\ new[k - 1].type = "updated" /\ new[k - 1].status = "active"
          /\ new[k].type = "failed" => k + 1 \in 1..m /\ IsAnchor(new[k + 1])
      BY <1>1 DEF NewEvents
    <3>3. ASSUME new[k].type = "paid"
          PROVE  /\ i - 1 \in 1..Len(events') /\ events'[i - 1].type = "updated"
                 /\ events'[i - 1].status = "active"
      <4>1. n + (k - 1) \in 1..Len(events') /\ events'[n + (k - 1)] = new[k - 1]
        BY <1>1, <3>2, <3>3
      <4> QED BY <3>1, <3>2, <3>3, <4>1
    <3>4. ASSUME new[k].type = "failed"
          PROVE  i + 1 \in 1..Len(events') /\ IsAnchor(events'[i + 1])
      <4>1. n + (k + 1) \in 1..Len(events') /\ events'[n + (k + 1)] = new[k + 1]
        BY <1>1, <3>2, <3>4
      <4> QED BY <3>1, <3>2, <3>4, <4>1
    <3> QED BY <3>1, <3>3, <3>4
  <2> QED BY <1>1, <2>1, <2>2
<1>8. Reflected'
  <2>1. CASE /\ \A k \in 1..m : ~ IsAnchor(new[k])
             /\ \A t \in Subs : stripe[t] \in Live \/ stripe'[t] \in Live => stripe'[t] = stripe[t]
    <3>1. LiveSubs' = LiveSubs
      BY <2>1 DEF LiveSubs
    <3>2. CASE NoAnchor /\ LiveSubs = {}
      <4>1. ASSUME NEW i \in 1..Len(events') PROVE ~ IsAnchor(events'[i])
        <5>1. CASE i \in 1..n
          <6>1. events'[i] = events[i] /\ i \in 1..Len(events)
            BY <1>1, <5>1
          <6> QED BY <3>2, <6>1 DEF NoAnchor
        <5>2. ASSUME NEW k \in 1..m, i = n + k PROVE ~ IsAnchor(events'[i])
          <6>1. events'[i] = new[k]
            BY <1>1, <5>2
          <6> QED BY <2>1, <6>1
        <5> QED BY <1>1, <5>1, <5>2
      <4>2. NoAnchor'
        BY <4>1 DEF NoAnchor, IsAnchor
      <4> QED BY <3>1, <3>2, <4>2 DEF Reflected
    <3>3. CASE \E a \in 1..n : LastAnchor(a) /\ Agrees(events[a])
      <4>1. PICK a \in 1..n : LastAnchor(a) /\ Agrees(events[a])
        BY <3>3
      <4>2. events'[a] = events[a] /\ a \in 1..Len(events')
        BY <1>1
      <4>3. LastAnchor(a)'
        <5>1. ASSUME NEW i \in 1..Len(events'), IsAnchor(events'[i]) PROVE i <= a
          <6>1. i \in 1..n /\ events'[i] = events[i]
            BY <1>1, <2>1, <5>1
          <6> QED BY <1>1, <4>1, <5>1, <6>1 DEF LastAnchor
        <5>2. IsAnchor(events'[a])
          BY <4>1, <4>2 DEF LastAnchor
        <5> QED BY <4>2, <5>1, <5>2 DEF LastAnchor, IsAnchor
      <4>4. Agrees(events[a])'
        BY <2>1, <3>1, <4>1, <4>2 DEF Agrees, Says, LiveSubs
      <4> QED BY <4>2, <4>3, <4>4 DEF Reflected
    <3> QED BY <1>1, <1>2, <3>2, <3>3 DEF Reflected
  <2>2. ASSUME NEW a \in 1..m, IsAnchor(new[a]), Agrees(new[a])',
               \A k \in 1..m : IsAnchor(new[k]) => k <= a
        PROVE  Reflected'
    <3>1. PICK b \in 1..Len(events') : b = n + a /\ events'[b] = new[a]
      BY <1>1
    <3>2. ASSUME NEW i \in 1..Len(events'), IsAnchor(events'[i]) PROVE i <= b
      BY <1>0, <1>1, <2>2, <3>1, <3>2
    <3>3. LastAnchor(b)'
      <4>1. IsAnchor(events'[b])
        BY <1>1, <2>2, <3>1
      <4> QED BY <3>1, <3>2, <4>1 DEF LastAnchor, IsAnchor
    <3>4. Agrees(events[b])'
      BY <2>2, <3>1 DEF Agrees, Says
    <3> QED BY <3>1, <3>3, <3>4 DEF Reflected
  <2> QED BY <1>1, <2>1, <2>2 DEF NewEvents
<1> QED BY <1>3, <1>4, <1>5, <1>6, <1>7, <1>8 DEF LogOK

\* One session moves on: it is the only one that is not over.
LEMMA SessionMoves ==
  ASSUME BillingTypeOK, Alone, NEW s \in Subs, stripe[s] \notin Over, NEW to,
         stripe' = [stripe EXCEPT ![s] = to],
         stripe[s] \in Live => to \in Began,
         stripe[s] = "incomplete" => to \in Live
  PROVE  /\ stripe'[s] = to /\ StatesGo /\ Alone'
         /\ \A t \in Subs \ {s} : stripe[t] \in Over /\ stripe'[t] = stripe[t]
         /\ LiveSubs' = (IF to \in Live THEN {s} ELSE {})
<1>1. stripe'[s] = to /\ \A t \in Subs \ {s} : stripe'[t] = stripe[t]
  BY DEF BillingTypeOK
<1>2. \A t \in Subs \ {s} : stripe[t] \in Over
  BY DEF Alone
<1>3. StatesGo
  BY <1>1 DEF StatesGo, Began, Live, Over
<1>4. Alone'
  BY <1>1, <1>2 DEF Alone
<1>5. \A t \in Subs \ {s} : stripe'[t] \notin Live
  BY <1>1, <1>2 DEF Over, Live
<1>6. LiveSubs' = (IF to \in Live THEN {s} ELSE {})
  BY <1>1, <1>5 DEF LiveSubs
<1> QED BY <1>1, <1>2, <1>3, <1>4, <1>6

\* What an event may say when its session comes to a state.
Fits(e, to) ==
  /\ e.type \in SubTypes => to \in Began \cup {"incomplete"}
  /\ e.type \in {"paid", "failed", "completed"} => to \in Began
  /\ e.type \in {"created", "updated"} /\ e.status \in Live => to \in Began
  /\ e.type = "deleted" => to = "cancelled"

LEMMA SessionLog ==
  ASSUME BillingTypeOK, LogOK, NEW s \in Subs, stripe[s] \notin Over, NEW to,
         stripe' = [stripe EXCEPT ![s] = to],
         stripe[s] \in Live => to \in Began,
         stripe[s] = "incomplete" => to \in Live,
         NEW new \in Seq(EventRecords), events' = events \o new,
         \A k \in 1..Len(new) : new[k].about = s /\ Fits(new[k], to),
         \A k \in 1..Len(new) : new[k].type = "deleted" => k = Len(new),
         to = "cancelled" => \E k \in 1..Len(new) : new[k].type = "deleted",
         \A k \in 1..Len(new) :
           /\ new[k].type = "paid" =>
                k - 1 \in 1..Len(new) /\ new[k - 1].type = "updated" /\ new[k - 1].status = "active"
           /\ new[k].type = "failed" => k + 1 \in 1..Len(new) /\ IsAnchor(new[k + 1]),
         \/ (\A k \in 1..Len(new) : ~ IsAnchor(new[k])) /\ to \notin Live /\ stripe[s] \notin Live
         \/ \E a \in 1..Len(new) : /\ IsAnchor(new[a])
                                   /\ IF to \in Live THEN Says(new[a]) = to ELSE Says(new[a]) \notin Live
                                   /\ \A k \in 1..Len(new) : IsAnchor(new[k]) => k <= a
  PROVE  LogOK' /\ StatesGo
<1>1. /\ stripe'[s] = to /\ StatesGo /\ Alone'
      /\ \A t \in Subs \ {s} : stripe[t] \in Over /\ stripe'[t] = stripe[t]
      /\ LiveSubs' = (IF to \in Live THEN {s} ELSE {})
  BY SessionMoves DEF LogOK
<1>2. \A k \in 1..Len(new) : Reported(new[k])'
  BY <1>1 DEF Reported, Fits
<1>3. ASSUME NEW k \in 1..Len(new), NEW i \in 1..Len(events), events[i].type = "deleted"
      PROVE  new[k].about # events[i].about
  <2>1. stripe[events[i].about] = "cancelled"
    BY <1>3 DEF LogOK, Reported
  <2> QED BY <2>1 DEF Over
<1>4. ASSUME NEW t \in Subs, stripe'[t] = "cancelled"
      PROVE  stripe[t] = "cancelled" \/ \E k \in 1..Len(new) : new[k].type = "deleted" /\ new[k].about = t
  BY <1>1, <1>4
<1>5. /\ \A k \in 1..Len(new), t \in Subs :
           new[k].type \in SubTypes /\ t # new[k].about => stripe[t] \in Over
      /\ \A k, l \in 1..Len(new) : new[k].about = new[l].about
  BY <1>1
<1>6. \/ /\ \A k \in 1..Len(new) : ~ IsAnchor(new[k])
         /\ \A t \in Subs : stripe[t] \in Live \/ stripe'[t] \in Live => stripe'[t] = stripe[t]
      \/ \E a \in 1..Len(new) : /\ IsAnchor(new[a]) /\ Agrees(new[a])'
                                /\ \A k \in 1..Len(new) : IsAnchor(new[k]) => k <= a
  <2>1. CASE (\A k \in 1..Len(new) : ~ IsAnchor(new[k])) /\ to \notin Live /\ stripe[s] \notin Live
    BY <1>1, <2>1
  <2>2. ASSUME NEW a \in 1..Len(new), IsAnchor(new[a]),
               IF to \in Live THEN Says(new[a]) = to ELSE Says(new[a]) \notin Live,
               \A k \in 1..Len(new) : IsAnchor(new[k]) => k <= a
        PROVE  \E b \in 1..Len(new) : /\ IsAnchor(new[b]) /\ Agrees(new[b])'
                                      /\ \A k \in 1..Len(new) : IsAnchor(new[k]) => k <= b
    <3>1. Agrees(new[a])'
      BY <1>1, <2>2 DEF Agrees, Says
    <3> QED BY <2>2, <3>1
  <2> QED BY <2>1, <2>2
<1>7. NewEvents(new)
  BY <1>2, <1>3, <1>4, <1>5, <1>6 DEF NewEvents
<1> QED BY <1>1, <1>7, LogGrows

\* The rows while Stripe goes on.
LEMMA RowsWait ==
  ASSUME BillingTypeOK, SubKnown, StatusTold, Prefix, StatesGo,
         NEW new \in Seq(EventRecords), events' = events \o new, UNCHANGED <<processed, db>>
  PROVE  Prefix' /\ SubKnown' /\ StatusTold'
<1>1. /\ Len(events) \in Nat /\ processed \subseteq 1..Len(events)
      /\ \A i \in 1..Len(events) : i \in 1..Len(events') /\ events'[i] = events[i]
      /\ Len(events') = Len(events) + Len(new) /\ Len(new) \in Nat
  BY EmitIndex DEF BillingTypeOK
<1>2. Prefix'
  BY <1>1 DEF Prefix
<1>3. SubKnown'
  <2>1. \A i \in processed : events'[i] = events[i]
    BY <1>1
  <2>2. db.stripe # NULL /\ db.stripe.sub # NULL => db.stripe.sub \in Subs
    BY DEF BillingTypeOK, Rows, Accounts
  <2> QED BY <2>1, <2>2 DEF SubKnown, StatesGo
<1>4. StatusTold'
  <2> SUFFICES ASSUME db.stripe # NULL, AllTold'
               PROVE  \/ NoAnchor' /\ db.stripe.status = "none"
                      \/ \E a \in 1..Len(events') : LastAnchor(a)' /\ db.stripe.status = Says(events'[a])
    BY DEF StatusTold, Says
  <2>1. \A i \in 1..Len(events') : IsAnchor(events'[i]) => i \in 1..Len(events)
    BY <1>1 DEF AllTold, IsAnchor
  <2>2. AllTold
    BY <1>1 DEF AllTold, IsAnchor
  <2>3. CASE NoAnchor /\ db.stripe.status = "none"
    BY <1>1, <2>1, <2>3 DEF NoAnchor, IsAnchor
  <2>4. ASSUME NEW a \in 1..Len(events), LastAnchor(a), db.stripe.status = Says(events[a])
        PROVE  \E b \in 1..Len(events') : LastAnchor(b)' /\ db.stripe.status = Says(events'[b])
    <3>1. a \in 1..Len(events') /\ events'[a] = events[a]
      BY <1>1
    <3>2. ASSUME NEW i \in 1..Len(events'), IsAnchor(events'[i]) PROVE i <= a
      <4>1. i \in 1..Len(events) /\ events'[i] = events[i]
        BY <1>1, <2>1, <3>2
      <4> QED BY <2>4, <3>2, <4>1 DEF LastAnchor
    <3>3. IsAnchor(events'[a])
      BY <2>4, <3>1 DEF LastAnchor
    <3>4. LastAnchor(a)'
      BY <3>1, <3>2, <3>3 DEF LastAnchor, IsAnchor
    <3> QED BY <2>4, <3>1, <3>4
  <2> QED BY <2>2, <2>3, <2>4 DEF StatusTold
<1> QED BY <1>2, <1>3, <1>4

\* The log after a step of Stripe.
LogGoes ==
  \E new \in Seq(EventRecords) : events' = events \o new /\ LogOK' /\ StatesGo

\* The last status that the events give, if any, is the session's.
Tells(e, to) ==
  IsAnchor(e) /\ IF to \in Live THEN Says(e) = to ELSE Says(e) \notin Live

LEMMA OneEvent ==
  ASSUME BillingTypeOK, LogOK, NEW s \in Subs, stripe[s] \notin Over, NEW to,
         stripe' = [stripe EXCEPT ![s] = to],
         stripe[s] \in Live => to \in Began, stripe[s] = "incomplete" => to \in Live,
         NEW a \in EventRecords, events' = events \o <<a>>, a.about = s, Fits(a, to),
         a.type \notin {"paid", "failed"}, to = "cancelled" => a.type = "deleted",
         \/ ~ IsAnchor(a) /\ to \notin Live /\ stripe[s] \notin Live
         \/ Tells(a, to)
  PROVE  LogGoes
<1>1. /\ <<a>> \in Seq(EventRecords) /\ Len(<<a>>) = 1
      /\ \A k \in 1..Len(<<a>>) : k = 1 /\ <<a>>[k] = a
  BY EventSeqs
<1>2. PICK new \in Seq(EventRecords) : new = <<a>>
  BY <1>1
<1>3. Len(new) = 1 /\ new[1] = a /\ (\A k \in 1..Len(new) : k = 1 /\ new[k] = a) /\ events' = events \o new
  BY <1>1, <1>2
<1>4. \/ (\A k \in 1..Len(new) : ~ IsAnchor(new[k])) /\ to \notin Live /\ stripe[s] \notin Live
      \/ \E b \in 1..Len(new) : /\ IsAnchor(new[b])
                                /\ IF to \in Live THEN Says(new[b]) = to ELSE Says(new[b]) \notin Live
                                /\ \A k \in 1..Len(new) : IsAnchor(new[k]) => k <= b
  <2>1. CASE Tells(a, to)
    <3>1. 1 \in 1..Len(new) /\ IsAnchor(new[1])
          /\ (IF to \in Live THEN Says(new[1]) = to ELSE Says(new[1]) \notin Live)
      BY <1>3, <2>1 DEF Tells
    <3>2. \A k \in 1..Len(new) : k <= 1
      BY <1>3
    <3> QED BY <3>1, <3>2
  <2> QED BY <1>3, <2>1
<1>5. LogOK' /\ StatesGo
  <2>1. \A k \in 1..Len(new) : new[k].about = s /\ Fits(new[k], to)
    BY <1>3
  <2>2. /\ \A k \in 1..Len(new) : new[k].type = "deleted" => k = Len(new)
        /\ to = "cancelled" => \E k \in 1..Len(new) : new[k].type = "deleted"
        /\ \A k \in 1..Len(new) : new[k].type # "paid" /\ new[k].type # "failed"
    BY <1>3
  <2> QED BY <1>3, <1>4, <2>1, <2>2, SessionLog
<1> QED BY <1>3, <1>5 DEF LogGoes

\* An update and an invoice event, in either order, or the creation and the end
\* of the checkout.
LEMMA TwoEvents ==
  ASSUME BillingTypeOK, LogOK, NEW s \in Subs, stripe[s] \notin Over, NEW to \in Live,
         stripe' = [stripe EXCEPT ![s] = to],
         NEW a \in EventRecords, NEW b \in EventRecords, events' = events \o <<a, b>>,
         a.about = s, b.about = s, Fits(a, to), Fits(b, to),
         a.type # "deleted", b.type # "deleted", a.type # "paid", b.type # "failed",
         b.type = "paid" => a.type = "updated" /\ a.status = "active",
         a.type = "failed" => IsAnchor(b),
         \/ Tells(a, to) /\ ~ IsAnchor(b)
         \/ Tells(b, to)
  PROVE  LogGoes
<1>1. /\ <<a, b>> \in Seq(EventRecords) /\ Len(<<a, b>>) = 2
      /\ <<a, b>>[1] = a /\ <<a, b>>[2] = b
  BY EventSeqs
<1>2. PICK new \in Seq(EventRecords) : new = <<a, b>>
  BY <1>1
<1>3. /\ Len(new) = 2 /\ new[1] = a /\ new[2] = b /\ events' = events \o new
      /\ \A k \in 1..Len(new) : k = 1 \/ k = 2
  BY <1>1, <1>2
<1>4. \E c \in 1..Len(new) : /\ IsAnchor(new[c])
                             /\ IF to \in Live THEN Says(new[c]) = to ELSE Says(new[c]) \notin Live
                             /\ \A k \in 1..Len(new) : IsAnchor(new[k]) => k <= c
  <2>1. CASE Tells(b, to)
    <3>1. 2 \in 1..Len(new) /\ IsAnchor(new[2])
          /\ (IF to \in Live THEN Says(new[2]) = to ELSE Says(new[2]) \notin Live)
      BY <1>3, <2>1 DEF Tells
    <3>2. \A k \in 1..Len(new) : k <= 2
      BY <1>3
    <3> QED BY <3>1, <3>2
  <2>2. CASE Tells(a, to) /\ ~ IsAnchor(b)
    <3>1. 1 \in 1..Len(new) /\ IsAnchor(new[1])
          /\ (IF to \in Live THEN Says(new[1]) = to ELSE Says(new[1]) \notin Live)
      BY <1>3, <2>2 DEF Tells
    <3>2. \A k \in 1..Len(new) : IsAnchor(new[k]) => k <= 1
      BY <1>3, <2>2
    <3> QED BY <3>1, <3>2
  <2> QED BY <2>1, <2>2
<1>5. LogOK' /\ StatesGo
  <2>1. \A k \in 1..Len(new) : new[k].about = s /\ Fits(new[k], to)
    BY <1>3
  <2>2. /\ \A k \in 1..Len(new) : new[k].type # "deleted"
        /\ to # "cancelled" /\ to \in Began
    BY <1>3 DEF Began, Live
  <2>3. ASSUME NEW k \in 1..Len(new)
        PROVE  /\ new[k].type = "paid" =>
                    k - 1 \in 1..Len(new) /\ new[k - 1].type = "updated" /\ new[k - 1].status = "active"
               /\ new[k].type = "failed" => k + 1 \in 1..Len(new) /\ IsAnchor(new[k + 1])
    <3>1. CASE k = 1
      BY <1>3, <3>1
    <3>2. CASE k = 2
      BY <1>3, <3>2
    <3> QED BY <1>3, <3>1, <3>2
  <2> QED BY <1>3, <1>4, <2>1, <2>2, <2>3, SessionLog
<1> QED BY <1>3, <1>5 DEF LogGoes

\* The first payment: an update, the invoice and the end of the checkout.
LEMMA ThreeEvents ==
  ASSUME BillingTypeOK, LogOK, NEW s \in Subs, stripe[s] \notin Over,
         stripe' = [stripe EXCEPT ![s] = "active"],
         NEW a \in EventRecords, NEW b \in EventRecords, NEW c \in EventRecords,
         events' = events \o <<a, b, c>>,
         a.about = s, b.about = s, c.about = s,
         a.type = "updated", a.status = "active", b.type = "paid", c.type = "completed"
  PROVE  LogGoes
<1>1. /\ <<a, b, c>> \in Seq(EventRecords) /\ Len(<<a, b, c>>) = 3
      /\ <<a, b, c>>[1] = a /\ <<a, b, c>>[2] = b /\ <<a, b, c>>[3] = c
  BY EventSeqs
<1>2. PICK new \in Seq(EventRecords) : new = <<a, b, c>>
  BY <1>1
<1>3. /\ Len(new) = 3 /\ new[1] = a /\ new[2] = b /\ new[3] = c /\ events' = events \o new
      /\ \A k \in 1..Len(new) : k = 1 \/ k = 2 \/ k = 3
  BY <1>1, <1>2
<1>4. \E d \in 1..Len(new) : /\ IsAnchor(new[d])
                             /\ IF "active" \in Live THEN Says(new[d]) = "active" ELSE Says(new[d]) \notin Live
                             /\ \A k \in 1..Len(new) : IsAnchor(new[k]) => k <= d
  <2>1. 1 \in 1..Len(new) /\ IsAnchor(new[1]) /\ Says(new[1]) = "active"
    BY <1>3 DEF IsAnchor, Says
  <2>2. \A k \in 1..Len(new) : IsAnchor(new[k]) => k <= 1
    BY <1>3 DEF IsAnchor
  <2> QED BY <2>1, <2>2 DEF Live
<1>5. LogOK' /\ StatesGo
  <2>1. \A k \in 1..Len(new) : new[k].about = s /\ Fits(new[k], "active")
    BY <1>3 DEF Fits, Began, Live
  <2>2. (\A k \in 1..Len(new) : new[k].type # "deleted") /\ "active" \in Live /\ "active" \in Began
    BY <1>3 DEF Live, Began
  <2>3. ASSUME NEW k \in 1..Len(new)
        PROVE  /\ new[k].type = "paid" =>
                    k - 1 \in 1..Len(new) /\ new[k - 1].type = "updated" /\ new[k - 1].status = "active"
               /\ new[k].type = "failed" => k + 1 \in 1..Len(new) /\ IsAnchor(new[k + 1])
    <3>1. CASE k = 1
      BY <1>3, <3>1
    <3>2. CASE k = 2
      BY <1>3, <3>2
    <3>3. CASE k = 3
      BY <1>3, <3>3
    <3> QED BY <1>3, <3>1, <3>2, <3>3
  <2> QED BY <1>3, <1>4, <2>1, <2>2, <2>3, SessionLog
<1> QED BY <1>3, <1>5 DEF LogGoes

\* Every step of a session that is paid for fits the log.
LEMMA SessionGoes ==
  ASSUME BillingTypeOK, LogOK, NEW s \in Subs, NoneUnpaid',
         \/ CompleteTrialCheckout(s) \/ CompleteCheckout(s) \/ FirstPayment(s)
         \/ NeverPaid(s) \/ Abandon(s) \/ Renew(s) \/ PaymentFails(s)
         \/ PaymentRecovers(s) \/ SubscriptionEnds(s)
  PROVE  LogGoes
<1> USE DEF Turns, Emit
<1>1. CASE CompleteTrialCheckout(s)
  <2> DEFINE a == Event("created", s, "trialing")
             b == Event("completed", s, NULL)
  <2>1. /\ a \in EventRecords /\ a.type = "created" /\ a.about = s /\ a.status = "trialing"
        /\ b \in EventRecords /\ b.type = "completed" /\ b.about = s
    BY EventParts, ReportedStatuses DEF EventTypes
  <2>2. /\ stripe[s] = "offered" /\ stripe' = [stripe EXCEPT ![s] = "trialing"]
        /\ events' = events \o <<a, b>>
    BY <1>1 DEF CompleteTrialCheckout
  <2> HIDE DEF a, b
  <2>3. Fits(a, "trialing") /\ Fits(b, "trialing") /\ Tells(a, "trialing") /\ ~ IsAnchor(b)
    BY <2>1 DEF Fits, Tells, IsAnchor, Says, Began, Live
  <2>4. stripe[s] \notin Over /\ "trialing" \in Live
    BY <2>2 DEF Over, Live
  <2> QED  BY <2>1, <2>2, <2>3, <2>4, TwoEvents
<1>2. CASE CompleteCheckout(s)
  <2> DEFINE a == Event("created", s, "none")
  <2>1. a \in EventRecords /\ a.type = "created" /\ a.about = s /\ a.status = "none"
    BY EventParts, ReportedStatuses DEF EventTypes
  <2>2. /\ stripe[s] = "open" /\ stripe' = [stripe EXCEPT ![s] = "incomplete"]
        /\ events' = events \o <<a>>
    BY <1>2 DEF CompleteCheckout
  <2> HIDE DEF a
  <2>3. Fits(a, "incomplete") /\ Tells(a, "incomplete")
    BY <2>1 DEF Fits, Tells, IsAnchor, Says, Live
  <2>4. stripe[s] \notin Over /\ stripe[s] \notin Live
    BY <2>2 DEF Over, Live
  <2> QED  BY <2>1, <2>2, <2>3, <2>4, OneEvent
<1>3. CASE FirstPayment(s)
  <2> DEFINE a == Event("updated", s, "active")
             b == Event("paid", s, NULL)
             c == Event("completed", s, NULL)
  <2>1. /\ a \in EventRecords /\ a.type = "updated" /\ a.about = s /\ a.status = "active"
        /\ b \in EventRecords /\ b.type = "paid" /\ b.about = s
        /\ c \in EventRecords /\ c.type = "completed" /\ c.about = s
    BY EventParts, ReportedStatuses DEF EventTypes
  <2>2. /\ stripe[s] = "incomplete" /\ stripe' = [stripe EXCEPT ![s] = "active"]
        /\ events' = events \o <<a, b, c>>
    BY <1>3 DEF FirstPayment
  <2> HIDE DEF a, b, c
  <2>3. stripe[s] \notin Over
    BY <2>2 DEF Over
  <2> QED  BY <2>1, <2>2, <2>3, ThreeEvents
<1>4. CASE NeverPaid(s)
  <2>1. stripe'[s] = "unpaid"
    BY <1>4 DEF NeverPaid, BillingTypeOK
  <2> QED  BY <2>1 DEF NoneUnpaid
<1>5. CASE Abandon(s)
  <2> DEFINE a == Event("expired", s, NULL)
  <2>1. a \in EventRecords /\ a.type = "expired" /\ a.about = s
    BY EventParts DEF EventTypes
  <2>2. /\ stripe[s] \in {"open", "offered"} /\ stripe' = [stripe EXCEPT ![s] = "abandoned"]
        /\ events' = events \o <<a>>
    BY <1>5 DEF Abandon
  <2> HIDE DEF a
  <2>3. Fits(a, "abandoned") /\ ~ IsAnchor(a) /\ "abandoned" \notin Live
    BY <2>1 DEF Fits, IsAnchor, SubTypes, Live
  <2>4. stripe[s] \notin Over /\ stripe[s] \notin Live /\ stripe[s] # "incomplete"
    BY <2>2 DEF Over, Live
  <2> QED  BY <2>1, <2>2, <2>3, <2>4, OneEvent
<1>6. CASE Renew(s)
  <2> DEFINE a == Event("updated", s, "active")
  <2>1. a \in EventRecords /\ a.type = "updated" /\ a.about = s /\ a.status = "active"
    BY EventParts, ReportedStatuses DEF EventTypes
  <2>2. /\ stripe[s] \in {"trialing", "active"} /\ stripe' = [stripe EXCEPT ![s] = "active"]
        /\ events' = events \o <<a>>
    BY <1>6 DEF Renew
  <2> HIDE DEF a
  <2>3. Fits(a, "active") /\ Tells(a, "active")
    BY <2>1 DEF Fits, Tells, IsAnchor, Says, Began, Live
  <2>4. stripe[s] \notin Over /\ "active" \in Began /\ "active" \in Live
    BY <2>2 DEF Over, Live, Began
  <2> QED  BY <2>1, <2>2, <2>3, <2>4, OneEvent
<1>7. CASE PaymentFails(s)
  <2> DEFINE a == Event("failed", s, NULL)
             b == Event("updated", s, "past_due")
  <2>1. /\ a \in EventRecords /\ a.type = "failed" /\ a.about = s
        /\ b \in EventRecords /\ b.type = "updated" /\ b.about = s /\ b.status = "past_due"
    BY EventParts, ReportedStatuses DEF EventTypes
  <2>2. /\ stripe[s] \in {"trialing", "active"} /\ stripe' = [stripe EXCEPT ![s] = "past_due"]
        /\ events' = events \o <<a, b>>
    BY <1>7 DEF PaymentFails
  <2> HIDE DEF a, b
  <2>3. Fits(a, "past_due") /\ Fits(b, "past_due") /\ Tells(b, "past_due") /\ IsAnchor(b)
    BY <2>1 DEF Fits, Tells, IsAnchor, Says, Began, Live
  <2>4. stripe[s] \notin Over /\ "past_due" \in Live
    BY <2>2 DEF Over, Live
  <2> QED  BY <2>1, <2>2, <2>3, <2>4, TwoEvents
<1>8. CASE PaymentRecovers(s)
  <2> DEFINE a == Event("updated", s, "active")
             b == Event("paid", s, NULL)
  <2>1. /\ a \in EventRecords /\ a.type = "updated" /\ a.about = s /\ a.status = "active"
        /\ b \in EventRecords /\ b.type = "paid" /\ b.about = s
    BY EventParts, ReportedStatuses DEF EventTypes
  <2>2. /\ stripe[s] = "past_due" /\ stripe' = [stripe EXCEPT ![s] = "active"]
        /\ events' = events \o <<a, b>>
    BY <1>8 DEF PaymentRecovers
  <2> HIDE DEF a, b
  <2>3. Fits(a, "active") /\ Fits(b, "active") /\ Tells(a, "active") /\ ~ IsAnchor(b)
    BY <2>1 DEF Fits, Tells, IsAnchor, Says, Began, Live
  <2>4. stripe[s] \notin Over /\ "active" \in Live
    BY <2>2 DEF Over, Live
  <2> QED  BY <2>1, <2>2, <2>3, <2>4, TwoEvents
<1>9. CASE SubscriptionEnds(s)
  <2> DEFINE a == Event("deleted", s, NULL)
  <2>1. a \in EventRecords /\ a.type = "deleted" /\ a.about = s
    BY EventParts DEF EventTypes
  <2>2. /\ stripe[s] \in Live /\ stripe' = [stripe EXCEPT ![s] = "cancelled"]
        /\ events' = events \o <<a>>
    BY <1>9 DEF SubscriptionEnds
  <2> HIDE DEF a
  <2>3. Fits(a, "cancelled") /\ Tells(a, "cancelled") /\ "cancelled" \in Began
    BY <2>1 DEF Fits, Tells, IsAnchor, Says, Began, Live
  <2>4. stripe[s] \notin Over /\ stripe[s] # "incomplete"
    BY <2>2 DEF Over, Live
  <2> QED  BY <2>1, <2>2, <2>3, <2>4, OneEvent
<1> QED BY <1>1, <1>2, <1>3, <1>4, <1>5, <1>6, <1>7, <1>8, <1>9

\* A pack that is bought is no subscription.
LEMMA PackGoes ==
  ASSUME BillingTypeOK, LogOK, NEW p \in Packs, BuyPack(p)
  PROVE  LogGoes
<1> DEFINE a == Event("topup", p, NULL)
<1>1. events' = events \o <<a>> /\ stripe' = stripe
  BY DEF BuyPack, Emit
<1>2. a \in EventRecords /\ a.type = "topup" /\ a.about = p
  BY EventParts DEF EventTypes
<1> HIDE DEF a
<1>3. <<a>> \in Seq(EventRecords) /\ Len(<<a>>) = 1 /\ \A k \in 1..Len(<<a>>) : <<a>>[k] = a
  BY <1>2, EventSeqs
<1>4. PICK new \in Seq(EventRecords) : new = <<a>>
  BY <1>3
<1>5. events' = events \o new /\ \A k \in 1..Len(new) : new[k] = a
  BY <1>1, <1>3, <1>4
<1>6. StatesGo /\ Alone'
  BY <1>1 DEF StatesGo, LogOK, Alone
<1>7. NewEvents(new)
  <2>1. \A k \in 1..Len(new) : Reported(new[k])'
    BY <1>2, <1>5 DEF Reported, SubTypes
  <2>2. \A i \in 1..Len(events) : events[i].type = "deleted" => events[i].about \in Subs
    BY DEF LogOK, Reported, SubTypes
  <2>3. \A k \in 1..Len(new) : new[k].type = "topup" /\ new[k].about = p
    BY <1>2, <1>5
  <2>4. \A k \in 1..Len(new), i \in 1..Len(events) :
          events[i].type = "deleted" => new[k].about # events[i].about
    BY <2>2, <2>3, BillingAssumption
  <2> QED BY <1>1, <2>1, <2>3, <2>4 DEF NewEvents, SubTypes, IsAnchor
<1>8. LogOK'
  BY <1>5, <1>6, <1>7, LogGrows
<1> QED BY <1>5, <1>6, <1>8 DEF LogGoes

\* The log goes on and the rows wait.
LEMMA StripeKeeps ==
  ASSUME IInv, Ordered, LogGoes, UNCHANGED <<processed, db, sweep>>
  PROVE  Ordered'
<1>1. BillingTypeOK /\ CallsOK
  BY DEF IInv
<1>2. PICK new \in Seq(EventRecords) : events' = events \o new /\ LogOK' /\ StatesGo
  BY DEF LogGoes
<1>3. Prefix' /\ SubKnown' /\ StatusTold'
  BY <1>1, <1>2, RowsWait DEF Ordered
<1>4. SweepKnown'
  BY <1>1, <1>2 DEF Ordered, SweepKnown, CallsOK, StatesGo
<1> QED BY <1>2, <1>3, <1>4 DEF Ordered

\* A session that moves had been opened, and stays unpaid once it is.
LEMMA SessionFrom ==
  ASSUME BillingTypeOK, NEW s \in Subs,
         \/ CompleteTrialCheckout(s) \/ CompleteCheckout(s) \/ FirstPayment(s)
         \/ NeverPaid(s) \/ Abandon(s) \/ Renew(s) \/ PaymentFails(s)
         \/ PaymentRecovers(s) \/ SubscriptionEnds(s)
  PROVE  /\ stripe[s] \notin {"none", "unpaid"}
         /\ \A t \in Subs : t # s => stripe'[t] = stripe[t]
<1> QED BY DEF CompleteTrialCheckout, CompleteCheckout, FirstPayment, NeverPaid, Abandon, Renew,
               PaymentFails, PaymentRecovers, SubscriptionEnds, Turns, Live, BillingTypeOK

LEMMA StripeStepConv ==
  ASSUME IInv, ConvInv, StripeStep
  PROVE  ConvInv'
<1>1. BillingTypeOK /\ UNCHANGED <<processed, db, sweep, disordered>>
  BY DEF IInv, StripeStep
<1>2. ASSUME NEW s \in Subs,
             \/ CompleteTrialCheckout(s) \/ CompleteCheckout(s) \/ FirstPayment(s)
             \/ NeverPaid(s) \/ Abandon(s) \/ Renew(s) \/ PaymentFails(s)
             \/ PaymentRecovers(s) \/ SubscriptionEnds(s)
      PROVE  ConvInv'
  <2>1. /\ stripe[s] \notin {"none", "unpaid"}
        /\ \A t \in Subs : t # s => stripe'[t] = stripe[t]
    BY <1>1, <1>2, SessionFrom
  <2>2. Opened'
    BY <1>1, <2>1 DEF ConvInv, Opened
  <2>3. NoneUnpaid' => NoneUnpaid
    BY <2>1 DEF NoneUnpaid
  <2>4. ASSUME disordered' = FALSE, NoneUnpaid' PROVE Ordered'
    <3>1. Ordered
      BY <1>1, <2>3, <2>4 DEF ConvInv
    <3>2. LogGoes
      BY <1>1, <1>2, <2>4, <3>1, SessionGoes DEF Ordered
    <3> QED BY <1>1, <3>1, <3>2, StripeKeeps
  <2> QED BY <2>2, <2>4 DEF ConvInv
<1>3. ASSUME NEW p \in Packs, BuyPack(p) PROVE ConvInv'
  <2>1. stripe' = stripe
    BY <1>3 DEF BuyPack
  <2>2. Opened' /\ (NoneUnpaid' => NoneUnpaid)
    BY <1>1, <2>1 DEF ConvInv, Opened, NoneUnpaid
  <2>3. ASSUME disordered' = FALSE, NoneUnpaid' PROVE Ordered'
    <3>1. Ordered
      BY <1>1, <2>2, <2>3 DEF ConvInv
    <3>2. LogGoes
      BY <1>1, <1>3, <3>1, PackGoes DEF Ordered
    <3> QED BY <1>1, <3>1, <3>2, StripeKeeps
  <2> QED BY <2>2, <2>3 DEF ConvInv
<1> QED BY <1>2, <1>3 DEF StripeStep

\* The service's own steps: the events, the status and the subscription of the
\* account stay, and the sessions too, or one more is opened while the others
\* are over.
LEMMA LogStays ==
  ASSUME BillingTypeOK, LogOK, events' = events, stripe' = stripe
  PROVE  LogOK'
BY DEF LogOK, Alone, Reported, DeletedLast, DeletedTold, InTurn, Paired, Reflected,
       Agrees, LastAnchor, NoAnchor, LiveSubs, IsAnchor, Says

LEMMA RowsStay ==
  ASSUME BillingTypeOK, Ordered, LogOK', UNCHANGED <<events, processed, sweep>>,
         \A t \in Subs : stripe[t] # "none" => stripe'[t] = stripe[t],
         sweep.pc # "idle" => sweep.sub \in Subs,
         db.stripe # NULL, db'.stripe # NULL,
         db'.stripe.sub = db.stripe.sub, db'.stripe.status = db.stripe.status
  PROVE  Ordered'
<1>1. db.stripe.sub # NULL => db.stripe.sub \in Subs
  BY DEF BillingTypeOK, Rows, Accounts
<1>2. \A t \in Subs : stripe[t] \in Began => stripe'[t] = stripe[t]
  BY DEF Began, Live
<1>3. Prefix' /\ StatusTold'
  BY DEF Ordered, Prefix, StatusTold, AllTold, NoAnchor, LastAnchor, IsAnchor, Says
<1>4. SubKnown'
  BY <1>1, <1>2 DEF Ordered, SubKnown
<1>5. SweepKnown'
  BY <1>2 DEF Ordered, SweepKnown, Began
<1> QED BY <1>3, <1>4, <1>5 DEF Ordered

\* startCheckout: in the histories that are kept, the other sessions are over.
LEMMA StartCheckoutConv ==
  ASSUME IInv, ConvInv, NEW s \in Subs, StartCheckout(s)
  PROVE  ConvInv'
<1>1. /\ BillingTypeOK /\ CallsOK /\ db \in Rows
      /\ stripe \in [Subs -> {"none", "open", "offered", "abandoned", "unpaid", "incomplete",
                              "trialing", "active", "past_due", "cancelled"}]
  BY DEF IInv, BillingTypeOK
<1>2. PICK to \in {"offered", "open"} : stripe' = [stripe EXCEPT ![s] = to]
  BY DEF StartCheckout
<1>3. /\ stripe[s] = "none" /\ UNCHANGED <<events, processed, sweep>>
      /\ disordered' = (disordered \/ \E t \in Subs : stripe[t] \notin Over)
  BY DEF StartCheckout
<1>4. stripe'[s] = to /\ \A t \in Subs : t # s => stripe'[t] = stripe[t]
  BY <1>1, <1>2
<1>5. /\ db.stripe = NULL => db'.stripe = NoAccount
      /\ db.stripe # NULL => db'.stripe = db.stripe
      /\ db'.stripe # NULL
  <2> DEFINE a == IF db.stripe = NULL THEN NoAccount ELSE db.stripe
             r == IF db.trial = NULL THEN [session |-> s, sub |-> NULL] ELSE db.trial
  <2>1. db' = [db EXCEPT !.stripe = a, !.trial = r]
    BY DEF StartCheckout
  <2>2. NoAccount # NULL
    <3>1. NoAccount \in Accounts
      BY DEF NoAccount, Accounts, Statuses, Tiers
    <3> QED BY <3>1, NullAssumption
  <2>3. a # NULL
    BY <2>2
  <2> HIDE DEF r
  <2>4. db'.stripe = a
    BY <1>1, <2>1 DEF Rows
  <2> QED BY <2>3, <2>4
<1>6. Opened'
  BY <1>5 DEF Opened
<1>7. NoneUnpaid' => NoneUnpaid
  BY <1>3, <1>4 DEF NoneUnpaid
<1>8. ASSUME disordered' = FALSE, NoneUnpaid' PROVE Ordered'
  <2>1. disordered = FALSE /\ \A t \in Subs : stripe[t] \in Over
    BY <1>1, <1>3, <1>8 DEF BillingTypeOK
  <2>2. Ordered /\ LogOK
    BY <1>7, <1>8, <2>1 DEF ConvInv, Ordered
  <2>3. LogOK'
    <3>1. Alone'
      BY <1>4, <2>1 DEF Alone
    <3>2. ASSUME NEW i \in 1..Len(events') PROVE Reported(events[i])'
      <4>1. Reported(events[i]) /\ events' = events
        BY <1>3, <2>2 DEF LogOK
      <4> QED BY <1>3, <1>4, <4>1 DEF Reported, Began, Live, SubTypes
    <3>3. DeletedLast' /\ InTurn' /\ Paired'
      BY <1>3, <2>2 DEF LogOK, DeletedLast, InTurn, Paired, IsAnchor
    <3>4. DeletedTold'
      BY <1>3, <1>4, <2>2 DEF LogOK, DeletedTold
    <3>5. LiveSubs = {} /\ LiveSubs' = {}
      BY <1>4, <2>1 DEF LiveSubs, Live, Over
    <3>6. Reflected'
      <4>1. CASE NoAnchor
        BY <1>3, <3>5, <4>1 DEF Reflected, NoAnchor, IsAnchor
      <4>2. ASSUME NEW b \in 1..Len(events), LastAnchor(b), Agrees(events[b]) PROVE Reflected'
        <5>1. LastAnchor(b)' /\ b \in 1..Len(events')
          BY <1>3, <4>2 DEF LastAnchor, IsAnchor
        <5>2. Agrees(events[b])'
          BY <1>3, <3>5, <4>2 DEF Agrees, Says
        <5> QED BY <5>1, <5>2 DEF Reflected
      <4> QED BY <2>2, <4>1, <4>2 DEF LogOK, Reflected
    <3> QED BY <3>1, <3>2, <3>3, <3>4, <3>6 DEF LogOK
  <2>4. CASE db.stripe # NULL
    BY <1>1, <1>3, <1>4, <1>5, <2>2, <2>3, <2>4, RowsStay DEF CallsOK
  <2>5. CASE db.stripe = NULL
    <3>1. \A t \in Subs : stripe[t] = "none"
      BY <2>5 DEF ConvInv, Opened
    <3>2. NoAnchor
      BY <2>2, <3>1 DEF NoAnchor, LogOK, Reported, IsAnchor, SubTypes, Began, Live
    <3>3. db'.stripe.status = "none" /\ db'.stripe.sub = NULL
      BY <1>5, <2>5 DEF NoAccount
    <3>4. StatusTold' /\ SubKnown'
      BY <1>3, <3>2, <3>3 DEF StatusTold, NoAnchor, IsAnchor, SubKnown
    <3>5. SweepKnown'
      BY <1>1, <1>3, <2>5 DEF SweepKnown, CallsOK
    <3>6. Prefix'
      BY <1>3, <2>2 DEF Ordered, Prefix
    <3> QED BY <2>3, <3>4, <3>5, <3>6 DEF Ordered
  <2> QED BY <2>4, <2>5
<1> QED BY <1>6, <1>8 DEF ConvInv

\* A step that leaves what the account says of its subscription.
LEMMA SameAccount ==
  ASSUME IInv, ConvInv, UNCHANGED <<stripe, events, processed, sweep, disordered>>,
         \/ db.stripe = NULL /\ db'.stripe = NULL
         \/ /\ db.stripe # NULL /\ db'.stripe # NULL
            /\ db'.stripe.sub = db.stripe.sub /\ db'.stripe.status = db.stripe.status
  PROVE  ConvInv'
<1>1. BillingTypeOK /\ CallsOK
  BY DEF IInv
<1>2. Opened' /\ (NoneUnpaid' => NoneUnpaid)
  BY DEF ConvInv, Opened, NoneUnpaid
<1>3. ASSUME disordered' = FALSE, NoneUnpaid' PROVE Ordered'
  <2>1. Ordered /\ LogOK
    BY <1>2, <1>3 DEF ConvInv, Ordered
  <2>2. LogOK'
    BY <1>1, <2>1, LogStays
  <2>3. CASE db.stripe # NULL
    BY <1>1, <2>1, <2>2, <2>3, RowsStay DEF CallsOK
  <2>4. CASE db'.stripe = NULL
    <3>1. SubKnown' /\ StatusTold'
      BY <2>4 DEF SubKnown, StatusTold
    <3>2. Prefix' /\ SweepKnown'
      BY <2>1 DEF Ordered, Prefix, SweepKnown
    <3> QED BY <2>2, <3>1, <3>2 DEF Ordered
  <2> QED BY <2>3, <2>4
<1> QED BY <1>2, <1>3 DEF ConvInv

\* An override leaves the Stripe account's status and subscription.
LEMMA ManualKeeps ==
  ASSUME db \in Rows, NEW st, NEW t
  PROVE  LET d == ManualPrimary(st, t) IN
         /\ DOMAIN d = DOMAIN db
         /\ \/ db.stripe = NULL /\ d.stripe = NULL
            \/ /\ db.stripe # NULL /\ d.stripe # NULL
               /\ d.stripe.sub = db.stripe.sub /\ d.stripe.status = db.stripe.status
<1> DEFINE a == IF db.stripe = NULL THEN NULL ELSE [db.stripe EXCEPT !.primary = FALSE]
           m == [db.manual EXCEPT !.status = st, !.plan = t, !.primary = TRUE]
           d == [db EXCEPT !.stripe = a, !.manual = m, !.tier = t]
<1>1. ASSUME db.stripe # NULL
      PROVE  a # NULL /\ a.sub = db.stripe.sub /\ a.status = db.stripe.status
  <2>1. db.stripe \in Accounts
    BY <1>1 DEF Rows
  <2>2. a \in Accounts /\ a.sub = db.stripe.sub /\ a.status = db.stripe.status
    BY <1>1, <2>1 DEF Accounts
  <2> HIDE DEF a
  <2> QED BY <2>2, NullAssumption
<1>2. db.stripe = NULL => a = NULL
  OBVIOUS
<1>3. ManualPrimary(st, t) = d
  BY DEF ManualPrimary
<1> HIDE DEF a, m
<1>4. d.stripe = a /\ DOMAIN d = DOMAIN db
  BY DEF Rows
<1> QED BY <1>1, <1>2, <1>3, <1>4

LEMMA ServiceConv ==
  ASSUME IInv, ConvInv,
         \/ \E t \in {"free", "enterprise"} : SetTierManual(t)
         \/ GrantOnboardingProTrial \/ ExpireOnboardingProTrial \/ GraceElapses
  PROVE  ConvInv'
<1>1. db \in Rows /\ db.stripe \in Accounts \cup {NULL}
  BY DEF IInv, BillingTypeOK, Rows
<1>2. ASSUME NEW t \in {"free", "enterprise"}, SetTierManual(t) PROVE ConvInv'
  <2>1. PICK st : db' = ManualPrimary(st, t)
    BY <1>2 DEF SetTierManual
  <2>2. UNCHANGED <<stripe, events, processed, sweep, disordered>>
    BY <1>2 DEF SetTierManual
  <2> QED BY <1>1, <2>1, <2>2, ManualKeeps, SameAccount
<1>3. CASE GrantOnboardingProTrial
  <2> DEFINE d == ManualPrimary("trialing", "pro")
             n == [session |-> NULL, sub |-> NULL]
  <2>1. db' = [d EXCEPT !.trial = n] /\ db.stripe = NULL
        /\ UNCHANGED <<stripe, events, processed, sweep, disordered>>
    BY <1>3 DEF GrantOnboardingProTrial
  <2>2. d.stripe = NULL /\ DOMAIN d = DOMAIN db
    BY <1>1, <2>1, ManualKeeps
  <2> HIDE DEF d, n
  <2>3. "stripe" \in DOMAIN d
    BY <1>1, <2>2 DEF Rows
  <2>4. db'.stripe = NULL
    BY <2>1, <2>2, <2>3
  <2> QED BY <2>1, <2>4, SameAccount
<1>4. CASE ExpireOnboardingProTrial
  <2> DEFINE m == [db.manual EXCEPT !.status = "none", !.plan = "free"]
  <2>1. db' = [db EXCEPT !.manual = m, !.tier = "free"]
        /\ UNCHANGED <<stripe, events, processed, sweep, disordered>>
    BY <1>4 DEF ExpireOnboardingProTrial
  <2> HIDE DEF m
  <2>2. db'.stripe = db.stripe
    BY <1>1, <2>1 DEF Rows
  <2> QED BY <2>1, <2>2, SameAccount
<1>5. CASE GraceElapses
  <2> DEFINE a == [db.stripe EXCEPT !.clock = "over"]
  <2>1. db' = [db EXCEPT !.stripe = a] /\ db.stripe # NULL
        /\ UNCHANGED <<stripe, events, processed, sweep, disordered>>
    BY <1>5 DEF GraceElapses
  <2>2. a \in Accounts /\ a.sub = db.stripe.sub /\ a.status = db.stripe.status
    BY <1>1, <2>1 DEF Accounts
  <2> HIDE DEF a
  <2>3. db'.stripe = a /\ a # NULL
    BY <1>1, <2>1, <2>2, NullAssumption DEF Rows
  <2> QED BY <2>1, <2>2, <2>3, SameAccount
<1> QED BY <1>2, <1>3, <1>4, <1>5

\* A step that leaves Stripe and the rows alone.
LEMMA CallConv ==
  ASSUME IInv, ConvInv, UNCHANGED <<stripe, events, processed, db, disordered>>,
         Ordered => SweepKnown'
  PROVE  ConvInv'
<1>1. BillingTypeOK
  BY DEF IInv
<1>2. Opened' /\ (NoneUnpaid' => NoneUnpaid)
  BY DEF ConvInv, Opened, NoneUnpaid
<1>3. ASSUME disordered' = FALSE, NoneUnpaid' PROVE Ordered'
  <2>1. Ordered
    BY <1>2, <1>3 DEF ConvInv
  <2>2. LogOK'
    BY <1>1, <2>1, LogStays DEF Ordered
  <2>3. Prefix' /\ SubKnown'
    BY <2>1 DEF Ordered, Prefix, SubKnown
  <2>4. StatusTold'
    BY <2>1 DEF Ordered, StatusTold, AllTold, NoAnchor, LastAnchor, IsAnchor, Says
  <2> QED BY <2>1, <2>2, <2>3, <2>4 DEF Ordered
<1> QED BY <1>2, <1>3 DEF ConvInv

LEMMA SweepReadConv ==
  ASSUME IInv, ConvInv, SweepRead
  PROVE  ConvInv'
<1>1. /\ db.stripe # NULL /\ db.stripe.sub # NULL /\ db.stripe.status \in Live
      /\ sweep' = [pc |-> "cancel", sub |-> db.stripe.sub]
      /\ UNCHANGED <<stripe, events, processed, db, disordered>>
  BY DEF SweepRead, Overdue, Live
<1>2. sweep'.pc = "cancel" /\ sweep'.sub = db.stripe.sub
  BY <1>1
<1>3. Ordered => SweepKnown'
  BY <1>1, <1>2 DEF Ordered, SubKnown, SweepKnown
<1> QED BY <1>1, <1>3, CallConv

\* What the sweep cancelled is over, and its end is in the log.
LEMMA SweepCancelConv ==
  ASSUME IInv, ConvInv, SweepCancel
  PROVE  ConvInv'
<1>1. BillingTypeOK /\ CallsOK
  BY DEF IInv
<1>2. PICK s \in Subs : sweep.sub = s
  BY <1>1 DEF SweepCancel, CallsOK
<1>3. sweep.pc = "cancel" /\ sweep' = [sweep EXCEPT !.pc = "drop"]
      /\ UNCHANGED <<processed, db, disordered>>
  BY DEF SweepCancel
<1>4. sweep'.pc = "drop" /\ sweep'.sub = s
  BY <1>1, <1>2, <1>3 DEF BillingTypeOK
<1>5. CASE stripe[s] \in Live
  <2>1. /\ stripe' = [stripe EXCEPT ![s] = "cancelled"] /\ events' = events \o <<Event("deleted", s, NULL)>>
        /\ Len(events) + Len(<<Event("deleted", s, NULL)>>) <= MaxEvents
        /\ UNCHANGED <<trials, paid>>
    BY <1>2, <1>5 DEF SweepCancel, Turns, Emit
  <2>2. SubscriptionEnds(s)
    BY <1>5, <2>1 DEF SubscriptionEnds, Turns, Emit
  <2>3. stripe'[s] = "cancelled" /\ \A t \in Subs : t # s => stripe'[t] = stripe[t]
    BY <1>1, <2>1 DEF BillingTypeOK
  <2>4. Opened'
    BY <1>3, <1>5, <2>3 DEF ConvInv, Opened, Live
  <2>5. NoneUnpaid' => NoneUnpaid
    BY <1>5, <2>3 DEF NoneUnpaid, Live
  <2>6. ASSUME disordered' = FALSE, NoneUnpaid' PROVE Ordered'
    <3>1. Ordered
      BY <1>3, <2>5, <2>6 DEF ConvInv
    <3>2. LogGoes
      BY <1>1, <2>2, <2>6, <3>1, SessionGoes DEF Ordered
    <3>3. PICK new \in Seq(EventRecords) : events' = events \o new /\ LogOK' /\ StatesGo
      BY <3>2 DEF LogGoes
    <3>4. Prefix' /\ SubKnown' /\ StatusTold'
      BY <1>1, <1>3, <3>1, <3>3, RowsWait DEF Ordered
    <3>5. SweepKnown'
      BY <1>4, <2>3 DEF SweepKnown, Began
    <3> QED BY <3>3, <3>4, <3>5 DEF Ordered
  <2> QED BY <2>4, <2>6 DEF ConvInv
<1>6. CASE stripe[s] \notin Live
  <2>1. UNCHANGED <<stripe, events>>
    BY <1>2, <1>6 DEF SweepCancel
  <2>2. Ordered => SweepKnown'
    BY <1>2, <1>3, <1>4, <1>6, <2>1 DEF Ordered, SweepKnown, Began
  <2> QED BY <1>3, <2>1, <2>2, CallConv
<1> QED BY <1>5, <1>6

\* The sweep drops what it cancelled: the event of the end is not applied yet.
LEMMA SweepDropConv ==
  ASSUME IInv, ConvInv, SweepDrop
  PROVE  ConvInv'
<1>1. BillingTypeOK /\ CallsOK /\ RowsOK(db) /\ ReservationOK(db) /\ db \in Rows
  BY DEF IInv, BillingTypeOK
<1>2. /\ sweep.pc = "drop" /\ sweep.sub \in Subs /\ db.stripe # NULL
      /\ sweep' = [pc |-> "idle", sub |-> NULL]
      /\ UNCHANGED <<stripe, events, processed>>
  BY <1>1 DEF SweepDrop, CallsOK
<1>3. sweep'.pc = "idle"
  BY <1>2
<1>4. CASE db.stripe.status = "past_due" /\ db.stripe.primary
  <2>1. /\ db' = Dropped
        /\ disordered' = (disordered \/ db.stripe.sub # sweep.sub)
    BY <1>4 DEF SweepDrop
  <2>2. db'.stripe # NULL /\ db'.stripe.sub = NULL
    <3> DEFINE a == [db.stripe EXCEPT !.status = "cancelled", !.plan = "free",
                                      !.sub = NULL, !.clock = NULL]
               t == IF db.stripe.primary THEN "free" ELSE db.tier
    <3>1. a \in Accounts /\ a.sub = NULL
      BY <1>1, <1>2 DEF Rows, Accounts, Statuses, Tiers
    <3>2. Dropped = [db EXCEPT !.stripe = a, !.tier = t]
      BY DEF Dropped
    <3> HIDE DEF a, t
    <3>3. db'.stripe = a
      BY <1>1, <2>1, <3>2 DEF Rows
    <3> QED BY <3>1, <3>3, NullAssumption
  <2>3. Opened' /\ (NoneUnpaid' => NoneUnpaid)
    BY <1>2, <2>2 DEF Opened, NoneUnpaid
  <2>4. ASSUME disordered' = FALSE, NoneUnpaid' PROVE Ordered'
    <3>1. disordered = FALSE /\ db.stripe.sub = sweep.sub
      BY <1>1, <2>1, <2>4 DEF BillingTypeOK
    <3>2. Ordered /\ LogOK
      BY <2>3, <2>4, <3>1 DEF ConvInv, Ordered
    <3>3. stripe[sweep.sub] = "cancelled"
      BY <1>2, <3>2 DEF Ordered, SweepKnown
    <3>4. PICK i \in 1..Len(events) : events[i].type = "deleted" /\ events[i].about = sweep.sub
      BY <1>2, <3>2, <3>3 DEF LogOK, DeletedTold
    <3>5. db.stripe.sub # NULL
      BY <1>2, <3>1, BillingAssumption
    <3>6. i \notin processed
      BY <1>2, <3>1, <3>2, <3>4, <3>5 DEF Ordered, SubKnown
    <3>7. ~ AllTold'
      BY <1>2, <3>4, <3>6 DEF AllTold, IsAnchor
    <3>8. StatusTold' /\ SubKnown'
      BY <2>2, <3>7 DEF StatusTold, SubKnown
    <3>9. Prefix' /\ SweepKnown'
      BY <1>2, <1>3, <3>2 DEF Ordered, Prefix, SweepKnown
    <3>10. LogOK'
      BY <1>1, <1>2, <3>2, LogStays
    <3> QED BY <3>8, <3>9, <3>10 DEF Ordered
  <2> QED BY <2>3, <2>4 DEF ConvInv
<1>5. CASE ~ (db.stripe.status = "past_due" /\ db.stripe.primary)
  <2>1. db' = db /\ disordered' = disordered
    BY <1>1, <1>5 DEF SweepDrop, BillingTypeOK
  <2>2. SweepKnown'
    BY <1>3 DEF SweepKnown
  <2> QED BY <1>2, <2>1, <2>2, CallConv
<1> QED BY <1>4, <1>5

\* What the events do to the status and the subscription of an account that
\* names theirs, or none.
LEMMA AccountAfter ==
  ASSUME RowsOK(db), ReservationOK(db), NEW e \in EventRecords, EventOK(e),
         e.type \in SubTypes => db.stripe # NULL /\ db.stripe.sub \in {NULL, e.about}
  PROVE  LET d == Handled(e, Resolves(e)) IN
         /\ e.type \in SubTypes => d.stripe # NULL
         /\ e.type \in {"topup", "expired"} => d.stripe = db.stripe
         /\ e.type = "completed" => d.stripe.status = db.stripe.status /\ d.stripe.sub = e.about
         /\ e.type \in {"created", "updated"} => d.stripe.status = e.status /\ d.stripe.sub = e.about
         /\ e.type = "deleted" => d.stripe.status = "cancelled" /\ d.stripe.sub = NULL
         /\ e.type \in {"paid", "failed"} => d.stripe.sub = db.stripe.sub
         /\ e.type = "paid" =>
              d.stripe.status = IF db.stripe.status = "past_due" THEN "active" ELSE db.stripe.status
<1> DEFINE d == Handled(e, Resolves(e))
<1>1. /\ e.type \in EventTypes /\ (e.type \notin {"topup"} => e.about \in Subs)
      /\ e.type \in {"topup"} => e.about \in Packs
  BY DEF EventRecords, EventOK
<1>2. CASE e.type \in {"topup", "expired"}
  <2>1. CASE e.type = "topup"
    <3>1. d = OnTopUp(e)
      BY <2>1 DEF Handled
    <3>2. d.stripe = db.stripe
      BY <1>1, <2>1, <3>1, TopUpOK
    <3> QED BY <2>1, <3>2 DEF SubTypes
  <2>2. CASE e.type = "expired"
    <3>1. d = OnExpired(e)
      BY <2>2 DEF Handled
    <3>2. d.stripe = db.stripe
      BY <1>1, <2>2, <3>1, ExpiredOK DEF EventOK
    <3> QED BY <2>2, <3>2 DEF SubTypes
  <2> QED BY <1>2, <2>1, <2>2
<1>3. CASE e.type \in SubTypes
  <2>1. /\ db.stripe # NULL /\ db.stripe.sub \in {NULL, e.about} /\ ~ Mismatch(e)
        /\ Account(db.stripe) /\ e.about \in Subs
    BY <1>1, <1>3, TheAccount DEF Mismatch, SubTypes
  <2>2. CASE e.type = "completed"
    <3> DEFINE a == [db.stripe EXCEPT !.sub = e.about]
    <3>1. d = [db EXCEPT !.stripe = a]
      BY <2>1, <2>2 DEF Handled, OnCompleted
    <3>2. a \in Accounts /\ a.status = db.stripe.status /\ a.sub = e.about
      BY <2>1 DEF Account, Accounts
    <3> HIDE DEF a
    <3>3. d.stripe = a /\ a # NULL
      BY <3>1, <3>2, NullAssumption DEF RowsOK, Rows
    <3> QED BY <2>2, <3>2, <3>3
  <2>3. CASE e.type \in {"created", "updated"}
    <3>1. Resolves(e)
      BY <2>1, <2>3 DEF Resolves
    <3>2. d = OnUpsert(e)
      BY <2>3, <3>1 DEF Handled
    <3>3. e.status \in Statuses /\ (e.status \in {"trialing", "active"} => e.about \in paid)
      BY <2>3 DEF EventOK
    <3>4. d.stripe # NULL /\ d.stripe.status = e.status /\ d.stripe.sub = e.about
      BY <2>1, <3>2, <3>3, UpsertOK
    <3> QED BY <2>3, <3>4
  <2>4. CASE e.type = "deleted"
    <3>1. Resolves(e)
      BY <2>1, <2>4 DEF Resolves
    <3>2. d = Dropped
      BY <2>1, <2>4, <3>1 DEF Handled, OnDeleted
    <3>3. d.stripe # NULL /\ d.stripe.status = "cancelled" /\ d.stripe.sub = NULL
      BY <2>1, <3>2, DroppedOK
    <3> QED BY <2>4, <3>3
  <2>5. CASE e.type = "paid"
    <3> DEFINE st == IF db.stripe.status = "past_due" THEN "active" ELSE db.stripe.status
               a == [db.stripe EXCEPT !.status = st, !.clock = NULL]
    <3>1. Resolves(e)
      BY <2>1, <2>5 DEF Resolves
    <3>2. d = [db EXCEPT !.stripe = a]
      BY <2>1, <2>5, <3>1 DEF Handled, OnInvoicePaid
    <3>3. st \in Statuses
      BY <2>1 DEF Account, Accounts, Statuses, Live
    <3> HIDE DEF st
    <3>4. a \in Accounts /\ a.status = st /\ a.sub = db.stripe.sub
      BY <2>1, <3>3 DEF Account, Accounts
    <3> HIDE DEF a
    <3>5. d.stripe = a /\ a # NULL
      BY <3>2, <3>4, NullAssumption DEF RowsOK, Rows
    <3> QED BY <2>5, <3>4, <3>5 DEF st
  <2>6. CASE e.type = "failed"
    <3>1. Resolves(e)
      BY <2>1, <2>6 DEF Resolves
    <3>2. d = OnInvoiceFailed(e)
      BY <2>6, <3>1 DEF Handled
    <3>3. d.stripe # NULL /\ d.stripe.sub = db.stripe.sub
      <4>1. CASE db.stripe.status \in {"active", "trialing"}
        <5> DEFINE ck == IF db.stripe.clock = NULL THEN "running" ELSE db.stripe.clock
                   a == [db.stripe EXCEPT !.status = "past_due", !.clock = ck]
        <5>1. d = [db EXCEPT !.stripe = a]
          BY <2>1, <3>2, <4>1 DEF OnInvoiceFailed
        <5>2. ck \in {NULL, "running", "over"}
          BY <2>1 DEF Account, Accounts
        <5> HIDE DEF ck
        <5>3. a \in Accounts /\ a.sub = db.stripe.sub
          BY <2>1, <5>2 DEF Account, Accounts, Statuses, Live
        <5> HIDE DEF a
        <5> QED BY <5>1, <5>3, NullAssumption DEF RowsOK, Rows
      <4>2. CASE db.stripe.status \notin {"active", "trialing"}
        BY <2>1, <3>2, <4>2 DEF OnInvoiceFailed
      <4> QED BY <4>1, <4>2
    <3> QED BY <2>6, <3>3
  <2> QED BY <1>3, <2>2, <2>3, <2>4, <2>5, <2>6 DEF SubTypes
<1> QED BY <1>1, <1>2, <1>3 DEF EventTypes, SubTypes

\* The account names the subscription of the next event, or none: the one it
\* names has not ended, so no other has followed it.
LEMMA NextFits ==
  ASSUME BillingTypeOK, Opened, Ordered, NEW i \in 1..Len(events), i \notin processed,
         \A j \in 1..Len(events) : j < i => j \in processed,
         events[i].type \in SubTypes
  PROVE  db.stripe # NULL /\ db.stripe.sub \in {NULL, events[i].about}
<1>1. Len(events) \in Nat /\ processed \subseteq 1..Len(events)
  BY DEF BillingTypeOK
<1>2. Reported(events[i])
  BY DEF Ordered, LogOK
<1>3. db.stripe # NULL
  BY <1>2 DEF Opened, Reported, Began, Live
<1>4. ASSUME db.stripe.sub # NULL, db.stripe.sub # events[i].about PROVE FALSE
  <2>1. PICK k \in processed : events[k].type \in SubTypes /\ events[k].about = db.stripe.sub
    BY <1>3, <1>4 DEF Ordered, SubKnown
  <2>2. k \in 1..Len(events) /\ k < i
    <3>1. k \in 1..Len(events) /\ k # i
      BY <1>1, <2>1
    <3>2. ~ (i < k)
      BY DEF Ordered, Prefix
    <3> QED BY <1>1, <3>1, <3>2
  <2>3. PICK d \in 1..Len(events) : /\ k <= d /\ d < i /\ events[d].type = "deleted"
                                    /\ events[d].about = events[k].about
    BY <1>4, <2>1, <2>2 DEF Ordered, LogOK, InTurn
  <2>4. d \in processed
    BY <2>3
  <2> QED BY <1>3, <1>4, <2>1, <2>3, <2>4 DEF Ordered, SubKnown
<1> QED BY <1>3, <1>4

\* The next event in turn, applied by a match that is still right.
LEMMA NextApplied ==
  ASSUME IInv, Opened, Ordered, NEW i \in 1..Len(events), i \notin processed,
         \A j \in 1..Len(events) : j < i => j \in processed,
         NEW d, d = Handled(events[i], Resolves(events[i])), db' = d,
         processed' = processed \cup {i}, UNCHANGED <<stripe, events, sweep>>
  PROVE  Ordered'
<1>1. /\ BillingTypeOK /\ RowsOK(db) /\ ReservationOK(db) /\ EventOK(events[i])
      /\ Len(events) \in Nat /\ processed \subseteq 1..Len(events)
  BY DEF IInv, BillingTypeOK, EventsOK
<1>2. PICK e \in EventRecords : events[i] = e
  BY <1>1 DEF BillingTypeOK
<1>3. /\ Reported(e) /\ EventOK(e) /\ e.type \in EventTypes
      /\ e.type \in SubTypes => db.stripe # NULL /\ db.stripe.sub \in {NULL, e.about}
  BY <1>1, <1>2, NextFits DEF Ordered, LogOK, EventRecords
<1>4. /\ e.type \in SubTypes => d.stripe # NULL
      /\ e.type \in {"topup", "expired"} => d.stripe = db.stripe
      /\ e.type = "completed" => d.stripe.status = db.stripe.status /\ d.stripe.sub = e.about
      /\ e.type \in {"created", "updated"} => d.stripe.status = e.status /\ d.stripe.sub = e.about
      /\ e.type = "deleted" => d.stripe.status = "cancelled" /\ d.stripe.sub = NULL
      /\ e.type \in {"paid", "failed"} => d.stripe.sub = db.stripe.sub
      /\ e.type = "paid" =>
           d.stripe.status = IF db.stripe.status = "past_due" THEN "active" ELSE db.stripe.status
  BY <1>1, <1>2, <1>3, AccountAfter
<1>5. \A k \in processed : k < i
  <2> SUFFICES ASSUME NEW k \in processed PROVE k < i
    OBVIOUS
  <2>1. k \in 1..Len(events) /\ k # i /\ ~ (i < k)
    BY <1>1 DEF Ordered, Prefix
  <2> QED BY <1>1, <2>1
<1>6. LogOK'
  BY <1>1, LogStays DEF Ordered
<1>7. Prefix'
  BY DEF Ordered, Prefix
<1>8. SweepKnown'
  BY DEF Ordered, SweepKnown
<1>9. SubKnown'
  <2>1. CASE e.type \in {"topup", "expired"}
    <3>1. d.stripe = db.stripe /\ events[i].type \notin SubTypes
      BY <1>2, <1>4, <2>1 DEF SubTypes
    <3>2. events[i].type # "deleted"
      BY <1>2, <2>1
    <3> QED BY <3>1, <3>2 DEF Ordered, SubKnown
  <2>2. CASE e.type \in {"completed", "created", "updated"}
    <3>1. d.stripe.sub = e.about /\ e.type \in SubTypes /\ i \in processed'
      BY <1>4, <2>2 DEF SubTypes
    <3>2. \A k \in processed' : ~ (events[k].type = "deleted" /\ events[k].about = e.about)
      <4>1. \A k \in processed : ~ (events[k].type = "deleted" /\ events[k].about = e.about)
        BY <1>1, <1>2, <1>5 DEF Ordered, LogOK, DeletedLast
      <4> QED BY <1>2, <2>2, <4>1
    <3>3. d.stripe.status \in Live => stripe[e.about] \in Began
      <4>1. CASE e.type = "completed"
        BY <1>3, <4>1 DEF Reported
      <4>2. CASE e.type \in {"created", "updated"}
        BY <1>3, <1>4, <4>2 DEF Reported
      <4> QED BY <2>2, <4>1, <4>2
    <3> QED BY <1>2, <3>1, <3>2, <3>3 DEF SubKnown
  <2>3. CASE e.type = "deleted"
    BY <1>4, <2>3 DEF SubKnown
  <2>4. CASE e.type \in {"paid", "failed"}
    <3>1. d.stripe.sub = db.stripe.sub /\ db.stripe # NULL /\ db.stripe.sub \in {NULL, e.about}
          /\ stripe[e.about] \in Began /\ events[i].type # "deleted"
      BY <1>2, <1>3, <1>4, <2>4 DEF SubTypes, Reported
    <3> QED BY <3>1 DEF Ordered, SubKnown
  <2> QED BY <1>3, <2>1, <2>2, <2>3, <2>4 DEF EventTypes
<1>10. StatusTold'
  <2> SUFFICES ASSUME d.stripe # NULL, AllTold'
               PROVE  \/ NoAnchor' /\ d.stripe.status = "none"
                      \/ \E a \in 1..Len(events) : LastAnchor(a)' /\ d.stripe.status = Says(events[a])
    BY DEF StatusTold, Says
  <2>1. \A j \in 1..Len(events) : IsAnchor(events[j]) => j \in processed \/ j = i
    BY DEF AllTold, IsAnchor
  <2>2. \A a \in 1..Len(events) : LastAnchor(a)' <=> LastAnchor(a)
    BY DEF LastAnchor, IsAnchor
  <2>3. NoAnchor' <=> NoAnchor
    BY DEF NoAnchor, IsAnchor
  <2>4. CASE e.type \in {"created", "updated", "deleted"}
    <3>1. IsAnchor(events[i]) /\ d.stripe.status = Says(events[i])
      BY <1>2, <1>4, <2>4 DEF IsAnchor, Says
    <3>2. LastAnchor(i)
      <4>1. ASSUME NEW j \in 1..Len(events), IsAnchor(events[j]) PROVE j <= i
        <5>1. j < i \/ j = i
          BY <1>5, <2>1, <4>1
        <5> QED BY <1>1, <5>1
      <4> QED BY <3>1, <4>1 DEF LastAnchor
    <3> QED BY <2>2, <3>1, <3>2
  <2>5. CASE e.type \notin {"created", "updated", "deleted"}
    <3>1. AllTold
      BY <1>2, <2>1, <2>5 DEF AllTold, IsAnchor
    <3>2. ASSUME db.stripe # NULL, d.stripe.status = db.stripe.status
          PROVE  \/ NoAnchor' /\ d.stripe.status = "none"
                 \/ \E a \in 1..Len(events) : LastAnchor(a)' /\ d.stripe.status = Says(events[a])
      BY <2>2, <2>3, <3>1, <3>2 DEF Ordered, StatusTold
    <3>3. CASE e.type \in {"topup", "expired"}
      BY <1>4, <3>2, <3>3
    <3>4. CASE e.type = "completed"
      BY <1>3, <1>4, <3>2, <3>4 DEF SubTypes
    <3>5. CASE e.type = "failed"
      <4>1. i + 1 \in 1..Len(events) /\ IsAnchor(events[i + 1])
        BY <1>2, <3>5 DEF Ordered, LogOK, Paired
      <4>2. i + 1 \in processed
        BY <1>1, <2>1, <4>1
      <4> QED BY <1>1, <1>5, <4>2
    <3>6. CASE e.type = "paid"
      <4>1. i - 1 \in 1..Len(events) /\ events[i - 1].type = "updated" /\ events[i - 1].status = "active"
        BY <1>2, <3>6 DEF Ordered, LogOK, Paired
      <4>2. IsAnchor(events[i - 1])
        BY <4>1 DEF IsAnchor
      <4>3. PICK a \in 1..Len(events) : LastAnchor(a) /\ db.stripe.status = Says(events[a])
        BY <1>3, <3>1, <3>6, <4>1, <4>2 DEF Ordered, StatusTold, NoAnchor, SubTypes
      <4>4. a = i - 1
        <5>1. a < i
          <6>1. IsAnchor(events[a]) /\ ~ IsAnchor(events[i])
            BY <1>2, <3>6, <4>3 DEF LastAnchor, IsAnchor
          <6>2. a \in processed
            BY <2>1, <6>1
          <6> QED BY <1>5, <6>2
        <5>2. i - 1 <= a
          BY <4>1, <4>2, <4>3 DEF LastAnchor
        <5> QED BY <1>1, <5>1, <5>2
      <4>5. db.stripe.status = "active"
        BY <4>1, <4>3, <4>4 DEF Says
      <4>6. d.stripe.status = db.stripe.status /\ db.stripe # NULL
        BY <1>3, <1>4, <3>6, <4>5 DEF SubTypes
      <4> QED BY <3>2, <4>6
    <3> QED BY <1>3, <2>5, <3>3, <3>4, <3>5, <3>6 DEF EventTypes
  <2> QED BY <2>4, <2>5
<1> QED BY <1>6, <1>7, <1>8, <1>9, <1>10 DEF Ordered

\* An event is applied.
LEMMA ApplyConv ==
  ASSUME IInv, ConvInv, NEW w \in Workers, Apply(w)
  PROVE  ConvInv'
<1>1. /\ BillingTypeOK /\ RowsOK(db) /\ ReservationOK(db) /\ EventsOK /\ CallsOK
      /\ Len(events) \in Nat
      /\ worker \in [Workers -> [event : 0..Len(events), matched : BOOLEAN]]
  BY DEF IInv, BillingTypeOK
<1>2. PICK i \in 1..Len(events) : worker[w].event = i
  BY <1>1 DEF Apply
<1>3. PICK e \in EventRecords : events[i] = e
  BY <1>1 DEF BillingTypeOK
<1>4. PICK m \in BOOLEAN : worker[w].matched = m
  BY <1>1
<1>5. /\ EventOK(e) /\ (m => db.stripe # NULL) /\ i \notin processed
  BY <1>1, <1>2, <1>3, <1>4 DEF EventsOK, CallsOK
<1>6. /\ db' = Handled(e, m) /\ processed' = processed \cup {i}
      /\ disordered' = (disordered \/ Overtaken(i) # {} \/ db' # Handled(e, Resolves(e)))
      /\ UNCHANGED <<stripe, events, sweep>>
  BY <1>2, <1>3, <1>4 DEF Apply
<1>7. db.stripe # NULL => db'.stripe # NULL
  BY <1>1, <1>5, <1>6, HandledOK
<1>8. Opened' /\ (NoneUnpaid' => NoneUnpaid)
  BY <1>6, <1>7 DEF ConvInv, Opened, NoneUnpaid
<1>9. ASSUME disordered' = FALSE, NoneUnpaid' PROVE Ordered'
  <2>1. disordered = FALSE /\ Overtaken(i) = {} /\ db' = Handled(e, Resolves(e))
    BY <1>1, <1>6, <1>9 DEF BillingTypeOK
  <2>2. Opened /\ Ordered
    BY <1>8, <1>9, <2>1 DEF ConvInv
  <2>3. \A j \in 1..Len(events) : j < i => j \in processed
    BY <1>1, <2>1 DEF Overtaken
  <2>4. PICK d : d = Handled(e, Resolves(e))
    OBVIOUS
  <2> QED BY <1>3, <1>5, <1>6, <2>1, <2>2, <2>3, <2>4, NextApplied
<1> QED BY <1>8, <1>9 DEF ConvInv

\* Every step keeps what convergence rests on.
LEMMA StepConv ==
  ASSUME IInv, ConvInv, [Next]_vars
  PROVE  ConvInv'
<1>1. CASE StripeStep
  BY <1>1, StripeStepConv
<1>2. ASSUME NEW s \in Subs, StartCheckout(s) PROVE ConvInv'
  BY <1>2, StartCheckoutConv
<1>3. CASE \/ \E t \in {"free", "enterprise"} : SetTierManual(t)
           \/ GrantOnboardingProTrial \/ ExpireOnboardingProTrial \/ GraceElapses
  BY <1>3, ServiceConv
<1>4. CASE WebhookStep
  <2>1. ASSUME NEW w \in Workers, Apply(w) PROVE ConvInv'
    BY <2>1, ApplyConv
  <2>2. ASSUME NEW w \in Workers, Fails(w) \/ \E i \in 1..Len(events) : Deliver(w, i)
        PROVE  ConvInv'
    <3>1. UNCHANGED <<stripe, events, processed, db, disordered, sweep>>
      BY <2>2 DEF Fails, Deliver
    <3>2. Ordered => SweepKnown'
      BY <3>1 DEF Ordered, SweepKnown
    <3> QED BY <3>1, <3>2, CallConv
  <2> QED BY <1>4, <2>1, <2>2 DEF WebhookStep
<1>5. CASE SweepStep
  <2>1. CASE SweepGivesUp
    <3>1. /\ UNCHANGED <<stripe, events, processed, db, disordered>>
          /\ sweep' = [pc |-> "idle", sub |-> NULL]
      BY <2>1 DEF SweepGivesUp
    <3>2. sweep'.pc = "idle"
      BY <3>1
    <3>3. SweepKnown'
      BY <3>2 DEF SweepKnown
    <3> QED BY <3>1, <3>3, CallConv
  <2> QED BY <1>5, <2>1, SweepReadConv, SweepCancelConv, SweepDropConv DEF SweepStep
<1>6. CASE UNCHANGED vars
  <2>1. UNCHANGED <<stripe, events, processed, db, disordered, sweep>>
    BY <1>6 DEF vars
  <2>2. Ordered => SweepKnown'
    BY <2>1 DEF Ordered, SweepKnown
  <2> QED BY <2>1, <2>2, CallConv
<1> QED BY <1>1, <1>2, <1>3, <1>4, <1>5, <1>6 DEF Next

LEMMA InitConv ==
  ASSUME Init
  PROVE  ConvInv
<1>1. /\ events = <<>> /\ Len(events) = 0 /\ processed = {} /\ \A s \in Subs : stripe[s] = "none"
      /\ db.stripe = NULL /\ sweep.pc = "idle"
  BY DEF Init
<1>2. Opened
  BY <1>1 DEF Opened
<1>3. LiveSubs = {}
  BY <1>1 DEF LiveSubs, Live
<1>4. LogOK
  <2>1. Alone /\ DeletedTold
    BY <1>1 DEF Alone, Over, DeletedTold
  <2>2. /\ \A i \in 1..Len(events) : Reported(events[i])
        /\ DeletedLast /\ InTurn /\ Paired /\ NoAnchor
    BY <1>1 DEF DeletedLast, InTurn, Paired, NoAnchor
  <2> QED BY <1>3, <2>1, <2>2 DEF LogOK, Reflected
<1>5. Prefix /\ SubKnown /\ SweepKnown /\ StatusTold
  BY <1>1 DEF Prefix, SubKnown, SweepKnown, StatusTold
<1> QED BY <1>2, <1>4, <1>5 DEF ConvInv, Ordered

\* The order of Stripe's log and what the account says of the part that is
\* applied, in every behaviour.
THEOREM ConvInvariance == Spec => []ConvInv
<1>1. Init => ConvInv
  BY InitConv
<1>2. IInv /\ ConvInv /\ [Next]_vars => ConvInv'
  BY StepConv
<1> QED  BY <1>1, <1>2, Invariance, PTL DEF Spec

\* Once every event is applied in Stripe's order, by a match that still held,
\* the account's status is that of the live subscription, or none is live
\* (runStripeWebhookIdempotent, handleNormalizedEvent, runDunningSweep); for any
\* number of sessions, deliveries, failed attempts and sweeps.
THEOREM AccountConverges == Spec => []Converges
<1>1. IInv /\ ConvInv => Converges
  <2> SUFFICES ASSUME IInv, ConvInv, Settled, ~ disordered, db.stripe # NULL,
                      \A s \in Subs : stripe[s] # "unpaid"
               PROVE  IF LiveSubs = {} THEN db.stripe.status \notin Live
                      ELSE db.stripe.status \in {stripe[s] : s \in LiveSubs}
    BY DEF Converges
  <2>1. disordered = FALSE /\ NoneUnpaid
    BY DEF IInv, BillingTypeOK, NoneUnpaid
  <2>2. Ordered
    BY <2>1 DEF ConvInv
  <2>3. AllTold
    BY DEF Settled, AllTold
  <2>4. CASE NoAnchor /\ db.stripe.status = "none"
    <3>1. LiveSubs = {}
      BY <2>2, <2>4 DEF Ordered, LogOK, Reflected, NoAnchor, LastAnchor
    <3> QED BY <2>4, <3>1 DEF Live
  <2>5. ASSUME NEW a \in 1..Len(events), LastAnchor(a), db.stripe.status = Says(events[a])
        PROVE  IF LiveSubs = {} THEN db.stripe.status \notin Live
               ELSE db.stripe.status \in {stripe[s] : s \in LiveSubs}
    <3>1. PICK b \in 1..Len(events) : LastAnchor(b) /\ Agrees(events[b])
      BY <2>2, <2>5 DEF Ordered, LogOK, Reflected, NoAnchor, LastAnchor
    <3>2. a = b
      <4>1. a <= b /\ b <= a
        BY <2>5, <3>1 DEF LastAnchor
      <4> QED BY <4>1
    <3> QED BY <2>5, <3>1, <3>2 DEF Agrees
  <2> QED BY <2>2, <2>3, <2>4, <2>5 DEF Ordered, StatusTold
<1> QED  BY <1>1, Invariance, ConvInvariance, PTL

=============================================================================
