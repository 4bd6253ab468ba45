---------------------------- MODULE EmailLedger ----------------------------
(***************************************************************************)
(* The durable email ledger (api/src/services/email-delivery.service.ts)   *)
(* and the worker that retries its failed rows                             *)
(* (api/src/notifications/email-retry.worker.ts).                          *)
(*                                                                         *)
(* A key is an idempotency key: one logical email to one recipient.  Each  *)
(* caller runs sendDurable for a key in separate steps, because the row is *)
(* locked only from the second read to the commit, and the provider is     *)
(* called in between.  The callers are started by the modules that extend  *)
(* this one.  Error texts, subjects and addresses are left out.            *)
(***************************************************************************)
EXTENDS Naturals, FiniteSets

CONSTANTS
    Keys,               \* idempotency keys
    Retained,           \* the keys whose sender passes retainPayload
    Callers,            \* everything that calls sendDurable
    Retriers,           \* the processes that run the retry worker
    MAX_MAIL_ATTEMPTS,  \* MAX_ATTEMPTS of the retry worker
    MaxFaults           \* bound: database errors in one behaviour

ASSUME MailAssumption ==
    /\ Retained \subseteq Keys
    /\ Retriers \subseteq Callers
    /\ MAX_MAIL_ATTEMPTS \in Nat \ {0}
    /\ MaxFaults \in Nat

NoKey == "no key"

ASSUME NoKeyAssumption == NoKey \notin Keys

VARIABLES
    ledger,     \* email_deliveries: the row of each key
    send,       \* where each caller is in sendDurable for each key
    retry,      \* the retry worker of each process: its batch, its current row
    faults,     \* database errors so far
    taken,      \* history: how often the provider took the key's email
    unknown     \* history: takings the ledger never learned of

mailVars == <<ledger, send, retry, faults, taken, unknown>>

Statuses == {"none", "pending", "sent", "failed"}

\* next_attempt_at: null, in the future, or reached.
Row == [status : Statuses, attempts : Nat, next : {"null", "later", "due"}]

\* "call", "took" and "refused" hold the row lock.
SendPcs == {"idle", "create", "lock", "call", "took", "refused",
            "done", "failed", "threw"}

Holding == {"call", "took", "refused"}
Settled == {"done", "failed", "threw"}

MailTypeOK ==
    /\ ledger \in [Keys -> Row]
    /\ send \in [Callers -> [Keys -> SendPcs]]
    /\ retry \in [Retriers -> [todo : SUBSET Keys, cur : Keys \cup {NoKey}]]
    /\ faults \in 0..MaxFaults
    /\ taken \in [Keys -> Nat]
    /\ unknown \in [Keys -> Nat]

MailInit ==
    /\ ledger = [k \in Keys |-> [status |-> "none", attempts |-> 0, next |-> "null"]]
    /\ send = [c \in Callers |-> [k \in Keys |-> "idle"]]
    /\ retry = [r \in Retriers |-> [todo |-> {}, cur |-> NoKey]]
    /\ faults = 0
    /\ taken = [k \in Keys |-> 0]
    /\ unknown = [k \in Keys |-> 0]

Fault == faults < MaxFaults /\ faults' = faults + 1

Goto(c, k, pc) == send' = [send EXCEPT ![c][k] = pc]

-----------------------------------------------------------------------------
(* sendDurable *)

\* findOrCreateDelivery: find, else insert and find again.  The unique key
\* decides between two inserts, so the three statements act as one.  A row
\* already sent returns here, without the lock.
FindOrCreate(c, k) ==
    /\ send[c][k] = "create"
    /\ ledger' = IF ledger[k].status = "none"
                 THEN [ledger EXCEPT ![k].status = "pending"]
                 ELSE ledger
    /\ Goto(c, k, IF ledger[k].status = "sent" THEN "done" ELSE "lock")
    /\ UNCHANGED <<retry, faults, taken, unknown>>

\* Mutant: the status is not read again under the lock.
LockWithoutRecheck(c, k) ==
    /\ send[c][k] = "lock"
    /\ \A d \in Callers : send[d][k] \notin Holding
    /\ Goto(c, k, "call")
    /\ UNCHANGED <<ledger, retry, faults, taken, unknown>>

\* SELECT ... FOR UPDATE: waits for the holder, then reads the status again.
LockRow(c, k) ==
    /\ send[c][k] = "lock"
    /\ \A d \in Callers : send[d][k] \notin Holding
    /\ Goto(c, k, IF ledger[k].status = "sent" THEN "done" ELSE "call")
    /\ UNCHANGED <<ledger, retry, faults, taken, unknown>>

\* The provider answers success, answers or throws failure, or takes the
\* email and the caller sees a failure (a reply lost on the way).
CallProvider(c, k) ==
    /\ send[c][k] = "call"
    /\ \/ /\ Goto(c, k, "took")
          /\ taken' = [taken EXCEPT ![k] = @ + 1]
          /\ UNCHANGED unknown
       \/ /\ Goto(c, k, "refused")
          /\ UNCHANGED <<taken, unknown>>
       \/ /\ Goto(c, k, "refused")
          /\ taken' = [taken EXCEPT ![k] = @ + 1]
          /\ unknown' = [unknown EXCEPT ![k] = @ + 1]
    /\ UNCHANGED <<ledger, retry, faults>>

\* repo.save under the lock, and the commit.
SaveOutcome(c, k) ==
    /\ send[c][k] \in {"took", "refused"}
    /\ LET ok == send[c][k] = "took" IN
       /\ ledger' = [ledger EXCEPT
              ![k] = [status   |-> IF ok THEN "sent" ELSE "failed",
                      attempts |-> @.attempts + 1,
                      next     |-> IF ok THEN "null" ELSE "later"]]
       /\ Goto(c, k, IF ok THEN "done" ELSE "failed")
    /\ UNCHANGED <<retry, faults, taken, unknown>>

\* A statement of sendDurable throws: the transaction rolls back, its lock is
\* released and the exception leaves sendDurable.
SendThrows(c, k) ==
    /\ send[c][k] \in {"create", "lock", "took", "refused"}
    /\ Fault
    /\ Goto(c, k, "threw")
    /\ unknown' = IF send[c][k] = "took"
                  THEN [unknown EXCEPT ![k] = @ + 1] ELSE unknown
    /\ UNCHANGED <<ledger, retry, taken>>

SendStep(c, k) ==
    FindOrCreate(c, k) \/ LockRow(c, k) \/ CallProvider(c, k) \/ SaveOutcome(c, k)

\* next_attempt_at is reached.
MailElapse(k) ==
    /\ ledger[k].next = "later"
    /\ ledger' = [ledger EXCEPT ![k].next = "due"]
    /\ UNCHANGED <<send, retry, faults, taken, unknown>>

-----------------------------------------------------------------------------
(* The retry worker *)

Retryable(k) ==
    /\ k \in Retained
    /\ ledger[k].status = "failed"
    /\ ledger[k].attempts < MAX_MAIL_ATTEMPTS
    /\ ledger[k].next = "due"

\* The query of runSweep: a plain read, no lease, so two processes may pick
\* the same row.  The per-process inFlight guard is the empty batch.
RetrySelect(r) ==
    /\ retry[r] = [todo |-> {}, cur |-> NoKey]
    /\ \E k \in Keys : Retryable(k)
    /\ retry' = [retry EXCEPT ![r].todo = {k \in Keys : Retryable(k)}]
    /\ UNCHANGED <<ledger, send, faults, taken, unknown>>

\* The next row of the batch is sent.
RetryStart(r, k) ==
    /\ retry[r].cur = NoKey
    /\ k \in retry[r].todo
    /\ retry' = [retry EXCEPT ![r] = [todo |-> @.todo \ {k}, cur |-> k]]
    /\ Goto(r, k, "create")
    /\ UNCHANGED <<ledger, faults, taken, unknown>>

\* Mutant: the cap is reached one attempt early.
AdvanceCapsEarly(k, inc) ==
    IF ledger[k].status # "failed" THEN ledger
    ELSE [ledger EXCEPT
            ![k].attempts = @ + inc,
            ![k].next = IF ledger[k].attempts + inc + 1 >= MAX_MAIL_ATTEMPTS
                        THEN "null" ELSE "later"]

\* advanceAfterFailure: only a row that is still failed moves.
AdvanceAfterFailure(k, inc) ==
    IF ledger[k].status # "failed" THEN ledger
    ELSE [ledger EXCEPT
            ![k].attempts = @ + inc,
            ![k].next = IF ledger[k].attempts + inc >= MAX_MAIL_ATTEMPTS
                        THEN "null" ELSE "later"]

\* The send returned or threw.  Only a throw is counted here, since a failed
\* result has committed its own attempt; the update may itself fail.
RetrySettle(r) ==
    /\ retry[r].cur # NoKey
    /\ LET k == retry[r].cur IN
       /\ send[r][k] \in Settled
       /\ Goto(r, k, "idle")
       /\ \/ /\ ledger' = IF send[r][k] = "done" THEN ledger
                          ELSE AdvanceAfterFailure(k,
                                   IF send[r][k] = "threw" THEN 1 ELSE 0)
             /\ UNCHANGED faults
          \/ /\ send[r][k] # "done"
             /\ Fault
             /\ UNCHANGED ledger
    /\ retry' = [retry EXCEPT ![r].cur = NoKey]
    /\ UNCHANGED <<taken, unknown>>

RetryStep(r) ==
    RetrySelect(r) \/ RetrySettle(r) \/ \E k \in Keys : RetryStart(r, k)

\* Caller c dies: its transactions roll back and nobody waits for them.
DropSends(c) ==
    /\ send' = [send EXCEPT ![c] = [k \in Keys |-> "idle"]]
    /\ unknown' = [k \in Keys |-> IF send[c][k] = "took"
                                  THEN unknown[k] + 1 ELSE unknown[k]]
    /\ UNCHANGED <<ledger, faults, taken>>

RetrierCrash(r) ==
    /\ retry[r] # [todo |-> {}, cur |-> NoKey]
    /\ DropSends(r)
    /\ retry' = [retry EXCEPT ![r] = [todo |-> {}, cur |-> NoKey]]

MailStep ==
    \/ \E c \in Callers, k \in Keys : SendStep(c, k) \/ SendThrows(c, k)
    \/ \E k \in Keys : MailElapse(k)
    \/ \E r \in Retriers : RetryStep(r)

-----------------------------------------------------------------------------
(* Properties *)

(* The row lock held across the provider call makes dispatchers that share *)
(* a key take turns: the provider takes an email again only after a taking *)
(* that the ledger could not record (a crash, a rollback, a lost reply).   *)
TakenOnce == \A k \in Keys : taken[k] <= unknown[k] + 1

=============================================================================
