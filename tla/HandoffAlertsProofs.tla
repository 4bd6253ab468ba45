------------------------ MODULE HandoffAlertsProofs ------------------------
(***************************************************************************)
(* Theorems about HandoffAlerts and the EmailLedger below it, for any      *)
(* number of handoffs, users, dispatchers, retry workers, faults and       *)
(* crashes.                                                                *)
(***************************************************************************)
EXTENDS HandoffAlerts, TLAPS

\* Who calls, and for which keys.
LEMMA Who ==
  /\ Dispatchers = Handoffs \cup Sweepers
  /\ Callers = Dispatchers \cup Retriers \cup {Mailer}
  /\ Handoffs \cap Sweepers = {} /\ Dispatchers \cap Retriers = {}
  /\ Mailer \notin Dispatchers \cup Retriers
  /\ Retained \subseteq Keys
  /\ \A h \in Handoffs : {h} \X EmailUsers \subseteq Keys
BY MailAssumption, AlertAssumption DEF Dispatchers, HandoffKeys

-----------------------------------------------------------------------------
(* The inductive invariant: the ledger.                                    *)

Known == {"sent", "failed"}

\* The row lock and the books of one key: one caller holds the row, never
\* after it was sent; every taking is either unknown, or recorded as sent, or
\* about to be recorded; a caller that was told the outcome finds it recorded.
KeyOK(k) ==
  /\ \A c, d \in Callers : send[c][k] \in Holding /\ send[d][k] \in Holding => c = d
  /\ \A c \in Callers : send[c][k] \in Holding => ledger[k].status # "sent"
  /\ (ledger[k].status = "sent" \/ \E c \in Callers : send[c][k] = "took")
       => taken[k] = unknown[k] + 1
  /\ ~ (ledger[k].status = "sent" \/ \E c \in Callers : send[c][k] = "took")
       => taken[k] = unknown[k]
  /\ \A c \in Callers : send[c][k] \in {"done", "failed"} => ledger[k].status \in Known

LedgerOK == \A k \in Keys : KeyOK(k)

\* A caller sends only for the handoff, or the retried row, it is working on.
SendsBelong ==
  /\ \A d \in Dispatchers, k \in Keys : send[d][k] # "idle" =>
       disp[d].pc = "emails" /\ k \in {disp[d].h} \X EmailUsers
  /\ \A r \in Retriers, k \in Keys : send[r][k] # "idle" => retry[r].cur = k

-----------------------------------------------------------------------------
(* The inductive invariant: the dispatchers.                               *)

\* Both channels of the handoff were gone through, or an error was swallowed.
Attempted(h) ==
  \/ h \in swallowed
  \/ /\ notes[h] = PlatformUsers
     /\ \A u \in EmailUsers : ledger[<<h, u>>].status \in Known

\* What a dispatcher has behind it, by its program counter.
DispOK(d) ==
  /\ disp[d].pc \notin {"idle", "next"} => disp[d].h \in Handoffs
  /\ disp[d].pc = "platform" =>
       disp[d].h \in swallowed \/ PlatformUsers \subseteq notes[disp[d].h] \cup disp[d].todo
  /\ disp[d].pc = "save" =>
       /\ disp[d].u \in PlatformUsers
       /\ \/ disp[d].h \in swallowed
          \/ PlatformUsers \subseteq notes[disp[d].h] \cup disp[d].todo \cup {disp[d].u}
  /\ disp[d].pc \in {"email", "emails"} =>
       disp[d].h \in swallowed \/ notes[disp[d].h] = PlatformUsers
  /\ disp[d].pc = "notified" => Attempted(disp[d].h)
  /\ d \in Handoffs /\ disp[d].pc # "idle" => disp[d].h = d /\ outbox[d].status # "none"

DispatchersOK == \A d \in Dispatchers : DispOK(d)

\* A toast that was or will be emitted stands for a notification row, and for
\* one dispatcher: the one whose insert created the row.
Toasts ==
  /\ \A h \in Handoffs, u \in PlatformUsers :
       toasts[h][u] = 0 \/ (toasts[h][u] = 1 /\ u \in notes[h])
  /\ \A d \in Dispatchers : \A u \in disp[d].created :
       /\ disp[d].h \in Handoffs
       /\ u \in notes[disp[d].h]
       /\ toasts[disp[d].h][u] = 0
  /\ \A d, e \in Dispatchers : \A u \in PlatformUsers :
       u \in disp[d].created /\ u \in disp[e].created /\ disp[d].h = disp[e].h => d = e

IInv ==
  /\ AlertTypeOK /\ LedgerOK /\ SendsBelong /\ DispatchersOK /\ Toasts
  /\ SentMeansAttempted

-----------------------------------------------------------------------------
(* The ledger: what its steps do to the books of one key.                  *)

\* Goto changes one program counter.
LEMMA GotoStep ==
  ASSUME MailTypeOK, NEW c \in Callers, NEW k \in Keys, NEW pc \in SendPcs, Goto(c, k, pc)
  PROVE  /\ send' \in [Callers -> [Keys -> SendPcs]]
         /\ send'[c][k] = pc
         /\ \A d \in Callers, l \in Keys : <<d, l>> # <<c, k>> => send'[d][l] = send[d][l]
<1>1. send \in [Callers -> [Keys -> SendPcs]]
  BY DEF MailTypeOK
<1>2. send' = [send EXCEPT ![c][k] = pc]
  BY DEF Goto
<1>3. send'[c] = [send[c] EXCEPT ![k] = pc] /\ \A d \in Callers \ {c} : send'[d] = send[d]
  BY <1>1, <1>2
<1>4. send' \in [Callers -> [Keys -> SendPcs]]
  BY <1>1, <1>2
<1>5. send'[c][k] = pc /\ \A l \in Keys \ {k} : send'[c][l] = send[c][l]
  BY <1>1, <1>3
<1> QED BY <1>3, <1>4, <1>5

\* A step in which no caller comes to hold the row of k or lets go of it, and
\* whoever is told an outcome finds it recorded, keeps the books of k.
LEMMA KeyQuiet ==
  ASSUME NEW k \in Keys, KeyOK(k),
         \A c \in Callers : \/ send'[c][k] = send[c][k]
                            \/ /\ send[c][k] \notin Holding /\ send'[c][k] \notin Holding
                               /\ send'[c][k] \in {"done", "failed"} => ledger[k].status \in Known,
         \/ ledger'[k].status = ledger[k].status
         \/ ledger[k].status = "none" /\ ledger'[k].status = "pending",
         taken'[k] = taken[k], unknown'[k] = unknown[k]
  PROVE  KeyOK(k)'
<1>1. \A c \in Callers : send'[c][k] \in Holding => send'[c][k] = send[c][k]
  OBVIOUS
<1>2. \A c \in Callers : send'[c][k] = "took" <=> send[c][k] = "took"
  BY DEF Holding
<1>3. ledger'[k].status = "sent" <=> ledger[k].status = "sent"
  OBVIOUS
<1>4. ledger[k].status \in Known => ledger'[k].status = ledger[k].status
  BY DEF Known
<1>5. /\ \A c, d \in Callers : send'[c][k] \in Holding /\ send'[d][k] \in Holding => c = d
      /\ \A c \in Callers : send'[c][k] \in Holding => ledger'[k].status # "sent"
  BY <1>1, <1>3 DEF KeyOK
<1>6. /\ (ledger'[k].status = "sent" \/ \E c \in Callers : send'[c][k] = "took")
           => taken'[k] = unknown'[k] + 1
      /\ ~ (ledger'[k].status = "sent" \/ \E c \in Callers : send'[c][k] = "took")
           => taken'[k] = unknown'[k]
  BY <1>2, <1>3 DEF KeyOK
<1>7. \A c \in Callers : send'[c][k] \in {"done", "failed"} => ledger'[k].status \in Known
  BY <1>4 DEF KeyOK
<1> QED BY <1>5, <1>6, <1>7 DEF KeyOK

LEMMA FindOrCreateKeys ==
  ASSUME MailTypeOK, LedgerOK, NEW c \in Callers, NEW k \in Keys, FindOrCreate(c, k)
  PROVE  LedgerOK'
<1>1. PICK pc \in {"done", "lock"} : /\ Goto(c, k, pc)
                                     /\ pc = "done" => ledger[k].status = "sent"
  BY DEF FindOrCreate
<1>2. /\ send'[c][k] = pc /\ send[c][k] = "create"
      /\ \A d \in Callers, l \in Keys : <<d, l>> # <<c, k>> => send'[d][l] = send[d][l]
  BY <1>1, GotoStep DEF SendPcs, FindOrCreate
<1>3. \A l \in Keys : /\ \/ ledger'[l].status = ledger[l].status
                         \/ ledger[l].status = "none" /\ ledger'[l].status = "pending"
                      /\ taken'[l] = taken[l] /\ unknown'[l] = unknown[l]
  BY DEF FindOrCreate, MailTypeOK, Row
<1>4. ASSUME NEW l \in Keys PROVE KeyOK(l)'
  <2>1. \A d \in Callers : \/ send'[d][l] = send[d][l]
                           \/ /\ send[d][l] \notin Holding /\ send'[d][l] \notin Holding
                              /\ send'[d][l] \in {"done", "failed"} => ledger[l].status \in Known
    BY <1>1, <1>2 DEF Holding, Known
  <2> QED BY <1>3, <2>1, KeyQuiet DEF LedgerOK
<1> QED BY <1>4 DEF LedgerOK

\* A caller that was waiting holds the row: nobody else does, and it is not sent.
LEMMA LockRowKeys ==
  ASSUME MailTypeOK, LedgerOK, NEW c \in Callers, NEW k \in Keys, LockRow(c, k)
  PROVE  LedgerOK'
<1>1. PICK pc \in {"done", "call"} : /\ Goto(c, k, pc)
                                     /\ pc = "done" <=> ledger[k].status = "sent"
  BY DEF LockRow
<1>2. /\ send'[c][k] = pc /\ send[c][k] = "lock"
      /\ \A d \in Callers, l \in Keys : <<d, l>> # <<c, k>> => send'[d][l] = send[d][l]
  BY <1>1, GotoStep DEF SendPcs, LockRow
<1>3. UNCHANGED <<ledger, taken, unknown>>
  BY DEF LockRow
<1>4. ASSUME NEW l \in Keys, l # k \/ pc = "done" PROVE KeyOK(l)'
  <2>1. \A d \in Callers : \/ send'[d][l] = send[d][l]
                           \/ /\ send[d][l] \notin Holding /\ send'[d][l] \notin Holding
                              /\ send'[d][l] \in {"done", "failed"} => ledger[l].status \in Known
    BY <1>1, <1>2, <1>4 DEF Holding, Known
  <2> QED BY <1>3, <2>1, KeyQuiet DEF LedgerOK
<1>5. CASE pc = "call"
  <2>1. \A d \in Callers : send'[d][k] \in Holding => d = c
    BY <1>2 DEF LockRow
  <2>2. \A d \in Callers : send'[d][k] = "took" <=> send[d][k] = "took"
    BY <1>2, <1>5
  <2>3. KeyOK(k)
    BY DEF LedgerOK
  <2>4. KeyOK(k)'
    BY <1>1, <1>2, <1>3, <1>5, <2>1, <2>2, <2>3 DEF KeyOK
  <2> QED BY <1>4, <2>4 DEF LedgerOK
<1> QED BY <1>4, <1>5 DEF LedgerOK

\* A holder moves on: to "took" with one more taking, to "refused" with none or
\* with one that nobody learns of.
LEMMA CallProviderKeys ==
  ASSUME MailTypeOK, LedgerOK, NEW c \in Callers, NEW k \in Keys, CallProvider(c, k)
  PROVE  LedgerOK'
<1>1. PICK pc \in {"took", "refused"} :
        /\ Goto(c, k, pc)
        /\ pc = "took" => taken' = [taken EXCEPT ![k] = @ + 1] /\ unknown' = unknown
        /\ pc = "refused" =>
             \/ taken' = taken /\ unknown' = unknown
             \/ /\ taken' = [taken EXCEPT ![k] = @ + 1]
                /\ unknown' = [unknown EXCEPT ![k] = @ + 1]
  BY DEF CallProvider
<1>2. /\ send'[c][k] = pc /\ send[c][k] = "call"
      /\ \A d \in Callers, l \in Keys : <<d, l>> # <<c, k>> => send'[d][l] = send[d][l]
  BY <1>1, GotoStep DEF SendPcs, CallProvider
<1>3. ledger' = ledger /\ taken \in [Keys -> Nat] /\ unknown \in [Keys -> Nat]
  BY DEF CallProvider, MailTypeOK
<1>4. ASSUME NEW l \in Keys, l # k PROVE KeyOK(l)'
  <2>1. \A d \in Callers : send'[d][l] = send[d][l]
    BY <1>2, <1>4
  <2>2. taken'[l] = taken[l] /\ unknown'[l] = unknown[l]
    BY <1>1, <1>3, <1>4
  <2> QED BY <1>3, <2>1, <2>2, KeyQuiet DEF LedgerOK
<1>5. KeyOK(k)'
  <2>1. KeyOK(k)
    BY DEF LedgerOK
  <2>2. \A d \in Callers : send[d][k] \in Holding <=> d = c
    BY <1>2, <2>1 DEF KeyOK, Holding
  <2>3. \A d \in Callers : send'[d][k] \in Holding <=> d = c
    BY <1>1, <1>2, <2>2 DEF Holding
  <2>4. ledger[k].status # "sent" /\ taken[k] = unknown[k] /\ taken[k] \in Nat /\ unknown[k] \in Nat
    <3>1. \A d \in Callers : send[d][k] # "took"
      BY <1>2, <2>2 DEF Holding
    <3> QED BY <1>2, <1>3, <2>1, <2>2, <3>1 DEF KeyOK
  <2>5. CASE pc = "took"
    BY <1>1, <1>2, <1>3, <2>1, <2>3, <2>4, <2>5 DEF KeyOK
  <2>6. CASE pc = "refused"
    <3>1. \A d \in Callers : send'[d][k] # "took"
      BY <1>2, <2>3, <2>6 DEF Holding
    <3>2. taken'[k] = unknown'[k]
      BY <1>1, <1>3, <2>4, <2>6
    <3> QED BY <1>2, <1>3, <2>1, <2>3, <2>4, <2>6, <3>1, <3>2 DEF KeyOK
  <2> QED BY <2>5, <2>6
<1> QED BY <1>4, <1>5 DEF LedgerOK

\* The holder records what it knows and lets go.
LEMMA SaveOutcomeKeys ==
  ASSUME MailTypeOK, LedgerOK, NEW c \in Callers, NEW k \in Keys, SaveOutcome(c, k)
  PROVE  LedgerOK'
<1>1. PICK pc \in {"done", "failed"} :
        /\ Goto(c, k, pc)
        /\ pc = "done" <=> send[c][k] = "took"
  BY DEF SaveOutcome
<1>2. /\ send'[c][k] = pc /\ send[c][k] \in {"took", "refused"}
      /\ \A d \in Callers, l \in Keys : <<d, l>> # <<c, k>> => send'[d][l] = send[d][l]
  BY <1>1, GotoStep DEF SendPcs, SaveOutcome
<1>3. /\ UNCHANGED <<taken, unknown>> /\ taken \in [Keys -> Nat] /\ unknown \in [Keys -> Nat]
      /\ \A l \in Keys \ {k} : ledger'[l] = ledger[l]
      /\ ledger'[k].status = IF send[c][k] = "took" THEN "sent" ELSE "failed"
  BY DEF SaveOutcome, MailTypeOK
<1>4. ASSUME NEW l \in Keys, l # k PROVE KeyOK(l)'
  <2>1. \A d \in Callers : send'[d][l] = send[d][l]
    BY <1>2, <1>4
  <2> QED BY <1>3, <1>4, <2>1, KeyQuiet DEF LedgerOK
<1>5. KeyOK(k)'
  <2>1. KeyOK(k)
    BY DEF LedgerOK
  <2>2. \A d \in Callers : send[d][k] \in Holding <=> d = c
    BY <1>2, <2>1 DEF KeyOK, Holding
  <2>3. \A d \in Callers : send'[d][k] \notin Holding
    BY <1>1, <1>2, <2>2 DEF Holding
  <2>4. \A d \in Callers : send'[d][k] # "took"
    BY <2>3 DEF Holding
  <2>5. ledger'[k].status \in Known
    BY <1>3 DEF Known
  <2>6. CASE send[c][k] = "took"
    BY <1>3, <2>1, <2>3, <2>4, <2>5, <2>6 DEF KeyOK
  <2>7. CASE send[c][k] = "refused"
    <3>1. \A d \in Callers : send[d][k] # "took"
      BY <2>2, <2>7 DEF Holding
    <3>2. ledger[k].status # "sent"
      BY <2>1, <2>2 DEF KeyOK
    <3> QED BY <1>3, <2>1, <2>3, <2>4, <2>5, <2>7, <3>1, <3>2 DEF KeyOK
  <2> QED BY <1>2, <2>6, <2>7
<1> QED BY <1>4, <1>5 DEF LedgerOK

\* A caller lets go of the row, if it holds it, without recording anything.
LEMMA LetGo ==
  ASSUME MailTypeOK, NEW k \in Keys, KeyOK(k), NEW c \in Callers,
         \A d \in Callers \ {c} : send'[d][k] = send[d][k],
         send'[c][k] \in {"idle", "threw"},
         ledger'[k] = ledger[k], taken'[k] = taken[k],
         unknown'[k] = IF send[c][k] = "took" THEN unknown[k] + 1 ELSE unknown[k]
  PROVE  KeyOK(k)'
<1>1. taken[k] \in Nat /\ unknown[k] \in Nat
  BY DEF MailTypeOK
<1>2. \A d \in Callers : send'[d][k] \in Holding => d # c /\ send[d][k] \in Holding
  BY DEF Holding
<1>3. \A d \in Callers : send'[d][k] = "took" <=> d # c /\ send[d][k] = "took"
  OBVIOUS
<1>4. CASE send[c][k] = "took"
  <2>1. \A d \in Callers : send[d][k] \in Holding => d = c
    BY <1>4 DEF KeyOK, Holding
  <2>2. \A d \in Callers : send'[d][k] # "took"
    BY <1>3, <2>1 DEF Holding
  <2>3. taken[k] = unknown[k] + 1 /\ ledger[k].status # "sent"
    BY <1>4 DEF KeyOK, Holding
  <2> QED BY <1>1, <1>2, <1>4, <2>1, <2>2, <2>3 DEF KeyOK
<1>5. CASE send[c][k] # "took"
  <2>1. \A d \in Callers : send'[d][k] = "took" <=> send[d][k] = "took"
    BY <1>3, <1>5
  <2> QED BY <1>2, <1>5, <2>1 DEF KeyOK
<1> QED BY <1>4, <1>5

LEMMA SendThrowsKeys ==
  ASSUME MailTypeOK, LedgerOK, NEW c \in Callers, NEW k \in Keys, SendThrows(c, k)
  PROVE  LedgerOK'
<1>1. /\ send'[c][k] = "threw"
      /\ \A d \in Callers, l \in Keys : <<d, l>> # <<c, k>> => send'[d][l] = send[d][l]
  BY GotoStep DEF SendPcs, SendThrows
<1>2. /\ UNCHANGED <<ledger, taken>>
      /\ \A l \in Keys \ {k} : unknown'[l] = unknown[l]
      /\ unknown'[k] = IF send[c][k] = "took" THEN unknown[k] + 1 ELSE unknown[k]
  BY DEF SendThrows, MailTypeOK
<1>3. ASSUME NEW l \in Keys, l # k PROVE KeyOK(l)'
  <2>1. \A d \in Callers : send'[d][l] = send[d][l]
    BY <1>1, <1>3
  <2> QED BY <1>2, <1>3, <2>1, KeyQuiet DEF LedgerOK
<1>4. KeyOK(k)'
  BY <1>1, <1>2, LetGo DEF LedgerOK
<1> QED BY <1>3, <1>4 DEF LedgerOK

LEMMA DropSendsStep ==
  ASSUME MailTypeOK, NEW c \in Callers, DropSends(c)
  PROVE  /\ send' \in [Callers -> [Keys -> SendPcs]]
         /\ unknown' \in [Keys -> Nat]
         /\ \A k \in Keys : send'[c][k] = "idle"
         /\ \A d \in Callers \ {c}, k \in Keys : send'[d][k] = send[d][k]
         /\ \A k \in Keys : unknown'[k] = IF send[c][k] = "took" THEN unknown[k] + 1 ELSE unknown[k]
         /\ UNCHANGED <<ledger, faults, taken>>
BY DEF MailTypeOK, DropSends, SendPcs

LEMMA DropSendsKeys ==
  ASSUME MailTypeOK, LedgerOK, NEW c \in Callers, DropSends(c)
  PROVE  LedgerOK'
<1>1. ASSUME NEW k \in Keys PROVE KeyOK(k)'
  BY DropSendsStep, LetGo DEF LedgerOK
<1> QED BY <1>1 DEF LedgerOK

\* The rest of the ledger's own steps leave the row locks alone.
LEMMA MailElapseKeys ==
  ASSUME MailTypeOK, LedgerOK, NEW k \in Keys, MailElapse(k)
  PROVE  LedgerOK'
<1>1. \A l \in Keys : ledger'[l].status = ledger[l].status
  BY DEF MailElapse, MailTypeOK, Row
<1>2. ASSUME NEW l \in Keys PROVE KeyOK(l)'
  <2>1. /\ \A c \in Callers : send'[c][l] = send[c][l]
        /\ taken'[l] = taken[l] /\ unknown'[l] = unknown[l]
    BY DEF MailElapse
  <2> QED BY <1>1, <2>1, KeyQuiet DEF LedgerOK
<1> QED BY <1>2 DEF LedgerOK

\* advanceAfterFailure moves the attempts and the backoff, never the status.
LEMMA AdvanceKeepsStatus ==
  ASSUME MailTypeOK, NEW k \in Keys, NEW inc \in {0, 1}
  PROVE  /\ AdvanceAfterFailure(k, inc) \in [Keys -> Row]
         /\ \A l \in Keys : AdvanceAfterFailure(k, inc)[l].status = ledger[l].status
<1>1. ledger \in [Keys -> Row] /\ ledger[k] \in Row
  BY DEF MailTypeOK
<1>2. CASE ledger[k].status # "failed"
  BY <1>1, <1>2 DEF AdvanceAfterFailure
<1>3. CASE ledger[k].status = "failed"
  <2> DEFINE n == IF ledger[k].attempts + inc >= MAX_MAIL_ATTEMPTS THEN "null" ELSE "later"
             a == ledger[k].attempts + inc
             r == [ledger[k] EXCEPT !.attempts = a, !.next = n]
  <2>1. n \in {"null", "later", "due"}
    OBVIOUS
  <2>2. AdvanceAfterFailure(k, inc) = [ledger EXCEPT ![k] = r]
    BY <1>1, <1>3 DEF AdvanceAfterFailure, Row
  <2>4. a \in Nat
    BY <1>1 DEF Row
  <2> HIDE DEF n, a
  <2>3. r \in Row /\ r.status = ledger[k].status
    BY <1>1, <2>1, <2>4 DEF Row
  <2> HIDE DEF r
  <2> QED BY <1>1, <2>2, <2>3
<1> QED BY <1>2, <1>3

\* A send that was settled is forgotten by its caller.
LEMMA RetrySettleStep ==
  ASSUME MailTypeOK, NEW r \in Retriers, RetrySettle(r)
  PROVE  /\ retry[r].cur \in Keys /\ r \in Callers
         /\ Goto(r, retry[r].cur, "idle")
         /\ send[r][retry[r].cur] \in Settled
         /\ ledger' \in [Keys -> Row]
         /\ \A l \in Keys : ledger'[l].status = ledger[l].status
         /\ UNCHANGED <<taken, unknown>>
         /\ faults' = faults \/ Fault
         /\ retry' = [retry EXCEPT ![r].cur = NoKey]
<1>1. retry[r].cur \in Keys /\ r \in Callers
  BY MailAssumption DEF RetrySettle, MailTypeOK
<1>2. /\ Goto(r, retry[r].cur, "idle") /\ send[r][retry[r].cur] \in Settled
      /\ UNCHANGED <<taken, unknown>> /\ (faults' = faults \/ Fault)
      /\ retry' = [retry EXCEPT ![r].cur = NoKey]
  BY DEF RetrySettle
<1>3. ledger' = ledger \/ \E inc \in {0, 1} : ledger' = AdvanceAfterFailure(retry[r].cur, inc)
  BY DEF RetrySettle
<1>4. ledger' \in [Keys -> Row] /\ \A l \in Keys : ledger'[l].status = ledger[l].status
  BY <1>1, <1>3, AdvanceKeepsStatus DEF MailTypeOK
<1> QED BY <1>1, <1>2, <1>4

\* One caller starts or forgets the send of one key, which does not hold the row.
LEMMA GotoQuiet ==
  ASSUME MailTypeOK, LedgerOK, NEW c \in Callers, NEW k \in Keys,
         NEW pc \in {"idle", "create"}, Goto(c, k, pc), send[c][k] \notin Holding,
         \A l \in Keys : ledger'[l].status = ledger[l].status,
         UNCHANGED <<taken, unknown>>
  PROVE  LedgerOK'
<1>1. /\ send'[c][k] = pc
      /\ \A d \in Callers, l \in Keys : <<d, l>> # <<c, k>> => send'[d][l] = send[d][l]
  BY GotoStep DEF SendPcs
<1>2. ASSUME NEW l \in Keys PROVE KeyOK(l)'
  <2>1. \A d \in Callers : \/ send'[d][l] = send[d][l]
                           \/ /\ send[d][l] \notin Holding /\ send'[d][l] \notin Holding
                              /\ send'[d][l] \in {"done", "failed"} => ledger[l].status \in Known
    BY <1>1 DEF Holding
  <2> QED BY <2>1, KeyQuiet DEF LedgerOK
<1> QED BY <1>2 DEF LedgerOK

LEMMA RetryKeys ==
  ASSUME MailTypeOK, LedgerOK, SendsBelong, NEW r \in Retriers, RetryStep(r)
  PROVE  LedgerOK'
<1>1. r \in Callers
  BY MailAssumption
<1>2. CASE RetrySelect(r)
  <2>1. ASSUME NEW l \in Keys PROVE KeyOK(l)'
    BY <1>2, KeyQuiet DEF LedgerOK, RetrySelect
  <2> QED BY <2>1 DEF LedgerOK
<1>3. CASE RetrySettle(r)
  <2>1. send[r][retry[r].cur] \notin Holding
    BY <1>3, RetrySettleStep DEF Settled, Holding
  <2> QED BY <1>1, <1>3, <2>1, RetrySettleStep, GotoQuiet
<1>4. ASSUME NEW k \in Keys, RetryStart(r, k) PROVE LedgerOK'
  <2>1. send[r][k] = "idle"
    BY <1>4, NoKeyAssumption DEF RetryStart, SendsBelong
  <2> QED BY <1>1, <1>4, <2>1, GotoQuiet DEF RetryStart, Holding
<1> QED BY <1>2, <1>3, <1>4 DEF RetryStep

\* The ledger's own steps keep its types and its books.
LEMMA MailStepKeys ==
  ASSUME MailTypeOK, LedgerOK, SendsBelong, MailStep
  PROVE  LedgerOK'
BY FindOrCreateKeys, LockRowKeys, CallProviderKeys, SaveOutcomeKeys, SendThrowsKeys,
   MailElapseKeys, RetryKeys DEF MailStep, SendStep

LEMMA FaultType == ASSUME MailTypeOK, faults' = faults \/ Fault PROVE faults' \in 0..MaxFaults
BY MailAssumption DEF MailTypeOK, Fault

LEMMA MailStepType ==
  ASSUME MailTypeOK, MailStep
  PROVE  MailTypeOK'
<1>1. ASSUME NEW c \in Callers, NEW k \in Keys, SendStep(c, k) \/ SendThrows(c, k)
      PROVE  MailTypeOK'
  <2>1. \E pc \in SendPcs : Goto(c, k, pc)
    BY <1>1 DEF SendStep, FindOrCreate, LockRow, CallProvider, SaveOutcome, SendThrows, SendPcs
  <2>2. send' \in [Callers -> [Keys -> SendPcs]]
    BY <2>1, GotoStep
  <2>3. ledger' \in [Keys -> Row]
    <3>1. ledger \in [Keys -> Row] /\ ledger[k] \in Row
      BY DEF MailTypeOK
    <3>2. CASE FindOrCreate(c, k)
      <4>1. [ledger[k] EXCEPT !.status = "pending"] \in Row
        BY <3>1 DEF Row, Statuses
      <4>2. ledger' = ledger \/ ledger' = [ledger EXCEPT ![k] = [ledger[k] EXCEPT !.status = "pending"]]
        BY <3>2 DEF FindOrCreate
      <4> QED BY <3>1, <4>1, <4>2
    <3>3. CASE SaveOutcome(c, k)
      <4>1. PICK s \in {"sent", "failed"}, n \in {"null", "later"} :
              ledger' = [ledger EXCEPT ![k] = [status |-> s, attempts |-> ledger[k].attempts + 1, next |-> n]]
        BY <3>3 DEF SaveOutcome
      <4>2. [status |-> s, attempts |-> ledger[k].attempts + 1, next |-> n] \in Row
        BY <3>1 DEF Row, Statuses
      <4> QED BY <3>1, <4>1, <4>2
    <3> QED BY <1>1, <3>1, <3>2, <3>3 DEF SendStep, LockRow, CallProvider, SendThrows
  <2>4. taken' \in [Keys -> Nat] /\ unknown' \in [Keys -> Nat]
    BY <1>1 DEF MailTypeOK, SendStep, FindOrCreate, LockRow, CallProvider, SaveOutcome, SendThrows
  <2>5. faults' = faults \/ Fault
    BY <1>1 DEF SendStep, FindOrCreate, LockRow, CallProvider, SaveOutcome, SendThrows
  <2>6. retry' = retry
    BY <1>1 DEF SendStep, FindOrCreate, LockRow, CallProvider, SaveOutcome, SendThrows
  <2> QED BY <2>2, <2>3, <2>4, <2>5, <2>6, FaultType DEF MailTypeOK
<1>2. ASSUME NEW k \in Keys, MailElapse(k) PROVE MailTypeOK'
  <2>1. [ledger[k] EXCEPT !.next = "due"] \in Row
    BY DEF MailTypeOK, Row
  <2> QED BY <1>2, <2>1 DEF MailElapse, MailTypeOK
<1>3. ASSUME NEW r \in Retriers, RetryStep(r) PROVE MailTypeOK'
  <2>1. r \in Callers
    BY MailAssumption
  <2>2. CASE RetrySelect(r)
    BY <2>2 DEF RetrySelect, MailTypeOK
  <2>3. CASE RetrySettle(r)
    <3>1. retry' \in [Retriers -> [todo : SUBSET Keys, cur : Keys \cup {NoKey}]]
      BY <2>3 DEF RetrySettle, MailTypeOK
    <3>2. send' \in [Callers -> [Keys -> SendPcs]]
      BY <2>1, <2>3, RetrySettleStep, GotoStep DEF SendPcs
    <3> QED BY <2>3, <3>1, <3>2, RetrySettleStep, FaultType DEF MailTypeOK
  <2>4. ASSUME NEW k \in Keys, RetryStart(r, k) PROVE MailTypeOK'
    <3>1. send' \in [Callers -> [Keys -> SendPcs]]
      BY <2>1, <2>4, GotoStep DEF SendPcs, RetryStart
    <3>2. retry' \in [Retriers -> [todo : SUBSET Keys, cur : Keys \cup {NoKey}]]
      BY <2>4 DEF RetryStart, MailTypeOK
    <3> QED BY <2>4, <3>1, <3>2 DEF RetryStart, MailTypeOK
  <2> QED BY <1>3, <2>2, <2>3, <2>4 DEF RetryStep
<1> QED BY <1>1, <1>2, <1>3 DEF MailStep

-----------------------------------------------------------------------------
(* The dispatchers: what each step does to the one that takes it.          *)

\* Every step of a dispatcher replaces its record and no other.
Turns(d, r) ==
  /\ disp' \in [Dispatchers -> Dispatch]
  /\ disp'[d] = r
  /\ \A e \in Dispatchers \ {d} : disp'[e] = disp[e]

LEMMA TurnsTo ==
  ASSUME disp \in [Dispatchers -> Dispatch], NEW d \in Dispatchers, NEW r \in Dispatch,
         disp' = [disp EXCEPT ![d] = r]
  PROVE  Turns(d, r)
BY DEF Turns

LEMMA IdleType ==
  /\ Idle \in Dispatch
  /\ [Idle EXCEPT !.pc = "next"] \in Dispatch
  /\ \A h \in Handoffs : Fresh(h) \in Dispatch
BY DEF Idle, Dispatch, DispPcs, Fresh

LEMMA DispGotoStep ==
  ASSUME disp \in [Dispatchers -> Dispatch], NEW d \in Dispatchers, NEW pc \in DispPcs,
         DispGoto(d, pc)
  PROVE  Turns(d, [disp[d] EXCEPT !.pc = pc])
<1>1. [disp[d] EXCEPT !.pc = pc] \in Dispatch
  BY DEF Dispatch
<1>2. disp' = [disp EXCEPT ![d] = [disp[d] EXCEPT !.pc = pc]]
  BY DEF DispGoto
<1> QED BY <1>1, <1>2, TurnsTo

LEMMA ReadUsersStep ==
  ASSUME AlertTypeOK, NEW d \in Dispatchers, ReadUsers(d)
  PROVE  \/ Turns(d, [disp[d] EXCEPT !.pc = "platform", !.todo = PlatformUsers])
         \/ Turns(d, [disp[d] EXCEPT !.pc = "threw"])
<1>1. disp \in [Dispatchers -> Dispatch]
  BY DEF AlertTypeOK
<1>2. [disp[d] EXCEPT !.pc = "platform", !.todo = PlatformUsers] \in Dispatch
  BY <1>1 DEF Dispatch, DispPcs
<1>3. CASE disp' = [disp EXCEPT ![d].pc = "platform", ![d].todo = PlatformUsers]
  <2>1. disp' = [disp EXCEPT ![d] = [disp[d] EXCEPT !.pc = "platform", !.todo = PlatformUsers]]
    BY <1>1, <1>3
  <2> QED BY <1>1, <1>2, <2>1, TurnsTo
<1>4. CASE DispGoto(d, "threw")
  BY <1>1, <1>4, DispGotoStep DEF DispPcs
<1> QED BY <1>3, <1>4 DEF ReadUsers

LEMMA FindNoteStep ==
  ASSUME AlertTypeOK, NEW d \in Dispatchers, NEW u \in PlatformUsers, FindNote(d, u)
  PROVE  \/ /\ u \in notes[disp[d].h]
            /\ Turns(d, [disp[d] EXCEPT !.todo = disp[d].todo \ {u}])
         \/ Turns(d, [disp[d] EXCEPT !.todo = disp[d].todo \ {u}, !.u = u, !.pc = "save"])
<1>1. disp \in [Dispatchers -> Dispatch]
  BY DEF AlertTypeOK
<1> DEFINE a == [disp[d] EXCEPT !.todo = disp[d].todo \ {u}]
           b == [disp[d] EXCEPT !.todo = disp[d].todo \ {u}, !.u = u, !.pc = "save"]
<1>2. a \in Dispatch /\ b \in Dispatch
  BY <1>1 DEF Dispatch, DispPcs
<1>3. CASE u \in notes[disp[d].h]
  <2>1. disp' = [disp EXCEPT ![d] = a]
    BY <1>1, <1>3 DEF FindNote
  <2> QED BY <1>1, <1>2, <1>3, <2>1, TurnsTo
<1>4. CASE u \notin notes[disp[d].h]
  <2>1. disp' = [disp EXCEPT ![d] = b]
    BY <1>1, <1>4 DEF FindNote
  <2> QED BY <1>1, <1>2, <2>1, TurnsTo
<1> QED BY <1>3, <1>4

LEMMA SaveNoteStep ==
  ASSUME AlertTypeOK, DispatchersOK, NEW d \in Dispatchers, SaveNote(d)
  PROVE  LET h == disp[d].h u == disp[d].u
             a == [disp[d] EXCEPT !.pc = "platform", !.u = None]
             b == [disp[d] EXCEPT !.pc = "platform", !.u = None, !.created = disp[d].created \cup {u}]
         IN /\ h \in Handoffs /\ u \in PlatformUsers
            /\ \/ u \in notes[h] /\ Turns(d, a) /\ notes' = notes /\ swallowed' = swallowed
               \/ /\ u \notin notes[h] /\ Turns(d, b)
                  /\ notes' = [notes EXCEPT ![h] = @ \cup {u}] /\ swallowed' = swallowed
               \/ Turns(d, a) /\ notes' = notes /\ swallowed' = swallowed \cup {h}
<1> DEFINE h == disp[d].h
           u == disp[d].u
           a == [disp[d] EXCEPT !.pc = "platform", !.u = None]
           b == [disp[d] EXCEPT !.pc = "platform", !.u = None, !.created = disp[d].created \cup {u}]
<1>1. disp \in [Dispatchers -> Dispatch]
  BY DEF AlertTypeOK
<1>2. h \in Handoffs /\ u \in PlatformUsers
  BY DEF SaveNote, DispatchersOK, DispOK
<1>3. a \in Dispatch /\ b \in Dispatch
  BY <1>1, <1>2 DEF Dispatch, DispPcs
<1>4. [disp EXCEPT ![d].pc = "platform", ![d].u = None] = [disp EXCEPT ![d] = a]
  BY <1>1
<1>5. [disp EXCEPT ![d].pc = "platform", ![d].u = None, ![d].created = @ \cup {u}]
        = [disp EXCEPT ![d] = b]
  BY <1>1 DEF Dispatch
<1>6. /\ disp' = [disp EXCEPT ![d] = a] => Turns(d, a)
      /\ disp' = [disp EXCEPT ![d] = b] => Turns(d, b)
  BY <1>1, <1>3, TurnsTo
<1> HIDE DEF a, b
<1>7. \/ u \in notes[h] /\ disp' = [disp EXCEPT ![d] = a] /\ notes' = notes /\ swallowed' = swallowed
      \/ /\ u \notin notes[h] /\ disp' = [disp EXCEPT ![d] = b]
         /\ notes' = [notes EXCEPT ![h] = @ \cup {u}] /\ swallowed' = swallowed
      \/ disp' = [disp EXCEPT ![d] = a] /\ notes' = notes /\ swallowed' = swallowed \cup {h}
  BY <1>4, <1>5 DEF SaveNote
<1> QED BY <1>2, <1>6, <1>7 DEF a, b

LEMMA PlatformFailsStep ==
  ASSUME AlertTypeOK, NEW d \in Dispatchers, PlatformFails(d)
  PROVE  Turns(d, [disp[d] EXCEPT !.pc = "email", !.todo = {}, !.created = {}])
<1>1. disp \in [Dispatchers -> Dispatch]
  BY DEF AlertTypeOK
<1>2. [disp[d] EXCEPT !.pc = "email", !.todo = {}, !.created = {}] \in Dispatch
  BY <1>1 DEF Dispatch, DispPcs
<1>3. disp' = [disp EXCEPT ![d] = [disp[d] EXCEPT !.pc = "email", !.todo = {}, !.created = {}]]
  BY <1>1 DEF PlatformFails
<1> QED BY <1>1, <1>2, <1>3, TurnsTo

LEMMA EmitToastsStep ==
  ASSUME AlertTypeOK, NEW d \in Dispatchers, EmitToasts(d)
  PROVE  Turns(d, [disp[d] EXCEPT !.pc = "email", !.created = {}])
<1>1. disp \in [Dispatchers -> Dispatch]
  BY DEF AlertTypeOK
<1>2. [disp[d] EXCEPT !.pc = "email", !.created = {}] \in Dispatch
  BY <1>1 DEF Dispatch, DispPcs
<1>3. disp' = [disp EXCEPT ![d] = [disp[d] EXCEPT !.pc = "email", !.created = {}]]
  BY <1>1 DEF EmitToasts
<1> QED BY <1>1, <1>2, <1>3, TurnsTo

LEMMA StartEmailsStep ==
  ASSUME AlertTypeOK, NEW d \in Dispatchers, StartEmails(d)
  PROVE  \/ /\ Turns(d, [disp[d] EXCEPT !.pc = "emails"]) /\ swallowed' = swallowed
            /\ send' \in [Callers -> [Keys -> SendPcs]]
            /\ \A c \in Callers \ {d}, k \in Keys : send'[c][k] = send[c][k]
            /\ \A k \in Keys : send'[d][k] = IF k \in {disp[d].h} \X EmailUsers
                                             THEN "create" ELSE send[d][k]
            /\ faults' = faults
         \/ /\ Turns(d, [disp[d] EXCEPT !.pc = "notified"])
            /\ swallowed' = swallowed \cup {disp[d].h} /\ send' = send /\ Fault
<1>1. disp \in [Dispatchers -> Dispatch] /\ d \in Callers
  BY Who DEF AlertTypeOK
<1> DEFINE new == [k \in Keys |-> IF k \in {disp[d].h} \X EmailUsers THEN "create" ELSE send[d][k]]
<1>2. CASE send' = [send EXCEPT ![d] = [k \in Keys |->
                         IF k \in {disp[d].h} \X EmailUsers THEN "create" ELSE @[k]]]
           /\ DispGoto(d, "emails") /\ UNCHANGED <<faults, swallowed>>
  <2>1. Turns(d, [disp[d] EXCEPT !.pc = "emails"])
    BY <1>1, <1>2, DispGotoStep DEF DispPcs
  <2>2. send \in [Callers -> [Keys -> SendPcs]]
    BY DEF AlertTypeOK, MailTypeOK
  <2>3. new \in [Keys -> SendPcs]
    BY <1>1, <2>2 DEF SendPcs
  <2>4. send' = [send EXCEPT ![d] = new]
    BY <1>2
  <2>5. \A k \in Keys : new[k] = IF k \in {disp[d].h} \X EmailUsers THEN "create" ELSE send[d][k]
    OBVIOUS
  <2> HIDE DEF new
  <2>6. /\ send' \in [Callers -> [Keys -> SendPcs]] /\ send'[d] = new
        /\ \A c \in Callers \ {d} : send'[c] = send[c]
    BY <1>1, <2>2, <2>3, <2>4
  <2> QED BY <1>2, <2>1, <2>5, <2>6
<1>3. CASE Fault /\ DispGoto(d, "notified") /\ swallowed' = swallowed \cup {disp[d].h} /\ UNCHANGED send
  BY <1>1, <1>3, DispGotoStep DEF DispPcs
<1> QED BY <1>2, <1>3 DEF StartEmails

LEMMA EmailsSettledStep ==
  ASSUME AlertTypeOK, NEW d \in Dispatchers, EmailsSettled(d)
  PROVE  /\ Turns(d, [disp[d] EXCEPT !.pc = "notified"])
         /\ send' \in [Callers -> [Keys -> SendPcs]]
         /\ \A c \in Callers \ {d}, k \in Keys : send'[c][k] = send[c][k]
         /\ \A k \in Keys : send'[d][k] = "idle"
<1>1. disp \in [Dispatchers -> Dispatch] /\ d \in Callers
  BY Who DEF AlertTypeOK
<1>2. Turns(d, [disp[d] EXCEPT !.pc = "notified"])
  BY <1>1, DispGotoStep DEF EmailsSettled, DispPcs
<1> QED BY <1>1, <1>2 DEF EmailsSettled, AlertTypeOK, MailTypeOK, SendPcs

\* The steps around notifyNewHandoff: a dispatcher begins, moves on to its next
\* row, or is done.
LEMMA AroundSteps ==
  ASSUME AlertTypeOK, NEW d \in Dispatchers
  PROVE  /\ d \in Handoffs /\ RequestHandoff(d) => Turns(d, Fresh(d))
         /\ SweepClaim(d) => Turns(d, [disp[d] EXCEPT !.pc = "next"])
         /\ SweepNext(d) => Turns(d, Idle) \/ \E h \in Handoffs : Turns(d, Fresh(h))
         /\ SweepSettle(d) => Turns(d, [Idle EXCEPT !.pc = "next"])
         /\ SweepSettleFails(d) => Turns(d, Idle) \/ Turns(d, [disp[d] EXCEPT !.pc = "threw"])
         /\ MarkDispatched(d) => Turns(d, Idle)
         /\ CallSiteGivesUp(d) => Turns(d, Idle)
         /\ DispatcherCrash(d) => Turns(d, Idle)
<1>1. disp \in [Dispatchers -> Dispatch]
  BY DEF AlertTypeOK
<1>2. \A r \in Dispatch : disp' = [disp EXCEPT ![d] = r] => Turns(d, r)
  BY <1>1, TurnsTo
<1>3. d \in Handoffs /\ RequestHandoff(d) => Turns(d, Fresh(d))
  BY <1>2, IdleType DEF RequestHandoff
<1>4. SweepClaim(d) => Turns(d, [disp[d] EXCEPT !.pc = "next"])
  BY <1>1, DispGotoStep DEF SweepClaim, DispPcs
<1>5. SweepNext(d) => Turns(d, Idle) \/ \E h \in Handoffs : Turns(d, Fresh(h))
  BY <1>2, IdleType DEF SweepNext
<1>6. SweepSettle(d) => Turns(d, [Idle EXCEPT !.pc = "next"])
  BY <1>2, IdleType DEF SweepSettle
<1>7. SweepSettleFails(d) => Turns(d, Idle) \/ Turns(d, [disp[d] EXCEPT !.pc = "threw"])
  BY <1>1, <1>2, IdleType, DispGotoStep DEF SweepSettleFails, DispPcs
<1>8. /\ MarkDispatched(d) => Turns(d, Idle)
      /\ CallSiteGivesUp(d) => Turns(d, Idle)
      /\ DispatcherCrash(d) => Turns(d, Idle)
  BY <1>2, IdleType DEF MarkDispatched, CallSiteGivesUp, DispatcherCrash
<1> QED BY <1>3, <1>4, <1>5, <1>6, <1>7, <1>8

\* A step takes the dispatchers on only in these ways.
LEMMA DispType ==
  ASSUME AlertTypeOK, DispatchersOK, Next
  PROVE  disp' \in [Dispatchers -> Dispatch]
<1>1. ASSUME NEW d \in Dispatchers, NEW r, Turns(d, r) PROVE disp' \in [Dispatchers -> Dispatch]
  BY <1>1 DEF Turns
<1>2. ASSUME disp' = disp PROVE disp' \in [Dispatchers -> Dispatch]
  BY <1>2 DEF AlertTypeOK
<1>3. ASSUME NEW h \in Handoffs, RequestHandoff(h) \/ Elapse(h) \/ MarkDispatched(h) \/ CallSiteGivesUp(h)
      PROVE  disp' \in [Dispatchers -> Dispatch]
  BY <1>1, <1>2, <1>3, AroundSteps, Who DEF Elapse
<1>4. ASSUME NEW w \in Sweepers, SweepStep(w) \/ SweepSettleFails(w)
      PROVE  disp' \in [Dispatchers -> Dispatch]
  BY <1>1, <1>4, AroundSteps, Who DEF SweepStep
<1>5. ASSUME NEW d \in Dispatchers, NotifyStep(d)
      PROVE  disp' \in [Dispatchers -> Dispatch]
  <2>1. CASE ReadUsers(d)
    BY <1>1, <2>1, ReadUsersStep
  <2>2. CASE SaveNote(d)
    BY <1>1, <2>2, SaveNoteStep
  <2>3. CASE EmitToasts(d)
    BY <1>1, <2>3, EmitToastsStep
  <2>4. CASE StartEmails(d)
    BY <1>1, <2>4, StartEmailsStep
  <2>5. CASE EmailsSettled(d)
    BY <1>1, <2>5, EmailsSettledStep
  <2>6. CASE \E u \in PlatformUsers : FindNote(d, u)
    BY <1>1, <2>6, FindNoteStep
  <2> QED BY <1>5, <2>1, <2>2, <2>3, <2>4, <2>5, <2>6 DEF NotifyStep
<1>6. ASSUME NEW d \in Dispatchers, PlatformFails(d) \/ DispatcherCrash(d)
      PROVE  disp' \in [Dispatchers -> Dispatch]
  BY <1>1, <1>6, AroundSteps, PlatformFailsStep
<1>7. ASSUME \/ \E k \in Retained : BookingMail(k)
             \/ \E k \in Keys : MailerDone(k)
             \/ Ledger \/ MailCrash
      PROVE  disp' = disp
  BY <1>7 DEF BookingMail, MailerDone, Ledger, MailCrash, alertVars
<1> QED BY <1>2, <1>3, <1>4, <1>5, <1>6, <1>7 DEF Next

-----------------------------------------------------------------------------
(* The ledger under the steps of the whole system.                         *)

\* What a step does to the ledger: nothing, or one of these.
LEMMA LedgerCases ==
  ASSUME AlertTypeOK, Next
  PROVE  \/ UNCHANGED <<ledger, send, retry, taken, unknown>> /\ (faults' = faults \/ Fault)
         \/ \E k \in Keys, pc \in {"idle", "create"} :
              /\ Goto(Mailer, k, pc) /\ send[Mailer][k] \notin Holding
              /\ UNCHANGED <<ledger, retry, faults, taken, unknown, disp>>
         \/ \E d \in Dispatchers : StartEmails(d) \/ EmailsSettled(d)
         \/ Ledger
         \/ /\ MailCrash \/ \E d \in Dispatchers : DispatcherCrash(d)
            /\ \E c \in Callers : DropSends(c)
<1>1. ASSUME NEW h \in Handoffs, RequestHandoff(h) \/ Elapse(h) \/ MarkDispatched(h) \/ CallSiteGivesUp(h)
      PROVE  UNCHANGED <<ledger, send, retry, taken, unknown>> /\ (faults' = faults \/ Fault)
  BY <1>1 DEF RequestHandoff, Elapse, MarkDispatched, CallSiteGivesUp, mailVars
<1>2. ASSUME NEW w \in Sweepers, SweepStep(w) \/ SweepSettleFails(w)
      PROVE  UNCHANGED <<ledger, send, retry, taken, unknown>> /\ (faults' = faults \/ Fault)
  BY <1>2 DEF SweepStep, SweepClaim, SweepNext, SweepSettle, SweepSettleFails, mailVars
<1>3. ASSUME NEW d \in Dispatchers, NotifyStep(d) \/ PlatformFails(d)
      PROVE  \/ UNCHANGED <<ledger, send, retry, taken, unknown>> /\ (faults' = faults \/ Fault)
             \/ StartEmails(d) \/ EmailsSettled(d)
  BY <1>3 DEF NotifyStep, PlatformFails, ReadUsers, SaveNote, EmitToasts, FindNote, mailVars
<1>4. ASSUME NEW k \in Retained, BookingMail(k)
      PROVE  /\ k \in Keys /\ Goto(Mailer, k, "create") /\ send[Mailer][k] \notin Holding
             /\ UNCHANGED <<ledger, retry, faults, taken, unknown, disp>>
  BY <1>4, Who DEF BookingMail, Holding
<1>5. ASSUME NEW k \in Keys, MailerDone(k)
      PROVE  /\ Goto(Mailer, k, "idle") /\ send[Mailer][k] \notin Holding
             /\ UNCHANGED <<ledger, retry, faults, taken, unknown, disp>>
  BY <1>5 DEF MailerDone, Holding, Settled, alertVars
<1>6. ASSUME MailCrash \/ \E d \in Dispatchers : DispatcherCrash(d)
      PROVE  \E c \in Callers : DropSends(c)
  BY <1>6, Who DEF MailCrash, DispatcherCrash, RetrierCrash
<1>7. CASE \E h \in Handoffs : RequestHandoff(h) \/ Elapse(h) \/ MarkDispatched(h) \/ CallSiteGivesUp(h)
  BY <1>1, <1>7
<1>8. CASE \E w \in Sweepers : SweepStep(w) \/ SweepSettleFails(w)
  BY <1>2, <1>8
<1>9. CASE \E d \in Dispatchers : NotifyStep(d) \/ PlatformFails(d)
  BY <1>3, <1>9
<1>10. CASE \E k \in Retained : BookingMail(k)
  BY <1>4, <1>10
<1>11. CASE \E k \in Keys : MailerDone(k)
  BY <1>5, <1>11
<1> QED BY <1>6, <1>7, <1>8, <1>9, <1>10, <1>11 DEF Next

LEMMA LedgerStep ==
  ASSUME AlertTypeOK, LedgerOK, SendsBelong, DispatchersOK, Next
  PROVE  LedgerOK'
<1>1. MailTypeOK
  BY DEF AlertTypeOK
<1>2. CASE UNCHANGED <<ledger, send, retry, taken, unknown>>
  <2>1. ASSUME NEW l \in Keys PROVE KeyOK(l)'
    BY <1>2, KeyQuiet DEF LedgerOK
  <2> QED BY <2>1 DEF LedgerOK
<1>3. ASSUME NEW k \in Keys, NEW pc \in {"idle", "create"},
             Goto(Mailer, k, pc), send[Mailer][k] \notin Holding,
             UNCHANGED <<ledger, retry, faults, taken, unknown, disp>>
      PROVE  LedgerOK'
  BY <1>1, <1>3, GotoQuiet, Who
<1>4. ASSUME NEW d \in Dispatchers, StartEmails(d) PROVE LedgerOK'
  <2>1. \A k \in Keys : send[d][k] = "idle"
    BY <1>4 DEF SendsBelong, StartEmails
  <2>2. UNCHANGED <<ledger, taken, unknown>>
    BY <1>4 DEF StartEmails
  <2>3. \A c \in Callers, l \in Keys :
          \/ send'[c][l] = send[c][l]
          \/ send[c][l] = "idle" /\ send'[c][l] = "create"
    BY <1>4, <2>1, StartEmailsStep
  <2>4. ASSUME NEW l \in Keys PROVE KeyOK(l)'
    BY <2>2, <2>3, KeyQuiet DEF LedgerOK, Holding
  <2> QED BY <2>4 DEF LedgerOK
<1>5. ASSUME NEW d \in Dispatchers, EmailsSettled(d) PROVE LedgerOK'
  <2>1. \A k \in Keys : send[d][k] \notin Holding
    BY <1>5 DEF SendsBelong, EmailsSettled, Settled, Holding
  <2>2. UNCHANGED <<ledger, taken, unknown>>
    BY <1>5 DEF EmailsSettled
  <2>3. \A c \in Callers, l \in Keys :
          \/ send'[c][l] = send[c][l]
          \/ send[c][l] \notin Holding /\ send'[c][l] = "idle"
    BY <1>5, <2>1, EmailsSettledStep
  <2>4. ASSUME NEW l \in Keys PROVE KeyOK(l)'
    BY <2>2, <2>3, KeyQuiet DEF LedgerOK, Holding
  <2> QED BY <2>4 DEF LedgerOK
<1>6. CASE Ledger
  BY <1>1, <1>6, MailStepKeys DEF Ledger
<1>7. CASE \E c \in Callers : DropSends(c)
  BY <1>1, <1>7, DropSendsKeys
<1> QED BY <1>2, <1>3, <1>4, <1>5, <1>6, <1>7, LedgerCases

\* A row that was sent or failed is never again one that was not tried.
LEMMA KnownStays ==
  ASSUME AlertTypeOK, Next, NEW k \in Keys, ledger[k].status \in Known
  PROVE  ledger'[k].status \in Known
<1>1. CASE ledger' = ledger
  BY <1>1
<1>2. CASE Ledger
  <2>1. MailTypeOK
    BY DEF AlertTypeOK
  <2>2. ASSUME NEW c \in Callers, NEW l \in Keys, SendStep(c, l) \/ SendThrows(c, l)
        PROVE  ledger'[k].status \in Known
    BY <2>1, <2>2 DEF SendStep, SendThrows, FindOrCreate, LockRow, CallProvider, SaveOutcome,
                      MailTypeOK, Row, Known
  <2>3. ASSUME NEW l \in Keys, MailElapse(l) PROVE ledger'[k].status \in Known
    BY <2>1, <2>3 DEF MailElapse, MailTypeOK, Row
  <2>4. ASSUME NEW r \in Retriers, RetryStep(r) PROVE ledger'[k].status \in Known
    BY <2>1, <2>4, RetrySettleStep DEF RetryStep, RetrySelect, RetryStart
  <2> QED BY <1>2, <2>2, <2>3, <2>4 DEF Ledger, MailStep
<1> QED BY <1>1, <1>2, LedgerCases DEF StartEmails, EmailsSettled, DropSends

\* A dispatcher that waits for its emails takes no other step, except to die.
LEMMA EmailsWait ==
  ASSUME AlertTypeOK, DispatchersOK, Next, NEW d \in Dispatchers, disp[d].pc = "emails",
         ~ EmailsSettled(d), ~ DispatcherCrash(d)
  PROVE  disp'[d] = disp[d]
<1>1. ASSUME NEW e \in Dispatchers, NEW r, Turns(e, r), disp[e].pc # "emails"
      PROVE  disp'[d] = disp[d]
  BY <1>1 DEF Turns
<1>2. ASSUME NEW h \in Handoffs, RequestHandoff(h) PROVE disp'[d] = disp[d]
  <2>1. h \in Dispatchers /\ disp[h].pc = "idle"
    BY <1>2, Who DEF DispatchersOK, DispOK, RequestHandoff
  <2>2. Turns(h, Fresh(h))
    BY <1>2, <2>1, AroundSteps
  <2> QED BY <1>1, <2>1, <2>2
<1>3. ASSUME NEW h \in Handoffs, MarkDispatched(h) \/ CallSiteGivesUp(h)
      PROVE  disp'[d] = disp[d]
  <2>1. h \in Dispatchers /\ disp[h].pc # "emails"
    BY <1>3, Who DEF MarkDispatched, CallSiteGivesUp
  <2>2. Turns(h, Idle)
    BY <1>3, <2>1, AroundSteps
  <2> QED BY <1>1, <2>1, <2>2
<1>4. ASSUME NEW w \in Sweepers, SweepStep(w) \/ SweepSettleFails(w)
      PROVE  disp'[d] = disp[d]
  <2>1. w \in Dispatchers /\ disp[w].pc # "emails"
    BY <1>4, Who DEF SweepStep, SweepClaim, SweepNext, SweepSettle, SweepSettleFails
  <2>2. \E r : Turns(w, r)
    BY <1>4, <2>1, AroundSteps DEF SweepStep
  <2> QED BY <1>1, <2>1, <2>2
<1>5. ASSUME NEW e \in Dispatchers, NotifyStep(e) \/ PlatformFails(e), ~ EmailsSettled(e)
      PROVE  disp'[d] = disp[d]
  <2>1. disp[e].pc # "emails"
    BY <1>5 DEF NotifyStep, PlatformFails, ReadUsers, SaveNote, EmitToasts, FindNote, StartEmails
  <2>2. \E r : Turns(e, r)
    <3>1. CASE ReadUsers(e)
      BY <3>1, ReadUsersStep
    <3>2. CASE SaveNote(e)
      BY <3>2, SaveNoteStep
    <3>3. CASE EmitToasts(e)
      BY <3>3, EmitToastsStep
    <3>4. CASE StartEmails(e)
      BY <3>4, StartEmailsStep
    <3>5. CASE \E u \in PlatformUsers : FindNote(e, u)
      BY <3>5, FindNoteStep
    <3>6. CASE PlatformFails(e)
      BY <3>6, PlatformFailsStep
    <3> QED BY <1>5, <3>1, <3>2, <3>3, <3>4, <3>5, <3>6 DEF NotifyStep
  <2> QED BY <1>1, <2>1, <2>2
<1>6. ASSUME NEW e \in Dispatchers, e # d, EmailsSettled(e) \/ DispatcherCrash(e)
      PROVE  disp'[d] = disp[d]
  <2>1. \E r : Turns(e, r)
    <3>1. CASE EmailsSettled(e)
      BY <3>1, EmailsSettledStep
    <3>2. CASE DispatcherCrash(e)
      BY <3>2, AroundSteps
    <3> QED BY <1>6, <3>1, <3>2
  <2> QED BY <1>6, <2>1 DEF Turns
<1>7. ASSUME \/ \E k \in Retained : BookingMail(k)
             \/ \E k \in Keys : MailerDone(k)
             \/ \E h \in Handoffs : Elapse(h)
             \/ Ledger \/ MailCrash
      PROVE  disp' = disp
  BY <1>7 DEF BookingMail, MailerDone, Ledger, MailCrash, alertVars, Elapse
<1>8. CASE \E e \in Dispatchers : NotifyStep(e) \/ PlatformFails(e)
  BY <1>5, <1>6, <1>8
<1>9. CASE \E e \in Dispatchers : DispatcherCrash(e)
  BY <1>6, <1>9
<1> QED BY <1>2, <1>3, <1>4, <1>7, <1>8, <1>9 DEF Next

LEMMA BelongStep ==
  ASSUME AlertTypeOK, SendsBelong, DispatchersOK, Next
  PROVE  SendsBelong'
<1>1. MailTypeOK
  BY DEF AlertTypeOK
<1>2. ASSUME \A d \in Dispatchers, k \in Keys :
               send'[d][k] # "idle" => disp'[d].pc = "emails" /\ k \in {disp'[d].h} \X EmailUsers,
             \A r \in Retriers, k \in Keys : send'[r][k] # "idle" => retry'[r].cur = k
      PROVE  SendsBelong'
  BY <1>2 DEF SendsBelong
<1>3. ASSUME NEW d \in Dispatchers, NEW k \in Keys, send'[d][k] # "idle", send[d][k] # "idle",
             ~ EmailsSettled(d), ~ DispatcherCrash(d)
      PROVE  disp'[d].pc = "emails" /\ k \in {disp'[d].h} \X EmailUsers
  BY <1>3, EmailsWait DEF SendsBelong
<1>4. ASSUME NEW d \in Dispatchers, EmailsSettled(d) \/ DispatcherCrash(d), NEW k \in Keys
      PROVE  send'[d][k] = "idle"
  <2>1. CASE EmailsSettled(d)
    BY <2>1, EmailsSettledStep
  <2>2. CASE DispatcherCrash(d)
    BY <1>1, <2>2, DropSendsStep, Who DEF DispatcherCrash
  <2> QED BY <1>4, <2>1, <2>2
<1>5. ASSUME NEW d \in Dispatchers, NEW k \in Keys, send'[d][k] # "idle", send[d][k] = "idle"
      PROVE  StartEmails(d)
  <2>1. CASE send' = send
    BY <1>5, <2>1
  <2>2. ASSUME NEW l \in Keys, NEW pc \in {"idle", "create"}, Goto(Mailer, l, pc) PROVE FALSE
    BY <1>1, <1>5, <2>2, GotoStep, Who DEF SendPcs
  <2>3. ASSUME NEW e \in Dispatchers, StartEmails(e) PROVE e = d
    BY <1>5, <2>3, StartEmailsStep, Who
  <2>4. ASSUME NEW e \in Dispatchers, EmailsSettled(e) PROVE FALSE
    BY <1>5, <2>4, EmailsSettledStep, Who
  <2>5. CASE Ledger
    <3>1. ASSUME NEW c \in Callers, NEW l \in Keys, SendStep(c, l) \/ SendThrows(c, l) PROVE FALSE
      <4>1. \E pc \in SendPcs : Goto(c, l, pc)
        BY <3>1 DEF SendStep, FindOrCreate, LockRow, CallProvider, SaveOutcome, SendThrows, SendPcs
      <4>2. send[c][l] # "idle"
        BY <3>1 DEF SendStep, FindOrCreate, LockRow, CallProvider, SaveOutcome, SendThrows
      <4>3. d \in Callers
        BY Who
      <4> QED BY <1>1, <1>5, <4>1, <4>2, <4>3, GotoStep
    <3>2. ASSUME NEW l \in Keys, MailElapse(l) PROVE FALSE
      BY <1>5, <3>2 DEF MailElapse
    <3>3. ASSUME NEW r \in Retriers, RetryStep(r) PROVE FALSE
      <4>1. r \in Callers /\ d \in Callers /\ r # d
        BY Who
      <4>2. CASE RetrySelect(r)
        BY <1>5, <4>2 DEF RetrySelect
      <4>3. CASE RetrySettle(r)
        BY <1>1, <1>5, <4>1, <4>3, RetrySettleStep, GotoStep DEF SendPcs
      <4>4. ASSUME NEW l \in Keys, RetryStart(r, l) PROVE FALSE
        BY <1>1, <1>5, <4>1, <4>4, GotoStep DEF SendPcs, RetryStart
      <4> QED BY <3>3, <4>2, <4>3, <4>4 DEF RetryStep
    <3> QED BY <2>5, <3>1, <3>2, <3>3 DEF Ledger, MailStep
  <2>6. ASSUME NEW c \in Callers, DropSends(c) PROVE FALSE
    BY <1>1, <1>5, <2>6, DropSendsStep, Who
  <2> QED BY <2>1, <2>2, <2>3, <2>4, <2>5, <2>6, LedgerCases
<1>6. ASSUME NEW d \in Dispatchers, NEW k \in Keys, send'[d][k] # "idle", send[d][k] = "idle"
      PROVE  disp'[d].pc = "emails" /\ k \in {disp'[d].h} \X EmailUsers
  <2>1. StartEmails(d)
    BY <1>5, <1>6
  <2>2. Turns(d, [disp[d] EXCEPT !.pc = "emails"]) /\ k \in {disp[d].h} \X EmailUsers
    BY <1>6, <2>1, StartEmailsStep
  <2>3. disp'[d] = [disp[d] EXCEPT !.pc = "emails"] /\ disp[d] \in Dispatch
    BY <2>2 DEF Turns, AlertTypeOK
  <2>4. disp'[d].pc = "emails" /\ disp'[d].h = disp[d].h
    BY <2>3 DEF Dispatch
  <2> QED BY <2>2, <2>4
<1>7. ASSUME NEW r \in Retriers, NEW k \in Keys, send'[r][k] # "idle" PROVE retry'[r].cur = k
  <2>0. r \in Callers /\ r # Mailer /\ r \notin Dispatchers
    BY Who
  <2>1. ASSUME send'[r][k] = send[r][k], retry'[r] = retry[r] PROVE retry'[r].cur = k
    BY <1>7, <2>1 DEF SendsBelong
  <2>2. CASE UNCHANGED <<send, retry>>
    BY <2>1, <2>2
  <2>3. ASSUME NEW l \in Keys, NEW pc \in {"idle", "create"}, Goto(Mailer, l, pc), retry' = retry
        PROVE  retry'[r].cur = k
    <3>1. send'[r][k] = send[r][k]
      BY <1>1, <2>0, <2>3, GotoStep, Who DEF SendPcs
    <3> QED BY <2>1, <2>3, <3>1
  <2>4. ASSUME NEW e \in Dispatchers, StartEmails(e) \/ EmailsSettled(e) PROVE retry'[r].cur = k
    <3>1. send'[r][k] = send[r][k]
      BY <2>0, <2>4, StartEmailsStep, EmailsSettledStep
    <3>2. retry' = retry
      BY <2>4 DEF StartEmails, EmailsSettled
    <3> QED BY <2>1, <3>1, <3>2
  <2>5. CASE Ledger
    <3>1. ASSUME NEW c \in Callers, NEW l \in Keys, SendStep(c, l) \/ SendThrows(c, l)
          PROVE  retry'[r].cur = k
      <4>1. \E pc \in SendPcs : Goto(c, l, pc)
        BY <3>1 DEF SendStep, FindOrCreate, LockRow, CallProvider, SaveOutcome, SendThrows, SendPcs
      <4>2. send[c][l] # "idle" /\ retry' = retry
        BY <3>1 DEF SendStep, FindOrCreate, LockRow, CallProvider, SaveOutcome, SendThrows
      <4>3. send[r][k] # "idle"
        BY <1>1, <1>7, <2>0, <4>1, <4>2, GotoStep
      <4> QED BY <4>2, <4>3 DEF SendsBelong
    <3>2. ASSUME NEW l \in Keys, MailElapse(l) PROVE retry'[r].cur = k
      BY <2>1, <3>2 DEF MailElapse
    <3>3. ASSUME NEW q \in Retriers, RetryStep(q) PROVE retry'[r].cur = k
      <4>1. q \in Callers
        BY Who
      <4>2. CASE RetrySelect(q)
        BY <1>1, <1>7, <4>2 DEF RetrySelect, SendsBelong, MailTypeOK
      <4>3. CASE RetrySettle(q)
        <5>1. /\ retry[q].cur \in Keys /\ Goto(q, retry[q].cur, "idle")
              /\ retry' = [retry EXCEPT ![q].cur = NoKey]
          BY <1>1, <4>3, RetrySettleStep
        <5>2. /\ send'[q][retry[q].cur] = "idle"
              /\ \A d \in Callers, l \in Keys : <<d, l>> # <<q, retry[q].cur>> => send'[d][l] = send[d][l]
          BY <1>1, <4>1, <5>1, GotoStep DEF SendPcs
        <5>3. r # q
          BY <1>7, <2>0, <5>2 DEF SendsBelong
        <5> QED BY <1>1, <1>7, <2>0, <5>1, <5>2, <5>3 DEF SendsBelong, MailTypeOK
      <4>4. ASSUME NEW l \in Keys, RetryStart(q, l) PROVE retry'[r].cur = k
        <5>1. /\ \A d \in Callers, m \in Keys : <<d, m>> # <<q, l>> => send'[d][m] = send[d][m]
          BY <1>1, <4>1, <4>4, GotoStep DEF SendPcs, RetryStart
        <5>2. retry[q].cur = NoKey /\ retry'[q].cur = l /\ (r # q => retry'[r] = retry[r])
          BY <1>1, <4>4 DEF RetryStart, MailTypeOK
        <5>3. CASE r = q
          BY <1>7, <2>0, <5>1, <5>2, <5>3, NoKeyAssumption DEF SendsBelong
        <5>4. CASE r # q
          BY <1>7, <2>0, <2>1, <5>1, <5>2, <5>4
        <5> QED BY <5>3, <5>4
      <4> QED BY <3>3, <4>2, <4>3, <4>4 DEF RetryStep
    <3> QED BY <2>5, <3>1, <3>2, <3>3 DEF Ledger, MailStep
  <2>6. ASSUME NEW e \in Dispatchers, DispatcherCrash(e) PROVE retry'[r].cur = k
    <3>1. send'[r][k] = send[r][k]
      BY <1>1, <2>0, <2>6, DropSendsStep, Who DEF DispatcherCrash
    <3> QED BY <2>1, <2>6, <3>1 DEF DispatcherCrash
  <2>7. CASE MailCrash
    <3>1. ASSUME NEW q \in Retriers, RetrierCrash(q) PROVE retry'[r].cur = k
      <4>1. q \in Callers /\ DropSends(q)
        BY <3>1, Who DEF RetrierCrash
      <4>2. r # q /\ send'[r][k] = send[r][k]
        BY <1>1, <1>7, <2>0, <4>1, DropSendsStep
      <4>3. retry'[r] = retry[r]
        BY <1>1, <3>1, <4>2 DEF RetrierCrash, MailTypeOK
      <4> QED BY <2>1, <4>2, <4>3
    <3>2. ASSUME DropSends(Mailer), UNCHANGED retry PROVE retry'[r].cur = k
      <4>1. send'[r][k] = send[r][k]
        BY <1>1, <2>0, <3>2, DropSendsStep, Who
      <4> QED BY <2>1, <3>2, <4>1
    <3> QED BY <2>7, <3>1, <3>2 DEF MailCrash
  <2>8. CASE ~ MailCrash /\ ~ (\E e \in Dispatchers : DispatcherCrash(e))
    <3>1. \/ UNCHANGED <<send, retry>>
          \/ \E l \in Keys, pc \in {"idle", "create"} : Goto(Mailer, l, pc) /\ retry' = retry
          \/ \E d \in Dispatchers : StartEmails(d) \/ EmailsSettled(d)
          \/ Ledger
      BY <2>8, LedgerCases
    <3> QED BY <2>2, <2>3, <2>4, <2>5, <3>1
  <2> QED BY <2>6, <2>7, <2>8
<1> QED BY <1>2, <1>3, <1>4, <1>6, <1>7

-----------------------------------------------------------------------------
(* Types.                                                                  *)

LEMMA MailType ==
  ASSUME AlertTypeOK, Next
  PROVE  MailTypeOK'
<1>1. MailTypeOK
  BY DEF AlertTypeOK
<1>2. CASE UNCHANGED <<ledger, send, retry, taken, unknown>> /\ (faults' = faults \/ Fault)
  BY <1>1, <1>2, FaultType DEF MailTypeOK
<1>3. ASSUME NEW k \in Keys, NEW pc \in {"idle", "create"}, Goto(Mailer, k, pc),
             UNCHANGED <<ledger, retry, faults, taken, unknown, disp>>
      PROVE  MailTypeOK'
  <2>1. send' \in [Callers -> [Keys -> SendPcs]]
    BY <1>1, <1>3, GotoStep, Who, ZenonT(40) DEF SendPcs
  <2> QED BY <1>1, <1>3, <2>1 DEF MailTypeOK
<1>4. ASSUME NEW d \in Dispatchers, StartEmails(d) \/ EmailsSettled(d) PROVE MailTypeOK'
  <2>1. send' \in [Callers -> [Keys -> SendPcs]]
    <3>1. CASE StartEmails(d)
      BY <1>1, <3>1, StartEmailsStep DEF MailTypeOK
    <3>2. CASE EmailsSettled(d)
      BY <3>2, EmailsSettledStep
    <3> QED BY <1>4, <3>1, <3>2
  <2>2. UNCHANGED <<ledger, retry, taken, unknown>> /\ (faults' = faults \/ Fault)
    BY <1>4 DEF StartEmails, EmailsSettled
  <2> QED BY <1>1, <2>1, <2>2, FaultType DEF MailTypeOK
<1>5. CASE Ledger
  BY <1>1, <1>5, MailStepType DEF Ledger
<1>6. CASE (MailCrash \/ \E d \in Dispatchers : DispatcherCrash(d)) /\ \E c \in Callers : DropSends(c)
  <2>1. PICK c \in Callers : DropSends(c)
    BY <1>6
  <2>2. retry' \in [Retriers -> [todo : SUBSET Keys, cur : Keys \cup {NoKey}]]
    BY <1>1, <1>6 DEF MailCrash, DispatcherCrash, RetrierCrash, MailTypeOK
  <2> QED BY <1>1, <2>1, <2>2, DropSendsStep DEF MailTypeOK
<1> QED BY <1>2, <1>3, <1>4, <1>5, <1>6, LedgerCases

\* The outbox keeps its type; a row is never unmade, and is retired as sent
\* only by a dispatcher that has notified.
LEMMA OutboxStep ==
  ASSUME AlertTypeOK, DispatchersOK, Next
  PROVE  /\ outbox' \in [Handoffs -> Outbox]
         /\ \A h \in Handoffs : outbox'[h].status = "none" => outbox[h].status = "none"
         /\ \A h \in Handoffs : outbox'[h].status = "sent" =>
              \/ outbox[h].status = "sent"
              \/ \E d \in Dispatchers : disp[d].pc = "notified" /\ disp[d].h = h
<1> DEFINE Good(h, r) == /\ r \in Outbox
                         /\ r.status = "none" => outbox[h].status = "none"
                         /\ r.status = "sent" =>
                              \/ outbox[h].status = "sent"
                              \/ \E d \in Dispatchers : disp[d].pc = "notified" /\ disp[d].h = h
<1>1. outbox \in [Handoffs -> Outbox] /\ \A h \in Handoffs : Good(h, outbox[h])
  BY DEF AlertTypeOK
<1>2. ASSUME NEW h \in Handoffs, NEW r, outbox' = [outbox EXCEPT ![h] = r], Good(h, r)
      PROVE  outbox' \in [Handoffs -> Outbox] /\ \A g \in Handoffs : Good(g, outbox'[g])
  BY <1>1, <1>2
<1>3. ASSUME NEW h \in Handoffs, NEW s \in {"none", "pending", "sent", "dead"},
             outbox' = [outbox EXCEPT ![h].status = s],
             s = "none" => outbox[h].status = "none",
             s = "sent" => \/ outbox[h].status = "sent"
                           \/ \E d \in Dispatchers : disp[d].pc = "notified" /\ disp[d].h = h
      PROVE  outbox' \in [Handoffs -> Outbox] /\ \A g \in Handoffs : Good(g, outbox'[g])
  <2> DEFINE r == [outbox[h] EXCEPT !.status = s]
  <2>1. r \in Outbox /\ r.status = s
    BY <1>1 DEF Outbox
  <2>2. outbox' = [outbox EXCEPT ![h] = r]
    BY <1>3
  <2>3. Good(h, r)
    BY <1>3, <2>1
  <2> HIDE DEF Good, r
  <2> QED BY <1>2, <2>2, <2>3
<1>4. ASSUME outbox' = outbox
      PROVE  outbox' \in [Handoffs -> Outbox] /\ \A g \in Handoffs : Good(g, outbox'[g])
  BY <1>1, <1>4
<1>5. \A h \in Handoffs : outbox[h].status \in {"none", "pending", "sent", "dead"}
  BY <1>1 DEF Outbox
<1>6. SUFFICES outbox' \in [Handoffs -> Outbox] /\ \A g \in Handoffs : Good(g, outbox'[g])
  OBVIOUS
<1> HIDE DEF Good
<1>7. ASSUME NEW h \in Handoffs, RequestHandoff(h)
      PROVE  outbox' \in [Handoffs -> Outbox] /\ \A g \in Handoffs : Good(g, outbox'[g])
  BY <1>3, <1>7 DEF RequestHandoff
<1>8. ASSUME NEW h \in Handoffs, Elapse(h)
      PROVE  outbox' \in [Handoffs -> Outbox] /\ \A g \in Handoffs : Good(g, outbox'[g])
  <2> DEFINE r == [outbox[h] EXCEPT !.due = TRUE]
  <2>1. r \in Outbox /\ r.status = outbox[h].status
    BY <1>1 DEF Outbox
  <2>2. outbox' = [outbox EXCEPT ![h] = r]
    BY <1>8 DEF Elapse
  <2>3. Good(h, r)
    BY <2>1 DEF Good
  <2> QED BY <1>2, <2>2, <2>3
<1>9. ASSUME NEW h \in Handoffs, MarkDispatched(h)
      PROVE  outbox' \in [Handoffs -> Outbox] /\ \A g \in Handoffs : Good(g, outbox'[g])
  <2>1. h \in Dispatchers /\ disp[h].pc = "notified" /\ disp[h].h = h
    BY <1>9, Who DEF MarkDispatched, DispatchersOK, DispOK
  <2>2. CASE outbox[h].status = "pending"
    <3>1. outbox' = [outbox EXCEPT ![h].status = "sent"]
      BY <1>9, <2>2 DEF MarkDispatched
    <3> QED BY <1>3, <2>1, <3>1
  <2>3. CASE outbox[h].status # "pending"
    <3>1. outbox' = [outbox EXCEPT ![h].status = outbox[h].status]
      BY <1>9, <2>3 DEF MarkDispatched
    <3> QED BY <1>3, <1>5, <3>1
  <2> QED BY <2>2, <2>3
<1>10. ASSUME NEW w \in Sweepers, SweepClaim(w)
       PROVE  outbox' \in [Handoffs -> Outbox] /\ \A g \in Handoffs : Good(g, outbox'[g])
  <2>1. ASSUME NEW h \in Handoffs PROVE Good(h, outbox'[h])
    <3> DEFINE a == outbox[h].attempts + 1
               r == [outbox[h] EXCEPT !.attempts = a, !.due = FALSE]
    <3>1. a \in Nat /\ outbox[h] \in Outbox
      BY <1>1 DEF Outbox
    <3>2. outbox'[h] = outbox[h] \/ outbox'[h] = r
      BY <1>10 DEF SweepClaim
    <3> HIDE DEF a
    <3>3. r \in Outbox /\ r.status = outbox[h].status
      BY <3>1 DEF Outbox
    <3> HIDE DEF r
    <3> QED BY <1>1, <3>2, <3>3 DEF Good
  <2>2. outbox' = [h \in Handoffs |-> outbox'[h]]
    BY <1>10 DEF SweepClaim
  <2>3. \A h \in Handoffs : outbox'[h] \in Outbox
    BY <2>1 DEF Good
  <2> QED BY <2>1, <2>2, <2>3
<1>11. ASSUME NEW w \in Sweepers, SweepSettle(w)
       PROVE  outbox' \in [Handoffs -> Outbox] /\ \A g \in Handoffs : Good(g, outbox'[g])
  <2>1. w \in Dispatchers /\ disp[w].h \in Handoffs
    BY <1>11, Who DEF SweepSettle, DispatchersOK, DispOK
  <2>2. PICK s : /\ outbox' = [outbox EXCEPT ![disp[w].h].status = s]
                 /\ \/ s = "sent" /\ disp[w].pc = "notified"
                    \/ s = "dead" \/ s = outbox[disp[w].h].status
    BY <1>11 DEF SweepSettle
  <2>3. s \in {"none", "pending", "sent", "dead"}
    BY <1>5, <2>1, <2>2
  <2> QED BY <1>3, <2>1, <2>2, <2>3
<1>12. ASSUME NEW w \in Sweepers, SweepNext(w) \/ SweepSettleFails(w) PROVE outbox' = outbox
  BY <1>12 DEF SweepNext, SweepSettleFails
<1>13. ASSUME NEW h \in Handoffs, CallSiteGivesUp(h) PROVE outbox' = outbox
  BY <1>13 DEF CallSiteGivesUp
<1>14. ASSUME NEW d \in Dispatchers, NotifyStep(d) \/ PlatformFails(d) \/ DispatcherCrash(d)
       PROVE  outbox' = outbox
  BY <1>14 DEF NotifyStep, PlatformFails, DispatcherCrash, ReadUsers, SaveNote, EmitToasts,
               FindNote, StartEmails, EmailsSettled
<1>15. ASSUME \/ \E k \in Retained : BookingMail(k)
              \/ \E k \in Keys : MailerDone(k)
              \/ Ledger \/ MailCrash
       PROVE  outbox' = outbox
  BY <1>15 DEF BookingMail, MailerDone, Ledger, MailCrash, alertVars
<1> QED BY <1>4, <1>7, <1>8, <1>9, <1>10, <1>11, <1>12, <1>13, <1>14, <1>15 DEF Next, SweepStep

\* What the steps do to the notifications, the toasts and the record of errors.
LEMMA NotesStep ==
  ASSUME AlertTypeOK, DispatchersOK, Next
  PROVE  \/ notes' = notes /\ (toasts' = toasts \/ \E d \in Dispatchers : EmitToasts(d))
         \/ toasts' = toasts /\ \E d \in Dispatchers : SaveNote(d)
BY ZenonT(40) DEF Next, RequestHandoff, Elapse, MarkDispatched, CallSiteGivesUp, SweepStep, SweepClaim,
       SweepNext, SweepSettle, SweepSettleFails, NotifyStep, PlatformFails, DispatcherCrash,
       ReadUsers, SaveNote, EmitToasts, FindNote, StartEmails, EmailsSettled, BookingMail,
       MailerDone, Ledger, MailCrash, alertVars

LEMMA SwallowedStep ==
  ASSUME AlertTypeOK, DispatchersOK, Next
  PROVE  swallowed \subseteq swallowed' /\ swallowed' \in SUBSET Handoffs
<1>1. ASSUME NEW d \in Dispatchers,
             SaveNote(d) \/ PlatformFails(d) \/ StartEmails(d) \/ EmailsSettled(d)
      PROVE  swallowed' = swallowed \/ (disp[d].h \in Handoffs /\ swallowed' = swallowed \cup {disp[d].h})
  <2>1. disp[d].h \in Handoffs
    BY <1>1 DEF DispatchersOK, DispOK, SaveNote, PlatformFails, StartEmails, EmailsSettled
  <2> QED BY <1>1, <2>1 DEF SaveNote, PlatformFails, StartEmails, EmailsSettled
<1>2. swallowed \in SUBSET Handoffs
  BY DEF AlertTypeOK
<1>3. \/ swallowed' = swallowed
      \/ \E d \in Dispatchers : SaveNote(d) \/ PlatformFails(d) \/ StartEmails(d) \/ EmailsSettled(d)
  BY DEF Next, RequestHandoff, Elapse, MarkDispatched, CallSiteGivesUp, SweepStep, SweepClaim,
         SweepNext, SweepSettle, SweepSettleFails, NotifyStep, DispatcherCrash,
         ReadUsers, EmitToasts, FindNote, BookingMail, MailerDone, Ledger, MailCrash, alertVars
<1> QED BY <1>1, <1>2, <1>3

LEMMA NotesType ==
  ASSUME AlertTypeOK, DispatchersOK, Next
  PROVE  /\ notes' \in [Handoffs -> SUBSET PlatformUsers]
         /\ \A h \in Handoffs : notes[h] \subseteq notes'[h]
         /\ toasts' \in [Handoffs -> [PlatformUsers -> Nat]]
<1>1. notes \in [Handoffs -> SUBSET PlatformUsers] /\ toasts \in [Handoffs -> [PlatformUsers -> Nat]]
  BY DEF AlertTypeOK
<1>2. ASSUME NEW d \in Dispatchers, EmitToasts(d)
      PROVE  toasts' \in [Handoffs -> [PlatformUsers -> Nat]]
  <2>1. disp[d].h \in Handoffs
    BY <1>2 DEF EmitToasts, DispatchersOK, DispOK
  <2>2. toasts' = [toasts EXCEPT ![disp[d].h] = [u \in PlatformUsers |->
                     IF u \in disp[d].created THEN toasts[disp[d].h][u] + 1 ELSE toasts[disp[d].h][u]]]
    BY <1>2 DEF EmitToasts
  <2>3. [u \in PlatformUsers |->
           IF u \in disp[d].created THEN toasts[disp[d].h][u] + 1 ELSE toasts[disp[d].h][u]]
          \in [PlatformUsers -> Nat]
    BY <1>1, <2>1
  <2> QED BY <1>1, <2>2, <2>3
<1>3. ASSUME NEW d \in Dispatchers, SaveNote(d)
      PROVE  notes' \in [Handoffs -> SUBSET PlatformUsers] /\ \A h \in Handoffs : notes[h] \subseteq notes'[h]
  <2>1. /\ disp[d].h \in Handoffs /\ disp[d].u \in PlatformUsers
        /\ notes' = notes \/ notes' = [notes EXCEPT ![disp[d].h] = @ \cup {disp[d].u}]
    BY <1>3, SaveNoteStep
  <2> DEFINE h == disp[d].h
             n == notes[h] \cup {disp[d].u}
  <2>2. CASE notes' = notes
    BY <1>1, <2>2
  <2>3. CASE notes' = [notes EXCEPT ![h] = n]
    <3>1. n \in SUBSET PlatformUsers /\ notes[h] \subseteq n /\ h \in Handoffs
      BY <1>1, <2>1
    <3> HIDE DEF n, h
    <3> QED BY <1>1, <2>3, <3>1
  <2> QED BY <2>1, <2>2, <2>3
<1> QED BY <1>1, <1>2, <1>3, NotesStep

LEMMA TypeStep ==
  ASSUME AlertTypeOK, DispatchersOK, Next
  PROVE  AlertTypeOK'
<1>1. batch' \in [Sweepers -> [Handoffs -> Nat]]
  <2>1. batch \in [Sweepers -> [Handoffs -> Nat]] /\ NoBatch \in [Handoffs -> Nat]
    BY DEF AlertTypeOK, NoBatch
  <2>2. ASSUME NEW w \in Sweepers, SweepClaim(w) PROVE batch' \in [Sweepers -> [Handoffs -> Nat]]
    <3>1. [h \in Handoffs |-> IF h \in DueRows THEN outbox[h].attempts + 1 ELSE 0] \in [Handoffs -> Nat]
      BY DEF AlertTypeOK, Outbox
    <3> QED BY <2>1, <2>2, <3>1 DEF SweepClaim
  <2>3. ASSUME NEW w \in Sweepers, SweepSettle(w) PROVE batch' \in [Sweepers -> [Handoffs -> Nat]]
    BY <2>1, <2>3 DEF SweepSettle
  <2>4. ASSUME NEW w \in Dispatchers, SweepSettleFails(w) \/ DispatcherCrash(w)
        PROVE  batch' \in [Sweepers -> [Handoffs -> Nat]]
    BY <2>1, <2>4 DEF SweepSettleFails, DispatcherCrash
  <2>5. \/ batch' = batch
        \/ \E w \in Sweepers : SweepClaim(w) \/ SweepSettle(w) \/ SweepSettleFails(w)
        \/ \E d \in Dispatchers : DispatcherCrash(d)
    BY ZenonT(40) DEF Next, RequestHandoff, Elapse, MarkDispatched, CallSiteGivesUp, SweepStep, SweepNext,
           NotifyStep, PlatformFails, ReadUsers, SaveNote, EmitToasts, FindNote, StartEmails,
           EmailsSettled, BookingMail, MailerDone, Ledger, MailCrash, alertVars
  <2> QED BY <2>1, <2>2, <2>3, <2>4, <2>5, Who
<1>2. crashes' \in 0..MaxCrashes /\ work' \in 0..MaxWork
  <2>1. \/ crashes' = crashes \/ (crashes < MaxCrashes /\ crashes' = crashes + 1)
    BY ZenonT(40) DEF Next, RequestHandoff, Elapse, MarkDispatched, CallSiteGivesUp, SweepStep, SweepClaim,
       SweepNext, SweepSettle, SweepSettleFails, NotifyStep, PlatformFails, DispatcherCrash,
       ReadUsers, SaveNote, EmitToasts, FindNote, StartEmails, EmailsSettled, BookingMail,
       MailerDone, Ledger, MailCrash, alertVars
  <2>2. \/ work' = work \/ (work < MaxWork /\ work' = work + 1)
    BY ZenonT(40) DEF Next, RequestHandoff, Elapse, MarkDispatched, CallSiteGivesUp, SweepStep, SweepClaim,
       SweepNext, SweepSettle, SweepSettleFails, NotifyStep, PlatformFails, DispatcherCrash,
       ReadUsers, SaveNote, EmitToasts, FindNote, StartEmails, EmailsSettled, BookingMail,
       MailerDone, Ledger, MailCrash, alertVars
  <2> QED BY <2>1, <2>2, AlertAssumption DEF AlertTypeOK
<1> QED BY <1>1, <1>2, MailType, OutboxStep, DispType, SwallowedStep, NotesType DEF AlertTypeOK

-----------------------------------------------------------------------------
(* What was attempted.                                                     *)

LEMMA AttemptedStays ==
  ASSUME AlertTypeOK, DispatchersOK, Next, NEW h \in Handoffs, Attempted(h)
  PROVE  Attempted(h)'
<1>1. CASE h \in swallowed
  BY <1>1, SwallowedStep DEF Attempted
<1>2. CASE notes[h] = PlatformUsers /\ \A u \in EmailUsers : ledger[<<h, u>>].status \in Known
  <2>1. notes'[h] = PlatformUsers
    BY <1>2, NotesType
  <2>2. \A u \in EmailUsers : ledger'[<<h, u>>].status \in Known
    BY <1>2, KnownStays, Who
  <2> QED BY <2>1, <2>2 DEF Attempted
<1> QED BY <1>1, <1>2 DEF Attempted

\* A dispatcher that takes no step keeps what it has behind it.
LEMMA DispStays ==
  ASSUME AlertTypeOK, DispatchersOK, Next, NEW d \in Dispatchers, disp'[d] = disp[d]
  PROVE  DispOK(d)'
<1>1. DispOK(d)
  BY DEF DispatchersOK
<1>2. disp[d].pc \notin {"idle", "next"} => disp[d].h \in Handoffs
  BY <1>1 DEF DispOK
<1>3. swallowed \subseteq swallowed'
  BY SwallowedStep
<1>4. \A h \in Handoffs : notes[h] \subseteq notes'[h] /\ notes'[h] \subseteq PlatformUsers
  BY NotesType
<1>5. disp[d].pc = "notified" => Attempted(disp[d].h)'
  BY <1>1, <1>2, AttemptedStays DEF DispOK
<1>6. d \in Handoffs => (outbox'[d].status = "none" => outbox[d].status = "none")
  BY OutboxStep
<1>7. disp[d].pc \in {"email", "emails"} => disp[d].h \in swallowed' \/ notes'[disp[d].h] = PlatformUsers
  BY <1>1, <1>2, <1>3, <1>4 DEF DispOK
<1>8. disp[d].pc = "platform" =>
        disp[d].h \in swallowed' \/ PlatformUsers \subseteq notes'[disp[d].h] \cup disp[d].todo
  BY <1>1, <1>2, <1>3, <1>4 DEF DispOK
<1>9. disp[d].pc = "save" =>
        /\ disp[d].u \in PlatformUsers
        /\ \/ disp[d].h \in swallowed'
           \/ PlatformUsers \subseteq notes'[disp[d].h] \cup disp[d].todo \cup {disp[d].u}
  BY <1>1, <1>2, <1>3, <1>4 DEF DispOK
<1> USE DEF Attempted
<1> QED BY <1>1, <1>2, <1>5, <1>6, <1>7, <1>8, <1>9 DEF DispOK

\* When a step turns dispatcher d, only d is left to look at.
LEMMA OneTurn ==
  ASSUME AlertTypeOK, DispatchersOK, Next, NEW d \in Dispatchers, NEW r, Turns(d, r),
         DispOK(d)'
  PROVE  DispatchersOK'
BY DispStays DEF DispatchersOK, Turns

\* A dispatcher with nothing to do, and one that has just been given a handoff.
LEMMA RestingOK ==
  ASSUME NEW d \in Dispatchers, disp'[d].pc = "idle" \/ (disp'[d].pc = "next" /\ d \notin Handoffs)
  PROVE  DispOK(d)'
BY DEF DispOK

LEMMA FreshOK ==
  ASSUME NEW d \in Dispatchers, NEW h \in Handoffs, disp'[d] = Fresh(h),
         d \in Handoffs => d = h /\ outbox'[d].status # "none"
  PROVE  DispOK(d)'
<1>1. disp'[d].pc = "users" /\ disp'[d].h = h
  BY DEF Fresh, Idle
<1> QED BY <1>1 DEF DispOK

\* A dispatcher in the middle of notifyNewHandoff keeps its handoff.
LEMMA SameHandoff ==
  ASSUME AlertTypeOK, DispatchersOK, Next, NEW d \in Dispatchers,
         disp[d].pc \notin {"idle", "next"}
  PROVE  /\ disp[d].h \in Handoffs
         /\ d \in Handoffs => disp[d].h = d /\ outbox'[d].status # "none"
BY OutboxStep DEF DispatchersOK, DispOK

LEMMA NotifyDispatchers ==
  ASSUME AlertTypeOK, LedgerOK, DispatchersOK, Next, NEW d \in Dispatchers,
         NotifyStep(d) \/ PlatformFails(d)
  PROVE  DispatchersOK'
<1> DEFINE o == disp[d]
           h == disp[d].h
<1>1. o \in Dispatch /\ DispOK(d)
  BY DEF AlertTypeOK, DispatchersOK
<1>2. o.pc \notin {"idle", "next"}
  BY DEF NotifyStep, PlatformFails, ReadUsers, SaveNote, EmitToasts, FindNote, StartEmails, EmailsSettled
<1>3. h \in Handoffs /\ (d \in Handoffs => h = d /\ outbox'[d].status # "none")
  BY <1>2, SameHandoff
<1>4. swallowed \subseteq swallowed' /\ notes[h] \subseteq notes'[h] /\ notes'[h] \subseteq PlatformUsers
  BY <1>3, SwallowedStep, NotesType
<1>5. CASE ReadUsers(d)
  <2>1. CASE Turns(d, [o EXCEPT !.pc = "platform", !.todo = PlatformUsers])
    <3>1. disp'[d].pc = "platform" /\ disp'[d].todo = PlatformUsers /\ disp'[d].h = h
      BY <1>1, <2>1 DEF Turns, Dispatch
    <3>2. DispOK(d)'
      BY <1>3, <3>1 DEF DispOK
    <3> QED BY <2>1, <3>2, OneTurn
  <2>2. CASE Turns(d, [o EXCEPT !.pc = "threw"])
    <3>1. disp'[d].pc = "threw" /\ disp'[d].h = h
      BY <1>1, <2>2 DEF Turns, Dispatch
    <3>2. DispOK(d)'
      BY <1>3, <3>1 DEF DispOK
    <3> QED BY <2>2, <3>2, OneTurn
  <2> QED BY <1>5, <2>1, <2>2, ReadUsersStep
<1>6. ASSUME NEW u \in PlatformUsers, FindNote(d, u) PROVE DispatchersOK'
  <2>1. o.pc = "platform" /\ (h \in swallowed' \/ PlatformUsers \subseteq notes'[h] \cup o.todo)
    BY <1>1, <1>4, <1>6 DEF FindNote, DispOK
  <2>2. CASE u \in notes[h] /\ Turns(d, [o EXCEPT !.todo = o.todo \ {u}])
    <3>1. disp'[d].pc = "platform" /\ disp'[d].todo = o.todo \ {u} /\ disp'[d].h = h
      BY <1>1, <2>1, <2>2 DEF Turns, Dispatch
    <3>2. DispOK(d)'
      BY <1>3, <1>4, <2>1, <2>2, <3>1 DEF DispOK
    <3> QED BY <2>2, <3>2, OneTurn
  <2>3. CASE Turns(d, [o EXCEPT !.todo = o.todo \ {u}, !.u = u, !.pc = "save"])
    <3>1. disp'[d].pc = "save" /\ disp'[d].todo = o.todo \ {u} /\ disp'[d].h = h /\ disp'[d].u = u
      BY <1>1, <2>3 DEF Turns, Dispatch
    <3>2. DispOK(d)'
      BY <1>3, <2>1, <3>1 DEF DispOK
    <3> QED BY <2>3, <3>2, OneTurn
  <2> QED BY <1>6, <2>2, <2>3, FindNoteStep
<1>7. CASE SaveNote(d)
  <2> DEFINE u == o.u
             a == [o EXCEPT !.pc = "platform", !.u = None]
             b == [o EXCEPT !.pc = "platform", !.u = None, !.created = o.created \cup {u}]
  <2>1. /\ u \in PlatformUsers
        /\ h \in swallowed \/ PlatformUsers \subseteq notes[h] \cup o.todo \cup {u}
    BY <1>1, <1>7 DEF SaveNote, DispOK
  <2>2. \/ u \in notes[h] /\ Turns(d, a) /\ notes' = notes /\ swallowed' = swallowed
        \/ Turns(d, b) /\ notes' = [notes EXCEPT ![h] = @ \cup {u}] /\ swallowed' = swallowed
        \/ Turns(d, a) /\ notes' = notes /\ swallowed' = swallowed \cup {h}
    BY <1>7, SaveNoteStep
  <2>3. PICK r \in {a, b} : Turns(d, r)
    BY <2>2
  <2>4. h \in swallowed' \/ u \in notes'[h]
    <3>1. notes \in [Handoffs -> SUBSET PlatformUsers]
      BY DEF AlertTypeOK
    <3> QED BY <1>3, <2>2, <3>1
  <2>5. disp'[d].pc = "platform" /\ disp'[d].h = h /\ disp'[d].todo = o.todo
    BY <1>1, <2>3 DEF Turns, Dispatch
  <2>6. h \in swallowed' \/ PlatformUsers \subseteq notes'[h] \cup o.todo
    BY <1>4, <2>1, <2>4
  <2>7. DispOK(d)'
    BY <1>3, <2>5, <2>6 DEF DispOK
  <2> QED BY <2>3, <2>7, OneTurn
<1>8. CASE EmitToasts(d)
  <2>1. Turns(d, [o EXCEPT !.pc = "email", !.created = {}])
    BY <1>8, EmitToastsStep
  <2>2. disp'[d].pc = "email" /\ disp'[d].h = h
    BY <1>1, <2>1 DEF Turns, Dispatch
  <2>3. h \in swallowed \/ PlatformUsers \subseteq notes[h]
    BY <1>1, <1>8 DEF EmitToasts, DispOK
  <2>4. DispOK(d)'
    BY <1>3, <1>4, <2>2, <2>3 DEF DispOK
  <2> QED BY <2>1, <2>4, OneTurn
<1>9. CASE PlatformFails(d)
  <2>1. Turns(d, [o EXCEPT !.pc = "email", !.todo = {}, !.created = {}])
    BY <1>9, PlatformFailsStep
  <2>2. disp'[d].pc = "email" /\ disp'[d].h = h
    BY <1>1, <2>1 DEF Turns, Dispatch
  <2>3. h \in swallowed'
    BY <1>9 DEF PlatformFails
  <2>4. DispOK(d)'
    BY <1>3, <2>2, <2>3 DEF DispOK
  <2> QED BY <2>1, <2>4, OneTurn
<1>10. CASE StartEmails(d)
  <2>1. CASE Turns(d, [o EXCEPT !.pc = "emails"])
    <3>1. disp'[d].pc = "emails" /\ disp'[d].h = h
      BY <1>1, <2>1 DEF Turns, Dispatch
    <3>2. h \in swallowed' \/ notes'[h] = PlatformUsers
      BY <1>1, <1>4, <1>10 DEF StartEmails, DispOK
    <3>3. DispOK(d)'
      BY <1>3, <3>1, <3>2 DEF DispOK
    <3> QED BY <2>1, <3>3, OneTurn
  <2>2. CASE Turns(d, [o EXCEPT !.pc = "notified"]) /\ swallowed' = swallowed \cup {h}
    <3>1. disp'[d].pc = "notified" /\ disp'[d].h = h
      BY <1>1, <2>2 DEF Turns, Dispatch
    <3>2. Attempted(disp[d].h)'
      BY <2>2, <3>1 DEF Attempted
    <3>3. DispOK(d)'
      BY <1>3, <3>1, <3>2 DEF DispOK
    <3> QED BY <2>2, <3>3, OneTurn
  <2> QED BY <1>10, <2>1, <2>2, StartEmailsStep
<1>11. CASE EmailsSettled(d)
  <2>1. Turns(d, [o EXCEPT !.pc = "notified"])
    BY <1>11, EmailsSettledStep
  <2>2. disp'[d].pc = "notified" /\ disp'[d].h = h
    BY <1>1, <2>1 DEF Turns, Dispatch
  <2>3. ASSUME \E k \in {h} \X EmailUsers : send[d][k] = "threw" PROVE Attempted(disp[d].h)'
    <3>1. h \in swallowed'
      BY <1>11, <2>3 DEF EmailsSettled
    <3> QED BY <2>2, <3>1 DEF Attempted
  <2>4. ASSUME ~ \E k \in {h} \X EmailUsers : send[d][k] = "threw" PROVE Attempted(disp[d].h)'
    <3>1. \A k \in {h} \X EmailUsers : send[d][k] \in {"done", "failed"}
      BY <1>11, <2>4 DEF EmailsSettled, Settled
    <3>2. \A k \in {h} \X EmailUsers : ledger[k].status \in Known
      BY <1>3, <3>1, Who DEF LedgerOK, KeyOK
    <3>3. h \in swallowed' \/ notes'[h] = PlatformUsers
      BY <1>1, <1>4, <1>11 DEF EmailsSettled, DispOK
    <3>4. ledger' = ledger
      BY <1>11 DEF EmailsSettled
    <3>5. \A u \in EmailUsers : ledger'[<<h, u>>].status \in Known
      BY <3>2, <3>4
    <3> QED BY <2>2, <3>3, <3>5 DEF Attempted
  <2>5. DispOK(d)'
    <3>1. Attempted(disp[d].h)'
      BY <2>3, <2>4
    <3> QED BY <1>3, <2>2, <3>1 DEF DispOK
  <2> QED BY <2>1, <2>5, OneTurn
<1> QED BY <1>5, <1>6, <1>7, <1>8, <1>9, <1>10, <1>11 DEF NotifyStep

LEMMA DispatchersStep ==
  ASSUME AlertTypeOK, LedgerOK, DispatchersOK, Next
  PROVE  DispatchersOK'
<1>1. ASSUME NEW d \in Dispatchers, Turns(d, Idle) PROVE DispatchersOK'
  <2>1. disp'[d].pc = "idle"
    BY <1>1 DEF Turns, Idle
  <2> QED BY <1>1, <2>1, RestingOK, OneTurn
<1>2. ASSUME NEW h \in Handoffs, RequestHandoff(h) PROVE DispatchersOK'
  <2>1. h \in Dispatchers /\ Turns(h, Fresh(h))
    BY <1>2, AroundSteps, Who
  <2>2. outbox'[h].status # "none"
    BY <1>2 DEF RequestHandoff, AlertTypeOK, Outbox
  <2>3. DispOK(h)'
    BY <2>1, <2>2, FreshOK DEF Turns
  <2> QED BY <2>1, <2>3, OneTurn
<1>3. ASSUME NEW h \in Handoffs, MarkDispatched(h) \/ CallSiteGivesUp(h) PROVE DispatchersOK'
  BY <1>1, <1>3, AroundSteps, Who
<1>4. ASSUME NEW w \in Sweepers, SweepStep(w) \/ SweepSettleFails(w) PROVE DispatchersOK'
  <2>1. w \in Dispatchers /\ w \notin Handoffs /\ disp[w] \in Dispatch
    BY Who DEF AlertTypeOK
  <2>2. CASE SweepClaim(w)
    <3>1. Turns(w, [disp[w] EXCEPT !.pc = "next"])
      BY <2>1, <2>2, AroundSteps
    <3>2. disp'[w].pc = "next"
      BY <2>1, <3>1 DEF Turns, Dispatch
    <3> QED BY <2>1, <3>1, <3>2, RestingOK, OneTurn
  <2>3. CASE SweepNext(w)
    <3>1. ASSUME NEW h \in Handoffs, Turns(w, Fresh(h)) PROVE DispatchersOK'
      <4>1. DispOK(w)'
        BY <2>1, <3>1, FreshOK DEF Turns
      <4> QED BY <2>1, <3>1, <4>1, OneTurn
    <3> QED BY <1>1, <2>1, <2>3, <3>1, AroundSteps
  <2>4. CASE SweepSettle(w)
    <3>1. Turns(w, [Idle EXCEPT !.pc = "next"])
      BY <2>1, <2>4, AroundSteps
    <3>2. disp'[w].pc = "next"
      BY <3>1 DEF Turns, Idle
    <3> QED BY <2>1, <3>1, <3>2, RestingOK, OneTurn
  <2>5. CASE SweepSettleFails(w)
    <3>1. ASSUME Turns(w, [disp[w] EXCEPT !.pc = "threw"]) PROVE DispatchersOK'
      <4>1. disp'[w].pc = "threw" /\ disp'[w].h = disp[w].h
        BY <2>1, <3>1 DEF Turns, Dispatch
      <4>2. disp[w].h \in Handoffs
        BY <2>1, <2>5 DEF SweepSettleFails, DispatchersOK, DispOK
      <4>3. DispOK(w)'
        BY <2>1, <4>1, <4>2 DEF DispOK
      <4> QED BY <2>1, <3>1, <4>3, OneTurn
    <3> QED BY <1>1, <2>1, <2>5, <3>1, AroundSteps
  <2> QED BY <1>4, <2>2, <2>3, <2>4, <2>5 DEF SweepStep
<1>5. ASSUME NEW d \in Dispatchers, DispatcherCrash(d) PROVE DispatchersOK'
  BY <1>1, <1>5, AroundSteps
<1>6. ASSUME \/ \E k \in Retained : BookingMail(k)
             \/ \E k \in Keys : MailerDone(k)
             \/ \E h \in Handoffs : Elapse(h)
             \/ Ledger \/ MailCrash
      PROVE  DispatchersOK'
  <2>1. disp' = disp
    BY <1>6 DEF BookingMail, MailerDone, Ledger, MailCrash, alertVars, Elapse
  <2> QED BY <2>1, DispStays DEF DispatchersOK
<1> QED BY <1>2, <1>3, <1>4, <1>5, <1>6, NotifyDispatchers DEF Next

\* A row is retired as sent only when both channels were gone through.
LEMMA SentStep ==
  ASSUME AlertTypeOK, DispatchersOK, SentMeansAttempted, Next
  PROVE  SentMeansAttempted'
<1>1. ASSUME NEW h \in Handoffs, outbox'[h].status = "sent" PROVE Attempted(h)'
  <2>1. CASE outbox[h].status = "sent"
    <3>1. Attempted(h)
      BY <2>1 DEF SentMeansAttempted, Attempted, Known
    <3> QED BY <3>1, AttemptedStays
  <2>2. ASSUME NEW d \in Dispatchers, disp[d].pc = "notified", disp[d].h = h PROVE Attempted(h)'
    <3>1. Attempted(h)
      BY <2>2 DEF DispatchersOK, DispOK
    <3> QED BY <3>1, AttemptedStays
  <2> QED BY <1>1, <2>1, <2>2, OutboxStep
<1> QED BY <1>1 DEF SentMeansAttempted, Attempted, Known

-----------------------------------------------------------------------------
(* The toasts.                                                             *)

\* A step in which no dispatcher creates a row or emits a toast: the rows a
\* dispatcher has created are the same, of the same handoff, or forgotten.
LEMMA ToastsQuiet ==
  ASSUME AlertTypeOK, AlertTypeOK', Toasts, toasts' = toasts,
         \A h \in Handoffs : notes[h] \subseteq notes'[h],
         \A d \in Dispatchers : \/ disp'[d].created = {}
                                \/ disp'[d].created = disp[d].created /\ disp'[d].h = disp[d].h
  PROVE  Toasts'
<1>1. \A h \in Handoffs, u \in PlatformUsers :
        toasts'[h][u] = 0 \/ (toasts'[h][u] = 1 /\ u \in notes'[h])
  BY DEF Toasts
<1>2. ASSUME NEW d \in Dispatchers, NEW u \in disp'[d].created
      PROVE  /\ disp'[d].h = disp[d].h /\ u \in disp[d].created
             /\ disp'[d].h \in Handoffs /\ u \in notes'[disp'[d].h]
             /\ toasts'[disp'[d].h][u] = 0
  BY <1>2 DEF Toasts
<1>3. \A d, e \in Dispatchers : \A u \in PlatformUsers :
        u \in disp'[d].created /\ u \in disp'[e].created /\ disp'[d].h = disp'[e].h => d = e
  BY <1>2 DEF Toasts
<1> QED BY <1>1, <1>2, <1>3 DEF Toasts

\* The insert that creates a row is the first to stand for it.
LEMMA ToastsSave ==
  ASSUME AlertTypeOK, AlertTypeOK', DispatchersOK, Toasts, NEW d \in Dispatchers, SaveNote(d)
  PROVE  Toasts'
<1> DEFINE o == disp[d]
           h == disp[d].h
           u == disp[d].u
           a == [o EXCEPT !.pc = "platform", !.u = None]
           b == [o EXCEPT !.pc = "platform", !.u = None, !.created = o.created \cup {u}]
<1>1. /\ h \in Handoffs /\ u \in PlatformUsers
      /\ \/ Turns(d, a) /\ notes' = notes
         \/ u \notin notes[h] /\ Turns(d, b) /\ notes' = [notes EXCEPT ![h] = @ \cup {u}]
  BY SaveNoteStep
<1>2. toasts' = toasts /\ o \in Dispatch /\ notes \in [Handoffs -> SUBSET PlatformUsers]
  BY DEF SaveNote, AlertTypeOK
<1>3. CASE Turns(d, a) /\ notes' = notes
  <2>1. disp'[d].created = o.created /\ disp'[d].h = h
    BY <1>2, <1>3 DEF Turns, Dispatch
  <2>2. \A e \in Dispatchers : disp'[e].created = disp[e].created /\ disp'[e].h = disp[e].h
    BY <1>3, <2>1 DEF Turns
  <2> QED BY <1>2, <1>3, <2>2, ToastsQuiet
<1>4. CASE u \notin notes[h] /\ Turns(d, b) /\ notes' = [notes EXCEPT ![h] = @ \cup {u}]
  <2>1. disp'[d].created = o.created \cup {u} /\ disp'[d].h = h
    BY <1>2, <1>4 DEF Turns, Dispatch
  <2>2. \A e \in Dispatchers \ {d} : disp'[e] = disp[e]
    BY <1>4 DEF Turns
  <2>3. notes'[h] = notes[h] \cup {u} /\ \A g \in Handoffs \ {h} : notes'[g] = notes[g]
    BY <1>1, <1>2, <1>4
  <2> HIDE DEF h, u, o
  <2>4. toasts[h][u] = 0
    BY <1>1, <1>4 DEF Toasts
  <2>5. \A e \in Dispatchers : disp[e].h = h => u \notin disp[e].created
    BY <1>1, <1>4 DEF Toasts
  <2>6. \A g \in Handoffs, v \in PlatformUsers :
          toasts'[g][v] = 0 \/ (toasts'[g][v] = 1 /\ v \in notes'[g])
    BY <1>2, <2>3 DEF Toasts
  <2>7. ASSUME NEW e \in Dispatchers, NEW v \in disp'[e].created
        PROVE  /\ disp'[e].h \in Handoffs /\ v \in notes'[disp'[e].h]
               /\ toasts'[disp'[e].h][v] = 0
    <3>1. CASE e = d /\ v = u
      BY <1>1, <1>2, <2>1, <2>3, <2>4, <3>1
    <3>2. CASE ~ (e = d /\ v = u)
      <4>1. v \in disp[e].created /\ disp'[e].h = disp[e].h
        BY <2>1, <2>2, <2>7, <3>2 DEF h, o, u
      <4>2. disp[e].h \in Handoffs /\ v \in notes[disp[e].h] /\ toasts[disp[e].h][v] = 0
        BY <4>1 DEF Toasts
      <4> QED BY <1>2, <2>3, <4>1, <4>2
    <3> QED BY <3>1, <3>2
  <2>8. ASSUME NEW e \in Dispatchers, NEW f \in Dispatchers, NEW v \in PlatformUsers,
               v \in disp'[e].created, v \in disp'[f].created, disp'[e].h = disp'[f].h, e # f
        PROVE  FALSE
    <3>1. CASE e # d /\ f # d
      BY <2>2, <2>8, <3>1 DEF Toasts
    <3>2. CASE e = d
      <4>1. v \in disp[f].created /\ disp[f].h = h /\ (v = u \/ v \in disp[d].created)
        BY <2>1, <2>2, <2>8, <3>2 DEF o
      <4>2. v # u
        BY <2>5, <4>1
      <4> QED BY <2>8, <3>2, <4>1, <4>2 DEF Toasts, h
    <3>3. CASE f = d
      <4>1. v \in disp[e].created /\ disp[e].h = h /\ (v = u \/ v \in disp[d].created)
        BY <2>1, <2>2, <2>8, <3>3 DEF o
      <4>2. v # u
        BY <2>5, <4>1
      <4> QED BY <2>8, <3>3, <4>1, <4>2 DEF Toasts, h
    <3> QED BY <3>1, <3>2, <3>3
  <2> QED BY <2>6, <2>7, <2>8 DEF Toasts
<1> QED BY <1>1, <1>3, <1>4

\* The toasts are emitted for rows that nobody else stands for, and then
\* forgotten.
LEMMA ToastsEmit ==
  ASSUME AlertTypeOK, DispatchersOK, Toasts, NEW d \in Dispatchers, EmitToasts(d)
  PROVE  Toasts'
<1> DEFINE h == disp[d].h
<1>1. h \in Handoffs /\ disp[d] \in Dispatch /\ toasts \in [Handoffs -> [PlatformUsers -> Nat]]
  BY DEF EmitToasts, DispatchersOK, DispOK, AlertTypeOK
<1>2. disp'[d].created = {} /\ \A e \in Dispatchers \ {d} : disp'[e] = disp[e]
  BY <1>1, EmitToastsStep DEF Turns, Dispatch
<1>3. notes' = notes
  BY DEF EmitToasts
<1>4. /\ \A g \in Handoffs \ {h} : toasts'[g] = toasts[g]
      /\ \A u \in PlatformUsers : toasts'[h][u] =
           IF u \in disp[d].created THEN toasts[h][u] + 1 ELSE toasts[h][u]
  BY <1>1 DEF EmitToasts
<1>5. \A u \in PlatformUsers : u \in disp[d].created => toasts[h][u] = 0 /\ u \in notes[h]
  BY DEF Toasts
<1>6. \A g \in Handoffs, u \in PlatformUsers :
        toasts'[g][u] = 0 \/ (toasts'[g][u] = 1 /\ u \in notes'[g])
  BY <1>3, <1>4, <1>5 DEF Toasts
<1>7. ASSUME NEW e \in Dispatchers, NEW u \in disp'[e].created
      PROVE  /\ disp'[e].h \in Handoffs /\ u \in notes'[disp'[e].h]
             /\ toasts'[disp'[e].h][u] = 0
  <2>1. e # d /\ disp'[e] = disp[e] /\ u \in PlatformUsers
    BY <1>2, <1>7 DEF AlertTypeOK, Dispatch
  <2>2. disp[e].h \in Handoffs /\ u \in notes[disp[e].h] /\ toasts[disp[e].h][u] = 0
    BY <1>7, <2>1 DEF Toasts
  <2>3. disp[e].h = h => u \notin disp[d].created
    BY <1>7, <2>1 DEF Toasts
  <2> QED BY <1>3, <1>4, <2>1, <2>2, <2>3
<1>8. \A e, f \in Dispatchers : \A u \in PlatformUsers :
        u \in disp'[e].created /\ u \in disp'[f].created /\ disp'[e].h = disp'[f].h => e = f
  BY <1>2 DEF Toasts
<1> QED BY <1>6, <1>7, <1>8 DEF Toasts

LEMMA ToastsStep ==
  ASSUME AlertTypeOK, AlertTypeOK', DispatchersOK, Toasts, Next
  PROVE  Toasts'
<1> DEFINE Keeps(r, d) == r.created = {} \/ (r.created = disp[d].created /\ r.h = disp[d].h)
<1>1. ASSUME NEW d \in Dispatchers, NEW r, Turns(d, r), Keeps(r, d), toasts' = toasts
      PROVE  Toasts'
  <2>1. \A e \in Dispatchers : Keeps(disp'[e], e)
    BY <1>1 DEF Turns
  <2> QED BY <1>1, <2>1, NotesType, ToastsQuiet
<1>2. ASSUME NEW d \in Dispatchers
      PROVE  /\ Keeps(Idle, d) /\ Keeps([Idle EXCEPT !.pc = "next"], d)
             /\ \A h \in Handoffs : Keeps(Fresh(h), d)
             /\ \A pc \in DispPcs : Keeps([disp[d] EXCEPT !.pc = pc], d)
  BY DEF Idle, Fresh, AlertTypeOK, Dispatch
<1>3. \A d \in Dispatchers : disp[d] \in Dispatch
  BY DEF AlertTypeOK
<1>4. {"next", "threw", "emails", "notified"} \subseteq DispPcs
  BY DEF DispPcs
<1> HIDE DEF Keeps
<1>5. ASSUME NEW h \in Handoffs, RequestHandoff(h) \/ MarkDispatched(h) \/ CallSiteGivesUp(h) PROVE Toasts'
  <2>1. h \in Dispatchers /\ toasts' = toasts
    BY <1>5, Who DEF RequestHandoff, MarkDispatched, CallSiteGivesUp
  <2>2. Turns(h, Fresh(h)) \/ Turns(h, Idle)
    BY <1>5, <2>1, AroundSteps
  <2> QED BY <1>1, <1>2, <2>1, <2>2
<1>6. ASSUME NEW w \in Sweepers, SweepStep(w) \/ SweepSettleFails(w) PROVE Toasts'
  <2>1. w \in Dispatchers /\ toasts' = toasts
    BY <1>6, Who DEF SweepStep, SweepClaim, SweepNext, SweepSettle, SweepSettleFails
  <2>2. \/ \E h \in Handoffs : Turns(w, Fresh(h))
        \/ Turns(w, Idle) \/ Turns(w, [Idle EXCEPT !.pc = "next"])
        \/ Turns(w, [disp[w] EXCEPT !.pc = "next"]) \/ Turns(w, [disp[w] EXCEPT !.pc = "threw"])
    BY <1>6, <2>1, AroundSteps DEF SweepStep
  <2>3. /\ Keeps([disp[w] EXCEPT !.pc = "next"], w) /\ Keeps([disp[w] EXCEPT !.pc = "threw"], w)
        /\ Keeps(Idle, w) /\ Keeps([Idle EXCEPT !.pc = "next"], w)
        /\ \A h \in Handoffs : Keeps(Fresh(h), w)
    BY <1>2, <1>4, <2>1
  <2> QED BY <1>1, <2>1, <2>2, <2>3
<1>7. ASSUME NEW d \in Dispatchers, NotifyStep(d) \/ PlatformFails(d) PROVE Toasts'
  <2>1. CASE ReadUsers(d)
    <3>1. Keeps([disp[d] EXCEPT !.pc = "platform", !.todo = PlatformUsers], d)
      BY <1>3 DEF Keeps, Dispatch
    <3>2. Keeps([disp[d] EXCEPT !.pc = "threw"], d) /\ toasts' = toasts
      BY <1>2, <1>4, <2>1 DEF ReadUsers
    <3> QED BY <1>1, <2>1, <3>1, <3>2, ReadUsersStep
  <2>2. ASSUME NEW u \in PlatformUsers, FindNote(d, u) PROVE Toasts'
    <3>1. /\ Keeps([disp[d] EXCEPT !.todo = disp[d].todo \ {u}], d)
          /\ Keeps([disp[d] EXCEPT !.todo = disp[d].todo \ {u}, !.u = u, !.pc = "save"], d)
      BY <1>3 DEF Keeps, Dispatch
    <3>2. toasts' = toasts
      BY <2>2 DEF FindNote
    <3> QED BY <1>1, <2>2, <3>1, <3>2, FindNoteStep
  <2>3. CASE PlatformFails(d)
    <3>1. Keeps([disp[d] EXCEPT !.pc = "email", !.todo = {}, !.created = {}], d)
      BY <1>3 DEF Keeps, Dispatch
    <3>2. toasts' = toasts
      BY <2>3 DEF PlatformFails
    <3> QED BY <1>1, <2>3, <3>1, <3>2, PlatformFailsStep
  <2>4. CASE StartEmails(d) \/ EmailsSettled(d)
    <3>1. Turns(d, [disp[d] EXCEPT !.pc = "emails"]) \/ Turns(d, [disp[d] EXCEPT !.pc = "notified"])
      <4>1. CASE StartEmails(d)
        BY <4>1, StartEmailsStep
      <4>2. CASE EmailsSettled(d)
        BY <4>2, EmailsSettledStep
      <4> QED BY <2>4, <4>1, <4>2
    <3>2. /\ Keeps([disp[d] EXCEPT !.pc = "emails"], d)
          /\ Keeps([disp[d] EXCEPT !.pc = "notified"], d)
      BY <1>2, <1>4
    <3>3. toasts' = toasts
      BY <2>4 DEF StartEmails, EmailsSettled
    <3> QED BY <1>1, <3>1, <3>2, <3>3
  <2>5. CASE SaveNote(d)
    BY <2>5, ToastsSave
  <2>6. CASE EmitToasts(d)
    BY <2>6, ToastsEmit
  <2> QED BY <1>7, <2>1, <2>2, <2>3, <2>4, <2>5, <2>6 DEF NotifyStep
<1>8. ASSUME NEW d \in Dispatchers, DispatcherCrash(d) PROVE Toasts'
  <2>1. toasts' = toasts /\ Turns(d, Idle)
    BY <1>8, AroundSteps DEF DispatcherCrash
  <2> QED BY <1>1, <1>2, <2>1
<1>9. ASSUME \/ \E k \in Retained : BookingMail(k)
             \/ \E k \in Keys : MailerDone(k)
             \/ \E h \in Handoffs : Elapse(h)
             \/ Ledger \/ MailCrash
      PROVE  Toasts'
  <2>1. disp' = disp /\ toasts' = toasts /\ notes' = notes
    BY <1>9 DEF BookingMail, MailerDone, Ledger, MailCrash, alertVars, Elapse
  <2> QED BY <2>1, ToastsQuiet
<1> QED BY <1>5, <1>6, <1>7, <1>8, <1>9 DEF Next

-----------------------------------------------------------------------------
(* The theorems.                                                           *)

LEMMA InitIInv == Init => IInv
<1> SUFFICES ASSUME Init PROVE IInv
  OBVIOUS
<1> USE DEF Init, MailInit
<1>1. MailTypeOK
  BY MailAssumption DEF MailTypeOK, Row, Statuses, SendPcs
<1>2. \A d \in Dispatchers : disp[d] = Idle
  OBVIOUS
<1>3. AlertTypeOK
  BY <1>1, IdleType, AlertAssumption DEF AlertTypeOK, Outbox, NoBatch
<1>4. LedgerOK
  BY DEF LedgerOK, KeyOK, Holding
<1>5. SendsBelong
  BY Who DEF SendsBelong
<1>6. DispatchersOK
  BY <1>2 DEF DispatchersOK, DispOK, Idle
<1>7. Toasts
  <2>1. \A d \in Dispatchers : disp[d].created = {}
    BY <1>2 DEF Idle
  <2>2. \A h \in Handoffs, u \in PlatformUsers : toasts[h][u] = 0
    OBVIOUS
  <2> QED BY <2>1, <2>2 DEF Toasts
<1>8. SentMeansAttempted
  BY DEF SentMeansAttempted
<1> QED BY <1>3, <1>4, <1>5, <1>6, <1>7, <1>8 DEF IInv

LEMMA StepIInv == IInv /\ [Next]_vars => IInv'
<1> SUFFICES ASSUME IInv, [Next]_vars PROVE IInv'
  OBVIOUS
<1>1. CASE Next
  <2>1. AlertTypeOK' /\ LedgerOK' /\ SendsBelong' /\ DispatchersOK' /\ SentMeansAttempted'
    BY <1>1, TypeStep, LedgerStep, BelongStep, DispatchersStep, SentStep DEF IInv
  <2>2. Toasts'
    BY <1>1, <2>1, ToastsStep DEF IInv
  <2> QED BY <2>1, <2>2 DEF IInv
<1>2. CASE UNCHANGED vars
  <2>1. /\ UNCHANGED <<ledger, send, retry, faults, taken, unknown>>
        /\ UNCHANGED <<outbox, disp, batch, notes, toasts, swallowed, crashes, work>>
    BY <1>2 DEF vars, mailVars, alertVars
  <2>2. AlertTypeOK'
    BY <2>1 DEF IInv, AlertTypeOK, MailTypeOK
  <2>3. LedgerOK'
    BY <2>1 DEF IInv, LedgerOK, KeyOK
  <2>4. SendsBelong'
    BY <2>1 DEF IInv, SendsBelong
  <2>5. DispatchersOK'
    BY <2>1 DEF IInv, DispatchersOK, DispOK, Attempted
  <2>6. Toasts'
    BY <2>1 DEF IInv, Toasts
  <2>7. SentMeansAttempted'
    BY <2>1 DEF IInv, SentMeansAttempted
  <2> QED BY <2>2, <2>3, <2>4, <2>5, <2>6, <2>7 DEF IInv
<1> QED BY <1>1, <1>2

\* The inductive invariant holds in every reachable state: one caller holds a
\* ledger row, every taking is accounted for, each dispatcher has behind it
\* what its program counter says, and each created row has one dispatcher.
THEOREM Invariance == Spec => []IInv
BY InitIInv, StepIInv, PTL DEF Spec

\* The outbox, the ledger, the dispatchers and the retry workers keep their
\* types under every interleaving, fault and crash.
THEOREM TypeCorrect == Spec => []AlertTypeOK
<1>1. IInv => AlertTypeOK
  BY DEF IInv
<1> QED BY <1>1, Invariance, PTL

\* The provider takes an email again only after a taking that the ledger could
\* not record, however many dispatchers, sweepers and retry workers share the
\* key (email-delivery.service.ts: the row lock is held across the call).
THEOREM TakenAtMostOnce == Spec => []TakenOnce
<1>1. IInv => TakenOnce
  <2> SUFFICES ASSUME IInv, NEW k \in Keys PROVE taken[k] <= unknown[k] + 1
    BY DEF TakenOnce
  <2>1. KeyOK(k) /\ taken[k] \in Nat /\ unknown[k] \in Nat
    BY DEF IInv, LedgerOK, AlertTypeOK, MailTypeOK
  <2>2. taken[k] = unknown[k] \/ taken[k] = unknown[k] + 1
    BY <2>1 DEF KeyOK
  <2> QED BY <2>1, <2>2
<1> QED BY <1>1, Invariance, PTL

\* However many dispatchers replay an outbox row, a user's desktop toasts once
\* (notification.service.ts: only the call whose insert created the row emits).
THEOREM ToastedAtMostOnce == Spec => []ToastOnce
<1>1. IInv => ToastOnce
  <2> SUFFICES ASSUME IInv, NEW h \in Handoffs, NEW u \in PlatformUsers PROVE toasts[h][u] <= 1
    BY DEF ToastOnce
  <2>1. toasts[h][u] = 0 \/ toasts[h][u] = 1
    BY DEF IInv, Toasts
  <2> QED BY <2>1
<1> QED BY <1>1, Invariance, PTL

\* A row is retired as sent only after a dispatcher went through both channels
\* for every recipient, or an error on the way was swallowed
\* (notification-outbox.worker.ts: the row is settled after the notify).
THEOREM SentWasAttempted == Spec => []SentMeansAttempted
<1>1. IInv => SentMeansAttempted
  BY DEF IInv
<1> QED BY <1>1, Invariance, PTL

=============================================================================
