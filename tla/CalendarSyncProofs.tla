------------------------- MODULE CalendarSyncProofs -------------------------
(***************************************************************************)
(* Theorems about CalendarSync, for any number of callers, pulling         *)
(* processes, reconcilers and times.                                       *)
(***************************************************************************)
EXTENDS CalendarSync, TLAPS

USE MirrorAssumption, SyncAssumption

-----------------------------------------------------------------------------
(* Types.                                                                  *)

\* The idle records.
LEMMA IdleTypes ==
  Idle \in CallRecords /\ RecIdle \in RecRecords /\ PullIdle \in Rounds
<1>1. Idle \in CallRecords
  BY DEF Idle, CallRecords, Slots
<1>2. RecIdle \in RecRecords
  BY DEF RecIdle, RecRecords, Slots
<1>3. PullIdle \in Rounds
  BY DEF PullIdle, Rounds, Slots
<1> QED BY <1>1, <1>2, <1>3

LEMMA WriteRowType ==
  ASSUME rec \in [Workers -> RecRecords], NEW new, WriteRow(new)
  PROVE  /\ row' = new /\ rec' \in [Workers -> RecRecords]
         /\ \A w \in Workers : rec'[w] = [rec[w] EXCEPT !.fresh = FALSE]
BY ZenonT(40) DEF WriteRow, RecRecords

LEMMA BeginType ==
  ASSUME call \in [Callers -> CallRecords], NEW c \in Callers,
         NEW do \in {"book", "move", "cancel"}, NEW t \in Slots, Begin(c, do, t)
  PROVE  /\ call' \in [Callers -> CallRecords]
         /\ call'[c].pc = (IF do = "book" THEN "call" ELSE "ref")
         /\ call'[c].do = do /\ call'[c].time = t
         /\ \A d \in Callers \ {c} : call'[d] = call[d]
<1> DEFINE r == [Idle EXCEPT !.pc = IF do = "book" THEN "call" ELSE "ref", !.do = do, !.time = t]
<1>1. /\ r \in CallRecords /\ r.pc = (IF do = "book" THEN "call" ELSE "ref")
      /\ r.do = do /\ r.time = t
  BY DEF Idle, CallRecords, Slots
<1>2. call' = [call EXCEPT ![c] = r]
  BY DEF Begin
<1> HIDE DEF r
<1> QED BY <1>1, <1>2

LEMMA LeavesType ==
  ASSUME unguarded \in BOOLEAN, NEW cond, Leaves(cond)
  PROVE  unguarded' \in BOOLEAN
BY DEF Leaves

\* Booking, moving and cancelling.
LEMMA BookType ==
  ASSUME MirrorTypeOK, NEW c \in Callers, NEW t \in Times, Book(c, t)
  PROVE  MirrorTypeOK'
<1>1. [row EXCEPT !.status = "confirmed", !.time = t] \in BookingRows
  BY DEF MirrorTypeOK, BookingRows, Statuses, Slots
<1>2. /\ row' = [row EXCEPT !.status = "confirmed", !.time = t] /\ rec' \in [Workers -> RecRecords]
      /\ call' \in [Callers -> CallRecords]
  BY WriteRowType, BeginType DEF Book, MirrorTypeOK, Slots
<1>3. row'.time \in Times
  BY <1>2 DEF MirrorTypeOK, BookingRows
<1> QED BY <1>1, <1>2, <1>3 DEF MirrorTypeOK, Book

LEMMA MovedType ==
  ASSUME MirrorTypeOK, NEW c \in Callers, NEW t \in Times, Moved(c, t)
  PROVE  /\ row' \in BookingRows /\ row'.time \in Times
         /\ rec' \in [Workers -> RecRecords]
         /\ call' \in [Callers -> CallRecords] /\ unguarded' \in BOOLEAN
<1>1. [row EXCEPT !.time = t] \in BookingRows
  BY DEF MirrorTypeOK, BookingRows, Statuses, Slots
<1>2. /\ row' = [row EXCEPT !.time = t] /\ rec' \in [Workers -> RecRecords]
      /\ call' \in [Callers -> CallRecords]
  BY WriteRowType, BeginType DEF Moved, MirrorTypeOK, Slots
<1>3. row'.time \in Times
  BY <1>2 DEF MirrorTypeOK, BookingRows
<1>4. unguarded' \in BOOLEAN
  BY LeavesType DEF Moved, MirrorTypeOK
<1> QED BY <1>1, <1>2, <1>3, <1>4

LEMMA CancelledType ==
  ASSUME MirrorTypeOK, NEW c \in Callers, Cancelled(c)
  PROVE  /\ row' \in BookingRows /\ row'.time \in Times
         /\ rec' \in [Workers -> RecRecords]
         /\ call' \in [Callers -> CallRecords] /\ unguarded' \in BOOLEAN
<1>1. [row EXCEPT !.status = "cancelled"] \in BookingRows
  BY DEF MirrorTypeOK, BookingRows, Statuses, Slots
<1>2. /\ row' = [row EXCEPT !.status = "cancelled"] /\ rec' \in [Workers -> RecRecords]
      /\ call' \in [Callers -> CallRecords]
  BY WriteRowType, BeginType DEF Cancelled, MirrorTypeOK, Slots
<1>3. row'.time \in Times
  BY <1>2 DEF MirrorTypeOK, BookingRows, Cancelled
<1>4. unguarded' \in BOOLEAN
  BY LeavesType DEF Cancelled, MirrorTypeOK
<1> QED BY <1>1, <1>2, <1>3, <1>4

\* A customer's request.
LEMMA CustomerType ==
  ASSUME MirrorTypeOK, NEW c \in Callers, CustomerStep(c)
  PROVE  MirrorTypeOK'
<1>1. CASE Cancel(c)
  BY <1>1, CancelledType DEF Cancel, MirrorTypeOK
<1>2. ASSUME NEW t \in Times, Move(c, t) PROVE MirrorTypeOK'
  <2>1. moves' \in 0..MaxMoves
    BY <1>2 DEF Move, MirrorTypeOK
  <2>2. Moved(c, t)
    BY <1>2 DEF Move
  <2> QED BY <1>2, <2>1, <2>2, MovedType DEF Move, MirrorTypeOK
<1> QED BY <1>1, <1>2, BookType DEF CustomerStep

\* The writes of the event that follow.
LEMMA CallType ==
  ASSUME MirrorTypeOK, NEW c \in Callers, CallStep(c) \/ CallDies(c)
  PROVE  MirrorTypeOK'
<1>1. /\ call[c] \in CallRecords /\ call[c].time \in Slots /\ event \in Slots /\ Idle \in CallRecords
      /\ ref \in BOOLEAN
  BY IdleTypes DEF MirrorTypeOK, CallRecords
<1>2. \A pc \in {"idle", "ref", "call", "save", "flag"} : [call EXCEPT ![c].pc = pc] \in [Callers -> CallRecords]
  BY DEF MirrorTypeOK, CallRecords
<1>3. [call EXCEPT ![c] = Idle] \in [Callers -> CallRecords]
  BY <1>1 DEF MirrorTypeOK
<1>4. [call EXCEPT ![c].pc = "call", ![c].ref = ref] \in [Callers -> CallRecords]
  BY <1>1 DEF MirrorTypeOK, CallRecords
<1>5. /\ Created(call[c].time) \subseteq Slots /\ Updated(call[c].time) \subseteq Slots
      /\ NULL \in Slots /\ removed \in BOOLEAN
  BY <1>1 DEF Created, Updated, Slots, MirrorTypeOK
<1>6. CASE CallReadRef(c)
  BY <1>3, <1>4, <1>6, LeavesType DEF CallReadRef, MirrorTypeOK
<1>7. CASE CallCreate(c)
  <2>1. call' \in [Callers -> CallRecords]
    BY <1>2, <1>7 DEF CallCreate
  <2>2. event' \in Slots /\ unguarded' \in BOOLEAN
    BY <1>1, <1>5, <1>7, LeavesType DEF CallCreate, MirrorTypeOK
  <2> QED BY <1>7, <2>1, <2>2 DEF CallCreate, MirrorTypeOK
<1>8. CASE CallSaveRef(c)
  BY <1>3, <1>8 DEF CallSaveRef, MirrorTypeOK
<1>9. CASE CallUpdate(c)
  <2>1. call' \in [Callers -> CallRecords] /\ event' \in Slots
    BY <1>1, <1>2, <1>3, <1>5, <1>9 DEF CallUpdate
  <2> QED BY <1>9, <2>1 DEF CallUpdate, MirrorTypeOK
<1>10. CASE CallDelete(c)
  BY <1>1, <1>3, <1>5, <1>10, LeavesType DEF CallDelete, Deleted, MirrorTypeOK
<1>11. CASE MarkSyncPending(c)
  <2>1. [row EXCEPT !.pending = TRUE, !.attempts = 0, !.due = TRUE] \in BookingRows
    <3>1. 0 \in 0..MaxAttempts
      OBVIOUS
    <3> QED BY <3>1 DEF MirrorTypeOK, BookingRows
  <2>2. /\ row' = [row EXCEPT !.pending = TRUE, !.attempts = 0, !.due = TRUE]
        /\ rec' \in [Workers -> RecRecords]
    BY <1>11, WriteRowType DEF MarkSyncPending, MirrorTypeOK
  <2>3. row'.status = row.status /\ row'.time = row.time
    BY <2>2 DEF MirrorTypeOK, BookingRows
  <2> QED BY <1>3, <1>11, <2>1, <2>2, <2>3 DEF MarkSyncPending, MirrorTypeOK
<1>12. CASE CallDies(c)
  <2>1. faults' \in 0..MaxFaults
    BY <1>12 DEF CallDies, MirrorTypeOK
  <2> QED BY <1>3, <1>12, <2>1, LeavesType DEF CallDies, MirrorTypeOK
<1> QED BY <1>6, <1>7, <1>8, <1>9, <1>10, <1>11, <1>12 DEF CallStep

\* The reconciler.
LEMMA RecType ==
  ASSUME MirrorTypeOK, NEW w \in Workers, RecStep(w) \/ RecDies(w)
  PROVE  MirrorTypeOK'
<1>1. /\ row \in BookingRows /\ rec \in [Workers -> RecRecords] /\ rec[w] \in RecRecords
      /\ event \in Slots /\ ref \in BOOLEAN /\ unguarded \in BOOLEAN
      /\ row.status # "absent" => row.time \in Times
  BY DEF MirrorTypeOK
<1>2. /\ row.status \in Statuses /\ row.time \in Slots /\ row.attempts \in 0..MaxAttempts
      /\ rec[w].time \in Slots /\ rec[w].attempts \in 0..MaxAttempts /\ rec[w].ref \in BOOLEAN
      /\ NULL \in Slots
  BY <1>1 DEF BookingRows, RecRecords, Slots
<1>3. ASSUME NEW pc \in {"save", "clear", "terminal", "fail"}, RecGoto(w, pc)
      PROVE  rec' \in [Workers -> RecRecords]
  BY <1>1, <1>2, <1>3 DEF RecGoto, RecRecords
<1>4. ASSUME NEW new, RecEnds(w, new) PROVE row' = new /\ rec' \in [Workers -> RecRecords]
  <2>1. \A v \in Workers : [rec[v] EXCEPT !.fresh = FALSE] \in RecRecords
    BY <1>1 DEF RecRecords
  <2> QED BY <1>4, <2>1, IdleTypes DEF RecEnds
<1>5. Created(rec[w].time) \subseteq Slots /\ removed \in BOOLEAN
  BY <1>1, <1>2 DEF Created, MirrorTypeOK
<1>6. CASE Claim(w)
  <2> DEFINE r == [RecIdle EXCEPT !.pc = "ref", !.status = row.status, !.attempts = row.attempts, !.fresh = TRUE]
  <2>1. r \in RecRecords
    BY <1>2 DEF RecIdle, RecRecords
  <2>2. rec' = [rec EXCEPT ![w] = r] /\ row' = [row EXCEPT !.claimed = TRUE]
    BY <1>6 DEF Claim
  <2>3. rec' \in [Workers -> RecRecords]
    BY <1>1, <2>1, <2>2
  <2>4. row' \in BookingRows /\ row'.status = row.status /\ row'.time = row.time
    BY <1>1, <2>2 DEF BookingRows
  <2> QED BY <1>1, <1>6, <2>3, <2>4, LeavesType DEF Claim, MirrorTypeOK
<1>7. CASE RecReadRef(w)
  <2>1. PICK pc \in {"meta", "delete", "clear"} :
          rec' = [rec EXCEPT ![w].ref = ref, ![w].status = NULL, ![w].pc = pc]
    BY <1>7 DEF RecReadRef
  <2>2. rec' \in [Workers -> RecRecords]
    BY <1>1, <2>1 DEF RecRecords
  <2> QED BY <1>1, <1>7, <2>2, LeavesType DEF RecReadRef, MirrorTypeOK
<1>8. CASE RecLoadMeta(w)
  <2>1. PICK pc \in {"update", "create"} :
          rec' = [rec EXCEPT ![w].time = row.time, ![w].ref = FALSE, ![w].pc = pc]
    BY <1>8 DEF RecLoadMeta
  <2>2. rec' \in [Workers -> RecRecords]
    BY <1>1, <1>2, <2>1 DEF RecRecords
  <2> QED BY <1>8, <2>2 DEF RecLoadMeta, MirrorTypeOK
<1>9. CASE RecUpdate(w)
  <2>1. event' \in Slots
    BY <1>1, <1>2, <1>9 DEF RecUpdate
  <2>2. CASE row' = row /\ UNCHANGED unguarded /\ \E pc \in {"clear", "fail", "terminal"} : RecGoto(w, pc)
    BY <1>3, <1>9, <2>1, <2>2 DEF RecUpdate, MirrorTypeOK
  <2>3. CASE /\ row.status = "confirmed" /\ row' = [row EXCEPT !.status = "cancelled"]
             /\ rec' = [v \in Workers |-> [rec[v] EXCEPT !.fresh = FALSE,
                               !.pc = IF v = w THEN "clear" ELSE @,
                               !.time = IF v = w THEN NULL ELSE @]]
             /\ Leaves(InFlight # {})
    <3>1. row' \in BookingRows /\ row'.time \in Times
      BY <1>1, <2>3 DEF BookingRows, Statuses
    <3>2. ASSUME NEW v \in Workers PROVE rec'[v] \in RecRecords
      <4>1. CASE v = w
        <5>1. rec'[v] = [rec[v] EXCEPT !.fresh = FALSE, !.pc = "clear", !.time = NULL]
          BY <2>3, <4>1
        <5> QED BY <1>1, <1>2, <5>1 DEF RecRecords
      <4>2. CASE v # w
        <5>1. rec'[v] = [rec[v] EXCEPT !.fresh = FALSE, !.pc = rec[v].pc, !.time = rec[v].time]
          BY <2>3, <4>2
        <5> QED BY <1>1, <5>1 DEF RecRecords
      <4> QED BY <4>1, <4>2
    <3>3. rec' \in [Workers -> RecRecords]
      BY <2>3, <3>2
    <3> QED BY <1>1, <1>9, <2>1, <2>3, <3>1, <3>3, LeavesType DEF RecUpdate, MirrorTypeOK
  <2> QED BY <1>9, <2>2, <2>3 DEF RecUpdate
<1>10. CASE RecCreate(w)
  <2>1. event' \in Slots /\ unguarded' \in BOOLEAN
    BY <1>1, <1>5, <1>10, LeavesType DEF RecCreate
  <2>2. rec' \in [Workers -> RecRecords]
    BY <1>3, <1>10 DEF RecCreate
  <2> QED BY <1>10, <2>1, <2>2 DEF RecCreate, MirrorTypeOK
<1>11. CASE RecSaveRef(w)
  BY <1>3, <1>11 DEF RecSaveRef, MirrorTypeOK
<1>12. CASE RecDelete(w)
  <2>1. event' \in Slots /\ removed' \in BOOLEAN /\ rec' \in [Workers -> RecRecords]
    BY <1>1, <1>2, <1>3, <1>5, <1>12 DEF RecDelete, Deleted
  <2> QED BY <1>12, <2>1 DEF RecDelete, MirrorTypeOK
<1>13. CASE RecClear(w)
  <2>1. CASE rec[w].fresh
    <3>0. 0 \in 0..MaxAttempts
      OBVIOUS
    <3>1. /\ row' = [row EXCEPT !.pending = FALSE, !.claimed = FALSE, !.attempts = 0, !.due = TRUE]
          /\ rec' \in [Workers -> RecRecords]
      BY <1>4, <1>13, <2>1 DEF RecClear
    <3>2. row' \in BookingRows /\ row'.status = row.status /\ row'.time = row.time
      BY <1>1, <3>0, <3>1 DEF BookingRows
    <3> QED BY <1>13, <3>1, <3>2 DEF RecClear, MirrorTypeOK
  <2>2. CASE ~rec[w].fresh
    <3>1. rec' \in [Workers -> RecRecords]
      BY <1>1, <1>13, <2>2, IdleTypes DEF RecClear
    <3> QED BY <1>13, <2>2, <3>1 DEF RecClear, MirrorTypeOK
  <2> QED BY <2>1, <2>2
<1>14. CASE RecTerminal(w)
  <2>1. /\ row' = [row EXCEPT !.pending = FALSE, !.claimed = FALSE] /\ rec' \in [Workers -> RecRecords]
    BY <1>4, <1>14 DEF RecTerminal
  <2>2. row' \in BookingRows /\ row'.status = row.status /\ row'.time = row.time
    BY <1>1, <2>1 DEF BookingRows
  <2> QED BY <1>14, <2>1, <2>2 DEF RecTerminal, MirrorTypeOK
<1>15. CASE RecordFailure(w)
  <2> DEFINE n == NextAttempt(rec[w].attempts)
  <2>1. n \in 0..MaxAttempts
    BY <1>2 DEF NextAttempt
  <2> HIDE DEF n
  <2>2. /\ rec' \in [Workers -> RecRecords]
        /\ \/ row' = [row EXCEPT !.pending = FALSE, !.claimed = FALSE, !.attempts = n]
           \/ row' = [row EXCEPT !.claimed = FALSE, !.attempts = n, !.due = FALSE]
    BY <1>4, <1>15 DEF RecordFailure, n
  <2>3. row' \in BookingRows /\ row'.status = row.status /\ row'.time = row.time
    BY <1>1, <2>1, <2>2 DEF BookingRows
  <2>4. gaveUp' \in BOOLEAN
    BY <1>15 DEF RecordFailure, MirrorTypeOK
  <2> QED BY <1>15, <2>2, <2>3, <2>4 DEF RecordFailure, MirrorTypeOK
<1>16. CASE RecDies(w)
  <2>1. faults' \in 0..MaxFaults /\ rec' \in [Workers -> RecRecords]
    BY <1>16, IdleTypes DEF RecDies, MirrorTypeOK
  <2> QED BY <1>16, <2>1 DEF RecDies, MirrorTypeOK
<1> QED BY <1>6, <1>7, <1>8, <1>9, <1>10, <1>11, <1>12, <1>13, <1>14, <1>15, <1>16 DEF RecStep

\* The rest of what goes on in the background, and the owner.
LEMMA BackgroundType ==
  ASSUME MirrorTypeOK, Background \/ OwnerDeletes
  PROVE  MirrorTypeOK'
<1>1. CASE Reflag
  <2>1. /\ row' = [row EXCEPT !.pending = TRUE] /\ rec' \in [Workers -> RecRecords]
    BY <1>1, WriteRowType DEF Reflag, MirrorTypeOK
  <2>2. row' \in BookingRows /\ row'.status = row.status /\ row'.time = row.time
    BY <2>1 DEF MirrorTypeOK, BookingRows
  <2> QED BY <1>1, <2>1, <2>2 DEF Reflag, MirrorTypeOK
<1>2. CASE Elapse
  <2>1. row' \in BookingRows /\ row'.status = row.status /\ row'.time = row.time
    BY <1>2 DEF Elapse, MirrorTypeOK, BookingRows
  <2> QED BY <1>2, <2>1 DEF Elapse, MirrorTypeOK
<1>3. CASE OwnerDeletes
  <2>1. faults' \in 0..MaxFaults /\ NULL \in Slots
    BY <1>3 DEF OwnerDeletes, MirrorTypeOK, Slots
  <2> QED BY <1>3, <2>1 DEF OwnerDeletes, Deleted, MirrorTypeOK
<1> QED BY <1>1, <1>2, <1>3, CallType, RecType DEF Background

\* A change of the event is noted in the feed and by the rounds under way.
LEMMA NotedType ==
  ASSUME feed \in BOOLEAN, NEW next \in [Pullers -> Rounds], Noted(next)
  PROVE  /\ feed' \in BOOLEAN /\ pull' \in [Pullers -> Rounds]
         /\ feed' <=> feed \/ event' # event
         /\ \A i \in Pullers :
              /\ pull'[i].pc = next[i].pc /\ pull'[i].seen = next[i].seen
              /\ pull'[i].time = next[i].time /\ pull'[i].failed = next[i].failed
              /\ pull'[i].late <=> \/ next[i].late
                                   \/ next[i].pc \notin {"idle", "list"} /\ event' # event
<1>1. ASSUME NEW i \in Pullers
      PROVE  /\ pull'[i] \in Rounds
             /\ pull'[i].pc = next[i].pc /\ pull'[i].seen = next[i].seen
             /\ pull'[i].time = next[i].time /\ pull'[i].failed = next[i].failed
             /\ pull'[i].late <=> \/ next[i].late
                                  \/ next[i].pc \notin {"idle", "list"} /\ event' # event
  <2> DEFINE b == next[i].late \/ (next[i].pc \notin {"idle", "list"} /\ event' # event)
  <2>1. pull'[i] = [next[i] EXCEPT !.late = b] /\ b \in BOOLEAN /\ next[i] \in Rounds
    BY DEF Noted, Rounds
  <2> HIDE DEF b
  <2>2. /\ pull'[i] \in Rounds /\ pull'[i].late = b
        /\ pull'[i].pc = next[i].pc /\ pull'[i].seen = next[i].seen
        /\ pull'[i].time = next[i].time /\ pull'[i].failed = next[i].failed
    BY <2>1 DEF Rounds
  <2> QED BY <2>2 DEF b
<1>2. pull' \in [Pullers -> Rounds]
  BY <1>1 DEF Noted
<1>3. feed' \in BOOLEAN /\ (feed' <=> feed \/ event' # event)
  BY DEF Noted
<1> QED BY <1>1, <1>2, <1>3

\* What one round becomes.
LEMMA HandledType ==
  ASSUME pull \in [Pullers -> Rounds], NEW i \in Pullers, NEW failed \in BOOLEAN
  PROVE  /\ Handled(i, failed) \in [Pullers -> Rounds]
         /\ Handled(i, failed)[i].pc = "end" /\ Handled(i, failed)[i].failed = failed
         /\ Handled(i, failed)[i].late = pull[i].late
         /\ \A j \in Pullers \ {i} : Handled(i, failed)[j] = pull[j]
<1> DEFINE r == [pull[i] EXCEPT !.pc = "end", !.failed = failed, !.seen = NULL, !.time = NULL]
<1>1. r \in Rounds /\ r.pc = "end" /\ r.failed = failed /\ r.late = pull[i].late
  BY DEF Rounds, Slots
<1>2. Handled(i, failed) = [pull EXCEPT ![i] = r]
  BY DEF Handled, Rounds
<1> HIDE DEF r
<1> QED BY <1>1, <1>2

LEMMA PullTo ==
  ASSUME pull \in [Pullers -> Rounds], NEW i \in Pullers, NEW pc, PullGoto(i, pc)
  PROVE  /\ pc \in {"list", "get", "cancelling", "moving", "restore", "restoring", "end"}
            => pull' \in [Pullers -> Rounds]
         /\ pull'[i].pc = pc /\ pull'[i].late = pull[i].late /\ pull'[i].failed = pull[i].failed
         /\ pull'[i].seen = pull[i].seen /\ pull'[i].time = pull[i].time
         /\ \A j \in Pullers \ {i} : pull'[j] = pull[j]
BY DEF PullGoto, Rounds

\* The types of the rounds, when at most round i moves.
LEMMA RoundsKept ==
  ASSUME SyncTypeOK, NEW i \in Pullers, pull' \in [Pullers -> Rounds],
         \A j \in Pullers \ {i} : pull'[j] = pull[j], HasTimes(pull'[i])
  PROVE  \A j \in Pullers : HasTimes(pull'[j])
BY DEF SyncTypeOK

\* The steps of a round.
LEMMA PullType ==
  ASSUME SyncTypeOK, NEW i \in Pullers, PullStep(i) \/ PullListThrows(i) \/ PullDies(i)
  PROVE  SyncTypeOK'
<1>1. /\ MirrorTypeOK /\ feed \in BOOLEAN /\ pull \in [Pullers -> Rounds] /\ pull[i] \in Rounds
      /\ skipped \in BOOLEAN /\ crossed \in BOOLEAN /\ i \in Callers
      /\ cred \in [holder: Pullers \cup {NULL}, over: BOOLEAN, attempts: Nat]
  BY DEF SyncTypeOK
<1>2. /\ pull[i].seen \in Slots /\ pull[i].time \in Slots /\ pull[i].late \in BOOLEAN
      /\ pull[i].failed \in BOOLEAN /\ row.time \in Slots /\ event \in Slots
      /\ cred.attempts \in Nat /\ NULL \in Slots
  BY <1>1 DEF Rounds, MirrorTypeOK, BookingRows, Slots
<1>3. HasTimes(pull[i])
  BY DEF SyncTypeOK
<1> DEFINE Creds == [holder: Pullers \cup {NULL}, over: BOOLEAN, attempts: Nat]
           Good  == pull' \in [Pullers -> Rounds] /\ \A j \in Pullers : HasTimes(pull'[j])
<1>4. HoldsLease(i) => cred' \in Creds
  BY <1>1 DEF HoldsLease
<1>5. PullDone(i) \/ PullFails(i) => Good
  <2> SUFFICES ASSUME NEW failed \in BOOLEAN, pull' = Handled(i, failed) PROVE Good
    BY DEF PullDone, PullFails
  <2>1. pull' \in [Pullers -> Rounds] /\ pull'[i].pc = "end" /\ \A j \in Pullers \ {i} : pull'[j] = pull[j]
    BY <1>1, HandledType
  <2> QED BY <2>1, RoundsKept DEF HasTimes
<1>6. pull' = [pull EXCEPT ![i] = PullIdle] => Good
  <2> SUFFICES ASSUME pull' = [pull EXCEPT ![i] = PullIdle] PROVE Good
    OBVIOUS
  <2>1. pull' \in [Pullers -> Rounds] /\ pull'[i] = PullIdle /\ \A j \in Pullers \ {i} : pull'[j] = pull[j]
    BY <1>1, IdleTypes
  <2> QED BY <2>1, RoundsKept DEF HasTimes, PullIdle
<1>7. ASSUME NEW pc \in {"list", "get", "end"}, PullGoto(i, pc) PROVE Good
  BY <1>1, <1>7, PullTo, RoundsKept DEF HasTimes
<1>8. ASSUME NEW n \in Nat, cred' = [holder |-> NULL, over |-> FALSE, attempts |-> n]
      PROVE  cred' \in Creds
  BY <1>8
<1>9. UNCHANGED vars => MirrorTypeOK'
  BY <1>1 DEF vars, MirrorTypeOK
<1>10. ASSUME MirrorTypeOK', cred' \in Creds, Good, feed' \in BOOLEAN, skipped' \in BOOLEAN,
              crossed' \in BOOLEAN, edits' = edits
       PROVE  SyncTypeOK'
  BY <1>10 DEF SyncTypeOK
<1> HIDE DEF Good
<1>11. CASE PullClaim(i)
  <2>1. cred' \in Creds
    BY <1>1, <1>11 DEF PullClaim
  <2> QED BY <1>1, <1>7, <1>9, <1>10, <1>11, <2>1 DEF PullClaim
<1>12. CASE PullList(i)
  <2>1. faults' \in 0..MaxFaults
    BY <1>1, <1>12 DEF PullList, MirrorTypeOK
  <2>2. MirrorTypeOK'
    BY <1>1, <1>12, <2>1 DEF PullList, MirrorTypeOK
  <2>3. PullGoto(i, "get") \/ PullGoto(i, "end")
    BY <1>12 DEF PullList
  <2>4. skipped' \in BOOLEAN
    BY <1>12 DEF PullList
  <2> QED BY <1>1, <1>4, <1>7, <1>10, <1>12, <2>2, <2>3, <2>4 DEF PullList
<1>13. CASE PullGet(i)
  <2>1. ASSUME pull' = [pull EXCEPT ![i].pc = "read", ![i].seen = event] PROVE Good
    <3>1. pull' \in [Pullers -> Rounds] /\ pull'[i].pc = "read" /\ \A j \in Pullers \ {i} : pull'[j] = pull[j]
      BY <1>1, <1>2, <2>1 DEF Rounds
    <3> QED BY <3>1, RoundsKept DEF HasTimes, Good
  <2> QED BY <1>1, <1>4, <1>5, <1>9, <1>10, <1>13, <2>1 DEF PullGet
<1>14. CASE PullRead(i)
  <2>1. ASSUME NEW pc \in {"cancel", "move"}, pull' = [pull EXCEPT ![i].pc = pc, ![i].time = row.time],
               row.status = "confirmed", pc = "move" => pull[i].seen # NULL
        PROVE  Good
    <3>1. /\ pull' \in [Pullers -> Rounds] /\ pull'[i].pc = pc /\ pull'[i].time = row.time
          /\ pull'[i].seen = pull[i].seen /\ \A j \in Pullers \ {i} : pull'[j] = pull[j]
      BY <1>1, <1>2, <2>1 DEF Rounds
    <3>2. row.time \in Times
      BY <1>1, <2>1 DEF MirrorTypeOK
    <3>3. HasTimes(pull'[i])
      BY <1>2, <2>1, <3>1, <3>2 DEF HasTimes, Slots
    <3> QED BY <3>1, <3>3, RoundsKept DEF Good
  <2>2. Good
    BY <1>5, <1>14, <2>1 DEF PullRead
  <2> QED BY <1>1, <1>4, <1>9, <1>10, <1>14, <2>2 DEF PullRead
<1>15. CASE PullCancel(i)
  <2>1. MirrorTypeOK'
    BY <1>1, <1>15, CancelledType DEF PullCancel, MirrorTypeOK
  <2>2. Good
    BY <1>5, <1>15 DEF PullCancel
  <2> QED BY <1>1, <1>10, <1>15, <2>1, <2>2 DEF PullCancel
<1>16. CASE PullMove(i)
  <2>1. pull[i].seen \in Times /\ pull[i].time \in Times
    BY <1>3, <1>16 DEF PullMove, HasTimes
  <2>2. MirrorTypeOK'
    BY <1>1, <1>16, <2>1, MovedType DEF PullMove, MirrorTypeOK
  <2>3. PullGoto(i, "restore") => Good
    BY <1>1, <2>1, PullTo, RoundsKept DEF HasTimes, Good
  <2>4. Good /\ crossed' \in BOOLEAN
    BY <1>1, <1>5, <1>16, <2>3 DEF PullMove
  <2> QED BY <1>1, <1>10, <1>16, <2>2, <2>4 DEF PullMove
<1>17. CASE PullRestore(i)
  <2>1. PICK t \in {event, IF event = NULL THEN NULL ELSE pull[i].time}, failed \in BOOLEAN :
          event' = t /\ Noted(Handled(i, failed))
    BY <1>17 DEF PullRestore
  <2>2. event' \in Slots
    BY <1>2, <2>1
  <2>3. unguarded' \in BOOLEAN
    BY <1>1, <1>17, LeavesType DEF PullRestore, MirrorTypeOK
  <2>4. MirrorTypeOK'
    BY <1>1, <1>17, <2>2, <2>3 DEF PullRestore, MirrorTypeOK
  <2>5. Handled(i, failed) \in [Pullers -> Rounds]
    BY <1>1, HandledType
  <2>6. /\ feed' \in BOOLEAN /\ pull' \in [Pullers -> Rounds]
        /\ \A j \in Pullers : /\ pull'[j].pc = Handled(i, failed)[j].pc
                             /\ pull'[j].seen = Handled(i, failed)[j].seen
                             /\ pull'[j].time = Handled(i, failed)[j].time
    BY <1>1, <2>1, <2>5, NotedType
  <2>7. \A j \in Pullers : HasTimes(Handled(i, failed)[j])
    <3>1. Handled(i, failed)[i].pc = "end" /\ \A j \in Pullers \ {i} : Handled(i, failed)[j] = pull[j]
      BY <1>1, HandledType
    <3> QED BY <3>1 DEF HasTimes, SyncTypeOK
  <2>8. Good
    BY <2>6, <2>7 DEF HasTimes, Good
  <2> QED BY <1>1, <1>10, <1>17, <2>4, <2>6, <2>8 DEF PullRestore
<1>18. CASE PullEnd(i)
  <2>1. PICK n \in {cred.attempts + 1, 0} : cred' = [holder |-> NULL, over |-> FALSE, attempts |-> n]
    BY <1>18 DEF PullEnd
  <2>2. cred' \in Creds
    BY <1>2, <1>8, <2>1
  <2>3. feed' \in BOOLEAN /\ skipped' \in BOOLEAN
    BY <1>1, <1>2, <1>18 DEF PullEnd
  <2> QED BY <1>1, <1>6, <1>9, <1>10, <1>18, <2>2, <2>3 DEF PullEnd
<1>19. CASE LosesLease(i)
  BY <1>1, <1>6, <1>9, <1>10, <1>19 DEF LosesLease
<1>20. CASE PullListThrows(i)
  <2>1. faults' \in 0..MaxFaults
    BY <1>1, <1>20 DEF PullListThrows, MirrorTypeOK
  <2>2. MirrorTypeOK'
    BY <1>1, <1>20, <2>1 DEF PullListThrows, MirrorTypeOK
  <2>3. cred' \in Creds
    BY <1>2, <1>8, <1>20 DEF PullListThrows
  <2> QED BY <1>1, <1>6, <1>10, <1>20, <2>2, <2>3 DEF PullListThrows
<1>21. CASE PullDies(i)
  <2>1. faults' \in 0..MaxFaults
    BY <1>1, <1>21 DEF PullDies, MirrorTypeOK
  <2>2. MirrorTypeOK'
    BY <1>1, <1>21, <2>1, IdleTypes, LeavesType DEF PullDies, MirrorTypeOK
  <2> QED BY <1>1, <1>6, <1>10, <1>21, <2>2 DEF PullDies
<1>22. CASE PullActs(i)
  <2>1. PICK pc \in {"cancelling", "moving", "restoring"} :
          /\ PullGoto(i, pc)
          /\ pc = "moving" => pull[i].pc = "move"
          /\ pc = "restoring" => pull[i].pc = "restore"
    BY <1>22 DEF PullActs, Acting
  <2>2. Good
    BY <1>1, <1>3, <2>1, PullTo, RoundsKept DEF HasTimes, Good
  <2> QED BY <1>1, <1>4, <1>9, <1>10, <1>22, <2>2 DEF PullActs
<1> QED BY <1>11, <1>12, <1>13, <1>14, <1>15, <1>16, <1>17, <1>18, <1>19, <1>20, <1>21, <1>22
     DEF PullStep

\* The initial state has the right types, and every step keeps them.
LEMMA SyncTypes ==
  /\ SyncInit => SyncTypeOK
  /\ SyncTypeOK /\ [SyncNext]_allVars => SyncTypeOK'
<1>1. ASSUME SyncInit PROVE SyncTypeOK
  <2>1. 0 \in 0..MaxAttempts /\ 0 \in 0..MaxMoves /\ 0 \in 0..MaxFaults /\ 0 \in 0..MaxEdits
    OBVIOUS
  <2>2. MirrorTypeOK
    <3>1. row \in BookingRows /\ row.status = "absent"
      BY <1>1, <2>1 DEF SyncInit, Init, BookingRows, Statuses, Slots
    <3>2. call \in [Callers -> CallRecords] /\ rec \in [Workers -> RecRecords]
      BY <1>1, IdleTypes DEF SyncInit, Init
    <3> QED BY <1>1, <2>1, <3>1, <3>2 DEF SyncInit, Init, MirrorTypeOK, Slots
  <2>3. pull \in [Pullers -> Rounds] /\ \A i \in Pullers : HasTimes(pull[i])
    BY <1>1, IdleTypes DEF SyncInit, HasTimes, PullIdle
  <2>4. cred \in [holder: Pullers \cup {NULL}, over: BOOLEAN, attempts: Nat]
    BY <1>1 DEF SyncInit
  <2> QED BY <1>1, <2>1, <2>2, <2>3, <2>4 DEF SyncInit, SyncTypeOK
<1>2. ASSUME SyncTypeOK, SyncNext PROVE SyncTypeOK'
  <2>1. MirrorTypeOK /\ feed \in BOOLEAN /\ pull \in [Pullers -> Rounds]
    BY <1>2 DEF SyncTypeOK
  <2>2. ASSUME MirrorTypeOK', Noted(pull), UNCHANGED <<cred, skipped, crossed>>, edits' \in 0..MaxEdits
        PROVE  SyncTypeOK'
    <3>1. /\ feed' \in BOOLEAN /\ pull' \in [Pullers -> Rounds]
          /\ \A j \in Pullers : /\ pull'[j].pc = pull[j].pc /\ pull'[j].seen = pull[j].seen
                               /\ pull'[j].time = pull[j].time
      BY <2>1, <2>2, NotedType
    <3>2. \A j \in Pullers : HasTimes(pull'[j])
      BY <1>2, <3>1 DEF SyncTypeOK, HasTimes
    <3> QED BY <1>2, <2>2, <3>1, <3>2 DEF SyncTypeOK
  <2>3. edits \in 0..MaxEdits
    BY <1>2 DEF SyncTypeOK
  <2>4. ASSUME NEW c \in Customers, Mirrors(CustomerStep(c)) PROVE SyncTypeOK'
    BY <2>1, <2>2, <2>3, <2>4, CustomerType DEF Mirrors, Customers
  <2>5. CASE Mirrors(Background) \/ Mirrors(OwnerDeletes)
    BY <2>1, <2>2, <2>3, <2>5, BackgroundType DEF Mirrors
  <2>6. ASSUME NEW t \in Times, OwnerMoves(t) PROVE SyncTypeOK'
    <3>1. edits' \in 0..MaxEdits
      BY <2>3, <2>6 DEF OwnerMoves
    <3>2. MirrorTypeOK'
      BY <2>1, <2>6 DEF OwnerMoves, MirrorTypeOK, Slots
    <3> QED BY <2>2, <2>6, <3>1, <3>2 DEF OwnerMoves
  <2>7. CASE LeaseEnds
    <3>1. faults' \in 0..MaxFaults
      BY <2>1, <2>7 DEF LeaseEnds, MirrorTypeOK
    <3>2. MirrorTypeOK'
      BY <2>1, <2>7, <3>1 DEF LeaseEnds, MirrorTypeOK
    <3>3. cred' \in [holder: Pullers \cup {NULL}, over: BOOLEAN, attempts: Nat]
      BY <1>2, <2>7 DEF LeaseEnds, SyncTypeOK
    <3> QED BY <1>2, <2>7, <3>2, <3>3 DEF LeaseEnds, SyncTypeOK
  <2> QED BY <1>2, <2>4, <2>5, <2>6, <2>7, PullType DEF SyncNext
<1>3. ASSUME SyncTypeOK, UNCHANGED allVars PROVE SyncTypeOK'
  BY <1>3 DEF allVars, vars, syncVars, SyncTypeOK, MirrorTypeOK
<1> QED BY <1>1, <1>2, <1>3

\* Every reachable state has the right types (the booking row, the calls and
\* rounds in progress, the lease), and a round that acts knows its times.
THEOREM TypeCorrect == SyncSpec => []SyncTypeOK
BY SyncTypes, PTL DEF SyncSpec

-----------------------------------------------------------------------------
(* Every difference between event and booking is accounted for.            *)
(*                                                                         *)
(* While nothing was left unflagged, one call and one reconciler at most    *)
(* are at work, a call knows the row as it is, and the reconciler's flag is *)
(* on.  OnRecord says what, besides the feed, brings event and booking      *)
(* together: they agree; the flag is on and no reconciler is about to clear *)
(* it; it gave up; the row is found as an orphan; or a call has still to    *)
(* write the event or the flag.  An event that is gone from a confirmed     *)
(* booking is brought back by none of them, since the calendar may still    *)
(* know its id: only the feed, or the round that read it, accounts for it.  *)
(* Steps that leave the event alone keep OnRecord, steps that change the    *)
(* event set the feed, and a round that ends without a failure or a later   *)
(* change has seen to OnRecord.                                             *)

CallOK(c) ==
  /\ c.pc = "idle" => c = Idle
  /\ c.pc # "idle" => c.do \in {"book", "move", "cancel"}
  /\ c.pc # "idle" /\ c.do = "book" => /\ row.status = "confirmed" /\ c.time = row.time
                                       /\ ref = FALSE /\ row.pending = FALSE /\ c.pc # "ref"
  /\ c.pc # "idle" /\ c.do = "move" => row.status = "confirmed" /\ c.time = row.time
  /\ c.pc # "idle" /\ c.do = "cancel" => row.status = "cancelled" /\ c.pc \in {"ref", "call"}

CallsOK ==
  /\ \A c \in Callers : CallOK(call[c])
  /\ \A c, d \in Callers : call[c].pc # "idle" /\ call[d].pc # "idle" => c = d

RecOK(r) ==
  /\ r.pc = "idle" => r = RecIdle
  /\ r.pc # "idle" => row.pending = TRUE
  /\ r.pc = "ref" => r.status \in {"confirmed", "cancelled"}
  /\ r.pc = "ref" /\ r.status = "cancelled" => row.status = "cancelled"
  /\ r.pc = "ref" /\ r.fresh = TRUE => r.status = row.status
  /\ r.pc = "delete" => row.status = "cancelled"
  /\ r.pc = "meta" /\ r.fresh = TRUE => row.status = "confirmed"
  /\ r.pc \in {"update", "create"} /\ r.fresh = TRUE => row.status = "confirmed" /\ r.time = row.time

RecsOK ==
  /\ \A w \in Workers : RecOK(rec[w])
  /\ \A v, w \in Workers : rec[v].pc # "idle" /\ rec[w].pc # "idle" => v = w

Clearing == \E w \in Workers : rec[w].pc \in {"save", "clear"} /\ rec[w].fresh = TRUE
Flagged  == row.pending = TRUE /\ ~Clearing
Found    == Orphaned /\ \A c \in Callers : call[c].pc # "save"
Owing    == \E c \in Callers : call[c].pc \in {"ref", "call", "flag"}

Gone     == row.status = "confirmed" /\ event = NULL /\ removed = TRUE

Recorded == Mirrored \/ Flagged \/ gaveUp = TRUE \/ Found \/ Owing
OnRecord == Recorded /\ ~Gone

MirrorCore ==
  /\ row.status = "absent" => row.pending = FALSE /\ ref = FALSE /\ event = NULL /\ removed = FALSE
  /\ CallsOK /\ RecsOK
  /\ row.status = "cancelled" => Recorded

RoundOK(r) ==
  /\ r.pc \in {"idle", "list"} => r.late = FALSE /\ r.failed = FALSE
  /\ r.pc \in {"get", "read", "cancel", "cancelling", "move", "moving",
             "restore", "restoring"} => r.failed = FALSE
  /\ r.pc \in {"read", "cancel", "cancelling", "move", "moving",
             "restore", "restoring"} /\ r.late = FALSE => r.seen = event
  /\ r.pc = "end" /\ r.late = FALSE /\ r.failed = FALSE => OnRecord

SyncCore ==
  /\ MirrorCore
  /\ feed = TRUE \/ OnRecord
  /\ \A i \in Pullers : RoundOK(pull[i])

SyncInv == SyncTypeOK /\ (unguarded = FALSE /\ skipped = FALSE => SyncCore)

\* What a step of the booking's side is to show.
Keeps == MirrorCore' /\ (event' = event /\ OnRecord => OnRecord')

\* Where event and booking agree, no event is gone.
LEMMA MirroredNotGone ==
  ASSUME MirrorTypeOK, Mirrored
  PROVE  OnRecord
BY DEF OnRecord, Recorded, Gone, Mirrored, MirrorTypeOK

\* An event is not gone by a step that leaves the event alone.
LEMMA GoneBefore ==
  ASSUME MirrorTypeOK, event' = event, removed' = removed \/ Deleted,
         row'.status = "confirmed" => row.status = "confirmed"
  PROVE  Gone' => Gone
BY DEF Gone, Deleted, MirrorTypeOK

\* A write of the row takes the claim's stamp from every reconciler.
LEMMA WrittenRecs ==
  ASSUME MirrorTypeOK, RecsOK, NEW new, WriteRow(new),
         row.pending = TRUE => new.pending = TRUE,
         row.status = "cancelled" => new.status = "cancelled"
  PROVE  RecsOK' /\ ~Clearing'
<1>1. row' = new /\ \A w \in Workers : rec'[w] = [rec[w] EXCEPT !.fresh = FALSE] /\ rec[w] \in RecRecords
  BY WriteRowType DEF MirrorTypeOK
<1>2. ASSUME NEW w \in Workers
      PROVE  /\ rec'[w].fresh = FALSE /\ rec'[w].pc = rec[w].pc /\ rec'[w].status = rec[w].status
             /\ rec'[w].time = rec[w].time
  <2> DEFINE r == rec[w]
  <2>1. rec'[w] = [r EXCEPT !.fresh = FALSE] /\ r \in RecRecords
    BY <1>1
  <2> HIDE DEF r
  <2>2. /\ rec'[w].fresh = FALSE /\ rec'[w].pc = r.pc /\ rec'[w].status = r.status
        /\ rec'[w].time = r.time
    BY <2>1 DEF RecRecords
  <2> QED BY <2>2 DEF r
<1>3. ASSUME NEW w \in Workers PROVE RecOK(rec[w])'
  <2>1. RecOK(rec[w])
    BY DEF RecsOK
  <2>2. rec[w].pc = "idle" => rec'[w] = RecIdle
    BY <1>1, <2>1 DEF RecOK, RecIdle
  <2> QED BY <1>1, <1>2, <2>1, <2>2 DEF RecOK
<1>4. \A v, w \in Workers : rec'[v].pc # "idle" /\ rec'[w].pc # "idle" => v = w
  BY <1>2 DEF RecsOK
<1>5. ~Clearing'
  BY <1>2 DEF Clearing
<1> QED BY <1>3, <1>4, <1>5 DEF RecsOK

\* A call begins when no other is in progress.
LEMMA BegunCalls ==
  ASSUME MirrorTypeOK, CallsOK, InFlight = {}, NEW c \in Callers,
         NEW do \in {"book", "move", "cancel"}, NEW t \in Slots, Begin(c, do, t),
         do = "book" => row'.status = "confirmed" /\ t = row'.time /\ ref' = FALSE /\ row'.pending = FALSE,
         do = "move" => row'.status = "confirmed" /\ t = row'.time,
         do = "cancel" => row'.status = "cancelled"
  PROVE  CallsOK' /\ Owing'
<1>1. /\ call'[c].pc = (IF do = "book" THEN "call" ELSE "ref")
      /\ call'[c].do = do /\ call'[c].time = t
      /\ \A d \in Callers \ {c} : call'[d] = call[d]
  BY BeginType DEF MirrorTypeOK
<1>2. \A d \in Callers : call[d].pc = "idle" /\ call[d] = Idle
  BY DEF InFlight, CallsOK, CallOK
<1>3. CallOK(call[c])'
  BY <1>1 DEF CallOK
<1>4. ASSUME NEW d \in Callers \ {c} PROVE CallOK(call[d])'
  BY <1>1, <1>2 DEF CallOK
<1>5. \A d \in Callers \ {c} : call'[d].pc = "idle"
  BY <1>1, <1>2
<1>6. CallsOK'
  BY <1>3, <1>4, <1>5 DEF CallsOK
<1> QED BY <1>1, <1>6 DEF Owing

\* Booking, moving and cancelling: a call owes the event.
LEMMA BookKeeps ==
  ASSUME MirrorTypeOK, MirrorCore, NEW c \in Callers, NEW t \in Times, Book(c, t)
  PROVE  Keeps
<1>1. row.status = "absent" /\ row.pending = FALSE /\ ref = FALSE /\ removed' = FALSE
  BY DEF Book, MirrorCore
<1>2. PICK new : new = [row EXCEPT !.status = "confirmed", !.time = t]
  OBVIOUS
<1>3. row' = new /\ WriteRow(new) /\ Begin(c, "book", t) /\ ref' = ref
  BY <1>2 DEF Book, WriteRow
<1>4. new.status = "confirmed" /\ new.time = t /\ new.pending = FALSE
  BY <1>1, <1>2 DEF MirrorTypeOK, BookingRows
<1>5. InFlight = {}
  BY <1>1 DEF MirrorCore, CallsOK, CallOK, InFlight
<1>6. RecsOK'
  BY <1>1, <1>3, <1>4, WrittenRecs DEF MirrorCore
<1>7. CallsOK' /\ Owing'
  BY <1>1, <1>3, <1>4, <1>5, BegunCalls DEF MirrorCore, Slots
<1> QED BY <1>1, <1>3, <1>4, <1>6, <1>7 DEF Keeps, MirrorCore, OnRecord, Recorded, Gone

LEMMA MovedKeeps ==
  ASSUME MirrorTypeOK, MirrorCore, NEW c \in Callers, NEW t \in Times, Moved(c, t), unguarded' = FALSE,
         UNCHANGED <<event, removed>>
  PROVE  Keeps /\ Recorded' /\ (event # NULL => OnRecord')
<1>1. row.status = "confirmed" /\ InFlight = {}
  BY DEF Moved, Leaves
<1>2. PICK new : new = [row EXCEPT !.time = t]
  OBVIOUS
<1>3. row' = new /\ WriteRow(new) /\ Begin(c, "move", t)
  BY <1>2 DEF Moved, WriteRow
<1>4. new.status = "confirmed" /\ new.time = t /\ new.pending = row.pending
  BY <1>1, <1>2 DEF MirrorTypeOK, BookingRows
<1>5. RecsOK'
  BY <1>1, <1>3, <1>4, WrittenRecs DEF MirrorCore
<1>6. CallsOK' /\ Owing'
  BY <1>1, <1>3, <1>4, BegunCalls DEF MirrorCore, Slots
<1> QED BY <1>1, <1>3, <1>4, <1>5, <1>6 DEF Keeps, MirrorCore, OnRecord, Recorded, Gone

LEMMA CancelledKeeps ==
  ASSUME MirrorTypeOK, MirrorCore, NEW c \in Callers, Cancelled(c), unguarded' = FALSE,
         UNCHANGED <<event, removed>>
  PROVE  Keeps /\ OnRecord'
<1>1. row.status = "confirmed" /\ InFlight = {}
  BY DEF Cancelled, Leaves
<1>2. PICK new : new = [row EXCEPT !.status = "cancelled"]
  OBVIOUS
<1>3. row' = new /\ WriteRow(new) /\ Begin(c, "cancel", NULL)
  BY <1>2 DEF Cancelled, WriteRow
<1>4. new.status = "cancelled" /\ new.pending = row.pending
  BY <1>1, <1>2 DEF MirrorTypeOK, BookingRows
<1>5. RecsOK'
  BY <1>1, <1>3, <1>4, WrittenRecs DEF MirrorCore
<1>6. CallsOK' /\ Owing'
  BY <1>1, <1>3, <1>4, BegunCalls DEF MirrorCore, Slots
<1> QED BY <1>3, <1>4, <1>5, <1>6 DEF Keeps, MirrorCore, OnRecord, Recorded, Gone

\* A call goes on or ends: the others are idle.
LEMMA CallGoesOn ==
  ASSUME MirrorTypeOK, CallsOK, NEW c \in Callers, call[c].pc # "idle",
         \A d \in Callers \ {c} : call'[d] = call[d],
         CallOK(call[c])'
  PROVE  /\ CallsOK'
         /\ \A d \in Callers \ {c} : call[d].pc = "idle" /\ call'[d].pc = "idle"
<1>1. \A d \in Callers \ {c} : call[d].pc = "idle" /\ call[d] = Idle
  BY DEF CallsOK, CallOK
<1>2. ASSUME NEW d \in Callers \ {c} PROVE CallOK(call[d])'
  BY <1>1 DEF CallOK
<1> QED BY <1>1, <1>2 DEF CallsOK

LEMMA IdleCall == CallOK(Idle)
BY DEF CallOK, Idle

\* Steps of a call leave the reconcilers alone, unless they write the row.
LEMMA SameRecs ==
  ASSUME RecsOK, rec' = rec, row'.pending = row.pending, row'.status = row.status, row'.time = row.time
  PROVE  RecsOK' /\ (Clearing' <=> Clearing)
BY DEF RecsOK, RecOK, Clearing

LEMMA CallKeeps ==
  ASSUME MirrorTypeOK, MirrorCore, NEW c \in Callers, CallStep(c) \/ CallDies(c), unguarded' = FALSE
  PROVE  Keeps
<1>1. /\ CallsOK /\ RecsOK /\ CallOK(call[c]) /\ call \in [Callers -> CallRecords]
      /\ call[c] \in CallRecords /\ call[c].pc # "idle"
  BY DEF MirrorCore, CallsOK, MirrorTypeOK, CallStep, CallReadRef, CallCreate, CallSaveRef,
     CallUpdate, CallDelete, MarkSyncPending, CallDies
<1>0. event' = event /\ Gone' => Gone
  <2>1. row'.status = row.status /\ (removed' = removed \/ Deleted)
    BY DEF CallStep, CallReadRef, CallCreate, CallSaveRef, CallUpdate, CallDelete, MarkSyncPending,
       CallDies, WriteRow, MirrorTypeOK, BookingRows
  <2> QED BY <2>1, GoneBefore
<1>2. ASSUME call' = [call EXCEPT ![c] = Idle]
      PROVE  call'[c] = Idle /\ call'[c].pc = "idle" /\ \A d \in Callers \ {c} : call'[d] = call[d]
  BY <1>1, <1>2 DEF Idle
<1>3. ASSUME NEW pc, call' = [call EXCEPT ![c].pc = pc]
      PROVE  /\ call'[c].pc = pc /\ call'[c].do = call[c].do /\ call'[c].time = call[c].time
             /\ \A d \in Callers \ {c} : call'[d] = call[d]
  BY <1>1, <1>3 DEF CallRecords
<1>4. /\ row.status = "absent" => row.pending = FALSE /\ ref = FALSE
      /\ row.status # "absent"
  BY <1>1 DEF MirrorCore, CallOK
<1>5. CASE CallReadRef(c)
  <2>1. UNCHANGED <<row, ref, event, rec, gaveUp>> /\ call[c].pc = "ref"
    BY <1>5 DEF CallReadRef
  <2>2. RecsOK'
    BY <1>1, <2>1, SameRecs
  <2>3. CASE call[c].do = "cancel" /\ ~ref
    <3>1. call' = [call EXCEPT ![c] = Idle] /\ event = NULL
      BY <1>5, <2>3 DEF CallReadRef, Leaves
    <3>2. CallsOK'
      BY <1>1, <1>2, <3>1, IdleCall, CallGoesOn DEF CallOK, Idle
    <3>3. Mirrored'
      BY <1>1, <2>1, <2>3, <3>1 DEF CallOK, Mirrored
    <3> QED BY <1>0, <1>4, <2>1, <2>2, <3>2, <3>3 DEF Keeps, MirrorCore, OnRecord, Recorded
  <2>4. CASE ~(call[c].do = "cancel" /\ ~ref)
    <3>1. call' = [call EXCEPT ![c].pc = "call", ![c].ref = ref]
      BY <1>5, <2>4 DEF CallReadRef
    <3>2. /\ call'[c].pc = "call" /\ call'[c].do = call[c].do /\ call'[c].time = call[c].time
          /\ \A d \in Callers \ {c} : call'[d] = call[d]
      BY <1>1, <3>1 DEF CallRecords
    <3>3. CallOK(call[c])'
      BY <1>1, <2>1, <3>2 DEF CallOK
    <3>4. CallsOK' /\ Owing'
      BY <1>1, <3>2, <3>3, CallGoesOn DEF Owing
    <3> QED BY <1>0, <1>4, <2>1, <2>2, <3>4 DEF Keeps, MirrorCore, OnRecord, Recorded
  <2> QED BY <2>3, <2>4
<1>6. CASE CallCreate(c)
  <2>1. UNCHANGED <<row, ref, rec, gaveUp>> /\ call[c].pc = "call" /\ call[c].do \in {"book", "move"}
    BY <1>6 DEF CallCreate
  <2>2. RecsOK'
    BY <1>1, <2>1, SameRecs
  <2>3. row.status = "confirmed" /\ call[c].time = row.time
    BY <1>1, <2>1 DEF CallOK
  <2>4. PICK pc \in {"save", "flag"} :
          /\ call' = [call EXCEPT ![c].pc = pc]
          /\ pc = "save" => event' \in Created(call[c].time) /\ Leaves(event \notin {NULL, call[c].time})
    BY <1>6 DEF CallCreate
  <2>5. CallOK(call[c])'
    BY <1>1, <1>3, <2>1, <2>4 DEF CallOK
  <2>6. CallsOK'
    BY <1>1, <1>3, <2>4, <2>5, CallGoesOn
  <2>7. CASE pc = "flag"
    <3>1. Owing'
      BY <1>3, <2>4, <2>7 DEF Owing
    <3> QED BY <1>0, <1>4, <2>1, <2>2, <2>6, <3>1 DEF Keeps, MirrorCore, OnRecord, Recorded
  <2>8. CASE pc = "save"
    <3>1. event' = row.time \/ Gone
      BY <2>3, <2>4, <2>8 DEF Leaves, Created, Gone, MirrorTypeOK
    <3>2. Mirrored' \/ Gone
      BY <2>1, <2>3, <3>1 DEF Mirrored
    <3> QED BY <1>0, <1>4, <2>1, <2>2, <2>3, <2>6, <3>2 DEF Keeps, MirrorCore, OnRecord, Recorded
  <2> QED BY <2>7, <2>8
<1>7. CASE CallSaveRef(c)
  <2>1. /\ UNCHANGED <<row, event, rec, gaveUp>> /\ call[c].pc = "save" /\ ref' = TRUE
        /\ call' = [call EXCEPT ![c] = Idle]
    BY <1>7 DEF CallSaveRef
  <2>2. RecsOK' /\ (Clearing' <=> Clearing)
    BY <1>1, <2>1, SameRecs
  <2>3. CallOK(call[c])'
    BY <1>2, <2>1, IdleCall DEF CallOK, Idle
  <2>4. CallsOK' /\ \A d \in Callers \ {c} : call[d].pc = "idle" /\ call'[d].pc = "idle"
    BY <1>1, <1>2, <2>1, <2>3, CallGoesOn
  <2>5. ~Owing /\ ~Found /\ (Mirrored' <=> Mirrored)
    BY <2>1, <2>4 DEF Owing, Found, Mirrored
  <2>6. (Recorded => Recorded') /\ (OnRecord => OnRecord')
    BY <1>0, <2>1, <2>2, <2>5 DEF OnRecord, Recorded, Flagged
  <2> QED BY <1>0, <1>4, <2>1, <2>2, <2>4, <2>6 DEF Keeps, MirrorCore
<1>8. CASE CallUpdate(c)
  <2>1. UNCHANGED <<row, ref, rec, gaveUp>> /\ call[c].pc = "call" /\ call[c].do = "move"
    BY <1>8 DEF CallUpdate
  <2>2. RecsOK'
    BY <1>1, <2>1, SameRecs
  <2>3. row.status = "confirmed" /\ call[c].time = row.time
    BY <1>1, <2>1 DEF CallOK
  <2>4. CASE event' \in Updated(call[c].time) /\ call' = [call EXCEPT ![c] = Idle]
    <3>1. CallsOK'
      BY <1>1, <1>2, <2>4, IdleCall, CallGoesOn DEF CallOK, Idle
    <3>2. Mirrored' \/ Gone
      BY <2>1, <2>3, <2>4 DEF Mirrored, Updated, Created, Gone, MirrorTypeOK
    <3> QED BY <1>0, <1>4, <2>1, <2>2, <2>3, <3>1, <3>2 DEF Keeps, MirrorCore, OnRecord, Recorded
  <2>5. CASE call' = [call EXCEPT ![c].pc = "flag"]
    <3>1. CallOK(call[c])'
      BY <1>1, <1>3, <2>1, <2>5 DEF CallOK
    <3>2. CallsOK' /\ Owing'
      BY <1>1, <1>3, <2>5, <3>1, CallGoesOn DEF Owing
    <3> QED BY <1>0, <1>4, <2>1, <2>2, <3>2 DEF Keeps, MirrorCore, OnRecord, Recorded
  <2> QED BY <1>8, <2>4, <2>5 DEF CallUpdate
<1>9. CASE CallDelete(c)
  <2>1. /\ UNCHANGED <<row, ref, rec, gaveUp>> /\ call[c].do = "cancel" /\ event' = NULL
        /\ call' = [call EXCEPT ![c] = Idle]
    BY <1>9 DEF CallDelete, Leaves
  <2>2. RecsOK'
    BY <1>1, <2>1, SameRecs
  <2>3. CallsOK'
    BY <1>1, <1>2, <2>1, IdleCall, CallGoesOn DEF CallOK, Idle
  <2>4. Mirrored'
    BY <1>1, <2>1 DEF CallOK, Mirrored
  <2> QED BY <1>0, <1>4, <2>1, <2>2, <2>3, <2>4 DEF Keeps, MirrorCore, OnRecord, Recorded
<1>10. CASE MarkSyncPending(c)
  <2>1. PICK new : new = [row EXCEPT !.pending = TRUE, !.attempts = 0, !.due = TRUE]
    OBVIOUS
  <2>2. row' = new /\ WriteRow(new) /\ call' = [call EXCEPT ![c] = Idle]
    BY <1>10, <2>1 DEF MarkSyncPending, WriteRow
  <2>3. new.pending = TRUE /\ new.status = row.status
    BY <2>1 DEF MirrorTypeOK, BookingRows
  <2>4. RecsOK' /\ ~Clearing'
    BY <1>1, <2>2, <2>3, WrittenRecs
  <2>5. CallsOK'
    BY <1>1, <1>2, <2>2, IdleCall, CallGoesOn DEF CallOK, Idle
  <2> QED BY <1>0, <1>4, <2>2, <2>3, <2>4, <2>5 DEF Keeps, MirrorCore, OnRecord, Recorded, Flagged
<1>11. CASE CallDies(c)
  <2>1. /\ UNCHANGED <<row, ref, event, rec, gaveUp>> /\ call[c].do = "book"
        /\ call' = [call EXCEPT ![c] = Idle]
    BY <1>11 DEF CallDies, Leaves
  <2>2. RecsOK'
    BY <1>1, <2>1, SameRecs
  <2>3. CallsOK' /\ \A d \in Callers : call'[d].pc = "idle"
    BY <1>1, <1>2, <2>1, IdleCall, CallGoesOn DEF CallOK, Idle
  <2>4. Found'
    BY <1>1, <2>1, <2>3 DEF CallOK, Found, Orphaned, InFlight
  <2> QED BY <1>0, <1>4, <2>1, <2>2, <2>3, <2>4 DEF Keeps, MirrorCore, OnRecord, Recorded
<1> QED BY <1>5, <1>6, <1>7, <1>8, <1>9, <1>10, <1>11 DEF CallStep

\* A reconciler goes on or ends: the others are idle.
LEMMA RecGoesOn ==
  ASSUME MirrorTypeOK, RecsOK, NEW w \in Workers, rec[w].pc # "idle",
         \A v \in Workers \ {w} : rec'[v] = rec[v] \/ rec'[v] = [rec[v] EXCEPT !.fresh = FALSE],
         RecOK(rec[w])'
  PROVE  /\ RecsOK'
         /\ Clearing <=> rec[w].pc \in {"save", "clear"} /\ rec[w].fresh = TRUE
         /\ Clearing' <=> rec'[w].pc \in {"save", "clear"} /\ rec'[w].fresh = TRUE
<1>1. \A v \in Workers \ {w} : rec[v].pc = "idle" /\ rec[v] = RecIdle
  BY DEF RecsOK, RecOK
<1>2. [RecIdle EXCEPT !.fresh = FALSE] = RecIdle /\ RecIdle.pc = "idle"
  <2>1. ASSUME NEW r, r = [RecIdle EXCEPT !.fresh = FALSE] PROVE r = RecIdle
    BY <2>1 DEF RecIdle
  <2>2. RecIdle.pc = "idle"
    BY DEF RecIdle
  <2> QED BY <2>1, <2>2
<1>3. ASSUME NEW v \in Workers \ {w} PROVE rec'[v] = RecIdle
  <2>1. rec[v] = RecIdle /\ (rec'[v] = rec[v] \/ rec'[v] = [rec[v] EXCEPT !.fresh = FALSE])
    BY <1>1
  <2> QED BY <1>2, <2>1
<1>4. ASSUME NEW v \in Workers \ {w} PROVE RecOK(rec[v])'
  BY <1>2, <1>3 DEF RecOK
<1>5. RecsOK'
  BY <1>2, <1>3, <1>4 DEF RecsOK
<1>6. \A v \in Workers \ {w} : rec[v].pc = "idle" /\ rec'[v].pc = "idle"
  BY <1>1, <1>2, <1>3
<1> QED BY <1>5, <1>6 DEF Clearing

LEMMA IdleRec == RecIdle.pc = "idle" /\ RecIdle.fresh = FALSE /\ RecOK(RecIdle)
BY DEF RecOK, RecIdle

\* Steps of a reconciler leave the calls alone.
LEMMA SameCalls ==
  ASSUME CallsOK, call' = call, row'.status = row.status, row'.time = row.time,
         \A c \in Callers : call[c].pc # "idle" /\ call[c].do = "book" => ref' = FALSE /\ row'.pending = FALSE
  PROVE  CallsOK' /\ (Owing' <=> Owing)
<1>1. ASSUME NEW c \in Callers PROVE CallOK(call[c])'
  BY DEF CallsOK, CallOK
<1> QED BY <1>1 DEF CallsOK, Owing

\* While a reconciler works, the flag is on and no booking is being written.
LEMMA RecAtWork ==
  ASSUME MirrorTypeOK, MirrorCore, NEW w \in Workers, rec[w].pc # "idle"
  PROVE  /\ row.pending = TRUE /\ row.status \in {"confirmed", "cancelled"}
         /\ \A c \in Callers : ~(call[c].pc # "idle" /\ call[c].do = "book")
         /\ ~Found /\ RecOK(rec[w]) /\ rec[w] \in RecRecords
<1>1. RecOK(rec[w]) /\ row.pending = TRUE /\ rec[w] \in RecRecords
  BY DEF MirrorCore, RecsOK, RecOK, MirrorTypeOK
<1>2. row.status \in {"confirmed", "cancelled"}
  BY <1>1 DEF MirrorCore, MirrorTypeOK, BookingRows, Statuses
<1>3. \A c \in Callers : ~(call[c].pc # "idle" /\ call[c].do = "book")
  BY <1>1 DEF MirrorCore, CallsOK, CallOK
<1> QED BY <1>1, <1>2, <1>3 DEF Found, Orphaned

\* A claim, while no other reconciler is at work.
LEMMA ClaimKeeps ==
  ASSUME MirrorTypeOK, MirrorCore, NEW w \in Workers, Claim(w), unguarded' = FALSE
  PROVE  Keeps
<1>1. /\ row.pending = TRUE /\ \A v \in Workers : rec[v] = RecIdle
      /\ UNCHANGED <<ref, event, removed, call, gaveUp>>
  BY DEF Claim, Leaves, MirrorTypeOK, BookingRows
<1>2. row.status \in {"confirmed", "cancelled"}
  BY <1>1 DEF MirrorCore, MirrorTypeOK, BookingRows, Statuses
<1>3. /\ row'.pending = TRUE /\ row'.status = row.status /\ row'.time = row.time
  BY <1>1 DEF Claim, MirrorTypeOK, BookingRows
<1>4. PICK r : r = [RecIdle EXCEPT !.pc = "ref", !.status = row.status,
                       !.attempts = row.attempts, !.fresh = TRUE]
  OBVIOUS
<1>5. r.pc = "ref" /\ r.status = row.status /\ r.fresh = TRUE
  BY <1>4 DEF RecIdle
<1>6. rec' = [rec EXCEPT ![w] = r] /\ rec \in [Workers -> RecRecords]
  BY <1>4 DEF Claim, MirrorTypeOK
<1>7. rec'[w] = r /\ \A v \in Workers \ {w} : rec'[v] = RecIdle
  BY <1>1, <1>6
<1>8. RecOK(rec[w])'
  BY <1>2, <1>3, <1>5, <1>7 DEF RecOK
<1>9. ASSUME NEW v \in Workers \ {w} PROVE RecOK(rec[v])' /\ rec'[v].pc = "idle"
  BY <1>7, IdleRec DEF RecOK
<1>10. RecsOK' /\ ~Clearing'
  BY <1>5, <1>7, <1>8, <1>9 DEF RecsOK, Clearing
<1>11. CallsOK'
  <2>1. \A c \in Callers : ~(call[c].pc # "idle" /\ call[c].do = "book")
    BY <1>1 DEF MirrorCore, CallsOK, CallOK
  <2> QED BY <1>1, <1>3, <2>1, SameCalls DEF MirrorCore
<1> QED BY <1>1, <1>2, <1>3, <1>10, <1>11, GoneBefore DEF Keeps, MirrorCore, OnRecord, Recorded, Flagged

\* The last write of a reconciler, and its death.
LEMMA EndKeeps ==
  ASSUME MirrorTypeOK, MirrorCore, NEW w \in Workers,
         RecClear(w) \/ RecTerminal(w) \/ RecordFailure(w) \/ RecDies(w)
  PROVE  Keeps
<1>1. rec[w].pc # "idle"
  <2>1. RecOK(rec[w])
    BY DEF MirrorCore, RecsOK
  <2> QED BY <2>1 DEF RecClear, RecTerminal, RecordFailure, RecDies, RecOK
<1>2. /\ row.pending = TRUE /\ row.status \in {"confirmed", "cancelled"}
      /\ \A c \in Callers : ~(call[c].pc # "idle" /\ call[c].do = "book")
      /\ ~Found /\ RecOK(rec[w]) /\ rec[w] \in RecRecords
  BY <1>1, RecAtWork
<1>3. UNCHANGED <<ref, event, removed, call>>
  BY DEF RecClear, RecTerminal, RecordFailure, RecDies
<1>4. /\ row'.status = row.status /\ row'.time = row.time
      /\ \/ row'.pending = TRUE /\ gaveUp' = gaveUp
         \/ gaveUp' = TRUE
         \/ rec[w].pc = "clear" /\ rec[w].fresh = TRUE /\ gaveUp' = gaveUp
  <2>1. row \in BookingRows /\ rec[w].fresh \in BOOLEAN
    BY <1>2 DEF MirrorTypeOK, RecRecords
  <2>2. CASE RecClear(w)
    BY <1>2, <2>1, <2>2 DEF RecClear, RecEnds, BookingRows
  <2>3. CASE RecTerminal(w)
    BY <2>1, <2>3 DEF RecTerminal, RecEnds, BookingRows
  <2>4. CASE RecordFailure(w)
    BY <1>2, <2>1, <2>4 DEF RecordFailure, RecEnds, BookingRows
  <2>5. CASE RecDies(w)
    BY <1>2, <2>5 DEF RecDies
  <2> QED BY <2>2, <2>3, <2>4, <2>5
<1>5. /\ rec'[w] = RecIdle
      /\ \A v \in Workers \ {w} : rec'[v] = rec[v] \/ rec'[v] = [rec[v] EXCEPT !.fresh = FALSE]
  BY DEF RecClear, RecTerminal, RecordFailure, RecDies, RecEnds, MirrorTypeOK
<1>6. RecOK(rec[w])'
  BY <1>5, IdleRec DEF RecOK
<1>7. RecsOK' /\ ~Clearing' /\ (rec[w].pc = "clear" /\ rec[w].fresh = TRUE => Clearing)
  BY <1>1, <1>5, <1>6, IdleRec, RecGoesOn DEF MirrorCore
<1>8. CallsOK' /\ (Owing' <=> Owing)
  BY <1>2, <1>3, <1>4, SameCalls DEF MirrorCore
<1>9. Mirrored' <=> Mirrored
  BY <1>3, <1>4 DEF Mirrored
<1>10. (Recorded => Recorded') /\ (OnRecord => OnRecord')
  BY <1>2, <1>3, <1>4, <1>7, <1>8, <1>9, GoneBefore DEF OnRecord, Recorded, Flagged
<1> QED BY <1>2, <1>4, <1>7, <1>8, <1>10 DEF Keeps, MirrorCore

\* What a reconciler that goes on leaves: the flag is on, so it is enough that
\* it is not about to clear it, or that event and booking agree.
LEMMA GoneOnKeeps ==
  ASSUME MirrorTypeOK, MirrorCore, NEW w \in Workers, rec[w].pc # "idle",
         row' = row, call' = call, gaveUp' = gaveUp, removed' = removed \/ Deleted,
         \A v \in Workers \ {w} : rec'[v] = rec[v],
         RecOK(rec[w])',
         \/ rec'[w].pc \notin {"save", "clear"} \/ rec'[w].fresh # TRUE \/ Mirrored' \/ Gone
         \/ event' = event /\ rec[w].pc \in {"save", "clear"} /\ rec'[w].fresh = rec[w].fresh
  PROVE  Keeps
<1>1. /\ row.pending = TRUE /\ row.status \in {"confirmed", "cancelled"}
      /\ \A c \in Callers : ~(call[c].pc # "idle" /\ call[c].do = "book")
      /\ ~Found
  BY RecAtWork
<1>2. /\ RecsOK'
      /\ Clearing <=> rec[w].pc \in {"save", "clear"} /\ rec[w].fresh = TRUE
      /\ Clearing' <=> rec'[w].pc \in {"save", "clear"} /\ rec'[w].fresh = TRUE
  BY RecGoesOn DEF MirrorCore
<1>3. CallsOK' /\ (Owing' <=> Owing)
  BY <1>1, SameCalls DEF MirrorCore
<1>4. CASE Mirrored' \/ ~Clearing'
  <2>1. Recorded'
    BY <1>1, <1>4 DEF Recorded, Flagged
  <2> QED BY <1>1, <1>2, <1>3, <2>1, GoneBefore DEF Keeps, MirrorCore, OnRecord
<1>5. CASE event' = event /\ rec[w].pc \in {"save", "clear"} /\ rec'[w].fresh = rec[w].fresh /\ Clearing'
  <2>1. Mirrored' <=> Mirrored
    BY <1>5 DEF Mirrored
  <2>2. Recorded => Recorded'
    BY <1>1, <1>2, <1>3, <1>5, <2>1 DEF Recorded, Flagged
  <2> QED BY <1>1, <1>2, <1>3, <1>5, <2>2, GoneBefore DEF Keeps, MirrorCore, OnRecord
<1>6. CASE Gone
  BY <1>1, <1>2, <1>3, <1>6 DEF Keeps, MirrorCore, OnRecord, Gone
<1> QED BY <1>2, <1>4, <1>5, <1>6

\* The reconciler's reads and calls.
LEMMA RecKeeps ==
  ASSUME MirrorTypeOK, MirrorCore, NEW w \in Workers, RecStep(w) \/ RecDies(w), unguarded' = FALSE
  PROVE  Keeps
<1> DEFINE Working == RecReadRef(w) \/ RecLoadMeta(w) \/ RecUpdate(w) \/ RecCreate(w) \/ RecSaveRef(w) \/ RecDelete(w)
<1> SUFFICES ASSUME Working PROVE Keeps
  BY ClaimKeeps, EndKeeps DEF RecStep
<1>1. rec[w].pc # "idle"
  BY DEF RecReadRef, RecLoadMeta, RecUpdate, RecCreate, RecSaveRef, RecDelete
<1>2. /\ row.pending = TRUE /\ row.status \in {"confirmed", "cancelled"}
      /\ \A c \in Callers : ~(call[c].pc # "idle" /\ call[c].do = "book")
      /\ RecOK(rec[w]) /\ rec[w] \in RecRecords /\ rec \in [Workers -> RecRecords]
  BY <1>1, RecAtWork DEF MirrorTypeOK
<1>3. ASSUME NEW pc, RecGoto(w, pc)
      PROVE  /\ rec'[w].pc = pc /\ rec'[w].fresh = rec[w].fresh
             /\ \A v \in Workers \ {w} : rec'[v] = rec[v]
  BY <1>2, <1>3 DEF RecGoto, RecRecords
<1>4. ASSUME NEW pc \in {"save", "clear", "fail", "terminal"}, RecGoto(w, pc), row' = row
      PROVE  RecOK(rec[w])'
  BY <1>2, <1>3, <1>4 DEF RecOK
<1>5. CASE RecReadRef(w)
  <2>0. UNCHANGED <<row, ref, event, removed, call, gaveUp>> /\ rec[w].pc = "ref"
    BY <1>5 DEF RecReadRef
  <2>1. PICK pc : /\ pc = CASE rec[w].status = "confirmed" -> "meta"
                   [] rec[w].status = "cancelled" /\ ref -> "delete"
                   [] OTHER -> "clear"
                  /\ rec' = [rec EXCEPT ![w].ref = ref, ![w].status = NULL, ![w].pc = pc]
    BY <1>5 DEF RecReadRef
  <2>2. /\ rec'[w].pc = pc /\ rec'[w].fresh = rec[w].fresh
        /\ \A v \in Workers \ {w} : rec'[v] = rec[v]
    BY <1>2, <2>1 DEF RecRecords
  <2>3. /\ pc \in {"meta", "delete", "clear"}
        /\ pc = "meta" => rec[w].status = "confirmed"
        /\ pc \in {"delete", "clear"} => rec[w].status = "cancelled"
        /\ pc = "clear" => ~ref
    BY <1>2, <2>0, <2>1 DEF RecOK
  <2>4. pc = "clear" => event = NULL
    BY <1>5, <2>3 DEF RecReadRef, Leaves
  <2>5. RecOK(rec[w])'
    BY <1>2, <2>0, <2>2, <2>3 DEF RecOK
  <2>6. pc = "clear" => Mirrored'
    BY <1>2, <2>0, <2>3, <2>4 DEF RecOK, Mirrored
  <2> QED BY <1>1, <2>0, <2>2, <2>3, <2>5, <2>6, GoneOnKeeps
<1>6. CASE RecLoadMeta(w)
  <2>0. UNCHANGED <<row, ref, event, removed, call, gaveUp>> /\ rec[w].pc = "meta"
    BY <1>6 DEF RecLoadMeta
  <2>1. PICK pc \in {"update", "create"} :
          rec' = [rec EXCEPT ![w].time = row.time, ![w].ref = FALSE, ![w].pc = pc]
    BY <1>6 DEF RecLoadMeta
  <2>2. /\ rec'[w].pc = pc /\ rec'[w].fresh = rec[w].fresh /\ rec'[w].time = row.time
        /\ \A v \in Workers \ {w} : rec'[v] = rec[v]
    BY <1>2, <2>1 DEF RecRecords
  <2>3. RecOK(rec[w])'
    BY <1>2, <2>0, <2>2 DEF RecOK
  <2> QED BY <1>1, <2>0, <2>2, <2>3, GoneOnKeeps
<1>7. CASE RecUpdate(w)
  <2>0. UNCHANGED <<ref, removed, call, gaveUp>> /\ rec[w].pc = "update"
    BY <1>7 DEF RecUpdate
  <2>1. CASE event' = rec[w].time /\ RecGoto(w, "clear") /\ row' = row
    <3>1. rec[w].fresh = TRUE => Mirrored'
      BY <1>2, <2>0, <2>1 DEF RecOK, Mirrored
    <3> QED BY <1>1, <1>3, <1>4, <2>0, <2>1, <3>1, GoneOnKeeps
  <2>2. CASE event' = NULL /\ row.status # "confirmed" /\ RecGoto(w, "clear") /\ row' = row
    <3>1. Mirrored'
      BY <1>2, <2>2 DEF Mirrored
    <3> QED BY <1>1, <1>3, <1>4, <2>0, <2>2, <3>1, GoneOnKeeps
  <2>3. CASE row' = row /\ \E pc \in {"fail", "terminal"} : RecGoto(w, pc)
    <3>1. PICK pc \in {"fail", "terminal"} : RecGoto(w, pc)
      BY <2>3
    <3> QED BY <1>1, <1>3, <1>4, <2>0, <2>3, <3>1, GoneOnKeeps
  <2>4. CASE /\ event' = NULL /\ row' = [row EXCEPT !.status = "cancelled"]
             /\ rec' = [v \in Workers |-> [rec[v] EXCEPT !.fresh = FALSE,
                               !.pc = IF v = w THEN "clear" ELSE @,
                               !.time = IF v = w THEN NULL ELSE @]]
             /\ Leaves(InFlight # {})
    <3>1. row'.status = "cancelled" /\ row'.pending = TRUE
      BY <1>2, <2>4 DEF MirrorTypeOK, BookingRows
    <3>2. rec'[w].pc = "clear" /\ \A v \in Workers \ {w} : rec'[v] = [rec[v] EXCEPT !.fresh = FALSE]
      <4>1. rec'[w] = [rec[w] EXCEPT !.fresh = FALSE, !.pc = "clear", !.time = NULL]
        BY <2>4
      <4>2. ASSUME NEW v \in Workers \ {w} PROVE rec'[v] = [rec[v] EXCEPT !.fresh = FALSE]
        <5>1. rec'[v] = [rec[v] EXCEPT !.fresh = FALSE, !.pc = rec[v].pc, !.time = rec[v].time]
          BY <2>4
        <5> QED BY <1>2, <5>1 DEF RecRecords
      <4> QED BY <1>2, <4>1, <4>2 DEF RecRecords
    <3>3. RecOK(rec[w])'
      BY <3>1, <3>2 DEF RecOK
    <3>4. RecsOK'
      BY <1>1, <3>2, <3>3, RecGoesOn DEF MirrorCore
    <3>5. \A c \in Callers : call[c].pc = "idle"
      BY <2>4 DEF Leaves, InFlight
    <3>6. CallsOK'
      BY <2>0, <3>5 DEF MirrorCore, CallsOK, CallOK
    <3>7. Mirrored'
      BY <2>4, <3>1 DEF Mirrored
    <3> QED BY <3>1, <3>4, <3>6, <3>7 DEF Keeps, MirrorCore, OnRecord, Recorded, Gone
  <2> QED BY <1>7, <2>1, <2>2, <2>3, <2>4 DEF RecUpdate
<1>8. CASE RecCreate(w)
  <2>0. UNCHANGED <<row, ref, removed, call, gaveUp>> /\ rec[w].pc = "create"
    BY <1>8 DEF RecCreate
  <2>1. CASE RecGoto(w, "fail")
    <3>1. rec'[w].pc = "fail" /\ (\A v \in Workers \ {w} : rec'[v] = rec[v]) /\ RecOK(rec[w])'
      BY <1>3, <1>4, <2>0, <2>1
    <3> QED BY <1>1, <2>0, <3>1, GoneOnKeeps
  <2>2. CASE event' \in Created(rec[w].time) /\ Leaves(event \notin {NULL, rec[w].time}) /\ RecGoto(w, "save")
    <3>1. event' = rec[w].time \/ (event' = NULL /\ event = NULL /\ removed = TRUE)
      BY <2>2 DEF Leaves, Created, MirrorTypeOK
    <3>2. rec[w].fresh = TRUE => Mirrored' \/ Gone
      BY <1>2, <2>0, <3>1 DEF RecOK, Mirrored, Gone
    <3> QED BY <1>1, <1>3, <1>4, <2>0, <2>2, <3>2, GoneOnKeeps
  <2> QED BY <1>8, <2>1, <2>2 DEF RecCreate
<1>9. CASE RecSaveRef(w)
  <2>0. UNCHANGED <<row, event, removed, call, gaveUp>> /\ rec[w].pc = "save" /\ RecGoto(w, "clear")
    BY <1>9 DEF RecSaveRef
  <2> QED BY <1>1, <1>3, <1>4, <2>0, GoneOnKeeps
<1>10. CASE RecDelete(w)
  <2>0. /\ UNCHANGED <<row, ref, call, gaveUp>> /\ rec[w].pc = "delete" /\ row.status = "cancelled"
        /\ removed' = removed \/ Deleted
    BY <1>2, <1>10 DEF RecDelete, RecOK
  <2>1. CASE Deleted /\ RecGoto(w, "clear")
    <3>1. Mirrored'
      BY <2>0, <2>1 DEF Mirrored, Deleted
    <3> QED BY <1>1, <1>3, <1>4, <2>0, <2>1, <3>1, GoneOnKeeps
  <2>2. CASE \E pc \in {"fail", "terminal"} : RecGoto(w, pc)
    <3>1. PICK pc \in {"fail", "terminal"} : RecGoto(w, pc)
      BY <2>2
    <3> QED BY <1>1, <1>3, <1>4, <2>0, <3>1, GoneOnKeeps
  <2> QED BY <1>10, <2>1, <2>2 DEF RecDelete
<1> QED BY <1>5, <1>6, <1>7, <1>8, <1>9, <1>10

\* Only the event changes, if anything: an event that somebody else moves or
\* removes, on the calendar's side.
LEMMA EventKeeps ==
  ASSUME MirrorTypeOK, MirrorCore, UNCHANGED <<row, ref, call, rec, gaveUp>>,
         event' = event \/ event # NULL, removed' = removed \/ Deleted
  PROVE  Keeps
<1>1. RecsOK' /\ (Clearing' <=> Clearing)
  BY SameRecs DEF MirrorCore
<1>2. CallsOK' /\ (Owing' <=> Owing)
  <2>1. \A c \in Callers : call[c].pc # "idle" /\ call[c].do = "book" => ref' = FALSE /\ row'.pending = FALSE
    BY DEF MirrorCore, CallsOK, CallOK
  <2> QED BY <2>1, SameCalls DEF MirrorCore
<1>3. (Flagged' <=> Flagged) /\ (Found' <=> Found)
  BY <1>1 DEF Flagged, Found, Orphaned, InFlight
<1>4. event' = event => (Mirrored' <=> Mirrored)
  BY DEF Mirrored
<1>5. event' = event /\ OnRecord => OnRecord'
  BY <1>2, <1>3, <1>4, GoneBefore DEF OnRecord, Recorded
<1>6. row'.status = "cancelled" => Recorded'
  <2>1. CASE event' = event
    BY <1>2, <1>3, <1>4, <2>1 DEF MirrorCore, Recorded
  <2>2. CASE row.status = "cancelled" /\ event' # event
    <3>1. ~Mirrored
      BY <2>2 DEF Mirrored
    <3> QED BY <1>2, <1>3, <2>2, <3>1 DEF MirrorCore, Recorded
  <2> QED BY <2>1, <2>2
<1>7. row.status = "absent" => event' = NULL /\ removed' = FALSE
  BY DEF MirrorCore, Deleted
<1> QED BY <1>1, <1>2, <1>5, <1>6, <1>7 DEF Keeps, MirrorCore

\* The sweep that finds orphans, and time.
LEMMA ReflagKeeps ==
  ASSUME MirrorTypeOK, MirrorCore, Reflag
  PROVE  Keeps
<1>1. PICK new : new = [row EXCEPT !.pending = TRUE]
  OBVIOUS
<1>2. row' = new /\ WriteRow(new) /\ UNCHANGED <<ref, call, event, removed>>
  BY <1>1 DEF Reflag, WriteRow
<1>3. new.pending = TRUE /\ new.status = row.status /\ new.time = row.time
  BY <1>1 DEF MirrorTypeOK, BookingRows
<1>4. RecsOK' /\ ~Clearing'
  BY <1>2, <1>3, WrittenRecs DEF MirrorCore
<1>5. CallsOK'
  <2>1. \A c \in Callers : ~(call[c].pc # "idle" /\ call[c].do = "book")
    BY DEF Reflag, Orphaned, InFlight
  <2> QED BY <1>2, <1>3, <2>1, SameCalls DEF MirrorCore
<1> QED BY <1>2, <1>3, <1>4, <1>5, GoneBefore DEF Keeps, MirrorCore, OnRecord, Recorded, Flagged, Reflag, Orphaned

LEMMA ElapseKeeps ==
  ASSUME MirrorTypeOK, MirrorCore, Elapse
  PROVE  Keeps
<1>1. UNCHANGED <<ref, event, removed, call, rec, gaveUp>>
  BY DEF Elapse
<1>2. row'.status = row.status /\ row'.time = row.time /\ row'.pending = row.pending
  BY DEF Elapse, MirrorTypeOK, BookingRows
<1>3. RecsOK' /\ (Clearing' <=> Clearing)
  BY <1>1, <1>2, SameRecs DEF MirrorCore
<1>4. CallsOK' /\ (Owing' <=> Owing)
  <2>1. \A c \in Callers : call[c].pc # "idle" /\ call[c].do = "book" => ref' = FALSE /\ row'.pending = FALSE
    BY <1>1, <1>2 DEF MirrorCore, CallsOK, CallOK
  <2> QED BY <1>1, <1>2, <2>1, SameCalls DEF MirrorCore
<1>5. (Flagged' <=> Flagged) /\ (Found' <=> Found) /\ (Mirrored' <=> Mirrored)
  BY <1>1, <1>2, <1>3 DEF Flagged, Found, Orphaned, InFlight, Mirrored
<1>6. (Recorded => Recorded') /\ (OnRecord => OnRecord')
  BY <1>1, <1>2, <1>4, <1>5, GoneBefore DEF OnRecord, Recorded
<1> QED BY <1>1, <1>2, <1>3, <1>4, <1>6 DEF Keeps, MirrorCore

\* Every step on the booking's side.
LEMMA MirrorKeeps ==
  ASSUME MirrorTypeOK, MirrorCore, unguarded' = FALSE,
         (\E c \in Callers : CustomerStep(c)) \/ Background \/ OwnerDeletes
  PROVE  Keeps
<1>1. ASSUME NEW c \in Callers, CustomerStep(c) PROVE Keeps
  BY <1>1, BookKeeps, MovedKeeps, CancelledKeeps DEF CustomerStep, Move, Cancel, Keeps
<1>2. CASE Background
  BY <1>2, CallKeeps, RecKeeps, ReflagKeeps, ElapseKeeps DEF Background
<1>3. CASE OwnerDeletes
  <2>1. UNCHANGED <<row, ref, call, rec, gaveUp>> /\ event # NULL /\ Deleted
    BY <1>3 DEF OwnerDeletes
  <2> QED BY <2>1, EventKeeps
<1> QED BY <1>1, <1>2, <1>3

\* The rounds under way take notice of the event's changes.
LEMMA NotedCore ==
  ASSUME SyncTypeOK, SyncCore, Keeps, NEW next \in [Pullers -> Rounds], Noted(next),
         \A j \in Pullers : next[j] = pull[j] \/ RoundOK(pull[j])'
  PROVE  SyncCore'
<1>1. /\ feed' \in BOOLEAN /\ (feed' <=> feed \/ event' # event)
      /\ \A i \in Pullers :
              /\ pull'[i] \in Rounds
              /\ pull'[i].pc = next[i].pc /\ pull'[i].seen = next[i].seen
              /\ pull'[i].time = next[i].time /\ pull'[i].failed = next[i].failed
              /\ pull'[i].late <=> \/ next[i].late
                                   \/ next[i].pc \notin {"idle", "list"} /\ event' # event
  BY NotedType DEF SyncTypeOK
<1>2. feed' = TRUE \/ OnRecord'
  BY <1>1 DEF SyncCore, Keeps
<1>3. ASSUME NEW j \in Pullers, next[j] = pull[j] PROVE RoundOK(pull[j])'
  <2>1. RoundOK(pull[j]) /\ pull[j].late \in BOOLEAN /\ pull'[j].late \in BOOLEAN
    BY <1>1 DEF SyncCore, SyncTypeOK, Rounds
  <2>2. /\ pull'[j].pc = pull[j].pc /\ pull'[j].seen = pull[j].seen /\ pull'[j].failed = pull[j].failed
        /\ pull'[j].late <=> pull[j].late \/ (pull[j].pc \notin {"idle", "list"} /\ event' # event)
    BY <1>1, <1>3
  <2> QED BY <2>1, <2>2 DEF RoundOK, Keeps
<1> QED BY <1>2, <1>3 DEF SyncCore, Keeps

\* A round goes on and the event stays as it is.
LEMMA RoundGoesOn ==
  ASSUME SyncTypeOK, SyncCore, NEW i \in Pullers, Keeps, event' = event,
         \A j \in Pullers \ {i} : pull'[j] = pull[j],
         RoundOK(pull[i])', feed' = TRUE \/ OnRecord'
  PROVE  SyncCore'
<1>1. ASSUME NEW j \in Pullers \ {i} PROVE RoundOK(pull[j])'
  BY DEF SyncCore, RoundOK, Keeps
<1> QED BY <1>1 DEF SyncCore, Keeps

\* A booking that is not confirmed is accounted for.
LEMMA NotConfirmed ==
  ASSUME MirrorTypeOK, MirrorCore, row.status # "confirmed"
  PROVE  OnRecord
<1>1. CASE row.status = "absent"
  BY <1>1 DEF OnRecord, Recorded, Gone, Mirrored
<1>2. CASE row.status = "cancelled"
  BY <1>2 DEF MirrorCore, OnRecord, Gone
<1> QED BY <1>1, <1>2 DEF MirrorTypeOK, BookingRows, Statuses

\* The steps of a round, while nothing is left unflagged or skipped.
LEMMA PullKeeps ==
  ASSUME SyncTypeOK, SyncCore, NEW i \in Pullers, PullStep(i) \/ PullListThrows(i) \/ PullDies(i),
         unguarded' = FALSE, skipped' = FALSE
  PROVE  SyncCore'
<1>1. /\ MirrorTypeOK /\ MirrorCore /\ feed \in BOOLEAN /\ pull \in [Pullers -> Rounds]
      /\ pull[i] \in Rounds /\ i \in Callers /\ RoundOK(pull[i]) /\ HasTimes(pull[i])
      /\ feed = TRUE \/ OnRecord
  BY DEF SyncTypeOK, SyncCore
<1>2. pull[i].late \in BOOLEAN /\ pull[i].failed \in BOOLEAN
  BY <1>1 DEF Rounds
<1>3. ASSUME UNCHANGED <<row, ref, event, removed, call, rec, gaveUp>>
      PROVE  Keeps /\ (OnRecord => OnRecord')
  BY <1>1, <1>3, EventKeeps DEF Keeps
<1>4. ASSUME NEW failed \in BOOLEAN, pull' = Handled(i, failed)
      PROVE  /\ pull'[i].pc = "end" /\ pull'[i].failed = failed /\ pull'[i].late = pull[i].late
             /\ \A j \in Pullers \ {i} : pull'[j] = pull[j]
  BY <1>1, <1>4, HandledType
<1>5. ASSUME pull' = [pull EXCEPT ![i] = PullIdle]
      PROVE  RoundOK(pull[i])' /\ \A j \in Pullers \ {i} : pull'[j] = pull[j]
  BY <1>1, <1>5 DEF RoundOK, PullIdle
<1>6. CASE PullClaim(i)
  <2>1. UNCHANGED <<row, ref, event, removed, call, rec, gaveUp, feed>> /\ pull[i].pc = "idle"
    BY <1>6 DEF PullClaim, vars, PullIdle
  <2>2. /\ pull'[i].pc = "list" /\ pull'[i].late = pull[i].late /\ pull'[i].failed = pull[i].failed
        /\ \A j \in Pullers \ {i} : pull'[j] = pull[j]
    BY <1>1, <1>6, PullTo DEF PullClaim
  <2>3. RoundOK(pull[i])'
    BY <1>1, <2>1, <2>2 DEF RoundOK
  <2> QED BY <1>1, <1>3, <2>1, <2>2, <2>3, RoundGoesOn
<1>7. CASE PullList(i)
  <2>1. UNCHANGED <<row, ref, event, removed, call, rec, gaveUp, feed>> /\ pull[i].pc = "list"
    BY <1>7 DEF PullList
  <2>2. PICK pc \in {"get", "end"} :
          /\ PullGoto(i, pc)
          /\ pc = "end" => OnRecord
    <3>1. CASE ref /\ row.status = "confirmed" /\ PullGoto(i, "get")
      BY <3>1
    <3>2. CASE ~(ref /\ row.status = "confirmed") /\ PullGoto(i, "end") /\ ~(~ref /\ ~Mirrored)
      BY <1>1, <3>2, NotConfirmed, MirroredNotGone
    <3>3. CASE PullGoto(i, "end") /\ Mirrored
      BY <1>1, <3>3, MirroredNotGone
    <3> QED BY <1>7, <3>1, <3>2, <3>3 DEF PullList
  <2>3. /\ pull'[i].pc = pc /\ pull'[i].late = pull[i].late /\ pull'[i].failed = pull[i].failed
        /\ \A j \in Pullers \ {i} : pull'[j] = pull[j]
    BY <1>1, <2>2, PullTo
  <2>4. Keeps /\ (OnRecord => OnRecord')
    BY <1>3, <2>1
  <2>5. RoundOK(pull[i])'
    BY <1>1, <2>1, <2>2, <2>3, <2>4 DEF RoundOK
  <2> QED BY <1>1, <2>1, <2>3, <2>4, <2>5, RoundGoesOn
<1>8. CASE PullGet(i)
  <2>1. UNCHANGED <<row, ref, event, removed, call, rec, gaveUp, feed>> /\ pull[i].pc = "get"
    BY <1>8 DEF PullGet, vars
  <2>2. CASE pull' = [pull EXCEPT ![i].pc = "read", ![i].seen = event]
    <3>1. /\ pull'[i].pc = "read" /\ pull'[i].seen = event /\ pull'[i].failed = pull[i].failed
          /\ \A j \in Pullers \ {i} : pull'[j] = pull[j]
      BY <1>1, <2>2 DEF Rounds
    <3>2. RoundOK(pull[i])'
      BY <1>1, <2>1, <3>1 DEF RoundOK
    <3> QED BY <1>1, <1>3, <2>1, <3>1, <3>2, RoundGoesOn
  <2>3. CASE PullFails(i)
    <3>1. /\ pull'[i].pc = "end" /\ pull'[i].failed = TRUE
          /\ \A j \in Pullers \ {i} : pull'[j] = pull[j]
      BY <1>4, <2>3 DEF PullFails
    <3>2. RoundOK(pull[i])'
      BY <3>1 DEF RoundOK
    <3> QED BY <1>1, <1>3, <2>1, <3>1, <3>2, RoundGoesOn
  <2> QED BY <1>8, <2>2, <2>3 DEF PullGet
<1>9. CASE PullRead(i)
  <2>1. UNCHANGED <<row, ref, event, removed, call, rec, gaveUp, feed>> /\ pull[i].pc = "read"
    BY <1>9 DEF PullRead, vars
  <2>2. Keeps /\ (OnRecord => OnRecord')
    BY <1>3, <2>1
  <2>3. CASE (row.status # "confirmed" \/ pull[i].seen = row.time) /\ PullDone(i)
    <3>1. /\ pull'[i].pc = "end" /\ pull'[i].late = pull[i].late
          /\ \A j \in Pullers \ {i} : pull'[j] = pull[j]
      BY <1>4, <2>3 DEF PullDone
    <3>2. pull[i].late = FALSE => OnRecord
      <4>1. CASE row.status # "confirmed"
        BY <1>1, <4>1, NotConfirmed
      <4>2. CASE row.status = "confirmed" /\ pull[i].seen = row.time /\ pull[i].late = FALSE
        <5>1. Mirrored
          BY <1>1, <2>1, <4>2 DEF RoundOK, Mirrored
        <5> QED BY <1>1, <5>1, MirroredNotGone
      <4> QED BY <2>3, <4>1, <4>2
    <3>3. RoundOK(pull[i])'
      BY <2>2, <3>1, <3>2 DEF RoundOK
    <3> QED BY <1>1, <2>1, <2>2, <3>1, <3>3, RoundGoesOn
  <2>4. CASE \E pc \in {"cancel", "move"} : pull' = [pull EXCEPT ![i].pc = pc, ![i].time = row.time]
    <3>0. PICK pc \in {"cancel", "move"} : pull' = [pull EXCEPT ![i].pc = pc, ![i].time = row.time]
      BY <2>4
    <3>1. /\ pull'[i].pc = pc /\ pull'[i].seen = pull[i].seen /\ pull'[i].failed = pull[i].failed
          /\ pull'[i].late = pull[i].late /\ \A j \in Pullers \ {i} : pull'[j] = pull[j]
      BY <1>1, <3>0 DEF Rounds
    <3>2. RoundOK(pull[i])'
      BY <1>1, <2>1, <3>1 DEF RoundOK
    <3> QED BY <1>1, <2>1, <2>2, <3>1, <3>2, RoundGoesOn
  <2> QED BY <1>9, <2>3, <2>4 DEF PullRead
<1>10. CASE PullCancel(i)
  <2>1. UNCHANGED <<event, removed>> /\ PullDone(i)
    BY <1>10 DEF PullCancel
  <2>2. Keeps /\ OnRecord'
    <3>1. CASE Cancelled(i)
      BY <1>1, <2>1, <3>1, CancelledKeeps
    <3>2. CASE row.status # "confirmed" /\ UNCHANGED <<row, rec, call>>
      <4>1. UNCHANGED <<row, ref, event, removed, call, rec, gaveUp>>
        BY <1>10, <3>2 DEF PullCancel
      <4> QED BY <1>1, <1>3, <3>2, <4>1, NotConfirmed DEF Keeps
    <3> QED BY <1>10, <3>1, <3>2 DEF PullCancel
  <2>3. /\ pull'[i].pc = "end" /\ \A j \in Pullers \ {i} : pull'[j] = pull[j]
    BY <1>4, <2>1 DEF PullDone
  <2>4. RoundOK(pull[i])'
    BY <2>2, <2>3 DEF RoundOK
  <2> QED BY <2>1, <2>2, <2>3, <2>4, RoundGoesOn DEF Keeps
<1>11. CASE PullMove(i)
  <2>1. UNCHANGED <<event, removed>> /\ pull[i].pc = "moving" /\ feed' = feed
    BY <1>11 DEF PullMove
  <2>2. CASE Moved(i, pull[i].seen) /\ PullDone(i)
    <3>1. pull[i].seen \in Times
      BY <1>1, <2>1 DEF HasTimes
    <3>2. Keeps
      BY <1>1, <2>1, <2>2, <3>1, MovedKeeps
    <3>3. /\ pull'[i].pc = "end" /\ \A j \in Pullers \ {i} : pull'[j] = pull[j]
      BY <1>4, <2>2 DEF PullDone
    <3>4. pull'[i].late = pull[i].late /\ (OnRecord => OnRecord')
      BY <1>4, <2>1, <2>2, <3>2 DEF PullDone, Keeps
    <3>5. pull[i].late = FALSE => OnRecord'
      <4>1. pull[i].late = FALSE => event # NULL
        BY <1>1, <2>1, <3>1 DEF RoundOK
      <4>2. Recorded' /\ (event # NULL => OnRecord')
        BY <1>1, <2>1, <2>2, <3>1, MovedKeeps
      <4> QED BY <4>1, <4>2
    <3>6. RoundOK(pull[i])'
      BY <3>3, <3>4, <3>5 DEF RoundOK
    <3> QED BY <1>1, <2>1, <3>2, <3>3, <3>4, <3>6, RoundGoesOn
  <2>3. CASE (PullGoto(i, "restore") \/ PullFails(i)) /\ UNCHANGED <<row, rec, call>>
    <3>1. UNCHANGED <<row, ref, event, removed, call, rec, gaveUp>>
      BY <1>11, <2>3 DEF PullMove
    <3>2. CASE PullGoto(i, "restore")
      <4>1. /\ pull'[i].pc = "restore" /\ pull'[i].late = pull[i].late /\ pull'[i].failed = pull[i].failed
            /\ pull'[i].seen = pull[i].seen /\ \A j \in Pullers \ {i} : pull'[j] = pull[j]
        BY <1>1, <3>2, PullTo
      <4>2. RoundOK(pull[i])'
        BY <1>1, <2>1, <4>1 DEF RoundOK
      <4> QED BY <1>1, <1>3, <2>1, <3>1, <4>1, <4>2, RoundGoesOn
    <3>3. CASE PullFails(i)
      <4>1. /\ pull'[i].pc = "end" /\ pull'[i].failed = TRUE
            /\ \A j \in Pullers \ {i} : pull'[j] = pull[j]
        BY <1>4, <3>3 DEF PullFails
      <4>2. RoundOK(pull[i])'
        BY <4>1 DEF RoundOK
      <4> QED BY <1>1, <1>3, <2>1, <3>1, <4>1, <4>2, RoundGoesOn
    <3> QED BY <2>3, <3>2, <3>3
  <2> QED BY <1>11, <2>2, <2>3 DEF PullMove
<1>12. CASE PullRestore(i)
  <2>1. UNCHANGED <<row, ref, removed, call, rec, gaveUp>> /\ pull[i].pc = "restoring"
    BY <1>12 DEF PullRestore
  <2>2. PICK t \in {event, IF event = NULL THEN NULL ELSE pull[i].time}, failed \in BOOLEAN :
       /\ t = event => failed \/ event = pull[i].time
       /\ event' = t
       /\ Leaves(~ failed /\ (row.status # "confirmed" \/ row.time # pull[i].time))
       /\ Noted(Handled(i, failed))
    BY <1>12 DEF PullRestore
  <2>3. Keeps
    BY <1>1, <2>1, <2>2, EventKeeps
  <2>4. PICK next \in [Pullers -> Rounds] :
          /\ next = Handled(i, failed)
          /\ next[i].pc = "end" /\ next[i].failed = failed /\ next[i].late = pull[i].late
          /\ \A j \in Pullers \ {i} : next[j] = pull[j]
    BY <1>1, HandledType
  <2>5. /\ pull'[i].pc = "end" /\ pull'[i].failed = failed
        /\ pull'[i].late <=> pull[i].late \/ event' # event
    BY <1>1, <2>2, <2>4, NotedType
  <2>6. failed = FALSE /\ event' = event => OnRecord'
    <3>1. failed = FALSE /\ event' = event => event = pull[i].time /\ row.status = "confirmed" /\ row.time = pull[i].time
      BY <2>2 DEF Leaves
    <3>2. pull[i].time # NULL
      BY <1>1, <2>1 DEF HasTimes
    <3> QED BY <2>1, <3>1, <3>2 DEF OnRecord, Recorded, Gone, Mirrored
  <2>7. RoundOK(pull[i])'
    BY <2>5, <2>6 DEF RoundOK
  <2>8. Noted(next)
    BY <2>2, <2>4
  <2> QED BY <2>3, <2>4, <2>7, <2>8, NotedCore
<1>13. CASE PullEnd(i)
  <2>1. UNCHANGED <<row, ref, event, removed, call, rec, gaveUp>> /\ pull[i].pc = "end"
    BY <1>13 DEF PullEnd, vars
  <2>2. Keeps /\ (OnRecord => OnRecord')
    BY <1>3, <2>1
  <2>3. RoundOK(pull[i])' /\ \A j \in Pullers \ {i} : pull'[j] = pull[j]
    BY <1>5, <1>13 DEF PullEnd
  <2>4. PICK again \in BOOLEAN :
          /\ feed' = IF again THEN feed ELSE pull[i].late
          /\ pull[i].failed /\ ~again => Mirrored
    BY <1>13 DEF PullEnd
  <2>5. feed' = TRUE \/ OnRecord
    <3>1. CASE again \/ pull[i].late = TRUE
      BY <1>1, <2>4, <3>1
    <3>2. CASE ~again /\ pull[i].late = FALSE /\ pull[i].failed = TRUE
      BY <1>1, <2>4, <3>2, MirroredNotGone
    <3>3. CASE pull[i].late = FALSE /\ pull[i].failed = FALSE
      BY <1>1, <2>1, <3>3 DEF RoundOK
    <3> QED BY <1>2, <3>1, <3>2, <3>3
  <2> QED BY <2>1, <2>2, <2>3, <2>5, RoundGoesOn
<1>14. CASE LosesLease(i)
  <2>1. UNCHANGED <<row, ref, event, removed, call, rec, gaveUp, feed>>
    BY <1>14 DEF LosesLease, vars
  <2>2. RoundOK(pull[i])' /\ \A j \in Pullers \ {i} : pull'[j] = pull[j]
    BY <1>5, <1>14 DEF LosesLease
  <2> QED BY <1>1, <1>3, <2>1, <2>2, RoundGoesOn
<1>15. CASE PullListThrows(i)
  <2>1. UNCHANGED <<row, ref, event, removed, call, rec, gaveUp, feed>>
    BY <1>15 DEF PullListThrows
  <2>2. RoundOK(pull[i])' /\ \A j \in Pullers \ {i} : pull'[j] = pull[j]
    BY <1>5, <1>15 DEF PullListThrows
  <2> QED BY <1>1, <1>3, <2>1, <2>2, RoundGoesOn
<1>16. CASE PullDies(i)
  <2>1. UNCHANGED <<row, ref, event, removed, call, rec, gaveUp, feed>>
    <3>1. call[i] = Idle /\ call' = [call EXCEPT ![i] = Idle] /\ call \in [Callers -> CallRecords]
      BY <1>1, <1>16 DEF PullDies, Leaves, MirrorTypeOK
    <3>2. call' = call
      BY <1>1, <3>1
    <3> QED BY <1>16, <3>2 DEF PullDies
  <2>2. RoundOK(pull[i])' /\ \A j \in Pullers \ {i} : pull'[j] = pull[j]
    BY <1>5, <1>16 DEF PullDies
  <2> QED BY <1>1, <1>3, <2>1, <2>2, RoundGoesOn
<1>17. CASE PullActs(i)
  <2>1. UNCHANGED <<row, ref, event, removed, call, rec, gaveUp, feed>> /\ pull[i].pc \in DOMAIN Acting
    BY <1>17 DEF PullActs, vars
  <2>2. PICK pc \in {"cancelling", "moving", "restoring"} : PullGoto(i, pc)
    BY <1>17 DEF PullActs, Acting
  <2>3. /\ pull'[i].pc = pc /\ pull'[i].late = pull[i].late /\ pull'[i].failed = pull[i].failed
        /\ pull'[i].seen = pull[i].seen /\ \A j \in Pullers \ {i} : pull'[j] = pull[j]
    BY <1>1, <2>2, PullTo
  <2>4. RoundOK(pull[i])'
    BY <1>1, <2>1, <2>3 DEF RoundOK, Acting
  <2> QED BY <1>1, <1>3, <2>1, <2>3, <2>4, RoundGoesOn
<1> QED BY <1>6, <1>7, <1>8, <1>9, <1>10, <1>11, <1>12, <1>13, <1>14, <1>15, <1>16, <1>17 DEF PullStep

\* What was left unflagged or skipped stays on the books.
LEMMA ExcusesStay ==
  ASSUME SyncTypeOK, SyncNext
  PROVE  (unguarded = TRUE => unguarded' = TRUE) /\ (skipped = TRUE => skipped' = TRUE)
<1> DEFINE U == unguarded = TRUE => unguarded' = TRUE
<1>1. ASSUME NEW cond, Leaves(cond) PROVE U
  BY <1>1 DEF Leaves
<1>2. ASSUME unguarded' = unguarded PROVE U
  BY <1>2
<1> HIDE DEF U
<1>4. ASSUME NEW c \in Callers, CustomerStep(c) PROVE U
  BY <1>1, <1>2, <1>4 DEF CustomerStep, Book, Move, Moved, Cancel, Cancelled
<1>5. ASSUME NEW c \in Callers, CallStep(c) \/ CallDies(c) PROVE U
  BY <1>1, <1>2, <1>5 DEF CallStep, CallReadRef, CallCreate, CallSaveRef, CallUpdate, CallDelete,
     MarkSyncPending, CallDies
<1>6. ASSUME NEW w \in Workers, RecStep(w) \/ RecDies(w) PROVE U
  BY <1>1, <1>2, <1>6 DEF RecStep, Claim, RecReadRef, RecLoadMeta, RecUpdate, RecCreate, RecSaveRef,
     RecDelete, RecClear, RecTerminal, RecordFailure, RecDies
<1>7. ASSUME Background \/ OwnerDeletes PROVE U
  BY <1>2, <1>5, <1>6, <1>7 DEF Background, Reflag, Elapse, OwnerDeletes
<1>8. ASSUME NEW i \in Pullers, PullStep(i) \/ PullListThrows(i) \/ PullDies(i)
      PROVE  U /\ (skipped = TRUE => skipped' = TRUE)
  <2>1. U
    BY <1>1, <1>2, <1>8 DEF PullStep, PullClaim, PullList, PullGet, PullRead, PullActs, PullCancel, Cancelled,
       PullMove, Moved, PullRestore, PullEnd, LosesLease, PullListThrows, PullDies, vars
  <2>2. skipped = TRUE => skipped' = TRUE
    BY <1>8 DEF PullStep, PullClaim, PullList, PullGet, PullRead, PullActs, PullCancel,
       PullMove, PullRestore, PullEnd, LosesLease, PullListThrows, PullDies
  <2> QED BY <2>1, <2>2
<1>9. U
  BY <1>2, <1>4, <1>7, <1>8 DEF SyncNext, Mirrors, Customers, OwnerMoves, LeaseEnds
<1>10. skipped = TRUE => skipped' = TRUE
  BY <1>8 DEF SyncNext, Mirrors, OwnerMoves, LeaseEnds
<1> QED BY <1>9, <1>10 DEF U

\* SyncInv holds initially, and every step keeps it.
LEMMA SyncInvHolds ==
  /\ SyncInit => SyncInv
  /\ SyncInv /\ [SyncNext]_allVars => SyncInv'
<1>1. ASSUME SyncInit PROVE SyncInv
  <2>1. /\ row.status = "absent" /\ row.pending = FALSE /\ ref = FALSE
        /\ event = NULL /\ removed = FALSE
    BY <1>1 DEF SyncInit, Init
  <2>2. ASSUME NEW c \in Callers PROVE call[c] = Idle /\ call[c].pc = "idle" /\ CallOK(call[c])
    BY <1>1, IdleCall DEF SyncInit, Init, Idle
  <2>3. ASSUME NEW w \in Workers PROVE rec[w] = RecIdle /\ rec[w].pc = "idle" /\ RecOK(rec[w])
    BY <1>1, IdleRec DEF SyncInit, Init
  <2>4. MirrorCore
    BY <2>1, <2>2, <2>3 DEF MirrorCore, CallsOK, RecsOK
  <2>5. OnRecord
    BY <2>1 DEF OnRecord, Recorded, Gone, Mirrored
  <2>6. \A i \in Pullers : RoundOK(pull[i])
    BY <1>1 DEF SyncInit, RoundOK, PullIdle
  <2> QED BY <1>1, <2>4, <2>5, <2>6, SyncTypes DEF SyncInv, SyncCore
<1>2. ASSUME SyncInv, SyncNext PROVE SyncInv'
  <2>1. SyncTypeOK /\ SyncTypeOK'
    BY <1>2, SyncTypes DEF SyncInv
  <2> SUFFICES ASSUME unguarded' = FALSE, skipped' = FALSE PROVE SyncCore'
    BY <2>1 DEF SyncInv
  <2>2. unguarded = FALSE /\ skipped = FALSE
    <3>1. unguarded \in BOOLEAN /\ skipped \in BOOLEAN
      BY <2>1 DEF SyncTypeOK, MirrorTypeOK
    <3> QED BY <1>2, <2>1, <3>1, ExcusesStay
  <2>3. SyncCore /\ MirrorCore /\ MirrorTypeOK /\ pull \in [Pullers -> Rounds]
    BY <1>2, <2>1, <2>2 DEF SyncInv, SyncCore, SyncTypeOK
  <2>4. Keeps /\ Noted(pull) => SyncCore'
    BY <2>1, <2>3, NotedCore
  <2>5. ASSUME NEW c \in Customers, Mirrors(CustomerStep(c)) PROVE SyncCore'
    BY <2>3, <2>4, <2>5, MirrorKeeps DEF Mirrors, Customers
  <2>6. CASE Mirrors(Background) \/ Mirrors(OwnerDeletes)
    BY <2>3, <2>4, <2>6, MirrorKeeps DEF Mirrors
  <2>7. ASSUME NEW t \in Times, OwnerMoves(t) PROVE SyncCore'
    <3>1. UNCHANGED <<row, ref, removed, call, rec, gaveUp>> /\ event # NULL /\ Noted(pull)
      BY <2>7 DEF OwnerMoves
    <3> QED BY <2>3, <2>4, <3>1, EventKeeps
  <2>8. CASE LeaseEnds
    <3>1. UNCHANGED <<row, ref, event, removed, call, rec, gaveUp, feed, pull>>
      BY <2>8 DEF LeaseEnds
    <3>2. Keeps
      BY <2>3, <3>1, EventKeeps
    <3>3. \A i \in Pullers : RoundOK(pull[i])'
      BY <2>3, <3>1, <3>2 DEF SyncCore, RoundOK, Keeps
    <3> QED BY <2>3, <3>1, <3>2, <3>3 DEF SyncCore, Keeps
  <2> QED BY <1>2, <2>1, <2>3, <2>5, <2>6, <2>7, <2>8, PullKeeps DEF SyncNext
<1>3. ASSUME SyncInv, UNCHANGED allVars PROVE SyncInv'
  <2>1. SyncTypeOK' /\ UNCHANGED <<row, ref, event, removed, call, rec, gaveUp, feed, pull, unguarded, skipped>>
    BY <1>3, SyncTypes DEF SyncInv, allVars, vars, syncVars
  <2> SUFFICES ASSUME unguarded' = FALSE, skipped' = FALSE PROVE SyncCore'
    BY <2>1 DEF SyncInv
  <2>2. SyncCore
    BY <1>3, <2>1 DEF SyncInv
  <2>3. Keeps
    BY <1>3, <2>1, <2>2, EventKeeps DEF SyncCore, SyncInv, SyncTypeOK
  <2>4. \A i \in Pullers : RoundOK(pull[i])'
    BY <2>1, <2>2, <2>3 DEF SyncCore, RoundOK, Keeps
  <2> QED BY <2>1, <2>2, <2>3, <2>4 DEF SyncCore, Keeps
<1> QED BY <1>1, <1>2, <1>3

\* The invariant that the account rests on, for any number of customers, of
\* processes that pull and of reconcilers: while nothing was left unflagged or
\* skipped, one call and one reconciler at most are at work, each knows the row
\* it works for, and the stored cursor or the rows say what is still to be done.
THEOREM SyncInvariance == SyncSpec => []SyncInv
BY SyncInvHolds, PTL DEF SyncSpec

\* Whenever no write of the event is in progress, event and booking agree, or
\* the flag, an orphaned row or a change past the cursor brings them together,
\* or the reconciler gave up; or the code has left it unflagged or skipped it.
\* (calendar-sync.ts, sync-reconciler.ts:396, inbound-calendar-sync.ts:235)
THEOREM Accounted == SyncSpec => []SyncAccounted
<1>1. SyncInv => SyncAccounted
  <2> SUFFICES ASSUME SyncInv, InFlight = {}, unguarded = FALSE, skipped = FALSE, feed = FALSE, gaveUp = FALSE
               PROVE  Mirrored \/ row.pending \/ Orphaned
    BY DEF SyncAccounted, SyncInv, SyncTypeOK, MirrorTypeOK
  <2>1. OnRecord /\ CallsOK
    BY DEF SyncInv, SyncCore, MirrorCore
  <2>2. ~Owing
    BY DEF Owing, InFlight
  <2> QED BY <2>1, <2>2 DEF OnRecord, Recorded, Flagged, Found
<1> QED BY <1>1, SyncInvHolds, PTL DEF SyncSpec

=============================================================================
