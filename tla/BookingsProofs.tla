--------------------------- MODULE BookingsProofs ---------------------------
(***************************************************************************)
(* Theorems about Bookings, for any number of requests, bookings, keys and *)
(* slots, any day cap and any gap.                                         *)
(***************************************************************************)
EXTENDS Bookings, TLAPS, FiniteSetTheorems

USE BookingsAssumption

Transactions ==
  [pc : {"lock", "check", "write"}, do : {"create", "accept", "move"},
   b : Bookings, slot : Slots \cup {0}, oldDay : Nat, key : Keys,
   keys : SUBSET Keys, calm : BOOLEAN]

-----------------------------------------------------------------------------
(* Types.                                                                  *)

LEMMA DayType == ASSUME NEW s \in Slots \cup {0} PROVE DayOf(s) \in Nat
BY DEF DayOf

\* A request that is not idle is in its transaction.
LEMMA OpType ==
  ASSUME BookingsTypeOK, NEW p \in Procs
  PROVE  /\ op[p] = Idle \/ op[p] \in Transactions
         /\ op[p] # Idle <=> op[p].pc # "idle"
         /\ op[p] # Idle <=> op[p] \in Transactions
BY DEF BookingsTypeOK, Transactions, Idle

\* What the end of a transaction leaves.
LEMMA EndType ==
  ASSUME BookingsTypeOK, NEW p \in Procs, End(p)
  PROVE  /\ op' \in [Procs -> {Idle} \cup Transactions]
         /\ lock' \in [Keys -> Procs \cup {NULL}]
         /\ op'[p] = Idle
         /\ \A q \in Procs \ {p} : op'[q] = op[q]
         /\ \A k \in Keys : lock'[k] = IF lock[k] = p THEN NULL ELSE lock[k]
BY DEF BookingsTypeOK, Transactions, End

\* What the start of a request leaves.
LEMMA StartType ==
  ASSUME BookingsTypeOK, NEW p \in Procs, NEW do \in {"create", "accept", "move"},
         NEW b \in Bookings, NEW slot \in Slots \cup {0}, NEW keys \in SUBSET Keys,
         Start(p, do, b, slot, keys)
  PROVE  /\ op' \in [Procs -> {Idle} \cup Transactions]
         /\ op'[p] = [pc |-> "lock", do |-> do, b |-> b, slot |-> slot,
                      oldDay |-> DayOf(rows[b].slot), key |-> itinerary,
                      keys |-> keys, calm |-> rekey.pc \in Settled]
         /\ \A q \in Procs \ {p} : op'[q] = op[q]
<1>1. rows[b].slot \in Slots \cup {0} /\ itinerary \in Keys
  BY DEF BookingsTypeOK, Rows
<1>2. DayOf(rows[b].slot) \in Nat
  BY <1>1, DayType
<1>3. (rekey.pc \in Settled) \in BOOLEAN
  OBVIOUS
<1>4. [pc |-> "lock", do |-> do, b |-> b, slot |-> slot,
       oldDay |-> DayOf(rows[b].slot), key |-> itinerary,
       keys |-> keys, calm |-> rekey.pc \in Settled] \in Transactions
  BY <1>1, <1>2, <1>3 DEF Transactions
<1> QED BY <1>4 DEF BookingsTypeOK, Transactions, Start

-----------------------------------------------------------------------------
(* The inductive invariant.                                                *)

\* The locks of a transaction: it holds the one of its own key or has still
\* to take it, it takes at most two, and what it holds sorts before what it
\* has still to take.
LocksInOrder ==
  /\ \A p \in Procs : op[p] # Idle =>
       /\ op[p].key \in op[p].keys \/ lock[op[p].key] = p
       /\ op[p].pc = "lock" <=> op[p].keys # {}
       /\ \E k, l \in Keys : op[p].keys \subseteq {k, l}
  /\ \A k \in Keys, p \in Procs : lock[k] = p =>
       op[p] # Idle /\ \A l \in op[p].keys : k < l

\* A calm request works on the key that the bot resolves to, and no rewrite of
\* the rows is under way.
CalmIsCurrent ==
  \A p \in Procs : op[p].calm => op[p].key = itinerary /\ rekey.pc \in Settled

\* Every held row is on the current key, or the rewrite has still to come to it,
\* or the last one failed.
RowsFollow ==
  /\ rekey.todo # {} => rekey.pc = "run"
  /\ ~ straddled /\ ~ blind /\ rekey.pc \notin {"select", "failed"} =>
       \A b \in Held({}) : rows[b].key = itinerary \/ b \in rekey.todo

\* What a calm transaction has checked still holds when it writes.
CheckHolds ==
  ~ straddled => \A p \in Procs : op[p].pc = "write" /\ op[p].calm =>
    /\ Fits(op[p].slot, op[p].key, Own(op[p]))
    /\ ~ overtaken => HasRoom(op[p])

IInv ==
  /\ BookingsTypeOK /\ LocksInOrder /\ CalmIsCurrent /\ RowsFollow
  /\ CheckHolds /\ KeptApart /\ DayCapacity

-----------------------------------------------------------------------------
(* The steps of a request, reduced to what they do to the state.           *)

\* The three ways to begin a request have in common what Start does.
Begins(p) ==
  \E do \in {"create", "accept", "move"}, b \in Bookings, slot \in Slots \cup {0},
     k \in Keys :
    Start(p, do, b, slot, {itinerary, k})

LEMMA BeginsStart ==
  ASSUME BookingsTypeOK, NEW p \in Procs, NEW b \in Bookings,
         AcceptRequest(p, b) \/ \E slot \in Slots :
           CreateBooking(p, b, slot) \/ RescheduleBooking(p, b, slot)
  PROVE  Begins(p)
<1>1. itinerary \in Keys /\ rows[b].key \in Keys /\ rows[b].slot \in Slots \cup {0}
  BY DEF BookingsTypeOK, Rows
<1>2. {itinerary} = {itinerary, itinerary}
  OBVIOUS
<1>3. CASE AcceptRequest(p, b)
  BY <1>1, <1>2, <1>3 DEF AcceptRequest, Begins
<1>4. CASE \E slot \in Slots : CreateBooking(p, b, slot)
  BY <1>1, <1>2, <1>4 DEF CreateBooking, Begins
<1>5. CASE \E slot \in Slots : RescheduleBooking(p, b, slot)
  <2>1. PICK slot \in Slots : RescheduleBooking(p, b, slot)
    BY <1>5
  <2>2. PICK keys \in {{itinerary}, {itinerary, rows[b].key}} :
          Start(p, "move", b, slot, keys)
    BY <2>1 DEF RescheduleBooking
  <2>3. CASE keys = {itinerary}
    BY <1>1, <1>2, <2>2, <2>3 DEF Begins
  <2>4. CASE keys = {itinerary, rows[b].key}
    BY <1>1, <2>2, <2>4 DEF Begins
  <2> QED BY <2>2, <2>3, <2>4
<1> QED BY <1>3, <1>4, <1>5

LEMMA BeginsStep ==
  ASSUME BookingsTypeOK, NEW p \in Procs, Begins(p)
  PROVE  /\ op[p] = Idle
         /\ op' \in [Procs -> {Idle} \cup Transactions]
         /\ op'[p].pc = "lock" /\ op'[p].key = itinerary
         /\ \E k \in Keys : op'[p].keys = {itinerary, k}
         /\ op'[p].calm <=> rekey.pc \in Settled
         /\ \A q \in Procs \ {p} : op'[q] = op[q]
         /\ UNCHANGED <<rows, lock, itinerary, rekey, reconnects, straddled, blind, overtaken>>
<1>1. PICK do \in {"create", "accept", "move"}, b \in Bookings,
           slot \in Slots \cup {0}, k \in Keys : Start(p, do, b, slot, {itinerary, k})
  BY DEF Begins
<1>2. {itinerary, k} \in SUBSET Keys
  BY DEF BookingsTypeOK
<1>3. /\ op' \in [Procs -> {Idle} \cup Transactions]
      /\ op'[p] = [pc |-> "lock", do |-> do, b |-> b, slot |-> slot,
                   oldDay |-> DayOf(rows[b].slot), key |-> itinerary,
                   keys |-> {itinerary, k}, calm |-> rekey.pc \in Settled]
      /\ \A q \in Procs \ {p} : op'[q] = op[q]
  BY <1>1, <1>2, StartType
<1>4. /\ op[p] = Idle
      /\ UNCHANGED <<rows, lock, itinerary, rekey, reconnects, straddled, blind, overtaken>>
  BY <1>1 DEF Start
<1>5. op'[p].pc = "lock" /\ op'[p].key = itinerary /\ op'[p].keys = {itinerary, k}
  BY <1>3
<1>6. op'[p].calm <=> rekey.pc \in Settled
  <2>1. op'[p].calm = (rekey.pc \in Settled)
    BY <1>3
  <2> QED BY <2>1
<1> QED BY <1>3, <1>4, <1>5, <1>6

\* A row other than a held one is written, or a held one is given up: what
\* the writes without a lock have in common.
Unlocked(b) ==
  \E r \in Rows :
    /\ rows[b].status # "cancelled" /\ r.status # "confirmed"
    /\ Becomes(b, r)

LEMMA UnlockedWrites ==
  ASSUME BookingsTypeOK, NEW b \in Bookings,
         DeclineRequest(b) \/ CancelBooking(b) \/ \E slot \in Slots : CreateRequest(b, slot)
  PROVE  Unlocked(b)
<1>1. rows[b] \in Rows /\ itinerary \in Keys
  BY DEF BookingsTypeOK
<1>2. [rows[b] EXCEPT !.status = "cancelled"] \in Rows
  BY <1>1 DEF Rows, Statuses
<1>3. \A slot \in Slots :
        [status |-> "request_created", slot |-> slot, key |-> itinerary] \in Rows
  BY <1>1 DEF Rows, Statuses
<1>4. CASE DeclineRequest(b) \/ CancelBooking(b)
  <2>1. [rows[b] EXCEPT !.status = "cancelled"].status # "confirmed"
    BY <1>1 DEF Rows
  <2> QED BY <1>2, <1>4, <2>1 DEF DeclineRequest, CancelBooking, Unlocked
<1>5. CASE \E slot \in Slots : CreateRequest(b, slot)
  BY <1>3, <1>5 DEF CreateRequest, Unlocked
<1> QED BY <1>4, <1>5

\* Next, in those terms.
LEMMA NextCases ==
  ASSUME BookingsTypeOK, Next
  PROVE  \/ \E p \in Procs :
              Begins(p) \/ TakeLock(p) \/ Check(p) \/ Write(p) \/ Fails(p)
         \/ \E b \in Bookings : Unlocked(b) \/ RekeyRow(b)
         \/ RekeySelect \/ RekeyFails
         \/ \E k \in Keys : Reconnect(k)
BY BeginsStart, UnlockedWrites DEF Next

\* The least of one or two keys.
LEMMA NextKeyLeast ==
  ASSUME BookingsTypeOK, LocksInOrder, NEW p \in Procs, op[p].pc = "lock"
  PROVE  /\ NextKey(op[p]) \in op[p].keys
         /\ \A l \in op[p].keys : NextKey(op[p]) <= l
         /\ op[p].keys \subseteq Keys
<1>1. op[p] # Idle /\ op[p] \in Transactions
  BY OpType DEF Idle
<1>2. op[p].keys # {} /\ op[p].keys \subseteq Keys
  BY <1>1 DEF LocksInOrder, Transactions
<1>3. PICK k \in Keys, l \in Keys : op[p].keys \subseteq {k, l}
  BY <1>1 DEF LocksInOrder
<1>4. \E m \in op[p].keys : \A n \in op[p].keys : m <= n
  <2>1. CASE k \in op[p].keys /\ l \in op[p].keys
    BY <1>3, <2>1
  <2>2. CASE ~ (k \in op[p].keys /\ l \in op[p].keys)
    BY <1>2, <1>3, <2>2
  <2> QED BY <2>1, <2>2
<1> QED BY <1>2, <1>4 DEF NextKey

LEMMA TakeLockStep ==
  ASSUME BookingsTypeOK, LocksInOrder, NEW p \in Procs, TakeLock(p)
  PROVE  /\ op[p] \in Transactions
         /\ op' \in [Procs -> {Idle} \cup Transactions]
         /\ lock' \in [Keys -> Procs \cup {NULL}]
         /\ LET k == NextKey(op[p]) left == op[p].keys \ {k} IN
              /\ k \in Keys /\ lock[k] = NULL
              /\ lock' = [lock EXCEPT ![k] = p]
              /\ op'[p] = [op[p] EXCEPT !.keys = left,
                                        !.pc = IF left = {} THEN "check" ELSE "lock"]
         /\ \A q \in Procs \ {p} : op'[q] = op[q]
<1>1. op[p].pc = "lock" /\ op[p] \in Transactions
  BY OpType DEF TakeLock, Idle
<1>2. NextKey(op[p]) \in Keys
  BY <1>1, NextKeyLeast
<1>3. [op[p] EXCEPT !.keys = op[p].keys \ {NextKey(op[p])},
                    !.pc = IF op[p].keys \ {NextKey(op[p])} = {} THEN "check" ELSE "lock"]
        \in Transactions
  BY <1>1 DEF Transactions
<1>4. op'[p] = [op[p] EXCEPT !.keys = op[p].keys \ {NextKey(op[p])},
                    !.pc = IF op[p].keys \ {NextKey(op[p])} = {} THEN "check" ELSE "lock"]
  BY DEF TakeLock, BookingsTypeOK
<1>5. /\ lock[NextKey(op[p])] = NULL
      /\ lock' = [lock EXCEPT ![NextKey(op[p])] = p]
      /\ \A q \in Procs \ {p} : op'[q] = op[q]
  BY DEF TakeLock, BookingsTypeOK
<1>6. op' \in [Procs -> {Idle} \cup Transactions]
  BY <1>3, <1>4, <1>5, ZenonT(40) DEF TakeLock, BookingsTypeOK, Transactions
<1> QED BY <1>1, <1>2, <1>4, <1>5, <1>6 DEF BookingsTypeOK

LEMMA StepType ==
  ASSUME BookingsTypeOK, NEW p \in Procs, op[p].pc = "check", Step(p, "write")
  PROVE  /\ op[p] \in Transactions
         /\ op' \in [Procs -> {Idle} \cup Transactions]
         /\ op'[p] = [op[p] EXCEPT !.pc = "write"]
         /\ \A q \in Procs \ {p} : op'[q] = op[q]
<1>1. op[p] \in Transactions
  BY OpType DEF Idle
<1>2. [op[p] EXCEPT !.pc = "write"] \in Transactions
  BY <1>1 DEF Transactions
<1>3. op'[p] = [op[p] EXCEPT !.pc = "write"] /\ \A q \in Procs \ {p} : op'[q] = op[q]
  BY DEF Step, BookingsTypeOK
<1> QED BY <1>1, <1>2, <1>3 DEF Step, BookingsTypeOK, Transactions

\* Every step keeps the types.
LEMMA TypeStep ==
  ASSUME BookingsTypeOK, LocksInOrder, Next
  PROVE  BookingsTypeOK'
<1> USE DEF Transactions
<1>1. ASSUME NEW p \in Procs, Begins(p) PROVE BookingsTypeOK'
  BY <1>1, BeginsStep DEF BookingsTypeOK
<1>2. ASSUME NEW p \in Procs, TakeLock(p) PROVE BookingsTypeOK'
  BY <1>2, TakeLockStep DEF TakeLock, BookingsTypeOK
<1>3. ASSUME NEW p \in Procs, Check(p) PROVE BookingsTypeOK'
  <2>1. CASE Step(p, "write") /\ UNCHANGED lock
    BY <1>3, <2>1, StepType DEF Check, BookingsTypeOK
  <2>2. CASE End(p)
    BY <1>3, <2>2, EndType DEF Check, BookingsTypeOK
  <2> QED BY <1>3, <2>1, <2>2 DEF Check
<1>4. ASSUME NEW p \in Procs, Write(p) PROVE BookingsTypeOK'
  <2>1. op[p] \in Transactions
    BY <1>4, OpType DEF Write, Idle
  <2>2. Written(op[p]) \in Rows
    BY <2>1 DEF Written, Rows, Statuses
  <2>3. rows' \in [Bookings -> Rows]
    BY <1>4, <2>1, <2>2 DEF Write, BookingsTypeOK
  <2>4. straddled' \in BOOLEAN /\ blind' \in BOOLEAN /\ overtaken' \in BOOLEAN
    BY <1>4 DEF Write, BookingsTypeOK
  <2> QED BY <1>4, <2>3, <2>4, EndType DEF Write, BookingsTypeOK
<1>5. ASSUME NEW p \in Procs, Fails(p) PROVE BookingsTypeOK'
  BY <1>5, EndType DEF Fails, BookingsTypeOK
<1>6. ASSUME NEW b \in Bookings, Unlocked(b) PROVE BookingsTypeOK'
  BY <1>6 DEF Unlocked, Becomes, BookingsTypeOK
<1>7. ASSUME NEW b \in Bookings, RekeyRow(b) PROVE BookingsTypeOK'
  <2>1. [rows[b] EXCEPT !.key = itinerary] \in Rows
    BY DEF BookingsTypeOK, Rows
  <2>2. rows' \in [Bookings -> Rows]
    BY <1>7, <2>1 DEF RekeyRow, BookingsTypeOK
  <2> QED BY <1>7, <2>2 DEF RekeyRow, BookingsTypeOK
<1>8. ASSUME RekeySelect PROVE BookingsTypeOK'
  <2>1. {b \in Held({}) : rows[b].key # itinerary} \subseteq Bookings
    BY DEF Held
  <2> QED BY <1>8, <2>1 DEF RekeySelect, BookingsTypeOK
<1>9. ASSUME NEW k \in Keys, Reconnect(k) PROVE BookingsTypeOK'
  <2>1. \A p \in Procs : [op[p] EXCEPT !.calm = FALSE] \in {Idle} \cup Transactions
    <3>1. [Idle EXCEPT !.calm = FALSE] = Idle
      <4>1. Idle.calm = FALSE
        BY DEF Idle
      <4>2. Idle = [x \in DOMAIN Idle |-> Idle[x]]
        BY DEF Idle
      <4> QED BY <4>1, <4>2
    <3>2. \A o \in Transactions : [o EXCEPT !.calm = FALSE] \in Transactions
      OBVIOUS
    <3> QED BY <3>1, <3>2, OpType
  <2> QED BY <1>9, <2>1 DEF Reconnect, BookingsTypeOK
<1>10. ASSUME RekeyFails PROVE BookingsTypeOK'
  BY <1>10 DEF RekeyFails, BookingsTypeOK
<1> QED BY <1>1, <1>2, <1>3, <1>4, <1>5, <1>6, <1>7, <1>8, <1>9, <1>10, NextCases

-----------------------------------------------------------------------------
(* The locks.                                                              *)

\* The end of a transaction gives its locks back and disturbs no other.
LEMMA EndLocks ==
  ASSUME BookingsTypeOK, LocksInOrder, NEW p \in Procs, End(p)
  PROVE  LocksInOrder'
<1>1. \A q \in Procs, k \in Keys : lock'[k] = q <=> lock[k] = q /\ q # p
  BY EndType
<1>2. \A q \in Procs \ {p} : op'[q] = op[q]
  BY EndType
<1>3. op'[p] = Idle
  BY EndType
<1>4. \A q \in Procs \ {p} : op[q] # Idle => op[q].key \in Keys
  BY OpType DEF Transactions
<1>5. ASSUME NEW q \in Procs, op'[q] # Idle
      PROVE  /\ op'[q].key \in op'[q].keys \/ lock'[op'[q].key] = q
             /\ op'[q].pc = "lock" <=> op'[q].keys # {}
             /\ \E k, l \in Keys : op'[q].keys \subseteq {k, l}
  <2>1. q # p /\ op'[q] = op[q] /\ op[q] # Idle /\ op[q].key \in Keys
    BY <1>2, <1>3, <1>4, <1>5
  <2>2. op[q].key \in op[q].keys \/ lock[op[q].key] = q
    BY <2>1 DEF LocksInOrder
  <2>3. op[q].key \in op[q].keys \/ lock'[op[q].key] = q
    BY <1>1, <2>1, <2>2
  <2> QED BY <2>1, <2>3 DEF LocksInOrder
<1>6. ASSUME NEW k \in Keys, NEW q \in Procs, lock'[k] = q
      PROVE  op'[q] # Idle /\ \A l \in op'[q].keys : k < l
  BY <1>1, <1>2, <1>6 DEF LocksInOrder
<1> QED BY <1>5, <1>6 DEF LocksInOrder

\* A step that leaves the locks and, of the requests, changes at most calm.
LEMMA CalmLocks ==
  ASSUME BookingsTypeOK, LocksInOrder, lock' = lock,
         \A p \in Procs : op'[p] = op[p] \/ op'[p] = [op[p] EXCEPT !.calm = FALSE]
  PROVE  LocksInOrder'
<1>1. \A p \in Procs : /\ op'[p].key = op[p].key /\ op'[p].keys = op[p].keys
                       /\ op'[p].pc = op[p].pc
                       /\ op'[p] # Idle <=> op[p] # Idle
  <2> SUFFICES ASSUME NEW p \in Procs
               PROVE  /\ op'[p].key = op[p].key /\ op'[p].keys = op[p].keys
                      /\ op'[p].pc = op[p].pc
                      /\ op'[p] # Idle <=> op[p] # Idle
    OBVIOUS
  <2>1. CASE op[p] = Idle
    BY <2>1 DEF Idle
  <2>2. CASE op[p] \in Transactions
    <3>1. op'[p] \in Transactions
      BY <2>2 DEF Transactions
    <3>2. op[p] # Idle /\ op'[p] # Idle
      BY <2>2, <3>1 DEF Idle, Transactions
    <3>3. /\ op'[p].key = op[p].key /\ op'[p].keys = op[p].keys /\ op'[p].pc = op[p].pc
      BY <2>2 DEF Transactions
    <3> QED BY <3>2, <3>3
  <2> QED BY <2>1, <2>2, OpType
<1> QED BY <1>1 DEF LocksInOrder

LEMMA LocksStep ==
  ASSUME BookingsTypeOK, LocksInOrder, Next
  PROVE  LocksInOrder'
<1>1. ASSUME NEW p \in Procs, Begins(p) PROVE LocksInOrder'
  <2>1. PICK k \in Keys : op'[p].keys = {itinerary, k}
    BY <1>1, BeginsStep
  <2>2. itinerary \in Keys
    BY DEF BookingsTypeOK
  <2>3. /\ op'[p].key = itinerary /\ op'[p].keys = {itinerary, k} /\ op'[p].pc = "lock"
        /\ \A q \in Procs \ {p} : op'[q] = op[q]
    BY <1>1, <2>1, BeginsStep
  <2>4. op[p] = Idle /\ lock' = lock
    BY <1>1, BeginsStep
  <2>5. ASSUME NEW q \in Procs, op'[q] # Idle
        PROVE  /\ op'[q].key \in op'[q].keys \/ lock'[op'[q].key] = q
               /\ op'[q].pc = "lock" <=> op'[q].keys # {}
               /\ \E m, l \in Keys : op'[q].keys \subseteq {m, l}
    BY <2>2, <2>3, <2>4, <2>5 DEF LocksInOrder
  <2>6. ASSUME NEW m \in Keys, NEW q \in Procs, lock'[m] = q
        PROVE  op'[q] # Idle /\ \A l \in op'[q].keys : m < l
    BY <2>3, <2>4, <2>6 DEF LocksInOrder
  <2> QED BY <2>5, <2>6 DEF LocksInOrder
<1>2. ASSUME NEW p \in Procs, TakeLock(p) PROVE LocksInOrder'
  <2> DEFINE k == NextKey(op[p])
             left == op[p].keys \ {k}
  <2>1. /\ k \in op[p].keys /\ k \in Keys /\ op[p].keys \subseteq Keys
        /\ \A l \in op[p].keys : k <= l
    BY <1>2, NextKeyLeast DEF TakeLock
  <2>2. /\ op'[p].key = op[p].key /\ op'[p].keys = left /\ op[p] # Idle
        /\ op'[p].pc = IF left = {} THEN "check" ELSE "lock"
        /\ op[p].key \in Keys
    <3>1. /\ op[p] \in Transactions
          /\ op'[p] = [op[p] EXCEPT !.keys = left,
                                    !.pc = IF left = {} THEN "check" ELSE "lock"]
      BY <1>2, TakeLockStep
    <3> HIDE DEF left
    <3> QED BY <3>1 DEF Transactions, Idle
  <2>3. \A q \in Procs \ {p} : op'[q] = op[q]
    BY <1>2, TakeLockStep
  <2>4. lock[k] = NULL /\ lock' = [lock EXCEPT ![k] = p] /\ lock \in [Keys -> Procs \cup {NULL}]
    BY <1>2, TakeLockStep DEF BookingsTypeOK
  <2> HIDE DEF k
  <2>5. ASSUME NEW l \in left PROVE k < l
    <3>1. l \in op[p].keys /\ l # k
      OBVIOUS
    <3>2. l \in Nat /\ k \in Nat /\ k <= l
      BY <2>1, <3>1
    <3> QED BY <3>1, <3>2
  <2>6. op'[p] # Idle
    BY <2>2 DEF Idle
  <2>7. \A m \in Keys : m # k => lock'[m] = lock[m]
    BY <2>4
  <2>8. lock'[k] = p
    BY <2>1, <2>4
  <2>9. ASSUME NEW q \in Procs, op'[q] # Idle
        PROVE  /\ op'[q].key \in op'[q].keys \/ lock'[op'[q].key] = q
               /\ op'[q].pc = "lock" <=> op'[q].keys # {}
               /\ \E m, l \in Keys : op'[q].keys \subseteq {m, l}
    <3>1. CASE q = p
      <4>1. op'[p].key \in op'[p].keys \/ lock'[op'[p].key] = p
        <5>1. op[p].key \in op[p].keys \/ lock[op[p].key] = p
          BY <2>2 DEF LocksInOrder
        <5>2. CASE op[p].key = k
          BY <2>2, <2>8, <5>2
        <5>3. CASE op[p].key # k
          BY <2>2, <2>7, <5>1, <5>3
        <5> QED BY <5>2, <5>3
      <4>2. op'[p].pc = "lock" <=> op'[p].keys # {}
        BY <2>2
      <4>3. \E m, l \in Keys : op'[p].keys \subseteq {m, l}
        BY <2>2 DEF LocksInOrder
      <4> QED BY <3>1, <4>1, <4>2, <4>3
    <3>2. CASE q # p
      <4>1. op'[q] = op[q] /\ op[q] # Idle /\ op[q].key \in Keys
        BY <2>3, <2>9, <3>2, OpType DEF Transactions
      <4>2. lock[op[q].key] = q => lock'[op[q].key] = q
        BY <2>4, <2>7, <4>1
      <4> QED BY <4>1, <4>2 DEF LocksInOrder
    <3> QED BY <3>1, <3>2
  <2>10. ASSUME NEW m \in Keys, NEW q \in Procs, lock'[m] = q
         PROVE  op'[q] # Idle /\ \A l \in op'[q].keys : m < l
    <3>1. CASE m = k
      BY <2>2, <2>5, <2>6, <2>8, <2>10, <3>1
    <3>2. CASE m # k
      BY <2>2, <2>3, <2>6, <2>7, <2>10, <3>2 DEF LocksInOrder
    <3> QED BY <3>1, <3>2
  <2> QED BY <2>9, <2>10 DEF LocksInOrder
<1>3. ASSUME NEW p \in Procs, Check(p) PROVE LocksInOrder'
  <2>1. CASE Step(p, "write") /\ UNCHANGED lock
    <3>1. op[p] \in Transactions /\ op[p].pc = "check"
      BY <1>3, <2>1, StepType DEF Check
    <3>2. /\ op'[p].key = op[p].key /\ op'[p].keys = op[p].keys /\ op'[p].pc = "write"
          /\ op[p] # Idle /\ op'[p] # Idle
          /\ \A q \in Procs \ {p} : op'[q] = op[q]
      <4>1. op'[p] = [op[p] EXCEPT !.pc = "write"] /\ \A q \in Procs \ {p} : op'[q] = op[q]
        BY <2>1, <3>1, StepType
      <4> QED BY <3>1, <4>1 DEF Transactions, Idle
    <3>3. \A q \in Procs : /\ op'[q].key = op[q].key /\ op'[q].keys = op[q].keys
                           /\ op'[q].pc = "lock" <=> op[q].pc = "lock"
                           /\ op'[q] # Idle <=> op[q] # Idle
      BY <3>1, <3>2
    <3> QED BY <2>1, <3>3 DEF LocksInOrder
  <2>2. CASE End(p)
    BY <2>2, EndLocks
  <2> QED BY <1>3, <2>1, <2>2 DEF Check
<1>4. ASSUME NEW p \in Procs, Write(p) \/ Fails(p) PROVE LocksInOrder'
  BY <1>4, EndLocks DEF Write, Fails
<1>5. ASSUME NEW b \in Bookings, Unlocked(b) \/ RekeyRow(b) PROVE LocksInOrder'
  BY <1>5, CalmLocks DEF Unlocked, Becomes, RekeyRow
<1>6. ASSUME RekeySelect \/ RekeyFails PROVE LocksInOrder'
  BY <1>6, CalmLocks DEF RekeySelect, RekeyFails
<1>7. ASSUME NEW k \in Keys, Reconnect(k) PROVE LocksInOrder'
  BY <1>7, CalmLocks DEF Reconnect
<1> QED BY <1>1, <1>2, <1>3, <1>4, <1>5, <1>6, <1>7, NextCases

\* Two transactions do not wait for each other: what either waits for sorts
\* after everything it holds.
LEMMA OrderPreventsWait ==
  ASSUME BookingsTypeOK, LocksInOrder
  PROVE  NoMutualWait
<1> SUFFICES ASSUME NEW p \in Procs, NEW q \in Procs, WaitsFor(p, q), WaitsFor(q, p)
             PROVE  FALSE
  BY DEF NoMutualWait
<1> DEFINE k == NextKey(op[p])
           l == NextKey(op[q])
<1>1. k \in op[p].keys /\ l \in op[q].keys /\ k \in Keys /\ l \in Keys
  BY NextKeyLeast DEF WaitsFor
<1>2. lock[k] = q /\ lock[l] = p
  BY DEF WaitsFor
<1> HIDE DEF k, l
<1>3. k < l /\ l < k
  BY <1>1, <1>2 DEF LocksInOrder
<1>4. k \in Nat /\ l \in Nat
  BY <1>1
<1> QED BY <1>3, <1>4

-----------------------------------------------------------------------------
(* The calendar and the rows that follow it.                               *)

\* Whatever its locks, a request keeps its key, and is calm only as long as the
\* calendar is left alone.
LEMMA CalmStep ==
  ASSUME BookingsTypeOK, LocksInOrder, CalmIsCurrent, RowsFollow, Next
  PROVE  CalmIsCurrent'
<1> USE DEF CalmIsCurrent
<1>1. ASSUME NEW p \in Procs, Begins(p) PROVE CalmIsCurrent'
  BY <1>1, BeginsStep
<1>2. ASSUME NEW p \in Procs, TakeLock(p) PROVE CalmIsCurrent'
  <2>1. op'[p].calm = op[p].calm /\ op'[p].key = op[p].key
    <3> DEFINE left == op[p].keys \ {NextKey(op[p])}
               pc == IF left = {} THEN "check" ELSE "lock"
    <3>1. op'[p] = [op[p] EXCEPT !.keys = left, !.pc = pc] /\ op[p] \in Transactions
      BY <1>2, TakeLockStep
    <3> HIDE DEF left, pc
    <3> QED BY <3>1 DEF Transactions
  <2> QED BY <1>2, <2>1, TakeLockStep DEF TakeLock
<1>3. ASSUME NEW p \in Procs, End(p), UNCHANGED <<itinerary, rekey>> PROVE CalmIsCurrent'
  <2>1. op'[p].calm = FALSE
    BY <1>3, EndType DEF Idle
  <2> QED BY <1>3, <2>1, EndType
<1>4. ASSUME NEW p \in Procs, Check(p) PROVE CalmIsCurrent'
  <2>1. CASE Step(p, "write")
    <3>1. op'[p].calm = op[p].calm /\ op'[p].key = op[p].key
      <4>1. op'[p] = [op[p] EXCEPT !.pc = "write"] /\ op[p] \in Transactions
        BY <1>4, <2>1, StepType DEF Check
      <4> QED BY <4>1 DEF Transactions
    <3> QED BY <1>4, <2>1, <3>1, StepType, ZenonT(40) DEF Check
  <2> QED BY <1>3, <1>4, <2>1 DEF Check
<1>5. ASSUME NEW p \in Procs, Write(p) \/ Fails(p) PROVE CalmIsCurrent'
  BY <1>3, <1>5 DEF Write, Fails
<1>6. ASSUME NEW b \in Bookings, Unlocked(b) PROVE CalmIsCurrent'
  BY <1>6 DEF Unlocked, Becomes
<1>7. ASSUME NEW b \in Bookings, RekeyRow(b) PROVE CalmIsCurrent'
  BY <1>7 DEF RekeyRow, RowsFollow, Settled
<1>8. ASSUME RekeySelect \/ RekeyFails PROVE CalmIsCurrent'
  BY <1>8 DEF RekeySelect, RekeyFails, Settled
<1>9. ASSUME NEW k \in Keys, Reconnect(k) PROVE CalmIsCurrent'
  <2>1. \A p \in Procs : op'[p].calm = FALSE
    BY <1>9, OpType DEF Reconnect, Transactions, Idle
  <2> QED BY <2>1
<1> QED BY <1>1, <1>2, <1>4, <1>5, <1>6, <1>7, <1>8, <1>9, NextCases

\* Two calm requests are not past their locks at the same time.
LEMMA OneCalmWriter ==
  ASSUME BookingsTypeOK, LocksInOrder, CalmIsCurrent,
         NEW p \in Procs, NEW q \in Procs,
         op[p].pc \in {"check", "write"}, op[q].pc \in {"check", "write"},
         op[p].calm, op[q].calm
  PROVE  p = q
<1>1. op[p] # Idle /\ op[q] # Idle
  BY DEF Idle
<1>2. op[p].keys = {} /\ op[q].keys = {}
  BY <1>1 DEF LocksInOrder
<1>3. lock[op[p].key] = p /\ lock[op[q].key] = q
  BY <1>1, <1>2 DEF LocksInOrder
<1> QED BY <1>3 DEF CalmIsCurrent

\* No row of the diary keeps another one from being rewritten, as long as the
\* diary is in order.
LEMMA RekeyNeverRefused ==
  ASSUME BookingsTypeOK, KeptApart, ~ straddled, ~ blind, NEW b \in Bookings,
         rows[b].status = "confirmed", NEW k \in Keys
  PROVE  ~ Excludes(b, rows[b].slot, k)
<1>1. \A c \in Held({b}) : Apart(rows[c].slot, rows[b].slot)
  BY DEF KeptApart, Held
<1>2. ASSUME NEW c \in Bookings PROVE rows[c].slot \in Nat
  <2>1. rows[c] \in Rows
    BY DEF BookingsTypeOK
  <2>2. rows[c].slot \in Slots \cup {0}
    BY <2>1 DEF Rows
  <2>3. CASE rows[c].slot = 0
    BY <2>3
  <2>4. CASE rows[c].slot \in Slots
    BY <2>4
  <2> QED BY <2>2, <2>3, <2>4
<1> QED BY <1>1, <1>2 DEF Excludes, Apart, Held

LEMMA RowsFollowStep ==
  ASSUME IInv, Next
  PROVE  RowsFollow'
<1> USE DEF IInv
<1>1. ASSUME UNCHANGED <<rows, itinerary, rekey, straddled, blind>> PROVE RowsFollow'
  BY <1>1 DEF RowsFollow, Held
<1>2. ASSUME NEW p \in Procs, Begins(p) \/ TakeLock(p) \/ Check(p) \/ Fails(p)
      PROVE  RowsFollow'
  BY <1>1, <1>2, BeginsStep DEF TakeLock, Check, Fails
<1>3. ASSUME NEW p \in Procs, Write(p) PROVE RowsFollow'
  <2>1. CASE UNCHANGED <<rows, straddled, blind>>
    BY <1>1, <1>3, <2>1 DEF Write
  <2>2. CASE /\ rows' = [rows EXCEPT ![op[p].b] = Written(op[p])]
             /\ straddled' = (straddled \/ ~ op[p].calm)
             /\ blind' = (blind \/ (rekey.pc = "failed" /\ LeftBehind(op[p]) # {}))
    <3>1. UNCHANGED <<itinerary, rekey>>
      BY <1>3 DEF Write
    <3>2. SUFFICES ASSUME ~ straddled', ~ blind', rekey.pc \notin {"select", "failed"}, NEW b \in Held({})'
                   PROVE  rows'[b].key = itinerary \/ b \in rekey.todo
      BY <3>1 DEF RowsFollow
    <3>3. op[p] \in Transactions
      BY <1>3, OpType DEF Write, Idle
    <3>4. op[p].calm /\ ~ straddled /\ ~ blind
      BY <2>2, <3>2, <3>3 DEF Transactions, BookingsTypeOK
    <3>5. op[p].key = itinerary
      BY <3>4 DEF CalmIsCurrent
    <3>6. CASE b = op[p].b
      BY <2>2, <3>3, <3>5, <3>6 DEF Transactions, BookingsTypeOK, Written
    <3>7. CASE b # op[p].b
      BY <2>2, <3>2, <3>4, <3>7 DEF BookingsTypeOK, RowsFollow, Held
    <3> QED BY <3>6, <3>7
  <2> QED BY <1>3, <2>1, <2>2 DEF Write
<1>4. ASSUME NEW b \in Bookings, Unlocked(b) PROVE RowsFollow'
  BY <1>4 DEF Unlocked, Becomes, BookingsTypeOK, RowsFollow, Held
<1>5. ASSUME NEW b \in Bookings, RekeyRow(b) PROVE RowsFollow'
  <2>1. rekey.pc = "run" /\ UNCHANGED <<itinerary, straddled, blind>>
    BY <1>5 DEF RekeyRow, RowsFollow
  <2>2. rekey'.todo = rekey.todo \ {b} /\ (rekey'.todo # {} => rekey'.pc = "run")
    BY <1>5 DEF RekeyRow
  <2>3. SUFFICES ASSUME ~ straddled, ~ blind, NEW c \in Held({})'
                 PROVE  rows'[c].key = itinerary \/ c \in rekey.todo \ {b}
    BY <2>1, <2>2 DEF RowsFollow
  <2>4. rows' = rows \/ rows' = [rows EXCEPT ![b].key = itinerary]
    BY <1>5 DEF RekeyRow
  <2>5. c \in Held({}) /\ (c # b => rows'[c] = rows[c])
    BY <2>3, <2>4 DEF Held, BookingsTypeOK, Rows
  <2>6. CASE c # b
    BY <2>1, <2>3, <2>5, <2>6 DEF RowsFollow
  <2>7. CASE c = b
    <3>1. ~ Excludes(b, rows[b].slot, itinerary)
      BY <2>3, <2>5, <2>7, RekeyNeverRefused DEF Held, BookingsTypeOK
    <3>2. rows' = [rows EXCEPT ![b].key = itinerary]
      BY <1>5, <3>1 DEF RekeyRow
    <3> QED BY <2>7, <3>2 DEF BookingsTypeOK, Rows
  <2> QED BY <2>6, <2>7
<1>6. ASSUME RekeySelect PROVE RowsFollow'
  BY <1>6 DEF RekeySelect, RowsFollow, Held
<1>7. ASSUME NEW k \in Keys, Reconnect(k) PROVE RowsFollow'
  BY <1>7 DEF Reconnect, RowsFollow
<1>8. ASSUME RekeyFails PROVE RowsFollow'
  BY <1>8 DEF RekeyFails, RowsFollow
<1> QED BY <1>2, <1>3, <1>4, <1>5, <1>6, <1>7, <1>8, NextCases

-----------------------------------------------------------------------------
(* The diary.                                                              *)

LEMMA SlotType == ASSUME BookingsTypeOK, NEW b \in Bookings PROVE rows[b].slot \in Slots \cup {0}
BY DEF BookingsTypeOK, Rows

\* The held rows of a day are finitely many.
LEMMA DaysFinite ==
  ASSUME NEW d, NEW except
  PROVE  /\ IsFiniteSet({b \in Held(except) : DayOf(rows[b].slot) = d})
         /\ Cardinality({b \in Held(except) : DayOf(rows[b].slot) = d}) \in Nat
<1>1. {b \in Held(except) : DayOf(rows[b].slot) = d} \subseteq Bookings
  BY DEF Held
<1> QED BY <1>1, FS_Subset, FS_CardinalityType

\* When no row becomes held and the held ones keep their slots, the diary stays
\* in order.
LEMMA FewerHeld ==
  ASSUME straddled' = straddled, blind' = blind, overtaken' = overtaken,
         \A b \in Held({})' : b \in Held({}) /\ rows'[b].slot = rows[b].slot
  PROVE  /\ KeptApart => KeptApart'
         /\ DayCapacity => DayCapacity'
<1>1. KeptApart => KeptApart'
  BY DEF KeptApart, Apart
<1>2. ASSUME DayCapacity, ~ straddled, ~ overtaken, NEW s \in Slots
      PROVE  Cardinality(OnDay(DayOf(s))') <= Cap
  <2> DEFINE D == OnDay(DayOf(s))
             E == OnDay(DayOf(s))'
  <2>1. E \subseteq D
    BY DEF OnDay, DayOf
  <2>2. IsFiniteSet(D)
    BY DaysFinite DEF OnDay
  <2>3. IsFiniteSet(E) /\ Cardinality(E) <= Cardinality(D) /\ Cardinality(D) \in Nat /\ Cardinality(E) \in Nat
    BY <2>1, <2>2, FS_Subset, FS_CardinalityType
  <2>4. Cardinality(D) <= Cap
    BY <1>2 DEF DayCapacity
  <2> HIDE DEF D, E
  <2>5. Cardinality(E) <= Cap
    BY <2>3, <2>4
  <2> QED BY <2>5 DEF E
<1> QED BY <1>1, <1>2 DEF DayCapacity

\* When no row becomes held and the held ones stay as they are, the checks of a
\* transaction hold on.
LEMMA FewerChecked ==
  ASSUME \A b \in Held({})' : b \in Held({}) /\ rows'[b] = rows[b],
         NEW p \in Procs, op'[p] = op[p]
  PROVE  /\ Fits(op[p].slot, op[p].key, Own(op[p])) => Fits(op[p].slot, op[p].key, Own(op[p]))'
         /\ HasRoom(op[p]) => HasRoom(op[p])'
<1>1. \A b \in Held(Own(op[p]))' : b \in Held(Own(op[p])) /\ rows'[b] = rows[b]
  BY DEF Held, Own
<1>2. Fits(op[p].slot, op[p].key, Own(op[p])) => Fits(op[p].slot, op[p].key, Own(op[p]))'
  BY <1>1 DEF Fits
<1> DEFINE D == {b \in Held(Own(op[p])) : DayOf(rows[b].slot) = DayOf(op[p].slot)}
           E == {b \in Held(Own(op[p])) : DayOf(rows[b].slot) = DayOf(op[p].slot)}'
<1>3. E \subseteq D
  BY <1>1 DEF DayOf
<1>4. IsFiniteSet(D)
  BY DaysFinite
<1>5. Cardinality(E) <= Cardinality(D) /\ Cardinality(D) \in Nat /\ Cardinality(E) \in Nat
  BY <1>3, <1>4, FS_Subset, FS_CardinalityType
<1>6. HasRoom(op[p]) <=> \/ op[p].do = "move" /\ op[p].oldDay = DayOf(op[p].slot)
                         \/ Cardinality(D) < Cap
  BY DEF HasRoom
<1>7. HasRoom(op[p])' <=> \/ op[p].do = "move" /\ op[p].oldDay = DayOf(op[p].slot)
                          \/ Cardinality(E) < Cap
  BY DEF HasRoom, DayOf
<1> HIDE DEF D, E
<1>8. Cardinality(D) < Cap => Cardinality(E) < Cap
  BY <1>5
<1> QED BY <1>2, <1>6, <1>7, <1>8

\* The write of a calm transaction, as long as every write before it was calm.
\* Its own row was not held before, or moves.
LEMMA CalmWrite ==
  ASSUME IInv, NEW p \in Procs, Write(p), ~ straddled', ~ (UNCHANGED <<rows, straddled, blind, overtaken>>)
  PROVE  /\ op[p] \in Transactions /\ op[p].pc = "write" /\ op[p].calm /\ ~ straddled
         /\ Matches(op[p])
         /\ rows' = [rows EXCEPT ![op[p].b] = Written(op[p])]
         /\ overtaken' <=> overtaken \/ (op[p].do = "move" /\ op[p].oldDay # DayOf(rows[op[p].b].slot))
         /\ ~ blind' => ~ blind /\ \A b \in Held({op[p].b}) : rows[b].key = op[p].key
         /\ Held({})' = Held({op[p].b}) \cup {op[p].b}
         /\ \A b \in Held({op[p].b}) : rows'[b] = rows[b]
         /\ rows'[op[p].b].slot = op[p].slot
         /\ Held(Own(op[p])) = Held({op[p].b})
<1>1. op[p] \in Transactions /\ op[p].pc = "write"
  BY OpType DEF Write, Idle, IInv
<1>2. /\ Matches(op[p])
      /\ rows' = [rows EXCEPT ![op[p].b] = Written(op[p])]
      /\ straddled' = (straddled \/ ~ op[p].calm)
      /\ blind' = (blind \/ (rekey.pc = "failed" /\ LeftBehind(op[p]) # {}))
      /\ overtaken' = (overtaken \/ (op[p].do = "move" /\ op[p].oldDay # DayOf(rows[op[p].b].slot)))
  BY DEF Write
<1>3. op[p].calm /\ ~ straddled
  BY <1>1, <1>2 DEF Transactions, IInv, BookingsTypeOK
<1>4. op[p].key = itinerary /\ rekey.pc \in Settled
  BY <1>3 DEF IInv, CalmIsCurrent
<1>5. rekey.todo = {}
  BY <1>4 DEF IInv, RowsFollow, Settled
<1>6. ASSUME ~ blind' PROVE ~ blind /\ \A b \in Held({op[p].b}) : rows[b].key = op[p].key
  <2>1. ~ blind /\ (rekey.pc = "failed" => LeftBehind(op[p]) = {})
    BY <1>2, <1>6 DEF IInv, BookingsTypeOK
  <2>2. CASE rekey.pc = "failed"
    BY <2>1, <2>2 DEF LeftBehind
  <2>3. CASE rekey.pc = "idle"
    BY <1>3, <1>4, <1>5, <2>1, <2>3 DEF IInv, RowsFollow, Held
  <2> QED BY <1>4, <2>1, <2>2, <2>3 DEF Settled
<1>7. op[p].b \in Bookings /\ rows \in [Bookings -> Rows]
  BY <1>1 DEF Transactions, IInv, BookingsTypeOK
<1>8. rows'[op[p].b] = Written(op[p]) /\ \A b \in Bookings \ {op[p].b} : rows'[b] = rows[b]
  BY <1>2, <1>7
<1>9. rows'[op[p].b].status = "confirmed" /\ rows'[op[p].b].slot = op[p].slot
  BY <1>8 DEF Written
<1>10. Held({})' = Held({op[p].b}) \cup {op[p].b}
  BY <1>7, <1>8, <1>9 DEF Held
<1>11. Held(Own(op[p])) = Held({op[p].b})
  <2>1. CASE op[p].do = "create"
    BY <1>2, <2>1 DEF Matches, Own, Held
  <2>2. CASE op[p].do # "create"
    BY <2>2 DEF Own
  <2> QED BY <2>1, <2>2
<1>12. overtaken' <=> overtaken \/ (op[p].do = "move" /\ op[p].oldDay # DayOf(rows[op[p].b].slot))
  BY <1>2 DEF IInv, BookingsTypeOK
<1>13. \A b \in Held({op[p].b}) : rows'[b] = rows[b]
  BY <1>8 DEF Held
<1> QED BY <1>1, <1>2, <1>3, <1>6, <1>9, <1>10, <1>11, <1>12, <1>13

\* The written row is apart from every held one, and they were apart before.
LEMMA WriteApart ==
  ASSUME IInv, NEW p \in Procs, Write(p)
  PROVE  KeptApart'
<1>1. CASE UNCHANGED <<rows, straddled, blind, overtaken>>
  BY <1>1 DEF IInv, KeptApart, Held, Apart
<1>2. CASE straddled' \/ blind'
  BY <1>2 DEF KeptApart
<1>3. CASE ~ straddled' /\ ~ blind' /\ ~ (UNCHANGED <<rows, straddled, blind, overtaken>>)
  <2> DEFINE w == op[p].b
  <2>1. /\ ~ straddled /\ op[p].pc = "write" /\ op[p].calm
        /\ Held({})' = Held({w}) \cup {w}
        /\ \A b \in Held({w}) : rows'[b] = rows[b]
        /\ rows'[w].slot = op[p].slot
        /\ Held(Own(op[p])) = Held({w})
        /\ ~ blind /\ \A b \in Held({w}) : rows[b].key = op[p].key
    BY <1>3, CalmWrite
  <2>2. Fits(op[p].slot, op[p].key, Own(op[p]))
    BY <2>1 DEF IInv, CheckHolds
  <2>3. \A b \in Held({w}) : b \in Held({}) /\ b # w
    BY DEF Held
  <2>4. \A b \in Held({w}) : Apart(rows[b].slot, op[p].slot)
    BY <2>1, <2>2, <2>3 DEF Fits
  <2>5. \A b, c \in Held({w}) : b # c => Apart(rows[b].slot, rows[c].slot)
    BY <2>1, <2>3 DEF IInv, KeptApart
  <2>6. ASSUME NEW b \in Held({})', NEW c \in Held({})', b # c
        PROVE  Apart(rows'[b].slot, rows'[c].slot)
    <3>1. CASE b # w /\ c # w
      BY <2>1, <2>5, <2>6, <3>1
    <3>2. CASE b = w
      <4>1. c \in Held({w}) /\ rows'[c].slot = rows[c].slot /\ rows'[b].slot = op[p].slot
        BY <2>1, <2>6, <3>2
      <4> QED BY <2>4, <4>1 DEF Apart
    <3>3. CASE c = w
      <4>1. b \in Held({w}) /\ rows'[b].slot = rows[b].slot /\ rows'[c].slot = op[p].slot
        BY <2>1, <2>6, <3>3
      <4> QED BY <2>4, <4>1
    <3> QED BY <3>1, <3>2, <3>3
  <2> QED BY <2>6 DEF KeptApart, Apart
<1> QED BY <1>1, <1>2, <1>3

\* The written row takes a place that was counted free, or had one on that day
\* already.
LEMMA WriteWithinCap ==
  ASSUME IInv, NEW p \in Procs, Write(p)
  PROVE  DayCapacity'
<1>1. CASE UNCHANGED <<rows, straddled, blind, overtaken>>
  BY <1>1 DEF IInv, DayCapacity, OnDay, Held, DayOf
<1>2. CASE straddled' \/ overtaken'
  BY <1>2 DEF DayCapacity
<1>3. CASE ~ straddled' /\ ~ overtaken' /\ ~ (UNCHANGED <<rows, straddled, blind, overtaken>>)
  <2> DEFINE w == op[p].b
  <2>1. /\ ~ straddled /\ op[p].pc = "write" /\ op[p].calm
        /\ Held({})' = Held({w}) \cup {w}
        /\ \A b \in Held({w}) : rows'[b] = rows[b]
        /\ rows'[w].slot = op[p].slot
        /\ Held(Own(op[p])) = Held({w})
        /\ ~ overtaken /\ (op[p].do = "move" => op[p].oldDay = DayOf(rows[w].slot))
        /\ Matches(op[p])
        /\ op[p] \in Transactions
    BY <1>3, CalmWrite
  <2>2. HasRoom(op[p])
    BY <2>1 DEF IInv, CheckHolds
  <2>3. ASSUME NEW s \in Slots PROVE Cardinality(OnDay(DayOf(s))') <= Cap
    <3> DEFINE D == OnDay(DayOf(s))
               E == OnDay(DayOf(s))'
               F == {b \in Held({w}) : DayOf(rows[b].slot) = DayOf(s)}
    <3>1. /\ E \subseteq F \cup {w}
          /\ DayOf(op[p].slot) # DayOf(s) => E \subseteq F
          /\ F \subseteq D
      BY <2>1 DEF OnDay, DayOf, Held
    <3>2. IsFiniteSet(D) /\ Cardinality(D) \in Nat /\ IsFiniteSet(F) /\ Cardinality(F) \in Nat
      BY DaysFinite DEF OnDay
    <3>3. Cardinality(D) <= Cap
      BY <2>1 DEF IInv, DayCapacity
    <3> HIDE DEF D, E, F
    <3>4. CASE E \subseteq D
      <4>1. Cardinality(E) <= Cardinality(D) /\ Cardinality(E) \in Nat
        BY <3>2, <3>4, FS_Subset, FS_CardinalityType
      <4>2. Cardinality(E) <= Cap
        BY <3>2, <3>3, <4>1
      <4> QED BY <4>2 DEF E
    <3>5. CASE Cardinality(F) < Cap
      <4>1. IsFiniteSet(F \cup {w}) /\ Cardinality(F \cup {w}) <= Cardinality(F) + 1
        <5>1. /\ IsFiniteSet(F \cup {w})
              /\ Cardinality(F \cup {w}) = IF w \in F THEN Cardinality(F) ELSE Cardinality(F) + 1
          BY <3>2, FS_AddElement
        <5> QED BY <3>2, <5>1
      <4>2. Cardinality(E) <= Cardinality(F \cup {w}) /\ Cardinality(E) \in Nat
        BY <3>1, <4>1, FS_Subset, FS_CardinalityType
      <4>3. Cardinality(F \cup {w}) \in Nat
        BY <4>1, FS_CardinalityType
      <4>4. Cardinality(E) <= Cap
        BY <3>2, <3>5, <4>1, <4>2, <4>3
      <4> QED BY <4>4 DEF E
    <3>6. CASE DayOf(op[p].slot) # DayOf(s)
      BY <3>1, <3>4, <3>6
    <3>7. CASE DayOf(op[p].slot) = DayOf(s) /\ op[p].do = "move" /\ op[p].oldDay = DayOf(op[p].slot)
      <4>1. w \in D
        BY <2>1, <3>7 DEF D, OnDay, Held, Matches, Transactions
      <4> QED BY <3>1, <3>4, <4>1
    <3>8. CASE DayOf(op[p].slot) = DayOf(s) /\ ~ (op[p].do = "move" /\ op[p].oldDay = DayOf(op[p].slot))
      <4>1. Cardinality(F) < Cap
        BY <2>1, <2>2, <3>8 DEF HasRoom, F
      <4> QED BY <3>5, <4>1
    <3> QED BY <3>6, <3>7, <3>8
  <2> QED BY <2>3 DEF DayCapacity
<1> QED BY <1>1, <1>2, <1>3

LEMMA DiaryStep ==
  ASSUME IInv, BookingsTypeOK', CalmIsCurrent', Next
  PROVE  KeptApart' /\ DayCapacity' /\ CheckHolds'
<1> USE DEF IInv
<1>1. ASSUME UNCHANGED <<rows, straddled, blind, overtaken>> PROVE KeptApart' /\ DayCapacity'
  BY <1>1, FewerHeld DEF Held
<1>2. ASSUME UNCHANGED <<rows, straddled, blind, overtaken>>,
             \A q \in Procs : op'[q].pc = "write" => op'[q] = op[q]
      PROVE  CheckHolds'
  <2>1. \A b \in Held({})' : b \in Held({}) /\ rows'[b] = rows[b]
    BY <1>2 DEF Held
  <2> QED BY <1>2, <2>1, FewerChecked DEF CheckHolds
<1>3. ASSUME NEW p \in Procs, End(p), UNCHANGED <<rows, straddled, blind, overtaken>> PROVE CheckHolds'
  <2>1. \A q \in Procs : op'[q].pc = "write" => op'[q] = op[q]
    BY <1>3, EndType DEF Idle
  <2> QED BY <1>2, <1>3, <2>1
<1>4. ASSUME NEW p \in Procs, Begins(p) PROVE KeptApart' /\ DayCapacity' /\ CheckHolds'
  <2>1. \A q \in Procs : op'[q].pc = "write" => op'[q] = op[q]
    BY <1>4, BeginsStep
  <2> QED BY <1>1, <1>2, <1>4, <2>1, BeginsStep
<1>5. ASSUME NEW p \in Procs, TakeLock(p) PROVE KeptApart' /\ DayCapacity' /\ CheckHolds'
  <2>1. op'[p].pc # "write"
    <3> DEFINE left == op[p].keys \ {NextKey(op[p])}
               pc == IF left = {} THEN "check" ELSE "lock"
    <3>1. op'[p] = [op[p] EXCEPT !.keys = left, !.pc = pc] /\ op[p] \in Transactions
      BY <1>5, TakeLockStep
    <3>2. pc # "write"
      OBVIOUS
    <3> HIDE DEF left, pc
    <3> QED BY <3>1, <3>2 DEF Transactions
  <2>2. \A q \in Procs : op'[q].pc = "write" => op'[q] = op[q]
    BY <1>5, <2>1, TakeLockStep
  <2> QED BY <1>1, <1>2, <1>5, <2>2 DEF TakeLock
<1>6. ASSUME NEW p \in Procs, Check(p) PROVE KeptApart' /\ DayCapacity' /\ CheckHolds'
  <2>1. UNCHANGED <<rows, straddled, blind, overtaken>>
    BY <1>6 DEF Check
  <2>2. CASE HasRoom(op[p]) /\ Fits(op[p].slot, op[p].key, Own(op[p])) /\ Step(p, "write")
    <3>1. /\ op'[p] = [op[p] EXCEPT !.pc = "write"] /\ op[p] \in Transactions
          /\ \A q \in Procs \ {p} : op'[q] = op[q]
      BY <1>6, <2>2, StepType DEF Check
    <3>2. /\ op'[p].slot = op[p].slot /\ op'[p].key = op[p].key /\ op'[p].do = op[p].do
          /\ op'[p].b = op[p].b /\ op'[p].oldDay = op[p].oldDay
      BY <3>1 DEF Transactions
    <3>3. Own(op[p])' = Own(op[p])
      BY <3>2 DEF Own
    <3>4. HasRoom(op[p])' /\ Fits(op[p].slot, op[p].key, Own(op[p]))'
      BY <2>1, <2>2, <3>2, <3>3 DEF HasRoom, Fits, Held, DayOf, Apart
    <3>5. \A b \in Held({})' : b \in Held({}) /\ rows'[b] = rows[b]
      BY <2>1 DEF Held
    <3>6. ASSUME NEW q \in Procs, ~ straddled, op'[q].pc = "write", op'[q].calm
          PROVE  Fits(op[q].slot, op[q].key, Own(op[q]))' /\ (~ overtaken => HasRoom(op[q])')
      <4>1. CASE q = p
        BY <3>4, <4>1
      <4>2. CASE q # p
        BY <3>1, <3>5, <3>6, <4>2, FewerChecked DEF CheckHolds
      <4> QED BY <4>1, <4>2
    <3> QED BY <1>1, <2>1, <3>6 DEF CheckHolds
  <2>3. CASE End(p)
    BY <1>1, <1>3, <2>1, <2>3
  <2> QED BY <1>6, <2>2, <2>3 DEF Check
<1>7. ASSUME NEW p \in Procs, Write(p) PROVE KeptApart' /\ DayCapacity' /\ CheckHolds'
  <2>1. CASE UNCHANGED <<rows, straddled, blind, overtaken>>
    BY <1>1, <1>3, <1>7, <2>1 DEF Write
  <2>2. CASE straddled'
    BY <1>7, <2>2, WriteApart, WriteWithinCap DEF CheckHolds
  <2>3. CASE ~ straddled' /\ ~ (UNCHANGED <<rows, straddled, blind, overtaken>>)
    <3>1. op[p].pc = "write" /\ op[p].calm
      BY <1>7, <2>3, CalmWrite
    <3>2. ASSUME NEW q \in Procs, op'[q].pc = "write", op'[q].calm PROVE FALSE
      <4>1. q # p /\ op'[q] = op[q]
        BY <1>7, <3>2, EndType DEF Write, Idle
      <4> QED BY <3>1, <3>2, <4>1, OneCalmWriter
    <3> QED BY <1>7, <3>2, WriteApart, WriteWithinCap DEF CheckHolds
  <2> QED BY <2>1, <2>2, <2>3
<1>8. ASSUME NEW p \in Procs, Fails(p) PROVE KeptApart' /\ DayCapacity' /\ CheckHolds'
  BY <1>1, <1>3, <1>8 DEF Fails
<1>9. ASSUME NEW b \in Bookings, Unlocked(b) PROVE KeptApart' /\ DayCapacity' /\ CheckHolds'
  <2>1. \A c \in Held({})' : c \in Held({}) /\ rows'[c] = rows[c]
    BY <1>9 DEF Unlocked, Becomes, BookingsTypeOK, Held
  <2>2. UNCHANGED <<op, straddled, blind, overtaken>>
    BY <1>9 DEF Unlocked, Becomes
  <2>3. KeptApart' /\ DayCapacity'
    BY <2>1, <2>2, FewerHeld
  <2>4. CheckHolds'
    BY <2>1, <2>2, FewerChecked DEF CheckHolds
  <2> QED BY <2>3, <2>4
<1>10. ASSUME NEW b \in Bookings, RekeyRow(b) PROVE KeptApart' /\ DayCapacity' /\ CheckHolds'
  <2>1. rekey.pc = "run" /\ UNCHANGED <<op, straddled, blind, overtaken>>
    BY <1>10 DEF RekeyRow, RowsFollow
  <2>2. \A c \in Held({})' : c \in Held({}) /\ rows'[c].slot = rows[c].slot
    BY <1>10 DEF RekeyRow, BookingsTypeOK, Rows, Held
  <2>3. KeptApart' /\ DayCapacity'
    BY <2>1, <2>2, FewerHeld
  <2>4. CheckHolds'
    BY <2>1 DEF CheckHolds, CalmIsCurrent, Settled
  <2> QED BY <2>3, <2>4
<1>11. ASSUME RekeySelect \/ RekeyFails PROVE KeptApart' /\ DayCapacity' /\ CheckHolds'
  BY <1>1, <1>2, <1>11 DEF RekeySelect, RekeyFails
<1>12. ASSUME NEW k \in Keys, Reconnect(k) PROVE KeptApart' /\ DayCapacity' /\ CheckHolds'
  <2>1. rekey'.pc = "select" /\ UNCHANGED <<rows, straddled, blind, overtaken>>
    BY <1>12 DEF Reconnect
  <2>2. CheckHolds'
    BY <2>1 DEF CheckHolds, CalmIsCurrent, Settled
  <2> QED BY <1>1, <2>1, <2>2
<1> QED BY <1>4, <1>5, <1>6, <1>7, <1>8, <1>9, <1>10, <1>11, <1>12, NextCases

-----------------------------------------------------------------------------
(* The theorems.                                                           *)

LEMMA InitIInv == Init => IInv
<1> SUFFICES ASSUME Init PROVE IInv
  OBVIOUS
<1> USE DEF Init
<1>1. BookingsTypeOK
  <2>1. rows \in [Bookings -> Rows]
    BY DEF Rows, Statuses
  <2>2. lock \in [Keys -> Procs \cup {NULL}]
    OBVIOUS
  <2>3. op \in [Procs -> {Idle} \cup Transactions]
    OBVIOUS
  <2>4. rekey \in [pc : {"idle", "select", "run", "failed"}, todo : SUBSET Bookings]
    OBVIOUS
  <2>5. reconnects \in 0..MaxReconnects /\ itinerary \in Keys
    OBVIOUS
  <2> QED BY <2>1, <2>2, <2>3, <2>4, <2>5 DEF BookingsTypeOK, Transactions
<1>2. LocksInOrder
  BY DEF LocksInOrder
<1>3. \A p \in Procs : op[p].pc = "idle" /\ op[p].calm = FALSE
  BY DEF Idle
<1>4. CalmIsCurrent /\ CheckHolds
  BY <1>3 DEF CalmIsCurrent, CheckHolds
<1>5. Held({}) = {}
  BY DEF Held
<1>6. RowsFollow /\ KeptApart
  BY <1>5 DEF RowsFollow, KeptApart
<1>7. DayCapacity
  <2>1. \A s \in Slots : OnDay(DayOf(s)) = {}
    BY <1>5 DEF OnDay
  <2>2. Cardinality({}) = 0
    BY FS_EmptySet
  <2> QED BY <2>1, <2>2 DEF DayCapacity
<1> QED BY <1>1, <1>2, <1>4, <1>6, <1>7 DEF IInv

LEMMA StepIInv == IInv /\ [Next]_vars => IInv'
<1> SUFFICES ASSUME IInv, [Next]_vars PROVE IInv'
  OBVIOUS
<1>1. CASE Next
  <2>1. BookingsTypeOK' /\ LocksInOrder' /\ CalmIsCurrent' /\ RowsFollow'
    BY <1>1, TypeStep, LocksStep, CalmStep, RowsFollowStep DEF IInv
  <2> QED BY <1>1, <2>1, DiaryStep DEF IInv
<1>2. CASE UNCHANGED vars
  <2>1. \A b \in Held({})' : b \in Held({}) /\ rows'[b] = rows[b] /\ rows'[b].slot = rows[b].slot
    BY <1>2 DEF vars, Held
  <2>2. KeptApart' /\ DayCapacity'
    BY <1>2, <2>1, FewerHeld DEF vars, IInv
  <2>3. CheckHolds'
    BY <1>2, <2>1, FewerChecked DEF vars, IInv, CheckHolds
  <2>4. BookingsTypeOK' /\ LocksInOrder' /\ CalmIsCurrent' /\ RowsFollow'
    BY <1>2 DEF vars, IInv, BookingsTypeOK, LocksInOrder, CalmIsCurrent, RowsFollow, Held
  <2> QED BY <2>2, <2>3, <2>4 DEF IInv
<1> QED BY <1>1, <1>2

\* The inductive invariant holds in every reachable state: a calm transaction
\* holds the lock of the bot's current key, every held row is on that key or
\* waits to be rewritten unless the rewrite failed, and so what was counted still
\* holds at the write.
THEOREM Invariance == Spec => []IInv
BY InitIInv, StepIInv, PTL DEF Spec

\* Every table, lock and request keeps its type, through every transaction,
\* failure and change of calendar.
THEOREM TypeCorrect == Spec => []BookingsTypeOK
<1>1. IInv => BookingsTypeOK
  BY DEF IInv
<1> QED BY <1>1, Invariance, PTL

\* No two transactions wait for each other's advisory lock, for any number of
\* keys and callers: the keys are locked in sorted order
\* (internal.provider.ts:4091).
THEOREM NoDeadlock == Spec => []NoMutualWait
<1>1. IInv => NoMutualWait
  BY OrderPreventsWait DEF IInv
<1> QED BY <1>1, Invariance, PTL

\* No two held bookings overlap or stand closer than the gap, through any number
\* of calendar changes and failed rewrites, as long as no request straddled a
\* change and no row was written beside one that a failed rewrite left behind
\* (capacity.ts:180).
THEOREM DiaryApart == Spec => []KeptApart
<1>1. IInv => KeptApart
  BY DEF IInv
<1> QED BY <1>1, Invariance, PTL

\* No day holds more bookings than the service's cap, as long as no request
\* straddled a change of calendar and no move overtook another
\* (internal.provider.ts:1574, 2893, 4097).
THEOREM CapKept == Spec => []DayCapacity
<1>1. IInv => DayCapacity
  BY DEF IInv
<1> QED BY <1>1, Invariance, PTL

\* A step writes no row that was cancelled, except that a rewrite may give it
\* the new key.
LEMMA CancelledStep ==
  ASSUME BookingsTypeOK, Next, NEW b \in Bookings, rows[b].status = "cancelled"
  PROVE  rows'[b].status = "cancelled" /\ rows'[b].slot = rows[b].slot
<1>1. ASSUME NEW p \in Procs, Begins(p) \/ TakeLock(p) \/ Check(p) \/ Fails(p)
      PROVE  rows' = rows
  BY <1>1, BeginsStep DEF TakeLock, Check, Fails
<1>2. ASSUME NEW p \in Procs, Write(p)
      PROVE  rows'[b] = rows[b]
  <2>1. op[p] \in Transactions
    BY <1>2, OpType DEF Write, Idle
  <2>2. Matches(op[p]) => op[p].b # b
    BY <2>1 DEF Matches, Transactions
  <2> QED BY <1>2, <2>1, <2>2 DEF Write, BookingsTypeOK
<1>3. ASSUME NEW c \in Bookings, Unlocked(c)
      PROVE  rows'[b] = rows[b]
  BY <1>3 DEF Unlocked, Becomes, BookingsTypeOK
<1>4. ASSUME NEW c \in Bookings, RekeyRow(c)
      PROVE  rows'[b].status = rows[b].status /\ rows'[b].slot = rows[b].slot
  BY <1>4 DEF RekeyRow, BookingsTypeOK, Rows
<1>5. ASSUME RekeySelect \/ RekeyFails \/ \E k \in Keys : Reconnect(k) PROVE rows' = rows
  BY <1>5 DEF RekeySelect, RekeyFails, Reconnect
<1> QED BY <1>1, <1>2, <1>3, <1>4, <1>5, NextCases

\* A booking that was cancelled, or a request that was declined, is never
\* confirmed or moved by an accept or a move that had read it before
\* (internal.provider.ts:2920, 4156).
THEOREM CancelledStays == Spec => CancelledIsFinal
<1>1. ASSUME BookingsTypeOK, [Next]_vars
      PROVE  [\A b \in Bookings : rows[b].status = "cancelled" =>
               rows'[b].status = "cancelled" /\ rows'[b].slot = rows[b].slot]_rows
  BY <1>1, CancelledStep DEF vars
<1> QED BY <1>1, TypeCorrect, PTL DEF Spec, CancelledIsFinal

=============================================================================
