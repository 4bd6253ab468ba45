------------------------ MODULE TurnCoalescerProofs ------------------------
(***************************************************************************)
(* Theorems about TurnCoalescer, for any number of processes and messages. *)
(***************************************************************************)
EXTENDS TurnCoalescer, FiniteSetTheorems, WellFoundedInduction, TLAPS

USE BoundsAssumption, SwitchesAssumption DEF Marks, Msgs

Steps == {"idle"} \cup JobSteps \cup InlineSteps

-----------------------------------------------------------------------------
(* Types.                                                                  *)

\* A window holds messages of the session, and so do the queries over it.
LEMMA WindowType ==
  ASSUME TypeOK, NEW mark \in Marks, NEW hwm \in Marks
  PROVE  /\ Window(mark, hwm) \subseteq Msgs
         /\ Newest(mark) \subseteq Msgs
         /\ Oldest(mark, hwm) \subseteq Msgs
         /\ LatestUnanswered \subseteq Msgs
BY SMTT(30) DEF TypeOK, Window, Newest, Oldest, LatestUnanswered, Arrived

\* The guardrails vet a part of the window.
LEMMA GateWindowIn ==
  ASSUME NEW mark, NEW hwm
  PROVE  GateWindow(mark, hwm) \subseteq Window(mark, hwm)
BY DEF GateWindow

LEMMA LargerType == ASSUME NEW a \in Marks, NEW b \in Marks PROVE Larger(a, b) \in Marks
BY DEF Larger

\* The records a process is left with by most steps.
LEMMA RunRecords ==
  /\ Idle \in Runs
  /\ \A r \in Runs, s \in Steps : [r EXCEPT !.step = s] \in Runs
  /\ \A r \in Runs, s \in Steps, o \in Outcomes :
       [r EXCEPT !.step = s, !.outcome = o] \in Runs
<1>1. Idle \in Runs
  BY DEF Idle, Runs, JobSteps, InlineSteps, Outcomes, Serves
<1>2. ASSUME NEW r \in Runs, NEW s \in Steps, NEW o \in Outcomes
      PROVE  [r EXCEPT !.step = s] \in Runs /\ [r EXCEPT !.step = s, !.outcome = o] \in Runs
  BY <1>2 DEF Runs, Steps
<1>3. "none" \in Outcomes
  BY DEF Outcomes
<1> QED BY <1>1, <1>2, <1>3

\* Reading the session row gives a record of the right type.
LEMMA LoadedType ==
  ASSUME TypeOK, NEW r \in Runs
  PROVE  Loaded(r) \in Runs
BY DEF TypeOK, Loaded, Runs, Serves

\* Becomes changes one process.
LEMMA BecomesType ==
  ASSUME TypeOK, NEW p \in Procs, NEW r \in Runs, Becomes(p, r)
  PROVE  /\ run' \in [Procs -> Runs]
         /\ run'[p] = r
         /\ \A q \in Procs \ {p} : run'[q] = run[q]
BY DEF TypeOK, Becomes

LEMMA GotoType ==
  ASSUME TypeOK, NEW p \in Procs, NEW s \in Steps, Goto(p, s)
  PROVE  /\ run' \in [Procs -> Runs]
         /\ run'[p] = [run[p] EXCEPT !.step = s]
         /\ \A q \in Procs \ {p} : run'[q] = run[q]
<1>1. run[p] \in Runs
  BY DEF TypeOK
<1>2. [run[p] EXCEPT !.step = s] \in Runs
  BY <1>1, RunRecords
<1> QED BY <1>2, BecomesType DEF Goto

\* The queue keeps its type.
LEMMA AddedType ==
  ASSUME NEW q \in [0..MaxRearms -> Nat], NEW a \in 0..MaxRearms
  PROVE  /\ Added(q, a) \in [0..MaxRearms -> Nat]
         /\ q[a] > 0 => Removed(q, a) \in [0..MaxRearms -> Nat]
BY DEF Added, Removed

\* A job at attempt 0.
LEMMA AddedFresh ==
  ASSUME NEW q \in [0..MaxRearms -> Nat]
  PROVE  Added(q, 0) \in [0..MaxRearms -> Nat]
<1>1. 0 \in 0..MaxRearms
  OBVIOUS
<1> QED BY <1>1, AddedType

\* Locks.
Locks == {Free, Dead} \cup (Procs \X {"job", "inline"})

LEMMA LockType ==
  ASSUME NEW p \in Procs
  PROVE  Free \in Locks /\ Dead \in Locks /\ Token(p, "job") \in Locks /\ Token(p, "inline") \in Locks
BY DEF Locks, Token

LEMMA ReleaseType ==
  ASSUME lock \in Locks, NEW p \in Procs, NEW path, Release(p, path)
  PROVE  lock' \in Locks
BY DEF Release, Locks

LEMMA EndJobType ==
  ASSUME TypeOK, NEW p \in Procs, EndJob(p)
  PROVE  /\ lock' \in Locks
         /\ run' \in [Procs -> Runs] /\ run'[p] = Idle
         /\ \A q \in Procs \ {p} : run'[q] = run[q]
BY RunRecords, BecomesType, ReleaseType DEF EndJob, TypeOK, Locks

\* Re-arming keeps the queue's type, and gives up on messages there are.
LEMMA RearmType ==
  ASSUME TypeOK, NEW p \in Procs, RearmWithBackoff(p)
  PROVE  jobs' \in [0..MaxRearms -> Nat] /\ left' \in Marks
<1>1. run[p] \in Runs /\ left \in Marks /\ jobs \in [0..MaxRearms -> Nat] /\ Len(kind) \in Marks
  BY DEF TypeOK
<1>2. run[p].attempt \in 0..MaxRearms /\ run[p].hwm \in Marks
  BY <1>1 DEF Runs
<1>3. CASE run[p].attempt + 1 > MaxRearms
  BY <1>1, <1>2, <1>3, LargerType DEF RearmWithBackoff, LeaveUpTo
<1>4. CASE ~(run[p].attempt + 1 > MaxRearms)
  <2>1. run[p].attempt + 1 \in 0..MaxRearms
    BY <1>2, <1>4
  <2> QED BY <1>1, <1>4, <2>1, AddedType DEF RearmWithBackoff
<1> QED BY <1>3, <1>4

LEMMA LeaveType ==
  ASSUME left \in Marks, NEW m \in Marks, LeaveUpTo(m)
  PROVE  left' \in Marks
BY LargerType DEF LeaveUpTo

\* The session row.
Chats == [status: Serves \cup {"human"}, version: Nat, ai: BOOLEAN, mark: Marks]

LEMMA ChatType ==
  ASSUME chat \in Chats
  PROVE  /\ \A s \in Serves \cup {"human"} :
              [chat EXCEPT !.status = s, !.version = @ + 1] \in Chats
         /\ PauseAutoReply => chat' \in Chats
         /\ \A r : WaitingToBot(r) => chat' \in Chats
         /\ \A m \in Marks : AdvanceWatermark(m) => chat' \in Chats
<1>1. ASSUME NEW s \in Serves \cup {"human"}
      PROVE  [chat EXCEPT !.status = s, !.version = @ + 1] \in Chats
  <2>1. chat.version + 1 \in Nat
    BY DEF Chats
  <2> QED BY <2>1 DEF Chats
<1>2. PauseAutoReply => chat' \in Chats
  BY DEF Chats, PauseAutoReply
<1>3. ASSUME NEW r, WaitingToBot(r) PROVE chat' \in Chats
  BY <1>3 DEF Chats, WaitingToBot, Serves
<1>4. ASSUME NEW m \in Marks, AdvanceWatermark(m) PROVE chat' \in Chats
  <2>1. Larger(chat.mark, m) \in Marks
    BY LargerType DEF Chats
  <2> QED BY <1>4, <2>1 DEF AdvanceWatermark, Chats
<1> QED BY <1>1, <1>2, <1>3, <1>4

\* Replies keep the types of the thread and of the session row.
LEMMA ReplyType ==
  ASSUME thread \in Seq(-N..N), NEW m \in Marks
  PROVE  Append(thread, -m) \in Seq(-N..N) /\ Append(thread, 0) \in Seq(-N..N)
BY DEF Marks

LEMMA FinalizeType ==
  ASSUME TypeOK, NEW r \in Runs, Finalize(r)
  PROVE  thread' \in Seq(-N..N) /\ chat' \in Chats
<1>1. r.hwm \in Marks
  BY DEF Runs
<1> QED BY <1>1, ReplyType DEF TypeOK, Finalize, Chats

LEMMA HandoffType ==
  ASSUME TypeOK, BotHandoff
  PROVE  /\ thread' \in Seq(-N..N) /\ chat' \in Chats
         /\ chat'.status \in Serves \cup {"human"} /\ chat'.version \in Nat
<1>1. thread' \in Seq(-N..N)
  <2>1. Append(thread, 0) \in Seq(-N..N) /\ thread \in Seq(-N..N)
    BY ReplyType DEF TypeOK
  <2> QED BY <2>1 DEF BotHandoff
<1>2. chat' \in Chats
  <2>1. chat \in Chats
    BY DEF TypeOK, Chats
  <2>2. [chat EXCEPT !.status = "human", !.version = @ + 1] \in Chats
    BY <2>1, ChatType DEF Serves
  <2> QED BY <2>1, <2>2 DEF BotHandoff
<1> QED BY <1>2, <1>1 DEF Chats

LEMMA InitType == Init => TypeOK
<1> SUFFICES ASSUME Init PROVE TypeOK
  OBVIOUS
<1>1. run \in [Procs -> Runs]
  BY RunRecords DEF Init
<1>2. chat \in Chats
  <2>1. chat \in [status: Serves, version: {0}, ai: {TRUE}, mark: {0}]
    BY DEF Init
  <2>2. 0 \in Nat /\ 0 \in Marks
    BY BoundsAssumption DEF Marks
  <2> QED BY <2>1, <2>2 DEF Chats
<1>3. jobs \in [0..MaxRearms -> Nat] /\ kind \in Seq(Kinds) /\ Len(kind) <= N /\ thread \in Seq(-N..N)
  <2>1. jobs \in [0..MaxRearms -> Nat]
    BY DEF Init
  <2>2. kind = <<>> /\ thread = <<>>
    BY DEF Init
  <2>3. kind \in Seq(Kinds) /\ thread \in Seq(-N..N)
    BY <2>2
  <2>4. Len(kind) = 0
    BY <2>2
  <2> QED BY <2>1, <2>3, <2>4, BoundsAssumption
<1> QED BY <1>1, <1>2, <1>3 DEF Init, TypeOK, Chats

-----------------------------------------------------------------------------
(* Every action keeps the types.                                           *)

LEMMA IngestType ==
  ASSUME TypeOK, NEW p \in Procs, NEW k \in Kinds, Ingest(p, k)
  PROVE  TypeOK'
<1>1. Len(kind) + 1 \in Marks /\ Len(kind) + 1 \in -N..N
  BY SMTT(30) DEF TypeOK, Ingest
<1>2. kind' \in Seq(Kinds) /\ Len(kind') <= N
  BY DEF TypeOK, Ingest
<1>3. thread' \in Seq(-N..N)
  BY <1>1 DEF TypeOK, Ingest
<1>4. Loaded(Idle) \in Runs
  BY RunRecords, LoadedType
<1>5. [Loaded(Idle) EXCEPT !.step = "schedule", !.path = "inline", !.hwm = Len(kind) + 1] \in Runs
  BY <1>1, <1>4 DEF Runs, InlineSteps
<1>6. run' \in [Procs -> Runs]
  BY <1>5, BecomesType DEF Ingest
<1> QED BY <1>2, <1>3, <1>6 DEF TypeOK, Ingest, env

LEMMA IngressType ==
  ASSUME TypeOK, NEW p \in Procs, Ingress(p)
  PROVE  TypeOK'
<1>1. run[p] \in Runs /\ run[p].hwm \in Marks
  BY DEF TypeOK, Runs
<1>2. Added(jobs, 0) \in [0..MaxRearms -> Nat]
  BY AddedFresh DEF TypeOK
<1>3. CASE ScheduleTurn(p)
  <2>1. run' \in [Procs -> Runs]
    BY <1>3, BecomesType, RunRecords DEF ScheduleTurn
  <2> QED BY <1>1, <1>2, <1>3, <2>1 DEF TypeOK, ScheduleTurn, env
<1>4. "forward" \in Steps
  BY DEF Steps, InlineSteps
<1>5. CASE ScheduleCustomWebhook(p)
  <2>1. run' \in [Procs -> Runs]
    BY <1>4, <1>5, GotoType DEF ScheduleCustomWebhook
  <2> QED BY <1>5, <2>1 DEF TypeOK, ScheduleCustomWebhook, env
<1>6. CASE ScheduleFails(p)
  <2>1. run' \in [Procs -> Runs]
    BY <1>4, <1>6, GotoType DEF ScheduleFails
  <2>2. last' \in Marks /\ due' \in BOOLEAN /\ jobs' \in [0..MaxRearms -> Nat]
    <3>1. jobs' \in {jobs, Added(jobs, 0)}
      BY <1>6 DEF ScheduleFails
    <3>2. last' \in {last, run[p].hwm} /\ due' \in {due, FALSE}
      BY <1>6 DEF ScheduleFails
    <3> QED BY <1>1, <1>2, <3>1, <3>2 DEF TypeOK
  <2> QED BY <1>6, <2>1, <2>2 DEF TypeOK, ScheduleFails, env
<1> QED BY <1>3, <1>5, <1>6 DEF Ingress

LEMMA TakeJobType ==
  ASSUME TypeOK, NEW p \in Procs, NEW a \in 0..MaxRearms, TakeJob(p, a)
  PROVE  TypeOK'
<1>1. Removed(jobs, a) \in [0..MaxRearms -> Nat]
  BY AddedType DEF TypeOK, TakeJob
<1>2. Added(Removed(jobs, a), 0) \in [0..MaxRearms -> Nat]
  BY <1>1, AddedFresh
<1>3. jobs' \in [0..MaxRearms -> Nat]
  BY <1>1, <1>2 DEF TakeJob
<1>4. [Idle EXCEPT !.step = "locked", !.path = "job", !.attempt = a] \in Runs
  BY RunRecords DEF Runs, JobSteps
<1>5. run' \in [Procs -> Runs] /\ lock' \in Locks
  <2>1. lock \in Locks /\ run \in [Procs -> Runs]
    BY DEF TypeOK, Locks
  <2> QED BY <1>4, <2>1, BecomesType, LockType DEF TakeJob
<1> QED BY <1>3, <1>5 DEF TypeOK, TakeJob, env, Locks

LEMMA LoadSessionType ==
  ASSUME TypeOK, NEW p \in Procs, LoadSession(p)
  PROVE  TypeOK'
<1>1. Loaded(run[p]) \in Runs
  BY LoadedType DEF TypeOK
<1>2. [Loaded(run[p]) EXCEPT !.step = "loaded"] \in Runs
  BY <1>1, RunRecords DEF Steps, JobSteps
<1>3. run' \in [Procs -> Runs]
  BY <1>2, BecomesType DEF LoadSession
<1> QED BY <1>3 DEF TypeOK, LoadSession, env

LEMMA PickTurnType ==
  ASSUME TypeOK, NEW p \in Procs, PickTurn(p)
  PROVE  TypeOK'
<1> DEFINE r == run[p]
<1>1. r \in Runs /\ r.mark \in Marks /\ last \in Marks
  BY DEF TypeOK, Runs
<1>2. ASSUME NEW hwm \in Newest(r.mark)
      PROVE  /\ [r EXCEPT !.step = "relay", !.bound = IF last # 0 THEN last ELSE hwm] \in Runs
             /\ [r EXCEPT !.step = "turn", !.hwm = hwm] \in Runs
  <2>1. hwm \in Marks
    BY <1>1, WindowType
  <2> HIDE DEF r
  <2> QED BY <1>1, <2>1 DEF Runs, JobSteps
<1>3. Added(jobs, 0) \in [0..MaxRearms -> Nat] /\ jobs \in [0..MaxRearms -> Nat]
  BY AddedFresh DEF TypeOK
<1>4. lock \in Locks
  BY DEF TypeOK, Locks
<1>5. run' \in [Procs -> Runs] /\ lock' \in Locks /\ jobs' \in [0..MaxRearms -> Nat]
  BY <1>2, <1>3, <1>4, EndJobType, BecomesType DEF PickTurn
<1> QED BY <1>5 DEF TypeOK, PickTurn, env, Locks

LEMMA GateTurnType ==
  ASSUME TypeOK, NEW p \in Procs, GateTurn(p)
  PROVE  TypeOK'
<1> DEFINE r == run[p]
<1>1. r \in Runs /\ r.mark \in Marks /\ r.hwm \in Marks
  BY DEF TypeOK, Runs
<1>2. Rejected(r) \subseteq Msgs
  BY <1>1, WindowType, GateWindowIn DEF Rejected
<1>3. Autoresponse(r) \in Outcomes
  BY DEF Autoresponse, Outcomes
<1>4. \A s \in Steps : [r EXCEPT !.step = s, !.outcome = Autoresponse(r)] \in Runs
  BY <1>1, <1>3, RunRecords
<1>5. lock \in Locks /\ left \in Marks /\ chat \in Chats /\ flagged \subseteq Msgs
  BY DEF TypeOK, Locks, Chats
<1>6. "think" \in Steps /\ "check" \in Steps
  BY DEF Steps, JobSteps
<1>7. run' \in [Procs -> Runs] /\ lock' \in Locks
  BY <1>4, <1>5, <1>6, EndJobType, BecomesType DEF GateTurn
<1>8. left' \in Marks /\ chat' \in Chats /\ flagged' \subseteq Msgs
  BY <1>1, <1>2, <1>5, LeaveType, ChatType DEF GateTurn
<1> QED BY <1>7, <1>8 DEF TypeOK, GateTurn, env, Locks, Chats

LEMMA ThinkType ==
  ASSUME TypeOK, NEW p \in Procs, Think(p)
  PROVE  TypeOK'
<1>1. \A o \in {"response", "infra", "handoff"} : [run[p] EXCEPT !.step = "check", !.outcome = o] \in Runs
  BY RunRecords DEF TypeOK, Steps, JobSteps, Outcomes
<1>2. run' \in [Procs -> Runs]
  BY <1>1, BecomesType DEF Think
<1> QED BY <1>2 DEF TypeOK, Think, env

LEMMA JobThrowsType ==
  ASSUME TypeOK, NEW p \in Procs, JobThrows(p)
  PROVE  TypeOK'
<1>1. run' \in [Procs -> Runs] /\ lock' \in Locks /\ jobs' \in [0..MaxRearms -> Nat] /\ left' \in Marks
  BY EndJobType, RearmType DEF JobThrows
<1> QED BY <1>1 DEF TypeOK, JobThrows, env, Locks

LEMMA CheckNewerType ==
  ASSUME TypeOK, NEW p \in Procs, CheckNewer(p)
  PROVE  TypeOK'
<1>1. "commit" \in Steps
  BY DEF Steps, JobSteps
<1>2. CASE ~StaleAtSnapshot(run[p])
  <2>1. run' \in [Procs -> Runs]
    BY <1>1, <1>2, GotoType DEF CheckNewer
  <2> QED BY <1>2, <2>1 DEF TypeOK, CheckNewer, env
<1>3. CASE StaleAtSnapshot(run[p])
  <2>1. run' \in [Procs -> Runs] /\ lock' \in Locks /\ jobs' \in [0..MaxRearms -> Nat] /\ left' \in Marks
    BY <1>3, EndJobType, RearmType DEF CheckNewer
  <2> QED BY <1>3, <2>1 DEF TypeOK, CheckNewer, env, Locks
<1> QED BY <1>2, <1>3

LEMMA CommitTurnType ==
  ASSUME TypeOK, NEW p \in Procs, CommitTurn(p)
  PROVE  TypeOK'
<1>1. run[p] \in Runs
  BY DEF TypeOK
<1>2. "announce" \in Steps /\ "settle" \in Steps
  BY DEF Steps, JobSteps
<1>3. CASE MayFinalize(run[p])
  <2>1. thread' \in Seq(-N..N) /\ chat' \in Chats
    BY <1>1, <1>3, FinalizeType DEF CommitTurn
  <2>2. run' \in [Procs -> Runs]
    BY <1>2, <1>3, GotoType DEF CommitTurn
  <2> QED BY <1>3, <2>1, <2>2 DEF TypeOK, CommitTurn, env, Chats
<1>4. CASE ~MayFinalize(run[p])
  <2>1. run' \in [Procs -> Runs] /\ lock' \in Locks /\ jobs' \in [0..MaxRearms -> Nat] /\ left' \in Marks
    BY <1>4, EndJobType, RearmType DEF CommitTurn
  <2> QED BY <1>4, <2>1 DEF TypeOK, CommitTurn, env, Locks
<1> QED BY <1>3, <1>4

LEMMA HandOffTurnType ==
  ASSUME TypeOK, NEW p \in Procs, HandOffTurn(p)
  PROVE  TypeOK'
<1>1. thread' \in Seq(-N..N) /\ chat' \in Chats /\ chat'.status \in Serves \cup {"human"}
  BY HandoffType DEF HandOffTurn
<1>2. run[p] \in Runs
  BY DEF TypeOK
<1>3. [run[p] EXCEPT !.step = "settle", !.status = chat'.status] \in Runs
  BY <1>1, <1>2 DEF Runs, JobSteps
<1>4. run' \in [Procs -> Runs]
  BY <1>3, BecomesType DEF HandOffTurn
<1> QED BY <1>1, <1>4 DEF TypeOK, HandOffTurn, env, Chats

LEMMA SettleTurnType ==
  ASSUME TypeOK, NEW p \in Procs, SettleTurn(p)
  PROVE  TypeOK'
<1>1. run' \in [Procs -> Runs] /\ lock' \in Locks
  BY EndJobType DEF SettleTurn
<1>2. chat \in Chats
  BY DEF TypeOK, Chats
<1>3. chat' \in Chats
  BY <1>2, ChatType DEF SettleTurn
<1>4. last' \in Marks
  BY DEF TypeOK, SettleTurn
<1> QED BY <1>1, <1>3, <1>4 DEF TypeOK, SettleTurn, env, Locks, Chats

LEMMA RelayType ==
  ASSUME TypeOK, NEW p \in Procs, RelayNext(p) \/ RelayAdvance(p)
  PROVE  TypeOK'
<1> DEFINE r == run[p]
<1>1. r \in Runs /\ r.mark \in Marks /\ r.bound \in Marks /\ r.hwm \in Marks
  BY DEF TypeOK, Runs
<1>2. lock \in Locks /\ chat \in Chats
  BY DEF TypeOK, Locks, Chats
<1>3. CASE RelayNext(p)
  <2>1. ASSUME NEW m \in Oldest(r.mark, r.bound)
        PROVE  [r EXCEPT !.step = "forward", !.path = "relay", !.hwm = m, !.done = {}] \in Runs
    <3>1. m \in Marks
      BY <1>1, WindowType
    <3> HIDE DEF r
    <3> QED BY <1>1, <3>1 DEF Runs, InlineSteps
  <2>2. run' \in [Procs -> Runs] /\ lock' \in Locks
    BY <1>2, <1>3, <2>1, EndJobType, BecomesType DEF RelayNext
  <2> QED BY <1>3, <2>2 DEF TypeOK, RelayNext, env, Locks
<1>4. CASE RelayAdvance(p)
  <2>1. chat' \in Chats
    BY <1>1, <1>2, <1>4, ChatType DEF RelayAdvance
  <2>2. [r EXCEPT !.step = "relay", !.path = "job", !.mark = r.hwm] \in Runs
    <3> HIDE DEF r
    <3> QED BY <1>1 DEF Runs, JobSteps
  <2>3. run' \in [Procs -> Runs]
    BY <1>4, <2>2, BecomesType DEF RelayAdvance
  <2> QED BY <1>4, <2>1, <2>3 DEF TypeOK, RelayAdvance, env, Chats
<1> QED BY <1>3, <1>4

\* What ends a forward or a drain.
LEMMA EndForwardType ==
  ASSUME TypeOK, NEW p \in Procs, EndForward(p)
  PROVE  /\ run' \in [Procs -> Runs]
         /\ \A q \in Procs \ {p} : run'[q] = run[q]
         /\ run'[p] = IF run[p].path = "relay" THEN [run[p] EXCEPT !.step = "relayed"] ELSE Idle
<1>1. run[p] \in Runs
  BY DEF TypeOK
<1>2. [run[p] EXCEPT !.step = "relayed"] \in Runs
  BY <1>1, RunRecords DEF Steps, JobSteps
<1> QED BY <1>2, RunRecords, BecomesType DEF EndForward

LEMMA EndDrainType ==
  ASSUME TypeOK, NEW p \in Procs, EndDrain(p)
  PROVE  run' \in [Procs -> Runs] /\ lock' \in Locks
BY EndForwardType, ReleaseType DEF EndDrain, TypeOK, Locks

LEMMA ForwardType ==
  ASSUME TypeOK, NEW p \in Procs, run[p].hwm \in Msgs, Forward(p)
  PROVE  TypeOK'
<1> DEFINE r == run[p]
<1>1. r \in Runs /\ r.hwm \in Marks
  BY DEF TypeOK, Runs
<1>2. left \in Marks /\ chat \in Chats /\ flagged \subseteq Msgs
  BY DEF TypeOK, Chats
<1>3. CASE r.status \notin Serves
  <2>1. run' \in [Procs -> Runs] /\ left' \in Marks /\ UNCHANGED <<chat, flagged>>
    BY <1>1, <1>2, <1>3, EndForwardType, LeaveType DEF Forward
  <2> QED BY <2>1 DEF TypeOK, Forward, env
<1>4. CASE r.status \in Serves /\ GateRejects(r.hwm)
  <2>1. run' \in [Procs -> Runs] /\ left' \in Marks
    BY <1>1, <1>2, <1>4, EndForwardType, LeaveType DEF Forward
  <2>2. chat' \in Chats /\ flagged' \subseteq Msgs
    BY <1>2, <1>4, ChatType DEF Forward
  <2> QED BY <2>1, <2>2 DEF TypeOK, Forward, env, Chats
<1>5. CASE r.status \in Serves /\ ~GateRejects(r.hwm)
  <2>1. PICK s \in {"warn", "canned", "acquire"}, o \in {"warn", "keyword", "none"} :
          Becomes(p, [r EXCEPT !.step = s, !.outcome = o])
    BY <1>5 DEF Forward
  <2>2. s \in Steps /\ o \in Outcomes
    BY DEF Steps, InlineSteps, Outcomes
  <2>3. [r EXCEPT !.step = s, !.outcome = o] \in Runs
    BY <1>1, <2>2, RunRecords
  <2>4. run' \in [Procs -> Runs]
    BY <2>1, <2>3, BecomesType
  <2>5. UNCHANGED <<chat, flagged, left>>
    BY <1>5 DEF Forward
  <2> QED BY <2>4, <2>5 DEF TypeOK, Forward, env
<1> QED BY <1>3, <1>4, <1>5

LEMMA CheckWarningType ==
  ASSUME TypeOK, NEW p \in Procs, CheckWarning(p)
  PROVE  TypeOK'
<1>1. run[p] \in Runs /\ run[p].hwm \in Marks /\ left \in Marks
  BY DEF TypeOK, Runs
<1>2. "warning" \in Steps
  BY DEF Steps, InlineSteps
<1>3. run' \in [Procs -> Runs] /\ left' \in Marks
  BY <1>1, <1>2, GotoType, EndForwardType, LeaveType DEF CheckWarning
<1> QED BY <1>3 DEF TypeOK, CheckWarning, env

LEMMA WarningType ==
  ASSUME TypeOK, NEW p \in Procs, ForwardWarning(p)
  PROVE  TypeOK'
<1>1. run[p] \in Runs /\ run[p].hwm \in Marks /\ left \in Marks
  BY DEF TypeOK, Runs
<1>2. run' \in [Procs -> Runs]
  BY EndForwardType DEF ForwardWarning
<1>3. thread' \in Seq(-N..N) /\ chat' \in Chats /\ left' \in Marks
  <2>1. CASE MayFinalize(run[p])
    BY <1>1, <2>1, FinalizeType DEF ForwardWarning
  <2>2. CASE ~MayFinalize(run[p])
    BY <1>1, <2>2, LeaveType DEF ForwardWarning, TypeOK, Chats
  <2> QED BY <2>1, <2>2
<1> QED BY <1>2, <1>3 DEF TypeOK, ForwardWarning, env, Chats

LEMMA CannedType ==
  ASSUME TypeOK, NEW p \in Procs, ForwardCanned(p)
  PROVE  TypeOK'
<1>1. run[p].hwm \in Marks /\ left \in Marks /\ thread \in Seq(-N..N)
  BY DEF TypeOK, Runs
<1>2. "escalate" \in Steps
  BY DEF Steps, InlineSteps
<1>3. run' \in [Procs -> Runs]
  BY <1>2, GotoType, EndForwardType DEF ForwardCanned
<1>4. thread' \in Seq(-N..N) /\ left' \in Marks
  BY <1>1, ReplyType, LeaveType DEF ForwardCanned
<1> QED BY <1>3, <1>4 DEF TypeOK, ForwardCanned, env

LEMMA AcquireType ==
  ASSUME TypeOK, NEW p \in Procs, AcquireSessionLock(p)
  PROVE  TypeOK'
<1>1. "drain" \in Steps
  BY DEF Steps, InlineSteps
<1>2. run' \in [Procs -> Runs]
  BY <1>1, GotoType, EndForwardType DEF AcquireSessionLock
<1>3. lock \in Locks
  BY DEF TypeOK, Locks
<1>4. lock' \in Locks
  BY <1>3, LockType DEF AcquireSessionLock
<1> QED BY <1>2, <1>4 DEF TypeOK, AcquireSessionLock, env, Locks

LEMMA DrainNextType ==
  ASSUME TypeOK, NEW p \in Procs, DrainNext(p)
  PROVE  TypeOK'
<1> DEFINE r == run[p]
<1>1. r \in Runs /\ left \in Marks /\ chat.version \in Nat /\ 0 \in Marks
  BY DEF TypeOK
<1>2. LatestUnanswered \subseteq Msgs
  BY <1>1, WindowType
<1>3. "stop" \in Steps
  BY DEF Steps, InlineSteps
<1>4. ASSUME NEW m \in LatestUnanswered
      PROVE  [r EXCEPT !.step = "reason", !.hwm = m, !.done = @ \cup {m},
                       !.version = chat.version] \in Runs
  <2>1. m \in Msgs /\ m \in Marks
    BY <1>2
  <2> HIDE DEF r
  <2> QED BY <1>1, <2>1 DEF Runs, InlineSteps
<1>5. run' \in [Procs -> Runs]
  BY <1>3, <1>4, GotoType, BecomesType DEF DrainNext
<1>6. left' \in Marks
  <2>1. \A m \in LatestUnanswered : LeaveUpTo(m) => left' \in Marks
    BY <1>1, <1>2, LeaveType
  <2> QED BY <1>1, <2>1 DEF DrainNext
<1> QED BY <1>5, <1>6 DEF TypeOK, DrainNext, env

LEMMA DrainReasonType ==
  ASSUME TypeOK, NEW p \in Procs, DrainReason(p)
  PROVE  TypeOK'
<1>1. run[p] \in Runs /\ run[p].hwm \in Marks /\ left \in Marks
  BY DEF TypeOK, Runs
<1>2. "stop" \in Steps /\ "send" \in Steps /\ {"response", "infra", "handoff"} \subseteq Outcomes
  BY DEF Steps, InlineSteps, Outcomes
<1>3. \A o \in {"response", "infra", "handoff"} : [run[p] EXCEPT !.step = "send", !.outcome = o] \in Runs
  BY <1>1, <1>2, RunRecords
<1>4. run' \in [Procs -> Runs]
  BY <1>2, <1>3, GotoType, BecomesType DEF DrainReason
<1>5. left' \in Marks
  BY <1>1, LeaveType DEF DrainReason
<1> QED BY <1>4, <1>5 DEF TypeOK, DrainReason, env

LEMMA DrainSendType ==
  ASSUME TypeOK, NEW p \in Procs, DrainSend(p)
  PROVE  TypeOK'
<1>1. run[p].hwm \in Marks /\ left \in Marks /\ thread \in Seq(-N..N)
  BY DEF TypeOK, Runs
<1>2. "stop" \in Steps /\ "escalate" \in Steps /\ "advance" \in Steps
  BY DEF Steps, InlineSteps
<1>3. run' \in [Procs -> Runs]
  BY <1>2, GotoType DEF DrainSend
<1>4. thread' \in Seq(-N..N) /\ left' \in Marks
  BY <1>1, ReplyType, LeaveType DEF DrainSend
<1> QED BY <1>3, <1>4 DEF TypeOK, DrainSend, env

LEMMA EscalateType ==
  ASSUME TypeOK, NEW p \in Procs, Escalate(p)
  PROVE  TypeOK'
<1> DEFINE r == run[p]
<1>1. /\ thread' \in Seq(-N..N) /\ chat' \in Chats
      /\ chat'.status \in Serves \cup {"human"} /\ chat'.version \in Nat
  BY HandoffType DEF Escalate
<1>2. r \in Runs /\ lock \in Locks
  BY DEF TypeOK, Locks
<1>3. /\ [r EXCEPT !.step = "advance", !.status = chat'.status] \in Runs
      /\ [r EXCEPT !.step = "relayed", !.status = chat'.status, !.version = chat'.version] \in Runs
  <2> HIDE DEF r
  <2> QED BY <1>1, <1>2 DEF Runs, InlineSteps, JobSteps
<1>4. run' \in [Procs -> Runs] /\ lock' \in Locks
  <2>1. CASE r.outcome = "handoff"
    BY <1>2, <1>3, <2>1, BecomesType DEF Escalate
  <2>2. CASE r.outcome = "keyword"
    BY <1>2, <1>3, <2>2, BecomesType, RunRecords DEF Escalate
  <2>3. CASE r.outcome \notin {"handoff", "keyword"}
    BY <2>3, EndDrainType DEF Escalate
  <2> QED BY <2>1, <2>2, <2>3
<1> QED BY <1>1, <1>4 DEF TypeOK, Escalate, env, Locks, Chats

LEMMA DrainEndType ==
  ASSUME TypeOK, NEW p \in Procs, DrainAdvance(p) \/ DrainStop(p)
  PROVE  TypeOK'
<1>1. run[p].hwm \in Marks /\ chat \in Chats
  BY DEF TypeOK, Runs, Chats
<1>2. "drain" \in Steps /\ "stop" \in Steps
  BY DEF Steps, InlineSteps
<1>3. CASE DrainAdvance(p)
  <2>1. run' \in [Procs -> Runs]
    BY <1>2, <1>3, GotoType DEF DrainAdvance
  <2>2. chat' \in Chats
    BY <1>1, <1>3, ChatType DEF DrainAdvance
  <2> QED BY <1>3, <2>1, <2>2 DEF TypeOK, DrainAdvance, env, Chats
<1>4. CASE DrainStop(p)
  <2>1. run' \in [Procs -> Runs] /\ lock' \in Locks
    BY <1>4, EndDrainType DEF DrainStop
  <2>2. chat' \in Chats
    BY <1>1, <1>4, ChatType DEF DrainStop
  <2> QED BY <1>4, <2>1, <2>2 DEF TypeOK, DrainStop, env, Locks, Chats
<1> QED BY <1>3, <1>4

LEMMA DrainFailsType ==
  ASSUME TypeOK, NEW p \in Procs, DrainThrows(p) \/ DrainRescue(p)
  PROVE  TypeOK'
<1>1. /\ run[p] \in Runs /\ run[p].hwm \in Marks /\ left \in Marks /\ lock \in Locks
      /\ chat.version \in Nat /\ thread \in Seq(-N..N)
  BY DEF TypeOK, Runs, Locks
<1>2. CASE DrainThrows(p)
  <2>1. "rescue" \in Steps
    BY DEF Steps, InlineSteps
  <2>2. run' \in [Procs -> Runs]
    BY <1>2, <2>1, GotoType DEF DrainThrows
  <2> QED BY <1>2, <2>2 DEF TypeOK, DrainThrows, env
<1>3. CASE DrainRescue(p)
  <2>1. [run[p] EXCEPT !.step = "escalate", !.outcome = "emergency",
                       !.version = chat.version] \in Runs
    BY <1>1 DEF Runs, InlineSteps, Outcomes
  <2>2. run' \in [Procs -> Runs] /\ lock' \in Locks
    BY <1>1, <1>3, <2>1, BecomesType, EndDrainType DEF DrainRescue
  <2>3. thread' \in Seq(-N..N) /\ left' \in Marks
    BY <1>1, <1>3, ReplyType, LeaveType DEF DrainRescue
  <2> QED BY <1>3, <2>2, <2>3 DEF TypeOK, DrainRescue, env, Locks
<1> QED BY <1>2, <1>3

LEMMA ForwardThrowsType ==
  ASSUME TypeOK, NEW p \in Procs, ForwardThrows(p)
  PROVE  TypeOK'
<1>1. jobs' \in [0..MaxRearms -> Nat] /\ left' \in Marks
  BY RearmType DEF ForwardThrows, TypeOK
<1>2. run' \in [Procs -> Runs]
  BY RunRecords, BecomesType DEF ForwardThrows
<1>3. lock' \in Locks
  BY LockType DEF ForwardThrows, TypeOK, Locks
<1> QED BY <1>1, <1>2, <1>3 DEF TypeOK, ForwardThrows, env, Locks

LEMMA JobStallsType ==
  ASSUME TypeOK, NEW p \in Procs, JobStalls(p)
  PROVE  TypeOK'
<1>1. run[p].attempt \in 0..MaxRearms /\ jobs \in [0..MaxRearms -> Nat]
  BY DEF TypeOK, Runs
<1>2. jobs' \in [0..MaxRearms -> Nat]
  BY <1>1, AddedType DEF JobStalls
<1>3. lock \in Locks /\ run \in [Procs -> Runs]
  BY DEF TypeOK, Locks
<1>4. run' \in [Procs -> Runs] /\ lock' \in Locks
  BY <1>3, RunRecords, BecomesType, LockType DEF JobStalls
<1> QED BY <1>2, <1>4 DEF TypeOK, JobStalls, Locks

LEMMA SurroundingsType ==
  ASSUME TypeOK, Surroundings
  PROVE  TypeOK'
<1>1. chat \in Chats
  BY DEF TypeOK, Chats
<1>2. CASE TakeOver \/ HandBack
  <2>1. chat' \in Chats
    BY <1>1, <1>2, ChatType DEF TakeOver, HandBack, Serves
  <2> QED BY <1>2, <2>1 DEF TypeOK, TakeOver, HandBack, Unattended, env, Chats
<1>3. CASE Reactivate
  <2>1. chat' \in Chats
    BY <1>1, <1>3 DEF Reactivate, Chats
  <2> QED BY <1>3, <2>1 DEF TypeOK, Reactivate, Unattended, env, Chats
<1>4. CASE QuietWindowPasses
  BY <1>4 DEF TypeOK, QuietWindowPasses, env
<1>5. CASE LockLapses
  BY <1>5 DEF TypeOK, LockLapses, env
<1>6. CASE ConfigureWebhook
  BY <1>6 DEF TypeOK, ConfigureWebhook, Unattended
<1>7. CASE StateExpires
  BY <1>7 DEF TypeOK, StateExpires, env
<1> QED BY <1>2, <1>3, <1>4, <1>5, <1>6, <1>7 DEF Surroundings

-----------------------------------------------------------------------------
(* The fence.  A process's version is never ahead of the row's; while the   *)
(* two agree, a row the process saw served by the bot is still served by    *)
(* the bot, because every change of ownership moves the version.            *)

SoundIn(r, c) ==
  /\ r.step \in {"schedule", "forward"} => r.hwm \in Msgs
  /\ r.version <= c.version
  /\ r.status \in Serves /\ r.version = c.version => c.status \in Serves
  /\ r.step \in {"reason", "send"} /\ r.version = c.version => c.status \in Serves
  /\ r.step = "canned" => r.status \in Serves

Fresh == chat.version = 0 => chat.status \in Serves

Sound == \A p \in Procs : SoundIn(run[p], chat)

Inv == TypeOK /\ Fresh /\ Sound

\* What a step may do to the row: change the owner only with the version.
Advances(c, d) ==
  /\ c.version <= d.version
  /\ c.version = d.version /\ c.status \in Serves => d.status \in Serves

Watched == {"schedule", "forward", "reason", "send", "canned"}

LEMMA Record ==
  ASSUME TypeOK, NEW p \in Procs, NEW r, Becomes(p, r)
  PROVE  run'[p] = r /\ \A q \in Procs \ {p} : run'[q] = run[q]
BY DEF TypeOK, Becomes

\* A record that only moves to an unwatched step stays sound.
LEMMA QuietSound ==
  ASSUME NEW r \in Runs, NEW c, SoundIn(r, c), NEW s \in Steps \ Watched, NEW o
  PROVE  SoundIn([r EXCEPT !.step = s], c) /\ SoundIn([r EXCEPT !.step = s, !.outcome = o], c)
BY DEF SoundIn, Watched, Runs

LEMMA AdvancedSound ==
  ASSUME NEW r \in Runs, NEW c \in Chats, NEW d \in Chats, SoundIn(r, c), Advances(c, d)
  PROVE  SoundIn(r, d)
BY DEF SoundIn, Advances, Chats, Runs

LEMMA IdleSound ==
  ASSUME NEW c \in Chats, c.version = 0 => c.status \in Serves
  PROVE  SoundIn(Idle, c)
BY DEF SoundIn, Idle, Chats

LEMMA FreshKept ==
  ASSUME TypeOK, TypeOK', Fresh, Advances(chat, chat')
  PROVE  Fresh'
<1>1. chat.version \in Nat /\ chat'.version \in Nat
  BY DEF TypeOK
<1> HIDE DEF TypeOK
<1> QED BY <1>1 DEF Fresh, Advances

\* The operations on the row.
LEMMA RowAdvances ==
  ASSUME TypeOK
  PROVE  /\ UNCHANGED chat => Advances(chat, chat')
         /\ PauseAutoReply => Advances(chat, chat')
         /\ \A r : WaitingToBot(r) => Advances(chat, chat')
         /\ \A r : Finalize(r) => Advances(chat, chat')
         /\ \A m : AdvanceWatermark(m) => Advances(chat, chat')
         /\ BotHandoff => Advances(chat, chat')
<1> USE DEF Advances
<1>1. chat \in Chats
  BY DEF TypeOK, Chats
<1>2. UNCHANGED chat => Advances(chat, chat')
  BY <1>1 DEF Chats
<1>3. PauseAutoReply => Advances(chat, chat')
  BY <1>1 DEF Chats, PauseAutoReply
<1>4. ASSUME NEW r, WaitingToBot(r) PROVE Advances(chat, chat')
  BY <1>1, <1>4 DEF Chats, WaitingToBot, Serves
<1>5. ASSUME NEW r, Finalize(r) PROVE Advances(chat, chat')
  BY <1>1, <1>5 DEF Chats, Finalize
<1>6. ASSUME NEW m, AdvanceWatermark(m) PROVE Advances(chat, chat')
  BY <1>1, <1>6 DEF Chats, AdvanceWatermark
<1>7. BotHandoff => Advances(chat, chat')
  <2>1. chat' = [chat EXCEPT !.status = "human", !.version = @ + 1] => Advances(chat, chat')
    BY <1>1 DEF Chats
  <2>2. BotHandoff => UNCHANGED chat \/ chat' = [chat EXCEPT !.status = "human", !.version = @ + 1]
    BY DEF BotHandoff
  <2> QED BY <1>2, <2>1, <2>2
<1> QED BY <1>2, <1>3, <1>4, <1>5, <1>6, <1>7

\* A step of process p keeps the invariant if it leaves p sound.
LEMMA InvKept ==
  ASSUME Inv, NEW p \in Procs, TypeOK', Advances(chat, chat'),
         \A q \in Procs \ {p} : run'[q] = run[q],
         SoundIn(run'[p], chat')
  PROVE  Inv'
<1>1. Fresh'
  BY FreshKept DEF Inv
<1>2. chat \in Chats /\ chat' \in Chats /\ run \in [Procs -> Runs]
  BY DEF Inv, TypeOK, Chats
<1>3. ASSUME NEW q \in Procs \ {p} PROVE SoundIn(run'[q], chat')
  <2>1. SoundIn(run[q], chat) /\ run[q] \in Runs
    BY <1>2 DEF Inv, Sound
  <2> QED BY <1>2, <2>1, AdvancedSound
<1> QED BY <1>1, <1>3 DEF Inv, Sound

\* The two commonest ends of a step: an idle process, or an unwatched step.
LEMMA InvIdle ==
  ASSUME Inv, NEW p \in Procs, TypeOK', Advances(chat, chat'), Becomes(p, Idle)
  PROVE  Inv'
<1>1. run'[p] = Idle /\ \A q \in Procs \ {p} : run'[q] = run[q]
  BY Record DEF Inv
<1>2. Fresh' /\ chat' \in Chats
  BY FreshKept DEF Inv, TypeOK, Chats
<1>3. SoundIn(Idle, chat')
  BY <1>2, IdleSound DEF Fresh
<1> QED BY <1>1, <1>3, InvKept

LEMMA InvQuiet ==
  ASSUME Inv, NEW p \in Procs, TypeOK', Advances(chat, chat'), NEW s \in Steps \ Watched, NEW o,
         \/ Becomes(p, [run[p] EXCEPT !.step = s])
         \/ Becomes(p, [run[p] EXCEPT !.step = s, !.outcome = o])
  PROVE  Inv'
<1>1. run[p] \in Runs /\ SoundIn(run[p], chat) /\ chat \in Chats /\ chat' \in Chats
  BY DEF Inv, Sound, TypeOK, Chats
<1>2. SoundIn(run[p], chat')
  BY <1>1, AdvancedSound
<1>3. /\ SoundIn([run[p] EXCEPT !.step = s], chat')
      /\ SoundIn([run[p] EXCEPT !.step = s, !.outcome = o], chat')
  BY <1>1, <1>2, QuietSound
<1>4. SoundIn(run'[p], chat') /\ \A q \in Procs \ {p} : run'[q] = run[q]
  BY <1>3, Record DEF Inv
<1> QED BY <1>4, InvKept

LEMMA InvEndForward ==
  ASSUME Inv, NEW p \in Procs, TypeOK', Advances(chat, chat'), EndForward(p)
  PROVE  Inv'
<1>1. "relayed" \in Steps \ Watched
  BY DEF Steps, JobSteps, Watched
<1>2. Becomes(p, Idle) \/ Becomes(p, [run[p] EXCEPT !.step = "relayed"])
  BY DEF EndForward
<1> QED BY <1>1, <1>2, InvIdle, InvQuiet

\* Ingress and the job.
LEMMA IngressInv ==
  ASSUME Inv, NEW p \in Procs,
         (\E k \in Kinds : Ingest(p, k)) \/ Ingress(p) \/ \E a \in 0..MaxRearms : TakeJob(p, a)
  PROVE  Inv'
<1>1. TypeOK'
  BY IngestType, IngressType, TakeJobType DEF Inv
<1>2. UNCHANGED chat
  BY DEF Ingest, Ingress, ScheduleTurn, ScheduleCustomWebhook, ScheduleFails, TakeJob
<1>3. Advances(chat, chat') /\ chat \in Chats
  BY <1>2, RowAdvances DEF Inv, TypeOK, Chats
<1>4. run[p] \in Runs /\ SoundIn(run[p], chat)
  BY DEF Inv, TypeOK, Sound
<1>5. ASSUME NEW k \in Kinds, Ingest(p, k) PROVE Inv'
  <2>1. Len(kind) + 1 \in Msgs
    <3>1. Len(kind) \in Nat
      BY DEF Inv, TypeOK
    <3>2. Len(kind) < N
      BY <1>5 DEF Ingest
    <3> QED BY <3>1, <3>2
  <2>2. run'[p] = [Loaded(Idle) EXCEPT !.step = "schedule", !.path = "inline", !.hwm = Len(kind) + 1]
        /\ \A q \in Procs \ {p} : run'[q] = run[q]
    BY <1>5, Record DEF Inv, Ingest
  <2>3. SoundIn(run'[p], chat)
    BY <1>3, <2>1, <2>2 DEF SoundIn, Loaded, Idle, Chats
  <2> QED BY <1>1, <1>2, <1>3, <2>2, <2>3, InvKept
<1>6. CASE ScheduleTurn(p)
  BY <1>1, <1>3, <1>6, InvIdle DEF ScheduleTurn
<1>7. CASE ScheduleCustomWebhook(p) \/ ScheduleFails(p)
  <2>1. Becomes(p, [run[p] EXCEPT !.step = "forward"]) /\ run[p].step = "schedule"
    BY <1>7 DEF ScheduleCustomWebhook, ScheduleFails, Goto
  <2>2. run'[p] = [run[p] EXCEPT !.step = "forward"] /\ \A q \in Procs \ {p} : run'[q] = run[q]
    BY <2>1, Record DEF Inv
  <2>3. SoundIn(run'[p], chat)
    BY <1>4, <2>1, <2>2 DEF SoundIn, Runs
  <2> QED BY <1>1, <1>2, <1>3, <2>2, <2>3, InvKept
<1>8. ASSUME NEW a \in 0..MaxRearms, TakeJob(p, a) PROVE Inv'
  <2>1. CASE lock = Free
    <3>1. run'[p] = [Idle EXCEPT !.step = "locked", !.path = "job", !.attempt = a]
          /\ \A q \in Procs \ {p} : run'[q] = run[q]
      BY <1>8, <2>1, Record DEF Inv, TakeJob
    <3>2. SoundIn(Idle, chat)
      BY <1>3, IdleSound DEF Inv, Fresh
    <3>3. SoundIn(run'[p], chat)
      BY <3>1, <3>2 DEF SoundIn, Idle
    <3> QED BY <1>1, <1>2, <1>3, <3>1, <3>3, InvKept
  <2>2. CASE lock # Free
    <3>1. run' = run
      BY <1>8, <2>2 DEF TakeJob
    <3> QED BY <1>1, <1>2, <1>3, <1>4, <3>1, InvKept
  <2> QED BY <2>1, <2>2
<1> QED BY <1>5, <1>6, <1>7, <1>8 DEF Ingress

LEMMA JobInv ==
  ASSUME Inv, NEW p \in Procs, Job(p) \/ JobThrows(p)
  PROVE  Inv'
<1>1. TypeOK'
  BY LoadSessionType, PickTurnType, GateTurnType, ThinkType, CheckNewerType, CommitTurnType, HandOffTurnType,
     SettleTurnType, RelayType, JobThrowsType DEF Inv, Job
<1>2. Advances(chat, chat')
  BY RowAdvances DEF Inv, Job, LoadSession, PickTurn, GateTurn, Think, CheckNewer, CommitTurn, HandOffTurn,
     SettleTurn, RelayNext, RelayAdvance, JobThrows
<1>3. run[p] \in Runs /\ SoundIn(run[p], chat) /\ chat \in Chats /\ chat' \in Chats
  BY <1>1 DEF Inv, TypeOK, Sound, Chats
<1>4. SoundIn(run[p], chat')
  BY <1>2, <1>3, AdvancedSound
<1>5. {"loaded", "relay", "turn", "think", "check", "commit", "announce", "settle"} \subseteq Steps \ Watched
  BY DEF Steps, JobSteps, Watched
<1>6. CASE EndJob(p)
  BY <1>1, <1>2, <1>6, InvIdle DEF EndJob
<1>7. CASE LoadSession(p)
  <2>1. run'[p] = [Loaded(run[p]) EXCEPT !.step = "loaded"] /\ \A q \in Procs \ {p} : run'[q] = run[q]
    BY <1>7, Record DEF Inv, LoadSession
  <2>2. SoundIn(run'[p], chat) /\ UNCHANGED chat
    BY <1>3, <1>7, <2>1 DEF SoundIn, Loaded, Runs, Chats, LoadSession
  <2> QED BY <1>1, <1>2, <2>1, <2>2, InvKept
<1>8. CASE PickTurn(p)
  <2>1. ASSUME NEW hwm, Becomes(p, [run[p] EXCEPT !.step = "relay", !.bound = IF last # 0 THEN last ELSE hwm])
                        \/ Becomes(p, [run[p] EXCEPT !.step = "turn", !.hwm = hwm])
        PROVE  SoundIn(run'[p], chat') /\ \A q \in Procs \ {p} : run'[q] = run[q]
    <3>1. run'[p] \in {[run[p] EXCEPT !.step = "relay", !.bound = IF last # 0 THEN last ELSE hwm],
                       [run[p] EXCEPT !.step = "turn", !.hwm = hwm]}
      BY <2>1, Record DEF Inv
    <3>2. \A q \in Procs \ {p} : run'[q] = run[q]
      BY <2>1, Record DEF Inv
    <3>3. ASSUME NEW bound, run'[p] = [run[p] EXCEPT !.step = "relay", !.bound = bound]
          PROVE  SoundIn(run'[p], chat')
      BY <1>3, <1>4, <3>3 DEF SoundIn, Runs
    <3>4. ASSUME run'[p] = [run[p] EXCEPT !.step = "turn", !.hwm = hwm]
          PROVE  SoundIn(run'[p], chat')
      BY <1>3, <1>4, <3>4 DEF SoundIn, Runs
    <3> QED BY <3>1, <3>2, <3>3, <3>4
  <2>2. CASE EndJob(p)
    BY <1>6, <2>2
  <2>3. CASE \E hwm : \/ Becomes(p, [run[p] EXCEPT !.step = "relay", !.bound = IF last # 0 THEN last ELSE hwm])
                     \/ Becomes(p, [run[p] EXCEPT !.step = "turn", !.hwm = hwm])
    <3>1. SoundIn(run'[p], chat') /\ \A q \in Procs \ {p} : run'[q] = run[q]
      BY <2>1, <2>3
    <3> QED BY <1>1, <1>2, <3>1, InvKept
  <2> QED BY <1>8, <2>2, <2>3 DEF PickTurn
<1>9. CASE GateTurn(p)
  BY <1>1, <1>2, <1>5, <1>6, <1>9, InvQuiet DEF GateTurn
<1>10. CASE Think(p)
  BY <1>1, <1>2, <1>5, <1>10, InvQuiet DEF Think
<1>11. CASE CheckNewer(p) \/ CommitTurn(p)
  BY <1>1, <1>2, <1>5, <1>6, <1>11, InvQuiet DEF CheckNewer, CommitTurn, Goto
<1>12. CASE HandOffTurn(p)
  <2>1. run'[p] = [run[p] EXCEPT !.step = "settle", !.status = chat'.status]
        /\ \A q \in Procs \ {p} : run'[q] = run[q]
    BY <1>12, Record DEF Inv, HandOffTurn
  <2>2. SoundIn(run'[p], chat')
    BY <1>3, <1>4, <2>1 DEF SoundIn, Runs
  <2> QED BY <1>1, <1>2, <2>1, <2>2, InvKept
<1>13. CASE SettleTurn(p) \/ JobThrows(p)
  BY <1>6, <1>13 DEF SettleTurn, JobThrows
<1>14. CASE RelayNext(p)
  <2>1. ASSUME NEW m \in Oldest(run[p].mark, run[p].bound),
               Becomes(p, [run[p] EXCEPT !.step = "forward", !.path = "relay", !.hwm = m, !.done = {}])
        PROVE  SoundIn(run'[p], chat') /\ \A q \in Procs \ {p} : run'[q] = run[q]
    <3>1. run'[p] = [run[p] EXCEPT !.step = "forward", !.path = "relay", !.hwm = m, !.done = {}]
          /\ \A q \in Procs \ {p} : run'[q] = run[q]
      BY <2>1, Record DEF Inv
    <3>2. run[p].mark \in Marks /\ run[p].bound \in Marks
      BY <1>3 DEF Runs
    <3>3. m \in Msgs
      BY <3>2, WindowType DEF Inv
    <3> QED BY <1>3, <1>4, <3>1, <3>3 DEF SoundIn, Runs
  <2> QED BY <1>1, <1>2, <1>6, <1>14, <2>1, InvKept DEF RelayNext
<1>15. CASE RelayAdvance(p)
  <2>1. run'[p] = [run[p] EXCEPT !.step = "relay", !.path = "job", !.mark = run[p].hwm]
        /\ \A q \in Procs \ {p} : run'[q] = run[q]
    BY <1>15, Record DEF Inv, RelayAdvance
  <2>2. SoundIn(run'[p], chat')
    BY <1>3, <1>4, <2>1 DEF SoundIn, Runs
  <2> QED BY <1>1, <1>2, <2>1, <2>2, InvKept
<1> QED BY <1>7, <1>8, <1>9, <1>10, <1>11, <1>12, <1>13, <1>14, <1>15 DEF Job

\* The inline path.
LEMMA InlineInv ==
  ASSUME Inv, NEW p \in Procs, Inline(p) \/ DrainThrows(p) \/ ForwardThrows(p)
  PROVE  Inv'
<1>1. run[p] \in Runs /\ SoundIn(run[p], chat) /\ chat \in Chats
  BY DEF Inv, TypeOK, Sound, Chats
<1>2. Forward(p) => run[p].hwm \in Msgs
  BY <1>1 DEF SoundIn, Forward
<1>3. TypeOK'
  BY <1>2, ForwardType, CheckWarningType, WarningType, CannedType, AcquireType, DrainNextType, DrainReasonType,
     DrainSendType, EscalateType, DrainEndType, DrainFailsType, ForwardThrowsType DEF Inv, Inline
<1>4. Advances(chat, chat') /\ chat' \in Chats
  <2>1. chat' \in Chats
    BY <1>3 DEF TypeOK, Chats
  <2>2. Advances(chat, chat')
    BY RowAdvances DEF Inv, Inline, Forward, CheckWarning, ForwardWarning, ForwardCanned, AcquireSessionLock,
       DrainNext, DrainReason, DrainSend, Escalate, DrainAdvance, DrainStop, DrainThrows,
       DrainRescue, ForwardThrows
  <2> QED BY <2>1, <2>2
<1>5. SoundIn(run[p], chat')
  BY <1>1, <1>4, AdvancedSound
<1>6. {"warn", "warning", "acquire", "drain", "stop", "escalate", "advance", "rescue"} \subseteq Steps \ Watched
  BY DEF Steps, InlineSteps, Watched
<1>7. CASE EndForward(p) \/ EndDrain(p)
  BY <1>3, <1>4, <1>7, InvEndForward DEF EndDrain
<1>8. ASSUME NEW s \in Steps \ Watched, Goto(p, s) PROVE Inv'
  BY <1>3, <1>4, <1>8, InvQuiet DEF Goto
<1>9. ASSUME NEW r, Becomes(p, r)
      PROVE  run'[p] = r /\ \A q \in Procs \ {p} : run'[q] = run[q]
  BY <1>9, Record DEF Inv
<1>10. CASE Forward(p)
  <2>1. CASE run[p].status \notin Serves \/ GateRejects(run[p].hwm)
    BY <1>7, <1>10, <2>1 DEF Forward
  <2>2. CASE run[p].status \in Serves /\ ~GateRejects(run[p].hwm)
    <3>1. PICK s \in {"warn", "canned", "acquire"}, o \in {"warn", "keyword", "none"} :
            Becomes(p, [run[p] EXCEPT !.step = s, !.outcome = o])
      BY <1>10, <2>2 DEF Forward
    <3>2. run'[p] = [run[p] EXCEPT !.step = s, !.outcome = o]
          /\ \A q \in Procs \ {p} : run'[q] = run[q]
      BY <3>1, <1>9
    <3>3. SoundIn(run'[p], chat')
      BY <1>1, <1>5, <2>2, <3>1, <3>2 DEF SoundIn, Runs
    <3> QED BY <1>3, <1>4, <3>2, <3>3, InvKept
  <2> QED BY <2>1, <2>2
<1>11. CASE CheckWarning(p) \/ ForwardWarning(p)
  BY <1>6, <1>7, <1>8, <1>11 DEF CheckWarning, ForwardWarning
<1>12. CASE ForwardCanned(p)
  BY <1>6, <1>7, <1>8, <1>12 DEF ForwardCanned
<1>13. CASE AcquireSessionLock(p)
  BY <1>6, <1>7, <1>8, <1>13 DEF AcquireSessionLock
<1>14. CASE DrainNext(p)
  <2>1. ASSUME NEW m \in LatestUnanswered, chat.status \in Serves, UNCHANGED chat,
               Becomes(p, [run[p] EXCEPT !.step = "reason", !.hwm = m, !.done = @ \cup {m},
                                         !.version = chat.version])
        PROVE  Inv'
    <3>1. run'[p] = [run[p] EXCEPT !.step = "reason", !.hwm = m, !.done = @ \cup {m},
                                   !.version = chat.version]
          /\ \A q \in Procs \ {p} : run'[q] = run[q]
      BY <2>1, <1>9
    <3>2. SoundIn(run'[p], chat')
      BY <1>1, <2>1, <3>1 DEF SoundIn, Runs, Chats
    <3> QED BY <1>3, <1>4, <3>1, <3>2, InvKept
  <2> QED BY <1>6, <1>8, <1>14, <2>1 DEF DrainNext
<1>15. CASE DrainReason(p)
  <2>1. ASSUME NEW o \in {"response", "infra", "handoff"}, run[p].step = "reason",
               Becomes(p, [run[p] EXCEPT !.step = "send", !.outcome = o])
        PROVE  Inv'
    <3>1. run'[p] = [run[p] EXCEPT !.step = "send", !.outcome = o]
          /\ \A q \in Procs \ {p} : run'[q] = run[q]
      BY <2>1, <1>9
    <3>2. SoundIn(run'[p], chat')
      BY <1>1, <1>5, <2>1, <3>1 DEF SoundIn, Runs
    <3> QED BY <1>3, <1>4, <3>1, <3>2, InvKept
  <2> QED BY <1>6, <1>8, <1>15, <2>1 DEF DrainReason
<1>16. CASE DrainSend(p)
  BY <1>6, <1>8, <1>16 DEF DrainSend
<1>17. CASE Escalate(p)
  <2>1. CASE run[p].outcome = "handoff"
    <3>1. run'[p] = [run[p] EXCEPT !.step = "advance", !.status = chat'.status]
          /\ \A q \in Procs \ {p} : run'[q] = run[q]
      BY <1>9, <1>17, <2>1 DEF Escalate
    <3>2. SoundIn(run'[p], chat')
      BY <1>1, <1>5, <3>1 DEF SoundIn, Runs
    <3> QED BY <1>3, <1>4, <3>1, <3>2, InvKept
  <2>2. CASE run[p].outcome = "keyword" /\ run[p].path = "relay"
    <3>1. run'[p] = [run[p] EXCEPT !.step = "relayed", !.status = chat'.status,
                                   !.version = chat'.version]
          /\ \A q \in Procs \ {p} : run'[q] = run[q]
      BY <1>9, <1>17, <2>2 DEF Escalate
    <3>2. SoundIn(run'[p], chat')
      BY <1>1, <1>4, <1>5, <3>1 DEF SoundIn, Runs, Chats
    <3> QED BY <1>3, <1>4, <3>1, <3>2, InvKept
  <2>3. CASE run[p].outcome = "keyword" /\ run[p].path # "relay"
    BY <1>3, <1>4, <1>17, <2>3, InvIdle DEF Escalate
  <2>4. CASE run[p].outcome \notin {"handoff", "keyword"}
    BY <1>7, <1>17, <2>4 DEF Escalate
  <2> QED BY <2>1, <2>2, <2>3, <2>4
<1>18. CASE DrainAdvance(p) \/ DrainThrows(p)
  BY <1>6, <1>8, <1>18 DEF DrainAdvance, DrainThrows
<1>19. CASE DrainStop(p)
  BY <1>7, <1>19 DEF DrainStop
<1>20. CASE DrainRescue(p)
  <2>1. CASE chat.status \in Serves
    <3>1. run'[p] = [run[p] EXCEPT !.step = "escalate", !.outcome = "emergency",
                                   !.version = chat.version]
          /\ \A q \in Procs \ {p} : run'[q] = run[q]
      BY <1>9, <1>20, <2>1 DEF DrainRescue
    <3>2. SoundIn(run'[p], chat) /\ UNCHANGED chat
      BY <1>1, <1>20, <2>1, <3>1 DEF SoundIn, Runs, Chats, DrainRescue
    <3> QED BY <1>3, <1>4, <3>1, <3>2, InvKept
  <2>2. CASE chat.status \notin Serves
    BY <1>7, <1>20, <2>2 DEF DrainRescue
  <2> QED BY <2>1, <2>2
<1>21. CASE ForwardThrows(p)
  BY <1>3, <1>4, <1>21, InvIdle DEF ForwardThrows
<1> QED BY <1>10, <1>11, <1>12, <1>13, <1>14, <1>15, <1>16, <1>17, <1>18, <1>19, <1>20, <1>21
        DEF Inline

LEMMA StallInv ==
  ASSUME Inv, NEW p \in Procs, JobStalls(p)
  PROVE  Inv'
<1>1. TypeOK' /\ UNCHANGED chat
  BY JobStallsType DEF Inv, JobStalls
<1>2. Advances(chat, chat') /\ SoundIn(run[p], chat)
  BY <1>1, RowAdvances DEF Inv, Sound
<1>3. CASE run' = run
  BY <1>1, <1>2, <1>3, InvKept
<1>4. CASE Becomes(p, Idle)
  BY <1>1, <1>2, <1>4, InvIdle
<1> QED BY <1>3, <1>4 DEF JobStalls

LEMMA SurroundingsInv ==
  ASSUME Inv, Surroundings
  PROVE  Inv'
<1>1. TypeOK' /\ chat \in Chats /\ run' = run
  BY SurroundingsType DEF Inv, TypeOK, Chats, Surroundings, TakeOver, HandBack, Reactivate,
     QuietWindowPasses, LockLapses, ConfigureWebhook, StateExpires, Unattended
<1>2. Advances(chat, chat')
  <2>1. CASE TakeOver \/ HandBack
    <3>1. chat'.version = chat.version + 1 /\ chat.version \in Nat
      BY <1>1, <2>1 DEF Chats, TakeOver, HandBack
    <3> QED BY <3>1 DEF Advances
  <2>2. CASE Reactivate
    BY <1>1, <2>2 DEF Advances, Chats, Reactivate
  <2>3. CASE UNCHANGED chat
    BY <2>3, RowAdvances DEF Inv
  <2> QED BY <2>1, <2>2, <2>3 DEF Surroundings, QuietWindowPasses, LockLapses, ConfigureWebhook,
             StateExpires
<1>3. chat' \in Chats
  BY <1>1 DEF TypeOK, Chats
<1>4. Fresh'
  BY <1>1, <1>2, FreshKept DEF Inv
<1>5. ASSUME NEW q \in Procs PROVE SoundIn(run'[q], chat')
  <2>1. SoundIn(run[q], chat) /\ run[q] \in Runs
    BY DEF Inv, Sound, TypeOK
  <2> QED BY <1>1, <1>2, <1>3, <2>1, AdvancedSound
<1> QED BY <1>1, <1>4, <1>5 DEF Inv, Sound

LEMMA InvInductive ==
  /\ Init => Inv
  /\ Inv /\ [Next]_vars => Inv'
<1>1. ASSUME Init PROVE Inv
  <2>1. TypeOK
    BY <1>1, InitType
  <2>2. chat \in Chats /\ Fresh
    BY <1>1, <2>1 DEF TypeOK, Chats, Init, Fresh
  <2>3. \A p \in Procs : run[p] = Idle
    BY <1>1 DEF Init
  <2>4. SoundIn(Idle, chat)
    BY <2>2, IdleSound DEF Fresh
  <2> QED BY <2>1, <2>2, <2>3, <2>4 DEF Inv, Sound
<1>2. ASSUME Inv, Next PROVE Inv'
  BY <1>2, IngressInv, JobInv, InlineInv, StallInv, SurroundingsInv DEF Next
<1>3. ASSUME Inv, UNCHANGED vars PROVE Inv'
  BY <1>3 DEF Inv, TypeOK, Fresh, Sound, vars
<1> QED BY <1>1, <1>2, <1>3

\* Every reachable state has the right types (the columns of the session row, the
\* queue, the lock and what each process remembers of them).
THEOREM TypeCorrect == Spec => []TypeOK
<1>1. Inv => TypeOK
  BY DEF Inv
<1> QED BY <1>1, InvInductive, PTL DEF Spec

-----------------------------------------------------------------------------
(* Replies are fenced.                                                     *)

\* A bot message at the end of the thread, and who may have put it there.
SpokenBy(p, t) ==
  t[Len(t)] <= 0 => /\ chat.status \in Serves
                    /\ t[Len(t)] < 0 => run[p].version = chat.version

LEMMA Appended ==
  ASSUME NEW p \in Procs, thread \in Seq(-N..N), NEW x \in Int, thread' = Append(thread, x),
         x <= 0 => chat.status \in Serves,
         x < 0 => run[p].version = chat.version
  PROVE  SpokenBy(p, thread')
<1>1. thread'[Len(thread')] = x
  OBVIOUS
<1> QED BY <1>1 DEF SpokenBy

\* A step of process p changes no other process.
LEMMA OnlyOne ==
  ASSUME TypeOK, NEW p \in Procs,
         \/ \E k \in Kinds : Ingest(p, k)
         \/ \E a \in 0..MaxRearms : TakeJob(p, a)
         \/ Ingress(p) \/ Job(p) \/ Inline(p)
         \/ JobThrows(p) \/ DrainThrows(p) \/ ForwardThrows(p) \/ JobStalls(p)
  PROVE  \A q \in Procs \ {p} : run'[q] = run[q]
<1>1. ASSUME NEW r, Becomes(p, r) PROVE \A q \in Procs \ {p} : run'[q] = run[q]
  BY <1>1, Record
<1>2. CASE \E k \in Kinds : Ingest(p, k)
  BY <1>1, <1>2 DEF Ingest
<1>3. CASE \E a \in 0..MaxRearms : TakeJob(p, a)
  BY <1>1, <1>3 DEF TakeJob
<1>4. CASE Ingress(p)
  BY <1>1, <1>4 DEF Ingress, ScheduleTurn, ScheduleCustomWebhook, ScheduleFails, Goto
<1>5. CASE Job(p)
  BY <1>1, <1>5 DEF Job, LoadSession, PickTurn, GateTurn, Think, CheckNewer, CommitTurn, HandOffTurn,
     SettleTurn, RelayNext, RelayAdvance, Goto, EndJob
<1>6. CASE Inline(p)
  <2>1. CASE Forward(p) \/ CheckWarning(p) \/ ForwardWarning(p) \/ ForwardCanned(p) \/ AcquireSessionLock(p)
    BY <1>1, <2>1 DEF Forward, CheckWarning, ForwardWarning, ForwardCanned, AcquireSessionLock, Goto, EndForward
  <2>2. CASE DrainNext(p) \/ DrainReason(p) \/ DrainSend(p)
    BY <1>1, <2>2 DEF DrainNext, DrainReason, DrainSend, Goto
  <2>3. CASE Escalate(p)
    BY <1>1, <2>3 DEF Escalate, EndDrain, EndForward
  <2>4. CASE DrainAdvance(p) \/ DrainStop(p) \/ DrainRescue(p)
    BY <1>1, <2>4 DEF DrainAdvance, DrainStop, DrainRescue, Goto, EndDrain, EndForward
  <2> QED BY <1>6, <2>1, <2>2, <2>3, <2>4 DEF Inline
<1>7. CASE JobThrows(p) \/ DrainThrows(p) \/ ForwardThrows(p) \/ JobStalls(p)
  BY <1>1, <1>7 DEF JobThrows, DrainThrows, ForwardThrows, JobStalls, Goto, EndJob
<1> QED BY <1>2, <1>3, <1>4, <1>5, <1>6, <1>7

\* What a job adds to the thread.
LEMMA JobSpeaks ==
  ASSUME Inv, HandoffEnabled, NEW p \in Procs, Job(p), thread' # thread
  PROVE  SpokenBy(p, thread')
<1>1. run[p].hwm \in Nat /\ thread \in Seq(-N..N)
  BY DEF Inv, TypeOK, Runs
<1>2. CommitTurn(p) /\ MayFinalize(run[p])
  BY DEF Job, LoadSession, PickTurn, GateTurn, Think, CheckNewer, CommitTurn, HandOffTurn, SettleTurn,
     RelayNext, RelayAdvance, BotHandoff
<1>3. thread' = Append(thread, -run[p].hwm) /\ chat.status \in Serves /\ run[p].version = chat.version
  BY <1>2 DEF CommitTurn, Finalize, MayFinalize
<1> QED BY <1>1, <1>3, Appended

\* What the inline path adds to the thread.
LEMMA InlineSpeaks ==
  ASSUME Inv, HandoffEnabled, NEW p \in Procs, Inline(p), thread' # thread
  PROVE  SpokenBy(p, thread')
<1>1. run[p] \in Runs /\ SoundIn(run[p], chat) /\ thread \in Seq(-N..N) /\ run[p].hwm \in Nat
  <2>1. run[p] \in Runs /\ thread \in Seq(-N..N)
    BY DEF Inv, TypeOK
  <2>2. run[p].hwm \in Nat
    BY <2>1 DEF Runs
  <2> QED BY <2>1, <2>2 DEF Inv, Sound
<1>2. \/ ForwardWarning(p) /\ MayFinalize(run[p])
      \/ ForwardCanned(p) /\ Fenced(run[p])
      \/ DrainSend(p) /\ Fenced(run[p])
      \/ DrainRescue(p) /\ chat.status \in Serves
  BY DEF Inline, Forward, CheckWarning, ForwardWarning, ForwardCanned, AcquireSessionLock, DrainNext,
     DrainReason, DrainSend, Escalate, DrainAdvance, DrainStop, DrainRescue, BotHandoff
<1>3. CASE ForwardWarning(p) /\ MayFinalize(run[p])
  <2>1. thread' = Append(thread, -run[p].hwm) /\ chat.status \in Serves /\ run[p].version = chat.version
    BY <1>3 DEF ForwardWarning, Finalize, MayFinalize
  <2> QED BY <1>1, <2>1, Appended
<1>4. CASE ForwardCanned(p) /\ Fenced(run[p])
  <2>1. thread' = Append(thread, -run[p].hwm) /\ run[p].version = chat.version /\ run[p].step = "canned"
    BY <1>4 DEF ForwardCanned, Fenced
  <2>2. chat.status \in Serves
    BY <1>1, <2>1 DEF SoundIn
  <2> QED BY <1>1, <2>1, <2>2, Appended
<1>5. CASE DrainSend(p) /\ Fenced(run[p])
  <2>1. thread' = Append(thread, -run[p].hwm) /\ run[p].version = chat.version /\ run[p].step = "send"
    BY <1>5 DEF DrainSend, Fenced
  <2>2. chat.status \in Serves
    BY <1>1, <2>1 DEF SoundIn
  <2> QED BY <1>1, <2>1, <2>2, Appended
<1>6. CASE DrainRescue(p) /\ chat.status \in Serves
  <2>1. thread' = Append(thread, 0)
    BY <1>6 DEF DrainRescue
  <2> QED BY <1>1, <1>6, <2>1, Appended
<1> QED BY <1>2, <1>3, <1>4, <1>5, <1>6

\* With handoffs enabled, and whatever fails, the bot speaks only in a session it
\* owns, and never with a reply computed before an ownership change
\* (finalizeReply's predicate, sendBotMessage's fence, the emergency fallback).
THEOREM RepliesFenced ==
  ASSUME HandoffEnabled
  PROVE  Spec => ReplyFenced
<1> DEFINE Fence ==
      \A p \in Procs :
        Len(thread') > Len(thread) /\ thread'[Len(thread')] <= 0 /\ run'[p] # run[p]
          => /\ chat.status \in Serves
             /\ thread'[Len(thread')] < 0 => run[p].version = chat.version
<1>1. ASSUME Inv, Next PROVE Fence
  <2> SUFFICES ASSUME NEW p \in Procs, Len(thread') > Len(thread), thread'[Len(thread')] <= 0,
                      run'[p] # run[p]
               PROVE  /\ chat.status \in Serves
                      /\ thread'[Len(thread')] < 0 => run[p].version = chat.version
    OBVIOUS
  <2>1. thread' # thread
    <3>1. Len(thread) \in Nat
      BY <1>1 DEF Inv, TypeOK
    <3> QED BY <3>1
  <2>2. ~Surroundings
    BY <2>1 DEF Surroundings, TakeOver, HandBack, Reactivate, QuietWindowPasses, LockLapses,
       ConfigureWebhook, StateExpires, Unattended
  <2>3. PICK q \in Procs :
          \/ \E k \in Kinds : Ingest(q, k)
          \/ \E a \in 0..MaxRearms : TakeJob(q, a)
          \/ Ingress(q) \/ Job(q) \/ Inline(q)
          \/ JobThrows(q) \/ DrainThrows(q) \/ ForwardThrows(q) \/ JobStalls(q)
    BY <1>1, <2>2 DEF Next
  <2>4. p = q
    BY <1>1, <2>3, OnlyOne DEF Inv
  <2>5. CASE \E k \in Kinds : Ingest(q, k)
    <3>1. thread \in Seq(-N..N) /\ Len(kind) \in Nat
      BY <1>1 DEF Inv, TypeOK
    <3>2. thread' = Append(thread, Len(kind) + 1)
      BY <2>5 DEF Ingest
    <3>3. thread'[Len(thread')] = Len(kind) + 1
      BY <3>1, <3>2
    <3> QED BY <3>1, <3>3
  <2>6. CASE Job(q)
    BY <1>1, <2>1, <2>4, <2>6, JobSpeaks DEF SpokenBy
  <2>7. CASE Inline(q)
    BY <1>1, <2>1, <2>4, <2>7, InlineSpeaks DEF SpokenBy
  <2>8. CASE \/ \E a \in 0..MaxRearms : TakeJob(q, a)
             \/ Ingress(q) \/ JobThrows(q) \/ DrainThrows(q) \/ ForwardThrows(q) \/ JobStalls(q)
    BY <2>1, <2>8 DEF TakeJob, Ingress, ScheduleTurn, ScheduleCustomWebhook, ScheduleFails,
       JobThrows, DrainThrows, ForwardThrows, JobStalls
  <2> QED BY <2>3, <2>5, <2>6, <2>7, <2>8
<1>2. Inv /\ [Next]_vars => [Fence]_vars
  BY <1>1
<1> QED BY <1>2, InvInductive, PTL DEF Spec, ReplyFenced

-----------------------------------------------------------------------------
(* The coalesced path answers no message twice.  While neither scheduling   *)
(* fails nor a custom webhook appears, every process is an ingress request  *)
(* or a job, replies are written by finalizeReply alone, and the watermark  *)
(* stands at or above every reply: the lock is not needed for it.           *)

CoalescedSteps == {"idle", "schedule", "locked", "loaded", "turn", "think", "check", "commit",
                   "announce", "settle"}

Coalesced == ~webhook /\ \A p \in Procs : run[p].step \in CoalescedSteps

MarkCovers == \A i \in DOMAIN thread : thread[i] < 0 => -thread[i] <= chat.mark

OnceInv == Inv /\ Coalesced /\ MarkCovers /\ NeverAnsweredTwice

\* Appending a message, a bot message that answers none, or a reply above the
\* watermark.
LEMMA AppendOnce ==
  ASSUME thread \in Seq(-N..N), MarkCovers, NeverAnsweredTwice, chat.mark \in Nat,
         NEW x \in Int, thread' = Append(thread, x),
         x < 0 => chat.mark < -x,
         chat'.mark \in Nat, chat.mark <= chat'.mark, x < 0 => -x <= chat'.mark
  PROVE  MarkCovers' /\ NeverAnsweredTwice'
<1> DEFINE n == Len(thread)
<1>1. n \in Nat /\ DOMAIN thread = 1..n
  OBVIOUS
<1>2. DOMAIN thread' = 1..(n + 1) /\ thread'[n + 1] = x /\ \A i \in 1..n : thread'[i] = thread[i]
  OBVIOUS
<1>3. \A i \in 1..n : thread[i] \in Int
  OBVIOUS
<1> HIDE DEF n
<1>4. \A i \in 1..n : thread[i] < 0 => -thread[i] <= chat.mark
  BY <1>1 DEF MarkCovers
<1>5. MarkCovers'
  <2> SUFFICES ASSUME NEW i \in 1..(n + 1), thread'[i] < 0 PROVE -thread'[i] <= chat'.mark
    BY <1>2 DEF MarkCovers
  <2>1. CASE i = n + 1
    BY <1>2, <2>1
  <2>2. CASE i \in 1..n
    <3>1. thread'[i] = thread[i] /\ thread[i] \in Int
      BY <1>2, <1>3, <2>2
    <3>2. -thread[i] <= chat.mark /\ -thread[i] \in Int
      BY <1>4, <2>2, <3>1
    <3> QED BY <3>1, <3>2
  <2> QED BY <1>1, <2>1, <2>2
<1>6. \A i \in 1..n : x < 0 => thread[i] # x
  <2> SUFFICES ASSUME NEW i \in 1..n, x < 0, thread[i] = x PROVE FALSE
    OBVIOUS
  <2>1. -x <= chat.mark /\ chat.mark < -x
    BY <1>4
  <2> QED BY <2>1
<1>7. NeverAnsweredTwice'
  <2> SUFFICES ASSUME NEW i \in 1..(n + 1), NEW j \in 1..(n + 1), thread'[i] < 0,
                      thread'[i] = thread'[j]
               PROVE  i = j
    BY <1>2 DEF NeverAnsweredTwice
  <2>1. CASE i \in 1..n /\ j \in 1..n
    BY <1>1, <1>2, <2>1 DEF NeverAnsweredTwice
  <2>2. CASE i = n + 1 /\ j \in 1..n
    BY <1>2, <1>6, <2>2
  <2>3. CASE i \in 1..n /\ j = n + 1
    BY <1>2, <1>6, <2>3
  <2> QED BY <1>1, <2>1, <2>2, <2>3
<1> QED BY <1>5, <1>7

\* Steps that write nothing to the thread and never move the watermark.
LEMMA SilentOnce ==
  ASSUME MarkCovers, NeverAnsweredTwice, UNCHANGED thread, chat'.mark = chat.mark
  PROVE  MarkCovers' /\ NeverAnsweredTwice'
BY DEF MarkCovers, NeverAnsweredTwice

\* The next step of a process of the coalesced path is coalesced again.
LEMMA CoalescedStep ==
  ASSUME OnceInv, {"schedule", "webhook"} \cap Faults = {}, NEW p \in Procs,
         \/ \E k \in Kinds : Ingest(p, k)
         \/ \E a \in 0..MaxRearms : TakeJob(p, a)
         \/ Ingress(p) \/ Job(p) \/ Inline(p)
         \/ JobThrows(p) \/ DrainThrows(p) \/ ForwardThrows(p) \/ JobStalls(p)
  PROVE  /\ Coalesced'
         /\ ~Inline(p) /\ ~DrainThrows(p) /\ ~ForwardThrows(p)
         /\ ~RelayNext(p) /\ ~RelayAdvance(p)
<1>1. run \in [Procs -> Runs] /\ run[p] \in Runs /\ run[p].step \in CoalescedSteps /\ ~webhook
  BY DEF OnceInv, Coalesced, Inv, TypeOK
<1>2. ~Inline(p) /\ ~DrainThrows(p) /\ ~ForwardThrows(p) /\ ~RelayNext(p) /\ ~RelayAdvance(p)
  BY <1>1 DEF CoalescedSteps, Inline, Forward, CheckWarning, ForwardWarning, ForwardCanned, AcquireSessionLock,
     DrainNext, DrainReason, DrainSend, Escalate, DrainAdvance, DrainStop, DrainRescue,
     DrainThrows, ForwardThrows, RelayNext, RelayAdvance
<1>3. ~ScheduleCustomWebhook(p) /\ ~ScheduleFails(p)
  BY <1>1 DEF ScheduleCustomWebhook, ScheduleFails
<1>4. ASSUME NEW r, Becomes(p, r) PROVE run'[p] = r
  BY <1>4, Record DEF OnceInv, Inv
<1>5. run'[p].step \in CoalescedSteps
  <2>1. CASE Becomes(p, Idle)
    BY <1>4, <2>1 DEF Idle, CoalescedSteps
  <2>2. CASE run' = run
    BY <1>1, <2>2
  <2>3. CASE \E k \in Kinds : Ingest(p, k)
    <3>1. run'[p] = [Loaded(Idle) EXCEPT !.step = "schedule", !.path = "inline", !.hwm = Len(kind) + 1]
      BY <1>4, <2>3 DEF Ingest
    <3> QED BY <3>1 DEF Loaded, Idle, CoalescedSteps
  <2>4. CASE \E a \in 0..MaxRearms : TakeJob(p, a)
    <3>1. \A a : Becomes(p, [Idle EXCEPT !.step = "locked", !.path = "job", !.attempt = a])
                   => run'[p].step = "locked"
      BY <1>4 DEF Idle
    <3> QED BY <2>2, <2>4, <3>1 DEF TakeJob, CoalescedSteps
  <2>5. CASE ScheduleTurn(p) \/ JobThrows(p) \/ SettleTurn(p)
    BY <2>1, <2>5 DEF ScheduleTurn, JobThrows, SettleTurn, EndJob
  <2>6. CASE JobStalls(p)
    BY <2>1, <2>2, <2>6 DEF JobStalls
  <2>7. CASE LoadSession(p)
    <3>1. run'[p] = [Loaded(run[p]) EXCEPT !.step = "loaded"]
      BY <1>4, <2>7 DEF LoadSession
    <3> QED BY <1>1, <3>1 DEF Loaded, Runs, CoalescedSteps
  <2>8. CASE PickTurn(p)
    <3>1. \A hwm : Becomes(p, [run[p] EXCEPT !.step = "turn", !.hwm = hwm]) => run'[p].step = "turn"
      BY <1>1, <1>4 DEF Runs
    <3> QED BY <1>1, <2>1, <2>8, <3>1 DEF PickTurn, EndJob, CoalescedSteps
  <2>9. CASE GateTurn(p) \/ Think(p)
    <3>1. \A s, o : Becomes(p, [run[p] EXCEPT !.step = s, !.outcome = o]) => run'[p].step = s
      BY <1>1, <1>4 DEF Runs
    <3> QED BY <2>1, <2>9, <3>1 DEF GateTurn, Think, EndJob, CoalescedSteps
  <2>10. CASE CheckNewer(p) \/ CommitTurn(p)
    <3>1. \A s : Goto(p, s) => run'[p].step = s
      BY <1>1, <1>4 DEF Goto, Runs
    <3> QED BY <2>1, <2>10, <3>1 DEF CheckNewer, CommitTurn, EndJob, CoalescedSteps
  <2>11. CASE HandOffTurn(p)
    <3>1. run'[p] = [run[p] EXCEPT !.step = "settle", !.status = chat'.status]
      BY <1>4, <2>11 DEF HandOffTurn
    <3> QED BY <1>1, <3>1 DEF Runs, CoalescedSteps
  <2> QED BY <1>2, <1>3, <2>3, <2>4, <2>5, <2>6, <2>7, <2>8, <2>9, <2>10, <2>11 DEF Ingress, Job
<1>6. ~webhook'
  BY <1>1, <1>2, <1>3 DEF Ingest, TakeJob, Ingress, ScheduleTurn, Job, LoadSession, PickTurn,
     GateTurn, Think, CheckNewer, CommitTurn, HandOffTurn, SettleTurn, JobThrows, JobStalls, env
<1>7. \A q \in Procs \ {p} : run'[q] = run[q]
  BY OnlyOne DEF OnceInv, Inv
<1> QED BY <1>2, <1>5, <1>6, <1>7 DEF OnceInv, Coalesced

LEMMA OnceInductive ==
  ASSUME {"schedule", "webhook"} \cap Faults = {}
  PROVE  (Init => OnceInv) /\ (OnceInv /\ [Next]_vars => OnceInv')
<1>1. Init => OnceInv
  BY InvInductive DEF Init, OnceInv, Coalesced, CoalescedSteps, MarkCovers, NeverAnsweredTwice, Idle
<1>2. ASSUME OnceInv, [Next]_vars PROVE OnceInv'
  <2>1. Inv' /\ Inv
    BY <1>2, InvInductive DEF OnceInv
  <2>2. /\ thread \in Seq(-N..N) /\ chat \in Chats /\ chat' \in Chats /\ run \in [Procs -> Runs]
        /\ chat.mark \in Nat /\ chat'.mark \in Nat /\ MarkCovers /\ NeverAnsweredTwice
    BY <1>2, <2>1 DEF OnceInv, Inv, TypeOK, Chats
  <2>3. CASE UNCHANGED thread /\ chat'.mark = chat.mark /\ Coalesced'
    BY <2>1, <2>2, <2>3, SilentOnce DEF OnceInv
  <2>4. CASE UNCHANGED vars
    BY <1>2, <2>3, <2>4 DEF vars, OnceInv, Coalesced
  <2>5. CASE Surroundings
    <3>1. UNCHANGED thread /\ run' = run /\ webhook' = webhook
      BY <1>2, <2>5 DEF Surroundings, TakeOver, HandBack, Reactivate, QuietWindowPasses, LockLapses,
         ConfigureWebhook, StateExpires, Unattended, env
    <3>2. chat'.mark = chat.mark
      BY <2>2, <2>5 DEF Surroundings, TakeOver, HandBack, Reactivate, QuietWindowPasses, LockLapses,
         ConfigureWebhook, StateExpires, Chats
    <3> QED BY <1>2, <2>3, <3>1, <3>2 DEF OnceInv, Coalesced
  <2>6. ASSUME NEW p \in Procs,
               \/ \E k \in Kinds : Ingest(p, k)
               \/ \E a \in 0..MaxRearms : TakeJob(p, a)
               \/ Ingress(p) \/ Job(p) \/ Inline(p)
               \/ JobThrows(p) \/ DrainThrows(p) \/ ForwardThrows(p) \/ JobStalls(p)
        PROVE  OnceInv'
    <3>1. /\ Coalesced'
          /\ ~Inline(p) /\ ~DrainThrows(p) /\ ~ForwardThrows(p) /\ ~RelayNext(p) /\ ~RelayAdvance(p)
      BY <1>2, <2>6, CoalescedStep
    <3>2. run[p] \in Runs /\ run[p].hwm \in Nat /\ run[p].hwm \in 0..N /\ Len(kind) \in Nat
      <4>1. run[p] \in Runs /\ Len(kind) \in Nat
        BY <2>1 DEF Inv, TypeOK
      <4> QED BY <4>1 DEF Runs
    <3>3. CASE \E k \in Kinds : Ingest(p, k)
      <4>1. thread' = Append(thread, Len(kind) + 1) /\ chat' = chat
        BY <3>3 DEF Ingest
      <4>2. MarkCovers' /\ NeverAnsweredTwice'
        BY <2>2, <3>2, <4>1, AppendOnce
      <4> QED BY <2>1, <3>1, <4>2 DEF OnceInv
    <3>4. CASE CommitTurn(p) /\ MayFinalize(run[p])
      <4>1. thread' = Append(thread, -run[p].hwm) /\ chat'.mark = run[p].hwm /\ chat.mark < run[p].hwm
        BY <2>2, <3>4 DEF CommitTurn, Finalize, MayFinalize, Chats
      <4>2. MarkCovers' /\ NeverAnsweredTwice'
        BY <2>2, <3>2, <4>1, AppendOnce
      <4> QED BY <2>1, <3>1, <4>2 DEF OnceInv
    <3>5. CASE HandOffTurn(p)
      <4>1. chat'.mark = chat.mark
        BY <2>2, <3>5 DEF HandOffTurn, BotHandoff, Chats
      <4>2. thread' \in {thread, Append(thread, 0)}
        BY <3>5 DEF HandOffTurn, BotHandoff
      <4>3. CASE thread' = thread
        BY <2>3, <3>1, <4>1, <4>3
      <4>4. CASE thread' = Append(thread, 0)
        <5>1. MarkCovers' /\ NeverAnsweredTwice'
          BY <2>2, <4>1, <4>4, AppendOnce
        <5> QED BY <2>1, <3>1, <5>1 DEF OnceInv
      <4> QED BY <4>2, <4>3, <4>4
    <3>6. CASE SettleTurn(p)
      <4>1. chat'.mark = chat.mark /\ UNCHANGED thread
        BY <2>2, <3>6 DEF SettleTurn, WaitingToBot, Chats
      <4> QED BY <2>3, <3>1, <4>1
    <3>7. CASE GateTurn(p)
      <4>1. chat'.mark = chat.mark /\ UNCHANGED thread
        BY <2>2, <3>7 DEF GateTurn, PauseAutoReply, Chats
      <4> QED BY <2>3, <3>1, <4>1
    <3>8. CASE UNCHANGED <<thread, chat>>
      BY <2>3, <3>1, <3>8
    <3> QED BY <2>6, <3>1, <3>3, <3>4, <3>5, <3>6, <3>7, <3>8
            DEF Ingress, Job, ScheduleTurn, ScheduleCustomWebhook, ScheduleFails, TakeJob,
                LoadSession, PickTurn, Think, CheckNewer, CommitTurn, JobThrows, JobStalls
  <2> QED BY <1>2, <2>4, <2>5, <2>6 DEF Next
<1> QED BY <1>1, <1>2

\* On the coalesced path no message is the live turn of two replies: whatever
\* happens to the lock, to Bull's deliveries and to the workers, finalizeReply's
\* comparison with the watermark is enough.
THEOREM CoalescedOnce ==
  ASSUME {"schedule", "webhook"} \cap Faults = {}
  PROVE  Spec => []NeverAnsweredTwice
<1>1. Init => OnceInv
  BY OnceInductive
<1>2. OnceInv /\ [Next]_vars => OnceInv'
  BY OnceInductive
<1>3. OnceInv => NeverAnsweredTwice
  BY DEF OnceInv
<1> QED BY <1>1, <1>2, <1>3, PTL DEF Spec
-----------------------------------------------------------------------------
(* The coalesced path stays behind the row: no run's watermark is ahead of  *)
(* the row's, and neither the row's nor a live turn is ahead of the thread. *)

BehindIn(r, ks, mark) ==
  /\ r.mark <= mark
  /\ r.step \in {"turn", "think", "check", "commit"} => r.hwm <= Len(ks)

BehindInv ==
  /\ OnceInv
  /\ chat.mark <= Len(kind)
  /\ \A p \in Procs : BehindIn(run[p], kind, chat.mark)

LEMMA TypeFacts ==
  TypeOK => /\ kind \in Seq(Kinds) /\ Len(kind) \in Nat /\ run \in [Procs -> Runs]
            /\ chat \in Chats /\ chat.mark \in Nat
<1> SUFFICES ASSUME TypeOK
             PROVE  /\ kind \in Seq(Kinds) /\ Len(kind) \in Nat /\ run \in [Procs -> Runs]
                    /\ chat \in Chats /\ chat.mark \in Nat
  OBVIOUS
<1>1. kind \in Seq(Kinds) /\ run \in [Procs -> Runs] /\ chat \in Chats
  BY DEF TypeOK, Chats
<1>2. Len(kind) \in Nat
  BY <1>1
<1>3. chat.mark \in Nat
  BY <1>1 DEF Chats
<1> QED BY <1>1, <1>2, <1>3

\* A step that adds at most one message.
LEMMA Grown ==
  ASSUME kind \in Seq(Kinds), kind' = kind \/ \E k \in Kinds : kind' = Append(kind, k)
  PROVE  /\ Len(kind) \in Nat /\ Len(kind') \in Nat /\ Len(kind) <= Len(kind')
         /\ \A m \in 1..Len(kind) : kind'[m] = kind[m]
<1>1. Len(kind) \in Nat
  OBVIOUS
<1>2. CASE kind' = kind
  BY <1>1, <1>2
<1>3. ASSUME NEW k \in Kinds, kind' = Append(kind, k)
      PROVE  Len(kind') = Len(kind) + 1 /\ \A m \in 1..Len(kind) : kind'[m] = kind[m]
  BY <1>3
<1> QED BY <1>1, <1>2, <1>3

\* More messages and a higher watermark disturb no run.
LEMMA BehindKept ==
  ASSUME TypeOK, TypeOK', NEW r \in Runs, BehindIn(r, kind, chat.mark),
         kind' = kind \/ \E k \in Kinds : kind' = Append(kind, k), chat.mark <= chat'.mark
  PROVE  BehindIn(r, kind', chat'.mark)
<1>1. /\ Len(kind) \in Nat /\ Len(kind') \in Nat /\ Len(kind) <= Len(kind')
      /\ \A m \in 1..Len(kind) : kind'[m] = kind[m]
  BY Grown DEF TypeOK
<1>2. r.mark \in Nat /\ r.hwm \in Nat /\ chat.mark \in Nat /\ chat'.mark \in Nat
  BY DEF TypeOK, Runs
<1> QED BY <1>1, <1>2 DEF BehindIn

\* A run at a step before or after the ones it vets for.
LEMMA BehindElsewhere ==
  ASSUME NEW r, r.step \notin {"turn", "think", "check", "commit"}, NEW ks, NEW mark, r.mark <= mark
  PROVE  BehindIn(r, ks, mark)
BY DEF BehindIn

\* What a step leaves of the columns the invariant reads, and of the runs of the
\* other processes.
LEMMA BehindStep ==
  ASSUME BehindInv, OnceInv', NEW p \in Procs,
         \A q \in Procs \ {p} : run'[q] = run[q],
         kind' = kind \/ \E k \in Kinds : kind' = Append(kind, k),
         chat'.mark = chat.mark, BehindIn(run'[p], kind', chat'.mark)
  PROVE  BehindInv'
<1>1. TypeOK /\ TypeOK'
  BY DEF BehindInv, OnceInv, Inv
<1>2. /\ Len(kind) \in Nat /\ Len(kind') \in Nat /\ Len(kind) <= Len(kind')
      /\ \A m \in 1..Len(kind) : kind'[m] = kind[m]
      /\ chat.mark \in Nat /\ run \in [Procs -> Runs]
  BY <1>1, Grown, TypeFacts
<1>3. chat'.mark <= Len(kind')
  BY <1>2 DEF BehindInv
<1>5. ASSUME NEW q \in Procs \ {p} PROVE BehindIn(run'[q], kind', chat'.mark)
  <2>1. run[q] \in Runs /\ BehindIn(run[q], kind, chat.mark) /\ run'[q] = run[q]
    BY <1>2 DEF BehindInv
  <2>2. chat.mark <= chat'.mark
    BY <1>2
  <2> QED BY <1>1, <2>1, <2>2, BehindKept
<1> QED BY <1>3, <1>5 DEF BehindInv

\* The commit moves the watermark to the live turn.
LEMMA BehindCommit ==
  ASSUME BehindInv, OnceInv', NEW p \in Procs, CommitTurn(p), MayFinalize(run[p])
  PROVE  BehindInv'
<1>1. TypeOK /\ TypeOK' /\ run \in [Procs -> Runs] /\ run[p] \in Runs /\ chat \in Chats
  BY DEF BehindInv, OnceInv, Inv, TypeOK, Chats
<1>2. /\ Len(kind) \in Nat /\ chat.mark \in Nat /\ run[p].mark \in Nat /\ run[p].hwm \in Nat
  BY <1>1 DEF TypeOK, Runs
<1>3. /\ run[p].step = "commit" /\ chat'.mark = run[p].hwm /\ chat.mark < run[p].hwm
      /\ kind' = kind
      /\ Goto(p, "announce") \/ Goto(p, "settle")
  BY <1>1 DEF CommitTurn, Finalize, MayFinalize, Chats
<1>4. BehindIn(run[p], kind, chat.mark)
  BY DEF BehindInv
<1>5. run[p].hwm <= Len(kind) /\ run[p].mark <= chat.mark
  BY <1>3, <1>4 DEF BehindIn
<1>7. chat'.mark <= Len(kind')
  BY <1>3, <1>5
<1>8. /\ run'[p].step \in {"announce", "settle"} /\ run'[p].mark = run[p].mark
      /\ \A q \in Procs \ {p} : run'[q] = run[q]
  BY <1>1, <1>3 DEF Goto, Becomes, Runs
<1>9. run'[p].mark <= chat'.mark /\ chat.mark <= chat'.mark
  BY <1>2, <1>3, <1>5, <1>8
<1>10. BehindIn(run'[p], kind', chat'.mark)
  BY <1>8, <1>9, BehindElsewhere
<1>11. ASSUME NEW q \in Procs \ {p} PROVE BehindIn(run'[q], kind', chat'.mark)
  <2>1. run[q] \in Runs /\ BehindIn(run[q], kind, chat.mark) /\ run'[q] = run[q]
    BY <1>1, <1>8 DEF BehindInv
  <2> QED BY <1>1, <1>3, <1>9, <2>1, BehindKept
<1> QED BY <1>7, <1>10, <1>11 DEF BehindInv

\* The job's steps: what the run's record becomes.
LEMMA BehindJob ==
  ASSUME BehindInv, OnceInv', NEW p \in Procs,
         \/ LoadSession(p) \/ PickTurn(p) \/ GateTurn(p) \/ Think(p) \/ HandOffTurn(p)
         \/ CheckNewer(p) /\ Goto(p, "commit")
  PROVE  BehindIn(run'[p], kind', chat.mark)
<1>1. /\ TypeOK /\ run[p] \in Runs /\ chat.mark \in Nat /\ Len(kind) \in Nat
      /\ run[p].mark \in Nat /\ run[p].hwm \in Nat /\ ~webhook
  <2>1. TypeOK /\ ~webhook
    BY DEF BehindInv, OnceInv, Inv, Coalesced
  <2>2. run[p] \in Runs /\ chat.mark \in Nat /\ Len(kind) \in Nat
    BY <2>1 DEF TypeOK
  <2>3. run[p].mark \in Nat /\ run[p].hwm \in Nat
    BY <2>2 DEF Runs
  <2> QED BY <2>1, <2>2, <2>3
<1>2. BehindIn(run[p], kind, chat.mark) /\ run[p].mark <= chat.mark
  BY DEF BehindInv, BehindIn
<1>3. ASSUME NEW r, Becomes(p, r) PROVE run'[p] = r
  BY <1>1, <1>3, Record
<1>4. CASE Becomes(p, Idle)
  <2>1. run'[p].step = "idle" /\ run'[p].mark = 0
    BY <1>3, <1>4 DEF Idle
  <2> QED BY <1>1, <2>1, BehindElsewhere
<1>5. CASE LoadSession(p)
  <2>1. run'[p] = [Loaded(run[p]) EXCEPT !.step = "loaded"]
    BY <1>3, <1>5 DEF LoadSession
  <2>2. run'[p].step = "loaded" /\ run'[p].mark = chat.mark
    BY <1>1, <2>1 DEF Loaded, Runs
  <2> QED BY <1>1, <2>2, BehindElsewhere
<1>6. CASE PickTurn(p)
  <2>1. ASSUME NEW hwm \in Newest(run[p].mark), Becomes(p, [run[p] EXCEPT !.step = "turn", !.hwm = hwm])
        PROVE  BehindIn(run'[p], kind, chat.mark)
    <3>1. hwm \in 1..Len(kind)
      BY <2>1 DEF Newest, Window, Arrived
    <3>2. run'[p].step = "turn" /\ run'[p].hwm = hwm /\ run'[p].mark = run[p].mark
      BY <1>1, <1>3, <2>1 DEF Runs
    <3> QED BY <1>2, <3>1, <3>2 DEF BehindIn
  <2> QED BY <1>1, <1>4, <1>6, <2>1 DEF PickTurn, EndJob
<1>7. ASSUME NEW s, NEW o, Becomes(p, [run[p] EXCEPT !.step = s, !.outcome = o]),
             run[p].step \in {"turn", "think"}, UNCHANGED kind
      PROVE  BehindIn(run'[p], kind', chat.mark)
  <2>1. run'[p].hwm = run[p].hwm /\ run'[p].mark = run[p].mark
    BY <1>1, <1>3, <1>7 DEF Runs
  <2> QED BY <1>2, <1>7, <2>1 DEF BehindIn
<1>8. CASE GateTurn(p) \/ Think(p)
  BY <1>4, <1>7, <1>8 DEF GateTurn, Think, EndJob
<1>9. CASE HandOffTurn(p)
  <2>1. run'[p] = [run[p] EXCEPT !.step = "settle", !.status = chat'.status]
    BY <1>3, <1>9 DEF HandOffTurn
  <2>2. run'[p].step = "settle" /\ run'[p].mark = run[p].mark
    BY <1>1, <2>1 DEF Runs
  <2> QED BY <1>2, <2>2, BehindElsewhere
<1>10. CASE CheckNewer(p) /\ Goto(p, "commit")
  <2>1. run'[p] = [run[p] EXCEPT !.step = "commit"] /\ run[p].step = "check"
    BY <1>3, <1>10 DEF Goto, CheckNewer
  <2>2. run'[p].hwm = run[p].hwm /\ run'[p].mark = run[p].mark
    BY <1>1, <2>1 DEF Runs
  <2>3. kind' = kind
    BY <1>10 DEF CheckNewer
  <2> QED BY <1>2, <2>1, <2>2, <2>3 DEF BehindIn
<1>11. PickTurn(p) \/ LoadSession(p) \/ HandOffTurn(p) \/ GateTurn(p) => kind' = kind
  BY DEF PickTurn, LoadSession, HandOffTurn, GateTurn
<1> QED BY <1>5, <1>6, <1>8, <1>9, <1>10, <1>11

\* Every step of the coalesced path keeps the runs behind the row.
LEMMA BehindInductive ==
  ASSUME {"schedule", "webhook"} \cap Faults = {}
  PROVE  /\ Init => BehindInv
         /\ BehindInv /\ [Next]_vars => BehindInv'
<1>1. Init => BehindInv
  <2> SUFFICES ASSUME Init PROVE BehindInv
    OBVIOUS
  <2>1. OnceInv
    BY OnceInductive
  <2>2. kind = <<>> /\ Len(kind) = 0 /\ chat.mark = 0
    BY DEF Init
  <2>3. \A p \in Procs : run[p].step = "idle" /\ run[p].mark = 0
    BY DEF Init, Idle
  <2>4. \A p \in Procs : BehindIn(run[p], kind, chat.mark)
    BY <2>2, <2>3, BehindElsewhere
  <2> QED BY <2>1, <2>2, <2>4 DEF BehindInv
<1>2. ASSUME BehindInv, [Next]_vars PROVE BehindInv'
  <2>1. OnceInv /\ OnceInv'
    BY <1>2, OnceInductive DEF BehindInv
  <2>2. /\ TypeOK /\ TypeOK' /\ chat \in Chats /\ run \in [Procs -> Runs]
        /\ chat.mark \in Nat /\ Len(kind) \in Nat
    <3>1. TypeOK /\ TypeOK'
      BY <2>1 DEF OnceInv, Inv
    <3> QED BY <3>1, TypeFacts
  <2>3. CASE UNCHANGED <<run, kind>> /\ chat'.mark = chat.mark
    BY <1>2, <2>1, <2>3 DEF BehindInv
  <2>4. CASE UNCHANGED vars
    BY <2>3, <2>4 DEF vars
  <2>5. CASE Surroundings
    <3>1. UNCHANGED <<run, kind>>
      BY <2>5 DEF Surroundings, TakeOver, HandBack, Reactivate, QuietWindowPasses, LockLapses,
         ConfigureWebhook, StateExpires, Unattended
    <3>2. chat'.mark = chat.mark
      BY <2>2, <2>5 DEF Surroundings, TakeOver, HandBack, Reactivate, QuietWindowPasses, LockLapses,
         ConfigureWebhook, StateExpires, Chats
    <3> QED BY <2>3, <3>1, <3>2
  <2>6. ASSUME NEW p \in Procs,
               \/ \E k \in Kinds : Ingest(p, k)
               \/ \E a \in 0..MaxRearms : TakeJob(p, a)
               \/ Ingress(p) \/ Job(p) \/ Inline(p)
               \/ JobThrows(p) \/ DrainThrows(p) \/ ForwardThrows(p) \/ JobStalls(p)
        PROVE  BehindInv'
    <3>1. ~Inline(p) /\ ~DrainThrows(p) /\ ~ForwardThrows(p) /\ ~RelayNext(p) /\ ~RelayAdvance(p)
      BY <2>1, <2>6, CoalescedStep
    <3>2. /\ \A q \in Procs \ {p} : run'[q] = run[q]
          /\ \A r : Becomes(p, r) => run'[p] = r
      BY <2>2, <2>6, OnlyOne, Record
    <3>3. ~ScheduleCustomWebhook(p) /\ ~ScheduleFails(p)
      BY <2>1 DEF OnceInv, Coalesced, ScheduleCustomWebhook, ScheduleFails
    <3>4. ASSUME kind' = kind \/ \E k \in Kinds : kind' = Append(kind, k),
                 chat'.mark = chat.mark,
                 run'[p].step \notin {"turn", "think", "check", "commit"}, run'[p].mark <= chat.mark
          PROVE  BehindInv'
      <4>1. BehindIn(run'[p], kind', chat'.mark)
        BY <3>4, BehindElsewhere
      <4> QED BY <1>2, <2>1, <3>2, <3>4, <4>1, BehindStep
    <3>5. Idle.step = "idle" /\ Idle.mark = 0
      BY DEF Idle
    <3>6. CASE Becomes(p, Idle) /\ kind' = kind /\ chat'.mark = chat.mark
      BY <2>2, <3>2, <3>4, <3>5, <3>6
    <3>7. CASE \E k \in Kinds : Ingest(p, k)
      <4>1. run'[p] = [Loaded(Idle) EXCEPT !.step = "schedule", !.path = "inline", !.hwm = Len(kind) + 1]
        BY <3>2, <3>7 DEF Ingest
      <4>2. run'[p].step = "schedule" /\ run'[p].mark = chat.mark
        BY <4>1 DEF Loaded, Idle
      <4>3. /\ \E k \in Kinds : kind' = Append(kind, k)
            /\ chat' = chat
        BY <3>7 DEF Ingest
      <4> QED BY <2>2, <3>4, <4>2, <4>3
    <3>8. CASE \E a \in 0..MaxRearms : TakeJob(p, a)
      <4>1. CASE run' = run
        BY <2>3, <3>8, <4>1 DEF TakeJob
      <4>2. \A a : LET r == [Idle EXCEPT !.step = "locked", !.path = "job", !.attempt = a]
                   IN  r.step = "locked" /\ r.mark = 0
        BY DEF Idle
      <4>3. CASE run'[p].step = "locked" /\ run'[p].mark = 0
        BY <2>2, <3>4, <3>8, <4>3 DEF TakeJob
      <4> QED BY <3>2, <3>8, <4>1, <4>2, <4>3, ZenonT(40) DEF TakeJob
    <3>9. CASE CommitTurn(p) /\ MayFinalize(run[p])
      BY <1>2, <2>1, <3>9, BehindCommit
    <3>10. CASE \/ LoadSession(p) \/ PickTurn(p) \/ GateTurn(p) \/ Think(p) \/ HandOffTurn(p)
                \/ CheckNewer(p) /\ Goto(p, "commit")
      <4>1. BehindIn(run'[p], kind', chat.mark)
        BY <1>2, <2>1, <3>10, BehindJob
      <4>2. kind' = kind
        BY <3>10 DEF LoadSession, PickTurn, GateTurn, Think, HandOffTurn, CheckNewer
      <4>3. chat'.mark = chat.mark
        BY <2>2, <3>10 DEF LoadSession, PickTurn, GateTurn, Think, HandOffTurn, CheckNewer, PauseAutoReply,
           BotHandoff, Chats
      <4> QED BY <1>2, <2>1, <3>2, <4>1, <4>2, <4>3, BehindStep
    <3>11. CASE SettleTurn(p)
      <4>1. chat'.mark = chat.mark
        BY <2>2, <3>11 DEF SettleTurn, WaitingToBot, Chats
      <4> QED BY <3>6, <3>11, <4>1 DEF SettleTurn, EndJob
    <3>12. CASE \/ JobThrows(p) \/ ScheduleTurn(p) \/ (CommitTurn(p) /\ ~MayFinalize(run[p]))
                \/ CheckNewer(p) /\ EndJob(p)
      BY <3>6, <3>12 DEF JobThrows, ScheduleTurn, CheckNewer, CommitTurn, EndJob
    <3>14. CheckNewer(p) => EndJob(p) \/ Goto(p, "commit")
      BY DEF CheckNewer
    <3>13. CASE JobStalls(p)
      BY <2>3, <3>6, <3>13 DEF JobStalls
    <3> QED BY <2>6, <3>1, <3>3, <3>7, <3>8, <3>9, <3>10, <3>11, <3>12, <3>13, <3>14 DEF Ingress, Job
  <2> QED BY <1>2, <2>4, <2>5, <2>6 DEF Next
<1> QED BY <1>1, <1>2

-----------------------------------------------------------------------------
(* Whatever the agent reads was vetted.  The guardrails look at the newest  *)
(* MaxWindow messages of a turn, so an older one of a long burst gets under *)
(* the watermark without a look.  It stays out of the agent's sight as long *)
(* as the turns above it are committed from a watermark that is the row's,  *)
(* which is what the run-lock is for: an unflagged blocked message below    *)
(* the watermark has MaxWindow newer ones between, and a history query of   *)
(* MaxWindow rows never reaches it.                                         *)

Running == {"locked", "loaded", "turn", "think", "check", "commit", "announce", "settle"}
Reading == {"loaded", "turn", "think", "check", "commit"}

\* Messages above m, up to top, that the history of a later turn shows.
Newer(m, top) == {n \in Arrived : m < n /\ n <= top /\ n \notin flagged}

Buried ==
  \A m \in Arrived \ flagged :
    kind[m] = "spam" /\ m <= chat.mark => Cardinality(Newer(m, chat.mark)) >= MaxWindow

VettedIn(p, r) ==
  /\ r.step \in Running => lock = Token(p, "job")
  /\ r.step \in Reading => r.mark = chat.mark
  /\ r.step \in Reading \ {"loaded"} => r.hwm \in 1..Len(kind) /\ r.mark < r.hwm
  /\ r.step \in Reading \ {"loaded", "turn"} =>
       \A m \in GateWindow(r.mark, r.hwm) : kind[m] # "spam"

VettedInv ==
  /\ BehindInv
  /\ Buried
  /\ \A p \in Procs : VettedIn(p, run[p])

LEMMA Counted ==
  ASSUME NEW T, IsFiniteSet(T), NEW S, S \subseteq T
  PROVE  /\ IsFiniteSet(S) /\ Cardinality(S) \in Nat /\ Cardinality(T) \in Nat
         /\ Cardinality(S) <= Cardinality(T)
BY FS_Subset, FS_CardinalityType

LEMMA ArrivedFinite ==
  ASSUME Len(kind) \in Nat
  PROVE  IsFiniteSet(Arrived)
BY FS_Interval DEF Arrived

\* The agent reads neither a blocked message of its window nor one buried under it.
LEMMA VettedReads ==
  ASSUME VettedInv
  PROVE  BlockedNeverRead
<1>1. TypeOK /\ Len(kind) \in Nat /\ chat.mark \in Nat /\ run \in [Procs -> Runs]
  BY TypeFacts DEF VettedInv, BehindInv, OnceInv, Inv
<1> SUFFICES ASSUME NEW p \in Procs, run[p].step = "think",
                    NEW m \in (History(run[p].hwm) \cup {run[p].hwm}) \ flagged,
                    kind[m] = "spam"
             PROVE  FALSE
  BY DEF BlockedNeverRead
<1> DEFINE hwm == run[p].hwm
           mark == run[p].mark
<1>2. /\ mark = chat.mark /\ hwm \in 1..Len(kind) /\ mark < hwm
      /\ \A n \in GateWindow(mark, hwm) : kind[n] # "spam"
  BY DEF VettedInv, VettedIn, Reading
<1> HIDE DEF hwm, mark
<1>3. mark \in Nat /\ hwm \in Nat /\ IsFiniteSet(Arrived)
  BY <1>1, <1>2, ArrivedFinite
<1>4. CASE m = hwm
  <2>1. {n \in Window(mark, hwm) : m < n} = {}
    <3> SUFFICES ASSUME NEW n \in Window(mark, hwm), m < n PROVE FALSE
      OBVIOUS
    <3>1. n \in Nat /\ n <= hwm
      BY DEF Window, Arrived
    <3> QED BY <1>3, <1>4, <3>1
  <2>2. Cardinality({n \in Window(mark, hwm) : m < n}) < MaxWindow
    <3>1. Cardinality({n \in Window(mark, hwm) : m < n}) = 0
      BY <2>1, FS_EmptySet, Zenon
    <3> QED BY <3>1, BoundsAssumption
  <2>3. m \in Window(mark, hwm)
    BY <1>2, <1>4 DEF Window, Arrived
  <2> QED BY <1>2, <2>2, <2>3 DEF GateWindow
<1>5. CASE m \in History(hwm)
  <2> DEFINE above == {n \in Arrived : m < n /\ n < hwm /\ n \notin flagged}
  <2>1. m \in Arrived /\ m < hwm /\ Cardinality(above) + Cardinality(BotRowsBetween(m, hwm)) < MaxWindow - 1
    BY <1>5 DEF History
  <2>2. Cardinality(BotRowsBetween(m, hwm)) \in Nat
    <3>1. DOMAIN thread = 1..Len(thread) /\ Len(thread) \in Nat
      <4>1. thread \in Seq(-N..N)
        BY <1>1 DEF TypeOK
      <4> QED BY <4>1
    <3>2. 1 \in Int /\ Len(thread) \in Int
      BY <3>1
    <3>3. IsFiniteSet(1..Len(thread))
      BY <3>2, FS_Interval
    <3>4. BotRowsBetween(m, hwm) \subseteq 1..Len(thread)
      BY <3>1 DEF BotRowsBetween
    <3> QED BY <3>3, <3>4, Counted
  <2>3. IsFiniteSet(above) /\ Cardinality(above) \in Nat /\ Cardinality(above) < MaxWindow - 1
    <3>1. above \subseteq Arrived
      OBVIOUS
    <3>2. IsFiniteSet(above) /\ Cardinality(above) \in Nat
      BY <1>3, <3>1, Counted
    <3> QED BY <2>1, <2>2, <3>2
  <2>4. CASE m <= mark
    <3>1. Cardinality(Newer(m, mark)) >= MaxWindow
      BY <1>2, <2>1, <2>4 DEF VettedInv, Buried
    <3>2. Newer(m, mark) \subseteq above
      BY <1>2, <1>3 DEF Newer, Arrived
    <3>3. /\ Cardinality(Newer(m, mark)) \in Nat
          /\ Cardinality(Newer(m, mark)) <= Cardinality(above)
      BY <2>3, <3>2, Counted
    <3> QED BY <2>3, <3>1, <3>3
  <2>5. CASE mark < m
    <3>1. m \in Window(mark, hwm)
      BY <1>3, <2>1, <2>5 DEF Window, Arrived
    <3>2. {n \in Window(mark, hwm) : m < n} \subseteq above \cup {hwm}
      BY <1>3, <2>1 DEF Window, Arrived
    <3>3. IsFiniteSet(above \cup {hwm}) /\ Cardinality(above \cup {hwm}) <= Cardinality(above) + 1
          /\ Cardinality(above \cup {hwm}) \in Nat
      <4> HIDE DEF above
      <4>1. /\ IsFiniteSet(above \cup {hwm})
            /\ Cardinality(above \cup {hwm})
                 = IF hwm \in above THEN Cardinality(above) ELSE Cardinality(above) + 1
        BY <2>3, FS_AddElement
      <4>2. CASE hwm \in above
        BY <2>3, <4>1, <4>2
      <4>3. CASE hwm \notin above
        BY <2>3, <4>1, <4>3
      <4> QED BY <4>2, <4>3
    <3>4. /\ Cardinality({n \in Window(mark, hwm) : m < n}) \in Nat
          /\ Cardinality({n \in Window(mark, hwm) : m < n}) <= Cardinality(above \cup {hwm})
      BY <3>2, <3>3, Counted
    <3>5. Cardinality({n \in Window(mark, hwm) : m < n}) < MaxWindow
      BY <2>3, <3>3, <3>4
    <3> QED BY <1>2, <3>1, <3>5 DEF GateWindow
  <2> QED BY <1>1, <1>3, <2>1, <2>4, <2>5 DEF Arrived
<1> QED BY <1>4, <1>5 DEF hwm
\* Two owners of the run-lock are one.
LEMMA OneRunner ==
  ASSUME VettedInv, NEW p \in Procs, run[p].step \in Running \/ lock \in {Free, Dead}
  PROVE  \A q \in Procs \ {p} : run[q].step \notin Running
BY DEF VettedInv, VettedIn, Token, Free, Dead

\* What a window and the messages above one of its members show does not change
\* when messages arrive and only others are flagged.
LEMMA WindowsStay ==
  ASSUME TypeOK, kind' = kind \/ \E k \in Kinds : kind' = Append(kind, k), flagged' = flagged,
         NEW mark \in Marks, NEW hwm \in 1..Len(kind)
  PROVE  GateWindow(mark, hwm)' = GateWindow(mark, hwm)
<1>1. /\ Len(kind) \in Nat /\ Len(kind') \in Nat /\ Len(kind) <= Len(kind')
  BY Grown DEF TypeOK
<1>2. Window(mark, hwm)' = Window(mark, hwm)
  BY <1>1 DEF Window, Arrived
<1> QED BY <1>2 DEF GateWindow

LEMMA BuriedStays ==
  ASSUME VettedInv, kind' = kind \/ \E k \in Kinds : kind' = Append(kind, k),
         flagged \subseteq flagged', \A m \in flagged' \ flagged : chat.mark < m,
         chat'.mark = chat.mark
  PROVE  Buried' /\ chat'.mark <= Len(kind')
<1>1. /\ Len(kind) \in Nat /\ Len(kind') \in Nat /\ Len(kind) <= Len(kind')
      /\ \A m \in 1..Len(kind) : kind'[m] = kind[m]
      /\ chat.mark \in Nat /\ chat.mark <= Len(kind)
  <2>1. TypeOK /\ chat.mark <= Len(kind)
    BY DEF VettedInv, BehindInv, OnceInv, Inv
  <2> QED BY <2>1, Grown, TypeFacts
<1>2. ASSUME NEW m \in Arrived', m \notin flagged', kind'[m] = "spam", m <= chat'.mark
      PROVE  Cardinality(Newer(m, chat.mark)') >= MaxWindow
  <2>1. m \in Arrived \ flagged /\ kind[m] = "spam" /\ m <= chat.mark
    BY <1>1, <1>2 DEF Arrived
  <2>2. Newer(m, chat.mark)' = Newer(m, chat.mark)
    <3>1. \A n \in Nat : n <= chat.mark => (n \in flagged' <=> n \in flagged) /\ (n \in Arrived' <=> n \in Arrived)
      BY <1>1 DEF Arrived
    <3>2. Arrived \subseteq Nat /\ Arrived' \subseteq Nat
      BY <1>1 DEF Arrived
    <3> QED BY <3>1, <3>2 DEF Newer
  <2> QED BY <2>1, <2>2 DEF VettedInv, Buried
<1> QED BY <1>1, <1>2 DEF Buried

\* A step of p that leaves nobody but p running.
LEMMA VettedAlone ==
  ASSUME VettedInv, BehindInv', NEW p \in Procs,
         \A q \in Procs \ {p} : run'[q] = run[q],
         run[p].step \in Running \/ lock \in {Free, Dead},
         kind' = kind, flagged \subseteq flagged',
         \A m \in flagged' \ flagged : chat.mark < m, chat'.mark = chat.mark,
         VettedIn(p, run[p])' \/ run'[p].step \notin Running
  PROVE  VettedInv'
<1>1. Buried'
  BY BuriedStays
<1>2. ASSUME NEW q \in Procs, run'[q].step \notin Running PROVE VettedIn(q, run[q])'
  BY <1>2 DEF VettedIn, Running, Reading
<1>3. \A q \in Procs \ {p} : run'[q].step \notin Running
  BY OneRunner
<1> QED BY <1>1, <1>2, <1>3 DEF VettedInv

\* A step that leaves the lock, the row's watermark and the flags, and whose own
\* process does not run.
LEMMA VettedAside ==
  ASSUME VettedInv, BehindInv',
         \A q \in Procs : run'[q] = run[q] \/ run'[q].step \notin Running,
         kind' = kind \/ \E k \in Kinds : kind' = Append(kind, k),
         flagged' = flagged, chat'.mark = chat.mark, lock' = lock
  PROVE  VettedInv'
<1>1. Buried'
  BY BuriedStays
<1>2. TypeOK /\ run \in [Procs -> Runs] /\ Len(kind) \in Nat /\ Len(kind') \in Nat /\ Len(kind) <= Len(kind')
      /\ \A m \in 1..Len(kind) : kind'[m] = kind[m]
  <2>1. TypeOK
    BY DEF VettedInv, BehindInv, OnceInv, Inv
  <2> QED BY <2>1, TypeFacts, Grown
<1>3. ASSUME NEW q \in Procs PROVE VettedIn(q, run[q])'
  <2>1. CASE run'[q].step \notin Running
    BY <2>1 DEF VettedIn, Running, Reading
  <2>2. CASE run'[q] = run[q] /\ run[q].step \in Running
    <3>1. VettedIn(q, run[q]) /\ run[q].mark \in Marks
      BY <1>2 DEF VettedInv, Runs
    <3>2. CASE run[q].step \notin Reading \ {"loaded"}
      BY <2>2, <3>1, <3>2 DEF VettedIn, Reading
    <3>3. CASE run[q].step \in Reading \ {"loaded"}
      <4>1. run[q].hwm \in 1..Len(kind) /\ run[q].mark < run[q].hwm
        BY <3>1, <3>3 DEF VettedIn
      <4>2. GateWindow(run[q].mark, run[q].hwm)' = GateWindow(run[q].mark, run[q].hwm)
        <5>1. \A a \in Marks, b \in 1..Len(kind) : GateWindow(a, b)' = GateWindow(a, b)
          BY <1>2, WindowsStay
        <5> QED BY <2>2, <3>1, <4>1, <5>1
      <4>3. GateWindow(run[q].mark, run[q].hwm) \subseteq 1..Len(kind)
        BY GateWindowIn DEF Window, Arrived
      <4>4. \A m \in GateWindow(run[q].mark, run[q].hwm) : kind[m] = kind'[m]
        BY <1>2, <4>3
      <4> QED BY <1>2, <2>2, <3>1, <4>1, <4>2, <4>4 DEF VettedIn
    <3> QED BY <3>2, <3>3
  <2> QED BY <2>1, <2>2
<1> QED BY <1>1, <1>3 DEF VettedInv

\* The steps of a run that keeps the lock and leaves the row's watermark alone.
LEMMA VettedRun ==
  ASSUME VettedInv, BehindInv', NEW p \in Procs,
         \/ LoadSession(p) \/ PickTurn(p) \/ GateTurn(p) \/ Think(p) \/ CheckNewer(p)
         \/ HandOffTurn(p),
         ~Becomes(p, Idle)
  PROVE  VettedIn(p, run[p])' /\ flagged' = flagged /\ kind' = kind /\ chat'.mark = chat.mark
<1>1. /\ TypeOK /\ ~webhook /\ run[p] \in Runs /\ chat \in Chats /\ Len(kind) \in Nat
      /\ run[p].mark \in Marks /\ run[p].hwm \in Marks
  <2>1. TypeOK /\ ~webhook
    BY DEF VettedInv, BehindInv, OnceInv, Inv, Coalesced
  <2>2. run[p] \in Runs /\ chat \in Chats /\ Len(kind) \in Nat
    BY <2>1, TypeFacts
  <2> QED BY <2>1, <2>2 DEF Runs
<1>2. /\ \A r : Becomes(p, r) => run'[p] = r
      /\ VettedIn(p, run[p])
  BY <1>1, Record DEF VettedInv
<1>3. kind' = kind /\ flagged' = flagged /\ lock' = lock /\ chat'.mark = chat.mark
  BY <1>1 DEF LoadSession, PickTurn, GateTurn, Think, CheckNewer, HandOffTurn, EndJob, BotHandoff, Chats
<1>4. GateWindow(run[p].mark, run[p].hwm)' = GateWindow(run'[p].mark, run'[p].hwm)
  BY <1>3 DEF GateWindow, Window, Arrived
<1>5. CASE LoadSession(p)
  <2>1. run'[p] = [Loaded(run[p]) EXCEPT !.step = "loaded"] /\ run[p].step = "locked"
    BY <1>2, <1>5 DEF LoadSession
  <2>2. run'[p].step = "loaded" /\ run'[p].mark = chat.mark
    BY <1>1, <2>1 DEF Loaded, Runs
  <2> QED BY <1>2, <1>3, <2>1, <2>2 DEF VettedIn, Running, Reading
<1>6. CASE PickTurn(p)
  <2>1. PICK hwm \in Newest(run[p].mark) : run'[p] = [run[p] EXCEPT !.step = "turn", !.hwm = hwm]
    BY <1>1, <1>2, <1>6 DEF PickTurn, EndJob
  <2>2. run'[p].step = "turn" /\ run'[p].hwm = hwm /\ run'[p].mark = run[p].mark
    BY <1>1, <2>1 DEF Runs
  <2>3. hwm \in 1..Len(kind) /\ run[p].mark < hwm
    BY DEF Newest, Window, Arrived
  <2>4. run[p].step = "loaded"
    BY <1>6 DEF PickTurn
  <2> QED BY <1>2, <1>3, <2>2, <2>3, <2>4 DEF VettedIn, Running, Reading
<1>7. CASE GateTurn(p)
  <2>1. PICK s \in {"think", "check"} :
          run'[p] = [run[p] EXCEPT !.step = s, !.outcome = Autoresponse(run[p])]
    BY <1>2, <1>7 DEF GateTurn, EndJob
  <2>2. run'[p].step = s /\ run'[p].hwm = run[p].hwm /\ run'[p].mark = run[p].mark
    BY <1>1, <2>1 DEF Runs
  <2>3. run[p].step = "turn" /\ Rejected(run[p]) = {}
    BY <1>7 DEF GateTurn, EndJob
  <2>4. \A m \in GateWindow(run[p].mark, run[p].hwm) : kind[m] # "spam"
    <3> SUFFICES ASSUME NEW m \in GateWindow(run[p].mark, run[p].hwm), kind[m] = "spam" PROVE FALSE
      OBVIOUS
    <3>1. m \in Nat
      BY <1>1, GateWindowIn DEF Window, Arrived
    <3>2. GateRejects(m) /\ m <= m
      BY <3>1 DEF GateRejects
    <3> QED BY <2>3, <3>2 DEF Rejected
  <2> QED BY <1>2, <1>3, <1>4, <2>2, <2>3, <2>4 DEF VettedIn, Running, Reading
<1>8. CASE Think(p) \/ CheckNewer(p)
  <2>1. PICK s \in {"check", "commit"}, o \in Outcomes :
          run'[p] = [run[p] EXCEPT !.step = s, !.outcome = o]
    <3>1. CASE Think(p)
      BY <1>2, <3>1 DEF Think, Outcomes
    <3>2. CASE CheckNewer(p)
      <4>1. run'[p] = [run[p] EXCEPT !.step = "commit"]
        BY <1>2, <3>2 DEF CheckNewer, EndJob, Goto
      <4>2. run'[p] = [run[p] EXCEPT !.step = "commit", !.outcome = run[p].outcome] /\ run[p].outcome \in Outcomes
        BY <1>1, <4>1 DEF Runs
      <4> QED BY <4>2
    <3> QED BY <1>8, <3>1, <3>2
  <2>2. run'[p].step = s /\ run'[p].hwm = run[p].hwm /\ run'[p].mark = run[p].mark
    BY <1>1, <2>1 DEF Runs
  <2>3. run[p].step \in {"think", "check"}
    BY <1>8 DEF Think, CheckNewer
  <2> QED BY <1>2, <1>3, <1>4, <2>2, <2>3 DEF VettedIn, Running, Reading
<1>9. CASE HandOffTurn(p)
  <2>1. run'[p] = [run[p] EXCEPT !.step = "settle", !.status = chat'.status] /\ run[p].step = "announce"
    BY <1>2, <1>9 DEF HandOffTurn
  <2>2. run'[p].step = "settle"
    BY <1>1, <2>1 DEF Runs
  <2> QED BY <1>2, <1>3, <2>1, <2>2 DEF VettedIn, Running, Reading
<1> QED BY <1>3, <1>5, <1>6, <1>7, <1>8, <1>9

\* The commit buries what it did not vet under MaxWindow messages.
LEMMA VettedCommit ==
  ASSUME VettedInv, BehindInv', NEW p \in Procs, CommitTurn(p), MayFinalize(run[p])
  PROVE  VettedInv'
<1> DEFINE hwm == run[p].hwm
           mark == chat.mark
<1>1. TypeOK /\ run[p] \in Runs /\ chat \in Chats /\ Len(kind) \in Nat /\ run \in [Procs -> Runs]
  <2>1. TypeOK
    BY DEF VettedInv, BehindInv, OnceInv, Inv
  <2> QED BY <2>1, TypeFacts
<1>2. /\ run[p].step = "commit" /\ chat'.mark = hwm /\ kind' = kind /\ flagged' = flagged /\ lock' = lock
      /\ Goto(p, "announce") \/ Goto(p, "settle")
  BY <1>1 DEF CommitTurn, Finalize, Chats
<1>3. /\ run[p].mark = mark /\ mark < hwm /\ hwm \in 1..Len(kind) /\ lock = Token(p, "job")
      /\ \A m \in GateWindow(mark, hwm) : kind[m] # "spam"
  BY <1>2 DEF VettedInv, VettedIn, Running, Reading
<1>4. mark \in Nat /\ hwm \in Nat /\ IsFiniteSet(Arrived)
  BY <1>1, <1>3, ArrivedFinite DEF Chats
<1>5. /\ run'[p].step \in {"announce", "settle"}
      /\ \A q \in Procs \ {p} : run'[q] = run[q] /\ run[q].step \notin Running
  BY <1>1, <1>2, OneRunner DEF Goto, Becomes, Runs, Running
<1> HIDE DEF hwm, mark
<1>6. ASSUME NEW m \in Arrived \ flagged, kind[m] = "spam", m <= hwm
      PROVE  Cardinality(Newer(m, hwm)) >= MaxWindow
  <2>1. m \in Nat /\ Newer(m, hwm) \subseteq Arrived
    BY <1>1 DEF Arrived, Newer
  <2>2. IsFiniteSet(Newer(m, hwm)) /\ Cardinality(Newer(m, hwm)) \in Nat
    BY <1>4, <2>1, Counted
  <2>3. CASE m <= mark
    <3>1. Cardinality(Newer(m, mark)) >= MaxWindow
      BY <1>6, <2>3 DEF VettedInv, Buried, mark
    <3>2. Newer(m, mark) \subseteq Newer(m, hwm)
      BY <1>3, <1>4, <2>1 DEF Newer, Arrived
    <3>3. Cardinality(Newer(m, mark)) \in Nat /\ Cardinality(Newer(m, mark)) <= Cardinality(Newer(m, hwm))
      BY <2>2, <3>2, Counted
    <3> QED BY <2>2, <3>1, <3>3
  <2>4. CASE mark < m
    <3>1. m \in Window(mark, hwm)
      BY <1>6, <2>4 DEF Window
    <3>2. m \notin GateWindow(mark, hwm)
      BY <1>3, <1>6
    <3>3. {n \in Window(mark, hwm) : m < n} = Newer(m, hwm)
      BY <1>4, <2>1, <2>4 DEF Window, Newer, Arrived
    <3> QED BY <2>2, <3>1, <3>2, <3>3 DEF GateWindow
  <2> QED BY <1>4, <2>1, <2>3, <2>4
<1>7. Buried'
  <2>1. \A m : Newer(m, chat.mark)' = Newer(m, hwm)
    BY <1>2 DEF Newer, Arrived, hwm
  <2>2. Arrived' = Arrived
    BY <1>2 DEF Arrived
  <2> QED BY <1>2, <1>6, <2>1, <2>2 DEF Buried, hwm
<1>8. ASSUME NEW q \in Procs PROVE VettedIn(q, run[q])'
  BY <1>2, <1>3, <1>5 DEF VettedIn, Running, Reading
<1> QED BY <1>7, <1>8 DEF VettedInv

\* A webhook, once set, stays, and so does the memory of a lapse.
LEMMA HistoryStays ==
  ASSUME [Next]_vars
  PROVE  (webhook => webhook') /\ (lapsed => lapsed')
<1> SUFFICES ASSUME Next PROVE (webhook => webhook') /\ (lapsed => lapsed')
  BY DEF vars
<1>1. CASE Surroundings
  <2>1. CASE TakeOver \/ HandBack \/ Reactivate \/ QuietWindowPasses \/ StateExpires
    BY <2>1 DEF TakeOver, HandBack, Reactivate, QuietWindowPasses, StateExpires, env
  <2>2. CASE LockLapses
    BY <2>2, Zenon DEF LockLapses
  <2>3. CASE ConfigureWebhook
    BY <2>3, Zenon DEF ConfigureWebhook
  <2> QED BY <1>1, <2>1, <2>2, <2>3 DEF Surroundings
<1>2. ASSUME NEW p \in Procs,
             \/ \E k \in Kinds : Ingest(p, k)
             \/ \E a \in 0..MaxRearms : TakeJob(p, a)
             \/ Ingress(p) \/ JobThrows(p) \/ DrainThrows(p) \/ ForwardThrows(p) \/ JobStalls(p)
      PROVE  UNCHANGED <<webhook, lapsed>>
  BY <1>2 DEF Ingest, TakeJob, Ingress, ScheduleTurn, ScheduleCustomWebhook, ScheduleFails,
     JobThrows, DrainThrows, ForwardThrows, JobStalls, env
<1>3. ASSUME NEW p \in Procs, Job(p) PROVE UNCHANGED <<webhook, lapsed>>
  BY <1>3 DEF Job, LoadSession, PickTurn, GateTurn, Think, CheckNewer, CommitTurn, HandOffTurn,
     SettleTurn, RelayNext, RelayAdvance, env
<1>4. ASSUME NEW p \in Procs, Inline(p) PROVE UNCHANGED <<webhook, lapsed>>
  <2>1. ASSUME Forward(p) \/ CheckWarning(p) \/ ForwardWarning(p) \/ ForwardCanned(p)
               \/ AcquireSessionLock(p)
        PROVE  UNCHANGED <<webhook, lapsed>>
    BY <2>1 DEF Forward, CheckWarning, ForwardWarning, ForwardCanned, AcquireSessionLock, env
  <2>2. ASSUME DrainNext(p) \/ DrainReason(p) \/ DrainSend(p) \/ DrainAdvance(p)
               \/ DrainStop(p) \/ DrainRescue(p)
        PROVE  UNCHANGED <<webhook, lapsed>>
    BY <2>2 DEF DrainNext, DrainReason, DrainSend, DrainAdvance, DrainStop, DrainRescue, env
  <2>3. ASSUME Escalate(p) PROVE UNCHANGED <<webhook, lapsed>>
    <3>1. UNCHANGED env
      BY <2>3, Zenon DEF Escalate
    <3> QED BY <3>1 DEF env
  <2> QED BY <1>4, <2>1, <2>2, <2>3 DEF Inline
<1>5. CASE ~Surroundings
  <2>1. PICK p \in Procs : \/ \E k \in Kinds : Ingest(p, k)
                           \/ \E a \in 0..MaxRearms : TakeJob(p, a)
                           \/ Ingress(p) \/ Job(p) \/ Inline(p) \/ JobThrows(p)
                           \/ DrainThrows(p) \/ ForwardThrows(p) \/ JobStalls(p)
    BY <1>5, Zenon DEF Next
  <2>2. CASE Job(p)
    BY <1>3, <2>2
  <2>3. CASE Inline(p)
    BY <1>4, <2>3
  <2> QED BY <1>2, <2>1, <2>2, <2>3
<1> QED BY <1>1, <1>5

\* Every step keeps the vetting, as long as the run-lock excludes.
LEMMA VettedInductive ==
  ASSUME {"schedule", "webhook"} \cap Faults = {}
  PROVE  /\ Init => VettedInv
         /\ VettedInv /\ [Next]_vars => VettedInv' \/ lapsed'
<1>0. {"schedule", "webhook"} \cap Faults = {}
  OBVIOUS
<1>1. ASSUME Init PROVE VettedInv
  <2>1. BehindInv
    BY <1>0, <1>1, BehindInductive
  <2>2. kind = <<>> /\ \A p \in Procs : run[p].step = "idle"
    BY <1>1 DEF Init, Idle
  <2> QED BY <2>1, <2>2 DEF VettedInv, VettedIn, Running, Reading, Buried, Arrived
<1>2. ASSUME VettedInv, [Next]_vars, ~lapsed' PROVE VettedInv'
  <2>1. BehindInv /\ BehindInv' /\ OnceInv
    BY <1>0, <1>2, BehindInductive DEF VettedInv, BehindInv
  <2>2. TypeOK /\ Coalesced /\ chat \in Chats /\ chat.mark \in Nat /\ run \in [Procs -> Runs]
    <3>1. TypeOK /\ Coalesced
      BY <2>1 DEF OnceInv, Inv
    <3> QED BY <3>1, TypeFacts
  <2>3. CASE UNCHANGED <<run, kind, flagged, lock>> /\ chat'.mark = chat.mark
    BY <1>2, <2>1, <2>3, VettedAside
  <2>4. CASE UNCHANGED vars
    BY <2>3, <2>4 DEF vars
  <2>5. CASE Surroundings
    <3>1. UNCHANGED <<run, kind, flagged>>
      BY <2>5 DEF Surroundings, TakeOver, HandBack, Reactivate, QuietWindowPasses, LockLapses,
         ConfigureWebhook, StateExpires, Unattended
    <3>2. chat'.mark = chat.mark
      BY <2>2, <2>5 DEF Surroundings, TakeOver, HandBack, Reactivate, QuietWindowPasses, LockLapses,
         ConfigureWebhook, StateExpires, Chats
    <3>3. CASE lock = Dead
      <4>1. ASSUME NEW q \in Procs PROVE VettedIn(q, run[q])'
        <5>1. run'[q].step \notin Running
          BY <1>2, <3>1, <3>3 DEF VettedInv, VettedIn, Dead, Token
        <5> QED BY <5>1 DEF VettedIn, Running, Reading
      <4>2. Buried'
        BY <1>2, <3>1, <3>2, BuriedStays
      <4> QED BY <2>1, <4>1, <4>2 DEF VettedInv
    <3>4. CASE lock' = lock
      BY <2>3, <3>1, <3>2, <3>4
    <3> QED BY <1>2, <2>5, <3>3, <3>4 DEF Surroundings, TakeOver, HandBack, Reactivate, QuietWindowPasses,
          LockLapses, ConfigureWebhook, StateExpires, Unattended
  <2>6. ASSUME NEW p \in Procs,
               \/ \E k \in Kinds : Ingest(p, k)
               \/ \E a \in 0..MaxRearms : TakeJob(p, a)
               \/ Ingress(p) \/ Job(p) \/ Inline(p)
               \/ JobThrows(p) \/ DrainThrows(p) \/ ForwardThrows(p) \/ JobStalls(p)
        PROVE  VettedInv'
    <3>1. ~Inline(p) /\ ~DrainThrows(p) /\ ~ForwardThrows(p) /\ ~RelayNext(p) /\ ~RelayAdvance(p)
      BY <1>0, <2>1, <2>6, CoalescedStep
    <3>2. /\ \A q \in Procs \ {p} : run'[q] = run[q]
          /\ \A r : Becomes(p, r) => run'[p] = r
      BY <2>2, <2>6, OnlyOne, Record
    <3>3. ~ScheduleCustomWebhook(p) /\ ~ScheduleFails(p)
      BY <1>0, <2>2 DEF Coalesced, ScheduleCustomWebhook, ScheduleFails
    <3>4. Idle.step \notin Running
      BY DEF Idle, Running
    <3>5. CASE \E k \in Kinds : Ingest(p, k)
      <4>1. run'[p] = [Loaded(Idle) EXCEPT !.step = "schedule", !.path = "inline", !.hwm = Len(kind) + 1]
            /\ flagged' = flagged /\ chat' = chat /\ lock' = lock
            /\ \E k \in Kinds : kind' = Append(kind, k)
        BY <3>2, <3>5 DEF Ingest
      <4>2. run'[p].step \notin Running
        BY <4>1 DEF Loaded, Idle, Running
      <4> QED BY <1>2, <2>1, <3>2, <4>1, <4>2, VettedAside
    <3>6. CASE ScheduleTurn(p)
      <4>1. run'[p] = Idle /\ UNCHANGED <<kind, flagged, chat, lock>>
        BY <3>2, <3>6 DEF ScheduleTurn
      <4> QED BY <1>2, <2>1, <3>2, <3>4, <4>1, VettedAside
    <3>7. ASSUME NEW a \in 0..MaxRearms, TakeJob(p, a) PROVE VettedInv'
      <4>1. UNCHANGED <<kind, flagged, chat>>
        BY <3>7 DEF TakeJob
      <4>2. CASE lock # Free
        <5>1. run' = run /\ lock' = lock
          BY <3>7, <4>2 DEF TakeJob
        <5> QED BY <2>3, <4>1, <5>1
      <4>3. CASE lock = Free
        <5>1. run'[p] = [Idle EXCEPT !.step = "locked", !.path = "job", !.attempt = a]
              /\ lock' = Token(p, "job")
          BY <3>2, <3>7, <4>3 DEF TakeJob
        <5>2. run'[p].step = "locked"
          BY <5>1 DEF Idle
        <5>3. VettedIn(p, run[p])'
          BY <5>1, <5>2 DEF VettedIn, Reading
        <5> QED BY <1>2, <2>1, <3>2, <4>1, <4>3, <5>3, VettedAlone
      <4> QED BY <4>2, <4>3
    <3>8. CASE CommitTurn(p) /\ MayFinalize(run[p])
      BY <1>2, <2>1, <3>8, VettedCommit
    <3>9. CASE /\ \/ LoadSession(p) \/ PickTurn(p) \/ GateTurn(p) \/ Think(p) \/ CheckNewer(p)
                  \/ HandOffTurn(p)
               /\ ~Becomes(p, Idle)
      <4>1. VettedIn(p, run[p])' /\ flagged' = flagged /\ kind' = kind /\ chat'.mark = chat.mark
        BY <1>2, <2>1, <3>9, VettedRun
      <4>2. run[p].step \in Running
        BY <3>9 DEF LoadSession, PickTurn, GateTurn, Think, CheckNewer, HandOffTurn, Running
      <4> QED BY <1>2, <2>1, <3>2, <4>1, <4>2, VettedAlone
    <3>10. CASE /\ Becomes(p, Idle)
                /\ \/ LoadSession(p) \/ PickTurn(p) \/ GateTurn(p) \/ Think(p) \/ CheckNewer(p)
                   \/ HandOffTurn(p) \/ SettleTurn(p) \/ JobThrows(p)
                   \/ CommitTurn(p) /\ ~MayFinalize(run[p])
      <4>1. run[p].step \in Running
        BY <2>2, <3>10 DEF LoadSession, PickTurn, GateTurn, Think, CheckNewer, HandOffTurn, SettleTurn,
           JobThrows, CommitTurn, Running, JobSteps, Coalesced, CoalescedSteps
      <4>2. kind' = kind /\ chat'.mark = chat.mark
        BY <2>2, <3>10 DEF LoadSession, PickTurn, GateTurn, Think, CheckNewer, HandOffTurn, SettleTurn,
           JobThrows, CommitTurn, PauseAutoReply, BotHandoff, WaitingToBot, Chats
      <4>3. flagged \subseteq flagged' /\ \A m \in flagged' \ flagged : chat.mark < m
        <5>1. CASE GateTurn(p)
          <6>1. flagged' \subseteq flagged \cup Window(run[p].mark, run[p].hwm) /\ flagged \subseteq flagged'
            BY <5>1, GateWindowIn DEF GateTurn, Rejected
          <6>2. run[p].mark = chat.mark
            BY <1>2, <5>1 DEF GateTurn, VettedInv, VettedIn, Reading
          <6> QED BY <6>1, <6>2 DEF Window
        <5>2. CASE ~GateTurn(p)
          BY <3>10, <5>2 DEF LoadSession, PickTurn, Think, CheckNewer, HandOffTurn, SettleTurn,
             JobThrows, CommitTurn
        <5> QED BY <5>1, <5>2
      <4>4. run'[p].step \notin Running
        BY <3>2, <3>4, <3>10
      <4> QED BY <1>2, <2>1, <3>2, <4>1, <4>2, <4>3, <4>4, VettedAlone
    <3>11. CASE JobStalls(p)
      <4>1. UNCHANGED <<kind, flagged, chat>>
        BY <3>11 DEF JobStalls
      <4>2. CASE run' = run /\ lock' = lock
        BY <2>3, <4>1, <4>2
      <4>3. CASE Becomes(p, Idle) /\ lock' = lock
        BY <1>2, <2>1, <3>2, <3>4, <4>1, <4>3, VettedAside
      <4>4. CASE Becomes(p, Idle) /\ lock \in {Token(p, "job"), Token(p, "inline")}
        <5>1. \A q \in Procs \ {p} : run[q].step \notin Running
          BY <1>2, <4>4 DEF VettedInv, VettedIn, Token
        <5>2. \A q \in Procs : run'[q].step \notin Running
          BY <3>2, <3>4, <4>4, <5>1
        <5>3. \A q \in Procs : VettedIn(q, run[q])'
          BY <5>2 DEF VettedIn, Running, Reading
        <5>4. Buried'
          BY <1>2, <4>1, BuriedStays
        <5> QED BY <2>1, <5>3, <5>4 DEF VettedInv
      <4> QED BY <3>11, <4>2, <4>3, <4>4 DEF JobStalls
    <3>12. /\ SettleTurn(p) \/ JobThrows(p) => Becomes(p, Idle)
           /\ CommitTurn(p) /\ ~MayFinalize(run[p]) => Becomes(p, Idle)
      BY DEF SettleTurn, JobThrows, CommitTurn, EndJob
    <3> QED BY <2>6, <3>1, <3>3, <3>5, <3>6, <3>7, <3>8, <3>9, <3>10, <3>11, <3>12 DEF Ingress, Job
  <2> QED BY <1>2, <2>4, <2>5, <2>6 DEF Next
<1> QED BY <1>1, <1>2

\* As long as the run-lock excludes (its TTL has not passed under a live owner),
\* every message the agent reads was vetted or is flagged, for a burst of any
\* length and a window of any size: what the guardrails' limit leaves out, the
\* history query's limit leaves out, too, in this turn and in every later one
\* (getUnansweredUserWindow, getCoalescedHistory), whatever operators, repeated
\* deliveries and dying workers do.
THEOREM ReadsVetted ==
  ASSUME {"schedule", "webhook"} \cap Faults = {}
  PROVE  Spec => []BlockedNeverRead
<1>1. Init => lapsed \/ VettedInv
  BY VettedInductive
<1>2. (lapsed \/ VettedInv) /\ [Next]_vars => (lapsed \/ VettedInv)'
  BY VettedInductive, HistoryStays
<1>3. lapsed \/ VettedInv => BlockedNeverRead
  BY VettedReads DEF BlockedNeverRead
<1> QED BY <1>1, <1>2, <1>3, PTL DEF Spec

-----------------------------------------------------------------------------
(* The watermark stands at an answered message.  Without a custom webhook  *)
(* the watermark moves in two places: with the reply, in finalizeReply's    *)
(* transaction, and in the drain, after the reply was saved.  What a run of *)
(* the drain carries from the reply to the watermark is the reply.          *)

AnsweredIn(t, m) == \E i \in DOMAIN t : t[i] = -m

BackedIn(r, t) ==
  /\ r.path # "relay" /\ r.step \notin {"relay", "relayed"}
  /\ r.step = "canned" => r.outcome = "keyword"
  /\ r.step = "advance" \/ (r.step = "escalate" /\ r.outcome = "handoff") => AnsweredIn(t, r.hwm)

MarkInv ==
  /\ ~webhook
  /\ chat.mark # 0 => AnsweredIn(thread, chat.mark)
  /\ \A p \in Procs : BackedIn(run[p], thread)

Grows == thread' = thread \/ \E x \in Int : thread' = Append(thread, x)

\* The thread only grows, so an answered message stays answered.
LEMMA AnsweredKept ==
  ASSUME thread \in Seq(-N..N), Grows, NEW m, AnsweredIn(thread, m)
  PROVE  AnsweredIn(thread', m)
<1>1. CASE thread' = thread
  BY <1>1
<1>2. ASSUME NEW x \in Int, thread' = Append(thread, x) PROVE AnsweredIn(thread', m)
  <2>1. PICK i \in DOMAIN thread : thread[i] = -m
    BY DEF AnsweredIn
  <2>2. i \in DOMAIN thread' /\ thread'[i] = thread[i]
    BY <1>2, <2>1
  <2> QED BY <2>1, <2>2 DEF AnsweredIn
<1> QED BY <1>1, <1>2 DEF Grows

\* The message a reply is appended for is answered.
LEMMA AnsweredNow ==
  ASSUME thread \in Seq(-N..N), NEW m \in Marks, thread' = Append(thread, -m)
  PROVE  AnsweredIn(thread', m) /\ Grows
<1>1. Len(thread) + 1 \in DOMAIN thread' /\ thread'[Len(thread) + 1] = -m
  OBVIOUS
<1>2. -m \in Int
  OBVIOUS
<1> QED BY <1>1, <1>2 DEF AnsweredIn, Grows

\* A step of process p keeps the invariant if its record and the watermark are
\* backed by the thread.
LEMMA MarkKept ==
  ASSUME MarkInv, TypeOK, NEW p \in Procs, Grows, webhook' = webhook,
         \A q \in Procs \ {p} : run'[q] = run[q],
         BackedIn(run'[p], thread'),
         chat'.mark = chat.mark \/ AnsweredIn(thread', chat'.mark)
  PROVE  MarkInv'
<1>1. thread \in Seq(-N..N)
  BY DEF TypeOK
<1>2. chat'.mark # 0 => AnsweredIn(thread', chat'.mark)
  BY <1>1, AnsweredKept DEF MarkInv
<1>3. ASSUME NEW q \in Procs \ {p} PROVE BackedIn(run'[q], thread')
  <2>1. BackedIn(run[q], thread) /\ run'[q] = run[q]
    BY DEF MarkInv
  <2> QED BY <1>1, <2>1, AnsweredKept DEF BackedIn
<1> QED BY <1>2, <1>3 DEF MarkInv

\* Records that carry no reply.
Unbacked == {"relay", "relayed", "canned", "advance", "escalate"}

LEMMA BackedElsewhere ==
  ASSUME NEW r, r.path # "relay", r.step \notin Unbacked, NEW t
  PROVE  BackedIn(r, t)
BY DEF BackedIn, Unbacked

LEMMA BackedQuiet ==
  ASSUME NEW r \in Runs, r.path # "relay", NEW s, s \notin Unbacked, NEW o, NEW t
  PROVE  /\ BackedIn([r EXCEPT !.step = s], t)
         /\ BackedIn([r EXCEPT !.step = s, !.outcome = o], t)
<1>1. [r EXCEPT !.step = s].path # "relay" /\ [r EXCEPT !.step = s].step \notin Unbacked
  BY DEF Runs
<1>2. /\ [r EXCEPT !.step = s, !.outcome = o].path # "relay"
      /\ [r EXCEPT !.step = s, !.outcome = o].step \notin Unbacked
  BY DEF Runs
<1> QED BY <1>1, <1>2, BackedElsewhere

LEMMA BackedIdle == ASSUME NEW t PROVE BackedIn(Idle, t)
BY DEF BackedIn, Idle

\* What the record of the process that moves becomes, for every step that leaves
\* no reply behind it.
LEMMA MarkPlain ==
  ASSUME MarkInv, TypeOK, NEW p \in Procs, Grows, webhook' = webhook,
         chat'.mark = chat.mark \/ AnsweredIn(thread', chat'.mark),
         \/ run' = run
         \/ Becomes(p, Idle)
         \/ \E s, o : s \notin Unbacked /\ Becomes(p, [run[p] EXCEPT !.step = s, !.outcome = o])
         \/ \E s : s \notin Unbacked /\ Becomes(p, [run[p] EXCEPT !.step = s])
         \/ \E r : r.path # "relay" /\ r.step \notin Unbacked /\ Becomes(p, r)
  PROVE  MarkInv'
<1>1. run[p] \in Runs /\ BackedIn(run[p], thread) /\ thread \in Seq(-N..N)
  BY DEF TypeOK, MarkInv
<1>2. run[p].path # "relay"
  BY <1>1 DEF BackedIn
<1>3. CASE run' = run
  <2>1. BackedIn(run'[p], thread')
    BY <1>1, <1>3, AnsweredKept DEF BackedIn
  <2> QED BY <1>3, <2>1, MarkKept
<1>4. ASSUME NEW r, BackedIn(r, thread'), Becomes(p, r) PROVE MarkInv'
  <2>1. run'[p] = r /\ \A q \in Procs \ {p} : run'[q] = run[q]
    BY <1>4, Record
  <2> QED BY <1>4, <2>1, MarkKept
<1>5. CASE Becomes(p, Idle)
  BY <1>4, <1>5, BackedIdle
<1>6. ASSUME NEW s, NEW o, s \notin Unbacked,
             \/ Becomes(p, [run[p] EXCEPT !.step = s, !.outcome = o])
             \/ Becomes(p, [run[p] EXCEPT !.step = s])
      PROVE  MarkInv'
  BY <1>1, <1>2, <1>4, <1>6, BackedQuiet
<1>7. ASSUME NEW r, r.path # "relay", r.step \notin Unbacked, Becomes(p, r) PROVE MarkInv'
  BY <1>4, <1>7, BackedElsewhere
<1> QED BY <1>3, <1>5, <1>6, <1>7

\* The operations on the row that leave the watermark alone.
LEMMA MarkUntouched ==
  ASSUME chat \in Chats
  PROVE  /\ PauseAutoReply => chat'.mark = chat.mark
         /\ \A r : WaitingToBot(r) => chat'.mark = chat.mark
         /\ BotHandoff => chat'.mark = chat.mark
<1>1. PauseAutoReply => chat'.mark = chat.mark
  BY DEF PauseAutoReply, Chats
<1>2. \A r : WaitingToBot(r) => chat'.mark = chat.mark
  BY DEF WaitingToBot, Chats
<1>3. BotHandoff => chat'.mark = chat.mark
  BY DEF BotHandoff, Chats
<1> QED BY <1>1, <1>2, <1>3

\* Ingress and the taking of a job.
LEMMA MarkIngress ==
  ASSUME MarkInv, TypeOK, NEW p \in Procs,
         (\E k \in Kinds : Ingest(p, k)) \/ (\E a \in 0..MaxRearms : TakeJob(p, a)) \/ Ingress(p)
  PROVE  MarkInv'
<1>1. ~ScheduleCustomWebhook(p)
  BY DEF MarkInv, ScheduleCustomWebhook
<1>2. ASSUME NEW k \in Kinds, Ingest(p, k) PROVE MarkInv'
  <2> DEFINE r == [Loaded(Idle) EXCEPT !.step = "schedule", !.path = "inline", !.hwm = Len(kind) + 1]
  <2>1. r.path # "relay" /\ r.step \notin Unbacked
    BY DEF Loaded, Idle, Unbacked
  <2>2. Len(kind) + 1 \in Int
    BY DEF TypeOK
  <2>3. Grows /\ chat' = chat /\ webhook' = webhook /\ Becomes(p, r)
    BY <1>2, <2>2 DEF Ingest, Grows, env
  <2> QED BY <2>1, <2>3, MarkPlain
<1>3. ASSUME NEW a \in 0..MaxRearms, TakeJob(p, a) PROVE MarkInv'
  <2> DEFINE r == [Idle EXCEPT !.step = "locked", !.path = "job", !.attempt = a]
  <2>1. r.path # "relay" /\ r.step \notin Unbacked
    BY DEF Idle, Unbacked
  <2>2. Grows /\ chat' = chat /\ webhook' = webhook /\ (run' = run \/ Becomes(p, r))
    BY <1>3 DEF TakeJob, Grows, env
  <2> QED BY <2>1, <2>2, MarkPlain
<1>4. CASE ScheduleTurn(p)
  BY <1>4, MarkPlain DEF ScheduleTurn, Grows, env
<1>5. CASE ScheduleFails(p)
  <2>1. Grows /\ chat' = chat /\ webhook' = webhook /\ Becomes(p, [run[p] EXCEPT !.step = "forward"])
    BY <1>5 DEF ScheduleFails, Grows, env, Goto
  <2>2. "forward" \notin Unbacked
    BY DEF Unbacked
  <2> QED BY <2>1, <2>2, MarkPlain
<1> QED BY <1>1, <1>2, <1>3, <1>4, <1>5 DEF Ingress

\* The job.
LEMMA MarkJob ==
  ASSUME MarkInv, TypeOK, NEW p \in Procs, Job(p) \/ JobThrows(p) \/ JobStalls(p)
  PROVE  MarkInv'
<1>1. /\ ~webhook /\ run[p].path # "relay" /\ run[p].step \notin {"relay", "relayed"}
      /\ run[p] \in Runs /\ chat \in Chats /\ thread \in Seq(-N..N)
  BY DEF MarkInv, BackedIn, TypeOK, Chats
<1>2. ~RelayNext(p) /\ ~RelayAdvance(p)
  BY <1>1 DEF RelayNext, RelayAdvance
<1>3. run[p].hwm \in Marks
  BY <1>1 DEF Runs
<1>4. CASE LoadSession(p)
  <2> DEFINE r == [Loaded(run[p]) EXCEPT !.step = "loaded"]
  <2>1. r.path # "relay" /\ r.step \notin Unbacked
    BY <1>1 DEF Loaded, Runs, Unbacked
  <2>2. Grows /\ chat' = chat /\ webhook' = webhook /\ Becomes(p, r)
    BY <1>4 DEF LoadSession, Grows, env
  <2> QED BY <2>1, <2>2, MarkPlain
<1>5. CASE PickTurn(p)
  <2>1. Grows /\ chat' = chat /\ webhook' = webhook
    BY <1>5 DEF PickTurn, Grows, env
  <2>2. \/ Becomes(p, Idle)
        \/ \E hwm \in Newest(run[p].mark) : Becomes(p, [run[p] EXCEPT !.step = "turn", !.hwm = hwm])
    BY <1>1, <1>5 DEF PickTurn, EndJob
  <2>3. ASSUME NEW hwm PROVE LET r == [run[p] EXCEPT !.step = "turn", !.hwm = hwm]
                            IN  r.path # "relay" /\ r.step \notin Unbacked
    BY <1>1 DEF Runs, Unbacked
  <2> QED BY <2>1, <2>2, <2>3, MarkPlain
<1>6. CASE GateTurn(p)
  <2>1. Grows /\ webhook' = webhook
    BY <1>6 DEF GateTurn, Grows, env
  <2>2. chat'.mark = chat.mark
    BY <1>1, <1>6, MarkUntouched DEF GateTurn
  <2>3. \/ Becomes(p, Idle)
        \/ \E s \in {"think", "check"} :
             Becomes(p, [run[p] EXCEPT !.step = s, !.outcome = Autoresponse(run[p])])
    BY <1>6 DEF GateTurn, EndJob
  <2>4. "think" \notin Unbacked /\ "check" \notin Unbacked
    BY DEF Unbacked
  <2> QED BY <2>1, <2>2, <2>3, <2>4, MarkPlain
<1>7. CASE Think(p)
  <2>1. Grows /\ chat' = chat /\ webhook' = webhook
    BY <1>7 DEF Think, Grows, env
  <2>2. \E o : Becomes(p, [run[p] EXCEPT !.step = "check", !.outcome = o])
    BY <1>7 DEF Think
  <2>3. "check" \notin Unbacked
    BY DEF Unbacked
  <2> QED BY <2>1, <2>2, <2>3, MarkPlain
<1>8. CASE CommitTurn(p)
  <2>1. webhook' = webhook
    BY <1>8 DEF CommitTurn, env
  <2>2. CASE MayFinalize(run[p])
    <3>1. /\ thread' = Append(thread, -run[p].hwm) /\ chat'.mark = run[p].hwm
          /\ \E s \in {"announce", "settle"} : Becomes(p, [run[p] EXCEPT !.step = s])
      BY <1>1, <1>8, <2>2 DEF CommitTurn, Finalize, Goto, Chats
    <3>2. "announce" \notin Unbacked /\ "settle" \notin Unbacked
      BY DEF Unbacked
    <3>3. AnsweredIn(thread', chat'.mark) /\ Grows
      BY <1>1, <1>3, <3>1, AnsweredNow
    <3> QED BY <2>1, <3>1, <3>2, <3>3, MarkPlain
  <2>3. CASE ~MayFinalize(run[p])
    BY <1>8, <2>1, <2>3, MarkPlain DEF CommitTurn, EndJob, Grows
  <2> QED BY <2>2, <2>3
<1>9. CASE HandOffTurn(p)
  <2>1. webhook' = webhook /\ chat'.mark = chat.mark /\ Grows
    BY <1>1, <1>9, MarkUntouched DEF HandOffTurn, env, BotHandoff, Grows
  <2>2. PICK c : c = chat'.status
    OBVIOUS
  <2> DEFINE r == [run[p] EXCEPT !.step = "settle", !.status = c]
  <2>3. r.path # "relay" /\ r.step \notin Unbacked
    BY <1>1 DEF Runs, Unbacked
  <2>4. Becomes(p, r)
    BY <1>9, <2>2 DEF HandOffTurn
  <2> QED BY <2>1, <2>3, <2>4, MarkPlain
<1>10. CASE SettleTurn(p)
  <2>1. webhook' = webhook /\ chat'.mark = chat.mark /\ Grows /\ Becomes(p, Idle)
    BY <1>1, <1>10, MarkUntouched DEF SettleTurn, env, EndJob, Grows
  <2> QED BY <2>1, MarkPlain
<1>11. CASE JobThrows(p) \/ JobStalls(p)
  <2>1. webhook' = webhook /\ chat' = chat /\ Grows /\ (run' = run \/ Becomes(p, Idle))
    BY <1>11 DEF JobThrows, JobStalls, env, EndJob, Grows
  <2> QED BY <2>1, MarkPlain
<1>12. CASE CheckNewer(p)
  <2>1. /\ webhook' = webhook /\ chat' = chat /\ Grows
        /\ Becomes(p, Idle) \/ Becomes(p, [run[p] EXCEPT !.step = "commit"])
    BY <1>12 DEF CheckNewer, env, EndJob, Grows, Goto
  <2>2. "commit" \notin Unbacked
    BY DEF Unbacked
  <2> QED BY <2>1, <2>2, MarkPlain
<1> QED BY <1>2, <1>4, <1>5, <1>6, <1>7, <1>8, <1>9, <1>10, <1>11, <1>12 DEF Job

\* The inline path.
LEMMA MarkInline ==
  ASSUME MarkInv, TypeOK, NEW p \in Procs, Inline(p) \/ DrainThrows(p) \/ ForwardThrows(p)
  PROVE  MarkInv'
<1>1. /\ ~webhook /\ run[p].path # "relay" /\ BackedIn(run[p], thread)
      /\ run[p] \in Runs /\ chat \in Chats /\ thread \in Seq(-N..N)
  BY DEF MarkInv, BackedIn, TypeOK, Chats
<1>2. run[p].hwm \in Marks /\ chat.mark \in Marks
  BY <1>1 DEF Runs, Chats
<1>3. \A s \in {"warn", "warning", "acquire", "drain", "reason", "send", "stop", "rescue"} : s \notin Unbacked
  BY DEF Unbacked
<1>4. /\ EndForward(p) => Becomes(p, Idle)
      /\ EndDrain(p) => Becomes(p, Idle)
  BY <1>1 DEF EndForward, EndDrain
<1>5. ASSUME NEW r, BackedIn(r, thread'), Becomes(p, r), Grows, webhook' = webhook,
             chat'.mark = chat.mark \/ AnsweredIn(thread', chat'.mark)
      PROVE  MarkInv'
  <2>1. run'[p] = r /\ \A q \in Procs \ {p} : run'[q] = run[q]
    BY <1>5, Record
  <2> QED BY <1>5, <2>1, MarkKept
<1>6. CASE Forward(p)
  <2>1. webhook' = webhook /\ Grows /\ chat'.mark = chat.mark
    BY <1>1, <1>6, MarkUntouched DEF Forward, env, Grows
  <2>2. \/ Becomes(p, Idle)
        \/ \E s \in {"warn", "acquire"} : \E o : Becomes(p, [run[p] EXCEPT !.step = s, !.outcome = o])
        \/ Becomes(p, [run[p] EXCEPT !.step = "canned", !.outcome = "keyword"])
    BY <1>4, <1>6 DEF Forward
  <2>3. BackedIn([run[p] EXCEPT !.step = "canned", !.outcome = "keyword"], thread')
    BY <1>1 DEF BackedIn, Runs
  <2> QED BY <1>3, <1>5, <2>1, <2>2, <2>3, MarkPlain
<1>7. CASE ForwardWarning(p)
  <2>1. webhook' = webhook /\ Becomes(p, Idle)
    BY <1>4, <1>7 DEF ForwardWarning, env
  <2>2. CASE MayFinalize(run[p])
    <3>1. thread' = Append(thread, -run[p].hwm) /\ chat'.mark = run[p].hwm
      BY <1>1, <1>7, <2>2 DEF ForwardWarning, Finalize, Chats
    <3>2. AnsweredIn(thread', chat'.mark) /\ Grows
      BY <1>1, <1>2, <3>1, AnsweredNow
    <3> QED BY <2>1, <3>2, MarkPlain
  <2>3. CASE ~MayFinalize(run[p])
    BY <1>7, <2>1, <2>3, MarkPlain DEF ForwardWarning, Grows
  <2> QED BY <2>2, <2>3
<1>8. CASE ForwardCanned(p)
  <2>1. webhook' = webhook /\ chat' = chat
    BY <1>8 DEF ForwardCanned, env
  <2>2. CASE Fenced(run[p])
    <3>1. thread' = Append(thread, -run[p].hwm) /\ Becomes(p, [run[p] EXCEPT !.step = "escalate"])
      BY <1>8, <2>2 DEF ForwardCanned, Goto
    <3>2. Grows
      BY <1>1, <1>2, <3>1, AnsweredNow
    <3>3. run[p].outcome = "keyword"
      BY <1>1, <1>8 DEF BackedIn, ForwardCanned
    <3>4. BackedIn([run[p] EXCEPT !.step = "escalate"], thread')
      BY <1>1, <3>3 DEF BackedIn, Runs
    <3> QED BY <1>5, <2>1, <3>1, <3>2, <3>4
  <2>3. CASE ~Fenced(run[p])
    BY <1>4, <1>8, <2>1, <2>3, MarkPlain DEF ForwardCanned, Grows
  <2> QED BY <2>2, <2>3
<1>9. CASE AcquireSessionLock(p)
  <2>1. /\ webhook' = webhook /\ chat' = chat /\ Grows
        /\ Becomes(p, Idle) \/ Becomes(p, [run[p] EXCEPT !.step = "drain"])
    BY <1>4, <1>9 DEF AcquireSessionLock, env, Grows, Goto
  <2> QED BY <1>3, <2>1, MarkPlain
<1>10. CASE DrainNext(p)
  <2>1. webhook' = webhook /\ chat' = chat /\ Grows
    BY <1>10 DEF DrainNext, env, Grows
  <2>2. \/ \E m \in LatestUnanswered :
             Becomes(p, [run[p] EXCEPT !.step = "reason", !.hwm = m, !.done = @ \cup {m},
                                       !.version = chat.version])
        \/ Becomes(p, [run[p] EXCEPT !.step = "stop"])
    BY <1>10 DEF DrainNext, Goto
  <2>3. ASSUME NEW m
        PROVE  LET r == [run[p] EXCEPT !.step = "reason", !.hwm = m, !.done = @ \cup {m},
                                       !.version = chat.version]
               IN  r.path # "relay" /\ r.step \notin Unbacked
    BY <1>1, <1>3 DEF Runs
  <2> QED BY <1>3, <2>1, <2>2, <2>3, MarkPlain
<1>11. CASE DrainReason(p)
  <2>1. webhook' = webhook /\ chat' = chat /\ Grows
    BY <1>11 DEF DrainReason, env, Grows
  <2>2. \/ \E o : Becomes(p, [run[p] EXCEPT !.step = "send", !.outcome = o])
        \/ Becomes(p, [run[p] EXCEPT !.step = "stop"])
    BY <1>11 DEF DrainReason, Goto
  <2> QED BY <1>3, <2>1, <2>2, MarkPlain
<1>12. CASE DrainSend(p)
  <2>1. webhook' = webhook /\ chat' = chat
    BY <1>12 DEF DrainSend, env
  <2>2. CASE Fenced(run[p])
    <3>1. /\ thread' = Append(thread, -run[p].hwm)
          /\ \E s \in {"escalate", "advance"} : Becomes(p, [run[p] EXCEPT !.step = s])
      BY <1>12, <2>2 DEF DrainSend, Goto
    <3>2. Grows /\ AnsweredIn(thread', run[p].hwm)
      BY <1>1, <1>2, <3>1, AnsweredNow
    <3>3. \A s \in {"escalate", "advance"} : BackedIn([run[p] EXCEPT !.step = s], thread')
      BY <1>1, <3>2 DEF BackedIn, Runs
    <3> QED BY <1>5, <2>1, <3>1, <3>2, <3>3
  <2>3. CASE ~Fenced(run[p])
    <3>1. Grows /\ Becomes(p, [run[p] EXCEPT !.step = "stop"])
      BY <1>12, <2>3 DEF DrainSend, Grows, Goto
    <3> QED BY <1>3, <2>1, <3>1, MarkPlain
  <2> QED BY <2>2, <2>3
<1>13. CASE Escalate(p)
  <2>1. webhook' = webhook /\ chat'.mark = chat.mark /\ Grows
    BY <1>1, <1>13, MarkUntouched DEF Escalate, env, BotHandoff, Grows
  <2>2. PICK c : c = chat'.status
    OBVIOUS
  <2>3. CASE run[p].outcome = "handoff"
    <3> DEFINE r == [run[p] EXCEPT !.step = "advance", !.status = c]
    <3>1. Becomes(p, r) /\ run[p].step = "escalate"
      BY <1>13, <2>2, <2>3 DEF Escalate
    <3>2. AnsweredIn(thread, run[p].hwm)
      BY <1>1, <2>3, <3>1 DEF BackedIn
    <3>3. AnsweredIn(thread', run[p].hwm)
      BY <1>1, <2>1, <3>2, AnsweredKept
    <3>4. r.path = run[p].path /\ r.step = "advance" /\ r.hwm = run[p].hwm
      BY <1>1 DEF Runs
    <3>5. BackedIn(r, thread')
      BY <1>1, <3>3, <3>4 DEF BackedIn
    <3> QED BY <1>5, <2>1, <3>1, <3>5
  <2>4. CASE run[p].outcome # "handoff"
    <3>1. Becomes(p, Idle)
      BY <1>1, <1>4, <1>13, <2>4 DEF Escalate
    <3> QED BY <2>1, <3>1, MarkPlain
  <2> QED BY <2>3, <2>4
<1>14. CASE DrainAdvance(p)
  <2>1. /\ webhook' = webhook /\ Grows /\ run[p].step = "advance"
        /\ \E s \in {"drain", "stop"} : Becomes(p, [run[p] EXCEPT !.step = s])
    BY <1>14 DEF DrainAdvance, env, Grows, Goto
  <2>2. AnsweredIn(thread, run[p].hwm)
    BY <1>1, <2>1 DEF BackedIn
  <2>3. chat'.mark \in {chat.mark, run[p].hwm}
    BY <1>1, <1>14 DEF DrainAdvance, AdvanceWatermark, Larger, Chats
  <2>4. AnsweredIn(thread', run[p].hwm)
    BY <1>1, <2>1, <2>2, AnsweredKept
  <2> QED BY <1>3, <2>1, <2>3, <2>4, MarkPlain
<1>15. CASE DrainStop(p)
  <2>1. webhook' = webhook /\ chat'.mark = chat.mark /\ Grows /\ Becomes(p, Idle)
    BY <1>1, <1>4, <1>15, MarkUntouched DEF DrainStop, env, Grows
  <2> QED BY <2>1, MarkPlain
<1>16. CASE DrainRescue(p)
  <2>1. webhook' = webhook /\ chat' = chat /\ Grows
    BY <1>16 DEF DrainRescue, env, Grows
  <2> DEFINE r == [run[p] EXCEPT !.step = "escalate", !.outcome = "emergency", !.version = chat.version]
  <2>2. Becomes(p, Idle) \/ Becomes(p, r)
    BY <1>4, <1>16 DEF DrainRescue
  <2>3. r.path = run[p].path /\ r.step = "escalate" /\ r.outcome = "emergency"
    BY <1>1 DEF Runs
  <2>4. BackedIn(r, thread')
    BY <1>1, <2>3 DEF BackedIn
  <2> HIDE DEF r
  <2> QED BY <1>5, <2>1, <2>2, <2>4, MarkPlain
<1>17. CASE DrainThrows(p)
  <2>1. webhook' = webhook /\ chat' = chat /\ Grows /\ Becomes(p, [run[p] EXCEPT !.step = "rescue"])
    BY <1>17 DEF DrainThrows, env, Grows, Goto
  <2> QED BY <1>3, <2>1, MarkPlain
<1>18. CASE ForwardThrows(p)
  <2>1. webhook' = webhook /\ chat' = chat /\ Grows /\ Becomes(p, Idle)
    BY <1>18 DEF ForwardThrows, env, Grows
  <2> QED BY <2>1, MarkPlain
<1>19. CASE CheckWarning(p)
  <2>1. /\ webhook' = webhook /\ chat' = chat /\ Grows
        /\ Becomes(p, Idle) \/ Becomes(p, [run[p] EXCEPT !.step = "warning"])
    BY <1>4, <1>19 DEF CheckWarning, env, Grows, Goto
  <2> QED BY <1>3, <2>1, MarkPlain
<1> QED BY <1>6, <1>7, <1>8, <1>9, <1>10, <1>11, <1>12, <1>13, <1>14, <1>15, <1>16, <1>17, <1>18, <1>19
       DEF Inline

\* Every step keeps the watermark answered, until a custom webhook is set.
LEMMA MarkStep ==
  /\ Init => MarkInv
  /\ Inv /\ MarkInv /\ [Next]_vars => MarkInv' \/ ("webhook" \in Faults /\ webhook')
<1>1. ASSUME Init PROVE MarkInv
  <2>1. ~webhook /\ chat.mark = 0 /\ \A p \in Procs : run[p] = Idle
    BY <1>1 DEF Init
  <2> QED BY <2>1, BackedIdle DEF MarkInv
<1>2. ASSUME Inv, MarkInv, [Next]_vars
      PROVE  MarkInv' \/ ("webhook" \in Faults /\ webhook')
  <2>1. TypeOK /\ chat \in Chats
    BY <1>2 DEF Inv, TypeOK, Chats
  <2>2. CASE UNCHANGED <<run, thread, webhook>> /\ chat'.mark = chat.mark
    BY <1>2, <2>2 DEF MarkInv
  <2>3. CASE UNCHANGED vars
    BY <2>2, <2>3 DEF vars
  <2>4. CASE Surroundings
    <3>1. CASE ConfigureWebhook
      BY <3>1 DEF ConfigureWebhook
    <3>2. CASE ~ConfigureWebhook
      <4>1. UNCHANGED <<run, thread, webhook>>
        BY <2>4, <3>2 DEF Surroundings, TakeOver, HandBack, Reactivate, QuietWindowPasses, LockLapses,
           StateExpires, Unattended, env
      <4>2. chat'.mark = chat.mark
        BY <2>1, <2>4, <3>2 DEF Surroundings, TakeOver, HandBack, Reactivate, QuietWindowPasses,
           LockLapses, StateExpires, Chats
      <4> QED BY <2>2, <4>1, <4>2
    <3> QED BY <3>1, <3>2
  <2> QED BY <1>2, <2>1, <2>3, <2>4, MarkIngress, MarkJob, MarkInline DEF Next
<1> QED BY <1>1, <1>2

LEMMA MarkInductive ==
  ASSUME "webhook" \notin Faults
  PROVE  /\ Init => MarkInv
         /\ Inv /\ MarkInv /\ [Next]_vars => MarkInv'
BY MarkStep

\* As long as the tenant sets no custom webhook the watermark stands at a message
\* some reply answered, whether the coalescer or the inline drain moved it and
\* whatever fails in between: what the next run skips was answered.
THEOREM MarkAnswered == Spec => []WatermarkIsAnswered
<1>1. Init => Inv /\ (webhook \/ MarkInv)
  BY InvInductive, MarkStep
<1>2. Inv /\ (webhook \/ MarkInv) /\ [Next]_vars => (Inv /\ (webhook \/ MarkInv))'
  BY InvInductive, MarkStep, HistoryStays
<1>3. webhook \/ MarkInv => WatermarkIsAnswered
  BY DEF MarkInv, WatermarkIsAnswered, Answered, AnsweredIn
<1> QED BY <1>1, <1>2, <1>3, PTL DEF Spec

-----------------------------------------------------------------------------
(* Nothing is stranded on the coalesced path.  Every unanswered message is  *)
(* carried: by a queued job, by a process that has not picked its turn yet, *)
(* or by a run whose live turn is that message or a later one.  A carrier   *)
(* hands over before it ends: it queues a job, answers, or leaves.          *)

\* A set of naturals has a least member, a bounded one a greatest.
LEMMA LeastOf ==
  ASSUME NEW T, T \subseteq Nat, T # {}
  PROVE  \E x \in T : \A y \in T : x <= y
<1> DEFINE R == OpToRel(<, Nat)
<1>1. IsWellFoundedOn(R, Nat)
  BY NatLessThanWellFounded
<1>2. \A a, b \in Nat : <<a, b>> \in R <=> a < b
  BY DEF OpToRel
<1> HIDE DEF R
<1>3. PICK x \in T : \A y \in T : ~(<<y, x>> \in R)
  BY <1>1, WFMin
<1>4. \A y \in T : ~(y < x)
  BY <1>2, <1>3
<1> QED BY <1>3, <1>4

LEMMA GreatestOf ==
  ASSUME NEW n \in Nat, NEW T, T \subseteq 1..n, T # {}
  PROVE  \E x \in T : \A y \in T : y <= x
<1> DEFINE U == {n - x : x \in T}
<1>1. U \subseteq Nat /\ U # {}
  <2>1. \A x \in T : n - x \in Nat
    OBVIOUS
  <2> QED BY <2>1
<1>2. PICK u \in U : \A v \in U : u <= v
  BY <1>1, LeastOf
<1>3. PICK x \in T : u = n - x
  BY <1>2
<1>4. ASSUME NEW y \in T PROVE y <= x
  <2>1. n - x <= n - y
    BY <1>2, <1>3
  <2>2. x \in 1..n /\ y \in 1..n
    OBVIOUS
  <2> QED BY <2>1, <2>2
<1> QED BY <1>4

\* getNewestUnansweredUserMessage finds a message whenever there is one, and none
\* of the window is newer.
LEMMA NewestFound ==
  ASSUME TypeOK, NEW mark \in Marks
  PROVE  /\ Window(mark, N) # {} => Newest(mark) # {}
         /\ \A h \in Newest(mark), m \in Window(mark, N) : m <= h
<1>1. Len(kind) \in Nat /\ Window(mark, N) \subseteq 1..Len(kind)
  BY DEF TypeOK, Window, Arrived
<1>2. ASSUME Window(mark, N) # {} PROVE Newest(mark) # {}
  <2>1. PICK h \in Window(mark, N) : \A m \in Window(mark, N) : m <= h
    BY <1>1, <1>2, GreatestOf
  <2> QED BY <2>1 DEF Newest
<1> QED BY <1>2 DEF Newest

Queued(js) == \E a \in 0..MaxRearms : js[a] > 0

CarriesIn(r, m) ==
  \/ r.step \in {"schedule", "locked", "loaded"}
  \/ r.step \in {"turn", "think", "check", "commit"} /\ m <= r.hwm

\* A message is in hand.
InHand(m) == m <= left \/ Queued(jobs) \/ \E p \in Procs : CarriesIn(run[p], m)

CarriedInv ==
  /\ BehindInv /\ MarkInv
  /\ \A p \in Procs : run[p].step \in {"locked", "loaded"} => run[p].hwm = 0
  /\ \A m \in Window(chat.mark, N) : InHand(m)

LEMMA QueuedAdded ==
  ASSUME NEW q \in [0..MaxRearms -> Nat], NEW a \in 0..MaxRearms
  PROVE  Queued(Added(q, a))
<1>1. Added(q, a)[a] = q[a] + 1 /\ q[a] \in Nat
  BY DEF Added
<1>2. Added(q, a)[a] > 0
  BY <1>1
<1> QED BY <1>2 DEF Queued

\* A run that gives up or re-arms hands over what it carries.
LEMMA RearmHandsOver ==
  ASSUME TypeOK, NEW p \in Procs, RearmWithBackoff(p), NEW m \in Arrived,
         CarriesIn(run[p], m), run[p].step # "schedule",
         run[p].step \in {"locked", "loaded"} => run[p].hwm = 0
  PROVE  m <= left' \/ Queued(jobs')
<1>1. run[p] \in Runs /\ left \in Marks /\ jobs \in [0..MaxRearms -> Nat] /\ Len(kind) \in Nat
  BY DEF TypeOK
<1>2. run[p].attempt \in 0..MaxRearms /\ run[p].hwm \in Marks /\ m \in 1..Len(kind)
  BY <1>1 DEF Runs, Arrived
<1>3. CASE run[p].attempt + 1 > MaxRearms
  <2>1. left' = Larger(left, IF run[p].hwm = 0 THEN Len(kind) ELSE run[p].hwm)
    BY <1>3 DEF RearmWithBackoff, LeaveUpTo
  <2>2. m <= IF run[p].hwm = 0 THEN Len(kind) ELSE run[p].hwm
    BY <1>2 DEF CarriesIn
  <2> QED BY <1>1, <1>2, <2>1, <2>2 DEF Larger
<1>4. CASE ~(run[p].attempt + 1 > MaxRearms)
  <2>1. run[p].attempt + 1 \in 0..MaxRearms
    BY <1>2, <1>4
  <2> QED BY <1>1, <1>4, <2>1, QueuedAdded DEF RearmWithBackoff
<1> QED BY <1>3, <1>4

\* A step of process p keeps every message in hand if p hands over what it
\* carries and the queue is not emptied.
LEMMA CarriedStep ==
  ASSUME CarriedInv, BehindInv', MarkInv', NEW p \in Procs,
         \A q \in Procs \ {p} : run'[q] = run[q],
         run'[p].step \in {"locked", "loaded"} => run'[p].hwm = 0,
         kind' = kind, flagged \subseteq flagged', chat.mark <= chat'.mark, left <= left',
         Queued(jobs) => Queued(jobs') \/ run'[p].step \in {"schedule", "locked", "loaded"},
         \A m \in Window(chat.mark, N) :
           chat'.mark < m /\ CarriesIn(run[p], m)
             => m <= left' \/ Queued(jobs') \/ CarriesIn(run'[p], m)
  PROVE  CarriedInv'
<1>1. TypeOK /\ TypeOK'
  BY DEF CarriedInv, BehindInv, OnceInv, Inv
<1>2. /\ chat.mark \in Nat /\ chat'.mark \in Nat /\ left \in Nat /\ left' \in Nat /\ Len(kind) \in Nat
  BY <1>1 DEF TypeOK
<1>3. ASSUME NEW m \in Window(chat.mark, N)' PROVE InHand(m)'
  <2>1. m \in Window(chat.mark, N) /\ chat'.mark < m /\ m \in Nat
    <3>1. m \in 1..Len(kind) /\ chat'.mark < m /\ m <= N /\ m \notin flagged
      BY DEF Window, Arrived
    <3>2. chat.mark < m /\ m \in Nat
      BY <1>2, <3>1
    <3> QED BY <3>1, <3>2 DEF Window, Arrived
  <2>2. InHand(m)
    BY <2>1 DEF CarriedInv
  <2>3. CASE m <= left
    <3>1. m <= left'
      BY <1>2, <2>1, <2>3
    <3> QED BY <3>1 DEF InHand
  <2>4. CASE Queued(jobs)
    BY <2>4 DEF InHand, CarriesIn
  <2>5. ASSUME NEW q \in Procs, CarriesIn(run[q], m) PROVE InHand(m)'
    <3>1. CASE q = p
      BY <2>1, <2>5, <3>1 DEF InHand
    <3>2. CASE q # p
      BY <2>5, <3>2 DEF InHand
    <3> QED BY <3>1, <3>2
  <2> QED BY <2>2, <2>3, <2>4, <2>5 DEF InHand
<1>4. \A q \in Procs : run'[q].step \in {"locked", "loaded"} => run'[q].hwm = 0
  BY DEF CarriedInv
<1> QED BY <1>3, <1>4 DEF CarriedInv

\* The steps that can end a carrier's work on a message, one by one.
LEMMA CarriedJob ==
  ASSUME CarriedInv, BehindInv', MarkInv', NEW p \in Procs,
         \/ LoadSession(p) \/ PickTurn(p) \/ GateTurn(p) \/ Think(p) \/ CheckNewer(p)
         \/ CommitTurn(p) \/ HandOffTurn(p) \/ SettleTurn(p) \/ JobThrows(p) \/ JobStalls(p)
  PROVE  CarriedInv'
<1>1. TypeOK /\ ~webhook /\ run[p] \in Runs /\ chat \in Chats /\ jobs \in [0..MaxRearms -> Nat]
  <2>1. TypeOK /\ ~webhook
    BY DEF CarriedInv, BehindInv, OnceInv, Inv, MarkInv
  <2> QED BY <2>1 DEF TypeOK, Chats
<1>2. /\ run[p].mark \in Marks /\ run[p].hwm \in Marks /\ chat.mark \in Marks
      /\ run[p].attempt \in 0..MaxRearms
      /\ left \in Nat /\ Len(kind) \in Nat /\ run[p].mark <= chat.mark
  <2>1. run[p].mark \in Marks /\ run[p].hwm \in Marks /\ run[p].attempt \in 0..MaxRearms
    BY <1>1 DEF Runs
  <2>2. chat.mark \in Marks /\ left \in Nat /\ Len(kind) \in Nat
    BY <1>1 DEF TypeOK
  <2>3. BehindIn(run[p], kind, chat.mark)
    BY DEF CarriedInv, BehindInv
  <2> QED BY <2>1, <2>2, <2>3 DEF BehindIn
<1>3. run[p].step \in {"locked", "loaded"} => run[p].hwm = 0
  BY DEF CarriedInv
<1>4. /\ \A r : Becomes(p, r) => run'[p] = r
      /\ \A q \in Procs \ {p} : run'[q] = run[q]
  BY <1>1, OnlyOne, Record DEF Job
<1>5. kind' = kind /\ flagged \subseteq flagged'
  BY DEF LoadSession, PickTurn, GateTurn, Think, CheckNewer, CommitTurn, HandOffTurn, SettleTurn, JobThrows, JobStalls
<1>6. \A m \in Window(chat.mark, N) : m \in Arrived /\ m \in Nat
  BY <1>2 DEF Window, Arrived
<1>7. Idle.step = "idle"
  BY DEF Idle
<1>8. chat.mark <= chat.mark /\ left <= left
  BY <1>2
<1>9. CASE LoadSession(p)
  <2>1. run'[p] = [Loaded(run[p]) EXCEPT !.step = "loaded"]
    BY <1>4, <1>9 DEF LoadSession
  <2>2. run'[p].step = "loaded" /\ run'[p].hwm = run[p].hwm
    BY <1>1, <2>1 DEF Loaded, Runs
  <2>3. UNCHANGED <<chat, jobs, left>> /\ run[p].step = "locked"
    BY <1>9 DEF LoadSession
  <2> QED BY <1>3, <1>4, <1>5, <1>8, <2>2, <2>3, CarriedStep DEF CarriesIn
<1>10. CASE PickTurn(p)
  <2>1. UNCHANGED <<chat, left>>
    BY <1>10 DEF PickTurn
  <2>2. Window(chat.mark, N) \subseteq Window(run[p].mark, N)
    BY <1>2 DEF Window, Arrived
  <2>3. CASE Newest(run[p].mark) = {}
    <3>1. Window(chat.mark, N) = {}
      BY <1>1, <1>2, <2>2, <2>3, NewestFound
    <3>2. run'[p] = Idle /\ jobs' = jobs
      BY <1>4, <1>10, <2>3 DEF PickTurn, EndJob
    <3> QED BY <1>4, <1>5, <1>7, <1>8, <2>1, <3>1, <3>2, CarriedStep
  <2>4. CASE Newest(run[p].mark) # {} /\ ~due
    <3>1. jobs' = Added(jobs, 0) /\ run'[p] = Idle
      BY <1>1, <1>4, <1>10, <2>4 DEF PickTurn, EndJob
    <3>2. 0 \in 0..MaxRearms
      OBVIOUS
    <3>3. Queued(jobs')
      BY <1>1, <3>1, <3>2, QueuedAdded
    <3> QED BY <1>4, <1>5, <1>7, <1>8, <2>1, <3>1, <3>3, CarriedStep
  <2>5. CASE Newest(run[p].mark) # {} /\ due
    <3>1. PICK h \in Newest(run[p].mark) : run'[p] = [run[p] EXCEPT !.step = "turn", !.hwm = h]
      BY <1>1, <1>4, <1>10, <2>5 DEF PickTurn
    <3>2. jobs' = jobs
      BY <1>1, <1>10, <2>5 DEF PickTurn
    <3>3. run'[p].step = "turn" /\ run'[p].hwm = h
      BY <1>1, <3>1 DEF Runs
    <3>4. \A m \in Window(chat.mark, N) : CarriesIn(run'[p], m)
      BY <1>1, <1>2, <2>2, <3>3, NewestFound DEF CarriesIn
    <3> QED BY <1>4, <1>5, <1>8, <2>1, <3>2, <3>3, <3>4, CarriedStep
  <2> QED BY <2>3, <2>4, <2>5
<1>11. ASSUME NEW s \in {"think", "check"}, NEW o, UNCHANGED <<chat, jobs, left>>,
              run[p].step \in {"turn", "think"},
              Becomes(p, [run[p] EXCEPT !.step = s, !.outcome = o])
       PROVE  CarriedInv'
  <2>1. run'[p].step = s /\ run'[p].hwm = run[p].hwm
    BY <1>1, <1>4, <1>11 DEF Runs
  <2> QED BY <1>4, <1>5, <1>8, <1>11, <2>1, CarriedStep DEF CarriesIn
<1>12. CASE GateTurn(p)
  <2>1. jobs' = jobs /\ run[p].step = "turn" /\ chat'.mark = chat.mark
    BY <1>1, <1>12, MarkUntouched DEF GateTurn
  <2>2. CASE LeaveUpTo(run[p].hwm) /\ Becomes(p, Idle)
    <3>1. left <= left' /\ run[p].hwm <= left'
      BY <1>2, <2>2 DEF LeaveUpTo, Larger
    <3>2. left' \in Nat
      BY <1>2, <2>2 DEF LeaveUpTo, Larger
    <3>3. ASSUME NEW m \in Window(chat.mark, N), CarriesIn(run[p], m) PROVE m <= left'
      <4>1. m <= run[p].hwm
        BY <2>1, <3>3 DEF CarriesIn
      <4> QED BY <1>2, <1>6, <3>1, <3>2, <3>3, <4>1
    <3> QED BY <1>4, <1>5, <1>7, <1>8, <2>1, <2>2, <3>1, <3>3, CarriedStep
  <2>3. CASE /\ UNCHANGED <<chat, left>>
             /\ \E s \in {"think", "check"} :
                  Becomes(p, [run[p] EXCEPT !.step = s, !.outcome = Autoresponse(run[p])])
    BY <1>11, <2>1, <2>3
  <2> QED BY <1>12, <2>2, <2>3 DEF GateTurn, EndJob
<1>13. CASE Think(p)
  <2>1. \E o : Becomes(p, [run[p] EXCEPT !.step = "check", !.outcome = o])
    BY <1>13 DEF Think
  <2>2. UNCHANGED <<chat, jobs, left>> /\ run[p].step = "think"
    BY <1>13 DEF Think
  <2> QED BY <1>11, <2>1, <2>2
<1>14. CASE RearmWithBackoff(p) /\ Becomes(p, Idle) /\ chat' = chat /\ run[p].step # "schedule"
  <2>1. left <= left' /\ (Queued(jobs) => Queued(jobs'))
    <3>1. CASE run[p].attempt + 1 > MaxRearms
      BY <1>2, <1>14, <3>1 DEF RearmWithBackoff, LeaveUpTo, Larger
    <3>2. CASE ~(run[p].attempt + 1 > MaxRearms)
      <4>0. run[p].attempt \in 0..MaxRearms
        BY <1>2
      <4>1. run[p].attempt + 1 \in 0..MaxRearms
        BY <3>2, <4>0
      <4> QED BY <1>1, <1>8, <1>14, <3>2, <4>1, QueuedAdded DEF RearmWithBackoff
    <3> QED BY <3>1, <3>2
  <2>2. \A m \in Window(chat.mark, N) : CarriesIn(run[p], m) => m <= left' \/ Queued(jobs')
    BY <1>1, <1>3, <1>6, <1>14, RearmHandsOver
  <2> QED BY <1>4, <1>5, <1>7, <1>8, <1>14, <2>1, <2>2, CarriedStep
<1>15. CASE CommitTurn(p)
  <2>1. CASE MayFinalize(run[p])
    <3>1. /\ chat'.mark = run[p].hwm /\ chat.mark < run[p].hwm /\ UNCHANGED <<jobs, left>>
          /\ run[p].step = "commit"
          /\ Goto(p, "announce") \/ Goto(p, "settle")
      BY <1>1, <1>15, <2>1 DEF CommitTurn, Finalize, MayFinalize, Chats
    <3>2. run'[p].step \in {"announce", "settle"}
      BY <1>1, <1>4, <3>1 DEF Goto, Runs
    <3>3. \A m \in Window(chat.mark, N) : ~(chat'.mark < m /\ CarriesIn(run[p], m))
      BY <1>2, <1>6, <3>1 DEF CarriesIn
    <3>4. chat.mark <= chat'.mark
      BY <1>2, <3>1
    <3> QED BY <1>4, <1>5, <1>8, <3>1, <3>2, <3>3, <3>4, CarriedStep
  <2>2. CASE ~MayFinalize(run[p])
    BY <1>14, <1>15, <2>2 DEF CommitTurn, EndJob
  <2> QED BY <2>1, <2>2
<1>19. CASE CheckNewer(p)
  <2>1. CASE ~StaleAtSnapshot(run[p])
    <3>1. run'[p] = [run[p] EXCEPT !.step = "commit"] /\ run[p].step = "check"
          /\ UNCHANGED <<chat, jobs, left>>
      BY <1>4, <1>19, <2>1 DEF CheckNewer, Goto
    <3>2. run'[p].step = "commit" /\ run'[p].hwm = run[p].hwm
      BY <1>1, <3>1 DEF Runs
    <3> QED BY <1>4, <1>5, <1>8, <3>1, <3>2, CarriedStep DEF CarriesIn
  <2>2. CASE StaleAtSnapshot(run[p])
    BY <1>14, <1>19, <2>2 DEF CheckNewer, EndJob
  <2> QED BY <2>1, <2>2
<1>16. CASE HandOffTurn(p) \/ SettleTurn(p)
  <2>1. run[p].step \in {"announce", "settle"} /\ UNCHANGED <<jobs, left>>
    BY <1>16 DEF HandOffTurn, SettleTurn
  <2>2. chat'.mark = chat.mark
    BY <1>1, <1>16, MarkUntouched DEF HandOffTurn, SettleTurn
  <2>3. run'[p].step \in {"settle", "idle"}
    <3>1. CASE HandOffTurn(p)
      <4>1. run'[p] = [run[p] EXCEPT !.step = "settle", !.status = chat'.status]
        BY <1>4, <3>1 DEF HandOffTurn
      <4> QED BY <1>1, <4>1 DEF Runs
    <3>2. CASE SettleTurn(p)
      BY <1>4, <1>7, <3>2 DEF SettleTurn, EndJob
    <3> QED BY <1>16, <3>1, <3>2
  <2>4. \A m : ~CarriesIn(run[p], m)
    BY <2>1 DEF CarriesIn
  <2> QED BY <1>4, <1>5, <1>8, <2>1, <2>2, <2>3, <2>4, CarriedStep
<1>17. CASE JobThrows(p)
  BY <1>14, <1>17 DEF JobThrows, EndJob, JobSteps
<1>18. CASE JobStalls(p)
  <2>1. jobs' = Added(jobs, run[p].attempt) /\ UNCHANGED <<chat, left>> /\ (run' = run \/ Becomes(p, Idle))
    BY <1>18 DEF JobStalls
  <2>2. Queued(jobs')
    BY <1>1, <1>2, <2>1, QueuedAdded
  <2>3. run'[p].step \in {"locked", "loaded"} => run'[p].hwm = 0
    BY <1>3, <1>4, <1>7, <2>1
  <2> QED BY <1>4, <1>5, <1>8, <2>1, <2>2, <2>3, CarriedStep
<1> QED BY <1>9, <1>10, <1>12, <1>13, <1>15, <1>16, <1>17, <1>18, <1>19

\* Every step of the coalesced path keeps every message in hand.
LEMMA CarriedInductive ==
  ASSUME {"schedule", "webhook"} \cap Faults = {}
  PROVE  /\ Init => CarriedInv
         /\ CarriedInv /\ [Next]_vars => CarriedInv'
<1>1. ASSUME Init PROVE CarriedInv
  <2>1. BehindInv /\ MarkInv
    BY <1>1, BehindInductive, MarkInductive
  <2>2. kind = <<>> /\ \A p \in Procs : run[p].step = "idle"
    BY <1>1 DEF Init, Idle
  <2>3. Window(chat.mark, N) = {}
    BY <2>2 DEF Window, Arrived
  <2> QED BY <2>1, <2>2, <2>3 DEF CarriedInv
<1>2. ASSUME CarriedInv, [Next]_vars PROVE CarriedInv'
  <2>1. BehindInv /\ BehindInv' /\ MarkInv /\ MarkInv' /\ TypeOK /\ TypeOK' /\ Coalesced /\ OnceInv
    <3>1. BehindInv /\ BehindInv' /\ MarkInv
      BY <1>2, BehindInductive DEF CarriedInv
    <3>2. Inv /\ TypeOK /\ TypeOK' /\ Coalesced /\ OnceInv
      BY <3>1 DEF BehindInv, OnceInv, Inv
    <3> QED BY <1>2, <3>1, <3>2, MarkInductive
  <2>2. chat \in Chats /\ chat.mark \in Nat /\ left \in Nat /\ jobs \in [0..MaxRearms -> Nat]
    <3>1. TypeOK
      BY <2>1
    <3>2. left \in Nat /\ jobs \in [0..MaxRearms -> Nat]
      BY <3>1 DEF TypeOK
    <3> QED BY <3>1, <3>2, TypeFacts
  <2>3. CASE UNCHANGED <<run, kind, flagged, jobs, left>> /\ chat'.mark = chat.mark
    <3>1. Window(chat.mark, N)' = Window(chat.mark, N)
      BY <2>3 DEF Window, Arrived
    <3>2. \A m : InHand(m)' <=> InHand(m)
      BY <2>3 DEF InHand
    <3> QED BY <1>2, <2>1, <2>3, <3>1, <3>2 DEF CarriedInv
  <2>4. CASE UNCHANGED vars
    BY <2>3, <2>4 DEF vars
  <2>5. CASE Surroundings
    <3>1. UNCHANGED <<run, kind, flagged, jobs, left>>
      BY <2>5 DEF Surroundings, TakeOver, HandBack, Reactivate, QuietWindowPasses, LockLapses,
         ConfigureWebhook, StateExpires, Unattended
    <3>2. chat'.mark = chat.mark
      BY <2>2, <2>5 DEF Surroundings, TakeOver, HandBack, Reactivate, QuietWindowPasses, LockLapses,
         ConfigureWebhook, StateExpires, Chats
    <3> QED BY <2>3, <3>1, <3>2
  <2>6. ASSUME NEW p \in Procs,
               \/ \E k \in Kinds : Ingest(p, k)
               \/ \E a \in 0..MaxRearms : TakeJob(p, a)
               \/ Ingress(p) \/ Job(p) \/ Inline(p)
               \/ JobThrows(p) \/ DrainThrows(p) \/ ForwardThrows(p) \/ JobStalls(p)
        PROVE  CarriedInv'
    <3>1. ~Inline(p) /\ ~DrainThrows(p) /\ ~ForwardThrows(p) /\ ~RelayNext(p) /\ ~RelayAdvance(p)
      BY <2>1, <2>6, CoalescedStep
    <3>2. /\ \A q \in Procs \ {p} : run'[q] = run[q]
          /\ \A r : Becomes(p, r) => run'[p] = r
      BY <2>1, <2>6, OnlyOne, Record
    <3>3. ~ScheduleCustomWebhook(p) /\ ~ScheduleFails(p)
      BY <2>1 DEF Coalesced, ScheduleCustomWebhook, ScheduleFails
    <3>4. CASE \E k \in Kinds : Ingest(p, k)
      <4>1. run'[p] = [Loaded(Idle) EXCEPT !.step = "schedule", !.path = "inline", !.hwm = Len(kind) + 1]
        BY <3>2, <3>4 DEF Ingest
      <4>2. run'[p].step = "schedule"
        BY <4>1 DEF Loaded, Idle
      <4>3. \A m : InHand(m)'
        BY <4>2 DEF InHand, CarriesIn
      <4>4. \A q \in Procs : run'[q].step \in {"locked", "loaded"} => run'[q].hwm = 0
        BY <1>2, <3>2, <4>2 DEF CarriedInv
      <4> QED BY <2>1, <4>3, <4>4 DEF CarriedInv
    <3>5. 0 \in 0..MaxRearms /\ chat.mark <= chat.mark /\ left <= left
      BY <2>2
    <3>6. CASE ScheduleTurn(p)
      <4>1. /\ jobs' = Added(jobs, 0) /\ run'[p] = Idle
            /\ UNCHANGED <<kind, flagged, chat, left>>
        BY <3>2, <3>6 DEF ScheduleTurn
      <4>2. Queued(jobs') /\ Idle.step = "idle"
        BY <2>2, <3>5, <4>1, QueuedAdded DEF Idle
      <4> QED BY <1>2, <2>1, <3>2, <3>5, <4>1, <4>2, CarriedStep
    <3>7. ASSUME NEW a \in 0..MaxRearms, TakeJob(p, a) PROVE CarriedInv'
      <4>1. UNCHANGED <<kind, flagged, chat, left>> /\ run[p].step = "idle"
        BY <3>7 DEF TakeJob
      <4>2. CASE lock = Free
        <5>1. run'[p] = [Idle EXCEPT !.step = "locked", !.path = "job", !.attempt = a]
          BY <3>2, <3>7, <4>2 DEF TakeJob
        <5>2. run'[p].step = "locked" /\ run'[p].hwm = 0
          BY <5>1 DEF Idle
        <5> QED BY <1>2, <2>1, <3>2, <3>5, <4>1, <5>2, CarriedStep DEF CarriesIn
      <4>3. CASE lock # Free
        <5>1. run' = run /\ jobs' = Added(Removed(jobs, a), 0) /\ jobs[a] > 0
          BY <3>7, <4>3 DEF TakeJob
        <5>2. Removed(jobs, a) \in [0..MaxRearms -> Nat]
          BY <2>2, <5>1, AddedType
        <5>3. Queued(jobs')
          BY <3>5, <5>1, <5>2, QueuedAdded
        <5> QED BY <1>2, <2>1, <3>2, <3>5, <4>1, <5>1, <5>3, CarriedStep
      <4> QED BY <4>2, <4>3
    <3>8. CASE \/ LoadSession(p) \/ PickTurn(p) \/ GateTurn(p) \/ Think(p) \/ CheckNewer(p)
               \/ CommitTurn(p) \/ HandOffTurn(p) \/ SettleTurn(p) \/ JobThrows(p) \/ JobStalls(p)
      BY <1>2, <2>1, <3>8, CarriedJob
    <3> QED BY <2>6, <3>1, <3>3, <3>4, <3>6, <3>7, <3>8 DEF Ingress, Job
  <2> QED BY <1>2, <2>4, <2>5, <2>6 DEF Next
<1> QED BY <1>1, <1>2

\* On the coalesced path no message is stranded: when nothing is queued and nobody
\* runs, every message is answered or covered by a later answer, flagged, or was
\* left on purpose, although locks lapse, jobs stall and are repeated, commits turn
\* out stale and operators come and go (scheduleTurn, coalesceProcessor,
\* rearmWithBackoff).
THEOREM CoalescedNotStranded ==
  ASSUME {"schedule", "webhook"} \cap Faults = {}
  PROVE  Spec => []NoMessageStranded
<1>1. (Init => CarriedInv) /\ (CarriedInv /\ [Next]_vars => CarriedInv')
  BY CarriedInductive
<1>2. ASSUME CarriedInv PROVE NoMessageStranded
  <2> SUFFICES ASSUME AtRest, NEW m \in Arrived, m \notin flagged, ~(m <= left)
               PROVE  \E n \in Arrived : m <= n /\ Answered(n)
    BY DEF NoMessageStranded
  <2>1. TypeOK /\ chat.mark <= Len(kind)
    BY <1>2 DEF CarriedInv, BehindInv, OnceInv, Inv
  <2>2. Len(kind) \in Nat /\ Len(kind) <= N /\ chat.mark \in Nat /\ m \in 1..Len(kind)
    BY <2>1 DEF TypeOK, Arrived
  <2>3. ~InHand(m)
    BY DEF AtRest, InHand, CarriesIn, Queued
  <2>4. m \notin Window(chat.mark, N)
    BY <1>2, <2>3 DEF CarriedInv
  <2>5. m <= chat.mark /\ chat.mark \in Arrived
    BY <2>1, <2>2, <2>4 DEF Window, Arrived
  <2>6. Answered(chat.mark)
    BY <1>2, <2>2, <2>5 DEF CarriedInv, MarkInv, AnsweredIn, Answered
  <2> QED BY <2>5, <2>6
<1> QED BY <1>1, <1>2, PTL DEF Spec

-----------------------------------------------------------------------------
(* Ownership, as the pipeline sees it.  What it assumes of the operators'   *)
(* commands, and what its own handoff does, are steps of Ownership, which   *)
(* the command service implements: a human's turn begins or ends, and the   *)
(* version counts it.                                                       *)

Owner == IF chat.status \in Serves THEN "bot_owned" ELSE "human_owned"

Seen == INSTANCE Ownership WITH Agents <- {}, NULL <- "nobody", owner <- Owner,
                                holder <- "nobody", version <- chat.version

\* The row from c to d: the same ownership, or the next.
Passes(c, d) ==
  \/ d.version = c.version /\ (d.status \in Serves <=> c.status \in Serves)
  \/ d.version = c.version + 1 /\ (d.status \in Serves <=> c.status \notin Serves)

LEMMA RowPasses ==
  ASSUME TypeOK
  PROVE  /\ UNCHANGED chat => Passes(chat, chat')
         /\ PauseAutoReply => Passes(chat, chat')
         /\ \A r : WaitingToBot(r) => Passes(chat, chat')
         /\ \A r : Finalize(r) => Passes(chat, chat')
         /\ \A m : AdvanceWatermark(m) => Passes(chat, chat')
         /\ BotHandoff => Passes(chat, chat')
<1>1. chat \in Chats
  BY DEF TypeOK, Chats
<1>2. UNCHANGED chat => Passes(chat, chat')
  BY DEF Passes
<1>3. PauseAutoReply => Passes(chat, chat')
  BY <1>1 DEF Chats, PauseAutoReply, Passes
<1>4. ASSUME NEW r, WaitingToBot(r) PROVE Passes(chat, chat')
  BY <1>1, <1>4 DEF Chats, WaitingToBot, Serves, Passes
<1>5. ASSUME NEW r, Finalize(r) PROVE Passes(chat, chat')
  BY <1>1, <1>5 DEF Chats, Finalize, Passes
<1>6. ASSUME NEW m, AdvanceWatermark(m) PROVE Passes(chat, chat')
  BY <1>1, <1>6 DEF Chats, AdvanceWatermark, Passes
<1>7. ASSUME BotHandoff PROVE Passes(chat, chat')
  <2>1. CASE chat' = chat
    BY <1>2, <2>1
  <2>2. CASE chat.status \in Serves /\ chat' = [chat EXCEPT !.status = "human", !.version = @ + 1]
    <3>1. chat'.status = "human" /\ chat'.version = chat.version + 1
      BY <1>1, <2>2 DEF Chats
    <3> QED BY <2>2, <3>1 DEF Passes, Serves
  <2> QED BY <1>7, <2>1, <2>2 DEF BotHandoff
<1> QED BY <1>2, <1>3, <1>4, <1>5, <1>6, <1>7

LEMMA StepPasses ==
  ASSUME TypeOK, Next
  PROVE  Passes(chat, chat')
<1>1. chat \in Chats
  BY DEF TypeOK, Chats
<1>2. ASSUME NEW p \in Procs, Job(p) \/ JobThrows(p) PROVE Passes(chat, chat')
  BY <1>2, RowPasses DEF Job, LoadSession, PickTurn, GateTurn, Think, CheckNewer, CommitTurn, HandOffTurn,
     SettleTurn, RelayNext, RelayAdvance, JobThrows
<1>3. ASSUME NEW p \in Procs, Inline(p) \/ DrainThrows(p) \/ ForwardThrows(p)
      PROVE  Passes(chat, chat')
  BY <1>3, RowPasses DEF Inline, Forward, CheckWarning, ForwardWarning, ForwardCanned, AcquireSessionLock,
     DrainNext, DrainReason, DrainSend, Escalate, DrainAdvance, DrainStop, DrainThrows,
     DrainRescue, ForwardThrows
<1>4. ASSUME NEW p \in Procs,
             \/ \E k \in Kinds : Ingest(p, k)
             \/ \E a \in 0..MaxRearms : TakeJob(p, a)
             \/ Ingress(p) \/ JobStalls(p)
      PROVE  Passes(chat, chat')
  BY <1>4, RowPasses DEF Ingest, TakeJob, Ingress, ScheduleTurn, ScheduleCustomWebhook,
     ScheduleFails, JobStalls
<1>5. CASE TakeOver \/ HandBack
  <2>1. /\ chat'.version = chat.version + 1
        /\ chat'.status \in Serves <=> chat.status \notin Serves
    BY <1>1, <1>5 DEF Chats, TakeOver, HandBack, Serves
  <2> QED BY <2>1 DEF Passes
<1>6. CASE Reactivate
  BY <1>1, <1>6 DEF Passes, Chats, Reactivate
<1>7. CASE QuietWindowPasses \/ LockLapses \/ ConfigureWebhook \/ StateExpires
  BY <1>7, RowPasses DEF QuietWindowPasses, LockLapses, ConfigureWebhook, StateExpires
<1> QED BY <1>2, <1>3, <1>4, <1>5, <1>6, <1>7 DEF Next, Surroundings

\* The turn pipeline, whatever fails, sees and causes only the changes of owner
\* that Ownership has: handleBotHandoff, finalizeReply and the watermark's
\* updates neither change the owner without the version nor the version without
\* the owner.
THEOREM SeesOwnership == Spec => Seen!Spec
<1>1. Init => Seen!Init
  BY DEF Init, Seen!Init, Owner
<1>2. TypeOK /\ [Next]_vars => [Seen!Next]_Seen!ownershipVars
  <2> SUFFICES ASSUME TypeOK, [Next]_vars PROVE [Seen!Next]_Seen!ownershipVars
    OBVIOUS
  <2>1. CASE Next
    <3>1. Passes(chat, chat')
      BY <2>1, StepPasses
    <3>2. CASE chat'.version = chat.version /\ (chat'.status \in Serves <=> chat.status \in Serves)
      BY <3>2 DEF Seen!ownershipVars, Owner
    <3>3. CASE chat'.version = chat.version + 1 /\ chat.status \in Serves /\ chat'.status \notin Serves
      <4>1. Seen!Pause
        BY <3>3 DEF Seen!Pause, Seen!Begins, Owner
      <4> QED BY <4>1 DEF Seen!Next
    <3>4. CASE chat'.version = chat.version + 1 /\ chat.status \notin Serves /\ chat'.status \in Serves
      <4>1. Seen!Return
        BY <3>4 DEF Seen!Return, Seen!Begins, Owner
      <4> QED BY <4>1 DEF Seen!Next
    <3> QED BY <3>1, <3>2, <3>3, <3>4 DEF Passes
  <2>2. CASE UNCHANGED vars
    BY <2>2 DEF vars, Seen!ownershipVars, Owner
  <2> QED BY <2>1, <2>2
<1> QED BY <1>1, <1>2, TypeCorrect, PTL DEF Spec, Seen!Spec

=============================================================================
