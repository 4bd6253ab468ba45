--------------------------- MODULE ChannelsProofs ---------------------------
(***************************************************************************)
(* Theorems about Channels, for any number of events, concurrent runs,     *)
(* sessions, replies, deliveries and faults.                               *)
(***************************************************************************)
EXTENDS Channels, TLAPS, FiniteSetTheorems

-----------------------------------------------------------------------------
(* The inductive invariant.                                                *)

\* A run works on an event, and knows whether it has saved the message.
RunsAgree ==
  \A w \in Workers :
    /\ run[w].e = NULL <=> run[w].pc = "idle"
    /\ run[w].pc = "idle" => run[w] = IdleRun
    /\ run[w].pc = "after" => run[w].saved
    /\ run[w].saved => run[w].pc \in {"after", "failed"}
    /\ run[w].saved => copies[run[w].e] > 0

\* A job that may run has attempts left, a job with an owner is running, and the
\* job of an event is queued when the event has arrived.
Fit(j) ==
  /\ j.state \notin {"done", "dead"} => j.failures < ATTEMPTS
  /\ j.owner # NULL => j.state = "active"
JobsAgree ==
  \A e \in Events : Fit(job[e]) /\ (log[e] = "none" => job[e].state = "none")

\* The verdicts on an event: what each says was done.
VerdictsAgree ==
  \A e \in Events :
    /\ log[e] = "processed" => copies[e] > 0
    /\ log[e] = "skipped" => e \in skipped
    /\ job[e].state = "done" => copies[e] > 0 \/ e \in skipped

\* The runs of e that are past the check for duplicates and have not saved, and
\* those that have.
Unsaved(e) == {w \in Workers : run[w].e = e /\ run[w].pc # "dedupe" /\ ~ run[w].saved}
SavedRuns(e) == {w \in Workers : run[w].e = e /\ run[w].saved}

\* The copies of a message and the ones that may still come are one more than
\* the runs that were torn, and no more than those when nobody is at work and
\* the log would let the next run through.
CopiesAccounted ==
  \A e \in Events :
    /\ copies[e] + Cardinality(Unsaved(e)) <= torn[e] + 1
    /\ Unsaved(e) \cup SavedRuns(e) = {} /\ ~ Seen(e) => copies[e] <= torn[e]

\* A run opens a session only when it found none, or a closed one.
ThreadKnown ==
  /\ binding # NoSession => session[binding] # "none"
  /\ \A w \in Workers : run[w].pc = "open" /\ run[w].bound # NoSession =>
       session[run[w].bound] = "closed"

\* A delivery has a reply, and the channel took what it is going to report.
DeliveriesAgree ==
  \A t \in Tasks :
    /\ task[t].r = NULL <=> task[t].pc = "idle"
    /\ task[t].pc = "took" => taken[task[t].r] > 0

IInv ==
  /\ ChannelsTypeOK /\ RunsAgree /\ JobsAgree /\ VerdictsAgree
  /\ CopiesAccounted /\ ThreadKnown /\ OneThread /\ DeliveriesAgree /\ SentWasTaken

-----------------------------------------------------------------------------
(* What the steps do, as the invariant sees it.                            *)

\* The run of worker w becomes q, whose event is the same or none.
Becomes(w, q) == q \in Runs /\ run' = [run EXCEPT ![w] = q]

\* The jobs keep their shape; one is done only when its event is seen.
JobsFollow ==
  /\ job' \in [Events -> Jobs]
  /\ \A x \in Events :
       /\ Fit(job'[x])
       /\ job'[x].state = "done" => job[x].state = "done" \/ Seen(x)'
       /\ log'[x] = "none" => job'[x].state = "none"

\* An event that has arrived stays.
LogGrows == \A x \in Events : log'[x] = "none" => log[x] = "none"

\* The run goes on.
Advances(w, q) ==
  /\ Becomes(w, q) /\ run[w].pc \notin {"idle", "dedupe"} /\ UNCHANGED <<copies, torn, skipped>>
  /\ q.e = run[w].e /\ q.saved = run[w].saved
  /\ q.pc \notin {"idle", "dedupe", "after"} /\ (q.saved => q.pc = "failed")
  /\ log' = log \/ log' = [log EXCEPT ![run[w].e] = "processing"]

\* The run passes the check for duplicates.
Begins(w, q) ==
  /\ Becomes(w, q) /\ run[w].pc = "dedupe" /\ UNCHANGED <<copies, skipped, log>>
  /\ q.e = run[w].e /\ ~ q.saved /\ q.pc = "mark" /\ ~ Seen(run[w].e)
  /\ torn' = IF Overlaps(w) THEN [torn EXCEPT ![run[w].e] = @ + 1] ELSE torn

\* The run saves the message.
Saves(w, q) ==
  /\ Becomes(w, q) /\ run[w].pc = "save" /\ UNCHANGED <<torn, skipped, log>>
  /\ q.e = run[w].e /\ q.saved /\ q.pc = "after"
  /\ copies' = [copies EXCEPT ![run[w].e] = @ + 1]

\* The run ends without a verdict, or with the verdict that it failed.
Fails(w) ==
  /\ Becomes(w, IdleRun) /\ run[w].pc # "idle" /\ UNCHANGED <<copies, skipped>>
  /\ torn' = IF run[w].saved THEN [torn EXCEPT ![run[w].e] = @ + 1] ELSE torn
  /\ \/ log' = log
     \/ run[w].pc = "failed" /\ log' = [log EXCEPT ![run[w].e] = "failed"]

\* The run ends and its event is seen.
Finishes(w) ==
  /\ Becomes(w, IdleRun) /\ UNCHANGED <<copies, torn>>
  /\ \/ /\ run[w].pc = "dedupe" /\ Seen(run[w].e) /\ UNCHANGED <<log, skipped>>
     \/ /\ run[w].pc = "gate" /\ log' = [log EXCEPT ![run[w].e] = "skipped"]
        /\ skipped' = skipped \cup {run[w].e}
     \/ /\ run[w].pc = "after" /\ log' = [log EXCEPT ![run[w].e] = "processed"]
        /\ UNCHANGED skipped

\* Bull gives an event to an idle worker.
Taken(w, e) ==
  /\ Becomes(w, [IdleRun EXCEPT !.e = e, !.pc = "dedupe"])
  /\ run[w] = IdleRun /\ UNCHANGED <<copies, torn, skipped, log>>

RunEffect(w) ==
  /\ JobsFollow
  /\ \/ \E q \in Runs : Advances(w, q) \/ Begins(w, q) \/ Saves(w, q)
     \/ Fails(w) \/ Finishes(w)

\* No run moves; at most an event arrives.
AtRest ==
  /\ UNCHANGED <<run, copies, torn, skipped>> /\ JobsFollow
  /\ \/ log' = log
     \/ \E e \in Events : log[e] = "none" /\ log' = [log EXCEPT ![e] = "received"]

\* A run is a record of its four parts.
LEMMA RunParts ==
  ASSUME ChannelsTypeOK, NEW w \in Workers
  PROVE  /\ run[w] \in Runs
         /\ run[w] = [e |-> run[w].e, pc |-> run[w].pc, bound |-> run[w].bound,
                      saved |-> run[w].saved]
BY DEF ChannelsTypeOK, Runs

\* IdleRun is a run.
LEMMA IdleRunType == IdleRun \in Runs
BY DEF IdleRun, Runs, RunPcs, NoSession

\* Goto changes the place of a run only.
LEMMA GotoEffect ==
  ASSUME ChannelsTypeOK, NEW w \in Workers, NEW pc \in RunPcs, Goto(w, pc)
  PROVE  \E q \in Runs : /\ Becomes(w, q) /\ q.pc = pc /\ q.e = run[w].e
                         /\ q.saved = run[w].saved /\ q.bound = run[w].bound
<1> DEFINE q == [run[w] EXCEPT !.pc = pc]
<1>1. q \in Runs /\ q.pc = pc /\ q.e = run[w].e /\ q.saved = run[w].saved
      /\ q.bound = run[w].bound
  BY DEF ChannelsTypeOK, Runs
<1>2. run' = [run EXCEPT ![w] = q]
  BY DEF Goto
<1> QED  BY <1>1, <1>2 DEF Becomes

\* Complete frees the run, and counts its job as done.
LEMMA CompleteEffect ==
  ASSUME ChannelsTypeOK, JobsAgree, NEW w \in Workers, NEW e \in Events,
         run[w].e = e, Complete(w), Seen(e)', LogGrows
  PROVE  Becomes(w, IdleRun) /\ JobsFollow
<1> DEFINE j == [job[e] EXCEPT !.state = "done", !.owner = NULL]
<1>1. job \in [Events -> Jobs] /\ job[e] \in Jobs
  BY DEF ChannelsTypeOK
<1>2. job' = job \/ job' = [job EXCEPT ![e] = j]
  BY DEF Complete
<1>3. CASE job' = job
  BY <1>1, <1>3, IdleRunType DEF JobsFollow, JobsAgree, Becomes, Complete, LogGrows
<1>4. CASE job' = [job EXCEPT ![e] = j]
  <2>1. j \in Jobs /\ Fit(j) /\ log'[e] # "none"
    BY <1>1 DEF Jobs, Fit, Seen
  <2> HIDE DEF j
  <2>2. JobsFollow
    BY <1>1, <1>4, <2>1 DEF JobsFollow, JobsAgree, LogGrows
  <2> QED  BY <2>2, IdleRunType DEF Becomes, Complete
<1> QED  BY <1>2, <1>3, <1>4

\* AttemptFails frees the run, and makes no job done.
LEMMA AttemptFailsEffect ==
  ASSUME ChannelsTypeOK, JobsAgree, NEW w \in Workers, run[w].e \in Events,
         AttemptFails(w), LogGrows
  PROVE  Becomes(w, IdleRun) /\ JobsFollow
<1> DEFINE e == run[w].e
<1> DEFINE n == job[e].failures + 1
<1> DEFINE st == IF n < ATTEMPTS THEN "waiting" ELSE "dead"
<1> DEFINE j == [job[e] EXCEPT !.state = st, !.owner = NULL, !.failures = n]
<1>1. job \in [Events -> Jobs] /\ job[e] \in Jobs
  BY DEF ChannelsTypeOK
<1>2. job' = job \/ (job[e].owner = w /\ job' = [job EXCEPT ![e] = j])
  BY DEF AttemptFails
<1>3. CASE job' = job
  BY <1>1, <1>3, IdleRunType DEF JobsFollow, JobsAgree, Becomes, AttemptFails, LogGrows
<1>4. CASE job[e].owner = w /\ job' = [job EXCEPT ![e] = j]
  <2>1. job[e].state = "active" /\ log[e] # "none"
    BY <1>4, ChannelsAssumption DEF JobsAgree, Fit
  <2>2. n \in 0..ATTEMPTS
    BY <1>1, <2>1, ChannelsAssumption DEF JobsAgree, Fit, Jobs
  <2>3. st \in {"waiting", "dead"} /\ (st = "waiting" => n < ATTEMPTS)
    OBVIOUS
  <2> HIDE DEF st, n
  <2>4. j \in Jobs /\ Fit(j) /\ j.state # "done"
    BY <1>1, <2>2, <2>3 DEF Jobs, Fit
  <2> HIDE DEF j
  <2>5. JobsFollow
    BY <1>1, <1>4, <2>1, <2>4 DEF JobsFollow, JobsAgree, LogGrows
  <2> QED  BY <2>5, IdleRunType DEF Becomes, AttemptFails
<1> QED  BY <1>2, <1>3, <1>4

\* The event of a run that is at work.
LEMMA AtWork ==
  ASSUME ChannelsTypeOK, RunsAgree, NEW w \in Workers, run[w].pc # "idle"
  PROVE  run[w].e \in Events
BY ChannelsAssumption DEF ChannelsTypeOK, RunsAgree, Runs

-----------------------------------------------------------------------------
(* What each action does.                                                  *)

\* A run that finds its event seen completes; another begins.
LEMMA DedupeEffect ==
  ASSUME ChannelsTypeOK, RunsAgree, JobsAgree, NEW w \in Workers, Dedupe(w)
  PROVE  RunEffect(w)
<1> DEFINE e == run[w].e
<1>1. e \in Events /\ ~ run[w].saved
  BY AtWork DEF Dedupe, RunsAgree
<1>2. CASE Seen(e)
  <2>1. LogGrows /\ log' = log
    BY DEF LogGrows, Dedupe
  <2>2. \A x \in Events : Seen(x)' <=> Seen(x)
    BY <2>1 DEF Seen
  <2>3. Becomes(w, IdleRun) /\ JobsFollow
    BY <1>1, <1>2, <2>1, <2>2, CompleteEffect DEF Dedupe
  <2> QED  BY <1>2, <2>3 DEF RunEffect, Finishes, Dedupe
<1>3. CASE ~ Seen(e)
  <2>1. Goto(w, "mark") /\ UNCHANGED <<job, log, copies, skipped>>
    BY <1>3 DEF Dedupe
  <2>2. PICK q \in Runs : /\ Becomes(w, q) /\ q.pc = "mark" /\ q.e = run[w].e
                          /\ q.saved = run[w].saved
    BY <2>1, GotoEffect DEF RunPcs
  <2>3. JobsFollow
    BY <2>1 DEF JobsFollow, JobsAgree, ChannelsTypeOK
  <2>4. Begins(w, q)
    BY <1>1, <1>3, <2>1, <2>2 DEF Begins, Dedupe
  <2> QED  BY <2>3, <2>4 DEF RunEffect
<1> QED  BY <1>2, <1>3

\* Marking the event as processing.
LEMMA MarkEffect ==
  ASSUME ChannelsTypeOK, RunsAgree, JobsAgree, NEW w \in Workers, MarkEventProcessing(w)
  PROVE  RunEffect(w)
<1>1. run[w].e \in Events /\ ~ run[w].saved
  BY AtWork DEF MarkEventProcessing, RunsAgree
<1>2. PICK q \in Runs : /\ Becomes(w, q) /\ q.pc = "gate" /\ q.e = run[w].e
                        /\ q.saved = run[w].saved
  BY GotoEffect DEF RunPcs, MarkEventProcessing
<1>3. job' = job /\ log' = [log EXCEPT ![run[w].e] = "processing"]
  BY DEF MarkEventProcessing
<1>4. JobsFollow
  BY <1>1, <1>3 DEF JobsFollow, JobsAgree, ChannelsTypeOK
<1>5. Advances(w, q)
  BY <1>1, <1>2, <1>3 DEF Advances, MarkEventProcessing
<1> QED  BY <1>4, <1>5 DEF RunEffect

\* The entitlement gate lets the run on, or skips the event.
LEMMA GateEffect ==
  ASSUME ChannelsTypeOK, RunsAgree, JobsAgree, NEW w \in Workers, EntitlementGate(w)
  PROVE  RunEffect(w)
<1>1. PICK e \in Events : run[w].e = e /\ ~ run[w].saved
  BY AtWork DEF EntitlementGate, RunsAgree
<1>2. CASE Goto(w, "find") /\ UNCHANGED <<log, job, skipped>>
  <2>2. PICK q \in Runs : /\ Becomes(w, q) /\ q.pc = "find" /\ q.e = run[w].e
                          /\ q.saved = run[w].saved
    BY <1>2, GotoEffect DEF RunPcs
  <2>3. JobsFollow
    BY <1>2 DEF JobsFollow, JobsAgree, ChannelsTypeOK
  <2>4. Advances(w, q)
    BY <1>1, <1>2, <2>2 DEF Advances, EntitlementGate
  <2> QED  BY <2>3, <2>4 DEF RunEffect
<1>3. CASE /\ log' = [log EXCEPT ![e] = "skipped"] /\ skipped' = skipped \cup {e}
           /\ Complete(w)
  <2>1. LogGrows /\ Seen(e)'
    BY <1>3 DEF ChannelsTypeOK, LogGrows, Seen
  <2>2. Becomes(w, IdleRun) /\ JobsFollow
    BY <1>1, <1>3, <2>1, CompleteEffect
  <2>3. Finishes(w)
    BY <1>1, <1>3, <2>2 DEF Finishes, EntitlementGate
  <2> QED  BY <2>2, <2>3 DEF RunEffect
<1> QED  BY <1>1, <1>2, <1>3 DEF EntitlementGate

\* Finding the conversation: a run goes on to open one only past a closed one.
LEMMA FindEffect ==
  ASSUME ChannelsTypeOK, RunsAgree, JobsAgree, NEW w \in Workers, FindConversation(w)
  PROVE  /\ RunEffect(w)
         /\ \E q \in Runs :
              /\ run' = [run EXCEPT ![w] = q] /\ q.bound = binding
              /\ q.pc = "open" /\ binding # NoSession => session[binding] = "closed"
<1> DEFINE pc == IF binding # NoSession /\ session[binding] # "closed" THEN "save" ELSE "open"
<1> DEFINE q == [run[w] EXCEPT !.bound = binding, !.pc = pc]
<1>1. pc \in {"save", "open"} /\ (pc = "open" /\ binding # NoSession => session[binding] = "closed")
  OBVIOUS
<1>2. run' = [run EXCEPT ![w] = q]
  BY DEF FindConversation
<1> HIDE DEF pc
<1>3. q \in Runs /\ q.e = run[w].e /\ q.pc = pc /\ q.bound = binding /\ q.saved = run[w].saved
  <2>1. run[w] \in Runs /\ binding \in Sessions \cup {NoSession} /\ pc \in RunPcs
    BY <1>1 DEF ChannelsTypeOK, RunPcs
  <2> QED  BY <2>1 DEF Runs
<1> HIDE DEF q
<1>4. JobsFollow
  BY DEF JobsFollow, JobsAgree, ChannelsTypeOK, FindConversation
<1>5. Advances(w, q)
  BY <1>1, <1>2, <1>3 DEF Advances, Becomes, FindConversation, RunsAgree
<1> QED  BY <1>1, <1>2, <1>3, <1>4, <1>5 DEF RunEffect

\* Opening a conversation ends in the save or in the catch block.
LEMMA OpenEffect ==
  ASSUME ChannelsTypeOK, RunsAgree, JobsAgree, NEW w \in Workers, NEW s \in Sessions,
         OpenConversation(w, s)
  PROVE  /\ RunEffect(w)
         /\ \E q \in Runs : run' = [run EXCEPT ![w] = q] /\ q.pc # "open"
<1>1. job' = job /\ log' = log /\ run[w].pc = "open" /\ UNCHANGED <<copies, torn, skipped>>
  BY DEF OpenConversation
<1>2. Goto(w, "failed") \/ Goto(w, "save")
  BY DEF OpenConversation
<1>3. PICK q \in Runs : /\ Becomes(w, q) /\ q.pc \in {"failed", "save"} /\ q.e = run[w].e
                        /\ q.saved = run[w].saved
  <2>1. CASE Goto(w, "failed")
    BY <2>1, GotoEffect DEF RunPcs
  <2>2. CASE Goto(w, "save")
    BY <2>2, GotoEffect DEF RunPcs
  <2> QED  BY <1>2, <2>1, <2>2
<1>4. JobsFollow
  BY <1>1 DEF JobsFollow, JobsAgree, ChannelsTypeOK
<1>5. Advances(w, q)
  BY <1>1, <1>3 DEF Advances, RunsAgree
<1> QED  BY <1>3, <1>4, <1>5 DEF RunEffect, Becomes

\* Saving the message.
LEMMA SaveEffect ==
  ASSUME ChannelsTypeOK, RunsAgree, JobsAgree, NEW w \in Workers, SaveMessage(w)
  PROVE  RunEffect(w)
<1> DEFINE q == [run[w] EXCEPT !.pc = "after", !.saved = TRUE]
<1>1. run' = [run EXCEPT ![w] = q]
  BY DEF SaveMessage
<1>2. q \in Runs /\ q.e = run[w].e /\ q.pc = "after"
  <2>1. run[w] \in Runs /\ "after" \in RunPcs
    BY DEF ChannelsTypeOK, RunPcs
  <2> QED  BY <2>1 DEF Runs
<1>3. q.saved
  BY DEF ChannelsTypeOK, Runs
<1> HIDE DEF q
<1>4. JobsFollow
  BY DEF JobsFollow, JobsAgree, ChannelsTypeOK, SaveMessage
<1>5. Saves(w, q)
  BY <1>1, <1>2, <1>3 DEF Saves, Becomes, SaveMessage
<1> QED  BY <1>2, <1>4, <1>5 DEF RunEffect

\* Marking the event as processed, which completes the run.
LEMMA ProcessedEffect ==
  ASSUME ChannelsTypeOK, RunsAgree, JobsAgree, NEW w \in Workers, MarkEventProcessed(w)
  PROVE  RunEffect(w)
<1>1. PICK e \in Events : run[w].e = e
  BY AtWork DEF MarkEventProcessed
<1>2. log' = [log EXCEPT ![e] = "processed"] /\ Complete(w)
  BY <1>1 DEF MarkEventProcessed
<1>3. LogGrows /\ Seen(e)'
  BY <1>2 DEF ChannelsTypeOK, LogGrows, Seen
<1>4. Becomes(w, IdleRun) /\ JobsFollow
  BY <1>1, <1>2, <1>3, CompleteEffect
<1>5. Finishes(w)
  BY <1>1, <1>2, <1>4 DEF Finishes, MarkEventProcessed
<1> QED  BY <1>4, <1>5 DEF RunEffect

\* The catch block.
LEMMA FailEffect ==
  ASSUME ChannelsTypeOK, RunsAgree, JobsAgree, NEW w \in Workers, FailEvent(w)
  PROVE  RunEffect(w)
<1>1. PICK e \in Events : run[w].e = e
  BY AtWork DEF FailEvent
<1>2. log' = [log EXCEPT ![e] = "failed"] /\ AttemptFails(w)
  BY <1>1 DEF FailEvent
<1>3. LogGrows
  BY <1>2 DEF ChannelsTypeOK, LogGrows
<1>4. Becomes(w, IdleRun) /\ JobsFollow
  BY <1>1, <1>2, <1>3, AttemptFailsEffect
<1>5. Fails(w)
  BY <1>1, <1>2, <1>4 DEF Fails, FailEvent, AttemptFails
<1> QED  BY <1>4, <1>5 DEF RunEffect

\* A statement that throws fails the attempt, or leads to the catch block.
LEMMA ThrowsEffect ==
  ASSUME ChannelsTypeOK, RunsAgree, JobsAgree, NEW w \in Workers, Throws(w)
  PROVE  RunEffect(w)
<1>1. run[w].pc # "idle" /\ log' = log /\ UNCHANGED <<copies, skipped>>
  BY DEF Throws, RunsAgree
<1>2. LogGrows
  BY <1>1 DEF LogGrows
<1>3. CASE run[w].pc \in {"dedupe", "mark", "gate", "failed"}
  <2>1. AttemptFails(w)
    BY <1>3 DEF Throws
  <2>2. Becomes(w, IdleRun) /\ JobsFollow
    BY <1>1, <1>2, <2>1, AtWork, AttemptFailsEffect
  <2>3. Fails(w)
    BY <1>1, <2>1, <2>2 DEF Fails, AttemptFails
  <2> QED  BY <2>2, <2>3 DEF RunEffect
<1>4. CASE run[w].pc \notin {"dedupe", "mark", "gate", "failed"}
  <2>1. Goto(w, "failed") /\ UNCHANGED <<job, torn>>
    BY <1>4 DEF Throws
  <2>2. PICK q \in Runs : /\ Becomes(w, q) /\ q.pc = "failed" /\ q.e = run[w].e
                          /\ q.saved = run[w].saved
    BY <2>1, GotoEffect DEF RunPcs
  <2>3. JobsFollow
    BY <1>1, <2>1 DEF JobsFollow, JobsAgree, ChannelsTypeOK
  <2>4. Advances(w, q)
    BY <1>1, <1>4, <2>1, <2>2 DEF Advances
  <2> QED  BY <2>3, <2>4 DEF RunEffect
<1> QED  BY <1>3, <1>4

\* A worker that dies.
LEMMA DiesEffect ==
  ASSUME ChannelsTypeOK, RunsAgree, JobsAgree, NEW w \in Workers, WorkerDies(w)
  PROVE  RunEffect(w)
<1>1. JobsFollow
  BY DEF JobsFollow, JobsAgree, ChannelsTypeOK, WorkerDies
<1>2. Fails(w)
  BY IdleRunType DEF Fails, Becomes, WorkerDies, RunsAgree
<1> QED  BY <1>1, <1>2 DEF RunEffect

\* Every step of a run has one of these effects.
LEMMA RunStepEffect ==
  ASSUME ChannelsTypeOK, RunsAgree, JobsAgree, NEW w \in Workers, RunStep(w)
  PROVE  RunEffect(w)
BY DedupeEffect, MarkEffect, GateEffect, FindEffect, OpenEffect, SaveEffect,
   ProcessedEffect, FailEffect, ThrowsEffect, DiesEffect DEF RunStep

\* Bull gives a waiting job to a worker.
LEMMA TakeEffect ==
  ASSUME ChannelsTypeOK, JobsAgree, NEW w \in Workers, NEW e \in Events, Take(w, e)
  PROVE  Taken(w, e) /\ JobsFollow
<1> DEFINE j == [job[e] EXCEPT !.state = "active", !.owner = w]
<1> DEFINE q == [IdleRun EXCEPT !.e = e, !.pc = "dedupe"]
<1>1. job \in [Events -> Jobs] /\ job[e] \in Jobs /\ job[e].state = "waiting" /\ log' = log
  BY DEF ChannelsTypeOK, Take
<1>2. job' = [job EXCEPT ![e] = j] /\ run' = [run EXCEPT ![w] = q]
  BY DEF Take
<1>3. j \in Jobs /\ Fit(j) /\ j.state # "done"
  BY <1>1 DEF Jobs, Fit, JobsAgree
<1>4. q \in Runs
  BY DEF IdleRun, Runs, RunPcs
<1>5. Taken(w, e)
  BY <1>2, <1>4 DEF Taken, Becomes, Take
<1> HIDE DEF j, q
<1>6. JobsFollow
  BY <1>1, <1>2, <1>3 DEF JobsFollow, JobsAgree
<1> QED  BY <1>5, <1>6

\* The webhook endpoint records an event.
LEMMA ReceiveEffect ==
  ASSUME ChannelsTypeOK, JobsAgree, NEW e \in Events, Receive(e)
  PROVE  AtRest
<1> DEFINE j == [job[e] EXCEPT !.state = "waiting"]
<1>1. /\ job \in [Events -> Jobs] /\ job[e] \in Jobs /\ job[e].state = "none"
      /\ log[e] = "none" /\ log' = [log EXCEPT ![e] = "received"]
      /\ log \in [Events -> LogStatuses]
  BY DEF ChannelsTypeOK, Receive, JobsAgree
<1>2. job' = [job EXCEPT ![e] = j] \/ job' = job
  BY DEF Receive
<1>3. j \in Jobs /\ Fit(j) /\ j.state # "done"
  BY <1>1 DEF Jobs, Fit, JobsAgree
<1> HIDE DEF j
<1>4. JobsFollow
  BY <1>1, <1>2, <1>3 DEF JobsFollow, JobsAgree
<1> QED  BY <1>1, <1>4 DEF AtRest, Receive

\* A stalled job waits again, or is dead.
LEMMA StallEffect ==
  ASSUME ChannelsTypeOK, JobsAgree, NEW e \in Events, Stall(e)
  PROVE  AtRest
<1> DEFINE st == IF job[e].stalled THEN "dead" ELSE "waiting"
<1> DEFINE j == [job[e] EXCEPT !.state = st, !.owner = NULL, !.stalled = TRUE]
<1>1. job \in [Events -> Jobs] /\ job[e] \in Jobs /\ job[e].state = "active" /\ log' = log
  BY DEF ChannelsTypeOK, Stall
<1>2. job' = [job EXCEPT ![e] = j]
  BY DEF Stall
<1>3. st \in {"dead", "waiting"}
  OBVIOUS
<1> HIDE DEF st
<1>4. j \in Jobs /\ Fit(j) /\ j.state # "done"
  BY <1>1, <1>3 DEF Jobs, Fit, JobsAgree
<1> HIDE DEF j
<1>5. JobsFollow
  BY <1>1, <1>2, <1>4 DEF JobsFollow, JobsAgree
<1> QED  BY <1>1, <1>5 DEF AtRest, Stall

\* Closing a session and the deliveries of replies leave the inbound side alone.
LEMMA OutboundEffect ==
  ASSUME ChannelsTypeOK, JobsAgree, UNCHANGED inboundVars
  PROVE  AtRest
BY DEF AtRest, JobsFollow, JobsAgree, ChannelsTypeOK, inboundVars

-----------------------------------------------------------------------------
(* The inbound part of the invariant.                                      *)

InboundType ==
  /\ log \in [Events -> LogStatuses] /\ job \in [Events -> Jobs] /\ run \in [Workers -> Runs]
  /\ copies \in [Events -> Nat] /\ torn \in [Events -> Nat] /\ skipped \subseteq Events

InboundOK == InboundType /\ RunsAgree /\ JobsAgree /\ VerdictsAgree /\ CopiesAccounted

\* What the counts of one event say.
CopiesOK(e) ==
  /\ copies[e] + Cardinality(Unsaved(e)) <= torn[e] + 1
  /\ Unsaved(e) \cup SavedRuns(e) = {} /\ ~ Seen(e) => copies[e] <= torn[e]

\* The sets of runs are finite.
LEMMA UnsavedFinite ==
  ASSUME NEW e
  PROVE  IsFiniteSet(Unsaved(e)) /\ Cardinality(Unsaved(e)) \in Nat
<1>1. Unsaved(e) \subseteq Workers
  BY DEF Unsaved
<1> QED  BY <1>1, FS_Subset, FS_CardinalityType, ChannelsAssumption

\* When one run changes, the runs of an event change by that one at most.
LEMMA RunsMove ==
  ASSUME InboundType, NEW w \in Workers, NEW q \in Runs, run' = [run EXCEPT ![w] = q],
         NEW e
  PROVE  /\ q.e = e /\ q.pc # "dedupe" /\ ~ q.saved => Unsaved(e)' = Unsaved(e) \cup {w}
         /\ q.e # e \/ q.pc = "dedupe" \/ q.saved => Unsaved(e)' = Unsaved(e) \ {w}
         /\ q.e = e /\ q.saved => SavedRuns(e)' = SavedRuns(e) \cup {w}
         /\ q.e # e \/ ~ q.saved => SavedRuns(e)' = SavedRuns(e) \ {w}
<1>1. run \in [Workers -> Runs] /\ run'[w] = q /\ \A v \in Workers \ {w} : run'[v] = run[v]
  BY DEF InboundType
<1> QED  BY <1>1 DEF Unsaved, SavedRuns

\* An event that no run leaves or joins keeps its counts.
LEMMA Elsewhere ==
  ASSUME InboundType, NEW w \in Workers, NEW q \in Runs, run' = [run EXCEPT ![w] = q],
         NEW e \in Events, run[w].e # e, q.e # e, CopiesOK(e),
         copies'[e] = copies[e], torn'[e] = torn[e], log'[e] = log[e]
  PROVE  CopiesOK(e)'
<1>1. w \notin Unsaved(e) /\ w \notin SavedRuns(e)
  BY DEF Unsaved, SavedRuns
<1>2. Unsaved(e)' = Unsaved(e) \ {w} /\ SavedRuns(e)' = SavedRuns(e) \ {w}
  BY RunsMove
<1>3. Seen(e)' <=> Seen(e)
  BY DEF Seen
<1>4. Unsaved(e)' = Unsaved(e) /\ SavedRuns(e)' = SavedRuns(e)
  BY <1>1, <1>2
<1> QED  BY <1>3, <1>4 DEF CopiesOK

\* A run that goes on leaves the counts of its event.
LEMMA AdvancesCopies ==
  ASSUME InboundOK, NEW w \in Workers, NEW q \in Runs, Advances(w, q),
         NEW e \in Events, run[w].e = e, CopiesOK(e)
  PROVE  CopiesOK(e)'
<1>1. run' = [run EXCEPT ![w] = q] /\ copies' = copies /\ torn' = torn
  BY DEF Advances, Becomes
<1>2. w \in Unsaved(e) \/ w \in SavedRuns(e)
  BY DEF Advances, Unsaved, SavedRuns
<1>3. Unsaved(e)' = Unsaved(e) /\ SavedRuns(e)' = SavedRuns(e)
  BY <1>1, RunsMove DEF Advances, Unsaved, SavedRuns, InboundOK
<1> QED  BY <1>1, <1>2, <1>3 DEF CopiesOK

\* A run that begins alone finds no copy unaccounted for; one that overlaps counts as torn.
LEMMA BeginsCopies ==
  ASSUME InboundOK, NEW w \in Workers, NEW q \in Runs, Begins(w, q),
         NEW e \in Events, run[w].e = e, CopiesOK(e)
  PROVE  CopiesOK(e)'
<1>1. run' = [run EXCEPT ![w] = q] /\ copies' = copies
  BY DEF Begins, Becomes
<1>2. w \notin Unsaved(e) /\ w \notin SavedRuns(e)
  BY DEF Unsaved, SavedRuns, Begins, InboundOK, RunsAgree
<1>3. Unsaved(e)' = Unsaved(e) \cup {w}
  BY <1>1, RunsMove, ZenonT(40) DEF Begins, InboundOK
<1>4. Cardinality(Unsaved(e)') = Cardinality(Unsaved(e)) + 1
  BY <1>2, <1>3, UnsavedFinite, FS_AddElement
<1>5. /\ copies[e] \in Nat /\ torn[e] \in Nat /\ Cardinality(Unsaved(e)) \in Nat
      /\ torn \in [Events -> Nat]
  BY UnsavedFinite DEF InboundOK, InboundType
<1>6. CASE Overlaps(w)
  <2>1. torn'[e] = torn[e] + 1
    BY <1>5, <1>6 DEF Begins
  <2> QED  BY <1>1, <1>3, <1>4, <1>5, <2>1 DEF CopiesOK
<1>7. CASE ~ Overlaps(w)
  <2>1. torn' = torn /\ ~ Seen(e)
    BY <1>7 DEF Begins
  <2>2. Unsaved(e) = {} /\ SavedRuns(e) = {}
    BY <1>2, <1>7 DEF Overlaps, Unsaved, SavedRuns
  <2>3. copies[e] <= torn[e] /\ Cardinality(Unsaved(e)) = 0
    BY <2>1, <2>2, FS_EmptySet DEF CopiesOK
  <2> QED  BY <1>1, <1>3, <1>4, <1>5, <2>1, <2>3 DEF CopiesOK
<1> QED  BY <1>6, <1>7

\* A run that saves turns from a copy to come into a copy.
LEMMA SavesCopies ==
  ASSUME InboundOK, NEW w \in Workers, NEW q \in Runs, Saves(w, q),
         NEW e \in Events, run[w].e = e, CopiesOK(e)
  PROVE  CopiesOK(e)'
<1>1. run' = [run EXCEPT ![w] = q] /\ torn' = torn
  BY DEF Saves, Becomes
<1>2. w \in Unsaved(e)
  BY DEF Unsaved, Saves, InboundOK, RunsAgree
<1>3. Unsaved(e)' = Unsaved(e) \ {w} /\ SavedRuns(e)' = SavedRuns(e) \cup {w}
  BY <1>1, RunsMove DEF Saves, InboundOK
<1>4. Cardinality(Unsaved(e)') = Cardinality(Unsaved(e)) - 1
  <2>1. IsFiniteSet(Unsaved(e)) /\ Cardinality(Unsaved(e)) \in Nat
    BY UnsavedFinite
  <2>2. Cardinality(Unsaved(e) \ {w}) = Cardinality(Unsaved(e)) - 1
    BY <1>2, <2>1, FS_RemoveElement
  <2> QED  BY <1>3, <2>2
<1>5. copies[e] \in Nat /\ torn[e] \in Nat /\ Cardinality(Unsaved(e)) \in Nat
  BY UnsavedFinite DEF InboundOK, InboundType
<1>6. copies'[e] = copies[e] + 1
  BY DEF Saves, InboundOK, InboundType
<1> QED  BY <1>1, <1>3, <1>4, <1>5, <1>6 DEF CopiesOK

\* A run that fails takes its copy to come with it, or its copy counts as torn.
LEMMA FailsCopies ==
  ASSUME InboundOK, NEW w \in Workers, Fails(w),
         NEW e \in Events, run[w].e = e, CopiesOK(e)
  PROVE  CopiesOK(e)'
<1>1. run' = [run EXCEPT ![w] = IdleRun] /\ copies' = copies /\ e # IdleRun.e
  BY ChannelsAssumption DEF Fails, Becomes, IdleRun
<1>2. Unsaved(e)' = Unsaved(e) \ {w} /\ SavedRuns(e)' = SavedRuns(e) \ {w}
  BY <1>1, IdleRunType, RunsMove DEF InboundOK
<1>3. /\ copies[e] \in Nat /\ torn[e] \in Nat /\ Cardinality(Unsaved(e)) \in Nat
      /\ torn \in [Events -> Nat]
  BY UnsavedFinite DEF InboundOK, InboundType
<1>4. CASE run[w].saved
  <2>1. torn'[e] = torn[e] + 1
    BY <1>3, <1>4 DEF Fails
  <2>2. Unsaved(e)' = Unsaved(e)
    BY <1>2, <1>4 DEF Unsaved
  <2> QED  BY <1>1, <1>3, <2>1, <2>2 DEF CopiesOK
<1>5. CASE ~ run[w].saved /\ run[w].pc # "dedupe"
  <2>1. torn' = torn /\ w \in Unsaved(e)
    BY <1>5 DEF Fails, Unsaved
  <2>2. Cardinality(Unsaved(e)') = Cardinality(Unsaved(e)) - 1
    <3>1. IsFiniteSet(Unsaved(e)) /\ Cardinality(Unsaved(e)) \in Nat
      BY UnsavedFinite
    <3>2. Cardinality(Unsaved(e) \ {w}) = Cardinality(Unsaved(e)) - 1
      BY <2>1, <3>1, FS_RemoveElement
    <3> QED  BY <1>2, <3>2
  <2>3. Cardinality(Unsaved(e)') \in Nat
    BY <1>2, UnsavedFinite, FS_RemoveElement, FS_CardinalityType
  <2> QED  BY <1>1, <1>3, <2>1, <2>2, <2>3 DEF CopiesOK
<1>6. CASE ~ run[w].saved /\ run[w].pc = "dedupe"
  <2>1. torn' = torn /\ log' = log /\ w \notin Unsaved(e) /\ w \notin SavedRuns(e)
    BY <1>6 DEF Fails, Unsaved, SavedRuns
  <2>2. Unsaved(e)' = Unsaved(e) /\ SavedRuns(e)' = SavedRuns(e)
    BY <1>2, <2>1
  <2>3. Seen(e)' <=> Seen(e)
    BY <2>1 DEF Seen
  <2> QED  BY <1>1, <2>1, <2>2, <2>3 DEF CopiesOK
<1> QED  BY <1>4, <1>5, <1>6

\* A run that finishes leaves its event seen.
LEMMA FinishesCopies ==
  ASSUME InboundOK, NEW w \in Workers, Finishes(w),
         NEW e \in Events, run[w].e = e, CopiesOK(e)
  PROVE  CopiesOK(e)'
<1>1. run' = [run EXCEPT ![w] = IdleRun] /\ copies' = copies /\ torn' = torn /\ e # IdleRun.e
  BY ChannelsAssumption DEF Finishes, Becomes, IdleRun
<1>2. Unsaved(e)' = Unsaved(e) \ {w}
  BY <1>1, IdleRunType, RunsMove DEF InboundOK
<1>3. Cardinality(Unsaved(e)') <= Cardinality(Unsaved(e)) /\ Cardinality(Unsaved(e)') \in Nat
  BY <1>2, UnsavedFinite, FS_Subset, FS_CardinalityType
<1>4. copies[e] \in Nat /\ torn[e] \in Nat /\ Cardinality(Unsaved(e)) \in Nat
  BY UnsavedFinite DEF InboundOK, InboundType
<1>5. log'[e] \in {"processed", "skipped"}
  BY DEF Finishes, Seen, InboundOK, InboundType
<1> QED  BY <1>1, <1>3, <1>4, <1>5 DEF CopiesOK, Seen

\* A run that an event is given to has not begun.
LEMMA TakenCopies ==
  ASSUME InboundOK, NEW w \in Workers, NEW e \in Events, Taken(w, e),
         NEW x \in Events, CopiesOK(x)
  PROVE  CopiesOK(x)'
<1> DEFINE q == [IdleRun EXCEPT !.e = e, !.pc = "dedupe"]
<1>1. q \in Runs /\ run' = [run EXCEPT ![w] = q] /\ UNCHANGED <<copies, torn, log>>
      /\ run[w] = IdleRun
  BY DEF Taken, Becomes
<1>2. q.pc = "dedupe" /\ ~ q.saved
  BY DEF IdleRun
<1> HIDE DEF q
<1>3. Unsaved(x)' = Unsaved(x) \ {w} /\ SavedRuns(x)' = SavedRuns(x) \ {w}
  BY <1>1, <1>2, RunsMove DEF InboundOK
<1>4. w \notin Unsaved(x) /\ w \notin SavedRuns(x)
  BY <1>1, ChannelsAssumption DEF Unsaved, SavedRuns, IdleRun
<1>5. Unsaved(x)' = Unsaved(x) /\ SavedRuns(x)' = SavedRuns(x) /\ (Seen(x)' <=> Seen(x))
  BY <1>1, <1>3, <1>4 DEF Seen
<1> QED  BY <1>1, <1>5 DEF CopiesOK

\* While no run moves, neither do the counts.
LEMMA RestCopies ==
  ASSUME InboundOK, AtRest, NEW x \in Events, CopiesOK(x)
  PROVE  CopiesOK(x)'
<1>1. UNCHANGED <<run, copies, torn>>
  BY DEF AtRest
<1>2. Unsaved(x)' = Unsaved(x) /\ SavedRuns(x)' = SavedRuns(x)
  BY <1>1 DEF Unsaved, SavedRuns
<1>3. Seen(x) => Seen(x)'
  BY DEF AtRest, Seen, InboundOK, InboundType
<1> QED  BY <1>1, <1>2, <1>3 DEF CopiesOK

\* CopiesAccounted is CopiesOK of every event.
LEMMA RunCopies ==
  ASSUME InboundOK, NEW w \in Workers, RunEffect(w)
  PROVE  CopiesAccounted'
<1>1. SUFFICES ASSUME NEW x \in Events PROVE CopiesOK(x)'
  BY DEF CopiesAccounted, CopiesOK
<1>2. CopiesOK(x)
  BY DEF CopiesAccounted, CopiesOK, InboundOK
<1>3. PICK e \in Events : run[w].e = e
  BY ChannelsAssumption DEF RunEffect, Advances, Begins, Saves, Fails, Finishes, InboundOK,
     RunsAgree, InboundType, Runs
<1>4. ASSUME NEW q \in Runs, Advances(w, q) \/ Begins(w, q) \/ Saves(w, q)
      PROVE  CopiesOK(x)'
  <2>1. CASE x = e
    BY <1>2, <1>3, <1>4, <2>1, AdvancesCopies, BeginsCopies, SavesCopies
  <2>2. CASE x # e
    <3>1. run' = [run EXCEPT ![w] = q] /\ q.e = e
      BY <1>3, <1>4 DEF Advances, Begins, Saves, Becomes
    <3>2. copies'[x] = copies[x] /\ torn'[x] = torn[x] /\ log'[x] = log[x]
      BY <1>3, <1>4, <2>2 DEF Advances, Begins, Saves, InboundOK, InboundType
    <3> QED  BY <1>2, <1>3, <2>2, <3>1, <3>2, Elsewhere DEF InboundOK
  <2> QED  BY <2>1, <2>2
<1>5. CASE Fails(w) \/ Finishes(w)
  <2>1. CASE x = e
    BY <1>2, <1>3, <1>5, <2>1, FailsCopies, FinishesCopies
  <2>2. CASE x # e
    <3>1. run' = [run EXCEPT ![w] = IdleRun] /\ IdleRun.e # x
      BY <1>5, ChannelsAssumption DEF Fails, Finishes, Becomes, IdleRun
    <3>2. copies'[x] = copies[x] /\ torn'[x] = torn[x] /\ log'[x] = log[x]
      BY <1>3, <1>5, <2>2 DEF Fails, Finishes, InboundOK, InboundType
    <3> QED  BY <1>2, <1>3, <2>2, <3>1, <3>2, IdleRunType, Elsewhere DEF InboundOK
  <2> QED  BY <2>1, <2>2
<1> QED  BY <1>4, <1>5 DEF RunEffect

\* The types of the inbound variables, and what the runs know.
LEMMA RunEffectType ==
  ASSUME InboundOK, NEW w \in Workers, RunEffect(w)
  PROVE  InboundType' /\ RunsAgree'
<1>1. /\ log \in [Events -> LogStatuses] /\ run \in [Workers -> Runs]
      /\ copies \in [Events -> Nat] /\ torn \in [Events -> Nat] /\ skipped \subseteq Events
  BY DEF InboundOK, InboundType
<1>2. PICK e \in Events : run[w].e = e
  BY ChannelsAssumption DEF RunEffect, Advances, Begins, Saves, Fails, Finishes, InboundOK,
     RunsAgree, InboundType, Runs
<1>3. ASSUME NEW q \in Runs, run' = [run EXCEPT ![w] = q],
             q.e = NULL <=> q.pc = "idle", q.pc = "idle" => q = IdleRun,
             q.pc = "after" => q.saved, q.saved => q.pc \in {"after", "failed"},
             q.saved => copies'[q.e] > 0, copies' \in [Events -> Nat],
             \A x \in Events : copies'[x] >= copies[x]
      PROVE  RunsAgree'
  <2> SUFFICES ASSUME NEW v \in Workers
               PROVE  /\ run'[v].e = NULL <=> run'[v].pc = "idle"
                      /\ run'[v].pc = "idle" => run'[v] = IdleRun
                      /\ run'[v].pc = "after" => run'[v].saved
                      /\ run'[v].saved => run'[v].pc \in {"after", "failed"}
                      /\ run'[v].saved => copies'[run'[v].e] > 0
    BY DEF RunsAgree
  <2>1. CASE v = w
    BY <1>1, <1>3, <2>1
  <2>2. CASE v # w
    <3>1. run'[v] = run[v]
      BY <1>1, <1>3, <2>2
    <3>2. run[v].saved => run[v].e \in Events /\ copies[run[v].e] > 0
      BY <1>1, ChannelsAssumption DEF RunsAgree, InboundOK, Runs
    <3>3. run[v].saved => copies'[run[v].e] > 0
      BY <1>1, <1>3, <3>2
    <3> QED  BY <3>1, <3>3 DEF RunsAgree, InboundOK
  <2> QED  BY <2>1, <2>2
<1>9. copies' = copies => copies' \in [Events -> Nat] /\ \A x \in Events : copies'[x] >= copies[x]
  BY <1>1
<1>10. /\ IdleRun.e = NULL /\ IdleRun.pc = "idle" /\ ~ IdleRun.saved
  BY DEF IdleRun
<1>4. ASSUME NEW q \in Runs, Advances(w, q)
      PROVE  InboundType' /\ RunsAgree'
  <2>1. InboundType'
    BY <1>1, <1>2, <1>4 DEF Advances, Becomes, InboundType, LogStatuses, RunEffect, JobsFollow
  <2>2. q.saved => copies'[q.e] > 0
    BY <1>4 DEF Advances, InboundOK, RunsAgree
  <2>3. RunsAgree'
    BY <1>2, <1>3, <1>4, <1>9, <2>2, ChannelsAssumption DEF Advances, Becomes
  <2> QED  BY <2>1, <2>3
<1>5. ASSUME NEW q \in Runs, Begins(w, q)
      PROVE  InboundType' /\ RunsAgree'
  <2>1. InboundType'
    BY <1>1, <1>2, <1>5 DEF Begins, Becomes, InboundType, RunEffect, JobsFollow
  <2>2. RunsAgree'
    BY <1>2, <1>3, <1>5, <1>9, ChannelsAssumption DEF Begins, Becomes
  <2> QED  BY <2>1, <2>2
<1>6. ASSUME NEW q \in Runs, Saves(w, q)
      PROVE  InboundType' /\ RunsAgree'
  <2>1. InboundType'
    BY <1>1, <1>2, <1>6 DEF Saves, Becomes, InboundType, RunEffect, JobsFollow
  <2>2. copies'[e] = copies[e] + 1 /\ \A x \in Events : copies'[x] >= copies[x]
    BY <1>1, <1>2, <1>6 DEF Saves
  <2>3. copies'[q.e] > 0
    BY <1>1, <1>2, <1>6, <2>2 DEF Saves
  <2> QED  BY <1>1, <1>2, <1>3, <1>6, <2>1, <2>2, <2>3, ChannelsAssumption
           DEF Saves, Becomes, InboundType
<1>7. CASE Fails(w)
  <2>1. InboundType'
    BY <1>1, <1>2, <1>7 DEF Fails, Becomes, InboundType, LogStatuses, RunEffect, JobsFollow
  <2>2. RunsAgree'
    BY <1>3, <1>7, <1>9, <1>10, IdleRunType DEF Fails, Becomes
  <2> QED  BY <2>1, <2>2
<1>8. CASE Finishes(w)
  <2>1. InboundType'
    BY <1>1, <1>2, <1>8 DEF Finishes, Becomes, InboundType, LogStatuses, RunEffect, JobsFollow
  <2>2. RunsAgree'
    BY <1>3, <1>8, <1>9, <1>10, IdleRunType DEF Finishes, Becomes
  <2> QED  BY <2>1, <2>2
<1> QED  BY <1>4, <1>5, <1>6, <1>7, <1>8 DEF RunEffect

\* A verdict is either old, or that of the run.
LEMMA RunVerdicts ==
  ASSUME InboundOK, NEW w \in Workers, RunEffect(w), InboundType'
  PROVE  VerdictsAgree'
<1>1. PICK e \in Events : run[w].e = e
  BY ChannelsAssumption DEF RunEffect, Advances, Begins, Saves, Fails, Finishes, InboundOK,
     RunsAgree, InboundType, Runs
<1>2. \A x \in Events : copies[x] > 0 => copies'[x] > 0
  BY <1>1 DEF RunEffect, Advances, Begins, Saves, Fails, Finishes, InboundOK, InboundType
<1>3. skipped \subseteq skipped'
  BY DEF RunEffect, Advances, Begins, Saves, Fails, Finishes
<1>4. /\ log \in [Events -> LogStatuses]
      /\ run[w].pc = "after" => copies[e] > 0
  BY <1>1 DEF InboundOK, InboundType, RunsAgree
<1>5. \A x \in Events : log'[x] = "processed" => log[x] = "processed" \/ copies[x] > 0
  BY <1>1, <1>4 DEF RunEffect, Advances, Begins, Saves, Fails, Finishes
<1>6. \A x \in Events : log'[x] = "skipped" => log[x] = "skipped" \/ x \in skipped'
  BY <1>1, <1>4 DEF RunEffect, Advances, Begins, Saves, Fails, Finishes
<1>7. \A x \in Events : /\ log'[x] = "processed" => copies'[x] > 0
                        /\ log'[x] = "skipped" => x \in skipped'
  BY <1>2, <1>3, <1>5, <1>6 DEF InboundOK, VerdictsAgree
<1>8. \A x \in Events : job'[x].state = "done" => copies'[x] > 0 \/ x \in skipped'
  BY <1>2, <1>3, <1>7 DEF RunEffect, JobsFollow, Seen, InboundOK, VerdictsAgree
<1> QED  BY <1>7, <1>8 DEF VerdictsAgree

\* A step of a run keeps the inbound part.
LEMMA RunKeepsInbound ==
  ASSUME InboundOK, NEW w \in Workers, RunEffect(w)
  PROVE  InboundOK'
<1>1. JobsAgree'
  BY DEF RunEffect, JobsFollow, JobsAgree
<1> QED  BY <1>1, RunEffectType, RunVerdicts, RunCopies DEF InboundOK

\* A job that is taken keeps the inbound part.
LEMMA TakeKeepsInbound ==
  ASSUME InboundOK, NEW w \in Workers, NEW e \in Events, Taken(w, e), JobsFollow
  PROVE  InboundOK'
<1> DEFINE q == [IdleRun EXCEPT !.e = e, !.pc = "dedupe"]
<1>1. /\ q \in Runs /\ run' = [run EXCEPT ![w] = q]
      /\ UNCHANGED <<copies, torn, skipped, log>>
  BY DEF Taken, Becomes
<1>2. q.pc = "dedupe" /\ ~ q.saved /\ q.e = e /\ e # NULL
  BY ChannelsAssumption DEF IdleRun
<1> HIDE DEF q
<1>3. InboundType'
  BY <1>1 DEF InboundOK, InboundType, JobsFollow
<1>4. RunsAgree'
  BY <1>1, <1>2 DEF InboundOK, InboundType, RunsAgree
<1>5. VerdictsAgree'
  BY <1>1 DEF InboundOK, VerdictsAgree, JobsFollow, Seen
<1>6. CopiesAccounted'
  BY TakenCopies DEF InboundOK, CopiesAccounted, CopiesOK
<1> QED  BY <1>3, <1>4, <1>5, <1>6 DEF InboundOK, JobsAgree, JobsFollow

\* A step of no run keeps the inbound part.
LEMMA RestKeepsInbound ==
  ASSUME InboundOK, AtRest
  PROVE  InboundOK'
<1>1. UNCHANGED <<run, copies, torn, skipped>> /\ JobsFollow
  BY DEF AtRest
<1>2. log' \in [Events -> LogStatuses]
  BY DEF AtRest, InboundOK, InboundType, LogStatuses
<1>3. InboundType'
  BY <1>1, <1>2 DEF InboundOK, InboundType, JobsFollow
<1>4. RunsAgree'
  BY <1>1 DEF InboundOK, RunsAgree
<1>5. \A x \in Events : log'[x] \in {"processed", "skipped"} => log'[x] = log[x]
  BY DEF AtRest, InboundOK, InboundType
<1>6. VerdictsAgree'
  BY <1>1, <1>5 DEF InboundOK, VerdictsAgree, JobsFollow, Seen
<1>7. CopiesAccounted'
  BY RestCopies DEF InboundOK, CopiesAccounted, CopiesOK
<1> QED  BY <1>1, <1>3, <1>4, <1>6, <1>7 DEF InboundOK, JobsAgree, JobsFollow

\* Every step keeps the inbound part.
LEMMA InboundStep ==
  ASSUME ChannelsTypeOK, InboundOK, [Next]_vars
  PROVE  InboundOK'
<1>1. RunsAgree /\ JobsAgree
  BY DEF InboundOK
<1>2. ASSUME NEW w \in Workers, RunStep(w) PROVE InboundOK'
  BY <1>1, <1>2, RunStepEffect, RunKeepsInbound
<1>3. ASSUME NEW w \in Workers, NEW e \in Events, Take(w, e) PROVE InboundOK'
  BY <1>1, <1>3, TakeEffect, TakeKeepsInbound
<1>4. ASSUME NEW e \in Events, Receive(e) \/ Stall(e) PROVE InboundOK'
  BY <1>1, <1>4, ReceiveEffect, StallEffect, RestKeepsInbound
<1>5. ASSUME UNCHANGED inboundVars PROVE InboundOK'
  BY <1>1, <1>5, OutboundEffect, RestKeepsInbound
<1>6. ASSUME NEW s \in Sessions, CloseSession(s) PROVE InboundOK'
  BY <1>5, <1>6 DEF CloseSession
<1>7. ASSUME NEW t \in Tasks, TaskStep(t) PROVE InboundOK'
  BY <1>5, <1>7 DEF TaskStep, Route, Send, MarkDeliverySent, MarkDeliveryFailed, TaskFails
<1>8. ASSUME NEW t \in Tasks, NEW r \in Replies, RepostReply(t, r) PROVE InboundOK'
  BY <1>5, <1>8 DEF RepostReply, Starts
<1>9. ASSUME NEW t \in Tasks, NEW r \in Replies, NEW s \in Sessions, PostReply(t, r, s)
      PROVE  InboundOK'
  BY <1>5, <1>9 DEF PostReply, Starts
<1>10. CASE UNCHANGED vars
  BY <1>5, <1>10 DEF vars
<1> QED  BY <1>2, <1>3, <1>4, <1>6, <1>7, <1>8, <1>9, <1>10 DEF Next

-----------------------------------------------------------------------------
(* The thread.                                                             *)

ThreadType ==
  /\ session \in [Sessions -> {"none", "open", "closed"}]
  /\ binding \in Sessions \cup {NoSession} /\ raced \in BOOLEAN

ThreadOK == ThreadType /\ ThreadKnown /\ OneThread

\* A run that does not look for the conversation, or open one.
LEMMA OtherRunThread ==
  ASSUME ChannelsTypeOK, ThreadOK, UNCHANGED <<session, binding, raced>>,
         \A v \in Workers : run'[v].pc = "open" /\ run'[v].bound # NoSession =>
            \/ run[v].pc = "open" /\ run[v].bound = run'[v].bound
            \/ session[run'[v].bound] = "closed"
  PROVE  ThreadOK'
BY DEF ThreadOK, ThreadType, ThreadKnown, OneThread

\* A session is opened when the thread has none open, unless the thread raced.
LEMMA OpenThread ==
  ASSUME ChannelsTypeOK, ThreadOK, NEW w \in Workers, NEW s \in Sessions,
         OpenConversation(w, s), \E q \in Runs : run' = [run EXCEPT ![w] = q] /\ q.pc # "open"
  PROVE  ThreadOK'
<1>1. PICK q \in Runs : run' = [run EXCEPT ![w] = q] /\ q.pc # "open"
  OBVIOUS
<1>2. \A v \in Workers : run'[v].pc = "open" => run[v].pc = "open" /\ run'[v] = run[v]
  BY <1>1 DEF ChannelsTypeOK
<1>3. CASE run[w].bound = NoSession /\ binding # NoSession
  BY <1>2, <1>3, OtherRunThread DEF OpenConversation
<1>4. CASE ~ (run[w].bound = NoSession /\ binding # NoSession)
  <2>1. /\ session' = [session EXCEPT ![s] = "open"] /\ session[s] = "none"
        /\ binding' = s /\ raced' = (raced \/ binding # run[w].bound)
        /\ run[w].pc = "open"
    BY <1>4 DEF OpenConversation, Rebound
  <2>2. s # NoSession
    BY ChannelsAssumption DEF Sessions, NoSession
  <2>3. ThreadType'
    BY <2>1 DEF ThreadOK, ThreadType
  <2>4. ThreadKnown'
    BY <1>2, <2>1 DEF ThreadKnown, ThreadOK, ThreadType
  <2>5. OneThread'
    <3>1. SUFFICES ASSUME ~ raced', NEW x \in Sessions, session'[x] = "open" PROVE x = s
      BY <2>1 DEF OneThread
    <3>2. SUFFICES ASSUME x # s PROVE FALSE
      OBVIOUS
    <3>3. session[x] = "open" /\ ~ raced /\ binding = run[w].bound
      BY <2>1, <3>1, <3>2 DEF ThreadOK, ThreadType
    <3>4. run[w].bound = x /\ x # NoSession
      BY <3>1, <3>3, ChannelsAssumption DEF ThreadOK, OneThread, Sessions, NoSession
    <3> QED  BY <2>1, <3>3, <3>4 DEF ThreadOK, ThreadKnown
  <2> QED  BY <2>3, <2>4, <2>5 DEF ThreadOK
<1> QED  BY <1>3, <1>4

\* Closing a session keeps the thread.
LEMMA CloseThread ==
  ASSUME ChannelsTypeOK, ThreadOK, NEW s \in Sessions, CloseSession(s)
  PROVE  ThreadOK'
<1>1. session' = [session EXCEPT ![s] = "closed"] /\ UNCHANGED <<binding, run, raced>>
  BY DEF CloseSession, inboundVars
<1>2. session \in [Sessions -> {"none", "open", "closed"}]
  BY DEF ThreadOK, ThreadType
<1>3. \A x \in Sessions : /\ session'[x] = "open" => session[x] = "open"
                          /\ session[x] = "closed" => session'[x] = "closed"
                          /\ session[x] # "none" => session'[x] # "none"
  BY <1>1, <1>2
<1>4. ThreadType'
  BY <1>1, <1>2 DEF ThreadOK, ThreadType
<1>5. OneThread'
  BY <1>1, <1>3 DEF ThreadOK, OneThread
<1>6. ThreadKnown'
  BY <1>1, <1>3 DEF ThreadOK, ThreadKnown, ChannelsTypeOK, Runs
<1> QED  BY <1>4, <1>5, <1>6 DEF ThreadOK

\* A run that becomes one which does not open a session.
LEMMA NotOpening ==
  ASSUME ChannelsTypeOK, ThreadOK, UNCHANGED <<session, binding, raced>>,
         NEW w \in Workers, NEW q \in Runs, Becomes(w, q), q.pc # "open"
  PROVE  ThreadOK'
<1>1. \A v \in Workers : run'[v].pc = "open" => run[v].pc = "open" /\ run'[v] = run[v]
  BY DEF ChannelsTypeOK, Becomes
<1> QED  BY <1>1, OtherRunThread

\* Every step keeps the thread.
LEMMA ThreadStep ==
  ASSUME ChannelsTypeOK, ThreadOK, RunsAgree, JobsAgree, [Next]_vars
  PROVE  ThreadOK'
<1>1. ASSUME NEW w \in Workers, NEW pc \in RunPcs, Goto(w, pc), pc # "open",
             UNCHANGED <<session, binding, raced>>
      PROVE  ThreadOK'
  BY <1>1, GotoEffect, NotOpening
<1>2. ASSUME NEW w \in Workers, run' = [run EXCEPT ![w] = IdleRun],
             UNCHANGED <<session, binding, raced>>
      PROVE  ThreadOK'
  <2>1. Becomes(w, IdleRun) /\ IdleRun.pc = "idle"
    BY <1>2, IdleRunType DEF Becomes, IdleRun
  <2> QED  BY <1>2, <2>1, IdleRunType, NotOpening
<1>3. ASSUME UNCHANGED <<session, binding, raced, run>> PROVE ThreadOK'
  BY <1>3, OtherRunThread
<1>4. ASSUME NEW w \in Workers, Dedupe(w) PROVE ThreadOK'
  <2>1. Goto(w, "mark") \/ run' = [run EXCEPT ![w] = IdleRun]
    BY <1>4 DEF Dedupe, Complete
  <2> QED  BY <1>1, <1>2, <1>4, <2>1 DEF Dedupe, RunPcs
<1>5. ASSUME NEW w \in Workers, MarkEventProcessing(w) PROVE ThreadOK'
  BY <1>1, <1>5 DEF MarkEventProcessing, RunPcs
<1>6. ASSUME NEW w \in Workers, EntitlementGate(w) PROVE ThreadOK'
  <2>1. Goto(w, "find") \/ run' = [run EXCEPT ![w] = IdleRun]
    BY <1>6 DEF EntitlementGate, Complete
  <2> QED  BY <1>1, <1>2, <1>6, <2>1 DEF EntitlementGate, RunPcs
<1>7. ASSUME NEW w \in Workers, FindConversation(w) PROVE ThreadOK'
  <2>1. PICK q \in Runs :
           /\ run' = [run EXCEPT ![w] = q] /\ q.bound = binding
           /\ q.pc = "open" /\ binding # NoSession => session[binding] = "closed"
    BY <1>7, FindEffect
  <2>2. \A v \in Workers : v # w => run'[v] = run[v]
    BY <2>1 DEF ChannelsTypeOK
  <2>3. run'[w] = q
    BY <2>1 DEF ChannelsTypeOK
  <2>4. UNCHANGED <<session, binding, raced>>
    BY <1>7 DEF FindConversation
  <2> QED  BY <2>1, <2>2, <2>3, <2>4, OtherRunThread
<1>8. ASSUME NEW w \in Workers, NEW s \in Sessions, OpenConversation(w, s) PROVE ThreadOK'
  BY <1>8, OpenEffect, OpenThread
<1>9. ASSUME NEW w \in Workers, SaveMessage(w) PROVE ThreadOK'
  <2> DEFINE q == [run[w] EXCEPT !.pc = "after", !.saved = TRUE]
  <2>1. run' = [run EXCEPT ![w] = q] /\ run[w] \in Runs /\ "after" \in RunPcs
    BY <1>9 DEF SaveMessage, ChannelsTypeOK, RunPcs
  <2>2. q \in Runs /\ q.pc = "after"
    BY <2>1 DEF Runs
  <2> HIDE DEF q
  <2> QED  BY <1>9, <2>1, <2>2, NotOpening DEF Becomes, SaveMessage
<1>10. ASSUME NEW w \in Workers, MarkEventProcessed(w) PROVE ThreadOK'
  BY <1>2, <1>10 DEF MarkEventProcessed, Complete
<1>11. ASSUME NEW w \in Workers, Throws(w) PROVE ThreadOK'
  <2>1. Goto(w, "failed") \/ run' = [run EXCEPT ![w] = IdleRun]
    BY <1>11 DEF Throws, AttemptFails
  <2> QED  BY <1>1, <1>2, <1>11, <2>1 DEF Throws, RunPcs
<1>12. ASSUME NEW w \in Workers, FailEvent(w) \/ WorkerDies(w) PROVE ThreadOK'
  BY <1>2, <1>12 DEF FailEvent, WorkerDies, AttemptFails
<1>13. ASSUME NEW w \in Workers, NEW e \in Events, Take(w, e) PROVE ThreadOK'
  <2> DEFINE q == [IdleRun EXCEPT !.e = e, !.pc = "dedupe"]
  <2>1. Becomes(w, q) /\ q \in Runs
    BY <1>13, TakeEffect DEF Taken, Becomes
  <2>2. q.pc = "dedupe"
    BY DEF IdleRun
  <2> HIDE DEF q
  <2> QED  BY <1>13, <2>1, <2>2, NotOpening DEF Take
<1>14. ASSUME NEW e \in Events, Receive(e) \/ Stall(e) PROVE ThreadOK'
  BY <1>3, <1>14 DEF Receive, Stall
<1>15. ASSUME NEW s \in Sessions, CloseSession(s) PROVE ThreadOK'
  BY <1>15, CloseThread
<1>16. ASSUME NEW t \in Tasks, TaskStep(t) PROVE ThreadOK'
  BY <1>3, <1>16 DEF TaskStep, Route, Send, MarkDeliverySent, MarkDeliveryFailed, TaskFails,
     inboundVars
<1>17. ASSUME NEW t \in Tasks, NEW r \in Replies, RepostReply(t, r) PROVE ThreadOK'
  BY <1>3, <1>17 DEF RepostReply, Starts, inboundVars
<1>18. ASSUME NEW t \in Tasks, NEW r \in Replies, NEW s \in Sessions, PostReply(t, r, s)
       PROVE  ThreadOK'
  BY <1>3, <1>18 DEF PostReply, Starts, inboundVars
<1>19. CASE UNCHANGED vars
  BY <1>3, <1>19 DEF vars, inboundVars
<1>20. ASSUME NEW w \in Workers, RunStep(w) PROVE ThreadOK'
  BY <1>4, <1>5, <1>6, <1>7, <1>8, <1>9, <1>10, <1>11, <1>12, <1>20 DEF RunStep
<1> QED  BY <1>13, <1>14, <1>15, <1>16, <1>17, <1>18, <1>19, <1>20 DEF Next

-----------------------------------------------------------------------------
(* The deliveries.                                                         *)

OutboundType ==
  /\ reply \in [Replies -> [status : {"none", "sent", "sending", "failed"},
                             session : Sessions \cup {NoSession}]]
  /\ task \in [Tasks -> [r : Replies \cup {NULL},
                          pc : {"idle", "route", "send", "took", "refused"}]]
  /\ taken \in [Replies -> Nat] /\ lost \subseteq Replies
  /\ posts \in 0..MaxPosts

OutboundOK == OutboundType /\ DeliveriesAgree /\ SentWasTaken

\* The delivery of t becomes q.
Becoming(t, q) ==
  /\ q \in [r : Replies \cup {NULL}, pc : {"idle", "route", "send", "took", "refused"}]
  /\ task' = [task EXCEPT ![t] = q]

\* A step that keeps the reply of every delivery but t's, and reports a reply
\* as sent only with a delivery at work on it, or one that was taken.
LEMMA DeliveryMoves ==
  ASSUME OutboundOK, OutboundType', NEW t \in Tasks, NEW q, Becoming(t, q),
         q.r = NULL <=> q.pc = "idle",
         q.pc = "took" => taken'[q.r] > 0,
         lost \subseteq lost',
         \A x \in Replies : taken[x] > 0 => taken'[x] > 0,
         \A x \in Replies : reply'[x].status = "sent" =>
            \/ reply[x].status = "sent" /\ (task[t].r = x => q.r = x)
            \/ q.r = x \/ taken'[x] > 0 \/ x \in lost'
  PROVE  OutboundOK'
<1>1. task'[t] = q /\ \A u \in Tasks \ {t} : task'[u] = task[u]
  BY DEF Becoming, OutboundOK, OutboundType
<1>2. DeliveriesAgree'
  <2> SUFFICES ASSUME NEW u \in Tasks
               PROVE  /\ task'[u].r = NULL <=> task'[u].pc = "idle"
                      /\ task'[u].pc = "took" => taken'[task'[u].r] > 0
    BY DEF DeliveriesAgree
  <2>1. CASE u = t
    BY <1>1, <2>1
  <2>2. CASE u # t
    <3>1. task'[u] = task[u] /\ (task[u].pc = "took" => task[u].r \in Replies)
      BY <1>1, <2>2 DEF OutboundOK, OutboundType, DeliveriesAgree
    <3> QED  BY <3>1 DEF OutboundOK, DeliveriesAgree
  <2> QED  BY <2>1, <2>2
<1>3. SentWasTaken'
  <2> SUFFICES ASSUME NEW x \in Replies, reply'[x].status = "sent",
                      \A u \in Tasks : task'[u].r # x
               PROVE  taken'[x] > 0 \/ x \in lost'
    BY DEF SentWasTaken
  <2>1. q.r # x
    BY <1>1
  <2>2. CASE taken'[x] > 0 \/ x \in lost'
    BY <2>2
  <2>3. CASE reply[x].status = "sent" /\ task[t].r # x
    <3>1. \A u \in Tasks : task[u].r # x
      BY <1>1, <2>3
    <3> QED  BY <2>3, <3>1 DEF OutboundOK, SentWasTaken
  <2> QED  BY <2>1, <2>2, <2>3
<1> QED  BY <1>2, <1>3 DEF OutboundOK

\* A delivery that is not IdleTask has a reply.
LEMMA DeliveryBusy ==
  ASSUME OutboundOK, NEW t \in Tasks, task[t] # IdleTask
  PROVE  task[t].r \in Replies /\ task[t].pc # "idle"
<1>1. task[t] \in [r : Replies \cup {NULL}, pc : {"idle", "route", "send", "took", "refused"}]
  BY DEF OutboundOK, OutboundType
<1>2. task[t].r = NULL <=> task[t].pc = "idle"
  BY DEF OutboundOK, DeliveriesAgree
<1>3. ASSUME task[t].r = NULL, task[t].pc = "idle" PROVE FALSE
  BY <1>1, <1>3 DEF IdleTask
<1> QED  BY <1>1, <1>2, <1>3

\* IdleTask has no reply, and is no reply's.
LEMMA IdleTaskParts ==
  /\ IdleTask \in [r : Replies \cup {NULL}, pc : {"idle", "route", "send", "took", "refused"}]
  /\ IdleTask.r = NULL /\ IdleTask.pc = "idle"
BY DEF IdleTask

\* TaskGoto changes the place of a delivery only.
LEMMA TaskGotoEffect ==
  ASSUME OutboundType, NEW t \in Tasks, NEW pc \in {"send", "took", "refused"}, TaskGoto(t, pc)
  PROVE  \E q : Becoming(t, q) /\ q.pc = pc /\ q.r = task[t].r
<1> DEFINE q == [task[t] EXCEPT !.pc = pc]
<1>1. task[t] \in [r : Replies \cup {NULL}, pc : {"idle", "route", "send", "took", "refused"}]
  BY DEF OutboundType
<1>2. /\ q \in [r : Replies \cup {NULL}, pc : {"idle", "route", "send", "took", "refused"}]
      /\ q.pc = pc /\ q.r = task[t].r
  BY <1>1
<1>3. task' = [task EXCEPT ![t] = q]
  BY DEF TaskGoto
<1> HIDE DEF q
<1> QED  BY <1>2, <1>3 DEF Becoming

\* Changing the status of a reply.
LEMMA StatusChange ==
  ASSUME OutboundType, NEW r \in Replies, NEW st \in {"sent", "sending", "failed"},
         reply' = [reply EXCEPT ![r].status = st]
  PROVE  /\ reply' \in [Replies -> [status : {"none", "sent", "sending", "failed"},
                                     session : Sessions \cup {NoSession}]]
         /\ reply'[r].status = st
         /\ \A x \in Replies \ {r} : reply'[x] = reply[x]
<1> DEFINE n == [reply[r] EXCEPT !.status = st]
<1>1. /\ reply[r] \in [status : {"none", "sent", "sending", "failed"},
                       session : Sessions \cup {NoSession}]
      /\ reply' = [reply EXCEPT ![r] = n]
  BY DEF OutboundType
<1>2. n \in [status : {"none", "sent", "sending", "failed"},
             session : Sessions \cup {NoSession}] /\ n.status = st
  BY <1>1
<1> HIDE DEF n
<1> QED  BY <1>1, <1>2 DEF OutboundType

\* Routing a reply.
LEMMA RouteStep ==
  ASSUME OutboundOK, NEW t \in Tasks, Route(t)
  PROVE  OutboundOK'
<1>1. PICK pc \in {"send", "refused"} : TaskGoto(t, pc)
  BY DEF Route
<1>2. PICK q : Becoming(t, q) /\ q.pc = pc /\ q.r = task[t].r
  BY <1>1, TaskGotoEffect DEF OutboundOK
<1>3. UNCHANGED <<reply, taken, posts, lost>> /\ task[t].pc = "route"
  BY DEF Route
<1>4. OutboundType'
  BY <1>2, <1>3 DEF OutboundOK, OutboundType, Becoming
<1>5. q.r = NULL <=> q.pc = "idle"
  BY <1>2, <1>3 DEF OutboundOK, DeliveriesAgree
<1> QED  BY <1>2, <1>3, <1>4, <1>5, DeliveryMoves

\* The channel's answer.
LEMMA SendStep ==
  ASSUME OutboundOK, NEW t \in Tasks, Send(t)
  PROVE  OutboundOK'
<1>1. task[t].pc = "send" /\ UNCHANGED <<reply, posts, lost>>
  BY DEF Send
<1>2. PICK took \in BOOLEAN, pc \in {"took", "refused"} :
        /\ pc = "took" => took
        /\ TaskGoto(t, pc)
        /\ taken' = IF took THEN [taken EXCEPT ![task[t].r] = @ + 1] ELSE taken
  BY DEF Send
<1>3. PICK q : Becoming(t, q) /\ q.pc = pc /\ q.r = task[t].r
  BY <1>2, TaskGotoEffect DEF OutboundOK
<1>4. task[t].r \in Replies
  BY <1>1, DeliveryBusy DEF IdleTask
<1>5. taken \in [Replies -> Nat]
  BY DEF OutboundOK, OutboundType
<1>6. /\ taken' \in [Replies -> Nat]
      /\ \A x \in Replies : taken[x] > 0 => taken'[x] > 0
      /\ took => taken'[task[t].r] > 0
  <2>1. CASE took
    <3>1. taken' = [taken EXCEPT ![task[t].r] = taken[task[t].r] + 1]
      BY <1>2, <2>1
    <3> QED  BY <1>4, <1>5, <3>1
  <2>2. CASE ~ took
    BY <1>2, <1>5, <2>2
  <2> QED  BY <2>1, <2>2
<1>7. OutboundType'
  BY <1>1, <1>3, <1>6 DEF OutboundOK, OutboundType, Becoming
<1>8. q.r # NULL /\ q.pc # "idle" /\ (q.pc = "took" => taken'[q.r] > 0)
  BY <1>2, <1>3, <1>4, <1>6, ChannelsAssumption
<1> QED  BY <1>1, <1>3, <1>6, <1>7, <1>8, DeliveryMoves

\* markDeliverySent: what it reports was taken.
LEMMA MarkSentStep ==
  ASSUME OutboundOK, NEW t \in Tasks, MarkDeliverySent(t)
  PROVE  OutboundOK'
<1> DEFINE r == task[t].r
<1> DEFINE st == IF reply[r].status = "sending" THEN "sent" ELSE reply[r].status
<1>1. /\ task[t].pc = "took" /\ UNCHANGED <<taken, posts, lost>>
      /\ task' = [task EXCEPT ![t] = IdleTask]
      /\ reply' = [reply EXCEPT ![r].status = st]
  BY DEF MarkDeliverySent
<1>2. r \in Replies /\ taken[r] > 0
  BY <1>1, DeliveryBusy DEF IdleTask, OutboundOK, DeliveriesAgree
<1>3. Becoming(t, IdleTask)
  BY <1>1, IdleTaskParts DEF Becoming
<1>4. /\ reply' \in [Replies -> [status : {"none", "sent", "sending", "failed"},
                                  session : Sessions \cup {NoSession}]]
      /\ \A x \in Replies \ {r} : reply'[x] = reply[x]
  <2>1. reply[r].status \in {"none", "sent", "sending", "failed"} /\ reply \in [Replies -> [status : {"none", "sent", "sending", "failed"},
                                  session : Sessions \cup {NoSession}]]
    BY <1>2 DEF OutboundOK, OutboundType
  <2>2. st \in {"none", "sent", "sending", "failed"}
    BY <2>1
  <2>3. CASE st \in {"sent", "sending", "failed"}
    <3> HIDE DEF st
    <3> QED  BY <1>1, <1>2, <2>3, StatusChange DEF OutboundOK
  <2>4. CASE st = "none"
    <3>1. st = reply[r].status
      BY <2>4
    <3> HIDE DEF st
    <3>2. [reply[r] EXCEPT !.status = st] = reply[r]
      BY <1>2, <2>1, <3>1
    <3>3. reply' = [reply EXCEPT ![r] = [reply[r] EXCEPT !.status = st]]
      BY <1>1
    <3> QED  BY <1>2, <2>1, <3>2, <3>3
  <2> QED  BY <2>2, <2>3, <2>4
<1>5. OutboundType'
  BY <1>1, <1>3, <1>4 DEF OutboundOK, OutboundType, Becoming
<1> HIDE DEF st, r
<1>6. \A x \in Replies : x # r => reply'[x] = reply[x]
  BY <1>4
<1>7. \A x \in Replies : reply'[x].status = "sent" =>
            \/ reply[x].status = "sent" /\ (task[t].r = x => IdleTask.r = x)
            \/ IdleTask.r = x \/ taken'[x] > 0 \/ x \in lost'
  BY <1>1, <1>2, <1>6 DEF r
<1> QED  BY <1>1, <1>3, <1>5, <1>7, IdleTaskParts, DeliveryMoves

\* markDeliveryFailed leaves nothing marked sent.
LEMMA MarkFailedStep ==
  ASSUME OutboundOK, NEW t \in Tasks, MarkDeliveryFailed(t)
  PROVE  OutboundOK'
<1> DEFINE r == task[t].r
<1>1. /\ task[t].pc = "refused" /\ UNCHANGED <<taken, posts, lost>>
      /\ task' = [task EXCEPT ![t] = IdleTask]
      /\ reply' = [reply EXCEPT ![r].status = "failed"]
  BY DEF MarkDeliveryFailed
<1>2. r \in Replies
  BY <1>1, DeliveryBusy DEF IdleTask
<1>3. Becoming(t, IdleTask)
  BY <1>1, IdleTaskParts DEF Becoming
<1>4. /\ reply' \in [Replies -> [status : {"none", "sent", "sending", "failed"},
                                  session : Sessions \cup {NoSession}]]
      /\ reply'[r].status = "failed"
      /\ \A x \in Replies \ {r} : reply'[x] = reply[x]
  BY <1>1, <1>2, StatusChange DEF OutboundOK
<1>5. OutboundType'
  BY <1>1, <1>3, <1>4 DEF OutboundOK, OutboundType, Becoming
<1>7. \A x \in Replies : reply'[x].status = "sent" =>
            \/ reply[x].status = "sent" /\ (task[t].r = x => IdleTask.r = x)
            \/ IdleTask.r = x \/ taken'[x] > 0 \/ x \in lost'
  BY <1>4
<1> QED  BY <1>1, <1>3, <1>5, <1>7, IdleTaskParts, DeliveryMoves

\* A delivery that dies leaves its reply among the lost.
LEMMA TaskFailsStep ==
  ASSUME OutboundOK, NEW t \in Tasks, TaskFails(t)
  PROVE  OutboundOK'
<1>1. task[t].r \in Replies /\ task[t].pc # "idle" /\ UNCHANGED <<reply, taken, posts>>
  BY DeliveryBusy DEF TaskFails
<1>2. CASE TaskGoto(t, "refused") /\ UNCHANGED lost
  <2>1. PICK q : Becoming(t, q) /\ q.pc = "refused" /\ q.r = task[t].r
    BY <1>2, TaskGotoEffect DEF OutboundOK
  <2>2. OutboundType'
    BY <1>1, <1>2, <2>1 DEF OutboundOK, OutboundType, Becoming
  <2> QED  BY <1>1, <1>2, <2>1, <2>2, DeliveryMoves, ChannelsAssumption
<1>3. CASE task' = [task EXCEPT ![t] = IdleTask] /\ lost' = lost \cup {task[t].r}
  <2>1. Becoming(t, IdleTask)
    BY <1>3, IdleTaskParts DEF Becoming
  <2>2. OutboundType'
    BY <1>1, <1>3, <2>1 DEF OutboundOK, OutboundType, Becoming
  <2> QED  BY <1>1, <1>3, <2>1, <2>2, IdleTaskParts, DeliveryMoves
<1> QED  BY <1>2, <1>3 DEF TaskFails

\* A post or a repeated post starts a delivery of its reply.
LEMMA StartsStep ==
  ASSUME OutboundOK, NEW t \in Tasks, NEW r \in Replies, Starts(t, r),
         reply' \in [Replies -> [status : {"none", "sent", "sending", "failed"},
                                  session : Sessions \cup {NoSession}]],
         \A x \in Replies \ {r} : reply'[x] = reply[x]
  PROVE  OutboundOK'
<1> DEFINE q == [r |-> r, pc |-> "route"]
<1>1. task[t] = IdleTask /\ task' = [task EXCEPT ![t] = q] /\ UNCHANGED <<taken, lost>>
      /\ posts' \in 0..MaxPosts
  BY ChannelsAssumption DEF Starts, OutboundOK, OutboundType
<1>2. q.r = r /\ q.pc = "route" /\ Becoming(t, q) /\ r # NULL
  BY <1>1, ChannelsAssumption DEF Becoming
<1>3. OutboundType'
  BY <1>1, <1>2 DEF OutboundOK, OutboundType, Becoming
<1>4. task[t].r = NULL
  BY <1>1, IdleTaskParts
<1> HIDE DEF q
<1> QED  BY <1>1, <1>2, <1>3, <1>4, DeliveryMoves, ChannelsAssumption

\* Posting a reply.
LEMMA PostStep ==
  ASSUME OutboundOK, NEW t \in Tasks, NEW r \in Replies, NEW s \in Sessions,
         PostReply(t, r, s)
  PROVE  OutboundOK'
<1>1. /\ reply' = [reply EXCEPT ![r] = [status |-> "sent", session |-> s]]
      /\ Starts(t, r)
  BY DEF PostReply
<1>2. /\ reply' \in [Replies -> [status : {"none", "sent", "sending", "failed"},
                                  session : Sessions \cup {NoSession}]]
      /\ \A x \in Replies \ {r} : reply'[x] = reply[x]
  BY <1>1 DEF OutboundOK, OutboundType
<1> QED  BY <1>1, <1>2, StartsStep

\* Posting a reply again.
LEMMA RepostStep ==
  ASSUME OutboundOK, NEW t \in Tasks, NEW r \in Replies, RepostReply(t, r)
  PROVE  OutboundOK'
<1> DEFINE st == IF reply[r].status = "failed" THEN "sending" ELSE reply[r].status
<1>1. reply' = [reply EXCEPT ![r].status = st] /\ Starts(t, r)
  BY DEF RepostReply
<1>2. reply[r].status \in {"none", "sent", "sending", "failed"} /\ reply[r].status # "none"
  BY DEF RepostReply, OutboundOK, OutboundType
<1>3. st \in {"sent", "sending", "failed"}
  BY <1>2
<1> HIDE DEF st
<1> QED  BY <1>1, <1>3, StatusChange, StartsStep DEF OutboundOK

\* Every step keeps the outbound part.
LEMMA OutboundStep ==
  ASSUME OutboundOK, [Next]_vars
  PROVE  OutboundOK'
<1>1. ASSUME UNCHANGED outboundVars PROVE OutboundOK'
  BY <1>1 DEF OutboundOK, OutboundType, DeliveriesAgree, SentWasTaken, outboundVars
<1>2. ASSUME NEW w \in Workers, RunStep(w) PROVE OutboundOK'
  BY <1>1, <1>2 DEF RunStep, Dedupe, MarkEventProcessing, EntitlementGate, FindConversation,
     SaveMessage, MarkEventProcessed, Throws, FailEvent, WorkerDies, OpenConversation
<1>3. ASSUME NEW w \in Workers, NEW e \in Events, Take(w, e) PROVE OutboundOK'
  BY <1>1, <1>3 DEF Take
<1>4. ASSUME NEW e \in Events, Receive(e) \/ Stall(e) PROVE OutboundOK'
  BY <1>1, <1>4 DEF Receive, Stall
<1>5. ASSUME NEW s \in Sessions, CloseSession(s) PROVE OutboundOK'
  BY <1>1, <1>5 DEF CloseSession
<1>6. ASSUME NEW t \in Tasks, TaskStep(t) PROVE OutboundOK'
  BY <1>6, RouteStep, SendStep, MarkSentStep, MarkFailedStep, TaskFailsStep DEF TaskStep
<1>7. ASSUME NEW t \in Tasks, NEW r \in Replies, RepostReply(t, r) PROVE OutboundOK'
  BY <1>7, RepostStep
<1>8. ASSUME NEW t \in Tasks, NEW r \in Replies, NEW s \in Sessions, PostReply(t, r, s)
      PROVE  OutboundOK'
  BY <1>8, PostStep
<1>9. CASE UNCHANGED vars
  BY <1>1, <1>9 DEF vars
<1> QED  BY <1>2, <1>3, <1>4, <1>5, <1>6, <1>7, <1>8, <1>9 DEF Next

-----------------------------------------------------------------------------
(* The theorems.                                                           *)

\* The count of faults keeps its bound.
LEMMA FaultsStep ==
  ASSUME faults \in 0..MaxFaults, [Next]_vars
  PROVE  faults' \in 0..MaxFaults
<1>1. faults' = faults \/ Fault
  BY DEF Next, vars, RunStep, Dedupe, MarkEventProcessing, EntitlementGate,
     FindConversation, SaveMessage, MarkEventProcessed, Throws, FailEvent, WorkerDies,
     OpenConversation, Take, Receive, Stall, CloseSession, TaskStep, Route, Send,
     MarkDeliverySent, MarkDeliveryFailed, TaskFails, RepostReply, PostReply, Starts
<1> QED  BY <1>1, ChannelsAssumption DEF Fault

\* The invariant by parts.
LEMMA Parts ==
  IInv <=> InboundOK /\ ThreadOK /\ OutboundOK /\ faults \in 0..MaxFaults
BY DEF IInv, InboundOK, InboundType, ThreadOK, ThreadType, OutboundOK, OutboundType,
   ChannelsTypeOK

\* The invariant holds at the start.
LEMMA InitInv ==
  ASSUME Init
  PROVE  IInv
<1>1. InboundType
  BY IdleRunType, ChannelsAssumption DEF Init, InboundType, LogStatuses, Jobs
<1>2. /\ \A w \in Workers : run[w] = IdleRun
      /\ \A e \in Events : /\ log[e] = "none" /\ copies[e] = 0 /\ torn[e] = 0
                           /\ job[e].state = "none" /\ job[e].owner = NULL
                           /\ job[e].failures = 0
  BY DEF Init
<1>3. RunsAgree
  <2>1. /\ IdleRun.e = NULL /\ IdleRun.pc = "idle" /\ IdleRun.saved = FALSE
    BY DEF IdleRun
  <2> QED  BY <1>2, <2>1 DEF RunsAgree
<1>4. JobsAgree
  BY <1>2, ChannelsAssumption DEF JobsAgree, Fit
<1>5. VerdictsAgree
  BY <1>2 DEF VerdictsAgree
<1>6. CopiesAccounted
  <2> SUFFICES ASSUME NEW e \in Events PROVE CopiesOK(e)
    BY DEF CopiesAccounted, CopiesOK
  <2>1. Unsaved(e) = {}
    BY <1>2, ChannelsAssumption DEF Unsaved, IdleRun
  <2>2. Cardinality(Unsaved(e)) = 0
    BY <2>1, FS_EmptySet
  <2> QED  BY <1>2, <2>2 DEF CopiesOK
<1>7. ThreadOK
  BY <1>2 DEF Init, ThreadOK, ThreadType, ThreadKnown, OneThread, NoSession, IdleRun
<1>8. /\ reply = [r \in Replies |-> [status |-> "none", session |-> NoSession]]
      /\ task = [t \in Tasks |-> IdleTask] /\ taken = [r \in Replies |-> 0]
      /\ posts = 0 /\ faults = 0 /\ lost = {}
  BY DEF Init
<1>9. OutboundType /\ faults \in 0..MaxFaults
  BY <1>8, IdleTaskParts, ChannelsAssumption DEF OutboundType
<1>10. DeliveriesAgree /\ SentWasTaken
  BY <1>8, IdleTaskParts DEF DeliveriesAgree, SentWasTaken
<1> QED  BY <1>1, <1>3, <1>4, <1>5, <1>6, <1>7, <1>9, <1>10, Parts DEF InboundOK, OutboundOK

\* Every step keeps the invariant.
LEMMA StepInv ==
  ASSUME IInv, [Next]_vars
  PROVE  IInv'
<1>1. /\ ChannelsTypeOK /\ RunsAgree /\ JobsAgree
      /\ InboundOK /\ ThreadOK /\ OutboundOK /\ faults \in 0..MaxFaults
  BY Parts DEF IInv
<1>2. InboundOK' /\ ThreadOK' /\ OutboundOK' /\ faults' \in 0..MaxFaults
  BY <1>1, InboundStep, ThreadStep, OutboundStep, FaultsStep
<1> QED  BY <1>2 DEF IInv, InboundOK, InboundType, ThreadOK, ThreadType, OutboundOK,
            OutboundType, ChannelsTypeOK

\* The inductive invariant holds of every behaviour of the inbound pipeline and
\* of the delivery of replies.
THEOREM Invariance == Spec => []IInv
<1>1. Init => IInv
  BY InitInv
<1>2. IInv /\ [Next]_vars => IInv'
  BY StepInv
<1> QED  BY <1>1, <1>2, PTL DEF Spec

\* The log, jobs, runs, sessions, binding, replies and deliveries keep their
\* types, for any number of events, workers and faults.
THEOREM TypeCorrect == Spec => []ChannelsTypeOK
<1>1. IInv => ChannelsTypeOK
  BY DEF IInv
<1> QED  BY <1>1, Invariance, PTL

\* A job that Bull counts as done has saved its message, and each message is
\* saved once but for the runs that failed after saving or overlapped
\* (processInboundEvent), whatever fails, dies or stalls.
THEOREM SavedAtMostOnce == Spec => []SavedOnce
<1>1. IInv => SavedOnce
  <2> SUFFICES ASSUME IInv, NEW e \in Events
               PROVE  /\ job[e].state = "done" => copies[e] > 0 \/ e \in skipped
                      /\ copies[e] <= torn[e] + 1
    BY DEF SavedOnce
  <2>1. copies[e] \in Nat /\ torn[e] \in Nat /\ Cardinality(Unsaved(e)) \in Nat
    BY UnsavedFinite DEF IInv, ChannelsTypeOK
  <2>2. copies[e] + Cardinality(Unsaved(e)) <= torn[e] + 1
    BY DEF IInv, CopiesAccounted
  <2> QED  BY <2>1, <2>2 DEF IInv, VerdictsAgree
<1> QED  BY <1>1, Invariance, PTL

\* The binding names the open session of the thread (findOrCreateConversation),
\* until two runs reopen a closed thread at once.
THEOREM ThreadIsOne == Spec => []OneThread
<1>1. IInv => OneThread
  BY DEF IInv
<1> QED  BY <1>1, Invariance, PTL

\* A reply that is marked sent, with no delivery at work on it, was taken by the
\* channel, or its delivery was lost (deliverOperatorReply).
THEOREM SentIsTaken == Spec => []SentWasTaken
<1>1. IInv => SentWasTaken
  BY DEF IInv
<1> QED  BY <1>1, Invariance, PTL

=============================================================================
