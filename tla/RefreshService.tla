-------------------------- MODULE RefreshService --------------------------
(***************************************************************************)
(* The refresh calendar worker (src/data/refresh_service.py) composed with *)
(* its producer, its prediction runs and its calendar file.                *)
(*                                                                         *)
(* The handlers tick, initialize_predictions and refresh_now run under     *)
(* service.lock, so one handler is in progress at a time; `pc` is its next *)
(* step and `task` what it is scoring.  Each durable write is one step.    *)
(* A handler may be interrupted before any step, by the death of its       *)
(* process or by an exception: it is forgotten and the files stay.  The    *)
(* in-memory service state equals the saved one between steps, because     *)
(* each change of `pending` is saved where it is made.                     *)
(***************************************************************************)
EXTENDS IncrementalRefresh, UpdateCalendar

CONSTANTS
  ManualIds,          \* ids an operator gives to manual refreshes
  Initial,            \* the job id of the startup prediction
  NoGeneration,
  PredictionAnswers,  \* what an answered upcoming-card page can be
  Horizon,            \* the last instant of the model: a bound on the clock
  MaxFaults           \* a bound on interruptions and unanswered requests

CalendarJobs == Weeks \X Slots
ManualJobs == ManualIds \X {"manual"}
PredictionJobs == Jobs \cup {Initial}

ASSUME ServiceJobsAssumption ==
  /\ ManualIds \subseteq Nat
  /\ Jobs = CalendarJobs \cup ManualJobs
  /\ Initial \notin Jobs \cup {NoJob}
  /\ NoGeneration \notin Generations
  /\ PredictionAnswers \subseteq {"saved", "unreadable"}
ASSUME ServiceBoundsAssumption ==
  /\ Horizon \in Nat /\ Weeks = 0 .. WeekOf(Horizon)
  /\ MaxFaults \in Nat

VARIABLES
  clock,
  pending,         \* service.json: the job in progress and its phase
  completedJobs,   \* service.json: finished jobs
  calendar,        \* calendar.json
  prediction,      \* prediction_runs: each job's bound generation; is it complete
  pages,           \* the upcoming-card pages in each generation's response cache
  reports,         \* published_reports: one immutable report per job
  published,       \* published.json, the one file readers are served from
  pc,              \* the next step of the handler that holds service.lock
  task,            \* the job and generation the handler is scoring
  faults,
  everPublished    \* history: the jobs published.json has ever named

predictionVars == <<prediction, pages, reports, published, everPublished>>
envVars == <<clock, faults>>
serviceVars == <<envVars, pending, completedJobs, calendar, predictionVars, pc, task>>
vars == <<producerVars, serviceVars>>

NothingPending == [job |-> NoJob, now |-> 0, phase |-> "none"]
NoTask == [job |-> NoJob, gen |-> NoGeneration]

IsManual(j) == j \in ManualJobs
WeekOfJob(j) == j[1]
SlotOfJob(j) == j[2]

Init ==
  /\ ProducerInit
  /\ clock = 0
  /\ pending = NothingPending
  /\ completedJobs = {}
  /\ calendar = EmptyCalendar
  /\ prediction = [j \in PredictionJobs |-> [gen |-> NoGeneration, done |-> FALSE]]
  /\ pages = [g \in Generations |-> "none"]
  /\ reports = [j \in PredictionJobs |-> NoGeneration]
  /\ published = NoTask
  /\ pc = "idle"
  /\ task = NoTask
  /\ faults = 0
  /\ everPublished = {}

\* The handler's step: it goes on to `step`, or ends (returning or raising).
Step(step) == pc' = step /\ UNCHANGED task
End == pc' = "idle" /\ task' = NoTask

-----------------------------------------------------------------------------
(* Entering a handler. *)

\* Every handler resumes a pending job before anything else.
Resume ==
  /\ pc = "idle" /\ pending.job # NoJob
  /\ Step("resume")
  /\ UNCHANGED <<producerVars, envVars, pending, completedJobs, calendar,
                 predictionVars>>

\* tick: plan the calendar and save the intent of the due slot.
TickPlan ==
  /\ pc = "idle" /\ pending.job = NoJob /\ Active = NoJob
  /\ \E s \in Slots :
       /\ Due(calendar, clock, s)
       /\ pending' = [job |-> <<WeekOf(clock), s>>, now |-> clock, phase |-> "intent"]
  /\ Step("resume")
  /\ UNCHANGED <<producerVars, envVars, completedJobs, calendar, predictionVars>>

\* refresh_now with a new id: save a manual intent, which claims no slot.
RefreshNow(m) ==
  /\ pc = "idle" /\ pending.job = NoJob /\ Active = NoJob
  /\ m \notin completedJobs
  /\ pending' = [job |-> m, now |-> clock, phase |-> "intent"]
  /\ Step("resume")
  /\ UNCHANGED <<producerVars, envVars, completedJobs, calendar, predictionVars>>

\* initialize_predictions with nothing pending: score the current snapshot.
InitializePredictions ==
  /\ pc = "idle" /\ pending.job = NoJob
  /\ pc' = "predict"
  /\ task' = [job |-> Initial, gen |-> accepted]
  /\ UNCHANGED <<producerVars, envVars, pending, completedJobs, calendar,
                 predictionVars>>

-----------------------------------------------------------------------------
(* _resume. *)

\* Mutant: completed data counts as published.
AfterClaimUnpublished ==
  CASE pending.phase = "failure_completed" -> "fail"
    [] pending.phase \in {"data_completed", "published", "calendar_completed"} -> "record"
    [] OTHER -> "produce"

\* Mutant: a recovered failure is not recorded in the calendar again.
AfterClaimForgetsFailure ==
  CASE pending.phase = "failure_completed" -> "finish"
    [] pending.phase \in {"data_completed", "published", "calendar_completed"} -> "predict"
    [] OTHER -> "produce"

\* Where a job with a settled claim goes on.
AfterClaim ==
  CASE pending.phase = "failure_completed" -> "fail"
    [] pending.phase \in {"data_completed", "published", "calendar_completed"} -> "predict"
    [] OTHER -> "produce"

GoOn ==
  /\ pc' = AfterClaim
  /\ task' = IF AfterClaim = "predict"
               THEN [job |-> pending.job, gen |-> pending.job] ELSE NoTask

\* The saved slot agrees with the phase in which the job was left.
ClaimAgrees ==
  LET status == StatusOf(calendar, WeekOfJob(pending.job), SlotOfJob(pending.job))
  IN  \/ status = "claimed"
      \/ status = "succeeded" /\ pending.phase \in {"data_completed", "published", "calendar_completed"}
      \/ status = "failed" /\ pending.phase = "failure_completed"

\* Mutant: the claim is made at the instant of the recovery.
ClaimReproducesNow ==
  /\ StatusOf(calendar, WeekOfJob(pending.job), SlotOfJob(pending.job)) = "absent"
  /\ WeekOf(clock) = WeekOfJob(pending.job)
  /\ Due(calendar, clock, SlotOfJob(pending.job))

\* The original intent still claims its slot at its original instant.
ClaimReproduces ==
  /\ StatusOf(calendar, WeekOfJob(pending.job), SlotOfJob(pending.job)) = "absent"
  /\ WeekOf(pending.now) = WeekOfJob(pending.job)
  /\ Due(calendar, pending.now, SlotOfJob(pending.job))

\* _ensure_original_claim: claim the slot of a saved intent, or fence the claim,
\* or check a decided one.  A conflict raises.
EnsureOriginalClaim ==
  LET w == WeekOfJob(pending.job)  s == SlotOfJob(pending.job)
  IN  /\ pc = "resume"
      /\ IF IsManual(pending.job) THEN GoOn /\ UNCHANGED calendar
         ELSE IF ClaimReproduces
           THEN /\ calendar' = ClaimSlot(calendar, pending.now, s)
                /\ Step("protect")
         ELSE IF ClaimAgrees
           THEN /\ calendar' = IF Claimed(calendar, w, s)
                                 THEN Protect(calendar, w, s) ELSE calendar
                /\ GoOn
         ELSE End /\ UNCHANGED calendar
      /\ UNCHANGED <<producerVars, envVars, pending, completedJobs,
                     predictionVars>>

ProtectNewClaim ==
  /\ pc = "protect"
  /\ calendar' = Protect(calendar, WeekOfJob(pending.job), SlotOfJob(pending.job))
  /\ GoOn
  /\ UNCHANGED <<producerVars, envVars, pending, completedJobs, predictionVars>>

\* Mutant: a phase that no recovery knows.
SaveAcquiring ==
  /\ pc = "produce"
  /\ pending' = [pending EXCEPT !.phase = "acquiring"]
  /\ Step("call")
  /\ UNCHANGED <<producerVars, envVars, completedJobs, calendar, predictionVars>>

SaveClaimed ==
  /\ pc = "produce"
  /\ pending' = [pending EXCEPT !.phase = "claimed"]
  /\ Step("call")
  /\ UNCHANGED <<producerVars, envVars, completedJobs, calendar, predictionVars>>

\* Recover the active producer job or run the pending one.  An unanswered request
\* holds the job, another job or another run refuses it: the handler ends.
CallProducer ==
  /\ pc = "call"
  /\ IF \/ Active \notin {NoJob, pending.job}
        \/ Active # NoJob /\ Uncertain(Active)
        \/ run.at # "idle"
       THEN End /\ UNCHANGED producerVars
       ELSE BeginRun(pending.job, FALSE) /\ Step("producing")
  /\ UNCHANGED <<envVars, pending, completedJobs, calendar, predictionVars>>

\* Mutant: a held job is taken for a failed one.
PhaseAfterHeldFails(outcome) ==
  IF outcome = "completed" THEN "data_completed" ELSE "failure_completed"

\* The phase a producer's result is saved as; a held or raised run saves none.
PhaseAfter(outcome) ==
  CASE outcome = "completed" -> "data_completed"
    [] outcome = "failed" -> "failure_completed"
    [] OTHER -> "claimed"

\* The producer returns: save a completed or a failed result, or stay held.
ProducerReturns ==
  LET result == PhaseAfter(run.outcome)
  IN  /\ pc = "producing" /\ run.at = "returned"
      /\ run' = IdleRun
      /\ pending' = [pending EXCEPT !.phase = result]
      /\ CASE result = "data_completed" ->
                /\ pc' = "predict"
                /\ task' = [job |-> pending.job, gen |-> pending.job]
           [] result = "failure_completed" -> Step("fail")
           [] OTHER -> End
      /\ UNCHANGED <<phase, baseline, cache, active, accepted, everAccepted, envVars,
                     completedJobs, calendar, predictionVars>>

\* complete_data_update of the job's slot; a conflicting slot raises.
RecordOutcome(ok, next) ==
  LET w == WeekOfJob(pending.job)  s == SlotOfJob(pending.job)
  IN  IF IsManual(pending.job) THEN Step(next) /\ UNCHANGED calendar
      ELSE IF CanComplete(calendar, w, s, ok)
        THEN calendar' = Complete(calendar, w, s, ok) /\ Step(next)
        ELSE End /\ UNCHANGED calendar

RecordFailure ==
  /\ pc = "fail"
  /\ RecordOutcome(FALSE, "finish")
  /\ UNCHANGED <<producerVars, envVars, pending, completedJobs, predictionVars>>

\* After the publication: save the phase, then the slot, then the phase again.
SavePublished ==
  /\ pc = "record"
  /\ IF pending.phase = "calendar_completed"
       THEN Step("finish") /\ UNCHANGED pending
       ELSE Step("succeed") /\ pending' = [pending EXCEPT !.phase = "published"]
  /\ UNCHANGED <<producerVars, envVars, completedJobs, calendar, predictionVars>>

RecordSuccess ==
  /\ pc = "succeed"
  /\ RecordOutcome(TRUE, "succeeded")
  /\ UNCHANGED <<producerVars, envVars, pending, completedJobs, predictionVars>>

SaveCalendarCompleted ==
  /\ pc = "succeeded"
  /\ pending' = [pending EXCEPT !.phase = "calendar_completed"]
  /\ Step("finish")
  /\ UNCHANGED <<producerVars, envVars, completedJobs, calendar, predictionVars>>

\* The last save: the job is finished and nothing is pending.
FinishJob ==
  /\ pc = "finish"
  /\ completedJobs' = completedJobs \cup {pending.job}
  /\ pending' = NothingPending
  /\ End
  /\ UNCHANGED <<producerVars, envVars, calendar, predictionVars>>

-----------------------------------------------------------------------------
(* _predict, and run_refresh_predictions inside it. *)

Bind(j, g) == prediction' = [prediction EXCEPT ![j] = [gen |-> g, done |-> FALSE]]

\* A publication of this very job is reused, and so is its complete report; else
\* the job's prediction run starts, or resumes for the generation its saved intent
\* is bound to.  It reads the pages of that generation's response cache: an
\* unanswered request or an unreadable page there raises.
Predict ==
  LET p == prediction[task.job]
  IN  /\ pc = "predict"
      /\ IF published.job = task.job
           THEN /\ IF published.gen = task.gen /\ task.job # Initial
                     THEN Step("record") ELSE End
                /\ UNCHANGED <<prediction, pages>>
         ELSE IF p.gen = NoGeneration
           THEN Bind(task.job, task.gen) /\ Step("predict") /\ UNCHANGED pages
         ELSE IF p.gen # task.gen
           THEN End /\ UNCHANGED <<prediction, pages>>
         ELSE IF p.done
           THEN Step("report") /\ UNCHANGED <<prediction, pages>>
         ELSE CASE pages[p.gen] \in {"asked", "unreadable"} ->
                     End /\ UNCHANGED <<prediction, pages>>
                [] pages[p.gen] = "none" ->
                     /\ pages' = [pages EXCEPT ![p.gen] = "asked"]
                     /\ Step("answer") /\ UNCHANGED prediction
                [] OTHER ->
                     /\ prediction' = [prediction EXCEPT ![task.job].done = TRUE]
                     /\ Step("report") /\ UNCHANGED pages
      /\ UNCHANGED <<producerVars, envVars, pending, completedJobs, calendar,
                     reports, published, everPublished>>

\* The upcoming-card pages are answered and saved.
PredictionAnswer ==
  /\ pc = "answer"
  /\ \E page \in PredictionAnswers : pages' = [pages EXCEPT ![task.gen] = page]
  /\ Step("predict")
  /\ UNCHANGED <<producerVars, envVars, pending, completedJobs, calendar,
                 prediction, reports, published, everPublished>>

\* Mutant: the pair is published before its report is written.
PublishUnreported ==
  /\ pc = "report"
  /\ IF accepted = task.gen /\ reports[task.job] \in {NoGeneration, task.gen}
       THEN Step("publish") ELSE End
  /\ UNCHANGED <<producerVars, envVars, pending, completedJobs, calendar,
                 predictionVars>>

\* _publish_pair, first write: the report, immutable once saved, and only for the
\* generation that is still current.
WriteReport ==
  /\ pc = "report"
  /\ IF accepted = task.gen /\ reports[task.job] \in {NoGeneration, task.gen}
       THEN /\ reports' = [reports EXCEPT ![task.job] = task.gen]
            /\ Step("publish")
       ELSE End /\ UNCHANGED reports
  /\ UNCHANGED <<producerVars, envVars, pending, completedJobs, calendar,
                 prediction, pages, published, everPublished>>

\* _publish_pair, second write: the single served commit point.
PublishPair ==
  /\ pc = "publish"
  /\ published' = task
  /\ everPublished' = everPublished \cup {task.job}
  /\ IF task.job = Initial THEN End ELSE Step("record")
  /\ UNCHANGED <<producerVars, envVars, pending, completedJobs, calendar,
                 prediction, pages, reports>>

-----------------------------------------------------------------------------
(* The environment. *)

Advance ==
  /\ clock < Horizon
  /\ clock' = clock + 1
  /\ UNCHANGED <<producerVars, pending, completedJobs, calendar, predictionVars,
                 pc, task, faults>>

\* The handler dies or raises before its next step, and its producer run with it.
Interrupt ==
  /\ pc # "idle" /\ faults < MaxFaults
  /\ faults' = faults + 1
  /\ End
  /\ run' = IF pc = "producing" THEN IdleRun ELSE run
  /\ UNCHANGED <<phase, baseline, cache, active, accepted, everAccepted, clock,
                 pending, completedJobs, calendar, predictionVars>>

\* The step of whichever run holds refresh.lock, the service's or an operator's.
ProduceStep ==
  /\ \/ WriteActive \/ NextPage \/ RefuseSource \/ Build \/ Stage
     \/ CommitPointer \/ CommitJournal \/ \E good \in BOOLEAN : Answer(good)
  /\ UNCHANGED serviceVars

PageLost ==
  /\ Unanswered
  /\ faults < MaxFaults
  /\ faults' = faults + 1
  /\ UNCHANGED <<clock, pending, completedJobs, calendar, predictionVars, pc,
                 task>>

\* An operator retries the unanswered request of the held job from the command
\* line (--retry-uncertain), in a process of its own.
OperatorRetry ==
  /\ pc # "producing"
  /\ \E j \in {pending.job, Active} \ {NoJob} :
       /\ phase[j] # "none" /\ ~Terminal(j) /\ Uncertain(j)
       /\ BeginRun(j, TRUE)
  /\ UNCHANGED serviceVars

OperatorReturns ==
  /\ pc # "producing" /\ run.at = "returned"
  /\ EndRun
  /\ UNCHANGED serviceVars

OperatorDies ==
  /\ pc # "producing" /\ run.at \notin {"idle", "returned"} /\ faults < MaxFaults
  /\ EndRun
  /\ faults' = faults + 1
  /\ UNCHANGED <<clock, pending, completedJobs, calendar, predictionVars, pc,
                 task>>

HandlerStep ==
  \/ Resume
  \/ TickPlan
  \/ EnsureOriginalClaim
  \/ ProtectNewClaim
  \/ SaveClaimed
  \/ CallProducer
  \/ ProducerReturns
  \/ RecordFailure
  \/ SavePublished
  \/ RecordSuccess
  \/ SaveCalendarCompleted
  \/ FinishJob
  \/ Predict
  \/ PredictionAnswer
  \/ WriteReport
  \/ PublishPair

Next ==
  \/ HandlerStep
  \/ \E m \in ManualJobs : RefreshNow(m)
  \/ InitializePredictions
  \/ ProduceStep
  \/ PageLost
  \/ Interrupt
  \/ OperatorRetry
  \/ OperatorReturns
  \/ OperatorDies
  \/ Advance

Spec == Init /\ [][Next]_vars

\* The worker thread polls for ever, a run in progress goes on, and an operator
\* does not leave an unanswered request unretried.  A handler and an operator's
\* run exclude each other, so the retry needs strong fairness to find its moment.
Fairness ==
  /\ WF_vars(HandlerStep)
  /\ WF_vars(ProduceStep)
  /\ WF_vars(OperatorReturns)
  /\ SF_vars(OperatorRetry)

FairSpec == Spec /\ Fairness

-----------------------------------------------------------------------------

HandlerSteps ==
  {"idle", "resume", "protect", "produce", "call", "producing", "fail", "predict",
   "answer", "report", "publish", "record", "succeed", "succeeded", "finish"}

PendingPhases == {"none", "intent", "claimed", "data_completed", "published",
                  "calendar_completed", "failure_completed"}

Task == [job: PredictionJobs \cup {NoJob}, gen: Generations \cup {NoGeneration}]

\* The type invariant of the service's own files and of its handler.
TypeOK ==
  /\ clock \in 0 .. Horizon
  /\ pending \in [job: Jobs \cup {NoJob}, now: 0 .. Horizon, phase: PendingPhases]
  /\ completedJobs \subseteq Jobs
  /\ calendar \in Calendar
  /\ prediction \in [PredictionJobs -> [gen: Generations \cup {NoGeneration}, done: BOOLEAN]]
  /\ pages \in [Generations -> {"none", "asked", "saved", "unreadable"}]
  /\ reports \in [PredictionJobs -> Generations \cup {NoGeneration}]
  /\ published \in Task
  /\ pc \in HandlerSteps
  /\ task \in Task
  /\ faults \in 0 .. MaxFaults
  /\ everPublished \subseteq PredictionJobs

Open(j) == phase[j] # "none" /\ ~Terminal(j)

\* A reader of published.json always finds a whole pair: its report is on disk,
\* was scored on the generation it names, and that generation's refresh is closed
\* (published_pair, wherever the writers of _publish_pair and _commit stop).
ServedPairIsWhole ==
  published.job # NoJob =>
    /\ reports[published.job] = published.gen
    /\ published.gen # Base => phase[published.gen] = "COMPLETED"

\* The calendar tells the truth about the data: a slot that succeeded has an
\* accepted and published generation, and a slot this service failed has a closed
\* failed journal, never one that may still commit (_resume's order of writes).
CalendarTellsTruth ==
  \A w \in Weeks, s \in Slots :
    LET status == StatusOf(calendar, w, s)
    IN  /\ status = "succeeded" => <<w, s>> \in everAccepted \cap everPublished
        /\ status = "failed" /\ calendar[w].slots[s].owned => phase[<<w, s>>] = "FAILED"

\* Nothing in progress is orphaned: an open producer journal and an active calendar
\* claim always belong to the pending job, so a restart finds its owner (tick's
\* "Unassociated producer job" and "Another original producer job" never happen).
NoOrphans ==
  /\ \A j \in Jobs : Open(j) => pending.job = j
  /\ \A w \in Weeks, s \in Slots : Claimed(calendar, w, s) => pending.job = <<w, s>>

\* A week's data is accepted at most once by its two slots, over every crash
\* between the calendar, the journal and the accepted pointer.
OneAcceptedSlotPerWeek ==
  \A w \in Weeks : ~({<<w, "tuesday">>, <<w, "wednesday">>} \subseteq everAccepted)

\* A recovered job never meets a conflict it cannot resolve: its claim reproduces
\* or agrees, its commit still follows its baseline, its report and generation are
\* its own and its result fits its slot.  Each of these raises, and would for ever.
RecoveryNeverConflicts ==
  /\ pc = "resume" /\ ~IsManual(pending.job) => ClaimReproduces \/ ClaimAgrees
  /\ run.at = "commit" => MayCommit(run.job)
  /\ pc = "report" /\ task.job # Initial =>
       accepted = task.gen /\ reports[task.job] \in {NoGeneration, task.gen}
  /\ pc \in {"fail", "succeed"} /\ ~IsManual(pending.job) =>
       CanComplete(calendar, WeekOfJob(pending.job), SlotOfJob(pending.job), pc = "succeed")

\* A job stops being pending only when its outcome is recorded everywhere: its
\* journal is closed, a completed job is what readers are served, and a calendar
\* job's slot says the same.
PendingLeavesOnlyWhenDone ==
  [][\A j \in Jobs :
       pending.job = j /\ pending'.job # j =>
         /\ Terminal(j)
         /\ phase[j] = "COMPLETED" => published = [job |-> j, gen |-> j]
         /\ ~IsManual(j) => StatusOf(calendar, WeekOfJob(j), SlotOfJob(j)) =
                              IF phase[j] = "COMPLETED" THEN "succeeded" ELSE "failed"]_vars

\* Readers see accepted generations in order and none is skipped.
ServedInOrder == INSTANCE Publication WITH
  None <- NoGeneration, served <- published.gen, history <- everAccepted

ImplementsPublication == ServedInOrder!PublicationSpec

\* A prediction request with no saved answer or with an unreadable one holds its
\* job for good: the predictor never asks again (refresh_predictions.py).  So does
\* a refusal that finds no active job (the crash between journal and active.json).
HeldForGood(j) ==
  \/ pages[j] \in {"asked", "unreadable"}
  \/ cache[j].next = "bad" /\ Open(j) /\ Active = NoJob

\* Every planned job is finished in the end, or is held for one of the reasons
\* above: faults, lost responses and lost handlers alone never wedge the service.
EveryJobFinishes ==
  \A j \in Jobs : pending.job = j ~> pending.job # j \/ HeldForGood(j)

\* "A definitive saved quality failure is durable": a job whose saved page was
\* refused is closed in the end, wherever its earlier runs were interrupted.
RefusedJobCloses ==
  \A j \in Jobs : cache[j].next = "bad" ~> Terminal(j)
=============================================================================
