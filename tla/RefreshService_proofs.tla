------------------------ MODULE RefreshService_proofs ------------------------
(***************************************************************************)
(* Proofs about the refresh service, for any weeks, manual ids, pages and  *)
(* faults.                                                                 *)
(*                                                                         *)
(* The service's files agree with one another only along the order of its  *)
(* writes, so the invariant says for each phase of the pending job, and    *)
(* each step of the handler, what the journal, the calendar and the        *)
(* publication already are.                                                *)
(***************************************************************************)
EXTENDS RefreshService, IncrementalRefresh_proofs, UpdateCalendar_proofs

\* The saved slot of a calendar job.
Status(j) == StatusOf(calendar, WeekOfJob(j), SlotOfJob(j))
Owned(j) == calendar[WeekOfJob(j)].slots[SlotOfJob(j)].owned

\* The phases after the data was completed, and the steps of scoring it.
Done == {"data_completed", "published", "calendar_completed"}
Scoring == {"predict", "answer", "report", "publish"}

-----------------------------------------------------------------------------
\* An open journal, and a run, belong to the pending job, whose claim was saved.
JournalFacts ==
  /\ \A j \in Jobs : Open(j) => pending.job = j /\ pending.phase = "claimed"
  /\ \A j \in Jobs : phase[j] # "none" => j \in completedJobs \cup {pending.job}
  /\ run.at # "idle" => run.job = pending.job /\ pending.phase = "claimed"
  /\ run.at = "returned" /\ run.outcome = "completed" => phase[run.job] = "COMPLETED"
  /\ run.at = "returned" /\ run.outcome = "failed" => phase[run.job] = "FAILED"

\* What the saved phase of the pending job says of its journal and its publication.
PendingFacts ==
  /\ pending.job = NoJob <=> pending.phase = "none"
  /\ pending.phase = "intent" => phase[pending.job] = "none"
  /\ pending.phase \in Done => phase[pending.job] = "COMPLETED"
  /\ pending.phase = "failure_completed" => phase[pending.job] = "FAILED"
  /\ pending.phase \in {"published", "calendar_completed"} =>
       published = [job |-> pending.job, gen |-> pending.job]
  /\ pending.job # NoJob /\ phase[pending.job] # "none" =>
       accepted \in {pending.job, baseline[pending.job]}
  /\ pending.job # NoJob /\ phase[pending.job] = "COMPLETED" => accepted = pending.job

\* What a slot says of its job, and the saved phase of the pending job of its slot.
CalendarFacts ==
  /\ \A j \in CalendarJobs :
       /\ Status(j) = "absent" => phase[j] = "none"
       /\ Status(j) = "claimed" => j = pending.job /\ Owned(j)
       /\ Status(j) = "succeeded" =>
            j \in everAccepted \cap everPublished /\ Owned(j) /\ phase[j] = "COMPLETED"
       /\ Status(j) = "failed" => phase[j] = IF Owned(j) THEN "FAILED" ELSE "none"
  /\ \A w \in Weeks : StatusOf(calendar, w, "wednesday") # "absent" =>
       StatusOf(calendar, w, "tuesday") = "failed"
  /\ pending.job \in CalendarJobs =>
       /\ pending.phase = "intent" => Status(pending.job) \in {"absent", "claimed"}
       /\ pending.phase = "intent" /\ Status(pending.job) = "absent" =>
            ClaimReproduces
       /\ pending.phase \in {"claimed", "data_completed"} => Status(pending.job) = "claimed"
       /\ pending.phase = "published" => Status(pending.job) \in {"claimed", "succeeded"}
       /\ pending.phase = "calendar_completed" => Status(pending.job) = "succeeded"
       /\ pending.phase = "failure_completed" =>
            Status(pending.job) \in {"claimed", "failed"} /\ Owned(pending.job)

\* What the handler may rely on at its next step.
HandlerFacts ==
  /\ pc \notin Scoring \cup {"idle"} => pending.job # NoJob
  /\ pc \in Scoring =>
       \/ task.job = Initial /\ pending.job = NoJob /\ task.gen = accepted
       \/ task = [job |-> pending.job, gen |-> pending.job] /\ pending.phase \in Done
  /\ pc = "publish" => reports[task.job] = task.gen
  /\ pc = "protect" =>
       pending.job \in CalendarJobs /\ pending.phase = "intent" /\ Status(pending.job) = "claimed"
  /\ pc = "produce" => pending.phase \in {"intent", "claimed"}
  /\ pc = "produce" /\ pending.job \in CalendarJobs => Status(pending.job) = "claimed"
  /\ pc \in {"call", "producing"} => pending.phase = "claimed"
  /\ pc = "producing" => run.at # "idle"
  /\ pc = "fail" => pending.phase = "failure_completed"
  /\ pc = "record" => /\ pending.phase \in Done
                      /\ published = [job |-> pending.job, gen |-> pending.job]
  /\ pc \in {"succeed", "succeeded"} => pending.phase = "published"
  /\ pc = "succeeded" /\ pending.job \in CalendarJobs => Status(pending.job) = "succeeded"
  /\ pc = "finish" => pending.phase \in {"calendar_completed", "failure_completed"}
  /\ pc = "finish" /\ pending.phase = "failure_completed" /\ pending.job \in CalendarJobs =>
       Status(pending.job) = "failed"

\* What readers are served, and how far it is behind the accepted pointer.
ServedFacts ==
  /\ published.job = NoJob <=> published.gen = NoGeneration
  /\ published.job # NoJob => /\ published.job \in everPublished
                              /\ reports[published.job] = published.gen
  /\ published.gen \in Jobs => phase[published.gen] = "COMPLETED"
  /\ published.job \in Jobs => published.gen = published.job
  /\ \A j \in Jobs : reports[j] \in {NoGeneration, j}
  /\ \/ published.gen = accepted
     \/ published.gen = NoGeneration /\ accepted = Base
     \/ accepted = pending.job

Facts == JournalFacts /\ PendingFacts /\ CalendarFacts /\ HandlerFacts /\ ServedFacts

ServiceInv == ProducerInv /\ TypeOK /\ Facts

-----------------------------------------------------------------------------
(* The jobs. *)

LEMMA JobKinds ==
  /\ \A j \in CalendarJobs :
       /\ j \in Jobs /\ ~IsManual(j)
       /\ WeekOfJob(j) \in Weeks /\ SlotOfJob(j) \in Slots
       /\ j = <<WeekOfJob(j), SlotOfJob(j)>>
  /\ \A j \in Jobs : ~IsManual(j) => j \in CalendarJobs
  /\ \A w \in Weeks, s \in Slots :
       /\ <<w, s>> \in CalendarJobs
       /\ WeekOfJob(<<w, s>>) = w /\ SlotOfJob(<<w, s>>) = s
<1>1. \A j \in CalendarJobs : WeekOfJob(j) \in Weeks /\ SlotOfJob(j) \in Slots
                              /\ j = <<WeekOfJob(j), SlotOfJob(j)>>
  BY DEF CalendarJobs, WeekOfJob, SlotOfJob
<1>2. \A j \in ManualJobs : SlotOfJob(j) = "manual"
  BY DEF ManualJobs, SlotOfJob
<1>3. "manual" \notin Slots
  BY DEF Slots
<1>4. \A w \in Weeks, s \in Slots : <<w, s>> \in CalendarJobs
  BY DEF CalendarJobs
<1>5. \A w \in Weeks, s \in Slots : WeekOfJob(<<w, s>>) = w /\ SlotOfJob(<<w, s>>) = s
  BY DEF WeekOfJob, SlotOfJob
<1> QED BY <1>1, <1>2, <1>3, <1>4, <1>5, ServiceJobsAssumption DEF IsManual

LEMMA Names ==
  /\ NoJob \notin Jobs /\ Base \notin Jobs /\ NoJob # Base
  /\ Initial \notin Jobs /\ Initial # NoJob
  /\ NoGeneration \notin Generations /\ NoGeneration \notin Jobs /\ NoGeneration # Base
  /\ ManualJobs \subseteq Jobs /\ CalendarJobs \subseteq Jobs
  BY JobsAssumption, ServiceJobsAssumption DEF Generations

LEMMA Instants ==
  /\ Horizon \in Nat /\ MaxFaults \in Nat
  /\ \A now \in 0 .. Horizon : WeekOf(now) \in Weeks
<1>1. Horizon \in Nat /\ Weeks = 0 .. WeekOf(Horizon) /\ MaxFaults \in Nat
  BY ServiceBoundsAssumption
<1>2. ASSUME NEW now \in 0 .. Horizon PROVE WeekOf(now) \in 0 .. WeekOf(Horizon)
  BY <1>1 DEF WeekOf, InstantsPerWeek
<1> QED BY <1>1, <1>2

-----------------------------------------------------------------------------
(* Types. *)

LEMMA InitTyped == Init => TypeOK
<1> SUFFICES ASSUME Init PROVE TypeOK
  OBVIOUS
<1>1. calendar \in Calendar
  BY EmptyCalendarTyped DEF Init
<1>2. /\ prediction \in [PredictionJobs -> [gen: Generations \cup {NoGeneration}, done: BOOLEAN]]
      /\ pages \in [Generations -> {"none", "asked", "saved", "unreadable"}]
      /\ reports \in [PredictionJobs -> Generations \cup {NoGeneration}]
  BY DEF Init
<1>3. published \in Task /\ task \in Task
  BY DEF Init, Task, NoTask
<1>4. pending \in [job: Jobs \cup {NoJob}, now: 0 .. Horizon, phase: PendingPhases]
  BY Instants DEF Init, NothingPending, PendingPhases
<1> QED BY <1>1, <1>2, <1>3, <1>4, Instants DEF Init, TypeOK, HandlerSteps

LEMMA PhaseTyped ==
  ASSUME TypeOK, NEW phase_ \in PendingPhases, pending' = [pending EXCEPT !.phase = phase_]
  PROVE  /\ pending' \in [job: Jobs \cup {NoJob}, now: 0 .. Horizon, phase: PendingPhases]
         /\ pending'.phase = phase_ /\ pending'.job = pending.job /\ pending'.now = pending.now
  BY DEF TypeOK

LEMMA GoOnTyped ==
  ASSUME TypeOK, pending.job # NoJob, GoOn
  PROVE  pc' \in HandlerSteps /\ task' \in Task
<1>1. pending.job \in Jobs
  BY DEF TypeOK
<1> QED BY <1>1 DEF GoOn, AfterClaim, HandlerSteps, Task, NoTask, PredictionJobs, Generations

LEMMA EndTyped == End => pc' \in HandlerSteps /\ task' \in Task
  BY DEF End, HandlerSteps, Task, NoTask

\* The slot of the pending job is claimed, fenced or decided within its type.
LEMMA ClaimTyped ==
  ASSUME TypeOK, pending.job # NoJob, ~IsManual(pending.job)
  PROVE  /\ pending.job \in CalendarJobs
         /\ WeekOfJob(pending.job) \in Weeks /\ SlotOfJob(pending.job) \in Slots
         /\ ClaimSlot(calendar, pending.now, SlotOfJob(pending.job)) \in Calendar
         /\ Protect(calendar, WeekOfJob(pending.job), SlotOfJob(pending.job)) \in Calendar
         /\ \A ok \in BOOLEAN :
              Complete(calendar, WeekOfJob(pending.job), SlotOfJob(pending.job), ok) \in Calendar
<1> DEFINE w == WeekOfJob(pending.job)
           s == SlotOfJob(pending.job)
<1>1. pending.job \in CalendarJobs /\ w \in Weeks /\ s \in Slots
  BY JobKinds DEF TypeOK
<1>2. calendar \in Calendar /\ pending.now \in 0 .. Horizon
  BY DEF TypeOK
<1>3. pending.now \in Nat /\ WeekOf(pending.now) \in Weeks
  BY <1>2, Instants
<1>4. ClaimSlot(calendar, pending.now, s) \in Calendar
  BY <1>1, <1>2, <1>3, ClaimSlotEffect
<1>5. Protect(calendar, w, s) \in Calendar
  BY <1>1, <1>2, ProtectEffect DEF Rewritten
<1>6. ASSUME NEW ok \in BOOLEAN PROVE Complete(calendar, w, s, ok) \in Calendar
  <2> DEFINE new == Complete(calendar, w, s, ok)
  <2>1. /\ ~Claimed(calendar, w, s) => new = calendar
        /\ Claimed(calendar, w, s) /\ ok =>
             Rewritten(calendar, new, w, s, WithStatus(calendar[w].slots[s], "succeeded"), TRUE)
        /\ Claimed(calendar, w, s) /\ ~ok =>
             Rewritten(calendar, new, w, s, WithStatus(calendar[w].slots[s], "failed"),
                       calendar[w].accepted)
    BY <1>1, <1>2, CompleteEffect
  <2> QED BY <1>2, <2>1 DEF Rewritten
<1> QED BY <1>1, <1>4, <1>5, <1>6

LEMMA DoneTyped ==
  ASSUME NEW gens, NEW run_ \in [gen: gens, done: BOOLEAN]
  PROVE  [run_ EXCEPT !.done = TRUE] \in [gen: gens, done: BOOLEAN]
  OBVIOUS

\* A handler's step keeps the types.  An interrupted, held or refused handler ends.
LEMMA HandlerTyped ==
  ASSUME TypeOK, HandlerFacts, PendingFacts, accepted \in Generations, HandlerStep
  PROVE  TypeOK'
<1> USE Names DEF predictionVars, envVars
<1>1. TypeOK /\ pc \in HandlerSteps /\ task \in Task /\ calendar \in Calendar
  BY DEF TypeOK
<1>2. ASSUME pc' \in HandlerSteps, task' \in Task, calendar' \in Calendar,
             UNCHANGED <<envVars, pending, completedJobs, predictionVars>>
      PROVE  TypeOK'
  BY <1>2 DEF TypeOK
<1>3. ASSUME NEW step \in HandlerSteps, Step(step)
      PROVE  pc' \in HandlerSteps /\ task' \in Task
  BY <1>1, <1>3 DEF Step
<1>4. CASE Resume
  BY <1>1, <1>2, <1>3, <1>4 DEF Resume, HandlerSteps
<1>5. CASE TickPlan
  <2> PICK s \in Slots :
         pending' = [job |-> <<WeekOf(clock), s>>, now |-> clock, phase |-> "intent"]
    BY <1>5 DEF TickPlan
  <2>1. clock \in 0 .. Horizon /\ <<WeekOf(clock), s>> \in Jobs
    BY Instants, JobKinds DEF TypeOK
  <2>2. pending' \in [job: Jobs \cup {NoJob}, now: 0 .. Horizon, phase: PendingPhases]
    BY <2>1 DEF PendingPhases
  <2>3. pc' \in HandlerSteps /\ task' \in Task
    BY <1>3, <1>5 DEF TickPlan, HandlerSteps
  <2> QED BY <1>5, <2>2, <2>3 DEF TickPlan, TypeOK
<1>6. ASSUME NEW p \in PendingPhases, pending' = [pending EXCEPT !.phase = p],
             pc' \in HandlerSteps, task' \in Task,
             UNCHANGED <<envVars, calendar, completedJobs, predictionVars>>
      PROVE  TypeOK'
  <2>1. pending' \in [job: Jobs \cup {NoJob}, now: 0 .. Horizon, phase: PendingPhases]
    BY <1>6, PhaseTyped
  <2> QED BY <1>6, <2>1 DEF TypeOK
<1>7. pc \notin Scoring \cup {"idle"} => pending.job # NoJob
  BY DEF HandlerFacts
<1>8. CASE EnsureOriginalClaim
  <2>0. pending.job # NoJob /\ UNCHANGED <<envVars, pending, completedJobs, predictionVars>>
    BY <1>7, <1>8 DEF EnsureOriginalClaim, Scoring
  <2>1. /\ GoOn \/ End \/ Step("protect")
        /\ calendar' \in Calendar
    BY <1>1, <1>8, <2>0, ClaimTyped DEF EnsureOriginalClaim
  <2>2. pc' \in HandlerSteps /\ task' \in Task
    BY <1>3, <2>0, <2>1, GoOnTyped, EndTyped DEF HandlerSteps
  <2> QED BY <1>2, <2>0, <2>1, <2>2
<1>9. CASE ProtectNewClaim
  <2>0. /\ pending.job # NoJob /\ ~IsManual(pending.job)
        /\ UNCHANGED <<envVars, pending, completedJobs, predictionVars>>
    BY <1>7, <1>9, JobKinds DEF ProtectNewClaim, HandlerFacts, Scoring
  <2>1. GoOn /\ calendar' \in Calendar
    BY <1>9, <2>0, ClaimTyped DEF ProtectNewClaim
  <2> QED BY <1>2, <2>0, <2>1, GoOnTyped
<1>10. CASE SaveClaimed
  BY <1>3, <1>6, <1>10 DEF SaveClaimed, PendingPhases, HandlerSteps
<1>11. CASE CallProducer
  <2>1. pc' \in HandlerSteps /\ task' \in Task
    BY <1>3, <1>11, EndTyped DEF CallProducer, HandlerSteps
  <2> QED BY <1>1, <1>2, <1>11, <2>1 DEF CallProducer
<1>12. CASE ProducerReturns
  <2>1. PhaseAfter(run.outcome) \in {"data_completed", "failure_completed", "claimed"}
    BY DEF PhaseAfter
  <2>2. pc' \in HandlerSteps /\ task' \in Task
    <3>1. CASE PhaseAfter(run.outcome) = "data_completed"
      <4>1. pending.job \in Jobs
        BY <1>7, <1>12 DEF ProducerReturns, Scoring, TypeOK
      <4> QED BY <1>12, <3>1, <4>1
           DEF ProducerReturns, HandlerSteps, Task, PredictionJobs, Generations
    <3>2. CASE PhaseAfter(run.outcome) = "failure_completed"
      BY <1>3, <1>12, <3>2 DEF ProducerReturns, HandlerSteps
    <3>3. CASE PhaseAfter(run.outcome) = "claimed"
      BY <1>12, <3>3, EndTyped DEF ProducerReturns
    <3> QED BY <2>1, <3>1, <3>2, <3>3
  <2> QED BY <1>6, <1>12, <2>1, <2>2 DEF ProducerReturns, PendingPhases
<1>13. ASSUME NEW ok \in BOOLEAN, NEW next \in HandlerSteps, pending.job # NoJob,
              RecordOutcome(ok, next)
       PROVE  calendar' \in Calendar /\ pc' \in HandlerSteps /\ task' \in Task
  BY <1>1, <1>3, <1>13, EndTyped, ClaimTyped DEF RecordOutcome
<1>14. CASE RecordFailure
  BY <1>2, <1>7, <1>13, <1>14 DEF RecordFailure, HandlerSteps, Scoring
<1>15. CASE SavePublished
  <2>1. pc' \in HandlerSteps /\ task' \in Task
    BY <1>3, <1>15 DEF SavePublished, HandlerSteps
  <2> QED BY <1>1, <1>2, <1>6, <1>15, <2>1 DEF SavePublished, PendingPhases
<1>16. CASE RecordSuccess
  BY <1>2, <1>7, <1>13, <1>16 DEF RecordSuccess, HandlerSteps, Scoring
<1>17. CASE SaveCalendarCompleted
  BY <1>3, <1>6, <1>17 DEF SaveCalendarCompleted, PendingPhases, HandlerSteps
<1>18. CASE FinishJob
  <2>1. /\ pending' \in [job: Jobs \cup {NoJob}, now: 0 .. Horizon, phase: PendingPhases]
        /\ pending.job \in Jobs
    BY <1>7, <1>18, Instants DEF FinishJob, NothingPending, PendingPhases, Scoring, TypeOK
  <2> QED BY <1>18, <2>1, EndTyped DEF FinishJob, TypeOK
<1>19. pc \in Scoring => task.job \in PredictionJobs /\ task.gen \in Generations
  <2>1. CASE task.job = Initial /\ task.gen = accepted
    BY <2>1 DEF PredictionJobs
  <2>2. CASE task = [job |-> pending.job, gen |-> pending.job] /\ pending.phase \in Done
    <3>1. pending.job \in Jobs
      BY <2>2 DEF PendingFacts, Done, TypeOK
    <3> QED BY <2>2, <3>1 DEF PredictionJobs, Generations
  <2> QED BY <2>1, <2>2 DEF HandlerFacts
<1>20. CASE Predict
  <2>1. pc' \in HandlerSteps /\ task' \in Task
    BY <1>3, <1>20, EndTyped DEF Predict, HandlerSteps
  <2>2. task.job \in PredictionJobs /\ task.gen \in Generations
    BY <1>19, <1>20 DEF Predict, Scoring
  <2>3. prediction' \in [PredictionJobs -> [gen: Generations \cup {NoGeneration}, done: BOOLEAN]]
    <3>1. \/ prediction' = prediction
          \/ Bind(task.job, task.gen)
          \/ prediction' = [prediction EXCEPT ![task.job].done = TRUE]
      BY <1>20 DEF Predict
    <3>2. CASE prediction' = prediction
      BY <3>2 DEF TypeOK
    <3>3. CASE Bind(task.job, task.gen)
      BY <2>2, <3>3 DEF TypeOK, Bind
    <3>4. CASE prediction' = [prediction EXCEPT ![task.job].done = TRUE]
      <4>1. [prediction[task.job] EXCEPT !.done = TRUE]
              \in [gen: Generations \cup {NoGeneration}, done: BOOLEAN]
        <5>1. prediction[task.job] \in [gen: Generations \cup {NoGeneration}, done: BOOLEAN]
          BY <2>2 DEF TypeOK
        <5> QED BY <5>1, DoneTyped
      <4>2. prediction' = [prediction EXCEPT ![task.job] =
                             [prediction[task.job] EXCEPT !.done = TRUE]]
        BY <3>4
      <4> QED BY <4>1, <4>2 DEF TypeOK
    <3> QED BY <3>1, <3>2, <3>3, <3>4
  <2>4. pages' \in [Generations -> {"none", "asked", "saved", "unreadable"}]
    <3>1. pages' = pages \/ pages' = [pages EXCEPT ![prediction[task.job].gen] = "asked"]
      BY <1>20 DEF Predict
    <3> QED BY <3>1 DEF TypeOK
  <2> QED BY <1>20, <2>1, <2>3, <2>4 DEF Predict, TypeOK
<1>21. CASE PredictionAnswer
  <2>1. pc' \in HandlerSteps /\ task' \in Task
    BY <1>3, <1>21 DEF PredictionAnswer, HandlerSteps
  <2>2. pages' \in [Generations -> {"none", "asked", "saved", "unreadable"}]
    BY <1>21, ServiceJobsAssumption DEF PredictionAnswer, TypeOK
  <2> QED BY <1>21, <2>1, <2>2 DEF PredictionAnswer, TypeOK
<1>22. CASE WriteReport
  <2>1. pc' \in HandlerSteps /\ task' \in Task
    BY <1>3, <1>22, EndTyped DEF WriteReport, HandlerSteps
  <2>2. task.gen \in Generations
    BY <1>19, <1>22 DEF WriteReport, Scoring
  <2>3. reports' \in [PredictionJobs -> Generations \cup {NoGeneration}]
    BY <1>22, <2>2 DEF WriteReport, TypeOK
  <2> QED BY <1>22, <2>1, <2>3 DEF WriteReport, TypeOK
<1>23. CASE PublishPair
  <2>1. pc' \in HandlerSteps /\ task' \in Task
    BY <1>3, <1>23, EndTyped DEF PublishPair, HandlerSteps
  <2>2. task.job \in PredictionJobs
    BY <1>19, <1>23 DEF PublishPair, Scoring
  <2> QED BY <1>23, <2>1, <2>2 DEF PublishPair, TypeOK
<1> QED BY <1>4, <1>5, <1>8, <1>9, <1>10, <1>11, <1>12, <1>14, <1>15, <1>16, <1>17, <1>18,
           <1>20, <1>21, <1>22, <1>23 DEF HandlerStep

LEMMA NextTyped ==
  ASSUME ServiceInv, [Next]_vars
  PROVE  TypeOK'
<1> USE Names DEF predictionVars, envVars, serviceVars
<1>0. TypeOK /\ HandlerFacts /\ PendingFacts /\ accepted \in Generations
  BY DEF ServiceInv, Facts, ProducerInv, ProducerTypeOK
<1>1. CASE HandlerStep
  BY <1>0, <1>1, HandlerTyped
<1>2. ASSUME NEW m \in ManualJobs, RefreshNow(m) PROVE TypeOK'
  <2>1. pending' \in [job: Jobs \cup {NoJob}, now: 0 .. Horizon, phase: PendingPhases]
    BY <1>0, <1>2 DEF RefreshNow, TypeOK, PendingPhases
  <2> QED BY <1>0, <1>2, <2>1 DEF RefreshNow, TypeOK, Step, HandlerSteps
<1>3. CASE InitializePredictions
  <2>1. accepted \in Generations
    BY DEF ServiceInv, Facts, ProducerInv, ProducerTypeOK
  <2>2. task' \in Task
    BY <1>3, <2>1 DEF InitializePredictions, Task, PredictionJobs
  <2> QED BY <1>0, <1>3, <2>2 DEF InitializePredictions, TypeOK, HandlerSteps
<1>4. CASE ProduceStep \/ OperatorRetry \/ OperatorReturns
  BY <1>0, <1>4 DEF ProduceStep, OperatorRetry, OperatorReturns, TypeOK
<1>5. CASE PageLost \/ OperatorDies
  BY <1>0, <1>5, Instants DEF PageLost, OperatorDies, TypeOK
<1>6. CASE Interrupt
  BY <1>0, <1>6, EndTyped, Instants DEF Interrupt, TypeOK
<1>7. CASE Advance
  BY <1>0, <1>7, Instants DEF Advance, TypeOK
<1>8. CASE UNCHANGED vars
  BY <1>0, <1>8 DEF vars, TypeOK
<1> QED BY <1>1, <1>2, <1>3, <1>4, <1>5, <1>6, <1>7, <1>8 DEF Next

-----------------------------------------------------------------------------
(* The producer inside the service. *)

LEMMA StepRefinesProducer ==
  ASSUME ServiceInv, [Next]_vars
  PROVE  [ProducerNext]_producerVars
<1> USE DEF producerVars
<1>0. pending.job \in Jobs \cup {NoJob} /\ HandlerFacts
  BY DEF ServiceInv, Facts, TypeOK
<1>1. CASE CallProducer
  <2>1. pending.job \in Jobs
    BY <1>0, <1>1 DEF CallProducer, HandlerFacts, Scoring
  <2>2. UNCHANGED producerVars \/ BeginRun(pending.job, FALSE)
    BY <1>1 DEF CallProducer
  <2> QED BY <2>1, <2>2 DEF ProducerNext
<1>2. CASE ProducerReturns
  BY <1>2 DEF ProducerReturns, ProducerNext, EndRun
<1>3. CASE HandlerStep /\ ~CallProducer /\ ~ProducerReturns
  BY <1>3 DEF HandlerStep, Resume, TickPlan, EnsureOriginalClaim, ProtectNewClaim, SaveClaimed,
              RecordFailure, SavePublished, RecordSuccess, SaveCalendarCompleted, FinishJob,
              Predict, PredictionAnswer, WriteReport, PublishPair
<1>4. CASE InitializePredictions \/ Advance \/ UNCHANGED vars
  BY <1>4 DEF InitializePredictions, Advance, vars
<1>5. CASE \E m \in ManualJobs : RefreshNow(m)
  BY <1>5 DEF RefreshNow
<1>6. CASE ProduceStep \/ PageLost
  BY <1>6 DEF ProduceStep, PageLost, ProducerNext, RunStep
<1>7. CASE OperatorReturns \/ OperatorDies
  BY <1>7 DEF OperatorReturns, OperatorDies, ProducerNext
<1>8. CASE OperatorRetry
  <2> PICK j \in {pending.job, Active} \ {NoJob} : BeginRun(j, TRUE)
    BY <1>8 DEF OperatorRetry
  <2>1. j \in Jobs
    BY <1>0 DEF ServiceInv, Facts, ProducerInv, ProducerTypeOK, Active
  <2> QED BY <2>1 DEF ProducerNext
<1>9. CASE Interrupt
  <2>1. CASE pc = "producing"
    BY <1>0, <1>9, <2>1 DEF Interrupt, HandlerFacts, ProducerNext, EndRun
  <2>2. CASE pc # "producing"
    BY <1>9, <2>2 DEF Interrupt
  <2> QED BY <2>1, <2>2
<1> QED BY <1>1, <1>2, <1>3, <1>4, <1>5, <1>6, <1>7, <1>8, <1>9 DEF Next

-----------------------------------------------------------------------------
(* What the producer may do to the journals while job j is its own. *)

Produces(j) ==
  /\ \A k \in Jobs \ {j} : phase'[k] = phase[k]
  /\ phase'[j] # "none"
  /\ phase[j] = "COMPLETED" => phase'[j] = "COMPLETED"
  /\ run'.at # "idle" => run'.job = j
  /\ run'.at = "returned" /\ run'.outcome = "completed" => phase'[j] = "COMPLETED"
  /\ run'.at = "returned" /\ run'.outcome = "failed" => phase'[j] = "FAILED"
  /\ accepted' \in {accepted, j}
  /\ accepted' \in {j, baseline'[j]}
  /\ phase'[j] = "COMPLETED" => accepted' = j
  /\ everAccepted \subseteq everAccepted'

LEMMA BeginRunProduces ==
  ASSUME ServiceInv, NEW j \in Jobs, NEW retry \in BOOLEAN, BeginRun(j, retry), pending.job = j
  PROVE  Produces(j)
<1> USE Names
<1>0. ProducerTypeOK /\ PendingFacts /\ FileFacts
  BY DEF ServiceInv, Facts, ProducerInv
<1>1. run' = [at |-> EntryStep(j), job |-> j, retry |-> retry,
              outcome |-> CASE phase[j] = "FAILED" -> "failed"
                            [] phase[j] = "COMPLETED" -> "completed"
                            [] OTHER -> "none"]
  BY DEF BeginRun
<1>2. /\ run'.job = j
      /\ run'.outcome = "completed" => phase[j] = "COMPLETED"
      /\ run'.outcome = "failed" => phase[j] = "FAILED"
  BY <1>1
<1>3. CASE phase[j] = "none"
  <2>1. phase' = [phase EXCEPT ![j] = "ACQUIRING"] /\ baseline' = [baseline EXCEPT ![j] = accepted]
        /\ UNCHANGED <<accepted, everAccepted>>
    BY <1>3 DEF BeginRun
  <2> QED BY <1>0, <1>2, <1>3, <2>1 DEF Produces, ProducerTypeOK
<1>4. CASE phase[j] # "none"
  <2>1. UNCHANGED <<phase, baseline, accepted, everAccepted>>
    BY <1>4 DEF BeginRun
  <2> QED BY <1>0, <1>2, <1>4, <2>1 DEF Produces, PendingFacts
<1> QED BY <1>3, <1>4

\* A run is at work only for the pending job, whose journal is then still open.
LEMMA RunStepProduces ==
  ASSUME ServiceInv, RunStep
  PROVE  /\ run.job = pending.job /\ pending.job \in Jobs /\ pending.phase = "claimed"
         /\ run'.at # "idle" /\ Produces(pending.job)
<1> USE Names
<1>0. ProducerTypeOK /\ PendingFacts /\ FileFacts /\ RunFacts /\ JournalFacts
  BY DEF ServiceInv, Facts, ProducerInv
<1>1. run.at \in {"activate", "get", "asked", "refuse", "build", "stage", "commit", "pointed"}
  BY DEF RunStep, WriteActive, NextPage, Answer, Unanswered, RefuseSource, Build, Stage,
         CommitPointer, CommitJournal
<1>2. run.job = pending.job /\ pending.job \in Jobs /\ pending.phase = "claimed"
  BY <1>0, <1>1 DEF RunFacts, JournalFacts
<1> DEFINE j == run.job
<1>3. /\ phase[j] \in {"ACQUIRING", "BUILDING", "STAGED"}
      /\ run.at = "pointed" => accepted = j
      /\ accepted \in {j, baseline[j]}
  BY <1>0, <1>1, <1>2 DEF RunFacts, PendingFacts
<1>4. ASSUME NEW step, To(step), step \notin {"idle", "returned"}
      PROVE  run'.job = j /\ run'.at = step /\ run'.at \notin {"idle", "returned"}
  BY <1>0, <1>4 DEF To, ProducerTypeOK
<1>5. ASSUME NEW result, Return(result)
      PROVE  run'.job = j /\ run'.at = "returned" /\ run'.outcome = result
  BY <1>0, <1>5 DEF Return, ProducerTypeOK
<1>6. CASE WriteActive \/ NextPage \/ (\E good \in BOOLEAN : Answer(good)) \/ Unanswered
  <2>1. UNCHANGED <<phase, baseline, accepted, everAccepted>>
    BY <1>6 DEF WriteActive, NextPage, Answer, Unanswered
  <2>2. \/ To("get") \/ To("refuse") \/ To("build") \/ To("asked") \/ Return("held")
    BY <1>6 DEF WriteActive, NextPage, Answer, Unanswered
  <2>3. /\ run'.job = j /\ run'.at # "idle"
        /\ run'.at = "returned" => run'.outcome = "held"
    BY <1>4, <1>5, <2>2
  <2> QED BY <1>2, <1>3, <2>1, <2>3 DEF Produces
<1>7. CASE RefuseSource
  <2>1. UNCHANGED <<baseline, accepted, everAccepted>>
    BY <1>7 DEF RefuseSource
  <2>2. \/ UNCHANGED phase /\ (Return("raised") \/ Return("held"))
        \/ phase' = [phase EXCEPT ![j] = "FAILED"] /\ Return("failed")
    BY <1>7 DEF RefuseSource
  <2>3. /\ \A k \in Jobs \ {j} : phase'[k] = phase[k]
        /\ phase'[j] \in {phase[j], "FAILED"}
        /\ run'.job = j /\ run'.at # "idle" /\ run'.outcome # "completed"
        /\ run'.outcome = "failed" => phase'[j] = "FAILED"
    BY <1>0, <1>2, <1>5, <2>2 DEF ProducerTypeOK
  <2> QED BY <1>2, <1>3, <2>1, <2>3 DEF Produces
<1>8. CASE Build \/ Stage
  <2>1. UNCHANGED <<baseline, accepted, everAccepted>> /\ (To("stage") \/ To("commit"))
    BY <1>8 DEF Build, Stage
  <2>2. /\ \A k \in Jobs \ {j} : phase'[k] = phase[k]
        /\ phase'[j] \in {"BUILDING", "STAGED"}
    BY <1>0, <1>2, <1>8 DEF Build, Stage, ProducerTypeOK
  <2>3. run'.job = j /\ run'.at \notin {"idle", "returned"}
    BY <1>4, <2>1
  <2> QED BY <1>2, <1>3, <2>1, <2>2, <2>3 DEF Produces
<1>9. CASE CommitPointer
  <2>1. UNCHANGED <<phase, baseline>>
    BY <1>9 DEF CommitPointer
  <2>2. \/ accepted' = j /\ everAccepted' = everAccepted \cup {j} /\ To("pointed")
        \/ UNCHANGED <<accepted, everAccepted>> /\ Return("raised")
    BY <1>9 DEF CommitPointer
  <2>3. /\ run'.job = j /\ run'.at # "idle"
        /\ run'.at = "returned" => run'.outcome = "raised"
    BY <1>4, <1>5, <2>2
  <2> QED BY <1>2, <1>3, <2>1, <2>2, <2>3 DEF Produces
<1>10. CASE CommitJournal
  <2>1. UNCHANGED <<baseline, accepted, everAccepted>> /\ Return("completed") /\ accepted = j
    BY <1>3, <1>10 DEF CommitJournal
  <2>2. /\ \A k \in Jobs \ {j} : phase'[k] = phase[k]
        /\ phase'[j] = "COMPLETED"
    BY <1>0, <1>2, <1>10 DEF CommitJournal, ProducerTypeOK
  <2>3. run'.job = j /\ run'.at # "idle" /\ run'.outcome = "completed"
    BY <1>5, <2>1
  <2> QED BY <1>2, <2>1, <2>2, <2>3 DEF Produces
<1>11. run'.at # "idle" /\ Produces(j)
  <2>1. run'.at # "idle"
    BY <1>0 DEF RunStep, WriteActive, NextPage, Answer, Unanswered, RefuseSource, Build, Stage,
           CommitPointer, CommitJournal, To, Return, ProducerTypeOK
  <2> QED BY <1>6, <1>7, <1>8, <1>9, <1>10, <2>1 DEF RunStep
<1> QED BY <1>2, <1>11

\* While the pending job is claimed, its producer disturbs no other fact.
LEMMA ProducesKeeps ==
  ASSUME ServiceInv, Produces(pending.job), pending.job \in Jobs, pending.phase = "claimed",
         UNCHANGED <<pending, completedJobs, calendar, reports, published, everPublished>>
  PROVE  JournalFacts' /\ PendingFacts' /\ CalendarFacts' /\ ServedFacts'
<1> USE Names
<1>0. JournalFacts /\ PendingFacts /\ CalendarFacts /\ ServedFacts
  BY DEF ServiceInv, Facts
<1> PICK p \in Jobs : p = pending.job
  OBVIOUS
<1>1. Produces(p) /\ pending' = pending /\ pending.job = p /\ pending.phase = "claimed"
  OBVIOUS
<1>2. \A k \in Jobs : k # p => phase'[k] = phase[k]
  BY <1>1 DEF Produces
<1>3. JournalFacts'
  BY <1>0, <1>1, <1>2 DEF JournalFacts, Open, Terminal, Produces
<1>4. PendingFacts'
  BY <1>0, <1>1 DEF PendingFacts, Produces, Done
<1>5. CalendarFacts'
  <2>1. \A j \in CalendarJobs : Status(j)' = Status(j) /\ Owned(j)' = Owned(j) /\ j \in Jobs
    BY DEF Status, Owned, StatusOf
  <2>2. \A w \in Weeks, s \in Slots : StatusOf(calendar', w, s) = StatusOf(calendar, w, s)
    OBVIOUS
  <2>3. p \in CalendarJobs => Status(p) = "claimed"
    BY <1>0, <1>1 DEF CalendarFacts
  <2>4. everAccepted \subseteq everAccepted' /\ everPublished' = everPublished
    BY <1>1 DEF Produces
  <2>5. ASSUME NEW j \in CalendarJobs
        PROVE  /\ Status(j)' = "absent" => phase'[j] = "none"
               /\ Status(j)' = "claimed" => j = pending'.job /\ Owned(j)'
               /\ Status(j)' = "succeeded" =>
                    j \in everAccepted' \cap everPublished' /\ Owned(j)' /\ phase'[j] = "COMPLETED"
               /\ Status(j)' = "failed" => phase'[j] = IF Owned(j)' THEN "FAILED" ELSE "none"
    <3>1. CASE j = p
      BY <1>0, <1>1, <2>1, <2>3, <3>1 DEF CalendarFacts
    <3>2. CASE j # p
      BY <1>0, <1>1, <1>2, <2>1, <2>4, <3>2 DEF CalendarFacts
    <3> QED BY <3>1, <3>2
  <2>6. \A w \in Weeks : StatusOf(calendar', w, "wednesday") # "absent" =>
          StatusOf(calendar', w, "tuesday") = "failed"
    BY <1>0 DEF CalendarFacts
  <2>7. p \in CalendarJobs => Status(p)' = "claimed"
    BY <2>1, <2>3
  <2> QED BY <1>1, <2>5, <2>6, <2>7 DEF CalendarFacts
<1>6. ServedFacts'
  BY <1>0, <1>1, <1>2 DEF ServedFacts, Produces
<1> QED BY <1>3, <1>4, <1>5, <1>6

-----------------------------------------------------------------------------
(* What the calendar's transitions do to the jobs' slots. *)

\* The slots of other jobs, and whether a slot is this service's, stay.
OthersStay(p) ==
  \A j \in CalendarJobs : j # p => Status(j)' = Status(j) /\ Owned(j)' = Owned(j)

LEMMA RewrittenSlot ==
  ASSUME NEW new, NEW p \in CalendarJobs, NEW attempt, NEW acceptance,
         Rewritten(calendar, new, WeekOfJob(p), SlotOfJob(p), attempt, acceptance),
         calendar' = new
  PROVE  Status(p)' = attempt.status /\ Owned(p)' = attempt.owned /\ OthersStay(p)
<1>1. \A j \in CalendarJobs :
        /\ WeekOfJob(j) \in Weeks /\ SlotOfJob(j) \in Slots
        /\ j # p => WeekOfJob(j) # WeekOfJob(p) \/ SlotOfJob(j) # SlotOfJob(p)
  BY JobKinds
<1>2. \A j \in CalendarJobs :
        new[WeekOfJob(j)].slots[SlotOfJob(j)] =
          IF j = p THEN attempt ELSE calendar[WeekOfJob(j)].slots[SlotOfJob(j)]
  BY <1>1 DEF Rewritten
<1> QED BY <1>2 DEF OthersStay, Status, Owned, StatusOf

LEMMA ProtectSlot ==
  ASSUME TypeOK, NEW p \in CalendarJobs,
         calendar' = Protect(calendar, WeekOfJob(p), SlotOfJob(p))
  PROVE  Status(p)' = Status(p) /\ Owned(p)' = Owned(p) /\ OthersStay(p)
<1> DEFINE attempt == WithFence(calendar[WeekOfJob(p)].slots[SlotOfJob(p)])
<1>1. WeekOfJob(p) \in Weeks /\ SlotOfJob(p) \in Slots /\ calendar \in Calendar
  BY JobKinds DEF TypeOK
<1>2. Rewritten(calendar, calendar', WeekOfJob(p), SlotOfJob(p), attempt,
                calendar[WeekOfJob(p)].accepted)
  BY <1>1, ProtectEffect
<1>3. attempt.status = Status(p) /\ attempt.owned = Owned(p)
  BY DEF WithFence, Status, StatusOf, Owned
<1> HIDE DEF attempt
<1> QED BY <1>2, <1>3, RewrittenSlot

LEMMA CompleteSlot ==
  ASSUME TypeOK, NEW p \in CalendarJobs, NEW ok \in BOOLEAN,
         CanComplete(calendar, WeekOfJob(p), SlotOfJob(p), ok),
         calendar' = Complete(calendar, WeekOfJob(p), SlotOfJob(p), ok)
  PROVE  /\ Status(p) \in {"claimed", IF ok THEN "succeeded" ELSE "failed"}
         /\ Status(p)' = IF ok THEN "succeeded" ELSE "failed"
         /\ Owned(p)' = Owned(p) /\ OthersStay(p)
<1> DEFINE w == WeekOfJob(p)
           s == SlotOfJob(p)
           result == IF ok THEN "succeeded" ELSE "failed"
           attempt == WithStatus(calendar[w].slots[s], result)
<1>1. w \in Weeks /\ s \in Slots /\ calendar \in Calendar
  BY JobKinds DEF TypeOK
<1>2. Status(p) \in {"claimed", result}
  BY DEF CanComplete, Status
<1>3. CASE Status(p) # "claimed"
  <2>1. calendar' = calendar
    BY <1>1, <1>3, CompleteEffect DEF Status, Claimed
  <2> QED BY <1>2, <1>3, <2>1 DEF OthersStay, Status, StatusOf, Owned
<1>4. CASE Status(p) = "claimed"
  <2>1. Claimed(calendar, w, s)
    BY <1>4 DEF Status, Claimed
  <2>2. \E acceptance : Rewritten(calendar, calendar', w, s, attempt, acceptance)
    <3>1. CASE ok
      BY <1>1, <2>1, <3>1, CompleteEffect
    <3>2. CASE ~ok
      BY <1>1, <2>1, <3>2, CompleteEffect
    <3> QED BY <3>1, <3>2
  <2>3. attempt.status = result /\ attempt.owned = Owned(p)
    BY DEF WithStatus, Owned
  <2> HIDE DEF attempt
  <2> QED BY <1>2, <2>2, <2>3, RewrittenSlot
<1> QED BY <1>3, <1>4

\* A claim takes its absent slot, and a Wednesday claim fails an unclaimed Tuesday.
LEMMA ClaimedSlot ==
  ASSUME TypeOK, NEW p \in CalendarJobs, pending.job = p, ClaimReproduces,
         calendar' = ClaimSlot(calendar, pending.now, SlotOfJob(p))
  PROVE  /\ Status(p) = "absent" /\ Status(p)' = "claimed" /\ Owned(p)'
         /\ \A j \in CalendarJobs : j # p =>
              \/ /\ Status(j)' = Status(j) /\ Owned(j)' = Owned(j)
                 /\ WeekOfJob(j) = WeekOfJob(p) /\ SlotOfJob(p) = "wednesday" =>
                      Status(j) # "absent"
              \/ /\ Status(j) = "absent" /\ Status(j)' = "failed" /\ ~Owned(j)'
                 /\ WeekOfJob(j) = WeekOfJob(p) /\ SlotOfJob(p) = "wednesday"
         /\ SlotOfJob(p) = "wednesday" =>
              Status(<<WeekOfJob(p), "tuesday">>) \in {"absent", "failed"}
<1> DEFINE now == pending.now
<1>1. /\ WeekOfJob(p) \in Weeks /\ SlotOfJob(p) \in Slots /\ calendar \in Calendar
      /\ now \in Nat /\ WeekOf(now) = WeekOfJob(p)
      /\ Due(calendar, now, SlotOfJob(p))
  BY JobKinds DEF TypeOK, ClaimReproduces
<1>2. \A v \in Weeks, t \in Slots :
        calendar'[v].slots[t] =
          IF v = WeekOfJob(p)
          THEN IF t = SlotOfJob(p) THEN NewClaim(now)
               ELSE IF SlotOfJob(p) = "wednesday" /\ calendar[v].slots[t].status = "absent"
                    THEN Missed(now) ELSE calendar[v].slots[t]
          ELSE calendar[v].slots[t]
  BY <1>1, ClaimSlotEffect
<1>3. \A j \in CalendarJobs :
        /\ WeekOfJob(j) \in Weeks /\ SlotOfJob(j) \in Slots
        /\ j # p => WeekOfJob(j) # WeekOfJob(p) \/ SlotOfJob(j) # SlotOfJob(p)
  BY JobKinds
<1>4. /\ NewClaim(now).status = "claimed" /\ NewClaim(now).owned = TRUE
      /\ Missed(now).status = "failed" /\ Missed(now).owned = FALSE
  BY DEF NewClaim, Missed
<1>5. Status(p) = "absent"
  BY <1>1 DEF Due, Status
<1>6. Status(p)' = "claimed" /\ Owned(p)'
  BY <1>1, <1>2, <1>4 DEF Status, StatusOf, Owned
<1>7. ASSUME NEW j \in CalendarJobs, j # p
      PROVE  \/ /\ Status(j)' = Status(j) /\ Owned(j)' = Owned(j)
                /\ WeekOfJob(j) = WeekOfJob(p) /\ SlotOfJob(p) = "wednesday" =>
                     Status(j) # "absent"
             \/ /\ Status(j) = "absent" /\ Status(j)' = "failed" /\ ~Owned(j)'
                /\ WeekOfJob(j) = WeekOfJob(p) /\ SlotOfJob(p) = "wednesday"
  BY <1>2, <1>3, <1>4, <1>7 DEF Status, StatusOf, Owned
<1>8. SlotOfJob(p) = "wednesday" => Status(<<WeekOfJob(p), "tuesday">>) \in {"absent", "failed"}
  BY <1>1, JobKinds DEF Due, Status, Slots
<1> QED BY <1>5, <1>6, <1>7, <1>8

-----------------------------------------------------------------------------
(* What a step keeps when it leaves a file alone. *)

LEMMA QuietJournal ==
  ASSUME ServiceInv, UNCHANGED <<phase, run, pending, completedJobs>>
  PROVE  JournalFacts'
  BY DEF ServiceInv, Facts, JournalFacts, Open, Terminal

LEMMA QuietPending ==
  ASSUME ServiceInv, UNCHANGED <<phase, baseline, accepted, pending, published>>
  PROVE  PendingFacts'
  BY DEF ServiceInv, Facts, PendingFacts

LEMMA SlotsStay ==
  ASSUME UNCHANGED calendar
  PROVE  \A j \in CalendarJobs : Status(j)' = Status(j) /\ Owned(j)' = Owned(j)
  BY DEF Status, Owned, StatusOf

LEMMA QuietCalendar ==
  ASSUME ServiceInv, UNCHANGED <<phase, everAccepted, pending, calendar>>,
         everPublished \subseteq everPublished'
  PROVE  CalendarFacts'
<1>0. CalendarFacts
  BY DEF ServiceInv, Facts
<1>1. \A j \in CalendarJobs : Status(j)' = Status(j) /\ Owned(j)' = Owned(j)
  BY SlotsStay
<1>2. \A w \in Weeks : StatusOf(calendar', w, "wednesday") # "absent" =>
        StatusOf(calendar', w, "tuesday") = "failed"
  BY <1>0 DEF CalendarFacts
<1>3. ClaimReproduces' = ClaimReproduces
  BY DEF ClaimReproduces, Due, Fenced, Claimed, StatusOf
<1>4. pending' = pending
  OBVIOUS
<1> PICK p : p = pending.job
  OBVIOUS
<1>5. p \in CalendarJobs => Status(p)' = Status(p) /\ Owned(p)' = Owned(p)
  BY <1>1
<1> QED BY <1>0, <1>1, <1>2, <1>3, <1>4, <1>5 DEF CalendarFacts

LEMMA QuietServed ==
  ASSUME ServiceInv,
         UNCHANGED <<phase, accepted, pending, reports, published, everPublished>>
  PROVE  ServedFacts'
  BY DEF ServiceInv, Facts, ServedFacts

\* A step of the handler that writes none of these files.
LEMMA QuietFiles ==
  ASSUME ServiceInv, UNCHANGED <<producerVars, pending, completedJobs, calendar,
                                 reports, published, everPublished>>
  PROVE  JournalFacts' /\ PendingFacts' /\ CalendarFacts' /\ ServedFacts'
<1>1. UNCHANGED <<phase, baseline, run, accepted, everAccepted, pending, completedJobs, calendar,
                  reports, published, everPublished>>
  BY DEF producerVars
<1> QED BY <1>1, QuietJournal, QuietPending, QuietCalendar, QuietServed

-----------------------------------------------------------------------------
(* Entering a handler. *)

LEMMA ResumeKeeps ==
  ASSUME ServiceInv, Resume
  PROVE  Facts'
<1>1. JournalFacts' /\ PendingFacts' /\ CalendarFacts' /\ ServedFacts'
  BY QuietFiles DEF Resume, predictionVars
<1>2. HandlerFacts'
  BY DEF Resume, Step, HandlerFacts, Scoring
<1> QED BY <1>1, <1>2 DEF Facts

LEMMA InitializePredictionsKeeps ==
  ASSUME ServiceInv, InitializePredictions
  PROVE  Facts'
<1>1. JournalFacts' /\ PendingFacts' /\ CalendarFacts' /\ ServedFacts'
  BY QuietFiles DEF InitializePredictions, predictionVars
<1>2. HandlerFacts'
  BY DEF InitializePredictions, producerVars, HandlerFacts, Scoring
<1> QED BY <1>1, <1>2 DEF Facts

\* A new job has no journal: its slot is still absent, or its id is not finished.
LEMMA IntentKeeps ==
  ASSUME ServiceInv, pending.job = NoJob, NEW p \in Jobs, phase[p] = "none",
         pending'.job = p, pending'.phase = "intent",
         p \in CalendarJobs => Status(p) = "absent" /\ ClaimReproduces',
         Step("resume"),
         UNCHANGED <<producerVars, completedJobs, calendar, predictionVars>>
  PROVE  Facts'
<1> USE Names DEF producerVars, predictionVars
<1>0. ProducerTypeOK /\ RunFacts /\ JournalFacts /\ PendingFacts /\ CalendarFacts /\ ServedFacts
  BY DEF ServiceInv, Facts, ProducerInv
<1>1. run.at = "idle" /\ (\A j \in Jobs : ~Open(j))
  BY <1>0 DEF JournalFacts, RunFacts
<1>2. JournalFacts'
  BY <1>0, <1>1 DEF JournalFacts, Open, Terminal
<1>3. PendingFacts'
  BY DEF PendingFacts, Done
<1>4. CalendarFacts'
  <2>1. \A j \in CalendarJobs : Status(j)' = Status(j) /\ Owned(j)' = Owned(j)
    BY SlotsStay
  <2>2. \A w \in Weeks : StatusOf(calendar', w, "wednesday") # "absent" =>
          StatusOf(calendar', w, "tuesday") = "failed"
    BY <1>0 DEF CalendarFacts
  <2>3. \A j \in CalendarJobs : Status(j) # "claimed"
    BY <1>0 DEF CalendarFacts
  <2>4. p \in CalendarJobs => Status(p)' = "absent"
    BY <2>1
  <2> QED BY <1>0, <2>1, <2>2, <2>3, <2>4 DEF CalendarFacts
<1>5. ServedFacts'
  BY <1>0 DEF ServedFacts, ProducerTypeOK, Generations
<1>6. HandlerFacts'
  BY DEF Step, HandlerFacts, Scoring
<1> QED BY <1>2, <1>3, <1>4, <1>5, <1>6 DEF Facts

LEMMA TickPlanKeeps ==
  ASSUME ServiceInv, TickPlan
  PROVE  Facts'
<1> PICK s \in Slots :
      /\ Due(calendar, clock, s)
      /\ pending' = [job |-> <<WeekOf(clock), s>>, now |-> clock, phase |-> "intent"]
  BY DEF TickPlan
<1> DEFINE w == WeekOf(clock)
<1>1. w \in Weeks /\ <<w, s>> \in CalendarJobs /\ <<w, s>> \in Jobs
      /\ WeekOfJob(<<w, s>>) = w /\ SlotOfJob(<<w, s>>) = s
  BY Instants, JobKinds DEF ServiceInv, Facts, TypeOK
<1>2. Status(<<w, s>>) = "absent" /\ phase[<<w, s>>] = "none"
  BY <1>1 DEF Status, Due, ServiceInv, Facts, CalendarFacts
<1>3. calendar' = calendar
  BY DEF TickPlan
<1>4. pending'.job = <<w, s>> /\ pending'.now = clock /\ pending'.phase = "intent"
  OBVIOUS
<1>5. ClaimReproduces'
  BY <1>1, <1>2, <1>3, <1>4 DEF ClaimReproduces, Due, Fenced, Claimed, StatusOf, Status
<1>6. /\ pending.job = NoJob /\ Step("resume")
      /\ UNCHANGED <<producerVars, completedJobs, calendar, predictionVars>>
  BY DEF TickPlan
<1> QED BY <1>1, <1>2, <1>4, <1>5, <1>6, IntentKeeps

LEMMA RefreshNowKeeps ==
  ASSUME ServiceInv, NEW m \in ManualJobs, RefreshNow(m)
  PROVE  Facts'
<1>1. m \in Jobs /\ m \notin CalendarJobs
  BY Names, JobKinds DEF IsManual
<1>2. pending.job = NoJob /\ m \notin completedJobs /\ m # NoJob
  BY <1>1, Names DEF RefreshNow
<1>3. phase[m] = "none"
  BY <1>1, <1>2 DEF ServiceInv, Facts, JournalFacts
<1>4. pending'.job = m /\ pending'.phase = "intent"
  BY DEF RefreshNow
<1>5. Step("resume") /\ UNCHANGED <<producerVars, completedJobs, calendar, predictionVars>>
  BY DEF RefreshNow
<1> QED BY <1>1, <1>2, <1>3, <1>4, <1>5, IntentKeeps

-----------------------------------------------------------------------------
(* The claim of the pending job. *)

LEMMA PendingPhase ==
  ASSUME ServiceInv, pending.job # NoJob
  PROVE  /\ pending.job \in Jobs
         /\ pending.phase \in {"intent", "claimed", "data_completed", "published",
                               "calendar_completed", "failure_completed"}
  BY DEF ServiceInv, Facts, TypeOK, PendingFacts, PendingPhases

\* A handler with a settled claim goes on where its saved phase says.
LEMMA GoOnKeeps ==
  ASSUME ServiceInv, GoOn, NEW p \in Jobs, pending.job = p, UNCHANGED pending,
         p \in CalendarJobs /\ pending.phase \in {"intent", "claimed"} => Status(p)' = "claimed"
  PROVE  HandlerFacts'
<1> USE Names
<1>1. pending.phase \in {"intent", "claimed", "data_completed", "published",
                         "calendar_completed", "failure_completed"}
  BY PendingPhase
<1>2. CASE pending.phase = "failure_completed"
  <2>1. pc' = "fail"
    BY <1>2 DEF GoOn, AfterClaim
  <2> QED BY <1>2, <2>1 DEF HandlerFacts, Scoring
<1>3. CASE pending.phase \in Done
  <2>1. pc' = "predict" /\ task' = [job |-> p, gen |-> p]
    BY <1>3 DEF GoOn, AfterClaim, Done
  <2> QED BY <1>3, <2>1 DEF HandlerFacts, Scoring
<1>4. CASE pending.phase \in {"intent", "claimed"}
  <2>1. pc' = "produce"
    BY <1>4 DEF GoOn, AfterClaim
  <2> QED BY <1>4, <2>1 DEF HandlerFacts, Scoring
<1> QED BY <1>1, <1>2, <1>3, <1>4 DEF Done

LEMMA WeekSlots ==
  ASSUME NEW w \in Weeks
  PROVE  /\ <<w, "tuesday">> \in CalendarJobs /\ <<w, "wednesday">> \in CalendarJobs
         /\ StatusOf(calendar, w, "tuesday") = Status(<<w, "tuesday">>)
         /\ StatusOf(calendar', w, "tuesday") = Status(<<w, "tuesday">>)'
         /\ StatusOf(calendar, w, "wednesday") = Status(<<w, "wednesday">>)
         /\ StatusOf(calendar', w, "wednesday") = Status(<<w, "wednesday">>)'
  BY JobKinds DEF Status, Slots

\* Fencing a claim changes no slot's outcome.
LEMMA FenceKeepsCalendar ==
  ASSUME ServiceInv, NEW p \in CalendarJobs, pending.job = p, Status(p) = "claimed",
         calendar' = Protect(calendar, WeekOfJob(p), SlotOfJob(p)),
         UNCHANGED <<phase, everAccepted, everPublished, pending>>
  PROVE  CalendarFacts' /\ Status(p)' = "claimed"
<1>0. TypeOK /\ CalendarFacts /\ p \in Jobs
  BY Names DEF ServiceInv, Facts
<1>1. \A j \in CalendarJobs : Status(j)' = Status(j) /\ Owned(j)' = Owned(j)
  BY <1>0, ProtectSlot DEF OthersStay
<1>2. \A w \in Weeks : StatusOf(calendar', w, "wednesday") # "absent" =>
        StatusOf(calendar', w, "tuesday") = "failed"
  BY <1>0, <1>1, WeekSlots DEF CalendarFacts
<1> QED BY <1>0, <1>1, <1>2 DEF CalendarFacts

LEMMA ClaimKeepsCalendar ==
  ASSUME ServiceInv, NEW p \in CalendarJobs, pending.job = p, ClaimReproduces,
         calendar' = ClaimSlot(calendar, pending.now, SlotOfJob(p)),
         UNCHANGED <<phase, everAccepted, everPublished, pending>>
  PROVE  CalendarFacts' /\ Status(p)' = "claimed" /\ pending.phase = "intent"
<1>0. TypeOK /\ CalendarFacts /\ PendingFacts /\ p \in Jobs
  BY Names DEF ServiceInv, Facts
<1>1. /\ Status(p) = "absent" /\ Status(p)' = "claimed" /\ Owned(p)'
      /\ \A j \in CalendarJobs : j # p =>
              \/ /\ Status(j)' = Status(j) /\ Owned(j)' = Owned(j)
                 /\ WeekOfJob(j) = WeekOfJob(p) /\ SlotOfJob(p) = "wednesday" =>
                      Status(j) # "absent"
              \/ /\ Status(j) = "absent" /\ Status(j)' = "failed" /\ ~Owned(j)'
                 /\ WeekOfJob(j) = WeekOfJob(p) /\ SlotOfJob(p) = "wednesday"
      /\ SlotOfJob(p) = "wednesday" =>
           Status(<<WeekOfJob(p), "tuesday">>) \in {"absent", "failed"}
  BY <1>0, ClaimedSlot
<1>2. pending.phase = "intent"
  <2>1. pending.job # NoJob
    BY <1>0, Names
  <2> QED BY <1>0, <1>1, <2>1, PendingPhase DEF CalendarFacts
<1>3. ASSUME NEW w \in Weeks
      PROVE  StatusOf(calendar', w, "wednesday") # "absent" =>
               StatusOf(calendar', w, "tuesday") = "failed"
  <2> DEFINE tue == <<w, "tuesday">>
             wed == <<w, "wednesday">>
  <2>1. /\ tue \in CalendarJobs /\ wed \in CalendarJobs /\ tue # wed
        /\ WeekOfJob(tue) = w /\ WeekOfJob(wed) = w
        /\ SlotOfJob(tue) = "tuesday" /\ SlotOfJob(wed) = "wednesday"
    BY JobKinds DEF Slots
  <2>2. /\ StatusOf(calendar, w, "tuesday") = Status(tue)
        /\ StatusOf(calendar', w, "tuesday") = Status(tue)'
        /\ StatusOf(calendar, w, "wednesday") = Status(wed)
        /\ StatusOf(calendar', w, "wednesday") = Status(wed)'
    BY WeekSlots
  <2>3. Status(wed) # "absent" => Status(tue) = "failed"
    BY <1>0, <2>2 DEF CalendarFacts
  <2>4. CASE p = wed
    <3>1. Status(tue) \in {"absent", "failed"} /\ Status(tue)' \in {Status(tue), "failed"}
      BY <1>1, <2>1, <2>4
    <3>2. Status(tue)' = "failed"
      <4> HIDE DEF tue, wed
      <4> QED BY <1>1, <2>1, <2>4, <3>1
    <3> QED BY <2>2, <3>2
  <2>5. CASE p # wed
    <3>1. ~(WeekOfJob(p) = w /\ SlotOfJob(p) = "wednesday")
      BY <2>5, JobKinds
    <3> HIDE DEF tue, wed
    <3>2. Status(wed)' = Status(wed)
      BY <1>1, <2>1, <2>5, <3>1
    <3>3. Status(tue) = "failed" => Status(tue)' = "failed"
      BY <1>1, <2>1
    <3> QED BY <2>2, <2>3, <3>2, <3>3
  <2> QED BY <2>4, <2>5
<1>4. ASSUME NEW j \in CalendarJobs
      PROVE  /\ Status(j)' = "absent" => phase'[j] = "none"
             /\ Status(j)' = "claimed" => j = pending'.job /\ Owned(j)'
             /\ Status(j)' = "succeeded" =>
                  j \in everAccepted' \cap everPublished' /\ Owned(j)' /\ phase'[j] = "COMPLETED"
             /\ Status(j)' = "failed" => phase'[j] = IF Owned(j)' THEN "FAILED" ELSE "none"
  <2>1. CASE j = p
    BY <1>1, <2>1
  <2>2. CASE j # p
    BY <1>0, <1>1, <2>2 DEF CalendarFacts
  <2> QED BY <2>1, <2>2
<1>5. CalendarFacts'
  BY <1>1, <1>2, <1>3, <1>4 DEF CalendarFacts
<1> QED BY <1>1, <1>2, <1>5

LEMMA EnsureOriginalClaimKeeps ==
  ASSUME ServiceInv, EnsureOriginalClaim
  PROVE  Facts'
<1> USE Names DEF producerVars, predictionVars
<1>1. JournalFacts' /\ PendingFacts' /\ ServedFacts'
  BY QuietJournal, QuietPending, QuietServed DEF EnsureOriginalClaim
<1>2. pc = "resume" /\ pending' = pending /\ pending.job \in Jobs /\ pending.job # NoJob
  BY PendingPhase DEF EnsureOriginalClaim, ServiceInv, Facts, HandlerFacts, Scoring
<1> PICK p \in Jobs : p = pending.job
  BY <1>2
<1> USE DEF EnsureOriginalClaim
<1>3. UNCHANGED <<phase, everAccepted, everPublished, pending>>
  OBVIOUS
<1>4. CASE IsManual(p)
  <2>1. GoOn /\ UNCHANGED calendar
    BY <1>4
  <2>2. p \notin CalendarJobs
    BY <1>4, JobKinds
  <2> QED BY <1>1, <1>2, <1>3, <2>1, <2>2, GoOnKeeps, QuietCalendar DEF Facts
<1>5. CASE ~IsManual(p) /\ ClaimReproduces
  <2>1. p \in CalendarJobs
    BY <1>5, JobKinds
  <2>2. calendar' = ClaimSlot(calendar, pending.now, SlotOfJob(p)) /\ Step("protect")
    BY <1>5
  <2>3. CalendarFacts' /\ Status(p)' = "claimed" /\ pending.phase = "intent"
    BY <1>3, <1>5, <2>1, <2>2, ClaimKeepsCalendar
  <2>4. HandlerFacts'
    BY <1>2, <2>1, <2>2, <2>3 DEF HandlerFacts, Step, Scoring
  <2> QED BY <1>1, <2>3, <2>4 DEF Facts
<1>6. CASE ~IsManual(p) /\ ~ClaimReproduces /\ ClaimAgrees
  <2>1. p \in CalendarJobs
    BY <1>6, JobKinds
  <2>2. /\ GoOn
        /\ calendar' = IF Claimed(calendar, WeekOfJob(p), SlotOfJob(p))
                       THEN Protect(calendar, WeekOfJob(p), SlotOfJob(p)) ELSE calendar
    BY <1>6
  <2>3. /\ Claimed(calendar, WeekOfJob(p), SlotOfJob(p)) <=> Status(p) = "claimed"
        /\ pending.phase \in {"intent", "claimed"} => Status(p) = "claimed"
    BY <1>6 DEF Claimed, Status, ClaimAgrees
  <2>4. CalendarFacts' /\ (Status(p) = "claimed" => Status(p)' = "claimed")
    <3>1. CASE Status(p) = "claimed"
      BY <1>3, <2>1, <2>2, <2>3, <3>1, FenceKeepsCalendar
    <3>2. CASE Status(p) # "claimed"
      BY <1>3, <2>2, <2>3, <3>2, QuietCalendar
    <3> QED BY <3>1, <3>2
  <2>5. HandlerFacts'
    BY <1>2, <2>2, <2>3, <2>4, GoOnKeeps
  <2> QED BY <1>1, <2>4, <2>5 DEF Facts
<1>7. CASE ~IsManual(p) /\ ~ClaimReproduces /\ ~ClaimAgrees
  <2>1. End /\ UNCHANGED calendar
    BY <1>7
  <2>2. HandlerFacts'
    BY <2>1 DEF End, HandlerFacts, Scoring
  <2> QED BY <1>1, <1>3, <2>1, <2>2, QuietCalendar DEF Facts
<1> QED BY <1>4, <1>5, <1>6, <1>7

LEMMA ProtectNewClaimKeeps ==
  ASSUME ServiceInv, ProtectNewClaim
  PROVE  Facts'
<1> USE Names DEF producerVars, predictionVars
<1>1. JournalFacts' /\ PendingFacts' /\ ServedFacts'
  BY QuietJournal, QuietPending, QuietServed DEF ProtectNewClaim
<1>2. pending.job \in CalendarJobs /\ Status(pending.job) = "claimed"
  BY DEF ProtectNewClaim, ServiceInv, Facts, HandlerFacts
<1> PICK p \in CalendarJobs : p = pending.job
  BY <1>2
<1>3. /\ GoOn /\ UNCHANGED <<phase, everAccepted, everPublished, pending>>
      /\ calendar' = Protect(calendar, WeekOfJob(p), SlotOfJob(p))
  BY DEF ProtectNewClaim
<1>4. CalendarFacts' /\ Status(p)' = "claimed"
  BY <1>2, <1>3, FenceKeepsCalendar
<1>5. HandlerFacts'
  BY <1>3, <1>4, GoOnKeeps
<1> QED BY <1>1, <1>4, <1>5 DEF Facts

-----------------------------------------------------------------------------
(* Producing the pending job's data. *)

\* The saved phase of the pending job changes and its journal does not.
LEMMA PhaseKeepsServed ==
  ASSUME ServiceInv, pending'.job = pending.job,
         UNCHANGED <<phase, accepted, reports, published, everPublished>>
  PROVE  ServedFacts'
  BY DEF ServiceInv, Facts, ServedFacts

LEMMA PhaseKeepsCalendar ==
  ASSUME ServiceInv, pending'.job = pending.job, pending'.phase # "intent",
         UNCHANGED <<phase, everAccepted, everPublished, calendar>>,
         pending.job \in CalendarJobs =>
           /\ pending'.phase \in {"claimed", "data_completed"} => Status(pending.job) = "claimed"
           /\ pending'.phase = "published" => Status(pending.job) \in {"claimed", "succeeded"}
           /\ pending'.phase = "calendar_completed" => Status(pending.job) = "succeeded"
           /\ pending'.phase = "failure_completed" =>
                Status(pending.job) \in {"claimed", "failed"} /\ Owned(pending.job)
  PROVE  CalendarFacts'
<1> PICK p : p = pending.job
  OBVIOUS
<1>0. CalendarFacts
  BY DEF ServiceInv, Facts
<1>1. \A j \in CalendarJobs : Status(j)' = Status(j) /\ Owned(j)' = Owned(j)
  BY SlotsStay
<1>2. \A w \in Weeks : StatusOf(calendar', w, "wednesday") # "absent" =>
        StatusOf(calendar', w, "tuesday") = "failed"
  BY <1>0 DEF CalendarFacts
<1>3. p \in CalendarJobs => Status(p)' = Status(p) /\ (Owned(p)' <=> Owned(p))
  BY <1>1
<1> QED BY <1>0, <1>1, <1>2, <1>3 DEF CalendarFacts

LEMMA SaveClaimedKeeps ==
  ASSUME ServiceInv, SaveClaimed
  PROVE  Facts'
<1> USE DEF producerVars, predictionVars
<1>0. /\ JournalFacts /\ PendingFacts /\ TypeOK /\ HandlerFacts
      /\ UNCHANGED <<phase, baseline, accepted, everAccepted, run, completedJobs, calendar,
                     reports, published, everPublished>>
  BY DEF SaveClaimed, ServiceInv, Facts
<1>1. pending'.job = pending.job /\ pending'.phase = "claimed"
  BY <1>0 DEF SaveClaimed, TypeOK
<1>2. /\ pending.job # NoJob /\ pending.phase \in {"intent", "claimed"}
      /\ pending.job \in CalendarJobs => Status(pending.job) = "claimed"
  BY <1>0 DEF SaveClaimed, HandlerFacts, Scoring
<1>3. JournalFacts'
  BY <1>0, <1>1 DEF JournalFacts, Open, Terminal
<1>4. PendingFacts'
  BY <1>0, <1>1, <1>2 DEF PendingFacts, Done
<1>5. CalendarFacts'
  BY <1>0, <1>1, <1>2, PhaseKeepsCalendar
<1>6. ServedFacts'
  BY <1>0, <1>1, PhaseKeepsServed
<1>7. HandlerFacts'
  BY <1>0, <1>1, <1>2 DEF SaveClaimed, Step, HandlerFacts, Scoring
<1> QED BY <1>3, <1>4, <1>5, <1>6, <1>7 DEF Facts

\* A handler that ends relies on nothing.
LEMMA EndKeeps == End => HandlerFacts'
  BY DEF End, HandlerFacts, Scoring

\* A handler at rest while another process writes the journals or the clock moves.
LEMMA OthersKeepHandler ==
  ASSUME ServiceInv, UNCHANGED <<pc, task, pending, accepted, reports, calendar, published>>,
         pc = "producing" => run'.at # "idle"
  PROVE  HandlerFacts'
<1>1. HandlerFacts
  BY DEF ServiceInv, Facts
<1>2. pending' = pending
  OBVIOUS
<1> PICK p : p = pending.job
  OBVIOUS
<1>3. Status(p)' = Status(p)
  BY DEF Status, StatusOf
<1> QED BY <1>1, <1>2, <1>3 DEF HandlerFacts

LEMMA CallProducerKeeps ==
  ASSUME ServiceInv, CallProducer
  PROVE  Facts'
<1> USE DEF predictionVars
<1>1. /\ pending.job \in Jobs /\ pending.phase = "claimed"
      /\ UNCHANGED <<pending, completedJobs, calendar, reports, published, everPublished>>
  BY PendingPhase DEF CallProducer, ServiceInv, Facts, HandlerFacts, Scoring
<1> PICK p \in Jobs : p = pending.job
  BY <1>1
<1>2. CASE End /\ UNCHANGED producerVars
  BY <1>1, <1>2, QuietFiles, EndKeeps DEF Facts
<1>3. CASE BeginRun(p, FALSE) /\ Step("producing")
  <2>1. Produces(p)
    BY <1>3, BeginRunProduces
  <2>2. JournalFacts' /\ PendingFacts' /\ CalendarFacts' /\ ServedFacts'
    BY <1>1, <2>1, ProducesKeeps
  <2>3. run'.at # "idle"
    BY <1>3 DEF BeginRun, EntryStep
  <2>4. HandlerFacts'
    BY <1>1, <1>3, <2>3, Names DEF Step, HandlerFacts, Scoring
  <2> QED BY <2>2, <2>4 DEF Facts
<1> QED BY <1>2, <1>3 DEF CallProducer

LEMMA ProducerReturnsKeeps ==
  ASSUME ServiceInv, ProducerReturns
  PROVE  Facts'
<1> USE Names DEF predictionVars
<1>0. /\ JournalFacts /\ PendingFacts /\ TypeOK /\ HandlerFacts /\ CalendarFacts
      /\ UNCHANGED <<phase, baseline, accepted, everAccepted, completedJobs, calendar,
                     reports, published, everPublished>>
      /\ run' = IdleRun /\ pc = "producing" /\ run.at = "returned"
  BY DEF ProducerReturns, ServiceInv, Facts
<1> PICK result : result = PhaseAfter(run.outcome)
  OBVIOUS
<1>1. /\ result \in {"data_completed", "failure_completed", "claimed"}
      /\ result = "data_completed" => run.outcome = "completed"
      /\ result = "failure_completed" => run.outcome = "failed"
  BY DEF PhaseAfter
<1>2. pending'.job = pending.job /\ pending'.phase = result
  BY <1>0 DEF ProducerReturns, TypeOK
<1>3. run.job = pending.job /\ pending.phase = "claimed" /\ pending.job \in Jobs
  BY <1>0, PendingPhase DEF JournalFacts, PendingFacts
<1>4. /\ result = "data_completed" => phase[pending.job] = "COMPLETED"
      /\ result = "failure_completed" => phase[pending.job] = "FAILED"
  BY <1>0, <1>1, <1>3 DEF JournalFacts
<1>5. run'.at = "idle"
  BY <1>0 DEF IdleRun
<1>6. JournalFacts'
  BY <1>0, <1>1, <1>2, <1>3, <1>4, <1>5 DEF JournalFacts, Open, Terminal
<1>7. PendingFacts'
  BY <1>0, <1>1, <1>2, <1>3, <1>4 DEF PendingFacts, Done
<1>8. CalendarFacts'
  BY <1>0, <1>1, <1>2, <1>3, PhaseKeepsCalendar DEF CalendarFacts
<1>9. ServedFacts'
  BY <1>0, <1>2, PhaseKeepsServed
<1>10. HandlerFacts'
  <2>1. CASE result = "data_completed"
    <3>1. pc' = "predict" /\ task' = [job |-> pending.job, gen |-> pending.job]
      BY <2>1 DEF ProducerReturns
    <3> QED BY <1>2, <1>3, <2>1, <3>1 DEF HandlerFacts, Scoring, Done
  <2>2. CASE result = "failure_completed"
    <3>1. pc' = "fail"
      BY <2>2 DEF ProducerReturns, Step
    <3> QED BY <1>2, <1>3, <2>2, <3>1 DEF HandlerFacts, Scoring
  <2>3. CASE result = "claimed"
    BY <2>3, EndKeeps DEF ProducerReturns
  <2> QED BY <1>1, <2>1, <2>2, <2>3
<1> QED BY <1>6, <1>7, <1>8, <1>9, <1>10 DEF Facts

LEMMA RunStepKeeps ==
  ASSUME ServiceInv, ProduceStep \/ PageLost
  PROVE  Facts'
<1> USE Names DEF serviceVars, predictionVars
<1>1. RunStep /\ UNCHANGED <<pc, task, pending, completedJobs, calendar, reports, published,
                             everPublished>>
  BY DEF ProduceStep, PageLost, RunStep
<1>2. /\ pending.job \in Jobs /\ pending.phase = "claimed"
      /\ run'.at # "idle" /\ Produces(pending.job)
  BY <1>1, RunStepProduces
<1>3. JournalFacts' /\ PendingFacts' /\ CalendarFacts' /\ ServedFacts'
  BY <1>1, <1>2, ProducesKeeps
\* No one scores while the pending job is claimed.
<1>4. HandlerFacts'
  <2>1. HandlerFacts /\ pending' = pending
    BY <1>1 DEF ServiceInv, Facts
  <2>2. pc \notin Scoring
    BY <1>2, <2>1 DEF HandlerFacts, Done
  <2> PICK p : p = pending.job
    OBVIOUS
  <2>3. Status(p)' = Status(p)
    BY <1>1 DEF Status, StatusOf
  <2> QED BY <1>1, <1>2, <2>1, <2>2, <2>3 DEF HandlerFacts, Scoring
<1> QED BY <1>3, <1>4 DEF Facts

LEMMA OperatorRetryKeeps ==
  ASSUME ServiceInv, OperatorRetry
  PROVE  Facts'
<1> USE Names DEF serviceVars, predictionVars
<1> PICK j \in {pending.job, Active} \ {NoJob} :
      phase[j] # "none" /\ ~Terminal(j) /\ BeginRun(j, TRUE)
  BY DEF OperatorRetry
<1>1. j \in Jobs
  BY DEF ServiceInv, Facts, TypeOK, ProducerInv, ProducerTypeOK, Active
<1>2. j = pending.job /\ pending.phase = "claimed"
  BY <1>1 DEF ServiceInv, Facts, JournalFacts, Open
<1>3. Produces(pending.job)
  BY <1>1, <1>2, BeginRunProduces
<1>4. JournalFacts' /\ PendingFacts' /\ CalendarFacts' /\ ServedFacts'
  BY <1>1, <1>2, <1>3, ProducesKeeps DEF OperatorRetry
<1>5. HandlerFacts'
  BY OthersKeepHandler DEF OperatorRetry, BeginRun
<1> QED BY <1>4, <1>5 DEF Facts

\* A run that ends, or is lost, leaves its files.
LEMMA IdleKeepsJournal ==
  ASSUME ServiceInv, run' = IdleRun, UNCHANGED <<phase, pending, completedJobs>>
  PROVE  JournalFacts'
<1>1. run'.at = "idle"
  BY DEF IdleRun
<1> QED BY <1>1 DEF ServiceInv, Facts, JournalFacts, Open, Terminal

LEMMA OperatorEndsKeeps ==
  ASSUME ServiceInv, OperatorReturns \/ OperatorDies
  PROVE  Facts'
<1> USE DEF serviceVars, predictionVars
<1>1. /\ run' = IdleRun /\ pc # "producing"
      /\ UNCHANGED <<phase, baseline, accepted, everAccepted, pending, completedJobs, calendar,
                     reports, published, everPublished, pc, task>>
  BY DEF OperatorReturns, OperatorDies, EndRun
<1> QED BY <1>1, IdleKeepsJournal, QuietPending, QuietCalendar, QuietServed, OthersKeepHandler
        DEF Facts

LEMMA InterruptKeeps ==
  ASSUME ServiceInv, Interrupt
  PROVE  Facts'
<1> USE DEF predictionVars
<1>1. /\ End /\ run' \in {run, IdleRun}
      /\ UNCHANGED <<phase, baseline, accepted, everAccepted, pending, completedJobs, calendar,
                     reports, published, everPublished>>
  BY DEF Interrupt
<1>2. JournalFacts'
  BY <1>1, IdleKeepsJournal, QuietJournal
<1> QED BY <1>1, <1>2, QuietPending, QuietCalendar, QuietServed, EndKeeps DEF Facts

LEMMA QuietKeeps ==
  ASSUME ServiceInv, Advance \/ UNCHANGED vars
  PROVE  Facts'
<1> USE DEF serviceVars, predictionVars, vars
<1>1. UNCHANGED <<producerVars, pending, completedJobs, calendar, predictionVars, pc, task>>
  BY DEF Advance
<1>2. pc = "producing" => run'.at # "idle"
  BY <1>1 DEF ServiceInv, Facts, HandlerFacts, producerVars
<1>3. UNCHANGED <<pc, task, pending, accepted, reports, calendar, published>>
  BY <1>1 DEF producerVars
<1> QED BY <1>1, <1>2, <1>3, QuietFiles, OthersKeepHandler DEF Facts

-----------------------------------------------------------------------------
(* Recording the pending job's result. *)

\* A result decides the claimed slot of its job and no other.
LEMMA ResultKeepsCalendar ==
  ASSUME ServiceInv, NEW p \in CalendarJobs, pending.job = p, NEW ok \in BOOLEAN,
         phase[p] = IF ok THEN "COMPLETED" ELSE "FAILED",
         IF ok THEN p \in everPublished /\ pending.phase = "published"
               ELSE pending.phase = "failure_completed",
         CanComplete(calendar, WeekOfJob(p), SlotOfJob(p), ok),
         calendar' = Complete(calendar, WeekOfJob(p), SlotOfJob(p), ok),
         UNCHANGED <<phase, everAccepted, everPublished, pending>>
  PROVE  CalendarFacts' /\ Status(p)' = IF ok THEN "succeeded" ELSE "failed"
<1> DEFINE result == IF ok THEN "succeeded" ELSE "failed"
<1>0. TypeOK /\ CalendarFacts /\ FileFacts /\ p \in Jobs
  BY Names DEF ServiceInv, Facts, ProducerInv
<1>1. /\ Status(p) \in {"claimed", result} /\ Status(p)' = result
      /\ Owned(p)' = Owned(p) /\ OthersStay(p)
  BY <1>0, CompleteSlot
<1>2. Owned(p) /\ (ok => p \in everAccepted)
  BY <1>0 DEF CanComplete, Owned, FileFacts
<1>3. ASSUME NEW w \in Weeks
      PROVE  StatusOf(calendar', w, "wednesday") # "absent" =>
               StatusOf(calendar', w, "tuesday") = "failed"
  <2> DEFINE tue == <<w, "tuesday">>
             wed == <<w, "wednesday">>
  <2>1. /\ tue \in CalendarJobs /\ wed \in CalendarJobs /\ tue # wed
        /\ StatusOf(calendar, w, "tuesday") = Status(tue)
        /\ StatusOf(calendar', w, "tuesday") = Status(tue)'
        /\ StatusOf(calendar, w, "wednesday") = Status(wed)
        /\ StatusOf(calendar', w, "wednesday") = Status(wed)'
    BY WeekSlots
  <2>2. Status(wed) # "absent" => Status(tue) = "failed"
    BY <1>0, <2>1 DEF CalendarFacts
  <2> HIDE DEF tue, wed
  <2>3. Status(wed)' # "absent" => Status(wed) # "absent"
    BY <1>1, <2>1 DEF OthersStay
  <2>4. Status(tue) = "failed" => Status(tue)' = "failed"
    <3>1. CASE tue = p
      BY <1>1, <3>1
    <3>2. CASE tue # p
      BY <1>1, <2>1, <3>2 DEF OthersStay
    <3> QED BY <3>1, <3>2
  <2> QED BY <2>1, <2>2, <2>3, <2>4
<1>4. ASSUME NEW j \in CalendarJobs
      PROVE  /\ Status(j)' = "absent" => phase'[j] = "none"
             /\ Status(j)' = "claimed" => j = pending'.job /\ Owned(j)'
             /\ Status(j)' = "succeeded" =>
                  j \in everAccepted' \cap everPublished' /\ Owned(j)' /\ phase'[j] = "COMPLETED"
             /\ Status(j)' = "failed" => phase'[j] = IF Owned(j)' THEN "FAILED" ELSE "none"
  <2>1. CASE j = p
    BY <1>1, <1>2, <2>1
  <2>2. CASE j # p
    BY <1>0, <1>1, <2>2 DEF CalendarFacts, OthersStay
  <2> QED BY <2>1, <2>2
<1>5. CalendarFacts'
  BY <1>1, <1>2, <1>3, <1>4 DEF CalendarFacts
<1> QED BY <1>1, <1>5

LEMMA RecordFailureKeeps ==
  ASSUME ServiceInv, RecordFailure
  PROVE  Facts'
<1> USE Names DEF producerVars, predictionVars
<1>0. HandlerFacts /\ PendingFacts /\ pending.job \in Jobs /\ pending' = pending
      /\ pending.phase = "failure_completed" /\ phase[pending.job] = "FAILED"
  BY PendingPhase DEF ServiceInv, Facts, RecordFailure, HandlerFacts, PendingFacts, Scoring
<1>1. JournalFacts' /\ PendingFacts' /\ ServedFacts'
  BY QuietJournal, QuietPending, QuietServed DEF RecordFailure
<1> PICK p \in Jobs : p = pending.job
  BY <1>0
<1>2. UNCHANGED <<phase, everAccepted, everPublished, pending>>
  BY DEF RecordFailure
<1>3. CASE IsManual(p) /\ Step("finish") /\ UNCHANGED calendar
  <2>1. p \notin CalendarJobs
    BY <1>3, JobKinds
  <2>2. HandlerFacts'
    BY <1>0, <1>3, <2>1 DEF HandlerFacts, Step, Scoring
  <2> QED BY <1>1, <1>2, <1>3, <2>2, QuietCalendar DEF Facts
<1>4. CASE /\ ~IsManual(p) /\ Step("finish")
           /\ CanComplete(calendar, WeekOfJob(p), SlotOfJob(p), FALSE)
           /\ calendar' = Complete(calendar, WeekOfJob(p), SlotOfJob(p), FALSE)
  <2>1. p \in CalendarJobs
    BY <1>4, JobKinds
  <2>2. CalendarFacts' /\ Status(p)' = "failed"
    BY <1>0, <1>2, <1>4, <2>1, ResultKeepsCalendar
  <2>3. HandlerFacts'
    BY <1>0, <1>4, <2>2 DEF HandlerFacts, Step, Scoring
  <2> QED BY <1>1, <2>2, <2>3 DEF Facts
<1>5. CASE End /\ UNCHANGED calendar
  BY <1>1, <1>2, <1>5, QuietCalendar, EndKeeps DEF Facts
<1> QED BY <1>3, <1>4, <1>5 DEF RecordFailure, RecordOutcome

LEMMA RecordSuccessKeeps ==
  ASSUME ServiceInv, RecordSuccess
  PROVE  Facts'
<1> USE Names DEF producerVars, predictionVars
<1>0. /\ HandlerFacts /\ PendingFacts /\ ServedFacts /\ pending.job \in Jobs /\ pending' = pending
      /\ pending.phase = "published" /\ phase[pending.job] = "COMPLETED"
      /\ published = [job |-> pending.job, gen |-> pending.job]
  BY PendingPhase DEF ServiceInv, Facts, RecordSuccess, HandlerFacts, PendingFacts, Scoring, Done
<1>1. JournalFacts' /\ PendingFacts' /\ ServedFacts'
  BY QuietJournal, QuietPending, QuietServed DEF RecordSuccess
<1> PICK p \in Jobs : p = pending.job
  BY <1>0
<1>2. UNCHANGED <<phase, everAccepted, everPublished, pending>> /\ p \in everPublished
  BY <1>0 DEF RecordSuccess, ServedFacts
<1>3. CASE IsManual(p) /\ Step("succeeded") /\ UNCHANGED calendar
  <2>1. p \notin CalendarJobs
    BY <1>3, JobKinds
  <2>2. HandlerFacts'
    BY <1>0, <1>3, <2>1 DEF HandlerFacts, Step, Scoring
  <2> QED BY <1>1, <1>2, <1>3, <2>2, QuietCalendar DEF Facts
<1>4. CASE /\ ~IsManual(p) /\ Step("succeeded")
           /\ CanComplete(calendar, WeekOfJob(p), SlotOfJob(p), TRUE)
           /\ calendar' = Complete(calendar, WeekOfJob(p), SlotOfJob(p), TRUE)
  <2>1. p \in CalendarJobs
    BY <1>4, JobKinds
  <2>2. CalendarFacts' /\ Status(p)' = "succeeded"
    BY <1>0, <1>2, <1>4, <2>1, ResultKeepsCalendar
  <2>3. HandlerFacts'
    BY <1>0, <1>4, <2>2 DEF HandlerFacts, Step, Scoring
  <2> QED BY <1>1, <2>2, <2>3 DEF Facts
<1>5. CASE End /\ UNCHANGED calendar
  BY <1>1, <1>2, <1>5, QuietCalendar, EndKeeps DEF Facts
<1> QED BY <1>3, <1>4, <1>5 DEF RecordSuccess, RecordOutcome

\* A later phase of a job whose data is published is saved.
LEMMA SavedPhaseKeeps ==
  ASSUME ServiceInv, pending.phase \in Done, pending'.job = pending.job,
         published = [job |-> pending.job, gen |-> pending.job],
         pending'.phase \in {"published", "calendar_completed"},
         pending'.phase = "published" => pending.phase # "calendar_completed",
         pending'.phase = "calendar_completed" /\ pending.job \in CalendarJobs =>
           Status(pending.job) = "succeeded",
         UNCHANGED <<producerVars, completedJobs, calendar, predictionVars>>
  PROVE  JournalFacts' /\ PendingFacts' /\ CalendarFacts' /\ ServedFacts'
<1> USE DEF producerVars, predictionVars
<1>0. JournalFacts /\ PendingFacts /\ CalendarFacts
  BY DEF ServiceInv, Facts
<1>1. JournalFacts'
  BY <1>0 DEF JournalFacts, Open, Terminal, Done
<1>2. PendingFacts'
  BY <1>0 DEF PendingFacts, Done
<1>3. ServedFacts'
  BY PhaseKeepsServed
<1>4. pending.job \in CalendarJobs /\ pending'.phase = "published" =>
        Status(pending.job) \in {"claimed", "succeeded"}
  BY <1>0 DEF CalendarFacts, Done
<1>5. CalendarFacts'
  BY <1>4, PhaseKeepsCalendar
<1> QED BY <1>1, <1>2, <1>3, <1>5

LEMMA SavePublishedKeeps ==
  ASSUME ServiceInv, SavePublished
  PROVE  Facts'
<1> USE Names DEF predictionVars
<1>0. /\ TypeOK /\ HandlerFacts /\ pending.phase \in Done
      /\ published = [job |-> pending.job, gen |-> pending.job] /\ pending.job # NoJob
  BY DEF ServiceInv, Facts, SavePublished, HandlerFacts, Scoring
<1>1. UNCHANGED <<producerVars, completedJobs, calendar, predictionVars>>
  BY DEF SavePublished
<1>2. CASE pending.phase = "calendar_completed"
  <2>1. Step("finish") /\ UNCHANGED pending
    BY <1>2 DEF SavePublished
  <2>2. JournalFacts' /\ PendingFacts' /\ CalendarFacts' /\ ServedFacts'
    BY <1>1, <2>1, QuietFiles
  <2>3. HandlerFacts'
    BY <1>0, <1>2, <2>1 DEF HandlerFacts, Step, Scoring
  <2> QED BY <2>2, <2>3 DEF Facts
<1>3. CASE pending.phase # "calendar_completed"
  <2>1. Step("succeed") /\ pending' = [pending EXCEPT !.phase = "published"]
    BY <1>3 DEF SavePublished
  <2>2. pending'.job = pending.job /\ pending'.phase = "published"
    BY <1>0, <2>1 DEF TypeOK
  <2>3. JournalFacts' /\ PendingFacts' /\ CalendarFacts' /\ ServedFacts'
    BY <1>0, <1>1, <1>3, <2>2, SavedPhaseKeeps
  <2>4. HandlerFacts'
    BY <1>0, <2>1, <2>2 DEF HandlerFacts, Step, Scoring
  <2> QED BY <2>3, <2>4 DEF Facts
<1> QED BY <1>2, <1>3

LEMMA SaveCalendarCompletedKeeps ==
  ASSUME ServiceInv, SaveCalendarCompleted
  PROVE  Facts'
<1> USE Names DEF predictionVars
<1>0. /\ TypeOK /\ HandlerFacts /\ PendingFacts /\ pending.phase = "published"
      /\ pending.job # NoJob
      /\ pending.job \in CalendarJobs => Status(pending.job) = "succeeded"
  BY DEF ServiceInv, Facts, SaveCalendarCompleted, HandlerFacts, Scoring
<1>1. pending.phase \in Done /\ published = [job |-> pending.job, gen |-> pending.job]
  BY <1>0 DEF PendingFacts, Done
<1>2. UNCHANGED <<producerVars, completedJobs, calendar, predictionVars>> /\ Step("finish")
  BY DEF SaveCalendarCompleted
<1>3. pending'.job = pending.job /\ pending'.phase = "calendar_completed"
  BY <1>0 DEF SaveCalendarCompleted, TypeOK
<1>4. JournalFacts' /\ PendingFacts' /\ CalendarFacts' /\ ServedFacts'
  BY <1>0, <1>1, <1>2, <1>3, SavedPhaseKeeps
<1>5. HandlerFacts'
  BY <1>0, <1>2, <1>3 DEF HandlerFacts, Step, Scoring
<1> QED BY <1>4, <1>5 DEF Facts

\* A finished job is recorded everywhere.
LEMMA FinishedEverywhere ==
  ASSUME ServiceInv, FinishJob
  PROVE  /\ pending.job \in Jobs
         /\ \/ /\ pending.phase = "calendar_completed" /\ phase[pending.job] = "COMPLETED"
               /\ published = [job |-> pending.job, gen |-> pending.job]
               /\ pending.job \in CalendarJobs => Status(pending.job) = "succeeded"
            \/ /\ pending.phase = "failure_completed" /\ phase[pending.job] = "FAILED"
               /\ pending.job \in CalendarJobs => Status(pending.job) = "failed"
<1>1. /\ HandlerFacts /\ PendingFacts /\ CalendarFacts /\ pending.job \in Jobs
      /\ pending.phase \in {"calendar_completed", "failure_completed"} /\ pc = "finish"
  BY PendingPhase DEF ServiceInv, Facts, FinishJob, HandlerFacts, Scoring
<1>2. CASE pending.phase = "calendar_completed"
  BY <1>1, <1>2 DEF PendingFacts, CalendarFacts, Done
<1>3. CASE pending.phase = "failure_completed"
  BY <1>1, <1>3 DEF PendingFacts, HandlerFacts
<1> QED BY <1>1, <1>2, <1>3

LEMMA FinishJobKeeps ==
  ASSUME ServiceInv, FinishJob
  PROVE  Facts'
<1> USE Names DEF producerVars, predictionVars
<1>0. /\ JournalFacts /\ PendingFacts /\ CalendarFacts /\ ServedFacts
      /\ FileFacts /\ RunFacts /\ ProducerTypeOK
  BY DEF ServiceInv, Facts, ProducerInv
<1>1. /\ UNCHANGED <<phase, baseline, accepted, everAccepted, run, calendar, reports, published,
                     everPublished>>
      /\ completedJobs' = completedJobs \cup {pending.job}
      /\ pending'.job = NoJob /\ pending'.phase = "none"
      /\ End
  BY DEF FinishJob, NothingPending
<1> PICK p : p = pending.job
  OBVIOUS
<1>2. /\ p \in Jobs /\ pending.phase \in {"calendar_completed", "failure_completed"}
      /\ pending.phase = "calendar_completed" =>
           phase[p] = "COMPLETED" /\ published = [job |-> p, gen |-> p]
      /\ pending.phase = "failure_completed" => phase[p] = "FAILED"
      /\ p \in CalendarJobs => Status(p) # "claimed"
  BY FinishedEverywhere
<1>3. JournalFacts'
  BY <1>0, <1>1, <1>2 DEF JournalFacts, Open, Terminal
<1>4. PendingFacts'
  BY <1>1 DEF PendingFacts, Done
<1>5. CalendarFacts'
  <2>1. \A j \in CalendarJobs : Status(j)' = Status(j) /\ Owned(j)' = Owned(j)
    BY <1>1, SlotsStay
  <2>2. \A w \in Weeks : StatusOf(calendar', w, "wednesday") # "absent" =>
          StatusOf(calendar', w, "tuesday") = "failed"
    BY <1>0, <1>1 DEF CalendarFacts
  <2>3. \A j \in CalendarJobs : Status(j) # "claimed"
    BY <1>0, <1>2 DEF CalendarFacts
  <2> QED BY <1>0, <1>1, <2>1, <2>2, <2>3 DEF CalendarFacts
<1>6. ServedFacts'
  <2>1. accepted = p => published.gen = accepted
    BY <1>0, <1>2 DEF FileFacts, PendingFacts
  <2> QED BY <1>0, <1>1, <2>1 DEF ServedFacts
<1> QED BY <1>1, <1>3, <1>4, <1>5, <1>6, EndKeeps DEF Facts

-----------------------------------------------------------------------------
(* Scoring and publishing. *)

\* What is scored is the completed data of the pending job, or at startup the
\* accepted generation, whose journal is closed too.
LEMMA ScoredWhole ==
  ASSUME ServiceInv, pc \in Scoring
  PROVE  /\ task.job \in PredictionJobs /\ task.gen \in Generations /\ task.gen = accepted
         /\ task.gen \in Jobs => phase[task.gen] = "COMPLETED"
         /\ \/ task.job = Initial /\ pending.job = NoJob
            \/ /\ pending.job \in Jobs /\ pending.phase \in Done
               /\ task = [job |-> pending.job, gen |-> pending.job]
<1> USE Names
<1>0. /\ HandlerFacts /\ PendingFacts /\ JournalFacts /\ TypeOK /\ FileFacts /\ ProducerTypeOK
  BY DEF ServiceInv, Facts, ProducerInv
<1>1. CASE task.job = Initial /\ pending.job = NoJob /\ task.gen = accepted
  <2>1. accepted \in Generations
    BY <1>0 DEF ProducerTypeOK
  <2>2. accepted \in Jobs => phase[accepted] = "COMPLETED"
    BY <1>0, <1>1 DEF FileFacts, JournalFacts, Open, Terminal
  <2> QED BY <1>1, <2>1, <2>2 DEF PredictionJobs
<1>2. CASE task = [job |-> pending.job, gen |-> pending.job] /\ pending.phase \in Done
  <2>1. pending.job \in Jobs
    BY <1>0, <1>2 DEF PendingFacts, TypeOK, Done
  <2>2. phase[pending.job] = "COMPLETED" /\ accepted = pending.job
    BY <1>0, <1>2, <2>1 DEF PendingFacts
  <2>3. task.job = pending.job /\ task.gen = pending.job
    BY <1>2
  <2> QED BY <1>2, <2>1, <2>2, <2>3 DEF PredictionJobs, Generations
<1> QED BY <1>0, <1>1, <1>2 DEF HandlerFacts

\* A step of the scoring that writes no report and publishes nothing.
LEMMA ScoringKeeps ==
  ASSUME ServiceInv, pc \in Scoring, Step("predict") \/ Step("answer") \/ Step("report"),
         UNCHANGED <<producerVars, pending, completedJobs, calendar, reports, published,
                     everPublished>>
  PROVE  Facts'
<1>1. JournalFacts' /\ PendingFacts' /\ CalendarFacts' /\ ServedFacts'
  BY QuietFiles
<1>2. HandlerFacts'
  BY DEF ServiceInv, Facts, Step, HandlerFacts, Scoring, producerVars
<1> QED BY <1>1, <1>2 DEF Facts

LEMMA PredictKeeps ==
  ASSUME ServiceInv, Predict
  PROVE  Facts'
<1> USE Names
<1>1. pc \in Scoring
  BY DEF Predict, Scoring
<1>2. UNCHANGED <<producerVars, pending, completedJobs, calendar, reports, published,
                  everPublished>>
  BY DEF Predict
<1>3. \/ Step("predict") \/ Step("answer") \/ Step("report") \/ End
      \/ /\ published.job = task.job /\ published.gen = task.gen /\ task.job # Initial
         /\ Step("record")
  BY DEF Predict
<1>4. CASE End
  BY <1>2, <1>4, QuietFiles, EndKeeps DEF Facts
<1>5. CASE /\ published.job = task.job /\ published.gen = task.gen /\ task.job # Initial
           /\ Step("record")
  <2>1. pending.job \in Jobs /\ pending.phase \in Done
        /\ task = [job |-> pending.job, gen |-> pending.job]
    BY <1>1, <1>5, ScoredWhole
  <2>2. published = task
    BY <1>5 DEF ServiceInv, TypeOK, Task
  <2>3. JournalFacts' /\ PendingFacts' /\ CalendarFacts' /\ ServedFacts'
    BY <1>2, QuietFiles
  <2>4. HandlerFacts'
    BY <1>2, <1>5, <2>1, <2>2 DEF Step, HandlerFacts, Scoring
  <2> QED BY <2>3, <2>4 DEF Facts
<1> QED BY <1>1, <1>2, <1>3, <1>4, <1>5, ScoringKeeps

LEMMA PredictionAnswerKeeps ==
  ASSUME ServiceInv, PredictionAnswer
  PROVE  Facts'
<1>1. pc \in Scoring
  BY DEF PredictionAnswer, Scoring
<1> QED BY <1>1, ScoringKeeps DEF PredictionAnswer

LEMMA WriteReportKeeps ==
  ASSUME ServiceInv, WriteReport
  PROVE  Facts'
<1> USE Names DEF producerVars
<1>0. /\ TypeOK /\ ServedFacts /\ HandlerFacts /\ pc \in Scoring
      /\ task.job \in PredictionJobs /\ task.gen \in Generations
      /\ task.job \in Jobs => task.gen = task.job
  <2>1. pc \in Scoring
    BY DEF WriteReport, Scoring
  <2> QED BY <2>1, ScoredWhole DEF ServiceInv, Facts
<1>1. JournalFacts' /\ PendingFacts' /\ CalendarFacts'
  BY QuietJournal, QuietPending, QuietCalendar DEF WriteReport
<1>2. CASE End /\ UNCHANGED reports
  BY <1>1, <1>2, QuietServed, EndKeeps DEF WriteReport, Facts
<1>3. CASE /\ reports[task.job] \in {NoGeneration, task.gen}
           /\ reports' = [reports EXCEPT ![task.job] = task.gen]
           /\ Step("publish")
  <2>1. /\ reports'[task.job] = task.gen
        /\ \A j \in PredictionJobs : j # task.job => reports'[j] = reports[j]
    BY <1>0, <1>3 DEF TypeOK
  <2>2. published.job # NoJob => reports'[published.job] = published.gen
    BY <1>0, <1>3, <2>1 DEF ServedFacts, TypeOK, Task
  <2>3. \A j \in Jobs : reports'[j] \in {NoGeneration, j}
    BY <1>0, <2>1 DEF ServedFacts, PredictionJobs
  <2>4. ServedFacts'
    BY <1>0, <2>2, <2>3 DEF WriteReport, ServedFacts
  <2>5. HandlerFacts'
    BY <1>0, <1>3, <2>1 DEF WriteReport, Step, HandlerFacts, Scoring
  <2> QED BY <1>1, <2>4, <2>5 DEF Facts
<1> QED BY <1>2, <1>3 DEF WriteReport

LEMMA PublishPairKeeps ==
  ASSUME ServiceInv, PublishPair
  PROVE  Facts'
<1> USE Names DEF producerVars
<1>0. /\ TypeOK /\ ServedFacts /\ HandlerFacts /\ PendingFacts /\ pc = "publish" /\ pc \in Scoring
      /\ UNCHANGED <<phase, baseline, accepted, everAccepted, run, pending, completedJobs,
                     calendar, reports>>
      /\ published' = task /\ everPublished' = everPublished \cup {task.job}
  BY DEF PublishPair, Scoring, ServiceInv, Facts
<1>1. /\ task.job \in PredictionJobs /\ task.gen \in Generations /\ task.gen = accepted
      /\ task.gen \in Jobs => phase[task.gen] = "COMPLETED"
      /\ \/ task.job = Initial /\ pending.job = NoJob
         \/ /\ pending.job \in Jobs /\ pending.phase \in Done
            /\ task = [job |-> pending.job, gen |-> pending.job]
  BY <1>0, ScoredWhole
<1>2. JournalFacts' /\ CalendarFacts'
  BY <1>0, QuietJournal, QuietCalendar
<1>3. PendingFacts'
  BY <1>0, <1>1 DEF PendingFacts, Done
<1>4. reports[task.job] = task.gen
  BY <1>0 DEF HandlerFacts
<1>5. task.job # NoJob /\ task.gen # NoGeneration /\ (task.job \in Jobs => task.gen = task.job)
  BY <1>1 DEF PredictionJobs
<1>6. ServedFacts'
  BY <1>0, <1>1, <1>4, <1>5 DEF ServedFacts
<1>7. HandlerFacts'
  <2>1. CASE task.job = Initial
    BY <2>1, EndKeeps DEF PublishPair
  <2>2. CASE task.job # Initial
    <3>1. Step("record")
      BY <2>2 DEF PublishPair
    <3> QED BY <1>0, <1>1, <2>2, <3>1 DEF Step, HandlerFacts, Scoring
  <2> QED BY <2>1, <2>2
<1> QED BY <1>2, <1>3, <1>6, <1>7 DEF Facts

-----------------------------------------------------------------------------
(* The invariant. *)

LEMMA ServiceInitInv == Init => ServiceInv
<1> SUFFICES ASSUME Init PROVE ServiceInv
  OBVIOUS
<1> USE Names
<1>1. ProducerInv /\ TypeOK
  BY ProducerInitInv, InitTyped DEF Init
<1>2. /\ phase = [j \in Jobs |-> "none"] /\ run.at = "idle" /\ accepted = Base
      /\ pending.job = NoJob /\ pending.phase = "none" /\ pc = "idle"
      /\ published.job = NoJob /\ published.gen = NoGeneration
      /\ reports = [j \in PredictionJobs |-> NoGeneration]
  BY DEF Init, ProducerInit, IdleRun, NothingPending, NoTask
<1>3. JournalFacts /\ PendingFacts
  BY <1>2 DEF JournalFacts, PendingFacts, Open, Done
<1>4. \A w \in Weeks, s \in Slots : StatusOf(calendar, w, s) = "absent"
  BY DEF Init, EmptyCalendar, NoEntry, NoAttempt, StatusOf
<1>5. CalendarFacts
  <2>1. \A j \in CalendarJobs : Status(j) = "absent" /\ phase[j] = "none"
    BY <1>2, <1>4, JobKinds DEF Status
  <2>2. \A w \in Weeks : StatusOf(calendar, w, "wednesday") = "absent"
    BY <1>4 DEF Slots
  <2>3. pending.job \notin CalendarJobs
    BY <1>2
  <2> QED BY <2>1, <2>2, <2>3 DEF CalendarFacts
<1>6. HandlerFacts
  BY <1>2 DEF HandlerFacts, Scoring
<1>7. ServedFacts
  BY <1>2 DEF ServedFacts, PredictionJobs
<1> QED BY <1>1, <1>3, <1>5, <1>6, <1>7 DEF ServiceInv, Facts

LEMMA ServiceStepInv ==
  ASSUME ServiceInv, [Next]_vars
  PROVE  ServiceInv'
<1>1. ProducerInv'
  BY StepRefinesProducer, ProducerStepInv DEF ServiceInv
<1>2. TypeOK'
  BY NextTyped
<1> SUFFICES Facts'
  BY <1>1, <1>2 DEF ServiceInv
<1>3. CASE HandlerStep
  BY <1>3, ResumeKeeps, TickPlanKeeps, EnsureOriginalClaimKeeps, ProtectNewClaimKeeps,
     SaveClaimedKeeps, CallProducerKeeps, ProducerReturnsKeeps, RecordFailureKeeps,
     SavePublishedKeeps, RecordSuccessKeeps, SaveCalendarCompletedKeeps, FinishJobKeeps,
     PredictKeeps, PredictionAnswerKeeps, WriteReportKeeps, PublishPairKeeps DEF HandlerStep
<1>4. CASE (\E m \in ManualJobs : RefreshNow(m)) \/ InitializePredictions
  BY <1>4, RefreshNowKeeps, InitializePredictionsKeeps
<1>5. CASE ProduceStep \/ PageLost \/ Interrupt
  BY <1>5, RunStepKeeps, InterruptKeeps
<1>6. CASE OperatorRetry \/ OperatorReturns \/ OperatorDies
  BY <1>6, OperatorRetryKeeps, OperatorEndsKeeps
<1>7. CASE Advance \/ UNCHANGED vars
  BY <1>7, QuietKeeps
<1> QED BY <1>3, <1>4, <1>5, <1>6, <1>7 DEF Next

LEMMA ServiceAlwaysInv == Spec => []ServiceInv
  BY ServiceInitInv, ServiceStepInv, PTL DEF Spec

-----------------------------------------------------------------------------
(* The results. *)

\* The service's files and its handler keep their types, for any weeks, manual
\* ids and number of faults.
THEOREM ServiceTypeCorrect == Spec => []TypeOK
<1>1. ServiceInv => TypeOK  BY DEF ServiceInv
<1>2. QED  BY <1>1, ServiceAlwaysInv, PTL

\* Whoever reads published.json, at whatever write _publish_pair and _commit were
\* stopped, finds a report scored on a closed generation.
THEOREM ServedPairSafe == Spec => []ServedPairIsWhole
<1>1. ServiceInv => ServedPairIsWhole
  <2>1. ServiceInv => published.gen \in Jobs \cup {Base, NoGeneration}
    BY DEF ServiceInv, TypeOK, Task, Generations
  <2> QED BY <2>1 DEF ServiceInv, Facts, ServedFacts, ServedPairIsWhole
<1>2. QED  BY <1>1, ServiceAlwaysInv, PTL

\* A succeeded slot of calendar.json has accepted and published data, and a slot the
\* service failed has a closed failed journal (_resume's order of writes).
THEOREM CalendarIsTrue == Spec => []CalendarTellsTruth
<1>1. ServiceInv => CalendarTellsTruth
  <2> SUFFICES ASSUME ServiceInv, NEW w \in Weeks, NEW s \in Slots
               PROVE  LET status == StatusOf(calendar, w, s)
                      IN  /\ status = "succeeded" => <<w, s>> \in everAccepted \cap everPublished
                          /\ status = "failed" /\ calendar[w].slots[s].owned =>
                               phase[<<w, s>>] = "FAILED"
    BY DEF CalendarTellsTruth
  <2>1. <<w, s>> \in CalendarJobs /\ WeekOfJob(<<w, s>>) = w /\ SlotOfJob(<<w, s>>) = s
    BY JobKinds
  <2>2. StatusOf(calendar, w, s) = Status(<<w, s>>) /\ calendar[w].slots[s].owned = Owned(<<w, s>>)
    BY <2>1 DEF Status, Owned
  <2> QED BY <2>1, <2>2 DEF ServiceInv, Facts, CalendarFacts
<1>2. QED  BY <1>1, ServiceAlwaysInv, PTL

\* An open journal and an active claim always have the pending job as their owner.
THEOREM NothingOrphaned == Spec => []NoOrphans
<1>1. ServiceInv => NoOrphans
  <2> SUFFICES ASSUME ServiceInv PROVE NoOrphans
    OBVIOUS
  <2>1. \A j \in Jobs : Open(j) => pending.job = j
    BY DEF ServiceInv, Facts, JournalFacts
  <2>2. ASSUME NEW w \in Weeks, NEW s \in Slots, Claimed(calendar, w, s)
        PROVE  pending.job = <<w, s>>
    <3>1. <<w, s>> \in CalendarJobs /\ Status(<<w, s>>) = "claimed"
      BY <2>2, JobKinds DEF Status, Claimed
    <3> QED BY <3>1 DEF ServiceInv, Facts, CalendarFacts
  <2> QED BY <2>1, <2>2 DEF NoOrphans
<1>2. QED  BY <1>1, ServiceAlwaysInv, PTL

\* Tuesday's and Wednesday's jobs of a week are never both accepted.
THEOREM WeekAcceptedOnce == Spec => []OneAcceptedSlotPerWeek
<1>1. ServiceInv => OneAcceptedSlotPerWeek
  <2> SUFFICES ASSUME ServiceInv, NEW w \in Weeks,
                      {<<w, "tuesday">>, <<w, "wednesday">>} \subseteq everAccepted
               PROVE  FALSE
    BY DEF OneAcceptedSlotPerWeek
  <2> DEFINE tue == <<w, "tuesday">>
             wed == <<w, "wednesday">>
  <2>1. /\ phase[tue] \in {"STAGED", "COMPLETED"}
        /\ phase[wed] \in {"STAGED", "COMPLETED"}
    BY DEF ServiceInv, ProducerInv, FileFacts
  <2>2. /\ tue \in CalendarJobs /\ wed \in CalendarJobs
        /\ Status(wed) # "absent" => Status(tue) = "failed"
    BY WeekSlots DEF ServiceInv, Facts, CalendarFacts
  <2> HIDE DEF tue, wed
  <2> QED BY <2>1, <2>2 DEF ServiceInv, Facts, CalendarFacts
<1>2. QED  BY <1>1, ServiceAlwaysInv, PTL

\* No conflict that a recovery of the pending job would meet, at its claim, its
\* commit, its report or its result, can ever arise: each raises at every attempt.
THEOREM RecoverySafe == Spec => []RecoveryNeverConflicts
<1>1. ServiceInv => RecoveryNeverConflicts
  <2> SUFFICES ASSUME ServiceInv PROVE RecoveryNeverConflicts
    OBVIOUS
  <2> USE Names
  <2>0. /\ HandlerFacts /\ CalendarFacts /\ PendingFacts /\ JournalFacts /\ ServedFacts /\ RunFacts
    BY DEF ServiceInv, Facts, ProducerInv
  <2>1. ASSUME pc \in {"resume", "fail", "succeed"}, ~IsManual(pending.job)
        PROVE  pending.job \in CalendarJobs /\ pending.job # NoJob
    BY <2>0, <2>1, PendingPhase, JobKinds DEF HandlerFacts, Scoring
  <2>2. ASSUME pc = "resume", ~IsManual(pending.job)
        PROVE  ClaimReproduces \/ ClaimAgrees
    <3>1. /\ pending.job \in CalendarJobs
          /\ pending.phase \in {"intent", "claimed", "data_completed", "published",
                                "calendar_completed", "failure_completed"}
      BY <2>1, <2>2, PendingPhase
    <3>2. /\ pending.phase = "intent" => Status(pending.job) = "claimed" \/ ClaimReproduces
          /\ pending.phase \in {"claimed", "data_completed"} => Status(pending.job) = "claimed"
          /\ pending.phase = "published" => Status(pending.job) \in {"claimed", "succeeded"}
          /\ pending.phase = "calendar_completed" => Status(pending.job) = "succeeded"
          /\ pending.phase = "failure_completed" => Status(pending.job) \in {"claimed", "failed"}
      BY <2>0, <3>1 DEF CalendarFacts
    <3> QED BY <3>1, <3>2 DEF ClaimAgrees, Status
  <2>3. run.at = "commit" => MayCommit(run.job)
    BY <2>0 DEF RunFacts, JournalFacts, PendingFacts, MayCommit
  <2>4. ASSUME pc = "report", task.job # Initial
        PROVE  accepted = task.gen /\ reports[task.job] \in {NoGeneration, task.gen}
    <3>1. pc \in Scoring
      BY <2>4 DEF Scoring
    <3>2. /\ task.gen = accepted /\ pending.job \in Jobs
          /\ task.job = pending.job /\ task.gen = pending.job
      BY <2>4, <3>1, ScoredWhole
    <3> QED BY <2>0, <3>2 DEF ServedFacts
  <2>5. ASSUME pc \in {"fail", "succeed"}, ~IsManual(pending.job)
        PROVE  CanComplete(calendar, WeekOfJob(pending.job), SlotOfJob(pending.job), pc = "succeed")
    <3>1. pending.job \in CalendarJobs
      BY <2>1, <2>5
    <3>2. CASE pc = "fail"
      <4>1. Status(pending.job) \in {"claimed", "failed"} /\ Owned(pending.job)
        BY <2>0, <3>1, <3>2 DEF HandlerFacts, CalendarFacts
      <4> QED BY <3>2, <4>1 DEF CanComplete, Status, Owned
    <3>3. CASE pc = "succeed"
      <4>1. Status(pending.job) \in {"claimed", "succeeded"} /\ Owned(pending.job)
        BY <2>0, <3>1, <3>3 DEF HandlerFacts, CalendarFacts
      <4> QED BY <3>3, <4>1 DEF CanComplete, Status, Owned
    <3> QED BY <2>5, <3>2, <3>3
  <2> QED BY <2>2, <2>3, <2>4, <2>5 DEF RecoveryNeverConflicts
<1>2. QED  BY <1>1, ServiceAlwaysInv, PTL

LEMMA OnlyFinishing ==
  ASSUME ServiceInv, [Next]_vars, pending.job \in Jobs, pending'.job # pending.job
  PROVE  FinishJob
<1> USE Names DEF serviceVars, vars
<1>1. \A p : pending' # [pending EXCEPT !.phase = p]
  BY DEF ServiceInv, TypeOK
<1>2. CASE HandlerStep
  BY <1>1, <1>2 DEF HandlerStep, Resume, TickPlan, EnsureOriginalClaim, ProtectNewClaim,
     SaveClaimed, CallProducer, ProducerReturns, RecordFailure, SavePublished, RecordSuccess,
     SaveCalendarCompleted, Predict, PredictionAnswer, WriteReport, PublishPair
<1>3. CASE ~HandlerStep
  BY <1>3 DEF Next, RefreshNow, InitializePredictions, ProduceStep, PageLost, Interrupt,
     OperatorRetry, OperatorReturns, OperatorDies, Advance
<1> QED BY <1>2, <1>3

\* A job leaves service.json only when its journal is closed, its data is served if
\* it was accepted, and its slot says the same (_resume's last save).
THEOREM LeavingIsDone == Spec => PendingLeavesOnlyWhenDone
<1> DEFINE Leaves == \A j \in Jobs :
             pending.job = j /\ pending'.job # j =>
               /\ Terminal(j)
               /\ phase[j] = "COMPLETED" => published = [job |-> j, gen |-> j]
               /\ ~IsManual(j) => StatusOf(calendar, WeekOfJob(j), SlotOfJob(j)) =
                                    IF phase[j] = "COMPLETED" THEN "succeeded" ELSE "failed"
<1>1. ASSUME ServiceInv, [Next]_vars PROVE Leaves
  <2> SUFFICES ASSUME NEW j \in Jobs, pending.job = j, pending'.job # j
               PROVE  /\ Terminal(j)
                      /\ phase[j] = "COMPLETED" => published = [job |-> j, gen |-> j]
                      /\ ~IsManual(j) => Status(j) =
                           IF phase[j] = "COMPLETED" THEN "succeeded" ELSE "failed"
    BY DEF Status
  <2>1. FinishJob
    BY <1>1, OnlyFinishing
  <2>2. ~IsManual(j) => j \in CalendarJobs
    BY JobKinds
  <2> QED BY <1>1, <2>1, <2>2, FinishedEverywhere DEF Terminal
<1>2. ServiceInv /\ [Next]_vars => [Leaves]_vars
  BY <1>1
<1> HIDE DEF Leaves
<1>3. Spec => [][Leaves]_vars
  BY <1>2, ServiceAlwaysInv, PTL DEF Spec
<1>4. QED  BY <1>3 DEF PendingLeavesOnlyWhenDone, Leaves

\* Inside the service, over its handlers, its crashes and the operator's retries, the
\* producer behaves as specified on its own: its accepted history stays one line and
\* its closed journals final.
THEOREM ServiceImplementsProducer == Spec => ProducerSpec
<1>1. Init => ProducerInit  BY DEF Init
<1>2. QED  BY <1>1, ServiceAlwaysInv, StepRefinesProducer, PTL DEF Spec, ProducerSpec

\* Only a commit moves the pointer, and only a publication moves what is served.
LEMMA OtherStepsStutter ==
  ASSUME [Next]_vars, ~CommitPointer, ~PublishPair
  PROVE  UNCHANGED <<accepted, published, everAccepted>>
<1> USE DEF producerVars, predictionVars, serviceVars, vars
<1>1. CASE HandlerStep
  BY <1>1 DEF HandlerStep, Resume, TickPlan, EnsureOriginalClaim, ProtectNewClaim, SaveClaimed,
     CallProducer, BeginRun, ProducerReturns, RecordFailure, SavePublished, RecordSuccess,
     SaveCalendarCompleted, FinishJob, Predict, PredictionAnswer, WriteReport
<1>2. CASE ProduceStep \/ PageLost
  BY <1>2 DEF ProduceStep, PageLost, WriteActive, NextPage, RefuseSource, Build, Stage,
     CommitJournal, Answer, Unanswered
<1>3. CASE ~HandlerStep /\ ~ProduceStep /\ ~PageLost
  BY <1>3 DEF Next, RefreshNow, InitializePredictions, Interrupt, OperatorRetry, BeginRun,
     OperatorReturns, OperatorDies, EndRun, Advance
<1> QED BY <1>1, <1>2, <1>3

LEMMA StepRefinesPublication ==
  ASSUME ServiceInv, [Next]_vars
  PROVE  [ServedInOrder!PublicationNext]_(ServedInOrder!publicationVars)
<1> USE Names DEF ServedInOrder!publicationVars
<1>1. CASE CommitPointer /\ ~PublishPair
  <2>0. /\ JournalFacts /\ ServedFacts /\ RunFacts /\ FileFacts /\ ProducerTypeOK
    BY DEF ServiceInv, Facts, ProducerInv
  <2>1. published' = published
    BY <1>1 DEF CommitPointer, Next, HandlerStep, Resume, TickPlan, EnsureOriginalClaim,
       ProtectNewClaim, SaveClaimed, CallProducer, ProducerReturns, RecordFailure, SavePublished,
       RecordSuccess, SaveCalendarCompleted, FinishJob, Predict, PredictionAnswer, WriteReport,
       RefreshNow, InitializePredictions, ProduceStep, PageLost, Interrupt, OperatorRetry,
       OperatorReturns, OperatorDies, Advance, vars, serviceVars, predictionVars
  <2> PICK j \in Jobs : j = run.job
    BY <1>1, <2>0 DEF CommitPointer, RunFacts
  <2>2. j = pending.job
    BY <1>1, <2>0 DEF CommitPointer, JournalFacts
  <2>3. CASE ~MayCommit(j)
    BY <1>1, <2>1, <2>3 DEF CommitPointer
  <2>4. CASE MayCommit(j) /\ j \in everAccepted
    <3>1. accepted = j
      BY <2>0, <2>4 DEF MayCommit, FileFacts, PointerIsNewest
    <3> QED BY <1>1, <2>1, <2>4, <3>1 DEF CommitPointer
  <2>5. CASE MayCommit(j) /\ j \notin everAccepted
    <3>1. accepted' = j /\ everAccepted' = everAccepted \cup {j}
      BY <1>1, <2>5 DEF CommitPointer
    <3>2. accepted # j
      BY <2>0, <2>5 DEF FileFacts
    <3>3. published.gen = accepted \/ (published.gen = NoGeneration /\ accepted = Base)
      BY <2>0, <2>2, <3>2 DEF ServedFacts
    <3>4. ServedInOrder!Accept(j)
      BY <2>1, <2>5, <3>1, <3>3 DEF ServedInOrder!Accept
    <3> QED BY <3>4 DEF ServedInOrder!PublicationNext, Generations
  <2> QED BY <2>3, <2>4, <2>5
<1>2. CASE PublishPair
  <2>1. task.gen = accepted
    BY <1>2, ScoredWhole DEF PublishPair, Scoring
  <2>2. published'.gen = accepted /\ UNCHANGED <<accepted, everAccepted>>
    BY <1>2, <2>1 DEF PublishPair, producerVars
  <2>3. CASE published.gen = accepted
    BY <2>2, <2>3
  <2>4. CASE published.gen # accepted
    <3>1. ServedInOrder!Serve
      BY <2>2, <2>4 DEF ServedInOrder!Serve
    <3> QED BY <3>1 DEF ServedInOrder!PublicationNext
  <2> QED BY <2>3, <2>4
<1>3. CASE ~CommitPointer /\ ~PublishPair
  BY <1>3, OtherStepsStutter
<1> QED BY <1>1, <1>2, <1>3

\* The service implements the publication: accepted generations reach the readers
\* in their order and none is skipped, over every crash and recovery.
THEOREM ServiceImplementsPublication == Spec => ImplementsPublication
<1>1. Init => ServedInOrder!PublicationInit
  BY DEF Init, ProducerInit, NoTask, ServedInOrder!PublicationInit
<1>2. QED  BY <1>1, ServiceAlwaysInv, StepRefinesPublication, PTL
           DEF Spec, ImplementsPublication, ServedInOrder!PublicationSpec
=============================================================================
