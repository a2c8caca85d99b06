---------------------- MODULE MonthlyCandidate_proofs ----------------------
(***************************************************************************)
(* Proofs about the monthly candidate, for any number of loops, weeks and  *)
(* months, any lease and any stall.                                        *)
(*                                                                         *)
(* First, that with the monthly work in its tick a loop still follows the  *)
(* weekly calendar's specification, so that what is proved of that         *)
(* calendar holds of the composition.  Then, that the schedule state and   *)
(* the candidate directory agree although no lock covers both.  Last, that *)
(* a month is trained on the first update published in it, if no loop      *)
(* stalls for too long.                                                    *)
(***************************************************************************)
EXTENDS MonthlyCandidate, UFCUpdateSchedule_proofs, FiniteSetTheorems

(***************************************************************************)
(* The composition implements the weekly calendar.                         *)
(***************************************************************************)

\* A loop decides about an instant that has been.
NowPast == \A p \in Procs : job[p].now \in 0 .. clock

\* A step that is about a month is about one of them.
AboutMonth == JobSteps \ {"top", "begun", "reconciled", "ready"}

Placed == \A p \in Procs : job[p].at \in AboutMonth => job[p].month \in Months

JobInv == Inv /\ MonthlyTypeOK /\ NowPast /\ Placed

LEMMA NothingStaleNothingDone ==
  ASSUME NEW now \in Nat, calendar \in Calendar,
         ~ \E w \in Weeks, s \in Slots : Stale(calendar, now, Lease, w, s)
  PROVE  ReconcileStale(calendar, now, Lease) = calendar
<1> DEFINE new == ReconcileStale(calendar, now, Lease)
<1>1. \A w \in Weeks : new[w] = calendar[w]
  <2> SUFFICES ASSUME NEW w \in Weeks PROVE new[w] = calendar[w]
    OBVIOUS
  <2>1. new[w] = [slots |-> [s \in Slots |-> calendar[w].slots[s]],
                  accepted |-> calendar[w].accepted]
    BY DEF ReconcileStale
  <2>2. calendar[w] \in Entry
    BY DEF Calendar
  <2>3. QED  BY <2>1, <2>2 DEF Entry
<1>2. new = [w \in Weeks |-> new[w]]
  BY DEF ReconcileStale
<1>3. calendar = [w \in Weeks |-> calendar[w]]
  BY DEF Calendar
<1>4. QED  BY <1>1, <1>2, <1>3

LEMMA StepImplements ==
  ASSUME JobInv, [CandidateNext]_candidateVars
  PROVE  [Next]_vars
<1>1. CASE UNCHANGED candidateVars
  BY <1>1 DEF candidateVars
<1>2. CASE PassTime
  BY <1>2 DEF PassTime, Next
<1>3. ASSUME NEW p \in Procs, ClaimUpdate(p) PROVE [Next]_vars
  BY <1>3 DEF ClaimUpdate, JobInv, NowPast, Next
<1>4. ASSUME NEW p \in Procs, ProtectUpdate(p) \/ RefuseUpdate(p) \/ PublishUpdate(p)
                               \/ CompleteUpdate(p)
      PROVE  [Next]_vars
  BY <1>4 DEF ProtectUpdate, RefuseUpdate, PublishUpdate, CompleteUpdate, Next
<1>5. ASSUME NEW p \in Procs, NEW c \in Claims, ReconcileUpdate(p, c) PROVE [Next]_vars
  BY <1>5 DEF ReconcileUpdate, Next
<1>6. ASSUME NEW p \in Procs, ReconcileClaims(p) PROVE [Next]_vars
  <2> DEFINE now == job[p].now
  <2>1. /\ calendar' = ReconcileStale(calendar, now, Lease)
        /\ UNCHANGED <<clock, loop, record>>
    BY <1>6 DEF ReconcileClaims
  <2>2. now \in 0 .. clock /\ now \in Nat /\ calendar \in Calendar
    BY DEF JobInv, NowPast, Inv, TypeOK
  <2>3. CASE \E w \in Weeks, s \in Slots : Stale(calendar, now, Lease, w, s)
    BY <2>1, <2>2, <2>3 DEF ReconcileStaleClaims, Next
  <2>4. CASE ~ \E w \in Weeks, s \in Slots : Stale(calendar, now, Lease, w, s)
    <3> HIDE DEF now
    <3>1. calendar' = calendar
      BY <2>1, <2>2, <2>4, NothingStaleNothingDone
    <3>2. QED  BY <2>1, <3>1 DEF vars
  <2>5. QED  BY <2>3, <2>4
<1>7. ASSUME NEW p \in Procs, Die(p) PROVE [Next]_vars
  BY <1>7 DEF Die, Next
<1>8. ASSUME NEW p \in Procs,
             \/ \E m \in Months : BeginPreparation(p, m)
             \/ RefusePreparation(p) \/ BeginTick(p) \/ Register(p)
             \/ ReconcileCompleted(p) \/ EndTick(p)
             \/ \E m \in Months, s \in Slots : ClaimCandidate(p, m, s)
      PROVE  UNCHANGED vars
  BY <1>8 DEF BeginPreparation, RefusePreparation, BeginTick, Register, ReconcileCompleted,
              EndTick, ClaimCandidate
<1>9. ASSUME NEW p \in Procs, Run(p) PROVE UNCHANGED vars
  BY <1>9 DEF Run, BeginRun, AlreadyCompleted, MoveToFinal, WriteReceipt, WriteMarker,
              SaveState, FailRun, ReportResult
<1>10. QED
  BY <1>1, <1>2, <1>3, <1>4, <1>5, <1>6, <1>7, <1>8, <1>9 DEF CandidateNext

(***************************************************************************)
(* What the writes of a step leave behind, field by field.                 *)
(***************************************************************************)
LEMMA MonthsAreNumbers == /\ Months \subseteq Nat
                          /\ \A t \in 0 .. Horizon : MonthOf(t) \in Months
<1>1. \A t \in 0 .. Horizon : MonthOf(t) \in Nat
  <2> SUFFICES ASSUME NEW t \in 0 .. Horizon PROVE MonthOf(t) \in Nat
    OBVIOUS
  <2> DEFINE starts == {start \in MonthStarts : start <= t}
  <2>1. starts \subseteq 0 .. Horizon
    BY MonthAssumption
  <2>2. IsFiniteSet(0 .. Horizon)
    BY FS_Interval, HorizonAssumption
  <2>3. IsFiniteSet(starts)
    BY <2>1, <2>2, FS_Subset
  <2>4. QED  BY <2>3, FS_CardinalityType DEF MonthOf
<1>2. QED  BY <1>1 DEF Months

LEMMA ProceedEffect ==
  ASSUME job \in [Procs -> JobState], NEW p \in Procs, NEW step \in JobSteps, Proceed(p, step)
  PROVE  /\ job' \in [Procs -> JobState]
         /\ \A q \in Procs : q # p => job'[q] = job[q]
         /\ job'[p].at = step
         /\ job'[p].month = job[p].month /\ job'[p].slot = job[p].slot
         /\ job'[p].now = job[p].now
  BY Zenon DEF Proceed, JobState

LEMMA TopEffect ==
  ASSUME job \in [Procs -> JobState], NEW p \in Procs, BackToTop(p)
  PROVE  /\ job' \in [Procs -> JobState]
         /\ \A q \in Procs : q # p => job'[q] = job[q]
         /\ job'[p].at = "top" /\ job'[p].now = 0
<1>1. Top \in JobState /\ Top.at = "top" /\ Top.now = 0
  BY HorizonAssumption DEF Top, JobState, JobSteps, Slots
<1>2. job' = [job EXCEPT ![p] = Top]
  BY DEF BackToTop
<1> HIDE DEF Top
<1>3. QED  BY <1>1, <1>2

LEMMA IntentEffect ==
  ASSUME intent \in [Months -> IntentEntry], NEW m \in Months,
         NEW status \in {"none", "waiting", "preparing", "refused", "registered"},
         intent' = [intent EXCEPT ![m].status = status]
  PROVE  intent' \in [Months -> IntentEntry]
  BY Zenon DEF IntentEntry

LEMMA ReserveTyped ==
  ASSUME intent \in [Months -> IntentEntry], NEW c \in Claims
  PROVE  Reserve(c) \in [Months -> IntentEntry]
<1>1. [status |-> "waiting", source |-> c] \in IntentEntry
  BY DEF IntentEntry
<1>2. \A m : [intent EXCEPT ![m] = [status |-> "waiting", source |-> c]]
                \in [Months -> IntentEntry]
  BY <1>1
<1>3. QED  BY <1>2 DEF Reserve

\* A candidate attempt's result on the entry of its month.
LEMMA CompleteRunEffect ==
  ASSUME NEW e \in MonthEntry, NEW s \in Slots, NEW ok \in BOOLEAN,
         NEW candidate \in Slots \cup {"none"}
  PROVE  LET new == CompleteRun(e, s, ok, candidate)
         IN  /\ new \in MonthEntry
             /\ new.source = e.source
             /\ new.status = IF ok THEN "succeeded"
                             ELSE IF s = "tuesday" THEN "retry_pending" ELSE "failed"
             /\ new.slots[s].status = IF ok THEN "succeeded" ELSE "failed"
             /\ \A t \in Slots : t # s => new.slots[t] = e.slots[t]
             /\ new.candidate = IF ok THEN candidate ELSE e.candidate
<1> DEFINE status == IF ok THEN "succeeded"
                     ELSE IF s = "tuesday" THEN "retry_pending" ELSE "failed"
           run == [status |-> IF ok THEN "succeeded" ELSE "failed", at |-> 0]
           named == IF ok THEN candidate ELSE e.candidate
           new == CompleteRun(e, s, ok, candidate)
<1>1. /\ status \in {"succeeded", "retry_pending", "failed"}
      /\ run \in [status : Statuses, at : 0 .. Horizon]
      /\ run.status = IF ok THEN "succeeded" ELSE "failed"
      /\ named \in Slots \cup {"none"}
  BY HorizonAssumption DEF Statuses, MonthEntry
<1>2. new = [e EXCEPT !.slots[s] = run, !.status = status, !.candidate = named]
  BY Zenon DEF CompleteRun
<1> HIDE DEF status, run, named, new
<1>3. /\ new \in MonthEntry
      /\ new.source = e.source /\ new.status = status /\ new.candidate = named
      /\ new.slots[s] = run
      /\ \A t \in Slots : t # s => new.slots[t] = e.slots[t]
  BY <1>1, <1>2, Zenon DEF MonthEntry
<1>4. QED  BY <1>1, <1>3 DEF status, named, new

(***************************************************************************)
(* Each of the five variables keeps its type.                              *)
(***************************************************************************)
LEMMA InitJobInv == CandidateInit => JobInv
<1> SUFFICES ASSUME CandidateInit PROVE JobInv
  OBVIOUS
<1>1. Inv
  BY ScheduleInitInv DEF CandidateInit
<1>2. acceptedAt \in [Claims -> 0 .. Horizon]
  BY HorizonAssumption DEF CandidateInit
<1>3. NoIntent \in IntentEntry /\ EmptyDisk \in DiskEntry
  BY DEF NoIntent, IntentEntry, EmptyDisk, DiskEntry
<1>4. NoMonth \in MonthEntry
  BY HorizonAssumption DEF NoMonth, MonthEntry, NoRun, Statuses
<1>5. Top \in JobState /\ Top.now = 0 /\ Top.at = "top"
  BY HorizonAssumption DEF Top, JobState, JobSteps, Slots
<1> HIDE DEF NoIntent, EmptyDisk, NoMonth, Top
<1>6. /\ intent \in [Months -> IntentEntry] /\ month \in [Months -> MonthEntry]
      /\ disk \in [Months -> DiskEntry] /\ job \in [Procs -> JobState]
      /\ \A p \in Procs : job[p] = Top
  BY <1>3, <1>4, <1>5 DEF CandidateInit
<1>7. clock = 0
  BY DEF CandidateInit, Init
<1>8. NowPast /\ Placed
  BY <1>5, <1>6, <1>7 DEF NowPast, Placed, AboutMonth
<1>9. QED  BY <1>1, <1>2, <1>6, <1>8 DEF JobInv, MonthlyTypeOK

\* What a step does with one loop's place in its tick.
JobStep(p) ==
  /\ job' \in [Procs -> JobState]
  /\ \A q \in Procs : q # p => job'[q] = job[q]
  /\ job'[p].now \in 0 .. clock
  /\ job'[p].at \in AboutMonth => job'[p].month \in Months

LEMMA ProceedStep ==
  ASSUME JobInv, NEW p \in Procs, NEW step \in JobSteps, Proceed(p, step),
         step \in AboutMonth => job[p].at \in AboutMonth
  PROVE  JobStep(p)
<1>1. job \in [Procs -> JobState] /\ job[p].now \in 0 .. clock
      /\ (job[p].at \in AboutMonth => job[p].month \in Months)
  BY DEF JobInv, MonthlyTypeOK, NowPast, Placed
<1>2. QED  BY <1>1, ProceedEffect DEF JobStep

LEMMA TopStep ==
  ASSUME JobInv, NEW p \in Procs, BackToTop(p)
  PROVE  JobStep(p)
<1>1. job \in [Procs -> JobState] /\ 0 \in 0 .. clock
  BY DEF JobInv, MonthlyTypeOK, Inv, TypeOK
<1>2. QED  BY <1>1, TopEffect DEF JobStep, AboutMonth

LEMMA JobStepInv ==
  ASSUME JobInv, NEW p \in Procs, JobStep(p), clock' = clock
  PROVE  job' \in [Procs -> JobState] /\ NowPast' /\ Placed'
  BY DEF JobStep, JobInv, NowPast, Placed

LEMMA JobUnchanged ==
  ASSUME JobInv, UNCHANGED job, clock' \in Nat, clock' >= clock
  PROVE  job' \in [Procs -> JobState] /\ NowPast' /\ Placed'
<1>1. /\ job \in [Procs -> JobState] /\ clock \in Nat
      /\ \A p \in Procs : job[p].now \in 0 .. clock
  BY DEF JobInv, MonthlyTypeOK, NowPast, Inv, TypeOK
<1>2. NowPast'
  BY <1>1 DEF NowPast
<1>3. QED  BY <1>1, <1>2 DEF JobInv, Placed

\* The job types, for every action.
LEMMA JobTyped ==
  ASSUME JobInv, CandidateNext, TypeOK'
  PROVE  job' \in [Procs -> JobState] /\ NowPast' /\ Placed'
<1> USE DEF JobSteps, AboutMonth
<1>0. /\ job \in [Procs -> JobState] /\ clock \in 0 .. Horizon /\ clock \in Nat
      /\ 0 \in 0 .. clock /\ clock \in 0 .. clock /\ clock' \in Nat
  BY HorizonAssumption DEF JobInv, MonthlyTypeOK, Inv, TypeOK
<1>1. CASE PassTime
  <2>1. clock' >= clock /\ UNCHANGED job
    BY <1>0, <1>1 DEF PassTime, Advance, monthlyVars
  <2>2. QED  BY <1>0, <2>1, JobUnchanged
<1>2. ASSUME NEW p \in Procs, ClaimUpdate(p) \/ RefuseUpdate(p) \/ PublishUpdate(p)
      PROVE  UNCHANGED <<clock, job>>
  BY <1>2 DEF ClaimUpdate, ClaimDataUpdate, RefuseUpdate, Refuse, PublishUpdate, Publish,
              monthlyVars
<1>3. ASSUME NEW p \in Procs, NEW c \in Claims, ReconcileUpdate(p, c)
      PROVE  UNCHANGED <<clock, job>>
  BY <1>3 DEF ReconcileUpdate, ReconcileCompletion
<1>4. ASSUME NEW p \in Procs, ProtectUpdate(p) PROVE UNCHANGED clock /\ JobStep(p)
  <2>1. At(p, "claimed") /\ UNCHANGED clock
    BY <1>4 DEF ProtectUpdate, ProtectDataCompletion
  <2>2. CASE Claimed(calendar, loop[p].week, loop[p].slot)
    <3>1. job' = [job EXCEPT ![p].now = 0]
      BY <1>4, <2>2, Zenon DEF ProtectUpdate
    <3>2. /\ job' \in [Procs -> JobState]
          /\ \A q \in Procs : q # p => job'[q] = job[q]
          /\ job'[p].at = job[p].at /\ job'[p].month = job[p].month /\ job'[p].now = 0
      <4>1. 0 \in 0 .. Horizon
        BY HorizonAssumption
      <4>2. QED  BY <1>0, <3>1, <4>1, Zenon DEF JobState
    <3>3. QED  BY <1>0, <2>1, <3>2 DEF JobStep, JobInv, Placed
  <2>3. CASE ~Claimed(calendar, loop[p].week, loop[p].slot)
    <3>1. BackToTop(p)
      BY <1>4, <2>3, Zenon DEF ProtectUpdate, BackToTop
    <3>2. QED  BY <2>1, <3>1, TopStep
  <2>4. QED  BY <2>2, <2>3
<1>5. ASSUME NEW p \in Procs, CompleteUpdate(p) \/ EndTick(p) \/ ReportResult(p) \/ Die(p)
      PROVE  UNCHANGED clock /\ JobStep(p)
  <2>1. BackToTop(p) /\ UNCHANGED clock
    BY <1>5, Zenon DEF CompleteUpdate, EndTick, ReportResult, Die, CompleteDataUpdate, vars,
                       Interrupt
  <2>2. QED  BY <2>1, TopStep
<1>6. ASSUME NEW p \in Procs, NEW m \in Months, BeginPreparation(p, m)
      PROVE  UNCHANGED clock /\ JobStep(p)
  <2>1. job' = [job EXCEPT ![p].at = "preparing", ![p].month = m] /\ UNCHANGED clock
    BY <1>6, Zenon DEF BeginPreparation, vars
  <2>2. /\ job' \in [Procs -> JobState]
        /\ \A q \in Procs : q # p => job'[q] = job[q]
        /\ job'[p].month = m /\ job'[p].now = job[p].now
    BY <1>0, <2>1, Zenon DEF JobState
  <2>3. QED  BY <2>1, <2>2 DEF JobStep, JobInv, NowPast
<1>7. ASSUME NEW p \in Procs, RefusePreparation(p) \/ Register(p)
      PROVE  UNCHANGED clock /\ JobStep(p)
  <2>1. job' = [job EXCEPT ![p].at = "begun", ![p].month = 0] /\ UNCHANGED clock
    BY <1>7, Zenon DEF RefusePreparation, Register, EndPreparation, vars
  <2>2. /\ job' \in [Procs -> JobState]
        /\ \A q \in Procs : q # p => job'[q] = job[q]
        /\ job'[p].at = "begun" /\ job'[p].now = job[p].now
    BY <1>0, <2>1, Zenon DEF JobState
  <2>3. QED  BY <2>1, <2>2 DEF JobStep, JobInv, NowPast
<1>8. ASSUME NEW p \in Procs, BeginTick(p) PROVE UNCHANGED clock /\ JobStep(p)
  <2>1. job' = [job EXCEPT ![p].at = "begun", ![p].now = clock] /\ UNCHANGED clock
    BY <1>8, Zenon DEF BeginTick, vars
  <2>2. /\ job' \in [Procs -> JobState]
        /\ \A q \in Procs : q # p => job'[q] = job[q]
        /\ job'[p].at = "begun" /\ job'[p].now = clock
    BY <1>0, <2>1, Zenon DEF JobState
  <2>3. QED  BY <1>0, <2>1, <2>2 DEF JobStep
<1>9. ASSUME NEW p \in Procs, NEW m \in Months, NEW s \in Slots, ClaimCandidate(p, m, s)
      PROVE  UNCHANGED clock /\ JobStep(p)
  <2> DEFINE new == [at |-> "claimed", month |-> m, slot |-> s, now |-> 0]
  <2>1. job' = [job EXCEPT ![p] = new] /\ UNCHANGED clock
    BY <1>9, Zenon DEF ClaimCandidate, vars
  <2>2. new \in JobState /\ new.now = 0 /\ new.month = m
    BY HorizonAssumption DEF JobState
  <2> HIDE DEF new
  <2>3. QED  BY <1>0, <2>1, <2>2 DEF JobStep
<1>10. ASSUME NEW p \in Procs, ReconcileCompleted(p) \/ ReconcileClaims(p)
       PROVE  UNCHANGED clock /\ JobStep(p)
  <2>1. UNCHANGED clock /\ (Proceed(p, "reconciled") \/ Proceed(p, "ready"))
    BY <1>10, Zenon DEF ReconcileCompleted, ReconcileClaims, vars
  <2>2. QED  BY <2>1, ProceedStep
<1>11. ASSUME NEW p \in Procs, Run(p) PROVE UNCHANGED clock /\ JobStep(p)
  <2>1. CASE ReportResult(p)
    BY <1>5, <2>1
  <2>2. CASE ~ReportResult(p)
    <3>1. /\ UNCHANGED clock /\ job[p].at \in AboutMonth
          /\ \E step \in {"training", "passed", "final", "receipt", "marked", "failed"} :
                Proceed(p, step)
      BY <1>11, <2>2 DEF Run, BeginRun, AlreadyCompleted, MoveToFinal, WriteReceipt,
           WriteMarker, SaveState, FailRun, vars, Doing, Writing
    <3>2. QED  BY <3>1, ProceedStep
  <2>3. QED  BY <2>1, <2>2
<1>12. ASSUME UNCHANGED <<clock, job>>
       PROVE  job' \in [Procs -> JobState] /\ NowPast' /\ Placed'
  BY <1>0, <1>12, JobUnchanged
<1>13. QED
  BY <1>1, <1>2, <1>3, <1>4, <1>5, <1>6, <1>7, <1>8, <1>9, <1>10, <1>11, <1>12, JobStepInv
     DEF CandidateNext

LEMMA AcceptedTyped ==
  ASSUME JobInv, CandidateNext
  PROVE  acceptedAt' \in [Claims -> 0 .. Horizon]
<1>1. acceptedAt \in [Claims -> 0 .. Horizon] /\ clock \in 0 .. Horizon
  BY DEF JobInv, MonthlyTypeOK, Inv, TypeOK
<1>2. ASSUME NEW p \in Procs, PublishUpdate(p)
      PROVE  acceptedAt' = [acceptedAt EXCEPT ![Claim(p)] = clock]
  BY <1>2 DEF PublishUpdate
<1>3. ASSUME NEW p \in Procs, ~PublishUpdate(p),
             \/ ClaimUpdate(p) \/ ProtectUpdate(p) \/ RefuseUpdate(p) \/ PublishUpdate(p)
             \/ CompleteUpdate(p) \/ \E c \in Claims : ReconcileUpdate(p, c)
             \/ \E m \in Months : BeginPreparation(p, m)
             \/ RefusePreparation(p) \/ BeginTick(p) \/ Register(p)
             \/ ReconcileCompleted(p) \/ ReconcileClaims(p) \/ EndTick(p)
             \/ \E m \in Months, s \in Slots : ClaimCandidate(p, m, s)
             \/ Die(p)
      PROVE  UNCHANGED acceptedAt
  BY <1>3, Zenon DEF ClaimUpdate, ProtectUpdate, RefuseUpdate, CompleteUpdate, ReconcileUpdate,
       BeginPreparation, RefusePreparation, BeginTick, Register, ReconcileCompleted,
       ReconcileClaims, EndTick, ClaimCandidate, Die, monthlyVars
<1>4. ASSUME NEW p \in Procs, Run(p) PROVE UNCHANGED acceptedAt
  BY <1>4, Zenon DEF Run, BeginRun, AlreadyCompleted, MoveToFinal, WriteReceipt, WriteMarker,
              SaveState, FailRun, ReportResult
<1>5. CASE PassTime
  BY <1>1, <1>5 DEF PassTime, monthlyVars
<1>6. QED  BY <1>1, <1>2, <1>3, <1>4, <1>5 DEF CandidateNext

LEMMA IntentTyped ==
  ASSUME JobInv, CandidateNext
  PROVE  intent' \in [Months -> IntentEntry]
<1>1. intent \in [Months -> IntentEntry]
  BY DEF JobInv, MonthlyTypeOK
<1>2. ASSUME NEW p \in Procs, CompleteUpdate(p) PROVE intent' \in [Months -> IntentEntry]
  <2>1. Claim(p) \in Claims
    BY LoopTyped DEF Claim, JobInv
  <2>2. intent' = Reserve(Claim(p)) \/ intent' = intent
    BY <1>2, Zenon DEF CompleteUpdate
  <2>3. QED  BY <1>1, <2>1, <2>2, ReserveTyped
<1>3. ASSUME NEW p \in Procs, NEW c \in Claims, ReconcileUpdate(p, c)
      PROVE  intent' \in [Months -> IntentEntry]
  BY <1>1, <1>3, ReserveTyped DEF ReconcileUpdate
<1>4. ASSUME NEW p \in Procs, NEW m \in Months, BeginPreparation(p, m)
      PROVE  intent' \in [Months -> IntentEntry]
  BY <1>1, <1>4, IntentEffect, Zenon DEF BeginPreparation
<1>5. ASSUME NEW p \in Procs, RefusePreparation(p) \/ Register(p)
      PROVE  intent' \in [Months -> IntentEntry]
  <2>1. job[p].month \in Months
    BY <1>5, Zenon DEF RefusePreparation, Register, Doing, JobInv, Placed, AboutMonth, JobSteps
  <2>2. QED  BY <1>1, <1>5, <2>1, IntentEffect, Zenon DEF RefusePreparation, Register
<1>6. ASSUME NEW p \in Procs,
             \/ ClaimUpdate(p) \/ ProtectUpdate(p) \/ RefuseUpdate(p) \/ PublishUpdate(p)
             \/ BeginTick(p) \/ ReconcileCompleted(p) \/ ReconcileClaims(p) \/ EndTick(p)
             \/ \E m \in Months, s \in Slots : ClaimCandidate(p, m, s)
             \/ Die(p)
      PROVE  UNCHANGED intent
  BY <1>6, Zenon DEF ClaimUpdate, ProtectUpdate, RefuseUpdate, PublishUpdate,
       BeginTick, ReconcileCompleted, ReconcileClaims, EndTick, ClaimCandidate, Die, monthlyVars
<1>7. ASSUME NEW p \in Procs, Run(p) PROVE UNCHANGED intent
  BY <1>7, Zenon DEF Run, BeginRun, AlreadyCompleted, MoveToFinal, WriteReceipt, WriteMarker,
              SaveState, FailRun, ReportResult
<1>8. CASE PassTime
  BY <1>1, <1>8 DEF PassTime, monthlyVars
<1>9. QED  BY <1>1, <1>2, <1>3, <1>4, <1>5, <1>6, <1>7, <1>8 DEF CandidateNext

(***************************************************************************)
(* The entry of a month and its directory.                                 *)
(***************************************************************************)

\* A Wednesday attempt exists only after the Tuesday one is decided as failed, so
\* one slot at most is open, and a success names what is on disk for good.
EntryFacts(e, d) ==
  /\ e.status = "absent" => \A s \in Slots : e.slots[s].status = "absent"
  /\ e.status = "succeeded" <=> \E s \in Slots : e.slots[s].status = "succeeded"
  /\ \A s \in Slots : e.slots[s].status = "claimed" => e.status = "in_progress"
  /\ e.slots["wednesday"].status # "absent" => e.slots["tuesday"].status = "failed"
  /\ e.slots["tuesday"].status \in {"claimed", "succeeded"} => e.source[2] = "tuesday"
  /\ e.status = "succeeded" => /\ d.final = "complete" /\ d.marker
                               /\ e.candidate = d.by

MonthFacts ==
  \A m \in Months : /\ EntryFacts(month[m], disk[m])
                    /\ disk[m].marker => disk[m].final = "complete"

\* What a run may rely on at each of its steps.
RunFact(p) ==
  LET d == disk[job[p].month]
  IN  /\ job[p].at \in {"training", "final", "receipt"} => ~d.marker
      /\ job[p].at = "receipt" => d.final = "complete"
      /\ job[p].at \in {"marked", "passed"} => d.marker

OneWriter == \A p, q \in Procs : Writing(p) /\ Writing(q) => p = q

CandidateInv ==
  /\ JobInv
  /\ MonthFacts
  /\ OneWriter
  /\ \A p \in Procs : RunFact(p)

LEMMA InitCandidateInv == CandidateInit => CandidateInv
<1> SUFFICES ASSUME CandidateInit PROVE CandidateInv
  OBVIOUS
<1>1. JobInv
  BY InitJobInv
<1>2. ASSUME NEW m \in Months PROVE month[m] = NoMonth /\ disk[m] = EmptyDisk
  BY DEF CandidateInit
<1>3. EntryFacts(NoMonth, EmptyDisk) /\ ~EmptyDisk.marker
  BY DEF EntryFacts, NoMonth, EmptyDisk, NoRun, Slots
<1>4. ASSUME NEW p \in Procs PROVE job[p].at = "top"
  BY DEF CandidateInit, Top
<1>5. OneWriter /\ \A p \in Procs : RunFact(p)
  BY <1>4 DEF OneWriter, RunFact, Writing
<1>6. MonthFacts
  BY <1>2, <1>3, Zenon DEF MonthFacts
<1>7. QED  BY <1>1, <1>5, <1>6 DEF CandidateInv

\* One step of a month's entry: its source and its decided slots stay, and the facts
\* with them.
EntryStep(e, new, d) ==
  /\ new \in MonthEntry
  /\ EntryFacts(new, d)
  /\ e.status # "absent" => new.status # "absent" /\ new.source = e.source
  /\ \A s \in Slots : e.slots[s].status \in {"succeeded", "failed"} => new.slots[s] = e.slots[s]

LEMMA CloseStep ==
  ASSUME NEW e \in MonthEntry, NEW d \in DiskEntry, EntryFacts(e, d),
         NEW s \in Slots, Running(e, s), NEW ok \in BOOLEAN,
         NEW candidate \in Slots \cup {"none"},
         ok => d.final = "complete" /\ d.marker /\ candidate = d.by
  PROVE  EntryStep(e, CompleteRun(e, s, ok, candidate), d)
<1> DEFINE new == CompleteRun(e, s, ok, candidate)
<1>1. /\ new \in MonthEntry
      /\ new.source = e.source
      /\ new.status = IF ok THEN "succeeded"
                      ELSE IF s = "tuesday" THEN "retry_pending" ELSE "failed"
      /\ new.slots[s].status = IF ok THEN "succeeded" ELSE "failed"
      /\ \A t \in Slots : t # s => new.slots[t] = e.slots[t]
      /\ new.candidate = IF ok THEN candidate ELSE e.candidate
  BY CompleteRunEffect
<1> HIDE DEF new
<1>2. e.slots[s].status = "claimed" /\ e.status = "in_progress"
  BY DEF Running, EntryFacts
<1>3. s = "tuesday" \/ s = "wednesday"
  BY DEF Slots
<1>4. EntryFacts(new, d)
  BY <1>1, <1>2, <1>3 DEF EntryFacts, Slots
<1>5. \A t \in Slots : e.slots[t].status \in {"succeeded", "failed"} => new.slots[t] = e.slots[t]
  BY <1>1, <1>2
<1>6. EntryStep(e, new, d)
  BY <1>1, <1>4, <1>5 DEF EntryStep
<1>7. QED  BY <1>6 DEF new

LEMMA SameStep ==
  ASSUME NEW e \in MonthEntry, NEW d \in DiskEntry, EntryFacts(e, d)
  PROVE  EntryStep(e, e, d)
  BY DEF EntryStep

LEMMA RegisterStep ==
  ASSUME NEW e \in MonthEntry, e.status = "absent", NEW d \in DiskEntry, EntryFacts(e, d),
         NEW source \in Claims \cup {NoClaim}
  PROVE  EntryStep(e, [NoMonth EXCEPT !.status = "pending", !.source = source], d)
<1> DEFINE new == [NoMonth EXCEPT !.status = "pending", !.source = source]
<1>1. NoMonth \in MonthEntry
  BY HorizonAssumption DEF NoMonth, MonthEntry, NoRun, Statuses
<1>2. \A s \in Slots : NoMonth.slots[s].status = "absent"
  BY DEF NoMonth, NoRun
<1> HIDE DEF NoMonth
<1>3. /\ new \in MonthEntry /\ new.status = "pending"
      /\ new.slots = NoMonth.slots
  BY <1>1, Zenon DEF MonthEntry
<1> HIDE DEF new
<1>4. \A s \in Slots : new.slots[s].status = "absent"
  BY <1>2, <1>3
<1>5. "tuesday" \in Slots /\ "wednesday" \in Slots
  BY DEF Slots
<1>6. EntryFacts(new, d)
  BY <1>3, <1>4, <1>5 DEF EntryFacts
<1>7. \A s \in Slots : e.slots[s].status \notin {"succeeded", "failed"}
  BY DEF EntryFacts
<1>8. EntryStep(e, new, d)
  BY <1>3, <1>6, <1>7 DEF EntryStep
<1>9. QED  BY <1>8 DEF new

LEMMA ClaimStep ==
  ASSUME NEW e \in MonthEntry, NEW d \in DiskEntry, EntryFacts(e, d),
         NEW s \in Slots, NEW now \in 0 .. Horizon,
         e.status \notin {"absent", "succeeded", "failed"},
         e.slots[s].status = "absent",
         s = "tuesday" => e.source[2] = "tuesday",
         s = "wednesday" => \/ e.source[2] # "tuesday"
                            \/ e.slots["tuesday"].status \in {"absent", "failed"}
  PROVE  EntryStep(e, ClaimedEntry(e, s, now), d)
<1> DEFINE run(t) == IF t = s THEN [status |-> "claimed", at |-> now]
                     ELSE IF s = "wednesday" /\ e.slots[t].status = "absent"
                       THEN [status |-> "failed", at |-> 0] ELSE e.slots[t]
           runs == [t \in Slots |-> run(t)]
           new == ClaimedEntry(e, s, now)
<1>1. e.slots \in [Slots -> [status : Statuses, at : 0 .. Horizon]]
  BY DEF MonthEntry
<1>2. \A t \in Slots : run(t) \in [status : Statuses, at : 0 .. Horizon]
  BY <1>1, HorizonAssumption DEF Statuses
<1>3. /\ runs \in [Slots -> [status : Statuses, at : 0 .. Horizon]]
      /\ \A t \in Slots :
           /\ t = s => runs[t].status = "claimed"
           /\ t # s /\ s = "wednesday" /\ e.slots[t].status = "absent"
                => runs[t].status = "failed"
           /\ t # s /\ ~(s = "wednesday" /\ e.slots[t].status = "absent")
                => runs[t] = e.slots[t]
  BY <1>2
<1>4. new = [e EXCEPT !.status = "in_progress", !.slots = runs]
  BY Zenon DEF ClaimedEntry
<1> HIDE DEF runs, run, new
<1>5. /\ new \in MonthEntry /\ new.status = "in_progress" /\ new.slots = runs
      /\ new.source = e.source
  BY <1>3, <1>4, Zenon DEF MonthEntry
<1>6. \A t \in Slots : t = "tuesday" \/ t = "wednesday"
  BY DEF Slots
<1>7. "tuesday" \in Slots /\ "wednesday" \in Slots
  BY DEF Slots
<1>8. \A t \in Slots : e.slots[t].status \in Statuses
  BY <1>1
<1>9. EntryFacts(new, d)
  <2>1. CASE s = "tuesday"
    <3>1. /\ new.slots["tuesday"].status = "claimed"
          /\ new.slots["wednesday"] = e.slots["wednesday"]
      BY <1>3, <1>5, <1>7, <2>1
    <3>2. e.slots["wednesday"].status = "absent"
      BY <2>1 DEF EntryFacts
    <3>3. QED  BY <1>5, <1>6, <1>7, <2>1, <3>1, <3>2 DEF EntryFacts
  <2>2. CASE s = "wednesday"
    <3>1. e.slots["tuesday"].status \in {"absent", "failed"}
      BY <1>7, <1>8, <2>2 DEF EntryFacts, Statuses
    <3>2. /\ new.slots["wednesday"].status = "claimed"
          /\ new.slots["tuesday"].status = "failed"
      BY <1>3, <1>5, <1>7, <2>2, <3>1
    <3>3. QED  BY <1>5, <1>6, <1>7, <3>2 DEF EntryFacts
  <2>3. QED  BY <1>6, <2>1, <2>2
<1>10. \A t \in Slots : e.slots[t].status \in {"succeeded", "failed"} => new.slots[t] = e.slots[t]
  BY <1>3, <1>5
<1>11. EntryStep(e, new, d)
  BY <1>5, <1>9, <1>10 DEF EntryStep
<1>12. QED  BY <1>11 DEF new

LEMMA RecoveredStep ==
  ASSUME CandidateInv, NEW m \in Months, disk[m].final = "complete", disk[m].marker
  PROVE  EntryStep(month[m], Recovered(m), disk[m])
<1>1. month[m] \in MonthEntry /\ disk[m] \in DiskEntry /\ EntryFacts(month[m], disk[m])
  BY DEF CandidateInv, JobInv, MonthlyTypeOK, MonthFacts
<1>2. disk[m].by \in Slots \cup {"none"}
  BY <1>1 DEF DiskEntry
<1> DEFINE open == {s \in Slots : Running(month[m], s)}
<1>3. CASE open = {}
  <2>1. Recovered(m) = month[m]
    BY <1>3 DEF Recovered
  <2>2. QED  BY <1>1, <2>1, SameStep
<1>4. CASE open # {}
  <2> DEFINE s == CHOOSE t \in open : TRUE
  <2>1. s \in open
    BY <1>4
  <2>2. Recovered(m) = CompleteRun(month[m], s, TRUE, disk[m].by)
    BY <1>4, Zenon DEF Recovered
  <2> HIDE DEF s
  <2>3. s \in Slots /\ Running(month[m], s)
    BY <2>1
  <2>4. EntryStep(month[m], CompleteRun(month[m], s, TRUE, disk[m].by), disk[m])
    BY <1>1, <1>2, <2>3, CloseStep
  <2>5. QED  BY <2>2, <2>4
<1>5. QED  BY <1>3, <1>4

LEMMA ExpiredStep ==
  ASSUME CandidateInv, NEW m \in Months, NEW now
  PROVE  EntryStep(month[m], Expired(month[m], now), disk[m])
<1>1. month[m] \in MonthEntry /\ disk[m] \in DiskEntry /\ EntryFacts(month[m], disk[m])
  BY DEF CandidateInv, JobInv, MonthlyTypeOK, MonthFacts
<1> DEFINE stale == {s \in Slots : StaleRun(month[m], s, now)}
<1>2. CASE stale = {}
  <2>1. Expired(month[m], now) = month[m]
    BY <1>2 DEF Expired
  <2>2. QED  BY <1>1, <2>1, SameStep
<1>3. CASE stale # {}
  <2> DEFINE s == CHOOSE t \in stale : TRUE
  <2>1. s \in stale
    BY <1>3
  <2>2. Expired(month[m], now) = CompleteRun(month[m], s, FALSE, "none")
    BY <1>3, Zenon DEF Expired
  <2> HIDE DEF s
  <2>3. s \in Slots /\ Running(month[m], s)
    BY <2>1 DEF StaleRun
  <2>4. EntryStep(month[m], CompleteRun(month[m], s, FALSE, "none"), disk[m])
    BY <1>1, <2>3, CloseStep
  <2>5. QED  BY <2>2, <2>4
<1>4. QED  BY <1>2, <1>3

(***************************************************************************)
(* The steps, by what they write.                                          *)
(***************************************************************************)
EntriesStep ==
  /\ month' \in [Months -> MonthEntry]
  /\ \A m \in Months : EntryStep(month[m], month'[m], disk[m])

LEMMA EntriesUnchanged ==
  ASSUME CandidateInv, UNCHANGED month
  PROVE  EntriesStep
  BY SameStep DEF EntriesStep, CandidateInv, JobInv, MonthlyTypeOK, MonthFacts

LEMMA OneEntryStep ==
  ASSUME CandidateInv, NEW m \in Months, NEW new, EntryStep(month[m], new, disk[m]),
         month' = [month EXCEPT ![m] = new]
  PROVE  EntriesStep
<1>1. /\ month \in [Months -> MonthEntry] /\ disk \in [Months -> DiskEntry]
      /\ \A n \in Months : EntryFacts(month[n], disk[n])
  BY DEF CandidateInv, JobInv, MonthlyTypeOK, MonthFacts
<1>2. new \in MonthEntry
  BY DEF EntryStep
<1>3. month' \in [Months -> MonthEntry] /\ month'[m] = new
      /\ \A n \in Months : n # m => month'[n] = month[n]
  BY <1>1, <1>2
<1>4. ASSUME NEW n \in Months PROVE EntryStep(month[n], month'[n], disk[n])
  BY <1>1, <1>3, SameStep
<1>5. QED  BY <1>3, <1>4 DEF EntriesStep

LEMMA MonthStep ==
  ASSUME CandidateInv, CandidateNext
  PROVE  EntriesStep
<1>1. /\ month \in [Months -> MonthEntry] /\ disk \in [Months -> DiskEntry]
      /\ intent \in [Months -> IntentEntry]
      /\ job \in [Procs -> JobState]
      /\ \A m \in Months : /\ EntryFacts(month[m], disk[m])
                           /\ disk[m].marker => disk[m].final = "complete"
  BY DEF CandidateInv, JobInv, MonthlyTypeOK, MonthFacts
<1>2. ASSUME NEW p \in Procs, Register(p) PROVE EntriesStep
  <2> DEFINE m == job[p].month
  <2>1. m \in Months
    BY <1>2, Zenon DEF Register, Doing, CandidateInv, JobInv, Placed, AboutMonth, JobSteps
  <2>2. CASE Registered(m)
    <3>1. UNCHANGED month
      BY <1>2, <2>2, Zenon DEF Register
    <3>2. QED  BY <3>1, EntriesUnchanged
  <2>3. CASE ~Registered(m)
    <3> DEFINE new == [NoMonth EXCEPT !.status = "pending", !.source = intent[m].source]
    <3>1. month' = [month EXCEPT ![m] = new]
      BY <1>2, <2>3, Zenon DEF Register
    <3>2. intent[m].source \in Claims \cup {NoClaim} /\ month[m].status = "absent"
      BY <1>1, <2>1, <2>3 DEF IntentEntry, Registered
    <3>3. EntryStep(month[m], new, disk[m])
      BY <1>1, <2>1, <3>2, RegisterStep
    <3> HIDE DEF new, m
    <3>4. QED  BY <2>1, <3>1, <3>3, OneEntryStep
  <2>4. QED  BY <2>2, <2>3
<1>3. ASSUME NEW p \in Procs, ReconcileCompleted(p) PROVE EntriesStep
  <2>1. /\ month' = [m \in Months |-> IF HasReceipt(m) THEN Recovered(m) ELSE month[m]]
        /\ \A m \in Months : HasReceipt(m) => disk[m].marker
    BY <1>3 DEF ReconcileCompleted
  <2>2. ASSUME NEW m \in Months PROVE EntryStep(month[m], month'[m], disk[m])
    <3>1. CASE HasReceipt(m)
      <4>1. disk[m].final = "complete" /\ disk[m].marker /\ month'[m] = Recovered(m)
        BY <2>1, <3>1 DEF HasReceipt
      <4>2. QED  BY <4>1, RecoveredStep
    <3>2. CASE ~HasReceipt(m)
      <4>1. month'[m] = month[m]
        BY <2>1, <3>2
      <4>2. QED  BY <1>1, <4>1, SameStep
    <3>3. QED  BY <3>1, <3>2
  <2>3. \A m \in Months : month'[m] \in MonthEntry
    BY <2>2 DEF EntryStep
  <2>4. month' = [m \in Months |-> month'[m]]
    BY <2>1
  <2>5. QED  BY <2>2, <2>3, <2>4 DEF EntriesStep
<1>4. ASSUME NEW p \in Procs, ReconcileClaims(p) PROVE EntriesStep
  <2>1. month' = [m \in Months |-> Expired(month[m], job[p].now)]
    BY <1>4 DEF ReconcileClaims
  <2>2. ASSUME NEW m \in Months PROVE EntryStep(month[m], month'[m], disk[m])
    <3>1. month'[m] = Expired(month[m], job[p].now)
      BY <2>1
    <3>2. QED  BY <3>1, ExpiredStep
  <2>3. \A m \in Months : month'[m] \in MonthEntry
    BY <2>2 DEF EntryStep
  <2>4. month' = [m \in Months |-> month'[m]]
    BY <2>1
  <2>5. QED  BY <2>2, <2>3, <2>4 DEF EntriesStep
<1>5. ASSUME NEW p \in Procs, NEW m \in Months, NEW s \in Slots, ClaimCandidate(p, m, s)
      PROVE  EntriesStep
  <2>1. /\ CandidateDue(m, s, job[p].now)
        /\ month' = [month EXCEPT ![m] = ClaimedEntry(month[m], s, job[p].now)]
    BY <1>5, Zenon DEF ClaimCandidate
  <2>2. job[p].now \in 0 .. Horizon
    BY <1>1 DEF JobState
  <2>3. /\ month[m].status \notin {"absent", "succeeded", "failed"}
        /\ month[m].slots[s].status = "absent"
        /\ s = "tuesday" => month[m].source[2] = "tuesday"
        /\ s = "wednesday" => \/ month[m].source[2] # "tuesday"
                              \/ month[m].slots["tuesday"].status \in {"absent", "failed"}
    BY <2>1 DEF CandidateDue, AnchoredAlone, Registered
  <2>4. EntryStep(month[m], ClaimedEntry(month[m], s, job[p].now), disk[m])
    BY <1>1, <2>2, <2>3, ClaimStep
  <2>5. QED  BY <2>1, <2>4, OneEntryStep
<1>6. ASSUME NEW p \in Procs, ReportResult(p) PROVE EntriesStep
  <2> DEFINE m == job[p].month  s == job[p].slot  ok == Doing(p, "passed")
             new == CompleteRun(month[m], s, ok, disk[m].by)
  <2>1. /\ job[p].at \in {"passed", "failed"}
        /\ month' = IF Running(month[m], s) THEN [month EXCEPT ![m] = new] ELSE month
    BY <1>6, Zenon DEF ReportResult
  <2>2. CASE ~Running(month[m], s)
    BY <2>1, <2>2, EntriesUnchanged
  <2>3. CASE Running(month[m], s)
    <3>1. m \in Months /\ s \in Slots
      BY <1>1, <2>1 DEF JobState, CandidateInv, JobInv, Placed, AboutMonth, JobSteps
    <3>2. disk[m].by \in Slots \cup {"none"} /\ ok \in BOOLEAN
      BY <1>1, <3>1 DEF DiskEntry, Doing
    <3>3. ok => disk[m].final = "complete" /\ disk[m].marker
      BY <1>1, <3>1 DEF CandidateInv, RunFact, Doing
    <3> HIDE DEF m, s, ok
    <3>4. EntryStep(month[m], new, disk[m])
      BY <1>1, <2>3, <3>1, <3>2, <3>3, CloseStep
    <3> HIDE DEF new
    <3>5. month' = [month EXCEPT ![m] = new]
      BY <2>1, <2>3
    <3>6. QED  BY <3>1, <3>4, <3>5, OneEntryStep
  <2>4. QED  BY <2>2, <2>3
<1>7. ASSUME NEW p \in Procs,
             \/ ClaimUpdate(p) \/ ProtectUpdate(p) \/ RefuseUpdate(p) \/ PublishUpdate(p)
             \/ CompleteUpdate(p) \/ \E c \in Claims : ReconcileUpdate(p, c)
             \/ \E m \in Months : BeginPreparation(p, m)
             \/ RefusePreparation(p) \/ BeginTick(p) \/ EndTick(p) \/ Die(p)
      PROVE  UNCHANGED month
  BY <1>7, Zenon DEF ClaimUpdate, ProtectUpdate, RefuseUpdate, PublishUpdate, CompleteUpdate,
       ReconcileUpdate, BeginPreparation, RefusePreparation, BeginTick, EndTick, Die, monthlyVars
<1>8. ASSUME NEW p \in Procs, Run(p), ~ReportResult(p) PROVE UNCHANGED month
  BY <1>8, Zenon DEF Run, BeginRun, AlreadyCompleted, MoveToFinal, WriteReceipt, WriteMarker,
              SaveState, FailRun
<1>9. CASE PassTime
  BY <1>9, EntriesUnchanged DEF PassTime, monthlyVars
<1>10. QED
  BY <1>2, <1>3, <1>4, <1>5, <1>6, <1>7, <1>8, <1>9, EntriesUnchanged DEF CandidateNext

\* A marked directory stays as it is, and a marked directory is a finished one.
DirectoryStep ==
  /\ disk' \in [Months -> DiskEntry]
  /\ \A m \in Months : /\ disk[m].marker => disk'[m] = disk[m]
                       /\ disk'[m].marker => disk'[m].final = "complete"

LEMMA DirectoryUnchanged ==
  ASSUME CandidateInv, UNCHANGED disk
  PROVE  DirectoryStep
  BY DEF DirectoryStep, CandidateInv, JobInv, MonthlyTypeOK, MonthFacts

\* The steps at which a loop relies on the directory of its month.
RunSteps == {"training", "final", "receipt", "marked", "passed"}

\* A step of loop p that writes no directory and starts no run.
Quiet(p) ==
  /\ UNCHANGED disk
  /\ \A q \in Procs :
       \/ job'[q].at = job[q].at /\ job'[q].month = job[q].month
       \/ job'[q].at \notin RunSteps

LEMMA QuietStep ==
  ASSUME CandidateInv, NEW p \in Procs, Quiet(p)
  PROVE  DirectoryStep /\ OneWriter' /\ \A q \in Procs : RunFact(q)'
<1>1. DirectoryStep
  BY DirectoryUnchanged DEF Quiet
<1>2. ASSUME NEW q \in Procs PROVE Writing(q)' => Writing(q)
  BY DEF Quiet, RunSteps, Writing
<1>3. OneWriter'
  BY <1>2 DEF OneWriter, CandidateInv
<1>4. ASSUME NEW q \in Procs PROVE RunFact(q)'
  BY DEF Quiet, RunSteps, RunFact, CandidateInv
<1>5. QED  BY <1>1, <1>3, <1>4

\* A step of the loop that holds the writer lock, or takes or passes it while it is free.
LEMMA WriterStep ==
  ASSUME CandidateInv, NEW p \in Procs, NEW step \in JobSteps, Proceed(p, step),
         DirectoryStep,
         \A q \in Procs : q # p => ~Writing(q),
         job[p].month \in Months,
         \A m \in Months : m # job[p].month => disk'[m] = disk[m],
         step \in {"training", "final", "receipt"} => ~disk'[job[p].month].marker,
         step = "receipt" => disk'[job[p].month].final = "complete",
         step \in {"marked", "passed"} => disk'[job[p].month].marker
  PROVE  OneWriter' /\ \A q \in Procs : RunFact(q)'
<1>1. job \in [Procs -> JobState] /\ \A q \in Procs : job[q].at \in AboutMonth => job[q].month \in Months
  BY DEF CandidateInv, JobInv, MonthlyTypeOK, Placed
<1>2. /\ \A q \in Procs : q # p => job'[q] = job[q]
      /\ job'[p].at = step /\ job'[p].month = job[p].month
  BY <1>1, ProceedEffect
<1>3. \A q \in Procs : q # p => ~Writing(q)'
  BY <1>2 DEF Writing
<1>4. OneWriter'
  BY <1>3 DEF OneWriter
<1>5. RunFact(p)'
  BY <1>2 DEF RunFact
<1>6. ASSUME NEW q \in Procs, q # p PROVE RunFact(q)'
  <2>1. job'[q] = job[q] /\ job[q].at \notin {"training", "final", "receipt", "marked"}
    BY <1>2, <1>6 DEF Writing
  <2>2. CASE job[q].at = "passed"
    <3>1. job[q].month \in Months /\ disk[job[q].month].marker
      BY <1>1, <2>2 DEF AboutMonth, JobSteps, RunFact, CandidateInv
    <3>2. disk'[job[q].month] = disk[job[q].month]
      BY <3>1 DEF DirectoryStep
    <3>3. QED  BY <2>1, <2>2, <3>1, <3>2 DEF RunFact
  <2>3. QED  BY <2>1, <2>2 DEF RunFact
<1>7. QED  BY <1>4, <1>5, <1>6

\* One directory rewritten.
LEMMA OneDirectoryStep ==
  ASSUME CandidateInv, NEW m \in Months, disk' \in [Months -> DiskEntry],
         \A n \in Months : n # m => disk'[n] = disk[n],
         disk[m].marker => disk'[m] = disk[m],
         disk'[m].marker => disk'[m].final = "complete"
  PROVE  DirectoryStep
  BY DEF DirectoryStep, CandidateInv, MonthFacts

LEMMA FinalEffect ==
  ASSUME disk \in [Months -> DiskEntry], NEW m \in Months,
         NEW final \in {"none", "unfinished", "complete"},
         disk' = [disk EXCEPT ![m].final = final]
  PROVE  /\ disk' \in [Months -> DiskEntry]
         /\ \A n \in Months : n # m => disk'[n] = disk[n]
         /\ disk'[m].final = final /\ disk'[m].marker = disk[m].marker
  BY Zenon DEF DiskEntry

LEMMA MarkerEffect ==
  ASSUME disk \in [Months -> DiskEntry], NEW m \in Months,
         disk' = [disk EXCEPT ![m].marker = TRUE]
  PROVE  /\ disk' \in [Months -> DiskEntry]
         /\ \A n \in Months : n # m => disk'[n] = disk[n]
         /\ disk'[m].final = disk[m].final /\ disk'[m].marker
         /\ disk[m].marker => disk'[m] = disk[m]
<1>1. /\ disk' \in [Months -> DiskEntry]
      /\ \A n \in Months : n # m => disk'[n] = disk[n]
      /\ disk'[m].final = disk[m].final /\ disk'[m].marker /\ disk'[m].by = disk[m].by
  BY Zenon DEF DiskEntry
<1>2. disk[m] \in DiskEntry /\ disk'[m] \in DiskEntry
  BY <1>1
<1>3. disk[m].marker => disk'[m].marker = disk[m].marker
  BY <1>1, <1>2 DEF DiskEntry
<1>4. disk[m].marker => disk'[m] = disk[m]
  BY <1>1, <1>2, <1>3 DEF DiskEntry
<1>5. QED  BY <1>1, <1>4

LEMMA DiskStep ==
  ASSUME CandidateInv, CandidateNext
  PROVE  DirectoryStep /\ OneWriter' /\ \A q \in Procs : RunFact(q)'
<1> DEFINE Goal == DirectoryStep /\ OneWriter' /\ \A q \in Procs : RunFact(q)'
<1> USE DEF JobSteps
<1>1. /\ disk \in [Months -> DiskEntry] /\ job \in [Procs -> JobState]
      /\ \A m \in Months : disk[m].marker => disk[m].final = "complete"
      /\ \A p \in Procs : job[p].at \in AboutMonth => job[p].month \in Months
  BY DEF CandidateInv, JobInv, MonthlyTypeOK, MonthFacts, Placed
<1>2. ASSUME NEW p \in Procs, LockFree \/ Writing(p)
      PROVE  \A q \in Procs : q # p => ~Writing(q)
  BY <1>2 DEF LockFree, CandidateInv, OneWriter
<1>3. ASSUME NEW p \in Procs, BeginRun(p) PROVE Goal
  <2> DEFINE m == job[p].month
  <2>1. /\ disk' = [disk EXCEPT ![m].final = "none"]
        /\ LockFree /\ ~disk[m].marker /\ Proceed(p, "training") /\ job[p].at = "claimed"
    BY <1>3, Zenon DEF BeginRun, Doing
  <2>2. m \in Months
    BY <1>1, <2>1 DEF AboutMonth
  <2> HIDE DEF m
  <2>3. DirectoryStep /\ ~disk'[m].marker /\ \A n \in Months : n # m => disk'[n] = disk[n]
    BY <1>1, <2>1, <2>2, FinalEffect, OneDirectoryStep
  <2>4. QED  BY <1>2, <2>1, <2>2, <2>3, WriterStep DEF m
<1>4. ASSUME NEW p \in Procs, AlreadyCompleted(p) PROVE Goal
  <2> DEFINE m == job[p].month
  <2>1. /\ disk' = [disk EXCEPT ![m].marker = TRUE] /\ disk[m].final = "complete"
        /\ LockFree /\ Proceed(p, "marked") /\ job[p].at = "claimed"
    BY <1>4, Zenon DEF AlreadyCompleted, Doing
  <2>2. m \in Months
    BY <1>1, <2>1 DEF AboutMonth
  <2> HIDE DEF m
  <2>3. DirectoryStep /\ disk'[m].marker /\ \A n \in Months : n # m => disk'[n] = disk[n]
    BY <1>1, <2>1, <2>2, MarkerEffect, OneDirectoryStep
  <2>4. QED  BY <1>2, <2>1, <2>2, <2>3, WriterStep DEF m
<1>5. ASSUME NEW p \in Procs, MoveToFinal(p) PROVE Goal
  <2> DEFINE m == job[p].month
  <2>1. /\ disk' = [disk EXCEPT ![m].final = "unfinished", ![m].by = job[p].slot]
        /\ Proceed(p, "final") /\ job[p].at = "training"
    BY <1>5, Zenon DEF MoveToFinal, Doing
  <2>2. m \in Months /\ ~disk[m].marker /\ Writing(p) /\ job[p].slot \in Slots
    BY <1>1, <2>1 DEF AboutMonth, CandidateInv, RunFact, Writing, JobState
  <2> HIDE DEF m
  <2>3. /\ disk' \in [Months -> DiskEntry]
        /\ \A n \in Months : n # m => disk'[n] = disk[n]
        /\ disk'[m].marker = disk[m].marker
    BY <1>1, <2>1, <2>2, Zenon DEF DiskEntry
  <2>4. DirectoryStep
    BY <2>2, <2>3, OneDirectoryStep
  <2>5. QED  BY <1>2, <2>1, <2>2, <2>3, <2>4, WriterStep DEF m
<1>6. ASSUME NEW p \in Procs, WriteReceipt(p) PROVE Goal
  <2> DEFINE m == job[p].month
  <2>1. /\ disk' = [disk EXCEPT ![m].final = "complete"]
        /\ Proceed(p, "receipt") /\ job[p].at = "final"
    BY <1>6, Zenon DEF WriteReceipt, Doing
  <2>2. m \in Months /\ ~disk[m].marker /\ Writing(p)
    BY <1>1, <2>1 DEF AboutMonth, CandidateInv, RunFact, Writing
  <2> HIDE DEF m
  <2>3. /\ DirectoryStep /\ ~disk'[m].marker /\ disk'[m].final = "complete"
        /\ \A n \in Months : n # m => disk'[n] = disk[n]
    BY <1>1, <2>1, <2>2, FinalEffect, OneDirectoryStep
  <2>4. QED  BY <1>2, <2>1, <2>2, <2>3, WriterStep DEF m
<1>7. ASSUME NEW p \in Procs, WriteMarker(p) PROVE Goal
  <2> DEFINE m == job[p].month
  <2>1. /\ disk' = [disk EXCEPT ![m].marker = TRUE]
        /\ Proceed(p, "marked") /\ job[p].at = "receipt"
    BY <1>7, Zenon DEF WriteMarker, Doing
  <2>2. m \in Months /\ disk[m].final = "complete" /\ Writing(p)
    BY <1>1, <2>1 DEF AboutMonth, CandidateInv, RunFact, Writing
  <2> HIDE DEF m
  <2>3. DirectoryStep /\ disk'[m].marker /\ \A n \in Months : n # m => disk'[n] = disk[n]
    BY <1>1, <2>1, <2>2, MarkerEffect, OneDirectoryStep
  <2>4. QED  BY <1>2, <2>1, <2>2, <2>3, WriterStep DEF m
<1>8. ASSUME NEW p \in Procs, SaveState(p) PROVE Goal
  <2>1. UNCHANGED disk /\ Proceed(p, "passed") /\ job[p].at = "marked"
    BY <1>8 DEF SaveState, Doing
  <2>2. job[p].month \in Months /\ disk[job[p].month].marker /\ Writing(p)
    BY <1>1, <2>1 DEF AboutMonth, CandidateInv, RunFact, Writing
  <2>3. DirectoryStep
    BY <2>1, DirectoryUnchanged
  <2>4. QED  BY <1>2, <2>1, <2>2, <2>3, WriterStep
<1>9. ASSUME NEW p \in Procs, FailRun(p) PROVE Goal
  <2> DEFINE m == job[p].month
  <2>1. /\ disk' = IF job[p].at \in {"final", "receipt"}
                     THEN [disk EXCEPT ![m].final = "none"] ELSE disk
        /\ Proceed(p, "failed")
        /\ job[p].at = "claimed" \/ Writing(p)
    BY <1>9, Zenon DEF FailRun, Doing
  <2>2. CASE job[p].at \in {"final", "receipt"}
    <3>1. m \in Months /\ ~disk[m].marker /\ Writing(p)
      BY <1>1, <2>2 DEF AboutMonth, CandidateInv, RunFact, Writing
    <3> HIDE DEF m
    <3>2. DirectoryStep /\ \A n \in Months : n # m => disk'[n] = disk[n]
      BY <1>1, <2>1, <2>2, <3>1, FinalEffect, OneDirectoryStep
    <3>3. QED  BY <1>2, <2>1, <3>1, <3>2, WriterStep DEF m
  <2>3. CASE job[p].at \notin {"final", "receipt"}
    <3>1. UNCHANGED disk
      BY <2>1, <2>3
    <3>2. Quiet(p)
      BY <1>1, <2>1, <3>1, ProceedEffect DEF Quiet, RunSteps
    <3>3. QED  BY <3>2, QuietStep
  <2>4. QED  BY <2>2, <2>3
<1>10. ASSUME NEW p \in Procs,
              \/ CompleteUpdate(p) \/ EndTick(p) \/ ReportResult(p) \/ Die(p)
       PROVE  Goal
  <2>1. UNCHANGED disk /\ BackToTop(p)
    BY <1>10, Zenon DEF CompleteUpdate, EndTick, ReportResult, Die
  <2>2. Quiet(p)
    BY <1>1, <2>1, TopEffect DEF Quiet, RunSteps
  <2>3. QED  BY <2>2, QuietStep
<1>11. ASSUME NEW p \in Procs, ReconcileCompleted(p) \/ ReconcileClaims(p) PROVE Goal
  <2>1. UNCHANGED disk /\ (Proceed(p, "reconciled") \/ Proceed(p, "ready"))
    BY <1>11, Zenon DEF ReconcileCompleted, ReconcileClaims
  <2>2. Quiet(p)
    BY <1>1, <2>1, ProceedEffect DEF Quiet, RunSteps
  <2>3. QED  BY <2>2, QuietStep
<1>12. ASSUME NEW p \in Procs, BeginTick(p) \/ RefusePreparation(p) \/ Register(p)
       PROVE  Goal
  <2>1. /\ UNCHANGED disk
        /\ \/ job' = [job EXCEPT ![p].at = "begun", ![p].now = clock]
           \/ job' = [job EXCEPT ![p].at = "begun", ![p].month = 0]
    BY <1>12, Zenon DEF BeginTick, RefusePreparation, Register, EndPreparation
  <2>2. job'[p].at = "begun" /\ \A q \in Procs : q # p => job'[q] = job[q]
    <3>1. CASE job' = [job EXCEPT ![p].at = "begun", ![p].now = clock]
      BY <1>1, <3>1, Zenon DEF JobState
    <3>2. CASE job' = [job EXCEPT ![p].at = "begun", ![p].month = 0]
      BY <1>1, <3>2, Zenon DEF JobState
    <3>3. QED  BY <2>1, <3>1, <3>2
  <2>3. Quiet(p)
    BY <2>1, <2>2 DEF Quiet, RunSteps
  <2>4. QED  BY <2>3, QuietStep
<1>13. ASSUME NEW p \in Procs, NEW m \in Months, BeginPreparation(p, m) PROVE Goal
  <2>1. UNCHANGED disk /\ job' = [job EXCEPT ![p].at = "preparing", ![p].month = m]
    BY <1>13, Zenon DEF BeginPreparation
  <2>2. job'[p].at = "preparing" /\ \A q \in Procs : q # p => job'[q] = job[q]
    BY <1>1, <2>1, Zenon DEF JobState
  <2>3. Quiet(p)
    BY <2>1, <2>2 DEF Quiet, RunSteps
  <2>4. QED  BY <2>3, QuietStep
<1>14. ASSUME NEW p \in Procs, NEW m \in Months, NEW s \in Slots, ClaimCandidate(p, m, s)
       PROVE  Goal
  <2> DEFINE new == [at |-> "claimed", month |-> m, slot |-> s, now |-> 0]
  <2>1. UNCHANGED disk /\ job' = [job EXCEPT ![p] = new]
    BY <1>14, Zenon DEF ClaimCandidate
  <2>2. new.at = "claimed"
    OBVIOUS
  <2> HIDE DEF new
  <2>3. job'[p].at = "claimed" /\ \A q \in Procs : q # p => job'[q] = job[q]
    BY <1>1, <2>1, <2>2
  <2>4. Quiet(p)
    BY <2>1, <2>3 DEF Quiet, RunSteps
  <2>5. QED  BY <2>4, QuietStep
<1>15. ASSUME NEW p \in Procs, ProtectUpdate(p) PROVE Goal
  <2>1. UNCHANGED disk /\ (job' = [job EXCEPT ![p].now = 0] \/ BackToTop(p))
    BY <1>15, Zenon DEF ProtectUpdate, BackToTop
  <2>2. CASE BackToTop(p)
    <3>1. Quiet(p)
      BY <1>1, <2>1, <2>2, TopEffect DEF Quiet, RunSteps
    <3>2. QED  BY <3>1, QuietStep
  <2>3. CASE job' = [job EXCEPT ![p].now = 0]
    <3>1. /\ \A q \in Procs : q # p => job'[q] = job[q]
          /\ job'[p].at = job[p].at /\ job'[p].month = job[p].month
      BY <1>1, <2>3, Zenon DEF JobState
    <3>2. Quiet(p)
      BY <2>1, <3>1 DEF Quiet
    <3>3. QED  BY <3>2, QuietStep
  <2>4. QED  BY <2>1, <2>2, <2>3
<1>16. ASSUME NEW p \in Procs,
              \/ ClaimUpdate(p) \/ RefuseUpdate(p) \/ PublishUpdate(p)
              \/ \E c \in Claims : ReconcileUpdate(p, c)
       PROVE  Goal
  <2>1. UNCHANGED <<disk, job>>
    BY <1>16, Zenon DEF ClaimUpdate, RefuseUpdate, PublishUpdate, ReconcileUpdate, monthlyVars
  <2>2. Quiet(p)
    BY <2>1 DEF Quiet
  <2>3. QED  BY <2>2, QuietStep
<1>17. ASSUME PassTime PROVE Goal
  <2>1. UNCHANGED <<disk, job>>
    BY <1>17 DEF PassTime, monthlyVars
  <2>2. DirectoryStep
    BY <2>1, DirectoryUnchanged
  <2>3. OneWriter' /\ \A q \in Procs : RunFact(q)'
    BY <2>1 DEF OneWriter, Writing, RunFact, CandidateInv
  <2>4. QED  BY <2>2, <2>3
<1> HIDE DEF Goal
<1>18. ASSUME NEW p \in Procs, Run(p) PROVE Goal
  BY <1>3, <1>4, <1>5, <1>6, <1>7, <1>8, <1>9, <1>10, <1>18 DEF Run
<1>19. Goal
  BY <1>10, <1>11, <1>12, <1>13, <1>14, <1>15, <1>16, <1>17, <1>18 DEF CandidateNext
<1>20. QED  BY <1>19 DEF Goal

(***************************************************************************)
(* The invariant and what follows from it.                                 *)
(***************************************************************************)
LEMMA NextJobInv ==
  ASSUME JobInv, [CandidateNext]_candidateVars
  PROVE  Inv' /\ (CandidateNext \/ UNCHANGED candidateVars)
  BY StepImplements, ScheduleStepInv DEF JobInv

LEMMA StepCandidateInv == CandidateInv /\ [CandidateNext]_candidateVars => CandidateInv'
<1> SUFFICES ASSUME CandidateInv, [CandidateNext]_candidateVars PROVE CandidateInv'
  OBVIOUS
<1>1. JobInv /\ Inv'
  BY NextJobInv DEF CandidateInv
<1>2. CASE UNCHANGED candidateVars
  <2>1. UNCHANGED <<clock, calendar, loop, record, acceptedAt, intent, month, disk, job>>
    BY <1>2 DEF candidateVars, vars, monthlyVars
  <2>2. JobInv'
    BY <1>1, <2>1 DEF JobInv, MonthlyTypeOK, NowPast, Placed
  <2>3. MonthFacts' /\ OneWriter' /\ \A p \in Procs : RunFact(p)'
    BY <2>1 DEF CandidateInv, MonthFacts, OneWriter, Writing, RunFact
  <2>4. QED  BY <2>2, <2>3 DEF CandidateInv
<1>3. CASE CandidateNext
  <2>1. EntriesStep
    BY <1>3, MonthStep
  <2>2. job' \in [Procs -> JobState] /\ NowPast' /\ Placed'
    BY <1>1, <1>3, JobTyped DEF Inv
  <2>3. DirectoryStep /\ OneWriter' /\ \A p \in Procs : RunFact(p)'
    BY <1>3, DiskStep
  <2>4. JobInv'
    BY <1>1, <1>3, <2>1, <2>2, <2>3, AcceptedTyped, IntentTyped
       DEF JobInv, MonthlyTypeOK, EntriesStep, DirectoryStep
  <2>5. ASSUME NEW m \in Months
        PROVE  EntryFacts(month'[m], disk'[m]) /\ (disk'[m].marker => disk'[m].final = "complete")
    <3>1. /\ EntryFacts(month'[m], disk[m])
          /\ disk[m].marker => disk'[m] = disk[m]
          /\ disk'[m].marker => disk'[m].final = "complete"
      BY <2>1, <2>3 DEF EntriesStep, EntryStep, DirectoryStep
    <3>2. QED  BY <3>1 DEF EntryFacts
  <2>6. MonthFacts'
    BY <2>5 DEF MonthFacts
  <2>7. QED  BY <2>3, <2>4, <2>6 DEF CandidateInv
<1>4. QED  BY <1>2, <1>3

LEMMA AlwaysCandidateInv == CandidateSpec => []CandidateInv
  BY InitCandidateInv, StepCandidateInv, PTL DEF CandidateSpec

\* With the monthly work in its ticks, every loop still follows the weekly calendar
\* of UFCUpdateSchedule: reconciliation, claims, fences and crashes included.
THEOREM ImplementsWeeklyCalendar == CandidateSpec => Spec
<1>1. CandidateInit => Init
  BY DEF CandidateInit
<1>2. CandidateInv /\ [CandidateNext]_candidateVars => [Next]_vars
  BY StepImplements DEF CandidateInv
<1>3. QED  BY <1>1, <1>2, AlwaysCandidateInv, PTL DEF CandidateSpec, Spec

\* So a lease or a crash in the composition never fails a published update.
THEOREM CompositionNeverFailsPublished == CandidateSpec => []PublishedNeverFailed
  BY ImplementsWeeklyCalendar, PublishedNeverFails, PTL

\* Nor does the composition publish a week's update twice.
THEOREM CompositionPublishesOnce == CandidateSpec => []OnePublicationPerWeek
  BY ImplementsWeeklyCalendar, PublishesOncePerWeek, PTL

\* The monthly state, the directories and the loops keep their types.
THEOREM MonthlyTypeCorrect == CandidateSpec => []MonthlyTypeOK
<1>1. CandidateInv => MonthlyTypeOK
  BY DEF CandidateInv, JobInv
<1>2. QED  BY <1>1, AlwaysCandidateInv, PTL

\* A month recorded as succeeded names the finished, marked candidate on disk,
\* although the schedule state and the directory are under different locks.
THEOREM SuccessIsOnDisk == CandidateSpec => []SuccessHasItsCandidate
<1>1. CandidateInv => SuccessHasItsCandidate
  BY DEF CandidateInv, MonthFacts, EntryFacts, SuccessHasItsCandidate
<1>2. QED  BY <1>1, AlwaysCandidateInv, PTL

\* A decided slot and a finished candidate are final, whatever comes after them.
THEOREM MonthlyDecisionsAreFinal == CandidateSpec => MonthlyDecisionsStand
<1> DEFINE Stand ==
      \A m \in Months :
        /\ \A s \in Slots : month[m].slots[s].status \in {"succeeded", "failed"} =>
             month'[m].slots[s] = month[m].slots[s]
        /\ disk[m].marker => disk'[m].final = "complete" /\ disk'[m].by = disk[m].by
<1>1. CandidateInv /\ [CandidateNext]_candidateVars => [Stand]_candidateVars
  <2> SUFFICES ASSUME CandidateInv, CandidateNext PROVE Stand
    OBVIOUS
  <2>1. EntriesStep
    BY MonthStep
  <2>2. DirectoryStep
    BY DiskStep
  <2>3. ASSUME NEW m \in Months, disk[m].marker
        PROVE  disk'[m].final = "complete" /\ disk'[m].by = disk[m].by
    BY <2>2, <2>3 DEF DirectoryStep
  <2>4. QED  BY <2>1, <2>3 DEF EntriesStep, EntryStep
<1>2. QED  BY <1>1, AlwaysCandidateInv, PTL DEF CandidateSpec, MonthlyDecisionsStand

(***************************************************************************)
(* The month's source is the first update published in the month.          *)
(***************************************************************************)

\* A loop that holds a claim is at the end of its tick, and a claim is about the
\* instant the tick began with, not long past.
ClaimInTime(p) ==
  /\ ~At(p, "idle") => Doing(p, "ready")
  /\ Deciding(p) => clock <= job[p].now + MaxStall
  /\ At(p, "claimed") => /\ WeekOf(job[p].now) = loop[p].week
                         /\ DayPart(job[p].now) \in Window[loop[p].slot]

ClaimsInTime == \A p \in Procs : ClaimInTime(p)

\* A claim whose publication outcome is owed, and one that may yet be fenced.
Owes(c) == Claimed(calendar, c[1], c[2]) /\ Slot(c[1], c[2]).fenced

MayOwe(c) == /\ Claimed(calendar, c[1], c[2])
             /\ \E p \in Procs : At(p, "claimed") /\ Claim(p) = c

\* While one outcome is owed no other can come to be: so updates are completed in
\* the order they were published in, however late.
OneOutcomeOwed ==
  \A c, d \in Claims : Owes(c) /\ (Owes(d) \/ MayOwe(d)) => c = d

Reserved(m) == intent[m].status # "none"

ReservedFirst ==
  /\ \A m \in Months : /\ Registered(m) => Reserved(m)
                       /\ Reserved(m) => intent[m].source \in Claims
  /\ \A p \in Procs : Doing(p, "preparing") => Reserved(job[p].month)
  /\ \A c \in Claims : acceptedAt[c] <= clock

SourceInv ==
  /\ CandidateInv
  /\ ClaimsInTime
  /\ OneOutcomeOwed
  /\ ReservedFirst
  /\ MonthFromFirstUpdate

LEMMA InitSourceInv == CandidateInit => SourceInv
<1> SUFFICES ASSUME CandidateInit PROVE SourceInv
  OBVIOUS
<1>1. CandidateInv
  BY InitCandidateInv
<1>2. /\ \A p \in Procs : loop[p].at = "idle" /\ job[p].at = "top"
      /\ \A m \in Months : intent[m].status = "none" /\ month[m].status = "absent"
      /\ clock = 0 /\ \A c \in Claims : acceptedAt[c] = 0
  BY DEF CandidateInit, Init, Idle, Top, NoIntent, NoMonth
<1>3. \A c \in Claims : StatusOf(calendar, c[1], c[2]) = "absent"
  BY DEF CandidateInit, Init, Claims, EmptyCalendar, NoEntry, NoAttempt, StatusOf
<1>4. ClaimsInTime
  BY <1>2 DEF ClaimsInTime, ClaimInTime, At, Deciding
<1>5. OneOutcomeOwed
  BY <1>3 DEF OneOutcomeOwed, Owes, Claimed
<1>6. ReservedFirst
  BY <1>2 DEF ReservedFirst, Registered, Reserved, Doing
<1>7. MonthFromFirstUpdate
  BY <1>2, <1>3 DEF MonthFromFirstUpdate
<1>8. QED  BY <1>1, <1>4, <1>5, <1>6, <1>7 DEF SourceInv

LEMMA ClaimTyped ==
  ASSUME NEW c \in Claims
  PROVE  c[1] \in Weeks /\ c[2] \in Slots /\ c = <<c[1], c[2]>>
  BY DEF Claims

(* Claims are made in time. *)

\* A step of loop p at which only p moves, and no time passes.
OnlyLoop(p) ==
  /\ UNCHANGED clock
  /\ \A q \in Procs : q # p => loop'[q] = loop[q] /\ job'[q] = job[q]

LEMMA OnlyLoopInTime ==
  ASSUME ClaimsInTime, NEW p \in Procs, OnlyLoop(p), ClaimInTime(p)'
  PROVE  ClaimsInTime'
<1>1. ASSUME NEW q \in Procs, q # p PROVE ClaimInTime(q)'
  <2>1. loop'[q] = loop[q] /\ job'[q] = job[q] /\ clock' = clock
    BY <1>1 DEF OnlyLoop
  <2>2. ClaimInTime(q)
    BY DEF ClaimsInTime
  <2>3. QED  BY <2>1, <2>2 DEF ClaimInTime, At, Doing, Deciding
<1>2. QED  BY <1>1 DEF ClaimsInTime

\* Monthly work of a loop without a claim of its own.
LEMMA TickInTime ==
  ASSUME ClaimsInTime, NEW p \in Procs, OnlyLoop(p), UNCHANGED loop, At(p, "idle"),
         \/ job'[p].at \notin {"begun", "preparing", "reconciled", "ready"}
         \/ job'[p].now = job[p].now
            /\ job[p].at \in {"begun", "preparing", "reconciled", "ready"}
         \/ clock <= job'[p].now + MaxStall
  PROVE  ClaimsInTime'
<1>1. ClaimInTime(p) /\ clock' = clock /\ loop' = loop /\ loop[p].at = "idle"
  BY DEF ClaimsInTime, OnlyLoop, At
<1>2. ClaimInTime(p)'
  BY <1>1 DEF ClaimInTime, At, Deciding
<1>3. QED  BY <1>2, OnlyLoopInTime


LEMMA StepInTime ==
  ASSUME CandidateInv, ClaimsInTime, CandidateNext
  PROVE  ClaimsInTime'
<1> USE DEF JobSteps
<1>1. /\ job \in [Procs -> JobState] /\ loop \in [Procs -> LoopState]
      /\ clock \in Nat /\ \A p \in Procs : job[p].now \in 0 .. clock
  BY HorizonAssumption DEF CandidateInv, JobInv, MonthlyTypeOK, NowPast, Inv, TypeOK
<1>2. \A p \in Procs : ClaimInTime(p)
  BY DEF ClaimsInTime
<1>3. CASE PassTime
  <2>1. /\ UNCHANGED <<loop, job>> /\ clock' = clock + 1
        /\ \A p \in Procs : Deciding(p) => clock < job[p].now + MaxStall
    BY <1>3 DEF PassTime, Advance, monthlyVars
  <2> SUFFICES ASSUME NEW p \in Procs PROVE ClaimInTime(p)'
    BY DEF ClaimsInTime
  <2>2. Deciding(p)' => Deciding(p)
    BY <2>1 DEF Deciding, At
  <2>3. job[p].now \in Nat
    BY <1>1
  <2>4. Deciding(p)' => clock' <= job'[p].now + MaxStall
    BY <1>1, <2>1, <2>2, <2>3, StallAssumption
  <2>5. QED  BY <1>2, <2>1, <2>4 DEF ClaimInTime, At, Doing
<1>4. ASSUME NEW p \in Procs, ClaimUpdate(p) PROVE ClaimsInTime'
  <2>1. PICK s \in Slots :
          /\ Due(calendar, job[p].now, s)
          /\ loop' = [loop EXCEPT ![p] = [at |-> "claimed", week |-> WeekOf(job[p].now), slot |-> s]]
    BY <1>4 DEF ClaimUpdate, ClaimDataUpdate
  <2>2. Doing(p, "ready") /\ At(p, "idle") /\ UNCHANGED <<clock, job>>
    BY <1>4 DEF ClaimUpdate, ClaimDataUpdate, monthlyVars
  <2>3. /\ loop'[p].at = "claimed" /\ loop'[p].week = WeekOf(job[p].now) /\ loop'[p].slot = s
        /\ \A q \in Procs : q # p => loop'[q] = loop[q]
    BY <1>1, <2>1
  <2>4. DayPart(job[p].now) \in Window[s]
    BY <2>1 DEF Due
  <2>5. ClaimInTime(p)'
    BY <1>2, <2>2, <2>3, <2>4 DEF ClaimInTime, At, Doing, Deciding
  <2>6. QED  BY <2>2, <2>3, <2>5, OnlyLoopInTime DEF OnlyLoop
<1>5. ASSUME NEW p \in Procs, BackToTop(p), UNCHANGED clock,
             \A q \in Procs : q # p => loop'[q] = loop[q],
             loop'[p].at = "idle"
      PROVE  ClaimsInTime'
  <2>1. job'[p].at = "top" /\ \A q \in Procs : q # p => job'[q] = job[q]
    BY <1>1, <1>5, TopEffect
  <2>2. ClaimInTime(p)'
    BY <1>5, <2>1 DEF ClaimInTime, At, Deciding
  <2>3. QED  BY <1>5, <2>1, <2>2, OnlyLoopInTime DEF OnlyLoop
<1>6. ASSUME NEW p \in Procs, Forget(p)
      PROVE  loop'[p].at = "idle" /\ \A q \in Procs : q # p => loop'[q] = loop[q]
  BY <1>1, <1>6 DEF Forget, Idle
<1>7. ASSUME NEW p \in Procs, NEW step, Go(p, step)
      PROVE  /\ loop'[p].at = step /\ \A q \in Procs : q # p => loop'[q] = loop[q]
  BY <1>1, <1>7 DEF Go, LoopState
<1>8. ASSUME NEW p \in Procs, ProtectUpdate(p) PROVE ClaimsInTime'
  <2>1. At(p, "claimed") /\ UNCHANGED clock
    BY <1>8 DEF ProtectUpdate, ProtectDataCompletion
  <2>2. CASE Claimed(calendar, loop[p].week, loop[p].slot)
    <3>1. job' = [job EXCEPT ![p].now = 0] /\ Go(p, "running")
      BY <1>8, <2>2, Zenon DEF ProtectUpdate, ProtectDataCompletion
    <3>2. /\ \A q \in Procs : q # p => job'[q] = job[q]
          /\ job'[p].at = job[p].at
      BY <1>1, <3>1, Zenon DEF JobState
    <3>3. loop'[p].at = "running" /\ \A q \in Procs : q # p => loop'[q] = loop[q]
      BY <1>7, <3>1
    <3>4. ClaimInTime(p)'
      BY <1>2, <2>1, <3>2, <3>3 DEF ClaimInTime, At, Doing, Deciding
    <3>5. QED  BY <2>1, <3>2, <3>3, <3>4, OnlyLoopInTime DEF OnlyLoop
  <2>3. CASE ~Claimed(calendar, loop[p].week, loop[p].slot)
    <3>1. BackToTop(p) /\ Forget(p)
      BY <1>8, <2>3, Zenon DEF ProtectUpdate, ProtectDataCompletion, BackToTop
    <3>2. QED  BY <1>5, <1>6, <2>1, <3>1
  <2>4. QED  BY <2>2, <2>3
<1>9. ASSUME NEW p \in Procs, RefuseUpdate(p) \/ PublishUpdate(p) PROVE ClaimsInTime'
  <2>1. /\ At(p, "running") /\ UNCHANGED <<clock, job>>
        /\ Go(p, "refused") \/ Go(p, "published")
    BY <1>9 DEF RefuseUpdate, Refuse, PublishUpdate, Publish, monthlyVars
  <2>2. /\ loop'[p].at \in {"refused", "published"}
        /\ \A q \in Procs : q # p => loop'[q] = loop[q]
    BY <1>7, <2>1
  <2>3. ClaimInTime(p)'
    BY <1>2, <2>1, <2>2 DEF ClaimInTime, At, Doing, Deciding
  <2>4. QED  BY <2>1, <2>2, <2>3, OnlyLoopInTime DEF OnlyLoop
<1>10. ASSUME NEW p \in Procs, CompleteUpdate(p) PROVE ClaimsInTime'
  <2>1. BackToTop(p) /\ Forget(p) /\ UNCHANGED clock
    BY <1>10, Zenon DEF CompleteUpdate, CompleteDataUpdate
  <2>2. QED  BY <1>5, <1>6, <2>1
<1>11. ASSUME NEW p \in Procs, Die(p) PROVE ClaimsInTime'
  <2>1. BackToTop(p) /\ UNCHANGED clock /\ (Forget(p) \/ (At(p, "idle") /\ loop' = loop))
    BY <1>11 DEF Die, Interrupt, vars
  <2>2. QED  BY <1>5, <1>6, <2>1 DEF At
<1>12. ASSUME NEW p \in Procs, NEW c \in Claims, ReconcileUpdate(p, c)
       PROVE  UNCHANGED <<clock, loop, job>>
  BY <1>12 DEF ReconcileUpdate, ReconcileCompletion
<1>13. ASSUME UNCHANGED <<clock, loop, job>> PROVE ClaimsInTime'
  BY <1>2, <1>13 DEF ClaimsInTime, ClaimInTime, At, Doing, Deciding
<1>14. ASSUME NEW p \in Procs, EndTick(p) \/ ReportResult(p) PROVE ClaimsInTime'
  <2>1. /\ BackToTop(p) /\ UNCHANGED <<clock, loop>>
        /\ At(p, "idle") \/ ~Doing(p, "ready")
    BY <1>14, Zenon DEF EndTick, ReportResult, vars, Free, Doing
  <2>2. QED  BY <1>2, <1>5, <2>1 DEF ClaimInTime, At
\* Every other step is monthly work of a loop that holds no claim.
<1>15. ASSUME NEW p \in Procs, UNCHANGED <<clock, loop>>, At(p, "idle") \/ ~Doing(p, "ready"),
              \A q \in Procs : q # p => job'[q] = job[q],
              \/ job'[p].at \notin {"begun", "preparing", "reconciled", "ready"}
              \/ job'[p].now = job[p].now
                 /\ job[p].at \in {"begun", "preparing", "reconciled", "ready"}
              \/ clock <= job'[p].now + MaxStall
       PROVE  ClaimsInTime'
  <2>1. At(p, "idle")
    BY <1>2, <1>15 DEF ClaimInTime
  <2>2. QED  BY <1>15, <2>1, TickInTime DEF OnlyLoop
<1>16. ASSUME NEW p \in Procs, NEW m \in Months, BeginPreparation(p, m) PROVE ClaimsInTime'
  <2>1. /\ job' = [job EXCEPT ![p].at = "preparing", ![p].month = m] /\ UNCHANGED <<clock, loop>>
        /\ Free(p, "begun")
    BY <1>16, Zenon DEF BeginPreparation, vars
  <2>2. /\ \A q \in Procs : q # p => job'[q] = job[q]
        /\ job'[p].now = job[p].now
    BY <1>1, <2>1, Zenon DEF JobState
  <2>3. QED  BY <1>15, <2>1, <2>2 DEF Free, Doing
<1>17. ASSUME NEW p \in Procs, RefusePreparation(p) \/ Register(p) PROVE ClaimsInTime'
  <2>1. /\ job' = [job EXCEPT ![p].at = "begun", ![p].month = 0] /\ UNCHANGED <<clock, loop>>
        /\ Doing(p, "preparing")
    BY <1>17, Zenon DEF RefusePreparation, Register, EndPreparation, vars
  <2>2. /\ \A q \in Procs : q # p => job'[q] = job[q]
        /\ job'[p].now = job[p].now
    BY <1>1, <2>1, Zenon DEF JobState
  <2>3. QED  BY <1>15, <2>1, <2>2 DEF Doing
<1>18. ASSUME NEW p \in Procs, BeginTick(p) PROVE ClaimsInTime'
  <2>1. /\ job' = [job EXCEPT ![p].at = "begun", ![p].now = clock] /\ UNCHANGED <<clock, loop>>
        /\ Free(p, "top")
    BY <1>18, Zenon DEF BeginTick, vars
  <2>2. /\ \A q \in Procs : q # p => job'[q] = job[q]
        /\ job'[p].now = clock
    BY <1>1, <2>1, Zenon DEF JobState
  <2>3. clock <= job'[p].now + MaxStall
    BY <1>1, <2>2, StallAssumption
  <2>4. QED  BY <1>15, <2>1, <2>2, <2>3 DEF Free
<1>19. ASSUME NEW p \in Procs, ReconcileCompleted(p) \/ ReconcileClaims(p) PROVE ClaimsInTime'
  <2>1. /\ Free(p, "begun") \/ Free(p, "reconciled")
        /\ Proceed(p, "reconciled") \/ Proceed(p, "ready")
        /\ UNCHANGED <<clock, loop>>
    BY <1>19, Zenon DEF ReconcileCompleted, ReconcileClaims, vars
  <2>2. /\ \A q \in Procs : q # p => job'[q] = job[q]
        /\ job'[p].now = job[p].now
    BY <1>1, <2>1, ProceedEffect
  <2>3. QED  BY <1>15, <2>1, <2>2 DEF Free, Doing
<1>20. ASSUME NEW p \in Procs, NEW m \in Months, NEW s \in Slots, ClaimCandidate(p, m, s)
       PROVE  ClaimsInTime'
  <2> DEFINE new == [at |-> "claimed", month |-> m, slot |-> s, now |-> 0]
  <2>1. job' = [job EXCEPT ![p] = new] /\ UNCHANGED <<clock, loop>> /\ Free(p, "ready")
    BY <1>20, Zenon DEF ClaimCandidate, vars
  <2>2. new.at = "claimed"
    OBVIOUS
  <2> HIDE DEF new
  <2>3. job'[p].at = "claimed" /\ \A q \in Procs : q # p => job'[q] = job[q]
    BY <1>1, <2>1, <2>2
  <2>4. QED  BY <1>15, <2>1, <2>3 DEF Free
<1>21. ASSUME NEW p \in Procs, Run(p) PROVE ClaimsInTime'
  <2>1. CASE ReportResult(p)
    BY <1>14, <2>1
  <2>2. CASE ~ReportResult(p)
    <3>1. /\ UNCHANGED <<clock, loop>> /\ ~Doing(p, "ready")
          /\ \E step \in {"training", "passed", "final", "receipt", "marked", "failed"} :
                Proceed(p, step)
      BY <1>21, <2>2 DEF Run, BeginRun, AlreadyCompleted, MoveToFinal, WriteReceipt,
           WriteMarker, SaveState, FailRun, vars, Doing, Writing
    <3>2. PICK step \in {"training", "passed", "final", "receipt", "marked", "failed"} :
            Proceed(p, step)
      BY <3>1
    <3>3. job'[p].at = step /\ \A q \in Procs : q # p => job'[q] = job[q]
      BY <1>1, <3>2, ProceedEffect
    <3>4. QED  BY <1>15, <3>1, <3>3
  <2>3. QED  BY <2>1, <2>2
<1>22. QED
  BY <1>3, <1>4, <1>8, <1>9, <1>10, <1>11, <1>12, <1>13, <1>14, <1>16, <1>17, <1>18, <1>19,
     <1>20, <1>21 DEF CandidateNext


(* One outcome at a time is owed. *)

\* The slots a step leaves alone or decides; nothing is claimed or fenced.
NothingOpened ==
  /\ \A w \in Weeks, s \in Slots : Slot(w, s)' = Slot(w, s) \/ Slot(w, s)'.status # "claimed"
  /\ \A p \in Procs : loop'[p] = loop[p] \/ loop'[p].at # "claimed"

LEMMA CompleteOpensNothing ==
  ASSUME Inv, NEW w \in Weeks, NEW s \in Slots, NEW ok \in BOOLEAN,
         calendar' = Complete(calendar, w, s, ok)
  PROVE  \A v \in Weeks, t \in Slots :
           \/ Slot(v, t)' = Slot(v, t)
           \/ v = w /\ t = s /\ Slot(v, t)'.status = IF ok THEN "succeeded" ELSE "failed"
<1>1. calendar \in Calendar
  BY DEF Inv, TypeOK
<1>2. CASE ~Claimed(calendar, w, s)
  BY <1>1, <1>2, CompleteEffect DEF Slot
<1>3. CASE Claimed(calendar, w, s)
  <2> DEFINE outcome == IF ok THEN "succeeded" ELSE "failed"
             decided == WithStatus(calendar[w].slots[s], outcome)
  <2>1. \E acceptance : Rewritten(calendar, calendar', w, s, decided, acceptance)
    BY <1>1, <1>3, CompleteEffect
  <2>2. decided.status = outcome
    BY DEF WithStatus
  <2> HIDE DEF decided
  <2>3. QED  BY <2>1, <2>2 DEF Rewritten, Slot
<1>4. QED  BY <1>2, <1>3

LEMMA StaleOpensNothing ==
  ASSUME Inv, NEW now \in Nat, calendar' = ReconcileStale(calendar, now, Lease)
  PROVE  \A v \in Weeks, t \in Slots :
           Slot(v, t)' = Slot(v, t) \/ Slot(v, t)'.status = "failed"
<1>1. calendar \in Calendar /\ Lease \in Nat
  BY LeaseAssumption DEF Inv, TypeOK
<1>2. \A a : WithStatus(a, "failed").status = "failed"
  BY DEF WithStatus
<1>3. QED  BY <1>1, <1>2, ReconcileStaleEffect DEF Slot

\* A completion is about the claim of its loop or of its record, published or not.
Completing(c, ok) ==
  /\ calendar' = Complete(calendar, c[1], c[2], ok)
  /\ record[c] = IF ok THEN "published" ELSE "refused"
  /\ intent' = IF ok THEN Reserve(c) ELSE intent
  /\ UNCHANGED <<clock, record, acceptedAt, month>>
  /\ \A p \in Procs : loop'[p] = loop[p] \/ loop'[p].at = "idle"

LEMMA UpdateCompletes ==
  ASSUME CandidateInv, NEW p \in Procs, CompleteUpdate(p)
  PROVE  \/ \E c \in Claims, ok \in BOOLEAN : Completing(c, ok)
         \/ /\ UNCHANGED <<clock, calendar, record, acceptedAt, month, intent>>
            /\ \A q \in Procs : loop'[q] = loop[q] \/ loop'[q].at = "idle"
<1> DEFINE c == Claim(p)  ok == At(p, "published")
<1>1. c \in Claims /\ c[1] = loop[p].week /\ c[2] = loop[p].slot
      /\ c = <<loop[p].week, loop[p].slot>>
  BY LoopTyped DEF Claim, CandidateInv, JobInv
<1>2. \A q \in Procs : loop'[q] = loop[q] \/ loop'[q].at = "idle"
  BY DEF CompleteUpdate, CompleteDataUpdate, Forget, Idle, CandidateInv, JobInv, Inv, TypeOK
<1>3. record[c] = IF ok THEN "published" ELSE "refused"
  BY <1>1 DEF CompleteUpdate, CompleteDataUpdate, CandidateInv, JobInv, Inv, LoopFacts, LoopFact, At
<1>4. UNCHANGED <<clock, record, acceptedAt, month>>
  BY DEF CompleteUpdate, CompleteDataUpdate
<1>5. ok \in BOOLEAN
  BY DEF At
<1>6. CASE CanComplete(calendar, c[1], c[2], ok)
  <2>1. calendar' = Complete(calendar, c[1], c[2], ok)
    BY <1>1, <1>6 DEF CompleteUpdate, CompleteDataUpdate
  <2>2. intent' = IF ok THEN Reserve(c) ELSE intent
    <3>1. CASE ok
      BY <1>1, <1>6, <3>1 DEF CompleteUpdate
    <3>2. CASE ~ok
      BY <3>2 DEF CompleteUpdate
    <3>3. QED  BY <3>1, <3>2
  <2> HIDE DEF c, ok
  <2>3. Completing(c, ok)
    BY <1>2, <1>3, <1>4, <2>1, <2>2 DEF Completing
  <2>4. QED  BY <1>1, <1>5, <2>3
<1>7. CASE ~CanComplete(calendar, c[1], c[2], ok)
  <2>1. calendar' = calendar
    BY <1>1, <1>7 DEF CompleteUpdate, CompleteDataUpdate
  <2>2. intent' = intent
    <3>1. CASE ok
      BY <1>1, <1>7, <3>1 DEF CompleteUpdate
    <3>2. CASE ~ok
      BY <3>2 DEF CompleteUpdate
    <3>3. QED  BY <3>1, <3>2
  <2>3. QED  BY <1>2, <1>4, <2>1, <2>2
<1>8. QED  BY <1>6, <1>7

LEMMA RecordCompletes ==
  ASSUME CandidateInv, NEW p \in Procs, NEW c \in Claims, ReconcileUpdate(p, c)
  PROVE  \E ok \in BOOLEAN : Completing(c, ok)
<1> DEFINE ok == record[c] = "published"
<1>1. record[c] = IF ok THEN "published" ELSE "refused"
  BY DEF ReconcileUpdate, ReconcileCompletion, CandidateInv, JobInv, Inv, TypeOK
<1>2. calendar' = Complete(calendar, c[1], c[2], ok)
  BY DEF ReconcileUpdate, ReconcileCompletion
<1>3. /\ intent' = IF ok THEN Reserve(c) ELSE intent
      /\ UNCHANGED <<clock, record, acceptedAt, month, loop>>
  BY DEF ReconcileUpdate, ReconcileCompletion
<1> HIDE DEF ok
<1>4. Completing(c, ok)
  BY <1>1, <1>2, <1>3 DEF Completing
<1>5. ok \in BOOLEAN
  BY DEF ok
<1>6. QED  BY <1>4, <1>5


LEMMA NothingOpenedOwed ==
  ASSUME OneOutcomeOwed, NothingOpened
  PROVE  OneOutcomeOwed'
<1>1. ASSUME NEW c \in Claims PROVE (Owes(c)' => Owes(c)) /\ (MayOwe(c)' => MayOwe(c))
  <2>1. Slot(c[1], c[2])' = Slot(c[1], c[2]) \/ Slot(c[1], c[2])'.status # "claimed"
    BY ClaimTyped DEF NothingOpened
  <2>2. Owes(c)' => Owes(c)
    BY <2>1 DEF Owes, Claimed, StatusOf, Slot
  <2>3. MayOwe(c)' => MayOwe(c)
    <3> SUFFICES ASSUME MayOwe(c)' PROVE MayOwe(c)
      OBVIOUS
    <3>1. Claimed(calendar, c[1], c[2])
      BY <2>1 DEF MayOwe, Claimed, StatusOf, Slot
    <3>2. PICK p \in Procs : At(p, "claimed")' /\ Claim(p)' = c
      BY DEF MayOwe
    <3>3. loop'[p] = loop[p]
      BY <3>2 DEF NothingOpened, At
    <3>4. At(p, "claimed") /\ Claim(p) = c
      BY <3>2, <3>3 DEF At, Claim
    <3>5. QED  BY <3>1, <3>4 DEF MayOwe
  <2>4. QED  BY <2>2, <2>3
<1>2. QED  BY <1>1 DEF OneOutcomeOwed

\* The window of a later week's claims opens when the earlier one's has closed for
\* longer than a loop stalls.
LEMMA HoldersOrdered ==
  ASSUME MaxStall <= 2, CandidateInv, ClaimsInTime, NEW p \in Procs, NEW q \in Procs,
         At(p, "claimed"), At(q, "claimed")
  PROVE  ~(loop[p].week < loop[q].week)
<1> DEFINE a == job[p].now  b == job[q].now
<1>1. a \in Nat /\ b \in Nat /\ clock \in Nat /\ b <= clock /\ MaxStall \in Nat
  BY StallAssumption DEF CandidateInv, JobInv, NowPast, Inv, TypeOK
<1>2. clock <= a + MaxStall
  BY DEF ClaimsInTime, ClaimInTime, Deciding
<1>3. WeekOf(a) = loop[p].week /\ WeekOf(b) = loop[q].week
      /\ DayPart(a) \in Window[loop[p].slot] /\ DayPart(b) \in Window[loop[q].slot]
  BY DEF ClaimsInTime, ClaimInTime
<1>4. loop[p].slot \in Slots /\ loop[q].slot \in Slots
  BY LoopTyped DEF CandidateInv, JobInv
<1>5. DayPart(a) <= 5 /\ DayPart(b) >= 1
  <2>1. \A s \in Slots : \A d \in Window[s] : d <= 5 /\ d >= 1
    BY DEF Slots, Window
  <2>2. QED  BY <1>3, <1>4, <2>1
<1> HIDE DEF a, b
<1>6. a = 7 * WeekOf(a) + DayPart(a) /\ b = 7 * WeekOf(b) + DayPart(b)
      /\ WeekOf(a) \in Nat /\ WeekOf(b) \in Nat /\ DayPart(a) \in Nat /\ DayPart(b) \in Nat
  BY <1>1 DEF WeekOf, DayPart, InstantsPerWeek
<1>7. ~(WeekOf(a) < WeekOf(b))
  BY <1>1, <1>2, <1>5, <1>6
<1>8. QED  BY <1>3, <1>7

LEMMA HoldersNear ==
  ASSUME MaxStall <= 2, CandidateInv, ClaimsInTime, NEW p \in Procs, NEW q \in Procs,
         At(p, "claimed"), At(q, "claimed")
  PROVE  loop[p].week = loop[q].week
<1>1. loop[p].week \in Nat /\ loop[q].week \in Nat
  BY LoopTyped, WeeksAssumption DEF CandidateInv, JobInv
<1>2. ~(loop[p].week < loop[q].week) /\ ~(loop[q].week < loop[p].week)
  BY HoldersOrdered
<1>3. QED  BY <1>1, <1>2

LEMMA ClaimOwed ==
  ASSUME CandidateInv, NEW p \in Procs, ClaimUpdate(p)
  PROVE  OneOutcomeOwed' /\ \A w \in Weeks, s \in Slots :
                               Slot(w, s)'.status = "succeeded" => Slot(w, s).status = "succeeded"
<1> DEFINE now == job[p].now
<1>1. PICK s \in Slots : Due(calendar, now, s) /\ calendar' = ClaimSlot(calendar, now, s)
  BY DEF ClaimUpdate, ClaimDataUpdate
<1>2. now \in Nat /\ WeekOf(now) \in Weeks /\ calendar \in Calendar
  BY ClockInWeeks DEF CandidateInv, JobInv, NowPast, Inv, TypeOK
<1>3. \A v \in Weeks, t \in Slots :
         Slot(v, t)' \in {Slot(v, t), NewClaim(now), Missed(now)}
  BY <1>1, <1>2, ClaimSlotEffect DEF Slot
<1>4. /\ NewClaim(now).status = "claimed" /\ ~NewClaim(now).fenced
      /\ Missed(now).status = "failed"
  BY DEF NewClaim, Missed
<1>5. \A c \in Claims : ~Owes(c)
  BY <1>1, ClaimTyped DEF Due, Fenced, Owes, Slot
<1>6. ASSUME NEW c \in Claims PROVE ~Owes(c)'
  <2>1. Slot(c[1], c[2])' \in {Slot(c[1], c[2]), NewClaim(now), Missed(now)}
    BY <1>3, ClaimTyped
  <2>2. ~(Slot(c[1], c[2]).status = "claimed" /\ Slot(c[1], c[2]).fenced)
    BY <1>5 DEF Owes, Claimed, StatusOf, Slot
  <2>3. QED  BY <1>4, <2>1, <2>2 DEF Owes, Claimed, StatusOf, Slot
<1>7. QED  BY <1>3, <1>4, <1>6 DEF OneOutcomeOwed

LEMMA ProtectOwed ==
  ASSUME MaxStall <= 2, CandidateInv, ClaimsInTime, OneOutcomeOwed, NEW p \in Procs,
         ProtectUpdate(p)
  PROVE  OneOutcomeOwed' /\ \A w \in Weeks, s \in Slots :
                               Slot(w, s)'.status = "succeeded" => Slot(w, s).status = "succeeded"
<1>1. PICK w \in Weeks, s \in Slots : w = loop[p].week /\ s = loop[p].slot
  BY LoopTyped DEF CandidateInv, JobInv
<1>2. At(p, "claimed") /\ calendar \in Calendar /\ loop \in [Procs -> LoopState]
  BY DEF ProtectUpdate, ProtectDataCompletion, CandidateInv, JobInv, Inv, TypeOK
<1>3. CASE ~Claimed(calendar, w, s)
  <2>1. calendar' = calendar /\ loop' = [loop EXCEPT ![p] = Idle]
    BY <1>1, <1>3, Zenon DEF ProtectUpdate, ProtectDataCompletion, Forget
  <2>2. \A q \in Procs : loop'[q] = loop[q] \/ loop'[q].at # "claimed"
    BY <1>2, <2>1 DEF Idle
  <2>3. NothingOpened
    BY <2>1, <2>2 DEF NothingOpened, Slot
  <2>4. QED  BY <2>1, <2>3, NothingOpenedOwed DEF Slot
<1>4. CASE Claimed(calendar, w, s)
  <2>1. calendar' = Protect(calendar, w, s) /\ loop' = [loop EXCEPT ![p].at = "running"]
    BY <1>1, <1>4, Zenon DEF ProtectUpdate, ProtectDataCompletion, Go
  <2>2. /\ Slot(w, s)' = WithFence(Slot(w, s))
        /\ \A v \in Weeks, t \in Slots : v # w \/ t # s => Slot(v, t)' = Slot(v, t)
    BY <1>2, <2>1, ProtectEffect DEF Rewritten, Slot
  <2>3. WithFence(Slot(w, s)).status = Slot(w, s).status
    BY DEF WithFence
  <2>4. /\ loop'[p].at = "running"
        /\ \A q \in Procs : q # p => loop'[q] = loop[q]
    BY <1>2, <2>1 DEF LoopState
  <2> DEFINE c == <<w, s>>
  <2>5. c \in Claims /\ c[1] = w /\ c[2] = s /\ Claim(p) = c
    BY <1>1 DEF Claims, Claim
  <2>6. MayOwe(c) /\ ~Owes(c)
    <3>1. MayOwe(c)
      BY <1>2, <1>4, <2>5 DEF MayOwe
    <3>2. ~Slot(w, s).fenced
      BY <1>1, <1>2 DEF CandidateInv, JobInv, Inv, LoopFacts, LoopFact
    <3>3. QED  BY <2>5, <3>1, <3>2 DEF Owes
  <2> HIDE DEF c
  <2>7. \A d \in Claims : ~Owes(d)
    BY <2>5, <2>6 DEF OneOutcomeOwed
  <2>8. ASSUME NEW d \in Claims, Owes(d)' PROVE d = c
    <3>1. d[1] \in Weeks /\ d[2] \in Slots /\ d = <<d[1], d[2]>>
      BY ClaimTyped
    <3>2. CASE d[1] # w \/ d[2] # s
      BY <2>2, <2>7, <2>8, <3>1, <3>2 DEF Owes, Claimed, StatusOf, Slot
    <3>3. CASE d[1] = w /\ d[2] = s
      BY <3>1, <3>3 DEF c
    <3>4. QED  BY <3>2, <3>3
\* Another loop still at its claim would hold the other slot of the same week.
  <2>9. ASSUME NEW d \in Claims, MayOwe(d)' PROVE d = c
    <3>1. PICK q \in Procs : At(q, "claimed")' /\ Claim(q)' = d
      BY <2>9 DEF MayOwe
    <3>2. q # p /\ loop'[q] = loop[q]
      BY <2>4, <3>1 DEF At
    <3>3. At(q, "claimed") /\ Claim(q) = d
      BY <3>1, <3>2 DEF At, Claim
    <3>4. loop[q].week = w /\ d[1] = w /\ d[2] = loop[q].slot
      BY <1>1, <1>2, <3>3, HoldersNear DEF Claim
    <3>5. Slot(d[1], d[2])'.status = "claimed"
      BY <2>9 DEF MayOwe, Claimed, StatusOf, Slot
    <3>6. CASE d[2] = s
      BY <3>4, <3>6, ClaimTyped DEF c
    <3>7. CASE d[2] # s
      <4>1. Slot(w, d[2]).status = "claimed" /\ d[2] \in Slots
        BY <2>2, <3>4, <3>5, <3>7, ClaimTyped
      <4>2. Slot(w, s).status = "claimed"
        BY <1>4 DEF Claimed, StatusOf, Slot
      <4>3. Slot(w, "tuesday").status = "claimed" /\ Slot(w, "wednesday").status = "claimed"
        BY <3>7, <4>1, <4>2 DEF Slots
      <4>4. QED  BY <4>3 DEF CandidateInv, JobInv, Inv, WeekFacts
    <3>8. QED  BY <3>6, <3>7
  <2>10. OneOutcomeOwed'
    BY <2>8, <2>9 DEF OneOutcomeOwed
  <2>11. ASSUME NEW v \in Weeks, NEW t \in Slots, Slot(v, t)'.status = "succeeded"
         PROVE  Slot(v, t).status = "succeeded"
    BY <2>2, <2>3, <2>11
  <2>12. QED  BY <2>10, <2>11
<1>5. QED  BY <1>3, <1>4


(* What each step does to the updates published and to their months. *)

KeepsSources ==
  /\ UNCHANGED acceptedAt
  /\ clock' >= clock
  /\ \A c \in Claims : record'[c] = "published" <=> record[c] = "published"
  /\ \A w \in Weeks, s \in Slots :
       Slot(w, s)'.status = "succeeded" => Slot(w, s).status = "succeeded"
  /\ \A m \in Months : /\ Reserved(m)' <=> Reserved(m)
                       /\ intent'[m].source = intent[m].source

\* A preparation is moved on, and its month stays reserved.
LEMMA PreparationKeeps ==
  ASSUME CandidateInv, ReservedFirst, NEW p \in Procs,
         \/ \E m \in Months : BeginPreparation(p, m)
         \/ RefusePreparation(p) \/ Register(p)
  PROVE  \A m \in Months : /\ Reserved(m)' <=> Reserved(m)
                           /\ intent'[m].source = intent[m].source
<1>1. intent \in [Months -> IntentEntry]
  BY DEF CandidateInv, JobInv, MonthlyTypeOK
<1>2. \E n \in Months, status \in {"preparing", "refused", "registered"} :
        intent' = [intent EXCEPT ![n].status = status] /\ Reserved(n)
  <2>1. CASE \E m \in Months : BeginPreparation(p, m)
    <3>1. PICK m \in Months : BeginPreparation(p, m)
      BY <2>1
    <3>2. Reserved(m) /\ intent' = [intent EXCEPT ![m].status = "preparing"]
      BY <3>1 DEF BeginPreparation, Reserved
    <3>3. QED  BY <3>2
  <2>2. CASE RefusePreparation(p) \/ Register(p)
    <3>1. Doing(p, "preparing")
      BY <2>2 DEF RefusePreparation, Register
    <3>2. job[p].month \in Months /\ Reserved(job[p].month)
      BY <3>1 DEF CandidateInv, JobInv, Placed, AboutMonth, JobSteps, Doing, ReservedFirst
    <3>3. \/ intent' = [intent EXCEPT ![job[p].month].status = "refused"]
          \/ intent' = [intent EXCEPT ![job[p].month].status = "registered"]
      BY <2>2, Zenon DEF RefusePreparation, Register
    <3>4. QED  BY <3>2, <3>3
  <2>3. QED  BY <2>1, <2>2
<1>3. PICK n \in Months, status \in {"preparing", "refused", "registered"} :
        intent' = [intent EXCEPT ![n].status = status] /\ Reserved(n)
  BY <1>2
<1>4. /\ intent'[n].status = status /\ intent'[n].source = intent[n].source
      /\ \A m \in Months : m # n => intent'[m] = intent[m]
  BY <1>1, <1>3, Zenon DEF IntentEntry
<1>5. status # "none"
  OBVIOUS
<1>6. QED  BY <1>3, <1>4, <1>5 DEF Reserved

LEMMA OtherStepsKeep ==
  ASSUME MaxStall <= 2, CandidateInv, ClaimsInTime, OneOutcomeOwed, ReservedFirst,
         CandidateNext
  PROVE  \/ KeepsSources /\ OneOutcomeOwed'
         \/ \E c \in Claims, ok \in BOOLEAN : Completing(c, ok)
         \/ \E p \in Procs : PublishUpdate(p)
<1> DEFINE Goal == \/ KeepsSources /\ OneOutcomeOwed'
                   \/ \E c \in Claims, ok \in BOOLEAN : Completing(c, ok)
                   \/ \E p \in Procs : PublishUpdate(p)
<1>1. clock \in Nat /\ calendar \in Calendar /\ loop \in [Procs -> LoopState]
      /\ record \in [Claims -> {"none", "published", "refused"}]
  BY HorizonAssumption DEF CandidateInv, JobInv, Inv, TypeOK
<1>2. ASSUME UNCHANGED <<clock, calendar, record, acceptedAt>>,
             \A q \in Procs : loop'[q] = loop[q] \/ loop'[q].at = "idle",
             \A m \in Months : /\ Reserved(m)' <=> Reserved(m)
                               /\ intent'[m].source = intent[m].source
      PROVE  Goal
  <2>1. KeepsSources
    BY <1>1, <1>2 DEF KeepsSources, Slot
  <2>2. NothingOpened
    BY <1>2 DEF NothingOpened, Slot
  <2>3. QED  BY <2>1, <2>2, NothingOpenedOwed
<1>3. ASSUME UNCHANGED intent
      PROVE  \A m \in Months : /\ Reserved(m)' <=> Reserved(m)
                               /\ intent'[m].source = intent[m].source
  BY <1>3 DEF Reserved
<1>4. ASSUME PassTime PROVE Goal
  <2>1. UNCHANGED <<calendar, loop, record, acceptedAt, intent>> /\ clock' = clock + 1
    BY <1>4 DEF PassTime, Advance, monthlyVars
  <2>2. KeepsSources
    BY <1>1, <1>3, <2>1 DEF KeepsSources, Slot
  <2>3. NothingOpened
    BY <2>1 DEF NothingOpened, Slot
  <2>4. QED  BY <2>2, <2>3, NothingOpenedOwed
<1>5. ASSUME NEW p \in Procs, ClaimUpdate(p) PROVE Goal
  <2>1. UNCHANGED <<clock, record, acceptedAt, intent>>
    BY <1>5 DEF ClaimUpdate, ClaimDataUpdate, monthlyVars
  <2>2. QED  BY <1>1, <1>3, <1>5, <2>1, ClaimOwed DEF KeepsSources
<1>6. ASSUME NEW p \in Procs, ProtectUpdate(p) PROVE Goal
  <2>1. UNCHANGED <<clock, record, acceptedAt, intent>>
    BY <1>6 DEF ProtectUpdate, ProtectDataCompletion
  <2>2. QED  BY <1>1, <1>3, <1>6, <2>1, ProtectOwed DEF KeepsSources
<1>7. ASSUME NEW p \in Procs, RefuseUpdate(p) PROVE Goal
  <2> DEFINE c == <<loop[p].week, loop[p].slot>>
  <2>1. /\ record' = [record EXCEPT ![c] = "refused"] /\ At(p, "running")
        /\ loop' = [loop EXCEPT ![p].at = "refused"]
        /\ UNCHANGED <<clock, calendar, acceptedAt, intent>>
    BY <1>7, Zenon DEF RefuseUpdate, Refuse, Go, monthlyVars
  <2>2. c \in Claims /\ record[c] = "none"
    BY <2>1, LoopTyped DEF CandidateInv, JobInv, Inv, LoopFacts, LoopFact
  <2> HIDE DEF c
  <2>3. \A d \in Claims : record'[d] = "published" <=> record[d] = "published"
    BY <1>1, <2>1, <2>2
  <2>4. \A q \in Procs : loop'[q] = loop[q] \/ loop'[q].at # "claimed"
    BY <1>1, <2>1 DEF LoopState
  <2>5. KeepsSources
    BY <1>1, <1>3, <2>1, <2>3 DEF KeepsSources, Slot
  <2>6. NothingOpened
    BY <2>1, <2>4 DEF NothingOpened, Slot
  <2>7. QED  BY <2>5, <2>6, NothingOpenedOwed
<1>8. ASSUME NEW p \in Procs, CompleteUpdate(p) PROVE Goal
  <2>1. CASE \E c \in Claims, ok \in BOOLEAN : Completing(c, ok)
    BY <2>1
  <2>2. CASE ~ \E c \in Claims, ok \in BOOLEAN : Completing(c, ok)
    <3>1. /\ UNCHANGED <<clock, calendar, record, acceptedAt, month, intent>>
          /\ \A q \in Procs : loop'[q] = loop[q] \/ loop'[q].at = "idle"
      BY <1>8, <2>2, UpdateCompletes
    <3>2. QED  BY <1>2, <1>3, <3>1
  <2>3. QED  BY <2>1, <2>2
<1>9. ASSUME NEW p \in Procs, NEW c \in Claims, ReconcileUpdate(p, c) PROVE Goal
  BY <1>9, RecordCompletes
<1>10. ASSUME NEW p \in Procs, ReconcileClaims(p) PROVE Goal
  <2>1. /\ calendar' = ReconcileStale(calendar, job[p].now, Lease)
        /\ UNCHANGED <<clock, loop, record, acceptedAt, intent>>
    BY <1>10 DEF ReconcileClaims
  <2>2. job[p].now \in Nat
    BY <1>1 DEF CandidateInv, JobInv, NowPast
  <2>3. \A v \in Weeks, t \in Slots : Slot(v, t)' = Slot(v, t) \/ Slot(v, t)'.status = "failed"
    BY <2>1, <2>2, StaleOpensNothing DEF CandidateInv, JobInv
  <2>4. KeepsSources
    BY <1>1, <1>3, <2>1, <2>3 DEF KeepsSources
  <2>5. NothingOpened
    BY <2>1, <2>3 DEF NothingOpened
  <2>6. QED  BY <2>4, <2>5, NothingOpenedOwed
<1>11. ASSUME NEW p \in Procs, Die(p) PROVE Goal
  <2>1. /\ UNCHANGED <<clock, calendar, record, acceptedAt, intent>>
        /\ loop' = loop \/ loop' = [loop EXCEPT ![p] = Idle]
    BY <1>11 DEF Die, vars, Interrupt, Forget
  <2>2. \A q \in Procs : loop'[q] = loop[q] \/ loop'[q].at = "idle"
    BY <1>1, <2>1 DEF Idle
  <2>3. QED  BY <1>2, <1>3, <2>1, <2>2
<1>12. ASSUME NEW p \in Procs,
              \/ \E m \in Months : BeginPreparation(p, m)
              \/ RefusePreparation(p) \/ Register(p)
       PROVE  Goal
  <2>1. UNCHANGED <<clock, calendar, loop, record, acceptedAt>>
    BY <1>12 DEF BeginPreparation, RefusePreparation, Register, vars
  <2>2. QED  BY <1>2, <1>12, <2>1, PreparationKeeps
<1>13. ASSUME NEW p \in Procs,
              \/ BeginTick(p) \/ ReconcileCompleted(p) \/ EndTick(p)
              \/ \E m \in Months, s \in Slots : ClaimCandidate(p, m, s)
       PROVE  Goal
  <2>1. UNCHANGED <<clock, calendar, loop, record, acceptedAt, intent>>
    BY <1>13 DEF BeginTick, ReconcileCompleted, EndTick, ClaimCandidate, vars
  <2>2. QED  BY <1>2, <1>3, <2>1
<1>14. ASSUME NEW p \in Procs, Run(p) PROVE Goal
  <2>1. UNCHANGED <<clock, calendar, loop, record, acceptedAt, intent>>
    BY <1>14 DEF Run, BeginRun, AlreadyCompleted, MoveToFinal, WriteReceipt, WriteMarker,
                 SaveState, FailRun, ReportResult, vars
  <2>2. QED  BY <1>2, <1>3, <2>1
<1>15. ASSUME NEW p \in Procs, PublishUpdate(p) PROVE Goal
  BY <1>15
<1> HIDE DEF Goal
<1>16. Goal
  BY <1>4, <1>5, <1>6, <1>7, <1>8, <1>9, <1>10, <1>11, <1>12, <1>13, <1>14, <1>15
     DEF CandidateNext
<1>17. QED  BY <1>16 DEF Goal


\* A month is registered from its reservation, and keeps the source it has.
LEMMA RegisteredStep ==
  ASSUME CandidateInv, ReservedFirst, CandidateNext, NEW m \in Months, Registered(m)'
  PROVE  \/ Registered(m) /\ month'[m].source = month[m].source
         \/ Reserved(m) /\ month'[m].source = intent[m].source
<1> DEFINE Goal == \/ Registered(m) /\ month'[m].source = month[m].source
                   \/ Reserved(m) /\ month'[m].source = intent[m].source
<1>1. EntriesStep
  BY MonthStep
<1>2. /\ month \in [Months -> MonthEntry] /\ job \in [Procs -> JobState]
      /\ EntryFacts(month[m], disk[m])
  BY DEF CandidateInv, JobInv, MonthlyTypeOK, MonthFacts
<1>3. CASE Registered(m)
  BY <1>1, <1>3 DEF EntriesStep, EntryStep, Registered
<1>4. ASSUME ~Registered(m), month'[m] = month[m] PROVE FALSE
  BY <1>4 DEF Registered
<1>5. CASE ~Registered(m)
  <2>1. ASSUME NEW p \in Procs, Register(p) PROVE Goal
    <3> DEFINE n == job[p].month
               new == [NoMonth EXCEPT !.status = "pending", !.source = intent[n].source]
    <3>1. /\ Doing(p, "preparing")
          /\ month' = IF Registered(n) THEN month ELSE [month EXCEPT ![n] = new]
      BY <2>1, Zenon DEF Register
    <3>2. n \in Months /\ Reserved(n)
      BY <3>1 DEF CandidateInv, JobInv, Placed, AboutMonth, JobSteps, Doing, ReservedFirst
    <3>3. new.source = intent[n].source
      BY DEF NoMonth
    <3> HIDE DEF n, new
    <3>4. CASE m = n
      BY <1>2, <1>4, <1>5, <3>1, <3>2, <3>3, <3>4
    <3>5. CASE m # n
      BY <1>2, <1>4, <1>5, <3>1, <3>2, <3>5
    <3>6. QED  BY <3>4, <3>5
  <2>2. ASSUME NEW p \in Procs, ReconcileCompleted(p) PROVE Goal
    <3>1. month'[m] = month[m]
      BY <1>5, <2>2 DEF ReconcileCompleted, HasReceipt
    <3>2. QED  BY <1>4, <1>5, <3>1
  <2>3. ASSUME NEW p \in Procs, ReconcileClaims(p) PROVE Goal
    <3>1. month'[m] = Expired(month[m], job[p].now)
      BY <2>3 DEF ReconcileClaims
    <3>2. {s \in Slots : StaleRun(month[m], s, job[p].now)} = {}
      BY <1>2, <1>5 DEF EntryFacts, Registered, StaleRun, Running
    <3>3. month'[m] = month[m]
      BY <3>1, <3>2 DEF Expired
    <3>4. QED  BY <1>4, <1>5, <3>3
  <2>4. ASSUME NEW p \in Procs, NEW n \in Months, NEW s \in Slots, ClaimCandidate(p, n, s)
        PROVE  Goal
    <3>1. /\ month' = [month EXCEPT ![n] = ClaimedEntry(month[n], s, job[p].now)]
          /\ Registered(n)
      BY <2>4, Zenon DEF ClaimCandidate, CandidateDue, AnchoredAlone
    <3>2. month'[m] = month[m]
      BY <1>2, <1>5, <3>1
    <3>3. QED  BY <1>4, <1>5, <3>2
  <2>5. ASSUME NEW p \in Procs, ReportResult(p) PROVE Goal
    <3> DEFINE n == job[p].month
               new == CompleteRun(month[n], job[p].slot, Doing(p, "passed"), disk[n].by)
    <3>1. /\ job[p].at \in {"passed", "failed"}
          /\ month' = IF Running(month[n], job[p].slot)
                        THEN [month EXCEPT ![n] = new] ELSE month
      BY <2>5, Zenon DEF ReportResult
    <3>2. n \in Months /\ job[p].slot \in Slots
      BY <1>2, <3>1 DEF JobState, CandidateInv, JobInv, Placed, AboutMonth, JobSteps
    <3> HIDE DEF n, new
    <3>3. CASE m = n
      <4>1. ~Running(month[n], job[p].slot)
        BY <1>2, <1>5, <3>2, <3>3 DEF EntryFacts, Registered, Running
      <4>2. QED  BY <1>4, <1>5, <3>1, <4>1
    <3>4. CASE m # n
      BY <1>2, <1>4, <1>5, <3>1, <3>4
    <3>5. QED  BY <3>3, <3>4
  <2>6. ASSUME NEW p \in Procs,
               \/ ClaimUpdate(p) \/ ProtectUpdate(p) \/ RefuseUpdate(p) \/ PublishUpdate(p)
               \/ CompleteUpdate(p) \/ \E c \in Claims : ReconcileUpdate(p, c)
               \/ \E n \in Months : BeginPreparation(p, n)
               \/ RefusePreparation(p) \/ BeginTick(p) \/ EndTick(p) \/ Die(p)
        PROVE  UNCHANGED month
    BY <2>6, Zenon DEF ClaimUpdate, ProtectUpdate, RefuseUpdate, PublishUpdate, CompleteUpdate,
         ReconcileUpdate, BeginPreparation, RefusePreparation, BeginTick, EndTick, Die, monthlyVars
  <2>7. ASSUME NEW p \in Procs, Run(p), ~ReportResult(p) PROVE UNCHANGED month
    BY <2>7, Zenon DEF Run, BeginRun, AlreadyCompleted, MoveToFinal, WriteReceipt, WriteMarker,
         SaveState, FailRun
  <2>8. PassTime => UNCHANGED month
    BY DEF PassTime, monthlyVars
  <2>9. ASSUME UNCHANGED month PROVE Goal
    BY <1>4, <1>5, <2>9
  <2> HIDE DEF Goal
  <2>10. Goal
    BY <2>1, <2>2, <2>3, <2>4, <2>5, <2>6, <2>7, <2>8, <2>9 DEF CandidateNext
  <2>11. QED  BY <2>10 DEF Goal
<1>6. QED  BY <1>3, <1>5

\* A loop that prepares a month prepared it before, or begins with a reserved one.
LEMMA PreparingStep ==
  ASSUME CandidateInv, ReservedFirst, CandidateNext, NEW p \in Procs, Doing(p, "preparing")'
  PROVE  Reserved(job'[p].month)
<1> DEFINE Goal == Reserved(job'[p].month)
<1>1. job \in [Procs -> JobState] /\ \A q \in Procs : Doing(q, "preparing") => Reserved(job[q].month)
  BY DEF CandidateInv, JobInv, MonthlyTypeOK, ReservedFirst
<1>2. ASSUME job'[p].at = job[p].at, job'[p].month = job[p].month PROVE Goal
  BY <1>1, <1>2 DEF Doing
<1>3. ASSUME UNCHANGED job PROVE Goal
  BY <1>2, <1>3
<1>4. ASSUME NEW q \in Procs, \A o \in Procs : o # q => job'[o] = job[o],
             \/ job'[q].at # "preparing"
             \/ job'[q].at = job[q].at /\ job'[q].month = job[q].month
      PROVE  Goal
  <2>1. CASE q = p
    BY <1>2, <1>4, <2>1 DEF Doing
  <2>2. CASE q # p
    BY <1>2, <1>4, <2>2
  <2>3. QED  BY <2>1, <2>2
<1>5. PassTime \/ (\E q \in Procs : \/ ClaimUpdate(q) \/ RefuseUpdate(q) \/ PublishUpdate(q)
                                    \/ \E c \in Claims : ReconcileUpdate(q, c))
        => UNCHANGED job
  BY Zenon DEF PassTime, ClaimUpdate, RefuseUpdate, PublishUpdate, ReconcileUpdate, monthlyVars
<1>6. ASSUME NEW q \in Procs, BackToTop(q) PROVE Goal
  BY <1>1, <1>4, <1>6, TopEffect
<1>7. ASSUME NEW q \in Procs,
             CompleteUpdate(q) \/ EndTick(q) \/ ReportResult(q) \/ Die(q)
      PROVE  Goal
  <2>1. BackToTop(q)
    BY <1>7, Zenon DEF CompleteUpdate, EndTick, ReportResult, Die
  <2>2. QED  BY <1>6, <2>1
<1>8. ASSUME NEW q \in Procs, ProtectUpdate(q) PROVE Goal
  <2>1. job' = [job EXCEPT ![q].now = 0] \/ BackToTop(q)
    BY <1>8, Zenon DEF ProtectUpdate, BackToTop
  <2>2. CASE job' = [job EXCEPT ![q].now = 0]
    <3>1. /\ \A o \in Procs : o # q => job'[o] = job[o]
          /\ job'[q].at = job[q].at /\ job'[q].month = job[q].month
      BY <1>1, <2>2, Zenon DEF JobState
    <3>2. QED  BY <1>4, <3>1
  <2>3. QED  BY <1>6, <2>1, <2>2
<1>9. ASSUME NEW q \in Procs, NEW m \in Months, BeginPreparation(q, m) PROVE Goal
  <2>1. job' = [job EXCEPT ![q].at = "preparing", ![q].month = m] /\ Reserved(m)
    BY <1>9, Zenon DEF BeginPreparation, Reserved
  <2>2. /\ \A o \in Procs : o # q => job'[o] = job[o]
        /\ job'[q].month = m
    BY <1>1, <2>1, Zenon DEF JobState
  <2>3. CASE q = p
    BY <2>1, <2>2, <2>3
  <2>4. CASE q # p
    BY <1>2, <2>2, <2>4
  <2>5. QED  BY <2>3, <2>4
<1>10. ASSUME NEW q \in Procs, RefusePreparation(q) \/ Register(q) \/ BeginTick(q) PROVE Goal
  <2>1. \/ job' = [job EXCEPT ![q].at = "begun", ![q].month = 0]
        \/ job' = [job EXCEPT ![q].at = "begun", ![q].now = clock]
    BY <1>10, Zenon DEF RefusePreparation, Register, EndPreparation, BeginTick
  <2>2. job'[q].at = "begun" /\ \A o \in Procs : o # q => job'[o] = job[o]
    <3>1. CASE job' = [job EXCEPT ![q].at = "begun", ![q].month = 0]
      BY <1>1, <3>1, Zenon DEF JobState
    <3>2. CASE job' = [job EXCEPT ![q].at = "begun", ![q].now = clock]
      BY <1>1, <3>2, Zenon DEF JobState
    <3>3. QED  BY <2>1, <3>1, <3>2
  <2>3. QED  BY <1>4, <2>2
<1>11. ASSUME NEW q \in Procs, NEW m \in Months, NEW s \in Slots, ClaimCandidate(q, m, s)
       PROVE  Goal
  <2> DEFINE new == [at |-> "claimed", month |-> m, slot |-> s, now |-> 0]
  <2>1. job' = [job EXCEPT ![q] = new]
    BY <1>11, Zenon DEF ClaimCandidate
  <2>2. new.at = "claimed"
    OBVIOUS
  <2> HIDE DEF new
  <2>3. job'[q].at = "claimed" /\ \A o \in Procs : o # q => job'[o] = job[o]
    BY <1>1, <2>1, <2>2
  <2>4. QED  BY <1>4, <2>3
<1>12. ASSUME NEW q \in Procs, NEW step \in JobSteps \ {"preparing"}, Proceed(q, step)
       PROVE  Goal
  <2>1. step # "preparing" /\ step \in JobSteps
    BY <1>12
  <2>2. QED  BY <1>1, <1>4, <1>12, <2>1, ProceedEffect
<1>13. ASSUME NEW q \in Procs, ReconcileCompleted(q) \/ ReconcileClaims(q) PROVE Goal
  <2>1. Proceed(q, "reconciled") \/ Proceed(q, "ready")
    BY <1>13, Zenon DEF ReconcileCompleted, ReconcileClaims
  <2>2. QED  BY <1>12, <2>1 DEF JobSteps
<1>14. ASSUME NEW q \in Procs, Run(q), ~ReportResult(q) PROVE Goal
  <2>1. \E step \in {"training", "passed", "final", "receipt", "marked", "failed"} :
          Proceed(q, step)
    BY <1>14, Zenon DEF Run, BeginRun, AlreadyCompleted, MoveToFinal, WriteReceipt, WriteMarker,
         SaveState, FailRun
  <2>2. QED  BY <1>12, <2>1 DEF JobSteps
<1> HIDE DEF Goal
<1>15. Goal
  BY <1>3, <1>5, <1>7, <1>8, <1>9, <1>10, <1>11, <1>13, <1>14 DEF CandidateNext
<1>16. QED  BY <1>15 DEF Goal


\* The source of month m is the first of the updates published in it.
FirstOf(m) ==
  LET source == intent[m].source
  IN  /\ m > Promotion
      /\ source \in Claims
      /\ record[source] = "published"
      /\ MonthOf(acceptedAt[source]) = m
      /\ \A c \in Claims : record[c] = "published" /\ MonthOf(acceptedAt[c]) = m =>
           acceptedAt[source] <= acceptedAt[c]

\* What every step does to the publications, the reservations and the results.
SourceStep ==
  /\ clock' >= clock
  /\ \A c \in Claims :
       /\ acceptedAt'[c] \in {acceptedAt[c], clock}
       /\ record[c] = "published" => /\ record'[c] = "published"
                                     /\ acceptedAt'[c] = acceptedAt[c]
       /\ record'[c] = "published" => record[c] = "published" \/ acceptedAt'[c] = clock
  /\ \A m \in Months :
       /\ Reserved(m) => Reserved(m)' /\ intent'[m].source = intent[m].source
       /\ Reserved(m)' => Reserved(m) \/ FirstOf(m)'
  /\ \A c \in Claims :
       Slot(c[1], c[2])'.status = "succeeded" =>
         \/ Slot(c[1], c[2]).status = "succeeded"
         \/ \A m \in Months : MonthOf(acceptedAt'[c]) = m /\ m > Promotion => Reserved(m)'

LEMMA SourceStepKeeps ==
  ASSUME SourceInv, CandidateNext, SourceStep, CandidateInv'
  PROVE  ReservedFirst' /\ MonthFromFirstUpdate'
<1>1. /\ acceptedAt \in [Claims -> 0 .. Horizon] /\ clock \in Nat /\ clock' \in Nat
      /\ \A c \in Claims : acceptedAt[c] <= clock
  BY HorizonAssumption DEF SourceInv, CandidateInv, JobInv, MonthlyTypeOK, Inv, TypeOK, ReservedFirst
<1>2. ASSUME NEW m \in Months, Reserved(m)
      PROVE  /\ FirstOf(m)
             /\ Registered(m) => month[m].source = intent[m].source
  BY <1>2 DEF SourceInv, MonthFromFirstUpdate, ReservedFirst, Reserved, FirstOf
<1>3. ASSUME NEW m \in Months, Reserved(m)' PROVE FirstOf(m)'
  <2>1. CASE Reserved(m)
    <3> DEFINE src == intent[m].source
    <3>1. /\ m > Promotion /\ src \in Claims /\ record[src] = "published"
          /\ MonthOf(acceptedAt[src]) = m
          /\ \A c \in Claims : record[c] = "published" /\ MonthOf(acceptedAt[c]) = m =>
               acceptedAt[src] <= acceptedAt[c]
      BY <1>2, <2>1 DEF FirstOf
    <3>2. intent'[m].source = src
      BY <2>1 DEF SourceStep
    <3> HIDE DEF src
    <3>3. record'[src] = "published" /\ acceptedAt'[src] = acceptedAt[src]
      BY <3>1 DEF SourceStep
    <3>4. MonthOf(acceptedAt'[src]) = m
      BY <3>1, <3>3
    <3>5. ASSUME NEW c \in Claims, record'[c] = "published", MonthOf(acceptedAt'[c]) = m
          PROVE  acceptedAt'[src] <= acceptedAt'[c]
      <4>1. CASE record[c] = "published"
        <5>1. acceptedAt'[c] = acceptedAt[c]
          BY <4>1 DEF SourceStep
        <5>2. QED  BY <3>1, <3>3, <3>5, <4>1, <5>1
      <4>2. CASE record[c] # "published"
        <5>1. acceptedAt'[c] = clock
          BY <3>5, <4>2 DEF SourceStep
        <5>2. QED  BY <1>1, <3>1, <3>3, <5>1
      <4>3. QED  BY <4>1, <4>2
    <3>6. QED  BY <3>1, <3>2, <3>3, <3>4, <3>5 DEF FirstOf
  <2>2. CASE ~Reserved(m)
    BY <1>3, <2>2 DEF SourceStep
  <2>3. QED  BY <2>1, <2>2
<1>4. ASSUME NEW m \in Months, Registered(m)'
      PROVE  Reserved(m)' /\ month'[m].source = intent'[m].source
  <2>1. Registered(m) => Reserved(m)
    BY DEF SourceInv, ReservedFirst
  <2>2. Reserved(m) => Reserved(m)' /\ intent'[m].source = intent[m].source
    BY DEF SourceStep
  <2>3. \/ Registered(m) /\ month'[m].source = month[m].source
        \/ Reserved(m) /\ month'[m].source = intent[m].source
    BY <1>4, RegisteredStep DEF SourceInv
  <2>4. QED  BY <1>2, <2>1, <2>2, <2>3
<1>5. ASSUME NEW p \in Procs, Doing(p, "preparing")' PROVE Reserved(job[p].month)'
  <2>1. PICK m \in Months : m = job'[p].month
    BY <1>5 DEF CandidateInv, JobInv, Placed, AboutMonth, JobSteps, Doing
  <2>2. Reserved(m)
    BY <1>5, <2>1, PreparingStep DEF SourceInv
  <2>3. Reserved(m)'
    BY <2>2 DEF SourceStep
  <2>4. QED  BY <2>1, <2>3 DEF Reserved
<1>6. ASSUME NEW c \in Claims PROVE acceptedAt'[c] <= clock'
  <2>1. acceptedAt'[c] \in {acceptedAt[c], clock} /\ clock' >= clock
    BY DEF SourceStep
  <2>2. acceptedAt[c] \in Nat
    BY <1>1
  <2>3. QED  BY <1>1, <2>1, <2>2
<1>7. ReservedFirst'
  <2>1. ASSUME NEW m \in Months
        PROVE  /\ Registered(m)' => Reserved(m)'
               /\ Reserved(m)' => intent'[m].source \in Claims
    BY <1>3, <1>4 DEF FirstOf
  <2>2. QED  BY <1>5, <1>6, <2>1 DEF ReservedFirst
<1>8. ASSUME NEW c \in Claims, Slot(c[1], c[2])'.status = "succeeded",
             NEW m \in Months, MonthOf(acceptedAt'[c]) = m, m > Promotion
      PROVE  Reserved(m)'
  <2>1. CASE Slot(c[1], c[2]).status = "succeeded"
    <3>1. record[c] = "published"
      BY <2>1, ClaimTyped DEF SourceInv, CandidateInv, JobInv, Inv, ClaimFacts, ClaimFact
    <3>2. acceptedAt'[c] = acceptedAt[c]
      BY <3>1 DEF SourceStep
    <3>3. Reserved(m)
      BY <1>8, <2>1, <3>2 DEF SourceInv, MonthFromFirstUpdate, Reserved, StatusOf, Slot
    <3>4. QED  BY <3>3 DEF SourceStep
  <2>2. CASE Slot(c[1], c[2]).status # "succeeded"
    BY <1>8, <2>2 DEF SourceStep
  <2>3. QED  BY <2>1, <2>2
<1>9. ASSUME NEW c \in Claims, StatusOf(calendar, c[1], c[2])' = "succeeded",
             MonthOf(acceptedAt[c])' > Promotion
      PROVE  intent'[MonthOf(acceptedAt'[c])].status # "none"
  <2>1. MonthOf(acceptedAt'[c]) \in Months /\ MonthOf(acceptedAt[c])' = MonthOf(acceptedAt'[c])
    BY MonthsAreNumbers DEF CandidateInv, JobInv, MonthlyTypeOK, MonthOf
  <2>2. PICK m \in Months : m = MonthOf(acceptedAt'[c])
    BY <2>1
  <2>3. Reserved(m)'
    BY <1>8, <1>9, <2>1, <2>2 DEF StatusOf, Slot
  <2>4. QED  BY <2>2, <2>3 DEF Reserved
<1>10. ASSUME NEW m \in Months, intent'[m].status # "none"
       PROVE  /\ m > Promotion
              /\ record'[intent'[m].source] = "published"
              /\ MonthOf(acceptedAt'[intent'[m].source]) = m
              /\ \A c \in Claims : record'[c] = "published" /\ MonthOf(acceptedAt'[c]) = m =>
                   acceptedAt'[intent'[m].source] <= acceptedAt'[c]
              /\ Registered(m)' => month'[m].source = intent'[m].source
  BY <1>3, <1>4, <1>10 DEF FirstOf, Reserved
<1>11. MonthFromFirstUpdate'
  BY <1>9, <1>10 DEF MonthFromFirstUpdate
<1>12. QED  BY <1>7, <1>11

LEMMA KeepingStep ==
  ASSUME SourceInv, KeepsSources
  PROVE  SourceStep
<1>1. \A c \in Claims : acceptedAt'[c] = acceptedAt[c]
  BY DEF KeepsSources
<1>2. QED  BY <1>1, ClaimTyped DEF SourceStep, KeepsSources

LEMMA PublishStep ==
  ASSUME SourceInv, NEW p \in Procs, PublishUpdate(p)
  PROVE  SourceStep /\ OneOutcomeOwed'
<1> DEFINE c == Claim(p)
<1>1. /\ record' = [record EXCEPT ![c] = "published"] /\ At(p, "running")
      /\ loop' = [loop EXCEPT ![p].at = "published"]
      /\ acceptedAt' = [acceptedAt EXCEPT ![c] = clock]
      /\ UNCHANGED <<clock, calendar, intent>>
  BY Zenon DEF PublishUpdate, Publish, Go, Claim
<1>2. /\ acceptedAt \in [Claims -> 0 .. Horizon] /\ clock \in Nat
      /\ loop \in [Procs -> LoopState]
      /\ record \in [Claims -> {"none", "published", "refused"}]
  BY HorizonAssumption DEF SourceInv, CandidateInv, JobInv, MonthlyTypeOK, Inv, TypeOK
<1>3. c \in Claims /\ record[c] = "none"
  BY <1>1, LoopTyped DEF SourceInv, CandidateInv, JobInv, Inv, LoopFacts, LoopFact, Claim
<1> HIDE DEF c
<1>4. ASSUME NEW d \in Claims
      PROVE  /\ acceptedAt'[d] = IF d = c THEN clock ELSE acceptedAt[d]
             /\ record'[d] = IF d = c THEN "published" ELSE record[d]
  BY <1>1, <1>2
<1>5. \A m \in Months : Reserved(m)' = Reserved(m) /\ intent'[m].source = intent[m].source
  BY <1>1 DEF Reserved
<1>6. SourceStep
  <2>1. \A d \in Claims : Slot(d[1], d[2])'.status = Slot(d[1], d[2]).status
    BY <1>1 DEF Slot
  <2>2. clock' >= clock
    BY <1>1, <1>2
  <2>3. QED  BY <1>3, <1>4, <1>5, <2>1, <2>2 DEF SourceStep
<1>7. \A q \in Procs : loop'[q] = loop[q] \/ loop'[q].at # "claimed"
  BY <1>1, <1>2 DEF LoopState
<1>8. NothingOpened
  BY <1>1, <1>7 DEF NothingOpened, Slot
<1>9. QED  BY <1>6, <1>8, NothingOpenedOwed DEF SourceInv


\* A completion reserves its month, and only one outcome is owed: every update
\* published before it in the month has been completed, and has reserved it.
LEMMA CompletingStep ==
  ASSUME SourceInv, NEW c \in Claims, NEW ok \in BOOLEAN, Completing(c, ok)
  PROVE  SourceStep /\ OneOutcomeOwed'
<1>1. c[1] \in Weeks /\ c[2] \in Slots /\ c = <<c[1], c[2]>>
  BY ClaimTyped
<1>2. /\ UNCHANGED <<clock, record, acceptedAt, month>>
      /\ record[c] = IF ok THEN "published" ELSE "refused"
      /\ intent' = IF ok THEN Reserve(c) ELSE intent
      /\ \A p \in Procs : loop'[p] = loop[p] \/ loop'[p].at = "idle"
      /\ clock \in Nat
      /\ acceptedAt \in [Claims -> 0 .. Horizon]
      /\ intent \in [Months -> IntentEntry]
  BY HorizonAssumption DEF Completing, SourceInv, CandidateInv, JobInv, MonthlyTypeOK, Inv, TypeOK
<1>3. \A v \in Weeks, t \in Slots :
         \/ Slot(v, t)' = Slot(v, t)
         \/ v = c[1] /\ t = c[2] /\ Slot(v, t)'.status = IF ok THEN "succeeded" ELSE "failed"
  BY <1>1, CompleteOpensNothing DEF Completing, SourceInv, CandidateInv, JobInv
<1>4. OneOutcomeOwed'
  <2>1. NothingOpened
    BY <1>2, <1>3 DEF NothingOpened
  <2>2. QED  BY <2>1, NothingOpenedOwed DEF SourceInv
<1>5. PICK n \in Months : n = MonthOf(acceptedAt[c])
  BY <1>2, MonthsAreNumbers
<1>6. ok => \/ intent' = intent /\ ~(n > Promotion /\ ~Registered(n) /\ ~Reserved(n))
            \/ /\ intent' = [intent EXCEPT ![n] = [status |-> "waiting", source |-> c]]
               /\ n > Promotion /\ ~Registered(n) /\ ~Reserved(n)
  BY <1>2, <1>5 DEF Reserve, Reserved
<1>7. Registered(n) => Reserved(n)
  BY <1>5 DEF SourceInv, ReservedFirst
\* No update of the month but this one is published and still to be completed.
<1>8. ASSUME ok, n > Promotion, ~Reserved(n),
             NEW d \in Claims, record[d] = "published", MonthOf(acceptedAt[d]) = n
      PROVE  d = c
  <2>1. ASSUME NEW e \in Claims, record[e] = "published", MonthOf(acceptedAt[e]) = n
        PROVE  Owes(e)
    <3>1. e[1] \in Weeks /\ e[2] \in Slots /\ e = <<e[1], e[2]>>
      BY ClaimTyped
    <3>2. Slot(e[1], e[2]).status \in {"claimed", "succeeded"} /\ Slot(e[1], e[2]).fenced
      BY <2>1, <3>1 DEF SourceInv, CandidateInv, JobInv, Inv, ClaimFacts, ClaimFact
    <3>3. Slot(e[1], e[2]).status # "succeeded"
      BY <1>8, <2>1 DEF SourceInv, MonthFromFirstUpdate, Reserved, StatusOf, Slot
    <3>4. QED  BY <3>2, <3>3 DEF Owes, Claimed, StatusOf, Slot
  <2>2. Owes(d)
    BY <1>8, <2>1
  <2>3. Owes(c)
    BY <1>2, <1>5, <1>8, <2>1
  <2>4. QED  BY <2>2, <2>3 DEF SourceInv, OneOutcomeOwed
<1>9. CASE intent' = intent
  <2>1. \A m \in Months : Reserved(m)' = Reserved(m) /\ intent'[m].source = intent[m].source
    BY <1>9 DEF Reserved
  <2>2. ASSUME NEW d \in Claims, Slot(d[1], d[2])'.status = "succeeded"
        PROVE  \/ Slot(d[1], d[2]).status = "succeeded"
               \/ \A m \in Months : MonthOf(acceptedAt'[d]) = m /\ m > Promotion => Reserved(m)'
    <3>1. CASE Slot(d[1], d[2])' = Slot(d[1], d[2])
      BY <2>2, <3>1
    <3>2. CASE Slot(d[1], d[2])' # Slot(d[1], d[2])
      <4>1. d = c /\ ok
        BY <1>1, <1>3, <2>2, <3>2, ClaimTyped
      <4>2. ASSUME n > Promotion PROVE Reserved(n)'
        <5>1. n > Promotion => Registered(n) \/ Reserved(n)
          <6>1. CASE intent' = [intent EXCEPT ![n] = [status |-> "waiting", source |-> c]]
            BY <1>2, <1>5, <1>9, <6>1 DEF Reserved
          <6>2. QED  BY <1>6, <4>1, <6>1
        <5>2. Reserved(n)
          BY <1>7, <4>2, <5>1
        <5>3. QED  BY <1>5, <2>1, <5>2
      <4>3. QED  BY <1>2, <1>5, <4>1, <4>2
    <3>3. QED  BY <3>1, <3>2
  <2>3. QED  BY <1>2, <1>4, <2>1, <2>2 DEF SourceStep
<1>10. CASE intent' # intent
  <2>1. ok
    BY <1>2, <1>10
  <2>2. /\ intent' = [intent EXCEPT ![n] = [status |-> "waiting", source |-> c]]
        /\ n > Promotion /\ ~Registered(n) /\ ~Reserved(n)
    BY <1>6, <1>10, <2>1
  <2>3. /\ intent'[n].status = "waiting" /\ intent'[n].source = c
        /\ \A m \in Months : m # n => intent'[m] = intent[m]
    BY <1>2, <1>5, <2>2
  <2>4. Reserved(n)'
    BY <1>5, <2>3 DEF Reserved
  <2>5. FirstOf(n)'
    <3>1. record'[c] = "published" /\ MonthOf(acceptedAt'[c]) = n
      BY <1>2, <1>5, <2>1
    <3>2. ASSUME NEW d \in Claims, record'[d] = "published", MonthOf(acceptedAt'[d]) = n
          PROVE  acceptedAt'[c] <= acceptedAt'[d]
      <4>1. d = c
        BY <1>2, <1>8, <2>1, <2>2, <3>2
      <4>2. QED  BY <1>2, <4>1
    <3>3. QED  BY <2>2, <2>3, <3>1, <3>2 DEF FirstOf
  <2>6. ASSUME NEW m \in Months
        PROVE  /\ Reserved(m) => Reserved(m)' /\ intent'[m].source = intent[m].source
               /\ Reserved(m)' => Reserved(m) \/ FirstOf(m)'
    <3>1. CASE m = n
      BY <2>2, <2>5, <3>1
    <3>2. CASE m # n
      BY <2>3, <3>2 DEF Reserved
    <3>3. QED  BY <3>1, <3>2
  <2>7. ASSUME NEW d \in Claims, Slot(d[1], d[2])'.status = "succeeded"
        PROVE  \/ Slot(d[1], d[2]).status = "succeeded"
               \/ \A m \in Months : MonthOf(acceptedAt'[d]) = m /\ m > Promotion => Reserved(m)'
    <3>1. CASE Slot(d[1], d[2])' = Slot(d[1], d[2])
      BY <2>7, <3>1
    <3>2. CASE Slot(d[1], d[2])' # Slot(d[1], d[2])
      <4>1. d = c
        BY <1>1, <1>3, <3>2, ClaimTyped
      <4>2. QED  BY <1>2, <1>5, <2>4, <4>1
    <3>3. QED  BY <3>1, <3>2
  <2>8. QED  BY <1>2, <1>4, <2>6, <2>7 DEF SourceStep
<1>11. QED  BY <1>9, <1>10

LEMMA StepSourceInv ==
  ASSUME MaxStall <= 2, SourceInv, [CandidateNext]_candidateVars
  PROVE  SourceInv'
<1>1. CandidateInv'
  BY StepCandidateInv DEF SourceInv
<1>2. CASE UNCHANGED candidateVars
  <2>1. UNCHANGED <<clock, calendar, loop, record, acceptedAt, intent, month, disk, job>>
    BY <1>2 DEF candidateVars, vars, monthlyVars
  <2>2. ClaimsInTime'
    BY <2>1 DEF SourceInv, ClaimsInTime, ClaimInTime, At, Doing, Deciding
  <2>3. OneOutcomeOwed'
    <3>1. NothingOpened
      BY <2>1 DEF NothingOpened, Slot
    <3>2. QED  BY <3>1, NothingOpenedOwed DEF SourceInv
  <2>4. ReservedFirst'
    BY <2>1 DEF SourceInv, ReservedFirst, Registered, Reserved, Doing
  <2>5. MonthFromFirstUpdate'
    BY <2>1 DEF SourceInv, MonthFromFirstUpdate, Registered, MonthOf
  <2>6. QED  BY <1>1, <2>2, <2>3, <2>4, <2>5 DEF SourceInv
<1>3. CASE CandidateNext
  <2>1. ClaimsInTime'
    BY <1>3, StepInTime DEF SourceInv
  <2>2. SourceStep /\ OneOutcomeOwed'
    <3>1. \/ KeepsSources /\ OneOutcomeOwed'
          \/ \E c \in Claims, ok \in BOOLEAN : Completing(c, ok)
          \/ \E p \in Procs : PublishUpdate(p)
      BY <1>3, OtherStepsKeep DEF SourceInv
    <3>2. QED  BY <3>1, KeepingStep, CompletingStep, PublishStep
  <2>3. ReservedFirst' /\ MonthFromFirstUpdate'
    BY <1>1, <1>3, <2>2, SourceStepKeeps
  <2>4. QED  BY <1>1, <2>1, <2>2, <2>3 DEF SourceInv
<1>4. QED  BY <1>2, <1>3

\* While no loop stalls from its tick's start to its fence for as long as the end of
\* one week's windows is from the start of the next's, a month's candidate is trained
\* on the first update published in it, however late the update is recorded.
THEOREM MonthReadsItsFirstUpdate ==
  MaxStall <= 2 => (CandidateSpec => []MonthFromFirstUpdate)
<1> SUFFICES ASSUME MaxStall <= 2 PROVE CandidateSpec => []MonthFromFirstUpdate
  OBVIOUS
<1>1. SourceInv /\ [CandidateNext]_candidateVars => SourceInv'
  BY StepSourceInv
<1>2. SourceInv => MonthFromFirstUpdate
  BY DEF SourceInv
<1>3. QED  BY <1>1, <1>2, InitSourceInv, PTL DEF CandidateSpec
=============================================================================
