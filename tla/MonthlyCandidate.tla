-------------------------- MODULE MonthlyCandidate --------------------------
(***************************************************************************)
(* The monthly model candidate, on top of the weekly update calendar.      *)
(*                                                                         *)
(* The first accepted update of a month after the promotion month is       *)
(* reserved in the same write that records the update, prepared as the     *)
(* month's input, registered, and trained into one candidate directory by  *)
(* a Tuesday attempt or a Wednesday retry (src/data/ufc_update_schedule.py *)
(* src/model/monthly_candidate.py and monthly_candidate_runtime.py).  Each *)
(* calendar loop runs the tick of src/web/serve.py: prepare what is        *)
(* reserved, recover finished candidates, fail stale claims, then run what *)
(* is due.  Loops share the state file and the candidate directory, and    *)
(* may die between any two steps.                                          *)
(*                                                                         *)
(* A preparation, a training and an evaluation succeed or fail as they     *)
(* like; their contents and the promotion policy are left out.             *)
(***************************************************************************)
EXTENDS UFCUpdateSchedule, FiniteSets

CONSTANTS
  MonthStarts,   \* the instants at which a UTC month begins
  Promotion,     \* the promotion month
  MaxStall,      \* bound: instants between a tick's start and its claim or fence
  NoClaim

ASSUME MonthAssumption == MonthStarts \in SUBSET (0 .. Horizon) /\ Promotion \in Nat
ASSUME StallAssumption == MaxStall \in Nat
ASSUME NoClaimAssumption == NoClaim \notin Claims

MonthOf(now) == Cardinality({start \in MonthStarts : start <= now})

Months == {MonthOf(t) : t \in 0 .. Horizon}

VARIABLES
  acceptedAt,   \* accepted_at_utc of each published claim, on its receipt
  intent,       \* monthly_input_intents: [status, source]
  month,        \* monthly_candidates: [status, source, slots, candidate]
  disk,         \* each month's directory: [final, by, marker]
  job           \* each loop's place in its tick and its observed_at: [at, month, slot, now]

monthlyVars == <<acceptedAt, intent, month, disk, job>>
candidateVars == <<vars, monthlyVars>>

NoIntent == [status |-> "none", source |-> NoClaim]

NoRun == [status |-> "absent", at |-> 0]

NoMonth == [status |-> "absent", source |-> NoClaim,
            slots |-> [s \in Slots |-> NoRun], candidate |-> "none"]

\* final/ is absent, unfinished or holds a receipt; `by` is the attempt in it.
EmptyDisk == [final |-> "none", by |-> "none", marker |-> FALSE]

Top == [at |-> "top", month |-> 0, slot |-> "tuesday", now |-> 0]

JobSteps == {"top", "begun", "preparing", "reconciled", "ready", "claimed", "training",
             "final", "receipt", "marked", "passed", "failed"}

Doing(p, step) == job[p].at = step

\* A loop does one thing at a time: monthly work while no update is its own.
Free(p, step) == At(p, "idle") /\ Doing(p, step)

Proceed(p, step) == job' = [job EXCEPT ![p].at = step]

BackToTop(p) == job' = [job EXCEPT ![p] = Top]

CandidateInit ==
  /\ Init
  /\ acceptedAt = [c \in Claims |-> 0]
  /\ intent = [m \in Months |-> NoIntent]
  /\ month = [m \in Months |-> NoMonth]
  /\ disk = [m \in Months |-> EmptyDisk]
  /\ job = [p \in Procs |-> Top]

-----------------------------------------------------------------------------
(* The weekly update and the reservation of its month. *)

Registered(m) == month[m].status # "absent"

\* Mutant: the latest completion takes the month over.
ReserveLatest(c) ==
  LET m == MonthOf(acceptedAt[c])
  IN  IF m > Promotion /\ ~Registered(m)
        THEN [intent EXCEPT ![m] = [status |-> "waiting", source |-> c]]
        ELSE intent

\* _reserve_monthly_input: the first completion of an eligible month keeps it.
Reserve(c) ==
  LET m == MonthOf(acceptedAt[c])
  IN  IF m > Promotion /\ ~Registered(m) /\ intent[m].status = "none"
        THEN [intent EXCEPT ![m] = [status |-> "waiting", source |-> c]]
        ELSE intent

Claim(p) == <<loop[p].week, loop[p].slot>>

\* The weekly module's steps, with the tick's own observed_at.
ClaimUpdate(p) ==
  /\ Doing(p, "ready")
  /\ ClaimDataUpdate(p, job[p].now)
  /\ UNCHANGED monthlyVars

\* A refused fence raises, which ends the loop.
ProtectUpdate(p) ==
  /\ ProtectDataCompletion(p)
  /\ job' = [job EXCEPT ![p] = IF Claimed(calendar, loop[p].week, loop[p].slot)
                               THEN [@ EXCEPT !.now = 0] ELSE Top]
  /\ UNCHANGED <<acceptedAt, intent, month, disk>>

RefuseUpdate(p) == Refuse(p) /\ UNCHANGED monthlyVars

PublishUpdate(p) ==
  /\ Publish(p)
  /\ acceptedAt' = [acceptedAt EXCEPT ![Claim(p)] = clock]
  /\ UNCHANGED <<intent, month, disk, job>>

\* complete_data_update: the result and the month's reservation are one write.
\* The preparation it goes on to is the next tick's first step here.
CompleteUpdate(p) ==
  /\ CompleteDataUpdate(p)
  /\ intent' = IF At(p, "published") /\ CanComplete(calendar, loop[p].week, loop[p].slot, TRUE)
                 THEN Reserve(Claim(p)) ELSE intent
  /\ BackToTop(p)
  /\ UNCHANGED <<acceptedAt, month, disk>>

\* _reconcile_committed_calendar_publication at the top of a tick.
ReconcileUpdate(p, c) ==
  /\ Free(p, "begun")
  /\ ReconcileCompletion(c)
  /\ intent' = IF record[c] = "published" THEN Reserve(c) ELSE intent
  /\ UNCHANGED <<acceptedAt, month, disk, job>>

-----------------------------------------------------------------------------
(* Registration: reconcile_monthly_inputs and register_accepted_update. *)

\* The monthly-input lock serializes preparations; the state lock is free.
BeginPreparation(p, m) ==
  /\ Free(p, "begun")
  /\ intent[m].status \notin {"none", "registered"}
  /\ ~ \E q \in Procs : Doing(q, "preparing")
  /\ intent' = [intent EXCEPT ![m].status = "preparing"]
  /\ job' = [job EXCEPT ![p].at = "preparing", ![p].month = m]
  /\ UNCHANGED <<vars, acceptedAt, month, disk>>

EndPreparation(p) == job' = [job EXCEPT ![p].at = "begun", ![p].month = 0]

RefusePreparation(p) ==
  /\ Doing(p, "preparing")
  /\ intent' = [intent EXCEPT ![job[p].month].status = "refused"]
  /\ EndPreparation(p)
  /\ UNCHANGED <<vars, acceptedAt, month, disk>>

\* _register_monthly_source_update, in the write that closes the intent.
Register(p) ==
  LET m == job[p].month
  IN  /\ Doing(p, "preparing")
      /\ intent' = [intent EXCEPT ![m].status = "registered"]
      /\ month' = IF Registered(m) THEN month
                  ELSE [month EXCEPT ![m] =
                          [NoMonth EXCEPT !.status = "pending", !.source = intent[m].source]]
      /\ EndPreparation(p)
      /\ UNCHANGED <<vars, acceptedAt, disk>>

-----------------------------------------------------------------------------
(* The tick. *)

\* observed_at is read once, and every decision of the tick is about it.
BeginTick(p) ==
  /\ Free(p, "top")
  /\ job' = [job EXCEPT ![p].at = "begun", ![p].now = clock]
  /\ UNCHANGED <<vars, acceptedAt, intent, month, disk>>

\* complete_monthly_candidate on a claimed slot of entry e.
CompleteRun(e, s, ok, candidate) ==
  [e EXCEPT !.slots[s] = [status |-> IF ok THEN "succeeded" ELSE "failed", at |-> 0],
            !.status = IF ok THEN "succeeded"
                       ELSE IF s = "tuesday" THEN "retry_pending" ELSE "failed",
            !.candidate = IF ok THEN candidate ELSE e.candidate]

Running(e, s) == e.slots[s].status = "claimed"

HasReceipt(m) == Registered(m) /\ disk[m].final = "complete"

\* Mutant: a candidate directory is taken for a finished candidate.
HasDirectory(m) == Registered(m) /\ disk[m].final # "none"

\* The entry of a month whose candidate is finished, its open claim closed.
Recovered(m) ==
  LET open == {s \in Slots : Running(month[m], s)}
  IN  IF open = {} THEN month[m]
      ELSE CompleteRun(month[m], CHOOSE s \in open : TRUE, TRUE, disk[m].by)

\* Mutant: recovery by directory.
ReconcileByDirectory(p) ==
  /\ Free(p, "begun")
  /\ month' = [m \in Months |-> IF HasDirectory(m) THEN Recovered(m) ELSE month[m]]
  /\ Proceed(p, "reconciled")
  /\ UNCHANGED <<vars, acceptedAt, intent, disk>>

\* _reconcile_completed_monthly_candidates.  A receipt without its marker raises,
\* which ends the loop: started again it comes back here.
ReconcileCompleted(p) ==
  /\ Free(p, "begun")
  /\ \A m \in Months : HasReceipt(m) => disk[m].marker
  /\ month' = [m \in Months |-> IF HasReceipt(m) THEN Recovered(m) ELSE month[m]]
  /\ Proceed(p, "reconciled")
  /\ UNCHANGED <<vars, acceptedAt, intent, disk>>

StaleRun(e, s, now) == Running(e, s) /\ now >= e.slots[s].at + Lease

Expired(e, now) ==
  LET stale == {s \in Slots : StaleRun(e, s, now)}
  IN  IF stale = {} THEN e
      ELSE CompleteRun(e, CHOOSE s \in stale : TRUE, FALSE, "none")

\* reconcile_stale_claims: weekly and monthly claims in one write.
ReconcileClaims(p) ==
  /\ Free(p, "reconciled")
  /\ calendar' = ReconcileStale(calendar, job[p].now, Lease)
  /\ month' = [m \in Months |-> Expired(month[m], job[p].now)]
  /\ Proceed(p, "ready")
  /\ UNCHANGED <<clock, loop, record, acceptedAt, intent, disk>>

EndTick(p) ==
  /\ Free(p, "ready")
  /\ BackToTop(p)
  /\ UNCHANGED <<vars, acceptedAt, intent, month, disk>>

-----------------------------------------------------------------------------
(* The candidate. *)

\* _monthly_entry_for_week refuses a week with two of them.
AnchoredAlone(m, week) ==
  /\ Registered(m)
  /\ month[m].source[1] = week
  /\ \A n \in Months : Registered(n) /\ month[n].source[1] = week => n = m

\* _plan_monthly_candidate: slot s of month m is due at `now`.
CandidateDue(m, s, now) ==
  LET e == month[m]
  IN  /\ AnchoredAlone(m, WeekOf(now))
      /\ e.status \notin {"succeeded", "failed"}
      /\ e.slots[s].status = "absent"
      /\ \/ /\ e.source[2] = "tuesday" /\ s = "tuesday"
            /\ DayPart(now) \in Window.tuesday
            /\ now >= acceptedAt[e.source]
         \/ /\ e.source[2] = "tuesday" /\ s = "wednesday"
            /\ DayPart(now) \in Window.wednesday
            /\ e.slots.tuesday.status \in {"absent", "failed"}
         \/ /\ e.source[2] = "wednesday" /\ s = "wednesday"
            /\ DayPart(now) \in 3 .. 5
            /\ now >= acceptedAt[e.source]

\* A claim for slot s; a Wednesday claim records a missed Tuesday as failed.
ClaimedEntry(e, s, now) ==
  [e EXCEPT !.status = "in_progress",
            !.slots = [t \in Slots |->
              IF t = s THEN [status |-> "claimed", at |-> now]
              ELSE IF s = "wednesday" /\ e.slots[t].status = "absent"
                THEN [status |-> "failed", at |-> 0] ELSE e.slots[t]]]

\* claim_monthly_candidate
ClaimCandidate(p, m, s) ==
  /\ Free(p, "ready")
  /\ CandidateDue(m, s, job[p].now)
  /\ month' = [month EXCEPT ![m] = ClaimedEntry(month[m], s, job[p].now)]
  /\ job' = [job EXCEPT ![p] = [at |-> "claimed", month |-> m, slot |-> s, now |-> 0]]
  /\ UNCHANGED <<vars, acceptedAt, intent, disk>>

\* The writer lock of the candidate directory; a dead process has let it go.
Writing(p) == job[p].at \in {"training", "final", "receipt", "marked"}

LockFree == \A q \in Procs : ~Writing(q)

\* Mutant: a month is trained again over its finished candidate.
BeginRunAlways(p) ==
  LET m == job[p].month
  IN  /\ Doing(p, "claimed")
      /\ LockFree
      /\ disk' = [disk EXCEPT ![m].final = "none"]
      /\ Proceed(p, "training")
      /\ UNCHANGED <<vars, acceptedAt, intent, month>>

\* run_monthly_candidate: no receipt yet, so an unfinished final/ is moved away.
BeginRun(p) ==
  LET m == job[p].month
  IN  /\ Doing(p, "claimed")
      /\ LockFree
      /\ disk[m].final # "complete" /\ ~disk[m].marker
      /\ disk' = [disk EXCEPT ![m].final = "none"]
      /\ Proceed(p, "training")
      /\ UNCHANGED <<vars, acceptedAt, intent, month>>

\* ... or the month has its candidate: the marker is repaired.
AlreadyCompleted(p) ==
  LET m == job[p].month
  IN  /\ Doing(p, "claimed")
      /\ LockFree
      /\ disk[m].final = "complete"
      /\ disk' = [disk EXCEPT ![m].marker = TRUE]
      /\ Proceed(p, "marked")
      /\ UNCHANGED <<vars, acceptedAt, intent, month>>

\* The trained attempt becomes final/, and is evaluated there.
MoveToFinal(p) ==
  /\ Doing(p, "training")
  /\ disk' = [disk EXCEPT ![job[p].month].final = "unfinished",
                          ![job[p].month].by = job[p].slot]
  /\ Proceed(p, "final")
  /\ UNCHANGED <<vars, acceptedAt, intent, month>>

WriteReceipt(p) ==
  /\ Doing(p, "final")
  /\ disk' = [disk EXCEPT ![job[p].month].final = "complete"]
  /\ Proceed(p, "receipt")
  /\ UNCHANGED <<vars, acceptedAt, intent, month>>

WriteMarker(p) ==
  /\ Doing(p, "receipt")
  /\ disk' = [disk EXCEPT ![job[p].month].marker = TRUE]
  /\ Proceed(p, "marked")
  /\ UNCHANGED <<vars, acceptedAt, intent, month>>

\* The state file repeats what the receipt and the marker say.
SaveState(p) ==
  /\ Doing(p, "marked")
  /\ Proceed(p, "passed")
  /\ UNCHANGED <<vars, acceptedAt, intent, month, disk>>

\* Any step may raise: before the marker final/ is moved to failed/, after it
\* the candidate stays; and a lock held by another run refuses this one.
FailRun(p) ==
  /\ Doing(p, "claimed") \/ Writing(p)
  /\ disk' = IF job[p].at \in {"final", "receipt"}
               THEN [disk EXCEPT ![job[p].month].final = "none"] ELSE disk
  /\ Proceed(p, "failed")
  /\ UNCHANGED <<vars, acceptedAt, intent, month>>

\* complete_monthly_candidate; a slot the lease has decided otherwise raises.
ReportResult(p) ==
  LET m == job[p].month  s == job[p].slot
  IN  /\ job[p].at \in {"passed", "failed"}
      /\ month' = IF Running(month[m], s)
                    THEN [month EXCEPT ![m] =
                            CompleteRun(@, s, Doing(p, "passed"), disk[m].by)]
                    ELSE month
      /\ BackToTop(p)
      /\ UNCHANGED <<vars, acceptedAt, intent, disk>>

\* A crash, or an exception no handler catches, at any step.
Die(p) ==
  /\ ~Free(p, "top")
  /\ IF At(p, "idle") THEN UNCHANGED vars ELSE Interrupt(p)
  /\ BackToTop(p)
  /\ UNCHANGED <<acceptedAt, intent, month, disk>>

-----------------------------------------------------------------------------

\* Between reading observed_at and its claim or fence, a loop stalls this long.
Deciding(p) ==
  \/ At(p, "idle") /\ job[p].at \in {"begun", "preparing", "reconciled", "ready"}
  \/ At(p, "claimed")

PassTime ==
  /\ \A p \in Procs : Deciding(p) => clock < job[p].now + MaxStall
  /\ Advance
  /\ UNCHANGED monthlyVars

Run(p) ==
  \/ BeginRun(p)
  \/ AlreadyCompleted(p)
  \/ MoveToFinal(p)
  \/ WriteReceipt(p)
  \/ WriteMarker(p)
  \/ SaveState(p)
  \/ FailRun(p)
  \/ ReportResult(p)

CandidateNext ==
  \/ PassTime
  \/ \E p \in Procs :
       \/ ClaimUpdate(p)
       \/ ProtectUpdate(p)
       \/ RefuseUpdate(p)
       \/ PublishUpdate(p)
       \/ CompleteUpdate(p)
       \/ \E c \in Claims : ReconcileUpdate(p, c)
       \/ \E m \in Months : BeginPreparation(p, m)
       \/ RefusePreparation(p)
       \/ BeginTick(p)
       \/ Register(p)
       \/ ReconcileCompleted(p)
       \/ ReconcileClaims(p)
       \/ EndTick(p)
       \/ \E m \in Months, s \in Slots : ClaimCandidate(p, m, s)
       \/ Run(p)
       \/ Die(p)

CandidateSpec == CandidateInit /\ [][CandidateNext]_candidateVars

\* A started thread goes on, and a loop that is started again after every crash gets
\* through its first steps in the end if they can be taken at all.
FairSpec ==
  /\ CandidateSpec
  /\ \A p \in Procs :
       /\ WF_candidateVars(BeginTick(p))
       /\ WF_candidateVars(RefusePreparation(p) \/ Register(p))
       /\ SF_candidateVars(ReconcileCompleted(p))
       /\ WF_candidateVars(Run(p))

-----------------------------------------------------------------------------
(* Properties. *)

IntentEntry == [status : {"none", "waiting", "preparing", "refused", "registered"},
                source : Claims \cup {NoClaim}]

MonthEntry ==
  [status : {"absent", "pending", "in_progress", "retry_pending", "succeeded", "failed"},
   source : Claims \cup {NoClaim},
   slots : [Slots -> [status : Statuses, at : 0 .. Horizon]],
   candidate : Slots \cup {"none"}]

DiskEntry == [final : {"none", "unfinished", "complete"}, by : Slots \cup {"none"},
              marker : BOOLEAN]

JobState == [at : JobSteps, month : Months \cup {0}, slot : Slots, now : 0 .. Horizon]

\* The type invariant of the monthly state and of each loop's place in its tick.
MonthlyTypeOK ==
  /\ acceptedAt \in [Claims -> 0 .. Horizon]
  /\ intent \in [Months -> IntentEntry]
  /\ month \in [Months -> MonthEntry]
  /\ disk \in [Months -> DiskEntry]
  /\ job \in [Procs -> JobState]

\* A month's candidate is trained on the first update published in it, however
\* late that update's completion is recorded and however often its preparation is
\* refused; and no accepted update of an eligible month leaves it unreserved
\* (_reserve_monthly_input, register_accepted_update and the weekly fence).
MonthFromFirstUpdate ==
  /\ \A m \in Months : intent[m].status # "none" =>
       /\ m > Promotion
       /\ record[intent[m].source] = "published"
       /\ MonthOf(acceptedAt[intent[m].source]) = m
       /\ \A c \in Claims : record[c] = "published" /\ MonthOf(acceptedAt[c]) = m =>
            acceptedAt[intent[m].source] <= acceptedAt[c]
       /\ Registered(m) => month[m].source = intent[m].source
  /\ \A c \in Claims :
       StatusOf(calendar, c[1], c[2]) = "succeeded" /\ MonthOf(acceptedAt[c]) > Promotion
         => intent[MonthOf(acceptedAt[c])].status # "none"

\* A month counts as succeeded exactly when one of its two slots did, and then it
\* names the finished candidate that is on disk with its marker
\* (complete_monthly_candidate and run_monthly_candidate, which share no lock).
SuccessHasItsCandidate ==
  \A m \in Months :
    /\ month[m].status = "succeeded" <=>
         \E s \in Slots : month[m].slots[s].status = "succeeded"
    /\ month[m].status = "succeeded" =>
         /\ disk[m].final = "complete" /\ disk[m].marker
         /\ month[m].candidate = disk[m].by

\* A decided slot keeps its decision and a finished candidate is never trained
\* over, whatever a slow run, a lease, a retry or a crash does after it.
MonthlyDecisionsStand ==
  [][\A m \in Months :
       /\ \A s \in Slots : month[m].slots[s].status \in {"succeeded", "failed"} =>
            month'[m].slots[s] = month[m].slots[s]
       /\ disk[m].marker => disk'[m].final = "complete" /\ disk'[m].by = disk[m].by
    ]_candidateVars

\* "Recover the crash window after a candidate receipt but before schedule
\* completion": no claim stays open for ever beside its own finished candidate.
CrashWindowRecovered ==
  \A m \in Months, s \in Slots :
    []<>~(disk[m].final = "complete" /\ Running(month[m], s))
=============================================================================
