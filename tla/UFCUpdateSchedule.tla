------------------------- MODULE UFCUpdateSchedule -------------------------
(***************************************************************************)
(* The weekly update calendar under its concurrent callers: processes that *)
(* claim a due slot, fence the claim, run a refresh that may publish, and  *)
(* record the result (src/web/serve.py and src/data/ufc_update_schedule.py)*)
(* while other processes fail the claims whose lease has run out.  A       *)
(* process may crash between any two steps; only the calendar file, the    *)
(* publication and the refresh's own completion record survive.            *)
(***************************************************************************)
EXTENDS UpdateCalendar

CONSTANTS
  Procs,     \* the calendar loops that share the state file
  Lease,     \* claim_stale_after_seconds, in instants
  Horizon    \* the last instant of the model: a bound on the clock

ASSUME LeaseAssumption == Lease \in Nat \ {0}
ASSUME HorizonAssumption == Horizon \in Nat /\ Weeks = 0 .. WeekOf(Horizon)

Claims == Weeks \X Slots

VARIABLES
  clock,      \* the instant now
  calendar,   \* the state file
  loop,       \* each process's step: [at, week, slot]
  record      \* each claim's own durable completion record of its refresh cycle

vars == <<clock, calendar, loop, record>>

Idle == [at |-> "idle", week |-> 0, slot |-> "tuesday"]

\* The local step of a loop, and the claim it holds.
Steps == {"idle", "claimed", "running", "published", "refused"}

At(p, step) == loop[p].at = step

Go(p, step) == loop' = [loop EXCEPT ![p].at = step]

Forget(p) == loop' = [loop EXCEPT ![p] = Idle]

Init ==
  /\ clock = 0
  /\ calendar = EmptyCalendar
  /\ loop = [p \in Procs |-> Idle]
  /\ record = [c \in Claims |-> "none"]

Advance ==
  /\ clock < Horizon
  /\ clock' = clock + 1
  /\ UNCHANGED <<calendar, loop, record>>

\* claim_data_update: plan and claim under one lock, at a `now` that the caller
\* may have read long before.
ClaimDataUpdate(p, now) ==
  /\ At(p, "idle")
  /\ \E s \in Slots :
       /\ Due(calendar, now, s)
       /\ calendar' = ClaimSlot(calendar, now, s)
       /\ loop' = [loop EXCEPT ![p] = [at |-> "claimed", week |-> WeekOf(now), slot |-> s]]
  /\ UNCHANGED <<clock, record>>

\* protect_data_completion: refused once the lease has been reconciled away.
ProtectDataCompletion(p) ==
  LET w == loop[p].week  s == loop[p].slot
  IN  /\ At(p, "claimed")
      /\ IF Claimed(calendar, w, s)
           THEN calendar' = Protect(calendar, w, s) /\ Go(p, "running")
           ELSE Forget(p) /\ UNCHANGED calendar
      /\ UNCHANGED <<clock, record>>

\* The refresh cycle commits a new generation and its completion record ...
Publish(p) ==
  /\ At(p, "running")
  /\ record' = [record EXCEPT ![<<loop[p].week, loop[p].slot>>] = "published"]
  /\ Go(p, "published")
  /\ UNCHANGED <<clock, calendar>>

\* ... or ends without one and says so.
Refuse(p) ==
  /\ At(p, "running")
  /\ record' = [record EXCEPT ![<<loop[p].week, loop[p].slot>>] = "refused"]
  /\ Go(p, "refused")
  /\ UNCHANGED <<clock, calendar>>

\* complete_data_update with the cycle's outcome; a conflicting status raises.
CompleteDataUpdate(p) ==
  LET w == loop[p].week  s == loop[p].slot  ok == At(p, "published")
  IN  /\ loop[p].at \in {"published", "refused"}
      /\ calendar' = IF CanComplete(calendar, w, s, ok)
                       THEN Complete(calendar, w, s, ok) ELSE calendar
      /\ Forget(p)
      /\ UNCHANGED <<clock, record>>

\* An exception in the cycle leaves the outcome uncertain and a crash loses the
\* process: either way the claim stays as it is and the loop starts again.
Interrupt(p) ==
  /\ ~At(p, "idle")
  /\ Forget(p)
  /\ UNCHANGED <<clock, calendar, record>>

\* The original completion record of an interrupted claim decides it later.
ReconcileCompletion(c) ==
  LET ok == record[c] = "published"
  IN  /\ record[c] # "none"
      /\ Claimed(calendar, c[1], c[2])
      /\ calendar' = Complete(calendar, c[1], c[2], ok)
      /\ UNCHANGED <<clock, loop, record>>

\* reconcile_stale_claims, run by any loop at the top of its cycle.
ReconcileStaleClaims(now) ==
  /\ \E w \in Weeks, s \in Slots : Stale(calendar, now, Lease, w, s)
  /\ calendar' = ReconcileStale(calendar, now, Lease)
  /\ UNCHANGED <<clock, loop, record>>

Next ==
  \/ Advance
  \/ \E p \in Procs :
       \/ \E now \in 0 .. clock : ClaimDataUpdate(p, now)
       \/ ProtectDataCompletion(p)
       \/ Publish(p)
       \/ Refuse(p)
       \/ CompleteDataUpdate(p)
       \/ Interrupt(p)
  \/ \E c \in Claims : ReconcileCompletion(c)
  \/ \E now \in 0 .. clock : ReconcileStaleClaims(now)

Spec == Init /\ [][Next]_vars

-----------------------------------------------------------------------------

LoopState == [at: Steps, week: Weeks, slot: Slots]

\* The type invariant of the calendar file, its callers and their records.
TypeOK ==
  /\ clock \in 0 .. Horizon
  /\ calendar \in Calendar
  /\ loop \in [Procs -> LoopState]
  /\ record \in [Claims -> {"none", "published", "refused"}]

\* Time alone never fails a claim whose refresh may already have published: a
\* slot recorded as failed is one whose cycle committed nothing, however the
\* claim, its lease, the fence, a crash and the late result interleave
\* (reconcile_stale_claims, protect_data_completion, complete_data_update).
PublishedNeverFailed ==
  \A c \in Claims :
    record[c] = "published" => StatusOf(calendar, c[1], c[2]) \in {"claimed", "succeeded"}

\* A week's data is acquired and published at most once: Wednesday's slot is a
\* retry of a Tuesday that published nothing, never a second update, even when
\* the Tuesday process is only slow (the planner and claim_data_update).
OnePublicationPerWeek ==
  \A w \in Weeks :
    ~(record[<<w, "tuesday">>] = "published" /\ record[<<w, "wednesday">>] = "published")

\* The week counts as accepted exactly when one of its slots succeeded, and that
\* slot's cycle published (the accepted_update written by complete_data_update).
AcceptedMeansPublished ==
  \A w \in Weeks :
    /\ calendar[w].accepted <=> \E s \in Slots : StatusOf(calendar, w, s) = "succeeded"
    /\ \A s \in Slots :
         StatusOf(calendar, w, s) = "succeeded" => record[<<w, s>>] = "published"

\* A decided slot keeps its decision: no late, repeated or conflicting result,
\* and no lease, rewrites a success or a failure.
DecidedIsFinal ==
  [][\A w \in Weeks, s \in Slots :
       StatusOf(calendar, w, s) \in {"succeeded", "failed"}
         => StatusOf(calendar', w, s) = StatusOf(calendar, w, s)]_vars

\* At most one process at a time is inside the publication-capable part of a
\* week's update, whatever the leases and crashes before it.
OneRunnerPerWeek ==
  \A p, q \in Procs :
    At(p, "running") /\ At(q, "running") /\ loop[p].week = loop[q].week => p = q
=============================================================================
