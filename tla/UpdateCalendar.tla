--------------------------- MODULE UpdateCalendar ---------------------------
(***************************************************************************)
(* The durable weekly calendar of src/data/ufc_update_schedule.py, as      *)
(* functions of the saved state.  Every method of UFCUpdateSchedule holds  *)
(* the state file's lock from its load to its save, so each one is a       *)
(* function from the saved calendar to the next one; the modules that use  *)
(* the calendar decide who calls it, when, and what is lost in between.    *)
(*                                                                         *)
(* A claim id is unique and a slot is claimed at most once, so a claim is  *)
(* identified by its week and slot.  Error texts and timestamps that no    *)
(* decision reads are left out.                                            *)
(***************************************************************************)
EXTENDS Naturals

CONSTANT Weeks   \* ISO weeks the calendar may record, numbered from 0

ASSUME WeeksAssumption == Weeks \subseteq Nat

(***************************************************************************)
(* Time.  A week has seven instants, enough to separate every comparison   *)
(* the planner makes and to let a claim outlive its lease on the same day. *)
(*   0 Monday to Tuesday 11:00   1 Tuesday 11:00 to 17:00                  *)
(*   2 Tuesday evening           3 Wednesday before 11:00                  *)
(*   4 Wednesday 11:00 to 17:00  5 Wednesday evening                       *)
(*   6 Thursday to Sunday                                                  *)
(***************************************************************************)
InstantsPerWeek == 7
WeekOf(now) == now \div InstantsPerWeek
DayPart(now) == now % InstantsPerWeek

Slots == {"tuesday", "wednesday"}

Window == [tuesday |-> {1, 2}, wednesday |-> {4, 5}]

Statuses == {"absent", "claimed", "succeeded", "failed"}

Attempt == [status: Statuses, fenced: BOOLEAN, owned: BOOLEAN, at: Nat]

NoAttempt == [status |-> "absent", fenced |-> FALSE, owned |-> FALSE, at |-> 0]

Entry == [slots: [Slots -> Attempt], accepted: BOOLEAN]

NoEntry == [slots |-> [s \in Slots |-> NoAttempt], accepted |-> FALSE]

Calendar == [Weeks -> Entry]

EmptyCalendar == [w \in Weeks |-> NoEntry]

StatusOf(cal, w, s) == cal[w].slots[s].status

Claimed(cal, w, s) == StatusOf(cal, w, s) = "claimed"

\* An unresolved publication outcome, which stops all planning in every week.
Fenced(cal) ==
  \E w \in Weeks, s \in Slots : Claimed(cal, w, s) /\ cal[w].slots[s].fenced

\* Mutant: Wednesday does not wait for Tuesday's decision.
DueBesideTuesday(cal, now, s) ==
  /\ ~Fenced(cal)
  /\ ~cal[WeekOf(now)].accepted
  /\ DayPart(now) \in Window[s]
  /\ StatusOf(cal, WeekOf(now), s) = "absent"

\* Mutant: a decided slot may be claimed again.
DueAgain(cal, now, s) ==
  /\ ~Fenced(cal)
  /\ ~cal[WeekOf(now)].accepted
  /\ DayPart(now) \in Window[s]
  /\ StatusOf(cal, WeekOf(now), s) # "claimed"
  /\ s = "wednesday" =>
       StatusOf(cal, WeekOf(now), "tuesday") \in {"absent", "failed"}

\* The planner's decision: whether slot s of the week of `now` is due at `now`.
Due(cal, now, s) ==
  /\ ~Fenced(cal)
  /\ ~cal[WeekOf(now)].accepted
  /\ DayPart(now) \in Window[s]
  /\ StatusOf(cal, WeekOf(now), s) = "absent"
  /\ s = "wednesday" =>
       StatusOf(cal, WeekOf(now), "tuesday") \in {"absent", "failed"}

(***************************************************************************)
(* The transitions.                                                        *)
(***************************************************************************)
\* Mutant: a status of its own, which the loader refuses.
MissedSlot(now) == [status |-> "missed", fenced |-> FALSE, owned |-> FALSE, at |-> now]

Missed(now) == [status |-> "failed", fenced |-> FALSE, owned |-> FALSE, at |-> now]

NewClaim(now) == [status |-> "claimed", fenced |-> FALSE, owned |-> TRUE, at |-> now]

\* Claim slot s.  A Wednesday claim of a week whose Tuesday was never claimed
\* first records that Tuesday as failed.
ClaimSlot(cal, now, s) ==
  LET w == WeekOf(now)
  IN  [cal EXCEPT ![w] =
         [slots |-> [t \in Slots |->
                       IF t = s THEN NewClaim(now)
                       ELSE IF s = "wednesday" /\ StatusOf(cal, w, t) = "absent"
                              THEN Missed(now) ELSE cal[w].slots[t]],
          accepted |-> cal[w].accepted]]

\* The calendar with one slot, and the week's acceptance, rewritten.
Put(cal, w, s, attempt, acceptance) ==
  [cal EXCEPT ![w] = [slots    |-> [cal[w].slots EXCEPT ![s] = attempt],
                      accepted |-> acceptance]]

WithFence(a) == [status |-> a.status, fenced |-> TRUE, owned |-> a.owned, at |-> a.at]

WithStatus(a, status) ==
  [status |-> status, fenced |-> a.fenced, owned |-> a.owned, at |-> a.at]

\* Fence an active claim: from here on time alone proves no failure.
Protect(cal, w, s) == Put(cal, w, s, WithFence(cal[w].slots[s]), cal[w].accepted)

\* Mutant: the week's accepted update is not recorded.
CompleteSlotOnly(cal, w, s) ==
  Put(cal, w, s, WithStatus(cal[w].slots[s], "succeeded"), cal[w].accepted)

CompleteSuccess(cal, w, s) ==
  Put(cal, w, s, WithStatus(cal[w].slots[s], "succeeded"), TRUE)

CompleteFailure(cal, w, s) ==
  Put(cal, w, s, WithStatus(cal[w].slots[s], "failed"), cal[w].accepted)

\* complete_data_update records a result on an active claim and accepts the
\* same result again; any other status is a transition error.
CanComplete(cal, w, s, ok) ==
  /\ cal[w].slots[s].owned
  /\ StatusOf(cal, w, s) \in {"claimed", IF ok THEN "succeeded" ELSE "failed"}

Complete(cal, w, s, ok) ==
  IF ~Claimed(cal, w, s) THEN cal
  ELSE IF ok THEN CompleteSuccess(cal, w, s) ELSE CompleteFailure(cal, w, s)

\* Mutant: a lease overrides the fence.
StaleDespiteFence(cal, now, lease, w, s) ==
  Claimed(cal, w, s) /\ now >= cal[w].slots[s].at + lease

\* Claims whose lease has run out while no publication outcome is owed.
Stale(cal, now, lease, w, s) ==
  /\ Claimed(cal, w, s)
  /\ ~cal[w].slots[s].fenced
  /\ now >= cal[w].slots[s].at + lease

ReconcileStale(cal, now, lease) ==
  [w \in Weeks |->
     [slots |-> [s \in Slots |->
                   IF Stale(cal, now, lease, w, s)
                   THEN WithStatus(cal[w].slots[s], "failed")
                   ELSE cal[w].slots[s]],
      accepted |-> cal[w].accepted]]
=============================================================================
