----------------------- MODULE UpdateCalendar_proofs -----------------------
(***************************************************************************)
(* What each transition of the calendar writes and what it leaves alone,   *)
(* for any set of weeks.  The lemmas say it slot by slot, so that proofs   *)
(* about the calendar's users need not open the nested records.            *)
(***************************************************************************)
EXTENDS UpdateCalendar, TLAPS

LEMMA SlotTyped ==
  ASSUME NEW cal \in Calendar, NEW w \in Weeks, NEW s \in Slots
  PROVE  /\ cal[w] \in Entry
         /\ cal[w].slots[s] \in Attempt
         /\ cal[w].slots[s].status \in Statuses
  BY DEF Calendar, Entry, Attempt

LEMMA EmptyCalendarTyped == EmptyCalendar \in Calendar
  BY DEF EmptyCalendar, Calendar, Entry, NoEntry, NoAttempt, Attempt, Statuses, Slots

\* Claiming writes the claimed slot, and a missed Tuesday before a Wednesday.
LEMMA ClaimSlotEffect ==
  ASSUME NEW cal \in Calendar, NEW now \in Nat, WeekOf(now) \in Weeks, NEW s \in Slots
  PROVE  /\ ClaimSlot(cal, now, s) \in Calendar
         /\ \A v \in Weeks : ClaimSlot(cal, now, s)[v].accepted = cal[v].accepted
         /\ \A v \in Weeks, t \in Slots :
              ClaimSlot(cal, now, s)[v].slots[t] =
                IF v = WeekOf(now)
                THEN IF t = s THEN NewClaim(now)
                     ELSE IF s = "wednesday" /\ cal[v].slots[t].status = "absent"
                            THEN Missed(now) ELSE cal[v].slots[t]
                ELSE cal[v].slots[t]
<1> DEFINE w == WeekOf(now)
           new == [slots |-> [t \in Slots |->
                       IF t = s THEN NewClaim(now)
                       ELSE IF s = "wednesday" /\ StatusOf(cal, w, t) = "absent"
                              THEN Missed(now) ELSE cal[w].slots[t]],
                   accepted |-> cal[w].accepted]
<1>1. ClaimSlot(cal, now, s) = [cal EXCEPT ![w] = new]
  BY DEF ClaimSlot
<1>2. NewClaim(now) \in Attempt /\ Missed(now) \in Attempt
  BY DEF NewClaim, Missed, Attempt, Statuses
<1>3. new \in Entry
  BY <1>2, SlotTyped DEF Entry
<1>4. /\ new.accepted = cal[w].accepted
      /\ \A t \in Slots :
           new.slots[t] = IF t = s THEN NewClaim(now)
                          ELSE IF s = "wednesday" /\ cal[w].slots[t].status = "absent"
                                 THEN Missed(now) ELSE cal[w].slots[t]
  BY DEF StatusOf
<1> HIDE DEF new
<1>5. ClaimSlot(cal, now, s) \in Calendar
  BY <1>1, <1>3 DEF Calendar
<1>6. /\ ClaimSlot(cal, now, s)[w] = new
      /\ \A v \in Weeks : v # w => ClaimSlot(cal, now, s)[v] = cal[v]
  BY <1>1 DEF Calendar
<1>7. QED  BY <1>4, <1>5, <1>6

\* Rewriting one slot of the calendar, and possibly its week's acceptance.
Rewritten(cal, new, w, s, attempt, acceptance) ==
  /\ new \in Calendar
  /\ \A v \in Weeks : new[v].accepted = IF v = w THEN acceptance ELSE cal[v].accepted
  /\ \A v \in Weeks, t \in Slots :
       new[v].slots[t] = IF v = w /\ t = s THEN attempt ELSE cal[v].slots[t]

LEMMA PutEffect ==
  ASSUME NEW cal \in Calendar, NEW w \in Weeks, NEW s \in Slots,
         NEW attempt \in Attempt, NEW acceptance \in BOOLEAN
  PROVE  Rewritten(cal, Put(cal, w, s, attempt, acceptance), w, s, attempt, acceptance)
<1> DEFINE entry == [slots |-> [cal[w].slots EXCEPT ![s] = attempt],
                     accepted |-> acceptance]
           new == Put(cal, w, s, attempt, acceptance)
<1>1. cal[w].slots \in [Slots -> Attempt]
  BY SlotTyped DEF Entry
<1>2. entry \in Entry
  BY <1>1 DEF Entry
<1>3. new = [cal EXCEPT ![w] = entry]
  BY DEF Put
<1>4. /\ \A t \in Slots : entry.slots[t] = IF t = s THEN attempt ELSE cal[w].slots[t]
      /\ entry.accepted = acceptance
  BY <1>1
<1> HIDE DEF entry, new
<1>5. new \in Calendar
  BY <1>2, <1>3 DEF Calendar
<1>6. new[w] = entry /\ \A v \in Weeks : v # w => new[v] = cal[v]
  BY <1>3 DEF Calendar
<1>7. QED  BY <1>4, <1>5, <1>6 DEF Rewritten, new

LEMMA ProtectEffect ==
  ASSUME NEW cal \in Calendar, NEW w \in Weeks, NEW s \in Slots
  PROVE  Rewritten(cal, Protect(cal, w, s), w, s,
                   WithFence(cal[w].slots[s]), cal[w].accepted)
<1>1. WithFence(cal[w].slots[s]) \in Attempt /\ cal[w].accepted \in BOOLEAN
  BY SlotTyped DEF Attempt, Entry, WithFence
<1>2. QED  BY <1>1, PutEffect DEF Protect

LEMMA StatusTyped ==
  ASSUME NEW cal \in Calendar, NEW w \in Weeks, NEW s \in Slots, NEW status \in Statuses
  PROVE  WithStatus(cal[w].slots[s], status) \in Attempt /\ cal[w].accepted \in BOOLEAN
  BY SlotTyped DEF Attempt, Entry, WithStatus

LEMMA CompleteSuccessEffect ==
  ASSUME NEW cal \in Calendar, NEW w \in Weeks, NEW s \in Slots
  PROVE  Rewritten(cal, CompleteSuccess(cal, w, s), w, s,
                   WithStatus(cal[w].slots[s], "succeeded"), TRUE)
<1>1. "succeeded" \in Statuses
  BY DEF Statuses
<1>2. QED  BY <1>1, StatusTyped, PutEffect DEF CompleteSuccess

LEMMA CompleteFailureEffect ==
  ASSUME NEW cal \in Calendar, NEW w \in Weeks, NEW s \in Slots
  PROVE  Rewritten(cal, CompleteFailure(cal, w, s), w, s,
                   WithStatus(cal[w].slots[s], "failed"), cal[w].accepted)
<1>1. "failed" \in Statuses
  BY DEF Statuses
<1>2. QED  BY <1>1, StatusTyped, PutEffect DEF CompleteFailure

\* Reconciling fails the stale claims and nothing else.
LEMMA ReconcileStaleEffect ==
  ASSUME NEW cal \in Calendar, NEW now \in Nat, NEW lease \in Nat
  PROVE  /\ ReconcileStale(cal, now, lease) \in Calendar
         /\ \A v \in Weeks : ReconcileStale(cal, now, lease)[v].accepted = cal[v].accepted
         /\ \A v \in Weeks, t \in Slots :
              ReconcileStale(cal, now, lease)[v].slots[t] =
                IF Stale(cal, now, lease, v, t)
                THEN WithStatus(cal[v].slots[t], "failed") ELSE cal[v].slots[t]
<1> DEFINE Reconciled(v) == [slots |-> [t \in Slots |->
                                IF Stale(cal, now, lease, v, t)
                                THEN WithStatus(cal[v].slots[t], "failed")
                                ELSE cal[v].slots[t]],
                             accepted |-> cal[v].accepted]
           new == ReconcileStale(cal, now, lease)
<1>1. \A v \in Weeks, t \in Slots :
        WithStatus(cal[v].slots[t], "failed") \in Attempt /\ cal[v].accepted \in BOOLEAN
  BY StatusTyped DEF Statuses
<1>2. ASSUME NEW v \in Weeks PROVE Reconciled(v) \in Entry
  <2>1. \A t \in Slots : cal[v].slots[t] \in Attempt
    BY SlotTyped
  <2>2. "tuesday" \in Slots
    BY DEF Slots
  <2>3. QED  BY <1>1, <2>1, <2>2 DEF Entry
<1>3. new = [v \in Weeks |-> Reconciled(v)]
  BY DEF ReconcileStale
<1>4. \A v \in Weeks :
        /\ Reconciled(v).accepted = cal[v].accepted
        /\ \A t \in Slots :
             Reconciled(v).slots[t] = IF Stale(cal, now, lease, v, t)
                                      THEN WithStatus(cal[v].slots[t], "failed")
                                      ELSE cal[v].slots[t]
  OBVIOUS
<1> HIDE DEF Reconciled, new
<1>5. new \in Calendar
  BY <1>2, <1>3 DEF Calendar
<1>6. \A v \in Weeks : new[v] = Reconciled(v)
  BY <1>3
<1>7. QED  BY <1>4, <1>5, <1>6 DEF new

\* A completion only ever decides an active claim.
LEMMA CompleteEffect ==
  ASSUME NEW cal \in Calendar, NEW w \in Weeks, NEW s \in Slots, NEW ok \in BOOLEAN
  PROVE  /\ ~Claimed(cal, w, s) => Complete(cal, w, s, ok) = cal
         /\ Claimed(cal, w, s) /\ ok =>
              Rewritten(cal, Complete(cal, w, s, ok), w, s,
                        WithStatus(cal[w].slots[s], "succeeded"), TRUE)
         /\ Claimed(cal, w, s) /\ ~ok =>
              Rewritten(cal, Complete(cal, w, s, ok), w, s,
                        WithStatus(cal[w].slots[s], "failed"), cal[w].accepted)
  BY CompleteSuccessEffect, CompleteFailureEffect DEF Complete
=============================================================================
