---------------------- MODULE UFCUpdateSchedule_proofs ----------------------
(***************************************************************************)
(* Proofs about the weekly calendar under its concurrent callers, for any  *)
(* number of processes, any lease and any number of weeks.                 *)
(*                                                                         *)
(* The invariant relates three records of the same claim that are written  *)
(* at different moments: its slot in the calendar, the refresh cycle's own *)
(* completion record and the step of the process that holds it.            *)
(***************************************************************************)
EXTENDS UFCUpdateSchedule, UpdateCalendar_proofs

Slot(w, s) == calendar[w].slots[s]

\* A slot and the completion record of its refresh cycle.
ClaimFact(w, s) ==
  /\ Slot(w, s).fenced => Slot(w, s).owned /\ Slot(w, s).status # "absent"
  /\ Slot(w, s).status = "claimed" => Slot(w, s).owned
  /\ record[<<w, s>>] # "none" => Slot(w, s).fenced
  /\ record[<<w, s>>] = "published" => Slot(w, s).status \in {"claimed", "succeeded"}
  /\ record[<<w, s>>] = "refused" => Slot(w, s).status \in {"claimed", "failed"}
  /\ Slot(w, s).status = "succeeded" => record[<<w, s>>] = "published"

ClaimFacts == \A w \in Weeks, s \in Slots : ClaimFact(w, s)

\* The two slots of a week and its acceptance.
WeekFacts ==
  \A w \in Weeks :
    /\ Slot(w, "wednesday").status # "absent" => Slot(w, "tuesday").status = "failed"
    /\ calendar[w].accepted <=>
         Slot(w, "tuesday").status = "succeeded" \/ Slot(w, "wednesday").status = "succeeded"

\* What a process may rely on at each of its steps, and that a claim has one holder.
LoopFact(p) ==
  LET a == Slot(loop[p].week, loop[p].slot)
      r == record[<<loop[p].week, loop[p].slot>>]
  IN  /\ At(p, "claimed") => a.status \in {"claimed", "failed"} /\ ~a.fenced /\ r = "none"
      /\ At(p, "running") => a.status = "claimed" /\ a.fenced /\ r = "none"
      /\ At(p, "published") => r = "published"
      /\ At(p, "refused") => r = "refused"

OneHolder ==
  \A p, q \in Procs :
    /\ ~At(p, "idle") /\ ~At(q, "idle")
    /\ loop[p].week = loop[q].week /\ loop[p].slot = loop[q].slot
    => p = q

LoopFacts == OneHolder /\ \A p \in Procs : LoopFact(p)

Inv == TypeOK /\ ClaimFacts /\ WeekFacts /\ LoopFacts

LEMMA ClockInWeeks ==
  ASSUME clock \in 0 .. Horizon, NEW now \in 0 .. clock
  PROVE  now \in Nat /\ WeekOf(now) \in Weeks
  BY HorizonAssumption DEF WeekOf, InstantsPerWeek

LEMMA ScheduleInitInv == Init => Inv
<1> SUFFICES ASSUME Init PROVE Inv
  OBVIOUS
<1>1. TypeOK
  BY EmptyCalendarTyped, HorizonAssumption
  DEF Init, TypeOK, LoopState, Steps, Idle, Slots, WeekOf, InstantsPerWeek
<1>2. ClaimFacts /\ WeekFacts
  BY DEF Init, ClaimFacts, ClaimFact, WeekFacts, Slot, EmptyCalendar, NoEntry, NoAttempt, Claims, Slots
<1>3. LoopFacts
  BY DEF Init, LoopFacts, LoopFact, OneHolder, At, Idle
<1>4. QED  BY <1>1, <1>2, <1>3 DEF Inv

LEMMA AdvanceInv ==
  ASSUME Inv, Advance
  PROVE  Inv'
<1>1. TypeOK'
  BY HorizonAssumption DEF Inv, TypeOK, Advance
<1>2. ClaimFacts' /\ WeekFacts' /\ LoopFacts'
  BY DEF Inv, Advance, ClaimFacts, ClaimFact, WeekFacts, LoopFacts, LoopFact, OneHolder,
      Slot, At
<1>3. QED  BY <1>1, <1>2 DEF Inv

\* A claim of a slot that was absent: nobody holds it and it has no record.
LEMMA ClaimDataUpdateInv ==
  ASSUME Inv, NEW p \in Procs, NEW now \in 0 .. clock, ClaimDataUpdate(p, now)
  PROVE  Inv'
<1>1. PICK s \in Slots :
        /\ Due(calendar, now, s)
        /\ calendar' = ClaimSlot(calendar, now, s)
        /\ loop' = [loop EXCEPT ![p] = [at |-> "claimed", week |-> WeekOf(now), slot |-> s]]
  BY DEF ClaimDataUpdate
<1> DEFINE w == WeekOf(now)
<1>2. /\ At(p, "idle") /\ UNCHANGED <<clock, record>>
      /\ w \in Weeks /\ now \in Nat /\ calendar \in Calendar
  BY ClockInWeeks DEF ClaimDataUpdate, Inv, TypeOK
<1>3. /\ calendar' \in Calendar
      /\ \A v \in Weeks : calendar'[v].accepted = calendar[v].accepted
      /\ \A v \in Weeks, t \in Slots :
           Slot(v, t)' = IF v = w
                         THEN IF t = s THEN NewClaim(now)
                              ELSE IF s = "wednesday" /\ Slot(v, t).status = "absent"
                                     THEN Missed(now) ELSE Slot(v, t)
                         ELSE Slot(v, t)
  BY <1>1, <1>2, ClaimSlotEffect DEF Slot
<1>4. /\ ~calendar[w].accepted
      /\ Slot(w, s).status = "absent"
      /\ s = "wednesday" => Slot(w, "tuesday").status \in {"absent", "failed"}
  BY <1>1 DEF Due, StatusOf, Slot
<1>5. /\ loop'[p].at = "claimed" /\ loop'[p].week = w /\ loop'[p].slot = s
      /\ \A q \in Procs : q # p => loop'[q] = loop[q]
  BY <1>1 DEF Inv, TypeOK
<1>6. TypeOK'
  BY <1>1, <1>2, <1>3 DEF Inv, TypeOK, LoopState, Steps
<1>7. NewClaim(now).status = "claimed" /\ ~NewClaim(now).fenced
      /\ NewClaim(now).owned
      /\ Missed(now).status = "failed" /\ ~Missed(now).fenced
  BY DEF NewClaim, Missed
<1>8. \A v \in Weeks, t \in Slots :
        Slot(v, t).status = "absent" => record[<<v, t>>] = "none" /\ ~Slot(v, t).fenced
  BY DEF Inv, ClaimFacts, ClaimFact
<1>9. \A q \in Procs : ~At(q, "idle") => Slot(loop[q].week, loop[q].slot).status # "absent"
  BY <1>8 DEF Inv, TypeOK, LoopFacts, LoopFact, LoopState, Steps, At
<1> DEFINE Changed(v, t) == /\ Slot(v, t).status = "absent"
                            /\ Slot(v, t)' \in {NewClaim(now), Missed(now)}
           Kept(v, t) == Slot(v, t)' = Slot(v, t) /\ ~(v = w /\ t = s)
<1>a. \A v \in Weeks, t \in Slots : Kept(v, t) \/ Changed(v, t)
  BY <1>3, <1>4
<1>10. ClaimFacts'
  <2> SUFFICES ASSUME NEW v \in Weeks, NEW t \in Slots
               PROVE  ClaimFact(v, t)'
    BY DEF ClaimFacts
  <2>1. CASE Kept(v, t)
    BY <2>1, <1>2 DEF Inv, ClaimFacts, ClaimFact
  <2>2. CASE Changed(v, t)
    BY <2>2, <1>2, <1>7, <1>8 DEF ClaimFact
  <2>3. QED  BY <1>a, <2>1, <2>2
<1>11. WeekFacts'
  <2>1. ASSUME NEW v \in Weeks, v # w
        PROVE  \A t \in Slots : Slot(v, t)' = Slot(v, t)
    BY <1>3, <2>1
  <2>2. /\ Slot(w, "wednesday")'.status # "absent" => Slot(w, "tuesday")'.status = "failed"
        /\ Slot(w, "tuesday")'.status # "succeeded"
        /\ Slot(w, "wednesday")'.status # "succeeded"
    BY <1>2, <1>3, <1>4, <1>7 DEF Inv, WeekFacts, Slots
  <2>3. QED  BY <1>2, <1>3, <1>4, <2>1, <2>2 DEF Inv, WeekFacts, Slots
<1>12. LoopFacts'
  <2>1. ASSUME NEW q \in Procs, q # p, ~At(q, "idle")
        PROVE  /\ Slot(loop[q].week, loop[q].slot)' = Slot(loop[q].week, loop[q].slot)
               /\ ~(loop[q].week = w /\ loop[q].slot = s)
    <3>1. PICK v \in Weeks, t \in Slots : v = loop[q].week /\ t = loop[q].slot
      BY DEF Inv, TypeOK, LoopState
    <3>2. Kept(v, t)
      BY <1>a, <1>9, <2>1, <3>1
    <3>3. loop'[q] = loop[q]
      BY <1>5, <2>1
    <3>4. QED  BY <3>1, <3>2, <3>3 DEF Slot
  <2>2. Slot(w, s)' = NewClaim(now) /\ record'[<<w, s>>] = "none"
    BY <1>2, <1>3, <1>4, <1>8
  <2>3. LoopFact(p)'
    <3>1. Slot(loop[p].week, loop[p].slot)' = NewClaim(now)
      BY <1>2, <1>5, <2>2 DEF Slot
    <3>2. record'[<<loop'[p].week, loop'[p].slot>>] = "none"
      BY <1>2, <1>5, <2>2
    <3>3. QED  BY <1>5, <1>7, <3>1, <3>2 DEF LoopFact, At
  <2>4. ASSUME NEW q \in Procs, q # p PROVE LoopFact(q)'
    BY <1>2, <1>5, <2>1, <2>4 DEF Inv, LoopFacts, LoopFact, At
  <2>5. OneHolder'
    BY <1>5, <2>1 DEF Inv, LoopFacts, OneHolder, At
  <2>6. QED  BY <2>3, <2>4, <2>5 DEF LoopFacts
<1>13. QED  BY <1>6, <1>10, <1>11, <1>12 DEF Inv

\* Processes may be forgotten without harm to what the files say.
LEMMA ForgetInv ==
  ASSUME Inv, UNCHANGED <<clock, calendar, record>>,
         NEW p \in Procs, Forget(p)
  PROVE  Inv'
<1>1. /\ \A q \in Procs : loop'[q] = IF q = p THEN Idle ELSE loop[q]
      /\ \A q \in Procs : q # p => loop'[q] = loop[q]
      /\ loop'[p] = Idle /\ Idle.at = "idle"
  BY DEF Inv, TypeOK, Forget, Idle
<1>2. Idle \in LoopState
  BY HorizonAssumption
  DEF Idle, LoopState, Steps, Slots, WeekOf, InstantsPerWeek, Inv, TypeOK
<1>3. TypeOK'
  BY <1>2 DEF Inv, TypeOK, Forget
<1>4. ClaimFacts' /\ WeekFacts'
  BY DEF Inv, ClaimFacts, ClaimFact, WeekFacts, Slot
<1>5. LoopFacts'
  BY <1>1 DEF Inv, LoopFacts, LoopFact, OneHolder, At, Slot
<1>6. QED  BY <1>3, <1>4, <1>5 DEF Inv

\* Deciding an active claim as its own completion record says keeps every fact.
LEMMA DecideInv ==
  ASSUME Inv, NEW w \in Weeks, NEW s \in Slots, NEW ok \in BOOLEAN,
         Claimed(calendar, w, s),
         record[<<w, s>>] = IF ok THEN "published" ELSE "refused",
         calendar' = Complete(calendar, w, s, ok),
         UNCHANGED <<clock, record>>,
         loop' \in [Procs -> LoopState],
         \A q \in Procs : loop'[q] \in {loop[q], Idle}
  PROVE  Inv'
<1> DEFINE outcome == IF ok THEN "succeeded" ELSE "failed"
           decided == WithStatus(calendar[w].slots[s], outcome)
           acceptance == IF ok THEN TRUE ELSE calendar[w].accepted
<1>1. Rewritten(calendar, calendar', w, s, decided, acceptance)
  BY CompleteEffect DEF Inv, TypeOK
<1>2. /\ calendar' \in Calendar
      /\ calendar'[w].accepted = acceptance
      /\ \A v \in Weeks : v # w => calendar'[v].accepted = calendar[v].accepted
      /\ Slot(w, s)' = decided
      /\ \A v \in Weeks, t \in Slots : v # w \/ t # s => Slot(v, t)' = Slot(v, t)
  BY <1>1 DEF Rewritten, Slot
<1>3. /\ decided.status = outcome
      /\ decided.fenced = Slot(w, s).fenced /\ decided.owned = Slot(w, s).owned
      /\ Slot(w, s).status = "claimed"
  BY DEF WithStatus, Slot, Claimed, StatusOf
<1>4. Slot(w, s).fenced
  BY DEF Inv, ClaimFacts, ClaimFact
<1> HIDE DEF decided
<1>5. TypeOK'
  BY <1>2 DEF Inv, TypeOK
<1>6. ClaimFacts'
  <2>1. ClaimFact(w, s)'
    BY <1>2, <1>3, <1>4 DEF Inv, ClaimFacts, ClaimFact
  <2>2. ASSUME NEW v \in Weeks, NEW t \in Slots, v # w \/ t # s
        PROVE  ClaimFact(v, t)'
    BY <1>2, <2>2 DEF Inv, ClaimFacts, ClaimFact
  <2>3. QED  BY <2>1, <2>2 DEF ClaimFacts
<1>7. WeekFacts'
  <2>1. ASSUME NEW v \in Weeks, v # w
        PROVE  \A t \in Slots : Slot(v, t)' = Slot(v, t)
    BY <1>2, <2>1
  <2>2. s = "tuesday" => /\ Slot(w, "wednesday")' = Slot(w, "wednesday")
                         /\ Slot(w, "wednesday").status = "absent"
    BY <1>2, <1>3 DEF Inv, WeekFacts, Slots
  <2>3. s = "wednesday" => /\ Slot(w, "tuesday")' = Slot(w, "tuesday")
                           /\ Slot(w, "tuesday").status = "failed"
    BY <1>2, <1>3 DEF Inv, WeekFacts, Slots
  <2>4. s \in {"tuesday", "wednesday"}
    BY DEF Slots
  <2>5. /\ Slot(w, "wednesday")'.status # "absent" => Slot(w, "tuesday")'.status = "failed"
        /\ calendar'[w].accepted <=>
             \/ Slot(w, "tuesday")'.status = "succeeded"
             \/ Slot(w, "wednesday")'.status = "succeeded"
    BY <1>2, <1>3, <2>2, <2>3, <2>4 DEF Inv, WeekFacts
  <2>6. QED  BY <1>2, <2>1, <2>5 DEF Inv, WeekFacts, Slots
\* A holder of this claim has published or refused; only the others read the slot.
<1>8. LoopFacts'
  <2>1. ASSUME NEW q \in Procs, loop'[q] = loop[q]
        PROVE  LoopFact(q)'
    <3>1. PICK v \in Weeks, t \in Slots : v = loop[q].week /\ t = loop[q].slot
      BY DEF Inv, TypeOK, LoopState
    <3>2. CASE At(q, "claimed") \/ At(q, "running")
      <4>1. record[<<v, t>>] = "none"
        BY <3>1, <3>2 DEF Inv, LoopFacts, LoopFact
      <4>2. Slot(v, t)' = Slot(v, t)
        BY <1>2, <4>1
      <4>3. QED  BY <2>1, <3>1, <4>2 DEF Inv, LoopFacts, LoopFact, At, Slot
    <3>3. CASE ~(At(q, "claimed") \/ At(q, "running"))
      BY <2>1, <3>3 DEF Inv, LoopFacts, LoopFact, At
    <3>4. QED  BY <3>2, <3>3
  <2>2. ASSUME NEW q \in Procs, loop'[q] = Idle
        PROVE  LoopFact(q)'
    BY <2>2 DEF LoopFact, At, Idle
  <2>3. OneHolder'
    BY DEF Inv, LoopFacts, OneHolder, At, Idle
  <2>4. QED  BY <2>1, <2>2, <2>3 DEF LoopFacts
<1>9. QED  BY <1>5, <1>6, <1>7, <1>8 DEF Inv

LEMMA LoopTyped ==
  ASSUME Inv, NEW p \in Procs
  PROVE  /\ loop[p] \in LoopState
         /\ loop[p].week \in Weeks /\ loop[p].slot \in Slots
         /\ <<loop[p].week, loop[p].slot>> \in Claims
  BY DEF Inv, TypeOK, LoopState, Claims

\* The fence is put up only on a claim that is still active.
LEMMA ProtectDataCompletionInv ==
  ASSUME Inv, NEW p \in Procs, ProtectDataCompletion(p)
  PROVE  Inv'
<1>1. PICK w \in Weeks, s \in Slots : w = loop[p].week /\ s = loop[p].slot
  BY LoopTyped
<1>2. CASE ~Claimed(calendar, w, s)
  BY <1>1, <1>2, ForgetInv DEF ProtectDataCompletion
<1>3. CASE Claimed(calendar, w, s)
  <2>1. /\ calendar' = Protect(calendar, w, s) /\ Go(p, "running")
        /\ At(p, "claimed") /\ UNCHANGED <<clock, record>>
    BY <1>1, <1>3 DEF ProtectDataCompletion
  <2>2. Rewritten(calendar, calendar', w, s, WithFence(calendar[w].slots[s]),
                  calendar[w].accepted)
    BY <2>1, ProtectEffect DEF Inv, TypeOK
  <2>3. /\ calendar' \in Calendar
        /\ \A v \in Weeks : calendar'[v].accepted = calendar[v].accepted
        /\ Slot(w, s)'.status = Slot(w, s).status
        /\ Slot(w, s)'.owned = Slot(w, s).owned
        /\ Slot(w, s)'.fenced
        /\ \A v \in Weeks, t \in Slots : v # w \/ t # s => Slot(v, t)' = Slot(v, t)
    BY <2>2 DEF Rewritten, Slot, WithFence
  <2>4. /\ loop'[p].at = "running" /\ loop'[p].week = w /\ loop'[p].slot = s
        /\ \A q \in Procs : q # p => loop'[q] = loop[q]
        /\ loop' \in [Procs -> LoopState]
    BY <1>1, <2>1 DEF Go, Inv, TypeOK, LoopState, Steps
  <2>5. Slot(w, s).status = "claimed" /\ record[<<w, s>>] = "none"
    BY <1>1, <1>3, <2>1 DEF Claimed, StatusOf, Slot, Inv, LoopFacts, LoopFact
  <2>6. TypeOK'
    BY <2>1, <2>3, <2>4 DEF Inv, TypeOK
  <2>7. ClaimFacts'
    <3>1. ClaimFact(w, s)'
      BY <2>1, <2>3, <2>5 DEF Inv, ClaimFacts, ClaimFact
    <3>2. ASSUME NEW v \in Weeks, NEW t \in Slots, v # w \/ t # s
          PROVE  ClaimFact(v, t)'
      BY <2>1, <2>3, <3>2 DEF Inv, ClaimFacts, ClaimFact
    <3>3. QED  BY <3>1, <3>2 DEF ClaimFacts
  <2>8. WeekFacts'
    <3>1. \A v \in Weeks, t \in Slots : Slot(v, t)'.status = Slot(v, t).status
      BY <2>3
    <3>2. QED  BY <2>3, <3>1 DEF Inv, WeekFacts, Slots
  <2>9. LoopFacts'
    <3>1. LoopFact(p)'
      <4>1. Slot(loop[p].week, loop[p].slot)' = Slot(w, s)'
        BY <2>4 DEF Slot
      <4>2. QED  BY <2>1, <2>3, <2>4, <2>5, <4>1 DEF LoopFact, At
    <3>2. ASSUME NEW q \in Procs, q # p PROVE LoopFact(q)'
      <4>1. CASE At(q, "idle")
        BY <2>4, <3>2, <4>1 DEF LoopFact, At
      <4>2. CASE ~At(q, "idle")
        <5>1. PICK v \in Weeks, t \in Slots : v = loop[q].week /\ t = loop[q].slot
          BY LoopTyped
        <5>2. v # w \/ t # s
          BY <1>1, <2>1, <3>2, <4>2, <5>1 DEF Inv, LoopFacts, OneHolder, At
        <5>3. Slot(loop[q].week, loop[q].slot)' = Slot(loop[q].week, loop[q].slot)
          BY <2>3, <2>4, <3>2, <5>1, <5>2 DEF Slot
        <5>4. QED  BY <2>1, <2>4, <3>2, <5>3 DEF Inv, LoopFacts, LoopFact, At
      <4>3. QED  BY <4>1, <4>2
    <3>3. OneHolder'
      BY <1>1, <2>1, <2>4 DEF Inv, LoopFacts, OneHolder, At
    <3>4. QED  BY <3>1, <3>2, <3>3 DEF LoopFacts
  <2>10. QED  BY <2>6, <2>7, <2>8, <2>9 DEF Inv
<1>4. QED  BY <1>2, <1>3

\* The cycle's own record is written while its claim is active and fenced.
LEMMA CycleEndsInv ==
  ASSUME Inv, NEW p \in Procs, NEW result \in {"published", "refused"},
         At(p, "running"),
         record' = [record EXCEPT ![<<loop[p].week, loop[p].slot>>] = result],
         Go(p, result),
         UNCHANGED <<clock, calendar>>
  PROVE  Inv'
<1>1. PICK w \in Weeks, s \in Slots : w = loop[p].week /\ s = loop[p].slot
  BY LoopTyped
<1>2. /\ loop'[p].at = result /\ loop'[p].week = w /\ loop'[p].slot = s
      /\ \A q \in Procs : q # p => loop'[q] = loop[q]
      /\ loop' \in [Procs -> LoopState]
  BY <1>1 DEF Go, Inv, TypeOK, LoopState, Steps
<1>3. Slot(w, s).status = "claimed" /\ Slot(w, s).fenced
  BY <1>1 DEF Inv, LoopFacts, LoopFact
<1>4. /\ record'[<<w, s>>] = result
      /\ \A v \in Weeks, t \in Slots : v # w \/ t # s => record'[<<v, t>>] = record[<<v, t>>]
      /\ record' \in [Claims -> {"none", "published", "refused"}]
  BY <1>1 DEF Inv, TypeOK, Claims
<1>5. TypeOK'
  BY <1>2, <1>4 DEF Inv, TypeOK
<1>6. ClaimFacts'
  <2>1. ClaimFact(w, s)'
    BY <1>3, <1>4 DEF Inv, ClaimFacts, ClaimFact, Slot
  <2>2. ASSUME NEW v \in Weeks, NEW t \in Slots, v # w \/ t # s
        PROVE  ClaimFact(v, t)'
    BY <1>4, <2>2 DEF Inv, ClaimFacts, ClaimFact, Slot
  <2>3. QED  BY <2>1, <2>2 DEF ClaimFacts
<1>7. WeekFacts'
  BY DEF Inv, WeekFacts, Slot
<1>8. LoopFacts'
  <2>1. LoopFact(p)'
    BY <1>2, <1>4 DEF LoopFact, At
  <2>2. ASSUME NEW q \in Procs, q # p PROVE LoopFact(q)'
    <3>1. CASE At(q, "idle")
      BY <1>2, <2>2, <3>1 DEF LoopFact, At
    <3>2. CASE ~At(q, "idle")
      <4>1. PICK v \in Weeks, t \in Slots : v = loop[q].week /\ t = loop[q].slot
        BY LoopTyped
      <4>2. v # w \/ t # s
        BY <1>1, <2>2, <3>2, <4>1 DEF Inv, LoopFacts, OneHolder, At
      <4>3. record'[<<v, t>>] = record[<<v, t>>] /\ loop'[q] = loop[q]
        BY <1>2, <1>4, <2>2, <4>2
      <4>4. QED  BY <4>1, <4>3 DEF Inv, LoopFacts, LoopFact, At, Slot
    <3>3. QED  BY <3>1, <3>2
  <2>3. OneHolder'
    BY <1>1, <1>2 DEF Inv, LoopFacts, OneHolder, At
  <2>4. QED  BY <2>1, <2>2, <2>3 DEF LoopFacts
<1>9. QED  BY <1>5, <1>6, <1>7, <1>8 DEF Inv

LEMMA CompleteDataUpdateInv ==
  ASSUME Inv, NEW p \in Procs, CompleteDataUpdate(p)
  PROVE  Inv'
<1>1. PICK w \in Weeks, s \in Slots : w = loop[p].week /\ s = loop[p].slot
  BY LoopTyped
<1> DEFINE ok == At(p, "published")
<1>2. /\ Forget(p) /\ UNCHANGED <<clock, record>>
      /\ loop[p].at \in {"published", "refused"}
      /\ calendar' \in {calendar, Complete(calendar, w, s, ok)}
  BY <1>1 DEF CompleteDataUpdate
<1>3. CASE calendar' = calendar
  BY <1>2, <1>3, ForgetInv
<1>4. CASE calendar' = Complete(calendar, w, s, ok) /\ calendar' # calendar
  <2>1. Claimed(calendar, w, s) /\ ok \in BOOLEAN
    BY <1>4, CompleteEffect DEF Inv, TypeOK, At
  <2>2. record[<<w, s>>] = IF ok THEN "published" ELSE "refused"
    BY <1>1, <1>2 DEF Inv, LoopFacts, LoopFact, At
  <2>3. /\ loop' \in [Procs -> LoopState]
        /\ \A q \in Procs : loop'[q] \in {loop[q], Idle}
    BY <1>2, HorizonAssumption
    DEF Forget, Inv, TypeOK, Idle, LoopState, Steps, Slots, WeekOf, InstantsPerWeek
  <2>4. QED  BY <1>2, <1>4, <2>1, <2>2, <2>3, DecideInv
<1>5. QED  BY <1>2, <1>3, <1>4

LEMMA ReconcileCompletionInv ==
  ASSUME Inv, NEW c \in Claims, ReconcileCompletion(c)
  PROVE  Inv'
<1>1. PICK w \in Weeks, s \in Slots : c = <<w, s>>
  BY DEF Claims
<1> DEFINE ok == record[c] = "published"
<1>2. /\ Claimed(calendar, w, s) /\ calendar' = Complete(calendar, w, s, ok)
      /\ record[<<w, s>>] # "none" /\ UNCHANGED <<clock, loop, record>>
  BY <1>1 DEF ReconcileCompletion
<1>3. record[<<w, s>>] = IF ok THEN "published" ELSE "refused"
  BY <1>1, <1>2 DEF Inv, TypeOK, Claims
<1>4. /\ loop' \in [Procs -> LoopState]
      /\ \A q \in Procs : loop'[q] \in {loop[q], Idle}
  BY <1>2 DEF Inv, TypeOK
<1>5. ok \in BOOLEAN
  OBVIOUS
<1>6. QED  BY <1>2, <1>3, <1>4, <1>5, DecideInv

\* A lease only fails claims that no fence protects, so none that can publish.
LEMMA ReconcileStaleClaimsInv ==
  ASSUME Inv, NEW now \in 0 .. clock, ReconcileStaleClaims(now)
  PROVE  Inv'
<1> DEFINE stale(v, t) == Stale(calendar, now, Lease, v, t)
<1>1. /\ calendar' = ReconcileStale(calendar, now, Lease)
      /\ UNCHANGED <<clock, loop, record>>
      /\ now \in Nat /\ Lease \in Nat /\ calendar \in Calendar
  BY ClockInWeeks, LeaseAssumption DEF ReconcileStaleClaims, Inv, TypeOK
<1>2. /\ calendar' \in Calendar
      /\ \A v \in Weeks : calendar'[v].accepted = calendar[v].accepted
      /\ \A v \in Weeks, t \in Slots :
           Slot(v, t)' = IF stale(v, t) THEN WithStatus(Slot(v, t), "failed") ELSE Slot(v, t)
  BY <1>1, ReconcileStaleEffect DEF Slot
<1>3. \A v \in Weeks, t \in Slots :
        stale(v, t) => Slot(v, t).status = "claimed" /\ ~Slot(v, t).fenced
  BY DEF Stale, Claimed, StatusOf, Slot
<1>4. \A a : /\ WithStatus(a, "failed").status = "failed"
             /\ WithStatus(a, "failed").fenced = a.fenced
             /\ WithStatus(a, "failed").owned = a.owned
  BY DEF WithStatus
<1> HIDE DEF stale
<1>5. TypeOK'
  BY <1>1, <1>2 DEF Inv, TypeOK
<1>6. ClaimFacts'
  <2> SUFFICES ASSUME NEW v \in Weeks, NEW t \in Slots PROVE ClaimFact(v, t)'
    BY DEF ClaimFacts
  <2>1. ClaimFact(v, t)
    BY DEF Inv, ClaimFacts
  <2>2. CASE stale(v, t)
    BY <1>1, <1>2, <1>3, <1>4, <2>1, <2>2 DEF ClaimFact
  <2>3. CASE ~stale(v, t)
    BY <1>1, <1>2, <2>1, <2>3 DEF ClaimFact
  <2>4. QED  BY <2>2, <2>3
<1>7. WeekFacts'
  <2>1. ASSUME NEW v \in Weeks, NEW t \in Slots
        PROVE  /\ Slot(v, t)'.status = "absent" <=> Slot(v, t).status = "absent"
               /\ Slot(v, t)'.status = "succeeded" <=> Slot(v, t).status = "succeeded"
               /\ Slot(v, t).status = "failed" => Slot(v, t)'.status = "failed"
    BY <1>2, <1>3, <1>4
  <2>2. QED  BY <1>2, <2>1 DEF Inv, WeekFacts, Slots
<1>8. LoopFacts'
  <2>1. ASSUME NEW p \in Procs PROVE LoopFact(p)'
    <3>1. PICK v \in Weeks, t \in Slots : v = loop[p].week /\ t = loop[p].slot
      BY LoopTyped
    <3>2. Slot(loop[p].week, loop[p].slot)' = Slot(v, t)'
      BY <1>1, <3>1 DEF Slot
    <3>3. CASE stale(v, t)
      BY <1>1, <1>2, <1>3, <1>4, <3>1, <3>2, <3>3 DEF Inv, LoopFacts, LoopFact, At
    <3>4. CASE ~stale(v, t)
      BY <1>1, <1>2, <3>1, <3>2, <3>4 DEF Inv, LoopFacts, LoopFact, At
    <3>5. QED  BY <3>3, <3>4
  <2>2. OneHolder'
    BY <1>1 DEF Inv, LoopFacts, OneHolder, At
  <2>3. QED  BY <2>1, <2>2 DEF LoopFacts
<1>9. QED  BY <1>5, <1>6, <1>7, <1>8 DEF Inv

LEMMA ScheduleStepInv == Inv /\ [Next]_vars => Inv'
<1> SUFFICES ASSUME Inv, [Next]_vars PROVE Inv'
  OBVIOUS
<1>1. CASE Advance
  BY <1>1, AdvanceInv
<1>2. ASSUME NEW p \in Procs, NEW now \in 0 .. clock, ClaimDataUpdate(p, now) PROVE Inv'
  BY <1>2, ClaimDataUpdateInv
<1>3. ASSUME NEW p \in Procs, ProtectDataCompletion(p) PROVE Inv'
  BY <1>3, ProtectDataCompletionInv
<1>4. ASSUME NEW p \in Procs, Publish(p) PROVE Inv'
  BY <1>4, CycleEndsInv DEF Publish
<1>5. ASSUME NEW p \in Procs, Refuse(p) PROVE Inv'
  BY <1>5, CycleEndsInv DEF Refuse
<1>6. ASSUME NEW p \in Procs, CompleteDataUpdate(p) PROVE Inv'
  BY <1>6, CompleteDataUpdateInv
<1>7. ASSUME NEW p \in Procs, Interrupt(p) PROVE Inv'
  BY <1>7, ForgetInv DEF Interrupt
<1>8. ASSUME NEW c \in Claims, ReconcileCompletion(c) PROVE Inv'
  BY <1>8, ReconcileCompletionInv
<1>9. ASSUME NEW now \in 0 .. clock, ReconcileStaleClaims(now) PROVE Inv'
  BY <1>9, ReconcileStaleClaimsInv
<1>10. CASE UNCHANGED vars
  BY <1>10 DEF vars, Inv, TypeOK, ClaimFacts, ClaimFact, WeekFacts, LoopFacts, LoopFact,
               OneHolder, Slot, At
<1>11. QED
  BY <1>1, <1>2, <1>3, <1>4, <1>5, <1>6, <1>7, <1>8, <1>9, <1>10 DEF Next

LEMMA ScheduleAlwaysInv == Spec => []Inv
  BY ScheduleInitInv, ScheduleStepInv, PTL DEF Spec

\* The calendar file, its callers and their records keep their types.
THEOREM ScheduleTypeCorrect == Spec => []TypeOK
<1>1. Inv => TypeOK  BY DEF Inv
<1>2. QED  BY <1>1, ScheduleAlwaysInv, PTL

\* A lease, a crash or a late result never turns a published update into a failure.
THEOREM PublishedNeverFails == Spec => []PublishedNeverFailed
<1>1. Inv => PublishedNeverFailed
  <2> SUFFICES ASSUME Inv, NEW c \in Claims, record[c] = "published"
               PROVE  StatusOf(calendar, c[1], c[2]) \in {"claimed", "succeeded"}
    BY DEF PublishedNeverFailed
  <2>1. PICK w \in Weeks, s \in Slots : c = <<w, s>>
    BY DEF Claims
  <2>2. QED  BY <2>1 DEF Inv, ClaimFacts, ClaimFact, Slot, StatusOf
<1>2. QED  BY <1>1, ScheduleAlwaysInv, PTL

\* A week is published at most once, for any number of processes and any lease: a
\* Wednesday claim only exists beside a Tuesday that failed for good.
THEOREM PublishesOncePerWeek == Spec => []OnePublicationPerWeek
<1>1. Inv => OnePublicationPerWeek
  <2> SUFFICES ASSUME Inv, NEW w \in Weeks,
                      record[<<w, "tuesday">>] = "published",
                      record[<<w, "wednesday">>] = "published"
               PROVE  FALSE
    BY DEF OnePublicationPerWeek
  <2>1. /\ Slot(w, "tuesday").status \in {"claimed", "succeeded"}
        /\ Slot(w, "wednesday").status \in {"claimed", "succeeded"}
    BY DEF Inv, ClaimFacts, ClaimFact, Slots
  <2>2. QED  BY <2>1 DEF Inv, WeekFacts
<1>2. QED  BY <1>1, ScheduleAlwaysInv, PTL

\* A week counts as accepted exactly when one of its published slots succeeded.
THEOREM AcceptanceIsTrue == Spec => []AcceptedMeansPublished
<1>1. Inv => AcceptedMeansPublished
  BY DEF Inv, ClaimFacts, ClaimFact, WeekFacts, AcceptedMeansPublished, Slot, StatusOf, Slots
<1>2. QED  BY <1>1, ScheduleAlwaysInv, PTL

\* At most one process is inside the publication-capable part of a week's update.
THEOREM RunsOneAtATime == Spec => []OneRunnerPerWeek
<1>1. Inv => OneRunnerPerWeek
  <2> SUFFICES ASSUME Inv, NEW p \in Procs, NEW q \in Procs,
                      At(p, "running"), At(q, "running"), loop[p].week = loop[q].week
               PROVE  p = q
    BY DEF OneRunnerPerWeek
  <2>1. PICK w \in Weeks : w = loop[p].week /\ w = loop[q].week
    BY LoopTyped
  <2>2. /\ Slot(w, loop[p].slot).status = "claimed"
        /\ Slot(w, loop[q].slot).status = "claimed"
    BY <2>1 DEF Inv, LoopFacts, LoopFact
  <2>3. loop[p].slot \in {"tuesday", "wednesday"} /\ loop[q].slot \in {"tuesday", "wednesday"}
    BY LoopTyped DEF Slots
  <2>4. loop[p].slot = loop[q].slot
    BY <2>2, <2>3 DEF Inv, WeekFacts
  <2>5. QED  BY <2>4 DEF Inv, LoopFacts, OneHolder, At
<1>2. QED  BY <1>1, ScheduleAlwaysInv, PTL

\* No step rewrites a slot that is recorded as succeeded or failed.
LEMMA StepKeepsDecision ==
  ASSUME Inv, Next, NEW w \in Weeks, NEW s \in Slots,
         calendar[w].slots[s].status \in {"succeeded", "failed"}
  PROVE  calendar'[w].slots[s].status = calendar[w].slots[s].status
<1> USE DEF Inv, TypeOK
<1>1. CASE calendar' = calendar
  BY <1>1
<1>2. ASSUME NEW p \in Procs, NEW now \in 0 .. clock, ClaimDataUpdate(p, now)
      PROVE  calendar'[w].slots[s].status = calendar[w].slots[s].status
  <2>1. PICK t \in Slots : Due(calendar, now, t) /\ calendar' = ClaimSlot(calendar, now, t)
    BY <1>2 DEF ClaimDataUpdate
  <2>2. ~(w = WeekOf(now) /\ s = t)
    BY <2>1 DEF Due, StatusOf
  <2>3. calendar'[w].slots[s] = calendar[w].slots[s]
    BY <2>1, <2>2, ClockInWeeks, ClaimSlotEffect
  <2>4. QED  BY <2>3
<1>3. ASSUME NEW v \in Weeks, NEW t \in Slots, calendar' = Protect(calendar, v, t)
      PROVE  calendar'[w].slots[s].status = calendar[w].slots[s].status
  <2>1. Rewritten(calendar, calendar', v, t, WithFence(calendar[v].slots[t]),
                  calendar[v].accepted)
    BY <1>3, ProtectEffect
  <2>2. calendar'[w].slots[s] \in {calendar[w].slots[s], WithFence(calendar[w].slots[s])}
    BY <2>1 DEF Rewritten
  <2>3. QED  BY <2>2 DEF WithFence
<1>4. ASSUME NEW v \in Weeks, NEW t \in Slots, NEW ok \in BOOLEAN,
             calendar' = Complete(calendar, v, t, ok)
      PROVE  calendar'[w].slots[s].status = calendar[w].slots[s].status
  <2>1. CASE ~Claimed(calendar, v, t)
    BY <1>4, <2>1, CompleteEffect
  <2>2. CASE Claimed(calendar, v, t)
    <3>1. w # v \/ s # t
      BY <2>2 DEF Claimed, StatusOf
    <3>2. PICK attempt, acceptance : Rewritten(calendar, calendar', v, t, attempt, acceptance)
      BY <1>4, <2>2, CompleteEffect
    <3>3. calendar'[w].slots[s] = calendar[w].slots[s]
      BY <3>1, <3>2 DEF Rewritten
    <3>4. QED  BY <3>3
  <2>3. QED  BY <2>1, <2>2
<1>5. ASSUME NEW now \in 0 .. clock, ReconcileStaleClaims(now)
      PROVE  calendar'[w].slots[s].status = calendar[w].slots[s].status
  <2>1. ~Stale(calendar, now, Lease, w, s)
    BY DEF Stale, Claimed, StatusOf
  <2>2. now \in Nat /\ Lease \in Nat /\ calendar' = ReconcileStale(calendar, now, Lease)
    BY <1>5, ClockInWeeks, LeaseAssumption DEF ReconcileStaleClaims
  <2>3. calendar'[w].slots[s] = calendar[w].slots[s]
    BY <2>1, <2>2, ReconcileStaleEffect
  <2>4. QED  BY <2>3
<1>6. ASSUME NEW p \in Procs, ProtectDataCompletion(p)
      PROVE  calendar'[w].slots[s].status = calendar[w].slots[s].status
  <2>1. PICK v \in Weeks, t \in Slots : v = loop[p].week /\ t = loop[p].slot
    BY LoopTyped
  <2>2. QED  BY <1>1, <1>3, <1>6, <2>1 DEF ProtectDataCompletion
<1>7. ASSUME NEW p \in Procs, CompleteDataUpdate(p)
      PROVE  calendar'[w].slots[s].status = calendar[w].slots[s].status
  <2>1. PICK v \in Weeks, t \in Slots : v = loop[p].week /\ t = loop[p].slot
    BY LoopTyped
  <2>2. calendar' \in {calendar, Complete(calendar, v, t, At(p, "published"))}
    BY <1>7, <2>1 DEF CompleteDataUpdate
  <2>3. At(p, "published") \in BOOLEAN
    BY DEF At
  <2>4. QED  BY <1>1, <1>4, <2>2, <2>3
<1>8. ASSUME NEW c \in Claims, ReconcileCompletion(c)
      PROVE  calendar'[w].slots[s].status = calendar[w].slots[s].status
  <2>1. PICK v \in Weeks, t \in Slots : c = <<v, t>>
    BY DEF Claims
  <2>2. calendar' = Complete(calendar, v, t, record[c] = "published")
    BY <1>8, <2>1 DEF ReconcileCompletion
  <2>3. QED  BY <1>4, <2>2
<1>9. (Advance \/ \E p \in Procs : Publish(p) \/ Refuse(p) \/ Interrupt(p)) => calendar' = calendar
  BY DEF Advance, Publish, Refuse, Interrupt
<1>10. QED  BY <1>1, <1>2, <1>5, <1>6, <1>7, <1>8, <1>9 DEF Next

\* A decided slot keeps its decision against late, repeated or conflicting results.
THEOREM DecisionsAreFinal == Spec => DecidedIsFinal
<1> DEFINE Kept == \A w \in Weeks, s \in Slots :
                     StatusOf(calendar, w, s) \in {"succeeded", "failed"}
                       => StatusOf(calendar', w, s) = StatusOf(calendar, w, s)
<1>1. Inv /\ [Next]_vars => [Kept]_vars
  BY StepKeepsDecision DEF StatusOf
<1>2. QED  BY <1>1, ScheduleAlwaysInv, PTL DEF Spec, DecidedIsFinal
=============================================================================
