------------------------- MODULE TradingHost_proofs -------------------------
(***************************************************************************)
(* Proofs about the trading host, for any bounds.                          *)
(***************************************************************************)
EXTENDS TradingHost, TLAPS

Finished == {"waiting", "degraded", "blocked"}

InCycle == {"evaluate", "run", "latest", "report", "receipt", "status"}

(* The steps taken under trading-worker.lock. *)
Holding == InLoop \cup {"starting", "finally"}

-----------------------------------------------------------------------------
(* Who may write.  A worker past its last look at its parent has asked for a signal,
   so when the parent goes it can only leave; and it owns the lock before it writes. *)
WorkerPlace(i) ==
    /\ worker[i].pc = "none" <=> i > start
    /\ i <= start => worker[i].pid > 0
    /\ worker[i].pc \in Holding <=> lock = i
    /\ worker[i].pc \in Holding \cup {"recheck", "lock"} => worker[i].guard
    /\ worker[i].pc \in (Holding \ {"finally"}) \cup {"lock"} /\ ~HasParent(i) => worker[i].term
    /\ worker[i].pc \in Holding => status.owner <= i

StatusOwner ==
    /\ status.owner <= start
    /\ status.pid = IF status.owner = 0 THEN 0 ELSE worker[status.owner].pid

Places ==
    /\ sup # "down" => start > 0
    /\ \A i \in Starts : WorkerPlace(i)
    /\ StatusOwner

(* What the files say of the lock holder's cycle. *)
CycleFiles(i) ==
    LET w == worker[i]
    IN  /\ w.pc \in InCycle => w.cycle.owner = i /\ status.kind = "evaluating"
        /\ w.pc \in {"evaluate", "run", "latest"} => latest.id < w.cycle.id /\ w.cycle.id <= made
        /\ w.pc \in {"report", "receipt", "status"} => latest = w.cycle
        /\ w.pc \in {"receipt", "status"} => report = w.cycle.id
        /\ w.pc = "status" => w.cycle.id \in receipts

StatusCycle ==
    /\ status.kind \in Finished => status.cycle.owner = status.owner
    /\ status.ready => status.kind = "waiting"
    /\ status.kind = "waiting" => status.cycle.outcome \in {"clean", "paused"}
    /\ status.kind = "blocked" => status.cycle.outcome = "blocked"

Files ==
    /\ latest.id <= made
    /\ FinishedCycleIsOnDisk
    /\ StatusCycle
    /\ \A i \in Starts : CycleFiles(i)

(* What a worker remembers of its last failure. *)
Remembered(i) ==
    LET w == worker[i]
    IN  /\ w.failure \in Stages => w.pc \in InLoop /\ (w.failure \in active \/ w.dropped)
        /\ w.pc \in {"recover", "sleep"} => w.failure = Failure(w.cycle.outcome)

Failures == \A i \in Starts : Remembered(i)

(* What a request has read. *)
Answers ==
    /\ request.pc # "idle" => sup = "serving"
    /\ request.pc \in {"report", "observing", "ready"} /\ ~PidReused =>
          request.status.cycle.owner = start
    /\ request.pc = "ready" /\ ~PidReused => request.status.cycle.outcome \in {"clean", "paused"}
    /\ request.pc \in {"report", "observing"} => request.status.cycle.outcome = "blocked"
    /\ request.pc = "report" =>
          /\ request.status.cycle.id <= latest.id
          /\ latest.id = request.status.cycle.id => latest = request.status.cycle
    /\ request.pc = "observing" => request.status.cycle.generation = request.publication

-----------------------------------------------------------------------------
(* Types. *)

LEMMA Bounds == /\ MaxStarts \in Nat /\ MaxCycles \in Nat
                /\ MaxPublications \in Nat /\ MaxCrashes \in Nat /\ MaxPublications > 0
  BY HostAssumption DEF HostAssumption

LEMMA NoCycleTyped == NoCycle \in Cycle
  BY Bounds DEF NoCycle, Cycle, Outcomes

LEMMA NoWorkerTyped == NoWorker \in Worker
  BY NoCycleTyped, Bounds DEF NoWorker, Worker, Steps

LEMMA NoStatusTyped == NoStatus \in Status
  BY NoCycleTyped, Bounds DEF NoStatus, Status

LEMMA IdleTyped == Idle \in Request
  BY NoStatusTyped, Bounds DEF Idle, Request

LEMMA DeadTyped ==
  ASSUME NEW w \in Worker
  PROVE  /\ Dead(w) \in Worker /\ Dead(w).pc = "dead" /\ Dead(w).pid = w.pid
         /\ Dead(w).failure = "none"
  BY NoWorkerTyped DEF Dead, NoWorker, Worker, Steps

LEMMA BootTyped ==
  ASSUME NEW p \in 1 .. MaxStarts
  PROVE  [NoWorker EXCEPT !.pc = "boot", !.pid = p] \in Worker
<1>1. p \in 0 .. MaxStarts
  BY Bounds
<1>2. [NoWorker EXCEPT !.pid = p] \in Worker
  BY <1>1, NoWorkerTyped DEF Worker
<1>3. ASSUME NEW w \in Worker
      PROVE  [w EXCEPT !.pc = "boot"] \in Worker
  BY DEF Worker, Steps
<1>4. [NoWorker EXCEPT !.pc = "boot", !.pid = p] = [[NoWorker EXCEPT !.pid = p] EXCEPT !.pc = "boot"]
  BY DEF NoWorker
<1> QED BY <1>2, <1>3, <1>4

LEMMA InitTypeOK == Init => TypeOK
<1> SUFFICES ASSUME Init PROVE TypeOK
  OBVIOUS
<1>1. thread \in BOOLEAN
  BY Zenon DEF Init
<1> QED BY <1>1, Bounds, NoCycleTyped, NoWorkerTyped, NoStatusTyped, IdleTyped DEF Init, TypeOK

(* One worker changes, to a worker. *)
LEMMA OneWorkerTyped ==
  ASSUME worker \in [Starts -> Worker], NEW i \in Starts, NEW w \in Worker,
         worker' = [worker EXCEPT ![i] = w]
  PROVE  worker' \in [Starts -> Worker]
  OBVIOUS

LEMMA SupervisorTyped ==
  ASSUME TypeOK, Places,
         \/ Start \/ StopAsked \/ SeeDead \/ Terminate \/ Reap
         \/ SupervisorDies \/ WorkerDies \/ ThreadDies \/ MachineDies \/ Publish
  PROVE  TypeOK'
<1> USE Bounds, NoWorkerTyped, IdleTyped, DeadTyped DEF TypeOK, files, Starts
<1>1. CASE Start
  <2> PICK p \in 1 .. start' \ {worker[i].pid : i \in {j \in Starts : Running(j)}} :
         worker' = [worker EXCEPT ![start + 1] = [NoWorker EXCEPT !.pc = "boot", !.pid = p]]
    BY <1>1 DEF Start
  <2>a. /\ start < MaxStarts /\ start' = start + 1 /\ sup' = "serving"
        /\ UNCHANGED <<lock, status, files, active, published, request, made, crashes>>
    BY <1>1, Zenon DEF Start
  <2>b. p \in 1 .. start'
    OBVIOUS
  <2>0. start' \in 1 .. MaxStarts /\ p \in 1 .. MaxStarts
    BY <2>a, <2>b
  <2>1. [NoWorker EXCEPT !.pc = "boot", !.pid = p] \in Worker
    BY <2>0, BootTyped
  <2>2. worker' \in [Starts -> Worker]
    BY <2>1
  <2>3. thread' \in BOOLEAN
    BY <1>1, Zenon DEF Start
  <2> QED BY <2>a, <2>0, <2>2, <2>3
<1>2. CASE StopAsked
  BY <1>2 DEF StopAsked
<1>3. CASE SeeDead
  BY <1>3 DEF SeeDead
<1>4. CASE Terminate
  <2>1. start \in Starts
    BY <1>4 DEF Terminate, Places
  <2>2. [worker[start] EXCEPT !.term = TRUE] \in Worker
    BY <2>1 DEF Worker
  <2>3. worker' \in [Starts -> Worker]
    BY <1>4, <2>2 DEF Terminate
  <2> QED BY <1>4, <2>3 DEF Terminate
<1>5. CASE Reap
  <2>1. start \in Starts
    BY <1>5 DEF Reap, Places
  <2>2. worker' \in [Starts -> Worker]
    BY <1>5, <2>1 DEF Reap
  <2>3. thread' \in BOOLEAN
    BY <1>5, Zenon DEF Reap
  <2> QED BY <1>5, <2>2, <2>3 DEF Reap
<1>6. CASE SupervisorDies
  <2>1. start \in Starts
    BY <1>6 DEF SupervisorDies, Places
  <2>2. (Running(start) /\ (worker[start].term \/ worker[start].guard)) \in BOOLEAN
    BY <2>1 DEF Worker, Running
  <2>3. worker' \in [Starts -> Worker]
    BY <1>6, <2>1, <2>2 DEF SupervisorDies, Worker
  <2>4. thread' \in BOOLEAN
    BY <1>6, Zenon DEF SupervisorDies
  <2> QED BY <1>6, <2>3, <2>4 DEF SupervisorDies
<1>7. CASE WorkerDies
  <2>1. worker' \in [Starts -> Worker] /\ lock' \in 0 .. MaxStarts
    BY <1>7 DEF WorkerDies
  <2> QED BY <1>7, <2>1 DEF WorkerDies
<1>8. CASE ThreadDies
  <2>1. thread' \in BOOLEAN
    BY <1>8, Zenon DEF ThreadDies
  <2> QED BY <1>8, <2>1 DEF ThreadDies
<1>9. CASE MachineDies
  <2>1. worker' \in [Starts -> Worker]
    BY <1>9 DEF MachineDies
  <2>2. thread' \in BOOLEAN
    BY <1>9, Zenon DEF MachineDies
  <2> QED BY <1>9, <2>1, <2>2 DEF MachineDies
<1>10. CASE Publish
  BY <1>10 DEF Publish
<1> QED BY <1>1, <1>2, <1>3, <1>4, <1>5, <1>6, <1>7, <1>8, <1>9, <1>10

LEMMA GotoTyped ==
  ASSUME worker \in [Starts -> Worker], NEW i \in Starts, NEW label \in Steps, Goto(i, label)
  PROVE  worker' \in [Starts -> Worker]
  BY DEF Goto, Worker

LEMMA ExitTyped ==
  ASSUME worker \in [Starts -> Worker], NEW i \in Starts, Exit(i)
  PROVE  worker' \in [Starts -> Worker]
  BY DeadTyped DEF Exit

LEMMA LeaveTyped ==
  ASSUME worker \in [Starts -> Worker], lock \in 0 .. MaxStarts, NEW i \in Starts, Leave(i)
  PROVE  worker' \in [Starts -> Worker] /\ lock' \in 0 .. MaxStarts
  BY ExitTyped, Bounds DEF Leave

LEMMA UnwindTyped ==
  ASSUME worker \in [Starts -> Worker], NEW i \in Starts, Unwind(i)
  PROVE  worker' \in [Starts -> Worker]
<1> DEFINE w == [NoWorker EXCEPT !.pc = "finally", !.pid = worker[i].pid, !.guard = worker[i].guard]
<1>1. w \in Worker
  BY NoCycleTyped DEF NoWorker, Worker, Steps
<1> QED BY <1>1 DEF Unwind

LEMMA WriteStatusTyped ==
  ASSUME worker \in [Starts -> Worker], NEW i \in Starts, NEW cycle \in Cycle,
         NEW kind \in {"starting", "evaluating", "waiting", "blocked", "degraded", "stopped"},
         WriteStatus(i, kind, cycle)
  PROVE  status' \in Status
<1>1. i \in 0 .. MaxStarts /\ worker[i].pid \in 0 .. MaxStarts
  BY Bounds DEF Starts, Worker
<1>2. (kind = "waiting") \in BOOLEAN
  OBVIOUS
<1> QED BY <1>1, <1>2 DEF WriteStatus, Status

LEMMA IdentityTyped ==
  ASSUME NEW c \in Cycle, NEW n \in 0 .. MaxCycles, NEW i \in 1 .. MaxStarts
  PROVE  [c EXCEPT !.id = n, !.owner = i] \in Cycle
<1>1. i \in 0 .. MaxStarts
  BY Bounds
<1> QED BY <1>1 DEF Cycle

LEMMA CycleTyped ==
  ASSUME NEW w \in Worker, NEW label \in Steps, NEW c \in Cycle
  PROVE  [w EXCEPT !.pc = label, !.cycle = c] \in Worker
  BY DEF Worker

LEMMA WorkerStepTyped ==
  ASSUME TypeOK, NEW i \in Starts, WorkerStep(i)
  PROVE  TypeOK'
<1> USE Bounds, NoCycleTyped DEF TypeOK, files, host
<1>1. CASE TakeSignal(i)
  <2>1. worker' \in [Starts -> Worker] /\ lock' \in 0 .. MaxStarts
    <3>1. CASE worker[i].pc \in InLoop
      BY <1>1, <3>1, UnwindTyped DEF TakeSignal
    <3>2. CASE worker[i].pc \notin InLoop
      BY <1>1, <3>2, LeaveTyped DEF TakeSignal
    <3> QED BY <3>1, <3>2
  <2> QED BY <1>1, <2>1 DEF TakeSignal
<1>2. CASE CheckParent(i)
  BY <1>2, GotoTyped, ExitTyped DEF CheckParent, Steps
<1>3. CASE InstallGuard(i)
  <2>1. [worker[i] EXCEPT !.pc = "recheck", !.guard = TRUE] \in Worker
    BY DEF Worker, Steps
  <2>2. worker' = [worker EXCEPT ![i] = [worker[i] EXCEPT !.pc = "recheck", !.guard = TRUE]]
    BY <1>3 DEF InstallGuard, Worker
  <2>3. worker' \in [Starts -> Worker]
    BY <2>1, <2>2
  <2> QED BY <1>3, <2>3 DEF InstallGuard
<1>4. CASE Recheck(i)
  BY <1>4, GotoTyped, ExitTyped DEF Recheck, Steps
<1>5. CASE AcquireLock(i)
  <2>1. lock' \in 0 .. MaxStarts
    BY <1>5 DEF AcquireLock, Starts
  <2> QED BY <1>5, <2>1, GotoTyped, ExitTyped DEF AcquireLock, Steps
<1>6. CASE WriteStarting(i)
  BY <1>6, GotoTyped, WriteStatusTyped DEF WriteStarting, Steps
<1>7. CASE LeaveLoop(i)
  BY <1>7, UnwindTyped DEF LeaveLoop
<1>8. CASE WriteStopped(i)
  BY <1>8, LeaveTyped, WriteStatusTyped DEF WriteStopped
<1>9. CASE BeginCycle(i)
  <2>1. made' \in 0 .. MaxCycles
    BY <1>9 DEF BeginCycle
  <2>2. [NoCycle EXCEPT !.id = made', !.owner = i] \in Cycle
    BY <2>1, IdentityTyped DEF Starts
  <2>3. worker' \in [Starts -> Worker]
    BY <1>9, <2>2, CycleTyped DEF BeginCycle, Steps
  <2>4. status' \in Status
    BY <1>9, WriteStatusTyped DEF BeginCycle
  <2> QED BY <1>9, <2>1, <2>3, <2>4 DEF BeginCycle
<1>10. ASSUME NEW outcome \in Outcomes, EndWith(i, outcome)
       PROVE  worker' \in [Starts -> Worker]
  <2> DEFINE g == IF outcome = "blocked" THEN worker[i].cycle.generation ELSE 0
             c == [worker[i].cycle EXCEPT !.outcome = outcome, !.generation = g]
  <2>1. worker[i].cycle \in Cycle /\ g \in 0 .. MaxPublications
    BY Bounds DEF Worker, Cycle
  <2>2. worker' = [worker EXCEPT ![i] = [worker[i] EXCEPT !.pc = "latest", !.cycle = c]]
    BY <1>10 DEF EndWith, Worker, Cycle
  <2> HIDE DEF g
  <2>3. c \in Cycle
    BY <2>1 DEF Cycle
  <2> HIDE DEF c
  <2> QED BY <2>2, <2>3, CycleTyped DEF Steps
<1>11. CASE SkipCycle(i)
  BY <1>11, <1>10 DEF SkipCycle, Outcomes
<1>12. CASE ReadSnapshot(i)
  <2>1. [worker[i].cycle EXCEPT !.generation = published] \in Cycle
    BY DEF Worker, Cycle
  <2>2. worker' = [worker EXCEPT ![i] = [worker[i] EXCEPT !.pc = "run",
                     !.cycle = [worker[i].cycle EXCEPT !.generation = published]]]
    BY <1>12 DEF ReadSnapshot, Worker
  <2>3. worker' \in [Starts -> Worker]
    BY <2>1, <2>2, CycleTyped DEF Steps
  <2> QED BY <1>12, <2>3 DEF ReadSnapshot
<1>13. CASE EndCycle(i)
  BY <1>13, <1>10 DEF EndCycle
<1>14. worker[i].cycle \in Cycle /\ worker[i].cycle.id \in 0 .. MaxCycles
  BY DEF Worker, Cycle
<1>15. CASE SaveLatest(i)
  BY <1>15, <1>14, GotoTyped DEF SaveLatest, Steps
<1>16. CASE SaveReport(i)
  BY <1>16, <1>14, GotoTyped DEF SaveReport, Steps
<1>17. CASE SaveReceipt(i)
  BY <1>17, <1>14, GotoTyped DEF SaveReceipt, Steps
<1>18. CASE SaveStatus(i)
  <2>1. StatusOf(Outcome(i)) \in {"waiting", "blocked", "degraded"}
    BY DEF StatusOf
  <2> QED BY <1>18, <1>14, <2>1, GotoTyped, WriteStatusTyped DEF SaveStatus, Steps
<1>19. Failure(Outcome(i)) \in Stages \cup {"none", "blocked"}
  BY DEF Failure
<1>20. CASE LogFailure(i)
  <2> DEFINE failure == Failure(Outcome(i))
             d(refused) == failure \in Stages
                           /\ IF failure = worker[i].failure THEN worker[i].dropped ELSE refused
             w(refused) == [worker[i] EXCEPT !.pc = "recover", !.failure = failure,
                                             !.dropped = d(refused)]
  <2>1. ASSUME NEW refused \in BOOLEAN PROVE w(refused) \in Worker
    <3>1. d(refused) \in BOOLEAN
      BY Zenon DEF Worker
    <3> HIDE DEF d
    <3> QED BY <1>19, <3>1 DEF Worker, Steps
  <2>2. PICK refused \in BOOLEAN : worker' = [worker EXCEPT ![i] = w(refused)]
    BY <1>20 DEF LogFailure, Worker
  <2> HIDE DEF w
  <2>3. worker' \in [Starts -> Worker]
    BY <2>1, <2>2
  <2>4. active' \subseteq Stages
    BY <1>20 DEF LogFailure
  <2> QED BY <1>20, <2>3, <2>4 DEF LogFailure
<1>21. CASE Recover(i)
  BY <1>21, GotoTyped DEF Recover, Steps
<1>22. CASE Wake(i)
  BY <1>22, CycleTyped DEF Wake, Steps
<1> QED BY <1>1, <1>2, <1>3, <1>4, <1>5, <1>6, <1>7, <1>8, <1>9, <1>11, <1>12, <1>13, <1>15,
           <1>16, <1>17, <1>18, <1>20, <1>21, <1>22 DEF WorkerStep

LEMMA RequestTyped ==
  ASSUME TypeOK, Ask \/ Refuse \/ Readiness \/ ReadStatusAgain \/ ReadReport
  PROVE  TypeOK'
<1> USE Bounds, NoStatusTyped, IdleTyped DEF TypeOK, files, store
<1>1. ASSUME NEW label \in {"idle", "readiness", "again", "report", "ready", "observing"}
      PROVE  /\ [request EXCEPT !.pc = label] \in Request
             /\ [request EXCEPT !.pc = label, !.status = status] \in Request
  BY DEF Request
<1>2. CASE Ask
  <2>1. [pc |-> "readiness", publication |-> published, status |-> NoStatus] \in Request
    BY DEF Request
  <2> QED BY <1>2, <2>1 DEF Ask
<1>3. CASE Refuse
  BY <1>3 DEF Refuse
<1>4. CASE Readiness
  BY <1>4, <1>1 DEF Readiness
<1>5. CASE ReadStatusAgain
  BY <1>5, <1>1 DEF ReadStatusAgain
<1>6. CASE ReadReport
  BY <1>6, <1>1 DEF ReadReport
<1> QED BY <1>2, <1>3, <1>4, <1>5, <1>6

LEMMA NextTyped ==
  ASSUME TypeOK, Places, [Next]_vars
  PROVE  TypeOK'
<1>1. CASE UNCHANGED vars
  BY <1>1 DEF vars, TypeOK
<1>2. ASSUME NEW i \in Starts, WorkerStep(i) PROVE TypeOK'
  BY <1>2, WorkerStepTyped
<1> QED BY <1>1, <1>2, SupervisorTyped, RequestTyped DEF Next

-----------------------------------------------------------------------------
(* Who may write. *)

(* A step of the worker's loop. *)
LoopStep(i) ==
    \/ WriteStarting(i) \/ BeginCycle(i) \/ SkipCycle(i) \/ ReadSnapshot(i) \/ EndCycle(i)
    \/ SaveLatest(i) \/ SaveReport(i) \/ SaveReceipt(i) \/ SaveStatus(i)
    \/ LogFailure(i) \/ Recover(i) \/ Wake(i)

LEMMA GotoEffect ==
  ASSUME worker \in [Starts -> Worker], NEW i \in Starts, NEW label, Goto(i, label)
  PROVE  /\ worker'[i].pc = label
         /\ worker'[i].pid = worker[i].pid /\ worker'[i].guard = worker[i].guard
         /\ worker'[i].term = worker[i].term
         /\ worker'[i].cycle = worker[i].cycle /\ worker'[i].failure = worker[i].failure
         /\ worker'[i].dropped = worker[i].dropped
         /\ \A j \in Starts \ {i} : worker'[j] = worker[j]
  BY DEF Goto, Worker

LEMMA DeadEffect ==
  ASSUME worker \in [Starts -> Worker], NEW i \in Starts,
         worker' = [worker EXCEPT ![i] = Dead(@)]
  PROVE  /\ worker'[i].pc = "dead" /\ worker'[i].pid = worker[i].pid
         /\ worker'[i].failure = "none"
         /\ \A j \in Starts \ {i} : worker'[j] = worker[j]
  BY DeadTyped

LEMMA UnwindEffect ==
  ASSUME worker \in [Starts -> Worker], NEW i \in Starts, Unwind(i)
  PROVE  /\ worker'[i].pc = "finally" /\ worker'[i].pid = worker[i].pid
         /\ worker'[i].guard = worker[i].guard /\ worker'[i].failure = "none"
         /\ \A j \in Starts \ {i} : worker'[j] = worker[j]
  BY DEF Unwind, NoWorker, Worker

LEMMA LoopEffect ==
  ASSUME TypeOK, NEW i \in Starts, LoopStep(i)
  PROVE  /\ worker[i].pc \in Holding \ {"finally"} /\ ~worker[i].term
         /\ worker'[i].pc \in InLoop
         /\ worker'[i].pid = worker[i].pid /\ worker'[i].guard = worker[i].guard
         /\ worker'[i].term = worker[i].term
         /\ \A j \in Starts \ {i} : worker'[j] = worker[j]
         /\ UNCHANGED <<start, sup, lock, thread, request>>
         /\ status' = status \/ (status'.owner = i /\ status'.pid = worker[i].pid)
<1> USE DEF TypeOK, At, InLoop, Holding, host, WriteStatus
<1>1. CASE WriteStarting(i)
  BY <1>1, GotoEffect DEF WriteStarting
<1>2. CASE BeginCycle(i)
  BY <1>2 DEF BeginCycle, Worker
<1>3. CASE SkipCycle(i)
  BY <1>3 DEF SkipCycle, EndWith, Worker
<1>4. CASE ReadSnapshot(i)
  BY <1>4 DEF ReadSnapshot, Worker
<1>5. CASE EndCycle(i)
  BY <1>5 DEF EndCycle, EndWith, Worker
<1>6. CASE SaveLatest(i)
  BY <1>6, GotoEffect DEF SaveLatest
<1>7. CASE SaveReport(i)
  BY <1>7, GotoEffect DEF SaveReport
<1>8. CASE SaveReceipt(i)
  BY <1>8, GotoEffect DEF SaveReceipt
<1>9. CASE SaveStatus(i)
  BY <1>9, GotoEffect DEF SaveStatus
<1>10. CASE LogFailure(i)
  BY <1>10 DEF LogFailure, Worker
<1>11. CASE Recover(i)
  BY <1>11, GotoEffect DEF Recover
<1>12. CASE Wake(i)
  BY <1>12 DEF Wake, Worker
<1> QED BY <1>1, <1>2, <1>3, <1>4, <1>5, <1>6, <1>7, <1>8, <1>9, <1>10, <1>11, <1>12 DEF LoopStep

LEMMA InitPlaces == Init => Places
  BY Bounds DEF Init, Places, WorkerPlace, StatusOwner, NoWorker, NoStatus, Starts, Holding,
                InLoop, HasParent

(* A dead worker, and one that has not looked at its parent yet, concern nobody else. *)
LEMMA BootPlaces ==
  ASSUME TypeOK, Places, Start
  PROVE  Places'
<1> USE Bounds DEF TypeOK, Starts
<1>1. /\ sup = "down" /\ start < MaxStarts /\ start' = start + 1 /\ sup' = "serving"
      /\ UNCHANGED <<lock, status>>
  BY Zenon DEF Start
<1> PICK p \in 1 .. start' \ {worker[i].pid : i \in {j \in Starts : Running(j)}} :
       worker' = [worker EXCEPT ![start + 1] = [NoWorker EXCEPT !.pc = "boot", !.pid = p]]
  BY DEF Start
<1>2. p > 0
  OBVIOUS
<1> PICK n \in Starts : n = start + 1
  BY <1>1
<1>3. /\ worker'[n].pc = "boot" /\ worker'[n].pid = p
      /\ \A j \in Starts \ {n} : worker'[j] = worker[j]
  BY <1>1 DEF NoWorker
<1>4. worker[n].pc = "none"
  BY <1>1 DEF Places, WorkerPlace
<1>5. StatusOwner'
  BY <1>1, <1>3 DEF Places, StatusOwner, Status
<1>6. WorkerPlace(n)'
  BY <1>1, <1>2, <1>3, <1>4 DEF Places, WorkerPlace, Holding, InLoop
<1>7. ASSUME NEW j \in Starts \ {n}
      PROVE  WorkerPlace(j)'
  <2>1. ~HasParent(j) /\ ~HasParent(j)'
    BY <1>1 DEF HasParent
  <2>2. j > start <=> j > start'
    BY <1>1
  <2> QED BY <1>1, <1>3, <2>1, <2>2 DEF Places, WorkerPlace
<1>8. \A j \in Starts : WorkerPlace(j)'
  BY <1>6, <1>7
<1> QED BY <1>1, <1>5, <1>8 DEF Places

(* One worker is dead, and has let go of the lock. *)
LEMMA DeadPlaces ==
  ASSUME TypeOK, Places, NEW i \in Starts, i <= start,
         worker'[i].pc = "dead", worker'[i].pid = worker[i].pid,
         \A j \in Starts \ {i} : worker'[j] = worker[j],
         lock' = IF lock = i THEN 0 ELSE lock,
         start' = start, sup' \in {"down", "serving", "stopping", "waiting"},
         sup = "down" => sup' = "down",
         sup' = "down" /\ sup # "down" => i = start,
         status' = status \/ (status'.owner = i /\ status'.pid = worker[i].pid /\ status.owner <= i
                               /\ lock = i)
  PROVE  Places'
<1> USE Bounds DEF TypeOK, Starts
<1>1. StatusOwner'
  BY DEF Places, StatusOwner, Status
<1>2. WorkerPlace(i)'
  BY DEF Places, WorkerPlace, Holding, InLoop
<1>3. ASSUME NEW j \in Starts \ {i}
      PROVE  WorkerPlace(j)'
  <2>1. HasParent(j)' = HasParent(j)
    BY DEF HasParent
  <2>2. worker[j].pc \in Holding => status' = status
    BY DEF Places, WorkerPlace
  <2> QED BY <2>1, <2>2 DEF Places, WorkerPlace
<1> QED BY <1>1, <1>2, <1>3 DEF Places

(* The supervisor, but for its start. *)
LEMMA SupervisorPlaces ==
  ASSUME TypeOK, Places,
         \/ StopAsked \/ SeeDead \/ Terminate \/ Reap
         \/ SupervisorDies \/ WorkerDies \/ ThreadDies \/ MachineDies \/ Publish
  PROVE  Places'
<1> USE Bounds DEF TypeOK, Starts
<1>1. ASSUME UNCHANGED <<start, worker, lock, status>>, sup # "down" => sup' # "down",
             sup' # "down" => sup # "down"
      PROVE  Places'
  <2>1. \A i \in Starts : HasParent(i)' = HasParent(i)
    BY <1>1 DEF HasParent
  <2>2. StatusOwner' /\ \A i \in Starts : WorkerPlace(i)'
    BY <1>1, <2>1 DEF Places, WorkerPlace, StatusOwner
  <2> QED BY <1>1, <2>2 DEF Places
<1>2. CASE StopAsked
  BY <1>1, <1>2 DEF StopAsked
<1>3. CASE SeeDead
  BY <1>1, <1>3 DEF SeeDead
<1>4. CASE Terminate
  <2>1. start \in Starts /\ sup = "stopping" /\ UNCHANGED <<start, lock, status>>
    BY <1>4 DEF Terminate, Places
  <2>2. CASE Running(start)
    <3>1. worker' = [worker EXCEPT ![start].term = TRUE] /\ sup' = "waiting"
      BY <1>4, <2>2 DEF Terminate
    <3>2. /\ worker'[start].pc = worker[start].pc /\ worker'[start].pid = worker[start].pid
          /\ worker'[start].guard = worker[start].guard /\ worker'[start].term
          /\ \A j \in Starts \ {start} : worker'[j] = worker[j]
      BY <2>1, <3>1 DEF Worker
    <3>3. StatusOwner'
      BY <2>1, <3>2 DEF Places, StatusOwner, Status
    <3>4. \A i \in Starts : HasParent(i)' = HasParent(i)
      BY <2>1, <3>1 DEF HasParent
    <3>5. \A i \in Starts : WorkerPlace(i)'
      BY <2>1, <3>2, <3>4 DEF Places, WorkerPlace
    <3> QED BY <2>1, <3>3, <3>5 DEF Places
  <2>3. CASE ~Running(start)
    <3>1. worker' = worker /\ sup' = "down"
      BY <1>4, <2>3 DEF Terminate
    <3>2. \A i \in Starts : i # start => HasParent(i)' = HasParent(i)
      BY <2>1, <3>1 DEF HasParent
    <3>3. \A i \in Starts : WorkerPlace(i)'
      BY <2>1, <2>3, <3>1, <3>2 DEF Places, WorkerPlace, Running, Holding, InLoop
    <3>4. StatusOwner'
      BY <2>1, <3>1 DEF Places, StatusOwner
    <3> QED BY <3>1, <3>3, <3>4 DEF Places
  <2> QED BY <2>2, <2>3
<1>5. CASE Reap
  <2>1. start \in Starts
    BY <1>5 DEF Reap, Places
  <2> PICK n \in Starts : n = start
    BY <2>1
  <2>2. /\ worker' = [worker EXCEPT ![n] = Dead(@)] /\ lock' = IF lock = n THEN 0 ELSE lock
        /\ sup' = "down" /\ UNCHANGED <<start, status>>
    BY <1>5 DEF Reap
  <2>3. /\ worker'[n].pc = "dead" /\ worker'[n].pid = worker[n].pid
        /\ \A j \in Starts \ {n} : worker'[j] = worker[j]
    BY <2>2, DeadEffect
  <2>4. n <= start
    OBVIOUS
  <2> QED BY <2>2, <2>3, <2>4, DeadPlaces
<1>6. CASE SupervisorDies
  <2>1. start \in Starts /\ sup' = "down" /\ UNCHANGED <<start, lock, status>>
    BY <1>6 DEF SupervisorDies, Places
  <2>2. /\ worker'[start].pc = worker[start].pc /\ worker'[start].pid = worker[start].pid
        /\ worker'[start].guard = worker[start].guard
        /\ worker'[start].term <=> Running(start) /\ (worker[start].term \/ worker[start].guard)
        /\ \A j \in Starts \ {start} : worker'[j] = worker[j]
    BY <1>6, <2>1 DEF SupervisorDies, Worker
  <2>3. StatusOwner'
    BY <2>1, <2>2 DEF Places, StatusOwner, Status
  <2>4. \A i \in Starts : i # start => HasParent(i)' = HasParent(i)
    BY <2>1 DEF HasParent
  <2>5. \A i \in Starts \ {start} : WorkerPlace(i)'
    BY <2>1, <2>2, <2>4 DEF Places, WorkerPlace
  <2> PICK n \in Starts : n = start
    BY <2>1
  <2>6. WorkerPlace(n)'
    BY <2>1, <2>2 DEF Places, WorkerPlace, Running, Holding, InLoop
  <2>7. \A i \in Starts : WorkerPlace(i)'
    BY <2>5, <2>6
  <2> QED BY <2>1, <2>3, <2>7 DEF Places
<1>7. CASE WorkerDies
  <2> PICK i \in Starts : /\ Running(i) /\ worker' = [worker EXCEPT ![i] = Dead(@)]
                          /\ lock' = IF lock = i THEN 0 ELSE lock
    BY <1>7 DEF WorkerDies
  <2>1. i <= start
    BY DEF Running, Places, WorkerPlace
  <2>2. UNCHANGED <<start, sup, status>>
    BY <1>7 DEF WorkerDies
  <2> QED BY <2>1, <2>2, DeadEffect, DeadPlaces
<1>8. CASE ThreadDies
  BY <1>1, <1>8 DEF ThreadDies
<1>9. CASE MachineDies
  <2>1. sup' = "down" /\ lock' = 0 /\ UNCHANGED <<start, status>>
    BY <1>9 DEF MachineDies
  <2>2. \A i \in Starts : /\ worker'[i].pc \in {"none", "dead"}
                          /\ worker'[i].pc = "none" <=> worker[i].pc = "none"
                          /\ worker'[i].pid = worker[i].pid
    BY <1>9, DeadTyped DEF MachineDies, Running
  <2>3. StatusOwner'
    BY <2>1, <2>2 DEF Places, StatusOwner, Status
  <2>4. \A i \in Starts : WorkerPlace(i)'
    BY <2>1, <2>2 DEF Places, WorkerPlace, Holding, InLoop
  <2> QED BY <2>1, <2>3, <2>4 DEF Places
<1>10. CASE Publish
  BY <1>1, <1>10 DEF Publish
<1> QED BY <1>2, <1>3, <1>4, <1>5, <1>6, <1>7, <1>8, <1>9, <1>10

(* A living worker moves on, and writes nothing or writes under the lock. *)
LEMMA MovePlaces ==
  ASSUME TypeOK, Places, NEW i \in Starts, worker[i].pc # "none",
         worker'[i].pid = worker[i].pid,
         \A j \in Starts \ {i} : worker'[j] = worker[j],
         UNCHANGED <<start, sup>>,
         lock' = lock \/ (lock = 0 /\ lock' = i),
         status' = status \/ (status'.owner = i /\ status'.pid = worker[i].pid /\ lock = i),
         WorkerPlace(i)'
  PROVE  Places'
<1> USE Bounds DEF TypeOK, Starts
<1>1. i <= start
  BY DEF Places, WorkerPlace
<1>2. StatusOwner'
  BY <1>1 DEF Places, StatusOwner, Status
<1>3. ASSUME NEW j \in Starts \ {i}
      PROVE  WorkerPlace(j)'
  <2>1. HasParent(j)' = HasParent(j)
    BY DEF HasParent
  <2>2. worker[j].pc \in Holding => status' = status
    BY DEF Places, WorkerPlace
  <2> QED BY <2>1, <2>2 DEF Places, WorkerPlace
<1> QED BY <1>2, <1>3 DEF Places

LEMMA WorkerPlaces ==
  ASSUME TypeOK, Places, NEW i \in Starts, WorkerStep(i)
  PROVE  Places'
<1> USE Bounds DEF TypeOK
<1>1. WorkerPlace(i) /\ i > 0
  BY DEF Places, Starts
<1>2. ASSUME Exit(i), Running(i), lock' = IF lock = i THEN 0 ELSE lock, UNCHANGED <<start, sup>>,
             status' = status \/ (status'.owner = i /\ status'.pid = worker[i].pid
                                   /\ status.owner <= i /\ lock = i)
      PROVE  Places'
  <2>1. i <= start
    BY <1>1, <1>2 DEF WorkerPlace, Running, Starts
  <2>2. /\ worker'[i].pc = "dead" /\ worker'[i].pid = worker[i].pid
        /\ \A j \in Starts \ {i} : worker'[j] = worker[j]
    BY <1>2, DeadEffect DEF Exit
  <2> QED BY <1>2, <2>1, <2>2, DeadPlaces
<1>3. ASSUME Unwind(i), worker[i].pc \in InLoop, UNCHANGED <<start, sup, lock, status>>
      PROVE  Places'
  <2>1. /\ worker'[i].pc = "finally" /\ worker'[i].pid = worker[i].pid
        /\ worker'[i].guard = worker[i].guard
        /\ \A j \in Starts \ {i} : worker'[j] = worker[j]
    BY <1>3, UnwindEffect
  <2>2. WorkerPlace(i)'
    BY <1>1, <1>3, <2>1 DEF WorkerPlace, Holding, InLoop
  <2> QED BY <1>3, <2>1, <2>2, MovePlaces DEF InLoop
<1>4. CASE TakeSignal(i)
  <2>1. Running(i) /\ UNCHANGED <<start, sup, status>>
    BY <1>4 DEF TakeSignal, host
  <2>2. CASE worker[i].pc \in InLoop
    BY <1>4, <2>1, <2>2, <1>3 DEF TakeSignal
  <2>3. CASE worker[i].pc \notin InLoop
    BY <1>4, <2>1, <2>3, <1>2 DEF TakeSignal, Leave
  <2> QED BY <2>2, <2>3
<1>5. ASSUME HasParent(i), worker[i].pc \in {"boot", "recheck"}, UNCHANGED <<start, sup, lock, status>>,
             NEW label \in {"guard", "lock"}, label = "lock" => worker[i].guard, Goto(i, label)
      PROVE  Places'
  <2>1. HasParent(i)'
    BY <1>5 DEF HasParent
  <2>2. /\ worker'[i].pc = label
        /\ worker'[i].pid = worker[i].pid /\ worker'[i].guard = worker[i].guard
        /\ \A j \in Starts \ {i} : worker'[j] = worker[j]
    BY <1>5, GotoEffect
  <2>3. WorkerPlace(i)'
    BY <1>1, <1>5, <2>1, <2>2 DEF WorkerPlace, Holding, InLoop
  <2> QED BY <1>5, <2>2, <2>3, MovePlaces
<1>6. CASE CheckParent(i)
  <2>1. worker[i].pc = "boot" /\ UNCHANGED <<start, sup, lock, status>>
    BY <1>6 DEF CheckParent, At, host
  <2>2. lock # i
    BY <1>1, <2>1 DEF WorkerPlace, Holding, InLoop
  <2>3. CASE HasParent(i)
    BY <1>6, <2>1, <2>3, <1>5 DEF CheckParent
  <2>4. CASE ~HasParent(i)
    BY <1>6, <2>1, <2>2, <2>4, <1>2 DEF CheckParent, Running
  <2> QED BY <2>3, <2>4
<1>7. CASE InstallGuard(i)
  <2>1. worker[i].pc = "guard" /\ UNCHANGED <<start, sup, lock, status>>
    BY <1>7 DEF InstallGuard, At, host
  <2>2. /\ worker'[i].pc = "recheck" /\ worker'[i].pid = worker[i].pid /\ worker'[i].guard
        /\ \A j \in Starts \ {i} : worker'[j] = worker[j]
    BY <1>7 DEF InstallGuard, Worker
  <2>3. WorkerPlace(i)'
    BY <1>1, <2>1, <2>2 DEF WorkerPlace, Holding, InLoop
  <2> QED BY <2>1, <2>2, <2>3, MovePlaces
<1>8. CASE Recheck(i)
  <2>1. worker[i].pc = "recheck" /\ UNCHANGED <<start, sup, lock, status>>
    BY <1>8 DEF Recheck, At, host
  <2>2. lock # i /\ worker[i].guard
    BY <1>1, <2>1 DEF WorkerPlace, Holding, InLoop
  <2>3. CASE HasParent(i)
    BY <1>8, <2>1, <2>2, <2>3, <1>5 DEF Recheck
  <2>4. CASE ~HasParent(i)
    BY <1>8, <2>1, <2>2, <2>4, <1>2 DEF Recheck, Running
  <2> QED BY <2>3, <2>4
<1>9. CASE AcquireLock(i)
  <2>1. worker[i].pc = "lock" /\ ~worker[i].term /\ UNCHANGED <<start, sup, status>>
    BY <1>9 DEF AcquireLock, At, host
  <2>2. CASE lock = 0
    <3>1. HasParent(i) /\ i = start /\ HasParent(i)'
      BY <1>1, <2>1 DEF WorkerPlace, HasParent
    <3>2. status.owner <= i
      BY <3>1 DEF Places, StatusOwner
    <3>3. /\ lock' = i /\ worker'[i].pc = "starting"
          /\ worker'[i].pid = worker[i].pid /\ worker'[i].guard = worker[i].guard
          /\ \A j \in Starts \ {i} : worker'[j] = worker[j]
      BY <1>9, <2>2, GotoEffect DEF AcquireLock
    <3>4. WorkerPlace(i)'
      BY <1>1, <2>1, <3>1, <3>2, <3>3 DEF WorkerPlace, Holding, InLoop
    <3> QED BY <2>1, <2>2, <3>3, <3>4, MovePlaces
  <2>3. CASE lock # 0
    <3>1. lock # i
      BY <1>1, <2>1 DEF WorkerPlace, Holding, InLoop
    <3> QED BY <1>9, <2>1, <2>3, <3>1, <1>2 DEF AcquireLock, Running
  <2> QED BY <2>2, <2>3
<1>10. CASE LeaveLoop(i)
  BY <1>10, <1>3 DEF LeaveLoop, At, host
<1>11. CASE WriteStopped(i)
  <2>1. worker[i].pc = "finally" /\ UNCHANGED <<start, sup>>
    BY <1>11 DEF WriteStopped, At, host
  <2>2. status'.owner = i /\ status'.pid = worker[i].pid
    BY <1>11 DEF WriteStopped, WriteStatus
  <2>3. lock = i /\ status.owner <= i
    BY <1>1, <2>1 DEF WorkerPlace, Holding
  <2> QED BY <1>11, <2>1, <2>2, <2>3, <1>2 DEF WriteStopped, Leave, Running
<1>12. CASE LoopStep(i)
  <2>1. /\ worker[i].pc \in Holding \ {"finally"} /\ ~worker[i].term
        /\ worker'[i].pc \in InLoop
        /\ worker'[i].pid = worker[i].pid /\ worker'[i].guard = worker[i].guard
        /\ \A j \in Starts \ {i} : worker'[j] = worker[j]
        /\ UNCHANGED <<start, sup, lock>>
        /\ status' = status \/ (status'.owner = i /\ status'.pid = worker[i].pid)
    BY <1>12, LoopEffect
  <2>2. lock = i /\ HasParent(i) /\ HasParent(i)'
    BY <1>1, <2>1 DEF WorkerPlace, HasParent
  <2>3. WorkerPlace(i)'
    BY <1>1, <2>1, <2>2 DEF WorkerPlace, Holding, InLoop, Starts
  <2> QED BY <2>1, <2>2, <2>3, MovePlaces DEF Holding, InLoop
<1> QED BY <1>4, <1>6, <1>7, <1>8, <1>9, <1>10, <1>11, <1>12 DEF WorkerStep, LoopStep

LEMMA NextPlaces ==
  ASSUME TypeOK, Places, [Next]_vars
  PROVE  Places'
<1>1. ASSUME UNCHANGED <<start, sup, worker, lock, status>>
      PROVE  Places'
  <2>1. \A i \in Starts : HasParent(i)' = HasParent(i)
    BY <1>1 DEF HasParent
  <2> QED BY <1>1, <2>1 DEF Places, WorkerPlace, StatusOwner
<1>2. CASE UNCHANGED vars
  BY <1>1, <1>2 DEF vars
<1>3. CASE Ask \/ Refuse \/ Readiness \/ ReadStatusAgain \/ ReadReport
  BY <1>1, <1>3 DEF Ask, Refuse, Readiness, ReadStatusAgain, ReadReport, store
<1>4. ASSUME NEW i \in Starts, WorkerStep(i) PROVE Places'
  BY <1>4, WorkerPlaces
<1> QED BY <1>2, <1>3, <1>4, BootPlaces, SupervisorPlaces DEF Next

-----------------------------------------------------------------------------
(* What is on disk. *)

LEMMA InitFiles == TypeOK /\ Init => Files
  BY Bounds DEF Init, Files, FinishedCycleIsOnDisk, StatusCycle, CycleFiles, NoStatus, NoWorker,
                NoCycle, InCycle, Finished, Starts

(* No file is written, and no worker enters or moves within a cycle. *)
LEMMA QuietFiles ==
  ASSUME Files, UNCHANGED <<status, files, made>>,
         \A i \in Starts : worker'[i].pc \in InCycle =>
            worker'[i].pc = worker[i].pc /\ worker'[i].cycle = worker[i].cycle
  PROVE  Files'
<1>1. ASSUME NEW i \in Starts PROVE CycleFiles(i)'
  BY DEF Files, CycleFiles, InCycle, files
<1> QED BY <1>1 DEF Files, FinishedCycleIsOnDisk, StatusCycle, files

LEMMA SupervisorFiles ==
  ASSUME TypeOK, Places, Files,
         \/ Start \/ StopAsked \/ SeeDead \/ Terminate \/ Reap
         \/ SupervisorDies \/ WorkerDies \/ ThreadDies \/ MachineDies \/ Publish
  PROVE  Files'
<1> USE Bounds DEF TypeOK, Starts
<1>1. ASSUME NEW i \in Starts,
             worker' = [worker EXCEPT ![i] = Dead(@)], UNCHANGED <<status, files, made>>
      PROVE  Files'
  <2>1. \A j \in Starts : worker'[j].pc \in InCycle => worker'[j] = worker[j]
    BY <1>1, DeadEffect DEF InCycle
  <2> QED BY <1>1, <2>1, QuietFiles
<1>2. CASE StopAsked \/ SeeDead \/ ThreadDies \/ Publish
  BY <1>2, QuietFiles DEF StopAsked, SeeDead, ThreadDies, Publish
<1>3. CASE Start
  <2> PICK p \in 1 .. start' \ {worker[i].pid : i \in {j \in Starts : Running(j)}} :
         worker' = [worker EXCEPT ![start + 1] = [NoWorker EXCEPT !.pc = "boot", !.pid = p]]
    BY <1>3 DEF Start
  <2>1. start < MaxStarts /\ UNCHANGED <<status, files, made>>
    BY <1>3, Zenon DEF Start
  <2>2. [NoWorker EXCEPT !.pc = "boot", !.pid = p].pc = "boot"
    BY DEF NoWorker
  <2>3. \A j \in Starts : worker'[j].pc \in InCycle => worker'[j] = worker[j]
    BY <2>1, <2>2 DEF InCycle
  <2> QED BY <2>1, <2>3, QuietFiles
<1>4. CASE Terminate
  <2>1. start \in Starts /\ UNCHANGED <<status, files, made>>
    BY <1>4 DEF Terminate, Places
  <2>2. \A j \in Starts : worker'[j].pc = worker[j].pc /\ worker'[j].cycle = worker[j].cycle
    <3>1. worker' = worker \/ worker' = [worker EXCEPT ![start].term = TRUE]
      BY <1>4 DEF Terminate
    <3>2. CASE worker' = [worker EXCEPT ![start].term = TRUE]
      BY <2>1, <3>2 DEF Worker
    <3> QED BY <3>1, <3>2
  <2> QED BY <2>1, <2>2, QuietFiles
<1>5. CASE Reap
  <2> PICK n \in Starts : n = start
    BY <1>5 DEF Reap, Places
  <2> QED BY <1>5, <1>1 DEF Reap
<1>6. CASE SupervisorDies
  <2>1. start \in Starts /\ UNCHANGED <<status, files, made>>
    BY <1>6 DEF SupervisorDies, Places
  <2>2. \A j \in Starts : worker'[j].pc = worker[j].pc /\ worker'[j].cycle = worker[j].cycle
    BY <1>6, <2>1 DEF SupervisorDies, Worker
  <2> QED BY <2>1, <2>2, QuietFiles
<1>7. CASE WorkerDies
  BY <1>7, <1>1 DEF WorkerDies
<1>8. CASE MachineDies
  <2>1. \A j \in Starts : worker'[j].pc \in InCycle => worker'[j] = worker[j]
    BY <1>8, DeadTyped DEF MachineDies, InCycle
  <2> QED BY <1>8, <2>1, QuietFiles DEF MachineDies
<1> QED BY <1>2, <1>3, <1>4, <1>5, <1>6, <1>7, <1>8

(* A step of the lock's holder: the others are in no cycle. *)
LEMMA HolderFiles ==
  ASSUME TypeOK, Places, NEW i \in Starts, worker[i].pc \in Holding,
         \A j \in Starts \ {i} : worker'[j] = worker[j],
         (latest.id <= made /\ FinishedCycleIsOnDisk /\ StatusCycle /\ CycleFiles(i))'
  PROVE  Files'
<1>1. ASSUME NEW j \in Starts \ {i} PROVE CycleFiles(j)'
  <2>1. worker'[j].pc \notin Holding
    BY DEF Places, WorkerPlace
  <2> QED BY <2>1 DEF CycleFiles, Holding, InLoop, InCycle
<1> QED BY <1>1 DEF Files

LEMMA WorkerFiles ==
  ASSUME TypeOK, Places, Files, NEW i \in Starts, WorkerStep(i)
  PROVE  Files'
<1> USE Bounds DEF TypeOK, host, files
<1>1. ASSUME \A j \in Starts \ {i} : worker'[j] = worker[j], worker'[i].pc \notin InCycle,
             UNCHANGED <<status, files, made>>
      PROVE  Files'
  <2>1. \A j \in Starts : worker'[j].pc \in InCycle => worker'[j] = worker[j]
    BY <1>1
  <2> QED BY <1>1, <2>1, QuietFiles
<1>2. ASSUME NEW label \in {"guard", "lock", "starting", "sleep"}, Goto(i, label),
             UNCHANGED <<status, files, made>>
      PROVE  Files'
  BY <1>1, <1>2, GotoEffect DEF InCycle
<1>3. ASSUME Exit(i), UNCHANGED <<status, files, made>>
      PROVE  Files'
  BY <1>1, <1>3, DeadEffect DEF Exit, InCycle
<1>4. ASSUME Unwind(i), UNCHANGED <<status, files, made>>
      PROVE  Files'
  BY <1>1, <1>4, UnwindEffect DEF InCycle
<1>5. CASE TakeSignal(i)
  BY <1>5, <1>3, <1>4 DEF TakeSignal, Leave
<1>6. CASE CheckParent(i) \/ Recheck(i) \/ AcquireLock(i)
  BY <1>6, <1>2, <1>3 DEF CheckParent, Recheck, AcquireLock
<1>7. CASE InstallGuard(i)
  <2>1. worker'[i].pc = "recheck" /\ \A j \in Starts \ {i} : worker'[j] = worker[j]
    BY <1>7 DEF InstallGuard, Worker
  <2> QED BY <1>1, <1>7, <2>1 DEF InstallGuard, InCycle
<1>8. CASE LeaveLoop(i)
  BY <1>8, <1>4 DEF LeaveLoop
<1>9. CASE Recover(i)
  BY <1>9, <1>2 DEF Recover
<1>10. CASE LogFailure(i)
  <2>1. worker'[i].pc = "recover" /\ \A j \in Starts \ {i} : worker'[j] = worker[j]
    BY <1>10 DEF LogFailure, Worker
  <2> QED BY <1>1, <1>10, <2>1 DEF LogFailure, InCycle
<1>11. CASE Wake(i)
  <2>1. worker'[i].pc = "top" /\ \A j \in Starts \ {i} : worker'[j] = worker[j]
    BY <1>11 DEF Wake, Worker
  <2> QED BY <1>1, <1>11, <2>1 DEF Wake, InCycle
<1>12. CycleFiles(i) /\ latest.id <= made /\ FinishedCycleIsOnDisk /\ StatusCycle
  BY DEF Files
<1>13. made \in Nat /\ latest.id \in Nat /\ worker[i].cycle.id \in Nat
  BY DEF Cycle, Worker
<1>14. ASSUME NEW kind \in {"starting", "evaluating", "stopped"}, WriteStatus(i, kind, NoCycle)
       PROVE  FinishedCycleIsOnDisk' /\ StatusCycle'
  BY <1>14 DEF WriteStatus, FinishedCycleIsOnDisk, StatusCycle, Finished
<1>15. CASE WriteStarting(i)
  <2>1. worker'[i].pc = "top" /\ \A j \in Starts \ {i} : worker'[j] = worker[j]
    BY <1>15, GotoEffect DEF WriteStarting
  <2>2. (CycleFiles(i) /\ latest.id <= made)'
    BY <1>12, <1>15, <2>1 DEF WriteStarting, CycleFiles, InCycle
  <2> QED BY <1>15, <1>14, <2>1, <2>2, HolderFiles DEF WriteStarting, At, Holding
<1>16. CASE WriteStopped(i)
  <2>1. worker'[i].pc = "dead" /\ \A j \in Starts \ {i} : worker'[j] = worker[j]
    BY <1>16, DeadEffect DEF WriteStopped, Leave, Exit
  <2>2. (CycleFiles(i) /\ latest.id <= made)'
    BY <1>12, <1>16, <2>1 DEF WriteStopped, CycleFiles, InCycle
  <2> QED BY <1>16, <1>14, <2>1, <2>2, HolderFiles DEF WriteStopped, At, Holding
<1>17. CASE BeginCycle(i)
  <2>1. /\ worker'[i].pc = "evaluate"
        /\ worker'[i].cycle.id = made + 1 /\ worker'[i].cycle.owner = i
        /\ \A j \in Starts \ {i} : worker'[j] = worker[j]
        /\ made' = made + 1
    BY <1>17 DEF BeginCycle, Worker, NoCycle
  <2>2. status'.kind = "evaluating"
    BY <1>17 DEF BeginCycle, WriteStatus
  <2>3. (CycleFiles(i) /\ latest.id <= made)'
    BY <1>12, <1>13, <1>17, <2>1, <2>2 DEF BeginCycle, CycleFiles, InCycle
  <2> QED BY <1>17, <1>14, <2>1, <2>3, HolderFiles DEF BeginCycle, At, Holding, InLoop
<1>18. ASSUME worker[i].pc \in {"evaluate", "run"}, worker'[i].pc \in {"run", "latest"},
              worker'[i].cycle.id = worker[i].cycle.id, worker'[i].cycle.owner = worker[i].cycle.owner,
              \A j \in Starts \ {i} : worker'[j] = worker[j],
              UNCHANGED <<status, files, made>>
       PROVE  Files'
  <2>1. (CycleFiles(i) /\ latest.id <= made /\ FinishedCycleIsOnDisk /\ StatusCycle)'
    BY <1>12, <1>18 DEF CycleFiles, InCycle, FinishedCycleIsOnDisk, StatusCycle
  <2> QED BY <1>18, <2>1, HolderFiles DEF Holding, InLoop
<1>19. ASSUME NEW outcome \in Outcomes, EndWith(i, outcome)
       PROVE  /\ worker'[i].pc = "latest"
              /\ worker'[i].cycle.id = worker[i].cycle.id
              /\ worker'[i].cycle.owner = worker[i].cycle.owner
              /\ \A j \in Starts \ {i} : worker'[j] = worker[j]
  BY <1>19 DEF EndWith, Worker, Cycle
<1>20. CASE SkipCycle(i)
  BY <1>20, <1>18, <1>19 DEF SkipCycle, At, Outcomes
<1>21. CASE EndCycle(i)
  BY <1>21, <1>18, <1>19 DEF EndCycle, At, Outcomes
<1>22. CASE ReadSnapshot(i)
  <2>1. /\ worker'[i].pc = "run"
        /\ worker'[i].cycle.id = worker[i].cycle.id
        /\ worker'[i].cycle.owner = worker[i].cycle.owner
        /\ \A j \in Starts \ {i} : worker'[j] = worker[j]
    BY <1>22 DEF ReadSnapshot, Worker, Cycle
  <2> QED BY <1>22, <1>18, <2>1 DEF ReadSnapshot, At
<1>23. ASSUME worker[i].pc \in InCycle, NEW label \in {"report", "receipt", "status"}, Goto(i, label),
              UNCHANGED <<status, made>>, latest'.id <= made, CycleFiles(i)'
       PROVE  Files'
  <2>1. FinishedCycleIsOnDisk' /\ StatusCycle'
    BY <1>12, <1>23 DEF CycleFiles, FinishedCycleIsOnDisk, StatusCycle, Finished
  <2> QED BY <1>23, <2>1, GotoEffect, HolderFiles DEF Holding, InLoop, InCycle
<1>24. CASE SaveLatest(i)
  BY <1>24, <1>23, <1>12, <1>13, GotoEffect DEF SaveLatest, At, CycleFiles, InCycle
<1>25. CASE SaveReport(i)
  BY <1>25, <1>23, <1>12, <1>13, GotoEffect DEF SaveReport, At, CycleFiles, InCycle
<1>26. CASE SaveReceipt(i)
  BY <1>26, <1>23, <1>12, <1>13, GotoEffect DEF SaveReceipt, At, CycleFiles, InCycle
<1>27. CASE SaveStatus(i)
  <2>1. worker'[i].pc = "alert" /\ \A j \in Starts \ {i} : worker'[j] = worker[j]
    BY <1>27, GotoEffect DEF SaveStatus
  <2>2. (CycleFiles(i) /\ latest.id <= made)'
    BY <1>12, <1>27, <2>1 DEF SaveStatus, CycleFiles, InCycle
  <2>3. /\ worker[i].cycle.owner = i /\ latest = worker[i].cycle
        /\ report = worker[i].cycle.id /\ worker[i].cycle.id \in receipts
    BY <1>12, <1>27 DEF SaveStatus, At, CycleFiles, InCycle
  <2>4. /\ status'.owner = i /\ status'.cycle = worker[i].cycle
        /\ status'.kind = StatusOf(worker[i].cycle.outcome)
        /\ status'.ready => status'.kind = "waiting"
        /\ UNCHANGED files
    BY <1>27 DEF SaveStatus, WriteStatus, Outcome
  <2>5. FinishedCycleIsOnDisk'
    BY <2>3, <2>4 DEF FinishedCycleIsOnDisk
  <2>6. StatusCycle'
    BY <2>3, <2>4 DEF StatusCycle, StatusOf
  <2> QED BY <1>27, <2>1, <2>2, <2>5, <2>6, HolderFiles DEF SaveStatus, At, Holding, InLoop
<1> QED BY <1>5, <1>6, <1>7, <1>8, <1>9, <1>10, <1>11, <1>15, <1>16, <1>17, <1>20, <1>21, <1>22,
           <1>24, <1>25, <1>26, <1>27 DEF WorkerStep

LEMMA NextFiles ==
  ASSUME TypeOK, Places, Files, [Next]_vars
  PROVE  Files'
<1>1. CASE UNCHANGED vars
  BY <1>1, QuietFiles DEF vars, files
<1>2. CASE Ask \/ Refuse \/ Readiness \/ ReadStatusAgain \/ ReadReport
  BY <1>2, QuietFiles DEF Ask, Refuse, Readiness, ReadStatusAgain, ReadReport, store
<1>3. ASSUME NEW i \in Starts, WorkerStep(i) PROVE Files'
  BY <1>3, WorkerFiles
<1> QED BY <1>1, <1>2, <1>3, SupervisorFiles DEF Next

-----------------------------------------------------------------------------
(* What a worker remembers of its last failure. *)

LEMMA InitFailures == Init => Failures
  BY DEF Init, Failures, Remembered, NoWorker, Stages

(* A worker keeps what it knows of its last failure. *)
Remembers(i) == /\ worker'[i].failure = worker[i].failure
                /\ worker'[i].dropped = worker[i].dropped

(* Nothing is logged: a worker stays where it is, forgets, or goes on with what it remembers. *)
LEMMA QuietFailures ==
  ASSUME Failures, active' = active,
         \A i \in Starts :
            \/ worker'[i].failure \notin Stages /\ worker'[i].pc \notin {"recover", "sleep"}
            \/ /\ Remembers(i)
               /\ worker'[i].pc \in InLoop \ {"recover", "sleep"}
            \/ /\ Remembers(i)
               /\ worker'[i].pc = worker[i].pc /\ worker'[i].cycle = worker[i].cycle
  PROVE  Failures'
<1> USE DEF Remembers
<1>1. ASSUME NEW i \in Starts PROVE Remembered(i)'
  BY DEF Failures, Remembered
<1> QED BY <1>1 DEF Failures

LEMMA SupervisorFailures ==
  ASSUME TypeOK, Places, Failures,
         \/ Start \/ StopAsked \/ SeeDead \/ Terminate \/ Reap
         \/ SupervisorDies \/ WorkerDies \/ ThreadDies \/ MachineDies \/ Publish
  PROVE  Failures'
<1> USE Bounds DEF TypeOK, Starts, Remembers
<1>1. ASSUME NEW i \in Starts,
             worker' = [worker EXCEPT ![i] = Dead(@)], active' = active
      PROVE  Failures'
  <2>1. /\ worker'[i].failure \notin Stages /\ worker'[i].pc \notin {"recover", "sleep"}
        /\ \A j \in Starts \ {i} : worker'[j] = worker[j]
    BY <1>1, DeadEffect DEF Stages
  <2> QED BY <1>1, <2>1, QuietFailures
<1>2. CASE StopAsked \/ SeeDead \/ ThreadDies \/ Publish
  BY <1>2, QuietFailures DEF StopAsked, SeeDead, ThreadDies, Publish
<1>3. CASE Start
  <2> PICK p \in 1 .. start' \ {worker[i].pid : i \in {j \in Starts : Running(j)}} :
         worker' = [worker EXCEPT ![start + 1] = [NoWorker EXCEPT !.pc = "boot", !.pid = p]]
    BY <1>3 DEF Start
  <2>1. start < MaxStarts /\ active' = active
    BY <1>3, Zenon DEF Start
  <2> DEFINE w == [NoWorker EXCEPT !.pc = "boot", !.pid = p]
  <2>2. w.pc \notin {"recover", "sleep"} /\ w.failure \notin Stages
    BY DEF NoWorker, Stages
  <2> HIDE DEF w
  <2>3. \A j \in Starts : worker'[j] = w \/ worker'[j] = worker[j]
    BY <2>1 DEF w
  <2> QED BY <2>1, <2>2, <2>3, QuietFailures
<1>4. CASE Terminate
  <2>1. start \in Starts /\ active' = active
    BY <1>4 DEF Terminate, Places
  <2>2. \A j \in Starts : /\ worker'[j].pc = worker[j].pc /\ worker'[j].cycle = worker[j].cycle
                          /\ Remembers(j)
    <3>1. worker' = worker \/ worker' = [worker EXCEPT ![start].term = TRUE]
      BY <1>4 DEF Terminate
    <3>2. CASE worker' = [worker EXCEPT ![start].term = TRUE]
      BY <2>1, <3>2 DEF Worker
    <3> QED BY <3>1, <3>2
  <2> QED BY <2>1, <2>2, QuietFailures
<1>5. CASE Reap
  <2>1. start \in Starts
    BY <1>5 DEF Reap, Places
  <2> PICK n \in Starts : n = start
    BY <2>1
  <2> QED BY <1>5, <1>1 DEF Reap
<1>6. CASE SupervisorDies
  <2>1. start \in Starts /\ active' = active
    BY <1>6 DEF SupervisorDies, Places
  <2>2. \A j \in Starts : /\ worker'[j].pc = worker[j].pc /\ worker'[j].cycle = worker[j].cycle
                          /\ Remembers(j)
    BY <1>6, <2>1 DEF SupervisorDies, Worker
  <2> QED BY <2>1, <2>2, QuietFailures
<1>7. CASE WorkerDies
  BY <1>7, <1>1 DEF WorkerDies
<1>8. CASE MachineDies
  <2>1. \A j \in Starts :
           \/ worker'[j].failure \notin Stages /\ worker'[j].pc \notin {"recover", "sleep"}
           \/ worker'[j] = worker[j]
    BY <1>8, DeadTyped DEF MachineDies, Stages
  <2>2. active' = active
    BY <1>8 DEF MachineDies
  <2> QED BY <2>1, <2>2, QuietFailures
<1> QED BY <1>2, <1>3, <1>4, <1>5, <1>6, <1>7, <1>8

LEMMA WorkerFailures ==
  ASSUME TypeOK, Places, Failures, NEW i \in Starts, WorkerStep(i)
  PROVE  Failures'
<1> USE DEF TypeOK, Remembers
<1>1. ASSUME \A j \in Starts \ {i} : worker'[j] = worker[j], active' = active,
             \/ worker'[i].failure \notin Stages /\ worker'[i].pc \notin {"recover", "sleep"}
             \/ /\ Remembers(i)
                /\ worker'[i].pc \in InLoop \ {"recover", "sleep"}
      PROVE  Failures'
  BY <1>1, QuietFailures
<1>2. Remembered(i)
  BY DEF Failures
<1>3. ASSUME Exit(i), active' = active PROVE Failures'
  BY <1>1, <1>3, DeadEffect DEF Exit, Stages
<1>4. ASSUME Unwind(i), active' = active PROVE Failures'
  BY <1>1, <1>4, UnwindEffect DEF Stages
<1>5. ASSUME NEW label \in Steps \ {"recover", "sleep"}, Goto(i, label), active' = active,
             worker[i].pc \notin InLoop \/ label \in InLoop
      PROVE  Failures'
  <2>1. /\ worker'[i].pc = label /\ Remembers(i)
        /\ \A j \in Starts \ {i} : worker'[j] = worker[j]
    BY <1>5, GotoEffect
  <2>2. worker[i].pc \notin InLoop => worker[i].failure \notin Stages
    BY <1>2 DEF Remembered
  <2> QED BY <1>1, <1>5, <2>1, <2>2
<1>6. CASE TakeSignal(i)
  BY <1>6, <1>3, <1>4 DEF TakeSignal, Leave
<1>7. CASE CheckParent(i) \/ Recheck(i) \/ AcquireLock(i)
  BY <1>7, <1>3, <1>5 DEF CheckParent, Recheck, AcquireLock, At, InLoop, Steps
<1>8. CASE InstallGuard(i)
  <2>1. /\ worker'[i].pc = "recheck" /\ Remembers(i)
        /\ \A j \in Starts \ {i} : worker'[j] = worker[j]
    BY <1>8 DEF InstallGuard, Worker
  <2>2. worker[i].failure \notin Stages
    BY <1>2, <1>8 DEF Remembered, InstallGuard, At, InLoop
  <2>3. active' = active
    BY <1>8 DEF InstallGuard
  <2> QED BY <1>1, <2>1, <2>2, <2>3
<1>9. CASE LeaveLoop(i)
  BY <1>9, <1>4 DEF LeaveLoop
<1>10. CASE WriteStarting(i) \/ SaveLatest(i) \/ SaveReport(i) \/ SaveReceipt(i) \/ SaveStatus(i)
  BY <1>10, <1>5 DEF WriteStarting, SaveLatest, SaveReport, SaveReceipt, SaveStatus, InLoop, Steps
<1>11. CASE WriteStopped(i)
  BY <1>11, <1>3 DEF WriteStopped, Leave
<1>12. CASE BeginCycle(i) \/ SkipCycle(i) \/ ReadSnapshot(i) \/ EndCycle(i) \/ Wake(i)
  <2>1. /\ worker'[i].pc \in {"evaluate", "run", "latest", "top"}
        /\ Remembers(i)
        /\ \A j \in Starts \ {i} : worker'[j] = worker[j]
    <3>1. ASSUME NEW outcome \in Outcomes, EndWith(i, outcome)
          PROVE  /\ worker'[i].pc = "latest" /\ Remembers(i)
                 /\ \A j \in Starts \ {i} : worker'[j] = worker[j]
      BY <3>1 DEF EndWith, Worker
    <3>2. CASE SkipCycle(i) \/ EndCycle(i)
      BY <3>1, <3>2 DEF SkipCycle, EndCycle, Outcomes
    <3>3. CASE BeginCycle(i)
      BY <3>3 DEF BeginCycle, Worker
    <3>4. CASE ReadSnapshot(i)
      BY <3>4 DEF ReadSnapshot, Worker
    <3>5. CASE Wake(i)
      BY <3>5 DEF Wake, Worker
    <3> QED BY <1>12, <3>2, <3>3, <3>4, <3>5
  <2>2. active' = active
    BY <1>12 DEF BeginCycle, SkipCycle, ReadSnapshot, EndCycle, Wake
  <2> QED BY <1>1, <2>1, <2>2 DEF InLoop
<1>13. CASE LogFailure(i)
  <2> DEFINE failure == Failure(worker[i].cycle.outcome)
  <2>1. /\ worker'[i].pc = "recover" /\ worker'[i].failure = failure
        /\ worker'[i].cycle = worker[i].cycle
        /\ \A j \in Starts \ {i} : worker'[j] = worker[j]
    BY <1>13 DEF LogFailure, Worker, Outcome
  <2>2. PICK refused \in BOOLEAN :
          /\ active' = active \cup IF refused THEN {} ELSE {failure} \cap (Stages \ {worker[i].failure})
          /\ worker'[i].dropped = (failure \in Stages
                /\ IF failure = worker[i].failure THEN worker[i].dropped ELSE refused)
    BY <1>13, Zenon DEF LogFailure, Worker, Outcome
  <2> HIDE DEF failure
  <2>3. failure \in Stages => failure \in active' \/ worker'[i].dropped
    <3>1. CASE failure = worker[i].failure
      BY <1>2, <2>2, <3>1, Zenon DEF Remembered
    <3>2. CASE failure # worker[i].failure
      BY <2>2, <3>2, Zenon
    <3> QED BY <3>1, <3>2
  <2>4. Remembered(i)'
    BY <2>1, <2>3 DEF Remembered, InLoop, failure
  <2>5. ASSUME NEW j \in Starts \ {i} PROVE Remembered(j)'
    <3>1. active \subseteq active'
      BY <2>2
    <3> QED BY <2>1, <3>1 DEF Failures, Remembered
  <2> QED BY <2>4, <2>5 DEF Failures
<1>14. CASE Recover(i)
  <2> PICK proved \in SUBSET Proved(Outcome(i)) : active' = active \ proved
    BY <1>14 DEF Recover
  <2>1. worker[i].pc = "recover" /\ lock = i
    BY <1>14 DEF Recover, At, Places, WorkerPlace, Holding, InLoop
  <2>2. /\ worker'[i].pc = "sleep" /\ Remembers(i)
        /\ worker'[i].cycle = worker[i].cycle
        /\ \A j \in Starts \ {i} : worker'[j] = worker[j]
    BY <1>14, GotoEffect DEF Recover
  <2>3. worker[i].failure = Failure(Outcome(i))
    BY <1>2, <2>1 DEF Remembered, Outcome
  <2>4. worker[i].failure \in Stages => Proved(Outcome(i)) = {}
    BY <2>3 DEF Failure, Proved, Stages
  <2>5. Remembered(i)'
    BY <1>2, <2>1, <2>2, <2>4 DEF Remembered, InLoop
  <2>6. ASSUME NEW j \in Starts \ {i} PROVE Remembered(j)'
    <3>1. worker[j].pc \notin InLoop
      BY <2>1 DEF Places, WorkerPlace, Holding
    <3> QED BY <2>2, <3>1 DEF Failures, Remembered, InLoop
  <2> QED BY <2>5, <2>6 DEF Failures
<1> QED BY <1>6, <1>7, <1>8, <1>9, <1>10, <1>11, <1>12, <1>13, <1>14 DEF WorkerStep

LEMMA NextFailures ==
  ASSUME TypeOK, Places, Failures, [Next]_vars
  PROVE  Failures'
<1> USE DEF Remembers
<1>1. CASE UNCHANGED vars
  BY <1>1, QuietFailures DEF vars
<1>2. CASE Ask \/ Refuse \/ Readiness \/ ReadStatusAgain \/ ReadReport
  BY <1>2, QuietFailures DEF Ask, Refuse, Readiness, ReadStatusAgain, ReadReport, store
<1>3. ASSUME NEW i \in Starts, WorkerStep(i) PROVE Failures'
  BY <1>3, WorkerFailures
<1> QED BY <1>1, <1>2, <1>3, SupervisorFailures DEF Next

-----------------------------------------------------------------------------
(* What a request has read. *)

LEMMA InitAnswers == Init => Answers
  BY DEF Init, Answers, Idle

(* The request stands still or is dropped; process ids and starts stay, and the report
   changes only for that of a later cycle. *)
LEMMA QuietAnswers ==
  ASSUME TypeOK, TypeOK', Answers, start' = start,
         \A i \in Starts : worker'[i].pid = worker[i].pid,
         request' = request \/ request' = Idle,
         request'.pc # "idle" => sup' = "serving",
         latest' = latest \/ latest'.id > latest.id
  PROVE  Answers'
<1> USE Bounds DEF TypeOK
<1>1. PidReused' = PidReused
  BY DEF PidReused, Starts
<1>2. request.status.cycle.id \in Nat /\ latest.id \in Nat /\ latest'.id \in Nat
  BY DEF Request, Status, Cycle
<1>3. CASE request' = Idle
  BY <1>3 DEF Idle, Answers
<1>4. CASE request' = request
  BY <1>1, <1>2, <1>4 DEF Answers
<1> QED BY <1>3, <1>4

LEMMA SupervisorAnswers ==
  ASSUME TypeOK, TypeOK', Places, Answers,
         \/ Start \/ StopAsked \/ SeeDead \/ Terminate \/ Reap
         \/ SupervisorDies \/ WorkerDies \/ ThreadDies \/ MachineDies \/ Publish
  PROVE  Answers'
<1> USE DEF files
<1>0. worker \in [Starts -> Worker] /\ (request.pc # "idle" => sup = "serving")
  BY DEF TypeOK, Answers
<1>1. ASSUME NEW i \in Starts, worker' = [worker EXCEPT ![i] = Dead(@)],
             start' = start, latest' = latest, request' = request,
             request'.pc # "idle" => sup' = "serving"
      PROVE  Answers'
  <2>1. \A j \in Starts : worker'[j].pid = worker[j].pid
    BY <1>0, <1>1, DeadEffect
  <2> QED BY <1>1, <2>1, QuietAnswers
<1>2. CASE StopAsked \/ SeeDead \/ ThreadDies \/ Publish
  <2>1. /\ start' = start /\ latest' = latest /\ worker' = worker
        /\ request' = Idle \/ (request' = request /\ sup' = sup)
    BY <1>2 DEF StopAsked, SeeDead, ThreadDies, Publish
  <2> QED BY <1>0, <2>1, QuietAnswers DEF Idle
<1>3. CASE Start
  <2>1. request'.pc = "idle"
    BY <1>0, <1>3 DEF Start
  <2> QED BY <2>1 DEF Answers
<1>4. CASE Terminate
  <2>1. start \in Starts /\ start' = start /\ latest' = latest /\ request' = request
    BY <1>4 DEF Terminate, Places, Starts, TypeOK
  <2>2. worker' = worker \/ worker' = [worker EXCEPT ![start].term = TRUE]
    BY <1>4 DEF Terminate
  <2>3. CASE worker' = [worker EXCEPT ![start].term = TRUE]
    <3>1. \A j \in Starts : worker'[j].pid = worker[j].pid
      BY <1>0, <2>1, <2>3 DEF Worker
    <3> QED BY <1>0, <1>4, <2>1, <3>1, QuietAnswers DEF Terminate
  <2> QED BY <1>0, <1>4, <2>1, <2>2, <2>3, QuietAnswers DEF Terminate
<1>5. CASE Reap
  <2>1. start \in Starts
    BY <1>5 DEF Reap, Places, Starts, TypeOK
  <2> PICK n \in Starts : n = start
    BY <2>1
  <2> QED BY <1>0, <1>5, <1>1 DEF Reap
<1>6. CASE SupervisorDies
  <2>1. start \in Starts
    BY <1>6 DEF SupervisorDies, Places, Starts, TypeOK
  <2>2. \A j \in Starts : worker'[j].pid = worker[j].pid
    BY <1>0, <1>6, <2>1 DEF SupervisorDies, Worker
  <2> QED BY <1>6, <2>2, QuietAnswers DEF SupervisorDies, Idle
<1>7. CASE WorkerDies
  BY <1>0, <1>7, <1>1 DEF WorkerDies
<1>8. CASE MachineDies
  <2>1. \A j \in Starts : worker'[j].pid = worker[j].pid
    BY <1>0, <1>8, DeadTyped DEF MachineDies
  <2> QED BY <1>8, <2>1, QuietAnswers DEF MachineDies, Idle
<1> QED BY <1>2, <1>3, <1>4, <1>5, <1>6, <1>7, <1>8

LEMMA WorkerAnswers ==
  ASSUME TypeOK, TypeOK', Places, Files, Answers, NEW i \in Starts, WorkerStep(i)
  PROVE  Answers'
<1> USE DEF host, files
<1>1. worker \in [Starts -> Worker] /\ (request.pc # "idle" => sup = "serving")
  BY DEF TypeOK, Answers
<1>2. UNCHANGED <<start, sup, request>>
  BY DEF WorkerStep, TakeSignal, CheckParent, InstallGuard, Recheck, AcquireLock, WriteStarting,
         LeaveLoop, WriteStopped, BeginCycle, SkipCycle, ReadSnapshot, EndCycle, SaveLatest,
         SaveReport, SaveReceipt, SaveStatus, LogFailure, Recover, Wake
<1>3. latest' = latest \/ latest'.id > latest.id
  <2>1. CASE SaveLatest(i)
    <3>1. latest' = worker[i].cycle /\ worker[i].pc = "latest"
      BY <2>1 DEF SaveLatest, At
    <3>2. latest.id < worker[i].cycle.id
      BY <3>1 DEF Files, CycleFiles
    <3>3. latest.id \in Nat /\ worker[i].cycle.id \in Nat
      BY <1>1, Bounds DEF TypeOK, Worker, Cycle
    <3> QED BY <3>1, <3>2, <3>3
  <2>2. CASE ~SaveLatest(i)
    BY <2>2 DEF WorkerStep, TakeSignal, CheckParent, InstallGuard, Recheck, AcquireLock, WriteStarting,
         LeaveLoop, WriteStopped, BeginCycle, SkipCycle, ReadSnapshot, EndCycle,
         SaveReport, SaveReceipt, SaveStatus, LogFailure, Recover, Wake
  <2> QED BY <2>1, <2>2
<1>4. \A j \in Starts : worker'[j].pid = worker[j].pid
  <2>1. CASE LoopStep(i)
    BY <2>1, LoopEffect
  <2>2. Exit(i) => \A j \in Starts : worker'[j].pid = worker[j].pid
    BY <1>1, DeadEffect DEF Exit
  <2>3. Unwind(i) => \A j \in Starts : worker'[j].pid = worker[j].pid
    BY <1>1, UnwindEffect
  <2>4. ASSUME NEW label, Goto(i, label) PROVE \A j \in Starts : worker'[j].pid = worker[j].pid
    BY <1>1, <2>4, GotoEffect
  <2>5. CASE InstallGuard(i)
    BY <1>1, <2>5 DEF InstallGuard, Worker
  <2>6. CASE CheckParent(i) \/ Recheck(i) \/ AcquireLock(i)
    BY <2>2, <2>4, <2>6 DEF CheckParent, Recheck, AcquireLock
  <2>7. CASE TakeSignal(i) \/ LeaveLoop(i) \/ WriteStopped(i)
    BY <2>2, <2>3, <2>7 DEF TakeSignal, LeaveLoop, WriteStopped, Leave
  <2> QED BY <2>1, <2>5, <2>6, <2>7 DEF WorkerStep, LoopStep
<1> QED BY <1>1, <1>2, <1>3, <1>4, QuietAnswers

(* The status of a finished cycle whose process id is the worker's is the worker's own. *)
LEMMA OwnedStatus ==
  ASSUME TypeOK, Places, StatusCycle, sup # "down", Owned, status.kind \in Finished, ~PidReused
  PROVE  status.cycle.owner = start
<1>1. start \in Starts /\ status.owner \in 0 .. start
  BY DEF Places, StatusOwner, TypeOK, Status, Starts
<1>2. worker[start].pid > 0
  BY <1>1, Bounds DEF Places, WorkerPlace, TypeOK, Starts
<1>3. status.owner # 0 /\ worker[status.owner].pid = worker[start].pid
  BY <1>2, Bounds DEF Owned, Places, StatusOwner
<1>4. status.owner = start
  BY <1>1, <1>3, Bounds DEF PidReused, TypeOK
<1> QED BY <1>4 DEF StatusCycle

LEMMA RequestAnswers ==
  ASSUME TypeOK, TypeOK', Places, Files, Answers,
         Ask \/ Refuse \/ Readiness \/ ReadStatusAgain \/ ReadReport
  PROVE  Answers'
<1>1. /\ UNCHANGED <<start, sup, worker, latest>>
      /\ PidReused' = PidReused
  BY DEF Ask, Refuse, Readiness, ReadStatusAgain, ReadReport, store, files, PidReused
<1>2. request.pc # "idle" => sup = "serving"
  BY DEF Answers
<1>3. CASE Ask \/ Refuse
  <2>1. request'.pc = "idle" \/ (request'.pc = "readiness" /\ sup = "serving")
    BY <1>3 DEF Ask, Refuse, Idle
  <2> QED BY <1>1, <2>1 DEF Answers
<1>4. CASE Readiness
  <2>1. CASE Owned /\ status.ready
    <3>1. request' = [request EXCEPT !.pc = "ready", !.status = status] /\ request.pc = "readiness"
      BY <1>4, <2>1 DEF Readiness
    <3>2. request'.pc = "ready" /\ request'.status = status
      BY <3>1 DEF TypeOK, Request
    <3>3. status.kind = "waiting" /\ status.cycle.outcome \in {"clean", "paused"}
      BY <2>1 DEF Files, StatusCycle
    <3>4. ~PidReused => status.cycle.owner = start
      BY <1>2, <2>1, <3>1, <3>3, OwnedStatus DEF Files, Finished
    <3> QED BY <1>1, <1>2, <3>1, <3>2, <3>3, <3>4 DEF Answers
  <2>2. CASE ~(Owned /\ status.ready)
    <3>1. request'.pc = "again" /\ sup = "serving"
      BY <1>2, <1>4, <2>2 DEF Readiness, TypeOK, Request
    <3> QED BY <1>1, <3>1 DEF Answers
  <2> QED BY <2>1, <2>2
<1>5. CASE ReadStatusAgain
  <2>1. /\ request'.pc = "report" /\ request'.status = status
        /\ sup = "serving" /\ Owned /\ status.kind = "blocked"
    BY <1>2, <1>5 DEF ReadStatusAgain, TypeOK, Request
  <2>2. status.cycle.outcome = "blocked" /\ latest = status.cycle
    BY <2>1 DEF Files, StatusCycle, FinishedCycleIsOnDisk
  <2>3. ~PidReused => status.cycle.owner = start
    BY <2>1, OwnedStatus DEF Files, Finished
  <2>4. latest.id \in Nat
    BY Bounds DEF TypeOK, Cycle
  <2> QED BY <1>1, <2>1, <2>2, <2>3, <2>4 DEF Answers
<1>6. CASE ReadReport
  <2>1. /\ request.pc = "report" /\ request'.pc = "observing" /\ sup = "serving"
        /\ request'.status = request.status /\ request'.publication = request.publication
        /\ latest.id = request.status.cycle.id /\ latest.generation = request.publication
    BY <1>2, <1>6 DEF ReadReport, TypeOK, Request
  <2>2. request.status.cycle.generation = request.publication
    BY <2>1 DEF Answers
  <2> QED BY <1>1, <2>1, <2>2 DEF Answers
<1> QED BY <1>3, <1>4, <1>5, <1>6

LEMMA NextAnswers ==
  ASSUME TypeOK, TypeOK', Places, Files, Answers, [Next]_vars
  PROVE  Answers'
<1>1. CASE UNCHANGED vars
  BY <1>1, QuietAnswers DEF vars, files, Answers
<1>2. ASSUME NEW i \in Starts, WorkerStep(i) PROVE Answers'
  BY <1>2, WorkerAnswers
<1> QED BY <1>1, <1>2, SupervisorAnswers, RequestAnswers DEF Next

-----------------------------------------------------------------------------
(* The theorems. *)

Inv == TypeOK /\ Places /\ Files /\ Failures /\ Answers

LEMMA Invariant == Spec => []Inv
<1>1. Init => Inv
  BY InitTypeOK, InitPlaces, InitFiles, InitFailures, InitAnswers DEF Inv
<1>2. Inv /\ [Next]_vars => Inv'
  BY NextTyped, NextPlaces, NextFiles, NextFailures, NextAnswers DEF Inv
<1> QED BY <1>1, <1>2, PTL DEF Spec

(* Every variable of the host keeps its type, whatever dies and whoever asks (TypeOK). *)
THEOREM HostTypeCorrect == Spec => []TypeOK
<1>1. Inv => TypeOK
  BY DEF Inv
<1> QED BY <1>1, Invariant, PTL

(* run_once writes the report and the receipt before the status: however often the worker is
   killed or signalled between the writes, a status that names a finished cycle has both on
   disk (FinishedCycleIsOnDisk). *)
THEOREM FinishedOnDisk == Spec => []FinishedCycleIsOnDisk
<1>1. Inv => FinishedCycleIsOnDisk
  BY DEF Inv, Files
<1> QED BY <1>1, Invariant, PTL

(* _last_evaluation_failure: the stage that failed in the last finished cycle is an active
   incident while the worker waits, for any alternation of failures, recoveries and
   restarts, unless the warning with which this failure began was dropped by the alert
   store (OngoingFailureShown). *)
THEOREM OngoingFailureStaysShown == Spec => []OngoingFailureShown
<1>1. ASSUME Failures, NEW i \in Starts, worker[i].pc = "sleep", Outcome(i) \in Stages
      PROVE  Outcome(i) \in active \/ worker[i].dropped
  <2>1. worker[i].failure = Outcome(i)
    BY <1>1 DEF Failures, Remembered, Failure, Outcome
  <2> QED BY <1>1, <2>1 DEF Failures, Remembered
<1>2. Inv => OngoingFailureShown
  BY <1>1 DEF Inv, OngoingFailureShown
<1> QED BY <1>2, Invariant, PTL

(* service_readiness reads status and report at different moments of a running worker: unless
   process ids repeat, what it answers is still about one finished cycle of the worker that
   this supervisor started (AnswerIsOneCycle). *)
THEOREM AnswersAreOneCycle == Spec => []AnswerIsOneCycle
<1>1. Inv => AnswerIsOneCycle
  BY DEF Inv, Answers, AnswerIsOneCycle
<1> QED BY <1>1, Invariant, PTL

(* install_parent_death_guard and the lock: a worker that outlived its supervisor never
   writes the status over that of a later one (StatusNeverGoesBack). *)
THEOREM StatusOnlyForward == Spec => StatusNeverGoesBack
<1>1. ASSUME Inv, Next PROVE status'.owner >= status.owner
  <2>0. TypeOK /\ Places /\ status.owner \in Int
    BY <1>1 DEF Inv, TypeOK, Status
  <2>1. CASE status' = status
    BY <2>0, <2>1
  <2>2. ASSUME NEW i \in Starts, WorkerStep(i), status' # status
        PROVE  status'.owner >= status.owner
    <3>1. status'.owner = i /\ worker[i].pc \in Holding
      <4>1. CASE LoopStep(i)
        BY <2>0, <2>2, <4>1, LoopEffect
      <4>2. CASE WriteStopped(i)
        BY <4>2 DEF WriteStopped, WriteStatus, At, Holding
      <4> QED BY <2>2, <4>1, <4>2 DEF WorkerStep, LoopStep, TakeSignal, CheckParent, InstallGuard,
                                      Recheck, AcquireLock, LeaveLoop
    <3>2. status.owner <= i
      BY <2>0, <3>1 DEF Places, WorkerPlace
    <3> QED BY <2>0, <3>1, <3>2 DEF Starts
  <2>3. CASE \/ Start \/ StopAsked \/ SeeDead \/ Terminate \/ Reap
             \/ SupervisorDies \/ WorkerDies \/ ThreadDies \/ MachineDies \/ Publish
    BY <2>1, <2>3 DEF Start, StopAsked, SeeDead, Terminate, Reap, SupervisorDies, WorkerDies,
                      ThreadDies, MachineDies, Publish
  <2>4. CASE Ask \/ Refuse \/ Readiness \/ ReadStatusAgain \/ ReadReport
    BY <2>1, <2>4 DEF Ask, Refuse, Readiness, ReadStatusAgain, ReadReport, store
  <2> QED BY <1>1, <2>1, <2>2, <2>3, <2>4 DEF Next
<1>2. Inv /\ [Next]_vars => [status'.owner >= status.owner]_vars
  BY <1>1
<1> QED BY <1>2, Invariant, PTL DEF Spec, StatusNeverGoesBack
=============================================================================
