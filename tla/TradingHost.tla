---------------------------- MODULE TradingHost ----------------------------
(***************************************************************************)
(* The hosted service (combined_service.py) and its trading worker         *)
(* (trading_worker.py).                                                    *)
(*                                                                         *)
(* Each start of the service is a supervisor that owns a lock, a refresh   *)
(* thread and one child, the trading worker, which runs cycles under a     *)
(* lock of its own and leaves each in several files, replaced one after    *)
(* another.  Supervisor, thread and worker may each die alone, or all      *)
(* with the machine; what outlives them is the files.  The supervisor      *)
(* answers /readyz from these files while the worker rewrites them.        *)
(* A supervisor that finds the lock taken exits and is left out.  The      *)
(* heartbeat's age is a refusal that is always possible.                   *)
(***************************************************************************)
EXTENDS Integers, FiniteSets, Sequences

CONSTANTS
    MaxStarts,        \* bound: starts of the service
    MaxCycles,        \* bound: trading cycles
    MaxPublications,  \* bound: published generations
    MaxCrashes        \* bound: deaths that nobody asked for

ASSUME HostAssumption ==
    /\ {MaxStarts, MaxCycles, MaxPublications, MaxCrashes} \subseteq Nat
    /\ MaxPublications > 0

VARIABLES
    start,      \* how often the service was started
    sup,        \* the supervisor of the last start
    thread,     \* its refresh thread is alive
    worker,     \* the child of each start
    lock,       \* the start whose worker holds trading-worker.lock, or 0
    status,     \* status.json
    latest, report, receipts,   \* latest.json, report.json, cycles/*.json
    active,     \* the stages with an active incident in the alert stream
    published,  \* the generation readers are served
    request,    \* a /readyz request and its answer
    made,       \* how many cycles were begun
    crashes

vars == <<start, sup, thread, worker, lock, status, latest, report, receipts,
          active, published, request, made, crashes>>

files == <<latest, report, receipts>>

Starts == 1 .. MaxStarts

(* Where a cycle can raise. *)
Stages == {"market_observation", "portfolio_execution"}

(* What a cycle proves at most: a blocked one still observed the markets, *)
(* and an observation without a fresh stamp proves nothing.               *)
Proved(outcome) ==
    CASE outcome = "clean" -> Stages
      [] outcome = "blocked" -> {"market_observation"}
      [] OTHER -> {}

Outcomes == Stages \cup {"clean", "blocked", "degraded", "paused"}

(* A cycle: in status.json its id stands for it, in latest.json all of it. *)
Cycle == [id : 0 .. MaxCycles, owner : 0 .. MaxStarts, generation : 0 .. MaxPublications,
          outcome : Outcomes \cup {"none"}]
NoCycle == [id |-> 0, owner |-> 0, generation |-> 0, outcome |-> "none"]

(* dropped is history: the warning of the remembered failure was dropped.  *)
NoWorker == [pc |-> "none", pid |-> 0, guard |-> FALSE, term |-> FALSE,
             cycle |-> NoCycle, failure |-> "none", dropped |-> FALSE]
NoStatus == [owner |-> 0, pid |-> 0, kind |-> "none", ready |-> FALSE, cycle |-> NoCycle]
Idle == [pc |-> "idle", publication |-> 0, status |-> NoStatus]

Steps == {"none", "dead", "boot", "guard", "recheck", "lock", "starting", "top", "evaluate",
          "run", "latest", "report", "receipt", "status", "alert", "recover", "sleep",
          "finally"}

Worker == [pc : Steps, pid : 0 .. MaxStarts, guard : BOOLEAN, term : BOOLEAN, cycle : Cycle,
           failure : Stages \cup {"none", "blocked"}, dropped : BOOLEAN]

Status == [owner : 0 .. MaxStarts, pid : 0 .. MaxStarts, ready : BOOLEAN, cycle : Cycle,
           kind : {"none", "starting", "evaluating", "waiting", "blocked", "degraded",
                   "stopped"}]

Request == [pc : {"idle", "readiness", "again", "report", "ready", "observing"},
            publication : 0 .. MaxPublications, status : Status]

TypeOK ==
    /\ start \in 0 .. MaxStarts
    /\ sup \in {"down", "serving", "stopping", "waiting"}
    /\ thread \in BOOLEAN
    /\ worker \in [Starts -> Worker]
    /\ lock \in 0 .. MaxStarts
    /\ status \in Status
    /\ latest \in Cycle /\ report \in 0 .. MaxCycles
    /\ receipts \subseteq 0 .. MaxCycles
    /\ active \subseteq Stages
    /\ published \in 1 .. MaxPublications
    /\ request \in Request
    /\ made \in 0 .. MaxCycles
    /\ crashes \in 0 .. MaxCrashes

Init ==
    /\ start = 0 /\ sup = "down" /\ thread = FALSE
    /\ worker = [i \in Starts |-> NoWorker]
    /\ lock = 0
    /\ status = NoStatus
    /\ latest = NoCycle /\ report = 0 /\ receipts = {}
    /\ active = {}
    /\ published = 1
    /\ request = Idle
    /\ made = 0
    /\ crashes = 0

Running(i) == worker[i].pc \notin {"none", "dead"}

Dead(w) == [NoWorker EXCEPT !.pc = "dead", !.pid = w.pid]

(* os.getppid() is the supervisor that started the worker. *)
HasParent(i) == i = start /\ sup # "down"

-----------------------------------------------------------------------------
(***************************************************************************)
(* The supervisor: serve.  A process id is new, or that of a dead worker.  *)
(***************************************************************************)
Start ==
    /\ sup = "down" /\ start < MaxStarts
    /\ start' = start + 1
    /\ sup' = "serving" /\ thread' = TRUE
    /\ \E p \in 1 .. start' \ {worker[i].pid : i \in {j \in Starts : Running(j)}} :
          worker' = [worker EXCEPT ![start + 1] = [NoWorker EXCEPT !.pc = "boot", !.pid = p]]
    /\ UNCHANGED <<lock, status, files, active, published, request, made, crashes>>

(* SIGTERM to the supervisor, or a server that cannot be made. *)
StopAsked ==
    /\ sup = "serving"
    /\ sup' = "stopping" /\ request' = Idle
    /\ UNCHANGED <<start, thread, worker, lock, status, files, active, published, made, crashes>>

SeeDead ==
    /\ sup = "serving"
    /\ ~Running(start) \/ ~thread
    /\ sup' = "stopping" /\ request' = Idle
    /\ UNCHANGED <<start, thread, worker, lock, status, files, active, published, made, crashes>>

(* The finally block: terminate, wait twenty seconds, kill. *)
Terminate ==
    /\ sup = "stopping"
    /\ IF Running(start)
       THEN /\ worker' = [worker EXCEPT ![start].term = TRUE]
            /\ sup' = "waiting" /\ UNCHANGED thread
       ELSE /\ sup' = "down" /\ thread' = FALSE
            /\ UNCHANGED worker
    /\ UNCHANGED <<start, lock, status, files, active, published, request, made, crashes>>

Reap ==
    /\ sup = "waiting"
    /\ worker' = [worker EXCEPT ![start] = Dead(@)]
    /\ lock' = IF lock = start THEN 0 ELSE lock
    /\ sup' = "down" /\ thread' = FALSE
    /\ UNCHANGED <<start, status, files, active, published, request, made, crashes>>

(* The supervisor is killed; the kernel signals a child that asked for it. *)
SupervisorDies ==
    /\ sup # "down" /\ crashes < MaxCrashes
    /\ sup' = "down" /\ thread' = FALSE /\ request' = Idle
    /\ worker' = [worker EXCEPT ![start].term = Running(start) /\ (@ \/ worker[start].guard)]
    /\ crashes' = crashes + 1
    /\ UNCHANGED <<start, lock, status, files, active, published, made>>

WorkerDies ==
    /\ crashes < MaxCrashes
    /\ \E i \in Starts :
          /\ Running(i)
          /\ worker' = [worker EXCEPT ![i] = Dead(@)]
          /\ lock' = IF lock = i THEN 0 ELSE lock
    /\ crashes' = crashes + 1
    /\ UNCHANGED <<start, sup, thread, status, files, active, published, request, made>>

ThreadDies ==
    /\ thread /\ crashes < MaxCrashes
    /\ thread' = FALSE
    /\ crashes' = crashes + 1
    /\ UNCHANGED <<start, sup, worker, lock, status, files, active, published, request, made>>

MachineDies ==
    /\ sup # "down" /\ crashes < MaxCrashes
    /\ sup' = "down" /\ thread' = FALSE /\ request' = Idle
    /\ worker' = [i \in Starts |-> IF Running(i) THEN Dead(worker[i]) ELSE worker[i]]
    /\ lock' = 0
    /\ crashes' = crashes + 1
    /\ UNCHANGED <<start, status, files, active, published, made>>

Publish ==
    /\ thread /\ published < MaxPublications
    /\ published' = published + 1
    /\ UNCHANGED <<start, sup, thread, worker, lock, status, files, active, request, made, crashes>>

-----------------------------------------------------------------------------
(***************************************************************************)
(* The worker's life around its cycles: main and run.                      *)
(***************************************************************************)
(* Worker i is at a step, and no signal is waiting to be handled.          *)
At(i, label) == worker[i].pc = label /\ ~worker[i].term

Goto(i, label) == worker' = [worker EXCEPT ![i].pc = label]

(* Nobody reads the cycle of a status that does not end one, so the id is *)
(* left out of it, and the heartbeats of a cycle write what is there.     *)
WriteStatus(i, kind, cycle) ==
    status' = [owner |-> i, pid |-> worker[i].pid, kind |-> kind,
               ready |-> kind = "waiting", cycle |-> cycle]

Exit(i) == worker' = [worker EXCEPT ![i] = Dead(@)]

Leave(i) ==
    /\ Exit(i)
    /\ lock' = IF lock = i THEN 0 ELSE lock

(* What is raised inside the try of run ends in its finally block. *)
InLoop == {"top", "evaluate", "run", "latest", "report", "receipt", "status",
           "alert", "recover", "sleep"}
Unwind(i) == worker' = [worker EXCEPT ![i] =
    [NoWorker EXCEPT !.pc = "finally", !.pid = worker[i].pid, !.guard = worker[i].guard]]

host == <<start, sup, thread, published, request, crashes>>

(* The handler of SIGTERM raises SystemExit wherever the worker is. *)
TakeSignal(i) ==
    /\ Running(i) /\ worker[i].term
    /\ IF worker[i].pc \in InLoop
       THEN Unwind(i) /\ UNCHANGED lock
       ELSE Leave(i)
    /\ UNCHANGED <<host, status, files, active, made>>

(* install_parent_death_guard: look, ask the kernel, look again. *)
CheckParent(i) ==
    /\ At(i, "boot")
    /\ IF HasParent(i) THEN Goto(i, "guard") ELSE Exit(i)
    /\ UNCHANGED <<host, lock, status, files, active, made>>

(* Mutant: the kernel is not asked.                                        *)
InstallNoGuard(i) ==
    /\ At(i, "guard")
    /\ worker' = [worker EXCEPT ![i].pc = "recheck"]
    /\ UNCHANGED <<host, lock, status, files, active, made>>

InstallGuard(i) ==
    /\ At(i, "guard")
    /\ worker' = [worker EXCEPT ![i].pc = "recheck", ![i].guard = TRUE]
    /\ UNCHANGED <<host, lock, status, files, active, made>>

(* Mutant: the race between getppid and prctl is left open.                *)
RecheckSkipped(i) ==
    /\ At(i, "recheck")
    /\ Goto(i, "lock")
    /\ UNCHANGED <<host, lock, status, files, active, made>>

Recheck(i) ==
    /\ At(i, "recheck")
    /\ IF HasParent(i) THEN Goto(i, "lock") ELSE Exit(i)
    /\ UNCHANGED <<host, lock, status, files, active, made>>

AcquireLock(i) ==
    /\ At(i, "lock")
    /\ IF lock = 0
       THEN lock' = i /\ Goto(i, "starting")
       ELSE Exit(i) /\ UNCHANGED lock
    /\ UNCHANGED <<host, status, files, active, made>>

WriteStarting(i) ==
    /\ At(i, "starting")
    /\ WriteStatus(i, "starting", NoCycle)
    /\ Goto(i, "top")
    /\ UNCHANGED <<host, lock, files, active, made>>

(* The loop ends with the parent; a refused startup gate, or a file that *)
(* cannot be written, is raised through it.                              *)
LeaveLoop(i) ==
    /\ \E label \in InLoop : At(i, label)
    /\ Unwind(i)
    /\ UNCHANGED <<host, lock, status, files, active, made>>

WriteStopped(i) ==
    /\ At(i, "finally")
    /\ WriteStatus(i, "stopped", NoCycle)
    /\ Leave(i)
    /\ UNCHANGED <<host, files, active, made>>

-----------------------------------------------------------------------------
(***************************************************************************)
(* One cycle: run_once.                                                    *)
(***************************************************************************)
(* Mutant: the status of the cycle before is left in place.               *)
BeginQuietly(i) ==
    /\ At(i, "top") /\ HasParent(i) /\ made < MaxCycles
    /\ made' = made + 1
    /\ worker' = [worker EXCEPT ![i].pc = "evaluate",
                                ![i].cycle = [NoCycle EXCEPT !.id = made', !.owner = i]]
    /\ UNCHANGED <<host, lock, status, files, active>>

BeginCycle(i) ==
    /\ At(i, "top") /\ HasParent(i) /\ made < MaxCycles
    /\ made' = made + 1
    /\ worker' = [worker EXCEPT ![i].pc = "evaluate",
                                ![i].cycle = [NoCycle EXCEPT !.id = made', !.owner = i]]
    /\ WriteStatus(i, "evaluating", NoCycle)
    /\ UNCHANGED <<host, lock, files, active>>

(* The generation of a cycle is looked at only when it was blocked. *)
EndWith(i, outcome) ==
    worker' = [worker EXCEPT ![i].pc = "latest", ![i].cycle.outcome = outcome,
                             ![i].cycle.generation = IF outcome = "blocked" THEN @ ELSE 0]

(* Failed account reads, or a pause: the cycle is not run. *)
SkipCycle(i) ==
    /\ At(i, "evaluate")
    /\ \E outcome \in {"degraded", "paused"} : EndWith(i, outcome)
    /\ UNCHANGED <<host, lock, status, files, active, made>>

ReadSnapshot(i) ==
    /\ At(i, "evaluate")
    /\ worker' = [worker EXCEPT ![i].pc = "run", ![i].cycle.generation = published]
    /\ UNCHANGED <<host, lock, status, files, active, made>>

EndCycle(i) ==
    /\ At(i, "run")
    /\ \E outcome \in Outcomes \ {"paused"} : EndWith(i, outcome)
    /\ UNCHANGED <<host, lock, status, files, active, made>>

SaveLatest(i) ==
    /\ At(i, "latest")
    /\ latest' = worker[i].cycle
    /\ Goto(i, "report")
    /\ UNCHANGED <<host, lock, status, report, receipts, active, made>>

SaveReport(i) ==
    /\ At(i, "report")
    /\ report' = worker[i].cycle.id
    /\ Goto(i, "receipt")
    /\ UNCHANGED <<host, lock, status, latest, receipts, active, made>>

SaveReceipt(i) ==
    /\ At(i, "receipt")
    /\ receipts' = receipts \cup {worker[i].cycle.id}
    /\ Goto(i, "status")
    /\ UNCHANGED <<host, lock, status, latest, report, active, made>>

Outcome(i) == worker[i].cycle.outcome

StatusOf(outcome) ==
    CASE outcome \in {"clean", "paused"} -> "waiting"
      [] outcome = "blocked" -> "blocked"
      [] OTHER -> "degraded"

SaveStatus(i) ==
    /\ At(i, "status")
    /\ WriteStatus(i, StatusOf(Outcome(i)), worker[i].cycle)
    /\ Goto(i, "alert")
    /\ UNCHANGED <<host, lock, files, active, made>>

Failure(outcome) == IF outcome \in Stages \cup {"blocked"} THEN outcome ELSE "none"

(* Mutant: a cycle without a failure does not clear the memory.             *)
LogFailureOnce(i) ==
    /\ At(i, "alert")
    /\ LET before == worker[i].failure
           failure == IF Failure(Outcome(i)) = "none" THEN before ELSE Failure(Outcome(i))
       IN  \E refused \in BOOLEAN :
             /\ active' = active \cup IF refused THEN {} ELSE {failure} \cap (Stages \ {before})
             /\ worker' = [worker EXCEPT
                    ![i].pc = "recover", ![i].failure = failure,
                    ![i].dropped = failure \in Stages /\ IF failure = before THEN @ ELSE refused]
    /\ UNCHANGED <<host, lock, status, files, made>>

(* A failure is logged when it is another one than that of the cycle before *)
(* (of another stage: another error at the same stage is the same here),    *)
(* and remembered as logged although the alert handler may have swallowed   *)
(* that the store could not be locked in time and the warning was dropped.  *)
LogFailure(i) ==
    /\ At(i, "alert")
    /\ LET before == worker[i].failure
           failure == Failure(Outcome(i))
       IN  \E refused \in BOOLEAN :
             /\ active' = active \cup IF refused THEN {} ELSE {failure} \cap (Stages \ {before})
             /\ worker' = [worker EXCEPT
                    ![i].pc = "recover", ![i].failure = failure,
                    ![i].dropped = failure \in Stages /\ IF failure = before THEN @ ELSE refused]
    /\ UNCHANGED <<host, lock, status, files, made>>

Recover(i) ==
    /\ At(i, "recover")
    /\ \E proved \in SUBSET Proved(Outcome(i)) : active' = active \ proved
    /\ Goto(i, "sleep")
    /\ UNCHANGED <<host, lock, status, files, made>>

Wake(i) ==
    /\ At(i, "sleep")
    /\ worker' = [worker EXCEPT ![i].pc = "top", ![i].cycle = NoCycle]
    /\ UNCHANGED <<host, lock, status, files, active, made>>

-----------------------------------------------------------------------------
(***************************************************************************)
(* /readyz: the publication, the status, the status again, the report.     *)
(***************************************************************************)
store == <<start, sup, thread, worker, lock, status, files, active, published, made, crashes>>

Ask ==
    /\ sup = "serving" /\ thread
    /\ request' = [pc |-> "readiness", publication |-> published, status |-> NoStatus]
    /\ UNCHANGED store

Refuse ==
    /\ request.pc \in {"readiness", "again", "report"}
    /\ request' = Idle
    /\ UNCHANGED store

(* _running_status, but for the heartbeat's age. *)
Owned == Running(start) /\ status.pid = worker[start].pid

Readiness ==
    /\ request.pc = "readiness"
    /\ request' = IF Owned /\ status.ready
                  THEN [request EXCEPT !.pc = "ready", !.status = status]
                  ELSE [request EXCEPT !.pc = "again"]
    /\ UNCHANGED store

ReadStatusAgain ==
    /\ request.pc = "again"
    /\ Owned /\ status.kind = "blocked"
    /\ request' = [request EXCEPT !.pc = "report", !.status = status]
    /\ UNCHANGED store

(* Mutant: the report's cycle is not compared with the status's.           *)
ReadAnyReport ==
    /\ request.pc = "report"
    /\ latest.outcome = "blocked" /\ latest.owner = request.status.owner
    /\ latest.generation = request.publication
    /\ request' = [request EXCEPT !.pc = "observing"]
    /\ UNCHANGED store

ReadReport ==
    /\ request.pc = "report"
    /\ latest.outcome = "blocked" /\ latest.owner = request.status.owner
    /\ latest.id = request.status.cycle.id
    /\ latest.generation = request.publication
    /\ request' = [request EXCEPT !.pc = "observing"]
    /\ UNCHANGED store

-----------------------------------------------------------------------------
WorkerStep(i) ==
    \/ TakeSignal(i) \/ CheckParent(i) \/ InstallGuard(i) \/ Recheck(i)
    \/ AcquireLock(i) \/ WriteStarting(i) \/ LeaveLoop(i) \/ WriteStopped(i)
    \/ BeginCycle(i) \/ SkipCycle(i) \/ ReadSnapshot(i) \/ EndCycle(i)
    \/ SaveLatest(i) \/ SaveReport(i) \/ SaveReceipt(i) \/ SaveStatus(i)
    \/ LogFailure(i) \/ Recover(i) \/ Wake(i)

Next ==
    \/ Start \/ StopAsked \/ SeeDead \/ Terminate \/ Reap
    \/ SupervisorDies \/ WorkerDies \/ ThreadDies \/ MachineDies
    \/ Publish
    \/ Ask \/ Refuse \/ Readiness \/ ReadStatusAgain \/ ReadReport
    \/ \E i \in Starts : WorkerStep(i)

Spec == Init /\ [][Next]_vars

(* The supervisor's watch and the worker's steps outside its cycles go on;  *)
(* of the steps that one of them takes at most one is possible at a time.   *)
(* A cycle may hang for ever, and nobody has to start the service again.    *)
FairSpec ==
    /\ Spec
    /\ WF_vars(SeeDead \/ Terminate \/ Reap)
    /\ \A i \in Starts :
          WF_vars(TakeSignal(i) \/ CheckParent(i) \/ InstallGuard(i) \/ Recheck(i) \/ WriteStopped(i))

-----------------------------------------------------------------------------
(***************************************************************************)
(* Properties                                                              *)
(***************************************************************************)
(* The current worker has the process id of an earlier one. *)
PidReused == \E i \in 1 .. start - 1 : worker[i].pid = worker[start].pid

(* service_readiness: unless process ids repeat, a positive answer is about *)
(* one finished cycle of the worker this supervisor started: a clean one,   *)
(* or a blocked one that saw the very generation the request read, although *)
(* status and report are read at different moments of a running worker.     *)
AnswerIsOneCycle ==
    request.pc \in {"ready", "observing"} /\ ~PidReused =>
        LET cycle == request.status.cycle
        IN  /\ cycle.owner = start
            /\ request.pc = "ready" => cycle.outcome \in {"clean", "paused"}
            /\ request.pc = "observing" =>
                  cycle.outcome = "blocked" /\ cycle.generation = request.publication

(* run_once: whenever the status names a finished cycle, its report and its *)
(* receipt are on disk, whatever died or was signalled between the writes.  *)
FinishedCycleIsOnDisk ==
    status.kind \in {"waiting", "degraded", "blocked"} =>
        /\ latest = status.cycle /\ report = status.cycle.id
        /\ status.cycle.id \in receipts

(* install_parent_death_guard, run: a worker left over from an earlier      *)
(* start never writes the status over that of a later one.                  *)
StatusNeverGoesBack == [][status'.owner >= status.owner]_vars

(* _last_evaluation_failure: an evaluation that failed in the last finished *)
(* cycle is shown as an active incident while the worker waits, however     *)
(* failures, recoveries and restarts alternated before, unless the alert    *)
(* store dropped the warning with which this failure began: it is not       *)
(* logged again as long as the failure lasts.                               *)
OngoingFailureShown ==
    \A i \in Starts :
        worker[i].pc = "sleep" /\ Outcome(i) \in Stages =>
            Outcome(i) \in active \/ worker[i].dropped

(* serve, install_parent_death_guard: when the supervisor, its thread or    *)
(* its worker is gone, so are in the end the other two, even if a cycle     *)
(* hangs: nothing trades without the refresh or answers without a trader.   *)
(* What is gone stays gone, so it is enough that over and over every start  *)
(* ever made is whole or over.                                              *)
NothingRunsAlone ==
    []<>(\A i \in 1 .. start : IF HasParent(i) THEN thread /\ Running(i) ELSE ~Running(i))

=============================================================================
