------------------------ MODULE IncrementalRefresh ------------------------
(***************************************************************************)
(* The append-only refresh producer (src/data/incremental_refresh.py).     *)
(* A job saves a journal, asks its source pages one at a time through a    *)
(* response cache, builds and stages a candidate generation, moves the     *)
(* single accepted pointer to it and closes its journal.  Each durable     *)
(* write is a step of its own; the run that makes it may be interrupted    *)
(* (killed, or stopped by an exception) before the next, and a later run   *)
(* of the same job resumes from what was saved.                            *)
(*                                                                         *)
(* Row parsing, feature building and the CSV bodies are left out: a page   *)
(* is good, or its saved body fails the quality contract.  A job's         *)
(* candidate generation is identified by the job.                          *)
(***************************************************************************)
EXTENDS Naturals

CONSTANTS
  Jobs,       \* job ids
  Base,       \* the release's own baseline, current while no pointer exists
  NoJob,
  Requests    \* how many source pages one job needs

ASSUME JobsAssumption == Base \notin Jobs /\ NoJob \notin Jobs \cup {Base}
ASSUME RequestsAssumption == Requests \in Nat

Generations == Jobs \cup {Base}

VARIABLES
  phase,         \* each job's journal phase, "none" before its journal exists
  baseline,      \* the generation each journal recorded as its predecessor
  cache,         \* each job's responses: how many are good, and the next one
  active,        \* active.json
  accepted,      \* accepted.json
  run,           \* the holder of refresh.lock: its step, job and outcome
  everAccepted   \* history: the jobs the pointer has ever named

producerVars == <<phase, baseline, cache, active, accepted, run, everAccepted>>

Phases == {"none", "ACQUIRING", "BUILDING", "STAGED", "COMPLETED", "FAILED"}

Terminal(j) == phase[j] \in {"COMPLETED", "FAILED"}

IdleRun == [at |-> "idle", job |-> NoJob, retry |-> FALSE, outcome |-> "none"]

ProducerInit ==
  /\ phase = [j \in Jobs |-> "none"]
  /\ baseline = [j \in Jobs |-> Base]
  /\ cache = [j \in Jobs |-> [good |-> 0, next |-> "clear"]]
  /\ active = NoJob
  /\ accepted = Base
  /\ run = IdleRun
  /\ everAccepted = {}

\* inspect_active_refresh: the unfinished job active.json names, if any.
Active == IF active # NoJob /\ ~Terminal(active) THEN active ELSE NoJob

\* A GET of the job was started and its response never saved.
Uncertain(j) == cache[j].next = "intent"

To(step) == run' = [run EXCEPT !.at = step]

Return(result) == run' = [run EXCEPT !.at = "returned", !.outcome = result]

-----------------------------------------------------------------------------

\* Mutant: a closed journal is acquired again.
EntryStepReopening(j) ==
  CASE phase[j] = "STAGED" -> "commit"
    [] phase[j] = "none" -> "activate"
    [] OTHER -> "get"

\* Where a run of job j starts: its closed journal answers, its staged candidate
\* is committed, a new job is made active, an unfinished one goes on asking.
EntryStep(j) ==
  CASE Terminal(j) -> "returned"
    [] phase[j] = "STAGED" -> "commit"
    [] phase[j] = "none" -> "activate"
    [] OTHER -> "get"

\* run_incremental_refresh(job, retry_uncertain) up to its first write: another
\* job's activity or run refuses it, and a missing journal is saved with the current
\* baseline.
BeginRun(j, retry) ==
  /\ run.at = "idle"
  /\ Active \in {NoJob, j}
  /\ run' = [at      |-> EntryStep(j),
             job     |-> j,
             retry   |-> retry,
             outcome |-> CASE phase[j] = "FAILED" -> "failed"
                           [] phase[j] = "COMPLETED" -> "completed"
                           [] OTHER -> "none"]
  /\ IF phase[j] = "none"
       THEN /\ phase' = [phase EXCEPT ![j] = "ACQUIRING"]
            /\ baseline' = [baseline EXCEPT ![j] = accepted]
       ELSE UNCHANGED <<phase, baseline>>
  /\ UNCHANGED <<cache, active, accepted, everAccepted>>

WriteActive ==
  /\ run.at = "activate"
  /\ active' = run.job
  /\ To("get")
  /\ UNCHANGED <<phase, baseline, cache, accepted, everAccepted>>

\* Mutant: one page too many is asked.
NextPageOffByOne ==
  LET j == run.job
  IN  /\ run.at = "get"
      /\ CASE cache[j].next = "bad" -> To("refuse") /\ UNCHANGED cache
           [] cache[j].good > Requests -> To("build") /\ UNCHANGED cache
           [] Uncertain(j) /\ ~run.retry -> Return("held") /\ UNCHANGED cache
           [] OTHER -> /\ cache' = [cache EXCEPT ![j].next = "intent"]
                       /\ To("asked")
      /\ UNCHANGED <<phase, baseline, active, accepted, everAccepted>>

\* ResponseCache.get_text up to the request itself.  Saved good pages are read
\* back; the first page that is not decides: all read, a saved page refused, an
\* unanswered request held unless the caller retries it, or an intent is saved.
NextPage ==
  LET j == run.job
  IN  /\ run.at = "get"
      /\ CASE cache[j].next = "bad" -> To("refuse") /\ UNCHANGED cache
           [] cache[j].good = Requests -> To("build") /\ UNCHANGED cache
           [] Uncertain(j) /\ ~run.retry -> Return("held") /\ UNCHANGED cache
           [] OTHER -> /\ cache' = [cache EXCEPT ![j].next = "intent"]
                       /\ To("asked")
      /\ UNCHANGED <<phase, baseline, active, accepted, everAccepted>>

\* The response arrives and is saved; its body is good, or will be refused.
Answer(good) ==
  /\ run.at = "asked"
  /\ cache' = [cache EXCEPT ![run.job] =
                 IF good THEN [good |-> @.good + 1, next |-> "clear"]
                         ELSE [good |-> @.good, next |-> "bad"]]
  /\ To("get")
  /\ UNCHANGED <<phase, baseline, active, accepted, everAccepted>>

\* An HTTP error inside a quality-checked reader looks like a refusal at first.
Unanswered ==
  /\ run.at = "asked"
  /\ To("refuse")
  /\ UNCHANGED <<phase, baseline, cache, active, accepted, everAccepted>>

\* Mutant: a response still owed is taken for a refusal.
RefuseUnanswered ==
  /\ run.at = "refuse"
  /\ IF accepted # baseline[run.job] \/ Active = NoJob
       THEN Return("raised") /\ UNCHANGED phase
       ELSE phase' = [phase EXCEPT ![run.job] = "FAILED"] /\ Return("failed")
  /\ UNCHANGED <<baseline, cache, active, accepted, everAccepted>>

\* The handler of a source refusal: it closes the job as failed only if the
\* pointer still names its baseline and the active job owes no response.  With
\* no active job there is nothing to read that from and the run just raises.
RefuseSource ==
  LET j == run.job
  IN  /\ run.at = "refuse"
      /\ IF accepted # baseline[j] \/ Active = NoJob
           THEN Return("raised") /\ UNCHANGED phase
           ELSE IF Uncertain(Active)
                  THEN Return("held") /\ UNCHANGED phase
                  ELSE /\ phase' = [phase EXCEPT ![j] = "FAILED"]
                       /\ Return("failed")
      /\ UNCHANGED <<baseline, cache, active, accepted, everAccepted>>

Build ==
  /\ run.at = "build"
  /\ phase' = [phase EXCEPT ![run.job] = "BUILDING"]
  /\ To("stage")
  /\ UNCHANGED <<baseline, cache, active, accepted, everAccepted>>

Stage ==
  /\ run.at = "stage"
  /\ phase' = [phase EXCEPT ![run.job] = "STAGED"]
  /\ To("commit")
  /\ UNCHANGED <<baseline, cache, active, accepted, everAccepted>>

\* Mutant: the pointer is moved from wherever it is.
MayAlwaysCommit(j) == j \in Jobs

\* The pointer may only move from the job's own baseline, or be there already.
MayCommit(j) == accepted \in {j, baseline[j]}

\* _commit, first write: the accepted pointer.
CommitPointer ==
  LET j == run.job
  IN  /\ run.at = "commit"
      /\ IF MayCommit(j)
           THEN /\ accepted' = j
                /\ everAccepted' = everAccepted \cup {j}
                /\ To("pointed")
           ELSE Return("raised") /\ UNCHANGED <<accepted, everAccepted>>
      /\ UNCHANGED <<phase, baseline, cache, active>>

\* _commit, second write: the journal.
CommitJournal ==
  /\ run.at = "pointed"
  /\ phase' = [phase EXCEPT ![run.job] = "COMPLETED"]
  /\ Return("completed")
  /\ UNCHANGED <<baseline, cache, active, accepted, everAccepted>>

RunStep ==
  \/ WriteActive
  \/ NextPage
  \/ \E good \in BOOLEAN : Answer(good)
  \/ Unanswered
  \/ RefuseSource
  \/ Build
  \/ Stage
  \/ CommitPointer
  \/ CommitJournal

\* The run ends: its caller reads the outcome, or it is killed or raises at any
\* step.  Everything but the lock holder's own step is already on disk.
EndRun ==
  /\ run.at # "idle"
  /\ run' = IdleRun
  /\ UNCHANGED <<phase, baseline, cache, active, accepted, everAccepted>>

-----------------------------------------------------------------------------

ProducerNext ==
  \/ \E j \in Jobs, retry \in BOOLEAN : BeginRun(j, retry)
  \/ RunStep
  \/ EndRun

ProducerSpec == ProducerInit /\ [][ProducerNext]_producerVars

RunSteps == {"idle", "activate", "get", "asked", "refuse", "build", "stage",
             "commit", "pointed", "returned"}

\* The type invariant of the producer's files and of the run that holds the lock.
ProducerTypeOK ==
  /\ phase \in [Jobs -> Phases]
  /\ baseline \in [Jobs -> Generations]
  /\ cache \in [Jobs -> [good: 0 .. Requests, next: {"clear", "intent", "bad"}]]
  /\ active \in Jobs \cup {NoJob}
  /\ accepted \in Generations
  /\ run \in [at: RunSteps, job: Jobs \cup {NoJob}, retry: BOOLEAN,
              outcome: {"none", "completed", "failed", "held", "raised"}]
  /\ everAccepted \subseteq Jobs

\* The accepted history is one unbroken line: no two accepted generations were
\* built on the same predecessor, so no committed rows are ever dropped, even if
\* jobs stage concurrently over a crash (_commit's pointer check).
AcceptedHistoryIsALine ==
  /\ \A j \in everAccepted : baseline[j] \in everAccepted \cup {Base}
  /\ \A j, k \in everAccepted : baseline[j] = baseline[k] => j = k

\* The pointer always names the newest generation of that line: nothing accepted
\* was built on it and then replaced by it (a late recovery cannot move it back).
PointerIsNewest == \A j \in everAccepted : baseline[j] # accepted

\* A job's closed journal tells the truth about the pointer: a completed job was
\* accepted, a failed job never was and has a saved refusal, not a lost response.
JournalMatchesPointer ==
  \A j \in Jobs :
    /\ phase[j] = "COMPLETED" => j \in everAccepted
    /\ phase[j] = "FAILED" => j \notin everAccepted /\ cache[j].next = "bad"
    /\ j \in everAccepted => phase[j] \in {"STAGED", "COMPLETED"}

\* A closed journal is never reopened or changed by a later run of its job.
ClosedJournalIsFinal ==
  [][\A j \in Jobs : Terminal(j) => phase'[j] = phase[j] /\ cache'[j] = cache[j]]_producerVars
=============================================================================
