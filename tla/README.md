# Verification of the UFC refresh and betting service

TLA+ models of the program's own control logic: the weekly refresh calendar with its
monthly model candidates, the append-only data producer, the service that joins them
and publishes predictions, the placement of live orders, the process tree that hosts
all of it and the alert stream. TLC checks the models on small instances; TLAPS
proves their safety properties, action properties and refinements for every value of
their constants. Paths below are relative to the repository.

## The system

The deployed process tree is `refresh-entrypoint.sh` -> `src/combined_service.py`:
one supervisor that holds a supervisor lock, serves HTTP, runs one refresh thread
and owns one trading child process. Everything durable is a JSON file that is
replaced atomically, or an append-only CSV ledger, under a file lock.

| component | state it keeps | operations | talks to |
|---|---|---|---|
| weekly calendar, `src/data/ufc_update_schedule.py` | `calendar.json`: per ISO week two slots (status, fence, claim id, claim time) and the accepted update; monthly candidates | plan, claim, protect, complete, reconcile stale claims, status; monthly reserve, register, claim, complete | called by the refresh service and by the calendar loop of `src/web/serve.py`, under the state file's lock |
| monthly candidates, `src/model/monthly_candidate*.py`, `monthly_provisioning.py` | per month a directory with `final/`, its receipt and `completed.json`; the writer lock | train and evaluate one candidate, recover a finished one, quarantine an unfinished one | claimed from the calendar by the loop of `src/web/serve.py` |
| producer, `src/data/incremental_refresh.py` | per job a journal, a response cache of intents and responses; `active.json`; `accepted.json`; `refresh.lock` | run (new, resumed, `--retry-uncertain`), recover, inspect, commit | UFCStats pages; called by the refresh service and from the command line |
| prediction runs, `src/data/refresh_predictions.py` | per job an intent bound to a generation, per-bout files, `predictions.json`; shares the producer job's response cache | run (new, resumed, reused) | UFCStats upcoming-card pages; called by the refresh service |
| refresh service, `src/data/refresh_service.py` | `service.json` (pending job and its phase, completed jobs), `published_reports/*`, `published.json` | tick, initialize_predictions, refresh_now, published_pair | calendar, producer, prediction runs; its pair is read by the dashboard and the trading worker |
| supervisor, `src/combined_service.py` | supervisor lock, the trading child, the refresh thread | serve, readiness, shutdown | refresh service, trading worker |
| trading worker, `src/trading_worker.py` | `status.json`, `latest.json`, a report and a receipt per cycle, the last failure | one cycle per poll; leave on a signal or when the parent is gone | published pair, trading cycle, alert store, the supervisor's readiness |
| trading cycle, `src/refresh_live.py`, `src/strategy/duo_trader.py`, `src/trading_controls.py` | `refresh-trading.lock`, `control.json` (the pause) | recover uncertain submissions, the turns of S, C and M, pause | order executor |
| order executor, `src/polymarket/executor.py` | placement locks, order attempts, submission states | place a bet, place a near-miss limit, reconcile uncertain submissions, refresh and cancel open orders | exchange client, bet ledger, pause control |
| bet ledger, `src/polymarket/tracker.py` | one JSON file of rows per trader | add, patch, cancel, convert to a position, settle | executor, dashboards |
| roster-hosted acquisition, `src/data/roster_hosted_*.py` | mailbox, checkpoints, custody, stores | broker requests, staged steps, recurrence | older roster refresh, `src/data/refresh_publication.py` |
| alert store, `src/web/alert_store.py` | `alerts.jsonl` and its lock file | append an alert, recover an active incident, compact, load incidents | web service, loops, trading worker |
| sizing and value, `src/strategy/bankroll.py`, `value.py`, `duo_trader.py` | none | stake and edge formulas, bet selection | executor |
| legacy web service, `src/web/serve.py`, `app.py` | runtime status, background loops | the calendar loop, dashboards | calendar, roster refresh |
| model training, features, scrapers, backtests, gates, release scripts | files of data and models | offline | - |

### What is hard here

* **Crashes between durable writes.** One weekly job writes, in order, the service's
  intent, the calendar claim, its fence, the producer's journal, `active.json`, the
  response cache, the staged candidate, `accepted.json`, the journal again, the
  service's phase, the report, `published.json`, the service's phase, the calendar
  and the service's last save. Any prefix of that sequence may be what a restart
  finds, and recovery must continue the same job and never start a second one.
* **Uncertain outcomes.** A GET whose answer was lost and a calendar claim whose
  publication may have happened cannot be decided by time; they are fenced and wait
  for evidence or an operator.
* **Concurrent owners.** Calendar loops, the service's thread, operators' command
  lines and manual refreshes share the calendar and the producer.
* **Orders.** A POST may be taken, refused or lost, its answer may be late or missing,
  and the order may fill at any time. S and C trade the same fights from separate
  ledgers; refresh, recovery and cleanup act on rows and listings they read earlier.
* **Processes.** Supervisor, refresh thread and worker die separately, a worker may
  outlive its supervisor, and a readiness request reads three files of a running worker.
* **Stale decisions.** A calendar tick reads its instant once and decides on it until
  its end; a lease may fail a candidate that is still training.
* **Order.** Readers are served one pair, data with its predictions, which must
  follow the accepted generations without a gap.

### Properties that make each part correct

* calendar: a published update is never failed by a lease; a week publishes at most
  once; decisions are final; acceptance is recorded exactly for a publication.
* producer: accepted generations form one line, the pointer names its newest, closed
  journals tell the truth and stay closed.
* service: nothing in progress is orphaned, recovery never meets a conflict it
  cannot resolve, the calendar, the journals, the pointer and the served pair agree;
  readers see the accepted generations in order; every job finishes or is held for a
  named reason.
* monthly candidates: the month keeps its first update, decided slots stay decided, a
  success has its finished candidate on disk, a crash anywhere is recovered.
* host: a positive readiness answer is about one finished cycle of the current worker;
  nothing trades without its refresh thread or answers without its trader.
* alert store: while writers exclude one another, compaction is invisible to readers and
  nothing inside the window is lost; a dead writer's lock does not silence it.
* executor and ledger: the coordinated traders never hold two exposures on one market,
  whatever was lost, late or killed; an order on the wire always has its row; rows
  close only on evidence and positions match their fills; an uncertain row is resolved
  once the exchange has resolved its order.

## Modules

| module | what it is |
|---|---|
| `UpdateCalendar` | the calendar file as functions of the saved state: `Due`, `ClaimSlot`, `Protect`, `Complete`, `ReconcileStale`. Every method of `UFCUpdateSchedule` holds the file lock from load to save, so each is one function. |
| `UFCUpdateSchedule` | `UpdateCalendar` under its concurrent callers: each process is a calendar loop that claims, fences, runs a cycle that publishes or refuses, and completes; it may crash or raise at every step, a sweep fails stale claims and completion records reconcile interrupted ones. A claim and a sweep decide on a `now` that may be any instant up to the clock's. |
| `MonthlyCandidate` | EXTENDS `UFCUpdateSchedule`: each loop runs the whole tick of `run_background_ufc_update_calendar_loop` with its one `observed_at`, the month's reservation and registration, the candidate run with every durable write an action, and a crash anywhere. It implements the weekly specification. |
| `IncrementalRefresh` | the producer: one action per durable write, `run` is the holder of `refresh.lock`. |
| `RefreshService` | the service: EXTENDS the two above; `pc` is the next step of the handler that holds `service.lock`, each durable write is an action, `Interrupt` loses the handler anywhere; the operator's command line and the producer's steps are its environment. |
| `Publication` | the abstract specification of what readers are promised. `RefreshService` implements it under `served <- published.gen`, `history <- everAccepted`. |
| `BetLedger` | one trader's ledger as functions from rows to rows; `_mutate_locked` holds the file's lock from read to replace, so each mutation is one function. |
| `OrderExecutor` | the trading cycles, the stale-order cleanup, the ledgers and the exchange: every ledger write and every exchange call is an action. |
| `TradingHost` | supervisor, refresh thread, one worker per start of the service and one readiness request; every write of a status, report or receipt and every read of the request is an action. |
| `AlertStore` | the alert stream under its lock file: writers stamp a record, wait for the lock, read, append or compact; a dead writer leaves the lock file, a slow one loses it after thirty seconds. What the dashboard shows and what compaction keeps are stated by quantifiers over the file's lines. |
| `UpdateCalendar_proofs`, `UFCUpdateSchedule_proofs`, `MonthlyCandidate_proofs`, `IncrementalRefresh_proofs`, `RefreshService_proofs`, `OrderExecutor_proofs`, `TradingHost_proofs`, `AlertStore_proofs` | lemmas and theorems, checked by TLAPS. |
| `MC...` | values for the constants, one per model-checked module. `MCAlertStore` also states the code's loops over the lines as folds, and compares the operators of `AlertStore` with them. |

How state corresponds to the code: `calendar[w].slots[s]` is
`weekly[w]["slots"][s]` with `fenced` for `completion_evidence_required`, `owned` for
a claim id that can be located (a synthetic Tuesday has none) and `at` for
`claimed_at_utc`; `phase`, `baseline` and `cache` are the journal's fields and the
job's cache directory (`next = "intent"` is an intent file without its response);
`pending`, `completedJobs` are `service.json`; `prediction[j]` is a run's intent and
whether `predictions.json` is complete; `pages[g]` are the upcoming-card responses in
generation g's cache, which the runs of that generation share; `reports` and
`published` are the two writes of `_publish_pair`. A generation is identified by the
job that built it, as in `candidate["generation_id"] = job_id`; a claim by its week and
slot, because its id is the job id and a slot is claimed at most once.

In `OrderExecutor` a row is a ledger entry (its index stands for its id, its order id
is the hash of the signed order), `proc[p]` is what a process holds in memory: its
`step`, the trader's `turn`, the entries it read (`todo`), the listing of open orders
(`seen`), the placement `key` (the coordinated ledgers and the market that name the
lock file) and the row of its own attempt (`entry`). `exchange[o]` is the exchange's
truth: `inflight` after the POST, then `live`, `refused` or `lost`; `final` says its
trades are confirmed. A process learns of it only by `Inspect`: the last listing, or a
lookup that may fail. `Recover` and `ReconcileClosed` are what the code does with the
answer.

In `MonthlyCandidate`, `intent[m]` and `month[m]` are the calendar file's
`monthly_input_intents` and `monthly_candidates` of month m, `disk[m]` says whether
`final/` is absent, unfinished or holds its receipt, which attempt is in it, and whether
`completed.json` is there; `job[p]` is a loop's place in its tick and `now` its
`observed_at`. The weekly half of a tick uses the weekly module's own actions. The
preparation that `complete_data_update` goes on to is the first step of the loop's next
tick.

In `TradingHost`, `worker[i]` is the process the i-th start of the service launched: its
step, process id, pending SIGTERM, whether the kernel will signal it, its cycle, its
last failure and, as history, whether the alert store dropped the warning with which that
failure began (`dropped`: the handler swallows the lock timeout, and the worker remembers
the failure as logged all the same). `status`, `latest`, `report` and `receipts` are its files, `active` the
incidents the dashboard shows, `request` what one `/readyz` request has read so far. The
answer `ready` or `observing` is the end of the request. The heartbeat's age can refuse
at any read, so `Refuse` is always possible.

In `AlertStore`, `store` is the file's lines and `recorded` everything ever appended,
`op[w]` the record writer w stamped, `view[w]` what it read under the lock. `lock` says who
created the lock file and whether that writer has died since; `stale`, all that a waiter
can tell, that it is over thirty seconds old: an abandoned one grows old by itself
(`LockAges`), and a writer that is suspended or slow may hold one for as long (`Overstay`,
counted with the deaths by `MaxFaults`). `breached` is history: a waiter has removed the
lock file of a writer at work. The code walks
the lines in the order of their stamps and remembers per incident the last alert, whether
it is active and when it recovered; `Open`, `SeenSince`, `ClosedSince` and `Anchor` say the
same of the file without the walk, so that it can be proved about.

In `OrderExecutor`, `Deployments` are the ways the processes are run together: which run,
whether cycles hold the consumer lock of `refresh_live.py`, and which ledger files exist
at the start. Init picks one.

The clock has seven instants a week, one for every outcome of the planner's
comparisons (the slots open at 11:00 on Tuesday and Wednesday and close with the
day), and two instants in each window so that a claim can outlive its lease on the
day it was made.

## Runs

| run | checks | bounds |
|---|---|---|
| `schedule` | `MonthlyCandidate`: `TypeOK`, `PublishedNeverFailed`, `OnePublicationPerWeek`, `AcceptedMeansPublished`, `OneRunnerPerWeek`, `DecidedIsFinal` of the weekly calendar, `MonthFromFirstUpdate`, `SuccessHasItsCandidate`, `MonthlyDecisionsStand` | two loops, 10 instants (a week and the start of the next), two months that begin inside it, a lease of one instant, a loop stalls at most `MaxStall` = 2 instants between its `observed_at` and a claim or fence; it may crash any number of times |
| `monthly_wedge` | expects `CrashWindowRecovered` violated under `FairSpec`, finding 4 | one loop, the days to Tuesday's slot |
| `producer` | `IncrementalRefresh`: type, `AcceptedHistoryIsALine`, `PointerIsNewest`, `JournalMatchesPointer`, `ClosedJournalIsFinal` | three jobs (two can be open at once after a crash, the third comes after), two pages a job (one saved, one asked), any number of runs and crashes |
| `service` | `RefreshService`: type, `ServedPairIsWhole`, `CalendarTellsTruth`, `NoOrphans`, `OneAcceptedSlotPerWeek`, `RecoveryNeverConflicts`, `PendingLeavesOnlyWhenDone`, the refinement `ImplementsPublication`, and `EveryJobFinishes` under `FairSpec`; deadlock too | one week to the end of Wednesday's window, both slots, one manual job, the startup prediction, one page a job, two faults (an interruption, a lost response or an operator's death) |
| `service_refusal` | expects `RefusedJobCloses` violated under `FairSpec`, finding 1 | as `service`, with a horizon of four instants (into Wednesday's window) and one fault |
| `orders` | `TypeOK`, `OneExposurePerMarket`, `DurableIdentity`, `ClosedOnEvidence`, `PositionsMatchFills`, `OwnershipPermanent` in three deployments: two locked cycles, a locked cycle beside the cleanup, and two cycles without the consumer lock once both ledger files exist | S and C, two cyclers, one cleaner, one market, two orders of two shares (partial fills), one crash, no pause |
| `orders_liveness` | `UncertaintyEnds` under `FairSpec`, no cleanup | one trader, one order of two shares, one crash, one pause |
| `orders_first_use` | expects `OneExposurePerMarket` violated, finding 2 | two cyclers, no crash |
| `orders_overwrite` | expects `UncertaintyEnds` violated, finding 3 | one cycler, one cleaner, no crash |
| `host` | `TradingHost`: `AnswerIsOneCycle`, `FinishedCycleIsOnDisk`, `StatusNeverGoesBack`, `OngoingFailureShown`, `NothingRunsAlone` under `FairSpec` | two starts of the service, three cycles in all (a failure comes, goes and comes back, within a worker or over a restart), two publications, one death of any process, thread or the container |
| `alerts` | `AlertStore`: `CompactionIsInvisible`, `LockedAppendsSurvive`, `ProbeCloses`, `AbandonedLockIsBroken` under `FairSpec`; deadlock too | two writers, one incident with a lifecycle key and one without, three records, a window of two instants and a clock of four, one fault: a writer dies, or holds the lock for over thirty seconds. The assumption `OperatorsFollowTheLoops` of the MC module compares `Shown`, `Active` and `Kept` with the code's loops on every file of up to three lines |
| `alerts_overtaken` | expects `AppendsSurvive` violated, finding 5 | as `alerts`, with two records and a clock of two instants |

Two orders are enough for a double exposure, and two shares for a partial fill between
a read and the write it leads to. A ledger's rows are bounded by `MaxRows`. Orders and
cyclers are interchangeable, so the safety runs use symmetry; the liveness runs do not.
One market is enough for `orders`, since markets meet only in the names of the placement
locks and in the traders' turns; the theorems hold for any number of them, and for any
number of pauses, which `orders_liveness` adds.

For the refresh service two faults are enough for a crash inside the recovery from a crash, which is where
the phases written by the first recovery are read by the second; the producer run
has no bound on crashes. `schedule` turns the deadlock check off because the clock is
bounded, and `host` because a service that is down stays down unless someone starts it;
`service` keeps it on: initialize_predictions can always run when nothing is pending.

`MaxStall` is part of what `MonthFromFirstUpdate` says. A loop that stalls three
instants or more between its claim and its fence, while another loop's next week
publishes and completes, can give the month to the later publication: the first
completion is then not the first publication. The theorem about it has the same bound,
`MaxStall <= 2`, as a hypothesis: three instants are what lies between Wednesday evening,
when a week's last window closes, and the next Tuesday, 11:00, when the next opens. The
weekly properties and the other monthly ones do not depend on it, and are proved for any
stall.

The weekly properties are checked on the composition, whose every step is a step of the
weekly specification (theorem `ImplementsWeeklyCalendar`); their proofs are about the
weekly specification alone, where a decision may use any earlier instant.

## Fairness

`FairSpec` assumes of the code only what its loop gives: the worker thread polls for
ever (`combined_service.serve`, `work`), so a handler step that stays possible is
taken; a producer run in progress goes on; an operator's run, once finished, returns.
It also assumes that an operator who is needed comes: an unanswered request of the
held job is retried with `--retry-uncertain`, which the code requires of a person. The
retry and the service's tick exclude each other by `refresh.lock` and are each
enabled only between the other's runs, so the retry has strong fairness. Nothing
forces answers to be good, the clock to advance or faults to stop before their bound.

The `FairSpec` of `OrderExecutor` lets running processes go on and cycles keep starting
(the worker polls), a pause end, and a listing or a look at a row that can succeed do
so in the end; a turn tries finitely many bets. Nothing is asked of the exchange, and
an order it never resolves blocks trading for ever, as the code intends.
`UncertaintyEnds` asks only for rows whose order is closed and accounted for.

The `FairSpec` of `MonthlyCandidate` says that a started thread goes on and that a loop
that is started again after every crash gets through the first steps of its tick if
they can be taken again and again; it is used only to show that `CrashWindowRecovered`
fails though the loop always comes back. The `FairSpec` of `TradingHost` covers what the
operating system and the supervisor's own loop do: the supervisor polls its child and
its thread, terminates and, after twenty seconds, kills; a pending signal is taken; the
steps of a worker's guard go on. A cycle may hang for ever. Of the supervisor's steps, and of
the worker's, at most one is possible at a time, so each has one fairness condition for all.
`NothingRunsAlone` says that over and over every start made so far is whole or gone; what
is gone stays gone, so that is every start's fate. In `AlertStore` a dead writer's lock file
ages, writers keep having something to write, and a waiter that sees a stale lock removes
it; nothing makes a living writer overstay.

`EveryJobFinishes` names the two exceptions: an upcoming-card request that is left
unanswered or whose saved page does not parse is never asked again, because the
predictor opens the cache without `retry_uncertain` and no command line can
(`src/data/refresh_predictions.py:494-511`), and the refused job of finding 1.

## Findings

1. `service_refusal`. The journal of a new job is saved (`incremental_refresh.py:704`)
   before `active.json` names it (705). After a crash between the two the resumed run
   finds its journal and never writes `active.json`. If its saved page is refused, line
   830 subscripts the missing active job, the TypeError leaves the journal open and every
   later tick repeats it. `tests/test_incremental_refresh.py:190` says such a refusal is
   durable and complete. The accepted data stay safe (`producer`).
2. `orders_first_use`. `tests/regression/test_executor_duplicates.py:564` says that
   concurrent attempts of S and C on one market are serialized, with neither ledger on
   disk. `_coordinated_ledger_paths` (`src/polymarket/executor.py:495`) leaves out a
   ledger whose file does not exist yet, so each takes a lock of its own and looks at
   its own ledger only: two orders are posted. The test starts its second thread after
   the first ledger is written. Locked cycles exclude it, and so do two existing files
   (`orders`).
3. `orders_overwrite`. `_update_submission_state` (`executor.py:2000`) writes the
   placement of any open row. When the cleanup has booked the order's fill while the
   placer waits for its answer, "submitted" or "unknown" replaces "filled"; recovery
   then finds the evidence in every cycle, cannot convert the row a second time, and
   blocks all trading, against `src/refresh_live.py:321-323`. It needs the betting loop
   of `src/web/serve.py` beside another cycle; the hosted worker runs no cleanup.
4. `monthly_wedge`. `src/model/monthly_candidate_runtime.py:400` promises to recover the
   crash window after a candidate receipt and before schedule completion. A crash after
   `final/candidate_receipt.json` and before `completed.json` makes
   `_stable_candidate_id` (373) raise in that very recovery, which the calendar loop calls
   outside any handler at the top of every tick (`web/serve.py:1500`), before the stale-claim
   sweep. The loop dies on each start, the claim stays open and no weekly update is due
   any more. The marker is repaired only inside a claimed run (`monthly_candidate.py:1298`).
   It needs monthly candidates switched on.
5. `alerts_overtaken`. `src/web/alert_store.py:720-722` says that concurrent appends are not
   lost across the swap of a compaction. `_cross_process_lock` (161-166) removes any lock
   file over thirty seconds old, and its owner neither refreshes it nor looks at it before it
   writes. An appender suspended under the lock is overtaken: a compaction removes its lock
   file and reads, the appender writes its line, the swap drops it. A slow compaction is
   overtaken the same way; and of two waiters that saw one dead writer's lock, the slower
   removes, by name, the new lock of the faster or of whoever came since. Until a writer at
   work has lost its lock file in one of these ways nothing is lost (`alerts`).

### Known limits the checks respect

Behaviour of the code that the properties state around, each visible in the models:

* monthly: a candidate that finishes after its Wednesday lease ran out stays "failed"
  for ever beside its complete directory; an update accepted on Wednesday after the day's
  end, or an input prepared after Wednesday, never gets its candidate; a failure to save
  the state after the marker reports a complete candidate as failed.
* host: after a container restart process ids may repeat, and the previous worker's
  `status.json`, if ready and under 600 s old, answers `/readyz` before the new worker
  writes "starting" (the docstring at `combined_service.py:164` rules it out):
  `AnswerIsOneCycle` assumes `~PidReused`. "Trading evaluation blocked" carries no
  lifecycle key, so it ages off the dashboard while the block lasts. A warning that the
  alert store drops, because its lock could not be had in ten seconds, is not logged again
  while its failure lasts: `OngoingFailureShown` exempts that failure (`dropped`). A SIGTERM
  between a cycle's end and `latest.json` leaves a "stopped" status that names a completion
  without a report.
* alerts: `CompactionIsInvisible`, `LockedAppendsSurvive` and `ProbeCloses` hold until
  `breached`, that is until a waiter has removed the lock file of a writer at work (finding
  5); what the file shows is not claimed afterwards. Records are stamped before they wait for
  the lock, so lines may be out of stamp order; a recovery decides by lines, the dashboard
  by stamps: `ProbeCloses` speaks of files whose lines are in order.

## Proofs

`UFCUpdateSchedule_proofs` proves, for any set of loops, any weeks, lease and horizon,
that `Spec` implies `[]TypeOK`, `[]PublishedNeverFailed`, `[]OnePublicationPerWeek`,
`[]AcceptedMeansPublished`, `[]OneRunnerPerWeek` and `DecidedIsFinal`. None of the
invariants is inductive alone. The inductive `Inv` adds to the type: how a
slot and the completion record of its cycle agree (`ClaimFacts`: a record exists only
for a fenced slot, a published one is claimed or succeeded, a success has its
publication), what a week needs (`WeekFacts`: Wednesday is used only when Tuesday
failed, and the week is accepted exactly when a slot succeeded) and what a loop knows
(`LoopFacts`: a running loop's claim is still claimed, fenced and without a record,
and two loops never hold one claim). Each action of `Next`
has one step per conjunct it can disturb, over the lemmas of `UpdateCalendar_proofs`
about what a calendar function changes and leaves alone. The assumptions used are
`WeeksAssumption`, `LeaseAssumption` and `HorizonAssumption`.

`MonthlyCandidate_proofs` proves, for any loops, weeks, months, lease and stall, that
`CandidateSpec` implements `Spec` (`ImplementsWeeklyCalendar`, each of its actions is a
weekly step or a stutter), hence that the weekly guarantees survive the composition, and
`[]MonthlyTypeOK`, `[]SuccessHasItsCandidate` and `MonthlyDecisionsStand`.
`SuccessHasItsCandidate` is not inductive: a result is reported several steps after the
directory it names was finished. `CandidateInv` adds `JobInv` (the weekly `Inv`, types, a
tick's `now` is not ahead of the clock, a loop is in one place), `MonthFacts` (what an
entry's status says of its slots, at most one of which is claimed, and of the
directory), `OneWriter` (at most one loop is inside the directory's writer lock) and
`RunFact` (what the step of the lock's holder, or of a loop about to report a success,
says of the directory). A finished directory cannot be disturbed because its only
writers hold the lock and turn away from a receipt.

`MonthReadsItsFirstUpdate` proves `[]MonthFromFirstUpdate` of any `MaxStall <= 2`. The code
reserves a month when an update is *completed*, and completions may come much later than
publications, by any loop and after crashes, so the invariant must say why they come in
the same order. `SourceInv` adds to `CandidateInv`: `ClaimsInTime` (a loop that holds a
claim not yet fenced is about an instant of that claim's window, at most `MaxStall` ago),
hence two loops that hold such claims are in one week (`HoldersNear`);
`OneOutcomeOwed` (while a published update waits for its completion there is no other
claim that waits for its own or may still be fenced); and `ReservedFirst` (no month is
registered or prepared without its reservation). So when the completion of an update
reserves its month, every other update published in it would have been completed, and would
have reserved it (`CompletingStep`). A new publication disturbs nothing, for
no recorded one is later than the clock.

`IncrementalRefresh_proofs` proves, for any set of jobs and number of pages,
`ProducerTypeOK`, `AcceptedHistoryIsALine`, `PointerIsNewest`, `JournalMatchesPointer`
and `ClosedJournalIsFinal`. The inductive `ProducerInv` adds what the lock holder's
step says of the files (`RunFacts`) and what the files say of one another
(`FileFacts`): every accepted job but the newest has exactly one accepted successor, so
a pointer that still equals a job's baseline has no accepted successor yet, which is
why `_commit`'s check is enough. It uses `JobsAssumption` and `RequestsAssumption`.

`RefreshService_proofs` proves, for any weeks, manual ids, pages and faults, every safety
property of the service (`TypeOK`, `ServedPairIsWhole`, `CalendarTellsTruth`, `NoOrphans`,
`OneAcceptedSlotPerWeek`, `RecoveryNeverConflicts`, `PendingLeavesOnlyWhenDone`), the
refinement `ImplementsPublication`, and that the composition implements `ProducerSpec`, so
that the producer's theorems hold inside it. The files agree only along the order of their
writes, so `ServiceInv` says what each file is in each phase of the pending job:
`JournalFacts` (an open journal and a run are the pending job's, whose phase is "claimed"),
`PendingFacts` (what a saved phase says of the journal, the pointer and `published.json`),
`CalendarFacts` (what a slot says of its job, and that an intent still reproduces its claim),
`HandlerFacts` (what the handler relies on at its next step) and `ServedFacts` (what is
served is a whole pair, behind the pointer by the pending job at most: hence the
refinement). It uses `ProducerInv` for the journals and the pointer, and the lemmas of
`UpdateCalendar_proofs` for the slots. `Produces` states once what any producer step may do
while its job is pending. The assumptions are `JobsAssumption`, `RequestsAssumption`,
`WeeksAssumption`, `ServiceJobsAssumption` and `ServiceBoundsAssumption`.

`TradingHost_proofs` proves, for any number of starts, cycles, publications and deaths,
`[]TypeOK` and four of the host's properties: `AnswerIsOneCycle`,
`FinishedCycleIsOnDisk`, `OngoingFailureShown` and `StatusNeverGoesBack`. None is
inductive. `Places` says who may write: a worker holds the lock exactly while it is
between "starting" and its finally block; past its second look at its parent it has asked
for the signal, so once the parent is gone it has one pending and can only leave; a
worker that takes the lock is therefore the newest, and the status names no newer one.
`Files` relates the holder's step to the files (the identity of a new cycle is above that
of `latest.json`, each file written so far is this cycle's, the status stays "evaluating"
until all are). `Failures` says that what a worker remembers of a failure is still active or
was dropped when it was logged, since a recovery proves nothing a failed cycle missed and
only the lock's holder recovers.
`Answers` carries a request through the worker's steps: what it read was on disk, and
`latest.json` has since been left alone or replaced by a later cycle's. The assumption
is `HostAssumption`; process ids may repeat, as in the code.

`OrderExecutor_proofs` proves, for any markets, orders, shares, traders, processes,
deployments and bounds, `[]TypeOK`, `[]DurableIdentity`, `[]ClosedOnEvidence`,
`[]PositionsMatchFills` and `OwnershipPermanent`, and `[]OneExposurePerMarket` for the
deployments named below. Almost nothing a process has read stays true, so `OrderInv` says
what does: an entry's row keeps its index and its order (`HasRow`), an answer "closed" is
final, a row's end agrees with its order (`RowsFit`), no two rows share an order
(`OneRowEach`), and until its POST an attempt owns its row, so nobody closes it under the
attempt (`OwnersApart`, `Attempt`: a signed order is never looked up as closed). The lemmas
on `SetPlacement`, `SetOrderId`, `FailBet` and `ReconcileClosed` give what each write does to
a row; `AmendFacts`, `JournalFacts`, `PrepareFacts` and `PostFacts` carry the invariant over
the four ways a process touches a ledger or its order, `ExchangeFacts` over all other steps.

The exposure needs who may look beside whom. `Exposure` says that a cycle in progress holds
the consumer lock, or, where nobody takes it, that the coordinated ledgers exist and their
names are in every placement key (`Guarded`, `RowsOnFile`); so two processes never look at
one market for S or C at once (`LookersApart`), a look that has found nothing has before it
every open row it must recheck (`Checked`), and the row it allows is the only open one on
its market (`OneOpenRow`). Two exposures would be two open rows, by `ClosedOnEvidence`. The
theorem assumes `SafeDeployments`: every deployment has locked cycles, or starts with the
coordinated ledger files. `orders_first_use` shows what happens without it. The assumptions
on the constants are those of `BetLedger` and `OrderExecutor`.

`AlertStore_proofs` proves, for any writers, incidents, retention and bounds, `[]TypeOK`,
`[]CompactionIsInvisible`, `[]LockedAppendsSurvive`, `ProbeCloses`, and that two writers are
under the lock together only after a waiter removed the lock file of a writer at work (held
for over thirty seconds, or newer than the stale one the waiter saw). That one
compaction of a stream keeps what is shown does not give it: compactions follow each other,
each with its own window and on a file that earlier ones shortened and others have appended
to. `StoreInv` therefore relates the file to the stream of all records (`Summary`): its
lines are records of the stream, each at most once, in the stream's order of stamps
(`Embedding`); the window is there (`HasWindow`); with an alert of an incident every later
one is there, and a recovery if it was recovered from (`LaterAlertsKept`,
`RecoveredStays`), so the file and the stream agree on what is open; and an incident that
lost all its alerts is neither open under a lifecycle key nor recovered within the window
(`ForgottenIsOver`). `Summary` survives an append at both ends, the passing of time, and a
compaction (`SummaryKept`), whose copy may have been made with an earlier cutoff than its
swap's (`CopyCurrent`). It uses `AlertAssumption`, of which `MaxWait < Retention` matters: a
writer waits ten seconds, the window is hours, so a record is appended within its
window. All but `TypeOK` are conditional on `~breached`, as their statements say: `AppendsSurvive`
without the condition is what `alerts_overtaken` refutes.

Only model-checked: what needs fairness or ENABLED, which TLAPS does not reach
(`EveryJobFinishes`, `UncertaintyEnds`, `NothingRunsAlone`, `AbandonedLockIsBroken` and
`CrashWindowRecovered`); and that the operators of `AlertStore` follow the code's loops,
which is an induction over the lines of a file and is checked on short files. Every
invariant and action property of a passing run is stated by a theorem.

## Not modelled, and why

Page parsing, rows, features, model scoring, pins and digests are data: a page is
good or refused, a candidate is its job. `_verify_snapshot`, disk corruption and a
wrong binding raise and change nothing. HTTP views, dashboards, logging and status
files are read-only for the modelled parts. Training, backtests and
gates are numeric programs. PROJECT.json lists every part with its status.

Of order execution: stakes, prices, windows, wallet conflicts, market metadata and the
selection of bets (a placement may be skipped for any of them), the view that decides
whether a resting order is kept, dry runs, bankroll and cash, settlement, the linking
of trades to wallet activity, and the import of wallet positions. The ledger of the
tracker M is not coordinated with the others, in the code as in the model. An attempt
whose row never got an order id, or whose order never reached the exchange, blocks its
market for good: that is the code's choice. The rows of all ledgers are read at once at
the start of recovery or cleanup where the code reads one ledger after another, and a
recheck reads one listing where the code may read one per row.

Of monthly candidates, which are off in the deployed service while
`promotion_month_utc` is empty: training and evaluation, the policy and its adoption, the
contents of the model state file, and the binding of inputs and receipts by hash.
`ReconcileCompleted` is one step where the code loads the state and completes claim by
claim; a claim decided in between raises, which is `Die`.

Of the host: off and paper modes (the same writes with other flags), account reads beyond
their outcome, the gates that refuse a start, and a supervisor that finds its lock taken,
which exits at once.

The rest of the repository (PROJECT.json lists it part by part) is not modelled because it
is numeric (features, training, backtests, sizing), parsing (scrapers, roster adapters),
views (`web/app.py`), or tools an operator runs once (release scripts). Most of the
repository's lines are of these kinds, so the map covers a small share of them. The
roster-hosted acquisition is the one large protocol left.

## Plan

1. done: `UpdateCalendar`, `UFCUpdateSchedule`, `IncrementalRefresh`, `Publication`,
   `RefreshService`, and the proofs about the calendar and the producer.
2. done: `BetLedger`, `OrderExecutor` and their proofs. Left: settlement and the import of
   wallet positions.
3. done: `TradingHost` and its proofs. Left: the decisions a worker does not repeat over restarts.
4. done: `MonthlyCandidate`, composed with the weekly calendar, and its proofs, the month's
   source included.
5. done: proofs about `RefreshService`, with the refinements of `Publication` and of the
   producer.
6. done: `AlertStore` and its proofs. Left: the roster-hosted mailbox and checkpoints, the staged bundle
   install; bounded checks of the stake formulas.
