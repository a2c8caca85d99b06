-------------------------- MODULE OrderExecutor --------------------------
(***************************************************************************)
(* Live orders: the cycles of src/refresh_live.py and src/strategy/        *)
(* duo_trader.py that place them through src/polymarket/executor.py, the   *)
(* stale-order cleanup that src/web/serve.py runs beside them, the bet     *)
(* ledgers, and the exchange.                                              *)
(*                                                                         *)
(* A cycle first recovers the submissions earlier cycles left uncertain,   *)
(* then gives each trader its turn: refresh its resting orders, place new  *)
(* ones.  Placing takes a lock per market, looks for open rows in the      *)
(* coordinated ledgers, journals a row, signs the order and saves its id,  *)
(* checks the pause, posts, and records the answer.  Every ledger write    *)
(* and every exchange call is a step of its own, any process may die       *)
(* between two of them, and the exchange works, loses and answers on its   *)
(* own time.                                                               *)
(*                                                                         *)
(* Left out: sizing, prices, liquidity, event windows and wallet conflicts *)
(* (an attempt may be skipped for any of them), the model's view of an     *)
(* order (a refresh keeps or cancels it), dry runs, and cash.              *)
(***************************************************************************)
EXTENDS BetLedger, FiniteSets

CONSTANTS
  Traders,         \* the traders in the order of their turns
  Primary,         \* S and C, whose ledgers are coordinated
  Cyclers,         \* processes that run trading cycles
  Cleaners,        \* processes that run cancel_all_stale_limit_bids
  Deployments,     \* what may be running: [running, locked, ledgers], see below
  NoProc, NoLock,
  MaxRows,         \* bound: rows journalled in one ledger
  MaxCrashes,      \* bound: processes that die
  MaxPauses        \* bound: times an operator pauses trading

Trader == {Traders[k] : k \in DOMAIN Traders}
Proc == Cyclers \cup Cleaners

\* The processes that run, whether their cycles are run_refresh_live_cycle, with
\* its lock and recovery, or the older cmd_duo_live, with neither, and the
\* traders whose ledger file exists at the start.
Deployment == [running : SUBSET Proc, locked : BOOLEAN, ledgers : SUBSET Trader]

ASSUME TradersAssumption == Traders \in Seq(Trader) /\ Traders # <<>>
ASSUME BoundsAssumption == MaxRows \in Nat /\ MaxCrashes \in Nat /\ MaxPauses \in Nat
ASSUME PrimaryAssumption == Primary \subseteq Trader
ASSUME ProcAssumption == NoProc \notin Proc /\ NoLock \notin Proc \cup {NoProc}
ASSUME DeploymentAssumption == Deployments \subseteq Deployment

VARIABLES
  ledger,     \* each trader's rows
  files,      \* the traders whose ledger file exists
  exchange,   \* each order as the exchange knows it
  paused,     \* control.json
  consumer,   \* the holder of refresh-trading.lock; NoLock where nobody takes it
  proc,       \* each process: where it is and what it has read
  crashes, pauses

vars == <<ledger, files, exchange, paused, consumer, proc, crashes, pauses>>

OrderStates == {"unsigned", "signed", "inflight", "live", "matched",
                "cancelled", "refused", "lost"}

\* What a process read of a row, and may act on after the row has changed.
Entry == [of : Trader, at : 1 .. MaxRows, placement : Placements,
          order_id : Order \cup {NoId}]

Steps == {"absent", "idle", "list", "sweep", "cancel", "confirm", "refresh", "place",
          "wait", "journal", "prepare", "guard", "post", "reply"}
Jobs == {"none", "maintain", "refresh", "clean", "recheck"}

\* seen is the last listing of open orders: <<order, shares matched>> pairs.
At(step, turn) ==
  [step |-> step, turn |-> turn, job |-> "none", todo |-> {}, seen |-> {},
   stuck |-> FALSE, entry |-> {}, market |-> {}, key |-> {}, retried |-> FALSE]

Idle == At("idle", 1)

Init ==
  /\ ledger = [t \in Trader |-> <<>>]
  /\ exchange = [o \in Order |-> [state |-> "unsigned", filled |-> 0, final |-> FALSE]]
  /\ paused = FALSE
  /\ \E d \in Deployments :
       /\ files = d.ledgers
       /\ consumer = IF d.locked THEN NoProc ELSE NoLock
       /\ proc = [p \in Proc |-> IF p \in d.running THEN Idle ELSE At("absent", 1)]
  /\ crashes = 0
  /\ pauses = 0

Turn(p) == Traders[proc[p].turn]

RowOf(e) == ledger[e.of][e.at]

EntryFor(t, i) == [of |-> t, at |-> i, placement |-> ledger[t][i].placement,
                   order_id |-> ledger[t][i].order_id]

\* The one entry a cancellation or a placement is about.
Mine(p) == CHOOSE e \in proc[p].entry : TRUE

Uncertain(e) == e.placement \in {"pending_submit", "unknown"}

-----------------------------------------------------------------------------
(* What the exchange shows of an order. *)

UnknownState == [state |-> "unknown", filled |-> 0]

\* The order's trades are all final, or there are none.
Accounted(o) == exchange[o].filled = 0 \/ exchange[o].final

\* Mutant: a terminal status is believed before its trades are confirmed.
LookupUnconfirmed(o) ==
  CASE o = NoId -> UnknownState
    [] o # NoId /\ exchange[o].state = "live" ->
         [state |-> "resting", filled |-> exchange[o].filled]
    [] o # NoId /\ exchange[o].state \in {"matched", "cancelled"} ->
         [state |-> "closed", filled |-> IF Accounted(o) THEN exchange[o].filled ELSE 0]
    [] OTHER -> UnknownState

\* get_order, and for a matched order its trade history: an order is closed only
\* on a terminal status whose filled quantity the confirmed trades account for.
\* An id the exchange does not know proves nothing.
Lookup(o) ==
  CASE o = NoId -> UnknownState
    [] o # NoId /\ exchange[o].state = "live" ->
         [state |-> "resting", filled |-> exchange[o].filled]
    [] o # NoId /\ exchange[o].state \in {"matched", "cancelled"} /\ Accounted(o) ->
         [state |-> "closed", filled |-> exchange[o].filled]
    [] OTHER -> UnknownState

ListedIn(seen, o) == {n \in 0 .. Shares : <<o, n>> \in seen}

\* _inspect_limit_order_state: the listing first, by durable id only, then a
\* lookup, which may fail.
Inspect(o, seen) ==
  IF ListedIn(seen, o) # {}
    THEN {[state |-> "resting", filled |-> n] : n \in ListedIn(seen, o)}
    ELSE {UnknownState, Lookup(o)}

Listing == {<<o, exchange[o].filled>> : o \in {x \in Order : exchange[x].state = "live"}}

-----------------------------------------------------------------------------
(* What evidence does to a ledger. *)

\* Mutant: a closed order is taken for a complete fill.
ReconcileClosedWhole(rows, i, n) ==
  IF n > 0 THEN ConvertBet(rows, i, Shares) ELSE CancelBet(rows, i)

\* _reconcile_closed_limit_order
ReconcileClosed(rows, i, n) ==
  IF n > 0 THEN ConvertBet(rows, i, n) ELSE CancelBet(rows, i)

\* Mutant: recovery only looks for orders that still rest.
RecoverRestingOnly(rows, e, answer) ==
  CASE e.order_id = NoId -> SetPlacement(rows, e.at, "unknown")
    [] e.order_id # NoId /\ answer.state = "resting" -> SetPlacement(rows, e.at, "submitted")
    [] OTHER -> rows

\* _reconcile_unresolved_submission, given what was read of the row and of its
\* order.  Without a durable id the row stays open and in the way.
Recover(rows, e, answer) ==
  CASE e.order_id = NoId /\ e.placement = "pending_submit" ->
         SetPlacement(rows, e.at, "unknown")
    [] e.order_id # NoId /\ answer.state = "resting" -> SetPlacement(rows, e.at, "submitted")
    [] e.order_id # NoId /\ answer.state = "closed" ->
         ReconcileClosed(rows, e.at, answer.filled)
    [] OTHER -> rows

-----------------------------------------------------------------------------
(* The cycle. *)

Goto(p, local) == proc' = [proc EXCEPT ![p] = local]

\* A cycle that returns, raises or dies lets go of everything.
Leave(p) ==
  /\ Goto(p, Idle)
  /\ consumer' = IF consumer = p THEN NoProc ELSE consumer

Sweep(p, job, entries) == [proc[p] EXCEPT !.step = "list", !.job = job, !.todo = entries]

\* The rows _maintain_original_accounting looks at, over every ledger.
UnresolvedEntries ==
  UNION {{EntryFor(t, i) : i \in {j \in OpenRows(ledger[t]) : Unresolved(ledger[t][j])}} :
           t \in Trader}

\* run_refresh_live_cycle: not while paused, and one consumer at a time.
BeginLockedCycle(p) ==
  /\ p \in Cyclers
  /\ proc[p].step = "idle"
  /\ ~paused
  /\ consumer = NoProc
  /\ consumer' = p
  /\ Goto(p, IF UnresolvedEntries = {} THEN At("refresh", 1)
             ELSE Sweep(p, "maintain", UnresolvedEntries))
  /\ UNCHANGED <<ledger, files, exchange, paused, crashes, pauses>>

\* cmd_duo_live without a refresh root.
BeginUnlockedCycle(p) ==
  /\ consumer = NoLock
  /\ p \in Cyclers
  /\ proc[p].step = "idle"
  /\ Goto(p, At("refresh", 1))
  /\ UNCHANGED <<ledger, files, exchange, paused, consumer, crashes, pauses>>

RestingEntries(t) == {EntryFor(t, i) : i \in {j \in OpenRows(ledger[t]) : Resting(ledger[t][j])}}

\* refresh_open_limit_orders for the trader whose turn it is.
BeginRefresh(p) ==
  /\ proc[p].step = "refresh"
  /\ Goto(p, IF RestingEntries(Turn(p)) = {} THEN At("place", proc[p].turn)
             ELSE Sweep(p, "refresh", RestingEntries(Turn(p))))
  /\ UNCHANGED <<ledger, files, exchange, paused, consumer, crashes, pauses>>

\* cancel_all_stale_limit_bids: outside every lock.
BeginCleanup(p) ==
  /\ p \in Cleaners
  /\ proc[p].step = "idle"
  /\ UNION {RestingEntries(t) : t \in Trader} # {}
  /\ Goto(p, Sweep(p, "clean", UNION {RestingEntries(t) : t \in Trader}))
  /\ UNCHANGED <<ledger, files, exchange, paused, consumer, crashes, pauses>>

\* One get_open_orders for the whole sweep.
ListOrders(p) ==
  /\ proc[p].step = "list"
  /\ Goto(p, [proc[p] EXCEPT !.step = "sweep", !.seen = Listing])
  /\ UNCHANGED <<ledger, files, exchange, paused, consumer, crashes, pauses>>

\* It raises: recovery ends the cycle, a refresh is skipped, a cleanup returns,
\* and a row that could not be rechecked blocks the placement.
ListFails(p) ==
  /\ proc[p].step = "list"
  /\ CASE proc[p].job \in {"maintain", "clean"} -> Leave(p)
       [] OTHER -> Goto(p, At("place", proc[p].turn)) /\ UNCHANGED consumer
  /\ UNCHANGED <<ledger, files, exchange, paused, crashes, pauses>>

-----------------------------------------------------------------------------
(* Sweeping rows: recovery, refresh, cleanup and the recheck of a placement. *)

Drop(p, e) == [proc[p] EXCEPT !.todo = @ \ {e}]

Examining(p, e, job) ==
  /\ proc[p].step = "sweep"
  /\ proc[p].job = job
  /\ e \in proc[p].todo

\* One row of _maintain_original_accounting.  The cycle stays blocked while a
\* row is uncertain, its order unknown, or its closing cannot be recorded.
MaintainRow(p, e, answer) ==
  /\ Examining(p, e, "maintain")
  /\ LET rows == IF Uncertain(e) THEN Recover(ledger[e.of], e, answer)
                 ELSE IF answer.state = "closed"
                   THEN ReconcileClosed(ledger[e.of], e.at, answer.filled)
                   ELSE ledger[e.of]
         stuck == IF Uncertain(e)
                    THEN Open(rows[e.at]) /\ rows[e.at].placement \in {"pending_submit", "unknown"}
                    ELSE \/ answer.state = "unknown"
                         \/ answer.state = "closed" /\ ~Resting(RowOf(e))
     IN /\ ledger' = [ledger EXCEPT ![e.of] = rows]
        /\ Goto(p, [Drop(p, e) EXCEPT !.stuck = @ \/ stuck])
  /\ UNCHANGED <<files, exchange, paused, consumer, crashes, pauses>>

\* One open row on the market of a placement: an uncertain one is reconciled
\* first, any row still open blocks the placement.
RecheckRow(p, e, answer) ==
  /\ Examining(p, e, "recheck")
  /\ LET rows == IF Uncertain(e) THEN Recover(ledger[e.of], e, answer) ELSE ledger[e.of]
     IN /\ ledger' = [ledger EXCEPT ![e.of] = rows]
        /\ Goto(p, [Drop(p, e) EXCEPT !.stuck = @ \/ ~Uncertain(e) \/ Open(rows[e.at])])
  /\ UNCHANGED <<files, exchange, paused, consumer, crashes, pauses>>

\* A refresh or a cleanup of a row whose order is closed or cannot be confirmed,
\* or is resting and wanted.
SweepRow(p, e, answer) ==
  /\ Examining(p, e, "refresh") \/ Examining(p, e, "clean")
  /\ ledger' = IF answer.state = "closed"
                 THEN [ledger EXCEPT ![e.of] = ReconcileClosed(@, e.at, answer.filled)]
                 ELSE ledger
  /\ Goto(p, Drop(p, e))
  /\ UNCHANGED <<files, exchange, paused, consumer, crashes, pauses>>

\* It is resting and no longer wanted.  A refresh leaves a partial fill alone.
DecideToCancel(p, e, answer) ==
  /\ \/ Examining(p, e, "refresh") /\ answer.filled = 0
     \/ Examining(p, e, "clean")
  /\ answer.state = "resting"
  /\ Goto(p, [Drop(p, e) EXCEPT !.step = "cancel", !.entry = {e}])
  /\ UNCHANGED <<ledger, files, exchange, paused, consumer, crashes, pauses>>

Examine(p, e, answer) ==
  \/ MaintainRow(p, e, answer)
  \/ RecheckRow(p, e, answer)
  \/ SweepRow(p, e, answer)
  \/ DecideToCancel(p, e, answer)

\* A DELETE may or may not reach a live order.
CancelOnExchange(o) ==
  IF exchange[o].state = "live"
    THEN \/ exchange' = [exchange EXCEPT ![o].state = "cancelled"]
         \/ UNCHANGED exchange
    ELSE UNCHANGED exchange

\* cancel_order: confirmed or not, the order's state is read again; any other
\* failure leaves the row alone.
CancelOrder(p) ==
  /\ proc[p].step = "cancel"
  /\ CancelOnExchange(Mine(p).order_id)
  /\ \/ Goto(p, [proc[p] EXCEPT !.step = "confirm"])
     \/ Goto(p, [proc[p] EXCEPT !.step = "sweep", !.entry = {}])
  /\ UNCHANGED <<ledger, files, paused, consumer, crashes, pauses>>

\* The retry of a cancellation whose order still rests: once.
CancelAgain(p) ==
  /\ proc[p].step = "confirm"
  /\ ~proc[p].retried
  /\ exchange[Mine(p).order_id].state = "live"
  /\ CancelOnExchange(Mine(p).order_id)
  /\ Goto(p, [proc[p] EXCEPT !.retried = TRUE])
  /\ UNCHANGED <<ledger, files, paused, consumer, crashes, pauses>>

\* _finalize_cancelled_limit_order_outcome: only a closed order changes the row.
ConfirmCancel(p) ==
  /\ proc[p].step = "confirm"
  /\ \E answer \in Inspect(Mine(p).order_id, Listing) :
       ledger' = IF answer.state = "closed"
                   THEN [ledger EXCEPT ![Mine(p).of] =
                           ReconcileClosed(@, Mine(p).at, answer.filled)]
                   ELSE ledger
  /\ Goto(p, [proc[p] EXCEPT !.step = "sweep", !.entry = {}, !.retried = FALSE])
  /\ UNCHANGED <<files, exchange, paused, consumer, crashes, pauses>>

Swept(p, job) == proc[p].step = "sweep" /\ proc[p].job = job /\ proc[p].todo = {}

\* A blocked cycle still observes the market but places nothing.
EndMaintenance(p) ==
  /\ Swept(p, "maintain")
  /\ IF proc[p].stuck THEN Leave(p)
     ELSE Goto(p, At("refresh", 1)) /\ UNCHANGED consumer
  /\ UNCHANGED <<ledger, files, exchange, paused, crashes, pauses>>

EndRefresh(p) ==
  /\ Swept(p, "refresh")
  /\ Goto(p, At("place", proc[p].turn))
  /\ UNCHANGED <<ledger, files, exchange, paused, consumer, crashes, pauses>>

EndCleanup(p) ==
  /\ Swept(p, "clean")
  /\ Leave(p)
  /\ UNCHANGED <<ledger, files, exchange, paused, crashes, pauses>>

-----------------------------------------------------------------------------
(* A placement. *)

\* _coordinated_ledger_paths: a ledger whose file does not exist is left out.
Coordinated(t) ==
  IF t \in Primary THEN {t} \cup (Primary \cap files) ELSE {t}

Placing(p) ==
  \/ proc[p].step \in {"journal", "prepare", "guard", "post", "reply"}
  \/ proc[p].step \in {"list", "sweep"} /\ proc[p].job = "recheck"

\* _placement_lock_path names the ledgers coordinated now and the market.
AskForLock(p, m) ==
  /\ proc[p].step = "place"
  /\ Goto(p, [proc[p] EXCEPT !.step = "wait", !.market = {m},
                             !.key = Coordinated(Turn(p)) \X {m}])
  /\ UNCHANGED <<ledger, files, exchange, paused, consumer, crashes, pauses>>

Wanted(p) == CHOOSE m \in proc[p].market : TRUE

\* _coordinated_open_bets on the market.
OpenEntries(t, m) ==
  UNION {{EntryFor(u, i) : i \in {j \in OpenRows(ledger[u]) : ledger[u][j].market = m}} :
           u \in Coordinated(t)}

\* Mutant: the placement lock is not waited for.
LockFreely(p) == TRUE

LockFree(p) == \A q \in Proc : Placing(q) => proc[q].key # proc[p].key

\* The lock is taken and the ledgers are read.  Without an uncertain row the
\* exchange is not asked.
TakeLock(p) ==
  /\ proc[p].step = "wait"
  /\ LockFree(p)
  /\ LET rows == OpenEntries(Turn(p), Wanted(p))
     IN Goto(p, CASE rows = {} -> [proc[p] EXCEPT !.step = "journal"]
                  [] rows # {} /\ (\E e \in rows : Uncertain(e)) ->
                       Sweep(p, "recheck", rows)
                  [] OTHER -> At("place", proc[p].turn))
  /\ UNCHANGED <<ledger, files, exchange, paused, consumer, crashes, pauses>>

EndRecheck(p) ==
  /\ Swept(p, "recheck")
  /\ Goto(p, IF proc[p].stuck THEN At("place", proc[p].turn)
             ELSE [proc[p] EXCEPT !.step = "journal", !.job = "none", !.seen = {}])
  /\ UNCHANGED <<ledger, files, exchange, paused, consumer, crashes, pauses>>

\* Any later gate: metadata, wallet conflict, size, liquidity, price.
SkipPlacement(p) ==
  /\ proc[p].step = "journal"
  /\ Goto(p, At("place", proc[p].turn))
  /\ UNCHANGED <<ledger, files, exchange, paused, consumer, crashes, pauses>>

\* _journal_live_order_attempt: a pause here ends the whole cycle.
Journal(p) ==
  /\ proc[p].step = "journal"
  /\ Len(ledger[Turn(p)]) < MaxRows
  /\ IF paused THEN Leave(p) /\ UNCHANGED <<ledger, files>>
     ELSE /\ ledger' = [ledger EXCEPT ![Turn(p)] = AddBet(@, Wanted(p))]
          /\ files' = files \cup {Turn(p)}
          /\ Goto(p, [proc[p] EXCEPT !.step = "prepare",
                !.entry = {[of |-> Turn(p), at |-> Len(ledger[Turn(p)]) + 1,
                            placement |-> "pending_submit", order_id |-> NoId]}])
          /\ UNCHANGED consumer
  /\ UNCHANGED <<exchange, paused, crashes, pauses>>

\* Mutant: the order is signed and posted before its id is saved.
PrepareUnsaved(p) ==
  /\ proc[p].step = "prepare"
  /\ \E o \in Order :
       /\ exchange[o].state = "unsigned"
       /\ exchange' = [exchange EXCEPT ![o].state = "signed"]
       /\ Goto(p, [proc[p] EXCEPT !.step = "guard", !.entry = {[Mine(p) EXCEPT !.order_id = o]}])
  /\ UNCHANGED <<ledger, files, paused, consumer, crashes, pauses>>

\* Sign, and save the id before the POST (_record_prepared_order_id), which is
\* called off if the row is no longer open.
PrepareOrder(p) ==
  /\ proc[p].step = "prepare"
  /\ \E o \in Order :
       /\ exchange[o].state = "unsigned"
       /\ exchange' = [exchange EXCEPT ![o].state = "signed"]
       /\ ledger' = [ledger EXCEPT ![Mine(p).of] = SetOrderId(@, Mine(p).at, o)]
       /\ Goto(p, IF Open(RowOf(Mine(p)))
                    THEN [proc[p] EXCEPT !.step = "guard",
                                         !.entry = {[Mine(p) EXCEPT !.order_id = o]}]
                    ELSE At("place", proc[p].turn))
  /\ UNCHANGED <<files, paused, consumer, crashes, pauses>>

\* The end of a placement: its row changes, the lock is let go.
Conclude(p, rows) ==
  /\ ledger' = [ledger EXCEPT ![Mine(p).of] = rows]
  /\ Goto(p, At("place", proc[p].turn))

\* Any exception before the order is signed: the outcome counts as unknown.
PrepareFails(p) ==
  /\ proc[p].step = "prepare"
  /\ Conclude(p, SetPlacement(ledger[Mine(p).of], Mine(p).at, "unknown"))
  /\ UNCHANGED <<files, exchange, paused, consumer, crashes, pauses>>

\* _require_unpaused just before the POST: a pause fails the row.
PreSubmitCheck(p) ==
  /\ proc[p].step = "guard"
  /\ IF paused THEN Conclude(p, FailBet(ledger[Mine(p).of], Mine(p).at))
     ELSE Goto(p, [proc[p] EXCEPT !.step = "post"]) /\ UNCHANGED ledger
  /\ UNCHANGED <<files, exchange, paused, consumer, crashes, pauses>>

PostOrder(p) ==
  /\ proc[p].step = "post"
  /\ exchange' = [exchange EXCEPT ![Mine(p).order_id].state = "inflight"]
  /\ Goto(p, [proc[p] EXCEPT !.step = "reply"])
  /\ UNCHANGED <<ledger, files, paused, consumer, crashes, pauses>>

ReplyAccepted(p) ==
  /\ proc[p].step = "reply"
  /\ exchange[Mine(p).order_id].state \in {"live", "matched", "cancelled"}
  /\ Conclude(p, SetPlacement(ledger[Mine(p).of], Mine(p).at, "submitted"))
  /\ UNCHANGED <<files, exchange, paused, consumer, crashes, pauses>>

\* A known rejection: the order certainly is not on the exchange.
ReplyRefused(p) ==
  /\ proc[p].step = "reply"
  /\ exchange[Mine(p).order_id].state = "refused"
  /\ Conclude(p, FailBet(ledger[Mine(p).of], Mine(p).at))
  /\ UNCHANGED <<files, exchange, paused, consumer, crashes, pauses>>

\* A timeout, a transport or server error, or an answer without an order id.
ReplyUncertain(p) ==
  /\ proc[p].step = "reply"
  /\ Conclude(p, SetPlacement(ledger[Mine(p).of], Mine(p).at, "unknown"))
  /\ UNCHANGED <<files, exchange, paused, consumer, crashes, pauses>>

\* The next trader's turn, or the end of the cycle.
NextTrader(p) ==
  /\ proc[p].step = "place"
  /\ IF proc[p].turn < Len(Traders)
       THEN Goto(p, At("refresh", proc[p].turn + 1)) /\ UNCHANGED consumer
       ELSE Leave(p)
  /\ UNCHANGED <<ledger, files, exchange, paused, crashes, pauses>>


-----------------------------------------------------------------------------
(* The exchange, the operator and failures. *)

OnExchange(o, from, to) ==
  /\ exchange[o].state = from
  /\ exchange' = [exchange EXCEPT ![o].state = to]
  /\ UNCHANGED <<ledger, files, paused, consumer, proc, crashes, pauses>>

\* What becomes of a POST does not wait for its answer, or for its sender.
Land(o) == OnExchange(o, "inflight", "live")
Refuse(o) == OnExchange(o, "inflight", "refused")
Lose(o) == OnExchange(o, "inflight", "lost")

\* Cancelled by the exchange, or by hand.
CloseOnExchange(o) == OnExchange(o, "live", "cancelled")

\* One share trades; the trade is not final yet.
Fill(o) ==
  /\ exchange[o].state = "live"
  /\ exchange' = [exchange EXCEPT ![o] =
       [state |-> IF exchange[o].filled + 1 = Shares THEN "matched" ELSE "live",
        filled |-> exchange[o].filled + 1, final |-> FALSE]]
  /\ UNCHANGED <<ledger, files, paused, consumer, proc, crashes, pauses>>

SettleTrades(o) ==
  /\ ~Accounted(o)
  /\ exchange' = [exchange EXCEPT ![o].final = TRUE]
  /\ UNCHANGED <<ledger, files, paused, consumer, proc, crashes, pauses>>

\* set_paused
Pause ==
  /\ ~paused
  /\ pauses < MaxPauses
  /\ paused' = TRUE
  /\ pauses' = pauses + 1
  /\ UNCHANGED <<ledger, files, exchange, consumer, proc, crashes>>

Unpause ==
  /\ paused
  /\ paused' = FALSE
  /\ UNCHANGED <<ledger, files, exchange, consumer, proc, crashes, pauses>>

\* A process dies between any two steps; the kernel drops its locks.
Crash(p) ==
  /\ proc[p].step \notin {"idle", "absent"}
  /\ crashes < MaxCrashes
  /\ crashes' = crashes + 1
  /\ Leave(p)
  /\ UNCHANGED <<ledger, files, exchange, paused, pauses>>

\* What the exchange may answer about the order of an entry.
Answers(p, e) == Inspect(e.order_id, proc[p].seen)

Sweeping(p) ==
  \/ ListOrders(p)
  \/ \E e \in proc[p].todo : \E answer \in Answers(p, e) : Examine(p, e, answer)
  \/ CancelOrder(p)
  \/ ConfirmCancel(p)
  \/ EndMaintenance(p)
  \/ EndRefresh(p)
  \/ EndCleanup(p)
  \/ EndRecheck(p)

Submitting(p) ==
  \/ TakeLock(p)
  \/ Journal(p)
  \/ PrepareOrder(p)
  \/ PreSubmitCheck(p)
  \/ PostOrder(p)
  \/ ReplyAccepted(p)
  \/ ReplyRefused(p)
  \/ ReplyUncertain(p)

\* What a running process does when nothing fails and nothing is optional.
Step(p) ==
  \/ BeginLockedCycle(p)
  \/ BeginUnlockedCycle(p)
  \/ BeginRefresh(p)
  \/ Sweeping(p)
  \/ Submitting(p)
  \/ NextTrader(p)

\* What it may do besides.
Option(p) ==
  \/ BeginCleanup(p)
  \/ ListFails(p)
  \/ CancelAgain(p)
  \/ \E m \in Market : AskForLock(p, m)
  \/ SkipPlacement(p)
  \/ PrepareFails(p)
  \/ Crash(p)

Exchange(o) ==
  \/ Land(o)
  \/ Refuse(o)
  \/ Lose(o)
  \/ CloseOnExchange(o)
  \/ Fill(o)
  \/ SettleTrades(o)

Next ==
  \/ \E p \in Proc : Step(p) \/ Option(p)
  \/ \E o \in Order : Exchange(o)
  \/ Pause
  \/ Unpause

Spec == Init /\ [][Next]_vars

\* A process that is running goes on, and cycles keep starting; a listing or a
\* look at a row that can succeed does so in the end; a turn tries finitely many
\* bets; an operator ends a pause.  Nothing is asked of the exchange.
FairSpec ==
  /\ Spec
  /\ WF_vars(Unpause)
  /\ \A p \in Proc :
       /\ WF_vars(Step(p))
       /\ SF_vars(ListOrders(p))
       /\ SF_vars(NextTrader(p))
       /\ \A t \in Trader, i \in 1 .. MaxRows :
            SF_vars(\E e \in proc[p].todo :
                      /\ e.of = t /\ e.at = i
                      /\ \E answer \in Answers(p, e) :
                           answer.state # "unknown" /\ Examine(p, e, answer))

-----------------------------------------------------------------------------
(* Properties. *)

TypeOK ==
  /\ ledger \in [Trader -> Seq(Row)]
  /\ \A t \in Trader : Len(ledger[t]) <= MaxRows
  /\ files \subseteq Trader
  /\ exchange \in [Order -> [state : OrderStates, filled : 0 .. Shares, final : BOOLEAN]]
  /\ paused \in BOOLEAN
  /\ consumer \in Cyclers \cup {NoProc, NoLock}
  /\ crashes \in 0 .. MaxCrashes /\ pauses \in 0 .. MaxPauses
  /\ \A p \in Proc :
       /\ proc[p].step \in Steps /\ proc[p].job \in Jobs
       /\ proc[p].turn \in DOMAIN Traders
       /\ proc[p].todo \cup proc[p].entry \subseteq Entry
       /\ proc[p].seen \subseteq Order \X (0 .. Shares)
       /\ proc[p].market \subseteq Market
       /\ proc[p].stuck \in BOOLEAN /\ proc[p].retried \in BOOLEAN

RowIds == {id \in Trader \X (1 .. MaxRows) : id[2] \in DOMAIN ledger[id[1]]}

RowAt(id) == ledger[id[1]][id[2]]

\* An order the exchange may still execute, or has executed.
AtRisk(o) ==
  o # NoId /\ (exchange[o].state \in {"inflight", "live"} \/ exchange[o].filled > 0)

\* The coordinated traders never hold two orders or positions on one market,
\* whichever of their processes placed them and whatever it knew of its answer.
OneExposurePerMarket ==
  \A a, b \in {id \in RowIds : id[1] \in Primary} :
    a # b /\ RowAt(a).market = RowAt(b).market =>
      ~(AtRisk(RowAt(a).order_id) /\ AtRisk(RowAt(b).order_id))

\* An order that reached the wire is the order of exactly one saved row, even if
\* its sender died before the answer.
DurableIdentity ==
  \A o \in Order : exchange[o].state \notin {"unsigned", "signed"} =>
    Cardinality({id \in RowIds : RowAt(id).order_id = o}) = 1

\* A row is only ever cancelled when its order can no longer execute and has not.
ClosedOnEvidence ==
  \A id \in RowIds :
    RowAt(id).status = "cancelled" => ~AtRisk(RowAt(id).order_id)

\* A row becomes a position with exactly the shares its order filled, once
\* nothing can be added to them.
PositionsMatchFills ==
  \A id \in RowIds : RowAt(id).type = "filled_limit" =>
    /\ RowAt(id).order_id # NoId
    /\ exchange[RowAt(id).order_id].state \in {"matched", "cancelled"}
    /\ exchange[RowAt(id).order_id].filled = RowAt(id).filled

\* A row keeps its order, a position its shares, and a cancelled row its end,
\* through every late answer and stale read.
OwnershipPermanent ==
  [][\A id \in RowIds :
       LET old == RowAt(id)
           new == ledger'[id[1]][id[2]]
       IN /\ old.order_id # NoId => new.order_id = old.order_id
          /\ old.type = "filled_limit" => new.type = old.type /\ new.filled = old.filled
          /\ ~Open(old) => ~Open(new)]_vars

\* A row whose order the exchange has closed and accounted for does not stay
\* uncertain, and with it the trading of every ledger blocked.
UncertaintyEnds ==
  \A t \in Trader, i \in 1 .. MaxRows :
    LET Settled == /\ i \in DOMAIN ledger[t]
                   /\ ledger[t][i].order_id # NoId
                   /\ Lookup(ledger[t][i].order_id).state = "closed"
        Pending == i \in OpenRows(ledger[t]) /\ Unresolved(ledger[t][i])
    IN (Settled /\ Pending) ~> ~Pending
=============================================================================
