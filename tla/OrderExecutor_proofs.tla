------------------------ MODULE OrderExecutor_proofs ------------------------
(***************************************************************************)
(* Proofs about live orders, for any markets, orders, traders, processes,  *)
(* deployments and bounds.                                                 *)
(*                                                                         *)
(* Nothing a process read stays true of what it read it from, so the       *)
(* invariant says what does: a row keeps its order and a closed order its  *)
(* fills.  That, and the row an attempt owns until its POST, is enough for *)
(* everything but the exposure of the coordinated traders, which also      *)
(* rests on who may look at a market beside whom.                          *)
(***************************************************************************)
EXTENDS OrderExecutor, FiniteSetTheorems, TLAPS

\* What a process holds.
Local ==
  [step : Steps, turn : DOMAIN Traders, job : Jobs, todo : SUBSET Entry,
   seen : SUBSET (Order \X (0 .. Shares)), stuck : BOOLEAN, entry : SUBSET Entry,
   market : SUBSET Market, key : SUBSET (Trader \X Market), retried : BOOLEAN]

LedgerType ==
  /\ ledger \in [Trader -> Seq(Row)]
  /\ \A t \in Trader : Len(ledger[t]) <= MaxRows

ExchangeType ==
  exchange \in [Order -> [state : OrderStates, filled : 0 .. Shares, final : BOOLEAN]]

ProcType == proc \in [Proc -> Local]

RestType ==
  /\ files \subseteq Trader
  /\ paused \in BOOLEAN
  /\ consumer \in Cyclers \cup {NoProc, NoLock}
  /\ crashes \in 0 .. MaxCrashes /\ pauses \in 0 .. MaxPauses

Types == LedgerType /\ ExchangeType /\ ProcType /\ RestType

-----------------------------------------------------------------------------
(* The rows and the exchange. *)

\* Only an order that was on the exchange has fills, and a live one has room.
Fills ==
  \A o \in Order :
    /\ exchange[o].filled > 0 => exchange[o].state \in {"live", "matched", "cancelled"}
    /\ exchange[o].state = "live" => exchange[o].filled < Shares

\* What a row may say of its order.
Fits(row) ==
  /\ row.order_id = NoId => Resting(row)
  /\ row.order_id # NoId => exchange[row.order_id].state # "unsigned"
  /\ row.status = "cancelled" => ~AtRisk(row.order_id)
  /\ row.type = "filled_limit" =>
       /\ row.order_id # NoId
       /\ exchange[row.order_id].state \in {"matched", "cancelled"}
       /\ exchange[row.order_id].filled = row.filled

RowsFit == \A t \in Trader : \A i \in DOMAIN ledger[t] : Fits(ledger[t][i])

\* No two rows have one order.
OneRowEach ==
  \A t, u \in Trader : \A i \in DOMAIN ledger[t], j \in DOMAIN ledger[u] :
    ledger[t][i].order_id # NoId /\ ledger[t][i].order_id = ledger[u][j].order_id =>
      t = u /\ i = j

\* An order beyond its signature has a row.
OnWire ==
  \A o \in Order : exchange[o].state \notin {"unsigned", "signed"} =>
    \E t \in Trader : \E i \in DOMAIN ledger[t] : ledger[t][i].order_id = o

-----------------------------------------------------------------------------
(* The processes. *)

\* What was read of a row holds of its order still.
HasRow(e) ==
  /\ e.at \in DOMAIN ledger[e.of]
  /\ e.order_id # NoId => RowOf(e).order_id = e.order_id

\* The steps of an attempt that owns its row.
Owning == {"prepare", "guard", "post"}

\* The row of an attempt, before and after its POST.
Attempt(step, e) ==
  /\ step = "prepare" => e.order_id = NoId /\ RowOf(e).order_id = NoId
  /\ step # "prepare" => e.order_id # NoId
  /\ step \in {"guard", "post"} => Open(RowOf(e)) /\ exchange[e.order_id].state = "signed"

\* What one process holds agrees with the ledgers and the exchange.
Sound(l) ==
  /\ \A e \in l.todo \cup l.entry : HasRow(e)
  /\ l.step \in {"cancel", "confirm"} =>
       /\ l.job \in {"refresh", "clean"}
       /\ \E e \in Entry : l.entry = {e} /\ e.order_id # NoId
  /\ l.step \in Owning \cup {"reply"} =>
       \E e \in Entry : l.entry = {e} /\ Attempt(l.step, e)
  /\ l.step \in {"wait", "journal"} \/ l.job = "recheck" =>
       \E m \in Market : l.market = {m}

Sounds == \A p \in Proc : Sound(proc[p])

\* No two attempts own one row.
OwnersApart ==
  \A p, q \in Proc : p # q /\ proc[p].step \in Owning /\ proc[q].step \in Owning =>
    \A e \in proc[p].entry, f \in proc[q].entry : e.of # f.of \/ e.at # f.at

Facts == Fills /\ RowsFit /\ OneRowEach /\ OnWire /\ Sounds /\ OwnersApart

OrderInv == Types /\ Facts

-----------------------------------------------------------------------------
(* The exposure of the coordinated traders. *)

\* Every deployment has the locked cycles, or starts with the ledgers it coordinates.
SafeDeployments == \A d \in Deployments : d.locked \/ Primary \subseteq d.ledgers

\* The steps of a cycle, as against a cleanup.
InCycle(l) ==
  /\ l.step \notin {"absent", "idle"}
  /\ l.step \in {"list", "sweep", "cancel", "confirm"} => l.job # "clean"

\* The steps between the look at a market and the row it allows.
Looking(l) == l.step = "journal" \/ (l.step \in {"list", "sweep"} /\ l.job = "recheck")

ForPrimary(l) == Traders[l.turn] \in Primary

PrimaryLook(l) == Looking(l) /\ ForPrimary(l)

\* A ledger with rows has a file.
RowsOnFile == \A t \in Trader : DOMAIN ledger[t] # {} => t \in files

\* A cycle runs under the lock, if cycles take it; if not, the ledgers of the
\* coordinated traders exist, and name the lock of a market.
KeyFits(l) ==
  ForPrimary(l) /\ (l.step = "wait" \/ Looking(l)) => l.key = Primary \X l.market

Guarded ==
  /\ consumer # NoLock => \A p \in Proc : InCycle(proc[p]) => consumer = p
  /\ consumer = NoLock => Primary \subseteq files /\ \A p \in Proc : KeyFits(proc[p])

\* One process at a time looks at a market for the coordinated traders.
LookersApart ==
  \A p, q \in Proc :
    p # q /\ PrimaryLook(proc[p]) /\ PrimaryLook(proc[q]) => proc[p].market # proc[q].market

\* Every open row that the look must find is one it has yet to recheck, unless it
\* has found one already.
Checked(l) ==
  /\ l.step \in {"place", "wait", "journal"} => l.todo = {} /\ ~l.stuck
  /\ PrimaryLook(l) /\ ~l.stuck =>
       \A t \in Primary : \A i \in OpenRows(ledger[t]) :
         l.market = {ledger[t][i].market} => \E e \in l.todo : e.of = t /\ e.at = i

AllChecked == \A p \in Proc : Checked(proc[p])

\* One open row on a market.
OneOpenRow ==
  \A t, u \in Primary : \A i \in OpenRows(ledger[t]), j \in OpenRows(ledger[u]) :
    ledger[t][i].market = ledger[u][j].market => t = u /\ i = j

Exposure == RowsOnFile /\ Guarded /\ LookersApart /\ AllChecked /\ OneOpenRow

ExposureInv == OrderInv /\ Exposure

-----------------------------------------------------------------------------
(* The constants. *)

LEMMA Constants ==
  /\ MaxRows \in Nat /\ MaxCrashes \in Nat /\ MaxPauses \in Nat
  /\ Shares \in Nat /\ Shares > 0 /\ NoId \notin Order
  /\ NoProc \notin Proc /\ NoLock \notin Proc /\ NoLock # NoProc
  BY BoundsAssumption, SharesAssumption, NoIdAssumption, ProcAssumption
     DEF BoundsAssumption, SharesAssumption, NoIdAssumption, ProcAssumption

LEMMA Turns ==
  /\ Len(Traders) \in Nat /\ DOMAIN Traders = 1 .. Len(Traders) /\ 1 \in DOMAIN Traders
  /\ \A k \in DOMAIN Traders : Traders[k] \in Trader
<1>1. Traders \in Seq(Trader) /\ Traders # <<>>
  BY TradersAssumption DEF TradersAssumption
<1>2. Len(Traders) \in Nat /\ DOMAIN Traders = 1 .. Len(Traders) /\ Len(Traders) # 0
  BY <1>1
<1> QED BY <1>2 DEF Trader

-----------------------------------------------------------------------------
(* What the ledger's operators do to a row, and to nothing else. *)

\* A row is replaced.
Amend(t, i, r) == ledger' = [ledger EXCEPT ![t] = [ledger[t] EXCEPT ![i] = r]]

\* Only its placement changed, if anything did.
Patched(old, r) ==
  /\ r.order_id = old.order_id /\ r.market = old.market
  /\ r.status = old.status /\ r.type = old.type /\ r.filled = old.filled

\* The end of a row whose closed order filled n shares.
Closing(old, r, n) ==
  /\ r.order_id = old.order_id /\ r.market = old.market
  /\ ~Resting(old) => Patched(old, r)
  /\ Resting(old) /\ n > 0 => r.status = "open" /\ r.type = "filled_limit" /\ r.filled = n
  /\ Resting(old) /\ n = 0 => r.status = "cancelled" /\ r.type = "limit"

\* The end of a row whose order never reached the exchange.
Failed(old, r) ==
  /\ r.order_id = old.order_id /\ r.market = old.market
  /\ r.type = old.type /\ r.filled = old.filled /\ r.status = "cancelled"

\* The row of an order that was signed.
Numbered(old, r, o) ==
  /\ r.order_id = o /\ r.market = old.market
  /\ r.status = old.status /\ r.type = old.type /\ r.filled = old.filled

LEMMA SameRow ==
  ASSUME NEW rows \in Seq(Row), NEW i \in DOMAIN rows
  PROVE  rows[i] \in Row /\ rows = [rows EXCEPT ![i] = rows[i]]
  OBVIOUS

LEMMA PatchRow ==
  ASSUME NEW rows \in Seq(Row), NEW i \in DOMAIN rows, NEW s \in Placements
  PROVE  \E r \in Row : SetPlacement(rows, i, s) = [rows EXCEPT ![i] = r] /\ Patched(rows[i], r)
<1>a. rows[i] \in Row
  BY SameRow
<1>1. CASE Open(rows[i])
  <2>1. [rows[i] EXCEPT !.placement = s] \in Row
    BY <1>a DEF Row
  <2>2. SetPlacement(rows, i, s) = [rows EXCEPT ![i] = [rows[i] EXCEPT !.placement = s]]
    BY <1>1 DEF SetPlacement
  <2>3. Patched(rows[i], [rows[i] EXCEPT !.placement = s])
    BY <1>a DEF Row, Patched
  <2> QED BY <2>1, <2>2, <2>3
<1>2. CASE ~Open(rows[i])
  BY <1>2, SameRow DEF SetPlacement, Patched
<1> QED BY <1>1, <1>2

LEMMA CloseRow ==
  ASSUME NEW rows \in Seq(Row), NEW i \in DOMAIN rows, NEW n \in 0 .. Shares
  PROVE  \E r \in Row : ReconcileClosed(rows, i, n) = [rows EXCEPT ![i] = r]
                        /\ Closing(rows[i], r, n)
<1> DEFINE old == rows[i]
           full == [old EXCEPT !.type = "filled_limit", !.placement = "filled", !.filled = n]
           none == [old EXCEPT !.status = "cancelled"]
<1>a. old \in Row
  BY SameRow
<1>1. CASE Resting(old) /\ n > 0
  <2>1. full \in Row
    BY <1>a DEF Row, Placements
  <2>2. ReconcileClosed(rows, i, n) = [rows EXCEPT ![i] = full]
    BY <1>1 DEF ReconcileClosed, ConvertBet
  <2>3. Closing(old, full, n)
    BY <1>1, <1>a DEF Row, Closing, Resting, Open
  <2> QED BY <2>1, <2>2, <2>3
<1>2. CASE Resting(old) /\ n = 0
  <2>1. none \in Row
    BY <1>a DEF Row
  <2>2. ReconcileClosed(rows, i, n) = [rows EXCEPT ![i] = none]
    BY <1>2 DEF ReconcileClosed, CancelBet
  <2>3. Closing(old, none, n)
    BY <1>2, <1>a DEF Row, Closing, Resting, Open
  <2> QED BY <2>1, <2>2, <2>3
<1>3. CASE ~Resting(old)
  <2>1. ReconcileClosed(rows, i, n) = rows
    BY <1>3 DEF ReconcileClosed, ConvertBet, CancelBet
  <2>2. Closing(old, old, n)
    BY <1>3 DEF Closing, Patched
  <2> QED BY <2>1, <2>2, SameRow
<1>4. n = 0 \/ n > 0
  OBVIOUS
<1> QED BY <1>1, <1>2, <1>3, <1>4

LEMMA FailRow ==
  ASSUME NEW rows \in Seq(Row), NEW i \in DOMAIN rows
  PROVE  \E r \in Row : FailBet(rows, i) = [rows EXCEPT ![i] = r] /\ Failed(rows[i], r)
<1> DEFINE old == rows[i]
           none == [old EXCEPT !.status = "cancelled", !.placement = "failed"]
<1>a. old \in Row
  BY SameRow
<1>1. CASE Open(old)
  <2>1. none \in Row
    BY <1>a DEF Row, Placements
  <2>2. FailBet(rows, i) = [rows EXCEPT ![i] = none]
    BY <1>1 DEF FailBet
  <2>3. Failed(old, none)
    BY <1>a DEF Row, Failed
  <2> QED BY <2>1, <2>2, <2>3
<1>2. CASE ~Open(old)
  <2>1. FailBet(rows, i) = rows
    BY <1>2 DEF FailBet
  <2>2. Failed(old, old)
    BY <1>2, <1>a DEF Failed, Open, Row
  <2> QED BY <2>1, <2>2, SameRow
<1> QED BY <1>1, <1>2

LEMMA OrderRow ==
  ASSUME NEW rows \in Seq(Row), NEW i \in DOMAIN rows, NEW o \in Order, Open(rows[i])
  PROVE  \E r \in Row : SetOrderId(rows, i, o) = [rows EXCEPT ![i] = r]
                        /\ Numbered(rows[i], r, o)
<1>a. rows[i] \in Row
  BY SameRow
<1>1. [rows[i] EXCEPT !.order_id = o] \in Row
  BY <1>a DEF Row
<1>2. SetOrderId(rows, i, o) = [rows EXCEPT ![i] = [rows[i] EXCEPT !.order_id = o]]
  BY DEF SetOrderId
<1>3. Numbered(rows[i], [rows[i] EXCEPT !.order_id = o], o)
  BY <1>a DEF Row, Numbered
<1> QED BY <1>1, <1>2, <1>3

(* The rows after a row is replaced, or added. *)
LEMMA AmendLedger ==
  ASSUME LedgerType, NEW t \in Trader, NEW i \in DOMAIN ledger[t], NEW r \in Row, Amend(t, i, r)
  PROVE  /\ LedgerType'
         /\ \A u \in Trader : DOMAIN ledger'[u] = DOMAIN ledger[u]
         /\ \A u \in Trader : \A j \in DOMAIN ledger[u] :
              ledger'[u][j] = IF u = t /\ j = i THEN r ELSE ledger[u][j]
<1>1. /\ [ledger[t] EXCEPT ![i] = r] \in Seq(Row)
      /\ Len([ledger[t] EXCEPT ![i] = r]) = Len(ledger[t])
  BY DEF LedgerType
<1> QED BY <1>1 DEF LedgerType, Amend

LEMMA AddedRow ==
  ASSUME LedgerType, NEW t \in Trader, NEW m \in Market, Len(ledger[t]) < MaxRows,
         ledger' = [ledger EXCEPT ![t] = AddBet(@, m)]
  PROVE  /\ LedgerType'
         /\ \A u \in Trader \ {t} : ledger'[u] = ledger[u]
         /\ Len(ledger[t]) + 1 \in 1 .. MaxRows
         /\ DOMAIN ledger'[t] = DOMAIN ledger[t] \cup {Len(ledger[t]) + 1}
         /\ Len(ledger[t]) + 1 \notin DOMAIN ledger[t]
         /\ \A j \in DOMAIN ledger[t] : ledger'[t][j] = ledger[t][j]
         /\ ledger'[t][Len(ledger[t]) + 1] =
              [market |-> m, order_id |-> NoId, status |-> "open", type |-> "limit",
               placement |-> "pending_submit", filled |-> 0]
<1> DEFINE new == [market |-> m, order_id |-> NoId, status |-> "open", type |-> "limit",
                   placement |-> "pending_submit", filled |-> 0]
<1>1. new \in Row
  BY Constants DEF Row, Placements
<1>2. ledger[t] \in Seq(Row) /\ Len(ledger[t]) \in Nat
  BY DEF LedgerType
<1>3. ledger' = [ledger EXCEPT ![t] = Append(ledger[t], new)]
  BY DEF AddBet
<1> HIDE DEF new
<1>4. /\ Append(ledger[t], new) \in Seq(Row)
      /\ Len(Append(ledger[t], new)) = Len(ledger[t]) + 1
      /\ \A j \in 1 .. Len(ledger[t]) : Append(ledger[t], new)[j] = ledger[t][j]
      /\ Append(ledger[t], new)[Len(ledger[t]) + 1] = new
  BY <1>1, <1>2
<1>5. ledger'[t] = Append(ledger[t], new) /\ ledger' \in [Trader -> Seq(Row)]
  BY <1>3, <1>4 DEF LedgerType
<1>6. \A u \in Trader \ {t} : ledger'[u] = ledger[u]
  BY <1>3 DEF LedgerType
<1>7. LedgerType'
  BY <1>2, <1>4, <1>5, <1>6, Constants DEF LedgerType
<1>8. /\ DOMAIN ledger[t] = 1 .. Len(ledger[t]) /\ DOMAIN ledger'[t] = 1 .. Len(ledger[t]) + 1
  BY <1>2, <1>4, <1>5
<1> QED BY <1>2, <1>4, <1>5, <1>6, <1>7, <1>8, Constants DEF new

-----------------------------------------------------------------------------
(* What an answer proves, and what it may do to a row. *)

LEMMA AnswerMeans ==
  ASSUME Types, NEW x \in Order \cup {NoId}, NEW seen \in SUBSET (Order \X (0 .. Shares)),
         NEW answer \in Inspect(x, seen)
  PROVE  /\ answer.state = "resting" => x \in Order
         /\ answer.state = "closed" =>
              /\ x \in Order /\ exchange[x].state \in {"matched", "cancelled"}
              /\ answer.filled = exchange[x].filled /\ answer.filled \in 0 .. Shares
         /\ answer.state \in {"unknown", "resting", "closed"}
<1>1. CASE ListedIn(seen, x) # {}
  <2>1. PICK n \in ListedIn(seen, x) : answer = [state |-> "resting", filled |-> n]
    BY <1>1 DEF Inspect
  <2>2. x \in Order
    BY <2>1 DEF ListedIn
  <2> QED BY <2>1, <2>2
<1>2. CASE ListedIn(seen, x) = {} /\ answer = UnknownState
  BY <1>2 DEF UnknownState
<1>3. CASE ListedIn(seen, x) = {} /\ answer = Lookup(x)
  <2>1. CASE x \in Order /\ exchange[x].state = "live"
    BY <1>3, <2>1, Constants DEF Lookup
  <2>2. CASE x \in Order /\ exchange[x].state \in {"matched", "cancelled"} /\ Accounted(x)
    BY <1>3, <2>2, Constants DEF Lookup, Types, ExchangeType
  <2>3. CASE ~(x \in Order /\ exchange[x].state = "live")
             /\ ~(x \in Order /\ exchange[x].state \in {"matched", "cancelled"} /\ Accounted(x))
    <3>1. Lookup(x) = UnknownState
      BY <2>3, Constants DEF Lookup
    <3> QED BY <3>1, <1>3 DEF UnknownState
  <2> QED BY <2>1, <2>2, <2>3
<1> QED BY <1>1, <1>2, <1>3 DEF Inspect

\* What may replace a row.
Allowed(old, r) ==
  /\ r.order_id = old.order_id /\ r.market = old.market
  /\ Fits(r)
  /\ old.type = "filled_limit" => r.type = old.type /\ r.filled = old.filled
  /\ Open(r) => Open(old)

LEMMA AllowedPatch ==
  ASSUME NEW old \in Row, NEW r \in Row, Fits(old), Patched(old, r)
  PROVE  Allowed(old, r) /\ Open(r) = Open(old)
  BY DEF Allowed, Patched, Fits, Resting, Open

LEMMA AllowedClose ==
  ASSUME Types, NEW old \in Row, NEW r \in Row, Fits(old), old.order_id \in Order,
         exchange[old.order_id].state \in {"matched", "cancelled"},
         Closing(old, r, exchange[old.order_id].filled)
  PROVE  Allowed(old, r)
<1> DEFINE n == exchange[old.order_id].filled
<1>0. n \in 0 .. Shares /\ (n = 0 \/ n > 0) /\ old.order_id # NoId
  BY Constants DEF Types, ExchangeType
<1>1. CASE ~Resting(old)
  BY <1>1, AllowedPatch DEF Closing
<1>2. CASE Resting(old) /\ n > 0
  BY <1>0, <1>2 DEF Closing, Allowed, Fits, Resting, Open
<1>3. CASE Resting(old) /\ n = 0
  BY <1>0, <1>3 DEF Closing, Allowed, Fits, Resting, Open, AtRisk
<1> QED BY <1>0, <1>1, <1>2, <1>3

LEMMA AllowedFail ==
  ASSUME Types, Fills, NEW old \in Row, NEW r \in Row, Fits(old), old.order_id \in Order,
         exchange[old.order_id].state \in {"signed", "refused"}, Failed(old, r)
  PROVE  Allowed(old, r)
<1>1. exchange[old.order_id].filled = 0 /\ old.order_id # NoId
  BY Constants DEF Fills, Types, ExchangeType
<1>2. ~AtRisk(old.order_id)
  BY <1>1 DEF AtRisk
<1>3. old.type # "filled_limit"
  BY <1>1 DEF Fits
<1> QED BY <1>1, <1>2, <1>3 DEF Allowed, Fits, Failed, Open

-----------------------------------------------------------------------------
(* The facts after a step, by what it changed. *)

\* The body of OwnershipPermanent.
Kept ==
  \A id \in RowIds :
    LET old == RowAt(id)
        new == ledger'[id[1]][id[2]]
    IN  /\ old.order_id # NoId => new.order_id = old.order_id
        /\ old.type = "filled_limit" => new.type = old.type /\ new.filled = old.filled
        /\ ~Open(old) => ~Open(new)

\* The rows stay, on their markets, and close for good, unless one is journalled.
OnlyCloses ==
  (\A q \in Proc : proc'[q].step = "prepare" => proc[q].step = "prepare") =>
    \A t \in Trader :
      /\ DOMAIN ledger'[t] = DOMAIN ledger[t]
      /\ \A i \in DOMAIN ledger[t] :
           /\ ledger'[t][i].market = ledger[t][i].market
           /\ Open(ledger'[t][i]) => Open(ledger[t][i])

\* How an order may go on without its sender.
Later(old, new) ==
  /\ new.state = "unsigned" => old.state = "unsigned"
  /\ old.state = "signed" => new.state = "signed"
  /\ new.state \notin {"unsigned", "signed"} => old.state \notin {"unsigned", "signed"}
  /\ old.state \in {"matched", "cancelled"} => new.state = old.state /\ new.filled = old.filled
  /\ old.state \notin {"inflight", "live"} /\ old.filled = 0 =>
       new.state \notin {"inflight", "live"} /\ new.filled = 0

\* A process stays, or goes on to where it agrees with what it found.
Follows(q) ==
  \/ proc'[q] = proc[q]
  \/ /\ Sound(proc'[q])
     /\ proc'[q].step \in Owning => proc[q].step \in Owning /\ proc'[q].entry = proc[q].entry

LEMMA ExchangeFacts ==
  ASSUME OrderInv, Types', Fills', UNCHANGED ledger,
         \A o \in Order : Later(exchange[o], exchange'[o]), \A q \in Proc : Follows(q)
  PROVE  Facts'
<1> USE DEF OrderInv, Facts, Types, LedgerType
<1>1. RowsFit'
  <2> SUFFICES ASSUME NEW t \in Trader, NEW i \in DOMAIN ledger[t]
               PROVE  Fits(ledger[t][i])'
    BY DEF RowsFit
  <2>1. Fits(ledger[t][i]) /\ ledger[t][i] \in Row
    BY DEF RowsFit
  <2>2. ledger'[t][i] = ledger[t][i]
    OBVIOUS
  <2> DEFINE o == ledger[t][i].order_id
  <2>3. CASE o = NoId
    BY <2>1, <2>2, <2>3, Constants DEF Fits, Resting, Open, AtRisk
  <2>4. CASE o \in Order
    <3>1. Later(exchange[o], exchange'[o])
      BY <2>4
    <3>2. exchange[o] \in [state : OrderStates, filled : 0 .. Shares, final : BOOLEAN]
          /\ exchange'[o] \in [state : OrderStates, filled : 0 .. Shares, final : BOOLEAN]
      BY <2>4 DEF ExchangeType
    <3>3. o # NoId
      BY <2>4, Constants
    <3> QED BY <2>1, <2>2, <3>1, <3>2, <3>3, Constants DEF Fits, Resting, Open, AtRisk, Later
  <2> QED BY <2>1, <2>3, <2>4 DEF Row
<1>2. OneRowEach'
  BY DEF OneRowEach
<1>3. OnWire'
  BY DEF OnWire, Later
<1>4. Sounds'
  <2> SUFFICES ASSUME NEW l \in Local, Sound(l) PROVE Sound(l)'
    <3>1. \A q \in Proc : Sound(proc'[q]) /\ proc'[q] \in Local
      BY DEF Follows, Sounds, ProcType
    <3> QED BY <3>1 DEF Sounds
  <2>2. \A e \in Entry : Attempt(l.step, e) => Attempt(l.step, e)'
    <3> SUFFICES ASSUME NEW e \in Entry, Attempt(l.step, e) PROVE Attempt(l.step, e)'
      OBVIOUS
    <3>0. RowOf(e)' = RowOf(e)
      BY DEF RowOf
    <3>1. l.step \in {"guard", "post"} => e.order_id \in Order
      BY DEF Attempt, Entry
    <3> QED BY <3>0, <3>1 DEF Attempt, Later, Open
  <2>3. \A e \in Entry : HasRow(e) => HasRow(e)'
    BY DEF HasRow, RowOf
  <2> QED BY <2>2, <2>3 DEF Sound, Local
<1>5. OwnersApart'
  BY DEF OwnersApart, Follows
<1> QED BY <1>1, <1>2, <1>3, <1>4, <1>5

LEMMA SameExchange ==
  ASSUME OrderInv, UNCHANGED exchange
  PROVE  Fills' /\ \A o \in Order : Later(exchange[o], exchange'[o])
<1>1. Fills'
  BY DEF OrderInv, Facts, Fills
<1> QED BY <1>1 DEF Later

LEMMA SameLedgerKept ==
  ASSUME UNCHANGED ledger
  PROVE  Kept /\ OnlyCloses
  BY DEF Kept, RowAt, OnlyCloses

\* A row is replaced by one allowed, and closed only by whom it may be.
Amended(p, t, i, r) ==
  /\ i \in DOMAIN ledger[t] /\ r \in Row
  /\ Amend(t, i, r)
  /\ Allowed(ledger[t][i], r)
  /\ Open(ledger[t][i]) /\ ~Open(r) =>
       \/ exchange[r.order_id].state # "signed"
       \/ proc[p].step \in Owning /\ \E e \in proc[p].entry : e.of = t /\ e.at = i

LEMMA AmendFacts ==
  ASSUME OrderInv, Types', UNCHANGED exchange, NEW p \in Proc, NEW t \in Trader,
         NEW i \in DOMAIN ledger[t], NEW r \in Row, Amended(p, t, i, r), NEW l \in Local,
         Goto(p, l), Sound(l), l.step \notin Owning
  PROVE  Facts' /\ Kept /\ OnlyCloses
<1> USE DEF OrderInv, Facts, Types
<1>0. /\ \A u \in Trader : DOMAIN ledger'[u] = DOMAIN ledger[u]
      /\ \A u \in Trader : \A j \in DOMAIN ledger[u] :
           ledger'[u][j] = IF u = t /\ j = i THEN r ELSE ledger[u][j]
  BY AmendLedger DEF Amended
<1>a. ASSUME NEW u \in Trader, NEW j \in DOMAIN ledger[u]
      PROVE  ledger[u][j] \in Row /\ ledger'[u][j].order_id = ledger[u][j].order_id
  <2>1. ledger[u] \in Seq(Row)
    BY DEF LedgerType
  <2>2. ledger[u][j] \in Row
    BY <2>1
  <2>3. r.order_id = ledger[t][i].order_id
    BY DEF Amended, Allowed
  <2> QED BY <1>0, <2>2, <2>3
<1>p. /\ proc'[p] = l
      /\ \A q \in Proc \ {p} : proc'[q] = proc[q]
  BY DEF Goto, ProcType
<1>f. Fills'
  BY DEF Fills
<1>1. RowsFit'
  <2>1. \A row \in Row : Fits(row) => Fits(row)'
    BY DEF Fits, AtRisk
  <2>2. ASSUME NEW u \in Trader, NEW j \in DOMAIN ledger[u]
        PROVE  Fits(ledger'[u][j]) /\ ledger'[u][j] \in Row
    BY <1>0, <1>a DEF RowsFit, Amended, Allowed
  <2>3. ASSUME NEW u \in Trader, NEW j \in DOMAIN ledger'[u]
        PROVE  Fits(ledger[u][j])'
    <3> PICK row \in Row : row = ledger'[u][j] /\ Fits(row)
      BY <1>0, <2>2
    <3> QED BY <2>1
  <2> QED BY <2>3 DEF RowsFit
<1>2. OneRowEach'
  BY <1>0, <1>a DEF OneRowEach
<1>3. OnWire'
  BY <1>0, <1>a DEF OnWire
<1>4. Sounds'
  <2>h. \A e \in Entry : HasRow(e) => HasRow(e)'
    BY <1>0, <1>a DEF HasRow, RowOf, Entry
  <2>1. Sound(l)'
    <3>1. \A e \in Entry : Attempt("reply", e) => Attempt("reply", e)'
      BY DEF Attempt
    <3>2. l.step \in Owning \cup {"reply"} => l.step = "reply"
      OBVIOUS
    <3> QED BY <2>h, <3>1, <3>2 DEF Sound, Local
  <2>2. ASSUME NEW q \in Proc \ {p} PROVE Sound(proc[q])'
    <3>1. Sound(proc[q]) /\ proc[q] \in Local
      BY DEF Sounds, ProcType
    <3> DEFINE step == proc[q].step
    <3>3. proc'[q] = proc[q]
      BY <1>p
    <3>2. ASSUME NEW e \in Entry, proc[q].entry = {e}, Attempt(step, e),
                 step \in Owning \cup {"reply"}
          PROVE  Attempt(step, e)'
      <4>h. HasRow(e) /\ e.of \in Trader /\ e.at \in DOMAIN ledger[e.of]
        BY <3>1, <3>2 DEF Sound, HasRow, Entry
      <4>1. CASE proc[q].step \in {"guard", "post"} /\ e.of = t /\ e.at = i
        <5>1. Open(ledger[t][i]) /\ exchange[e.order_id].state = "signed"
              /\ e.order_id = ledger[t][i].order_id
          BY <3>2, <4>1, <4>h DEF Attempt, RowOf, HasRow
        <5>2. r.order_id = e.order_id
          BY <5>1 DEF Amended, Allowed
        <5>3. ~(proc[p].step \in Owning /\ \E f \in proc[p].entry : f.of = t /\ f.at = i)
          BY <3>2, <4>1 DEF OwnersApart, Owning
        <5>4. Open(r)
          BY <5>1, <5>2, <5>3 DEF Amended
        <5>5. RowOf(e)' = r
          BY <1>0, <4>1 DEF RowOf
        <5> QED BY <5>1, <5>4, <5>5, <4>1, <3>2, <3>3 DEF Attempt
      <4>2. CASE ~(e.of = t /\ e.at = i)
        <5>1. RowOf(e)' = RowOf(e)
          BY <1>0, <4>h, <4>2 DEF RowOf
        <5> QED BY <3>2, <3>3, <5>1 DEF Attempt, Open
      <4>3. CASE proc[q].step \in {"prepare", "reply"}
        <5>1. RowOf(e)'.order_id = RowOf(e).order_id
          BY <1>a, <4>h DEF RowOf
        <5> QED BY <3>2, <3>3, <4>3, <5>1 DEF Attempt
      <4> QED BY <4>1, <4>2, <4>3, <3>2 DEF Owning
    <3> QED BY <2>h, <3>1, <3>2, <3>3 DEF Sound, Local
  <2> QED BY <1>p, <2>1, <2>2 DEF Sounds
<1>5. OwnersApart'
  BY <1>p DEF OwnersApart
<1>6. Kept
  <2> SUFFICES ASSUME NEW id \in RowIds
               PROVE  LET old == RowAt(id)
                          new == ledger'[id[1]][id[2]]
                      IN  /\ old.order_id # NoId => new.order_id = old.order_id
                          /\ old.type = "filled_limit" =>
                               new.type = old.type /\ new.filled = old.filled
                          /\ ~Open(old) => ~Open(new)
    BY DEF Kept
  <2>1. id[1] \in Trader /\ id[2] \in DOMAIN ledger[id[1]]
    BY DEF RowIds
  <2> QED BY <1>0, <2>1 DEF RowAt, Amended, Allowed
<1>7. OnlyCloses
  BY <1>0 DEF OnlyCloses, Amended, Allowed
<1> QED BY <1>f, <1>1, <1>2, <1>3, <1>4, <1>5, <1>6, <1>7

\* The row an attempt journals is new to everyone.
LEMMA JournalFacts ==
  ASSUME OrderInv, Types', UNCHANGED exchange, NEW p \in Proc, proc[p].step = "journal",
         NEW t \in Trader, NEW m \in Market, Len(ledger[t]) < MaxRows,
         ledger' = [ledger EXCEPT ![t] = AddBet(@, m)],
         NEW l \in Local, Goto(p, l), l.step = "prepare", l.todo = proc[p].todo,
         l.entry = {[of |-> t, at |-> Len(ledger[t]) + 1, placement |-> "pending_submit",
                     order_id |-> NoId]},
         l.job = "recheck" => \E x \in Market : l.market = {x}
  PROVE  Facts' /\ Kept /\ OnlyCloses
<1> USE DEF OrderInv, Facts, Types
<1> DEFINE n == Len(ledger[t]) + 1
           mine == [of |-> t, at |-> n, placement |-> "pending_submit", order_id |-> NoId]
           new == [market |-> m, order_id |-> NoId, status |-> "open", type |-> "limit",
                   placement |-> "pending_submit", filled |-> 0]
<1>0. /\ \A u \in Trader \ {t} : ledger'[u] = ledger[u]
      /\ n \in 1 .. MaxRows /\ n \notin DOMAIN ledger[t]
      /\ DOMAIN ledger'[t] = DOMAIN ledger[t] \cup {n}
      /\ \A j \in DOMAIN ledger[t] : ledger'[t][j] = ledger[t][j]
      /\ ledger'[t][n] = new
  BY AddedRow
<1> HIDE DEF n, new
<1>n. new.order_id = NoId /\ new \in Row /\ Resting(new)
  BY Constants DEF new, Row, Placements, Resting, Open
<1>a. \A u \in Trader : \A j \in DOMAIN ledger[u] :
        j \in DOMAIN ledger'[u] /\ ledger'[u][j] = ledger[u][j]
  BY <1>0
<1>b. \A u \in Trader : \A j \in DOMAIN ledger'[u] :
        \/ j \in DOMAIN ledger[u] /\ ledger'[u][j] = ledger[u][j]
        \/ u = t /\ j = n
  BY <1>0
<1>p. /\ proc'[p] = l
      /\ \A q \in Proc \ {p} : proc'[q] = proc[q]
  BY DEF Goto, ProcType
<1>f. Fills'
  BY DEF Fills
<1>1. RowsFit'
  <2>1. \A row \in Row : Fits(row) => Fits(row)'
    BY DEF Fits, AtRisk
  <2>2. ASSUME NEW u \in Trader, NEW j \in DOMAIN ledger'[u]
        PROVE  Fits(ledger'[u][j]) /\ ledger'[u][j] \in Row
    <3>1. CASE u = t /\ j = n
      <4>1. Fits(new)
        BY <1>n DEF Fits, Resting, Open, new, AtRisk
      <4> QED BY <3>1, <4>1, <1>0, <1>n
    <3>2. CASE j \in DOMAIN ledger[u] /\ ledger'[u][j] = ledger[u][j]
      BY <3>2 DEF RowsFit, LedgerType
    <3> QED BY <3>1, <3>2, <1>b
  <2>3. ASSUME NEW u \in Trader, NEW j \in DOMAIN ledger'[u]
        PROVE  Fits(ledger[u][j])'
    <3> PICK row \in Row : row = ledger'[u][j] /\ Fits(row)
      BY <2>2
    <3> QED BY <2>1
  <2> QED BY <2>3 DEF RowsFit
<1>2. OneRowEach'
  <2> SUFFICES ASSUME NEW u \in Trader, NEW v \in Trader,
                      NEW i \in DOMAIN ledger'[u], NEW j \in DOMAIN ledger'[v],
                      ledger'[u][i].order_id # NoId,
                      ledger'[u][i].order_id = ledger'[v][j].order_id
               PROVE  u = v /\ i = j
    BY DEF OneRowEach
  <2>1. i \in DOMAIN ledger[u] /\ ledger'[u][i] = ledger[u][i]
    BY <1>b, <1>0, <1>n
  <2>2. j \in DOMAIN ledger[v] /\ ledger'[v][j] = ledger[v][j]
    BY <1>b, <1>0, <1>n
  <2> QED BY <2>1, <2>2 DEF OneRowEach
<1>3. OnWire'
  BY <1>a DEF OnWire
<1>4. Sounds'
  <2>h. \A e \in Entry : HasRow(e) => HasRow(e)' /\ RowOf(e)' = RowOf(e)
    BY <1>a DEF HasRow, RowOf, Entry
  <2>1. Sound(l)'
    <3>1. \A e \in l.todo : HasRow(e)'
      BY <2>h DEF Sounds, Sound, Local, ProcType
    <3>2. PICK e \in Entry : e.of = t /\ e.at = n /\ e.order_id = NoId /\ l.entry = {e}
      BY <1>0, Constants DEF Entry, Placements, n
    <3>3. HasRow(e)' /\ RowOf(e)' = new
      BY <3>2, <1>0, <1>n DEF HasRow, RowOf
    <3>4. Attempt("prepare", e)'
      BY <3>2, <3>3, <1>n DEF Attempt
    <3> QED BY <3>1, <3>2, <3>3, <3>4 DEF Sound, Owning
  <2>2. ASSUME NEW q \in Proc \ {p} PROVE Sound(proc[q])'
    <3> DEFINE k == proc[q]
    <3>1. Sound(k) /\ k \in Local /\ proc'[q] = k
      BY <1>p DEF Sounds, ProcType
    <3>2. ASSUME NEW e \in Entry, k.entry = {e}, Attempt(k.step, e)
          PROVE  Attempt(k.step, e)'
      <4>1. HasRow(e)
        BY <3>1, <3>2 DEF Sound
      <4> QED BY <4>1, <2>h, <3>1, <3>2 DEF Attempt, Open
    <3> QED BY <2>h, <3>1, <3>2 DEF Sound, Local
  <2> QED BY <1>p, <2>1, <2>2 DEF Sounds
<1>5. OwnersApart'
  <2> SUFFICES ASSUME NEW q \in Proc \ {p}, NEW f \in proc[q].entry
               PROVE  mine.of # f.of \/ mine.at # f.at
    <3>1. proc'[p].entry = {mine}
      BY <1>p DEF n
    <3> QED BY <3>1, <1>p DEF OwnersApart
  <2>1. HasRow(f)
    BY DEF Sounds, Sound
  <2> QED BY <2>1, <1>0 DEF HasRow
<1>6. Kept
  BY <1>a DEF Kept, RowAt, RowIds
<1>7. OnlyCloses
  BY <1>p DEF OnlyCloses
<1> QED BY <1>f, <1>1, <1>2, <1>3, <1>4, <1>5, <1>6, <1>7

\* An order is signed, and its id saved in the attempt's row.
LEMMA PrepareFacts ==
  ASSUME OrderInv, Types', NEW p \in Proc, proc[p].step = "prepare",
         NEW e \in Entry, proc[p].entry = {e},
         NEW o \in Order, exchange[o].state = "unsigned",
         exchange' = [exchange EXCEPT ![o].state = "signed"],
         ledger' = [ledger EXCEPT ![e.of] = SetOrderId(@, e.at, o)],
         NEW l \in Local, Goto(p, l), l.step = "guard", l.job = proc[p].job,
         l.market = proc[p].market, l.todo = proc[p].todo,
         l.entry = {[e EXCEPT !.order_id = o]}
  PROVE  Facts' /\ Kept /\ OnlyCloses
<1> USE DEF OrderInv, Facts, Types
<1> DEFINE t == e.of
           i == e.at
           mine == [e EXCEPT !.order_id = o]
<1>s. Sound(proc[p]) /\ HasRow(e) /\ Attempt("prepare", e)
  BY DEF Sounds, Sound, Owning
<1>i. t \in Trader /\ i \in DOMAIN ledger[t] /\ ledger[t] \in Seq(Row) /\ ledger[t][i] \in Row
  BY <1>s DEF HasRow, Entry, LedgerType
<1>o. ledger[t][i].order_id = NoId /\ Resting(ledger[t][i]) /\ Fits(ledger[t][i])
  BY <1>s, <1>i DEF Attempt, RowOf, RowsFit, Fits
<1>r. PICK r \in Row : /\ SetOrderId(ledger[t], i, o) = [ledger[t] EXCEPT ![i] = r]
                       /\ r.order_id = o /\ r.market = ledger[t][i].market
                       /\ r.status = "open" /\ r.type = "limit"
  <2>1. Open(ledger[t][i]) /\ ledger[t][i].status = "open" /\ ledger[t][i].type = "limit"
    BY <1>o DEF Resting, Open
  <2> HIDE DEF t, i
  <2>2. \E r \in Row : SetOrderId(ledger[t], i, o) = [ledger[t] EXCEPT ![i] = r]
                      /\ Numbered(ledger[t][i], r, o)
    BY <1>i, <2>1, OrderRow
  <2> QED BY <2>1, <2>2 DEF Numbered
<1>0. /\ \A u \in Trader : DOMAIN ledger'[u] = DOMAIN ledger[u]
      /\ \A u \in Trader : \A j \in DOMAIN ledger[u] :
           ledger'[u][j] = IF u = t /\ j = i THEN r ELSE ledger[u][j]
  <2>1. Amend(t, i, r)
    BY <1>r DEF Amend
  <2> QED BY <2>1, <1>i, AmendLedger
<1>x. /\ exchange'[o].state = "signed" /\ exchange'[o].filled = exchange[o].filled
      /\ \A x \in Order \ {o} : exchange'[x] = exchange[x]
  BY DEF ExchangeType
<1>p. /\ proc'[p] = l
      /\ \A q \in Proc \ {p} : proc'[q] = proc[q]
  BY DEF Goto, ProcType
<1>d. \A u \in Trader : \A j \in DOMAIN ledger[u] : ledger[u][j].order_id # o
  BY Constants DEF RowsFit, Fits
<1>f. Fills'
  BY <1>x DEF Fills
<1> HIDE DEF t, i
<1>1. RowsFit'
  <2> SUFFICES ASSUME NEW u \in Trader, NEW j \in DOMAIN ledger[u], NEW row \in Row,
                      row = ledger'[u][j]
               PROVE  Fits(row)'
    <3>1. \A u \in Trader : \A j \in DOMAIN ledger'[u] : ledger'[u][j] \in Row
      BY DEF LedgerType
    <3> QED BY <1>0, <3>1 DEF RowsFit
  <2>1. CASE u = t /\ j = i
    BY <2>1, <1>0, <1>r, <1>x, Constants DEF Fits, Resting, Open
  <2>2. CASE ~(u = t /\ j = i)
    <3>1. row = ledger[u][j] /\ Fits(row) /\ row.order_id # o
      BY <2>2, <1>0, <1>d DEF RowsFit
    <3>2. row.order_id = NoId \/ row.order_id \in Order \ {o}
      BY <3>1 DEF Row
    <3>3. row.order_id # NoId => exchange'[row.order_id] = exchange[row.order_id]
      BY <3>2, <1>x
    <3> QED BY <3>1, <3>3 DEF Fits, AtRisk
  <2> QED BY <2>1, <2>2
<1>2. OneRowEach'
  <2> SUFFICES ASSUME NEW u \in Trader, NEW v \in Trader,
                      NEW j \in DOMAIN ledger[u], NEW k \in DOMAIN ledger[v],
                      ledger'[u][j].order_id # NoId,
                      ledger'[u][j].order_id = ledger'[v][k].order_id
               PROVE  u = v /\ j = k
    BY <1>0 DEF OneRowEach
  <2> QED BY <1>0, <1>r, <1>d DEF OneRowEach
<1>3. OnWire'
  <2> SUFFICES ASSUME NEW x \in Order, exchange'[x].state \notin {"unsigned", "signed"}
               PROVE  \E u \in Trader : \E j \in DOMAIN ledger'[u] : ledger'[u][j].order_id = x
    BY DEF OnWire
  <2>1. x # o /\ exchange[x].state \notin {"unsigned", "signed"} /\ x # NoId
    BY <1>x, Constants
  <2>2. PICK u \in Trader : \E j \in DOMAIN ledger[u] : ledger[u][j].order_id = x
    BY <2>1 DEF OnWire
  <2> QED BY <1>0, <1>o, <2>1, <2>2
<1>4. Sounds'
  <2>h. \A f \in Entry : HasRow(f) => HasRow(f)'
    <3> SUFFICES ASSUME NEW f \in Entry, HasRow(f) PROVE HasRow(f)'
      OBVIOUS
    <3>1. CASE f.of = t /\ f.at = i
      <4>1. f.order_id = NoId
        BY <3>1, <1>o DEF HasRow, RowOf
      <4> QED BY <3>1, <4>1, <1>0, <1>i DEF HasRow
    <3>2. CASE ~(f.of = t /\ f.at = i)
      BY <3>2, <1>0 DEF HasRow, RowOf, Entry
    <3> QED BY <3>1, <3>2
  <2>1. Sound(l)'
    <3>1. \A f \in l.todo : HasRow(f)'
      BY <2>h, <1>s DEF Sound, Local
    <3>2. mine \in Entry /\ mine.of = t /\ mine.at = i /\ mine.order_id = o
      BY DEF Entry, t, i
    <3>3. RowOf(mine)' = r
      BY <3>2, <1>0, <1>i DEF RowOf
    <3>4. HasRow(mine)'
      BY <3>2, <3>3, <1>0, <1>i, <1>r DEF HasRow
    <3>5. Attempt("guard", mine)'
      BY <3>2, <3>3, <1>r, <1>x, Constants DEF Attempt, Open
    <3> HIDE DEF mine
    <3>6. l.entry = {mine}
      BY DEF mine
    <3> QED BY <3>1, <3>2, <3>4, <3>5, <3>6, <1>s DEF Sound
  <2>2. ASSUME NEW q \in Proc \ {p} PROVE Sound(proc[q])'
    <3> DEFINE k == proc[q]
    <3>1. Sound(k) /\ k \in Local /\ proc'[q] = k
      BY <1>p DEF Sounds, ProcType
    <3>2. ASSUME NEW f \in Entry, k.entry = {f}, Attempt(k.step, f),
                 k.step \in Owning \cup {"reply"}
          PROVE  Attempt(k.step, f)'
      <4>h. HasRow(f) /\ f.of \in Trader /\ f.at \in DOMAIN ledger[f.of]
        BY <3>1, <3>2 DEF Sound, HasRow, Entry
      <4>1. CASE k.step = "reply"
        BY <3>1, <3>2, <4>1 DEF Attempt
      <4>2. CASE k.step \in Owning
        <5>1. f.of # t \/ f.at # i
          BY <3>2, <4>2 DEF OwnersApart, Owning, t, i
        <5>2. RowOf(f)' = RowOf(f)
          BY <5>1, <4>h, <1>0 DEF RowOf
        <5>3. k.step \in {"guard", "post"} =>
                 f.order_id \in Order \ {o} /\ exchange'[f.order_id] = exchange[f.order_id]
          BY <3>2, <1>x DEF Attempt, Entry
        <5> QED BY <3>1, <3>2, <5>2, <5>3 DEF Attempt, Open
      <4> QED BY <3>2, <4>1, <4>2
    <3> QED BY <2>h, <3>1, <3>2 DEF Sound, Local
  <2> QED BY <1>p, <2>1, <2>2 DEF Sounds
<1>5. OwnersApart'
  <2>1. \A f \in l.entry : f.of = e.of /\ f.at = e.at
    BY DEF Entry
  <2>2. \A q \in Proc \ {p} : proc[q].step \in Owning =>
          \A f \in proc[q].entry : e.of # f.of \/ e.at # f.at
    BY DEF OwnersApart, Owning
  <2>3. ASSUME NEW a \in Proc, NEW b \in Proc, a # b, proc'[a].step \in Owning,
               proc'[b].step \in Owning, NEW f \in proc'[a].entry, NEW g \in proc'[b].entry
        PROVE  f.of # g.of \/ f.at # g.at
    <3>1. CASE a = p
      <4>1. f \in l.entry /\ b \in Proc \ {p} /\ g \in proc[b].entry /\ proc[b].step \in Owning
        BY <3>1, <2>3, <1>p
      <4>2. f.of = e.of /\ f.at = e.at
        BY <4>1, <2>1
      <4>3. e.of # g.of \/ e.at # g.at
        BY <4>1, <2>2
      <4> QED BY <4>2, <4>3
    <3>2. CASE b = p
      <4>1. g \in l.entry /\ a \in Proc \ {p} /\ f \in proc[a].entry /\ proc[a].step \in Owning
        BY <3>2, <2>3, <1>p
      <4>2. g.of = e.of /\ g.at = e.at
        BY <4>1, <2>1
      <4>3. e.of # f.of \/ e.at # f.at
        BY <4>1, <2>2
      <4> QED BY <4>2, <4>3
    <3>3. CASE a # p /\ b # p
      BY <3>3, <2>3, <1>p DEF OwnersApart
    <3> QED BY <3>1, <3>2, <3>3
  <2> QED BY <2>3 DEF OwnersApart
<1>6. Kept
  <2> SUFFICES ASSUME NEW id \in RowIds
               PROVE  LET old == RowAt(id)
                          new == ledger'[id[1]][id[2]]
                      IN  /\ old.order_id # NoId => new.order_id = old.order_id
                          /\ old.type = "filled_limit" =>
                               new.type = old.type /\ new.filled = old.filled
                          /\ ~Open(old) => ~Open(new)
    BY DEF Kept
  <2>1. id[1] \in Trader /\ id[2] \in DOMAIN ledger[id[1]]
    BY DEF RowIds
  <2>2. CASE id[1] = t /\ id[2] = i
    BY <2>1, <2>2, <1>o DEF RowAt, Resting
  <2>3. CASE ~(id[1] = t /\ id[2] = i)
    BY <2>1, <2>3, <1>0 DEF RowAt
  <2> QED BY <2>2, <2>3
<1>7. OnlyCloses
  BY <1>0, <1>o, <1>r DEF OnlyCloses, Resting, Open
<1> QED BY <1>f, <1>1, <1>2, <1>3, <1>4, <1>5, <1>6, <1>7

\* An order is posted by the one attempt that owns it.
LEMMA PostFacts ==
  ASSUME OrderInv, Types', UNCHANGED ledger, NEW p \in Proc, proc[p].step = "post",
         NEW e \in Entry, proc[p].entry = {e},
         exchange' = [exchange EXCEPT ![e.order_id].state = "inflight"],
         NEW l \in Local, Goto(p, l), l.step = "reply", l.job = proc[p].job,
         l.market = proc[p].market, l.todo = proc[p].todo, l.entry = proc[p].entry
  PROVE  Facts' /\ Kept /\ OnlyCloses
<1> USE DEF OrderInv, Facts, Types
<1> DEFINE o == e.order_id
<1>s. Sound(proc[p]) /\ HasRow(e) /\ Attempt("post", e)
  BY DEF Sounds, Sound, Owning
<1>i. /\ e.of \in Trader /\ e.at \in DOMAIN ledger[e.of]
      /\ o \in Order /\ o # NoId /\ ledger[e.of][e.at].order_id = o
      /\ exchange[o].state = "signed" /\ Open(ledger[e.of][e.at])
  BY <1>s DEF HasRow, RowOf, Attempt, Entry
<1>x. /\ exchange'[o].state = "inflight" /\ exchange'[o].filled = exchange[o].filled
      /\ \A x \in Order \ {o} : exchange'[x] = exchange[x]
  BY <1>i DEF ExchangeType
<1>p. /\ proc'[p] = l
      /\ \A q \in Proc \ {p} : proc'[q] = proc[q]
  BY DEF Goto, ProcType
<1>z. exchange[o].filled = 0
  BY <1>i, Constants DEF Fills, ExchangeType
<1>f. Fills'
  BY <1>x, <1>z, Constants DEF Fills
<1> HIDE DEF o
<1>1. RowsFit'
  <2> SUFFICES ASSUME NEW u \in Trader, NEW j \in DOMAIN ledger[u], NEW row \in Row,
                      row = ledger[u][j]
               PROVE  Fits(row)'
    <3>1. \A u \in Trader : \A j \in DOMAIN ledger[u] : ledger[u][j] \in Row
      BY DEF LedgerType
    <3> QED BY <3>1 DEF RowsFit
  <2>f. Fits(row)
    BY DEF RowsFit
  <2>1. CASE row.order_id = o
    <3>1. u = e.of /\ j = e.at
      BY <2>1, <1>i DEF OneRowEach
    <3>2. row.status = "open" /\ row.type # "filled_limit"
      BY <3>1, <2>1, <2>f, <1>i DEF Fits, Open
    <3> QED BY <2>1, <3>2, <1>x, <1>i DEF Fits
  <2>2. CASE row.order_id # o
    <3>2. row.order_id = NoId \/ row.order_id \in Order \ {o}
      BY <2>2 DEF Row
    <3>3. row.order_id # NoId => exchange'[row.order_id] = exchange[row.order_id]
      BY <3>2, <1>x
    <3> QED BY <2>f, <3>3 DEF Fits, AtRisk
  <2> QED BY <2>1, <2>2
<1>2. OneRowEach'
  BY DEF OneRowEach
<1>3. OnWire'
  BY <1>i, <1>x DEF OnWire
<1>4. Sounds'
  <2>h. \A f \in Entry : HasRow(f) => HasRow(f)'
    BY DEF HasRow, RowOf
  <2>1. Sound(l)'
    <3>1. Attempt("reply", e)'
      BY <1>s DEF Attempt
    <3> QED BY <2>h, <3>1, <1>s DEF Sound, Local
  <2>2. ASSUME NEW q \in Proc \ {p} PROVE Sound(proc[q])'
    <3> DEFINE k == proc[q]
    <3>1. Sound(k) /\ k \in Local /\ proc'[q] = k
      BY <1>p DEF Sounds, ProcType
    <3>2. ASSUME NEW f \in Entry, k.entry = {f}, Attempt(k.step, f),
                 k.step \in Owning \cup {"reply"}
          PROVE  Attempt(k.step, f)'
      <4>h. HasRow(f) /\ f.of \in Trader /\ f.at \in DOMAIN ledger[f.of]
        BY <3>1, <3>2 DEF Sound, HasRow, Entry
      <4>r. RowOf(f)' = RowOf(f)
        BY DEF RowOf
      <4>1. CASE k.step \in {"guard", "post"}
        <5>1. f.of # e.of \/ f.at # e.at
          BY <3>2, <4>1 DEF OwnersApart, Owning
        <5>2. f.order_id \in Order /\ f.order_id # NoId /\ RowOf(f).order_id = f.order_id
          BY <3>2, <4>1, <4>h DEF Attempt, Entry, HasRow
        <5>3. f.order_id # o
          BY <1>i, <4>h, <5>1, <5>2 DEF OneRowEach, RowOf
        <5> QED BY <3>1, <3>2, <4>r, <5>2, <5>3, <1>x DEF Attempt, Open
      <4>2. CASE k.step \notin {"guard", "post"}
        BY <3>1, <3>2, <4>2, <4>r DEF Attempt
      <4> QED BY <4>1, <4>2
    <3> QED BY <2>h, <3>1, <3>2 DEF Sound, Local
  <2> QED BY <1>p, <2>1, <2>2 DEF Sounds
<1>5. OwnersApart'
  BY <1>p DEF OwnersApart, Owning
<1> QED BY <1>f, <1>1, <1>2, <1>3, <1>4, <1>5, SameLedgerKept

-----------------------------------------------------------------------------
(* The same with the types, by where the process goes. *)

Holds == Types' /\ Facts' /\ Kept /\ OnlyCloses

LEMMA GotoType ==
  ASSUME OrderInv, NEW p \in Proc, NEW l \in Local, Goto(p, l)
  PROVE  ProcType' /\ proc'[p] = l /\ \A q \in Proc \ {p} : proc'[q] = proc[q]
  BY DEF OrderInv, Types, ProcType, Goto

LEMMA QuietStep ==
  ASSUME OrderInv, RestType', UNCHANGED <<ledger, exchange>>, NEW p \in Proc, NEW l \in Local,
         Goto(p, l), Sound(l),
         l.step \in Owning => proc[p].step \in Owning /\ l.entry = proc[p].entry
  PROVE  Holds
<1>1. Types'
  BY GotoType DEF OrderInv, Types, LedgerType, ExchangeType
<1>2. \A q \in Proc : Follows(q)
  BY GotoType DEF Follows
<1> QED BY <1>1, <1>2, ExchangeFacts, SameExchange, SameLedgerKept DEF Holds

LEMMA ExchangeStep ==
  ASSUME OrderInv, RestType', ExchangeType', Fills', UNCHANGED ledger,
         \A o \in Order : Later(exchange[o], exchange'[o]), NEW p \in Proc, NEW l \in Local,
         Goto(p, l), Sound(l), l.step \notin Owning
  PROVE  Holds
<1>1. Types'
  BY GotoType DEF OrderInv, Types, LedgerType
<1>2. \A q \in Proc : Follows(q)
  BY GotoType DEF Follows
<1> QED BY <1>1, <1>2, ExchangeFacts, SameLedgerKept DEF Holds

LEMMA AmendStep ==
  ASSUME OrderInv, RestType', UNCHANGED exchange, NEW p \in Proc, NEW t \in Trader,
         NEW i \in DOMAIN ledger[t], NEW r \in Row, Amended(p, t, i, r), NEW l \in Local,
         Goto(p, l), Sound(l), l.step \notin Owning
  PROVE  Holds
<1>1. LedgerType'
  BY AmendLedger DEF Amended, OrderInv, Types
<1>2. Types'
  BY <1>1, GotoType DEF OrderInv, Types, ExchangeType
<1> QED BY <1>2, AmendFacts DEF Holds

LEMMA AtSound ==
  ASSUME NEW step \in {"absent", "idle", "refresh", "place"}, NEW turn \in DOMAIN Traders
  PROVE  At(step, turn) \in Local /\ Sound(At(step, turn)) /\ At(step, turn).step \notin Owning
<1>1. At(step, turn) \in Local
  BY DEF At, Local, Steps, Jobs
<1>2. Sound(At(step, turn))
  BY DEF At, Sound, Owning
<1> QED BY <1>1, <1>2 DEF At, Owning

LEMMA AtStep ==
  ASSUME OrderInv, RestType', UNCHANGED <<ledger, exchange>>, NEW p \in Proc,
         NEW step \in {"absent", "idle", "refresh", "place"}, NEW turn \in DOMAIN Traders,
         Goto(p, At(step, turn))
  PROVE  Holds
<1> DEFINE l == At(step, turn)
<1>1. l \in Local /\ Sound(l) /\ l.step \notin Owning
  BY AtSound
<1> HIDE DEF l
<1>2. Goto(p, l)
  BY DEF l
<1> QED BY <1>1, <1>2, QuietStep

LEMMA LeaveRest ==
  ASSUME RestType, NEW p \in Proc, UNCHANGED <<files, paused, crashes, pauses>>, Leave(p)
  PROVE  RestType' /\ Goto(p, At("idle", 1))
  BY DEF RestType, Leave, Idle

LEMMA LeaveStep ==
  ASSUME OrderInv, NEW p \in Proc, UNCHANGED <<ledger, files, exchange, paused, crashes, pauses>>,
         Leave(p)
  PROVE  Holds
<1>1. RestType' /\ Goto(p, At("idle", 1))
  BY LeaveRest DEF OrderInv, Types
<1> QED BY <1>1, Turns, AtStep

LEMMA SweepLocal ==
  ASSUME OrderInv, NEW p \in Proc, NEW job \in Jobs, NEW entries \in SUBSET Entry,
         \A e \in entries : HasRow(e),
         job = "recheck" => \E m \in Market : proc[p].market = {m}
  PROVE  Sweep(p, job, entries) \in Local /\ Sound(Sweep(p, job, entries))
<1>1. proc[p] \in Local /\ Sound(proc[p])
  BY DEF OrderInv, Types, ProcType, Facts, Sounds
<1>2. Sweep(p, job, entries) \in Local
  BY <1>1 DEF Sweep, Local, Steps
<1>3. Sound(Sweep(p, job, entries))
  BY <1>1 DEF Sweep, Local, Sound, Owning
<1> QED BY <1>2, <1>3

LEMMA SweepStep ==
  ASSUME OrderInv, RestType', UNCHANGED <<ledger, exchange>>, NEW p \in Proc,
         NEW job \in Jobs, NEW entries \in SUBSET Entry, \A e \in entries : HasRow(e),
         job = "recheck" => \E m \in Market : proc[p].market = {m},
         Goto(p, Sweep(p, job, entries))
  PROVE  Holds
<1> DEFINE l == Sweep(p, job, entries)
<1>1. l \in Local /\ Sound(l) /\ l.step \notin Owning
  <2>1. proc[p] \in Local
    BY DEF OrderInv, Types, ProcType
  <2>2. l.step = "list"
    BY <2>1 DEF Sweep, Local
  <2> QED BY <2>2, SweepLocal DEF Owning
<1>2. PICK k \in Local : k = l
  BY <1>1
<1> HIDE DEF l
<1>3. Goto(p, k)
  BY <1>2 DEF l
<1> QED BY <1>1, <1>2, <1>3, QuietStep

\* A process that goes on with less to do.
LEMMA FewerSound ==
  ASSUME OrderInv, NEW p \in Proc, NEW l \in Local, l.step \in {"list", "sweep"},
         l.todo \subseteq proc[p].todo, l.entry \subseteq proc[p].entry,
         l.job = proc[p].job, l.market = proc[p].market
  PROVE  Sound(l) /\ l.step \notin Owning
  BY DEF OrderInv, Facts, Sounds, Sound, Owning

(* Entries, just read. *)
LEMMA EntryForOK ==
  ASSUME Types, NEW t \in Trader, NEW i \in DOMAIN ledger[t]
  PROVE  EntryFor(t, i) \in Entry /\ HasRow(EntryFor(t, i))
<1>1. ledger[t] \in Seq(Row) /\ Len(ledger[t]) <= MaxRows
  BY DEF Types, LedgerType
<1>2. i \in 1 .. MaxRows /\ ledger[t][i] \in Row
  BY <1>1, Constants
<1> QED BY <1>2 DEF EntryFor, Entry, Row, HasRow, RowOf

LEMMA ResolveEntriesOK ==
  ASSUME Types
  PROVE  UnresolvedEntries \in SUBSET Entry /\ \A e \in UnresolvedEntries : HasRow(e)
<1> SUFFICES ASSUME NEW e \in UnresolvedEntries PROVE e \in Entry /\ HasRow(e)
  OBVIOUS
<1>1. PICK t \in Trader : \E i \in DOMAIN ledger[t] : e = EntryFor(t, i)
  BY DEF UnresolvedEntries, OpenRows
<1> QED BY <1>1, EntryForOK

LEMMA RestingEntriesOK ==
  ASSUME Types, NEW t \in Trader
  PROVE  RestingEntries(t) \in SUBSET Entry /\ \A e \in RestingEntries(t) : HasRow(e)
  BY EntryForOK DEF RestingEntries, OpenRows

LEMMA OpenEntriesOK ==
  ASSUME Types, NEW t \in Trader, NEW m
  PROVE  OpenEntries(t, m) \in SUBSET Entry /\ \A e \in OpenEntries(t, m) : HasRow(e)
<1>1. Coordinated(t) \subseteq Trader
  BY PrimaryAssumption DEF Coordinated, PrimaryAssumption
<1> SUFFICES ASSUME NEW e \in OpenEntries(t, m) PROVE e \in Entry /\ HasRow(e)
  OBVIOUS
<1>2. PICK u \in Trader : \E i \in DOMAIN ledger[u] : e = EntryFor(u, i)
  BY <1>1 DEF OpenEntries, OpenRows
<1> QED BY <1>2, EntryForOK

LEMMA TurnOK ==
  ASSUME OrderInv, NEW p \in Proc
  PROVE  /\ proc[p] \in Local /\ Sound(proc[p]) /\ RestType
         /\ proc[p].turn \in DOMAIN Traders /\ Turn(p) \in Trader
  BY Turns DEF OrderInv, Types, ProcType, Local, Facts, Sounds, Turn

LEMMA MineIs ==
  ASSUME NEW p \in Proc, NEW e, proc[p].entry = {e}
  PROVE  Mine(p) = e
  BY DEF Mine

LEMMA WantedIs ==
  ASSUME NEW p \in Proc, NEW m, proc[p].market = {m}
  PROVE  Wanted(p) = m
  BY DEF Wanted

LEMMA SameRest ==
  ASSUME RestType, UNCHANGED <<files, paused, consumer, crashes, pauses>>
  PROVE  RestType'
  BY DEF RestType

-----------------------------------------------------------------------------
(* The cycle. *)

LEMMA BeginLockedCycleHolds ==
  ASSUME OrderInv, NEW p \in Proc, BeginLockedCycle(p)
  PROVE  Holds
<1>1. RestType'
  BY TurnOK DEF BeginLockedCycle, RestType
<1>2. CASE UnresolvedEntries = {}
  BY <1>1, <1>2, Turns, AtStep DEF BeginLockedCycle
<1>3. CASE UnresolvedEntries # {}
  BY <1>1, <1>3, ResolveEntriesOK, SweepStep DEF BeginLockedCycle, OrderInv, Jobs
<1> QED BY <1>2, <1>3

LEMMA BeginUnlockedCycleHolds ==
  ASSUME OrderInv, NEW p \in Proc, BeginUnlockedCycle(p)
  PROVE  Holds
<1>1. RestType'
  BY TurnOK, SameRest DEF BeginUnlockedCycle
<1> QED BY <1>1, Turns, AtStep DEF BeginUnlockedCycle

LEMMA BeginRefreshHolds ==
  ASSUME OrderInv, NEW p \in Proc, BeginRefresh(p)
  PROVE  Holds
<1>1. RestType'
  BY TurnOK, SameRest DEF BeginRefresh
<1>2. CASE RestingEntries(Turn(p)) = {}
  BY <1>1, <1>2, TurnOK, AtStep DEF BeginRefresh
<1>3. CASE RestingEntries(Turn(p)) # {}
  <2>1. RestingEntries(Turn(p)) \in SUBSET Entry /\ \A e \in RestingEntries(Turn(p)) : HasRow(e)
    BY TurnOK, RestingEntriesOK DEF OrderInv
  <2> QED BY <1>1, <1>3, <2>1, SweepStep DEF BeginRefresh, Jobs
<1> QED BY <1>2, <1>3

LEMMA BeginCleanupHolds ==
  ASSUME OrderInv, NEW p \in Proc, BeginCleanup(p)
  PROVE  Holds
<1> DEFINE entries == UNION {RestingEntries(t) : t \in Trader}
<1>1. RestType'
  BY TurnOK, SameRest DEF BeginCleanup
<1>2. entries \in SUBSET Entry /\ \A e \in entries : HasRow(e)
  BY RestingEntriesOK DEF OrderInv
<1> HIDE DEF entries
<1>3. Goto(p, Sweep(p, "clean", entries))
  BY DEF entries, BeginCleanup
<1>4. UNCHANGED <<ledger, exchange>>
  BY DEF BeginCleanup
<1> QED BY <1>1, <1>2, <1>3, <1>4, SweepStep DEF Jobs

LEMMA ListOrdersHolds ==
  ASSUME OrderInv, NEW p \in Proc, ListOrders(p)
  PROVE  Holds
<1> DEFINE l == [proc[p] EXCEPT !.step = "sweep", !.seen = Listing]
<1>1. RestType'
  BY TurnOK, SameRest DEF ListOrders
<1>2. Listing \subseteq Order \X (0 .. Shares)
  BY DEF Listing, OrderInv, Types, ExchangeType
<1>3. l \in Local /\ l.step = "sweep" /\ l.todo = proc[p].todo /\ l.entry = proc[p].entry
      /\ l.job = proc[p].job /\ l.market = proc[p].market
  BY <1>2, TurnOK DEF Local, Steps
<1>4. PICK k \in Local : k = l
  BY <1>3
<1>5. Goto(p, k) /\ UNCHANGED <<ledger, exchange>>
  BY <1>4 DEF ListOrders
<1>6. Sound(k) /\ k.step \notin Owning
  BY <1>3, <1>4, FewerSound
<1> QED BY <1>1, <1>5, <1>6, QuietStep

LEMMA ListFailsHolds ==
  ASSUME OrderInv, NEW p \in Proc, ListFails(p)
  PROVE  Holds
<1>0. UNCHANGED <<ledger, files, exchange, paused, crashes, pauses>>
  BY DEF ListFails
<1>1. CASE proc[p].job \in {"maintain", "clean"}
  <2>1. Leave(p)
    BY <1>1 DEF ListFails
  <2> QED BY <1>0, <2>1, LeaveStep
<1>2. CASE proc[p].job \notin {"maintain", "clean"}
  <2>1. Goto(p, At("place", proc[p].turn)) /\ UNCHANGED consumer
    BY <1>2 DEF ListFails
  <2>2. RestType'
    BY <1>0, <2>1, TurnOK, SameRest
  <2> QED BY <1>0, <2>1, <2>2, TurnOK, AtStep
<1> QED BY <1>1, <1>2

-----------------------------------------------------------------------------
(* Sweeping rows. *)

\* The rows of an entry's ledger may become these, on evidence.
Evident(e, rows) ==
  \E r \in Row :
    /\ rows = [ledger[e.of] EXCEPT ![e.at] = r]
    /\ Allowed(RowOf(e), r)
    /\ Open(RowOf(e)) /\ ~Open(r) => exchange[r.order_id].state # "signed"

LEMMA RowRead ==
  ASSUME OrderInv, NEW e \in Entry, HasRow(e)
  PROVE  /\ e.of \in Trader /\ ledger[e.of] \in Seq(Row) /\ e.at \in DOMAIN ledger[e.of]
         /\ RowOf(e) = ledger[e.of][e.at] /\ RowOf(e) \in Row /\ Fits(RowOf(e))
         /\ e.order_id \in Order \cup {NoId}
         /\ e.order_id \in Order => RowOf(e).order_id = e.order_id
<1>1. e.of \in Trader /\ e.at \in DOMAIN ledger[e.of] /\ e.order_id \in Order \cup {NoId}
  BY DEF Entry, HasRow
<1>2. ledger[e.of] \in Seq(Row)
  BY <1>1 DEF OrderInv, Types, LedgerType
<1>3. ledger[e.of][e.at] \in Row
  BY <1>1, <1>2
<1> QED BY <1>1, <1>2, <1>3, Constants DEF RowOf, HasRow, OrderInv, Facts, RowsFit

LEMMA EvidentSame ==
  ASSUME OrderInv, NEW e \in Entry, HasRow(e)
  PROVE  Evident(e, ledger[e.of])
<1>1. Patched(RowOf(e), RowOf(e))
  BY DEF Patched
<1>2. Allowed(RowOf(e), RowOf(e))
  BY <1>1, RowRead, AllowedPatch
<1>3. ledger[e.of] = [ledger[e.of] EXCEPT ![e.at] = RowOf(e)]
  BY RowRead, SameRow
<1> QED BY <1>2, <1>3, RowRead DEF Evident

LEMMA EvidentPatch ==
  ASSUME OrderInv, NEW e \in Entry, HasRow(e), NEW s \in Placements
  PROVE  Evident(e, SetPlacement(ledger[e.of], e.at, s))
<1>1. PICK r \in Row : SetPlacement(ledger[e.of], e.at, s) = [ledger[e.of] EXCEPT ![e.at] = r]
                       /\ Patched(RowOf(e), r)
  BY RowRead, PatchRow
<1>2. Allowed(RowOf(e), r) /\ Open(r) = Open(RowOf(e))
  BY <1>1, RowRead, AllowedPatch
<1> QED BY <1>1, <1>2 DEF Evident

LEMMA EvidentClose ==
  ASSUME OrderInv, NEW e \in Entry, HasRow(e), NEW seen \in SUBSET (Order \X (0 .. Shares)),
         NEW answer \in Inspect(e.order_id, seen), answer.state = "closed"
  PROVE  Evident(e, ReconcileClosed(ledger[e.of], e.at, answer.filled))
<1>1. /\ e.order_id \in Order /\ exchange[e.order_id].state \in {"matched", "cancelled"}
      /\ answer.filled = exchange[e.order_id].filled /\ answer.filled \in 0 .. Shares
  BY RowRead, AnswerMeans DEF OrderInv
<1>2. PICK r \in Row :
         /\ ReconcileClosed(ledger[e.of], e.at, answer.filled) = [ledger[e.of] EXCEPT ![e.at] = r]
         /\ Closing(RowOf(e), r, answer.filled)
  BY <1>1, RowRead, CloseRow
<1>3. RowOf(e).order_id = e.order_id
  BY <1>1, RowRead
<1>4. Allowed(RowOf(e), r)
  BY <1>1, <1>2, <1>3, RowRead, AllowedClose DEF OrderInv
<1>5. exchange[r.order_id].state # "signed"
  BY <1>1, <1>3, <1>4 DEF Allowed
<1> QED BY <1>2, <1>4, <1>5 DEF Evident

LEMMA EvidentRecover ==
  ASSUME OrderInv, NEW e \in Entry, HasRow(e), NEW seen \in SUBSET (Order \X (0 .. Shares)),
         NEW answer \in Inspect(e.order_id, seen)
  PROVE  Evident(e, Recover(ledger[e.of], e, answer))
<1>0. e.order_id = NoId => answer.state = "unknown"
  BY RowRead, AnswerMeans, Constants DEF OrderInv
<1>1. CASE e.order_id = NoId /\ e.placement = "pending_submit"
  <2>1. Recover(ledger[e.of], e, answer) = SetPlacement(ledger[e.of], e.at, "unknown")
    BY <1>1 DEF Recover
  <2> QED BY <2>1, EvidentPatch DEF Placements
<1>2. CASE e.order_id = NoId /\ e.placement # "pending_submit"
  BY <1>0, <1>2, EvidentSame DEF Recover
<1>3. CASE e.order_id # NoId /\ answer.state = "resting"
  BY <1>3, EvidentPatch DEF Recover, Placements
<1>4. CASE e.order_id # NoId /\ answer.state = "closed"
  BY <1>4, EvidentClose DEF Recover
<1>5. CASE e.order_id # NoId /\ answer.state \notin {"resting", "closed"}
  BY <1>5, EvidentSame DEF Recover
<1> QED BY <1>1, <1>2, <1>3, <1>4, <1>5

\* A process changes the rows of an entry on evidence, and goes on.
LEMMA EvidentStep ==
  ASSUME OrderInv, RestType', UNCHANGED exchange, NEW p \in Proc, NEW e \in Entry, HasRow(e),
         NEW rows, Evident(e, rows), ledger' = [ledger EXCEPT ![e.of] = rows],
         NEW l \in Local, Goto(p, l), Sound(l), l.step \notin Owning
  PROVE  Holds
<1>1. PICK r \in Row :
         /\ rows = [ledger[e.of] EXCEPT ![e.at] = r]
         /\ Allowed(RowOf(e), r)
         /\ Open(RowOf(e)) /\ ~Open(r) => exchange[r.order_id].state # "signed"
  BY DEF Evident
<1>2. e.of \in Trader /\ e.at \in DOMAIN ledger[e.of] /\ RowOf(e) = ledger[e.of][e.at]
  BY RowRead
<1>3. Amended(p, e.of, e.at, r)
  BY <1>1, <1>2 DEF Amended, Amend
<1> QED BY <1>2, <1>3, AmendStep

LEMMA SameLedger ==
  ASSUME OrderInv, NEW e \in Entry, UNCHANGED ledger
  PROVE  ledger' = [ledger EXCEPT ![e.of] = ledger[e.of]]
  BY DEF OrderInv, Types, LedgerType

LEMMA Examined ==
  ASSUME OrderInv, NEW p \in Proc, NEW e \in proc[p].todo, NEW answer \in Answers(p, e)
  PROVE  /\ e \in Entry /\ HasRow(e) /\ proc[p].seen \in SUBSET (Order \X (0 .. Shares))
         /\ answer \in Inspect(e.order_id, proc[p].seen)
  BY TurnOK DEF Local, Sound, Answers

LEMMA DropLocal ==
  ASSUME OrderInv, NEW p \in Proc, NEW e, proc[p].step = "sweep", NEW b \in BOOLEAN
  PROVE  LET l == [Drop(p, e) EXCEPT !.stuck = b]
         IN  /\ l \in Local /\ Drop(p, e) \in Local
             /\ Sound(l) /\ l.step = "sweep" /\ Sound(Drop(p, e)) /\ Drop(p, e).step = "sweep"
<1> DEFINE l == [Drop(p, e) EXCEPT !.stuck = b]
<1>1. proc[p] \in Local
  BY TurnOK
<1>2. /\ Drop(p, e) \in Local /\ Drop(p, e).todo \subseteq proc[p].todo
      /\ Drop(p, e).step = "sweep" /\ Drop(p, e).entry = proc[p].entry
      /\ Drop(p, e).job = proc[p].job /\ Drop(p, e).market = proc[p].market
  BY <1>1 DEF Drop, Local
<1>3. /\ l \in Local /\ l.todo \subseteq proc[p].todo /\ l.step = "sweep"
      /\ l.entry = proc[p].entry /\ l.job = proc[p].job /\ l.market = proc[p].market
  BY <1>1, <1>2 DEF Local
<1>4. Sound(Drop(p, e))
  BY <1>2, FewerSound
<1> HIDE DEF l
<1>5. Sound(l)
  BY <1>3, FewerSound
<1> QED BY <1>2, <1>3, <1>4, <1>5 DEF l

\* The steps whose process sweeps on, stuck or not.
LEMMA SweepOnStep ==
  ASSUME OrderInv, NEW p \in Proc, NEW e \in proc[p].todo, proc[p].step = "sweep",
         NEW rows, Evident(e, rows), ledger' = [ledger EXCEPT ![e.of] = rows],
         NEW b, Goto(p, [Drop(p, e) EXCEPT !.stuck = @ \/ b]),
         UNCHANGED <<files, exchange, paused, consumer, crashes, pauses>>
  PROVE  Holds
<1> DEFINE c == Drop(p, e).stuck \/ b
<1>1. c \in BOOLEAN
  OBVIOUS
<1>2. RestType'
  BY TurnOK, SameRest
<1>3. e \in Entry /\ HasRow(e)
  BY TurnOK DEF Local, Sound
<1>4. PICK l \in Local : l = [Drop(p, e) EXCEPT !.stuck = c] /\ Sound(l) /\ l.step \notin Owning
  BY <1>1, DropLocal DEF Owning
<1>5. Goto(p, l)
  BY <1>4
<1> QED BY <1>2, <1>3, <1>4, <1>5, EvidentStep

LEMMA MaintainRowHolds ==
  ASSUME OrderInv, NEW p \in Proc, NEW e \in proc[p].todo, NEW answer \in Answers(p, e),
         MaintainRow(p, e, answer)
  PROVE  Holds
<1> DEFINE rows == IF Uncertain(e) THEN Recover(ledger[e.of], e, answer)
                   ELSE IF answer.state = "closed"
                     THEN ReconcileClosed(ledger[e.of], e.at, answer.filled)
                     ELSE ledger[e.of]
           stuck == IF Uncertain(e)
                      THEN Open(rows[e.at]) /\ rows[e.at].placement \in {"pending_submit", "unknown"}
                      ELSE \/ answer.state = "unknown"
                           \/ answer.state = "closed" /\ ~Resting(RowOf(e))
<1>1. Evident(e, rows)
  BY Examined, EvidentRecover, EvidentClose, EvidentSame
<1>2. /\ ledger' = [ledger EXCEPT ![e.of] = rows]
      /\ Goto(p, [Drop(p, e) EXCEPT !.stuck = @ \/ stuck])
      /\ proc[p].step = "sweep"
      /\ UNCHANGED <<files, exchange, paused, consumer, crashes, pauses>>
  BY Zenon DEF MaintainRow, Examining
<1> HIDE DEF rows, stuck
<1> QED BY <1>1, <1>2, SweepOnStep

LEMMA RecheckRowHolds ==
  ASSUME OrderInv, NEW p \in Proc, NEW e \in proc[p].todo, NEW answer \in Answers(p, e),
         RecheckRow(p, e, answer)
  PROVE  Holds
<1> DEFINE rows == IF Uncertain(e) THEN Recover(ledger[e.of], e, answer) ELSE ledger[e.of]
           stuck == ~Uncertain(e) \/ Open(rows[e.at])
<1>1. Evident(e, rows)
  BY Examined, EvidentRecover, EvidentSame
<1>2. /\ ledger' = [ledger EXCEPT ![e.of] = rows]
      /\ Goto(p, [Drop(p, e) EXCEPT !.stuck = @ \/ stuck])
      /\ proc[p].step = "sweep"
      /\ UNCHANGED <<files, exchange, paused, consumer, crashes, pauses>>
  BY DEF RecheckRow, Examining
<1> HIDE DEF rows, stuck
<1> QED BY <1>1, <1>2, SweepOnStep

LEMMA SweepRowHolds ==
  ASSUME OrderInv, NEW p \in Proc, NEW e \in proc[p].todo, NEW answer \in Answers(p, e),
         SweepRow(p, e, answer)
  PROVE  Holds
<1> DEFINE rows == IF answer.state = "closed"
                     THEN ReconcileClosed(ledger[e.of], e.at, answer.filled)
                     ELSE ledger[e.of]
<1>1. Evident(e, rows) /\ e \in Entry /\ HasRow(e)
  BY Examined, EvidentClose, EvidentSame
<1>2. ledger' = [ledger EXCEPT ![e.of] = rows]
  BY Examined, SameLedger DEF SweepRow
<1>3. /\ Goto(p, Drop(p, e)) /\ proc[p].step = "sweep"
      /\ UNCHANGED <<files, exchange, paused, consumer, crashes, pauses>>
  BY DEF SweepRow, Examining
<1>4. RestType'
  BY <1>3, TurnOK, SameRest
<1>5. Drop(p, e) \in Local /\ Sound(Drop(p, e)) /\ Drop(p, e).step \notin Owning
  BY <1>3, DropLocal DEF Owning
<1> HIDE DEF rows
<1> QED BY <1>1, <1>2, <1>3, <1>4, <1>5, EvidentStep

LEMMA DecideToCancelHolds ==
  ASSUME OrderInv, NEW p \in Proc, NEW e \in proc[p].todo, NEW answer \in Answers(p, e),
         DecideToCancel(p, e, answer)
  PROVE  Holds
<1> DEFINE l == [Drop(p, e) EXCEPT !.step = "cancel", !.entry = {e}]
<1>1. e \in Entry /\ HasRow(e) /\ e.order_id \in Order /\ e.order_id # NoId
  BY Examined, RowRead, AnswerMeans, Constants DEF DecideToCancel, OrderInv
<1>2. /\ proc[p].job \in {"refresh", "clean"} /\ Goto(p, l)
      /\ UNCHANGED <<ledger, exchange>>
      /\ UNCHANGED <<files, paused, consumer, crashes, pauses>>
  BY DEF DecideToCancel, Examining
<1>3. RestType'
  BY <1>2, TurnOK, SameRest
<1>4. /\ l \in Local /\ l.step = "cancel" /\ l.entry = {e} /\ l.todo \subseteq proc[p].todo
      /\ l.job = proc[p].job /\ l.market = proc[p].market
  BY <1>1, TurnOK DEF Drop, Local, Steps
<1>5. Sound(l) /\ l.step \notin Owning
  <2> HIDE DEF l
  <2> QED BY <1>1, <1>2, <1>4, TurnOK DEF Sound, Owning
<1> HIDE DEF l
<1> QED BY <1>2, <1>3, <1>4, <1>5, QuietStep

(* Cancelling. *)
LEMMA CancelOnExchangeOK ==
  ASSUME OrderInv, NEW o \in Order, CancelOnExchange(o)
  PROVE  ExchangeType' /\ Fills' /\ \A x \in Order : Later(exchange[x], exchange'[x])
<1> USE DEF OrderInv, Types, Facts
<1>1. CASE UNCHANGED exchange
  BY <1>1, SameExchange DEF ExchangeType
<1>2. CASE exchange[o].state = "live" /\ exchange' = [exchange EXCEPT ![o].state = "cancelled"]
  <2>1. ExchangeType'
    BY <1>2 DEF ExchangeType, OrderStates
  <2>2. /\ exchange'[o].state = "cancelled" /\ exchange'[o].filled = exchange[o].filled
        /\ \A x \in Order \ {o} : exchange'[x] = exchange[x]
    BY <1>2 DEF ExchangeType
  <2>3. Fills'
    BY <2>2 DEF Fills
  <2>4. \A x \in Order : Later(exchange[x], exchange'[x])
    BY <1>2, <2>2 DEF Later
  <2> QED BY <2>1, <2>3, <2>4
<1> QED BY <1>1, <1>2 DEF CancelOnExchange

\* The entry of a cancellation.
LEMMA Cancelling ==
  ASSUME OrderInv, NEW p \in Proc, proc[p].step \in {"cancel", "confirm"}
  PROVE  /\ Mine(p) \in Entry /\ HasRow(Mine(p)) /\ Mine(p).order_id \in Order
         /\ proc[p].entry = {Mine(p)} /\ Mine(p).order_id # NoId
         /\ proc[p].job \in {"refresh", "clean"}
<1>1. proc[p].job \in {"refresh", "clean"}
  BY TurnOK DEF Sound
<1>2. PICK e \in Entry : proc[p].entry = {e} /\ e.order_id # NoId
  BY TurnOK DEF Sound
<1>3. HasRow(e) /\ e.order_id \in Order
  BY <1>2, TurnOK DEF Sound, Entry
<1> QED BY <1>1, <1>2, <1>3, MineIs

LEMMA CancelOrderHolds ==
  ASSUME OrderInv, NEW p \in Proc, CancelOrder(p)
  PROVE  Holds
<1>0. proc[p].step = "cancel" /\ UNCHANGED <<ledger, files, paused, consumer, crashes, pauses>>
  BY DEF CancelOrder
<1>1. ExchangeType' /\ Fills' /\ \A x \in Order : Later(exchange[x], exchange'[x])
  BY <1>0, Cancelling, CancelOnExchangeOK DEF CancelOrder
<1>2. RestType'
  BY <1>0, TurnOK, SameRest
<1>3. \E l \in Local : Goto(p, l) /\ Sound(l) /\ l.step \notin Owning
  <2>1. CASE Goto(p, [proc[p] EXCEPT !.step = "confirm"])
    <3> DEFINE l == [proc[p] EXCEPT !.step = "confirm"]
    <3>1. l \in Local /\ l.step = "confirm" /\ l.entry = proc[p].entry /\ l.todo = proc[p].todo
          /\ l.job = proc[p].job /\ l.market = proc[p].market
      BY TurnOK DEF Local, Steps
    <3> HIDE DEF l
    <3>2. Sound(l) /\ l.step \notin Owning
      BY <3>1, <1>0, TurnOK DEF Sound, Owning
    <3>3. Goto(p, l)
      BY <2>1 DEF l
    <3> QED BY <3>1, <3>2, <3>3
  <2>2. CASE Goto(p, [proc[p] EXCEPT !.step = "sweep", !.entry = {}])
    <3> DEFINE l == [proc[p] EXCEPT !.step = "sweep", !.entry = {}]
    <3>1. l \in Local /\ l.step = "sweep" /\ l.entry = {} /\ l.todo = proc[p].todo
          /\ l.job = proc[p].job /\ l.market = proc[p].market
      BY TurnOK DEF Local, Steps
    <3> HIDE DEF l
    <3>2. Sound(l) /\ l.step \notin Owning
      BY <3>1, FewerSound
    <3>3. Goto(p, l)
      BY <2>2 DEF l
    <3> QED BY <3>1, <3>2, <3>3
  <2> QED BY <2>1, <2>2 DEF CancelOrder
<1> QED BY <1>0, <1>1, <1>2, <1>3, ExchangeStep

LEMMA CancelAgainHolds ==
  ASSUME OrderInv, NEW p \in Proc, CancelAgain(p)
  PROVE  Holds
<1> DEFINE l == [proc[p] EXCEPT !.retried = TRUE]
<1>0. /\ proc[p].step = "confirm" /\ UNCHANGED <<ledger, files, paused, consumer, crashes, pauses>>
      /\ Goto(p, l)
  BY DEF CancelAgain
<1>1. ExchangeType' /\ Fills' /\ \A x \in Order : Later(exchange[x], exchange'[x])
  BY <1>0, Cancelling, CancelOnExchangeOK DEF CancelAgain
<1>2. RestType'
  BY <1>0, TurnOK, SameRest
<1>3. /\ l \in Local /\ l.step = "confirm" /\ l.entry = proc[p].entry /\ l.todo = proc[p].todo
      /\ l.job = proc[p].job /\ l.market = proc[p].market
  BY <1>0, TurnOK DEF Local, Steps
<1> HIDE DEF l
<1>4. Sound(l) /\ l.step \notin Owning
  BY <1>0, <1>3, TurnOK DEF Sound, Owning
<1> QED BY <1>0, <1>1, <1>2, <1>3, <1>4, ExchangeStep

LEMMA ListingTyped ==
  ASSUME OrderInv
  PROVE  Listing \in SUBSET (Order \X (0 .. Shares))
  BY DEF Listing, OrderInv, Types, ExchangeType

LEMMA ConfirmCancelHolds ==
  ASSUME OrderInv, NEW p \in Proc, ConfirmCancel(p)
  PROVE  Holds
<1> DEFINE l == [proc[p] EXCEPT !.step = "sweep", !.entry = {}, !.retried = FALSE]
           e == Mine(p)
           rows(answer) == IF answer.state = "closed"
                             THEN ReconcileClosed(ledger[e.of], e.at, answer.filled)
                             ELSE ledger[e.of]
<1>0. /\ proc[p].step = "confirm" /\ Goto(p, l)
      /\ UNCHANGED <<files, exchange, paused, consumer, crashes, pauses>>
  BY DEF ConfirmCancel
<1>1. e \in Entry /\ HasRow(e)
  BY <1>0, Cancelling
<1>2. PICK answer \in Inspect(e.order_id, Listing) :
         ledger' = IF answer.state = "closed"
                     THEN [ledger EXCEPT ![e.of] = ReconcileClosed(@, e.at, answer.filled)]
                     ELSE ledger
  BY DEF ConfirmCancel
<1>3. Evident(e, rows(answer))
  BY <1>1, ListingTyped, EvidentClose, EvidentSame
<1>4. ledger' = [ledger EXCEPT ![e.of] = rows(answer)]
  BY <1>1, <1>2, SameLedger
<1>5. RestType'
  BY <1>0, TurnOK, SameRest
<1>6. /\ l \in Local /\ l.step = "sweep" /\ l.entry = {} /\ l.todo = proc[p].todo
      /\ l.job = proc[p].job /\ l.market = proc[p].market
  BY TurnOK DEF Local, Steps
<1> HIDE DEF l, e, rows
<1>7. Sound(l) /\ l.step \notin Owning
  BY <1>6, FewerSound
<1> QED BY <1>0, <1>1, <1>3, <1>4, <1>5, <1>6, <1>7, EvidentStep

(* The end of a sweep. *)
LEMMA EndMaintenanceHolds ==
  ASSUME OrderInv, NEW p \in Proc, EndMaintenance(p)
  PROVE  Holds
<1>0. UNCHANGED <<ledger, files, exchange, paused, crashes, pauses>>
  BY DEF EndMaintenance
<1>1. CASE proc[p].stuck
  BY <1>0, <1>1, LeaveStep DEF EndMaintenance
<1>2. CASE ~proc[p].stuck
  <2>1. Goto(p, At("refresh", 1)) /\ UNCHANGED consumer
    BY <1>2 DEF EndMaintenance
  <2>2. RestType'
    BY <1>0, <2>1, TurnOK, SameRest
  <2> QED BY <1>0, <2>1, <2>2, Turns, AtStep
<1> QED BY <1>1, <1>2

LEMMA EndRefreshHolds ==
  ASSUME OrderInv, NEW p \in Proc, EndRefresh(p)
  PROVE  Holds
<1>1. RestType'
  BY TurnOK, SameRest DEF EndRefresh
<1> QED BY <1>1, TurnOK, AtStep DEF EndRefresh

LEMMA EndCleanupHolds ==
  ASSUME OrderInv, NEW p \in Proc, EndCleanup(p)
  PROVE  Holds
  BY LeaveStep DEF EndCleanup

-----------------------------------------------------------------------------
(* A placement. *)

LEMMA AskForLockHolds ==
  ASSUME OrderInv, NEW p \in Proc, NEW m \in Market, AskForLock(p, m)
  PROVE  Holds
<1> DEFINE l == [proc[p] EXCEPT !.step = "wait", !.market = {m},
                                !.key = Coordinated(Turn(p)) \X {m}]
<1>0. /\ proc[p].step = "place" /\ Goto(p, l)
      /\ UNCHANGED <<ledger, exchange>> /\ UNCHANGED <<files, paused, consumer, crashes, pauses>>
  BY DEF AskForLock
<1>1. RestType'
  BY <1>0, TurnOK, SameRest
<1>2. Coordinated(Turn(p)) \subseteq Trader
  BY TurnOK, PrimaryAssumption DEF Coordinated, PrimaryAssumption
<1>3. /\ l \in Local /\ l.step = "wait" /\ l.entry = proc[p].entry /\ l.todo = proc[p].todo
      /\ l.market = {m}
  BY <1>2, TurnOK DEF Local, Steps
<1> HIDE DEF l
<1>4. Sound(l) /\ l.step \notin Owning
  BY <1>3, TurnOK DEF Sound, Owning
<1> QED BY <1>0, <1>1, <1>3, <1>4, QuietStep

\* The market of a placement.
LEMMA WantedOK ==
  ASSUME OrderInv, NEW p \in Proc, proc[p].step \in {"wait", "journal"}
  PROVE  Wanted(p) \in Market /\ proc[p].market = {Wanted(p)}
<1>1. PICK m \in Market : proc[p].market = {m}
  BY TurnOK DEF Sound
<1> QED BY <1>1, WantedIs

LEMMA TakeLockHolds ==
  ASSUME OrderInv, NEW p \in Proc, TakeLock(p)
  PROVE  Holds
<1> DEFINE rows == OpenEntries(Turn(p), Wanted(p))
<1>0. /\ proc[p].step = "wait" /\ UNCHANGED <<ledger, exchange>>
      /\ UNCHANGED <<files, paused, consumer, crashes, pauses>>
  BY DEF TakeLock
<1>1. RestType'
  BY <1>0, TurnOK, SameRest
<1>2. rows \in SUBSET Entry /\ \A e \in rows : HasRow(e)
  BY TurnOK, OpenEntriesOK DEF OrderInv
<1>g. Goto(p, CASE rows = {} -> [proc[p] EXCEPT !.step = "journal"]
                [] rows # {} /\ (\E e \in rows : Uncertain(e)) -> Sweep(p, "recheck", rows)
                [] OTHER -> At("place", proc[p].turn))
  BY DEF TakeLock
<1> HIDE DEF rows
<1>3. CASE rows = {}
  <2> DEFINE l == [proc[p] EXCEPT !.step = "journal"]
  <2>1. Goto(p, l)
    BY <1>g, <1>3
  <2>2. /\ l \in Local /\ l.step = "journal" /\ l.entry = proc[p].entry /\ l.todo = proc[p].todo
        /\ l.market = proc[p].market
    BY TurnOK DEF Local, Steps
  <2> HIDE DEF l
  <2>3. Sound(l) /\ l.step \notin Owning
    BY <1>0, <2>2, TurnOK DEF Sound, Owning
  <2> QED BY <1>0, <1>1, <2>1, <2>2, <2>3, QuietStep
<1>4. CASE rows # {} /\ \E e \in rows : Uncertain(e)
  <2>1. Goto(p, Sweep(p, "recheck", rows))
    BY <1>g, <1>4
  <2>2. \E m \in Market : proc[p].market = {m}
    BY <1>0, WantedOK
  <2> QED BY <1>0, <1>1, <1>2, <2>1, <2>2, SweepStep DEF Jobs
<1>5. CASE rows # {} /\ ~\E e \in rows : Uncertain(e)
  <2>1. Goto(p, At("place", proc[p].turn))
    BY <1>g, <1>5
  <2> QED BY <1>0, <1>1, <2>1, TurnOK, AtStep
<1> QED BY <1>3, <1>4, <1>5

LEMMA EndRecheckHolds ==
  ASSUME OrderInv, NEW p \in Proc, EndRecheck(p)
  PROVE  Holds
<1>0. /\ proc[p].job = "recheck" /\ UNCHANGED <<ledger, exchange>>
      /\ UNCHANGED <<files, paused, consumer, crashes, pauses>>
  BY DEF EndRecheck, Swept
<1>1. RestType'
  BY <1>0, TurnOK, SameRest
<1>2. CASE proc[p].stuck
  BY <1>0, <1>1, <1>2, TurnOK, AtStep DEF EndRecheck
<1>3. CASE ~proc[p].stuck
  <2> DEFINE l == [proc[p] EXCEPT !.step = "journal", !.job = "none", !.seen = {}]
  <2>1. Goto(p, l)
    BY <1>3 DEF EndRecheck
  <2>2. /\ l \in Local /\ l.step = "journal" /\ l.entry = proc[p].entry /\ l.todo = proc[p].todo
        /\ l.market = proc[p].market
    BY TurnOK DEF Local, Steps, Jobs
  <2> HIDE DEF l
  <2>3. Sound(l) /\ l.step \notin Owning
    BY <1>0, <2>2, TurnOK DEF Sound, Owning
  <2> QED BY <1>0, <1>1, <2>1, <2>2, <2>3, QuietStep
<1> QED BY <1>2, <1>3

LEMMA SkipPlacementHolds ==
  ASSUME OrderInv, NEW p \in Proc, SkipPlacement(p)
  PROVE  Holds
<1>1. RestType'
  BY TurnOK, SameRest DEF SkipPlacement
<1> QED BY <1>1, TurnOK, AtStep DEF SkipPlacement

LEMMA JournalHolds ==
  ASSUME OrderInv, NEW p \in Proc, Journal(p)
  PROVE  Holds
<1>0. /\ proc[p].step = "journal" /\ UNCHANGED <<exchange, paused, crashes, pauses>>
      /\ Len(ledger[Turn(p)]) < MaxRows
  BY DEF Journal
<1>1. CASE paused
  BY <1>0, <1>1, LeaveStep DEF Journal
<1>2. CASE ~paused
  <2> DEFINE e == [of |-> Turn(p), at |-> Len(ledger[Turn(p)]) + 1,
                   placement |-> "pending_submit", order_id |-> NoId]
             l == [proc[p] EXCEPT !.step = "prepare", !.entry = {e}]
  <2>1. /\ ledger' = [ledger EXCEPT ![Turn(p)] = AddBet(@, Wanted(p))]
        /\ files' = files \cup {Turn(p)} /\ Goto(p, l) /\ UNCHANGED consumer
    BY <1>2 DEF Journal
  <2>2. Turn(p) \in Trader /\ Wanted(p) \in Market
    BY <1>0, TurnOK, WantedOK
  <2>3. LedgerType' /\ Len(ledger[Turn(p)]) + 1 \in 1 .. MaxRows
    BY <1>0, <2>1, <2>2, AddedRow DEF OrderInv, Types
  <2>4. RestType'
    BY <1>0, <2>1, <2>2, TurnOK DEF RestType
  <2>5. e \in Entry
    BY <2>2, <2>3 DEF Entry, Placements
  <2>6. /\ l \in Local /\ l.step = "prepare" /\ l.todo = proc[p].todo /\ l.entry = {e}
        /\ l.job = proc[p].job /\ l.market = proc[p].market
    BY <2>5, TurnOK DEF Local, Steps
  <2>m. \E m \in Market : l.market = {m}
    BY <1>0, <2>6, WantedOK
  <2> HIDE DEF l
  <2>7. Types'
    BY <1>0, <2>1, <2>3, <2>4, <2>6, GotoType DEF OrderInv, Types, ExchangeType
  <2>8. Facts' /\ Kept /\ OnlyCloses
    BY <1>0, <2>1, <2>2, <2>6, <2>7, <2>m, JournalFacts
  <2> QED BY <2>7, <2>8 DEF Holds
<1> QED BY <1>1, <1>2

\* The row of an attempt.
LEMMA Attempting ==
  ASSUME OrderInv, NEW p \in Proc, proc[p].step \in Owning \cup {"reply"}
  PROVE  /\ Mine(p) \in Entry /\ HasRow(Mine(p)) /\ proc[p].entry = {Mine(p)}
         /\ Attempt(proc[p].step, Mine(p))
         /\ proc[p].step # "prepare" =>
              Mine(p).order_id \in Order /\ RowOf(Mine(p)).order_id = Mine(p).order_id
<1>1. PICK e \in Entry : proc[p].entry = {e} /\ Attempt(proc[p].step, e)
  BY TurnOK DEF Sound
<1>2. HasRow(e) /\ e.order_id \in Order \cup {NoId}
  BY <1>1, TurnOK DEF Sound, Entry
<1>3. proc[p].step # "prepare" => e.order_id # NoId
  BY <1>1 DEF Attempt
<1> QED BY <1>1, <1>2, <1>3, MineIs DEF HasRow

LEMMA PrepareOrderHolds ==
  ASSUME OrderInv, NEW p \in Proc, PrepareOrder(p)
  PROVE  Holds
<1>0. /\ proc[p].step = "prepare" /\ UNCHANGED <<files, paused, consumer, crashes, pauses>>
  BY DEF PrepareOrder
<1>1. PICK e \in Entry : e = Mine(p) /\ HasRow(e) /\ proc[p].entry = {e} /\ Attempt("prepare", e)
  BY <1>0, Attempting DEF Owning
<1>2. Open(RowOf(e))
  BY <1>1, RowRead DEF Attempt, Fits, Resting
<1>3. PICK o \in Order :
         /\ exchange[o].state = "unsigned"
         /\ exchange' = [exchange EXCEPT ![o].state = "signed"]
         /\ ledger' = [ledger EXCEPT ![e.of] = SetOrderId(@, e.at, o)]
         /\ Goto(p, [proc[p] EXCEPT !.step = "guard", !.entry = {[e EXCEPT !.order_id = o]}])
  BY <1>1, <1>2 DEF PrepareOrder
<1> DEFINE f == [e EXCEPT !.order_id = o]
           l == [proc[p] EXCEPT !.step = "guard", !.entry = {f}]
<1>4. f \in Entry
  BY DEF Entry
<1>5. /\ l \in Local /\ l.step = "guard" /\ l.todo = proc[p].todo /\ l.entry = {f}
      /\ l.job = proc[p].job /\ l.market = proc[p].market
  BY <1>4, TurnOK DEF Local, Steps
<1>6. Goto(p, l)
  BY <1>3
<1> HIDE DEF l
<1>7. LedgerType'
  <2>1. PICK r \in Row : SetOrderId(ledger[e.of], e.at, o) = [ledger[e.of] EXCEPT ![e.at] = r]
                         /\ Numbered(ledger[e.of][e.at], r, o)
    BY <1>1, <1>2, RowRead, OrderRow
  <2>2. Amend(e.of, e.at, r)
    BY <2>1, <1>3 DEF Amend
  <2> QED BY <2>2, <1>1, RowRead, AmendLedger DEF OrderInv, Types
<1>8. ExchangeType'
  BY <1>3 DEF OrderInv, Types, ExchangeType, OrderStates
<1>9. RestType'
  BY <1>0, TurnOK, SameRest
<1>10. Types'
  BY <1>5, <1>6, <1>7, <1>8, <1>9, GotoType DEF Types
<1>11. Facts' /\ Kept /\ OnlyCloses
  BY <1>0, <1>1, <1>3, <1>5, <1>6, <1>10, PrepareFacts
<1> QED BY <1>10, <1>11 DEF Holds

\* An attempt ends, its row changed as allowed.
LEMMA ConcludeStep ==
  ASSUME OrderInv, NEW p \in Proc, proc[p].step \in Owning \cup {"reply"},
         NEW r \in Row, Allowed(RowOf(Mine(p)), r),
         Open(RowOf(Mine(p))) /\ ~Open(r) =>
           exchange[r.order_id].state # "signed" \/ proc[p].step \in Owning,
         Conclude(p, [ledger[Mine(p).of] EXCEPT ![Mine(p).at] = r]),
         UNCHANGED <<files, exchange, paused, consumer, crashes, pauses>>
  PROVE  Holds
<1>1. PICK e \in Entry : e = Mine(p) /\ HasRow(e) /\ proc[p].entry = {e}
  BY Attempting
<1>2. e.of \in Trader /\ e.at \in DOMAIN ledger[e.of] /\ RowOf(e) = ledger[e.of][e.at]
  BY <1>1, RowRead
<1>3. Amended(p, e.of, e.at, r)
  <2>1. Amend(e.of, e.at, r)
    BY <1>1 DEF Conclude, Amend
  <2> QED BY <2>1, <1>1, <1>2 DEF Amended
<1>4. RestType'
  BY TurnOK, SameRest
<1> DEFINE l == At("place", proc[p].turn)
<1>5. l \in Local /\ Sound(l) /\ l.step \notin Owning
  BY TurnOK, AtSound
<1>6. Goto(p, l)
  BY DEF Conclude
<1> HIDE DEF l
<1> QED BY <1>2, <1>3, <1>4, <1>5, <1>6, AmendStep

LEMMA ConcludePatched ==
  ASSUME OrderInv, NEW p \in Proc, proc[p].step \in Owning \cup {"reply"}, NEW s \in Placements,
         Conclude(p, SetPlacement(ledger[Mine(p).of], Mine(p).at, s)),
         UNCHANGED <<files, exchange, paused, consumer, crashes, pauses>>
  PROVE  Holds
<1>1. PICK e \in Entry : e = Mine(p) /\ HasRow(e)
  BY Attempting
<1>2. PICK r \in Row : SetPlacement(ledger[e.of], e.at, s) = [ledger[e.of] EXCEPT ![e.at] = r]
                       /\ Patched(RowOf(e), r)
  BY <1>1, RowRead, PatchRow
<1>3. Allowed(RowOf(e), r) /\ Open(r) = Open(RowOf(e))
  BY <1>1, <1>2, RowRead, AllowedPatch
<1> QED BY <1>1, <1>2, <1>3, ConcludeStep

LEMMA ConcludeFailed ==
  ASSUME OrderInv, NEW p \in Proc, proc[p].step \in {"guard", "reply"},
         Conclude(p, FailBet(ledger[Mine(p).of], Mine(p).at)),
         proc[p].step = "reply" => exchange[Mine(p).order_id].state = "refused",
         UNCHANGED <<files, exchange, paused, consumer, crashes, pauses>>
  PROVE  Holds
<1>1. PICK e \in Entry : /\ e = Mine(p) /\ HasRow(e) /\ Attempt(proc[p].step, e)
                         /\ e.order_id \in Order /\ RowOf(e).order_id = e.order_id
  BY Attempting DEF Owning
<1>2. exchange[e.order_id].state \in {"signed", "refused"}
      /\ (exchange[e.order_id].state = "signed" => proc[p].step \in Owning)
  BY <1>1 DEF Attempt, Owning
<1>3. PICK r \in Row : FailBet(ledger[e.of], e.at) = [ledger[e.of] EXCEPT ![e.at] = r]
                       /\ Failed(RowOf(e), r)
  <2>1. ledger[e.of] \in Seq(Row) /\ e.at \in DOMAIN ledger[e.of]
        /\ RowOf(e) = ledger[e.of][e.at]
    BY <1>1, RowRead
  <2>2. \E r \in Row : FailBet(ledger[e.of], e.at) = [ledger[e.of] EXCEPT ![e.at] = r]
                      /\ Failed(ledger[e.of][e.at], r)
    BY <2>1, FailRow
  <2> QED BY <2>1, <2>2
<1>4. Allowed(RowOf(e), r)
  BY <1>1, <1>2, <1>3, RowRead, AllowedFail DEF OrderInv, Facts
<1>5. r.order_id = e.order_id
  BY <1>1, <1>4 DEF Allowed
<1>6. proc[p].step \in Owning \cup {"reply"}
  BY DEF Owning
<1> QED BY <1>1, <1>2, <1>3, <1>4, <1>5, <1>6, ConcludeStep

LEMMA PrepareFailsHolds ==
  ASSUME OrderInv, NEW p \in Proc, PrepareFails(p)
  PROVE  Holds
  BY ConcludePatched DEF PrepareFails, Owning, Placements

LEMMA PreSubmitCheckHolds ==
  ASSUME OrderInv, NEW p \in Proc, PreSubmitCheck(p)
  PROVE  Holds
<1>0. proc[p].step = "guard" /\ UNCHANGED <<files, exchange, paused, consumer, crashes, pauses>>
  BY DEF PreSubmitCheck
<1>1. CASE paused
  <2>1. Conclude(p, FailBet(ledger[Mine(p).of], Mine(p).at))
    BY <1>1 DEF PreSubmitCheck
  <2> QED BY <1>0, <2>1, ConcludeFailed
<1>2. CASE ~paused
  <2> DEFINE l == [proc[p] EXCEPT !.step = "post"]
  <2>1. Goto(p, l) /\ UNCHANGED ledger
    BY <1>2 DEF PreSubmitCheck
  <2>2. /\ l \in Local /\ l.step = "post" /\ l.todo = proc[p].todo /\ l.entry = proc[p].entry
        /\ l.job = proc[p].job /\ l.market = proc[p].market
    BY TurnOK DEF Local, Steps
  <2>3. RestType'
    BY <1>0, TurnOK, SameRest
  <2> HIDE DEF l
  <2>4. Attempt("post", Mine(p)) /\ Mine(p) \in Entry /\ proc[p].entry = {Mine(p)}
    BY <1>0, Attempting DEF Attempt, Owning
  <2>5. Sound(l)
    BY <1>0, <2>2, <2>4, TurnOK DEF Sound, Owning
  <2> QED BY <1>0, <2>1, <2>2, <2>3, <2>5, QuietStep DEF Owning
<1> QED BY <1>1, <1>2

LEMMA PostOrderHolds ==
  ASSUME OrderInv, NEW p \in Proc, PostOrder(p)
  PROVE  Holds
<1>0. proc[p].step = "post" /\ UNCHANGED <<ledger, files, paused, consumer, crashes, pauses>>
  BY DEF PostOrder
<1>1. PICK e \in Entry : e = Mine(p) /\ e.order_id \in Order /\ proc[p].entry = {e}
  BY <1>0, Attempting DEF Owning
<1> DEFINE l == [proc[p] EXCEPT !.step = "reply"]
<1>2. Goto(p, l) /\ exchange' = [exchange EXCEPT ![e.order_id].state = "inflight"]
  BY <1>1 DEF PostOrder
<1>3. /\ l \in Local /\ l.step = "reply" /\ l.todo = proc[p].todo /\ l.entry = proc[p].entry
      /\ l.job = proc[p].job /\ l.market = proc[p].market
  BY TurnOK DEF Local, Steps
<1>4. RestType'
  BY <1>0, TurnOK, SameRest
<1>5. ExchangeType'
  BY <1>2 DEF OrderInv, Types, ExchangeType, OrderStates
<1> HIDE DEF l
<1>6. Types'
  BY <1>0, <1>2, <1>3, <1>4, <1>5, GotoType DEF OrderInv, Types, LedgerType
<1>7. Facts' /\ Kept /\ OnlyCloses
  BY <1>0, <1>1, <1>2, <1>3, <1>6, PostFacts
<1> QED BY <1>6, <1>7 DEF Holds

LEMMA ReplyAcceptedHolds ==
  ASSUME OrderInv, NEW p \in Proc, ReplyAccepted(p)
  PROVE  Holds
  BY ConcludePatched DEF ReplyAccepted, Placements

LEMMA ReplyRefusedHolds ==
  ASSUME OrderInv, NEW p \in Proc, ReplyRefused(p)
  PROVE  Holds
  BY ConcludeFailed DEF ReplyRefused

LEMMA ReplyUncertainHolds ==
  ASSUME OrderInv, NEW p \in Proc, ReplyUncertain(p)
  PROVE  Holds
  BY ConcludePatched DEF ReplyUncertain, Placements

LEMMA NextTraderHolds ==
  ASSUME OrderInv, NEW p \in Proc, NextTrader(p)
  PROVE  Holds
<1>0. UNCHANGED <<ledger, files, exchange, paused, crashes, pauses>>
  BY DEF NextTrader
<1>1. CASE proc[p].turn < Len(Traders)
  <2>1. Goto(p, At("refresh", proc[p].turn + 1)) /\ UNCHANGED consumer
    BY <1>1 DEF NextTrader
  <2>2. RestType'
    BY <1>0, <2>1, TurnOK, SameRest
  <2>3. proc[p].turn + 1 \in DOMAIN Traders
    BY <1>1, TurnOK, Turns
  <2> QED BY <1>0, <2>1, <2>2, <2>3, AtStep
<1>2. CASE ~(proc[p].turn < Len(Traders))
  BY <1>0, <1>2, LeaveStep DEF NextTrader
<1> QED BY <1>1, <1>2

LEMMA CrashHolds ==
  ASSUME OrderInv, NEW p \in Proc, Crash(p)
  PROVE  Holds
<1>0. /\ UNCHANGED <<ledger, files, exchange, paused, pauses>>
      /\ crashes' = crashes + 1 /\ crashes < MaxCrashes /\ Leave(p)
  BY DEF Crash
<1>1. RestType' /\ Goto(p, At("idle", 1))
  BY <1>0, TurnOK, Constants DEF RestType, Leave, Idle
<1> QED BY <1>0, <1>1, Turns, AtStep

-----------------------------------------------------------------------------
(* The exchange and the operator. *)

\* The exchange acts on one order.
LEMMA ExchangeActs ==
  ASSUME OrderInv, NEW o \in Order,
         NEW x \in [state : OrderStates, filled : 0 .. Shares, final : BOOLEAN],
         exchange' = [exchange EXCEPT ![o] = x], Later(exchange[o], x),
         x.filled > 0 => x.state \in {"live", "matched", "cancelled"},
         x.state = "live" => x.filled < Shares,
         UNCHANGED <<ledger, files, paused, consumer, proc, crashes, pauses>>
  PROVE  Holds
<1>1. /\ exchange'[o] = x /\ ExchangeType'
      /\ \A y \in Order \ {o} : exchange'[y] = exchange[y]
  BY DEF OrderInv, Types, ExchangeType
<1>2. Fills'
  BY <1>1 DEF Fills, OrderInv, Facts
<1>3. \A y \in Order : Later(exchange[y], exchange'[y])
  BY <1>1 DEF Later
<1>4. Types'
  BY <1>1, SameRest DEF OrderInv, Types, LedgerType, ProcType
<1>5. \A q \in Proc : Follows(q)
  BY DEF Follows
<1> QED BY <1>2, <1>3, <1>4, <1>5, ExchangeFacts, SameLedgerKept DEF Holds

LEMMA ExchangeHolds ==
  ASSUME OrderInv, NEW o \in Order, Exchange(o)
  PROVE  Holds
<1>0. /\ exchange[o] \in [state : OrderStates, filled : 0 .. Shares, final : BOOLEAN]
      /\ exchange \in [Order -> [state : OrderStates, filled : 0 .. Shares, final : BOOLEAN]]
      /\ exchange[o].filled \in Nat
      /\ exchange[o].filled > 0 => exchange[o].state \in {"live", "matched", "cancelled"}
      /\ exchange[o].state = "live" => exchange[o].filled < Shares
  BY Constants DEF OrderInv, Types, ExchangeType, Facts, Fills
<1>1. ASSUME NEW from, NEW to \in OrderStates, OnExchange(o, from, to),
             \/ from = "inflight" /\ to \in {"live", "refused", "lost"}
             \/ from = "live" /\ to = "cancelled"
      PROVE  Holds
  <2> DEFINE x == [exchange[o] EXCEPT !.state = to]
  <2>1. /\ exchange[o].state = from /\ exchange' = [exchange EXCEPT ![o] = x]
        /\ UNCHANGED <<ledger, files, paused, consumer, proc, crashes, pauses>>
    BY <1>0, <1>1 DEF OnExchange
  <2>2. x \in [state : OrderStates, filled : 0 .. Shares, final : BOOLEAN]
        /\ x.state = to /\ x.filled = exchange[o].filled
    BY <1>0
  <2> HIDE DEF x
  <2>3. Later(exchange[o], x)
    BY <1>1, <2>1, <2>2 DEF Later
  <2>4. x.filled > 0 => x.state \in {"live", "matched", "cancelled"}
    BY <1>0, <1>1, <2>1, <2>2
  <2>5. x.state = "live" => x.filled < Shares
    BY <1>0, <1>1, <2>1, <2>2, Constants
  <2> QED BY <2>1, <2>2, <2>3, <2>4, <2>5, ExchangeActs
<1>2. CASE Land(o) \/ Refuse(o) \/ Lose(o) \/ CloseOnExchange(o)
  BY <1>1, <1>2 DEF Land, Refuse, Lose, CloseOnExchange, OrderStates
<1>3. CASE Fill(o)
  <2> DEFINE n == exchange[o].filled + 1
             x == [state |-> IF n = Shares THEN "matched" ELSE "live", filled |-> n,
                   final |-> FALSE]
  <2>1. /\ exchange[o].state = "live" /\ exchange' = [exchange EXCEPT ![o] = x]
        /\ UNCHANGED <<ledger, files, paused, consumer, proc, crashes, pauses>>
    BY <1>3 DEF Fill
  <2>2. /\ x \in [state : OrderStates, filled : 0 .. Shares, final : BOOLEAN]
        /\ x.state \in {"live", "matched"} /\ (x.state = "live" => x.filled < Shares)
    BY <1>0, <2>1, Constants DEF OrderStates
  <2> HIDE DEF x
  <2>3. Later(exchange[o], x)
    BY <2>1, <2>2 DEF Later
  <2> QED BY <2>1, <2>2, <2>3, ExchangeActs
<1>4. CASE SettleTrades(o)
  <2> DEFINE x == [exchange[o] EXCEPT !.final = TRUE]
  <2>1. /\ exchange' = [exchange EXCEPT ![o] = x]
        /\ UNCHANGED <<ledger, files, paused, consumer, proc, crashes, pauses>>
    BY <1>0, <1>4 DEF SettleTrades
  <2>2. x \in [state : OrderStates, filled : 0 .. Shares, final : BOOLEAN]
        /\ x.state = exchange[o].state /\ x.filled = exchange[o].filled
    BY <1>0
  <2> HIDE DEF x
  <2>3. Later(exchange[o], x)
    BY <1>0, <2>2 DEF Later
  <2> QED BY <1>0, <2>1, <2>2, <2>3, ExchangeActs
<1> QED BY <1>2, <1>3, <1>4 DEF Exchange

LEMMA OperatorHolds ==
  ASSUME OrderInv, UNCHANGED <<ledger, files, exchange, consumer, proc, crashes>>,
         paused' \in BOOLEAN, pauses' \in 0 .. MaxPauses
  PROVE  Holds
<1>1. Types'
  BY DEF OrderInv, Types, LedgerType, ExchangeType, ProcType, RestType
<1>2. \A q \in Proc : Follows(q)
  BY DEF Follows
<1> QED BY <1>1, <1>2, ExchangeFacts, SameExchange, SameLedgerKept DEF Holds

LEMMA StutterHolds ==
  ASSUME OrderInv, UNCHANGED vars
  PROVE  Holds
<1>1. paused' \in BOOLEAN /\ pauses' \in 0 .. MaxPauses
  BY DEF OrderInv, Types, RestType, vars
<1> QED BY <1>1, OperatorHolds DEF vars

LEMMA ExamineHolds ==
  ASSUME OrderInv, NEW p \in Proc, NEW e \in proc[p].todo, NEW answer \in Answers(p, e),
         Examine(p, e, answer)
  PROVE  Holds
  BY MaintainRowHolds, RecheckRowHolds, SweepRowHolds, DecideToCancelHolds DEF Examine

LEMMA StepHolds ==
  ASSUME OrderInv, NEW p \in Proc, Step(p)
  PROVE  Holds
<1>1. CASE Sweeping(p)
  BY <1>1, ListOrdersHolds, ExamineHolds, CancelOrderHolds, ConfirmCancelHolds,
     EndMaintenanceHolds, EndRefreshHolds, EndCleanupHolds, EndRecheckHolds DEF Sweeping
<1>2. CASE Submitting(p)
  BY <1>2, TakeLockHolds, JournalHolds, PrepareOrderHolds, PreSubmitCheckHolds, PostOrderHolds,
     ReplyAcceptedHolds, ReplyRefusedHolds, ReplyUncertainHolds DEF Submitting
<1> QED BY <1>1, <1>2, BeginLockedCycleHolds, BeginUnlockedCycleHolds, BeginRefreshHolds,
           NextTraderHolds DEF Step

LEMMA OptionHolds ==
  ASSUME OrderInv, NEW p \in Proc, Option(p)
  PROVE  Holds
  BY BeginCleanupHolds, ListFailsHolds, CancelAgainHolds, AskForLockHolds, SkipPlacementHolds,
     PrepareFailsHolds, CrashHolds DEF Option

LEMMA NextHolds ==
  ASSUME OrderInv, [Next]_vars
  PROVE  OrderInv' /\ Kept
<1>1. CASE \E p \in Proc : Step(p) \/ Option(p)
  BY <1>1, StepHolds, OptionHolds DEF OrderInv, Holds
<1>2. CASE \E o \in Order : Exchange(o)
  BY <1>2, ExchangeHolds DEF OrderInv, Holds
<1>3. CASE Pause
  <2>1. paused' \in BOOLEAN /\ pauses' \in 0 .. MaxPauses
    BY <1>3, Constants DEF Pause, OrderInv, Types, RestType
  <2> QED BY <1>3, <2>1, OperatorHolds DEF Pause, OrderInv, Holds
<1>4. CASE Unpause
  <2>1. paused' \in BOOLEAN /\ pauses' \in 0 .. MaxPauses
    BY <1>4 DEF Unpause, OrderInv, Types, RestType
  <2> QED BY <1>4, <2>1, OperatorHolds DEF Unpause, OrderInv, Holds
<1>5. CASE UNCHANGED vars
  BY <1>5, StutterHolds DEF OrderInv, Holds
<1> QED BY <1>1, <1>2, <1>3, <1>4, <1>5 DEF Next

LEMMA InitHolds == Init => OrderInv
<1> SUFFICES ASSUME Init PROVE OrderInv
  OBVIOUS
<1>1. PICK d \in Deployments :
         /\ files = d.ledgers
         /\ consumer = IF d.locked THEN NoProc ELSE NoLock
         /\ proc = [p \in Proc |-> IF p \in d.running THEN Idle ELSE At("absent", 1)]
  BY DEF Init
<1>2. d.ledgers \subseteq Trader
  BY DeploymentAssumption DEF DeploymentAssumption, Deployment
<1>3. \A p \in Proc : proc[p] \in Local /\ Sound(proc[p]) /\ proc[p].step \notin Owning
  BY <1>1, Turns, AtSound DEF Idle
<1>4. LedgerType
  BY Constants DEF Init, LedgerType
<1>5. ExchangeType
  BY Constants DEF Init, ExchangeType, OrderStates
<1>6. ProcType
  BY <1>1, <1>3 DEF ProcType
<1>7. RestType
  <2>1. consumer \in {NoProc, NoLock} /\ files \subseteq Trader
    BY <1>1, <1>2
  <2>2. paused \in BOOLEAN
    BY DEF Init
  <2>3. crashes \in 0 .. MaxCrashes /\ pauses \in 0 .. MaxPauses
    BY Constants DEF Init
  <2> QED BY <2>1, <2>2, <2>3 DEF RestType
<1>8. Fills /\ OnWire
  BY DEF Init, Fills, OnWire
<1>9. RowsFit /\ OneRowEach
  BY DEF Init, RowsFit, OneRowEach
<1>10. Sounds /\ OwnersApart
  BY <1>3 DEF Sounds, OwnersApart
<1> QED BY <1>4, <1>5, <1>6, <1>7, <1>8, <1>9, <1>10 DEF OrderInv, Types, Facts

-----------------------------------------------------------------------------
(* What the invariant says of the properties. *)

LEMMA TypesTypeOK == Types => TypeOK
<1> SUFFICES ASSUME Types PROVE TypeOK
  OBVIOUS
<1>1. ASSUME NEW p \in Proc
      PROVE  /\ proc[p].step \in Steps /\ proc[p].job \in Jobs
             /\ proc[p].turn \in DOMAIN Traders
             /\ proc[p].todo \cup proc[p].entry \subseteq Entry
             /\ proc[p].seen \subseteq Order \X (0 .. Shares)
             /\ proc[p].market \subseteq Market
             /\ proc[p].stuck \in BOOLEAN /\ proc[p].retried \in BOOLEAN
  <2>1. proc[p] \in Local
    BY DEF Types, ProcType
  <2> QED BY <2>1 DEF Local
<1> QED BY <1>1 DEF Types, LedgerType, ExchangeType, RestType, TypeOK

\* A row, by its id.
LEMMA IdsAreRows ==
  ASSUME LedgerType
  PROVE  /\ \A id \in RowIds : /\ id = <<id[1], id[2]>> /\ id[1] \in Trader
                               /\ id[2] \in DOMAIN ledger[id[1]]
                               /\ RowAt(id) = ledger[id[1]][id[2]]
         /\ \A t \in Trader : \A i \in DOMAIN ledger[t] :
              <<t, i>> \in RowIds /\ RowAt(<<t, i>>) = ledger[t][i]
<1>1. ASSUME NEW t \in Trader, NEW i \in DOMAIN ledger[t]
      PROVE  <<t, i>> \in RowIds
  <2>1. ledger[t] \in Seq(Row) /\ Len(ledger[t]) <= MaxRows
    BY DEF LedgerType
  <2>2. i \in 1 .. MaxRows
    BY <2>1, Constants
  <2> QED BY <2>2 DEF RowIds
<1> QED BY <1>1 DEF RowIds, RowAt

LEMMA FactsClosedOnEvidence ==
  ASSUME OrderInv
  PROVE  ClosedOnEvidence
  BY IdsAreRows DEF OrderInv, Types, Facts, RowsFit, Fits, ClosedOnEvidence

LEMMA FactsPositionsMatchFills ==
  ASSUME OrderInv
  PROVE  PositionsMatchFills
  BY IdsAreRows DEF OrderInv, Types, Facts, RowsFit, Fits, PositionsMatchFills

LEMMA FactsDurableIdentity ==
  ASSUME OrderInv
  PROVE  DurableIdentity
<1> USE DEF OrderInv, Types, Facts
<1> SUFFICES ASSUME NEW o \in Order, exchange[o].state \notin {"unsigned", "signed"}
             PROVE  Cardinality({id \in RowIds : RowAt(id).order_id = o}) = 1
  BY DEF DurableIdentity
<1>1. PICK t \in Trader : \E i \in DOMAIN ledger[t] : ledger[t][i].order_id = o
  BY DEF OnWire
<1>2. PICK i \in DOMAIN ledger[t] : ledger[t][i].order_id = o
  BY <1>1
<1>3. ASSUME NEW id \in RowIds, RowAt(id).order_id = o
      PROVE  id = <<t, i>>
  <2>1. id[1] \in Trader /\ id[2] \in DOMAIN ledger[id[1]] /\ ledger[id[1]][id[2]].order_id = o
        /\ id = <<id[1], id[2]>>
    BY <1>3, IdsAreRows
  <2>2. id[1] = t /\ id[2] = i
    BY <2>1, <1>2, Constants DEF OneRowEach
  <2> QED BY <2>1, <2>2
<1>4. {id \in RowIds : RowAt(id).order_id = o} = {<<t, i>>}
  BY <1>2, <1>3, IdsAreRows
<1> QED BY <1>4, FS_Singleton

-----------------------------------------------------------------------------
(* The exposure after a step, by where the process goes. *)

\* A cycle begins, goes on or ends, and the trading lock with it.
HandedOn(p) ==
  \/ UNCHANGED consumer /\ (InCycle(proc'[p]) => InCycle(proc[p]) \/ consumer = NoLock)
  \/ ~InCycle(proc'[p]) /\ consumer' = IF consumer = p THEN NoProc ELSE consumer
  \/ consumer = NoProc /\ consumer' = p

\* A step of one process that journals nothing.
Moves(p) ==
  /\ \A q \in Proc \ {p} : proc'[q] = proc[q]
  /\ proc'[p].step # "prepare"
  /\ HandedOn(p)
  /\ UNCHANGED files

\* The market of a process that looks is no other's.
Alone(p) ==
  PrimaryLook(proc'[p]) =>
    \A q \in Proc \ {p} : PrimaryLook(proc[q]) => proc[q].market # proc'[p].market

LEMMA GuardedStep ==
  ASSUME Guarded, NEW p \in Proc, \A q \in Proc \ {p} : proc'[q] = proc[q], HandedOn(p),
         Primary \subseteq files => Primary \subseteq files',
         consumer = NoLock => KeyFits(proc'[p])
  PROVE  Guarded'
<1>1. consumer' = NoLock <=> consumer = NoLock
  BY Constants DEF HandedOn
<1>2. CASE consumer = NoLock
  BY <1>1, <1>2 DEF Guarded
<1>3. CASE consumer # NoLock
  <2> SUFFICES ASSUME NEW q \in Proc, InCycle(proc'[q])
               PROVE  consumer' = q
    BY <1>1, <1>3 DEF Guarded, InCycle
  <2>1. CASE q = p
    BY <1>3, <2>1 DEF HandedOn, Guarded
  <2>2. CASE q # p
    <3>1. consumer = q
      BY <1>3, <2>2 DEF Guarded
    <3> QED BY <2>2, <3>1, Constants DEF HandedOn
  <2> QED BY <2>1, <2>2
<1> QED BY <1>2, <1>3

LEMMA MovesExposure ==
  ASSUME ExposureInv, Holds, NEW p \in Proc, Moves(p), Alone(p),
         consumer = NoLock => KeyFits(proc'[p]), Checked(proc[p])'
  PROVE  ExposureInv'
<1> USE DEF ExposureInv, Exposure
<1>0. /\ \A t \in Trader : DOMAIN ledger'[t] = DOMAIN ledger[t]
      /\ \A t \in Trader : \A i \in DOMAIN ledger[t] :
           /\ ledger'[t][i].market = ledger[t][i].market
           /\ Open(ledger'[t][i]) => Open(ledger[t][i])
  BY DEF Moves, Holds, OnlyCloses
<1>p. \A q \in Proc \ {p} : proc'[q] = proc[q]
  BY DEF Moves
<1>t. Primary \subseteq Trader
  BY PrimaryAssumption DEF PrimaryAssumption
<1>1. RowsOnFile'
  BY <1>0 DEF Moves, RowsOnFile
<1>2. Guarded'
  BY GuardedStep DEF Moves
<1>3. LookersApart'
  <2> SUFFICES ASSUME NEW a \in Proc, NEW b \in Proc, a # b, PrimaryLook(proc'[a]),
                      PrimaryLook(proc'[b])
               PROVE  proc'[a].market # proc'[b].market
    BY DEF LookersApart, PrimaryLook, Looking, ForPrimary
  <2>1. CASE a = p
    BY <2>1, <1>p DEF Alone
  <2>2. CASE b = p
    BY <2>2, <1>p DEF Alone
  <2>3. CASE a # p /\ b # p
    BY <2>3, <1>p DEF LookersApart
  <2> QED BY <2>1, <2>2, <2>3
<1>4. AllChecked'
  <2> SUFFICES ASSUME NEW q \in Proc \ {p} PROVE Checked(proc[q])'
    BY DEF AllChecked
  <2>1. Checked(proc[q]) /\ proc'[q] = proc[q]
    BY <1>p DEF AllChecked
  <2>2. \A t \in Primary : \A i \in OpenRows(ledger'[t]) :
          i \in OpenRows(ledger[t]) /\ ledger'[t][i].market = ledger[t][i].market
    BY <1>0, <1>t DEF OpenRows
  <2> QED BY <2>1, <2>2 DEF Checked, PrimaryLook, Looking, ForPrimary
<1>5. OneOpenRow'
  BY <1>0, <1>t DEF OneOpenRow, OpenRows
<1>6. OrderInv'
  BY DEF Holds, OrderInv
<1> QED BY <1>1, <1>2, <1>3, <1>4, <1>5, <1>6

\* The process is not about to look, and has nothing left of an earlier look.
Away(l) ==
  /\ ~Looking(l) /\ l.step # "wait"
  /\ l.step = "place" => l.todo = {} /\ ~l.stuck

LEMMA AwayExposure ==
  ASSUME ExposureInv, Holds, NEW p \in Proc, Moves(p), Away(proc'[p])
  PROVE  ExposureInv'
<1>1. Alone(p) /\ KeyFits(proc'[p])
  BY DEF Away, Alone, PrimaryLook, KeyFits
<1>2. Checked(proc[p])'
  BY DEF Away, Checked, PrimaryLook, Looking
<1> QED BY <1>1, <1>2, MovesExposure

LEMMA GotoIs ==
  ASSUME ExposureInv, NEW p \in Proc, NEW l, Goto(p, l)
  PROVE  proc'[p] = l /\ \A q \in Proc \ {p} : proc'[q] = proc[q]
  BY DEF ExposureInv, OrderInv, Types, ProcType, Goto

\* To the start or the end of a turn.
LEMMA AtExposure ==
  ASSUME ExposureInv, Holds, NEW p \in Proc, NEW step \in {"refresh", "place"}, NEW turn,
         Goto(p, At(step, turn)), UNCHANGED files,
         \/ UNCHANGED consumer /\ (InCycle(proc[p]) \/ consumer = NoLock)
         \/ consumer = NoProc /\ consumer' = p
  PROVE  ExposureInv'
<1>1. proc'[p] = At(step, turn)
  BY GotoIs
<1>2. Away(proc'[p]) /\ proc'[p].step # "prepare"
  BY <1>1 DEF Away, At, Looking
<1>3. Moves(p)
  BY <1>2, GotoIs DEF Moves, HandedOn
<1> QED BY <1>2, <1>3, AwayExposure

LEMMA LeaveExposure ==
  ASSUME ExposureInv, Holds, NEW p \in Proc, Leave(p), UNCHANGED files
  PROVE  ExposureInv'
<1>1. proc'[p] = At("idle", 1) /\ \A q \in Proc \ {p} : proc'[q] = proc[q]
  BY GotoIs DEF Leave, Idle
<1>2. Away(proc'[p]) /\ proc'[p].step # "prepare" /\ ~InCycle(proc'[p])
  BY <1>1 DEF Away, At, Looking, InCycle
<1>3. Moves(p)
  BY <1>1, <1>2 DEF Moves, HandedOn, Leave
<1> QED BY <1>2, <1>3, AwayExposure

\* To the rows of a recovery, a refresh or a cleanup.
LEMMA SweepExposure ==
  ASSUME ExposureInv, Holds, NEW p \in Proc, NEW job \in {"maintain", "refresh", "clean"},
         NEW entries, Goto(p, Sweep(p, job, entries)), UNCHANGED files,
         \/ UNCHANGED consumer /\ (job = "clean" \/ InCycle(proc[p]))
         \/ consumer = NoProc /\ consumer' = p
  PROVE  ExposureInv'
<1>1. proc'[p] = Sweep(p, job, entries) /\ \A q \in Proc \ {p} : proc'[q] = proc[q]
  BY GotoIs
<1>2. proc[p] \in Local
  BY TurnOK DEF ExposureInv
<1>3. proc'[p].step = "list" /\ proc'[p].job = job
  BY <1>1, <1>2 DEF Sweep, Local
<1>4. Away(proc'[p]) /\ (InCycle(proc'[p]) => job # "clean")
  BY <1>3 DEF Away, Looking, InCycle
<1>5. Moves(p)
  BY <1>1, <1>3, <1>4 DEF Moves, HandedOn
<1> QED BY <1>4, <1>5, AwayExposure

\* On to another step of the same errand.
LEMMA OnExposure ==
  ASSUME ExposureInv, Holds, NEW p \in Proc, NEW l, Goto(p, l), UNCHANGED <<files, consumer>>,
         l.step # "prepare", l.job = proc[p].job, Away(l),
         InCycle(l) => InCycle(proc[p])
  PROVE  ExposureInv'
<1>1. proc'[p] = l /\ \A q \in Proc \ {p} : proc'[q] = proc[q]
  BY GotoIs
<1>2. Moves(p)
  BY <1>1 DEF Moves, HandedOn
<1> QED BY <1>1, <1>2, AwayExposure

\* On with a look, or with another errand's rows.
LEMMA SweepOnExposure ==
  ASSUME ExposureInv, Holds, NEW p \in Proc, NEW l, Goto(p, l), UNCHANGED <<files, consumer>>,
         proc[p].step \in {"list", "sweep"}, l.step = "sweep", l.job = proc[p].job,
         l.turn = proc[p].turn, l.market = proc[p].market, l.key = proc[p].key,
         proc[p].job = "recheck" => Checked(proc[p])'
  PROVE  ExposureInv'
<1>1. proc'[p] = l /\ \A q \in Proc \ {p} : proc'[q] = proc[q]
  BY GotoIs
<1>2. InCycle(l) => InCycle(proc[p])
  BY DEF InCycle
<1>3. CASE proc[p].job = "recheck"
  <2>1. PrimaryLook(l) <=> PrimaryLook(proc[p])
    BY <1>3 DEF PrimaryLook, Looking, ForPrimary
  <2>2. Alone(p)
    BY <1>1, <2>1 DEF Alone, ExposureInv, Exposure, LookersApart
  <2>3. consumer = NoLock => KeyFits(l)
    BY <1>3 DEF ExposureInv, Exposure, Guarded, KeyFits, Looking, ForPrimary
  <2>4. Moves(p)
    BY <1>1, <1>2 DEF Moves, HandedOn
  <2> QED BY <1>1, <1>3, <2>2, <2>3, <2>4, MovesExposure
<1>4. CASE proc[p].job # "recheck"
  <2>1. Away(l)
    BY <1>4 DEF Away, Looking
  <2> QED BY <1>2, <2>1, OnExposure
<1> QED BY <1>3, <1>4

-----------------------------------------------------------------------------
(* The exposure after each action. *)

LEMMA CycleExposure ==
  ASSUME ExposureInv, NEW p \in Proc,
         \/ BeginLockedCycle(p) \/ BeginUnlockedCycle(p) \/ BeginRefresh(p) \/ BeginCleanup(p)
  PROVE  ExposureInv'
<1>0. Holds
  BY BeginLockedCycleHolds, BeginUnlockedCycleHolds, BeginRefreshHolds, BeginCleanupHolds
     DEF ExposureInv
<1>1. CASE BeginLockedCycle(p)
  <2>1. UNCHANGED files /\ consumer = NoProc /\ consumer' = p
    BY <1>1 DEF BeginLockedCycle
  <2>2. \/ Goto(p, At("refresh", 1))
        \/ Goto(p, Sweep(p, "maintain", UnresolvedEntries))
    BY <1>1 DEF BeginLockedCycle
  <2> QED BY <1>0, <2>1, <2>2, AtExposure, SweepExposure
<1>2. CASE BeginUnlockedCycle(p)
  BY <1>0, <1>2, AtExposure DEF BeginUnlockedCycle
<1>3. CASE BeginRefresh(p)
  <2>1. UNCHANGED <<files, consumer>> /\ InCycle(proc[p])
    BY <1>3 DEF BeginRefresh, InCycle
  <2>2. \/ Goto(p, At("place", proc[p].turn))
        \/ Goto(p, Sweep(p, "refresh", RestingEntries(Turn(p))))
    BY <1>3 DEF BeginRefresh
  <2> QED BY <1>0, <2>1, <2>2, AtExposure, SweepExposure
<1>4. CASE BeginCleanup(p)
  BY <1>0, <1>4, SweepExposure DEF BeginCleanup
<1> QED BY <1>1, <1>2, <1>3, <1>4

LEMMA ListOrdersExposure ==
  ASSUME ExposureInv, NEW p \in Proc, ListOrders(p)
  PROVE  ExposureInv'
<1> DEFINE l == [proc[p] EXCEPT !.step = "sweep", !.seen = Listing]
<1>0. Holds
  BY ListOrdersHolds DEF ExposureInv
<1>1. Goto(p, l) /\ UNCHANGED <<ledger, files, consumer>> /\ proc[p].step = "list"
  BY DEF ListOrders
<1>2. /\ l.step = "sweep" /\ l.job = proc[p].job /\ l.turn = proc[p].turn
      /\ l.market = proc[p].market /\ l.key = proc[p].key
      /\ l.todo = proc[p].todo /\ l.stuck = proc[p].stuck
  BY TurnOK DEF ExposureInv, Local
<1> HIDE DEF l
<1>3. ASSUME proc[p].job = "recheck" PROVE Checked(proc[p])'
  <2>1. proc'[p] = l
    BY <1>1, GotoIs
  <2>2. Checked(proc[p])
    BY DEF ExposureInv, Exposure, AllChecked
  <2>3. PrimaryLook(l) <=> PrimaryLook(proc[p])
    BY <1>1, <1>2, <1>3 DEF PrimaryLook, Looking, ForPrimary
  <2> QED BY <1>1, <1>2, <2>1, <2>2, <2>3 DEF Checked, PrimaryLook, Looking, ForPrimary
<1> QED BY <1>0, <1>1, <1>2, <1>3, SweepOnExposure

LEMMA ListFailsExposure ==
  ASSUME ExposureInv, NEW p \in Proc, ListFails(p)
  PROVE  ExposureInv'
<1>0. Holds
  BY ListFailsHolds DEF ExposureInv
<1>1. UNCHANGED files /\ proc[p].step = "list"
  BY DEF ListFails
<1>2. CASE proc[p].job \in {"maintain", "clean"}
  <2>1. Leave(p)
    BY <1>2 DEF ListFails
  <2> QED BY <1>0, <1>1, <2>1, LeaveExposure
<1>3. CASE proc[p].job \notin {"maintain", "clean"}
  <2>1. Goto(p, At("place", proc[p].turn)) /\ UNCHANGED consumer
    BY <1>3 DEF ListFails
  <2>2. InCycle(proc[p])
    BY <1>1, <1>3 DEF InCycle
  <2> QED BY <1>0, <1>1, <2>1, <2>2, AtExposure
<1> QED BY <1>2, <1>3

\* What a look has yet to recheck, and what it found, go with the row.
LEMMA RecheckRowExposure ==
  ASSUME ExposureInv, NEW p \in Proc, NEW e \in proc[p].todo, NEW answer \in Answers(p, e),
         RecheckRow(p, e, answer)
  PROVE  ExposureInv'
<1> DEFINE rows == IF Uncertain(e) THEN Recover(ledger[e.of], e, answer) ELSE ledger[e.of]
           b == proc[p].stuck \/ ~Uncertain(e) \/ Open(rows[e.at])
           l == [Drop(p, e) EXCEPT !.stuck = b]
<1>0. Holds
  BY RecheckRowHolds DEF ExposureInv
<1>1. /\ ledger' = [ledger EXCEPT ![e.of] = rows]
      /\ UNCHANGED <<files, consumer>>
      /\ proc[p].step = "sweep" /\ proc[p].job = "recheck"
  BY DEF RecheckRow, Examining
<1>2. Goto(p, [Drop(p, e) EXCEPT !.stuck = @ \/ ~Uncertain(e) \/ Open(rows[e.at])])
  BY DEF RecheckRow
<1>3. proc[p] \in Local /\ Drop(p, e).stuck = proc[p].stuck
  BY TurnOK DEF ExposureInv, Local, Drop
<1>4. Goto(p, l)
  BY <1>2, <1>3 DEF Drop, Local
<1>5. /\ l.step = "sweep" /\ l.job = proc[p].job /\ l.turn = proc[p].turn
      /\ l.market = proc[p].market /\ l.key = proc[p].key
      /\ l.todo = proc[p].todo \ {e} /\ l.stuck = b
  BY <1>1, <1>3 DEF Drop, Local
<1>6. e.of \in Trader /\ ledger'[e.of] = rows
  <2>1. e \in Entry
    BY <1>3 DEF Local
  <2> QED BY <1>1, <2>1 DEF Entry, ExposureInv, OrderInv, Types, LedgerType
<1> HIDE DEF rows, l
<1>7. Checked(proc[p])'
  <2>1. proc'[p] = l
    BY <1>4, GotoIs
  <2>2. PrimaryLook(l) => PrimaryLook(proc[p])
    BY <1>1, <1>5 DEF PrimaryLook, Looking, ForPrimary
  <2>3. \A t \in Trader : \A i \in OpenRows(ledger'[t]) :
          i \in OpenRows(ledger[t]) /\ ledger'[t][i].market = ledger[t][i].market
    <3>1. \A q \in Proc : proc'[q].step = "prepare" => proc[q].step = "prepare"
      BY <1>4, <1>5, <2>1, GotoIs
    <3> QED BY <1>0, <3>1 DEF Holds, OnlyCloses, OpenRows
  <2>4. ASSUME PrimaryLook(l), ~l.stuck, NEW t \in Primary, NEW i \in OpenRows(ledger'[t]),
               l.market = {ledger'[t][i].market}
        PROVE  \E f \in l.todo : f.of = t /\ f.at = i
    <3>1. t \in Trader
      BY PrimaryAssumption DEF PrimaryAssumption
    <3>2. ~proc[p].stuck /\ ~Open(rows[e.at])
      BY <1>5, <2>4
    <3>3. PICK f \in proc[p].todo : f.of = t /\ f.at = i
      <4>1. Checked(proc[p]) /\ PrimaryLook(proc[p])
        BY <2>2, <2>4 DEF ExposureInv, Exposure, AllChecked
      <4>2. i \in OpenRows(ledger[t]) /\ proc[p].market = {ledger[t][i].market}
        BY <1>5, <2>3, <2>4, <3>1
      <4> QED BY <3>2, <4>1, <4>2 DEF Checked
    <3>4. f # e
      BY <1>6, <3>2, <3>3 DEF OpenRows
    <3> QED BY <1>5, <3>3, <3>4
  <2>5. l.step \notin {"place", "wait", "journal"}
    BY <1>5
  <2> QED BY <2>1, <2>4, <2>5 DEF Checked, PrimaryLook, Looking, ForPrimary
<1> QED BY <1>0, <1>1, <1>4, <1>5, <1>7, SweepOnExposure

LEMMA ExamineExposure ==
  ASSUME ExposureInv, NEW p \in Proc, NEW e \in proc[p].todo, NEW answer \in Answers(p, e),
         Examine(p, e, answer)
  PROVE  ExposureInv'
<1>0. Holds
  BY ExamineHolds DEF ExposureInv
<1>p. proc[p] \in Local
  BY TurnOK DEF ExposureInv
<1>1. CASE MaintainRow(p, e, answer)
  <2>1. PICK b : Goto(p, [Drop(p, e) EXCEPT !.stuck = b])
    BY <1>1 DEF MaintainRow
  <2>2. /\ UNCHANGED <<files, consumer>>
        /\ proc[p].step = "sweep" /\ proc[p].job = "maintain"
    BY <1>1 DEF MaintainRow, Examining
  <2> DEFINE l == [Drop(p, e) EXCEPT !.stuck = b]
  <2>3. /\ l.step = "sweep" /\ l.job = proc[p].job /\ l.turn = proc[p].turn
        /\ l.market = proc[p].market /\ l.key = proc[p].key
    BY <1>p, <2>2 DEF Drop, Local
  <2> HIDE DEF l
  <2>4. Goto(p, l)
    BY <2>1 DEF l
  <2> QED BY <1>0, <2>2, <2>3, <2>4, SweepOnExposure
<1>2. CASE SweepRow(p, e, answer)
  <2> DEFINE l == Drop(p, e)
  <2>1. /\ UNCHANGED <<files, consumer>> /\ Goto(p, l)
        /\ proc[p].step = "sweep" /\ proc[p].job \in {"refresh", "clean"}
    BY <1>2 DEF SweepRow, Examining
  <2>2. /\ l.step = "sweep" /\ l.job = proc[p].job /\ l.turn = proc[p].turn
        /\ l.market = proc[p].market /\ l.key = proc[p].key
    BY <1>p, <2>1 DEF Drop, Local
  <2> HIDE DEF l
  <2> QED BY <1>0, <2>1, <2>2, SweepOnExposure
<1>3. CASE DecideToCancel(p, e, answer)
  <2> DEFINE l == [Drop(p, e) EXCEPT !.step = "cancel", !.entry = {e}]
  <2>1. /\ UNCHANGED <<files, consumer>> /\ Goto(p, l) /\ proc[p].step = "sweep"
    BY <1>3 DEF DecideToCancel, Examining
  <2>2. l.step = "cancel" /\ l.job = proc[p].job
    BY <1>p DEF Drop, Local
  <2> HIDE DEF l
  <2>3. Away(l) /\ (InCycle(l) => InCycle(proc[p]))
    BY <2>1, <2>2 DEF Away, Looking, InCycle
  <2> QED BY <1>0, <2>1, <2>2, <2>3, OnExposure
<1> QED BY <1>1, <1>2, <1>3, RecheckRowExposure DEF Examine

LEMMA CancelExposure ==
  ASSUME ExposureInv, NEW p \in Proc, CancelOrder(p) \/ CancelAgain(p) \/ ConfirmCancel(p)
  PROVE  ExposureInv'
<1>0. Holds
  BY CancelOrderHolds, CancelAgainHolds, ConfirmCancelHolds DEF ExposureInv
<1>p. proc[p] \in Local /\ Sound(proc[p])
  BY TurnOK DEF ExposureInv
<1>1. proc[p].step \in {"cancel", "confirm"} /\ UNCHANGED <<files, consumer>>
  BY DEF CancelOrder, CancelAgain, ConfirmCancel
<1>2. proc[p].job \in {"refresh", "clean"}
  BY <1>1, <1>p DEF Sound
<1>3. \E l : /\ Goto(p, l) /\ l.step \in {"cancel", "confirm", "sweep"}
             /\ l.job = proc[p].job
  <2> DEFINE k == [proc[p] EXCEPT !.step = "confirm"]
             m == [proc[p] EXCEPT !.step = "sweep", !.entry = {}]
             n == [proc[p] EXCEPT !.step = "sweep", !.entry = {}, !.retried = FALSE]
             r == [proc[p] EXCEPT !.retried = TRUE]
  <2>1. /\ k.step = "confirm" /\ k.job = proc[p].job
        /\ m.step = "sweep" /\ m.job = proc[p].job
        /\ n.step = "sweep" /\ n.job = proc[p].job
        /\ r.step = proc[p].step /\ r.job = proc[p].job
    BY <1>p DEF Local
  <2>2. Goto(p, k) \/ Goto(p, m) \/ Goto(p, n) \/ Goto(p, r)
    BY DEF CancelOrder, CancelAgain, ConfirmCancel
  <2> HIDE DEF k, m, n, r
  <2> QED BY <1>1, <2>1, <2>2
<1>4. PICK l : /\ Goto(p, l) /\ l.step \in {"cancel", "confirm", "sweep"}
               /\ l.job = proc[p].job
  BY <1>3
<1>5. Away(l) /\ (InCycle(l) => InCycle(proc[p])) /\ l.step # "prepare"
  BY <1>1, <1>2, <1>4 DEF Away, Looking, InCycle
<1> QED BY <1>0, <1>1, <1>4, <1>5, OnExposure

LEMMA EndExposure ==
  ASSUME ExposureInv, NEW p \in Proc, EndMaintenance(p) \/ EndRefresh(p) \/ EndCleanup(p)
  PROVE  ExposureInv'
<1>0. Holds
  BY EndMaintenanceHolds, EndRefreshHolds, EndCleanupHolds DEF ExposureInv
<1>1. CASE EndMaintenance(p)
  <2>1. UNCHANGED files /\ InCycle(proc[p])
    BY <1>1 DEF EndMaintenance, Swept, InCycle
  <2>2. Leave(p) \/ (Goto(p, At("refresh", 1)) /\ UNCHANGED consumer)
    BY <1>1 DEF EndMaintenance
  <2> QED BY <1>0, <2>1, <2>2, LeaveExposure, AtExposure
<1>2. CASE EndRefresh(p)
  <2>1. InCycle(proc[p])
    BY <1>2 DEF EndRefresh, Swept, InCycle
  <2> QED BY <1>0, <1>2, <2>1, AtExposure DEF EndRefresh
<1>3. CASE EndCleanup(p)
  BY <1>0, <1>3, LeaveExposure DEF EndCleanup
<1> QED BY <1>1, <1>2, <1>3

LEMMA AskForLockExposure ==
  ASSUME ExposureInv, NEW p \in Proc, NEW m \in Market, AskForLock(p, m)
  PROVE  ExposureInv'
<1> DEFINE l == [proc[p] EXCEPT !.step = "wait", !.market = {m},
                                !.key = Coordinated(Turn(p)) \X {m}]
<1>0. Holds
  BY AskForLockHolds DEF ExposureInv
<1>1. Goto(p, l) /\ UNCHANGED <<files, consumer>> /\ proc[p].step = "place"
  BY DEF AskForLock
<1>2. /\ l.step = "wait" /\ l.turn = proc[p].turn /\ l.market = {m}
      /\ l.key = Coordinated(Turn(p)) \X {m} /\ l.todo = proc[p].todo /\ l.stuck = proc[p].stuck
  BY TurnOK DEF ExposureInv, Local
<1> HIDE DEF l
<1>3. proc'[p] = l /\ \A q \in Proc \ {p} : proc'[q] = proc[q]
  BY <1>1, GotoIs
<1>4. Moves(p)
  BY <1>1, <1>2, <1>3 DEF Moves, HandedOn, InCycle
<1>5. Alone(p)
  BY <1>2, <1>3 DEF Alone, PrimaryLook, Looking
<1>6. consumer = NoLock => KeyFits(l)
  <2> SUFFICES ASSUME consumer = NoLock, ForPrimary(l) PROVE l.key = Primary \X l.market
    BY DEF KeyFits
  <2>1. Primary \subseteq files
    BY DEF ExposureInv, Exposure, Guarded
  <2>2. Turn(p) \in Primary
    BY <1>2 DEF ForPrimary, Turn
  <2>3. Coordinated(Turn(p)) = Primary
    BY <2>1, <2>2 DEF Coordinated
  <2> QED BY <1>2, <2>3
<1>7. Checked(proc[p])'
  <2>1. l.todo = {} /\ ~l.stuck
    BY <1>1, <1>2 DEF ExposureInv, Exposure, AllChecked, Checked
  <2> QED BY <1>2, <1>3, <2>1 DEF Checked, PrimaryLook, Looking
<1> QED BY <1>0, <1>3, <1>4, <1>5, <1>6, <1>7, MovesExposure

\* The look begins: alone on its market, with every open row before it.
LEMMA TakeLockExposure ==
  ASSUME ExposureInv, NEW p \in Proc, TakeLock(p)
  PROVE  ExposureInv'
<1> DEFINE rows == OpenEntries(Turn(p), Wanted(p))
           j == [proc[p] EXCEPT !.step = "journal"]
           s == Sweep(p, "recheck", rows)
<1>0. Holds
  BY TakeLockHolds DEF ExposureInv
<1>1. /\ UNCHANGED <<ledger, files, consumer>> /\ proc[p].step = "wait" /\ LockFree(p)
      /\ \/ rows = {} /\ Goto(p, j)
         \/ Goto(p, s)
         \/ Goto(p, At("place", proc[p].turn))
  BY DEF TakeLock
<1>p. proc[p] \in Local /\ Sound(proc[p]) /\ InCycle(proc[p])
  BY <1>1, TurnOK DEF ExposureInv, InCycle
<1>2. CASE Goto(p, At("place", proc[p].turn))
  BY <1>0, <1>1, <1>2, <1>p, AtExposure
<1>3. ASSUME NEW l, Goto(p, l), PrimaryLook(l) => PrimaryLook([proc[p] EXCEPT !.step = "journal"]),
             l.step # "prepare", l.step # "wait", InCycle(l),
             l.turn = proc[p].turn, l.market = proc[p].market, l.key = proc[p].key,
             l.todo = rows, l.step \in {"place", "journal"} => ~l.stuck /\ l.todo = {}
      PROVE  ExposureInv'
  <2> HIDE DEF rows
  <2>1. proc'[p] = l /\ \A q \in Proc \ {p} : proc'[q] = proc[q]
    BY <1>3, GotoIs
  <2>2. Moves(p)
    BY <1>1, <1>3, <1>p, <2>1 DEF Moves, HandedOn
  <2>3. consumer = NoLock => KeyFits(proc[p])
    BY DEF ExposureInv, Exposure, Guarded
  <2>4. consumer = NoLock => KeyFits(l)
    BY <1>1, <1>3, <2>3 DEF KeyFits, ForPrimary
  <2>5. Alone(p)
    <3> SUFFICES ASSUME PrimaryLook(l), NEW q \in Proc \ {p}, PrimaryLook(proc[q])
                 PROVE  proc[q].market # l.market
      BY <2>1 DEF Alone
    <3>1. InCycle(proc[q]) /\ Placing(q)
      BY DEF PrimaryLook, Looking, InCycle, Placing
    <3>2. CASE consumer # NoLock
      BY <1>p, <3>1, <3>2 DEF ExposureInv, Exposure, Guarded
    <3>3. CASE consumer = NoLock
      <4>1. proc[q].key = Primary \X proc[q].market
        BY <3>3 DEF ExposureInv, Exposure, Guarded, KeyFits, PrimaryLook
      <4>2. proc[p].key = Primary \X proc[p].market
        BY <1>1, <1>3, <2>3, <3>3 DEF KeyFits, PrimaryLook, ForPrimary
      <4>3. proc[q].key # proc[p].key
        BY <1>1, <3>1 DEF LockFree
      <4> QED BY <1>3, <4>1, <4>2, <4>3
    <3> QED BY <3>2, <3>3
  <2>6. Checked(proc[p])'
    <3>1. ASSUME PrimaryLook(l), NEW t \in Primary, NEW i \in OpenRows(ledger[t]),
                 l.market = {ledger[t][i].market}
          PROVE  \E e \in l.todo : e.of = t /\ e.at = i
      <4>1. t \in Trader /\ i \in DOMAIN ledger[t]
        BY PrimaryAssumption DEF PrimaryAssumption, OpenRows
      <4>2. t \in Coordinated(Turn(p))
        BY <1>3, <3>1, <4>1 DEF ExposureInv, Exposure, RowsOnFile, Coordinated, PrimaryLook,
                               ForPrimary, Turn
      <4>3. Wanted(p) = ledger[t][i].market
        BY <1>3, <3>1, WantedIs
      <4>4. EntryFor(t, i) \in rows
        BY <3>1, <4>1, <4>2, <4>3 DEF rows, OpenEntries
      <4> QED BY <1>3, <4>4 DEF EntryFor
    <3> QED BY <1>1, <1>3, <2>1, <3>1 DEF Checked, PrimaryLook, Looking, ForPrimary
  <2> QED BY <1>0, <2>1, <2>2, <2>4, <2>5, <2>6, MovesExposure
<1>4. CASE rows = {} /\ Goto(p, j)
  <2>1. Checked(proc[p])
    BY DEF ExposureInv, Exposure, AllChecked
  <2>2. /\ j.step = "journal" /\ j.turn = proc[p].turn /\ j.market = proc[p].market
        /\ j.key = proc[p].key /\ j.todo = {} /\ ~j.stuck
    BY <1>1, <1>p, <2>1 DEF Checked, Local
  <2>3. InCycle(j)
    BY <2>2 DEF InCycle
  <2> HIDE DEF rows
  <2> QED BY <1>3, <1>4, <2>2, <2>3
<1>5. CASE Goto(p, s)
  <2>1. /\ s.step = "list" /\ s.job = "recheck" /\ s.turn = proc[p].turn
        /\ s.market = proc[p].market /\ s.key = proc[p].key /\ s.todo = rows
    BY <1>p DEF Sweep, Local
  <2>2. PrimaryLook(s) => PrimaryLook(j)
    BY <1>p, <2>1 DEF PrimaryLook, Looking, ForPrimary, Local
  <2>3. InCycle(s)
    BY <2>1 DEF InCycle
  <2> HIDE DEF rows, s
  <2> QED BY <1>3, <1>5, <2>1, <2>2, <2>3
<1> QED BY <1>1, <1>2, <1>4, <1>5

\* A look that found nothing in the way.
LEMMA EndRecheckExposure ==
  ASSUME ExposureInv, NEW p \in Proc, EndRecheck(p)
  PROVE  ExposureInv'
<1> DEFINE l == [proc[p] EXCEPT !.step = "journal", !.job = "none", !.seen = {}]
<1>0. Holds
  BY EndRecheckHolds DEF ExposureInv
<1>1. /\ UNCHANGED <<ledger, files, consumer>>
      /\ proc[p].step = "sweep" /\ proc[p].job = "recheck" /\ proc[p].todo = {}
  BY DEF EndRecheck, Swept
<1>2. InCycle(proc[p])
  BY <1>1 DEF InCycle
<1>3. CASE proc[p].stuck
  BY <1>0, <1>1, <1>2, <1>3, AtExposure DEF EndRecheck
<1>4. CASE ~proc[p].stuck
  <2>1. Goto(p, l)
    BY <1>4 DEF EndRecheck
  <2>2. /\ l.step = "journal" /\ l.turn = proc[p].turn /\ l.market = proc[p].market
        /\ l.key = proc[p].key /\ l.todo = proc[p].todo /\ l.stuck = proc[p].stuck
    BY TurnOK DEF ExposureInv, Local
  <2> HIDE DEF l
  <2>3. proc'[p] = l /\ \A q \in Proc \ {p} : proc'[q] = proc[q]
    BY <2>1, GotoIs
  <2>4. PrimaryLook(l) <=> PrimaryLook(proc[p])
    BY <1>1, <2>2 DEF PrimaryLook, Looking, ForPrimary
  <2>5. Moves(p)
    BY <1>1, <1>2, <2>2, <2>3 DEF Moves, HandedOn
  <2>6. Alone(p)
    BY <2>2, <2>3, <2>4 DEF Alone, ExposureInv, Exposure, LookersApart
  <2>7. consumer = NoLock => KeyFits(l)
    BY <1>1, <2>2 DEF ExposureInv, Exposure, Guarded, KeyFits, Looking, ForPrimary
  <2>8. Checked(proc[p])'
    <3>1. Checked(proc[p])
      BY DEF ExposureInv, Exposure, AllChecked
    <3> QED BY <1>1, <1>4, <2>2, <2>3, <2>4, <3>1 DEF Checked, PrimaryLook, Looking, ForPrimary
  <2> QED BY <1>0, <2>3, <2>5, <2>6, <2>7, <2>8, MovesExposure
<1> QED BY <1>3, <1>4

\* The row a look allows is the only open one on its market, and no other look
\* is to find it.
LEMMA JournalExposure ==
  ASSUME ExposureInv, NEW p \in Proc, Journal(p)
  PROVE  ExposureInv'
<1> USE DEF ExposureInv, Exposure
<1>0. Holds
  BY JournalHolds
<1>1. CASE paused
  BY <1>0, <1>1, LeaveExposure DEF Journal
<1>2. CASE ~paused
  <2> DEFINE t == Turn(p)
             n == Len(ledger[t]) + 1
             l == [proc[p] EXCEPT !.step = "prepare",
                     !.entry = {[of |-> t, at |-> n, placement |-> "pending_submit",
                                 order_id |-> NoId]}]
  <2>1. /\ proc[p].step = "journal" /\ Len(ledger[t]) < MaxRows
        /\ ledger' = [ledger EXCEPT ![t] = AddBet(@, Wanted(p))]
        /\ files' = files \cup {t} /\ UNCHANGED consumer /\ Goto(p, l)
    BY <1>2 DEF Journal
  <2>2. l.step = "prepare" /\ l.todo = proc[p].todo /\ l.stuck = proc[p].stuck
    BY TurnOK DEF Local
  <2> HIDE DEF l
  <2>3. PICK m \in Market : proc[p].market = {m} /\ Wanted(p) = m
    BY <2>1, TurnOK, WantedIs DEF Sound
  <2>4. t \in Trader /\ LedgerType
    BY TurnOK DEF OrderInv, Types
  <2> HIDE DEF t
  <2>5. /\ \A u \in Trader \ {t} : ledger'[u] = ledger[u]
        /\ DOMAIN ledger'[t] = DOMAIN ledger[t] \cup {n}
        /\ n \notin DOMAIN ledger[t]
        /\ \A j \in DOMAIN ledger[t] : ledger'[t][j] = ledger[t][j]
        /\ ledger'[t][n].market = m
    <3>1. ledger' = [ledger EXCEPT ![t] = AddBet(@, m)]
      BY <2>1, <2>3
    <3>2. m \in Market /\ Len(ledger[t]) < MaxRows /\ t \in Trader /\ LedgerType
      BY <2>1, <2>4
    <3>3. /\ \A u \in Trader \ {t} : ledger'[u] = ledger[u]
          /\ DOMAIN ledger'[t] = DOMAIN ledger[t] \cup {Len(ledger[t]) + 1}
          /\ Len(ledger[t]) + 1 \notin DOMAIN ledger[t]
          /\ \A j \in DOMAIN ledger[t] : ledger'[t][j] = ledger[t][j]
          /\ ledger'[t][Len(ledger[t]) + 1] =
               [market |-> m, order_id |-> NoId, status |-> "open", type |-> "limit",
                placement |-> "pending_submit", filled |-> 0]
      BY <3>1, <3>2, AddedRow
    <3> QED BY <3>3
  <2> HIDE DEF n
  <2>6. proc'[p] = l /\ \A q \in Proc \ {p} : proc'[q] = proc[q]
    BY <2>1, GotoIs
  <2>7. ~Looking(l) /\ l.step # "wait" /\ InCycle(l) /\ InCycle(proc[p])
    BY <2>1, <2>2 DEF Looking, InCycle
  <2>8. \A u \in Trader : \A i \in OpenRows(ledger'[u]) :
          \/ i \in OpenRows(ledger[u]) /\ ledger'[u][i] = ledger[u][i]
          \/ u = t /\ i = n
    BY <2>5 DEF OpenRows
  <2>9. Primary \subseteq Trader
    BY PrimaryAssumption DEF PrimaryAssumption
  <2>10. t \in Primary => PrimaryLook(proc[p])
    BY <2>1 DEF PrimaryLook, Looking, ForPrimary, t, Turn
  <2>11. ASSUME t \in Primary, NEW u \in Primary, NEW i \in OpenRows(ledger[u])
         PROVE  ledger[u][i].market # m
    <3>1. Checked(proc[p]) /\ PrimaryLook(proc[p])
      BY <2>10, <2>11 DEF AllChecked
    <3> QED BY <2>1, <2>3, <3>1 DEF Checked
  <2>a. RowsOnFile'
    BY <2>1, <2>4, <2>5 DEF RowsOnFile
  <2>b. Guarded'
    <3>1. HandedOn(p)
      BY <2>1, <2>6, <2>7 DEF HandedOn
    <3>2. KeyFits(proc'[p])
      BY <2>6, <2>7 DEF KeyFits
    <3> QED BY <2>1, <2>6, <3>1, <3>2, GuardedStep
  <2>c. LookersApart'
    BY <2>6, <2>7 DEF LookersApart, PrimaryLook, Looking, ForPrimary
  <2>d. AllChecked'
    <3>1. Checked(proc[p])'
      BY <2>2, <2>6, <2>7 DEF Checked, PrimaryLook
    <3>2. ASSUME NEW q \in Proc \ {p} PROVE Checked(proc[q])'
      <4>1. Checked(proc[q]) /\ proc'[q] = proc[q]
        BY <2>6 DEF AllChecked
      <4>2. ASSUME PrimaryLook(proc[q]), ~proc[q].stuck, NEW u \in Primary,
                   NEW i \in OpenRows(ledger'[u]), proc[q].market = {ledger'[u][i].market}
            PROVE  \E e \in proc[q].todo : e.of = u /\ e.at = i
        <5>1. CASE u = t /\ i = n
          <6>1. proc[q].market # proc[p].market
            BY <2>10, <4>2, <5>1 DEF LookersApart
          <6> QED BY <2>3, <2>5, <4>2, <5>1, <6>1
        <5>2. CASE i \in OpenRows(ledger[u]) /\ ledger'[u][i] = ledger[u][i]
          BY <4>1, <4>2, <5>2 DEF Checked
        <5> QED BY <2>8, <2>9, <4>2, <5>1, <5>2
      <4> QED BY <4>1, <4>2 DEF Checked, PrimaryLook, Looking, ForPrimary
    <3> QED BY <3>1, <3>2 DEF AllChecked
  <2>e. OneOpenRow'
    <3> SUFFICES ASSUME NEW u \in Primary, NEW v \in Primary, NEW i \in OpenRows(ledger'[u]),
                        NEW j \in OpenRows(ledger'[v]),
                        ledger'[u][i].market = ledger'[v][j].market
                 PROVE  u = v /\ i = j
      BY DEF OneOpenRow
    <3>1. CASE u = t /\ i = n /\ v = t /\ j = n
      BY <3>1
    <3>2. CASE u = t /\ i = n /\ j \in OpenRows(ledger[v]) /\ ledger'[v][j] = ledger[v][j]
      BY <2>5, <2>11, <3>2
    <3>3. CASE v = t /\ j = n /\ i \in OpenRows(ledger[u]) /\ ledger'[u][i] = ledger[u][i]
      BY <2>5, <2>11, <3>3
    <3>4. CASE /\ i \in OpenRows(ledger[u]) /\ ledger'[u][i] = ledger[u][i]
               /\ j \in OpenRows(ledger[v]) /\ ledger'[v][j] = ledger[v][j]
      BY <3>4 DEF OneOpenRow
    <3> QED BY <2>8, <2>9, <3>1, <3>2, <3>3, <3>4
  <2>f. OrderInv'
    BY <1>0 DEF Holds, OrderInv
  <2> QED BY <2>a, <2>b, <2>c, <2>d, <2>e, <2>f
<1> QED BY <1>1, <1>2

\* An attempt after its look, and the turns.
LEMMA AttemptExposure ==
  ASSUME ExposureInv, NEW p \in Proc,
         \/ SkipPlacement(p) \/ PrepareOrder(p) \/ PrepareFails(p) \/ PreSubmitCheck(p)
         \/ PostOrder(p) \/ ReplyAccepted(p) \/ ReplyRefused(p) \/ ReplyUncertain(p)
  PROVE  ExposureInv'
<1>0. Holds
  BY SkipPlacementHolds, PrepareOrderHolds, PrepareFailsHolds, PreSubmitCheckHolds,
     PostOrderHolds, ReplyAcceptedHolds, ReplyRefusedHolds, ReplyUncertainHolds DEF ExposureInv
<1>1. UNCHANGED <<files, consumer>> /\ InCycle(proc[p])
  BY DEF SkipPlacement, PrepareOrder, PrepareFails, PreSubmitCheck, PostOrder, ReplyAccepted,
         ReplyRefused, ReplyUncertain, InCycle
<1>2. CASE Goto(p, At("place", proc[p].turn))
  BY <1>0, <1>1, <1>2, AtExposure
<1>3. ASSUME NEW l, Goto(p, l), l.step \in {"guard", "post", "reply"}, l.job = proc[p].job
      PROVE  ExposureInv'
  <2>1. Away(l) /\ l.step # "prepare"
    BY <1>3 DEF Away, Looking
  <2> QED BY <1>0, <1>1, <1>3, <2>1, OnExposure
<1>p. proc[p] \in Local
  BY TurnOK DEF ExposureInv
<1>4. CASE PrepareOrder(p)
  <2>1. PICK o \in Order :
           Goto(p, IF Open(RowOf(Mine(p)))
                     THEN [proc[p] EXCEPT !.step = "guard",
                                          !.entry = {[Mine(p) EXCEPT !.order_id = o]}]
                     ELSE At("place", proc[p].turn))
    BY <1>4 DEF PrepareOrder
  <2> DEFINE l == [proc[p] EXCEPT !.step = "guard", !.entry = {[Mine(p) EXCEPT !.order_id = o]}]
  <2>2. l.step = "guard" /\ l.job = proc[p].job
    BY <1>p DEF Local
  <2>3. Goto(p, l) \/ Goto(p, At("place", proc[p].turn))
    BY <2>1
  <2> HIDE DEF l
  <2> QED BY <1>2, <1>3, <2>2, <2>3
<1>5. CASE PreSubmitCheck(p)
  <2> DEFINE l == [proc[p] EXCEPT !.step = "post"]
  <2>1. Goto(p, l) \/ Goto(p, At("place", proc[p].turn))
    BY <1>5 DEF PreSubmitCheck, Conclude
  <2>2. l.step = "post" /\ l.job = proc[p].job
    BY <1>p DEF Local
  <2> HIDE DEF l
  <2> QED BY <1>2, <1>3, <2>1, <2>2
<1>6. CASE PostOrder(p)
  <2> DEFINE l == [proc[p] EXCEPT !.step = "reply"]
  <2>1. Goto(p, l)
    BY <1>6 DEF PostOrder
  <2>2. l.step = "reply" /\ l.job = proc[p].job
    BY <1>p DEF Local
  <2> HIDE DEF l
  <2> QED BY <1>3, <2>1, <2>2
<1>7. CASE \/ SkipPlacement(p) \/ PrepareFails(p)
           \/ ReplyAccepted(p) \/ ReplyRefused(p) \/ ReplyUncertain(p)
  <2>1. Goto(p, At("place", proc[p].turn))
    BY <1>7 DEF SkipPlacement, PrepareFails, ReplyAccepted, ReplyRefused, ReplyUncertain, Conclude
  <2> QED BY <1>2, <2>1
<1> QED BY <1>4, <1>5, <1>6, <1>7

LEMMA TurnExposure ==
  ASSUME ExposureInv, NEW p \in Proc, NextTrader(p) \/ Crash(p)
  PROVE  ExposureInv'
<1>0. Holds /\ UNCHANGED files
  BY NextTraderHolds, CrashHolds DEF ExposureInv, NextTrader, Crash
<1>1. CASE Leave(p)
  BY <1>0, <1>1, LeaveExposure
<1>2. CASE NextTrader(p) /\ ~Leave(p)
  <2>1. Goto(p, At("refresh", proc[p].turn + 1)) /\ UNCHANGED consumer
    BY <1>2 DEF NextTrader
  <2>2. InCycle(proc[p])
    BY <1>2 DEF NextTrader, InCycle
  <2> QED BY <1>0, <2>1, <2>2, AtExposure
<1> QED BY <1>1, <1>2 DEF Crash

\* The exchange, the operator, and steps of nobody.
LEMMA ElsewhereExposure ==
  ASSUME ExposureInv, Holds, UNCHANGED <<ledger, files, consumer, proc>>
  PROVE  ExposureInv'
<1> USE DEF ExposureInv, Exposure
<1>1. RowsOnFile' /\ OneOpenRow'
  BY DEF RowsOnFile, OneOpenRow, OpenRows
<1>2. Guarded'
  BY DEF Guarded, KeyFits, InCycle, Looking, ForPrimary
<1>3. LookersApart'
  BY DEF LookersApart, PrimaryLook, Looking, ForPrimary
<1>4. AllChecked'
  BY DEF AllChecked, Checked, PrimaryLook, Looking, ForPrimary, OpenRows
<1>5. OrderInv'
  BY DEF Holds, OrderInv
<1> QED BY <1>1, <1>2, <1>3, <1>4, <1>5

LEMMA NextExposure ==
  ASSUME ExposureInv, [Next]_vars
  PROVE  ExposureInv'
<1>1. ASSUME NEW p \in Proc, Step(p)
      PROVE  ExposureInv'
  <2>1. CASE Sweeping(p)
    BY <2>1, ListOrdersExposure, ExamineExposure, CancelExposure, EndExposure,
       EndRecheckExposure DEF Sweeping
  <2>2. CASE Submitting(p)
    BY <2>2, TakeLockExposure, JournalExposure, AttemptExposure DEF Submitting
  <2> QED BY <1>1, <2>1, <2>2, CycleExposure, TurnExposure DEF Step
<1>2. ASSUME NEW p \in Proc, Option(p)
      PROVE  ExposureInv'
  BY <1>2, CycleExposure, ListFailsExposure, CancelExposure, AskForLockExposure, AttemptExposure,
     TurnExposure DEF Option
<1>3. ASSUME NEW o \in Order, Exchange(o)
      PROVE  ExposureInv'
  <2>1. Holds
    BY <1>3, ExchangeHolds DEF ExposureInv
  <2>2. UNCHANGED <<ledger, files, consumer, proc>>
    BY <1>3 DEF Exchange, Land, Refuse, Lose, CloseOnExchange, OnExchange, Fill, SettleTrades
  <2> QED BY <2>1, <2>2, ElsewhereExposure
<1>4. CASE Pause \/ Unpause \/ UNCHANGED vars
  <2>1. Holds
    <3>1. CASE Pause
      <4>1. paused' \in BOOLEAN /\ pauses' \in 0 .. MaxPauses
        BY <3>1, Constants DEF Pause, ExposureInv, OrderInv, Types, RestType
      <4> QED BY <3>1, <4>1, OperatorHolds DEF Pause, ExposureInv
    <3>2. CASE Unpause
      <4>1. paused' \in BOOLEAN /\ pauses' \in 0 .. MaxPauses
        BY <3>2 DEF Unpause, ExposureInv, OrderInv, Types, RestType
      <4> QED BY <3>2, <4>1, OperatorHolds DEF Unpause, ExposureInv
    <3> QED BY <1>4, <3>1, <3>2, StutterHolds DEF ExposureInv
  <2>2. UNCHANGED <<ledger, files, consumer, proc>>
    BY <1>4 DEF Pause, Unpause, vars
  <2> QED BY <2>1, <2>2, ElsewhereExposure
<1> QED BY <1>1, <1>2, <1>3, <1>4 DEF Next

LEMMA InitExposure ==
  ASSUME Init, SafeDeployments
  PROVE  ExposureInv
<1>1. PICK d \in Deployments :
         /\ files = d.ledgers
         /\ consumer = IF d.locked THEN NoProc ELSE NoLock
         /\ proc = [p \in Proc |-> IF p \in d.running THEN Idle ELSE At("absent", 1)]
  BY DEF Init
<1>2. consumer = NoLock => Primary \subseteq files
  BY <1>1, Constants DEF SafeDeployments
<1>3. \A p \in Proc : proc[p].step \in {"idle", "absent"}
  BY <1>1 DEF Idle, At
<1>4. \A p \in Proc : ~InCycle(proc[p]) /\ KeyFits(proc[p]) /\ ~PrimaryLook(proc[p])
  BY <1>3 DEF InCycle, KeyFits, PrimaryLook, Looking
<1>5. RowsOnFile /\ OneOpenRow
  <2>1. \A t \in Trader : ledger[t] = <<>> /\ DOMAIN ledger[t] = {}
    BY DEF Init
  <2>2. Primary \subseteq Trader
    BY PrimaryAssumption DEF PrimaryAssumption
  <2> QED BY <2>1, <2>2 DEF RowsOnFile, OneOpenRow, OpenRows
<1>6. Guarded /\ LookersApart
  BY <1>2, <1>4 DEF Guarded, LookersApart
<1>7. AllChecked
  BY <1>3, <1>4 DEF AllChecked, Checked
<1> QED BY <1>5, <1>6, <1>7, InitHolds DEF ExposureInv, Exposure

\* Two orders at risk on one market would be two open rows on it.
LEMMA FactsOneExposure ==
  ASSUME ExposureInv
  PROVE  OneExposurePerMarket
<1> SUFFICES ASSUME NEW a \in RowIds, NEW b \in RowIds, a[1] \in Primary, b[1] \in Primary,
                    RowAt(a).market = RowAt(b).market,
                    AtRisk(RowAt(a).order_id), AtRisk(RowAt(b).order_id)
             PROVE  a = b
  BY DEF OneExposurePerMarket
<1>1. /\ a = <<a[1], a[2]>> /\ b = <<b[1], b[2]>>
      /\ a[1] \in Trader /\ a[2] \in DOMAIN ledger[a[1]]
      /\ b[1] \in Trader /\ b[2] \in DOMAIN ledger[b[1]]
      /\ RowAt(a) = ledger[a[1]][a[2]] /\ RowAt(b) = ledger[b[1]][b[2]]
  BY IdsAreRows DEF ExposureInv, OrderInv, Types
<1>2. ASSUME NEW t \in Trader, NEW i \in DOMAIN ledger[t], AtRisk(ledger[t][i].order_id)
      PROVE  i \in OpenRows(ledger[t])
  <2>1. ledger[t] \in Seq(Row)
    BY DEF ExposureInv, OrderInv, Types, LedgerType
  <2>2. ledger[t][i] \in Row /\ Fits(ledger[t][i])
    BY <2>1 DEF ExposureInv, OrderInv, Facts, RowsFit
  <2> QED BY <1>2, <2>2 DEF OpenRows, Open, Fits, Row
<1>3. a[2] \in OpenRows(ledger[a[1]]) /\ b[2] \in OpenRows(ledger[b[1]])
  BY <1>1, <1>2
<1>4. a[1] = b[1] /\ a[2] = b[2]
  BY <1>1, <1>3 DEF ExposureInv, Exposure, OneOpenRow
<1> QED BY <1>1, <1>4

-----------------------------------------------------------------------------
(* Theorems. *)

\* The inductive invariant.
LEMMA OrderInvariant == Spec => []OrderInv
<1>1. OrderInv /\ [Next]_vars => OrderInv'
  BY NextHolds
<1> QED BY InitHolds, <1>1, PTL DEF Spec

\* Every reachable state has its types: ledgers stay within their rows, processes
\* within their entries and listings.
THEOREM OrdersTypeCorrect == Spec => []TypeOK
<1>1. OrderInv => TypeOK
  BY TypesTypeOK DEF OrderInv
<1> QED BY <1>1, OrderInvariant, PTL

\* An order that reached the wire is the order of exactly one saved row
\* (_record_prepared_order_id before the POST), whatever died or was lost since.
THEOREM WireOrdersHaveRows == Spec => []DurableIdentity
<1>1. OrderInv => DurableIdentity
  BY FactsDurableIdentity
<1> QED BY <1>1, OrderInvariant, PTL

\* A cancelled row's order can no longer execute, and has not (cancel_bet as
\* recovery, refresh, cleanup and a refused or paused submission call it).
THEOREM RowsCloseOnEvidence == Spec => []ClosedOnEvidence
<1>1. OrderInv => ClosedOnEvidence
  BY FactsClosedOnEvidence
<1> QED BY <1>1, OrderInvariant, PTL

\* A position has exactly the shares its closed order filled
\* (convert_limit_bet_to_position, called from stale entries and late answers).
THEOREM PositionsAreFills == Spec => []PositionsMatchFills
<1>1. OrderInv => PositionsMatchFills
  BY FactsPositionsMatchFills
<1> QED BY <1>1, OrderInvariant, PTL

\* A row keeps its order, a position its shares, a cancelled row its end: no
\* write of BetLedger made from a stale read takes any of them back.
THEOREM RowsKeepTheirOwnership == Spec => OwnershipPermanent
<1>1. OrderInv /\ [Next]_vars => [Kept]_vars
  BY NextHolds
<1>2. Spec => [][Kept]_vars
  BY <1>1, OrderInvariant, PTL DEF Spec
<1> QED BY <1>2, PTL DEF OwnershipPermanent, Kept

\* The coordinated traders hold one order or position on a market, if every
\* deployment has the locked cycles (refresh_trading_lock), or starts with the
\* ledgers that name the placement lock (_coordinated_ledger_paths).
THEOREM CoordinatedTradersExposedOnce ==
  ASSUME SafeDeployments
  PROVE  Spec => []OneExposurePerMarket
<1>1. Init => ExposureInv
  BY InitExposure
<1>2. ExposureInv /\ [Next]_vars => ExposureInv'
  BY NextExposure
<1>3. ExposureInv => OneExposurePerMarket
  BY FactsOneExposure
<1> QED BY <1>1, <1>2, <1>3, PTL DEF Spec
=============================================================================
