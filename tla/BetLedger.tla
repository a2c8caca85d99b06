---------------------------- MODULE BetLedger ----------------------------
(***************************************************************************)
(* One trader's bet ledger (src/polymarket/tracker.py, BetLedger): a list  *)
(* of rows kept in one JSON file.  Every mutation takes the file's lock,   *)
(* reads the file again, changes one row and replaces the file, so each    *)
(* is one operator from the rows to the rows.                              *)
(*                                                                         *)
(* A row's index stands for its id (ids count up and rows stay).  Amounts, *)
(* prices and names are left out; filled is the share count of the fill    *)
(* the row has recorded.                                                   *)
(***************************************************************************)
EXTENDS Naturals, Sequences

CONSTANTS
  Market,   \* market ids
  Order,    \* exchange order ids (the hash of a signed order)
  NoId,     \* the row has no durable order id
  Shares    \* how many shares one order asks for

ASSUME NoIdAssumption == NoId \notin Order
ASSUME SharesAssumption == Shares \in Nat \ {0}

Placements == {"pending_submit", "unknown", "submitted", "filled", "failed"}

Row == [market    : Market,
        order_id  : Order \cup {NoId},
        status    : {"open", "cancelled"},
        type      : {"limit", "filled_limit"},
        placement : Placements,
        filled    : 0 .. Shares]

Open(row) == row.status = "open"

\* No confirmed fill yet: the exchange may still hold or execute the order.
Unresolved(row) == row.placement \in {"pending_submit", "unknown", "submitted"}

OpenRows(rows) == {i \in DOMAIN rows : Open(rows[i])}

\* The row journalled before a live order is built.
AddBet(rows, m) ==
  Append(rows, [market |-> m, order_id |-> NoId, status |-> "open",
                type |-> "limit", placement |-> "pending_submit", filled |-> 0])

\* Mutant: the patch writes back the row as its writer last read it.
SetPlacementStale(rows, i, state) ==
  [rows EXCEPT ![i].placement = state, ![i].type = "limit", ![i].filled = 0]

\* update_bet_fields: only an open row is patched.
SetPlacement(rows, i, state) ==
  IF Open(rows[i]) THEN [rows EXCEPT ![i].placement = state] ELSE rows

SetOrderId(rows, i, o) ==
  IF Open(rows[i]) THEN [rows EXCEPT ![i].order_id = o] ELSE rows

\* cancel_bet, as a refused submission calls it: whatever the order type.
FailBet(rows, i) ==
  IF Open(rows[i])
    THEN [rows EXCEPT ![i].status = "cancelled", ![i].placement = "failed"]
    ELSE rows

Resting(row) == Open(row) /\ row.type = "limit"

\* cancel_bet(expected_order_types): a position is never cancelled this way.
CancelBet(rows, i) ==
  IF Resting(rows[i]) THEN [rows EXCEPT ![i].status = "cancelled"] ELSE rows

\* Mutant: a fill is booked without asking whether it was booked before.
ConvertBetAgain(rows, i, n) ==
  [rows EXCEPT ![i].type = "filled_limit", ![i].placement = "filled", ![i].filled = @ + n]

\* convert_limit_bet_to_position
ConvertBet(rows, i, n) ==
  IF Resting(rows[i])
    THEN [rows EXCEPT ![i].type = "filled_limit", ![i].placement = "filled",
                      ![i].filled = n]
    ELSE rows
=============================================================================
