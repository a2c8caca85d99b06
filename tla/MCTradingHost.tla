--------------------------- MODULE MCTradingHost ---------------------------
(***************************************************************************)
(* Two starts of the service, so that one may outlive the other's worker,  *)
(* and three cycles, so that a failure can come, go and come back.         *)
(***************************************************************************)
EXTENDS TradingHost
=============================================================================
