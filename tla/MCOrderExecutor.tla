------------------------- MODULE MCOrderExecutor -------------------------
(***************************************************************************)
(* Order execution with the traders S and C.  Orders and cyclers are       *)
(* interchangeable; the traders, who take turns, are not.                  *)
(***************************************************************************)
EXTENDS OrderExecutor, TLC

CONSTANTS S, C

BothTraders == <<S, C>>
OneTrader == <<S>>

\* Deployments, with interchangeable cyclers.
Fresh(running, locked) == [running |-> running, locked |-> locked, ledgers |-> {}]
OldPair == [running |-> Cyclers, locked |-> FALSE, ledgers |-> {S, C}]

TwoLocked == {Fresh(Cyclers, TRUE)}
LockedBesideCleanup == {Fresh({p} \cup Cleaners, TRUE) : p \in Cyclers}
AllButFirstUse == TwoLocked \cup LockedBesideCleanup \cup {OldPair}
FreshOldPair == {Fresh(Cyclers, FALSE)}

Interchangeable == Permutations(Order) \cup Permutations(Cyclers)
=============================================================================
