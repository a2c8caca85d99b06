---------------------- MODULE MCIncrementalRefresh ----------------------
(* Three jobs started in any order by command-line runs, with and without *)
(* the retry of unanswered requests.                                      *)
EXTENDS IncrementalRefresh, TLC

Symmetry == Permutations(Jobs)
=============================================================================
