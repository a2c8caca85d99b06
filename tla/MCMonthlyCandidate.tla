------------------------ MODULE MCMonthlyCandidate ------------------------
(* Two calendar loops over one week and the start of the next. *)
EXTENDS MonthlyCandidate, TLC

MCWeeks == 0 .. 1
Symmetry == Permutations(Procs)
=============================================================================
