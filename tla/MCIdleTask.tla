----------------------------- MODULE MCIdleTask -----------------------------
(* Model values and symmetry for the runs of IdleTask.                     *)
EXTENDS IdleTask, TLC

CONSTANTS a, b, c

MCValues == Times

MCSymmetry == Permutations(Elems)
=============================================================================
