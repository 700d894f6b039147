--------------------------- MODULE MCTimeoutTask ---------------------------
(* Model values and symmetry for the runs of TimeoutTask.                  *)
EXTENDS TimeoutTask, TLC

CONSTANTS a, b, c

MCSymmetry == Permutations(Timers)
=============================================================================
