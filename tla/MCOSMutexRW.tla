---------------------------- MODULE MCOSMutexRW ----------------------------
(* Model values and symmetry for the runs of OSMutexRW.                    *)
EXTENDS OSMutexRW, TLC

CONSTANTS a, b, c, d

MCSymmetry == Permutations(Threads \ Writers) \cup Permutations(Writers)
=============================================================================
