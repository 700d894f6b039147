------------------------------ MODULE MCOSHeap ------------------------------
(* Model values and symmetry for the runs of OSHeap.                       *)
EXTENDS OSHeap, TLC

CONSTANTS a, b, c, d, e, f

MCSymmetry == Permutations(Elems)
=============================================================================
