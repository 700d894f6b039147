--------------------------- MODULE MCClientSession ---------------------------
(* Model values for the runs of ClientSession.                             *)
EXTENDS ClientSession, TLC

CONSTANTS a, b

MCSymmetry == Permutations(Sessions)
=============================================================================
