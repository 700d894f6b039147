--------------------------- MODULE MCTaskThread ---------------------------
(* Model values and symmetry for the runs of TaskThread.                   *)
EXTENDS TaskThread, TLC

CONSTANTS a, b, c, s1, s2, kReadEvent

MCSymmetry == Permutations(Tasks \ LockTasks) \cup Permutations(Signallers)
=============================================================================
