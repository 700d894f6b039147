--------------------------- MODULE MCEventContext ---------------------------
(* Model values for the run of EventContext.                               *)
EXTENDS EventContext

CONSTANTS a, b, s1, s2

(* Contexts and handles are interchangeable, so whoever opens first may as *)
(* well be a, on s1.  No fair action is cut off.                           *)
FirstIsA == opens = 0 /\ opens' = 1 => socket'[a] = 1 /\ current'[s1] = 1
=============================================================================
