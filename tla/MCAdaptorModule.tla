-------------------------- MODULE MCAdaptorModule --------------------------
(* Model values for the runs of AdaptorModule.                             *)
EXTENDS AdaptorModule

CONSTANTS a, b, c
=============================================================================
