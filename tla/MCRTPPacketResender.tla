------------------------ MODULE MCRTPPacketResender ------------------------
(* The run of RTPPacketResender.                                           *)
EXTENDS RTPPacketResender
=============================================================================
