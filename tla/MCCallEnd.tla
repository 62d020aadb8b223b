------------------------------- MODULE MCCallEnd -------------------------------
(***************************************************************************)
(* An instance of CallEnd for TLC, with the two ends of MCRtcp.            *)
(***************************************************************************)
EXTENDS CallEnd, MCRtcp
=============================================================================
