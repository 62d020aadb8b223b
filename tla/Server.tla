--------------------------------- MODULE Server ---------------------------------
(***************************************************************************)
(* A SIP server as its clients see it: it answers or it does not.  It is   *)
(* the registrar of Registration and the target of HealthCheck.            *)
(***************************************************************************)
VARIABLE up

\* It goes down and comes back at any time, and keeps its bindings.
Toggle == up' = ~up
=============================================================================
