--------------------------------- MODULE MCRtcp ---------------------------------
(***************************************************************************)
(* An instance of Rtcp for TLC.                                            *)
(***************************************************************************)
EXTENDS Rtcp

CONSTANTS a, b

Both == {a, b}

\* The clocks differ, and the time stamps of a wrap while reports are under way.
Clocks == [e \in Both |-> IF e = a THEN 6 ELSE 1]
=============================================================================
