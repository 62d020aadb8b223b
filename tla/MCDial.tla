-------------------------------- MODULE MCDial --------------------------------
(***************************************************************************)
(* Instances of Dial for TLC.                                              *)
(***************************************************************************)
EXTENDS Dial

Setting(srtp, early, rtcp, cancel, timed) ==
    [srtp |-> srtp, early |-> early, rtcp |-> rtcp, cancel |-> cancel, timed |-> timed]

\* A plain call with RTCP that the script hangs up, and a timed encrypted one
\* with early media that may be cancelled.
Mixed == {Setting(FALSE, FALSE, TRUE, FALSE, FALSE), Setting(TRUE, TRUE, FALSE, TRUE, TRUE)}
=============================================================================
