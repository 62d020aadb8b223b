------------------------------- MODULE MCSending -------------------------------
(***************************************************************************)
(* An instance of Sending for TLC.                                         *)
(***************************************************************************)
EXTENDS Sending

CONSTANTS p1, p2

Pair == {p1, p2}

\* One stream has a frame and shares its session with two digits, which takes
\* number and time across their wrap; the other has nothing to send.
OneFrame == [p \in Pair |-> IF p = p1 THEN 1 ELSE 0]
TwoDigits == [p \in Pair |-> IF p = p1 THEN 2 ELSE 0]
=============================================================================
