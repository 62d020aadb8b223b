------------------------------ MODULE MCCallGroup ------------------------------
(***************************************************************************)
(* Instances of CallGroup for TLC.                                         *)
(***************************************************************************)
EXTENDS CallGroup

CONSTANTS l1, l2, l3, s1, s2

ThreeLegs == {l1, l2, l3}
TwoScripts == {s1, s2}

\* Conferences with and without duration, a transfer, a third-party call
\* without duration and deadline, and one with both.
Config(kind, capped, deadline) == [kind |-> kind, capped |-> capped, deadline |-> deadline]
All == {Config("conference", FALSE, FALSE), Config("conference", TRUE, FALSE),
        Config("transfer", FALSE, FALSE),
        Config("threeParty", FALSE, FALSE), Config("threeParty", TRUE, TRUE)}
=============================================================================
