---------------------------- MODULE MCRegisteredUAS ----------------------------
(***************************************************************************)
(* Instances of RegisteredUAS for TLC.                                     *)
(***************************************************************************)
EXTENDS RegisteredUAS

CONSTANTS i1, i2, c1, c2

TwoInvites == {i1, i2}
TwoIDs == {c1, c2}

\* Two calls, or one call and a re-INVITE.
Apart == [i \in TwoInvites |-> IF i = i1 THEN c1 ELSE c2]
Again == [i \in TwoInvites |-> c1]

\* The registered agent: one call at a time that only a BYE ends, two capped
\* calls at a time, a re-INVITE in a call that only a BYE ends; and the plain
\* listener with a cap.  The first of them lives long enough to refresh.
Config(plain, capped, limit, refreshes, id) ==
    [plain |-> plain, capped |-> capped, limit |-> limit, ticks |-> refreshes, id |-> id]
All == {Config(FALSE, FALSE, 1, 1, Apart), Config(FALSE, TRUE, 2, 0, Apart),
        Config(FALSE, FALSE, 0, 0, Again), Config(TRUE, TRUE, 1, 0, Apart)}
=============================================================================
