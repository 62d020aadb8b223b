----------------------------- MODULE DTMFCollector -----------------------------
(***************************************************************************)
(* The collector of inbound digits of core/rtp/dtmf.go as operators on its *)
(* state.  An end-of-event packet carries the RTP time stamp of the key    *)
(* press and the event code.                                               *)
(***************************************************************************)
EXTENDS Integers, Sequences

NewCollector == [digits |-> << >>, lastTS |-> 0, lastEvt |-> 0, seeded |-> FALSE]

\* Slip: the event code alone.
SameEvent(c, ts, evt) == c.seeded /\ c.lastEvt = evt

Retransmission(c, ts, evt) == c.seeded /\ c.lastTS = ts /\ c.lastEvt = evt

Accept(c, ts, evt) ==
    IF Retransmission(c, ts, evt) THEN c
    ELSE [digits |-> Append(c.digits, evt), lastTS |-> ts, lastEvt |-> evt, seeded |-> TRUE]

\* The digit that is looked for after digit d.
After(ei, d, expected) == IF ei <= Len(expected) /\ d = expected[ei] THEN ei + 1 ELSE ei

\* ei[n] is the digit looked for after n digits.
Pass(ei, digits, expected) ==
    /\ ei \in [0 .. Len(digits) -> 1 .. Len(expected) + 1]
    /\ ei[0] = 1
    /\ \A n \in 1 .. Len(digits) : ei[n] = After(ei[n - 1], digits[n], expected)

\* One pass over what was collected: the next expected digit is looked for
\* from where the last one was found.
MatchesExpected(c, expected) ==
    \E ei \in [0 .. Len(c.digits) -> 1 .. Len(expected) + 1] :
        Pass(ei, c.digits, expected) /\ ei[Len(c.digits)] > Len(expected)
===============================================================================
