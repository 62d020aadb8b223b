------------------------------- MODULE RTPStats -------------------------------
(***************************************************************************)
(* The receive statistics of core/rtp/stats.go as operators on their       *)
(* record: the counters of received and lost packets and the extended      *)
(* highest sequence number of RFC 3550.  Wrap and Half stand for 65536   *)
(* and 0x8000.  The inter-arrival jitter, a floating-point average of      *)
(* arrival times, is left out.                                             *)
(***************************************************************************)
EXTENDS Integers

CONSTANTS Wrap, Half

NewStats == [received |-> 0, lost |-> 0, lastSeq |-> 0, initialized |-> FALSE,
             rollover |-> 0, highest |-> 0]

First(s, seq) ==
    [s EXCEPT !.lastSeq = seq, !.initialized = TRUE, !.received = 1, !.highest = seq]

\* Slip: compared after lastSeq has been overwritten.
RolloverLate(s, seq) == s.rollover

\* rollover is a uint16 too.
Rollover(s, seq) ==
    IF seq - s.lastSeq < -Half THEN (s.rollover + 1) % Wrap ELSE s.rollover

\* The numbers between the last packet and this one, going up and around.
Gap(s, seq) ==
    LET diff == (seq - s.lastSeq) % Wrap
    IN  IF diff > 1 THEN diff - 1 ELSE 0

Following(s, seq) ==
    LET roll == Rollover(s, seq)
        extended == roll * Wrap + seq
    IN  [s EXCEPT !.received = @ + 1,
                  !.lost = @ + Gap(s, seq),
                  !.lastSeq = seq,
                  !.rollover = roll,
                  !.highest = IF extended > @ THEN extended ELSE @]

Update(s, seq) == IF s.initialized THEN Following(s, seq) ELSE First(s, seq)
=============================================================================
