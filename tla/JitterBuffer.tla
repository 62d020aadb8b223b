----------------------------- MODULE JitterBuffer -----------------------------
(***************************************************************************)
(* The jitter buffer of core/rtp/jitter.go as operators on its state: a    *)
(* map from sequence numbers to packets and the sequence number the next   *)
(* tick plays.  Sequence numbers are uint16 in the code; Wrap, Half and  *)
(* Slack stand for 65536, 32768 and 256.                                   *)
(***************************************************************************)
EXTENDS Integers, FiniteSets

CONSTANTS Wrap, Half, Slack

SeqNums == 0 .. (Wrap - 1)

NewJitterBuffer ==
    [packets |-> << >>, nextSeq |-> 0, started |-> FALSE, delayExpired |-> FALSE]

\* Slip: the packet whose turn it is counts as late.
TooLateByOne(jb, seq) ==
    LET delta == seq - jb.nextSeq
    IN  delta < -Slack \/ (delta <= 0 /\ delta > -Half)

\* The test of Push, on signed 32-bit integers.
TooLate(jb, seq) ==
    LET delta == seq - jb.nextSeq
    IN  delta < -Slack \/ (delta < 0 /\ delta > -Half)

Begun(jb, seq) ==
    IF jb.started THEN jb ELSE [jb EXCEPT !.started = TRUE, !.nextSeq = seq]

\* A packet overwrites one with the same number.
Push(jb, seq, pkt) ==
    LET b == Begun(jb, seq)
    IN  IF TooLate(b, seq) THEN b
        ELSE [b EXCEPT !.packets = [s \in DOMAIN b.packets \union {seq} |->
                                       IF s = seq THEN pkt ELSE b.packets[s]]]

Holds(jb, seq) == seq \in DOMAIN jb.packets

\* Slip: the head is played and left in the map.
PlayedKept(jb) ==
    [jb EXCEPT !.nextSeq = (jb.nextSeq + 1) % Wrap, !.delayExpired = TRUE]

\* One tick after the playout delay: the expected packet, if it is held,
\* leaves the map, and the next one is expected, held or not.
Played(jb) ==
    [jb EXCEPT !.packets = [s \in DOMAIN jb.packets \ {jb.nextSeq} |-> jb.packets[s]],
               !.nextSeq = (jb.nextSeq + 1) % Wrap,
               !.delayExpired = TRUE]

\* The order in which the tick after Close writes what is left: each number
\* once, by circular distance from the expected one.
FlushOrders(jb) ==
    LET Numbers == DOMAIN jb.packets
        Distance(s) == (s - jb.nextSeq) % Wrap
    IN  {order \in [1 .. Cardinality(Numbers) -> Numbers] :
            /\ \A s \in Numbers : \E n \in DOMAIN order : order[n] = s
            /\ \A m, n \in DOMAIN order : m < n => Distance(order[m]) < Distance(order[n])}
=============================================================================
