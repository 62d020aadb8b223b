------------------------------- MODULE RtcpProofs -------------------------------
(***************************************************************************)
(* Proofs about Rtcp, for clocks of any offset, time stamps of any range   *)
(* and any number of reports: answers are whole, and the socket is closed  *)
(* when nobody uses it.                                                    *)
(***************************************************************************)
EXTENDS Rtcp, TLAPS

\* What an end has taken down is one report, sent before it was taken down.
KeptIsWhole(e) ==
    last[e].of # "none" => /\ last[e].of \in Ends
                           /\ last[e].ntp = Compact(last[e].of, last[e].sent)
                           /\ last[e].sent <= last[e].at /\ last[e].at <= now

\* A sender report under way is stamped by the clock of the end that sent it.
Stamped ==
    \A m \in network : m.kind = "SR" => m.ntp = Compact(Peer(m.to), m.sent) /\ m.sent <= now

Threads ==
    \A e \in Ends : /\ reader[e] = "answer" => last[e].of # "none"
                    /\ sender[e] \in {"closing", "gone"} => reader[e] = "gone"

IInv ==
    /\ RtcpTypeOK /\ Stamped /\ AnswerIsWhole /\ ClosedUnused /\ Threads
    /\ \A e \in Ends : KeptIsWhole(e)

-----------------------------------------------------------------------------
(* Lemmas.                                                                 *)

\* Each end is the other's peer.
LEMMA PeerType == ASSUME NEW e \in Ends PROVE Peer(e) \in Ends /\ Peer(e) # e /\ Peer(Peer(e)) = e
  <1>1. PICK f \in Ends : f # e /\ Ends = {e, f}
        BY RtcpAssumption
  <1>2. Peer(e) = f
        BY <1>1 DEF Peer
  <1>3. Peer(f) = e
        BY <1>1 DEF Peer
  <1> QED BY <1>1, <1>2, <1>3

\* A stamp is in its range.
LEMMA CompactType == ASSUME NEW e \in Ends, NEW t \in Int PROVE Compact(e, t) \in 0 .. ClockRange - 1
  BY RtcpAssumption DEF Compact

\* The initial state satisfies the invariant.
LEMMA InitInv == RtcpInit => IInv
  <1> SUFFICES ASSUME RtcpInit PROVE IInv
      OBVIOUS
  <1> USE RtcpAssumption DEF RtcpInit
  <1>1. NoReport \in Kept /\ NoTrip \in Trips
        BY DEF NoReport, NoTrip, Kept, Writers, Trips
  <1>2. RtcpTypeOK
        BY <1>1 DEF RtcpTypeOK
  <1>4. \A e \in Ends : KeptIsWhole(e)
        BY DEF KeptIsWhole, NoReport
  <1> QED BY <1>2, <1>4 DEF IInv, Stamped, AnswerIsWhole, ClosedUnused, Threads

-----------------------------------------------------------------------------
(* The threads.                                                            *)

\* Time passes, and calls are torn down.
LEMMA TickInv == ASSUME IInv, Tick PROVE IInv'
  <1> USE DEF IInv, Tick, threadVars
  <1>1. RtcpTypeOK'
        BY DEF RtcpTypeOK
  <1>2. now \in Nat /\ now' = now + 1
        BY DEF RtcpTypeOK
  <1>3. Stamped'
    <2>1. \A m \in network : m.kind = "SR" => m.sent \in Nat
          BY DEF RtcpTypeOK, Reports
    <2> QED BY <1>2, <2>1 DEF Stamped
  <1>4. \A e \in Ends : KeptIsWhole(e)'
    <2>1. \A e \in Ends : last[e].at \in Int
          BY DEF RtcpTypeOK, Kept
    <2> QED BY <1>2, <2>1 DEF KeptIsWhole
  <1>5. AnswerIsWhole' /\ ClosedUnused' /\ Threads'
        BY DEF AnswerIsWhole, ClosedUnused, Threads
  <1> QED BY <1>1, <1>3, <1>4, <1>5

\* The end of a call, seen from Run, and the reader without a packet.
LEMMA QuietInv ==
    ASSUME IInv, NEW e \in Ends, CloseRTCP(e) \/ Run(e) \/ CheckStop(e) \/ ReadTimeout(e)
    PROVE  IInv'
  <1> USE DEF IInv, Run, RunStops, RunReturns, CloseSocket, CloseRTCP, CheckStop, ReadTimeout
  <1>1. UNCHANGED <<now, reports, last, rtt, network>>
        OBVIOUS
  <1>2. /\ sender' \in [Ends -> {"select", "done?", "closing", "gone"}]
        /\ reader' \in [Ends -> {"check", "read", "answer", "gone"}]
        /\ ending' \subseteq Ends /\ closed' \subseteq Ends
        BY DEF RtcpTypeOK
  <1>3. RtcpTypeOK'
        BY <1>1, <1>2 DEF RtcpTypeOK
  <1>4. Stamped' /\ AnswerIsWhole' /\ \A f \in Ends : KeptIsWhole(f)'
        BY <1>1 DEF Stamped, AnswerIsWhole, KeptIsWhole
  <1>5. ClosedUnused' /\ Threads'
        BY <1>1 DEF ClosedUnused, Threads, RtcpTypeOK
  <1> QED BY <1>3, <1>4, <1>5

-----------------------------------------------------------------------------
(* The reports.                                                            *)

\* A sender report is stamped and taken down.
LEMMA SendSRInv == ASSUME IInv, NEW e \in Ends, SendSR(e) PROVE IInv'
  <1> USE DEF IInv, SendSR, threadVars
  <1> DEFINE m == [to |-> Peer(e), kind |-> "SR", ntp |-> Compact(e, now), sent |-> now]
             k == [ntp |-> Compact(e, now), at |-> now, of |-> e, sent |-> now]
  <1>1. /\ last' = [last EXCEPT ![e] = k] /\ network' = network \union {m}
        /\ reports' = [reports EXCEPT ![e] = @ + 1]
        /\ now \in Nat /\ UNCHANGED <<now, rtt, sender, reader, ending, closed>>
        BY DEF RtcpTypeOK
  <1>2. Compact(e, now) \in 0 .. ClockRange - 1 /\ Peer(e) \in Ends /\ Peer(Peer(e)) = e
        BY <1>1, CompactType, PeerType
  <1>3. RtcpTypeOK'
    <2>1. k \in Kept /\ m \in Reports
          BY <1>1, <1>2 DEF Kept, Reports, Writers
    <2> HIDE DEF k, m
    <2> QED BY <1>1, <2>1 DEF RtcpTypeOK
  <1>4. Stamped'
        BY <1>1, <1>2 DEF Stamped, Compact
  <1>5. AnswerIsWhole'
        BY <1>1 DEF AnswerIsWhole, Compact
  <1>6. ASSUME NEW f \in Ends PROVE KeptIsWhole(f)'
    <2>1. CASE f = e
          BY <1>1, <1>3, <2>1 DEF KeptIsWhole, RtcpTypeOK, Compact
    <2>2. CASE f # e
          BY <1>1, <2>2 DEF KeptIsWhole, Compact, RtcpTypeOK
    <2> QED BY <2>1, <2>2
  <1>7. Threads'
    <2>1. \A f \in Ends : last'[f].of = IF f = e THEN e ELSE last[f].of
          BY <1>1 DEF RtcpTypeOK
    <2> QED BY <1>1, <2>1, RtcpAssumption DEF Threads
  <1>8. ClosedUnused'
        BY <1>1 DEF ClosedUnused
  <1> QED BY <1>3, <1>4, <1>5, <1>6, <1>7, <1>8

\* A sender report of the peer is taken down.
LEMMA ParseSRInv == ASSUME IInv, NEW e \in Ends, NEW m \in network, ParseSR(e, m) PROVE IInv'
  <1> USE DEF IInv, ParseSR
  <1> DEFINE k == [ntp |-> m.ntp, at |-> now, of |-> Peer(e), sent |-> m.sent]
  <1>1. /\ last' = [last EXCEPT ![e] = k] /\ network' = network \ {m}
        /\ reader' = [reader EXCEPT ![e] = "answer"] /\ reader[e] = "read"
        /\ now \in Nat /\ UNCHANGED <<now, reports, rtt, sender, ending, closed>>
        BY DEF RtcpTypeOK
  <1>2. /\ Peer(e) \in Ends /\ m.sent \in Nat /\ m.ntp \in 0 .. ClockRange - 1
        /\ m.ntp = Compact(Peer(e), m.sent) /\ m.sent <= now
        BY PeerType DEF RtcpTypeOK, Reports, Stamped
  <1>3. RtcpTypeOK'
    <2>1. k \in Kept
          BY <1>1, <1>2 DEF Kept, Writers
    <2> HIDE DEF k
    <2> QED BY <1>1, <2>1 DEF RtcpTypeOK
  <1>4. Stamped' /\ AnswerIsWhole' /\ ClosedUnused'
        BY <1>1 DEF Stamped, AnswerIsWhole, ClosedUnused, Threads, RtcpTypeOK, Compact
  <1>5. ASSUME NEW f \in Ends PROVE KeptIsWhole(f)'
    <2>1. CASE f = e
          BY <1>1, <1>2, <2>1 DEF KeptIsWhole, RtcpTypeOK, Compact
    <2>2. CASE f # e
          BY <1>1, <2>2 DEF KeptIsWhole, Compact, RtcpTypeOK
    <2> QED BY <2>1, <2>2
  <1>6. Threads'
    <2>1. \A f \in Ends : last'[f].of = IF f = e THEN Peer(e) ELSE last[f].of
          BY <1>1 DEF RtcpTypeOK
    <2> QED BY <1>1, <1>2, <2>1, RtcpAssumption DEF Threads, RtcpTypeOK
  <1> QED BY <1>3, <1>4, <1>5, <1>6

\* The answer is built of what was taken down last.
LEMMA BuildRRInv == ASSUME IInv, NEW e \in Ends, NEW j \in Jitters, BuildRR(e, j) PROVE IInv'
  <1> USE DEF IInv, BuildRR
  <1> DEFINE m == [to |-> Peer(e), kind |-> "RR", jitter |-> j, lsr |-> last[e].ntp,
                   dlsr |-> now - last[e].at, of |-> last[e].of, sent |-> last[e].sent, built |-> now]
  <1>1. /\ network' = network \union {m}
        /\ reader' = [reader EXCEPT ![e] = "check"] /\ reader[e] = "answer"
        /\ now \in Nat /\ UNCHANGED <<now, reports, last, rtt, sender, ending, closed>>
        BY DEF RtcpTypeOK
  <1>2. /\ last[e].ntp \in 0 .. ClockRange - 1 /\ last[e].at \in Int /\ last[e].sent \in Nat
        /\ last[e].of \in Ends /\ last[e].ntp = Compact(last[e].of, last[e].sent)
        /\ last[e].sent <= last[e].at /\ last[e].at <= now
        BY <1>1 DEF RtcpTypeOK, Kept, Threads, KeptIsWhole
  <1>3. RtcpTypeOK'
    <2>1. m \in Reports
          BY <1>1, <1>2, PeerType DEF Reports, Writers
    <2> HIDE DEF m
    <2> QED BY <1>1, <2>1 DEF RtcpTypeOK
  <1>4. AnswerIsWhole'
    <2>1. m.of = last[e].of /\ m.lsr = last[e].ntp /\ m.sent = last[e].sent
            /\ m.built - m.dlsr = last[e].at /\ m.built = now
          BY <1>1, <1>2
    <2> HIDE DEF m
    <2> QED BY <1>1, <1>2, <2>1 DEF AnswerIsWhole, Compact
  <1>5. Stamped' /\ ClosedUnused' /\ \A f \in Ends : KeptIsWhole(f)'
        BY <1>1 DEF Stamped, ClosedUnused, KeptIsWhole, Compact, RtcpTypeOK
  <1>6. Threads'
        BY <1>1 DEF Threads, RtcpTypeOK
  <1> QED BY <1>3, <1>4, <1>5, <1>6

\* A receiver report is read.
LEMMA ParseRRInv == ASSUME IInv, NEW e \in Ends, NEW m \in network, ParseRR(e, m) PROVE IInv'
  <1> USE DEF IInv, ParseRR
  <1> DEFINE r == [units |-> Units(Compact(e, now), m), meant |-> Meant(Compact(e, now), m)]
  <1>1. /\ network' = network \ {m} /\ rtt' \in {rtt, [rtt EXCEPT ![e] = r]}
        /\ reader' = [reader EXCEPT ![e] = "check"] /\ reader[e] = "read"
        /\ now \in Nat /\ UNCHANGED <<now, reports, last, sender, ending, closed>>
        BY DEF RtcpTypeOK
  <1>2. m.jitter \in Int /\ m.lsr \in Int /\ m.dlsr \in Int /\ Compact(e, now) \in Int
    <2>1. m.jitter \in Jitters /\ m.lsr \in 0 .. ClockRange - 1 /\ m.dlsr \in Int
          BY DEF RtcpTypeOK, Reports
    <2>2. Compact(e, now) \in 0 .. ClockRange - 1
          BY <1>1, CompactType
    <2>3. \A x \in Jitters : x \in Int
          BY RtcpAssumption
    <2>4. \A x \in 0 .. ClockRange - 1 : x \in Int
          BY RtcpAssumption
    <2> HIDE DEF IInv, ParseRR
    <2> QED BY <2>1, <2>2, <2>3, <2>4
  <1>3. r \in Trips
    <2> DEFINE c == Compact(e, now)
               u == c - m.jitter - m.lsr   v == c - m.lsr - m.dlsr
    <2>1. u \in Int /\ v \in Int
          BY <1>2
    <2> HIDE DEF u, v
    <2>2. u % ClockRange \in 0 .. ClockRange - 1 /\ v % ClockRange \in 0 .. ClockRange - 1
          BY <2>1, RtcpAssumption
    <2> QED BY <2>2 DEF Units, Meant, Trips, u, v
  <1> HIDE DEF r
  <1>4. RtcpTypeOK'
        BY <1>1, <1>3 DEF RtcpTypeOK
  <1>5. Stamped' /\ AnswerIsWhole' /\ ClosedUnused' /\ \A f \in Ends : KeptIsWhole(f)'
        BY <1>1 DEF Stamped, AnswerIsWhole, ClosedUnused, KeptIsWhole, Compact, RtcpTypeOK, Threads
  <1>6. Threads'
        BY <1>1 DEF Threads, RtcpTypeOK
  <1> QED BY <1>4, <1>5, <1>6

-----------------------------------------------------------------------------
\* Every step keeps the invariant.
LEMMA StepInv == IInv /\ [RtcpNext]_rtcpVars => IInv'
  <1> SUFFICES ASSUME IInv, [RtcpNext]_rtcpVars PROVE IInv'
      OBVIOUS
  <1>1. CASE UNCHANGED rtcpVars
        BY <1>1 DEF rtcpVars, threadVars, IInv, RtcpTypeOK, Stamped, AnswerIsWhole, ClosedUnused,
                    Threads, KeptIsWhole
  <1> QED BY <1>1, TickInv, QuietInv, SendSRInv, ParseSRInv, BuildRRInv, ParseRRInv
          DEF RtcpNext, Loop, Answer, Receive

\* The invariant holds in every behaviour.
LEMMA Invariant == RtcpSpec => []IInv
  BY InitInv, StepInv, PTL DEF RtcpSpec

\* Every variable keeps its type: time stamps stay in their range.
THEOREM TypeCorrect == RtcpSpec => []RtcpTypeOK
  <1>1. IInv => RtcpTypeOK
        BY DEF IInv
  <1> QED BY <1>1, Invariant, PTL

\* LSR and DLSR of each answer are of one report, with any clocks, though the
\* ticker may have written in between (parseSR, buildSR, buildRR).
THEOREM Answers == RtcpSpec => []AnswerIsWhole
  <1>1. IInv => AnswerIsWhole
        BY DEF IInv
  <1> QED BY <1>1, Invariant, PTL

\* The socket is closed after both threads have let go of it (Run, dial.go).
THEOREM Closed == RtcpSpec => []ClosedUnused
  <1>1. IInv => ClosedUnused
        BY DEF IInv
  <1> QED BY <1>1, Invariant, PTL
=============================================================================
