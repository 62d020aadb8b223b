---------------------------------- MODULE Rtcp ----------------------------------
(***************************************************************************)
(* RTCP (core/rtp/rtcp.go) between two calls: each has a thread that sends *)
(* a sender report every 5 s and a thread that reads what the other sent,  *)
(* answers its sender reports with a receiver report, and takes the        *)
(* round-trip time from the receiver reports.  Reports are lost or late.   *)
(* When the stop channel closes, Run waits for the reader and the socket   *)
(* is closed (sip/dial.go).                                                *)
(***************************************************************************)
EXTENDS Integers

CONSTANTS
    Ends,
    ClockRange, \* 2^32, the range of a compact time stamp
    Offset,     \* how far the clock of an end is ahead of real time
    Jitters,    \* values of the jitter field of a receiver report
    LastTime,   \* bound: the time the model ends
    MaxReports  \* bound: sender reports of an end

ASSUME RtcpAssumption ==
    /\ (\E e, f \in Ends : e # f /\ Ends = {e, f}) /\ "none" \notin Ends
    /\ ClockRange \in Nat \ {0} /\ LastTime \in Nat /\ MaxReports \in Nat
    /\ Offset \in [Ends -> Nat] /\ Jitters \subseteq Nat

VARIABLES
    now,
    reports,    \* sender reports sent so far
    last,       \* LastSRNTPCompact, LastSRReceived: the report written last
    rtt,        \* RTTMs in its units, and what its comment means it to be (history)
    network,    \* reports under way
    sender,     \* Run: in its select, waiting for done, or returned
    reader,     \* receiveLoop: at the stop check, in ReadFrom, in buildRR, or gone
    ending, closed

threadVars == <<sender, reader, ending, closed>>
rtcpVars == <<now, reports, last, rtt, network, threadVars>>

Peer(e) == CHOOSE f \in Ends : f # e
Compact(e, t) == (t + Offset[e]) % ClockRange

\* A sender report as it is kept: its time stamp, when it was taken down; of
\* whom it was and when it was sent are history.
NoReport == [ntp |-> 0, at |-> -1, of |-> "none", sent |-> 0]
NoTrip == [units |-> 0, meant |-> 0]

RtcpInit ==
    /\ now = 0
    /\ reports = [e \in Ends |-> 0]
    /\ last = [e \in Ends |-> NoReport]
    /\ rtt = [e \in Ends |-> NoTrip]
    /\ network = {}
    /\ sender = [e \in Ends |-> "select"] /\ reader = [e \in Ends |-> "check"]
    /\ ending = {} /\ closed = {}

-----------------------------------------------------------------------------
Tick ==
    /\ now < LastTime /\ now' = now + 1
    /\ UNCHANGED <<reports, last, rtt, network, threadVars>>

\* The call is torn down.
CloseRTCP(e) ==
    /\ e \notin ending /\ ending' = ending \union {e}
    /\ UNCHANGED <<now, reports, last, rtt, network, sender, reader, closed>>

\* buildSR and WriteTo: the own report is taken down as if it had been received.
SendSR(e) ==
    /\ sender[e] = "select" /\ reports[e] < MaxReports
    /\ reports' = [reports EXCEPT ![e] = @ + 1]
    /\ last' = [last EXCEPT ![e] =
                  [ntp |-> Compact(e, now), at |-> now, of |-> e, sent |-> now]]
    /\ network' = network \union
                    {[to |-> Peer(e), kind |-> "SR", ntp |-> Compact(e, now), sent |-> now]}
    /\ UNCHANGED <<now, rtt, threadVars>>

RunStops(e) ==
    /\ sender[e] = "select" /\ e \in ending
    /\ sender' = [sender EXCEPT ![e] = "done?"]
    /\ UNCHANGED <<now, reports, last, rtt, network, reader, ending, closed>>

RunReturns(e) ==
    /\ sender[e] = "done?" /\ reader[e] = "gone"
    /\ sender' = [sender EXCEPT ![e] = "closing"]
    /\ UNCHANGED <<now, reports, last, rtt, network, reader, ending, closed>>

CloseSocket(e) ==
    /\ sender[e] = "closing"
    /\ sender' = [sender EXCEPT ![e] = "gone"]
    /\ closed' = closed \union {e}
    /\ UNCHANGED <<now, reports, last, rtt, network, reader, ending>>

-----------------------------------------------------------------------------
(* receiveLoop.                                                            *)

CheckStop(e) ==
    /\ reader[e] = "check"
    /\ reader' = [reader EXCEPT ![e] = IF e \in ending THEN "gone" ELSE "read"]
    /\ UNCHANGED <<now, reports, last, rtt, network, sender, ending, closed>>

\* Slip: without a deadline the read fails only when the socket is closed.
ReadHangs(e) ==
    /\ reader[e] = "read" /\ e \in closed
    /\ reader' = [reader EXCEPT ![e] = "check"]
    /\ UNCHANGED <<now, reports, last, rtt, network, sender, ending, closed>>

\* The deadline of a second passes, or the read fails.
ReadTimeout(e) ==
    /\ reader[e] = "read"
    /\ reader' = [reader EXCEPT ![e] = "check"]
    /\ UNCHANGED <<now, reports, last, rtt, network, sender, ending, closed>>

\* Slip: only the time stamp is taken down.
ParseSRKeepsTime(e, m) ==
    /\ reader[e] = "read" /\ m \in network /\ m.to = e /\ m.kind = "SR"
    /\ network' = network \ {m}
    /\ last' = [last EXCEPT ![e] = [ntp |-> m.ntp, at |-> @.at, of |-> Peer(e), sent |-> m.sent]]
    /\ reader' = [reader EXCEPT ![e] = "answer"]
    /\ UNCHANGED <<now, reports, rtt, sender, ending, closed>>

\* parseSR, up to its Unlock.
ParseSR(e, m) ==
    /\ reader[e] = "read" /\ m \in network /\ m.to = e /\ m.kind = "SR"
    /\ network' = network \ {m}
    /\ last' = [last EXCEPT ![e] = [ntp |-> m.ntp, at |-> now, of |-> Peer(e), sent |-> m.sent]]
    /\ reader' = [reader EXCEPT ![e] = "answer"]
    /\ UNCHANGED <<now, reports, rtt, sender, ending, closed>>

\* buildRR takes what was taken down last, maybe another report by now.
BuildRR(e, jitter) ==
    /\ reader[e] = "answer"
    /\ network' = network \union
          {[to |-> Peer(e), kind |-> "RR", jitter |-> jitter, lsr |-> last[e].ntp,
            dlsr |-> now - last[e].at, of |-> last[e].of, sent |-> last[e].sent, built |-> now]}
    /\ reader' = [reader EXCEPT ![e] = "check"]
    /\ UNCHANGED <<now, reports, last, rtt, sender, ending, closed>>

\* Bytes 20 to 27 of the packet, which parseRR reads as LSR and DLSR, are the
\* jitter and the LSR of the report block that buildRR writes.
Units(clock, m) == (clock - m.jitter - m.lsr) % ClockRange

\* The comment at the subtraction: now - LSR - DLSR.
Meant(clock, m) == (clock - m.lsr - m.dlsr) % ClockRange

ParseRR(e, m) ==
    /\ reader[e] = "read" /\ m \in network /\ m.to = e /\ m.kind = "RR"
    /\ network' = network \ {m}
    /\ rtt' = IF m.jitter = 0 THEN rtt
              ELSE [rtt EXCEPT ![e] = [units |-> Units(Compact(e, now), m),
                                       meant |-> Meant(Compact(e, now), m)]]
    /\ reader' = [reader EXCEPT ![e] = "check"]
    /\ UNCHANGED <<now, reports, last, sender, ending, closed>>

-----------------------------------------------------------------------------
Run(e) == RunStops(e) \/ RunReturns(e) \/ CloseSocket(e)
Answer(e) == \E jitter \in Jitters : BuildRR(e, jitter)
Receive(e) == \E m \in network : ParseSR(e, m) \/ ParseRR(e, m)
Loop(e) == CheckStop(e) \/ ReadTimeout(e) \/ Answer(e)

RtcpNext ==
    \/ Tick
    \/ \E e \in Ends : CloseRTCP(e) \/ SendSR(e) \/ Run(e) \/ Loop(e) \/ Receive(e)

RtcpSpec == RtcpInit /\ [][RtcpNext]_rtcpVars

\* Goroutines run, and a select with a closed channel in it takes that case
\* sooner or later.  Nobody has to stop a call, and no packet has to arrive.
RtcpFairSpec ==
    /\ RtcpSpec
    /\ \A e \in Ends : WF_rtcpVars(Run(e)) /\ WF_rtcpVars(Loop(e))

-----------------------------------------------------------------------------
(* Properties.                                                             *)

Writers == Ends \union {"none"}
Kept == [ntp : 0 .. ClockRange - 1, at : Int, of : Writers, sent : Nat]
Reports == [to : Ends, kind : {"SR"}, ntp : 0 .. ClockRange - 1, sent : Nat]
           \union [to : Ends, kind : {"RR"}, jitter : Jitters, lsr : 0 .. ClockRange - 1,
                   dlsr : Int, of : Writers, sent : Nat, built : Nat]
Trips == [units : 0 .. ClockRange - 1, meant : 0 .. ClockRange - 1]

RtcpTypeOK ==
    /\ now \in Nat /\ reports \in [Ends -> Nat]
    /\ last \in [Ends -> Kept]
    /\ rtt \in [Ends -> Trips]
    /\ network \subseteq Reports
    /\ sender \in [Ends -> {"select", "done?", "closing", "gone"}]
    /\ reader \in [Ends -> {"check", "read", "answer", "gone"}]
    /\ ending \subseteq Ends /\ closed \subseteq Ends

\* The two fields of a receiver report belong together, though the ticker
\* takes down its own report between parseSR and buildRR: LSR is the time
\* stamp of one report, and counting DLSR back from the answer leads to the
\* moment it was taken down, not before it was sent (parseSR, buildSR, buildRR).
AnswerIsWhole ==
    \A m \in network : m.kind = "RR" =>
        /\ m.of \in Ends
        /\ m.lsr = Compact(m.of, m.sent)
        /\ m.sent <= m.built - m.dlsr /\ m.built - m.dlsr <= m.built

\* The round-trip time is what rtcp.go:289 says and TestRTT_CompactNTP_Formula
\* expects: now - LSR - DLSR of the receiver report, in the units and in the
\* unsigned arithmetic of the time stamps (parseRR).
RTTAsDocumented == \A e \in Ends : rtt[e].units = rtt[e].meant

\* The socket is closed once nobody uses it: after the reader has returned
\* (Run: <-done; dial.go: Close).
ClosedUnused == \A e \in closed : reader[e] = "gone" /\ sender[e] = "gone"

\* When the call is torn down both threads return and the socket is closed,
\* whatever the peer sends or does not send (receiveLoop, Run).
RTCPEnds == \A e \in Ends : e \in ending ~> e \in closed
=============================================================================
