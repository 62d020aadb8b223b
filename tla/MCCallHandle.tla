----------------------------- MODULE MCCallHandle -----------------------------
(* Instances of CallHandle for TLC.                                        *)
EXTENDS CallHandle

CONSTANTS c1, c2, timer

NoCaller   == {}
OneCaller  == {c1}
TwoCallers == {c1, c2}

\* A call with a stream to play: receiver, StreamPlayer and RTCP.
StreamWorkers == {"receiver", "sender", "rtcp"}
StreamFinite  == {"sender"}

\* A call in echo mode, without RTCP.
EchoWorkers == {"receiver", "echo"}
NoneFinite  == {}
=============================================================================
