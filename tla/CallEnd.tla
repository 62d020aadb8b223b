-------------------------------- MODULE CallEnd --------------------------------
(***************************************************************************)
(* What outlives the last packet of a call: the recorder, which the        *)
(* finalizer closes while frames are still written (Recorder), and the     *)
(* RTCP session with its two threads (Rtcp).  They share no state, so a    *)
(* behaviour of this module follows one and lets the other rest.           *)
(***************************************************************************)
EXTENDS Recorder, Rtcp

VARIABLE part   \* the part that is followed

vars == <<part, recVars, rtcpVars>>

Init ==
    /\ part \in {"recorder", "rtcp"}
    /\ RecInit /\ RtcpInit
    /\ part = "rtcp" => onDisk

InRecorder(A) == part = "recorder" /\ A /\ UNCHANGED <<part, rtcpVars>>
InRtcp(A) == part = "rtcp" /\ A /\ UNCHANGED <<part, recVars>>

Next == InRecorder(RecNext) \/ InRtcp(RtcpNext)

Spec == Init /\ [][Next]_vars

\* What RecFairSpec and RtcpFairSpec say of their parts.
FairSpec ==
    /\ Spec
    /\ WF_vars(InRecorder(ReceiverDone)) /\ WF_vars(InRecorder(Flushing))
    /\ WF_vars(InRecorder(Writer)) /\ WF_vars(InRecorder(Finalizer))
    /\ \A e \in Ends : WF_vars(InRtcp(Run(e))) /\ WF_vars(InRtcp(Loop(e)))
=============================================================================
