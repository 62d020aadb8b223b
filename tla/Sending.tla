-------------------------------- MODULE Sending --------------------------------
(***************************************************************************)
(* The sending side of calls: the reactor with its players and the keypad  *)
(* (MediaSender), and the packet index of a stream that is encrypted       *)
(* (SrtpStream).  The first draws the numbers of any two calls, the second *)
(* follows the numbers of one stream to the far end.  They share no state, *)
(* so a behaviour of this module follows one and lets the other rest.      *)
(***************************************************************************)
EXTENDS MediaSender, SrtpStream

VARIABLE part   \* the part that is followed

vars == <<part, mediaVars, srtpVars>>

Init == part \in {"reactor", "srtp"} /\ MediaInit /\ SrtpInit

InReactor(A) == part = "reactor" /\ A /\ UNCHANGED <<part, srtpVars>>

Next == \/ InReactor(MediaNext)
        \/ part = "srtp" /\ SrtpNext /\ UNCHANGED <<part, mediaVars>>

Spec == Init /\ [][Next]_vars

\* What MediaFairSpec says of the reactor; nothing is assumed of the stream.
FairSpec ==
    /\ Spec
    /\ WF_vars(InReactor(Broadcast))
    /\ \A s \in Shards : WF_vars(InReactor(Shard(s)))
    /\ \A p \in Players : SF_vars(InReactor(ShardAdd(p)))
=============================================================================
