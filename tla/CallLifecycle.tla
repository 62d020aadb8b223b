---------------------------- MODULE CallLifecycle ----------------------------
(***************************************************************************)
(* What a call handle promises to a script (sip/handle.go): the call is    *)
(* up, its teardown begins once and for good, and it is done once.  When   *)
(* it is done the metrics have been published and every resource the call  *)
(* held is released.  At most one BYE is ever sent, and only after the     *)
(* teardown began.  CallHandle is the program; it implements this module.  *)
(***************************************************************************)
VARIABLES phase,      \* "up", "ending" or "done"
          published,  \* the metrics of the call are in the result
          released,   \* socket, codec and SIP client are closed
          byeSent     \* the BYE of this side left for the remote

vars == <<phase, published, released, byeSent>>

Init == /\ phase = "up"
        /\ published = FALSE
        /\ released = FALSE
        /\ byeSent = FALSE

\* Hangup, by whichever thread gets there first.
BeginTeardown == /\ phase = "up"
                 /\ phase' = "ending"
                 /\ UNCHANGED <<published, released, byeSent>>

\* The BYE leaves while the call is torn down and the client is open: never
\* before the teardown began, never twice, never from a released call.
SendBye == /\ phase = "ending"
           /\ ~byeSent /\ ~released
           /\ byeSent' = TRUE
           /\ UNCHANGED <<phase, published, released>>

Publish == /\ phase = "ending"
           /\ ~published /\ ~released
           /\ published' = TRUE
           /\ UNCHANGED <<phase, released, byeSent>>

Release == /\ phase = "ending"
           /\ published /\ ~released
           /\ released' = TRUE
           /\ UNCHANGED <<phase, published, byeSent>>

Finish == /\ phase = "ending"
          /\ published /\ released
          /\ phase' = "done"
          /\ UNCHANGED <<published, released, byeSent>>

Next == BeginTeardown \/ SendBye \/ Publish \/ Release \/ Finish

Spec == Init /\ [][Next]_vars
=============================================================================
