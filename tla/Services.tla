-------------------------------- MODULE Services --------------------------------
(***************************************************************************)
(* Virtual users that register with a server and a health checker that     *)
(* watches it, as a test script runs them side by side (k6ext/sip.go).     *)
(***************************************************************************)
EXTENDS Registration, HealthCheck

vars == <<up, regVars, checkVars>>

Init == up = TRUE /\ RegInit /\ CheckInit

Next == \/ Toggle /\ UNCHANGED <<regVars, checkVars>>
        \/ RegNext /\ UNCHANGED <<up, checkVars>>
        \/ CheckNext /\ UNCHANGED <<up, regVars>>

Spec == Init /\ [][Next]_vars

\* Time passes, goroutines run, and a select that always finds its context
\* cancelled takes that case sooner or later.  Nobody has to call anything.
FairSpec ==
    /\ Spec
    /\ WF_vars(Second /\ UNCHANGED <<up, checkVars>>)
    /\ \A v \in VUs : WF_vars(Returns(v) /\ UNCHANGED <<up, checkVars>>)
    /\ WF_vars(Checking /\ UNCHANGED <<up, regVars>>)
    /\ SF_vars(CheckerReturns /\ UNCHANGED <<up, regVars>>)
    /\ WF_vars(StopReturns /\ UNCHANGED <<up, regVars>>)

-----------------------------------------------------------------------------
(* Properties.                                                             *)

TypeOK == up \in BOOLEAN /\ RegTypeOK /\ CheckTypeOK

\* A client is open while its owner may send with it and no longer: from
\* Register until Register fails or Unregister is answered, and from
\* StartHealthCheck until Stop has seen the last ping end (Close in Register,
\* Unregister, Stop).
ClientsExact ==
    /\ \A v \in VUs : v \in client <=> phase[v] # "none" \/ call[v] = "register"
    /\ sipClient = "closed" => checker = "gone"
    /\ stopper = "returned" => sipClient # "open"

\* Every REGISTER returns, Stop returns, and the checker follows a server that
\* stays as it is: one that is down is reported so (ping, run, Stop).
ServicesSettle ==
    /\ \A v \in VUs : call[v] # "none" ~> call[v] = "none"
    /\ stopper = "waiting" ~> stopper = "returned"
    /\ <>[]up => <>[](healthy \/ sipClient = "none" \/ Cancelled)
    /\ <>[](~up) => <>[](~healthy \/ Cancelled)
=============================================================================
