------------------------------ MODULE HealthCheck ------------------------------
(***************************************************************************)
(* A health checker (sip/healthcheck.go): a goroutine that sends OPTIONS   *)
(* over one client, at once and then at each interval, and Stop, which     *)
(* cancels it, waits for it, and closes the client.                        *)
(***************************************************************************)
EXTENDS Integers, Server

CONSTANT MaxFailures

ASSUME HealthAssumption == MaxFailures \in Nat \ {0}

VARIABLES
    checker,        \* the goroutine: in ping, in its select, or gone
    fails,          \* ConsecFails, as far as MaxFailures
    healthy,
    sipClient,      \* open, closed, or none if it could not be made
    stopper         \* who called Stop: nobody, waiting for done, returned

checkVars == <<checker, fails, healthy, sipClient, stopper>>

CheckInit ==
    /\ checker = "ping" /\ fails = 0 /\ healthy = TRUE
    /\ sipClient \in {"open", "none"}
    /\ stopper = "none"

Cancelled == stopper # "none"

\* OPTIONS is answered, with whatever status.
PingAnswered ==
    /\ checker = "ping" /\ sipClient = "open" /\ up
    /\ checker' = "select" /\ fails' = 0 /\ healthy' = TRUE
    /\ UNCHANGED <<sipClient, stopper>>

\* Slip: every failure starts the count anew.
PingFailsOnce ==
    /\ checker = "ping" /\ (sipClient # "open" \/ ~up \/ Cancelled)
    /\ checker' = "select"
    /\ fails' = 1
    /\ healthy' = (healthy /\ fails' < MaxFailures)
    /\ UNCHANGED <<sipClient, stopper>>

\* No answer within the timeout; a ping that Stop cancels counts as one.
PingFails ==
    /\ checker = "ping" /\ (sipClient # "open" \/ ~up \/ Cancelled)
    /\ checker' = "select"
    /\ fails' = IF fails < MaxFailures THEN fails + 1 ELSE fails
    /\ healthy' = (healthy /\ fails' < MaxFailures)
    /\ UNCHANGED <<sipClient, stopper>>

\* The ticker; also once more after Stop, when both cases are ready.
Interval ==
    /\ checker = "select" /\ checker' = "ping"
    /\ UNCHANGED <<fails, healthy, sipClient, stopper>>

CheckerReturns ==
    /\ checker = "select" /\ Cancelled
    /\ checker' = "gone"
    /\ UNCHANGED <<fails, healthy, sipClient, stopper>>

StopCheck ==
    /\ stopper = "none" /\ stopper' = "waiting"
    /\ UNCHANGED <<checker, fails, healthy, sipClient>>

\* Slip: Stop does not wait for the goroutine.
StopReturnsAtOnce ==
    /\ stopper = "waiting"
    /\ stopper' = "returned"
    /\ sipClient' = IF sipClient = "open" THEN "closed" ELSE sipClient
    /\ UNCHANGED <<checker, fails, healthy>>

StopReturns ==
    /\ stopper = "waiting" /\ checker = "gone"
    /\ stopper' = "returned"
    /\ sipClient' = IF sipClient = "open" THEN "closed" ELSE sipClient
    /\ UNCHANGED <<checker, fails, healthy>>

Checking == PingAnswered \/ PingFails \/ Interval \/ CheckerReturns
CheckNext == Checking \/ StopCheck \/ StopReturns

CheckTypeOK ==
    /\ checker \in {"ping", "select", "gone"} /\ fails \in 0 .. MaxFailures
    /\ healthy \in BOOLEAN
    /\ sipClient \in {"open", "none", "closed"}
    /\ stopper \in {"none", "waiting", "returned"}
=============================================================================
