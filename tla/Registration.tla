------------------------------ MODULE Registration ------------------------------
(***************************************************************************)
(* Registrations of a script (sip/register.go): each virtual user takes    *)
(* its row of the credential pool (k6ext/csv_pool.go), registers, may      *)
(* refresh, and unregisters, over a client of its own.  The Contact is     *)
(* made of the user name and the local address, so there is one binding    *)
(* per row.  Times count down: to the end of a request's context, of a     *)
(* binding, and of what a Registration promises (ExpiresAt).               *)
(***************************************************************************)
EXTENDS Integers, Server

CONSTANTS
    NumVUs, Rows,
    Expires,        \* cfg.Expires
    Timeout         \* of a REGISTER, with its authentication (10 s)

ASSUME RegistrationAssumption ==
    NumVUs \in Nat /\ Rows \in Nat \ {0} /\ Expires \in Nat /\ Timeout \in Nat \ {0}

VUs == 1 .. NumVUs

VARIABLES
    phase,          \* of a VU: without a Registration, with one, or with one it
                    \* has asked to be unregistered in vain
    call,           \* the method it is in
    flight,         \* where the request of that call is
    remaining,      \* of the context of that call
    client,         \* the VUs whose client is open
    promise,        \* ExpiresAt
    binding         \* the registrar: time left for each row, 0 without binding

regVars == <<phase, call, flight, remaining, client, promise, binding>>

\* Pick, in its sequential mode.
RowOf(v) == ((v - 1) % Rows) + 1

RegInit ==
    /\ phase = [v \in VUs |-> "none"] /\ call = [v \in VUs |-> "none"]
    /\ flight = [v \in VUs |-> "none"] /\ remaining = [v \in VUs |-> 0]
    /\ client = {}
    /\ promise = [v \in VUs |-> 0]
    /\ binding = [r \in 1 .. Rows |-> 0]

-----------------------------------------------------------------------------
Down(n) == IF n > 0 THEN n - 1 ELSE 0

\* A second passes; no context outlives its time.
Second ==
    /\ \A v \in VUs : call[v] # "none" => remaining[v] > 0
    /\ remaining' = [v \in VUs |-> Down(remaining[v])]
    /\ promise' = [v \in VUs |-> Down(promise[v])]
    /\ binding' = [r \in 1 .. Rows |-> Down(binding[r])]
    /\ UNCHANGED <<phase, call, flight, client>>

Begin(v, method) ==
    /\ call[v] = "none"
    /\ call' = [call EXCEPT ![v] = method]
    /\ flight' = [flight EXCEPT ![v] = "request"]
    /\ remaining' = [remaining EXCEPT ![v] = Timeout]

\* Register makes a client first.
Register(v) ==
    /\ phase[v] = "none"
    /\ Begin(v, "register")
    /\ client' = client \union {v}
    /\ UNCHANGED <<phase, promise, binding>>

Refresh(v) ==
    /\ phase[v] # "none"
    /\ Begin(v, "refresh")
    /\ UNCHANGED <<phase, client, promise, binding>>

Unregister(v) ==
    /\ phase[v] # "none"
    /\ Begin(v, "unregister")
    /\ phase' = [phase EXCEPT ![v] = "leaving"]
    /\ UNCHANGED <<client, promise, binding>>

-----------------------------------------------------------------------------
(* The registrar.  A request, or an answer, may also get lost.             *)

Answer(v, answer) ==
    /\ up /\ flight[v] \in {"request", "authorized"}
    /\ flight' = [flight EXCEPT ![v] = answer]
    /\ UNCHANGED <<phase, call, remaining, client, promise>>

\* 401 or 407: DoDigestAuth sends the request again, once.
Challenge(v) == flight[v] = "request" /\ Answer(v, "authorized") /\ UNCHANGED binding

\* 200: Expires of the request is granted; zero removes the binding.
Accept(v) ==
    /\ Answer(v, "accepted")
    /\ binding' = [binding EXCEPT ![RowOf(v)] = IF call[v] = "unregister" THEN 0 ELSE Expires]

-----------------------------------------------------------------------------
(* Do or DoDigestAuth returns.                                             *)

Ends(v) ==
    /\ call' = [call EXCEPT ![v] = "none"]
    /\ flight' = [flight EXCEPT ![v] = "none"]
    /\ remaining' = [remaining EXCEPT ![v] = 0]
    /\ UNCHANGED binding

\* Status 200.
Succeeds(v) ==
    /\ flight[v] = "accepted"
    /\ Ends(v)
    /\ IF call[v] = "unregister"
       THEN /\ phase' = [phase EXCEPT ![v] = "none"]
            /\ client' = client \ {v}
            /\ promise' = [promise EXCEPT ![v] = 0]
       ELSE /\ phase' = IF phase[v] = "none" THEN [phase EXCEPT ![v] = "registered"] ELSE phase
            /\ promise' = [promise EXCEPT ![v] = Expires]
            /\ UNCHANGED client

\* Slip: Refresh moves ExpiresAt whatever the answer is.
FailsExtends(v, answered) ==
    /\ call[v] # "none"
    /\ IF answered THEN up /\ flight[v] # "accepted" ELSE remaining[v] = 0
    /\ Ends(v)
    /\ client' = IF call[v] = "register" \/ (call[v] = "unregister" /\ answered)
                 THEN client \ {v} ELSE client
    /\ phase' = IF call[v] = "unregister" /\ answered
                THEN [phase EXCEPT ![v] = "none"] ELSE phase
    /\ promise' = IF call[v] = "refresh" THEN [promise EXCEPT ![v] = Expires] ELSE promise

\* Slip: Unregister closes the client only after a 200.
FailsKeepsClient(v, answered) ==
    /\ call[v] # "none"
    /\ IF answered THEN up /\ flight[v] # "accepted" ELSE remaining[v] = 0
    /\ Ends(v)
    /\ client' = IF call[v] = "register" THEN client \ {v} ELSE client
    /\ IF call[v] = "unregister" /\ answered
       THEN phase' = [phase EXCEPT ![v] = "none"] /\ promise' = [promise EXCEPT ![v] = 0]
       ELSE UNCHANGED <<phase, promise>>

\* Any other status, or the end of the context.  Register closes its client;
\* Unregister closes it only if it was answered, and the script may try again.
Fails(v, answered) ==
    /\ call[v] # "none"
    /\ IF answered THEN up /\ flight[v] # "accepted" ELSE remaining[v] = 0
    /\ Ends(v)
    /\ client' = IF call[v] = "register" \/ (call[v] = "unregister" /\ answered)
                 THEN client \ {v} ELSE client
    /\ IF call[v] = "unregister" /\ answered
       THEN phase' = [phase EXCEPT ![v] = "none"] /\ promise' = [promise EXCEPT ![v] = 0]
       ELSE UNCHANGED <<phase, promise>>

-----------------------------------------------------------------------------
Returns(v) == Succeeds(v) \/ \E answered \in BOOLEAN : Fails(v, answered)
Registrar(v) == Challenge(v) \/ Accept(v)
RegNext == \/ Second
           \/ \E v \in VUs : Register(v) \/ Refresh(v) \/ Unregister(v) \/ Registrar(v) \/ Returns(v)

-----------------------------------------------------------------------------
(* Properties.                                                             *)

RegTypeOK ==
    /\ phase \in [VUs -> {"none", "registered", "leaving"}]
    /\ call \in [VUs -> {"none", "register", "refresh", "unregister"}]
    /\ flight \in [VUs -> {"none", "request", "authorized", "accepted"}]
    /\ remaining \in [VUs -> 0 .. Timeout]
    /\ client \subseteq VUs
    /\ promise \in [VUs -> 0 .. Expires] /\ binding \in [1 .. Rows -> 0 .. Expires]

\* With a row for each VU, a VU that has registered and not asked to be
\* unregistered is registered until ExpiresAt, or has lost its binding no
\* longer ago than a request takes at most: what other VUs do, refused or
\* unanswered refreshes, and answers under way do not matter (Pick, Register,
\* Refresh).
BindingLasts ==
    NumVUs <= Rows =>
        \A v \in VUs : phase[v] = "registered" =>
            promise[v] <= binding[RowOf(v)] + Timeout
=============================================================================
