----------------------------- MODULE ServicesProofs -----------------------------
(***************************************************************************)
(* Proofs about Services: for any number of virtual users and rows, any    *)
(* Expires and any timeout, a binding lasts as long as ExpiresAt says but  *)
(* for the time of a request, and clients are open exactly while they are  *)
(* needed.                                                                 *)
(***************************************************************************)
EXTENDS Services, TLAPS

\* What the methods of a Registration rely on when they return.
CallsFit ==
    \A v \in VUs :
        /\ flight[v] # "none" => call[v] # "none"
        /\ call[v] = "register" => phase[v] = "none"
        /\ call[v] = "refresh" => phase[v] # "none"
        /\ call[v] = "unregister" => phase[v] = "leaving"

\* An answer under way has granted a binding that is as old as the request at
\* most.
AnswerIsFresh ==
    NumVUs <= Rows =>
        \A v \in VUs : flight[v] = "accepted" /\ call[v] # "unregister" =>
            Expires + remaining[v] <= binding[RowOf(v)] + Timeout

IInv == TypeOK /\ CallsFit /\ AnswerIsFresh /\ BindingLasts /\ ClientsExact

-----------------------------------------------------------------------------
\* With a row for each user, Pick gives each its own.
LEMMA OwnRow == ASSUME NumVUs <= Rows, NEW v \in VUs PROVE RowOf(v) = v /\ v \in 1 .. Rows
  BY RegistrationAssumption DEF VUs, RowOf

\* The initial state: nobody has registered.
LEMMA InitInv == Init => IInv
  <1> SUFFICES ASSUME Init PROVE IInv
      OBVIOUS
  <1> USE RegistrationAssumption, HealthAssumption DEF Init, RegInit, CheckInit
  <1>1. TypeOK
        BY DEF TypeOK, RegTypeOK, CheckTypeOK
  <1>2. CallsFit /\ AnswerIsFresh /\ BindingLasts /\ ClientsExact
        BY DEF CallsFit, AnswerIsFresh, BindingLasts, ClientsExact
  <1> QED BY <1>1, <1>2 DEF IInv

-----------------------------------------------------------------------------
(* The registrations.                                                      *)

\* A second takes as much from a binding as from a promise and a context.
LEMMA SecondInv == ASSUME IInv, Second, UNCHANGED <<up, checkVars>> PROVE IInv'
  <1> USE RegistrationAssumption
  <1>1. /\ remaining \in [VUs -> 0 .. Timeout] /\ promise \in [VUs -> 0 .. Expires]
        /\ binding \in [1 .. Rows -> 0 .. Expires]
        BY DEF IInv, TypeOK, RegTypeOK
  <1>2. TypeOK'
    <2>1. ASSUME NEW m \in Nat, NEW n \in 0 .. m PROVE Down(n) \in 0 .. m
          BY DEF Down
    <2>2. /\ remaining' \in [VUs -> 0 .. Timeout] /\ promise' \in [VUs -> 0 .. Expires]
          /\ binding' \in [1 .. Rows -> 0 .. Expires]
          BY <1>1, <2>1 DEF Second
    <2> QED BY <2>2 DEF Second, IInv, TypeOK, RegTypeOK, CheckTypeOK, checkVars
  <1>3. CallsFit' /\ ClientsExact'
        BY DEF Second, IInv, CallsFit, ClientsExact, checkVars
  <1>4. AnswerIsFresh'
    <2> SUFFICES ASSUME NumVUs <= Rows, NEW v \in VUs, flight[v] = "accepted", call[v] # "unregister"
                 PROVE  Expires + remaining'[v] <= binding'[RowOf(v)] + Timeout
        BY DEF Second, AnswerIsFresh
    <2>1. Expires + remaining[v] <= binding[v] + Timeout
          BY OwnRow DEF IInv, AnswerIsFresh
    <2>2. remaining[v] > 0
          BY DEF Second, IInv, CallsFit
    <2>3. remaining'[v] = remaining[v] - 1 /\ binding'[v] = Down(binding[v])
          BY <1>1, <2>2, OwnRow DEF Second, Down
    <2>4. remaining[v] \in Nat /\ binding[v] \in Nat
          BY <1>1, OwnRow
    <2> QED BY <2>1, <2>3, <2>4, OwnRow DEF Down
  <1>5. BindingLasts'
    <2> SUFFICES ASSUME NumVUs <= Rows, NEW v \in VUs, phase[v] = "registered"
                 PROVE  promise'[v] <= binding'[RowOf(v)] + Timeout
        BY DEF Second, BindingLasts
    <2>1. promise[v] <= binding[v] + Timeout
          BY OwnRow DEF IInv, BindingLasts
    <2>2. promise'[v] = Down(promise[v]) /\ binding'[v] = Down(binding[v])
          BY OwnRow DEF Second
    <2>3. promise[v] \in Nat /\ binding[v] \in Nat
          BY <1>1, OwnRow
    <2> QED BY <2>1, <2>2, <2>3, OwnRow DEF Down
  <1> QED BY <1>2, <1>3, <1>4, <1>5 DEF IInv

\* The beginning of a call.
LEMMA CallInv ==
    ASSUME IInv, NEW v \in VUs, Register(v) \/ Refresh(v) \/ Unregister(v),
           UNCHANGED <<up, checkVars>>
    PROVE  IInv'
  <1> USE RegistrationAssumption
  <1>1. /\ call[v] = "none" /\ binding' = binding /\ promise' = promise
        /\ flight' = [flight EXCEPT ![v] = "request"]
        /\ remaining' = [remaining EXCEPT ![v] = Timeout]
        BY DEF Register, Refresh, Unregister, Begin
  <1>2. TypeOK'
    <2>1. \E m \in {"register", "refresh", "unregister"} : call' = [call EXCEPT ![v] = m]
          BY DEF Register, Refresh, Unregister, Begin
    <2>2. /\ phase' \in [VUs -> {"none", "registered", "leaving"}]
          /\ client' \subseteq VUs
          BY DEF Register, Refresh, Unregister, IInv, TypeOK, RegTypeOK
    <2>3. Timeout \in 0 .. Timeout
          OBVIOUS
    <2>4. remaining' \in [VUs -> 0 .. Timeout]
          BY <1>1, <2>3 DEF IInv, TypeOK, RegTypeOK
    <2>5. /\ call' \in [VUs -> {"none", "register", "refresh", "unregister"}]
          /\ flight' \in [VUs -> {"none", "request", "authorized", "accepted"}]
          BY <1>1, <2>1 DEF IInv, TypeOK, RegTypeOK
    <2> QED BY <1>1, <2>2, <2>4, <2>5 DEF IInv, TypeOK, RegTypeOK, CheckTypeOK, checkVars
  <1>3. CallsFit' /\ ClientsExact'
    <2> USE DEF IInv, TypeOK, RegTypeOK, CallsFit, ClientsExact, Begin, checkVars
    <2>1. CASE Register(v)
          BY <2>1 DEF Register
    <2>2. CASE Refresh(v)
          BY <2>2 DEF Refresh
    <2>3. CASE Unregister(v)
          BY <2>3 DEF Unregister
    <2> QED BY <2>1, <2>2, <2>3
  <1>4. AnswerIsFresh'
    <2> SUFFICES ASSUME NumVUs <= Rows, NEW w \in VUs, flight'[w] = "accepted",
                        call'[w] # "unregister"
                 PROVE  Expires + remaining'[w] <= binding'[RowOf(w)] + Timeout
        BY DEF AnswerIsFresh
    <2>1. w # v /\ flight[w] = "accepted" /\ remaining'[w] = remaining[w]
          BY <1>1 DEF IInv, TypeOK, RegTypeOK
    <2>2. call[w] # "unregister"
          BY <2>1 DEF Register, Refresh, Unregister, Begin, IInv, TypeOK, RegTypeOK
    <2> QED BY <1>1, <2>1, <2>2 DEF IInv, AnswerIsFresh
  <1>5. BindingLasts'
        BY <1>1 DEF Register, Refresh, Unregister, Begin, IInv, BindingLasts, TypeOK, RegTypeOK
  <1> QED BY <1>2, <1>3, <1>4, <1>5 DEF IInv

\* The registrar; it touches the binding of one row.
LEMMA RegistrarInv ==
    ASSUME IInv, NEW v \in VUs, Registrar(v), UNCHANGED <<up, checkVars>>
    PROVE  IInv'
  <1> USE RegistrationAssumption
  <1>1. /\ flight[v] # "none" /\ \E a \in {"authorized", "accepted"} : flight' = [flight EXCEPT ![v] = a]
        /\ UNCHANGED <<phase, call, remaining, client, promise>>
        BY DEF Registrar, Challenge, Accept, Answer
  <1>2. TypeOK'
    <2>1. binding' \in [1 .. Rows -> 0 .. Expires]
      <3>1. \/ binding' = binding
            \/ \E n \in 0 .. Expires : binding' = [binding EXCEPT ![RowOf(v)] = n]
            BY DEF Registrar, Challenge, Accept
      <3> QED BY <3>1 DEF IInv, TypeOK, RegTypeOK
    <2>2. flight' \in [VUs -> {"none", "request", "authorized", "accepted"}]
          BY <1>1 DEF IInv, TypeOK, RegTypeOK
    <2> QED BY <1>1, <2>1, <2>2 DEF IInv, TypeOK, RegTypeOK, CheckTypeOK, checkVars
  <1>3. CallsFit' /\ ClientsExact'
        BY <1>1 DEF IInv, TypeOK, RegTypeOK, CallsFit, ClientsExact, checkVars
  <1>4. AnswerIsFresh'
    <2> SUFFICES ASSUME NumVUs <= Rows, NEW w \in VUs, flight'[w] = "accepted",
                        call[w] # "unregister"
                 PROVE  Expires + remaining[w] <= binding'[w] + Timeout
        BY <1>1, OwnRow DEF AnswerIsFresh
    <2>1. CASE w = v /\ Accept(v)
      <3>1. binding'[v] = Expires
            BY <2>1, OwnRow DEF Accept, IInv, TypeOK, RegTypeOK
      <3>2. remaining[v] \in 0 .. Timeout
            BY DEF IInv, TypeOK, RegTypeOK
      <3> QED BY <2>1, <3>1, <3>2
    <2>2. CASE ~(w = v /\ Accept(v))
      <3>1. flight[w] = "accepted"
            BY <2>2 DEF Registrar, Challenge, Accept, Answer, IInv, TypeOK, RegTypeOK
      <3>2. binding'[w] = binding[w]
            BY <2>2, OwnRow DEF Registrar, Challenge, Accept, IInv, TypeOK, RegTypeOK
      <3> QED BY <3>1, <3>2, OwnRow DEF IInv, AnswerIsFresh
    <2> QED BY <2>1, <2>2
  <1>5. BindingLasts'
    <2> SUFFICES ASSUME NumVUs <= Rows, NEW w \in VUs, phase[w] = "registered"
                 PROVE  promise[w] <= binding'[w] + Timeout
        BY <1>1, OwnRow DEF BindingLasts
    <2>1. promise[w] <= binding[w] + Timeout
          BY OwnRow DEF IInv, BindingLasts
    <2>2. promise[w] \in 0 .. Expires
          BY DEF IInv, TypeOK, RegTypeOK
    <2>3. CASE w = v /\ Accept(v)
      <3>1. call[v] # "unregister"
            BY <2>3 DEF IInv, CallsFit
      <3>2. binding'[v] = Expires
            BY <2>3, <3>1, OwnRow DEF Accept, IInv, TypeOK, RegTypeOK
      <3> QED BY <2>2, <2>3, <3>2
    <2>4. CASE ~(w = v /\ Accept(v))
      <3>1. binding'[w] = binding[w]
            BY <2>4, OwnRow DEF Registrar, Challenge, Accept, IInv, TypeOK, RegTypeOK
      <3> QED BY <2>1, <3>1
    <2> QED BY <2>3, <2>4
  <1> QED BY <1>2, <1>3, <1>4, <1>5 DEF IInv

\* What the methods do once they have an answer, or none.
LEMMA ReturnsInv ==
    ASSUME IInv, NEW v \in VUs, Returns(v), UNCHANGED <<up, checkVars>>
    PROVE  IInv'
  <1> USE RegistrationAssumption
  <1>1. /\ call[v] # "none" /\ binding' = binding
        /\ call' = [call EXCEPT ![v] = "none"] /\ flight' = [flight EXCEPT ![v] = "none"]
        /\ remaining' = [remaining EXCEPT ![v] = 0]
        BY DEF Returns, Succeeds, Fails, Ends, IInv, CallsFit
  <1>2. TypeOK'
    <2> USE DEF IInv, TypeOK, RegTypeOK
    <2>1. /\ phase' \in [VUs -> {"none", "registered", "leaving"}]
          /\ client' \subseteq VUs
          /\ promise' \in [VUs -> 0 .. Expires]
          BY DEF Returns, Succeeds, Fails
    <2>2. 0 \in 0 .. Timeout
          OBVIOUS
    <2>3. remaining' \in [VUs -> 0 .. Timeout]
          BY <1>1, <2>2
    <2>4. /\ call' \in [VUs -> {"none", "register", "refresh", "unregister"}]
          /\ flight' \in [VUs -> {"none", "request", "authorized", "accepted"}]
          BY <1>1
    <2> QED BY <1>1, <2>1, <2>3, <2>4 DEF CheckTypeOK, checkVars
  <1>3. CallsFit' /\ ClientsExact'
    <2> USE <1>1 DEF IInv, TypeOK, RegTypeOK, CallsFit, ClientsExact, checkVars
    <2>1. CASE Succeeds(v)
          BY <2>1 DEF Succeeds
    <2>2. ASSUME NEW answered \in BOOLEAN, Fails(v, answered) PROVE CallsFit' /\ ClientsExact'
          BY <2>2 DEF Fails
    <2> QED BY <2>1, <2>2 DEF Returns
  <1>4. AnswerIsFresh'
        BY <1>1 DEF IInv, TypeOK, RegTypeOK, AnswerIsFresh
  <1>5. BindingLasts'
    <2> SUFFICES ASSUME NumVUs <= Rows, NEW w \in VUs, phase'[w] = "registered"
                 PROVE  promise'[w] <= binding[w] + Timeout
        BY <1>1, OwnRow DEF BindingLasts
    <2>1. CASE w = v /\ Succeeds(v)
      <3>1. call[v] # "unregister" /\ promise'[v] = Expires
            BY <2>1 DEF Succeeds, IInv, TypeOK, RegTypeOK
      <3>2. Expires + remaining[v] <= binding[v] + Timeout
            BY <2>1, <3>1, OwnRow DEF Succeeds, IInv, AnswerIsFresh
      <3>3. remaining[v] \in Nat /\ binding[v] \in Nat
            BY OwnRow DEF IInv, TypeOK, RegTypeOK
      <3> QED BY <2>1, <3>1, <3>2, <3>3
    <2>2. CASE ~(w = v /\ Succeeds(v))
      <3>1. phase[w] = "registered" /\ promise'[w] = promise[w]
            BY <2>2 DEF Returns, Succeeds, Fails, IInv, TypeOK, RegTypeOK
      <3> QED BY <3>1, OwnRow DEF IInv, BindingLasts
    <2> QED BY <2>1, <2>2
  <1> QED BY <1>2, <1>3, <1>4, <1>5 DEF IInv

-----------------------------------------------------------------------------
(* The health checker.                                                     *)

\* It touches nothing of the registrations.
LEMMA CheckInv == ASSUME IInv, CheckNext, UNCHANGED <<up, regVars>> PROVE IInv'
  <1>1. TypeOK' /\ ClientsExact'
    <2> USE HealthAssumption DEF IInv, TypeOK, CheckTypeOK, RegTypeOK, ClientsExact, regVars
    <2>1. CASE PingAnswered
          BY <2>1 DEF PingAnswered
    <2>2. CASE PingFails
          BY <2>2 DEF PingFails
    <2>3. CASE Interval
          BY <2>3 DEF Interval
    <2>4. CASE CheckerReturns
          BY <2>4 DEF CheckerReturns
    <2>5. CASE StopCheck
          BY <2>5 DEF StopCheck
    <2>6. CASE StopReturns
          BY <2>6 DEF StopReturns
    <2> QED BY <2>1, <2>2, <2>3, <2>4, <2>5, <2>6 DEF CheckNext, Checking
  <1>2. CallsFit' /\ AnswerIsFresh' /\ BindingLasts'
        BY DEF IInv, CallsFit, AnswerIsFresh, BindingLasts, regVars
  <1> QED BY <1>1, <1>2 DEF IInv

-----------------------------------------------------------------------------
\* Every step keeps the invariant.
LEMMA StepInv == IInv /\ [Next]_vars => IInv'
  <1> SUFFICES ASSUME IInv, [Next]_vars PROVE IInv'
      OBVIOUS
  <1>1. CASE Toggle /\ UNCHANGED <<regVars, checkVars>>
        BY <1>1 DEF Toggle, regVars, checkVars, IInv, TypeOK, RegTypeOK, CheckTypeOK, CallsFit,
           AnswerIsFresh, BindingLasts, ClientsExact
  <1>2. CASE RegNext /\ UNCHANGED <<up, checkVars>>
        BY <1>2, SecondInv, CallInv, RegistrarInv, ReturnsInv DEF RegNext
  <1>3. CASE CheckNext /\ UNCHANGED <<up, regVars>>
        BY <1>3, CheckInv
  <1>4. CASE UNCHANGED vars
        BY <1>4 DEF vars, regVars, checkVars, IInv, TypeOK, RegTypeOK, CheckTypeOK, CallsFit,
           AnswerIsFresh, BindingLasts, ClientsExact
  <1> QED BY <1>1, <1>2, <1>3, <1>4 DEF Next

\* The invariant holds in every behaviour.
LEMMA Invariant == Spec => []IInv
  BY InitInv, StepInv, PTL DEF Spec

-----------------------------------------------------------------------------
(* Theorems.                                                               *)

\* Every variable keeps its type: no context, promise or binding outlives
\* what it was given (Register, HealthChecker).
THEOREM TypeCorrect == Spec => []TypeOK
  <1>1. IInv => TypeOK
        BY DEF IInv
  <1> QED BY <1>1, Invariant, PTL

\* A registered user has its binding until ExpiresAt but for the time of one
\* request, for any number of users with a row each, whatever the others do
\* and however often the registrar cannot be reached (Register, Refresh).
THEOREM Lasts == Spec => []BindingLasts
  <1>1. IInv => BindingLasts
        BY DEF IInv
  <1> QED BY <1>1, Invariant, PTL

\* No client is closed while it may be used, none stays open after (Register,
\* Unregister, Stop).
THEOREM Clients == Spec => []ClientsExact
  <1>1. IInv => ClientsExact
        BY DEF IInv
  <1> QED BY <1>1, Invariant, PTL
=============================================================================
