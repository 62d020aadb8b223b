--------------------------- MODULE CallHandleProofs ---------------------------
(***************************************************************************)
(* Theorems about CallHandle, for any number of script threads and any     *)
(* mix of workers.                                                         *)
(***************************************************************************)
EXTENDS CallHandle, FiniteSetTheorems, TLAPS

USE DEF dialVars, finVars, dialogVars, holdVars, driftVars, Goto, Return

\* The counter is the number of workers that run, and no worker is both
\* waiting to be started and running.
WaitGroup ==
    /\ IsFiniteSet(running)
    /\ wg = Cardinality(running)
    /\ pending \intersect running = {}

\* Where the finalizer stands tells what it has done, and that all workers
\* are gone; until stop is closed it cannot get past the wait group, because
\* the receiver runs.
Finalizer ==
    /\ fin = "none" => active /\ ~stop /\ \A t \in Threads : pc[t] = "dialing"
    /\ fin # "none" => pending = {}
    /\ ~stop => "receiver" \in pending \union running
    /\ fin \notin {"none", "wait"} => stop /\ running = {}
    /\ recorder <=> fin \in {"none", "wait", "collect"}
    /\ conn <=> fin \notin {"finish", "done"}
    /\ client <=> fin \notin {"finish", "done"}
    /\ result.metrics <=> fin \in {"release", "finish", "done"}
    /\ done <=> fin = "done"

\* The thread that cleared active is the only owner of the teardown, and
\* what it has done is told by its program counter.
Teardown ==
    /\ \A t, u \in Threads : pc[t] \in {"closeStop", "bye"}
                          /\ pc[u] \in {"closeStop", "bye"} => t = u
    /\ active => ~stop
    /\ active => \A t \in Threads : pc[t] \notin {"closeStop", "bye"}
    /\ ~active /\ ~stop => \E t \in Threads : pc[t] = "closeStop"
    /\ \A t \in Threads : pc[t] = "closeStop" => ~stop
    /\ \A t \in Threads : pc[t] = "bye" => stop
    /\ byes \in {0, 1}
    /\ byes = 1 => stop /\ \A t \in Threads : pc[t] \notin {"closeStop", "bye"}

IInv == Types /\ WaitGroup /\ Finalizer /\ Teardown

-----------------------------------------------------------------------------
\* The initial state satisfies the inductive invariant.
LEMMA InitIInv == Init => IInv
  <1> SUFFICES ASSUME Init PROVE IInv
      OBVIOUS
  <1>1. Types
        BY DEF Init, Types, NoResult, Labels, Directions
  <1>2. WaitGroup
        BY FS_EmptySet DEF Init, WaitGroup
  <1>3. Finalizer
        BY CallAssumption DEF Init, Finalizer, NoResult
  <1>4. Teardown
        BY DEF Init, Teardown
  <1> QED
        BY <1>1, <1>2, <1>3, <1>4 DEF IInv

\* A thread's step changes its program counter, a few variables more, and
\* keeps all their types.
LEMMA InCallTypes ==
    ASSUME NEW t \in Threads, Types, InCall(t)
    PROVE  Types'
  <1>1. CASE CloseStop(t)
    <2>1. pc' \in [Threads -> Labels]
          BY <1>1 DEF CloseStop, Types, Labels
    <2> QED
          BY <1>1, <2>1 DEF CloseStop, Types
  <1>2. CASE SendBye(t)
    <2>1. pc' \in [Threads -> Labels]
          BY <1>2 DEF SendBye, Types, Labels
    <2>2. remote' \in [up : BOOLEAN, dir : Directions]
          BY <1>2 DEF SendBye, Types
    <2>3. byes' \in Nat
          BY <1>2 DEF SendBye, Types
    <2> QED
          BY <1>2, <2>1, <2>2, <2>3 DEF SendBye, Types
  <1>3. CASE SeeDone(t)
    <2>1. pc' \in [Threads -> Labels]
          BY <1>3 DEF SeeDone, Types, Labels
    <2> QED
          BY <1>3, <2>1 DEF SeeDone, Types
  <1>4. CASE Reinvite(t)
    <2>1. pc' \in [Threads -> Labels]
          BY <1>4 DEF Reinvite, Types, Labels
    <2>2. remote' \in [up : BOOLEAN, dir : Directions]
          BY <1>4 DEF Reinvite, Accepted, Types
    <2>3. crossed' \subseteq Threads /\ adrift' \in BOOLEAN
          BY <1>4 DEF Reinvite, Opposed, Open, Types
    <2>4. UNCHANGED <<dialVars, finVars, byes, holdVars, stop, active, result>>
          BY <1>4 DEF Reinvite
    <2> QED
          BY <2>1, <2>2, <2>3, <2>4 DEF Types
  <1>5. CASE AckReinvite(t)
    <2>1. pc' \in [Threads -> Labels]
          BY <1>5 DEF AckReinvite, Types, Labels
    <2>2. crossed' \subseteq Threads /\ adrift' \in BOOLEAN
          BY <1>5 DEF AckReinvite, Types
    <2>3. UNCHANGED <<dialVars, finVars, remote, byes, holdVars, stop, active, result>>
          BY <1>5 DEF AckReinvite
    <2> QED
          BY <2>1, <2>2, <2>3 DEF Types
  <1>6. CASE SetHold(t)
    <2>1. pc' \in [Threads -> Labels]
          BY <1>6 DEF SetHold, Types, Labels
    <2> QED
          BY <1>6, <2>1 DEF SetHold, Settled, Types
  <1>7. CASE Refer(t)
    <2>1. pc' \in [Threads -> Labels]
          BY <1>7 DEF Refer, Types, Labels
    <2> QED
          BY <1>7, <2>1 DEF Refer, Types
  <1>8. CASE SetTransfer(t)
    <2>1. pc' \in [Threads -> Labels]
          BY <1>8 DEF SetTransfer, Types, Labels
    <2>2. result' \in [metrics : BOOLEAN, transferOK : BOOLEAN]
          BY <1>8 DEF SetTransfer, Types
    <2> QED
          BY <1>8, <2>1, <2>2 DEF SetTransfer, Types
  <1> QED
      BY <1>1, <1>2, <1>3, <1>4, <1>5, <1>6, <1>7, <1>8 DEF InCall

\* So does what a script or the timer begins.
LEMMA DecideTypes ==
    ASSUME NEW t \in Threads, Types,
           \/ HangupLock(t) \/ WaitDone(t) \/ TransferLock(t)
           \/ \E d \in Directions : HoldLock(t, d)
    PROVE  Types'
  <1>1. CASE HangupLock(t)
    <2>1. pc' \in [Threads -> Labels]
          BY <1>1 DEF HangupLock, Types, Labels
    <2>2. active' \in BOOLEAN
          BY <1>1 DEF HangupLock, Types
    <2>3. UNCHANGED <<dialVars, finVars, dialogVars, holdVars, stop, result>>
          BY <1>1 DEF HangupLock
    <2> QED
          BY <2>1, <2>2, <2>3 DEF Types
  <1>2. CASE WaitDone(t)
    <2>1. pc' \in [Threads -> Labels]
          BY <1>2 DEF WaitDone, Types, Labels
    <2> QED
          BY <1>2, <2>1 DEF WaitDone, Types
  <1>3. CASE TransferLock(t)
    <2>1. pc' \in [Threads -> Labels]
          BY <1>3 DEF TransferLock, Types, Labels
    <2> QED
          BY <1>3, <2>1 DEF TransferLock, Types
  <1>4. ASSUME NEW d \in Directions, HoldLock(t, d) PROVE Types'
    <2>1. pc' \in [Threads -> Labels]
          BY <1>4 DEF HoldLock, Types, Labels
    <2>2. req' \in [Threads -> Directions]
          BY <1>4 DEF HoldLock, Types
    <2> QED
          BY <1>4, <2>1, <2>2 DEF HoldLock, Types
  <1> QED
      BY <1>1, <1>2, <1>3, <1>4

\* The types are inductive by themselves.
LEMMA TypesStep == Types /\ [Next]_vars => Types'
  <1> SUFFICES ASSUME Types, [Next]_vars PROVE Types'
      OBVIOUS
  <1>1. ASSUME NEW w \in Workers, StartWorker(w) PROVE Types'
        BY <1>1 DEF StartWorker, Types
  <1>2. CASE RTCPBindFails
        BY <1>2 DEF RTCPBindFails, Types
  <1>3. CASE DialReturns
    <2>1. pc' \in [Threads -> Labels]
          BY <1>3 DEF DialReturns, Labels
    <2> QED
          BY <1>3, <2>1 DEF DialReturns, Types
  <1>4. ASSUME NEW w \in Workers, WorkerExits(w) PROVE Types'
        BY <1>4 DEF WorkerExits, Types
  <1>5. ASSUME NEW t \in Threads, InCall(t) PROVE Types'
        BY <1>5, InCallTypes
  <1>6. ASSUME NEW t \in Callers, Decide(t) PROVE Types'
        BY <1>6, DecideTypes DEF Decide, Threads
  <1>7. CASE TimerStep
    <2>1. CASE HangupLock(Timer)
          BY <2>1, DecideTypes DEF Threads
    <2>2. CASE TimerCancelled
      <3>1. pc' \in [Threads -> Labels]
            BY <2>2 DEF TimerCancelled, Types, Labels
      <3> QED
            BY <2>2, <3>1 DEF TimerCancelled, Types
    <2> QED
          BY <1>7, <2>1, <2>2 DEF TimerStep
  <1>8. CASE FinStep
    <2>1. CASE FinWait
          BY <2>1 DEF FinWait, Types
    <2>2. CASE Collect
          BY <2>2 DEF Collect, Types
    <2>3. CASE Publish
          BY <2>3 DEF Publish, Types
    <2>4. CASE Release
          BY <2>4 DEF Release, Types
    <2>5. CASE CloseDone
          BY <2>5 DEF CloseDone, Types
    <2> QED
          BY <1>8, <2>1, <2>2, <2>3, <2>4, <2>5 DEF FinStep
  <1>9. CASE RemoteHangsUp
    <2>1. remote' \in [up : BOOLEAN, dir : Directions]
          BY <1>9 DEF RemoteHangsUp, Types
    <2> QED
          BY <1>9, <2>1 DEF RemoteHangsUp, Types
  <1>10. CASE UNCHANGED vars
        BY <1>10 DEF vars, Types
  <1> QED
        BY <1>1, <1>2, <1>3, <1>4, <1>5, <1>6, <1>7, <1>8, <1>9, <1>10
        DEF Next, DialStep

\* Only Dial and the workers touch the wait group, and a worker is counted
\* once when it starts and once when it exits.
LEMMA WaitGroupStep ==
    Types /\ WaitGroup /\ [Next]_vars => WaitGroup'
  <1> SUFFICES ASSUME Types, WaitGroup, [Next]_vars PROVE WaitGroup'
      OBVIOUS
  <1>1. ASSUME NEW w \in Workers, StartWorker(w) PROVE WaitGroup'
    <2>1. w \notin running
          BY <1>1 DEF StartWorker, NextToStart, WaitGroup
    <2>2. /\ IsFiniteSet(running')
          /\ Cardinality(running') = Cardinality(running) + 1
          BY <1>1, <2>1, FS_AddElement DEF StartWorker, WaitGroup
    <2> QED
          BY <1>1, <2>1, <2>2 DEF StartWorker, WaitGroup
  <1>2. ASSUME NEW w \in Workers, WorkerExits(w) PROVE WaitGroup'
    <2>1. /\ IsFiniteSet(running')
          /\ Cardinality(running') = Cardinality(running) - 1
          BY <1>2, FS_RemoveElement DEF WorkerExits, WaitGroup
    <2> QED
          BY <1>2, <2>1 DEF WorkerExits, WaitGroup
  <1>3. CASE RTCPBindFails
        BY <1>3 DEF RTCPBindFails, WaitGroup
  <1>4. CASE UNCHANGED dialVars
        BY <1>4 DEF WaitGroup
  <1>5. ASSUME NEW t \in Threads, InCall(t) PROVE UNCHANGED dialVars
        BY <1>5 DEF InCall, CloseStop, SendBye, SeeDone, Reinvite,
                    AckReinvite, SetHold, Refer, SetTransfer
  <1>6. ASSUME NEW t \in Callers, Decide(t) PROVE UNCHANGED dialVars
        BY <1>6 DEF Decide, HangupLock, WaitDone, TransferLock, HoldLock
  <1>7. CASE TimerStep \/ FinStep \/ RemoteHangsUp \/ UNCHANGED vars \/ DialReturns
        BY <1>4, <1>7 DEF TimerStep, HangupLock, TimerCancelled, FinStep, FinWait, Collect,
            Publish, Release, CloseDone, RemoteHangsUp, DialReturns, vars
  <1> QED
        BY <1>1, <1>2, <1>3, <1>4, <1>5, <1>6, <1>7 DEF Next, DialStep

\* The counter is zero exactly when no worker runs.
LEMMA Barrier == WaitGroup => (wg = 0 <=> running = {})
  BY FS_EmptySet DEF WaitGroup

-----------------------------------------------------------------------------
\* A thread inside a call acts after Dial has returned, and touches neither
\* the workers nor what the finalizer keeps.
LEMMA InCallFrame ==
    ASSUME NEW t \in Threads, Types, Finalizer, InCall(t)
    PROVE  /\ fin # "none" /\ UNCHANGED <<dialVars, finVars>>
           /\ stop => stop'
           /\ result'.metrics = result.metrics
  <1>1. pc[t] # "dialing"
        BY DEF InCall, CloseStop, SendBye, SeeDone, Reinvite,
               AckReinvite, SetHold, Refer, SetTransfer
  <1>2. fin # "none"
        BY <1>1 DEF Finalizer
  <1>3. UNCHANGED <<dialVars, finVars>> /\ (stop => stop')
        BY DEF InCall, CloseStop, SendBye, SeeDone, Reinvite,
               AckReinvite, SetHold, Refer, SetTransfer
  <1>4. result'.metrics = result.metrics
    <2>1. CASE SetTransfer(t)
          BY <2>1 DEF SetTransfer, Types
    <2>2. CASE ~SetTransfer(t)
          BY <2>2 DEF InCall, CloseStop, SendBye, SeeDone, Reinvite,
                      AckReinvite, SetHold, Refer
    <2> QED
          BY <2>1, <2>2
  <1> QED
      BY <1>2, <1>3, <1>4

\* So does a thread, or the timer, that begins a call.
LEMMA DecideFrame ==
    ASSUME NEW t \in Threads, Finalizer,
           \/ HangupLock(t) \/ WaitDone(t) \/ TransferLock(t) \/ TimerCancelled
           \/ \E d \in Directions : HoldLock(t, d)
    PROVE  /\ fin # "none" /\ UNCHANGED <<dialVars, finVars>>
           /\ UNCHANGED <<stop, byes, result>>
  <1>1. fin # "none"
        BY DEF Finalizer, HangupLock, WaitDone, TransferLock, TimerCancelled, HoldLock, Threads
  <1> QED
      BY <1>1 DEF HangupLock, WaitDone, TransferLock, TimerCancelled, HoldLock

\* Every step keeps what the finalizer's position tells about the workers.
LEMMA FinalizerStep == IInv /\ [Next]_vars => Finalizer'
  <1> SUFFICES ASSUME Types, WaitGroup, Finalizer, Teardown, [Next]_vars
               PROVE  Finalizer'
      BY DEF IInv
  <1>1. ASSUME NEW w \in Workers, StartWorker(w) PROVE Finalizer'
        BY <1>1 DEF StartWorker, NextToStart, Finalizer
  <1>2. CASE RTCPBindFails
        BY <1>2 DEF RTCPBindFails, Finalizer
  <1>3. CASE DialReturns
        BY <1>3 DEF DialReturns, Finalizer
  <1>4. ASSUME NEW w \in Workers, WorkerExits(w) PROVE Finalizer'
    <2>1. ~stop => w # "receiver"
          BY <1>4, CallAssumption DEF WorkerExits
    <2> QED
        BY <1>4, <2>1 DEF WorkerExits, Finalizer
  <1>5. ASSUME NEW t \in Threads, InCall(t) PROVE Finalizer'
        BY <1>5, InCallFrame DEF Finalizer
  <1>6. ASSUME NEW t \in Callers, Decide(t) PROVE Finalizer'
        BY <1>6, DecideFrame DEF Finalizer, Decide, Threads
  <1>7. CASE TimerStep
        BY <1>7, DecideFrame DEF Finalizer, TimerStep, Threads
  <1>8. CASE FinStep
    <2>1. CASE FinWait
      <3>1. running = {} /\ pending = {}
            BY <2>1, Barrier DEF FinWait, Finalizer
      <3>2. stop
            BY <3>1 DEF Finalizer
      <3> QED
          BY <2>1, <3>1, <3>2 DEF FinWait, Finalizer
    <2>2. CASE Collect
          BY <2>2 DEF Collect, Finalizer
    <2>3. CASE Publish
          BY <2>3 DEF Publish, Finalizer
    <2>4. CASE Release
          BY <2>4 DEF Release, Finalizer
    <2>5. CASE CloseDone
          BY <2>5 DEF CloseDone, Finalizer
    <2> QED
          BY <1>8, <2>1, <2>2, <2>3, <2>4, <2>5 DEF FinStep
  <1>9. CASE RemoteHangsUp
        BY <1>9 DEF RemoteHangsUp, Finalizer
  <1>10. CASE UNCHANGED vars
        BY <1>10 DEF vars, Finalizer
  <1> QED
        BY <1>1, <1>2, <1>3, <1>4, <1>5, <1>6, <1>7, <1>8, <1>9, <1>10
        DEF Next, DialStep

-----------------------------------------------------------------------------
\* A step that moves no thread and leaves active, stop and byes alone cannot
\* disturb the ownership of the teardown.
LEMMA TeardownFrame ==
    ASSUME Teardown, UNCHANGED <<pc, active, stop, byes>>
    PROVE  Teardown'
  BY DEF Teardown

\* A thread that moves between two places outside the teardown cannot either.
LEMMA TeardownOutside ==
    ASSUME NEW t \in Threads, NEW label \in Labels, Types, Teardown,
           pc' = [pc EXCEPT ![t] = label],
           pc[t] \notin {"closeStop", "bye"}, label \notin {"closeStop", "bye"},
           UNCHANGED <<active, stop, byes>>
    PROVE  Teardown'
  <1>1. \A u \in Threads : \/ pc'[u] = pc[u]
                           \/ pc'[u] \notin {"closeStop", "bye"} /\ pc[u] \notin {"closeStop", "bye"}
        BY DEF Types
  <1> QED
      BY <1>1 DEF Teardown

\* Hangup's critical section keeps the teardown invariant: active names one owner.
LEMMA HangupLockTeardown ==
    ASSUME NEW t \in Threads, Types, Teardown, HangupLock(t)
    PROVE  Teardown'
  <1>1. CASE active
    <2>1. /\ ~active' /\ pc' = [pc EXCEPT ![t] = "closeStop"]
          /\ UNCHANGED <<stop, byes>> /\ ~stop
          BY <1>1 DEF HangupLock, Teardown
    <2>2. \A u \in Threads : pc'[u] = IF u = t THEN "closeStop" ELSE pc[u]
          BY <2>1 DEF Types
    <2> QED
          BY <1>1, <2>1, <2>2 DEF Teardown
  <1>2. CASE ~active
        BY <1>2, TeardownOutside DEF HangupLock, Labels
  <1> QED
      BY <1>1, <1>2

\* So does the owner's close of stop.
LEMMA CloseStopTeardown ==
    ASSUME NEW t \in Threads, Types, Teardown, CloseStop(t)
    PROVE  Teardown'
  <1>1. \A u \in Threads : pc'[u] = IF u = t THEN "bye" ELSE pc[u]
        BY DEF CloseStop, Types
  <1>2. pc[t] = "closeStop" /\ stop' /\ UNCHANGED <<active, byes>>
        BY DEF CloseStop
  <1> QED
      BY <1>1, <1>2 DEF Teardown

\* And the owner's BYE, sent or failed on a closed client.
LEMMA SendByeTeardown ==
    ASSUME NEW t \in Threads, Types, Teardown, SendBye(t)
    PROVE  Teardown'
  <1>1. \A u \in Threads : pc'[u] = IF u = t THEN "waitDone" ELSE pc[u]
        BY DEF SendBye, Types
  <1>2. pc[t] = "bye" /\ stop /\ byes = 0 /\ UNCHANGED <<active, stop>>
        BY DEF SendBye, Teardown
  <1>3. byes' \in {0, 1}
        BY <1>2 DEF SendBye
  <1> QED
      BY <1>1, <1>2, <1>3 DEF Teardown

\* The teardown invariant is kept by every step.
LEMMA TeardownStep == IInv /\ [Next]_vars => Teardown'
  <1> SUFFICES ASSUME Types, Finalizer, Teardown, [Next]_vars
               PROVE  Teardown'
      BY DEF IInv
  <1>1. ASSUME NEW w \in Workers, StartWorker(w) \/ WorkerExits(w) PROVE Teardown'
        BY <1>1, TeardownFrame DEF StartWorker, WorkerExits
  <1>2. CASE RTCPBindFails \/ FinStep \/ RemoteHangsUp \/ UNCHANGED vars
        BY <1>2, TeardownFrame DEF RTCPBindFails, FinStep, FinWait, Collect, Publish,
           Release, CloseDone, RemoteHangsUp, vars
  <1>3. CASE DialReturns
    <2>1. active /\ ~stop /\ byes # 1
          BY <1>3 DEF DialReturns, Finalizer, Teardown
    <2>2. \A u \in Threads : pc'[u] \notin {"closeStop", "bye"}
          BY <1>3 DEF DialReturns
    <2> QED
        BY <1>3, <2>1, <2>2 DEF DialReturns, Teardown
  <1>4. ASSUME NEW t \in Threads, InCall(t) PROVE Teardown'
    <2>1. CASE CloseStop(t)
          BY <2>1, CloseStopTeardown
    <2>2. CASE SendBye(t)
          BY <2>2, SendByeTeardown
    <2>3. CASE SeeDone(t)
          BY <2>3, TeardownOutside DEF SeeDone, Labels
    <2>4. CASE Reinvite(t)
          BY <2>4, TeardownOutside DEF Reinvite, Labels
    <2>5. CASE AckReinvite(t)
          BY <2>5, TeardownOutside DEF AckReinvite, Labels
    <2>6. CASE SetHold(t)
          BY <2>6, TeardownOutside DEF SetHold, Labels
    <2>7. CASE Refer(t)
          BY <2>7, TeardownOutside DEF Refer, Labels
    <2>8. CASE SetTransfer(t)
          BY <2>8, TeardownOutside DEF SetTransfer, Labels
    <2> QED
        BY <1>4, <2>1, <2>2, <2>3, <2>4, <2>5, <2>6, <2>7, <2>8 DEF InCall
  <1>5. ASSUME NEW t \in Callers, Decide(t) PROVE Teardown'
    <2>1. CASE HangupLock(t)
          BY <2>1, HangupLockTeardown DEF Threads
    <2>2. CASE WaitDone(t)
          BY <2>2, TeardownOutside DEF WaitDone, Threads, Labels
    <2>3. CASE TransferLock(t)
          BY <2>3, TeardownOutside DEF TransferLock, Threads, Labels
    <2>4. ASSUME NEW d \in Directions, HoldLock(t, d) PROVE Teardown'
          BY <2>4, TeardownOutside DEF HoldLock, Threads, Labels
    <2> QED
        BY <1>5, <2>1, <2>2, <2>3, <2>4 DEF Decide
  <1>6. CASE TimerStep
        BY <1>6, HangupLockTeardown, TeardownOutside DEF TimerStep, TimerCancelled, Threads, Labels
  <1> QED
      BY <1>1, <1>2, <1>3, <1>4, <1>5, <1>6 DEF Next, DialStep

-----------------------------------------------------------------------------
\* IInv is an invariant of the program.
THEOREM Inductive == Spec => []IInv
  <1>1. IInv /\ [Next]_vars => IInv'
        BY TypesStep, WaitGroupStep, FinalizerStep, TeardownStep DEF IInv
  <1> QED
      BY <1>1, InitIInv, PTL DEF Spec

\* Every variable keeps its type, whatever the script threads do.
THEOREM TypeCorrect == Spec => []TypeOK
  <1>1. IInv => TypeOK
        BY FS_CardinalityType DEF IInv, WaitGroup, TypeOK
  <1> QED
      BY <1>1, Inductive, PTL

\* Nothing is snapshot or closed while a worker runs.
THEOREM Quiet == Spec => []QuietWhenFinalizing
  <1>1. IInv => QuietWhenFinalizing
        BY DEF IInv, Finalizer, QuietWhenFinalizing
  <1> QED
      BY <1>1, Inductive, PTL

\* One thread tears the call down, and at most one BYE leaves.
THEOREM Owner == Spec => []OneOwner
  <1>1. IInv => OneOwner
        BY DEF IInv, Teardown, OneOwner, Owners
  <1> QED
      BY <1>1, Inductive, PTL

\* An active call has its receiver, its socket, its client and its recorder.
THEOREM Usable == Spec => []UpIsUsable
  <1>1. IInv => UpIsUsable
        BY DEF IInv, Types, Finalizer, Teardown, UpIsUsable
  <1> QED
      BY <1>1, Inductive, PTL

-----------------------------------------------------------------------------
\* Hold and Unhold read onHold under mu, release it for the re-INVITE and take
\* it again, so several threads may be between the remote's answer and the
\* second critical section (Open).  Those of them that crossed no re-INVITE of
\* the other direction asked for the direction the remote has; when none is
\* there and the last one was undisturbed, onHold tells that direction.
HoldState ==
    /\ crossed \subseteq Open
    /\ Open = {} /\ ~adrift => (onHold <=> remote.dir = "inactive")
    /\ \A t \in Open \ crossed : remote.dir = req[t]

\* A step that opens and closes no exchange, and leaves the flags, the open
\* requests and the remote's direction alone, keeps the agreement.
LEMMA HoldFrame ==
    ASSUME HoldState, Open' = Open, \A u \in Open : req'[u] = req[u],
           UNCHANGED <<onHold, driftVars>>, remote'.dir = remote.dir
    PROVE  HoldState'
  BY DEF HoldState

\* A thread that moves between places outside an exchange opens and closes none.
LEMMA HoldOutside ==
    ASSUME NEW t \in Threads, NEW label \in Labels, Types, HoldState,
           pc' = [pc EXCEPT ![t] = label],
           pc[t] \notin {"ack", "setHold"}, label \notin {"ack", "setHold"},
           \A u \in Threads \ {t} : req'[u] = req[u],
           UNCHANGED <<onHold, driftVars>>, remote'.dir = remote.dir
    PROVE  HoldState'
  <1>1. \A u \in Threads : pc'[u] = IF u = t THEN label ELSE pc[u]
        BY DEF Types
  <1>2. Open' = Open /\ t \notin Open
        BY <1>1 DEF Open
  <1>3. \A u \in Open : req'[u] = req[u]
        BY <1>2 DEF Open
  <1> QED
      BY <1>2, <1>3, HoldFrame

\* The critical section that begins a Hold or an Unhold.
LEMMA HoldLockAgrees ==
    ASSUME NEW t \in Threads, NEW d \in Directions, Types, HoldState, HoldLock(t, d)
    PROVE  HoldState'
  <1>1. \A u \in Threads \ {t} : req'[u] = req[u]
        BY DEF HoldLock, Types
  <1>2. /\ pc[t] = "idle" /\ pc' = [pc EXCEPT ![t] = "reinvite"]
        /\ UNCHANGED <<onHold, driftVars, remote>>
        BY DEF HoldLock
  <1> QED
      BY <1>1, <1>2, HoldOutside DEF Labels

\* The exchange: whoever is open and asked for another direction than the one
\* the remote accepts now has crossed it.
LEMMA ReinviteAgrees ==
    ASSUME NEW t \in Threads, Types, HoldState, Reinvite(t)
    PROVE  HoldState'
  <1>1. pc[t] = "reinvite" /\ UNCHANGED <<onHold, req>> /\ t \notin Open
        BY DEF Reinvite, Open
  <1>2. \A u \in Open : u \in Opposed(t) \/ req[u] = req[t]
        BY DEF Opposed
  <1>3. Opposed(t) \subseteq Open
        BY DEF Opposed
  <1>4. CASE /\ Accepted(t) /\ pc' = [pc EXCEPT ![t] = "ack"] /\ UNCHANGED adrift
             /\ crossed' = crossed \union Opposed(t) \union (IF Opposed(t) = {} THEN {} ELSE {t})
    <2>1. Open' = Open \union {t}
          BY <1>4 DEF Types, Open
    <2>2. remote'.dir = req[t]
          BY <1>4 DEF Accepted, Types
    <2> QED
        BY <1>1, <1>2, <1>3, <1>4, <2>1, <2>2 DEF HoldState
  <1>5. ASSUME NEW label \in {"exited", "idle"}, pc' = [pc EXCEPT ![t] = label],
               Accepted(t), crossed' = crossed \union Opposed(t), adrift'
        PROVE  HoldState'
    <2>1. Open' = Open
          BY <1>1, <1>5 DEF Types, Open
    <2>2. remote'.dir = req[t]
          BY <1>5 DEF Accepted, Types
    <2> QED
        BY <1>1, <1>2, <1>3, <1>5, <2>1, <2>2 DEF HoldState
  <1>6. ASSUME NEW label \in {"exited", "idle"}, pc' = [pc EXCEPT ![t] = label],
               UNCHANGED <<remote, driftVars>>
        PROVE  HoldState'
        BY <1>1, <1>6, HoldOutside DEF Labels
  <1> QED
      BY <1>4, <1>5, <1>6 DEF Reinvite

\* The ACK, written or not.
LEMMA AckAgrees ==
    ASSUME NEW t \in Threads, Types, HoldState, AckReinvite(t)
    PROVE  HoldState'
  <1>1. pc[t] = "ack" /\ UNCHANGED <<onHold, req, remote>> /\ t \in Open
        BY DEF AckReinvite, Open
  <1>2. CASE pc' = [pc EXCEPT ![t] = "setHold"] /\ UNCHANGED driftVars
    <2>1. Open' = Open
          BY <1>1, <1>2 DEF Types, Open
    <2> QED
        BY <1>1, <1>2, <2>1, HoldFrame
  <1>3. ASSUME NEW label \in {"exited", "idle"}, pc' = [pc EXCEPT ![t] = label],
               crossed' = crossed \ {t}, adrift'
        PROVE  HoldState'
    <2>1. Open' = Open \ {t}
          BY <1>3 DEF Types, Open
    <2> QED
        BY <1>1, <1>3, <2>1 DEF HoldState
  <1> QED
      BY <1>2, <1>3 DEF AckReinvite

\* The second critical section: unless it crossed another, the thread notes
\* the direction that the remote has.
LEMMA SetHoldAgrees ==
    ASSUME NEW t \in Threads, Types, HoldState, SetHold(t)
    PROVE  HoldState'
  <1>1. /\ pc[t] = "setHold" /\ UNCHANGED <<req, remote>> /\ t \in Open
        /\ onHold' = (req[t] = "inactive")
        /\ adrift' = (t \in crossed) /\ crossed' = crossed \ {t}
        BY DEF SetHold, Settled, Open
  <1>2. \A u \in Threads : pc'[u] = IF u # t THEN pc[u] ELSE IF t = Timer THEN "exited" ELSE "idle"
        BY DEF SetHold, Types
  <1>3. Open' = Open \ {t}
        BY <1>2 DEF Open
  <1>4. ~adrift' => (onHold' <=> remote'.dir = "inactive")
        BY <1>1 DEF HoldState
  <1> QED
      BY <1>1, <1>3, <1>4 DEF HoldState

\* Every step keeps the agreement.
LEMMA HoldStateStep ==
    ASSUME IInv, HoldState, [Next]_vars
    PROVE  HoldState'
  <1>0. Types /\ Finalizer
        BY DEF IInv
  <1>1. ASSUME UNCHANGED <<pc, onHold, req, driftVars>>, remote'.dir = remote.dir
        PROVE  HoldState'
    <2>1. Open' = Open /\ \A u \in Open : req'[u] = req[u]
          BY <1>1 DEF Open
    <2> QED
        BY <1>1, <2>1, HoldFrame
  <1>2. ASSUME NEW w \in Workers, StartWorker(w) \/ WorkerExits(w) PROVE HoldState'
        BY <1>1, <1>2 DEF StartWorker, WorkerExits
  <1>3. CASE RTCPBindFails \/ FinStep \/ RemoteHangsUp \/ UNCHANGED vars
    <2>1. UNCHANGED <<pc, onHold, req, driftVars>>
          BY <1>3 DEF RTCPBindFails, FinStep, FinWait, Collect, Publish, Release,
             CloseDone, RemoteHangsUp, vars
    <2>2. remote'.dir = remote.dir
          BY <1>0, <1>3 DEF RTCPBindFails, FinStep, FinWait, Collect, Publish, Release,
             CloseDone, RemoteHangsUp, vars, Types
    <2> QED
        BY <1>1, <2>1, <2>2
  <1>4. CASE DialReturns
    <2>1. \A t \in Threads : pc[t] = "dialing" /\ pc'[t] \in {"idle", "armed", "exited"}
          BY <1>0, <1>4 DEF DialReturns, Finalizer
    <2>2. Open = {} /\ Open' = {}
          BY <2>1 DEF Open
    <2>3. UNCHANGED <<onHold, req, driftVars, remote>>
          BY <1>4 DEF DialReturns
    <2> QED
        BY <2>2, <2>3, HoldFrame
  <1>5. ASSUME NEW t \in Threads, InCall(t) PROVE HoldState'
    <2>1. CASE CloseStop(t)
          BY <1>0, <2>1, HoldOutside DEF CloseStop, Labels
    <2>2. CASE SendBye(t)
      <3>1. remote'.dir = remote.dir
            BY <1>0, <2>2 DEF SendBye, Types
      <3> QED
          BY <1>0, <2>2, <3>1, HoldOutside DEF SendBye, Labels
    <2>3. CASE SeeDone(t)
          BY <1>0, <2>3, HoldOutside DEF SeeDone, Labels
    <2>4. CASE Reinvite(t)
          BY <1>0, <2>4, ReinviteAgrees
    <2>5. CASE AckReinvite(t)
          BY <1>0, <2>5, AckAgrees
    <2>6. CASE SetHold(t)
          BY <1>0, <2>6, SetHoldAgrees
    <2>7. CASE Refer(t)
          BY <1>0, <2>7, HoldOutside DEF Refer, Labels
    <2>8. CASE SetTransfer(t)
          BY <1>0, <2>8, HoldOutside DEF SetTransfer, Labels
    <2> QED
        BY <1>5, <2>1, <2>2, <2>3, <2>4, <2>5, <2>6, <2>7, <2>8 DEF InCall
  <1>6. ASSUME NEW t \in Threads,
               \/ HangupLock(t) \/ WaitDone(t) \/ TransferLock(t) \/ TimerCancelled
               \/ \E d \in Directions : HoldLock(t, d)
        PROVE  HoldState'
    <2>1. CASE HangupLock(t)
          BY <1>0, <2>1, HoldOutside DEF HangupLock, Labels
    <2>2. CASE WaitDone(t)
          BY <1>0, <2>2, HoldOutside DEF WaitDone, Labels
    <2>3. CASE TransferLock(t)
          BY <1>0, <2>3, HoldOutside DEF TransferLock, Labels
    <2>4. CASE TimerCancelled
          BY <1>0, <2>4, HoldOutside DEF TimerCancelled, Labels, Threads
    <2>5. ASSUME NEW d \in Directions, HoldLock(t, d) PROVE HoldState'
          BY <1>0, <2>5, HoldLockAgrees
    <2> QED
        BY <1>6, <2>1, <2>2, <2>3, <2>4, <2>5
  <1> QED
      BY <1>2, <1>3, <1>4, <1>5, <1>6 DEF Next, DialStep, Decide, TimerStep, Threads

\* However many threads hold and resume at once, OnHold tells the direction
\* the remote accepted last whenever no re-INVITE is under way, unless the
\* last one crossed another of the other direction or its answer was lost.
THEOREM HoldsAgree == Spec => []HoldAgrees
  <1>1. Init => HoldState
        BY DEF Init, HoldState, Open
  <1>2. IInv /\ HoldState /\ [Next]_vars => HoldState'
        BY HoldStateStep
  <1>3. HoldState => HoldAgrees
        BY DEF HoldState, HoldAgrees, Busy, Open
  <1> QED
      BY <1>1, <1>2, <1>3, Inductive, PTL DEF Spec

-----------------------------------------------------------------------------
\* The handle implements CallLifecycle: each step of the program is a step of
\* the promise or leaves what the promise speaks of alone.

\* While the call is active its resources are up and nothing is published;
\* when it is no longer active it is done exactly when the finalizer is.
LEMMA Phases ==
    ASSUME IInv
    PROVE  /\ active => ~done /\ conn /\ client /\ ~result.metrics
           /\ fin \notin {"none", "wait"} => ~active
  BY DEF IInv, Finalizer, Teardown, Types

\* Each step of the handle is a step of the abstract life cycle or a stutter.
LEMMA StepMaps ==
    ASSUME IInv, [Next]_vars
    PROVE  [Lifecycle!Next]_(Lifecycle!vars)
  <1> DEFINE Same == UNCHANGED <<active, done, conn, client, byes>>
                     /\ result'.metrics = result.metrics
  <1>1. CASE Same
        BY <1>1 DEF Lifecycle!vars
  <1>2. ASSUME NEW w \in Workers, StartWorker(w) \/ WorkerExits(w) PROVE Same
        BY <1>2 DEF StartWorker, WorkerExits
  <1>3. CASE RTCPBindFails \/ DialReturns \/ FinWait \/ Collect \/ RemoteHangsUp \/ UNCHANGED vars
        BY <1>1, <1>3 DEF RTCPBindFails, DialReturns, FinWait, Collect, RemoteHangsUp, vars
  <1>4. ASSUME NEW t \in Threads, InCall(t) PROVE [Lifecycle!Next]_(Lifecycle!vars)
    <2>1. CASE SendBye(t)
      <3>1. CASE client
        <4>1. /\ ~active /\ ~done /\ byes = 0 /\ byes' = 1
              /\ UNCHANGED <<active, done, conn, client, result>>
              BY <2>1, <3>1 DEF SendBye, IInv, Finalizer, Teardown
        <4>2. Lifecycle!SendBye
              BY <3>1, <4>1 DEF Lifecycle!SendBye
        <4> QED
            BY <4>2 DEF Lifecycle!Next
      <3>2. CASE ~client
            BY <1>1, <2>1, <3>2 DEF SendBye
      <3> QED
          BY <3>1, <3>2
    <2>2. CASE ~SendBye(t)
      <3>1. UNCHANGED <<active, byes>>
            BY <1>4, <2>2 DEF InCall, CloseStop, SeeDone, Reinvite,
               AckReinvite, SetHold, Refer, SetTransfer
      <3> QED
          BY <1>1, <1>4, <3>1, InCallFrame DEF IInv
    <2> QED
        BY <2>1, <2>2
  <1>5. ASSUME NEW t \in Threads,
               \/ HangupLock(t) \/ WaitDone(t) \/ TransferLock(t) \/ TimerCancelled
               \/ \E d \in Directions : HoldLock(t, d)
        PROVE  [Lifecycle!Next]_(Lifecycle!vars)
    <2>1. UNCHANGED <<done, conn, client, byes, result>>
          BY <1>5, DecideFrame DEF IInv
    <2>2. CASE active /\ ~active'
      <3>1. ~done
            BY <2>2, Phases
      <3>2. Lifecycle!BeginTeardown
            BY <2>1, <2>2, <3>1 DEF Lifecycle!BeginTeardown
      <3> QED
          BY <3>2 DEF Lifecycle!Next
    <2>3. CASE UNCHANGED active
          BY <1>1, <2>1, <2>3
    <2>4. UNCHANGED active \/ (active /\ ~active')
          BY <1>5 DEF HangupLock, WaitDone, TransferLock, TimerCancelled, HoldLock
    <2> QED
        BY <2>2, <2>3, <2>4
  <1>6. CASE Publish
    <2>1. /\ ~active /\ ~done /\ conn /\ ~result.metrics /\ result'.metrics
          /\ UNCHANGED <<active, done, conn, client, byes>>
          BY <1>6, Phases DEF Publish, IInv, Finalizer
    <2>2. Lifecycle!Publish
          BY <2>1 DEF Lifecycle!Publish, IInv, Types
    <2> QED
        BY <2>2 DEF Lifecycle!Next
  <1>7. CASE Release
    <2>1. /\ ~active /\ ~done /\ conn /\ result.metrics /\ ~conn' /\ ~client'
          /\ UNCHANGED <<active, done, result, byes>>
          BY <1>7, Phases DEF Release, IInv, Finalizer
    <2>2. Lifecycle!Release
          BY <2>1 DEF Lifecycle!Release
    <2> QED
        BY <2>2 DEF Lifecycle!Next
  <1>8. CASE CloseDone
    <2>1. /\ ~active /\ ~done /\ ~conn /\ ~client /\ result.metrics /\ done'
          /\ UNCHANGED <<active, conn, client, result, byes>>
          BY <1>8, Phases DEF CloseDone, IInv, Finalizer
    <2>2. Lifecycle!Finish
          BY <2>1 DEF Lifecycle!Finish
    <2> QED
        BY <2>2 DEF Lifecycle!Next
  <1> QED
      BY <1>1, <1>2, <1>3, <1>4, <1>5, <1>6, <1>7, <1>8
      DEF Next, DialStep, Decide, TimerStep, FinStep, Threads

\* The handle of sip/handle.go implements the call of CallLifecycle.
THEOREM Implements == Spec => ImplementsLifecycle
  <1>1. Init => Lifecycle!Init
        BY DEF Init, NoResult, Lifecycle!Init
  <1> QED
      BY <1>1, StepMaps, Inductive, PTL DEF Spec, ImplementsLifecycle, Lifecycle!Spec
=============================================================================
