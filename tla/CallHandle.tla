------------------------------ MODULE CallHandle ------------------------------
(***************************************************************************)
(* One established call: sip/handle.go, sip/hold.go, the REFER half of     *)
(* sip/transfer.go, and the steps of sip/dial.go that start the goroutines *)
(* of the call.  The processes are the script threads that use the handle, *)
(* the auto-hangup timer, the media workers counted by the wait group, the *)
(* finalizer and the remote party.  A step is what runs between two points *)
(* where another process can observe the call: one critical section of mu, *)
(* one operation on a channel or on the wait group, one message exchange.  *)
(* API calls that return at once without changing anything (Hold on a held *)
(* or ended call, SendDTMF on an ended one) are stuttering steps.          *)
(***************************************************************************)
EXTENDS Naturals, FiniteSets

CONSTANTS
    Callers,        \* script threads that share the handle
    Holders,        \* those that call Hold and Unhold
    Timer,          \* the auto-hangup goroutine
    HasDuration,    \* cfg.Duration > 0: the timer is armed
    Workers,        \* the goroutines this configuration counts in wg
    Finite,         \* those that may end by themselves (a stream runs out)
    AnswersLost,    \* a 200 to a re-INVITE, or its ACK, may fail to arrive
    MaxVer          \* bound: re-INVITEs begun during the call

ASSUME CallAssumption ==
    /\ Timer \notin Callers /\ Holders \subseteq Callers
    /\ IsFiniteSet(Callers)
    /\ HasDuration \in BOOLEAN /\ AnswersLost \in BOOLEAN
    /\ Workers \subseteq {"receiver", "echo", "sender", "rtcp"}
    /\ "receiver" \in Workers           \* every call has a receiver ...
    /\ Finite \subseteq Workers \ {"receiver"}  \* ... and it runs until stop
    /\ MaxVer \in Nat

VARIABLES
    pending,    \* workers Dial has not started yet
    running,    \* workers that have been started and have not exited
    wg,         \* counter of the sync.WaitGroup
    stop,       \* channel stop is closed
    done,       \* channel done is closed
    active,     \* h.active
    onHold,     \* h.onHold
    sdpVer,     \* h.sdpVer
    result,     \* h.result: metrics written, TransferOK
    recorder,   \* the recorder is open
    conn,       \* the RTP socket is open
    client,     \* the SIP client is open
    fin,        \* where the finalizer is
    pc,         \* where each thread is
    req,        \* the direction of the re-INVITE a thread sends
    remote,     \* the far end: up, the direction it accepted last
    byes,       \* BYE requests that left
    crossed,    \* threads whose re-INVITE crossed one of the other direction (history)
    adrift      \* the last re-INVITE crossed another or its answer was lost (history)

dialVars   == <<pending, running, wg>>
finVars    == <<fin, recorder, conn, client, done>>
driftVars  == <<crossed, adrift>>
dialogVars == <<remote, byes, driftVars>>
holdVars   == <<onHold, sdpVer, req>>
vars == <<pending, running, wg, stop, done, active, onHold, sdpVer, result,
          recorder, conn, client, fin, pc, req, remote, byes, driftVars>>

Threads == Callers \union {Timer}
Directions == {"sendrecv", "inactive"}
NoResult == [metrics |-> FALSE, transferOK |-> FALSE]

Goto(t, label) == pc' = [pc EXCEPT ![t] = label]
\* A script thread is free for its next call, a timer goroutine is gone.
Return(t) == Goto(t, IF t = Timer THEN "exited" ELSE "idle")

Init ==
    /\ pending = Workers /\ running = {} /\ wg = 0
    /\ stop = FALSE /\ done = FALSE
    /\ active = TRUE /\ onHold = FALSE /\ sdpVer = 0
    /\ result = NoResult
    /\ recorder = TRUE /\ conn = TRUE /\ client = TRUE
    /\ fin = "none"
    /\ pc = [t \in Threads |-> "dialing"]
    /\ req = [t \in Threads |-> "sendrecv"]
    /\ remote = [up |-> TRUE, dir |-> "sendrecv"]
    /\ byes = 0 /\ crossed = {} /\ adrift = FALSE

-----------------------------------------------------------------------------
(* The end of Dial: start the workers in order, then the finalizer, then   *)
(* the timer, and hand the handle to the script.                           *)

Rank(w) == CASE w = "receiver" -> 1 [] w = "rtcp" -> 3 [] OTHER -> 2

NextToStart(w) == w \in pending /\ \A v \in pending : Rank(w) <= Rank(v)

StartWorker(w) ==
    /\ NextToStart(w)
    /\ pending' = pending \ {w}
    /\ running' = running \union {w}
    /\ wg' = wg + 1
    /\ UNCHANGED <<finVars, dialogVars, holdVars, stop, active, result, pc>>

\* The RTCP port is taken: the call goes on without RTCP.
RTCPBindFails ==
    /\ NextToStart("rtcp")
    /\ pending' = pending \ {"rtcp"}
    /\ UNCHANGED <<running, wg, finVars, dialogVars, holdVars, stop, active, result, pc>>

DialReturns ==
    /\ pending = {} /\ fin = "none"
    /\ fin' = "wait"
    /\ pc' = [t \in Threads |-> IF t \in Callers THEN "idle"
                                ELSE IF HasDuration THEN "armed" ELSE "exited"]
    /\ UNCHANGED <<dialVars, recorder, conn, client, done, dialogVars, holdVars,
                   stop, active, result>>

-----------------------------------------------------------------------------
(* Media workers: wg.Done when they see stop, or when their stream ends.   *)

\* Slip: a worker that returns on any socket error.
WorkerExitsOnError(w) ==
    /\ w \in running
    /\ running' = running \ {w}
    /\ wg' = wg - 1
    /\ UNCHANGED <<pending, finVars, dialogVars, holdVars, stop, active, result, pc>>

WorkerExits(w) ==
    /\ w \in running
    /\ stop \/ w \in Finite
    /\ running' = running \ {w}
    /\ wg' = wg - 1
    /\ UNCHANGED <<pending, finVars, dialogVars, holdVars, stop, active, result, pc>>

-----------------------------------------------------------------------------
(* Hangup, by a script thread or by the timer that has fired.              *)

\* Slip: active is left set.
HangupLockForgets(t) ==
    /\ pc[t] = IF t = Timer THEN "armed" ELSE "idle"
    /\ Goto(t, IF active THEN "closeStop" ELSE "waitDone")
    /\ UNCHANGED <<dialVars, finVars, dialogVars, holdVars, stop, active, result>>

HangupLock(t) ==
    /\ pc[t] = IF t = Timer THEN "armed" ELSE "idle"
    /\ \/ active /\ active' = FALSE /\ Goto(t, "closeStop")
       \/ ~active /\ UNCHANGED active /\ Goto(t, "waitDone")
    /\ UNCHANGED <<dialVars, finVars, dialogVars, holdVars, stop, result>>

TimerCancelled ==
    /\ pc[Timer] = "armed" /\ stop
    /\ Goto(Timer, "exited")
    /\ UNCHANGED <<dialVars, finVars, dialogVars, holdVars, stop, active, result>>

\* Slip: stop is not closed.
CloseStopForgets(t) ==
    /\ pc[t] = "closeStop"
    /\ Goto(t, "bye")
    /\ UNCHANGED <<dialVars, finVars, dialogVars, holdVars, stop, active, result>>

CloseStop(t) ==
    /\ pc[t] = "closeStop"
    /\ stop' = TRUE
    /\ Goto(t, "bye")
    /\ UNCHANGED <<dialVars, finVars, dialogVars, holdVars, active, result>>

\* The error of Bye is ignored: from a closed client nothing leaves.
SendBye(t) ==
    /\ pc[t] = "bye"
    /\ \/ client /\ byes' = byes + 1 /\ remote' = [remote EXCEPT !.up = FALSE]
       \/ ~client /\ UNCHANGED <<byes, remote>>
    /\ Goto(t, "waitDone")
    /\ UNCHANGED <<driftVars, dialVars, finVars, holdVars, stop, active, result>>

\* WaitDone, and Result before it reads the result.
WaitDone(t) ==
    /\ t \in Callers /\ pc[t] = "idle" /\ ~done
    /\ Goto(t, "waitDone")
    /\ UNCHANGED <<dialVars, finVars, dialogVars, holdVars, stop, active, result>>

SeeDone(t) ==
    /\ pc[t] = "waitDone" /\ done
    /\ Return(t)
    /\ UNCHANGED <<dialVars, finVars, dialogVars, holdVars, stop, active, result>>

-----------------------------------------------------------------------------
(* Hold and Unhold: one re-INVITE, between two critical sections of mu.    *)

\* The version of the offer, taken after mu is released, is read by no other
\* thread: it counts the re-INVITEs begun.
HoldLock(t, d) ==
    /\ t \in Holders /\ pc[t] = "idle"
    /\ active
    /\ onHold = (d = "sendrecv")        \* else: nothing to do
    /\ sdpVer < MaxVer
    /\ sdpVer' = sdpVer + 1
    /\ req' = [req EXCEPT ![t] = d]
    /\ Goto(t, "reinvite")
    /\ UNCHANGED <<dialVars, finVars, dialogVars, onHold, stop, active, result>>

Accepted(t) == remote' = [remote EXCEPT !.dir = req[t]]

\* Threads whose re-INVITE the remote has accepted and OnHold does not tell
\* yet, and those among them that asked for the other direction than t.
Open == {u \in Threads : pc[u] \in {"ack", "setHold"}}
Opposed(t) == {u \in Open : req[u] # req[t]}

\* The remote accepts and its 200 arrives; or it accepts and the 200 does
\* not; or it refuses, is gone, or cannot be reached any more.
Reinvite(t) ==
    /\ pc[t] = "reinvite"
    /\ \/ /\ client /\ remote.up /\ Accepted(t) /\ Goto(t, "ack")
          /\ crossed' = crossed \union Opposed(t) \union (IF Opposed(t) = {} THEN {} ELSE {t})
          /\ UNCHANGED adrift
       \/ /\ AnswersLost /\ client /\ remote.up /\ Accepted(t) /\ Return(t)
          /\ crossed' = crossed \union Opposed(t)
          /\ adrift' = TRUE
       \/ UNCHANGED <<remote, driftVars>> /\ Return(t)
    /\ UNCHANGED <<dialVars, finVars, byes, holdVars, stop, active, result>>

\* The ACK cannot be written: Hold reports an error.
AckReinvite(t) ==
    /\ pc[t] = "ack"
    /\ \/ client /\ Goto(t, "setHold") /\ UNCHANGED driftVars
       \/ /\ ~client \/ AnswersLost
          /\ Return(t) /\ crossed' = crossed \ {t} /\ adrift' = TRUE
    /\ UNCHANGED <<dialVars, finVars, remote, byes, holdVars, stop, active, result>>

Settled(t) == adrift' = (t \in crossed) /\ crossed' = crossed \ {t}

\* Slip: Unhold copied from Hold.
SetHoldCopied(t) ==
    /\ pc[t] = "setHold"
    /\ onHold' = TRUE
    /\ Return(t) /\ Settled(t)
    /\ UNCHANGED <<dialVars, finVars, remote, byes, sdpVer, req, stop, active, result>>

SetHold(t) ==
    /\ pc[t] = "setHold"
    /\ onHold' = (req[t] = "inactive")
    /\ Return(t) /\ Settled(t)
    /\ UNCHANGED <<dialVars, finVars, remote, byes, sdpVer, req, stop, active, result>>

-----------------------------------------------------------------------------
(* BlindTransfer: REFER, then TransferOK in the result.                    *)

TransferLock(t) ==
    /\ t \in Callers /\ pc[t] = "idle"
    /\ active
    /\ Goto(t, "refer")
    /\ UNCHANGED <<dialVars, finVars, dialogVars, holdVars, stop, active, result>>

Refer(t) ==
    /\ pc[t] = "refer"
    /\ \/ client /\ remote.up /\ Goto(t, "setTransfer")     \* 200 or 202
       \/ Return(t)                                         \* any error
    /\ UNCHANGED <<dialVars, finVars, dialogVars, holdVars, stop, active, result>>

SetTransfer(t) ==
    /\ pc[t] = "setTransfer"
    /\ result' = [result EXCEPT !.transferOK = TRUE]
    /\ Return(t)
    /\ UNCHANGED <<dialVars, finVars, dialogVars, holdVars, stop, active>>

-----------------------------------------------------------------------------
(* The finalizer.                                                          *)

\* Slip: the finalizer does not wait for the workers.
FinWaitNot ==
    /\ fin = "wait"
    /\ fin' = "collect"
    /\ UNCHANGED <<dialVars, recorder, conn, client, done, dialogVars, holdVars,
                   stop, active, result, pc>>

FinWait ==
    /\ fin = "wait" /\ wg = 0
    /\ fin' = "collect"
    /\ UNCHANGED <<dialVars, recorder, conn, client, done, dialogVars, holdVars,
                   stop, active, result, pc>>

\* Snapshots of the statistics, then the recorder is read and closed.
Collect ==
    /\ fin = "collect"
    /\ recorder' = FALSE
    /\ fin' = "publish"
    /\ UNCHANGED <<dialVars, conn, client, done, dialogVars, holdVars, stop,
                   active, result, pc>>

\* The whole CallResult is assigned: the literal names no TransferOK.
Publish ==
    /\ fin = "publish"
    /\ result' = [metrics |-> TRUE, transferOK |-> FALSE]
    /\ fin' = "release"
    /\ UNCHANGED <<dialVars, recorder, conn, client, done, dialogVars, holdVars,
                   stop, active, pc>>

Release ==
    /\ fin = "release"
    /\ conn' = FALSE /\ client' = FALSE
    /\ fin' = "finish"
    /\ UNCHANGED <<dialVars, recorder, done, dialogVars, holdVars, stop, active,
                   result, pc>>

\* Slip: done is closed before the resources.
CloseDoneEarly ==
    /\ fin = "release"
    /\ done' = TRUE
    /\ fin' = "done"
    /\ UNCHANGED <<dialVars, recorder, conn, client, dialogVars, holdVars, stop,
                   active, result, pc>>

CloseDone ==
    /\ fin = "finish"
    /\ done' = TRUE
    /\ fin' = "done"
    /\ UNCHANGED <<dialVars, recorder, conn, client, dialogVars, holdVars, stop,
                   active, result, pc>>

-----------------------------------------------------------------------------
(* The remote party hangs up.  The OnBye handler of the client answers 200 *)
(* and touches nothing of the handle.                                      *)

RemoteHangsUp ==
    /\ remote.up
    /\ remote' = [remote EXCEPT !.up = FALSE]
    /\ UNCHANGED <<dialVars, finVars, byes, driftVars, holdVars, stop, active, result, pc>>

-----------------------------------------------------------------------------
DialStep == (\E w \in Workers : StartWorker(w)) \/ RTCPBindFails \/ DialReturns

\* What a thread does once it is inside a call.
InCall(t) == \/ CloseStop(t) \/ SendBye(t) \/ SeeDone(t)
             \/ Reinvite(t) \/ AckReinvite(t) \/ SetHold(t)
             \/ Refer(t) \/ SetTransfer(t)

\* What a script may decide to do next.
Decide(t) == \/ HangupLock(t) \/ WaitDone(t) \/ TransferLock(t)
             \/ \E d \in Directions : HoldLock(t, d)

TimerStep == HangupLock(Timer) \/ TimerCancelled

FinStep == FinWait \/ Collect \/ Publish \/ Release \/ CloseDone

Next == \/ DialStep
        \/ \E w \in Workers : WorkerExits(w)
        \/ \E t \in Threads : InCall(t)
        \/ \E t \in Callers : Decide(t)
        \/ TimerStep
        \/ FinStep
        \/ RemoteHangsUp

Spec == Init /\ [][Next]_vars

(***************************************************************************)
(* Goroutines that can run do run: Dial, the steps inside an API call      *)
(* (each wait for a response has a timeout), the timer, a worker that is   *)
(* to stop (the receiver polls stop every second, a stream on every tick)  *)
(* and the finalizer.  What the script decides and what the remote does    *)
(* are not fair.                                                           *)
(***************************************************************************)
Fairness == /\ WF_vars(DialStep)
            /\ \A t \in Threads : WF_vars(InCall(t))
            /\ WF_vars(TimerStep)
            /\ \A w \in Workers : WF_vars(stop /\ WorkerExits(w))
            /\ WF_vars(FinStep)

FairSpec == Spec /\ Fairness

-----------------------------------------------------------------------------
Labels == {"dialing", "armed", "exited", "idle", "closeStop", "bye", "waitDone",
           "reinvite", "ack", "setHold", "refer", "setTransfer"}

Types ==
    /\ pending \subseteq Workers /\ running \subseteq Workers
    /\ stop \in BOOLEAN /\ done \in BOOLEAN /\ active \in BOOLEAN /\ onHold \in BOOLEAN
    /\ sdpVer \in Nat
    /\ result \in [metrics : BOOLEAN, transferOK : BOOLEAN]
    /\ recorder \in BOOLEAN /\ conn \in BOOLEAN /\ client \in BOOLEAN
    /\ fin \in {"none", "wait", "collect", "publish", "release", "finish", "done"}
    /\ pc \in [Threads -> Labels]
    /\ req \in [Threads -> Directions]
    /\ remote \in [up : BOOLEAN, dir : Directions]
    /\ byes \in Nat /\ crossed \subseteq Threads /\ adrift \in BOOLEAN

\* Every variable has its type; the wait group's counter never goes negative,
\* which would panic (dial.go, every wg.Add has one wg.Done).
TypeOK == Types /\ wg \in Nat

\* The metrics are computed, and the recorder and the sockets closed, only
\* after every worker has exited and while the count can no longer rise
\* (handle.go startFinalize: wg.Wait first; dial.go: Add before the finalizer).
QuietWhenFinalizing == fin \notin {"none", "wait"} => running \union pending = {}

\* However many threads hang up, one of them owns the teardown: it alone
\* closes stop and sends the BYE, and until it closed stop it still exists.
Owners == {t \in Threads : pc[t] \in {"closeStop", "bye"}}
OneOwner ==
    /\ \A t, u \in Owners : t = u
    /\ ~active /\ ~stop => \E t \in Owners : pc[t] = "closeStop"
    /\ byes <= 1
    /\ byes = 1 => stop /\ Owners = {}

\* An up call can still stream and signal: nothing it needs was taken down,
\* though its finite streams may have ended and its remote may have gone.
UpIsUsable == active => /\ ~stop /\ ~done /\ conn /\ client /\ recorder
                        /\ fin # "none" => "receiver" \in running

\* Script threads may Hold and Unhold one call at the same time.  OnHold and
\* the direction the remote accepted last then differ only after a re-INVITE
\* that crossed one of the other direction (it read onHold before the other
\* set it, and the two were accepted in one order and noted in the other) or
\* whose answer or ACK was lost; the next one that completes undisturbed
\* brings them together again (handle.go OnHold; hold.go: Hold, Unhold).
Busy(t) == pc[t] \in {"reinvite", "ack", "setHold"}
HoldAgrees ==
    active /\ ~adrift /\ (\A t \in Threads : ~Busy(t))
        => (onHold <=> remote.dir = "inactive")

\* Whoever begins the teardown, it comes to its end; a call with a duration
\* ends by itself, even if every script thread is blocked in WaitDone or the
\* remote is gone; and no API call hangs, except that WaitDone waits for the
\* end of the call (handle.go: Hangup, startFinalize; dial.go: the timer).
CallEnds ==
    /\ ~active ~> done
    /\ HasDuration => <>done
    /\ \A t \in Callers : pc[t] \notin {"idle", "dialing", "waitDone"} ~> pc[t] = "idle"

\* The remote's BYE ends the call (handle.go: WaitDone "blocks until the call
\* ends (BYE sent/received, Hangup called)").
RemoteByeEnds == (fin = "wait" /\ ~remote.up) ~> done

-----------------------------------------------------------------------------
\* The handle implements the promise of CallLifecycle.
Lifecycle == INSTANCE CallLifecycle
    WITH phase <- IF active THEN "up" ELSE IF done THEN "done" ELSE "ending",
         published <- result.metrics,
         released <- ~conn /\ ~client,
         byeSent <- byes > 0

ImplementsLifecycle == Lifecycle!Spec
=============================================================================
