----------------------------- MODULE RegisteredUAS -----------------------------
(***************************************************************************)
(* Answering calls: sip/registered_uas.go and, as a configuration of the   *)
(* same module, the plain listener of sip/server.go.  The processes are    *)
(* one goroutine per INVITE, one per BYE, the refresh loop, and the script *)
(* that starts and stops it all; callers and the registrar are the         *)
(* environment.  Receiving and playing media belongs to ReceivePath; here  *)
(* a handler that talks waits for the end of its call.                     *)
(***************************************************************************)
EXTENDS Integers, FiniteSets

CONSTANTS
    Invites,   \* the INVITEs that may arrive
    CallIDs,
    None,      \* no INVITE
    Configs    \* configurations: plain is the listener of server.go, capped
               \* says CallDuration > 0, limit is MaxConcurrent, 0 for none,
               \* id gives the Call-ID of each INVITE; ticks is a bound: how
               \* often the refresh loop ticks during the run

ASSUME UASAssumption ==
    /\ IsFiniteSet(Invites) /\ None \notin Invites
    /\ Configs \subseteq [plain : BOOLEAN, capped : BOOLEAN, limit : Nat, ticks : Nat,
                    id : [Invites -> CallIDs]]

VARIABLES
    cfg,
    pc,        \* where the handler of each INVITE is
    resp,      \* its final response
    closed,    \* its stop channel is closed
    active,    \* r.active
    stopMap,   \* Call-ID to the handler whose channel it holds
    results,   \* INVITEs that have a result in r.results
    caller,    \* the far end of each Call-ID: "idle", "up" or "down"
    bye,       \* handleBye for each Call-ID, and the channel it has looked up
    script,    \* NewRegisteredUAS, Unregister and Stop
    refresher, \* the refresh loop
    request,   \* REGISTER of the script and of the refresh loop
    bound,     \* the registrar sends calls here
    ticks,
    removed    \* Stop's REGISTER with Expires: 0 was answered 200 (history)

callVars == <<pc, resp, closed, active, stopMap, results>>
byeVars == <<caller, bye>>
agentVars == <<script, refresher, request, bound, ticks, removed>>
uasVars == <<cfg, callVars, byeVars, agentVars>>

Requesters == {"script", "refresher"}
ID(i) == cfg.id[i]
\* cancel has been called, and the user agent has been closed.
ContextDone == script \in {"close", "stopped"}
Listening == script # "stopped"
Limited == cfg.limit > 0

UASInit ==
    /\ cfg \in Configs
    /\ pc = [i \in Invites |-> "new"] /\ resp = [i \in Invites |-> "none"]
    /\ closed = [i \in Invites |-> FALSE]
    /\ active = 0 /\ stopMap = [c \in CallIDs |-> None] /\ results = {}
    /\ caller = [c \in CallIDs |-> "idle"]
    /\ bye = [c \in CallIDs |-> [st |-> "none", of |-> None]]
    /\ script = IF cfg.plain THEN "run" ELSE "starting"
    /\ refresher = "none" /\ request = [q \in Requesters |-> "none"]
    /\ bound = FALSE /\ ticks = 0 /\ removed = FALSE

Goto(i, label) == pc' = [pc EXCEPT ![i] = label]

-----------------------------------------------------------------------------
(* handleInvite.                                                           *)

\* A first INVITE, or one inside the dialog its caller is in (a re-INVITE).
Arrives(i) ==
    /\ Listening /\ pc[i] = "new"
    /\ \/ caller[ID(i)] = "idle" /\ \A j \in Invites : ID(j) = ID(i) => pc[j] = "new"
       \/ caller[ID(i)] = "up"

\* Slip: the check lets one too many in.
AdmitOneMore(i) ==
    /\ Arrives(i)
    /\ \/ /\ Limited /\ active > cfg.limit
          /\ Goto(i, "gone") /\ resp' = [resp EXCEPT ![i] = "busy"]
          /\ UNCHANGED active
       \/ /\ ~(Limited /\ active > cfg.limit)
          /\ Goto(i, "offer") /\ active' = active + (IF Limited THEN 1 ELSE 0)
          /\ UNCHANGED resp
    /\ UNCHANGED <<cfg, closed, stopMap, results, byeVars, agentVars>>

\* The INVITE arrives and its handler takes a slot, or answers 486.
Admit(i) ==
    /\ Arrives(i)
    /\ \/ /\ Limited /\ active >= cfg.limit
          /\ Goto(i, "gone") /\ resp' = [resp EXCEPT ![i] = "busy"]
          /\ UNCHANGED active
       \/ /\ ~(Limited /\ active >= cfg.limit)
          /\ Goto(i, "offer") /\ active' = active + (IF Limited THEN 1 ELSE 0)
          /\ UNCHANGED resp
    /\ UNCHANGED <<cfg, closed, stopMap, results, byeVars, agentVars>>

\* Codec, offer, RTP socket (after the answer in server.go) and Call-ID; a
\* failure is answered 4xx or 500.
Prepare(i) ==
    /\ pc[i] = "offer"
    /\ \/ Goto(i, "leave") /\ resp' = [resp EXCEPT ![i] = "error"]
       \/ Goto(i, IF cfg.plain THEN "answer" ELSE "store") /\ UNCHANGED resp
    /\ UNCHANGED <<cfg, closed, active, stopMap, results, byeVars, agentVars>>

\* Slip: the 200 leaves before the channel can be found.
StoreLate(i) ==
    /\ \/ /\ pc[i] = "store"
          /\ Goto(i, "answer")
          /\ UNCHANGED stopMap
       \/ /\ pc[i] = "talk" /\ stopMap[ID(i)] # i
          /\ stopMap' = [stopMap EXCEPT ![ID(i)] = i]
          /\ UNCHANGED pc
    /\ UNCHANGED <<cfg, resp, closed, active, results, byeVars, agentVars>>

\* The stop channel can be found before the 200 leaves.
Store(i) ==
    /\ pc[i] = "store"
    /\ stopMap' = [stopMap EXCEPT ![ID(i)] = i]
    /\ Goto(i, "answer")
    /\ UNCHANGED <<cfg, resp, closed, active, results, byeVars, agentVars>>

\* Slip: the delete is deferred only once the 200 has left.
AnswerForgets(i) ==
    /\ pc[i] = "answer"
    /\ \/ /\ Goto(i, IF cfg.plain THEN "bind" ELSE "talk")
          /\ resp' = [resp EXCEPT ![i] = "ok"]
          /\ caller' = [caller EXCEPT ![ID(i)] = IF @ = "idle" THEN "up" ELSE @]
       \/ /\ Goto(i, "leave")
          /\ resp' = [resp EXCEPT ![i] = "error"]
          /\ UNCHANGED caller
    /\ UNCHANGED <<cfg, closed, active, stopMap, results, bye, agentVars>>

\* The 200, or an error of the transaction.
AnswerInvite(i) ==
    /\ pc[i] = "answer"
    /\ \/ /\ Goto(i, IF cfg.plain THEN "bind" ELSE "talk")
          /\ resp' = [resp EXCEPT ![i] = "ok"]
          /\ caller' = [caller EXCEPT ![ID(i)] = IF @ = "idle" THEN "up" ELSE @]
       \/ /\ Goto(i, IF cfg.plain THEN "leave" ELSE "unstore")
          /\ resp' = [resp EXCEPT ![i] = "error"]
          /\ UNCHANGED caller
    /\ UNCHANGED <<cfg, closed, active, stopMap, results, bye, agentVars>>

\* The plain listener binds the port it has already put in its answer.
BindLate(i) ==
    /\ pc[i] = "bind"
    /\ Goto(i, "talk") \/ Goto(i, "leave")
    /\ UNCHANGED <<cfg, resp, closed, active, stopMap, results, byeVars, agentVars>>

\* Slip: the end of the process's context is not waited for.
WakeNotOnStop(i) ==
    /\ pc[i] = "talk"
    /\ cfg.capped \/ (~cfg.plain /\ closed[i])
    /\ Goto(i, "signal")
    /\ UNCHANGED <<cfg, resp, closed, active, stopMap, results, byeVars, agentVars>>

\* CallDuration is over, a BYE has come, or Stop; the plain listener sees
\* only the first.
Wake(i) ==
    /\ pc[i] = "talk"
    /\ cfg.capped \/ (~cfg.plain /\ (closed[i] \/ ContextDone))
    /\ Goto(i, "signal")
    /\ UNCHANGED <<cfg, resp, closed, active, stopMap, results, byeVars, agentVars>>

\* callStop.signal: whoever comes first closes the channel.
Signal(i) == closed' = [closed EXCEPT ![i] = TRUE]

SignalOwn(i) ==
    /\ pc[i] = "signal"
    /\ Signal(i)
    /\ Goto(i, "publish")
    /\ UNCHANGED <<cfg, resp, active, stopMap, results, byeVars, agentVars>>

\* The receiver has stopped; its statistics become a result.
Publish(i) ==
    /\ pc[i] = "publish"
    /\ results' = results \union {i}
    /\ Goto(i, IF cfg.plain THEN "leave" ELSE "unstore")
    /\ UNCHANGED <<cfg, resp, closed, active, stopMap, byeVars, agentVars>>

\* The deferred delete removes whatever the map has for the Call-ID.
Unstore(i) ==
    /\ pc[i] = "unstore"
    /\ stopMap' = [stopMap EXCEPT ![ID(i)] = None]
    /\ Goto(i, "leave")
    /\ UNCHANGED <<cfg, resp, closed, active, results, byeVars, agentVars>>

Leave(i) ==
    /\ pc[i] = "leave"
    /\ active' = active - (IF Limited THEN 1 ELSE 0)
    /\ Goto(i, "gone")
    /\ UNCHANGED <<cfg, resp, closed, stopMap, results, byeVars, agentVars>>

-----------------------------------------------------------------------------
(* BYE: handleBye answers 200, looks the channel up and closes it.  The    *)
(* plain listener has no handler for it.                                   *)

CallerHangsUp(c) ==
    /\ Listening /\ caller[c] = "up"
    /\ caller' = [caller EXCEPT ![c] = "down"]
    /\ bye' = IF cfg.plain THEN bye ELSE [bye EXCEPT ![c].st = "lookup"]
    /\ UNCHANGED <<cfg, callVars, agentVars>>

ByeLookup(c) ==
    /\ bye[c].st = "lookup"
    /\ bye' = [bye EXCEPT ![c] = [st |-> IF stopMap[c] = None THEN "done" ELSE "signal",
                                  of |-> stopMap[c]]]
    /\ UNCHANGED <<cfg, callVars, caller, agentVars>>

ByeSignal(c) ==
    /\ bye[c].st = "signal"
    /\ Signal(bye[c].of)
    /\ bye' = [bye EXCEPT ![c].st = "done"]
    /\ UNCHANGED <<cfg, pc, resp, active, stopMap, results, caller, agentVars>>

-----------------------------------------------------------------------------
(* Registration.  A REGISTER is sent, may reach the registrar, and returns *)
(* with its answer, or with an error when it or the answer is lost.        *)

Send(q) == request' = [request EXCEPT ![q] = "sent"]

\* The end of NewRegisteredUAS: the first REGISTER succeeds, or everything is
\* torn down again.
Start ==
    /\ script = "starting"
    /\ \/ script' = "run" /\ refresher' = "wait" /\ bound' = TRUE
       \/ script' = "close" /\ bound' \in BOOLEAN /\ UNCHANGED refresher
    /\ UNCHANGED <<cfg, callVars, byeVars, request, ticks, removed>>

\* Unregister keeps listening, Stop goes on; the plain listener has nothing
\* to unregister.
UnregisterOrStop ==
    /\ script = "run" /\ ~cfg.plain
    /\ script' \in {"unregister", "stop"} /\ Send("script")
    /\ UNCHANGED <<cfg, callVars, byeVars, refresher, bound, ticks, removed>>

ClosePlain ==
    /\ script = "run" /\ cfg.plain
    /\ script' = "close"
    /\ UNCHANGED <<cfg, callVars, byeVars, refresher, request, bound, ticks, removed>>

RegistrarAccepts(q) ==
    /\ request[q] = "sent"
    /\ request' = [request EXCEPT ![q] = "accepted"]
    /\ bound' = (q = "refresher")
    /\ UNCHANGED <<cfg, callVars, byeVars, script, refresher, ticks, removed>>

\* Errors are ignored by Stop and by the refresh loop.
ScriptReturns ==
    /\ request["script"] # "none"
    /\ request' = [request EXCEPT !["script"] = "none"]
    /\ script' = IF script = "stop" THEN "cancel" ELSE "run"
    /\ removed' \in {FALSE, script = "stop" /\ request["script"] = "accepted"}
    /\ UNCHANGED <<cfg, callVars, byeVars, refresher, bound, ticks>>

Cancel ==
    /\ script = "cancel"
    /\ script' = "close"
    /\ UNCHANGED <<cfg, callVars, byeVars, refresher, request, bound, ticks, removed>>

CloseUA ==
    /\ script = "close"
    /\ script' = "stopped"
    /\ UNCHANGED <<cfg, callVars, byeVars, refresher, request, bound, ticks, removed>>

\* The ticker fires; a tick that is due may win against ctx.Done.  A REGISTER
\* on a user agent that is closed fails at once and the loop goes on.
RefreshDue ==
    /\ refresher = "wait" /\ Listening /\ ticks < cfg.ticks
    /\ ticks' = ticks + 1
    /\ refresher' = "sending" /\ Send("refresher")
    /\ UNCHANGED <<cfg, callVars, byeVars, script, bound, removed>>

RefreshReturns ==
    /\ request["refresher"] # "none"
    /\ request' = [request EXCEPT !["refresher"] = "none"]
    /\ refresher' = "wait"
    /\ UNCHANGED <<cfg, callVars, byeVars, script, bound, ticks, removed>>

RefreshEnds ==
    /\ refresher = "wait" /\ ContextDone
    /\ refresher' = "gone"
    /\ UNCHANGED <<cfg, callVars, byeVars, script, request, bound, ticks, removed>>

-----------------------------------------------------------------------------
Handle(i) == \/ Prepare(i) \/ Store(i) \/ AnswerInvite(i) \/ BindLate(i) \/ Wake(i) \/ SignalOwn(i)
             \/ Publish(i) \/ Unstore(i) \/ Leave(i)
HandleBye(c) == ByeLookup(c) \/ ByeSignal(c)
ScriptStep == ScriptReturns \/ Cancel \/ CloseUA
RefreshStep == RefreshReturns \/ RefreshEnds

UASNext ==
    \/ \E i \in Invites : Admit(i) \/ Handle(i)
    \/ \E c \in CallIDs : CallerHangsUp(c) \/ HandleBye(c)
    \/ \E q \in Requesters : RegistrarAccepts(q)
    \/ Start \/ UnregisterOrStop \/ ClosePlain \/ ScriptStep
    \/ RefreshDue \/ RefreshStep

UASSpec == UASInit /\ [][UASNext]_uasVars

\* Handlers that can go on do, a REGISTER returns within ten seconds, Stop is
\* carried through once it has begun.  Callers, the registrar and the script's
\* decision to stop are not fair.
UASFairSpec ==
    /\ UASSpec
    /\ \A i \in Invites : WF_uasVars(Handle(i))
    /\ \A c \in CallIDs : WF_uasVars(HandleBye(c))
    /\ WF_uasVars(ScriptStep) /\ WF_uasVars(RefreshStep)

-----------------------------------------------------------------------------
(* Properties.                                                             *)

Labels == {"new", "offer", "store", "answer", "bind", "talk", "signal", "publish", "unstore",
           "leave", "gone"}

UASTypeOK ==
    /\ cfg \in Configs
    /\ pc \in [Invites -> Labels]
    /\ resp \in [Invites -> {"none", "busy", "error", "ok"}]
    /\ closed \in [Invites -> BOOLEAN]
    /\ active \in Nat /\ results \subseteq Invites
    /\ stopMap \in [CallIDs -> Invites \union {None}]
    /\ caller \in [CallIDs -> {"idle", "up", "down"}]
    /\ bye \in [CallIDs -> [st : {"none", "lookup", "signal", "done"}, of : Invites \union {None}]]
    /\ script \in {"starting", "run", "unregister", "stop", "cancel", "close", "stopped"}
    /\ refresher \in {"none", "wait", "sending", "gone"}
    /\ request \in [Requesters -> {"none", "sent", "accepted"}]
    /\ bound \in BOOLEAN /\ ticks \in 0 .. cfg.ticks
    /\ removed \in BOOLEAN

\* Handlers that have been admitted and have not returned.
Holding == {i \in Invites : pc[i] \notin {"new", "gone"}}

\* r.active counts the handlers that hold a slot, whichever way each of them
\* returns, so MaxConcurrent is never exceeded and an INVITE gets 486 only
\* while that many calls are under way (handleInvite: the deferred function).
SlotsExact == Limited => active = Cardinality(Holding) /\ active <= cfg.limit

\* A channel that a BYE can look up belongs to a handler of that Call-ID that
\* is still there, also when a re-INVITE replaced the entry and when the
\* deferred delete of one handler hits the entry of another.
EntryIsLive ==
    \A c \in CallIDs : stopMap[c] # None =>
        ID(stopMap[c]) = c /\ pc[stopMap[c]] \in {"answer", "talk", "signal", "publish", "unstore"}

\* Stop unregisters (registered_uas.go:219): once it has returned, and its
\* REGISTER with Expires: 0 was answered 200, the registrar sends no calls to
\* the listener that is gone (Stop, autoRefresh).
StopUnregisters == script = "stopped" /\ removed => ~bound

Single(c) == Cardinality({i \in Invites : ID(i) = c}) = 1

\* A BYE that comes right after the 200 is not missed: without cap and Stop it
\* alone ends the call, when no other INVITE has the same Call-ID
\* (handleInvite, handleBye).
ByeEndsCall ==
    \A c \in CallIDs : \A i \in Invites :
        bye[c].st # "none" /\ Single(c) /\ ID(i) = c ~> pc[i] = "gone"

\* After Stop the refresh loop ends, every handler returns, a re-INVITE's and
\* an uncapped call's too, and every answered call has its result (Stop).
UASSettles ==
    script = "stopped" /\ (~cfg.plain \/ cfg.capped) ~>
        /\ refresher \in {"none", "gone"}
        /\ \A i \in Invites : pc[i] \in {"new", "gone"}
        /\ active = 0
        /\ ~cfg.plain => \A i \in Invites : resp[i] = "ok" => i \in results
=============================================================================
