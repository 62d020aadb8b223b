------------------------------- MODULE CallGroup -------------------------------
(***************************************************************************)
(* Calls that are driven together: the legs of a conference                *)
(* (sip/conference.go), the two legs of a third-party call                 *)
(* (sip/threepcc.go), and a call with the consultant it is transferred to  *)
(* (AttendedTransfer of sip/transfer.go).  A leg is a call handle, seen as *)
(* CallLifecycle sees it: up, ending, done.  The processes are script      *)
(* threads, the goroutine of Dial3PCCWithTimeout, the goroutine an         *)
(* attended transfer leaves behind, and the legs themselves.               *)
(***************************************************************************)
EXTENDS Naturals, Sequences, FiniteSets

CONSTANTS
    A, B,       \* host, party A or transferred call; party B or consultant
    Legs,
    Scripts,    \* threads that share the group
    Configs     \* kind of group; capped: Duration > 0 ends each leg;
                \* deadline: the context of Dial3PCCWithTimeout may expire

Kinds == {"conference", "threeParty", "transfer"}

ASSUME GroupAssumption ==
    /\ A \in Legs /\ B \in Legs /\ A # B
    /\ Configs \subseteq [kind : Kinds, capped : BOOLEAN, deadline : BOOLEAN]

VARIABLES
    cfg,
    leg,        \* what became of each leg
    group,      \* whether the script has a handle of the group
    legs,       \* the legs that handle holds, in order (c.legs; LegA, LegB)
    pc, op,     \* where a script thread is, and in which call
    mine,       \* the leg it dials or transfers
    work,       \* the legs its loop still has to visit
    copied,     \* the legs its last loop began with (history)
    dialer,     \* the goroutine of Dial3PCCWithTimeout
    answer,     \* the channel it answers on
    grace       \* for each leg, the goroutine that is to hang it up

threadVars == <<pc, op, mine, work, copied>>
dialVars == <<dialer, answer>>
vars == <<cfg, leg, group, legs, threadVars, dialVars, grace>>

\* Elements of a sequence.
Members(s) == {s[i] : i \in 1 .. Len(s)}
Other(l) == IF l = A THEN B ELSE A

Init ==
    /\ cfg \in Configs
    /\ leg = [l \in Legs |-> IF cfg.kind = "transfer" /\ l \in {A, B} THEN "up" ELSE "none"]
    /\ group = IF cfg.kind = "transfer" THEN "open" ELSE "none"
    /\ legs = IF cfg.kind = "transfer" THEN <<A, B>> ELSE <<>>
    /\ pc = [t \in Scripts |-> "idle"] /\ op = [t \in Scripts |-> "none"]
    /\ mine = [t \in Scripts |-> A]
    /\ work = [t \in Scripts |-> <<>>] /\ copied = [t \in Scripts |-> {}]
    /\ dialer = "none" /\ answer = "none"
    /\ grace = [l \in Legs |-> "none"]

Goto(t, label) == pc' = [pc EXCEPT ![t] = label]
Becomes(l, state) == leg' = [leg EXCEPT ![l] = state]

-----------------------------------------------------------------------------
(* A leg, as CallLifecycle describes it.                                   *)

\* Hangup, its first half: whoever finds the call active begins its teardown.
BeginTeardown(l) == IF leg[l] = "up" THEN Becomes(l, "ending") ELSE UNCHANGED leg

\* The auto-hangup timer of a leg with a duration.
LegTimeout(l) ==
    /\ cfg.capped /\ leg[l] = "up"
    /\ BeginTeardown(l)
    /\ UNCHANGED <<cfg, group, legs, threadVars, dialVars, grace>>

LegDone(l) ==
    /\ leg[l] = "ending"
    /\ Becomes(l, "done")
    /\ UNCHANGED <<cfg, group, legs, threadVars, dialVars, grace>>

-----------------------------------------------------------------------------
(* Conference: dial, and append to c.legs once the leg is up.              *)

StartConference(t) ==
    /\ cfg.kind = "conference" /\ group = "none" /\ pc[t] = "idle"
    /\ group' = "opening"
    /\ Becomes(A, "dialing")
    /\ mine' = [mine EXCEPT ![t] = A] /\ Goto(t, "dialing")
    /\ UNCHANGED <<cfg, legs, op, work, copied, dialVars, grace>>

AddParticipant(t, l) ==
    /\ cfg.kind = "conference" /\ group = "open" /\ pc[t] = "idle"
    /\ leg[l] = "none"
    /\ Becomes(l, "dialing")
    /\ mine' = [mine EXCEPT ![t] = l] /\ Goto(t, "dialing")
    /\ UNCHANGED <<cfg, group, legs, op, work, copied, dialVars, grace>>

DialReturns(t) ==
    /\ pc[t] = "dialing"
    /\ \/ Becomes(mine[t], "up") /\ Goto(t, "append") /\ UNCHANGED group
       \/ /\ Becomes(mine[t], "failed") /\ Goto(t, "idle")
          /\ group' = IF group = "opening" THEN "failed" ELSE group
    /\ UNCHANGED <<cfg, legs, op, mine, work, copied, dialVars, grace>>

\* Slip: the list is begun anew with every leg.
AppendReplaces(t) ==
    /\ pc[t] = "append"
    /\ legs' = <<mine[t]>>
    /\ group' = "open"
    /\ Goto(t, "idle")
    /\ UNCHANGED <<cfg, leg, op, mine, work, copied, dialVars, grace>>

AppendLeg(t) ==
    /\ pc[t] = "append"
    /\ legs' = Append(legs, mine[t])
    /\ group' = "open"
    /\ Goto(t, "idle")
    /\ UNCHANGED <<cfg, leg, op, mine, work, copied, dialVars, grace>>

-----------------------------------------------------------------------------
(* Dial3PCC, in a goroutine whose answer the caller may stop waiting for.  *)

Dial3PCC(t) ==
    /\ cfg.kind = "threeParty" /\ group = "none" /\ pc[t] = "idle"
    /\ group' = "opening"
    /\ dialer' = "dialA" /\ Becomes(A, "dialing")
    /\ Goto(t, "select")
    /\ UNCHANGED <<cfg, legs, op, mine, work, copied, answer, grace>>

DialA ==
    /\ dialer = "dialA"
    /\ \/ /\ leg' = [leg EXCEPT ![A] = "up", ![B] = "dialing"]
          /\ dialer' = "dialB" /\ UNCHANGED answer
       \/ Becomes(A, "failed") /\ dialer' = "gone" /\ answer' = "error"
    /\ UNCHANGED <<cfg, group, legs, threadVars, grace>>

\* Slip: leg A is left up when leg B fails.
DialBKeepsA ==
    /\ dialer = "dialB"
    /\ \/ Becomes(B, "up") /\ answer' = "ok"
       \/ Becomes(B, "failed") /\ answer' = "error"
    /\ dialer' = "gone"
    /\ UNCHANGED <<cfg, group, legs, threadVars, grace>>

\* If leg B fails, leg A is hung up, and only then does the error return.
DialB ==
    /\ dialer = "dialB"
    /\ \/ Becomes(B, "up") /\ dialer' = "gone" /\ answer' = "ok"
       \/ Becomes(B, "failed") /\ dialer' = "hangupA" /\ UNCHANGED answer
    /\ UNCHANGED <<cfg, group, legs, threadVars, grace>>

HangupA ==
    /\ dialer = "hangupA"
    /\ BeginTeardown(A)
    /\ dialer' = "awaitA"
    /\ UNCHANGED <<cfg, group, legs, threadVars, answer, grace>>

AwaitA ==
    /\ dialer = "awaitA" /\ leg[A] = "done"
    /\ dialer' = "gone" /\ answer' = "error"
    /\ UNCHANGED <<cfg, leg, group, legs, threadVars, grace>>

\* The select of Dial3PCCWithTimeout.
Select(t) ==
    /\ pc[t] = "select"
    /\ \/ answer = "ok" /\ group' = "open" /\ legs' = <<A, B>>
       \/ answer = "error" /\ group' = "failed" /\ UNCHANGED legs
       \/ cfg.deadline /\ group' = "abandoned" /\ UNCHANGED legs
    /\ Goto(t, "idle")
    /\ UNCHANGED <<cfg, leg, op, mine, work, copied, dialVars, grace>>

-----------------------------------------------------------------------------
(* Hangup, WaitDone and Result of a group, or of one of its handles: a     *)
(* copy of the list, and a loop that visits it leg by leg.                 *)

Calls == {"hangup", "wait"}

\* Result waits as WaitDone does, and adds up what each leg reports.
Begin(t, call) ==
    /\ group = "open" /\ pc[t] = "idle"
    /\ \E s \in {legs} \union (IF cfg.kind = "transfer" THEN {<<A>>, <<B>>} ELSE {}) :
        work' = [work EXCEPT ![t] = s] /\ copied' = [copied EXCEPT ![t] = Members(s)]
    /\ op' = [op EXCEPT ![t] = call]
    /\ Goto(t, "visit")
    /\ UNCHANGED <<cfg, leg, group, legs, mine, dialVars, grace>>

\* Slip: the legs are hung up in goroutines of their own.
VisitOnly(t) ==
    /\ pc[t] = "visit" /\ work[t] # <<>>
    /\ IF op[t] = "hangup" THEN BeginTeardown(Head(work[t])) ELSE UNCHANGED leg
    /\ work' = [work EXCEPT ![t] = Tail(@)]
    /\ UNCHANGED <<cfg, group, legs, pc, op, mine, copied, dialVars, grace>>

Visit(t) ==
    /\ pc[t] = "visit" /\ work[t] # <<>>
    /\ IF op[t] = "hangup" THEN BeginTeardown(Head(work[t])) ELSE UNCHANGED leg
    /\ Goto(t, "await")
    /\ UNCHANGED <<cfg, group, legs, op, mine, work, copied, dialVars, grace>>

Await(t) ==
    /\ pc[t] = "await" /\ leg[Head(work[t])] = "done"
    /\ work' = [work EXCEPT ![t] = Tail(@)]
    /\ Goto(t, "visit")
    /\ UNCHANGED <<cfg, leg, group, legs, op, mine, copied, dialVars, grace>>

Return(t) ==
    /\ pc[t] = "visit" /\ work[t] = <<>>
    /\ Goto(t, "idle")
    /\ UNCHANGED <<cfg, leg, group, legs, op, mine, work, copied, dialVars, grace>>

-----------------------------------------------------------------------------
(* h.AttendedTransfer(consultant).                                         *)

\* h is read as active, under its own mutex.
Transfer(t, h) ==
    /\ cfg.kind = "transfer" /\ h \in {A, B} /\ pc[t] = "idle"
    /\ leg[h] = "up"
    /\ mine' = [mine EXCEPT ![t] = h]
    /\ Goto(t, "consult")
    /\ UNCHANGED <<cfg, leg, group, legs, op, work, copied, dialVars, grace>>

\* Then the consultant, under its mutex, and its dialog.
Consult(t) ==
    /\ pc[t] = "consult"
    /\ \/ leg[Other(mine[t])] = "up" /\ Goto(t, "refer")
       \/ Goto(t, "idle")
    /\ UNCHANGED <<cfg, leg, group, legs, op, mine, work, copied, dialVars, grace>>

\* The REFER is accepted, or answered otherwise, or fails.
Refer(t) ==
    /\ pc[t] = "refer"
    /\ \/ leg[mine[t]] # "done" /\ Goto(t, "accepted")
       \/ Goto(t, "idle")
    /\ UNCHANGED <<cfg, leg, group, legs, op, mine, work, copied, dialVars, grace>>

\* TransferOK is set and the goroutine started; two of them for one leg act
\* as one.
Accepted(t) ==
    /\ pc[t] = "accepted"
    /\ grace' = [grace EXCEPT ![Other(mine[t])] = "sleep"]
    /\ Goto(t, "idle")
    /\ UNCHANGED <<cfg, leg, group, legs, op, mine, work, copied, dialVars>>

\* Slip: the goroutine uses the context of the REFER, which is cancelled.
GraceCancelled(l) ==
    /\ grace[l] = "sleep"
    /\ grace' = [grace EXCEPT ![l] = "gone"]
    /\ UNCHANGED <<cfg, leg, group, legs, threadVars, dialVars>>

\* A second later the consultant is hung up.
GraceEnds(l) ==
    /\ grace[l] = "sleep"
    /\ BeginTeardown(l)
    /\ grace' = [grace EXCEPT ![l] = "gone"]
    /\ UNCHANGED <<cfg, group, legs, threadVars, dialVars>>

-----------------------------------------------------------------------------
Dialing == DialA \/ DialB \/ HangupA \/ AwaitA
InCall(t) == \/ DialReturns(t) \/ AppendLeg(t) \/ Select(t)
             \/ Visit(t) \/ Await(t) \/ Return(t)
             \/ Consult(t) \/ Refer(t) \/ Accepted(t)
Decide(t) == \/ StartConference(t) \/ Dial3PCC(t)
             \/ \E l \in Legs : AddParticipant(t, l) \/ Transfer(t, l)
             \/ \E call \in Calls : Begin(t, call)

Next == \/ \E t \in Scripts : Decide(t) \/ InCall(t)
        \/ Dialing
        \/ \E l \in Legs : LegTimeout(l) \/ LegDone(l) \/ GraceEnds(l)

Spec == Init /\ [][Next]_vars

\* A call that has begun goes on: Dial and REFER have timeouts, timers fire,
\* and a teardown comes to its end (CallEnds of CallHandle).  What the
\* scripts decide is not fair.
FairSpec == /\ Spec
            /\ \A t \in Scripts : WF_vars(InCall(t))
            /\ WF_vars(Dialing)
            /\ \A l \in Legs : WF_vars(LegTimeout(l)) /\ WF_vars(LegDone(l)) /\ WF_vars(GraceEnds(l))

-----------------------------------------------------------------------------
(* Properties.                                                             *)

TypeOK ==
    /\ cfg \in Configs
    /\ leg \in [Legs -> {"none", "dialing", "failed", "up", "ending", "done"}]
    /\ group \in {"none", "opening", "open", "failed", "abandoned"}
    /\ legs \in Seq(Legs)
    /\ pc \in [Scripts -> {"idle", "dialing", "append", "select", "visit", "await", "consult",
                           "refer", "accepted"}]
    /\ op \in [Scripts -> Calls \union {"none"}] /\ mine \in [Scripts -> Legs]
    /\ work \in [Scripts -> Seq(Legs)] /\ copied \in [Scripts -> SUBSET Legs]
    /\ dialer \in {"none", "dialA", "dialB", "hangupA", "awaitA", "gone"}
    /\ answer \in {"none", "ok", "error"}
    /\ grace \in [Legs -> {"none", "sleep", "gone"}]

\* When Hangup, WaitDone or Result of a group returns, every leg that was in
\* the group when it was called has ended, whatever joined or ended meanwhile
\* (conference.go: a copy of legs under mu, used without it).
CallCoversCopy ==
    \A t \in Scripts : \A l \in copied[t] : l \notin Members(work[t]) => leg[l] = "done"

\* A group that could not be set up leaves no leg up: the error of Dial3PCC
\* returns after leg A has ended (threepcc.go: legA.Hangup).
FailedGroupIsOver == group = "failed" => \A l \in Legs : leg[l] \in {"none", "failed", "done"}

\* A leg that is up comes into the hands of a script or ends by itself: one
\* that AddParticipant has dialed while Hangup was at work, and also one that
\* was established after the deadline of Dial3PCCWithTimeout, if it is capped.
NoLegForgotten ==
    \A l \in Legs : leg[l] = "up" ~> leg[l] # "up" \/ (group = "open" /\ l \in Members(legs))

\* Hangup of a group returns, and the consultant of an accepted transfer ends
\* though nobody waits for the goroutine that hangs it up (transfer.go).
GroupSettles ==
    /\ \A t \in Scripts : op[t] = "hangup" /\ pc[t] = "visit" ~> pc[t] = "idle"
    /\ \A l \in Legs : grace[l] = "sleep" ~> leg[l] = "done"
=============================================================================
