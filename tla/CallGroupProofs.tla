---------------------------- MODULE CallGroupProofs ----------------------------
(***************************************************************************)
(* Proofs about CallGroup: for any number of legs and script threads, what *)
(* Hangup, WaitDone and Result were called for has ended when they return, *)
(* and a group that could not be set up leaves no leg up.                  *)
(***************************************************************************)
EXTENDS CallGroup, TLAPS

Dials(t) == pc[t] \in {"dialing", "append"}
Over(l) == leg[l] \in {"none", "failed", "done"}

\* Who dials in a conference: while it opens one thread, for leg A alone, and
\* nobody in a group that failed.
Callers ==
    /\ \A t \in Scripts : Dials(t) => cfg.kind = "conference" /\ group \in {"opening", "open"}
    /\ \A t \in Scripts : pc[t] = "select" => cfg.kind = "threeParty"
OneEach ==
    /\ \A t \in Scripts : pc[t] = "dialing" => leg[mine[t]] = "dialing"
    /\ \A t, u \in Scripts :
          pc[t] = "dialing" /\ pc[u] = "dialing" /\ mine[t] = mine[u] => t = u
Opening ==
    /\ group = "opening" /\ cfg.kind = "conference" =>
          /\ \A l \in Legs : l # A => leg[l] = "none"
          /\ \A t, u \in Scripts : Dials(t) /\ Dials(u) => t = u
          /\ \A t \in Scripts : Dials(t) => mine[t] = A
    /\ group = "none" => \A l \in Legs : leg[l] = "none"
Dialers == Callers /\ OneEach /\ Opening

\* What the goroutine of Dial3PCCWithTimeout has done so far.
DialerFits ==
    /\ cfg.kind # "threeParty" => dialer = "none"
    /\ group = "none" => dialer = "none"
    /\ group = "failed" => dialer \in {"none", "gone"}
    /\ answer # "none" => dialer = "gone"
    /\ dialer # "none" => \A l \in Legs : l \notin {A, B} => leg[l] = "none"
    /\ dialer = "dialA" => leg[A] = "dialing" /\ leg[B] = "none"
    /\ dialer = "dialB" => leg[A] \in {"up", "ending", "done"} /\ leg[B] = "dialing"
    /\ dialer \in {"hangupA", "awaitA"} => leg[A] \in {"up", "ending", "done"} /\ leg[B] = "failed"
    /\ answer = "error" => \A l \in Legs : Over(l)

\* The life of a leg: dialed once, and from then on what CallLifecycle promises
\* of a call.  A leg that is up ends only through its teardown, one that failed
\* or has ended is not dialed or hung up again.
LegStep(l) == \/ leg'[l] = leg[l]
              \/ leg[l] = "none" /\ leg'[l] = "dialing"
              \/ leg[l] = "dialing" /\ leg'[l] \in {"up", "failed"}
              \/ leg[l] = "up" /\ leg'[l] = "ending"
              \/ leg[l] = "ending" /\ leg'[l] = "done"

\* A thread that waits for a leg has it at the head of its list.
Waiting == \A t \in Scripts : pc[t] = "await" => work[t] # <<>>

IInv == TypeOK /\ Waiting /\ Dialers /\ DialerFits /\ FailedGroupIsOver /\ CallCoversCopy

-----------------------------------------------------------------------------
(* Lemmas.                                                                 *)

\* A list is its first element and the rest of it.
LEMMA MembersOfRest ==
    ASSUME NEW S, NEW s \in Seq(S), s # <<>>
    PROVE  /\ Head(s) \in S /\ Tail(s) \in Seq(S)
           /\ \A l \in Members(s) : l = Head(s) \/ l \in Members(Tail(s))
  <1>1. Head(s) \in S /\ Tail(s) \in Seq(S) /\ Head(s) = s[1] /\ Len(s) \in Nat /\ Len(s) > 0
        OBVIOUS
  <1>2. ASSUME NEW i \in 1 .. Len(s), i # 1
        PROVE  s[i] \in Members(Tail(s))
    <2>1. i - 1 \in 1 .. Len(Tail(s)) /\ Tail(s)[i - 1] = s[i]
          BY <1>1, <1>2
    <2> QED BY <2>1 DEF Members
  <1> QED BY <1>1, <1>2 DEF Members

\* The members of a list of legs are legs.
LEMMA MembersType == ASSUME NEW S, NEW s \in Seq(S) PROVE Members(s) \in SUBSET S
  BY DEF Members

\* The initial states satisfy the invariant.
LEMMA InitInv == Init => IInv
  <1> SUFFICES ASSUME Init PROVE IInv
      OBVIOUS
  <1> USE GroupAssumption DEF Init
  <1>1. TypeOK
    <2>1. legs \in Seq(Legs)
          OBVIOUS
    <2>2. leg \in [Legs -> {"none", "dialing", "failed", "up", "ending", "done"}]
          OBVIOUS
    <2> QED BY <2>1, <2>2 DEF TypeOK, Calls
  <1>2. Dialers
        BY DEF Dialers, Callers, OneEach, Opening, Dials, Kinds
  <1>3. DialerFits
        BY DEF DialerFits
  <1>4. FailedGroupIsOver /\ CallCoversCopy /\ Waiting
        BY DEF FailedGroupIsOver, CallCoversCopy, Waiting
  <1> QED BY <1>1, <1>2, <1>3, <1>4 DEF IInv

-----------------------------------------------------------------------------
(* Type correctness.                                                       *)

\* A step keeps the type.
LEMMA TypeStep == ASSUME TypeOK, Waiting, [Next]_vars PROVE TypeOK'
  <1> USE GroupAssumption DEF TypeOK, Goto, Becomes, BeginTeardown, Calls
  <1>1. CASE UNCHANGED vars
        BY <1>1 DEF vars, threadVars, dialVars
  <1>2. CASE Dialing
        BY <1>2 DEF Dialing, DialA, DialB, HangupA, AwaitA, threadVars, dialVars
  <1>3. ASSUME NEW l \in Legs, LegTimeout(l) \/ LegDone(l) \/ GraceEnds(l) PROVE TypeOK'
        BY <1>3 DEF LegTimeout, LegDone, GraceEnds, threadVars, dialVars
  <1>4. ASSUME NEW t \in Scripts, Decide(t) PROVE TypeOK'
    <2>1. CASE StartConference(t)
          BY <2>1 DEF StartConference, dialVars
    <2>2. CASE Dial3PCC(t)
          BY <2>2 DEF Dial3PCC
    <2>3. ASSUME NEW l \in Legs, AddParticipant(t, l) PROVE TypeOK'
          BY <2>3 DEF AddParticipant, dialVars
    <2>4. ASSUME NEW l \in Legs, Transfer(t, l) PROVE TypeOK'
          BY <2>4 DEF Transfer, dialVars
    <2>5. ASSUME NEW call \in Calls, Begin(t, call) PROVE TypeOK'
      <3>1. PICK s \in Seq(Legs) : /\ work' = [work EXCEPT ![t] = s]
                                   /\ copied' = [copied EXCEPT ![t] = Members(s)]
        <4>1. <<A>> \in Seq(Legs) /\ <<B>> \in Seq(Legs)
              OBVIOUS
        <4>2. PICK s \in {legs} \union (IF cfg.kind = "transfer" THEN {<<A>>, <<B>>} ELSE {}) :
                  work' = [work EXCEPT ![t] = s] /\ copied' = [copied EXCEPT ![t] = Members(s)]
              BY <2>5 DEF Begin
        <4>3. s \in Seq(Legs)
              BY <4>1, <4>2
        <4> QED BY <4>2, <4>3
      <3>2. Members(s) \in SUBSET Legs
            BY MembersType
      <3>3. work' \in [Scripts -> Seq(Legs)]
            BY <3>1
      <3>4. copied' \in [Scripts -> SUBSET Legs]
        <4> DEFINE M == Members(s)
        <4>1. M \in SUBSET Legs /\ copied' = [copied EXCEPT ![t] = M]
              BY <3>1, <3>2
        <4> HIDE DEF M
        <4> QED BY <4>1
      <3> QED BY <2>5, <3>3, <3>4 DEF Begin, dialVars
    <2> QED BY <1>4, <2>1, <2>2, <2>3, <2>4, <2>5 DEF Decide
  <1>5. ASSUME NEW t \in Scripts, InCall(t) PROVE TypeOK'
    <2>1. CASE DialReturns(t)
      <3>1. \E r \in {"up", "failed"}, label \in {"append", "idle"} :
                leg' = [leg EXCEPT ![mine[t]] = r] /\ pc' = [pc EXCEPT ![t] = label]
            BY <2>1 DEF DialReturns
      <3>2. group' \in {"none", "opening", "open", "failed", "abandoned"}
            BY <2>1 DEF DialReturns
      <3> QED BY <2>1, <3>1, <3>2 DEF DialReturns, dialVars
    <2>2. CASE AppendLeg(t)
      <3>1. Append(legs, mine[t]) \in Seq(Legs)
            OBVIOUS
      <3> QED BY <2>2, <3>1 DEF AppendLeg, dialVars
    <2>3. CASE Select(t)
      <3>1. <<A, B>> \in Seq(Legs)
            OBVIOUS
      <3> QED BY <2>3, <3>1 DEF Select, dialVars
    <2>4. CASE Visit(t)
      <3>1. leg' \in [Legs -> {"none", "dialing", "failed", "up", "ending", "done"}]
            BY <2>4 DEF Visit
      <3> QED BY <2>4, <3>1 DEF Visit, dialVars
    <2>5. CASE Await(t)
      <3>1. Tail(work[t]) \in Seq(Legs)
            BY <2>5, MembersOfRest DEF Waiting, Await
      <3> QED BY <2>5, <3>1 DEF Await, dialVars
    <2>6. CASE Return(t)
          BY <2>6 DEF Return, dialVars
    <2>7. CASE Consult(t) \/ Refer(t)
          BY <2>7 DEF Consult, Refer, dialVars
    <2>8. CASE Accepted(t)
          BY <2>8 DEF Accepted, dialVars
    <2> QED BY <1>5, <2>1, <2>2, <2>3, <2>4, <2>5, <2>6, <2>7, <2>8 DEF InCall
  <1> QED BY <1>1, <1>2, <1>3, <1>4, <1>5 DEF Next

\* A thread begins to wait only for a leg it has just visited.
LEMMA WaitingStep == ASSUME TypeOK, Waiting, [Next]_vars PROVE Waiting'
  <1> USE DEF TypeOK, Waiting, Goto
  <1>1. CASE UNCHANGED <<pc, work>>
        BY <1>1
  <1>2. ASSUME NEW t \in Scripts, Decide(t) PROVE Waiting'
    <2>1. CASE StartConference(t) \/ Dial3PCC(t)
          BY <2>1 DEF StartConference, Dial3PCC
    <2>2. ASSUME NEW l \in Legs, AddParticipant(t, l) \/ Transfer(t, l) PROVE Waiting'
          BY <2>2 DEF AddParticipant, Transfer
    <2>3. ASSUME NEW call \in Calls, Begin(t, call) PROVE Waiting'
          BY <2>3 DEF Begin
    <2> QED BY <1>2, <2>1, <2>2, <2>3 DEF Decide
  <1>3. ASSUME NEW t \in Scripts, InCall(t) PROVE Waiting'
    <2>1. CASE Visit(t)
          BY <2>1 DEF Visit
    <2>2. CASE Await(t)
          BY <2>2 DEF Await
    <2>3. CASE DialReturns(t) \/ AppendLeg(t) \/ Select(t)
          BY <2>3 DEF DialReturns, AppendLeg, Select
    <2>4. CASE Return(t) \/ Consult(t) \/ Refer(t) \/ Accepted(t)
          BY <2>4 DEF Return, Consult, Refer, Accepted
    <2> QED BY <1>3, <2>1, <2>2, <2>3, <2>4 DEF InCall
  <1>4. CASE Dialing
        BY <1>1, <1>4 DEF Dialing, DialA, DialB, HangupA, AwaitA, threadVars
  <1>5. ASSUME NEW l \in Legs, LegTimeout(l) \/ LegDone(l) \/ GraceEnds(l) PROVE Waiting'
        BY <1>1, <1>5 DEF LegTimeout, LegDone, GraceEnds, threadVars
  <1>6. CASE UNCHANGED vars
        BY <1>1, <1>6 DEF vars, threadVars
  <1> QED BY <1>2, <1>3, <1>4, <1>5, <1>6 DEF Next

-----------------------------------------------------------------------------
(* Setting a group up.                                                     *)

\* Steps of a teardown: up, ending, done.
Wanes == \A l \in Legs : \/ leg'[l] = leg[l]
                         \/ leg[l] = "up" /\ leg'[l] = "ending"
                         \/ leg[l] = "ending" /\ leg'[l] = "done"

\* A teardown disturbs nothing of what dialing relies on, nor does a thread
\* that does not dial.
LEMMA WaneKeeps ==
    ASSUME IInv, Wanes, cfg' = cfg, group' = group, answer' = answer,
           dialer' = dialer \/ (dialer = "hangupA" /\ dialer' = "awaitA"),
           \A t \in Scripts : \/ pc'[t] = pc[t] /\ mine'[t] = mine[t]
                              \/ pc'[t] \notin {"dialing", "append", "select"}
    PROVE  Dialers' /\ DialerFits' /\ FailedGroupIsOver'
  <1>0. /\ Callers /\ OneEach /\ Opening /\ DialerFits /\ FailedGroupIsOver
        /\ A \in Legs /\ B \in Legs /\ mine \in [Scripts -> Legs]
        BY GroupAssumption DEF IInv, TypeOK, Dialers
  <1>1. \A l \in Legs : leg[l] \in {"none", "dialing", "failed", "done"} => leg'[l] = leg[l]
        BY DEF Wanes
  <1>2. \A l \in Legs : leg[l] \in {"up", "ending", "done"} => leg'[l] \in {"up", "ending", "done"}
        BY DEF Wanes
  <1>3. Callers'
        BY <1>0 DEF Callers, Dials
  <1>4. OneEach'
        BY <1>0, <1>1 DEF OneEach
  <1>5. Opening'
        BY <1>0, <1>1 DEF Opening, Dials
  <1>6. DialerFits'
        BY <1>0, <1>1, <1>2 DEF DialerFits, Over
  <1>7. FailedGroupIsOver'
        BY <1>0, <1>1 DEF FailedGroupIsOver
  <1> QED BY <1>3, <1>4, <1>5, <1>6, <1>7 DEF Dialers

\* Dialing leaves every leg that has ended as it is, and what it relies on holds
\* in each of its steps.
LEMMA ScriptDials ==
    ASSUME IInv, NEW t \in Scripts,
           \/ StartConference(t) \/ (\E l \in Legs : AddParticipant(t, l))
           \/ DialReturns(t) \/ AppendLeg(t)
    PROVE  Dialers' /\ DialerFits' /\ FailedGroupIsOver'
  <1> USE GroupAssumption DEF IInv, TypeOK, Goto, Becomes, Dials, Dialers
  <1>1. CASE StartConference(t)
    <2>1. Dialers'
      <3>1. Callers'
            BY <1>1 DEF StartConference, Callers
      <3>2. OneEach'
            BY <1>1 DEF StartConference, Callers, OneEach, Opening
      <3>3. Opening'
            BY <1>1 DEF StartConference, Callers, OneEach, Opening
      <3> QED BY <3>1, <3>2, <3>3
    <2>2. DialerFits' /\ FailedGroupIsOver'
          BY <1>1 DEF StartConference, DialerFits, FailedGroupIsOver, Over, dialVars, Callers, OneEach, Opening
    <2> QED BY <2>1, <2>2
  <1>2. ASSUME NEW l \in Legs, AddParticipant(t, l)
        PROVE  Dialers' /\ DialerFits' /\ FailedGroupIsOver'
    <2>1. Dialers'
      <3>1. Callers'
            BY <1>2 DEF AddParticipant, Callers
      <3>2. OneEach'
            BY <1>2 DEF AddParticipant, Callers, OneEach, Opening
      <3>3. Opening'
            BY <1>2 DEF AddParticipant, Callers, OneEach, Opening
      <3> QED BY <3>1, <3>2, <3>3
    <2>2. DialerFits' /\ FailedGroupIsOver'
          BY <1>2 DEF AddParticipant, DialerFits, FailedGroupIsOver, Over, dialVars
    <2> QED BY <2>1, <2>2
  <1>3. CASE DialReturns(t)
    <2>1. Dialers'
      <3>1. /\ pc[t] = "dialing" /\ leg[mine[t]] = "dialing" /\ mine[t] \in Legs
            /\ cfg.kind = "conference" /\ group \in {"opening", "open"}
            BY <1>3 DEF DialReturns, Callers, OneEach
      <3>2. /\ cfg' = cfg /\ mine' = mine
            /\ \A u \in Scripts : u # t => pc'[u] = pc[u]
            /\ \A l \in Legs : l # mine[t] => leg'[l] = leg[l]
            BY <1>3 DEF DialReturns
      <3>3. \/ pc'[t] = "append" /\ group' = group
            \/ pc'[t] = "idle" /\ group' = IF group = "opening" THEN "failed" ELSE group
            BY <1>3 DEF DialReturns
      <3>. HIDE DEF IInv, TypeOK
      <3>0. Callers /\ OneEach /\ Opening /\ A \in Legs /\ mine \in [Scripts -> Legs]
            BY DEF IInv, TypeOK
      <3>4. Callers'
        <4>1. ASSUME NEW u \in Scripts, u # t, Dials(u)
              PROVE  group = "open"
              BY <3>0, <3>1, <4>1 DEF Callers, Opening
        <4> QED BY <3>1, <3>2, <3>3, <3>0, <4>1 DEF Callers
      <3>5. OneEach'
            BY <3>1, <3>2, <3>3, <3>0 DEF OneEach
      <3>6. Opening'
            BY <3>1, <3>2, <3>3, <3>0 DEF Opening
      <3> QED BY <3>4, <3>5, <3>6
    <2>2. DialerFits'
          BY <1>3 DEF DialReturns, DialerFits, Over, dialVars, Callers, OneEach, Opening
    <2>3. FailedGroupIsOver'
          BY <1>3 DEF DialReturns, FailedGroupIsOver, Callers, OneEach, Opening
    <2> QED BY <2>1, <2>2, <2>3
  <1>4. CASE AppendLeg(t)
    <2>1. Dialers'
      <3>1. Callers'
            BY <1>4 DEF AppendLeg, Callers
      <3>2. OneEach'
            BY <1>4 DEF AppendLeg, Callers, OneEach, Opening
      <3>3. Opening'
            BY <1>4 DEF AppendLeg, Callers, OneEach, Opening
      <3> QED BY <3>1, <3>2, <3>3
    <2>2. DialerFits' /\ FailedGroupIsOver'
          BY <1>4 DEF AppendLeg, DialerFits, FailedGroupIsOver, Over, dialVars, Callers, OneEach, Opening
    <2> QED BY <2>1, <2>2
  <1> QED BY <1>1, <1>2, <1>3, <1>4

\* So does the goroutine of Dial3PCCWithTimeout, and the caller that waits for it.
LEMMA GoroutineDials ==
    ASSUME IInv, \/ \E t \in Scripts : Dial3PCC(t) \/ Select(t)
                 \/ DialA \/ DialB \/ AwaitA
    PROVE  Dialers' /\ DialerFits' /\ FailedGroupIsOver'
  <1> USE GroupAssumption DEF IInv, TypeOK, Goto, Becomes, Dials, Dialers, threadVars, dialVars
  <1>1. ASSUME NEW t \in Scripts, Dial3PCC(t)
        PROVE  Dialers' /\ DialerFits' /\ FailedGroupIsOver'
    <2>1. Dialers'
      <3>1. Callers'
            BY <1>1 DEF Dial3PCC, Callers
      <3>2. OneEach'
            BY <1>1 DEF Dial3PCC, Callers, OneEach, Opening
      <3>3. Opening'
            BY <1>1 DEF Dial3PCC, Callers, OneEach, Opening
      <3> QED BY <3>1, <3>2, <3>3
    <2>2. DialerFits' /\ FailedGroupIsOver'
          BY <1>1 DEF Dial3PCC, DialerFits, FailedGroupIsOver, Over, Callers, OneEach, Opening
    <2> QED BY <2>1, <2>2
  <1>2. ASSUME NEW t \in Scripts, Select(t)
        PROVE  Dialers' /\ DialerFits' /\ FailedGroupIsOver'
    <2>1. Dialers'
      <3>1. Callers'
            BY <1>2 DEF Select, Callers
      <3>2. OneEach'
            BY <1>2 DEF Select, Callers, OneEach, Opening
      <3>3. Opening'
            BY <1>2 DEF Select, Callers, OneEach, Opening
      <3> QED BY <3>1, <3>2, <3>3
    <2>2. DialerFits' /\ FailedGroupIsOver'
          BY <1>2 DEF Select, DialerFits, FailedGroupIsOver, Over, Callers, OneEach, Opening
    <2> QED BY <2>1, <2>2
  <1>3. CASE DialA
    <2>1. cfg.kind = "threeParty" /\ group # "none"
          BY <1>3 DEF DialA, DialerFits, Kinds
    <2>2. Dialers'
      <3>1. Callers'
            BY <1>3, <2>1 DEF DialA, Callers
      <3>2. OneEach'
            BY <1>3, <2>1 DEF DialA, Callers, OneEach, Opening
      <3>3. Opening'
            BY <1>3, <2>1 DEF DialA, Callers, OneEach, Opening
      <3> QED BY <3>1, <3>2, <3>3
    <2>3. group # "failed" /\ answer = "none" /\ leg[B] = "none"
          BY <1>3, <2>1 DEF DialA, DialerFits
    <2>4. DialerFits'
      <3>1. CASE dialer' = "dialB"
            BY <1>3, <2>1, <2>3, <3>1 DEF DialA, DialerFits, Over
      <3>2. CASE dialer' = "gone"
        <4>1. /\ leg' = [leg EXCEPT ![A] = "failed"] /\ group' = group /\ cfg' = cfg
              /\ \A l \in Legs : l \notin {A, B} => leg[l] = "none"
              BY <1>3, <3>2 DEF DialA, DialerFits
        <4>2. \A l \in Legs : leg'[l] \in {"none", "failed"}
              BY <2>3, <4>1
        <4> QED BY <2>1, <2>3, <3>2, <4>1, <4>2 DEF DialerFits, Over
      <3> QED BY <1>3, <3>1, <3>2 DEF DialA
    <2>5. FailedGroupIsOver'
          BY <1>3, <2>3 DEF DialA, FailedGroupIsOver
    <2> QED BY <2>2, <2>4, <2>5
  <1>4. CASE DialB
    <2>1. cfg.kind = "threeParty" /\ group # "none"
          BY <1>4 DEF DialB, DialerFits, Kinds
    <2>2. Dialers'
      <3>1. Callers'
            BY <1>4, <2>1 DEF DialB, Callers
      <3>2. OneEach'
            BY <1>4, <2>1 DEF DialB, Callers, OneEach, Opening
      <3>3. Opening'
            BY <1>4, <2>1 DEF DialB, Callers, OneEach, Opening
      <3> QED BY <3>1, <3>2, <3>3
    <2>3. DialerFits' /\ FailedGroupIsOver'
          BY <1>4, <2>1 DEF DialB, DialerFits, FailedGroupIsOver, Over, Callers, OneEach, Opening
    <2> QED BY <2>2, <2>3
  <1>5. CASE AwaitA
    <2>1. Dialers'
      <3>1. Callers'
            BY <1>5 DEF AwaitA, Callers
      <3>2. OneEach'
            BY <1>5 DEF AwaitA, Callers, OneEach, Opening
      <3>3. Opening'
            BY <1>5 DEF AwaitA, Callers, OneEach, Opening
      <3> QED BY <3>1, <3>2, <3>3
    <2>2. DialerFits' /\ FailedGroupIsOver'
          BY <1>5 DEF AwaitA, DialerFits, FailedGroupIsOver, Over, Callers, OneEach, Opening
    <2> QED BY <2>1, <2>2
  <1> QED BY <1>1, <1>2, <1>3, <1>4, <1>5
-----------------------------------------------------------------------------
(* The invariant.                                                          *)

\* What setting a group up relies on holds in every step.
LEMMA SetupStep ==
    ASSUME IInv, [Next]_vars
    PROVE  Dialers' /\ DialerFits' /\ FailedGroupIsOver'
  <1> DEFINE Kept == Dialers' /\ DialerFits' /\ FailedGroupIsOver'
  <1> USE DEF Goto, Becomes, BeginTeardown, threadVars, dialVars
  <1>0. /\ leg \in [Legs -> {"none", "dialing", "failed", "up", "ending", "done"}]
        /\ pc \in [Scripts -> {"idle", "dialing", "append", "select", "visit", "await", "consult",
                               "refer", "accepted"}]
        /\ mine \in [Scripts -> Legs]
        BY DEF IInv, TypeOK
  <1>1. leg' = leg => Wanes
        BY DEF Wanes
  <1>2. CASE UNCHANGED vars
        BY <1>1, <1>2, WaneKeeps DEF vars
  <1>3. ASSUME NEW l \in Legs, LegTimeout(l) \/ LegDone(l) \/ GraceEnds(l) PROVE Kept
    <2>1. Wanes
          BY <1>0, <1>3, GroupAssumption DEF LegTimeout, LegDone, GraceEnds, Wanes
    <2> QED BY <1>3, <2>1, WaneKeeps DEF LegTimeout, LegDone, GraceEnds
  <1>4. CASE Dialing
    <2>1. CASE HangupA
      <3>1. Wanes
            BY <1>0, <2>1, GroupAssumption DEF HangupA, Wanes
      <3> QED BY <2>1, <3>1, WaneKeeps DEF HangupA
    <2> QED BY <1>4, <2>1, GoroutineDials DEF Dialing
  <1>5. ASSUME NEW t \in Scripts, Decide(t) PROVE Kept
    <2>1. CASE StartConference(t) \/ \E l \in Legs : AddParticipant(t, l)
          BY <2>1, ScriptDials
    <2>2. CASE Dial3PCC(t)
          BY <2>2, GoroutineDials
    <2>3. ASSUME NEW l \in Legs, Transfer(t, l) PROVE Kept
          BY <1>0, <1>1, <2>3, WaneKeeps DEF Transfer
    <2>4. ASSUME NEW call \in Calls, Begin(t, call) PROVE Kept
          BY <1>0, <1>1, <2>4, WaneKeeps DEF Begin
    <2> QED BY <1>5, <2>1, <2>2, <2>3, <2>4 DEF Decide
  <1>6. ASSUME NEW t \in Scripts, InCall(t) PROVE Kept
    <2>1. CASE DialReturns(t) \/ AppendLeg(t)
          BY <2>1, ScriptDials
    <2>2. CASE Select(t)
          BY <2>2, GoroutineDials
    <2>3. CASE Visit(t)
      <3>1. Head(work[t]) \in Legs
            BY <2>3, MembersOfRest DEF Visit, IInv, TypeOK
      <3>2. Wanes
            BY <1>0, <2>3, <3>1 DEF Visit, Wanes
      <3> QED BY <1>0, <2>3, <3>2, WaneKeeps DEF Visit
    <2>4. CASE Await(t) \/ Return(t)
          BY <1>0, <1>1, <2>4, WaneKeeps DEF Await, Return
    <2>5. CASE Consult(t) \/ Refer(t) \/ Accepted(t)
          BY <1>0, <1>1, <2>5, WaneKeeps DEF Consult, Refer, Accepted
    <2> QED BY <1>6, <2>1, <2>2, <2>3, <2>4, <2>5 DEF InCall
  <1> QED BY <1>2, <1>3, <1>4, <1>5, <1>6 DEF Next

\* A leg takes only the steps of a call.
LEMMA LegSteps ==
    ASSUME IInv, [Next]_vars, NEW l \in Legs
    PROVE  LegStep(l)
  <1> USE GroupAssumption DEF IInv, TypeOK, Goto, Becomes, BeginTeardown, threadVars, dialVars, LegStep
  <1>1. CASE leg' = leg
        BY <1>1
  <1>2. ASSUME NEW k \in Legs, LegTimeout(k) \/ LegDone(k) \/ GraceEnds(k)
        PROVE  LegStep(l)
        BY <1>2 DEF LegTimeout, LegDone, GraceEnds
  <1>3. CASE Dialing
        BY <1>3 DEF Dialing, DialA, DialB, HangupA, AwaitA, DialerFits
  <1>4. ASSUME NEW t \in Scripts, Decide(t) PROVE LegStep(l)
    <2>1. CASE StartConference(t) \/ Dial3PCC(t)
          BY <2>1 DEF StartConference, Dial3PCC, Dialers, Opening
    <2>2. ASSUME NEW k \in Legs, AddParticipant(t, k) \/ Transfer(t, k)
          PROVE  LegStep(l)
          BY <2>2 DEF AddParticipant, Transfer
    <2>3. ASSUME NEW call \in Calls, Begin(t, call) PROVE LegStep(l)
          BY <1>1, <2>3 DEF Begin
    <2> QED BY <1>4, <2>1, <2>2, <2>3 DEF Decide
  <1>5. ASSUME NEW t \in Scripts, InCall(t) PROVE LegStep(l)
    <2>1. CASE DialReturns(t)
          BY <2>1 DEF DialReturns, Dialers, OneEach
    <2>2. CASE Visit(t)
          BY <2>2 DEF Visit
    <2> QED BY <1>1, <1>5, <2>1, <2>2
            DEF InCall, AppendLeg, Select, Await, Return, Consult, Refer, Accepted
  <1> QED BY <1>1, <1>2, <1>3, <1>4, <1>5 DEF Next, vars

\* In particular a leg that has ended stays so.
LEMMA DoneStays ==
    ASSUME IInv, [Next]_vars, NEW l \in Legs, leg[l] = "done"
    PROVE  leg'[l] = "done"
  BY LegSteps DEF LegStep

\* A leg leaves the list of a loop only when it has ended.
LEMMA CopyStep == ASSUME IInv, [Next]_vars PROVE CallCoversCopy'
  <1> USE DEF IInv, TypeOK, Goto, threadVars
  <1>1. SUFFICES ASSUME NEW t \in Scripts, NEW l \in copied'[t], l \notin Members(work'[t])
                 PROVE  leg'[l] = "done"
        BY DEF CallCoversCopy
  <1>2. CASE work'[t] = work[t] /\ copied'[t] = copied[t]
        BY <1>1, <1>2, DoneStays DEF CallCoversCopy
  <1>3. ASSUME NEW call \in Calls, Begin(t, call) PROVE leg'[l] = "done"
        BY <1>1, <1>3 DEF Begin
  <1>4. CASE Await(t)
    <2>1. copied'[t] = copied[t] /\ work'[t] = Tail(work[t]) /\ work[t] # <<>>
          BY <1>4 DEF Await, Waiting
    <2>2. l = Head(work[t]) \/ l \notin Members(work[t])
          BY <1>1, <2>1, MembersOfRest
    <2>3. l \in Legs /\ leg[l] = "done"
          BY <1>1, <1>4, <2>1, <2>2 DEF Await, CallCoversCopy
    <2> QED BY <2>3, DoneStays
  <1>5. CASE UNCHANGED <<work, copied>>
        BY <1>2, <1>5
  <1>6. ASSUME NEW u \in Scripts, Decide(u) \/ InCall(u) PROVE leg'[l] = "done"
    <2>1. CASE UNCHANGED <<work, copied>>
          BY <1>5, <2>1
    <2>2. CASE Await(u)
          BY <1>2, <1>4, <2>2 DEF Await
    <2>3. ASSUME NEW call \in Calls, Begin(u, call) PROVE leg'[l] = "done"
      <3>1. CASE u # t
            BY <1>2, <2>3, <3>1 DEF Begin
      <3> QED BY <1>3, <2>3, <3>1
    <2>4. CASE Decide(u)
          BY <2>1, <2>3, <2>4 DEF Decide, StartConference, Dial3PCC, AddParticipant, Transfer
    <2>5. CASE InCall(u)
          BY <2>1, <2>2, <2>5
          DEF InCall, DialReturns, AppendLeg, Select, Visit, Return, Consult, Refer, Accepted
    <2> QED BY <1>6, <2>4, <2>5
  <1>7. CASE Dialing
        BY <1>5, <1>7 DEF Dialing, DialA, DialB, HangupA, AwaitA
  <1>8. ASSUME NEW k \in Legs, LegTimeout(k) \/ LegDone(k) \/ GraceEnds(k)
        PROVE  leg'[l] = "done"
        BY <1>5, <1>8 DEF LegTimeout, LegDone, GraceEnds
  <1> QED BY <1>5, <1>6, <1>7, <1>8 DEF Next, vars

\* Every step keeps the invariant.
LEMMA StepInv == IInv /\ [Next]_vars => IInv'
  <1> SUFFICES ASSUME IInv, [Next]_vars PROVE IInv'
      OBVIOUS
  <1>1. TypeOK' /\ Waiting'
        BY TypeStep, WaitingStep DEF IInv
  <1> QED BY <1>1, SetupStep, CopyStep DEF IInv

\* The invariant holds in every behaviour.
LEMMA Invariant == Spec => []IInv
  BY InitInv, StepInv, PTL DEF Spec

\* Every state of a group is of its type.
THEOREM TypeCorrect == Spec => []TypeOK
  <1>1. IInv => TypeOK
        BY DEF IInv
  <1> QED BY <1>1, Invariant, PTL

\* For any number of legs and threads: when Hangup, WaitDone or Result of a
\* group returns, each leg that was in it at the call has ended
\* (conference.go, a copy of legs under mu).
THEOREM Covers == Spec => []CallCoversCopy
  <1>1. IInv => CallCoversCopy
        BY DEF IInv
  <1> QED BY <1>1, Invariant, PTL

\* A group that could not be set up leaves no leg up (threepcc.go: Dial3PCC).
THEOREM FailedOver == Spec => []FailedGroupIsOver
  <1>1. IInv => FailedGroupIsOver
        BY DEF IInv
  <1> QED BY <1>1, Invariant, PTL

\* Whatever dials, hangs up or transfers at the same time, the outcome of a dial
\* reaches a leg that is still being dialed, and only a teardown ends one that is
\* up: each leg of conference.go, threepcc.go and transfer.go lives as one call.
THEOREM LegsLiveOnce == Spec => [][\A l \in Legs : LegStep(l)]_vars
  <1>1. IInv /\ [Next]_vars => [\A l \in Legs : LegStep(l)]_vars
        BY LegSteps
  <1> QED BY <1>1, Invariant, PTL DEF Spec
=============================================================================
