-------------------------- MODULE RegisteredUASProofs --------------------------
(***************************************************************************)
(* Proofs about RegisteredUAS, for any number of INVITEs and Call-IDs, any *)
(* MaxConcurrent and any number of refreshes: the count of slots is exact  *)
(* and an entry of the stop map is a live handler's.                       *)
(***************************************************************************)
EXTENDS RegisteredUAS, FiniteSetTheorems, TLAPS

\* The plain listener keeps no stop channels.
PlainHasNone ==
    cfg.plain => /\ \A c \in CallIDs : stopMap[c] = None
                 /\ \A i \in Invites : pc[i] \notin {"store", "unstore"}

IInv == UASTypeOK /\ PlainHasNone /\ SlotsExact /\ EntryIsLive

HandlerSteps(i) == \/ Admit(i) \/ Handle(i)
ByeSteps(c) == CallerHangsUp(c) \/ HandleBye(c)
RegSteps == \/ \E q \in Requesters : RegistrarAccepts(q)
            \/ Start \/ UnregisterOrStop \/ ClosePlain \/ ScriptStep
            \/ RefreshDue \/ RefreshStep

-----------------------------------------------------------------------------
\* The parts of a configuration.
LEMMA ConfigType ==
    ASSUME UASTypeOK
    PROVE  /\ cfg.plain \in BOOLEAN /\ cfg.capped \in BOOLEAN /\ cfg.limit \in Nat /\ cfg.ticks \in Nat
           /\ \A i \in Invites : ID(i) \in CallIDs
  BY UASAssumption DEF UASTypeOK, ID

\* The initial states satisfy the invariant.
LEMMA InitInv == UASInit => IInv
  <1> SUFFICES ASSUME UASInit PROVE IInv
      OBVIOUS
  <1> USE UASAssumption DEF UASInit
  <1>1. cfg.ticks \in Nat /\ cfg.limit \in Nat
        OBVIOUS
  <1>2. UASTypeOK
    <2>1. 0 \in 0 .. cfg.ticks
          BY <1>1
    <2>2. bye \in [CallIDs -> [st : {"none", "lookup", "signal", "done"}, of : Invites \union {None}]]
          OBVIOUS
    <2> QED BY <2>1, <2>2 DEF UASTypeOK, Labels, Requesters
  <1>3. SlotsExact
    <2>1. Holding = {}
          BY DEF Holding
    <2> QED BY <1>1, <2>1, FS_EmptySet DEF SlotsExact
  <1>4. PlainHasNone /\ EntryIsLive
        BY DEF PlainHasNone, EntryIsLive
  <1> QED BY <1>2, <1>3, <1>4 DEF IInv

-----------------------------------------------------------------------------
(* A handler.                                                              *)

\* What a step of a handler that takes and leaves no slot does to it.
Stays(i) ==
    /\ pc[i] \notin {"new", "gone"}
    /\ \E label \in Labels \ {"new", "gone"} : pc' = [pc EXCEPT ![i] = label]
    /\ active' = active /\ cfg' = cfg

\* Then no slot changes hands.
LEMMA StaysKeepsSlots ==
    ASSUME IInv, NEW i \in Invites, Stays(i) PROVE SlotsExact'
  <1>1. Holding' = Holding
        BY DEF IInv, UASTypeOK, Stays, Holding
  <1> QED BY <1>1 DEF IInv, SlotsExact, Stays, Limited

\* A slot is taken when an INVITE is let in, and given back at the end.
LEMMA SlotMoves ==
    ASSUME IInv, NEW i \in Invites, Admit(i) \/ Leave(i) PROVE SlotsExact'
  <1> USE DEF IInv, UASTypeOK
  <1>1. IsFiniteSet(Holding) /\ Cardinality(Holding) \in Nat
        BY UASAssumption, FS_Subset, FS_CardinalityType DEF Holding
  <1>2. cfg.limit \in Nat /\ active \in Nat /\ cfg' = cfg
        BY ConfigType DEF Admit, Leave
  <1>3. CASE Leave(i)
    <2>1. Holding' = Holding \ {i} /\ i \in Holding
          BY <1>3 DEF Leave, Goto, Holding
    <2>2. Cardinality(Holding') = Cardinality(Holding) - 1
          BY <1>1, <2>1, FS_RemoveElement
    <2> QED BY <1>1, <1>2, <1>3, <2>2 DEF Leave, SlotsExact, Limited
  <1>4. CASE Admit(i) /\ pc' = [pc EXCEPT ![i] = "gone"] /\ active' = active
    <2>1. Holding' = Holding
          BY <1>4 DEF Admit, Arrives, Holding
    <2> QED BY <1>2, <1>4, <2>1 DEF SlotsExact, Limited
  <1>5. CASE Admit(i) /\ ~(Limited /\ active >= cfg.limit)
               /\ pc' = [pc EXCEPT ![i] = "offer"]
               /\ active' = active + (IF Limited THEN 1 ELSE 0)
    <2>1. Holding' = Holding \union {i} /\ i \notin Holding
          BY <1>5 DEF Admit, Arrives, Holding
    <2>2. Cardinality(Holding') = Cardinality(Holding) + 1
          BY <1>1, <2>1, FS_AddElement
    <2> QED BY <1>1, <1>2, <1>5, <2>2 DEF SlotsExact, Limited
  <1> QED BY <1>3, <1>4, <1>5 DEF Admit, Goto

\* Each step of a handler.
LEMMA HandlerInv ==
    ASSUME IInv, NEW i \in Invites, HandlerSteps(i) PROVE IInv'
  <1> USE DEF Goto, Signal
  <1>0. /\ cfg' = cfg /\ UNCHANGED agentVars
        /\ ID(i) \in CallIDs /\ cfg.plain \in BOOLEAN
        BY ConfigType DEF IInv, HandlerSteps, Handle, Admit, Prepare, Store, AnswerInvite, BindLate, Wake,
           SignalOwn, Publish, Unstore, Leave
  <1>2. SlotsExact'
    <2>1. Prepare(i) \/ Store(i) \/ AnswerInvite(i) \/ BindLate(i) \/ Wake(i) \/ SignalOwn(i)
            \/ Publish(i) \/ Unstore(i) => Stays(i)
          BY <1>0 DEF Prepare, Store, AnswerInvite, BindLate, Wake, SignalOwn, Publish, Unstore, Stays, Labels
    <2> QED BY <2>1, StaysKeepsSlots, SlotMoves DEF HandlerSteps, Handle
  <1>3. UASTypeOK'
    <2> USE DEF IInv, UASTypeOK, Labels
    <2>1. active' \in Nat
      <3>1. CASE Leave(i) /\ Limited
        <4>1. i \in Holding /\ IsFiniteSet(Holding)
              BY <3>1, UASAssumption, FS_Subset DEF Leave, Holding
        <4>2. active # 0
              BY <3>1, <4>1, FS_EmptySet DEF SlotsExact
        <4>3. active \in Nat /\ active' = active - 1
              BY <3>1 DEF Leave
        <4> QED BY <4>2, <4>3
      <3> QED BY <3>1 DEF HandlerSteps, Handle, Admit, Prepare, Store, AnswerInvite, BindLate, Wake,
                SignalOwn, Publish, Unstore, Leave
    <2>2. pc' \in [Invites -> Labels]
          BY <1>0 DEF HandlerSteps, Handle, Admit, Prepare, Store, AnswerInvite, BindLate, Wake,
             SignalOwn, Publish, Unstore, Leave
    <2>3. resp' \in [Invites -> {"none", "busy", "error", "ok"}]
          BY <1>0 DEF HandlerSteps, Handle, Admit, Prepare, Store, AnswerInvite, BindLate, Wake,
             SignalOwn, Publish, Unstore, Leave
    <2>4. closed' \in [Invites -> BOOLEAN] /\ results' \subseteq Invites
          BY <1>0 DEF HandlerSteps, Handle, Admit, Prepare, Store, AnswerInvite, BindLate, Wake,
             SignalOwn, Publish, Unstore, Leave
    <2>5. stopMap' \in [CallIDs -> Invites \union {None}]
          BY <1>0 DEF HandlerSteps, Handle, Admit, Prepare, Store, AnswerInvite, BindLate, Wake,
             SignalOwn, Publish, Unstore, Leave
    <2>6. caller' \in [CallIDs -> {"idle", "up", "down"}]
          BY <1>0 DEF HandlerSteps, Handle, Admit, Prepare, Store, AnswerInvite, BindLate, Wake,
             SignalOwn, Publish, Unstore, Leave, byeVars
    <2>7. bye' = bye
          BY DEF HandlerSteps, Handle, Admit, Prepare, Store, AnswerInvite, BindLate, Wake,
             SignalOwn, Publish, Unstore, Leave, byeVars
    <2> QED BY <1>0, <2>1, <2>2, <2>3, <2>4, <2>5, <2>6, <2>7 DEF agentVars
  <1>4. PlainHasNone' /\ EntryIsLive'
    <2> USE DEF IInv, UASTypeOK
    <2>0. \A j \in Invites : ID(j)' = ID(j)
          BY <1>0 DEF ID
    <2>1. CASE Store(i)
      <3>1. PlainHasNone'
            BY <1>0, <2>1 DEF Store, PlainHasNone
      <3>2. EntryIsLive'
            BY <1>0, <2>0, <2>1, UASAssumption DEF Store, EntryIsLive
      <3> QED BY <3>1, <3>2
    <2>2. CASE Unstore(i)
      <3>1. PlainHasNone'
            BY <1>0, <2>2 DEF Unstore, PlainHasNone
      <3>2. EntryIsLive'
            BY <1>0, <2>0, <2>2 DEF Unstore, EntryIsLive
      <3> QED BY <3>1, <3>2
    <2>3. CASE stopMap' = stopMap
      <3>1. PlainHasNone'
            BY <1>0, <2>3 DEF HandlerSteps, Handle, Admit, Prepare, Store, AnswerInvite, BindLate, Wake,
                          SignalOwn, Publish, Unstore, Leave, PlainHasNone
      <3>2. SUFFICES ASSUME NEW c \in CallIDs, stopMap[c] # None
                     PROVE  ID(stopMap[c]) = c
                            /\ pc'[stopMap[c]] \in {"answer", "talk", "signal", "publish", "unstore"}
            BY <2>0, <2>3, <3>1 DEF EntryIsLive
      <3>3. /\ stopMap[c] \in Invites /\ ~cfg.plain /\ ID(stopMap[c]) = c
            /\ pc[stopMap[c]] \in {"answer", "talk", "signal", "publish", "unstore"}
            BY <1>0, <3>2 DEF EntryIsLive, PlainHasNone
      <3>4. CASE Unstore(i)
            BY <2>2, <3>2, <3>3, <3>4, UASAssumption, <2>3 DEF Unstore
      <3>5. CASE ~Unstore(i)
            BY <3>3, <3>5 DEF HandlerSteps, Handle, Admit, Arrives, Prepare, Store, AnswerInvite, BindLate,
                          Wake, SignalOwn, Publish, Leave
      <3> QED BY <3>3, <3>4, <3>5
    <2> QED BY <2>1, <2>2, <2>3 DEF HandlerSteps, Handle, Admit, Prepare, AnswerInvite, BindLate, Wake,
               SignalOwn, Publish, Leave
  <1> QED BY <1>2, <1>3, <1>4 DEF IInv

-----------------------------------------------------------------------------
(* The rest of the agent.                                                  *)

\* A BYE touches no slot and no entry.
LEMMA ByeInv ==
    ASSUME IInv, NEW c \in CallIDs, ByeSteps(c) PROVE IInv'
  <1> USE DEF IInv, HandleBye, CallerHangsUp, ByeLookup, ByeSignal, ByeSteps
  <1>1. /\ cfg' = cfg /\ UNCHANGED agentVars
        /\ pc' = pc /\ active' = active /\ stopMap' = stopMap
        BY DEF callVars
  <1>2. UASTypeOK'
    <2>1. CASE CallerHangsUp(c)
          BY <2>1 DEF UASTypeOK, callVars, agentVars
    <2>2. CASE ByeLookup(c)
          BY <2>2 DEF UASTypeOK, callVars, agentVars
    <2>3. CASE ByeSignal(c)
          BY <2>3 DEF UASTypeOK, Signal, agentVars
    <2> QED BY <2>1, <2>2, <2>3
  <1>3. SlotsExact' /\ PlainHasNone' /\ EntryIsLive'
        BY <1>1 DEF SlotsExact, Holding, Limited, PlainHasNone, EntryIsLive, ID
  <1> QED BY <1>2, <1>3

\* Nor does the registration.
LEMMA RegInv == ASSUME IInv, RegSteps PROVE IInv'
  <1> USE DEF IInv, RegSteps, ScriptStep, RefreshStep
  <1>1. cfg' = cfg /\ UNCHANGED <<callVars, byeVars>>
        BY DEF RegistrarAccepts, Start, UnregisterOrStop, ClosePlain, ScriptReturns, Cancel, CloseUA,
               RefreshDue, RefreshReturns, RefreshEnds
  <1>2. UASTypeOK'
    <2> USE <1>1, ConfigType DEF UASTypeOK, callVars, byeVars, Send, Requesters
    <2>1. CASE Start \/ UnregisterOrStop \/ ClosePlain
          BY <2>1 DEF Start, UnregisterOrStop, ClosePlain
    <2>2. ASSUME NEW q \in Requesters, RegistrarAccepts(q) PROVE UASTypeOK'
          BY <2>2 DEF RegistrarAccepts
    <2>3. CASE ScriptStep
          BY <2>3 DEF ScriptReturns, Cancel, CloseUA
    <2>4. CASE RefreshDue
          BY <2>4 DEF RefreshDue
    <2>5. CASE RefreshStep
          BY <2>5 DEF RefreshReturns, RefreshEnds
    <2> QED BY <2>1, <2>2, <2>3, <2>4, <2>5
  <1>3. SlotsExact' /\ PlainHasNone' /\ EntryIsLive'
        BY <1>1 DEF SlotsExact, Holding, Limited, PlainHasNone, EntryIsLive, ID, callVars
  <1> QED BY <1>2, <1>3

-----------------------------------------------------------------------------
\* Every step keeps the invariant.
LEMMA StepInv == IInv /\ [UASNext]_uasVars => IInv'
  <1> SUFFICES ASSUME IInv, [UASNext]_uasVars PROVE IInv'
      OBVIOUS
  <1>1. CASE UNCHANGED uasVars
        BY <1>1 DEF uasVars, callVars, byeVars, agentVars, IInv, UASTypeOK, PlainHasNone, SlotsExact, Holding,
                    Limited, EntryIsLive, ID
  <1> QED BY <1>1, HandlerInv, ByeInv, RegInv DEF UASNext, HandlerSteps, ByeSteps, RegSteps

\* The invariant holds in every behaviour.
LEMMA Invariant == UASSpec => []IInv
  BY InitInv, StepInv, PTL DEF UASSpec

\* Every variable keeps its type; r.active is never negative.
THEOREM TypeCorrect == UASSpec => []UASTypeOK
  <1>1. IInv => UASTypeOK
        BY DEF IInv
  <1> QED BY <1>1, Invariant, PTL

\* r.active is the number of handlers that hold a slot, and MaxConcurrent is
\* its bound, for any limit and any number of INVITEs (handleInvite).
THEOREM Slots == UASSpec => []SlotsExact
  <1>1. IInv => SlotsExact
        BY DEF IInv
  <1> QED BY <1>1, Invariant, PTL

\* A channel that a BYE finds is that of a handler of its Call-ID which has not
\* returned (handleInvite, handleBye).
THEOREM Entries == UASSpec => []EntryIsLive
  <1>1. IInv => EntryIsLive
        BY DEF IInv
  <1> QED BY <1>1, Invariant, PTL

=============================================================================
