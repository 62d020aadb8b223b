--------------------------------- MODULE Agents ---------------------------------
(***************************************************************************)
(* The agents of a script that are no call of its own: virtual users that  *)
(* register and the health checker (Services), and the user agent that     *)
(* answers calls (RegisteredUAS).  They share no state, so a behaviour of  *)
(* this module follows one and lets the other rest.                        *)
(***************************************************************************)
EXTENDS Services, RegisteredUAS

VARIABLE part   \* the part that is followed

agentsVars == <<part, vars, uasVars>>

\* Which initial state a part rests in does not matter.
AgentsInit ==
    /\ part \in {"services", "uas"}
    /\ Init /\ UASInit
    /\ part = "services" => cfg = CHOOSE c \in Configs : TRUE
    /\ part = "uas" => sipClient = "open"

InServices(A) == part = "services" /\ A /\ UNCHANGED <<part, uasVars>>
InUAS(A) == part = "uas" /\ A /\ UNCHANGED <<part, vars>>

AgentsNext == InServices(Next) \/ InUAS(UASNext)

AgentsSpec == AgentsInit /\ [][AgentsNext]_agentsVars

\* What FairSpec and UASFairSpec say of their parts.
AgentsFairSpec ==
    /\ AgentsSpec
    /\ WF_agentsVars(InServices(Second /\ UNCHANGED <<up, checkVars>>))
    /\ \A v \in VUs : WF_agentsVars(InServices(Returns(v) /\ UNCHANGED <<up, checkVars>>))
    /\ WF_agentsVars(InServices(Checking /\ UNCHANGED <<up, regVars>>))
    /\ SF_agentsVars(InServices(CheckerReturns /\ UNCHANGED <<up, regVars>>))
    /\ WF_agentsVars(InServices(StopReturns /\ UNCHANGED <<up, regVars>>))
    /\ \A i \in Invites : WF_agentsVars(InUAS(Handle(i)))
    /\ \A c \in CallIDs : WF_agentsVars(InUAS(HandleBye(c)))
    /\ WF_agentsVars(InUAS(ScriptStep)) /\ WF_agentsVars(InUAS(RefreshStep))
=============================================================================
