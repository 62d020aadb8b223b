-------------------------------- MODULE MCAgents --------------------------------
(***************************************************************************)
(* An instance of Agents for TLC, with the calls of MCRegisteredUAS.       *)
(***************************************************************************)
EXTENDS Agents, MCRegisteredUAS
=============================================================================
