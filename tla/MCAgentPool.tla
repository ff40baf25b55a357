----------------------------- MODULE MCAgentPool -----------------------------
(***************************************************************************)
(* AgentPool for TLC.                                                      *)
(***************************************************************************)
EXTENDS AgentPool
=============================================================================
