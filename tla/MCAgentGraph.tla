---------------------------- MODULE MCAgentGraph ----------------------------
(***************************************************************************)
(* Instances of AgentGraph for TLC: plans of up to two steps of any kind,  *)
(* one or two deliveries of the sample.                                    *)
(***************************************************************************)
EXTENDS AgentGraph
=============================================================================
