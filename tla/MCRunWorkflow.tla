---------------------------- MODULE MCRunWorkflow ----------------------------
(***************************************************************************)
(* Instances of RunWorkflow for TLC: one process, two workers.             *)
(***************************************************************************)
EXTENDS RunWorkflow

CONSTANTS w1, w2, p1

MCProcessOf == [w \in Workers |-> p1]
=============================================================================
