--------------------------- MODULE MCDistributedRun ---------------------------
(***************************************************************************)
(* Instances of DistributedRun for TLC: two agents that serve two runs, of *)
(* two rows and of one, or one run.                                        *)
(***************************************************************************)
EXTENDS DistributedRun

CONSTANTS i1, i2, i3, w1, w2, r1, r2

TwoRuns == [i \in Items |-> IF i = i3 THEN r2 ELSE r1]
=============================================================================
