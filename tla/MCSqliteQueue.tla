---------------------------- MODULE MCSqliteQueue ----------------------------
(***************************************************************************)
(* Instances of SqliteQueue for TLC: one process with two workers beside a *)
(* process with one, over two or three rows.                               *)
(***************************************************************************)
EXTENDS SqliteQueue

CONSTANTS w1, w2, w3, p1, p2

MCProcessOf == [w \in Workers |-> IF w = w3 THEN p2 ELSE p1]
=============================================================================
