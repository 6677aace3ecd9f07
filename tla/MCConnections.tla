---------------------------- MODULE MCConnections ----------------------------
(***************************************************************************)
(* Instance of Connections for TLC: three windows, two save or cancel      *)
(* requests at a time.                                                     *)
(***************************************************************************)
EXTENDS Connections

CONSTANTS s1, s2, s3, q1, q2
=============================================================================
