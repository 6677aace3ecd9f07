---------------------------- MODULE MCPlanCache ----------------------------
(* Two samples in one process and one in another; two pages that share a   *)
(* link, which is the second of the first page and the first of the other. *)
EXTENDS PlanCache, TLC

CONSTANTS s1, s2, s3, p1, p2

Mark(href) == [role |-> "a", href |-> href]
List == <<Mark("pull"), Mark("pull")>>
Detail == <<Mark("issue"), Mark("pull")>>

InTwoProcesses == (s1 :> p1) @@ (s2 :> p1) @@ (s3 :> p2)
TwoPages == (s1 :> List) @@ (s2 :> Detail) @@ (s3 :> List)
OneReplans == (s1 :> 1) @@ (s2 :> 1) @@ (s3 :> 2)
Proposed == {[role |-> {"a"}, href |-> {"pull"}]}
=============================================================================
