----------------------------- MODULE MCEventBus -----------------------------
(***************************************************************************)
(* Instances of EventBus for TLC: two runs, both logged by the API process *)
(* and one by an agent of another; a client of that one, and one that      *)
(* watches a sample.                                                       *)
(***************************************************************************)
EXTENDS EventBus

CONSTANTS w1, w2, w3, api, agent, r1, r2, ofRun, watcher, s1

WithAgent == [w \in Writers |-> IF w = w2 THEN agent ELSE api]
TwoRuns == [w \in Writers |-> IF w = w3 THEN r2 ELSE r1]
AFew == [r \in Runs |-> IF r = r1 THEN 3 ELSE 1]
Wanted == [c \in EventClients |-> r1]
Watched == [c \in FrameClients |-> s1]
=============================================================================
