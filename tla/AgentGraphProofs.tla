--------------------------- MODULE AgentGraphProofs ---------------------------
(***************************************************************************)
(* Proofs about AgentGraph for plans of any length, any number of          *)
(* deliveries and any kinds of steps.                                      *)
(***************************************************************************)
EXTENDS AgentGraph, Integers, TLAPS

USE AgentAssumption DEF REFLECT_MAX, REPLAN_AFTER_CONSECUTIVE_FAILS, PLAN_MAX

(* The loop of act, observe and verify, and what follows it. *)
Working == node \in {"act", "observe", "verify"}
Finishing == node \in {"extract", "judge"}

(* A round works on a step of an adopted plan and has a reflection left,   *)
(* and the failure that starts it is never the second in a row.            *)
RoundHasStep ==
  /\ Working => stepIndex < Len(plan) /\ reflectCount < REFLECT_MAX
  /\ node = "act" => consecutiveFails < REPLAN_AFTER_CONSECUTIVE_FAILS
  /\ Working \/ Finishing => plan \in Plans /\ planCount \in 1..PLAN_MAX

(* last_tool_error is never taken back, so it covers the last call. *)
ErrorIsKnown == lastCall = "error" => toolError

(* The most nodes a delivery can still run, from the plan node on, with c  *)
(* plans behind it: each plan but the last is given up at its last step,   *)
(* the last one gets through.                                              *)
PlanWork == 3 * (MaxPlan + 1)
LastPlanWork == 3 * (MaxPlan + 2) + 4
FromPlan(c) ==
  CASE c = 0 -> (1 + PlanWork) + (1 + PlanWork) + (1 + LastPlanWork)
    [] c = 1 -> (1 + PlanWork) + (1 + LastPlanWork)
    [] c = 2 -> 1 + LastPlanWork
    [] OTHER -> 1

(* From the start of a round with a steps and r reflections left. *)
FromAct(a, r, c) ==
  IF c < PLAN_MAX THEN 3 * (a - 1) + 3 * (r - 1) + FromPlan(c)
                  ELSE 3 * a + 3 * r + 1

WorkLeft ==
  LET round == FromAct(Len(plan) - stepIndex, REFLECT_MAX - reflectCount, planCount)
      answer == 2 * (REFLECT_MAX - reflectCount)
  IN CASE node = "classify" -> 1 + FromPlan(planCount)
       [] node = "plan" -> FromPlan(planCount)
       [] node = "act" -> round
       [] node = "observe" -> round - 1
       [] node = "verify" -> round - 2
       [] node = "extract" -> 2 + answer
       [] node = "judge" -> 1 + answer
       [] OTHER -> 0

IInv ==
  /\ TypeOK
  /\ ticks \in Nat
  /\ RoundHasStep
  /\ ErrorIsKnown
  /\ ExtractAfterPlan
  /\ ticks + WorkLeft <= WorkLimit
-----------------------------------------------------------------------------
LEMMA PlansAreShort ==
  ASSUME NEW p \in Plans
  PROVE  Len(p) \in 1..MaxPlan
<1>1. PICK n \in 1..MaxPlan : p \in [1..n -> Steps]
  BY DEF Plans
<1>2. n \in Nat /\ Len(p) = n
  BY <1>1
<1> QED BY <1>2

(* The plans still to come never cost less than one run of the plan node.  *)
LEMMA FromPlanFalls ==
  ASSUME NEW c \in Nat
  PROVE  /\ FromPlan(c) \in Nat
         /\ FromPlan(c) <= FromPlan(0)
         /\ FromPlan(c) >= 1
         /\ c < 2 => FromPlan(c) = 1 + PlanWork + FromPlan(c + 1)
         /\ c = 2 => FromPlan(c) = 1 + LastPlanWork
         /\ c < PLAN_MAX => FromPlan(c) >= 1 + LastPlanWork
<1>1. MaxPlan \in Nat /\ MaxPlan >= 1
  OBVIOUS
<1>2. c = 0 \/ c = 1 \/ c = 2 \/ c >= 3
  OBVIOUS
<1>3. /\ FromPlan(0) = (1 + PlanWork) + (1 + PlanWork) + (1 + LastPlanWork)
      /\ FromPlan(1) = (1 + PlanWork) + (1 + LastPlanWork)
      /\ FromPlan(2) = 1 + LastPlanWork
      /\ FromPlan(3) = 1
      /\ c >= 3 => FromPlan(c) = 1
  BY DEF FromPlan
<1>4. PlanWork \in Nat /\ LastPlanWork \in Nat
  BY <1>1 DEF PlanWork, LastPlanWork
<1>5. CASE c >= 3
  BY <1>3, <1>4, <1>5
<1>6. CASE c = 0 \/ c = 1 \/ c = 2
  BY <1>3, <1>4, <1>6
<1> QED BY <1>2, <1>5, <1>6

LEMMA FromActIs ==
  ASSUME NEW a \in 1..MaxPlan, NEW r \in 1..REFLECT_MAX, NEW c \in 0..PLAN_MAX
  PROVE  /\ FromAct(a, r, c) \in Nat /\ FromAct(a, r, c) >= 2
         /\ FromAct(a, r, c) > 4 + 2 * r
         /\ c < PLAN_MAX => FromAct(a, r, c) <= PlanWork + FromPlan(c)
         /\ c = PLAN_MAX => FromAct(a, r, c) <= LastPlanWork
         /\ r > 1 => FromAct(a, r, c) >= 3 + FromPlan(c)
         /\ r > 1 => FromAct(a, r - 1, c) = FromAct(a, r, c) - 3
         /\ a > 1 => FromAct(a - 1, r, c) = FromAct(a, r, c) - 3
<1>1. FromPlan(c) \in Nat /\ (c < 3 => FromPlan(c) >= 1 + LastPlanWork)
  <2>1. c \in Nat
    OBVIOUS
  <2> QED BY <2>1, FromPlanFalls
<1>2. c = 3 => FromPlan(c) = 1
  BY DEF FromPlan
<1>3. PICK f \in Nat : f = FromPlan(c) /\ (c < 3 => f >= 1 + LastPlanWork) /\ (c = 3 => f = 1)
  BY <1>1, <1>2
<1>4. MaxPlan \in Nat /\ LastPlanWork = 3 * (MaxPlan + 2) + 4 /\ PlanWork = 3 * (MaxPlan + 1)
  BY DEF LastPlanWork, PlanWork
<1>5. CASE c < 3
  <2>1. /\ FromAct(a, r, c) = 3 * (a - 1) + 3 * (r - 1) + f
        /\ FromAct(a, r - 1, c) = 3 * (a - 1) + 3 * (r - 2) + f
        /\ FromAct(a - 1, r, c) = 3 * (a - 2) + 3 * (r - 1) + f
    BY <1>3, <1>5 DEF FromAct
  <2>2. PICK g \in Nat : g = FromAct(a, r, c) /\ g = 3 * (a - 1) + 3 * (r - 1) + f
    BY <2>1
  <2>3. PICK m \in Nat : m = MaxPlan /\ a \in 1..m /\ f >= 1 + 3 * (m + 2) + 4
    BY <1>3, <1>4, <1>5
  <2>4. g >= 2 /\ g > 4 + 2 * r
    BY <2>2, <2>3
  <2>5. g <= PlanWork + FromPlan(c)
    <3>1. g <= 3 * (m + 1) + f
      BY <2>2, <2>3
    <3> QED BY <1>3, <1>4, <2>3, <3>1
  <2>6. r > 1 => g >= 3 + FromPlan(c)
    <3>1. r > 1 => g >= 3 + f
      BY <2>2, <2>3
    <3> QED BY <1>3, <3>1
  <2>7. /\ FromAct(a, r - 1, c) = g - 3
        /\ FromAct(a - 1, r, c) = g - 3
    BY <2>1, <2>2
  <2>8. c # PLAN_MAX
    BY <1>5
  <2> HIDE DEF PLAN_MAX, REFLECT_MAX
  <2> QED BY <2>2, <2>4, <2>5, <2>6, <2>7, <2>8
<1>6. CASE c = 3
  <2>1. /\ FromAct(a, r, c) = 3 * a + 3 * r + 1
        /\ FromAct(a, r - 1, c) = 3 * a + 3 * (r - 1) + 1
        /\ FromAct(a - 1, r, c) = 3 * (a - 1) + 3 * r + 1
    BY <1>6 DEF FromAct
  <2>2. PICK g \in Nat : g = FromAct(a, r, c) /\ g = 3 * a + 3 * r + 1
    BY <2>1
  <2>3. g >= 2 /\ g > 4 + 2 * r /\ (r > 1 => g >= 3 + FromPlan(c))
    BY <1>3, <1>6, <2>2
  <2>4. g <= LastPlanWork
    BY <1>4, <2>2
  <2>5. FromAct(a, r - 1, c) = g - 3 /\ FromAct(a - 1, r, c) = g - 3
    BY <2>1, <2>2
  <2> QED BY <1>6, <2>2, <2>3, <2>4, <2>5
<1> QED BY <1>5, <1>6

(* Every way a round can end or go on leaves less to run. *)
LEMMA RoundFalls ==
  ASSUME NEW a \in 1..MaxPlan, NEW r \in 1..REFLECT_MAX, NEW c \in 0..PLAN_MAX
  PROVE  /\ FromAct(a, r, c) \in Int /\ FromAct(a, r, c) - 2 \in Int
         /\ 0 < FromAct(a, r, c) /\ 0 < FromAct(a, r, c) - 2
         /\ 2 + 2 * r < FromAct(a, r, c)
         /\ 2 + 2 * r \in Int /\ 2 + 2 * r < FromAct(a, r, c) - 2
         /\ a > 1 => FromAct(a - 1, r, c) \in Int /\ FromAct(a - 1, r, c) < FromAct(a, r, c) - 2
         /\ r # 1 => FromPlan(c) \in Int /\ FromPlan(c) < FromAct(a, r, c) - 2
         /\ r # 1 => FromAct(a, r - 1, c) \in Int /\ FromAct(a, r - 1, c) < FromAct(a, r, c) - 2
<1>. /\ a > 1 => FromAct(a - 1, r, c) = FromAct(a, r, c) - 3
     /\ r > 1 => FromAct(a, r - 1, c) = FromAct(a, r, c) - 3
     /\ r > 1 => FromAct(a, r, c) >= 3 + FromPlan(c)
  BY FromActIs
<1>1. PICK f \in Nat : f = FromAct(a, r, c) /\ f > 4 + 2 * r
  BY FromActIs
<1>2. /\ f \in Int /\ f - 2 \in Int /\ 0 < f /\ 0 < f - 2 /\ 2 + 2 * r < f
      /\ 2 + 2 * r \in Int /\ 2 + 2 * r < f - 2
  BY <1>1
<1>3. ASSUME a > 1
      PROVE  FromAct(a - 1, r, c) \in Int /\ FromAct(a - 1, r, c) < f - 2
  <2>1. FromAct(a - 1, r, c) = f - 3
    BY <1>1, <1>3
  <2> QED BY <1>1, <2>1
<1>4. ASSUME r # 1
      PROVE  /\ FromPlan(c) \in Int /\ FromPlan(c) < f - 2
             /\ FromAct(a, r - 1, c) \in Int /\ FromAct(a, r - 1, c) < f - 2
  <2>1. r > 1 /\ c \in Nat
    BY <1>4
  <2>2. FromAct(a, r - 1, c) = f - 3
    BY <1>1, <2>1
  <2>3. FromAct(a, r - 1, c) \in Int /\ FromAct(a, r - 1, c) < f - 2
    BY <2>2
  <2>4. PICK g \in Nat : g = FromPlan(c) /\ f >= 3 + g
    <3>1. FromPlan(c) \in Nat
      BY <2>1, FromPlanFalls
    <3>2. f >= 3 + FromPlan(c)
      BY <1>1, <2>1
    <3> QED BY <3>1, <3>2
  <2>5. FromPlan(c) \in Int /\ FromPlan(c) < f - 2
    BY <2>4
  <2> QED BY <2>3, <2>5
<1> QED BY <1>1, <1>2, <1>3, <1>4

LEMMA LimitIs == WorkLimit = 1 + FromPlan(0)
<1>1. FromPlan(0) = (1 + PlanWork) + (1 + PlanWork) + (1 + LastPlanWork)
  BY DEF FromPlan
<1>2. MaxPlan \in Nat
  OBVIOUS
<1> QED BY <1>1, <1>2 DEF WorkLimit, PlanWork, LastPlanWork

LEMMA LimitIsNat == WorkLimit \in Nat
<1>1. PICK n \in Nat : n = FromPlan(0)
  BY FromPlanFalls
<1> QED BY <1>1, LimitIs

(* The numbers of a round. *)
LEMMA RoundNumbers ==
  ASSUME IInv, Working \/ Finishing
  PROVE  /\ planCount \in Nat /\ reflectCount \in 0..REFLECT_MAX
         /\ Len(plan) \in 1..MaxPlan /\ stepIndex \in 0..MaxPlan
         /\ Working => stepIndex < Len(plan) /\ reflectCount < REFLECT_MAX
         /\ FromPlan(planCount) \in Nat
         /\ planCount < PLAN_MAX => FromPlan(planCount) >= 1 + LastPlanWork
         /\ planCount <= PLAN_MAX
<1>1. plan \in Plans /\ planCount \in 1..PLAN_MAX
  BY DEF IInv, RoundHasStep
<1>2. planCount \in Nat /\ planCount <= PLAN_MAX
  BY <1>1
<1>3. FromPlan(planCount) \in Nat /\ (planCount < PLAN_MAX => FromPlan(planCount) >= 1 + LastPlanWork)
  BY <1>2, FromPlanFalls
<1>4. Len(plan) \in 1..MaxPlan
  BY <1>1, PlansAreShort
<1> QED BY <1>2, <1>3, <1>4 DEF IInv, TypeOK, RoundHasStep

LEMMA WorkLeftIsNat == IInv => WorkLeft \in Nat
<1> SUFFICES ASSUME IInv PROVE WorkLeft \in Nat
  OBVIOUS
<1>1. CASE node \in {"classify", "plan"}
  <2>1. FromPlan(planCount) \in Nat
    BY FromPlanFalls DEF IInv, TypeOK
  <2> QED BY <1>1, <2>1 DEF WorkLeft
<1>2. CASE Working
  <2> DEFINE round == FromAct(Len(plan) - stepIndex, REFLECT_MAX - reflectCount, planCount)
  <2>1. /\ Len(plan) - stepIndex \in 1..MaxPlan
        /\ REFLECT_MAX - reflectCount \in 1..REFLECT_MAX
        /\ planCount \in 0..PLAN_MAX
    BY <1>2, RoundNumbers
  <2>2. PICK n \in Nat : n = round /\ n >= 2
    BY <2>1, FromActIs
  <2>3. WorkLeft \in {n, n - 1, n - 2}
    BY <1>2, <2>2 DEF WorkLeft, Working
  <2> QED BY <2>2, <2>3
<1>3. CASE Finishing
  <2>1. PICK n \in Nat : n = REFLECT_MAX - reflectCount
    BY <1>3, RoundNumbers
  <2>2. WorkLeft \in {2 + 2 * n, 1 + 2 * n}
    BY <1>3, <2>1 DEF WorkLeft, Finishing
  <2> QED BY <2>1, <2>2
<1>4. CASE node \in {"end", "raised"}
  BY <1>4 DEF WorkLeft
<1> QED BY <1>1, <1>2, <1>3, <1>4 DEF IInv, TypeOK, Nodes, Working, Finishing

LEMMA SumFalls ==
  ASSUME NEW t \in Nat, NEW u \in Nat, NEW w \in Int, NEW v \in Int, NEW limit \in Int,
         t + w <= limit, u = t + 1, v < w
  PROVE  u + v <= limit
OBVIOUS

(* A node that leaves less work behind keeps the sum. *)
LEMMA RunKeepsSum ==
  ASSUME IInv, NEW n, NEW m, Run(n, m), WorkLeft' \in Int, WorkLeft' < WorkLeft
  PROVE  ticks' \in Nat /\ ticks' + WorkLeft' <= WorkLimit
<1> HIDE DEF WorkLeft, WorkLimit
<1>1. ticks \in Nat /\ ticks + WorkLeft <= WorkLimit
  BY DEF IInv
<1>2. WorkLeft \in Nat /\ WorkLimit \in Nat
  BY WorkLeftIsNat, LimitIsNat
<1>3. ticks <= WorkLimit
  BY <1>1, <1>2
<1>4. ticks' = ticks + 1
  BY <1>1, <1>2, <1>3 DEF Run
<1>5. ticks' \in Nat /\ WorkLeft \in Int /\ WorkLimit \in Int
  BY <1>1, <1>2, <1>4
<1> QED BY <1>1, <1>2, <1>4, <1>5, SumFalls

LEMMA InitIInv == Init => IInv
<1> SUFFICES ASSUME Init PROVE IInv
  OBVIOUS
<1>1. TypeOK
  <2>1. MaxPlan \in Nat /\ MaxDeliveries \in Nat /\ 0 \in 0..MaxPlan /\ 1 \in 1..MaxDeliveries
    OBVIOUS
  <2>2. plan \in Plans \cup {<<>>} /\ cache \in Plans \cup {NoPlan}
    BY DEF Init
  <2>3. /\ node \in Nodes \cup {"end", "raised"} /\ lastCall \in {"none", "ok", "error"}
        /\ toolError \in BOOLEAN /\ verdict \in Verdicts \cup {None}
        /\ status \in {"pending", "acting", "verifying", "replanning", "extracting",
                       "judging", "done", "failed"}
    BY DEF Init, Nodes
  <2>4. /\ stepIndex \in 0..MaxPlan /\ reflectCount \in 0..REFLECT_MAX
        /\ consecutiveFails \in 0..REPLAN_AFTER_CONSECUTIVE_FAILS
        /\ planCount \in Nat /\ deliveries \in 1..MaxDeliveries
    BY <2>1 DEF Init
  <2> QED BY <2>2, <2>3, <2>4 DEF TypeOK
<1>2. RoundHasStep /\ ErrorIsKnown /\ ExtractAfterPlan
  BY DEF Init, RoundHasStep, ErrorIsKnown, ExtractAfterPlan, Working, Finishing
<1>3. WorkLeft = 1 + FromPlan(0)
  BY DEF Init, WorkLeft
<1>4. ticks = 0 /\ FromPlan(0) \in Nat
  BY FromPlanFalls DEF Init
<1> QED BY <1>1, <1>2, <1>3, <1>4, LimitIs DEF IInv

LEMMA ClassifyIInv == IInv /\ Classify => IInv'
<1> SUFFICES ASSUME IInv, Classify PROVE IInv'
  OBVIOUS
<1> USE DEF Classify, planVars, budgetVars, toolVars, resultVars
<1>1. TypeOK' /\ RoundHasStep' /\ ErrorIsKnown' /\ ExtractAfterPlan'
  BY DEF IInv, TypeOK, Nodes, RoundHasStep, ErrorIsKnown, ExtractAfterPlan, Run,
         Working, Finishing
<1>2. WorkLeft = 1 + FromPlan(planCount) /\ WorkLeft' = FromPlan(planCount)
  BY DEF WorkLeft, Run
<1>3. FromPlan(planCount) \in Nat
  BY FromPlanFalls DEF IInv, TypeOK
<1>4. ticks' \in Nat /\ ticks' + WorkLeft' <= WorkLimit
  BY <1>2, <1>3, RunKeepsSum
<1> QED BY <1>1, <1>4 DEF IInv

(* A fresh plan starts a round with all its steps and reflections. *)
LEMMA AdoptIInv ==
  ASSUME IInv, NEW p \in Plans, Adopt(p), cache' \in {cache, p}, planCount < PLAN_MAX
  PROVE  IInv'
<1>1. Len(p) \in 1..MaxPlan
  BY PlansAreShort
<1>2. /\ node = "plan" /\ node' = "act" /\ plan' = p /\ stepIndex' = 0
      /\ reflectCount' = 0 /\ consecutiveFails' = 0 /\ planCount' = planCount + 1
      /\ status' = "acting"
      /\ UNCHANGED <<toolError, lastCall, verdict, deliveries>>
  BY DEF Adopt, Run, toolVars
<1>3. planCount \in Nat
  BY DEF IInv, TypeOK
<1>4. TypeOK' /\ RoundHasStep' /\ ErrorIsKnown' /\ ExtractAfterPlan'
  BY <1>1, <1>2, <1>3 DEF IInv, TypeOK, Nodes, RoundHasStep, ErrorIsKnown,
     ExtractAfterPlan, Working, Finishing
<1>5. WorkLeft = FromPlan(planCount) /\ WorkLeft' = FromAct(Len(p), REFLECT_MAX, planCount + 1)
  BY <1>1, <1>2 DEF WorkLeft
<1>6. FromAct(Len(p), REFLECT_MAX, planCount + 1) \in Int
      /\ FromAct(Len(p), REFLECT_MAX, planCount + 1) < FromPlan(planCount)
  <2> DEFINE c == planCount + 1
  <2>1. /\ FromAct(Len(p), 3, c) \in Nat
        /\ c < 3 => FromAct(Len(p), 3, c) <= PlanWork + FromPlan(c)
        /\ c = 3 => FromAct(Len(p), 3, c) <= LastPlanWork
    <3>1. 3 \in 1..REFLECT_MAX /\ c \in 0..PLAN_MAX
      BY <1>3
    <3> QED BY <3>1, <1>1, FromActIs
  <2>2. /\ PlanWork \in Nat /\ LastPlanWork \in Nat /\ FromPlan(c) \in Nat
        /\ c < 3 => FromPlan(planCount) = 1 + PlanWork + FromPlan(c)
        /\ c = 3 => FromPlan(planCount) = 1 + LastPlanWork
    BY <1>3, FromPlanFalls DEF PlanWork, LastPlanWork
  <2>3. c < 3 \/ c = 3
    BY <1>3
  <2> QED BY <2>1, <2>2, <2>3
<1>7. ticks' \in Nat /\ ticks' + WorkLeft' <= WorkLimit
  BY <1>5, <1>6, RunKeepsSum DEF Adopt
<1> QED BY <1>4, <1>7 DEF IInv

LEMMA PlanIInv == IInv /\ (PlanFromCache \/ PlanFromModel \/ PlanFails) => IInv'
<1> SUFFICES ASSUME IInv, PlanFromCache \/ PlanFromModel \/ PlanFails PROVE IInv'
  OBVIOUS
<1>1. CASE PlanFromCache
  <2>1. cache \in Plans /\ planCount < PLAN_MAX /\ cache' = cache
    BY <1>1 DEF PlanFromCache, IInv, TypeOK
  <2> QED BY <1>1, <2>1, AdoptIInv DEF PlanFromCache
<1>2. CASE PlanFromModel
  BY <1>2, AdoptIInv DEF PlanFromModel
<1>3. CASE PlanFails
  <2> USE DEF PlanFails, budgetVars, toolVars
  <2>1. TypeOK' /\ RoundHasStep' /\ ErrorIsKnown' /\ ExtractAfterPlan'
    BY <1>3 DEF IInv, TypeOK, Nodes, RoundHasStep, ErrorIsKnown, ExtractAfterPlan, Run,
                Working, Finishing
  <2>2. WorkLeft = FromPlan(planCount) /\ WorkLeft' = 0
    BY <1>3 DEF WorkLeft, Run
  <2>3. FromPlan(planCount) \in Nat /\ FromPlan(planCount) >= 1
    BY FromPlanFalls DEF IInv, TypeOK
  <2>4. ticks' \in Nat /\ ticks' + WorkLeft' <= WorkLimit
    BY <1>3, <2>2, <2>3, RunKeepsSum
  <2> QED BY <2>1, <2>4 DEF IInv
<1> QED BY <1>1, <1>2, <1>3

(* Nodes that leave plan, budgets and the known errors as they are. *)
LEMMA ActLeavesIInv ==
  ASSUME IInv, ActExtracts \/ ActUnknown
  PROVE  IInv'
<1> USE DEF ActExtracts, ActUnknown, planVars, budgetVars, toolVars
<1>1. TypeOK' /\ RoundHasStep' /\ ErrorIsKnown' /\ ExtractAfterPlan'
  BY DEF IInv, TypeOK, Nodes, RoundHasStep, ErrorIsKnown, ExtractAfterPlan, Run,
         Working, Finishing, StepIn, AtStep, Step
<1>2. /\ Len(plan) - stepIndex \in 1..MaxPlan
      /\ REFLECT_MAX - reflectCount \in 1..REFLECT_MAX
      /\ planCount \in 0..PLAN_MAX
  BY RoundNumbers DEF Run, Working
<1>3. /\ WorkLeft = FromAct(Len(plan) - stepIndex, REFLECT_MAX - reflectCount, planCount)
      /\ WorkLeft' = 0 \/ WorkLeft' = 2 + 2 * (REFLECT_MAX - reflectCount)
  BY DEF WorkLeft, Run
<1>4. WorkLeft' \in Int /\ WorkLeft' < WorkLeft
  <2>1. CASE WorkLeft' = 0
    <3>1. PICK w \in Int : w = WorkLeft /\ 0 < w
      BY <1>2, <1>3, RoundFalls
    <3> QED BY <2>1, <3>1
  <2>2. CASE WorkLeft' = 2 + 2 * (REFLECT_MAX - reflectCount)
    BY <1>2, <1>3, <2>2, RoundFalls
  <2> QED BY <1>3, <2>1, <2>2
<1>5. ticks' \in Nat /\ ticks' + WorkLeft' <= WorkLimit
  BY <1>4, RunKeepsSum
<1> QED BY <1>1, <1>5 DEF IInv

LEMMA RoundGoesOn ==
  ASSUME IInv, NEW n \in {"act", "observe"}, Run(n, IF n = "act" THEN "observe" ELSE "verify"),
         UNCHANGED <<planVars, reflectCount>>
  PROVE  ticks' \in Nat /\ ticks' + WorkLeft' <= WorkLimit
<1> DEFINE round == FromAct(Len(plan) - stepIndex, REFLECT_MAX - reflectCount, planCount)
<1>1. /\ Len(plan) - stepIndex \in 1..MaxPlan
      /\ REFLECT_MAX - reflectCount \in 1..REFLECT_MAX
      /\ planCount \in 0..PLAN_MAX
  BY RoundNumbers DEF Run, Working
<1>2. round \in Nat /\ round >= 2
  BY <1>1, FromActIs
<1>3. /\ WorkLeft = IF n = "act" THEN round ELSE round - 1
      /\ WorkLeft' = IF n = "act" THEN round - 1 ELSE round - 2
  BY DEF WorkLeft, Run, planVars
<1> HIDE DEF round
<1>4. WorkLeft' \in Int /\ WorkLeft' < WorkLeft
  BY <1>2, <1>3
<1> QED BY <1>4, RunKeepsSum

(* A tool call, in time or in error: observe and verify come next. *)
LEMMA ActCallsIInv ==
  ASSUME IInv, ActOk \/ ActError
  PROVE  IInv'
<1>1. /\ node = "act" /\ node' = "observe" /\ status' = "verifying"
      /\ \/ /\ lastCall' = "ok"
            /\ UNCHANGED <<consecutiveFails, toolError>>
         \/ /\ lastCall' = "error" /\ toolError' = TRUE
            /\ consecutiveFails' = consecutiveFails + 1
      /\ UNCHANGED <<plan, stepIndex, planCount, reflectCount, verdict, cache, deliveries>>
  BY DEF ActOk, ActError, Run, planVars, budgetVars
<1>2. TypeOK'
  <2>1. consecutiveFails' \in 0..REPLAN_AFTER_CONSECUTIVE_FAILS
    BY <1>1 DEF IInv, TypeOK, RoundHasStep
  <2> QED BY <1>1, <2>1 DEF IInv, TypeOK, Nodes
<1>3. RoundHasStep' /\ ErrorIsKnown' /\ ExtractAfterPlan'
  BY <1>1 DEF IInv, RoundHasStep, ErrorIsKnown, ExtractAfterPlan, Working, Finishing
<1>4. ticks' \in Nat /\ ticks' + WorkLeft' <= WorkLimit
  BY RoundGoesOn DEF ActOk, ActError, planVars, budgetVars
<1> QED BY <1>2, <1>3, <1>4 DEF IInv

LEMMA ObserveIInv == IInv /\ Observe => IInv'
<1> SUFFICES ASSUME IInv, Observe PROVE IInv'
  OBVIOUS
<1> USE DEF Observe, planVars, budgetVars, toolVars
<1>1. TypeOK' /\ RoundHasStep' /\ ErrorIsKnown' /\ ExtractAfterPlan'
  BY DEF IInv, TypeOK, Nodes, RoundHasStep, ErrorIsKnown, ExtractAfterPlan, Run,
         Working, Finishing
<1>2. ticks' \in Nat /\ ticks' + WorkLeft' <= WorkLimit
  BY RoundGoesOn
<1> QED BY <1>1, <1>2 DEF IInv

(* A step that is done makes way for the next one, or for the extractor. *)
LEMMA VerifyOkIInv == IInv /\ VerifyOk => IInv'
<1> SUFFICES ASSUME IInv, VerifyOk PROVE IInv'
  OBVIOUS
<1> DEFINE a == Len(plan) - stepIndex
           r == REFLECT_MAX - reflectCount
           next == IF stepIndex + 1 < Len(plan) THEN "act" ELSE "extract"
<1>1. /\ node = "verify" /\ node' = next /\ status' = "acting"
      /\ stepIndex' = stepIndex + 1 /\ consecutiveFails' = 0
      /\ UNCHANGED <<plan, planCount, reflectCount, toolError, lastCall, verdict, cache,
                     deliveries>>
  BY DEF VerifyOk, Run, toolVars
<1>2. /\ a \in 1..MaxPlan /\ r \in 1..REFLECT_MAX /\ planCount \in 0..PLAN_MAX
      /\ stepIndex \in 0..MaxPlan /\ Len(plan) \in 1..MaxPlan
  BY <1>1, RoundNumbers DEF Working
<1>3. TypeOK'
  BY <1>1, <1>2 DEF IInv, TypeOK, Nodes
<1>4. RoundHasStep' /\ ErrorIsKnown' /\ ExtractAfterPlan'
  BY <1>1, <1>2 DEF IInv, RoundHasStep, ErrorIsKnown, ExtractAfterPlan, StepIn, AtStep,
                    Working, Finishing
<1>5. /\ WorkLeft = FromAct(a, r, planCount) - 2
      /\ WorkLeft' = IF a > 1 THEN FromAct(a - 1, r, planCount) ELSE 2 + 2 * r
  <2>1. Len(plan') - stepIndex' = a - 1 /\ (stepIndex + 1 < Len(plan) <=> a > 1)
    BY <1>1, <1>2
  <2> QED BY <1>1, <2>1 DEF WorkLeft
<1>6. WorkLeft' \in Int /\ WorkLeft' < WorkLeft
  BY <1>2, <1>5, RoundFalls
<1>7. ticks' \in Nat /\ ticks' + WorkLeft' <= WorkLimit
  BY <1>6, RunKeepsSum DEF VerifyOk
<1> QED BY <1>3, <1>4, <1>7 DEF IInv

(* A refusal costs a reflection: it ends the delivery, the plan or nothing. *)
LEMMA VerifyNoIInv == IInv /\ VerifyNo => IInv'
<1> SUFFICES ASSUME IInv, VerifyNo PROVE IInv'
  OBVIOUS
<1> DEFINE a == Len(plan) - stepIndex
           r == REFLECT_MAX - reflectCount
           fails == consecutiveFails + 1
           next == IF r = 1 THEN "end"
                   ELSE IF fails >= REPLAN_AFTER_CONSECUTIVE_FAILS THEN "plan" ELSE "act"
<1>1. /\ a \in 1..MaxPlan /\ r \in 1..REFLECT_MAX /\ planCount \in 0..PLAN_MAX
      /\ reflectCount \in 0..REFLECT_MAX /\ consecutiveFails \in 0..2
      /\ Len(plan) \in 1..MaxPlan /\ stepIndex \in 0..MaxPlan
  BY RoundNumbers DEF VerifyNo, Run, Working, IInv, TypeOK
<1>2. /\ node = "verify" /\ node' = next
      /\ status' \in {"failed", "replanning", "acting"}
      /\ IF r = 1
         THEN reflectCount' = reflectCount /\ consecutiveFails' = consecutiveFails
         ELSE /\ reflectCount' = reflectCount + 1
              /\ consecutiveFails' =
                   IF fails >= REPLAN_AFTER_CONSECUTIVE_FAILS THEN 0 ELSE fails
      /\ UNCHANGED <<plan, stepIndex, planCount, toolError, lastCall, verdict, cache,
                     deliveries>>
  BY <1>1 DEF VerifyNo, Run, planVars, budgetVars, toolVars
<1>3. TypeOK'
  <2>1. reflectCount' \in 0..REFLECT_MAX /\ consecutiveFails' \in 0..2
    BY <1>1, <1>2
  <2> QED BY <1>2, <2>1 DEF IInv, TypeOK, Nodes
<1>4. RoundHasStep' /\ ErrorIsKnown' /\ ExtractAfterPlan'
  BY <1>1, <1>2 DEF IInv, RoundHasStep, ErrorIsKnown, ExtractAfterPlan, Working, Finishing
<1>5. /\ WorkLeft = FromAct(a, r, planCount) - 2
      /\ \/ WorkLeft' = 0
         \/ r # 1 /\ WorkLeft' = FromPlan(planCount)
         \/ r # 1 /\ WorkLeft' = FromAct(a, r - 1, planCount)
  <2>1. r # 1 => REFLECT_MAX - reflectCount' = r - 1
    BY <1>1, <1>2
  <2> QED BY <1>2, <2>1 DEF WorkLeft
<1>6. WorkLeft' \in Int /\ WorkLeft' < WorkLeft
  <2>1. CASE WorkLeft' = 0
    <3>1. PICK w \in Int : w = WorkLeft /\ 0 < w
      BY <1>1, <1>5, RoundFalls
    <3> QED BY <2>1, <3>1
  <2>2. CASE r # 1 /\ WorkLeft' = FromPlan(planCount)
    BY <1>1, <1>5, <2>2, RoundFalls
  <2>3. CASE r # 1 /\ WorkLeft' = FromAct(a, r - 1, planCount)
    BY <1>1, <1>5, <2>3, RoundFalls
  <2> QED BY <1>5, <2>1, <2>2, <2>3
<1>7. ticks' \in Nat /\ ticks' + WorkLeft' <= WorkLimit
  BY <1>6, RunKeepsSum DEF VerifyNo
<1> QED BY <1>3, <1>4, <1>7 DEF IInv

(* verify() raises on a step that is no object. *)
LEMMA VerifyRaisesIInv == IInv /\ VerifyRaises => IInv'
<1> SUFFICES ASSUME IInv, VerifyRaises PROVE IInv'
  OBVIOUS
<1> USE DEF VerifyRaises, planVars, budgetVars, toolVars, resultVars
<1>1. TypeOK' /\ RoundHasStep' /\ ErrorIsKnown' /\ ExtractAfterPlan'
  BY DEF IInv, TypeOK, Nodes, RoundHasStep, ErrorIsKnown, ExtractAfterPlan, Run,
         Working, Finishing
<1>2. WorkLeft' = 0 /\ WorkLeft > 0
  <2>1. WorkLeft = FromAct(Len(plan) - stepIndex, REFLECT_MAX - reflectCount, planCount) - 2
    BY DEF WorkLeft, Run
  <2>2. /\ Len(plan) - stepIndex \in 1..MaxPlan
        /\ REFLECT_MAX - reflectCount \in 1..REFLECT_MAX
        /\ planCount \in 0..PLAN_MAX
    BY RoundNumbers DEF Run, Working
  <2> QED BY <2>1, <2>2, RoundFalls DEF WorkLeft, Run
<1>3. ticks' \in Nat /\ ticks' + WorkLeft' <= WorkLimit
  BY <1>2, RunKeepsSum
<1> QED BY <1>1, <1>3 DEF IInv

LEMMA ExtractIInv == IInv /\ Extract => IInv'
<1> SUFFICES ASSUME IInv, Extract PROVE IInv'
  OBVIOUS
<1> USE DEF Extract, planVars, budgetVars, toolVars
<1>1. TypeOK' /\ RoundHasStep' /\ ErrorIsKnown' /\ ExtractAfterPlan'
  BY DEF IInv, TypeOK, Nodes, RoundHasStep, ErrorIsKnown, ExtractAfterPlan, Run,
         Working, Finishing, StepIn, AtStep, Step
<1>2. reflectCount \in 0..REFLECT_MAX
  BY DEF IInv, TypeOK
<1>3. /\ WorkLeft = 2 + 2 * (REFLECT_MAX - reflectCount)
      /\ WorkLeft' = 1 + 2 * (REFLECT_MAX - reflectCount)
  BY DEF WorkLeft, Run
<1>4. ticks' \in Nat /\ ticks' + WorkLeft' <= WorkLimit
  BY <1>2, <1>3, RunKeepsSum
<1> QED BY <1>1, <1>4 DEF IInv

LEMMA JudgeIInv == IInv /\ (JudgeSendsBack \/ JudgeDecides) => IInv'
<1> SUFFICES ASSUME IInv, JudgeSendsBack \/ JudgeDecides PROVE IInv'
  OBVIOUS
<1>1. /\ node = "judge" /\ plan \in Plans
      /\ verdict' \in Verdicts /\ cache' \in {cache, plan}
      /\ UNCHANGED <<plan, stepIndex, planCount, consecutiveFails, toolError, lastCall,
                     deliveries>>
      /\ \/ /\ node' = "extract" /\ status' = "extracting"
            /\ reflectCount < REFLECT_MAX /\ reflectCount' = reflectCount + 1
         \/ node' = "end" /\ status' = "done" /\ reflectCount' = reflectCount
  BY DEF JudgeSendsBack, JudgeDecides, Run, planVars, budgetVars, toolVars, Verdicts,
         IInv, RoundHasStep, Finishing
<1>2. reflectCount \in 0..REFLECT_MAX
  BY DEF IInv, TypeOK
<1>3. TypeOK'
  <2>1. reflectCount' \in 0..REFLECT_MAX
    BY <1>1, <1>2
  <2> QED BY <1>1, <2>1 DEF IInv, TypeOK, Nodes
<1>4. RoundHasStep' /\ ErrorIsKnown' /\ ExtractAfterPlan'
  BY <1>1 DEF IInv, RoundHasStep, ErrorIsKnown, ExtractAfterPlan, Working, Finishing,
              StepIn, AtStep, Step
<1>5. /\ WorkLeft = 1 + 2 * (REFLECT_MAX - reflectCount)
      /\ \/ WorkLeft' = 0
         \/ /\ reflectCount < REFLECT_MAX
            /\ WorkLeft' = 2 + 2 * (REFLECT_MAX - (reflectCount + 1))
  BY <1>1 DEF WorkLeft
<1>6. WorkLeft' \in Int /\ WorkLeft' < WorkLeft
  BY <1>2, <1>5
<1>7. ticks' \in Nat /\ ticks' + WorkLeft' <= WorkLimit
  BY <1>6, RunKeepsSum DEF JudgeSendsBack, JudgeDecides
<1> QED BY <1>3, <1>4, <1>7 DEF IInv

(* An exception or a death leaves every channel as the checkpoint has it. *)
LEMMA InterruptIInv == IInv /\ Interrupt => IInv'
<1> SUFFICES ASSUME IInv, Interrupt PROVE IInv'
  OBVIOUS
<1> USE DEF Interrupt, planVars, budgetVars, toolVars, resultVars
<1>1. TypeOK' /\ RoundHasStep' /\ ErrorIsKnown' /\ ExtractAfterPlan'
  BY DEF IInv, TypeOK, RoundHasStep, ErrorIsKnown, ExtractAfterPlan, Working, Finishing
<1>2. /\ ticks' = ticks /\ WorkLeft' = 0
      /\ ticks \in Nat /\ ticks + WorkLeft <= WorkLimit
      /\ WorkLeft \in Nat /\ WorkLimit \in Nat
  BY WorkLeftIsNat, LimitIsNat DEF IInv, WorkLeft
<1>3. \A t, w, limit \in Nat : t + w <= limit => t + 0 <= limit
  OBVIOUS
<1>4. ticks' + WorkLeft' <= WorkLimit
  BY <1>2, <1>3
<1> QED BY <1>1, <1>2, <1>4 DEF IInv

(* A delivery starts with the plans the sample has left. *)
LEMMA RedeliverIInv == IInv /\ Redeliver => IInv'
<1> SUFFICES ASSUME IInv, Redeliver PROVE IInv'
  OBVIOUS
<1> USE DEF Redeliver, planVars, budgetVars, toolVars
<1>1. TypeOK' /\ RoundHasStep' /\ ErrorIsKnown' /\ ExtractAfterPlan'
  BY DEF IInv, TypeOK, Nodes, RoundHasStep, ErrorIsKnown, ExtractAfterPlan, Working,
         Finishing
<1>2. ticks' = 0 /\ WorkLeft' = 1 + FromPlan(planCount)
  BY DEF WorkLeft
<1>3. FromPlan(planCount) \in Nat /\ FromPlan(0) \in Nat /\ FromPlan(planCount) <= FromPlan(0)
  BY FromPlanFalls DEF IInv, TypeOK
<1> QED BY <1>1, <1>2, <1>3, LimitIs DEF IInv
-----------------------------------------------------------------------------
(***************************************************************************)
(* The inductive invariant: what a delivery has run and what it can still  *)
(* run never exceed WorkLimit.                                             *)
(***************************************************************************)
THEOREM AgentInductive == Spec => []IInv
<1>1. IInv /\ [Next]_vars => IInv'
  <2> SUFFICES ASSUME IInv, [Next]_vars PROVE IInv'
    OBVIOUS
  <2>1. CASE Classify \/ PlanFromCache \/ PlanFromModel \/ PlanFails
    BY <2>1, ClassifyIInv, PlanIInv
  <2>2. CASE ActExtracts \/ ActUnknown \/ ActOk \/ ActError \/ Observe
    BY <2>2, ActLeavesIInv, ActCallsIInv, ObserveIInv
  <2>3. CASE VerifyOk \/ VerifyNo \/ VerifyRaises
    BY <2>3, VerifyOkIInv, VerifyNoIInv, VerifyRaisesIInv
  <2>4. CASE Extract \/ JudgeSendsBack \/ JudgeDecides
    BY <2>4, ExtractIInv, JudgeIInv
  <2>5. CASE Interrupt \/ Redeliver
    BY <2>5, InterruptIInv, RedeliverIInv
  <2>6. CASE UNCHANGED vars
    BY <2>6 DEF vars, planVars, budgetVars, toolVars, resultVars, IInv, TypeOK, RoundHasStep,
                ErrorIsKnown, ExtractAfterPlan, WorkLeft, Working, Finishing, StepIn, AtStep,
                Step
  <2> QED BY <2>1, <2>2, <2>3, <2>4, <2>5, <2>6 DEF Next
<1> QED BY <1>1, InitIInv, PTL DEF Spec

(***************************************************************************)
(* Retries, replans and judge feedback together never run a delivery past  *)
(* WorkLimit, whatever planner, tools, verifier and judge answer.          *)
(***************************************************************************)
THEOREM DeliveryIsBounded == Spec => []WorkBound
<1>1. IInv => WorkBound
  <2> SUFFICES ASSUME IInv PROVE ticks <= WorkLimit
    BY DEF WorkBound
  <2>1. ticks \in Nat /\ WorkLeft \in Nat /\ WorkLimit \in Nat /\ ticks + WorkLeft <= WorkLimit
    BY WorkLeftIsNat, LimitIsNat DEF IInv
  <2> HIDE DEF WorkLeft, WorkLimit
  <2> QED BY <2>1
<1> QED BY <1>1, AgentInductive, PTL

(***************************************************************************)
(* Plans of up to 19 steps never meet the recursion_limit of 200 that      *)
(* graph.py sets.                                                          *)
(***************************************************************************)
THEOREM RecursionLimitUnmet == MaxPlan <= 19 => WorkLimit < 200
  BY DEF WorkLimit

(***************************************************************************)
(* A step whose tool call errored is never counted as done.                *)
(***************************************************************************)
THEOREM NoErrorAdvances == Spec => ErrorNeverAdvances
<1>1. IInv /\ [Next]_vars => [node = "verify" /\ lastCall = "error" => stepIndex' = stepIndex]_vars
  <2> SUFFICES ASSUME IInv, Next, node = "verify", lastCall = "error"
               PROVE  stepIndex' = stepIndex
    BY DEF vars
  <2>1. toolError
    BY DEF IInv, ErrorIsKnown
  <2> QED BY <2>1 DEF Next, Run, Classify, PlanFromCache, PlanFromModel, PlanFails, Adopt,
                      ActExtracts, ActUnknown, ActOk, ActError, Observe, VerifyOk, VerifyNo,
                      VerifyRaises, Extract, JudgeSendsBack, JudgeDecides, Interrupt,
                      Redeliver, planVars
<1> QED BY <1>1, AgentInductive, PTL DEF Spec, ErrorNeverAdvances

(***************************************************************************)
(* Extractor and judge see only plans that are through.                    *)
(***************************************************************************)
THEOREM ExtractionIsLast == Spec => []ExtractAfterPlan
<1>1. IInv => ExtractAfterPlan
  BY DEF IInv
<1> QED BY <1>1, AgentInductive, PTL

(***************************************************************************)
(* No step of a fourth plan is run, over all deliveries of the sample.     *)
(***************************************************************************)
THEOREM PlansAreCapped == Spec => []PlanCap
<1>1. IInv => PlanCap
  BY DEF IInv, RoundHasStep, PlanCap, Working, Finishing, Nodes
<1> QED BY <1>1, AgentInductive, PTL

(***************************************************************************)
(* The state of the graph stays in its types: indexes within the plan,     *)
(* counters within their limits.                                           *)
(***************************************************************************)
THEOREM GraphTypeCorrect == Spec => []TypeOK
<1>1. IInv => TypeOK
  BY DEF IInv
<1> QED BY <1>1, AgentInductive, PTL
=============================================================================
