------------------------------ MODULE AgentGraph ------------------------------
(***************************************************************************)
(* agent/graph.py and agent/nodes.py: the LangGraph state machine that     *)
(* runs one sample, over the deliveries the queue makes of it.  `node` is  *)
(* the node LangGraph runs next; the other variables are the channels of   *)
(* AgentState, which the checkpointer keeps under thread_id = sample_id.   *)
(* A plan step is abstracted to what its action makes the nodes do.        *)
(***************************************************************************)
EXTENDS Naturals, Sequences

CONSTANTS
  MaxPlan,        \* bound: steps in a plan
  MaxDeliveries,  \* bound: how often the queue hands the sample out
  Steps,          \* the kinds of plan steps the planner may emit
  MayFail,        \* may a node raise, or the process die?
  NoPlan, None

(* "quiet": an action of NON_DOM_CHANGING_ACTIONS; "dom": any other tool   *)
(* call; "done"; "unknown": an action act() does not know; "bad": not a    *)
(* JSON object.                                                            *)
AllSteps == {"quiet", "dom", "done", "unknown", "bad"}

REFLECT_MAX == 3
REPLAN_AFTER_CONSECUTIVE_FAILS == 2
PLAN_MAX == 3

ASSUME AgentAssumption ==
  /\ MaxPlan \in Nat \ {0}
  /\ MaxDeliveries \in Nat \ {0}
  /\ Steps \subseteq AllSteps
  /\ MayFail \in BOOLEAN
  /\ NoPlan \notin Seq(AllSteps)

Plans == UNION {[1..n -> Steps] : n \in 1..MaxPlan}

VARIABLES
  node,              \* the node to run; "end", or "raised" out of the graph
  plan, stepIndex,   \* the plan and the steps of it that are behind us
  reflectCount, consecutiveFails, planCount,
  toolError,         \* last_tool_error is set
  lastCall,          \* status of tool_calls[-1]
  status, verdict,
  cache,             \* PlanCache entry of the task
  deliveries,        \* deliveries of the sample so far
  ticks              \* history: nodes run in this delivery

planVars == <<plan, stepIndex, planCount>>
budgetVars == <<reflectCount, consecutiveFails>>
toolVars == <<toolError, lastCall>>
resultVars == <<status, verdict>>
vars == <<node, planVars, budgetVars, toolVars, resultVars, cache, deliveries,
          ticks>>

Nodes == {"classify", "plan", "act", "observe", "verify", "extract", "judge"}
Verdicts == {"pass", "fail", "uncertain", "other"}

TypeOK ==
  /\ node \in Nodes \cup {"end", "raised"}
  /\ plan \in Plans \cup {<<>>}
  /\ stepIndex \in 0..MaxPlan
  /\ reflectCount \in 0..REFLECT_MAX
  /\ consecutiveFails \in 0..REPLAN_AFTER_CONSECUTIVE_FAILS
  /\ planCount \in Nat
  /\ toolError \in BOOLEAN
  /\ lastCall \in {"none", "ok", "error"}
  /\ status \in {"pending", "acting", "verifying", "replanning", "extracting",
                 "judging", "done", "failed"}
  /\ verdict \in Verdicts \cup {None}
  /\ cache \in Plans \cup {NoPlan}
  /\ deliveries \in 1..MaxDeliveries

Init ==
  /\ node = "classify"
  /\ plan = <<>> /\ stepIndex = 0 /\ planCount = 0
  /\ reflectCount = 0 /\ consecutiveFails = 0
  /\ toolError = FALSE /\ lastCall = "none"
  /\ status = "pending" /\ verdict = None
  /\ cache \in {NoPlan} \cup Plans
  /\ deliveries = 1
  /\ ticks = 0
-----------------------------------------------------------------------------
(* The longest delivery: classify; two plans that are given up at their    *)
(* last step, after two refusals each; a last plan that gets through with  *)
(* two refusals apart, whose extraction the judge sends back once.  A      *)
(* round is act, observe and verify.                                       *)
WorkLimit ==
  LET rounds == MaxPlan + REFLECT_MAX - 1
  IN 1 + (PLAN_MAX - 1) * (1 + 3 * (rounds - 1)) + (1 + 3 * rounds) + 2 * 2

(* Node n runs, and the edges send the graph to m; the history counter     *)
(* stops one past WorkLimit.                                               *)
Run(n, m) ==
  /\ node = n
  /\ node' = m
  /\ ticks' = IF ticks > WorkLimit THEN ticks ELSE ticks + 1
  /\ UNCHANGED deliveries

AtStep == stepIndex < Len(plan)
Step == plan[stepIndex + 1]
StepIn(kinds) == AtStep /\ Step \in kinds

Classify ==
  /\ Run("classify", "plan")
  /\ UNCHANGED <<planVars, budgetVars, toolVars, resultVars, cache>>

(* The fresh plan p; last_tool_error keeps its value. *)
Adopt(p) ==
  /\ Run("plan", "act")
  /\ planCount' = planCount + 1
  /\ plan' = p
  /\ stepIndex' = 0
  /\ reflectCount' = 0
  /\ consecutiveFails' = 0
  /\ status' = "acting"
  /\ UNCHANGED <<toolVars, verdict>>

PlanFromCache ==
  /\ planCount = 0
  /\ cache # NoPlan
  /\ Adopt(cache)
  /\ UNCHANGED cache

(* The planner answers; the plan is cached before a step of it has run. *)
PlanFromModel ==
  /\ planCount < PLAN_MAX
  /\ planCount = 0 => cache = NoPlan
  /\ \E p \in Plans : Adopt(p) /\ cache' = p

(* The plan cap, or an answer that is no plan. *)
PlanFails ==
  /\ planCount = 0 => cache = NoPlan
  /\ Run("plan", "end")
  /\ planCount' = planCount + 1
  /\ status' = "failed"
  /\ UNCHANGED <<plan, stepIndex, budgetVars, toolVars, verdict, cache>>

(* act() without a tool call: the plan is exhausted, or its step says done. *)
ActExtracts ==
  /\ Run("act", "extract")
  /\ ~StepIn(AllSteps \ {"done"})
  /\ status' = "extracting"
  /\ UNCHANGED <<planVars, budgetVars, toolVars, verdict, cache>>

ActUnknown ==
  /\ Run("act", "end")
  /\ StepIn({"unknown"})
  /\ status' = "failed"
  /\ UNCHANGED <<planVars, budgetVars, toolVars, verdict, cache>>

ActOk ==
  /\ Run("act", "observe")
  /\ StepIn({"quiet", "dom"})
  /\ lastCall' = "ok"
  /\ status' = "verifying"
  /\ UNCHANGED <<planVars, budgetVars, toolError, verdict, cache>>

(* Fault: the error is left to the verifier to notice. *)
ActErrorUnnoticed ==
  /\ Run("act", "observe")
  /\ StepIn({"quiet", "dom", "bad"})
  /\ lastCall' = "error"
  /\ consecutiveFails' = consecutiveFails + 1
  /\ status' = "verifying"
  /\ UNCHANGED <<planVars, reflectCount, toolError, verdict, cache>>

(* A tool error, or a step that is not an object ("agent.bad_step"). *)
ActError ==
  /\ Run("act", "observe")
  /\ StepIn({"quiet", "dom", "bad"})
  /\ lastCall' = "error"
  /\ toolError' = TRUE
  /\ consecutiveFails' = consecutiveFails + 1
  /\ status' = "verifying"
  /\ UNCHANGED <<planVars, reflectCount, verdict, cache>>

(* The snapshot fails or not; the edge to verify is unconditional. *)
Observe ==
  /\ Run("observe", "verify")
  /\ status' \in {status, "failed"}
  /\ UNCHANGED <<planVars, budgetVars, toolVars, verdict, cache>>

(* Fault: the last step is taken for done when the one before it is. *)
VerifyOkEarly ==
  /\ Run("verify", IF stepIndex + 2 < Len(plan) THEN "act" ELSE "extract")
  /\ ~StepIn({"bad"})
  /\ ~toolError
  /\ stepIndex' = stepIndex + 1
  /\ consecutiveFails' = 0
  /\ status' = "acting"
  /\ UNCHANGED <<plan, planCount, reflectCount, toolVars, verdict, cache>>

(* verify() says ok: the fast path, or the navigator's answer. *)
VerifyOk ==
  /\ Run("verify", IF stepIndex + 1 < Len(plan) THEN "act" ELSE "extract")
  /\ ~StepIn({"bad"})
  /\ ~toolError
  /\ stepIndex' = stepIndex + 1
  /\ consecutiveFails' = 0
  /\ status' = "acting"
  /\ UNCHANGED <<plan, planCount, reflectCount, toolVars, verdict, cache>>

(* verify() says no: fail at the reflection cap, else re-plan after the    *)
(* second failure in a row, else try the step again.                       *)
VerifyNo ==
  LET fails == consecutiveFails + 1
      capped == reflectCount + 1 >= REFLECT_MAX
      escalate == fails >= REPLAN_AFTER_CONSECUTIVE_FAILS
  IN /\ Run("verify", IF capped THEN "end" ELSE IF escalate THEN "plan" ELSE "act")
     /\ StepIn({"dom"}) \/ (toolError /\ ~StepIn({"bad"}))
     /\ status' = IF capped THEN "failed" ELSE IF escalate THEN "replanning" ELSE "acting"
     /\ IF capped
        THEN UNCHANGED budgetVars
        ELSE /\ reflectCount' = reflectCount + 1
             /\ consecutiveFails' = IF escalate THEN 0 ELSE fails
     /\ UNCHANGED <<planVars, toolVars, verdict, cache>>

(* The step is no dict, so `current_step.get` raises AttributeError. *)
VerifyRaises ==
  /\ Run("verify", "raised")
  /\ StepIn({"bad"})
  /\ UNCHANGED <<planVars, budgetVars, toolVars, resultVars, cache>>

(* Up to 1 + EXTRACT_RETRY_MAX answers; an empty extraction goes on too. *)
Extract ==
  /\ Run("extract", "judge")
  /\ status' = "judging"
  /\ UNCHANGED <<planVars, budgetVars, toolVars, verdict, cache>>

(* Fault: judge feedback is free. *)
JudgeSendsBackFree ==
  /\ reflectCount < REFLECT_MAX
  /\ Run("judge", "extract")
  /\ verdict' \in {"fail", "uncertain"}
  /\ status' = "extracting"
  /\ UNCHANGED <<planVars, budgetVars, toolVars, cache>>

(* fail or uncertain, with reflections left: back to the extractor. *)
JudgeSendsBack ==
  /\ reflectCount < REFLECT_MAX
  /\ Run("judge", "extract")
  /\ verdict' \in {"fail", "uncertain"}
  /\ reflectCount' = reflectCount + 1
  /\ status' = "extracting"
  /\ UNCHANGED <<planVars, consecutiveFails, toolVars, cache>>

(* A final verdict ("other": a word the prompt does not offer); a pass may *)
(* write the resolved plan to the cache.                                   *)
JudgeDecides ==
  /\ Run("judge", "end")
  /\ verdict' \in IF reflectCount < REFLECT_MAX THEN {"pass", "other"} ELSE Verdicts
  /\ status' = "done"
  /\ cache' \in IF verdict' = "pass" THEN {cache, plan} ELSE {cache}
  /\ UNCHANGED <<planVars, budgetVars, toolVars>>
-----------------------------------------------------------------------------
(* A node raises (an LLM call gives up), or the process dies: in the graph *)
(* or after it, before the queue hears of the result.                      *)
Interrupt ==
  /\ MayFail
  /\ node # "raised"
  /\ node' = "raised"
  /\ UNCHANGED <<planVars, budgetVars, toolVars, resultVars, cache, deliveries,
                 ticks>>

(* What _worker acks: verdict "pass", or status "done". *)
Acked == node = "end" /\ (verdict = "pass" \/ status = "done")

(* The queue hands the sample out again: run_sample() invokes the graph    *)
(* with a fresh input on the same thread, which starts at START and keeps  *)
(* every channel the input does not name.                                  *)
Redeliver ==
  /\ node \in {"end", "raised"}
  /\ ~Acked
  /\ deliveries < MaxDeliveries
  /\ deliveries' = deliveries + 1
  /\ node' = "classify"
  /\ status' = "pending"
  /\ ticks' = 0
  /\ UNCHANGED <<planVars, budgetVars, toolVars, verdict, cache>>

PlanNode == PlanFromCache \/ PlanFromModel \/ PlanFails
Act == ActExtracts \/ ActUnknown \/ ActOk \/ ActError
Verify == VerifyOk \/ VerifyNo \/ VerifyRaises
Judge == JudgeSendsBack \/ JudgeDecides
GraphStep ==
  Classify \/ PlanNode \/ Act \/ Observe \/ Verify \/ Extract \/ Judge

Next ==
  \/ Classify
  \/ PlanFromCache \/ PlanFromModel \/ PlanFails
  \/ ActExtracts \/ ActUnknown \/ ActOk \/ ActError
  \/ Observe
  \/ VerifyOk \/ VerifyNo \/ VerifyRaises
  \/ Extract
  \/ JudgeSendsBack \/ JudgeDecides
  \/ Interrupt \/ Redeliver

Spec == Init /\ [][Next]_vars

(* LangGraph runs the next node; every LLM and browser call has a timeout. *)
FairSpec == Spec /\ WF_vars(GraphStep)
-----------------------------------------------------------------------------
(***************************************************************************)
(* Retries, replans and judge feedback feed one another, yet a delivery    *)
(* runs no more than WorkLimit nodes (which plans of two steps reach).  So *)
(* plans of up to 19 steps stay below LangGraph's recursion cap of 200.    *)
(***************************************************************************)
WorkBound == ticks <= WorkLimit

(***************************************************************************)
(* "A tool error is never papered over": no step whose tool call errored   *)
(* is ever counted as done, whatever the verifier would have said.         *)
(***************************************************************************)
ErrorNeverAdvances ==
  [][node = "verify" /\ lastCall = "error" => stepIndex' = stepIndex]_vars

(***************************************************************************)
(* The extractor and the judge work only on a plan that is exhausted or    *)
(* that said "done" at the current step.                                   *)
(***************************************************************************)
ExtractAfterPlan ==
  node \in {"extract", "judge"} => ~StepIn(AllSteps \ {"done"})

(***************************************************************************)
(* PLAN_MAX is "one initial plan + two replans" per sample: a plan that is *)
(* run is at most the third one, over all deliveries of the sample, and a  *)
(* cached plan is never the answer to a replan.                            *)
(***************************************************************************)
PlanCap == node \in Nodes \ {"classify", "plan"} => planCount \in 1..PLAN_MAX

(***************************************************************************)
(* Whatever planner, tools, verifier and judge answer, a delivery ends.    *)
(***************************************************************************)
DeliveryEnds == []<>(node \in {"end", "raised"})
=============================================================================
