---------------------------- MODULE DistributedRun ----------------------------
(***************************************************************************)
(* profile.queue.distributed = true: the API process enqueues the rows of  *)
(* its runs (orchestrator/runner.py, api/routes/runs.py) and wraps a run   *)
(* up when the queue looks drained (api/app.py), agents in containers of   *)
(* their own execute the samples and append to the samples.jsonl of the    *)
(* job's run (worker.py).  The queue and its reclaim are RedisQueue's; a   *)
(* row carries the run_id of its run, so no item of a run is malformed.    *)
(***************************************************************************)
EXTENDS RedisQueue, SampleLog

CONSTANTS
  Runs,         \* runs started through the API
  RunOf,        \* RunOf[i]: the run item i is a row of
  MaxFaults,    \* bound: agents that die and appends that raise
  SharedPrefix  \* is profile.queue.redis_prefix set to GLOBAL_QUEUE_PREFIX?

(* Verdict "pass"; status "done" without one; neither; an exception. *)
Outcomes == {"pass", "done", "fail", "raise"}

(* Sid 0 is no row: it stands for a line no reader parses. *)
ASSUME DistributedAssumption ==
  /\ RunOf \in [Items -> Runs]
  /\ MaxFaults \in Nat
  /\ SharedPrefix \in BOOLEAN
  /\ None \notin Runs \cup Outcomes
  /\ 0 \notin Items

VARIABLES
  phase,     \* phase[r]: of the RunRecord, "forgotten" after an API restart
  log,       \* log[r]: runs/<r>/samples.jsonl
  outcome,   \* outcome[w]: what _execute_sample of agent w returned or raised
  totals,    \* totals[r]: of the run.completed event and the RunRecord
  manifest,  \* manifest[r]: the samples RUN_MANIFEST.json lists
  unseen,    \* history: unseen[r], a row was popped and unclaimed at the check
  failures,  \* bound: counts appends that raised
  glued      \* history: samples whose whole line was glued to an unended one

apiVars == <<phase, totals, manifest, unseen>>
fileVars == <<log, failures, glued>>
runVars == <<apiVars, fileVars, outcome>>
allVars == <<vars, runVars>>

Rows(r) == {i \in Items : RunOf[i] = r}

Phases ==
  {"enqueue", "awaits", "drained", "counted", "finalized", "forgotten"}

RunTypeOK ==
  /\ TypeOK
  /\ phase \in [Runs -> Phases]
  /\ \A r \in Runs : log[r] \in Logs(Rows(r))
  /\ failures \in Nat
  /\ glued \subseteq Items
  /\ outcome \in [Workers -> Outcomes \cup {None}]
  /\ totals \in [Runs -> [total : Nat, passed : Nat, failed : Nat]]
  /\ \A r \in Runs : manifest[r].passed \subseteq manifest[r].samples
  /\ unseen \in [Runs -> BOOLEAN]

RunInit ==
  /\ Init
  /\ phase = [r \in Runs |-> "enqueue"]
  /\ log = [r \in Runs |-> EmptyLog]
  /\ failures = 0
  /\ glued = {}
  /\ outcome = [w \in Workers |-> None]
  /\ totals = [r \in Runs |-> Counters(0, 0)]
  /\ manifest = [r \in Runs |-> Summary(<<>>)]
  /\ unseen = [r \in Runs |-> FALSE]
-----------------------------------------------------------------------------
Goto(r, p) == phase' = [phase EXCEPT ![r] = p]

MayFail == crashes + failures < MaxFaults

(* _enqueue_all, one row. *)
EnqueueRow(i) ==
  /\ phase[RunOf[i]] = "enqueue"
  /\ Enqueue(i)
  /\ UNCHANGED runVars

(* Fault: the run is handed over when its first row is in. *)
HandOverEarly(r) ==
  /\ phase[r] = "enqueue"
  /\ \E i \in Rows(r) : status[i] # "absent"
  /\ Goto(r, "awaits")
  /\ UNCHANGED <<vars, fileVars, outcome, totals, manifest, unseen>>

(* execute() returns after the last row: awaits_finalization. *)
HandOver(r) ==
  /\ phase[r] = "enqueue"
  /\ \A i \in Rows(r) : status[i] # "absent"
  /\ Goto(r, "awaits")
  /\ UNCHANGED <<vars, fileVars, outcome, totals, manifest, unseen>>

(* Agents pop <GLOBAL_QUEUE_PREFIX>:pending, runs push to the list of      *)
(* their own redis_prefix.                                                 *)
AgentPop(w) ==
  /\ SharedPrefix
  /\ Pop(w)
  /\ UNCHANGED runVars

AgentClaim(w) == Claim(w) /\ UNCHANGED runVars

RunInHand(w) == RunOf[job[w]]
FileInHand(w) == log[RunInHand(w)]
SetFile(w, f) == log' = [log EXCEPT ![RunInHand(w)] = f]

(* samples_jsonl_path.open("a"): another agent, now dead, may have left an *)
(* unended line there.                                                     *)
AppendResult(w, o) ==
  /\ SetFile(w, Appended(FileInHand(w), Line(job[w], o = "pass")))
  /\ glued' = IF FileInHand(w).tail = <<>> THEN glued ELSE glued \cup {job[w]}

Executing(w) == step[w] = "working" /\ outcome[w] = None

(* Fault: a pass is logged, the rest is left to a retry. *)
AgentExecuteSkips(w, o) ==
  /\ Executing(w)
  /\ outcome' = [outcome EXCEPT ![w] = o]
  /\ IF o = "pass" THEN AppendResult(w, o) ELSE UNCHANGED <<log, glued>>
  /\ UNCHANGED <<vars, apiVars, failures>>

(* _execute_sample: every attempt that does not raise appends a line.      *)
AgentExecute(w, o) ==
  /\ Executing(w)
  /\ outcome' = [outcome EXCEPT ![w] = o]
  /\ IF o = "raise" THEN UNCHANGED <<log, glued>> ELSE AppendResult(w, o)
  /\ UNCHANGED <<vars, apiVars, failures>>

(* An append of a line that says pass or not, one of P, is not finished. *)
AppendStops(w, P) ==
  \E p \in P : \E f \in Interrupted(FileInHand(w), Line(job[w], p)) : SetFile(w, f)

(* The append raises: at the end that is the end of the attempt; that of   *)
(* the failure at a login wall is swallowed, and the sample is executed.   *)
AppendRaises(w) ==
  /\ Executing(w)
  /\ MayFail
  /\ failures' = failures + 1
  /\ \/ AppendStops(w, BOOLEAN) /\ outcome' = [outcome EXCEPT ![w] = "raise"]
     \/ AppendStops(w, {FALSE}) /\ UNCHANGED outcome
  /\ UNCHANGED <<vars, apiVars, glued>>

Forget(w) == outcome' = [outcome EXCEPT ![w] = None]

AgentAck(w) ==
  /\ outcome[w] \in {"pass", "done"}
  /\ Ack(w)
  /\ Forget(w)
  /\ UNCHANGED <<apiVars, fileVars>>

AgentNackRead(w) ==
  /\ outcome[w] \in {"fail", "raise"}
  /\ NackRead(w)
  /\ UNCHANGED runVars

AgentNackWrite(w) ==
  /\ NackWrite(w)
  /\ Forget(w)
  /\ UNCHANGED <<apiVars, fileVars>>

(* An agent dies, perhaps inside its append. *)
AgentDies(w) ==
  /\ MayFail
  /\ AgentCrash(w)
  /\ Forget(w)
  /\ UNCHANGED log \/ (Executing(w) /\ AppendStops(w, BOOLEAN))
  /\ UNCHANGED <<apiVars, failures, glued>>

(* `andera resume` in distributed mode: reclaim_stale, and no rows. *)
ResumeScan == ReclaimScan /\ UNCHANGED runVars
ResumeOne(i) == ReclaimOne(i) /\ UNCHANGED runVars
ResumeDies == ReclaimCrash /\ UNCHANGED runVars

(* Faults: claimed items are not counted; dead ones are. *)
DrainedOfPending == Len(pending) = 0
DrainedOfDead == Drained /\ dead = {}

QueueDrained == Drained

(* _finalizer_loop takes one run at a time: queue_drained() answers yes. *)
FinalizerCheck(r) ==
  /\ phase[r] = "awaits"
  /\ \A q \in Runs : phase[q] \notin {"drained", "counted"}
  /\ QueueDrained
  /\ Goto(r, "drained")
  /\ unseen' = [unseen EXCEPT ![r] =
                  \E w \in Workers : step[w] = "popped" /\ job[w] \in Rows(r)]
  /\ UNCHANGED <<vars, fileVars, outcome, totals, manifest>>

(* finalize(): _load_completed_from_disk gives the totals. *)
FinalizeRead(r) ==
  /\ phase[r] = "drained"
  /\ totals' = [totals EXCEPT ![r] = LoadCounters(Content(log[r]))]
  /\ Goto(r, "counted")
  /\ UNCHANGED <<vars, fileVars, outcome, manifest, unseen>>

(* finalize() reads the file again for the manifest; mark_finalized. *)
FinalizeWrite(r) ==
  /\ phase[r] = "counted"
  /\ manifest' = [manifest EXCEPT ![r] = Summary(Content(log[r]))]
  /\ Goto(r, "finalized")
  /\ UNCHANGED <<vars, fileVars, outcome, totals, unseen>>

(* The API process restarts: its registry, and with it every run that is   *)
(* not finalized, is forgotten.                                            *)
ApiRestart ==
  /\ \E r \in Runs : phase[r] \notin {"finalized", "forgotten"}
  /\ phase' = [r \in Runs |-> IF phase[r] = "finalized" THEN "finalized" ELSE "forgotten"]
  /\ UNCHANGED <<vars, fileVars, outcome, totals, manifest, unseen>>

AgentSettle(w) == AgentAck(w) \/ AgentNackRead(w) \/ AgentNackWrite(w)
AgentTake(w) == AgentPop(w) \/ AgentClaim(w)
AgentStep(w) == AgentTake(w) \/ AgentSettle(w) \/ \E o \in Outcomes : AgentExecute(w, o)
Finalizer(r) == FinalizerCheck(r) \/ FinalizeRead(r) \/ FinalizeWrite(r)

RunNext ==
  \/ \E i \in Items : EnqueueRow(i) \/ ResumeOne(i)
  \/ \E w \in Workers :
       \/ AgentPop(w) \/ AgentClaim(w) \/ \E o \in Outcomes : AgentExecute(w, o)
       \/ AgentAck(w) \/ AgentNackRead(w) \/ AgentNackWrite(w)
       \/ AgentDies(w) \/ AppendRaises(w)
  \/ \E r \in Runs :
       HandOver(r) \/ FinalizerCheck(r) \/ FinalizeRead(r) \/ FinalizeWrite(r)
  \/ ResumeScan \/ ResumeDies \/ ApiRestart

RunSpec == RunInit /\ [][RunNext]_allVars

(* Agents poll forever and finish what they took, the finalizer loop polls *)
(* every two seconds, the operator resumes what dead agents left, and not  *)
(* every resume dies.                                                      *)
RunFairSpec ==
  /\ RunSpec
  /\ \A w \in Workers : WF_allVars(AgentStep(w))
  /\ \A r \in Runs : WF_allVars(Finalizer(r))
  /\ WF_allVars(ResumeScan)
  /\ SF_allVars(\E i \in Items : ResumeOne(i))
-----------------------------------------------------------------------------
Recorded(r) == Logged(Content(log[r]))

(***************************************************************************)
(* A settled sample has left its result behind: whoever acked it, a line   *)
(* of it is in the samples.jsonl of its own run, crashes or not.  An agent *)
(* that dies inside its append, or one whose append raises, costs at most  *)
(* one sample that: the next whose line goes to the same file.             *)
(***************************************************************************)
AckedIsLogged ==
  /\ \A i \in Items : status[i] = "done" => i \in Recorded(RunOf[i]) \cup glued
  /\ Cardinality(glued) <= crashes + failures

(***************************************************************************)
(* A run is wrapped up only when all its rows are done or dead, and its    *)
(* manifest lists every one that is done and whose line was not glued to   *)
(* another; the one exception is a row that was between an agent's RPOP    *)
(* and its claim when the queue was looked at.                             *)
(***************************************************************************)
FinalizedIsComplete ==
  \A r \in Runs : phase[r] = "finalized" /\ ~unseen[r] =>
    \A i \in Rows(r) :
      /\ status[i] \in Settled
      /\ status[i] = "done" => i \in manifest[r].samples \cup glued

(***************************************************************************)
(* Nothing is logged behind the finalizer's back: the totals of the run    *)
(* and its manifest, which two reads of samples.jsonl gave next to running *)
(* agents, stay what a reader of the file computes.                        *)
(***************************************************************************)
ReportsAreFinal ==
  \A r \in Runs : phase[r] = "finalized" /\ ~unseen[r] =>
    /\ totals[r] = LoadCounters(Content(log[r]))
    /\ manifest[r] = Summary(Content(log[r]))

(***************************************************************************)
(* A run that is handed over does not wait for ever: it is wrapped up,     *)
(* unless the API restarts, because the agents that serve the global queue *)
(* work off the rows of every run (queue/__init__.py: "the multi-agent     *)
(* service shape used by the Docker compose stack").                       *)
(***************************************************************************)
RunsAreWrappedUp ==
  \A r \in Runs : []<>(phase[r] \notin {"awaits", "drained", "counted"})
=============================================================================
