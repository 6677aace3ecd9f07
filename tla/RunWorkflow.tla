----------------------------- MODULE RunWorkflow -----------------------------
(***************************************************************************)
(* orchestrator/runner.py in embedded mode: one process runs execute():    *)
(* it enqueues the rows, spawns the worker coroutines, drains the sqlite   *)
(* queue and finalizes; SIGTERM stops it between samples, a crash loses    *)
(* everything in memory, and resume() starts it again from the queue file  *)
(* and samples.jsonl.  The queue operations are those of SqliteQueue.      *)
(***************************************************************************)
EXTENDS SqliteQueue, SampleLog

CONSTANT MaxFaults   \* bound: crashes, and appends to samples.jsonl that raise

ASSUME RunAssumption ==
  /\ \E p \in Processes : Processes = {p}
  /\ MaxFaults \in Nat

VARIABLES
  phase,      \* where execute() is; "down" after a crash
  wpc,        \* wpc[w]: where coroutine _worker(w) is
  outcome,    \* outcome[w]: what _run_one returned or raised for job[w]
  log,        \* samples.jsonl
  failures,   \* bound: counts the appends that raised
  lost,       \* history: samples counted, or once readable, without a line
  completed,  \* self._completed_ids
  counters,   \* self._counters
  stop,       \* self._stop_event
  manifest    \* run.completed totals and the samples RUN_MANIFEST.json lists

memVars == <<completed, counters>>
fileVars == <<log, failures, lost>>
runVars == <<phase, wpc, outcome, fileVars, memVars, stop, manifest>>
allVars == <<vars, runVars>>

(* verdict "pass"; status "done" without a pass; neither; an exception. *)
Outcomes == {"pass", "done", "fail", "raise"}
Recorded == Logged(Content(log))

NoManifest == [totals |-> Counters(0, 0), summary |-> Summary(<<>>), written |-> FALSE]

RunTypeOK ==
  /\ phase \in {"enqueue", "drain", "finalize", "finished", "down"}
  /\ wpc \in [Workers -> {"loop", "run", "record", "settle", "exit"}]
  /\ outcome \in [Workers -> Outcomes \cup {None}]
  /\ log \in Logs(Items)
  /\ failures \in Nat
  /\ lost \subseteq Items
  /\ completed \subseteq Items
  /\ counters \in [total : Nat, passed : Nat, failed : Nat]
  /\ stop \in BOOLEAN

RunInit ==
  /\ Init
  /\ phase = "enqueue"
  /\ wpc = [w \in Workers |-> "exit"]
  /\ outcome = [w \in Workers |-> None]
  /\ log = EmptyLog
  /\ failures = 0
  /\ lost = {}
  /\ completed = {}
  /\ counters = Counters(0, 0)
  /\ stop = FALSE
  /\ manifest = NoManifest
-----------------------------------------------------------------------------
(* _enqueue_all, one row; each INSERT commits on its own. *)
EnqueueRow(i) ==
  /\ phase = "enqueue"
  /\ i \notin completed
  /\ Enqueue(i)
  /\ UNCHANGED runVars

SpawnAll == wpc' = [w \in Workers |-> "loop"]

(* All rows are in: asyncio.gather of the N workers. *)
SpawnWorkers ==
  /\ phase = "enqueue"
  /\ \A i \in Items : status[i] # "absent"
  /\ phase' = "drain"
  /\ SpawnAll
  /\ UNCHANGED <<vars, outcome, fileVars, memVars, stop, manifest>>

Goto(w, pc) == wpc' = [wpc EXCEPT ![w] = pc]

(* Loop head with the stop event set, or an empty queue: return. *)
WorkerExit(w) ==
  /\ phase = "drain"
  /\ wpc[w] = "loop"
  /\ stop \/ (HasLock(w) /\ Pending = {})
  /\ Goto(w, "exit")
  /\ UNCHANGED <<vars, phase, outcome, fileVars, memVars, stop, manifest>>

WorkerTake(w) ==
  /\ phase = "drain"
  /\ wpc[w] = "loop"
  /\ ~stop
  /\ Dequeue(w)
  /\ Goto(w, "run")
  /\ UNCHANGED <<phase, outcome, fileVars, memVars, stop, manifest>>

(* Fault: only a pass is recorded before its ack. *)
WorkerRunSkips(w, o) ==
  /\ wpc[w] = "run"
  /\ outcome' = [outcome EXCEPT ![w] = o]
  /\ Goto(w, IF o = "pass" THEN "record" ELSE "settle")
  /\ UNCHANGED <<vars, phase, fileVars, memVars, stop, manifest>>

(* _run_one ends: with a result to record, or by raising. *)
WorkerRun(w, o) ==
  /\ wpc[w] = "run"
  /\ outcome' = [outcome EXCEPT ![w] = o]
  /\ Goto(w, IF o = "raise" THEN "settle" ELSE "record")
  /\ UNCHANGED <<vars, phase, fileVars, memVars, stop, manifest>>

Count(c, p) ==
  Counters(c.total + 1, IF p THEN c.passed + 1 ELSE c.passed)

(* Memory first: _completed_ids and the counters. *)
CountSample(w) ==
  /\ completed' = completed \cup {job[w]}
  /\ counters' = Count(counters, outcome[w] = "pass")

ResultLine(w) == Line(job[w], outcome[w] = "pass")

(* The samples of S have no readable line any more. *)
Losing(S) == lost' = lost \cup (S \ Recorded')

(* Fault: every run of a sample is recorded. *)
WorkerRecordAgain(w) ==
  /\ wpc[w] = "record"
  /\ CountSample(w)
  /\ log' = Appended(log, ResultLine(w))
  /\ Losing(Recorded \cup {job[w]})
  /\ Goto(w, "settle")
  /\ UNCHANGED <<vars, phase, outcome, failures, stop, manifest>>

(* _record_result: a sample already in _completed_ids is left as it is. *)
WorkerRecord(w) ==
  /\ wpc[w] = "record"
  /\ IF job[w] \in completed
     THEN UNCHANGED <<log, lost, memVars>>
     ELSE /\ CountSample(w)
          /\ log' = Appended(log, ResultLine(w))
          /\ Losing(Recorded \cup {job[w]})
  /\ Goto(w, "settle")
  /\ UNCHANGED <<vars, phase, outcome, failures, stop, manifest>>

(* _append_sample_jsonl raises (a full disk, a character the encoding has  *)
(* no bytes for): the sample is counted already, and _worker nacks it.     *)
AppendRaises(w) ==
  /\ wpc[w] = "record"
  /\ job[w] \notin completed
  /\ crashes + failures < MaxFaults
  /\ failures' = failures + 1
  /\ CountSample(w)
  /\ log' \in Interrupted(log, ResultLine(w))
  /\ Losing(Recorded \cup {job[w]})
  /\ outcome' = [outcome EXCEPT ![w] = "raise"]
  /\ Goto(w, "settle")
  /\ UNCHANGED <<vars, phase, stop, manifest>>

BackToLoop(w) ==
  /\ Goto(w, "loop")
  /\ outcome' = [outcome EXCEPT ![w] = None]
  /\ UNCHANGED <<phase, fileVars, memVars, stop, manifest>>

WorkerAck(w) ==
  /\ wpc[w] = "settle"
  /\ outcome[w] \in {"pass", "done"}
  /\ Ack(w)
  /\ BackToLoop(w)

WorkerNackRead(w) ==
  /\ wpc[w] = "settle"
  /\ outcome[w] \in {"fail", "raise"}
  /\ NackRead(w)
  /\ UNCHANGED runVars

WorkerNackWrite(w) ==
  /\ NackWrite(w)
  /\ BackToLoop(w)

(* Fault: an empty queue does not end the rounds. *)
RoundNeverEnds ==
  /\ phase = "drain"
  /\ \A w \in Workers : wpc[w] = "exit"
  /\ IF stop THEN phase' = "finalize" /\ UNCHANGED wpc ELSE SpawnAll /\ UNCHANGED phase
  /\ UNCHANGED <<vars, outcome, fileVars, memVars, stop, manifest>>

(* All coroutines of the gather returned: finalize, or another round. *)
RoundEnds ==
  /\ phase = "drain"
  /\ \A w \in Workers : wpc[w] = "exit"
  /\ IF stop \/ Pending = {}
     THEN phase' = "finalize" /\ UNCHANGED wpc
     ELSE SpawnAll /\ UNCHANGED phase
  /\ UNCHANGED <<vars, outcome, fileVars, memVars, stop, manifest>>

(* finalize: counters and completed ids again from samples.jsonl, then     *)
(* output.csv, the run.completed event and the manifest.                   *)
Finalize ==
  /\ phase = "finalize"
  /\ completed' = Recorded
  /\ counters' = LoadCounters(Content(log))
  /\ manifest' = [totals |-> LoadCounters(Content(log)), summary |-> Summary(Content(log)), written |-> TRUE]
  /\ phase' = "finished"
  /\ UNCHANGED <<vars, wpc, outcome, fileVars, stop>>

(* SIGTERM or SIGINT sets the stop event. *)
Sigterm ==
  /\ phase \in {"enqueue", "drain"}
  /\ ~stop
  /\ stop' = TRUE
  /\ UNCHANGED <<vars, phase, wpc, outcome, fileVars, memVars, manifest>>

(* The process dies, perhaps with a worker inside _append_sample_jsonl.    *)
RunCrash(p) ==
  /\ phase \in {"enqueue", "drain", "finalize"}
  /\ crashes + failures < MaxFaults
  /\ Crash(p)
  /\ phase' = "down"
  /\ \/ UNCHANGED log
     \/ \E w \in Workers : /\ wpc[w] = "record" /\ job[w] \notin completed
                          /\ log' \in Interrupted(log, ResultLine(w))
  /\ Losing(Recorded)
  /\ wpc' = [w \in Workers |-> "exit"]
  /\ outcome' = [w \in Workers |-> None]
  /\ completed' = {}
  /\ counters' = Counters(0, 0)
  /\ stop' = FALSE
  /\ UNCHANGED <<failures, manifest>>

(* Faults: the counters start at zero; nothing is reclaimed. *)
RunResumeFresh(p) ==
  /\ phase = "down" /\ Resume(p)
  /\ completed' = Recorded
  /\ counters' = Counters(0, 0)
  /\ stop' = FALSE
  /\ phase' = "drain"
  /\ SpawnAll
  /\ UNCHANGED <<outcome, fileVars, manifest>>

RunResumeKeepsClaims(p) ==
  /\ phase = "down" /\ Join(p)
  /\ completed' = Recorded
  /\ counters' = LoadCounters(Content(log))
  /\ stop' = FALSE
  /\ phase' = "drain"
  /\ SpawnAll
  /\ UNCHANGED <<outcome, fileVars, manifest>>

(* resume(): no rows, _load_completed_from_disk, reclaim_stale, workers. *)
RunResume(p) ==
  /\ \/ phase = "down" /\ Resume(p)
     \/ phase = "finished" /\ ReclaimStale /\ UNCHANGED <<loopVars, procVars, claims>>
  /\ completed' = Recorded
  /\ counters' = LoadCounters(Content(log))
  /\ stop' = FALSE
  /\ phase' = "drain"
  /\ SpawnAll
  /\ UNCHANGED <<outcome, fileVars, manifest>>

WorkerStep(w) ==
  \/ WorkerExit(w) \/ WorkerTake(w) \/ WorkerRecord(w)
  \/ WorkerAck(w) \/ WorkerNackRead(w) \/ WorkerNackWrite(w)
  \/ \E o \in Outcomes : WorkerRun(w, o)

MainStep == (\E i \in Items : EnqueueRow(i)) \/ SpawnWorkers \/ RoundEnds \/ Finalize

RunNext ==
  \/ \E i \in Items : EnqueueRow(i)
  \/ SpawnWorkers \/ RoundEnds \/ Finalize \/ Sigterm
  \/ \E w \in Workers :
       \/ WorkerExit(w) \/ WorkerTake(w) \/ WorkerRecord(w) \/ AppendRaises(w)
       \/ WorkerAck(w) \/ WorkerNackRead(w) \/ WorkerNackWrite(w)
       \/ \E o \in Outcomes : WorkerRun(w, o)
  \/ \E p \in Processes : RunCrash(p) \/ RunResume(p)

RunSpec == RunInit /\ [][RunNext]_allVars

(* The event loop runs every ready coroutine, _run_one ends (each browser  *)
(* and LLM call has a timeout), and a crashed run is resumed.              *)
RunFairSpec ==
  /\ RunSpec
  /\ WF_allVars(MainStep)
  /\ \A w \in Workers : WF_allVars(WorkerStep(w))
  /\ \A p \in Processes : WF_allVars(phase = "down" /\ RunResume(p))
-----------------------------------------------------------------------------
(***************************************************************************)
(* samples.jsonl holds at most one readable line of a sample, whatever     *)
(* retries, crashes between record and ack, and resumes ran it again:      *)
(* _record_result is idempotent per sample id.                             *)
(***************************************************************************)
RecordedOnce == OneLineEach(Content(log))

(***************************************************************************)
(* While the run is up, the in-memory counters and completed ids are what  *)
(* a reader of samples.jsonl would compute ("Memory counters + on-disk     *)
(* JSONL must agree", tests/unit/orchestrator/test_resume.py), but for the *)
(* samples that an interrupted append has cost their line.                 *)
(***************************************************************************)
MemoryMatchesLog ==
  phase # "down" =>
    /\ completed \ lost = Recorded \ lost
    /\ completed = Recorded => counters = LoadCounters(Content(log))

(***************************************************************************)
(* The queue never forgets a sample before its result is durable: a row    *)
(* marked done has a line in samples.jsonl.  An append that a crash or an  *)
(* error interrupts costs at most two samples that guarantee: the one it   *)
(* was to record, and one whose line is glued to what it left.             *)
(***************************************************************************)
AckedIsRecorded ==
  /\ \A i \in Items : status[i] = "done" => i \in Recorded \cup lost
  /\ Cardinality(lost) <= 2 * (crashes + failures)

(***************************************************************************)
(* Violated: "Memory counters + on-disk JSONL must agree" without the      *)
(* exception.  _record_result counts the sample before it appends, so an   *)
(* append that raises leaves memory ahead of the file with no crash.       *)
(***************************************************************************)
MemoryEqualsLog ==
  phase # "down" =>
    /\ completed = Recorded
    /\ counters = LoadCounters(Content(log))

(***************************************************************************)
(* A run that finished without being told to stop leaves no enqueued       *)
(* sample unsettled, and nothing claimed.                                  *)
(***************************************************************************)
NothingLeftBehind ==
  phase = "finished" /\ ~stop =>
    \A i \in Items : status[i] \in Settled \cup {"absent"}

(***************************************************************************)
(* The totals of the run.completed event agree with the samples of the     *)
(* manifest, although one reader takes a sample's first line and the other *)
(* its last.                                                               *)
(***************************************************************************)
ManifestMatchesTotals ==
  manifest.totals =
    Counters(Cardinality(manifest.summary.samples), Cardinality(manifest.summary.passed))

(***************************************************************************)
(* A run that is resumed after every crash finishes.                       *)
(***************************************************************************)
EventuallyFinished == []<>(phase = "finished")
=============================================================================
