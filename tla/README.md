# Andera in TLA+

TLA+ modules, TLC configurations and machine-checked proofs for Andera, the
browser agent in `src/`: a service that takes a task description and a table of
input rows, drives a browser through the task once per row ("sample"), judges
what it extracted, and keeps evidence of it. The parts that decide whether a
sample is run once, recorded once, retried enough, and reported as what it was
are state machines that run concurrently and survive crashes. These are what
the project models.

All paths below are relative to the package directory `src/src/andera/` unless
they start with `src/`.

## 1. The system and its parts

| part | state it keeps | operations |
| --- | --- | --- |
| Task queue (`queue/sqlite_queue.py`, `queue/redis_queue.py`, contract in `contracts/protocols.py`) | one row (SQLite) or one hash, list, sorted set and set (Redis) with the status, attempts and claim of each item | `enqueue`, `dequeue`, `ack`, `nack`, `dead_letter`, `reclaim_stale`, `counts` |
| Run workflow (`orchestrator/runner.py`) | `_completed_ids`, `_counters`, stop event; `samples.jsonl`, `output.csv`, `RUN_MANIFEST.json`, `.run_config.json` | `execute`, `_worker`, `_run_one`, `_record_result`, `finalize`, `resume` |
| Worker node and agent pool (`worker.py`) | the item in hand | loops around the same queue, in processes of their own |
| Agent graph (`agent/graph.py`, `agent/nodes.py`, `agent/state.py`) | the channels of `AgentState`, checkpointed per sample | nodes classify, plan, act, observe, verify, extract, judge and the routers |
| Plan cache (`agent/plan_cache.py`) | a dict and one JSON file per task key | `get`, `put` |
| Audit log (`storage/audit_log.py`; `storage/audit_log_pg.py` is built by nothing) | a hash-chained table per run, in a file that several processes open | `append`, `verify_chain`, `root_hash` |
| Artifact store and manifest (`storage/artifact_store.py`, `storage/manifest.py`) | content-addressed blobs | `put`, `get`, manifest assembly |
| Browser pool and rate limiter (`browser/pool.py`, `browser/rate_limiter.py`) | semaphore, lazy browser, setup lock; one token bucket per host | `setup`, `acquire`, `teardown`; `acquire` of the limiter |
| Event bus and WebSockets (`api/ws.py`, `api/routes/events.py`, `api/routes/screencast.py`) | bounded queues of subscribers | `publish`, `subscribe`, `unsubscribe`, the two handlers |
| API registry and finalizer loop (`api/app.py`, `api/registry.py`, `api/routes/runs.py`) | records of runs | start, poll `queue_drained`, `finalize` once |
| Connections (`api/routes/connections.py`, `credentials/`) | interactive login sessions, sealed storage states | start, save, cancel, reap, delete |
| Browser session, tools, models, planner, config, evaluation, observability, command line | none that outlives a call, or files written once | wrappers, I/O, parsing |

How they interact. `RunWorkflow.execute` enqueues one item per row and starts N
coroutines. A coroutine dequeues an item, runs the agent graph on it, records
the result (memory and `samples.jsonl`), then acks it (verdict pass or status
done) or nacks it. `andera worker` does the same to the same queue file from
another process; in distributed mode the coordinator only enqueues, agents in
containers drain a Redis queue, and the finalizer loop of the API wraps the run
up when the queue looks drained. `andera resume` starts `execute` again from
the files a dead process left. Each step appends to the audit log, whose
callback feeds the event bus. The graph's thread id is the sample id, so a
redelivered sample meets the channels of its previous delivery.

What is hard, and the property of correctness that goes with it:

- **Queue.** Claims are released by crashes, `nack` and `reclaim_stale`, no call
  compares the claim token, `nack` is two transactions on SQLite and two round
  trips on Redis, `dequeue` is two round trips on Redis. Right means: one worker
  per item, no failed attempt lost, retry budget kept, settled items stay
  settled, no item out of reach, every item eventually settled.
- **Run workflow.** A crash falls between record and ack, between two rows
  being enqueued, or inside a write, and a write that raises comes after memory was
  changed. Right means: a sample has one line, memory
  agrees with the file, an acked sample is recorded, a finished run left
  nothing pending, all reports agree.
- **Agent graph.** Three loops (reflect, replan, judge feedback) share budgets
  that are reset in places, and routers read channels several nodes write.
  Right means: work is bounded whatever the models answer, an errored tool call
  never counts as done, nothing is extracted before the plan is through.
- **Audit log.** Read newest hash, insert next row, under a lock that other
  processes do not see: right means the chain does not fork, and where the code
  cannot keep that, that it forks for no other reason.
- **Distributed run.** The finalizer of the API polls a queue that has a blind
  window, reads a file other processes append to, perhaps only half a line, and
  forgets its runs on a restart; run and agents each compute the name of the queue they share. Right
  means: no run is wrapped up before its rows are settled, what is reported
  stays true, and every run is wrapped up in the end.
- **Plan cache.** Samples of a task share one list object that each of them
  changes in place, and processes share a file and the name of its `.tmp`. Right
  means: a descriptor leads every sample that meets the same page to the same
  element, a file is a whole plan or none, no descriptor is on disk
  before a sample of the run has passed.
- **Rate limiter and browser pool.** Waiters sleep outside the lock and race for
  the token that becomes due; `acquire` can raise at every call of Playwright, which can
  die under everybody. Right means: no window of time sees more requests to a host
  than burst and rate allow, every permit comes back, one Chromium runs at most,
  every sample gets its turn.
- **Event bus.** Queues are bounded, subscribers slow, and a client that left is
  only noticed by sending. Right means: order kept, the newest event always gets
  through, no dead subscription lasts.
- **Connections.** Save, cancel, reaping and the user's own click close the same
  window from overlapping handlers. Right means: no window without somebody who
  can close it, nothing sealed from a session that is over, every close ends.
- **Artifact store.** Two writers of one content share a `.tmp`, an evidence file
  is a hard link to the blob, so writing to one writes to the other, and all samples
  of a cached plan put under the plan's names into the plan's folders. Right
  means: a blob holds what its name says, whatever other writers, failing links
  and crashes do, and the manifest stays true.

`PROJECT.json` lists every component with its status, and under `hazards` each
place in the code where one of these things bites.

## 2. Modules

| module | models | extends / uses |
| --- | --- | --- |
| `TaskQueue` | what the queue promises, whichever backend serves it | |
| `SqliteQueue` | the table, the worker loops and the processes around it | implements `TaskQueue` |
| `RedisQueue` | the four Redis structures, agents, reclaim | implements `TaskQueue` |
| `SampleLog` | `samples.jsonl` and its two readers, as operators | |
| `RunWorkflow` | `execute`, workers, SIGTERM, crash, resume, finalize | `SqliteQueue`, `SampleLog` |
| `DistributedRun` | coordinator, agents, finalizer loop, restart of the API | `RedisQueue`, `SampleLog` |
| `AgentGraph` | one sample's graph over its deliveries | |
| `Descriptors` | how a visual step finds its element again, as operators | |
| `PlanCache` | the cache, its file, and the samples that share them | `Descriptors` |
| `RateLimiter` | the token buckets and their waiters | |
| `BrowserSessions` | the pool and the life of a session | `RateLimiter`, which it implements |
| `AuditChain` | `append` under several writers in several processes | |
| `EventBus` | publishers, bounded queues, WebSocket handlers | `AuditChain` |
| `Connections` | login windows under overlapping requests | |
| `ArtifactStore` | `put()` system call by system call, and the manifest | |
| `*Proofs` | theorems about `SqliteQueue`, `RedisQueue`, `RunWorkflow`, `AgentGraph`, `PlanCache` (with `Descriptors`), `BrowserSessions` (with `RateLimiter`), `EventBus` (with `AuditChain`), `Connections`, `ArtifactStore`; those about `RunWorkflow` are in `SqliteQueueProofs`, those about `DistributedRun` in `RedisQueueProofs` | the module, TLAPS |
| `MC*` | the constants of the runs | |

**TaskQueue.** Per item a state, the failed attempts and the holder. An item is
claimed by one worker, only its holder settles it, a nack uses up one attempt
and the last one buries it, a dead worker orphans its claim, and only orphaned
claims are reclaimed.

**SqliteQueue.** A row is `status`, `attempts`, `token`; `job[w]` is the item
the worker has in hand. One action is one committed statement or transaction:
`dequeue` is a `BEGIN IMMEDIATE` transaction, hence one action; `nack` is a
`SELECT` and an `UPDATE` in autocommit mode, hence `NackRead` and `NackWrite`
with whatever other processes do in between. Workers of one process are kept
apart by the queue object's `asyncio.Lock` (`HasLock`), workers of different
processes are not. Item i is the i-th row inserted, so "oldest pending" is the
least. `Crash` takes a process with all its coroutines; `Join` is
`andera worker`, which reclaims nothing; `Resume` is `andera resume`, which
reclaims every claim. `Takeover` says whether `Resume` may run while other
workers hold items. `claims` is a history variable.

**RedisQueue.** One action is one round trip: a single command or a MULTI/EXEC
pipeline. `dequeue` is `Pop` (RPOP) and `Claim` (HSET, ZADD); `nack` is
`NackRead` and `NackWrite`; `reclaim_stale` is `ReclaimScan` and one
`ReclaimOne` per id it read, and its process may die in between, each time. `Malformed`
items are the jobs without a `run_id` that `run_agent_pool` sends to
`dead_letter`; the rows of a run carry its id and are none.

**RunWorkflow.** Embedded mode. It uses the actions of `SqliteQueue` and adds
the phases of `execute`, the program counter of each `_worker` coroutine, the
memory of the process and the files. `_run_one` returns a pass, a "done"
without a pass, a failure, or raises. `_record_result` ends before `ack` starts,
and both are separate actions because a crash can fall in between. A crash
clears memory and keeps the files; `RunResume` is `resume()`: no rows,
`_load_completed_from_disk`, reclaim, workers. A resume of a finished run is
included. `_record_result` counts a sample in memory and then appends its line. An
append that a crash or an error interrupts (`AppendRaises`) may leave nothing, a part
of the line, the whole line without its newline, or all of it (`Interrupted` in
`SampleLog`); behind a line without a newline the next one is glued, and no reader
parses the two. After an append that raised, memory has counted a sample that the
file may not have, the nacked sample is found in `_completed_ids` when it is retried,
and a retry that passes is acked without a line. `lost` is a history variable: the
samples that were counted, or once readable, and have no readable line.
`RunAssumption`: embedded mode is one process.

**DistributedRun.** `profile.queue.distributed`. It uses the actions of
`RedisQueue` and adds the record of each run (`phase`), its `samples.jsonl`
(`log`) and what an agent's `_execute_sample` returned (`outcome`).
`EnqueueRow` and `HandOver` are the API's `_drive` task, `AgentPop` to
`AgentDies` an agent container. An agent may die inside its append, and the append may
raise (`AppendRaises`), which is the end of the attempt or, for the line about a login
wall, swallowed: in both cases an unended line may stay in the file, and the next
agent's is glued to it. `glued` is a history variable of the samples whose whole line
was. `ResumeScan`, `ResumeOne` and `ResumeDies` are
`andera resume`, which in this mode only reclaims. `FinalizerCheck` is a poll of
`queue_drained` that says yes; `finalize` reads `samples.jsonl` once for the
totals (`FinalizeRead`) and once more for the manifest (`FinalizeWrite`), and
agents may append in between. The loop takes one run at a time. `ApiRestart`
forgets what is not finalized. `SharedPrefix` says whether
`profile.queue.redis_prefix` names the list the agents pop. `unseen` is a
history variable: the check fell between a row's RPOP and its claim.

**AgentGraph.** `node` is the node LangGraph runs next; the variables are the
channels the routers and nodes read. A plan is a sequence of steps, and a step
is only what it makes the nodes do: a tool call of
`NON_DOM_CHANGING_ACTIONS` ("quiet": verified without a model when it worked),
any other tool call ("dom"), "done", an action `act` does not know, or an
element that is no object. Model answers and tool outcomes are arbitrary.
`Interrupt` is a node that raises or a process that dies; `Redeliver` is the
queue handing the sample out again, on the same thread with a fresh input that
names only some of the channels. `ticks` is a history variable.

**Descriptors.** A page is the sequence of its marks in DOM order, a mark maps
fields to values, and a filter maps some fields to the values it accepts; this is
what a regular expression does to the values of one field. `Match` and
`VisionPick` return a set of at most one mark, because `_match_descriptor` may
find none.

**PlanCache.** One cache key, that is one task and one URL pattern. `heap` holds
the list objects; `mem[p]` is the one in a process's `_mem` and `plan[s]` the one
in a sample's graph state, often the same. `put()` and `get()` do not await, so no
other coroutine of the process runs during them (`LoopIsFree`), but other
processes do: `put()` is `PutOpens` (memory, then `open` truncates the `.tmp`),
`PutWrites` (one `write`) and `PutRenames`. `handle[p]` follows the open file: it
may have been renamed to the final name by another process, and even replaced
there since. A plan is reduced to its one `visual_do` step, and that to its
`resolved` field. `Replay`, `AskVision` and `VisionAnswers` are that step (the
last two an `await` apart), `Retry` and `Replan` what the verifier makes of it,
`JudgePasses` the judge's put. A sample meets one page (`PageOf`). The fields
`page` and `mark` of a learned descriptor, `passed` and `overlapped` are history.

**RateLimiter.** Time is discrete and relative: a tick refills one unit, a
request takes `Period` units, a bucket holds `Burst` requests. A bucket is
refilled lazily (`Refilled`), a caller that finds no token sleeps as long as the
one it saw missing needs, and looks again. `slack[h]` is a history variable, the
allowance of the rate: how much more the host may be asked, in the window that
leaves least.

**BrowserSessions.** `phase[s]` is the await a sample is in: from the semaphore
through `setup()`, `from_browser()`, navigations and `close()`. Each Playwright
call can raise (`faults` counts them by kind), Chromium can die at any time, and
`_browser` stays set when it does. `Setup` looks a second time under the lock.
`drivers`, `chromiums` and `contexts` are what runs in the operating system,
whoever still knows of it. The workers call `setup()` up front; this is the case
of a sample that launches before the others start.

**AuditChain.** `append` is `Select` (newest hash) and `Insert`, two transactions
under the `threading.Lock` of an `AuditLog` object. In one process `append` awaits
nothing and appends follow one another; but agents open the file of a run next to each
other and to the process that started it, and for those there is no lock. `InsertRaises`
is "database is locked" or a full disk, and a process may die in between. The hash of a
row is its number; `during` (history) keeps who else was in `append` when it was
inserted. The log on Postgres is not modelled: nothing builds it.

**EventBus.** The audit logs of the API process publish each row they insert, those
of agents have no subscriber (`AppendUnseen`), and screencasters publish frames. `conn`, `queue` and `hand` are a client's
subscription, its `asyncio.Queue` and the event its handler is sending. A full
queue loses its oldest event. A client that left is noticed by sending it an event
or, on `/api/events`, the ping of an idle one. `at`, `clock` and `last` are
history.

**Connections.** `pc[h]` is the await a request handler is in. `PostNew` takes a
snapshot of the stale sessions and closes them one by one before it starts its
own driver; save and cancel act on a session of `_SESSIONS` whoever else does.
`StopDriver` is the step that stops the driver and forgets the session. The user
may close the window, and the API may restart.

**ArtifactStore.** `put()` has no await, so one process is inside one `put()`, but
processes share the run's directory. Files are names of inodes, because hard links
make the difference: `Open`, `Write`, `Rename` write the blob, `LookUp` is the first
`exists()` and chooses a name in the evidence folder, `Check` is the second one, `Link`
links the name, `LinkRaises`, `Reopen`, `Rewrite` are the fallback to a copy. Folder
and name are the planner's (`agent/nodes.py:533-551`) and are cached with the plan, so
every put chooses any of the folders, or none, and all files of a folder get one name.
`WriteManifest` may run next to late writers. `made`, `stored`, `overlapped` and
`contested` are history; a content is contested when one of its puts chose a free name
while another process was between choosing that name and using it.

Definitions introduced with "Fault:" are variants of the definition below them
with a plausible bug. No specification uses them; `PROJECT.json` (`mutants`)
says which property notices which fault.

## 3. The runs that pass

Deadlock is checked in the runs of `SqliteQueue` and `RunWorkflow`, where a
process can always be started again. It is not in the others, which really stop:
Redis when every item is settled, a distributed run when it is wrapped up or
forgotten, the graph when the last delivery ended, the plan cache when every
sample ended (`NoSampleIsStuck` says that none stops earlier), and the other four
when their bounds of rows, navigations, sessions or puts are used up.

| run | configuration | states | what it shows |
| --- | --- | --- | --- |
| `sqlite_queue` | `SqliteQueue.cfg`: 2 rows, process p1 with 2 workers, p2 with 1, 3 attempts, 2 crashes | 36,211 | `ClaimExclusive`, `NackReadsCurrent`, `RetryBudget`, refinement of `TaskQueue`, `EveryItemSettles` |
| `run_workflow` | `RunWorkflow.cfg`: 2 rows, 2 workers, 2 attempts, 1 crash or append that raises | 1,219,557 | `RecordedOnce`, `MemoryMatchesLog`, `AckedIsRecorded`, `NothingLeftBehind`, `EventuallyFinished` |
| `redis_queue` | `RedisQueue.cfg`: 3 items, one of them malformed, 2 agents, 3 attempts, 2 deaths | 14,375 | `NothingLost`, `StructuresAgree`, `DrainedButForWindow`, refinement of `TaskQueue`, `EveryItemSettles` |
| `distributed_run` | `DistributedRun.cfg`: 1 run of 2 rows, 2 agents, 2 attempts, 1 agent that dies or append that raises, deaths of `resume`, a restart of the API | 1,469,882 | `AckedIsLogged`, `FinalizedIsComplete`, `ReportsAreFinal`, `RunsAreWrappedUp` |
| `agent_graph` | `AgentGraph.cfg`: plans of 1 or 2 steps of every kind, 2 deliveries, interruptions | 70,786 | `WorkBound`, `ExtractAfterPlan`, `ErrorNeverAdvances`, `DeliveryEnds` |
| `plan_cache` | `PlanCache.cfg`: 3 samples in 2 processes, 2 pages, one replan, 1 crash | 1,991,092 | `ReplayIsFaithful`, `WholeUnlessOverlapped`, `LearnedFromAPass`, `NoSampleIsStuck` |
| `audit_events` | `EventBus.cfg`: two logs of the API process and one of an agent over 2 runs, 3 rows in one that two of them share, 1 in the other, 1 frame, queues of 2, a client of one run and one of a screencast | 987,785 | `ForksNeedOverlap`, `NewestInOrder`, `ClientsAreServed` |
| `browser_sessions` | `BrowserSessions.cfg`: 3 samples, 2 permits, 2 hosts, burst 2, period 2, 2 navigations each, every kind of fault once | 766,944 | `RateBound`, `NothingElseLeaks`, `EverySampleEnds` |
| `connections` | `Connections.cfg`: 3 sessions, 2 request handlers, TTL 0 | 369,586 | `WindowsAreKnown`, `NothingSealedAfterwards`, `ClosingEnds` |
| `artifact_store` | `ArtifactStore.cfg`: 2 contents, 2 folders, 3 processes, 3 puts, 1 crash, links that fail; processes, contents and folders are interchangeable | 1,812,378 | `BlobsStayWhole`, `TornTakesTwo`, `EvidenceIsThere`, `ManifestStaysTrue` |

Type invariants are in no run's list where they are proved (section 6);
`SettledIsFinal`, `NoSharedSample`, `NoDuplicateWork`, `PlanCap` and
`ManifestMatchesTotals` are proved, too, and can be checked with the configuration
of their module.

**Why the bounds are enough.** A violation of a queue property needs a claim, a
second party that disturbs it and an effect: two rows, three workers in two
processes (two that share the lock and one that does not), a nack that is
retried and one that buries (attempts up to 3), and a crash that loses a claim
after another one did. In `RunWorkflow` a sample can be recorded, retried, crashed
over and recorded again with 2 attempts and 1 crash; two samples make counters
differ, and one append that loses its newline costs both their lines, which is the
bound `AckedIsRecorded` states. `MaxFaults` counts crashes and failed appends together:
one of either is enough for an unended line and what is glued to it. For the safety
properties of these modules, and of all others with a theorem in section 6, the bounds
do not matter: they are proved for all.

In `DistributedRun` the interesting races are between one row that is popped or
retried, another that is settled, and the finalizer: two rows and two agents; one
agent dies in its append, or fails in it and goes on, and the other's line is glued
to the rest. In
`AgentGraph` two steps are the shortest plan in which a refusal can be followed
by progress and by another refusal, so that retry, replan and cap all occur, and
`WorkLimit` (38 nodes) is reached exactly; two deliveries show what a thread
carries over. In `PlanCache` two samples share the memory of one process and a
third only the file; the two pages have their common link at different ordinals,
so a wrong count clicks another element; one sample plans twice; and a crash meets
any point of a put.

In `EventBus` two processes fork a chain, a third row may be chained to either, and a
third log shares the process and its bus; four rows and a frame overflow a queue of 2
while a third event is in the handler's hand. In `BrowserSessions` two samples hold the permits and a third
waits, two race for a token and a third takes it first, and a burst of 2 with a
period of 2 makes windows that start in the middle of a refill; each fault
happens once, in any combination of kinds. In `Connections` one POST reaps two
sessions in a row while two handlers save or cancel the same ones; TTL 0 means a
session is stale one tick after it is registered. In `ArtifactStore` three
processes put: two that write one content meet in its `.tmp`, and the third finds the
blob they made, links it or fails to, or puts another content under the same name of
the same folder or in the other one, while one of them is killed. Three are needed: a
blob torn by two writers is only met by a put of somebody else. Two contents and two
folders are enough for a name that is free, taken by the same content, or taken by
another one. No constant distinguishes the processes, the contents or the folders, and
no liveness is checked, so the symmetry is sound.

`WorkBound` is worth a number: `WorkLimit` is 9n + 20 nodes for plans of up to
n steps. LangGraph raises at `recursion_limit` 200 (`agent/graph.py:84`), so a
plan of 19 steps never meets it (`RecursionLimitUnmet`) and one of 21 may.

**Fairness, and why the code justifies it.**

- Worker coroutines, agents: weak fairness of taking and of settling an item.
  The asyncio loop runs every ready coroutine, the loops of `_worker`,
  `WorkerNode.run` and `run_agent_pool` poll, and a sample ends because every
  LLM and browser call carries a timeout.
- `Exit` of a process with nothing to do: the loops return after empty polls.
- In `DistributedRun`, `Finalizer`: weak fairness for each run, because the loop looks
  at every waiting run each round; that the queue may look drained and not drained in
  turn ends when its rows are settled. `AgentStep`: weak fairness of an agent's next step.
- `Resume`, `ReclaimScan`, `ReclaimOne`, `ResumeScan`, `ResumeOne`, `RunResume`:
  strong or weak fairness. This is the operator, not the code: nothing else in
  the code reclaims a lost claim. `EveryItemSettles`, `EventuallyFinished` and
  `RunsAreWrappedUp` therefore say "provided an idle or crashed run is resumed,
  and not every resume is killed".
- `GraphStep`: LangGraph runs the next node. Which edge is taken is not subject
  to fairness, so `DeliveryEnds` holds whatever the models answer.
- `SampleStep`, `TimePasses`, `Teardown`: Playwright's calls time out, sleeps end,
  the semaphore and the lock are released in `finally` or `async with`, and whoever
  owns the pool tears it down. Coroutines may be scheduled as late as they like.
- `Handler` of the bus: a coroutine with something to send is scheduled and a
  client that is there reads, however slowly. Nothing need be published again.
- `HandlerStep` of the connections: Playwright's calls return or raise. Nobody has
  to send another request, so `ClosingEnds` speaks of closes that have begun.
- No fairness for crashes, SIGTERM, joins, enqueues or redelivery.

`redis_queue` sets `CrashInWindow = FALSE` and both queue runs `Takeover = FALSE`;
section 4 says what happens otherwise. `distributed_run` sets
`SharedPrefix = TRUE`, the value with which the agents serve the runs at all;
`distributed_prefix` is the default.

## 4. Where code and words disagree

Each of these runs checks one sentence of the repository and TLC finds a
behaviour of the code that contradicts it.

| run | the sentence | what the code does |
| --- | --- | --- |
| `distributed_prefix` | the global queue is "the multi-agent service shape used by the Docker compose stack" (`queue/__init__.py:43-44`) | a run pushes to `redis_prefix or andera:queue:<run_id>` (`queue/__init__.py:64`) and no profile sets the prefix; agents pop `andera:queue:global`. The run waits for ever. |
| `blob_overwritten` | "Filenames on disk are the content sha256 — immutable, deduplicated, tamper-evident." (`storage/artifact_store.py:3-4`) | when another process takes the name between `exists()` and `hardlink_to`, the fallback `write_bytes` truncates the hard link, that is the blob of another content. Folder and name are the cached plan's, so this is any two samples of a task in two processes. |

**Divergences that a changed configuration shows.** Each takes one edit of a
`.cfg` of section 3:

- "Queue claim-lease means two workers never take the same sample."
  (`orchestrator/runner.py:12`): `resume` reclaims claims of age 0, also those of a
  process that still runs. `SqliteQueue.cfg` with `Takeover = TRUE` violates
  `NoSharedSample`; on Redis the same takeover puts an item in two hands, against
  `queue/redis_queue.py:17-18`.
- An item orphaned between RPOP and HSET is recovered by `reclaim_stale`
  (`queue/redis_queue.py:114-116`): such an item is in no structure
  `reclaim_stale` reads. `RedisQueue.cfg` with `CrashInWindow = TRUE` violates
  `OrphanRecovered`.
- "Writes are atomic (`tmp` + `rename`), so concurrent putters can't produce a
  half-written plan with a valid hash name." (`src/AGENT_ARCHITECTURE.md:641-642`):
  all writers of a key use one `.tmp` name, and a process renames what another has
  just truncated. `PlanCache.cfg` violates `NeverHalfWritten`.
- "`BEGIN IMMEDIATE` transaction around prev_hash read + insert, so the chain never
  races" (`src/ARCHITECTURE.md:239`) and "Safe under concurrent writers: each append
  runs in an IMMEDIATE transaction" (`storage/audit_log.py:41-43`): the two statements
  are autocommit and the lock is the object's (`storage/audit_log.py:104-116`), while
  the process that starts a run and the workers and agents that help it each open its
  file (`orchestrator/runner.py:138`, `worker.py:95`, `worker.py:418`).
  `EventBus.cfg` violates `ChainIntact`; `ForksNeedOverlap` is what is left of it.
- "Memory counters + on-disk JSONL must agree."
  (`src/tests/unit/orchestrator/test_resume.py:122`): `_record_result` counts the
  sample before it appends the line (`orchestrator/runner.py:341-349`). If the append
  raises, `_worker` nacks the sample, and the retry finds it in `_completed_ids` and may
  be acked with no line, without any crash. `RunWorkflow.cfg` violates
  `MemoryEqualsLog`; `MemoryMatchesLog` and `AckedIsRecorded` say what is left: the
  samples concerned are those an interrupted append has cost their line, two for each
  crash or error at most.
- A name taken by other content gets a short sha "so we don't silently lose the second
  screenshot in the human-readable folder" (`storage/artifact_store.py:84-85`): a name
  that was free at line 86 and is taken at line 98 is left to the other content.
  `BlobOverwritten.cfg` violates `EvidenceIsNeverLost`.

**Divergences** met while reading, which no run checks:

- A crash while rows are being enqueued loses the rest: `resume` passes no rows
  (`orchestrator/runner.py:690`) and finishes without them; `src/README.md:111`
  says it "picks up exactly where a crash stopped".
- An agent that dies in the middle of an append, or whose append raises, leaves half a
  line, to which the next agent's is glued: that sample is done, no reader finds it, and
  the manifest lacks it, although the finalizer "has the correct totals when all samples
  came from agent containers" (`orchestrator/runner.py:471-473`). `AckedIsLogged` bounds
  this to one sample for each such death or error.
- Agents append one line per attempt; in the totals a sample counts with its first
  line, in the manifest with its last, although the finalizer "has the correct
  totals when all samples came from agent containers"
  (`orchestrator/runner.py:471-473`).
- `_record_result` keeps the first result of a sample
  (`orchestrator/runner.py:341`), so the pass of a retry is acked and never
  reported, although `src/ARCHITECTURE.md:249` has a failed sample "retried up to
  3x total".
- `verify` calls `.get` on a step that is no object (`agent/nodes.py:780`) and
  raises, against "Don't crash - surface a tool error so verify -> replan kicks
  in" at `agent/nodes.py:493-495` (`VerifyRaises` in `AgentGraph`).
- `last_tool_error` is cleared by neither the plan node nor a successful `act`
  (`agent/nodes.py:471-479`), so after a replan a read-only step that returned
  ok is refused, against the comment at `agent/nodes.py:51-53`. `AgentGraph`
  models it (`Adopt` leaves `toolError`).
- `reflect_count` starts over with each plan (`agent/nodes.py:475`), while
  `src/AGENT_ARCHITECTURE.md:659-660` calls it the total for the sample.
- The judge sends the extractor back up to three times (`agent/nodes.py:1007`);
  the comment at `agent/nodes.py:1002` says "once".
- A failed redelivery keeps the verdict of the delivery before it;
  `src/AGENT_ARCHITECTURE.md:107` says a failed sample has none.
- A redelivered sample starts at classify, since the graph is invoked with a
  fresh input (`agent/graph.py:129`); `src/AGENT_ARCHITECTURE.md:168-170` says it
  resumes from the last node.
- `plan_count` is not reset by a redelivery: after three plans every further
  delivery of the sample fails at once.
- A sample all of whose attempts raise has no line in `samples.jsonl` and no row
  in `output.csv`; `src/ABOUT.md:40` promises one row per input row.
- `_descriptor_for` keeps a pattern that is too strict for its own mark and gives
  it an ordinal among the marks of the role (`agent/nodes.py:307-312`), "so replay
  is deterministic" (`agent/nodes.py:291`). Replay filters by the pattern, so on
  the same page it finds another mark or none. `ReplayIsFaithful` excludes such
  descriptors (`FitsItself`).
- The judge persists the plan of a sample that passed (`agent/nodes.py:1016-1019`),
  but the plan is shared: what samples of the same process that failed later have
  resolved in it is persisted with it.
- "the planner LLM fires once" for a task (`agent/plan_cache.py:3-5`): samples that
  start together all miss and all plan.
- `AuditLogPg.verify_chain()` without a run id walks all runs as one chain and
  fails on an intact log of two; `storage/__init__.py:26-27` promises the same
  surface as SQLite's. It also never calls `on_append`, and nothing calls
  `make_audit_log`: no run of the product logs to Postgres.
- "Dead queues (slow consumer, ~full) are evicted" and "Caller receives a disconnect
  on next iteration." (`api/ws.py:4`, `api/ws.py:42`): the oldest event is dropped and
  the subscriber stays.
- "keepalive so idle browsers don't trip proxies" (`api/routes/screencast.py:36`):
  the handler sends nothing. A screencast client that left is noticed with the next
  frame of its sample, so never when there is none; `ClientsAreServed` is therefore
  about `/api/events`.
- Worker nodes and agents publish to the bus of their own process, which has no
  subscribers; the API shows nothing of their events.
- "Each session auto-closes after 15 min" (`api/routes/connections.py:15-16`): stale
  sessions are reaped by the next POST of a new one (`:128`), and otherwise never.
- "must not hammer any single target host faster than `per_host_rps`"
  (`browser/rate_limiter.py:3-4`): `visit_each_link` calls `page.goto` past the
  limiter (`browser/local.py:310`), and each `RunWorkflow` has a limiter of its own.
- A Chromium that dies is never launched again: `_browser` stays set
  (`browser/pool.py:66`) and every later sample fails. A failed launch leaks its
  driver and a failed `new_page` its context (`NothingElseLeaks` allows those two).
- A crash leaves `.tmp` files among the blobs; the manifest lists them as evidence
  (`storage/manifest.py:44`) and `get()` may return one (`storage/artifact_store.py:118`).
- `andera login` and the API share the `.tmp` of a sealed state
  (`credentials/storage_state.py:87`), as the writers of a plan do.

## 5. Refinement

`SqliteQueue` and `RedisQueue` implement `TaskQueue` (`ImplementsTaskQueue` in
each, `Abs!QSpec` as a PROPERTY). The holder of an item is the live worker that
has it in hand. In SQLite the abstract state is the column; `NackRead` maps to a
stutter and `NackWrite` to `QNack`. In Redis an item counts as claimed from its
RPOP on, although its hash says so one round trip later: `Pop` maps to `QClaim`,
`Claim` to a stutter, a death to `QOrphan`, and `ReclaimOne` to `QReclaim` of one
item. The mapping shows that a reclaim interrupted halfway is still only a
sequence of legal reclaims.

The systems on top keep the contract. `RunWorkflow` with its crashes and resumes,
and `DistributedRun` with its agents, finalizer and restarts, implement `TaskQueue`
as well (`RunRefinesTaskQueue`, `RunsRefineTaskQueue`). A distributed run is a
behaviour of `RedisQueue` (`RunsUseTheQueue`), the pool one of the limiter
(`SessionsRefineLimiter`), the bus one of the audit log (`BusRefinesLog`).

## 6. What is proved

Each theorem is for every value of the constants, from the named ASSUME of the
module alone unless a hypothesis is stated. Each proof has one lemma per action,
and under it one step per conjunct the action can disturb.

`SqliteQueueProofs`, for any number of rows, workers, processes, attempts and crashes.
The theorems marked "..." have the hypothesis `~Takeover`: without it
`ClaimExclusive` is false (section 4).

| theorem | statement |
| --- | --- |
| `Inductive` | `... => (Spec => []IInv)` |
| `TypeCorrect`, `ClaimsAreExclusive`, `NoLostAttempt`, `RetriesAreBounded` | `... =>` `TypeOK`, `ClaimExclusive`, `NackReadsCurrent`, `RetryBudget` always hold |
| `SamplesAreNotShared` | `... =>` `NoSharedSample` always holds |
| `SettledStaysSettled` | `... => (Spec => SettledIsFinal)` |
| `Implements` | `... => (Spec => ImplementsTaskQueue)` |
| `NeverBuriedEarly` | `Spec => []BuriedNotEarly`: a dead row has `MaxAttempts` attempts or more, takeovers or not |

The argument. `ClaimExclusive` says that the item a worker has in hand is
claimed under that worker's token; one row has one token, so no two workers hold
one item, and `dequeue`, which takes pending rows only, cannot take a held one.
It is preserved by `Resume` only because nobody holds anything then.
`NackReadsCurrent` follows: the only writers of `attempts` between a `SELECT` and
its `UPDATE` would be another nack of the same item, whose worker would have to
hold it. `RetryBudget` is not inductive, because it does not tell how many claims
are already used up: the strengthening `ClaimsAccounted` charges each dequeue to
a failed attempt, a crash, or the claim that is under way or was acked. With
`BuriedAtLimit` (dead exactly at the limit), type correctness bounds the attempts
a nack may write. What is left when live claims are taken over is
`NeverBuriedEarly`: a nack may then write an attempt count that is out of date, but it
decides about burying from the very number it writes. `Implements` maps each action
to an abstract one or a stutter under `IInv`.

`RedisQueueProofs`, for any number of items, agents, attempts, deaths and, in
`DistributedRun`, runs. Each theorem has the hypotheses it needs and no more. T is
`~Takeover`, without which `NoDuplicateWork` is false; W is `~CrashInWindow` (nobody
dies between RPOP and claim), without which `NothingLost` is (section 4).

| theorem | needs | statement |
| --- | --- | --- |
| `RedisInductive` | T | `Spec => []IInv` |
| `RedisTypeCorrect`, `NoItemTwice`, `RedisStructuresAgree` | T | `TypeOK`, `NoDuplicateWork`, `StructuresAgree` always hold |
| `SettledForGood` | T | an item that is done or dead stays so |
| `NoItemLost`, `DrainedIsSettled` | T, W | `NothingLost`, `DrainedButForWindow` always hold |
| `OrphanIsForever` | T | an item lost between RPOP and claim is never in a structure or a hand again |
| `LossIsBounded` | T | no more items are lost than agents died |
| `RedisRefinesTaskQueue` | T, W | `Spec => ImplementsTaskQueue` |
| `RunsUseTheQueue` | | `RunSpec => Spec` |
| `RunsRefineTaskQueue` | T, W | `RunSpec => ImplementsTaskQueue` |
| `DoneIsLogged` | | `AckedIsLogged` of `DistributedRun` always holds |
| `DistributedInductive`, `RunTypeCorrect` | T | `RunSpec => []RunIInv`, `RunSpec => []RunTypeOK` |
| `WrapUpIsComplete` | T, W | `FinalizedIsComplete` of `DistributedRun` always holds |
| `WrapUpIsFinal` | T | `ReportsAreFinal` of `DistributedRun` always holds |

The argument. Nothing on the Redis server says who holds an item, so exclusiveness
must come from places: `OnePlace` says an item is at most once in the list, in at
most one hand, and never in both. `HandsAgree` says what each round trip may rely
on: a popped item is still pending, an item being worked on or nacked is claimed,
and the attempts a nack read are current. The converse, that a pending item is
somewhere, is not part of `IInv`: it is what a death between RPOP and claim breaks.
`Nowhere(i)` is a pending item that is neither in the list nor in a hand.
`NowhereMoves` says what a step can do about one: nothing brings it back
(`OrphanIsForever`, against the comment at `queue/redis_queue.py:114-116`), and only a
death in that window adds one, a single one (`LossIsBounded`). With W no item is ever
nowhere, and `NothingLost` follows.
`StaleIsOrphaned` carries a reclaim from one round trip to the next: what it has
read is still claimed and in nobody's hands, so pushing it back puts it in one place
only. The refinement then takes each action to an abstract one or a stutter; with
one hand per item, the abstract holder is a function.

For the runs of `DistributedRun`, any number of them on one queue, every step is one
of the queue or leaves it alone (`RunNextIsNext`), so `IInv` carries over, and the
refinement of `TaskQueue` with it. `LogInv` is inductive alone, without `IInv`: whatever
two agents do with one item, each writes its line before its ack, so `DoneIsLogged`
needs no hypothesis on takeovers or on where agents die. Its line has a newline, and is
then there for good, or it was glued to an unended one (`Kept`). `FaultsPaid` charges
each glued line, and each unended line not yet continued, to a death or an error of its
own: an append ends the unended line of its file, and only an interrupted one leaves
another.
`OutcomesAgree` says that only an agent at work on an item has an outcome, and that one
which leads to an ack has left its line, whole or glued. `DrainedRows` is where
the queue's invariant pays: with no pending and no claimed item, each row that is in
the queue is settled or popped and not yet claimed, which is `unseen`. Settled rows
stay settled (`StatusMoves`) and nobody executes them, so nobody appends to the
file either: the two reads of `finalize` agree, and with every later one. `RowsAreIn`
makes it say something about all rows of the run.

`SqliteQueueProofs` again, about `RunWorkflow`, for any number of rows, workers,
attempts, crashes and resumes of an embedded run, without `~Takeover`:

| theorem | statement |
| --- | --- |
| `RunInductive` | `RunSpec => []RunIInv` |
| `LinesAreUnique`, `MemoryIsTheLog`, `AcksFollowRecords`, `FinishedMeansSettled` | `RecordedOnce`, `MemoryMatchesLog`, `AckedIsRecorded`, `NothingLeftBehind` always hold |
| `TotalsMatchManifest` | `ManifestMatchesTotals` always holds |
| `RunClaimsAreExclusive` | the queue's claims are exclusive inside the run |
| `RunTypeCorrect` | `TypeOK` and `RunTypeOK` always hold |
| `RunRefinesTaskQueue`, `RunSettledStaysSettled` | `RunSpec => ImplementsTaskQueue`, `RunSpec => SettledIsFinal` |

The argument. The queue's part of a step is an action of `SqliteQueue`, so its `IInv`
is preserved by the lemmas above; a resume happens with nothing in hand because
only one process exists. `LoopsAgree` ties each coroutine's program counter to the
item it holds and says that a sample about to be acked is in `completed`.
`ClaimsAreHeld` says a claim without a coroutine exists only while the run is down,
so when all loops have ended and nothing is pending, all is settled
(`FinishedSettled`). `LogAgrees` brackets `completed` between the recorded samples and
those plus the lost ones, from which idempotence follows: a sample not in `completed`
has no line. This survives an append that raises, because `completed` and `lost` then
change in the same step. `AppendedLog` is the one fact about the readers that is needed:
a line of a new sample adds that sample to both. `LossesAccounted` charges losses to
crashes and errors: `AtRisk` are the lost samples and the one of a readable line that
has no newline yet. An interrupted append puts one sample at risk and leaves one unended
line, each worth one, and whoever appends behind that line pays with it. With one line
per sample first and last line are the same (`ReadersAgree`), hence the totals.
The refinement reuses the steps of `Implements`; a resume of the run, even of one that
has finished, reclaims when nobody is at work (`ReclaimRefines`).

`AgentGraphProofs`, for plans of any length and any kinds of steps, any number of
deliveries:

| theorem | statement |
| --- | --- |
| `AgentInductive` | `Spec => []IInv` |
| `DeliveryIsBounded` | `WorkBound` always holds |
| `RecursionLimitUnmet` | `MaxPlan <= 19 => WorkLimit < 200` |
| `NoErrorAdvances` | `ErrorNeverAdvances` |
| `ExtractionIsLast`, `PlansAreCapped`, `GraphTypeCorrect` | `ExtractAfterPlan`, `PlanCap`, `TypeOK` always hold |

The argument. `WorkLeft` is a potential: the most nodes the delivery can still run,
from the node it is at, the steps and reflections left and the plans made. Every
node lowers it by at least the one it takes (`RoundFalls`, `FromPlanFalls`), so
`ticks + WorkLeft <= WorkLimit` is inductive. It needs `RoundHasStep`: a round has a
step and a reflection left and does not start after two failures in a row.
`ErrorIsKnown` (`last_tool_error` covers the last call, since nothing clears it) is
what keeps an errored step from advancing.

`BrowserSessionsProofs`, for any number of samples, hosts, permits, navigations and
faults and any rate:

| theorem | statement |
| --- | --- |
| `SessionsRefineLimiter` | `Spec => RateSpec` |
| `BucketMatchesAllowance`, `RateIsBounded` | `RateInv`, `RateBound` always hold |
| `PoolInductive` | `Spec => []PoolInv` |
| `PoolLeaksNothingElse`, `SessionsTypeCorrect` | `NothingElseLeaks`, `TypeOK` always hold |

The argument. The bucket, refilled lazily, equals the allowance exactly
(`slack[h] = Refilled(h)`), because both are cut off at the same capacity. For the
pool, a sample in `setup()` holds the lock and has met no browser, so a second
launch is impossible; contexts go with their Chromium; and a driver nobody has
launched from was left by a failed launch.

`EventBusProofs`, for any writers, processes, runs, rows, clients and queue sizes:

| theorem | statement |
| --- | --- |
| `OnlyOverlapForks` | `AuditSpec => []ForksNeedOverlap` |
| `OnlyOverlapForksBelowTheBus` | `Spec => []ForksNeedOverlap`, with the bus, its clients and the frames on top |
| `BusRefinesLog` | `Spec => AuditSpec` |
| `NewestIsLast` | `NewestInOrder` always holds |
| `DeliveredInOrder` | each event a client gets was published after the last one it got |
| `FiltersHold` | a client of one run gets events of that run and no frames, a screencast client frames of its sample |
| `BusTypeCorrect` | `TypeOK` always holds: no queue is ever longer than its capacity |

No hypothesis on who opens which file. `AppendsExclude` says that a process is in one
append at a time. `PrevWasNewest` is the invariant: whatever was inserted since somebody
read the hash knows of him, and came from another process. It is what `Insert` needs for
the row it adds, and the rows that are there do not change. So the chain of a run
verifies if no two processes were ever in an append for it at once: then no row has
anybody to skip. `View` relates
what a client got, has in hand, has queued and was sent last; `put_nowait` keeps all
of the queue or its tail and ends with the new event (`PutFacts`), which is why the
capacity must not be 0. From `View` it also follows that nothing is delivered twice or
behind a later event. `FiltersHold` needs what is queued: the screencast handler filters
after its queue, the run filter is applied in `publish`.

`ConnectionsProofs`, for any sessions, handlers and TTL:

| theorem | statement |
| --- | --- |
| `ConnectionsInductive` | `Spec => []ConnectionsInv` |
| `NoStrayWindow` | `WindowsAreKnown` always holds |
| `SealedOnlyFromRegistered` | `NothingSealedAfterwards` |
| `ClosedForGood` | a session whose opening is over and that is not registered has no driver and no window and is never registered again |
| `ConnectionsTypeCorrect` | `TypeOK` always holds |

`Opened` says that whatever is registered or being closed was opened by a POST that
has returned, so nobody closes a session under the POST that opens it. A session is
forgotten in the same step that stops its driver, and a save that comes late finds
no window.

`PlanCacheProofs`, for every number of samples, processes, plans and crashes and
for all pages and hints:

| theorem | statement |
| --- | --- |
| `DescriptorRoundTrip` | if the filter made for mark k accepts it, `Match(DescriptorFor(k, page, hint), page) = {k}` |
| `PlanCacheInductive` | `Spec => []IInv` |
| `PlanCacheTypeCorrect`, `PutIsCrashAtomic` | `TypeOK`, `WholeUnlessOverlapped` always hold |
| `ReplayIsDeterministic` | `ReplayIsFaithful` |
| `OnlyAPassTeaches` | `LearnedFromAPass` always holds |
| `SamplesGetOn` | every step of a sample lowers its `StepsLeft`, a natural number, and leaves that of the others as it was |
| `NobodyIsBlocked` | each process with a sample to finish has one for which the guards of a step hold |

The argument. Of two members of a finite set of numbers the smaller one has fewer
members before it (`RankIsStrict`), so a descriptor's ordinal singles out one
candidate, and the candidate it was counted for is one if the filter accepts it.
A sample leaves `annotate` only by `Replay` and `AskVision`, and both look at
`Found`, which is that one mark. `WholeUnlessOverlapped` does not say what the
`.tmp` holds; `PutsAlone` does: one sample at a time is inside `put()`, its handle
is on an empty `.tmp` before the write, the `.tmp` is a plan before the rename,
and no dead process has a handle. It is given up for good once two processes
overlap. `RunsAPlan` is what types need: who runs a plan has a list object, and
who plans has a plan left. `LearnedFromAPass` needs more than the files: a plan is
one object all samples of a process share, so vision could change it while a
`put()` of it is under way. `OwnObjects` (objects stay in their process) and the
event loop, which runs nobody else during a `put()`, exclude that (`TextIsKept`).
`StepsLeft` counts what a sample can still do: at most 11 steps for each plan it has
not taken, then retry and judge; a step that replans gives up a plan, so the sum falls
(`StepsFall`, at most `11 * MaxPlans + 1` steps between two crashes). `MayStep` is the
disjunction of guards that leaves no case open: whoever is inside a `put()` may go on
with it, and if nobody is, the loop is free and each phase has an action whose guard
holds, whatever the file is. Both need `RunsAPlan`, that who plans has a plan left.

`ArtifactStoreProofs`, for any number of contents, folders, processes, puts and crashes,
whoever shares which folder:

| theorem | statement |
| --- | --- |
| `StoreInductive` | `Spec => []StoreInv` |
| `TornBlobs`, `EvidenceComplete`, `ManifestTrue`, `StoreTypeCorrect` | `TornTakesTwo`, `EvidenceIsThere`, `ManifestStaysTrue`, `TypeOK` always hold |
| `BlobsImmutable` | `BlobsStayWhole` |
| `AloneKeepsBlobs`, `AloneKeepsEvidence` | with one process, `BlobsAreTheirNames` and `EvidenceIsNeverLost` always hold |

The argument. Files are names of inodes, so the question is who may write to an inode
that has another name. `FilesMade` gives each inode the content of the put that created
it, and says that its names agree: those of a content, and the disambiguated ones of a
folder. The planner's name may be anybody's. `OwnFiles` says that only puts of that
content write to it, unless the content is contested. That rests on `NamesContested`: two
puts between `LookUp` and their link who hold one free name have contested both contents,
because the second one met the first, and whoever finds his name taken afterwards was
overtaken by such a rival or by a put of his own content. So `Reopen`, which truncates
whatever the name links to, hits a file of an uncontested content only if it is one of
its own; without that the fallback would be free to destroy any blob, which is what
`blob_overwritten` shows for contested ones. Nothing is assumed about folders; what
sharing one costs is in `contested`. `TmpApart` says that truncating a `.tmp` harms no
other file. `LoneWriter` says that one who met nobody renames a whole file,
`WritersMeet` that two in the `.tmp` together are noticed, whence `TornOverlapped`.
`TornInTheMaking` leads from a file that is torn to one who still writes it, or who was
killed. The manifest lists blobs as they are (`Listed`), and they stay what they were.
With one process nobody is ever met, so `contested` and `overlapped` stay empty.

Only model-checked:

- Liveness (`EveryItemSettles` on both queues, `EventuallyFinished`,
  `RunsAreWrappedUp`, `DeliveryEnds`, `ClientsAreServed`, `EverySampleEnds`,
  `ClosingEnds`) and `NoSampleIsStuck`, which speaks of `ENABLED`: out of the prover's
  reach. Of the latter the guards are proved (`NobodyIsBlocked`), and that its steps
  come to an end (`SamplesGetOn`). Every other property of a passing run is stated by a theorem.
- What the two violation runs show is a behaviour, found by TLC. The other
  divergences of section 4 are met by changing a configuration; `OrphanIsForever` is the
  proof of one of them.

## 7. Plan

Done: the queues, the run in both modes, the agent graph, the plan cache with its
descriptors, the audit log, the limiter, the pool, the bus, the connections and the
store, and the proofs of section 6, which state every safety property the runs check
but `NoSampleIsStuck`, and that one by its guards.

What is left, in this order:

1. A `finalize` that raises and is tried again, and a WorkerNode's append to the
   `samples.jsonl` of the run it helps.
2. Pure algorithms as functions against reference definitions (`inputs.py`,
   `scorers.py`).

## 8. What is not modelled, and why

- Ties of `created_at` in `dequeue`, and exceptions of the database itself (a
  "database is locked" that ends the gather): timing of sqlite and the disk.
- A crash before `.run_config.json` is written: `resume` then refuses.
- A cut of `samples.jsonl` inside a character of several bytes, after which
  `read_text` (`orchestrator/runner.py:165`) raises. An append is taken to be one
  `write`, as it is for lines shorter than the buffer or on a file system that does not
  split it.
- In `DistributedRun`: `output.csv`, a third reading of the same file; a `finalize`
  that raises and is tried again on the next round; a run whose enqueueing fails.
- `SqliteQueue.dead_letter`: nothing calls it on that backend.
- Claims reclaimed by age: every caller passes `older_than_seconds=0`.
- In `BrowserSessions`: navigations past the limiter (`visit_each_link`), cancellation
  of a task inside `acquire`, clicks and page scripts, which change nothing the pool
  or the limiter keeps.
- `storage/audit_log_pg.py`: its factory is never called.
- In `EventBus`: the CDP session of a screencaster, which its own sample starts and
  stops; subscribers of other event loops (there are none).
- In `Connections`: a `pw.stop()` that raises, which the code swallows
  (`api/routes/connections.py:66-70`): the driver is taken to have stopped, and whether
  it has is not known. The sealing itself; two states of different hosts, since a save
  touches the file of its host only.
- In `ArtifactStore`: collisions of sha256 prefixes in names, MIME types, shards; a
  file system whose `rename` is not atomic.
- How LangGraph restarts a thread is taken from its use in `run_sample`; retries
  inside one LLM call are the adapter's.
- In `PlanCache`: `plan_key` and `_url_pattern`, which only compute the key; plans
  with several visual steps; a file system whose `write` is split or whose
  `rename` is not atomic.
- Prompts, page observations, evidence and schemas: data no modelled property
  depends on.
- Adapters, browser scripts, pages of the UI, configuration and CSV parsing,
  evaluation, tracing: I/O and parsing without state that outlives a call
  (`PROJECT.json`, `components`).

## 9. Running it

`tlc -config SqliteQueue.cfg MCSqliteQueue.tla` checks one run; `PROJECT.json`
names the module and configuration of each. `tlapm SqliteQueueProofs.tla` checks the
proofs of a module, and likewise `RedisQueueProofs`, `AgentGraphProofs`,
`PlanCacheProofs`, `BrowserSessionsProofs`, `EventBusProofs`, `ConnectionsProofs` and
`ArtifactStoreProofs`.
