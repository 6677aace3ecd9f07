----------------------------- MODULE SqliteQueue -----------------------------
(***************************************************************************)
(* queue/sqlite_queue.py: the `queue` table of data/<run_id>.queue.db, the *)
(* worker loops that use it and the processes they live in.  One action is *)
(* one committed SQL statement or transaction.  The asyncio.Lock of a      *)
(* SqliteQueue object serialises the calls of one process; between         *)
(* processes only sqlite's own write transactions do.                      *)
(*                                                                         *)
(* Item i is the i-th row inserted: `enqueue` draws a fresh uuid and       *)
(* created_at grows, so "oldest pending" is the least pending item.        *)
(***************************************************************************)
EXTENDS Naturals, FiniteSets

CONSTANTS
  NumItems,     \* rows the run enqueues
  Workers,      \* worker coroutines
  Processes,    \* OS processes that open the queue file
  ProcessOf,    \* ProcessOf[w]: the process worker w runs in
  MaxAttempts,  \* profile.queue.max_attempts
  MaxCrashes,   \* bound: process crashes explored
  Takeover,     \* may `andera resume` run while another process still works?
  None          \* "no worker", "no item"

Items == 1..NumItems

ASSUME SqliteAssumption ==
  /\ NumItems \in Nat \ {0}
  /\ MaxAttempts \in Nat \ {0}
  /\ MaxCrashes \in Nat
  /\ Takeover \in BOOLEAN
  /\ ProcessOf \in [Workers -> Processes]
  /\ None \notin Workers
  /\ None \notin Nat

VARIABLES
  status,    \* queue.status, "absent" before the INSERT
  attempts,  \* queue.attempts
  token,     \* queue.claim_token, named by the worker that drew it
  job,       \* job[w]: the item worker w got from dequeue() and has not settled
  seen,      \* seen[w]: attempts as read by the SELECT of a nack() under way
  up,        \* up[p]: process p runs
  crashes,   \* process crashes so far
  claims     \* history: claims[i] counts the dequeues that returned item i

rowVars == <<status, attempts, token>>
loopVars == <<job, seen>>
procVars == <<up, crashes>>
vars == <<rowVars, loopVars, procVars, claims>>

Status == {"absent", "pending", "claimed", "done", "dead"}
Settled == {"done", "dead"}

TypeOK ==
  /\ status \in [Items -> Status]
  /\ attempts \in [Items -> 0..MaxAttempts]
  /\ token \in [Items -> Workers \cup {None}]
  /\ job \in [Workers -> Items \cup {None}]
  /\ seen \in [Workers -> (0..MaxAttempts) \cup {None}]
  /\ up \in [Processes -> BOOLEAN]
  /\ crashes \in 0..MaxCrashes
  /\ claims \in [Items -> Nat]

Init ==
  /\ status = [i \in Items |-> "absent"]
  /\ attempts = [i \in Items |-> 0]
  /\ token = [i \in Items |-> None]
  /\ job = [w \in Workers |-> None]
  /\ seen = [w \in Workers |-> None]
  /\ up = [p \in Processes |-> TRUE]
  /\ crashes = 0
  /\ claims = [i \in Items |-> 0]
-----------------------------------------------------------------------------
Pending == {i \in Items : status[i] = "pending"}

(* w is running and holds, or can take, the asyncio.Lock of its process:   *)
(* no other worker of the process is inside nack().                        *)
HasLock(w) ==
  /\ up[ProcessOf[w]]
  /\ \A v \in Workers : v # w /\ ProcessOf[v] = ProcessOf[w] => seen[v] = None

(* enqueue(): INSERT OR REPLACE of a fresh id, status pending, attempts 0. *)
Enqueue(i) ==
  /\ status[i] = "absent"
  /\ \A j \in Items : j < i => status[j] # "absent"
  /\ status' = [status EXCEPT ![i] = "pending"]
  /\ attempts' = [attempts EXCEPT ![i] = 0]
  /\ token' = [token EXCEPT ![i] = None]
  /\ UNCHANGED <<loopVars, procVars, claims>>

(* Fault: the SELECT takes the oldest row that is not settled yet. *)
DequeueClaimed(w) ==
  /\ HasLock(w)
  /\ job[w] = None
  /\ \E i \in {j \in Items : status[j] \in {"pending", "claimed"}} :
       /\ status' = [status EXCEPT ![i] = "claimed"]
       /\ token' = [token EXCEPT ![i] = w]
       /\ job' = [job EXCEPT ![w] = i]
       /\ claims' = [claims EXCEPT ![i] = @ + 1]
  /\ UNCHANGED <<attempts, seen, procVars>>

(* dequeue(): BEGIN IMMEDIATE, oldest pending row, stamp the token, COMMIT. *)
Dequeue(w) ==
  /\ HasLock(w)
  /\ job[w] = None
  /\ \E i \in Pending :
       /\ \A j \in Pending : i <= j
       /\ status' = [status EXCEPT ![i] = "claimed"]
       /\ token' = [token EXCEPT ![i] = w]
       /\ job' = [job EXCEPT ![w] = i]
       /\ claims' = [claims EXCEPT ![i] = @ + 1]
  /\ UNCHANGED <<attempts, seen, procVars>>

(* ack(): the UPDATE names the item only; it compares no token. *)
Ack(w) ==
  /\ HasLock(w)
  /\ job[w] # None
  /\ seen[w] = None
  /\ status' = [status EXCEPT ![job[w]] = "done"]
  /\ job' = [job EXCEPT ![w] = None]
  /\ UNCHANGED <<attempts, token, seen, procVars, claims>>

(* nack(), the SELECT: autocommit, so other processes may write before the *)
(* UPDATE does.                                                            *)
NackRead(w) ==
  /\ HasLock(w)
  /\ job[w] # None
  /\ seen[w] = None
  /\ seen' = [seen EXCEPT ![w] = attempts[job[w]]]
  /\ UNCHANGED <<rowVars, job, procVars, claims>>

(* Fault: a row is buried one attempt too late. *)
NackUpdateLate(i, n) ==
  /\ attempts' = [attempts EXCEPT ![i] = n]
  /\ status' = [status EXCEPT ![i] = IF n > MaxAttempts THEN "dead" ELSE "pending"]
  /\ token' = [token EXCEPT ![i] = None]

NackUpdate(i, n) ==
  /\ attempts' = [attempts EXCEPT ![i] = n]
  /\ IF n >= MaxAttempts
     THEN /\ status' = [status EXCEPT ![i] = "dead"]
          /\ UNCHANGED token
     ELSE /\ status' = [status EXCEPT ![i] = "pending"]
          /\ token' = [token EXCEPT ![i] = None]

(* nack(), the UPDATE: back to pending at its old place, or dead. *)
NackWrite(w) ==
  /\ HasLock(w)
  /\ seen[w] # None
  /\ NackUpdate(job[w], seen[w] + 1)
  /\ job' = [job EXCEPT ![w] = None]
  /\ seen' = [seen EXCEPT ![w] = None]
  /\ UNCHANGED <<procVars, claims>>

(* Faults: attempts start over; no row is ever old enough. *)
ReclaimForgets ==
  /\ status' = [i \in Items |-> IF status[i] = "claimed" THEN "pending" ELSE status[i]]
  /\ attempts' = [i \in Items |-> IF status[i] = "claimed" THEN 0 ELSE attempts[i]]
  /\ UNCHANGED token

ReclaimNothing == UNCHANGED rowVars

(* reclaim_stale(older_than_seconds=0): every claimed row, whoever claimed *)
(* it, becomes pending; attempts are left alone.                           *)
ReclaimStale ==
  /\ status' = [i \in Items |-> IF status[i] = "claimed" THEN "pending" ELSE status[i]]
  /\ token' = [i \in Items |-> IF status[i] = "claimed" THEN None ELSE token[i]]
  /\ UNCHANGED attempts

(* A process dies: its coroutines are gone, the committed rows are not. *)
Crash(p) ==
  /\ up[p]
  /\ crashes < MaxCrashes
  /\ up' = [up EXCEPT ![p] = FALSE]
  /\ crashes' = crashes + 1
  /\ job' = [w \in Workers |-> IF ProcessOf[w] = p THEN None ELSE job[w]]
  /\ seen' = [w \in Workers |-> IF ProcessOf[w] = p THEN None ELSE seen[w]]
  /\ UNCHANGED <<rowVars, claims>>

(* A process ends on its own once dequeue() keeps returning None: a worker  *)
(* node after three empty rounds, execute() when no row is pending.         *)
Exit(p) ==
  /\ up[p]
  /\ Pending = {}
  /\ \A w \in Workers : ProcessOf[w] = p => job[w] = None
  /\ up' = [up EXCEPT ![p] = FALSE]
  /\ UNCHANGED <<rowVars, loopVars, crashes, claims>>

(* `andera worker <run_id>`: a process joins and reclaims nothing. *)
Join(p) ==
  /\ ~up[p]
  /\ up' = [up EXCEPT ![p] = TRUE]
  /\ UNCHANGED <<rowVars, loopVars, crashes, claims>>

(* `andera resume <run_id>`: execute(resuming=True) reclaims, then works. *)
Resume(p) ==
  /\ ~up[p]
  /\ Takeover \/ \A w \in Workers : job[w] = None
  /\ up' = [up EXCEPT ![p] = TRUE]
  /\ ReclaimStale
  /\ UNCHANGED <<loopVars, crashes, claims>>

Settle(w) == Ack(w) \/ NackRead(w) \/ NackWrite(w)

Next ==
  \/ \E i \in Items : Enqueue(i)
  \/ \E w \in Workers :
       Dequeue(w) \/ Ack(w) \/ NackRead(w) \/ NackWrite(w)
  \/ \E p \in Processes : Crash(p) \/ Exit(p) \/ Join(p) \/ Resume(p)

Spec == Init /\ [][Next]_vars

(* An idle worker polls, a worker that got a job settles it (every wait of *)
(* a sample has a timeout), a process with nothing to do ends, and the     *)
(* operator resumes a run nobody works on.                                 *)
Fairness ==
  /\ \A w \in Workers : WF_vars(Dequeue(w)) /\ WF_vars(Settle(w))
  /\ \A p \in Processes : WF_vars(Exit(p)) /\ SF_vars(Resume(p))

FairSpec == Spec /\ Fairness
-----------------------------------------------------------------------------
(***************************************************************************)
(* A claim lasts as long as its job: while a worker has an item in hand,   *)
(* the row is still claimed and still carries that worker's token, so its  *)
(* ack() or nack(), which compare no token, settle its own claim.          *)
(***************************************************************************)
ClaimExclusive ==
  \A w \in Workers : job[w] # None =>
    /\ status[job[w]] = "claimed"
    /\ token[job[w]] = w

(***************************************************************************)
(* runner.py: "Queue claim-lease means two workers never take the same     *)
(* sample.": no two workers have the same item in hand at once.            *)
(***************************************************************************)
NoSharedSample ==
  \A v, w \in Workers : job[v] = job[w] /\ job[v] # None => v = w

(***************************************************************************)
(* The retry budget: nack() buries an item exactly when its attempts run   *)
(* out, and an item is handed out no more often than its failed attempts,  *)
(* the crashes that lost a claim, and one claim more.                      *)
(***************************************************************************)
RetryBudget ==
  \A i \in Items :
    /\ status[i] = "dead" <=> attempts[i] = MaxAttempts
    /\ claims[i] <= attempts[i] + crashes + 1

(***************************************************************************)
(* The SELECT of a nack() is still current when its UPDATE runs, although  *)
(* it commits on its own and other processes may write in between: no      *)
(* failed attempt overwrites another one.                                  *)
(***************************************************************************)
NackReadsCurrent ==
  \A w \in Workers : seen[w] # None =>
    /\ job[w] # None
    /\ seen[w] = attempts[job[w]]

(***************************************************************************)
(* The inductive invariant behind the four above.  Every dequeue of an     *)
(* item is accounted for: by a failed attempt, by a crash, or by the claim *)
(* that is under way or was acked.                                         *)
(***************************************************************************)
Held(i) == \E w \in Workers : job[w] = i

ClaimsAccounted ==
  \A i \in Items :
    /\ status[i] = "absent" => claims[i] = 0 /\ attempts[i] = 0
    /\ claims[i] <= attempts[i] + crashes
                      + IF Held(i) \/ status[i] = "done" THEN 1 ELSE 0

BuriedAtLimit == \A i \in Items : status[i] = "dead" <=> attempts[i] = MaxAttempts

IInv ==
  /\ TypeOK
  /\ ClaimExclusive
  /\ NackReadsCurrent
  /\ BuriedAtLimit
  /\ ClaimsAccounted

(***************************************************************************)
(* A row that ack() or nack() settled is never reopened: no late call of   *)
(* another worker takes a finished sample back to pending.                 *)
(***************************************************************************)
SettledIsFinal ==
  [][\A i \in Items : status[i] \in Settled => status'[i] = status[i]]_vars

(***************************************************************************)
(* A row that was inserted is eventually done or dead, whatever crashes    *)
(* orphan it on the way: reclaim_stale recovers every lost claim.          *)
(***************************************************************************)
EveryItemSettles ==
  \A i \in Items : status[i] = "pending" ~> status[i] \in Settled

HolderIn(jobs, i) ==
  IF \E w \in Workers : jobs[w] = i
  THEN CHOOSE w \in Workers : jobs[w] = i
  ELSE None

Holder(i) == HolderIn(job, i)

(***************************************************************************)
(* The table and the worker loops implement the abstract queue: the holder *)
(* of an item is the live worker that has it in hand.                      *)
(***************************************************************************)
Abs == INSTANCE TaskQueue WITH
  state <- status, tries <- attempts, NoWorker <- None,
  holder <- [i \in Items |-> Holder(i)]

ImplementsTaskQueue == Abs!QSpec
=============================================================================
