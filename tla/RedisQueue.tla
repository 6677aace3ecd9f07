------------------------------ MODULE RedisQueue ------------------------------
(***************************************************************************)
(* queue/redis_queue.py under the agents of worker.run_agent_pool: the     *)
(* four Redis structures of one prefix, the clients that work through it   *)
(* and the reclaim of `andera resume`.  One action is one round trip: a    *)
(* single command, or a MULTI/EXEC pipeline.  Agents are processes of      *)
(* their own; a container that dies is restarted.                          *)
(***************************************************************************)
EXTENDS Naturals, Sequences, FiniteSets, Functions

CONSTANTS
  Items,          \* the item ids
  Malformed,      \* items whose payload names no run_id
  Workers,        \* agents
  MaxAttempts,    \* profile.queue.max_attempts
  MaxCrashes,     \* bound: agent deaths explored
  Takeover,       \* may `andera resume` reclaim while agents hold items?
  CrashInWindow,  \* may an agent die between the RPOP and the pipeline of dequeue?
  None            \* "no item", "no value"

ASSUME RedisAssumption ==
  /\ Malformed \subseteq Items
  /\ MaxAttempts \in Nat \ {0}
  /\ MaxCrashes \in Nat
  /\ {Takeover, CrashInWindow} \subseteq BOOLEAN
  /\ None \notin Items /\ None \notin Workers /\ None \notin Nat

VARIABLES
  pending,   \* <prefix>:pending, LPUSH appends, RPOP takes the head
  status,    \* items:<id>.status, "absent" before the HSET
  attempts,  \* items:<id>.attempts
  claimed,   \* <prefix>:claimed, the ids of the sorted set
  dead,      \* <prefix>:dead
  job,       \* job[w]: the item agent w has in hand
  step,      \* step[w]: which round trip of w is next
  seen,      \* seen[w]: attempts as read by the HGET of a nack under way
  stale,     \* ids a reclaim_stale under way read and has not pushed back
  crashes    \* deaths of agents so far

storeVars == <<pending, status, attempts, claimed, dead>>
agentVars == <<job, step, seen>>
vars == <<storeVars, agentVars, stale, crashes>>

Status == {"absent", "pending", "claimed", "done", "dead"}
Settled == {"done", "dead"}

TypeOK ==
  /\ pending \in Seq(Items)
  /\ status \in [Items -> Status]
  /\ attempts \in [Items -> 0..MaxAttempts]
  /\ claimed \subseteq Items /\ dead \subseteq Items /\ stale \subseteq Items
  /\ job \in [Workers -> Items \cup {None}]
  /\ step \in [Workers -> {"idle", "popped", "working", "nacking"}]
  /\ seen \in [Workers -> (0..MaxAttempts) \cup {None}]
  /\ crashes \in 0..MaxCrashes

Init ==
  /\ pending = <<>>
  /\ status = [i \in Items |-> "absent"]
  /\ attempts = [i \in Items |-> 0]
  /\ claimed = {} /\ dead = {} /\ stale = {}
  /\ job = [w \in Workers |-> None]
  /\ step = [w \in Workers |-> "idle"]
  /\ seen = [w \in Workers |-> None]
  /\ crashes = 0
-----------------------------------------------------------------------------
SetStatus(i, s) == status' = [status EXCEPT ![i] = s]
LPush(i) == pending' = Append(pending, i)
ZRem(i) == claimed' = claimed \ {i}

(* enqueue(): HSET and LPUSH in one transaction. *)
Enqueue(i) ==
  /\ status[i] = "absent"
  /\ SetStatus(i, "pending")
  /\ attempts' = [attempts EXCEPT ![i] = 0]
  /\ LPush(i)
  /\ UNCHANGED <<claimed, dead, agentVars, stale, crashes>>

Hand(w, i, s) ==
  /\ job' = [job EXCEPT ![w] = i]
  /\ step' = [step EXCEPT ![w] = s]

(* dequeue(), first round trip: RPOP. *)
Pop(w) ==
  /\ step[w] = "idle"
  /\ pending # <<>>
  /\ pending' = Tail(pending)
  /\ Hand(w, Head(pending), "popped")
  /\ UNCHANGED <<status, attempts, claimed, dead, seen, stale, crashes>>

(* Fault: the ZADD is missing. *)
ClaimUnlisted(w) ==
  /\ step[w] = "popped"
  /\ SetStatus(job[w], "claimed")
  /\ Hand(w, job[w], "working")
  /\ UNCHANGED <<pending, attempts, claimed, dead, seen, stale, crashes>>

(* dequeue(), second round trip: HSET claimed, ZADD, HGET, HGET. *)
Claim(w) ==
  /\ step[w] = "popped"
  /\ SetStatus(job[w], "claimed")
  /\ claimed' = claimed \cup {job[w]}
  /\ Hand(w, job[w], "working")
  /\ UNCHANGED <<pending, attempts, dead, seen, stale, crashes>>

(* Fault: the ZREM is missing. *)
AckKeepsClaim(w) ==
  /\ step[w] = "working"
  /\ job[w] \notin Malformed
  /\ SetStatus(job[w], "done")
  /\ Hand(w, None, "idle")
  /\ UNCHANGED <<pending, attempts, claimed, dead, seen, stale, crashes>>

(* ack(): by item id, whoever claims it by now. *)
Ack(w) ==
  /\ step[w] = "working"
  /\ job[w] \notin Malformed
  /\ SetStatus(job[w], "done")
  /\ ZRem(job[w])
  /\ Hand(w, None, "idle")
  /\ UNCHANGED <<pending, attempts, dead, seen, stale, crashes>>

(* nack(), first round trip: HGET attempts. *)
NackRead(w) ==
  /\ step[w] = "working"
  /\ job[w] \notin Malformed
  /\ seen' = [seen EXCEPT ![w] = attempts[job[w]]]
  /\ Hand(w, job[w], "nacking")
  /\ UNCHANGED <<storeVars, stale, crashes>>

(* nack(), second round trip: back of the list, or the dead set. *)
NackWrite(w) ==
  LET i == job[w]
      n == seen[w] + 1
  IN /\ step[w] = "nacking"
     /\ attempts' = [attempts EXCEPT ![i] = n]
     /\ ZRem(i)
     /\ IF n >= MaxAttempts
        THEN SetStatus(i, "dead") /\ dead' = dead \cup {i} /\ UNCHANGED pending
        ELSE SetStatus(i, "pending") /\ LPush(i) /\ UNCHANGED dead
     /\ Hand(w, None, "idle")
     /\ seen' = [seen EXCEPT ![w] = None]
     /\ UNCHANGED <<stale, crashes>>

(* dead_letter(): run_agent_pool buries a job without a run_id. *)
DeadLetter(w) ==
  /\ step[w] = "working"
  /\ job[w] \in Malformed
  /\ SetStatus(job[w], "dead")
  /\ ZRem(job[w])
  /\ dead' = dead \cup {job[w]}
  /\ Hand(w, None, "idle")
  /\ UNCHANGED <<pending, attempts, seen, stale, crashes>>

(* An agent dies with what it holds and its container comes back idle. *)
AgentCrash(w) ==
  /\ step[w] # "idle"
  /\ step[w] = "popped" => CrashInWindow
  /\ crashes < MaxCrashes
  /\ crashes' = crashes + 1
  /\ Hand(w, None, "idle")
  /\ seen' = [seen EXCEPT ![w] = None]
  /\ UNCHANGED <<storeVars, stale>>

(* reclaim_stale(older_than_seconds=0), first round trip: ZRANGEBYSCORE    *)
(* returns every claimed id.                                               *)
ReclaimScan ==
  /\ Takeover \/ \A w \in Workers : job[w] = None
  /\ stale = {}
  /\ claimed # {}
  /\ stale' = claimed
  /\ UNCHANGED <<storeVars, agentVars, crashes>>

(* Faults: attempts start over; the LPUSH is missing. *)
ReclaimForgets(i) ==
  /\ i \in stale
  /\ SetStatus(i, "pending")
  /\ ZRem(i)
  /\ LPush(i)
  /\ stale' = stale \ {i}
  /\ attempts' = [attempts EXCEPT ![i] = 0]
  /\ UNCHANGED <<dead, agentVars, crashes>>

ReclaimDrops(i) ==
  /\ i \in stale
  /\ SetStatus(i, "pending")
  /\ ZRem(i)
  /\ stale' = stale \ {i}
  /\ UNCHANGED <<pending, attempts, dead, agentVars, crashes>>

(* Then one pipeline per id, whatever became of the item since. *)
ReclaimOne(i) ==
  /\ i \in stale
  /\ SetStatus(i, "pending")
  /\ ZRem(i)
  /\ LPush(i)
  /\ stale' = stale \ {i}
  /\ UNCHANGED <<attempts, dead, agentVars, crashes>>

(* The coordinator dies between two of those pipelines. *)
ReclaimCrash ==
  /\ stale # {}
  /\ stale' = {}
  /\ UNCHANGED <<storeVars, agentVars, crashes>>

Settle(w) == Ack(w) \/ NackRead(w) \/ NackWrite(w) \/ DeadLetter(w)

Next ==
  \/ \E i \in Items : Enqueue(i) \/ ReclaimOne(i)
  \/ \E w \in Workers :
       \/ Pop(w) \/ Claim(w) \/ Ack(w) \/ NackRead(w) \/ NackWrite(w)
       \/ DeadLetter(w) \/ AgentCrash(w)
  \/ ReclaimScan \/ ReclaimCrash

Spec == Init /\ [][Next]_vars

(* Agents poll forever and finish what they took; the operator resumes a   *)
(* run nobody works on as often as it takes, and not every resume dies.     *)
FairSpec ==
  /\ Spec
  /\ \A w \in Workers : WF_vars(Pop(w) \/ Claim(w)) /\ WF_vars(Settle(w))
  /\ SF_vars(ReclaimScan)
  /\ SF_vars(\E i \in Items : ReclaimOne(i))
-----------------------------------------------------------------------------
Copies(i) ==
  Cardinality({k \in DOMAIN pending : pending[k] = i})
    + Cardinality({w \in Workers : job[w] = i})

(***************************************************************************)
(* An item is at most once in the pending list and the agents' hands taken *)
(* together ("two workers can never claim the same item even on separate   *)
(* boxes"), although no call compares a claim token.                       *)
(***************************************************************************)
NoDuplicateWork == \A i \in Items : Copies(i) <= 1

(***************************************************************************)
(* Every unsettled item stays reachable: it is in the list, in an agent's  *)
(* hands, or in the sorted set reclaim_stale reads.                        *)
(***************************************************************************)
NothingLost ==
  \A i \in Items : status[i] \notin Settled \cup {"absent"} =>
    Copies(i) = 1 \/ i \in claimed

(***************************************************************************)
(* The structures agree with the item hashes: counts() reports as dead the *)
(* items whose status is dead, as claimed those whose status is claimed,   *)
(* and as pending a subset of those whose status is pending.               *)
(***************************************************************************)
StructuresAgree ==
  /\ dead = {i \in Items : status[i] = "dead"}
  /\ claimed = {i \in Items : status[i] = "claimed"}
  /\ \A i \in Range(pending) : status[i] = "pending"

(* RunWorkflow.queue_drained over counts(). *)
Drained == Len(pending) = 0 /\ Cardinality(claimed) = 0

(***************************************************************************)
(* When counts() shows no pending and no claimed item, every item enqueued *)
(* so far is settled or in the hands of an agent between its RPOP and its  *)
(* ZADD: that window is the only one queue_drained does not see.           *)
(***************************************************************************)
DrainedButForWindow ==
  Drained =>
    \A i \in Items : status[i] \in Settled \cup {"absent"}
      \/ \E w \in Workers : job[w] = i /\ step[w] = "popped"

(***************************************************************************)
(* Every enqueued item is eventually done or dead.                         *)
(***************************************************************************)
EveryItemSettles ==
  \A i \in Items : status[i] = "pending" ~> status[i] \in Settled

Holder(i) ==
  IF \E w \in Workers : job[w] = i
  THEN CHOOSE w \in Workers : job[w] = i
  ELSE None

(***************************************************************************)
(* The Redis backend implements the abstract queue: an item is claimed     *)
(* from its RPOP on, and its holder is the live agent that has it.         *)
(***************************************************************************)
Abs == INSTANCE TaskQueue WITH
  state <- [i \in Items |-> IF Holder(i) # None THEN "claimed" ELSE status[i]],
  tries <- attempts,
  NoWorker <- None,
  holder <- [i \in Items |-> Holder(i)]

ImplementsTaskQueue == Abs!QSpec

Orphan(i) == status[i] = "pending" /\ Copies(i) = 0

(***************************************************************************)
(* The docstring of dequeue(): an item whose agent crashed between RPOP    *)
(* and HSET "becomes orphaned and `reclaim_stale` recovers it".            *)
(***************************************************************************)
OrphanRecovered == \A i \in Items : Orphan(i) ~> ~Orphan(i)
=============================================================================
