------------------------------ MODULE TaskQueue ------------------------------
(***************************************************************************)
(* What the queue behind `TaskQueue` (contracts/protocols.py) promises its *)
(* callers, whichever backend serves it: an item is claimed by one worker  *)
(* at a time, only the claimant settles it, every nack uses up one attempt *)
(* and the last attempt buries the item, and a settled item stays settled. *)
(* A claim whose worker died is orphaned until somebody reclaims it.       *)
(* SqliteQueue and RedisQueue are checked against this module.             *)
(***************************************************************************)
EXTENDS Naturals

CONSTANTS
  Items,        \* the queue items
  Workers,      \* the coroutines or processes that dequeue
  NoWorker,     \* the holder of an item nobody works on
  MaxAttempts   \* profile.queue.max_attempts

VARIABLES
  state,    \* state[i]: "absent", "pending", "claimed", "done" or "dead"
  tries,    \* tries[i]: the failed attempts recorded for item i
  holder    \* holder[i]: the worker that works on item i

absVars == <<state, tries, holder>>

QInit ==
  /\ state = [i \in Items |-> "absent"]
  /\ tries = [i \in Items |-> 0]
  /\ holder = [i \in Items |-> NoWorker]

QEnqueue(i) ==
  /\ state[i] = "absent"
  /\ state' = [state EXCEPT ![i] = "pending"]
  /\ UNCHANGED <<tries, holder>>

QClaim(w, i) ==
  /\ state[i] = "pending"
  /\ \A j \in Items : holder[j] # w
  /\ state' = [state EXCEPT ![i] = "claimed"]
  /\ holder' = [holder EXCEPT ![i] = w]
  /\ UNCHANGED tries

(* The settling operations belong to the worker that holds the item. *)
QSettle(i, outcome) ==
  /\ holder[i] # NoWorker
  /\ state' = [state EXCEPT ![i] = outcome]
  /\ holder' = [holder EXCEPT ![i] = NoWorker]

QAck(i) == QSettle(i, "done") /\ UNCHANGED tries

QDeadLetter(i) == QSettle(i, "dead") /\ UNCHANGED tries

QNack(i) ==
  /\ tries[i] < MaxAttempts
  /\ QSettle(i, IF tries[i] + 1 = MaxAttempts THEN "dead" ELSE "pending")
  /\ tries' = [tries EXCEPT ![i] = @ + 1]

(* The workers in W die: what they held is claimed by nobody. *)
QOrphan(W) ==
  /\ holder' = [i \in Items |-> IF holder[i] \in W THEN NoWorker ELSE holder[i]]
  /\ UNCHANGED <<state, tries>>

(* Claims whose holder died, and only those, go back to pending. *)
QReclaim(S) ==
  /\ \A i \in S : state[i] = "claimed" /\ holder[i] = NoWorker
  /\ state' = [i \in Items |-> IF i \in S THEN "pending" ELSE state[i]]
  /\ UNCHANGED <<tries, holder>>

QNext ==
  \/ \E i \in Items :
       \/ QEnqueue(i) \/ QAck(i) \/ QNack(i) \/ QDeadLetter(i)
       \/ \E w \in Workers : QClaim(w, i)
  \/ \E W \in SUBSET Workers : QOrphan(W)
  \/ \E S \in SUBSET Items : QReclaim(S)

QSpec == QInit /\ [][QNext]_absVars
=============================================================================
