-------------------------- MODULE SqliteQueueProofs --------------------------
(***************************************************************************)
(* Proofs about SqliteQueue, and about the runs RunWorkflow puts on it,    *)
(* for any number of rows, workers, attempts and crashes.  The queue's     *)
(* theorems hold for any number of processes too (RunAssumption, that a    *)
(* run has one process, is used from the run's part on), when a run is     *)
(* resumed only while no worker holds an item (Takeover = FALSE;           *)
(* README.md, section 4, says what happens otherwise).                     *)
(***************************************************************************)
EXTENDS RunWorkflow, FiniteSetTheorems, TLAPS

USE SqliteAssumption DEF Items, Status

(* None is no item, so "holds an item" and "holds None" exclude each other. *)
LEMMA NoneIsNoItem == None \notin Items /\ None \notin 0..MaxAttempts
  BY DEF Items

(* Two workers never hold the same item: its row carries one token. *)
LEMMA HoldersDiffer ==
  ASSUME ClaimExclusive, NEW v \in Workers, NEW w \in Workers,
         job[v] = job[w], job[v] # None
  PROVE  v = w
  BY DEF ClaimExclusive

(* The claims of an item, with the last one told apart from the others. *)
LEMMA Accounts ==
  ASSUME TypeOK, ClaimsAccounted, NEW i \in Items
  PROVE  /\ claims[i] \in Nat /\ attempts[i] \in Nat /\ crashes \in Nat
         /\ claims[i] <= attempts[i] + crashes + 1
         /\ ~Held(i) /\ status[i] # "done" => claims[i] <= attempts[i] + crashes
<1> DEFINE last == IF Held(i) \/ status[i] = "done" THEN 1 ELSE 0
<1>1. /\ last \in {0, 1}
      /\ ~Held(i) /\ status[i] # "done" => last = 0
  BY Zenon
<1>2. claims[i] <= attempts[i] + crashes + last
  BY DEF ClaimsAccounted
<1>3. claims[i] \in Nat /\ attempts[i] \in Nat /\ crashes \in Nat
  BY DEF TypeOK
<1> HIDE DEF last
<1>4. claims[i] <= attempts[i] + crashes + 1
  BY <1>1, <1>2, <1>3
<1>5. last = 0 => claims[i] <= attempts[i] + crashes
  BY <1>2, <1>3
<1>. QED  BY <1>1, <1>3, <1>4, <1>5

-----------------------------------------------------------------------------
(* The initial state satisfies the inductive invariant. *)
LEMMA InitIInv == Init => IInv
<1> SUFFICES ASSUME Init PROVE IInv
  OBVIOUS
<1>1. TypeOK
  BY DEF Init, TypeOK
<1>2. ClaimExclusive /\ NackReadsCurrent
  BY DEF Init, ClaimExclusive, NackReadsCurrent
<1>3. BuriedAtLimit /\ ClaimsAccounted
  BY DEF Init, BuriedAtLimit, ClaimsAccounted, Held
<1>. QED  BY <1>1, <1>2, <1>3 DEF IInv

(* enqueue() touches an absent row, which no worker holds. *)
LEMMA EnqueueIInv ==
  ASSUME IInv, NEW i \in Items, Enqueue(i)
  PROVE  IInv'
<1> USE DEF IInv
<1>1. TypeOK'
  <2>1. /\ status' \in [Items -> Status] /\ attempts' \in [Items -> 0..MaxAttempts]
        /\ token' \in [Items -> Workers \cup {None}]
    BY DEF TypeOK, Enqueue, Status
  <2>2. UNCHANGED <<job, seen, up, crashes, claims>>
    BY DEF Enqueue, loopVars, procVars
  <2>. QED  BY <2>1, <2>2 DEF TypeOK
<1>2. ClaimExclusive'
  BY DEF TypeOK, Enqueue, loopVars, procVars, ClaimExclusive
<1>3. NackReadsCurrent'
  BY DEF TypeOK, Enqueue, loopVars, procVars, ClaimExclusive, NackReadsCurrent
<1>4. BuriedAtLimit'
  BY DEF TypeOK, Enqueue, BuriedAtLimit
<1>5. ClaimsAccounted'
  BY DEF TypeOK, Enqueue, loopVars, procVars, ClaimsAccounted, Held
<1>. QED  BY <1>1, <1>2, <1>3, <1>4, <1>5

(* dequeue() takes a pending row, which no worker holds: only claimed rows *)
(* are held.                                                               *)
LEMMA DequeueIInv ==
  ASSUME IInv, NEW w \in Workers, Dequeue(w)
  PROVE  IInv'
<1> USE DEF IInv
<1> PICK i \in Pending :
      /\ status' = [status EXCEPT ![i] = "claimed"]
      /\ token' = [token EXCEPT ![i] = w]
      /\ job' = [job EXCEPT ![w] = i]
      /\ claims' = [claims EXCEPT ![i] = @ + 1]
  BY DEF Dequeue
<1>1. i \in Items /\ status[i] = "pending" /\ job[w] = None
  BY DEF Pending, Dequeue
<1>2. UNCHANGED <<attempts, seen, up, crashes>>
  BY DEF Dequeue, procVars
<1>3. ~Held(i)
  BY <1>1, NoneIsNoItem DEF Held, ClaimExclusive
<1>4. TypeOK'
  <2>1. status' \in [Items -> Status] /\ token' \in [Items -> Workers \cup {None}]
    BY <1>1 DEF TypeOK, Status
  <2>2. job' \in [Workers -> Items \cup {None}]
    BY <1>1 DEF TypeOK
  <2>3. claims' \in [Items -> Nat]
    <3>1. claims \in [Items -> Nat]
      BY DEF TypeOK
    <3> HIDE DEF IInv
    <3>2. claims[i] + 1 \in Nat
      BY <1>1, <3>1
    <3>. QED  BY <3>1, <3>2
  <2>. QED  BY <1>2, <2>1, <2>2, <2>3 DEF TypeOK
<1>5. ClaimExclusive'
  <2> SUFFICES ASSUME NEW v \in Workers, job'[v] # None
               PROVE  status'[job'[v]] = "claimed" /\ token'[job'[v]] = v
    BY DEF ClaimExclusive
  <2>1. CASE v = w
    <3>1. job'[v] = i /\ status'[i] = "claimed" /\ token'[i] = w
      BY <1>1, <2>1 DEF TypeOK
    <3>. QED  BY <2>1, <3>1
  <2>2. CASE v # w
    <3>1. job'[v] = job[v] /\ job[v] # i
      BY <1>3, <2>2 DEF TypeOK, Held
    <3>2. /\ status[job[v]] = "claimed" /\ token[job[v]] = v
          /\ status'[job[v]] = status[job[v]] /\ token'[job[v]] = token[job[v]]
      BY <3>1 DEF TypeOK, ClaimExclusive
    <3>. QED  BY <3>1, <3>2
  <2>. QED  BY <2>1, <2>2
<1>6. NackReadsCurrent'
  BY <1>1, <1>2 DEF TypeOK, NackReadsCurrent
<1>7. BuriedAtLimit'
  BY <1>1, <1>2 DEF TypeOK, BuriedAtLimit
<1>8. ClaimsAccounted'
  <2> SUFFICES ASSUME NEW j \in Items
               PROVE  /\ status'[j] = "absent" => claims'[j] = 0 /\ attempts'[j] = 0
                      /\ claims'[j] <= attempts'[j] + crashes'
                           + IF Held(j)' \/ status'[j] = "done" THEN 1 ELSE 0
    BY DEF ClaimsAccounted
  <2>1. CASE j = i
    <3>1. Held(j)'
      BY <1>1, <2>1 DEF Held, TypeOK
    <3>2. claims[i] <= attempts[i] + crashes
      BY <1>1, <1>3, Accounts
    <3>. QED  BY <1>1, <1>2, <2>1, <3>1, <3>2 DEF TypeOK
  <2>2. CASE j # i
    <3>1. Held(j)' <=> Held(j)
      BY <1>1, <2>2, NoneIsNoItem DEF Held, TypeOK
    <3>. QED  BY <1>1, <1>2, <2>2, <3>1 DEF ClaimsAccounted, TypeOK
  <2>. QED  BY <2>1, <2>2
<1>. QED  BY <1>4, <1>5, <1>6, <1>7, <1>8

(* ack() settles the claim of its caller: no other worker holds the row. *)
LEMMA AckIInv ==
  ASSUME IInv, NEW w \in Workers, Ack(w)
  PROVE  IInv'
<1> USE DEF IInv
<1> DEFINE i == job[w]
<1>1. i \in Items /\ status[i] = "claimed" /\ seen[w] = None
  BY DEF Ack, TypeOK, ClaimExclusive
<1>2. /\ status' = [status EXCEPT ![i] = "done"]
      /\ job' = [job EXCEPT ![w] = None]
      /\ UNCHANGED <<attempts, token, seen, up, crashes, claims>>
  BY DEF Ack, procVars
<1>3. \A v \in Workers : v # w => job[v] # i
  BY <1>1, NoneIsNoItem, HoldersDiffer
<1> HIDE DEF i
<1>4. TypeOK'
  BY <1>1, <1>2 DEF TypeOK
<1>5. ClaimExclusive'
  BY <1>1, <1>2, <1>3 DEF TypeOK, ClaimExclusive
<1>6. NackReadsCurrent'
  BY <1>1, <1>2 DEF TypeOK, NackReadsCurrent
<1>7. BuriedAtLimit'
  BY <1>1, <1>2 DEF TypeOK, BuriedAtLimit
<1>8. ClaimsAccounted'
  <2> SUFFICES ASSUME NEW j \in Items
               PROVE  /\ status'[j] = "absent" => claims'[j] = 0 /\ attempts'[j] = 0
                      /\ claims'[j] <= attempts'[j] + crashes'
                           + IF Held(j)' \/ status'[j] = "done" THEN 1 ELSE 0
    BY DEF ClaimsAccounted
  <2>1. CASE j = i
    <3>1. status'[j] = "done" /\ claims[i] <= attempts[i] + crashes + 1
      BY <1>1, <1>2, <2>1, Accounts DEF TypeOK
    <3>. QED  BY <1>2, <2>1, <3>1
  <2>2. CASE j # i
    <3>1. Held(j)' <=> Held(j)
      BY <1>2, <2>2, NoneIsNoItem DEF Held, TypeOK, i
    <3>. QED  BY <1>1, <1>2, <2>2, <3>1 DEF ClaimsAccounted, TypeOK
  <2>. QED  BY <2>1, <2>2
<1>. QED  BY <1>4, <1>5, <1>6, <1>7, <1>8

(* The SELECT of nack() changes nothing but what the caller has seen. *)
LEMMA NackReadIInv ==
  ASSUME IInv, NEW w \in Workers, NackRead(w)
  PROVE  IInv'
<1> USE DEF IInv
<1>1. /\ job[w] # None
      /\ seen' = [seen EXCEPT ![w] = attempts[job[w]]]
      /\ UNCHANGED <<status, attempts, token, job, up, crashes, claims>>
  BY DEF NackRead, rowVars, procVars
<1>2. TypeOK' /\ NackReadsCurrent'
  BY <1>1 DEF TypeOK, NackReadsCurrent
<1>3. ClaimExclusive' /\ BuriedAtLimit'
  BY <1>1 DEF ClaimExclusive, BuriedAtLimit
<1>4. ClaimsAccounted'
  BY <1>1 DEF ClaimsAccounted, Held
<1>. QED  BY <1>2, <1>3, <1>4

(* The UPDATE of nack(): the count it writes is the row's count plus one,  *)
(* and the row was claimed by the caller alone.                            *)
LEMMA NackWriteIInv ==
  ASSUME IInv, NEW w \in Workers, NackWrite(w)
  PROVE  IInv'
<1> USE DEF IInv
<1> DEFINE i == job[w]
<1>1. /\ i \in Items /\ status[i] = "claimed"
      /\ seen[w] = attempts[i] /\ attempts[i] \in 0..MaxAttempts
  BY DEF NackWrite, TypeOK, ClaimExclusive, NackReadsCurrent
<1>2. attempts[i] < MaxAttempts
  BY <1>1 DEF BuriedAtLimit
<1>3. /\ attempts' = [attempts EXCEPT ![i] = attempts[i] + 1]
      /\ IF attempts[i] + 1 >= MaxAttempts
         THEN /\ status' = [status EXCEPT ![i] = "dead"]
              /\ UNCHANGED token
         ELSE /\ status' = [status EXCEPT ![i] = "pending"]
              /\ token' = [token EXCEPT ![i] = None]
      /\ job' = [job EXCEPT ![w] = None]
      /\ seen' = [seen EXCEPT ![w] = None]
      /\ UNCHANGED <<up, crashes, claims>>
  BY <1>1 DEF NackWrite, NackUpdate, procVars
<1>4. \A v \in Workers : v # w => job[v] # i
  BY <1>1, NoneIsNoItem, HoldersDiffer
<1> HIDE DEF i
<1>5. TypeOK'
  <2>1. attempts[i] + 1 \in 0..MaxAttempts
    BY <1>1, <1>2
  <2>2. attempts' \in [Items -> 0..MaxAttempts]
    BY <1>3, <2>1 DEF TypeOK
  <2>3. status' \in [Items -> Status] /\ token' \in [Items -> Workers \cup {None}]
    BY <1>3 DEF TypeOK
  <2>. QED  BY <1>3, <2>2, <2>3 DEF TypeOK
<1>6. ClaimExclusive'
  <2> SUFFICES ASSUME NEW v \in Workers, job'[v] # None
               PROVE  status'[job'[v]] = "claimed" /\ token'[job'[v]] = v
    BY DEF ClaimExclusive
  <2>1. job'[v] = job[v] /\ job[v] # i
    BY <1>3, <1>4 DEF TypeOK
  <2>2. status[job[v]] = "claimed" /\ token[job[v]] = v
    BY <2>1 DEF ClaimExclusive
  <2>3. \A j \in Items \ {i} : status'[j] = status[j] /\ token'[j] = token[j]
    BY <1>3 DEF TypeOK
  <2>4. job[v] \in Items \ {i}
    BY <2>1 DEF TypeOK
  <2>. QED  BY <2>1, <2>2, <2>3, <2>4
<1>7. NackReadsCurrent'
  BY <1>1, <1>3, <1>4 DEF TypeOK, NackReadsCurrent
<1>8. BuriedAtLimit'
  <2> SUFFICES ASSUME NEW j \in Items
               PROVE  status'[j] = "dead" <=> attempts'[j] = MaxAttempts
    BY DEF BuriedAtLimit
  <2>1. CASE j = i
    <3>1. attempts'[i] = attempts[i] + 1
      BY <1>1, <1>3 DEF TypeOK
    <3>2. IF attempts[i] + 1 >= MaxAttempts THEN status'[i] = "dead" ELSE status'[i] = "pending"
      BY <1>1, <1>3 DEF TypeOK
    <3>. QED  BY <1>1, <1>2, <2>1, <3>1, <3>2
  <2>2. CASE j # i
    <3>1. status'[j] = status[j] /\ attempts'[j] = attempts[j]
      BY <1>3, <2>2 DEF TypeOK
    <3>. QED  BY <3>1 DEF BuriedAtLimit
  <2>. QED  BY <2>1, <2>2
<1>9. ClaimsAccounted'
  <2> SUFFICES ASSUME NEW j \in Items
               PROVE  /\ status'[j] = "absent" => claims'[j] = 0 /\ attempts'[j] = 0
                      /\ claims'[j] <= attempts'[j] + crashes'
                           + IF Held(j)' \/ status'[j] = "done" THEN 1 ELSE 0
    BY DEF ClaimsAccounted
  <2>1. CASE j = i
    <3>1. claims[i] <= attempts[i] + crashes + 1 /\ claims[i] \in Nat
      BY <1>1, Accounts
    <3>2. /\ attempts'[i] = attempts[i] + 1 /\ claims'[i] = claims[i]
          /\ crashes' = crashes /\ crashes \in Nat
      BY <1>1, <1>3 DEF TypeOK
    <3>3. status'[i] # "absent"
      BY <1>1, <1>3 DEF TypeOK
    <3>. QED  BY <1>1, <2>1, <3>1, <3>2, <3>3 DEF Held
  <2>2. CASE j # i
    <3>1. Held(j)' <=> Held(j)
      BY <1>3, <2>2, NoneIsNoItem DEF Held, TypeOK, i
    <3>. QED  BY <1>1, <1>3, <2>2, <3>1 DEF ClaimsAccounted, TypeOK
  <2>. QED  BY <2>1, <2>2
<1>. QED  BY <1>5, <1>6, <1>7, <1>8, <1>9

(* A crash drops jobs and keeps rows: each claim lost is paid for by it. *)
LEMMA CrashIInv ==
  ASSUME IInv, NEW p \in Processes, Crash(p)
  PROVE  IInv'
<1> USE DEF IInv
<1>1. /\ crashes < MaxCrashes /\ crashes' = crashes + 1
      /\ up' = [up EXCEPT ![p] = FALSE]
      /\ job' = [w \in Workers |-> IF ProcessOf[w] = p THEN None ELSE job[w]]
      /\ seen' = [w \in Workers |-> IF ProcessOf[w] = p THEN None ELSE seen[w]]
      /\ UNCHANGED <<status, attempts, token, claims>>
  BY DEF Crash, rowVars
<1>2. TypeOK'
  <2>1. crashes' \in 0..MaxCrashes /\ up' \in [Processes -> BOOLEAN]
    BY <1>1 DEF TypeOK
  <2>2. /\ job' \in [Workers -> Items \cup {None}]
        /\ seen' \in [Workers -> (0..MaxAttempts) \cup {None}]
    BY <1>1 DEF TypeOK
  <2>. QED  BY <1>1, <2>1, <2>2 DEF TypeOK
<1>3. ClaimExclusive' /\ NackReadsCurrent'
  BY <1>1 DEF ClaimExclusive, NackReadsCurrent
<1>4. BuriedAtLimit'
  BY <1>1 DEF BuriedAtLimit
<1>5. ClaimsAccounted'
  <2> SUFFICES ASSUME NEW i \in Items
               PROVE  /\ status'[i] = "absent" => claims'[i] = 0 /\ attempts'[i] = 0
                      /\ claims'[i] <= attempts'[i] + crashes'
                           + IF Held(i)' \/ status'[i] = "done" THEN 1 ELSE 0
    BY DEF ClaimsAccounted
  <2>1. /\ claims[i] <= attempts[i] + crashes + 1
        /\ status[i] = "absent" => claims[i] = 0 /\ attempts[i] = 0
        /\ claims[i] \in Nat /\ attempts[i] \in Nat /\ crashes \in Nat
    BY Accounts DEF ClaimsAccounted
  <2> DEFINE last == IF Held(i)' \/ status'[i] = "done" THEN 1 ELSE 0
  <2>2. last \in {0, 1}
    BY Zenon
  <2> HIDE DEF last
  <2>3. claims[i] <= attempts[i] + (crashes + 1) + last
    BY <2>1, <2>2
  <2>. QED  BY <1>1, <2>1, <2>3 DEF last
<1>. QED  BY <1>2, <1>3, <1>4, <1>5

(* A process that ends or joins touches neither rows nor jobs. *)
LEMMA ExitJoinIInv ==
  ASSUME IInv, NEW p \in Processes, Exit(p) \/ Join(p)
  PROVE  IInv'
<1> USE DEF IInv
<1>1. /\ up' \in [Processes -> BOOLEAN]
      /\ UNCHANGED <<status, attempts, token, job, seen, crashes, claims>>
  BY DEF Exit, Join, rowVars, loopVars, TypeOK
<1>2. TypeOK'
  BY <1>1 DEF TypeOK
<1>3. ClaimExclusive' /\ NackReadsCurrent' /\ BuriedAtLimit'
  BY <1>1 DEF ClaimExclusive, NackReadsCurrent, BuriedAtLimit
<1>4. ClaimsAccounted'
  BY <1>1 DEF ClaimsAccounted, Held
<1>. QED  BY <1>2, <1>3, <1>4

(* resume(): nobody holds anything, so every reclaimed claim is an orphan. *)
LEMMA ResumeIInv ==
  ASSUME IInv, ~Takeover, NEW p \in Processes, Resume(p)
  PROVE  IInv'
<1> USE DEF IInv
<1>1. \A w \in Workers : job[w] = None
  BY DEF Resume
<1>2. /\ up' = [up EXCEPT ![p] = TRUE]
      /\ status' = [i \in Items |->
                      IF status[i] = "claimed" THEN "pending" ELSE status[i]]
      /\ token' = [i \in Items |-> IF status[i] = "claimed" THEN None ELSE token[i]]
      /\ UNCHANGED <<attempts, job, seen, crashes, claims>>
  BY DEF Resume, ReclaimStale, loopVars
<1>3. TypeOK'
  BY <1>2 DEF TypeOK
<1>4. ClaimExclusive' /\ NackReadsCurrent'
  BY <1>1, <1>2 DEF ClaimExclusive, NackReadsCurrent
<1>5. BuriedAtLimit'
  BY <1>2 DEF BuriedAtLimit
<1>6. ClaimsAccounted'
  BY <1>2 DEF ClaimsAccounted, Held
<1>. QED  BY <1>3, <1>4, <1>5, <1>6

LEMMA StutterIInv ==
  ASSUME IInv, UNCHANGED vars
  PROVE  IInv'
<1>1. UNCHANGED <<status, attempts, token, job, seen, up, crashes, claims>>
  BY DEF vars, rowVars, loopVars, procVars
<1>2. TypeOK'
  BY <1>1 DEF IInv, TypeOK
<1>3. ClaimExclusive' /\ NackReadsCurrent' /\ BuriedAtLimit'
  BY <1>1 DEF IInv, ClaimExclusive, NackReadsCurrent, BuriedAtLimit
<1>4. ClaimsAccounted'
  BY <1>1 DEF IInv, ClaimsAccounted, Held
<1>. QED  BY <1>2, <1>3, <1>4 DEF IInv
-----------------------------------------------------------------------------
(***************************************************************************)
(* The inductive invariant holds in every reachable state, for any number  *)
(* of rows, workers and processes, as long as no run is resumed while a    *)
(* worker still holds an item.                                             *)
(***************************************************************************)
THEOREM Inductive == ~Takeover => (Spec => []IInv)
<1> SUFFICES ASSUME ~Takeover PROVE Spec => []IInv
  OBVIOUS
<1>1. Init => IInv
  BY InitIInv
<1>2. IInv /\ [Next]_vars => IInv'
  <2> SUFFICES ASSUME IInv, [Next]_vars PROVE IInv'
    OBVIOUS
  <2>1. ASSUME NEW i \in Items, Enqueue(i) PROVE IInv'
    BY <2>1, EnqueueIInv
  <2>2. ASSUME NEW w \in Workers, Dequeue(w) PROVE IInv'
    BY <2>2, DequeueIInv
  <2>3. ASSUME NEW w \in Workers, Ack(w) PROVE IInv'
    BY <2>3, AckIInv
  <2>4. ASSUME NEW w \in Workers, NackRead(w) PROVE IInv'
    BY <2>4, NackReadIInv
  <2>5. ASSUME NEW w \in Workers, NackWrite(w) PROVE IInv'
    BY <2>5, NackWriteIInv
  <2>6. ASSUME NEW p \in Processes, Crash(p) PROVE IInv'
    BY <2>6, CrashIInv
  <2>7. ASSUME NEW p \in Processes, Exit(p) \/ Join(p) PROVE IInv'
    BY <2>7, ExitJoinIInv
  <2>8. ASSUME NEW p \in Processes, Resume(p) PROVE IInv'
    BY <2>8, ResumeIInv
  <2>9. CASE UNCHANGED vars
    BY <2>9, StutterIInv
  <2>. QED
    BY <2>1, <2>2, <2>3, <2>4, <2>5, <2>6, <2>7, <2>8, <2>9 DEF Next
<1>. QED  BY <1>1, <1>2, PTL DEF Spec

(***************************************************************************)
(* Type correctness.                                                       *)
(***************************************************************************)
THEOREM TypeCorrect == ~Takeover => (Spec => []TypeOK)
<1>1. IInv => TypeOK
  BY DEF IInv
<1>. QED  BY <1>1, Inductive, PTL

(***************************************************************************)
(* dequeue() never hands a claimed row to a second worker, and an ack() or *)
(* nack() always settles the claim of its own caller.                      *)
(***************************************************************************)
THEOREM ClaimsAreExclusive == ~Takeover => (Spec => []ClaimExclusive)
<1>1. IInv => ClaimExclusive
  BY DEF IInv
<1>. QED  BY <1>1, Inductive, PTL

(***************************************************************************)
(* No two workers ever hold the same sample.                               *)
(***************************************************************************)
THEOREM SamplesAreNotShared == ~Takeover => (Spec => []NoSharedSample)
<1>1. ClaimExclusive => NoSharedSample
  BY HoldersDiffer DEF NoSharedSample
<1>. QED  BY <1>1, ClaimsAreExclusive, PTL

(***************************************************************************)
(* No nack() overwrites the attempt another one counted, although its      *)
(* SELECT and its UPDATE are two transactions.                             *)
(***************************************************************************)
THEOREM NoLostAttempt == ~Takeover => (Spec => []NackReadsCurrent)
<1>1. IInv => NackReadsCurrent
  BY DEF IInv
<1>. QED  BY <1>1, Inductive, PTL

(***************************************************************************)
(* The retry budget: dead exactly at MaxAttempts, and no more dequeues     *)
(* than failed attempts, crashes and one.                                  *)
(***************************************************************************)
THEOREM RetriesAreBounded == ~Takeover => (Spec => []RetryBudget)
<1>1. IInv => RetryBudget
  BY Accounts DEF IInv, BuriedAtLimit, RetryBudget
<1>. QED  BY <1>1, Inductive, PTL

(* A settled row is nobody's, so neither a settling nor a reclaim meets it. *)
LEMMA SettledStep ==
  ASSUME IInv, NEW i \in Items, status[i] \in Settled, [Next]_vars \/ ReclaimStale
  PROVE  status'[i] = status[i]
<1> USE DEF IInv, TypeOK, Settled
<1>1. ASSUME NEW j \in Items, Enqueue(j) PROVE status'[i] = status[i]
  BY <1>1 DEF Enqueue
<1>2. ASSUME NEW w \in Workers, Dequeue(w) PROVE status'[i] = status[i]
  BY <1>2 DEF Dequeue, Pending
<1>3. ASSUME NEW w \in Workers, Ack(w) PROVE status'[i] = status[i]
  BY <1>3 DEF Ack, ClaimExclusive
<1>4. ASSUME NEW w \in Workers, NackRead(w) PROVE status'[i] = status[i]
  BY <1>4 DEF NackRead, rowVars
<1>5. ASSUME NEW w \in Workers, NackWrite(w) PROVE status'[i] = status[i]
  <2>1. status[job[w]] = "claimed"
    BY <1>5 DEF NackWrite, NackReadsCurrent, ClaimExclusive
  <2>2. \E x \in {"dead", "pending"} : status' = [status EXCEPT ![job[w]] = x]
    BY <1>5 DEF NackWrite, NackUpdate
  <2>. QED  BY <2>1, <2>2
<1>6. ASSUME NEW p \in Processes, Crash(p) \/ Exit(p) \/ Join(p)
      PROVE  status'[i] = status[i]
  BY <1>6 DEF Crash, Exit, Join, rowVars
<1>7. CASE ReclaimStale \/ \E p \in Processes : Resume(p)
  BY <1>7 DEF Resume, ReclaimStale
<1>8. CASE UNCHANGED vars
  BY <1>8 DEF vars, rowVars
<1>. QED  BY <1>1, <1>2, <1>3, <1>4, <1>5, <1>6, <1>7, <1>8 DEF Next

(***************************************************************************)
(* No step takes a row that is done or dead back to work.                  *)
(***************************************************************************)
THEOREM SettledStaysSettled == ~Takeover => (Spec => SettledIsFinal)
<1> DEFINE Final == \A i \in Items : status[i] \in Settled => status'[i] = status[i]
<1>1. IInv /\ [Next]_vars => [Final]_vars
  BY SettledStep
<1>. QED  BY <1>1, Inductive, PTL DEF Spec, SettledIsFinal

(***************************************************************************)
(* A row is buried only with its attempts used up, even when a run is      *)
(* resumed under the hands of a process that still works: then a nack()    *)
(* may write an older count and bring a dead row back, but none buries a   *)
(* row early.                                                              *)
(***************************************************************************)
BuriedNotEarly == \A i \in Items : status[i] = "dead" => attempts[i] >= MaxAttempts

THEOREM NeverBuriedEarly == Spec => []BuriedNotEarly
<1> DEFINE Inv ==
      /\ status \in [Items -> Status] /\ attempts \in [Items -> Nat]
      /\ job \in [Workers -> Items \cup {None}]
      /\ seen \in [Workers -> Nat \cup {None}]
      /\ \A w \in Workers : seen[w] # None => job[w] # None
      /\ BuriedNotEarly
<1>1. Init => Inv
  BY DEF Init, BuriedNotEarly
<1>2. Inv /\ [Next]_vars => Inv'
  <2> SUFFICES ASSUME Inv, [Next]_vars PROVE Inv'
    OBVIOUS
  <2> USE DEF BuriedNotEarly
  <2>1. ASSUME NEW i \in Items, Enqueue(i) PROVE Inv'
    BY <2>1 DEF Enqueue, loopVars
  <2>2. ASSUME NEW w \in Workers, Dequeue(w) PROVE Inv'
    <3>1. PICK i \in Items : /\ status' = [status EXCEPT ![i] = "claimed"]
                             /\ job' = [job EXCEPT ![w] = i]
                             /\ UNCHANGED <<attempts, seen>>
      BY <2>2 DEF Dequeue, Pending
    <3>2. status' \in [Items -> Status] /\ job' \in [Workers -> Items \cup {None}]
      BY <3>1 DEF Status
    <3>3. \A v \in Workers : seen'[v] # None => job'[v] # None
      BY <3>1, NoneIsNoItem
    <3>4. BuriedNotEarly'
      BY <3>1
    <3> QED BY <3>1, <3>2, <3>3, <3>4
  <2>8. ASSUME NEW w \in Workers, Ack(w) PROVE Inv'
    <3>1. /\ job[w] \in Items /\ seen[w] = None
          /\ status' = [status EXCEPT ![job[w]] = "done"]
          /\ job' = [job EXCEPT ![w] = None]
          /\ UNCHANGED <<attempts, seen>>
      BY <2>8 DEF Ack
    <3>2. status' \in [Items -> Status] /\ job' \in [Workers -> Items \cup {None}]
      BY <3>1 DEF Status
    <3> QED BY <3>1, <3>2
  <2>3. ASSUME NEW w \in Workers, NackRead(w) PROVE Inv'
    BY <2>3 DEF NackRead, rowVars
  <2>4. ASSUME NEW w \in Workers, NackWrite(w) PROVE Inv'
    <3> DEFINE i == job[w]
               n == seen[w] + 1
    <3>1. i \in Items /\ n \in Nat /\ NackUpdate(i, n)
      BY <2>4 DEF NackWrite
    <3>2. /\ job' = [job EXCEPT ![w] = None] /\ seen' = [seen EXCEPT ![w] = None]
      BY <2>4 DEF NackWrite
    <3> HIDE DEF i, n
    <3>3. /\ status' \in [Items -> Status] /\ attempts' \in [Items -> Nat]
          /\ BuriedNotEarly'
      BY <3>1 DEF NackUpdate
    <3> QED BY <3>2, <3>3
  <2>5. ASSUME NEW p \in Processes, Crash(p) \/ Exit(p) \/ Join(p) PROVE Inv'
    <3>1. CASE Crash(p)
      <4>1. /\ job' = [w \in Workers |-> IF ProcessOf[w] = p THEN None ELSE job[w]]
            /\ seen' = [w \in Workers |-> IF ProcessOf[w] = p THEN None ELSE seen[w]]
            /\ UNCHANGED <<status, attempts>>
        BY <3>1 DEF Crash, rowVars
      <4> QED BY <4>1
    <3>2. CASE Exit(p) \/ Join(p)
      BY <3>2 DEF Exit, Join, rowVars, loopVars
    <3> QED BY <2>5, <3>1, <3>2
  <2>6. ASSUME NEW p \in Processes, Resume(p) PROVE Inv'
    BY <2>6 DEF Resume, ReclaimStale, loopVars
  <2>7. CASE UNCHANGED vars
    BY <2>7 DEF vars, rowVars, loopVars
  <2> QED BY <2>1, <2>2, <2>8, <2>3, <2>4, <2>5, <2>6, <2>7 DEF Next
<1>3. Inv => BuriedNotEarly
  OBVIOUS
<1> HIDE DEF Inv
<1> QED BY <1>1, <1>2, <1>3, PTL DEF Spec
-----------------------------------------------------------------------------
(* With one holder at most, the CHOOSE of HolderIn has no choice. *)
LEMMA HolderInIs ==
  ASSUME NEW f, NEW i, NEW w \in Workers, f[w] = i,
         \A v \in Workers : f[v] = i => v = w
  PROVE  HolderIn(f, i) = w
  BY DEF HolderIn

LEMMA HolderInNone ==
  ASSUME NEW f, NEW i, \A w \in Workers : f[w] # i
  PROVE  HolderIn(f, i) = None
  BY DEF HolderIn

(* Jobs that agree on who holds i agree on its holder. *)
LEMMA HolderInSame ==
  ASSUME NEW f, NEW g, NEW i,
         \A v, w \in Workers : f[v] = i /\ f[w] = i => v = w,
         \A w \in Workers : g[w] = i <=> f[w] = i
  PROVE  HolderIn(g, i) = HolderIn(f, i)
<1>1. CASE \E w \in Workers : f[w] = i
  <2> PICK w \in Workers : f[w] = i
    BY <1>1
  <2>1. HolderIn(f, i) = w
    BY HolderInIs
  <2>2. HolderIn(g, i) = w
    BY HolderInIs
  <2>. QED  BY <2>1, <2>2
<1>2. CASE ~\E w \in Workers : f[w] = i
  BY <1>2, HolderInNone
<1>. QED  BY <1>1, <1>2

LEMMA OneHolder ==
  ASSUME ClaimExclusive, NEW i \in Items
  PROVE  \A v, w \in Workers : job[v] = i /\ job[w] = i => v = w
  BY NoneIsNoItem, HoldersDiffer

(* The initial states map to the initial state of TaskQueue. *)
LEMMA InitRefines == Init => Abs!QInit
<1> SUFFICES ASSUME Init PROVE Abs!QInit
  OBVIOUS
<1>1. ASSUME NEW i \in Items PROVE Holder(i) = None
  BY NoneIsNoItem, HolderInNone DEF Holder, Init
<1>. QED  BY <1>1 DEF Init, Abs!QInit

LEMMA EnqueueRefines ==
  ASSUME IInv, NEW i \in Items, Enqueue(i)
  PROVE  Abs!QEnqueue(i)
<1>1. [j \in Items |-> Holder(j)]' = [j \in Items |-> Holder(j)]
  BY DEF Enqueue, loopVars, Holder, HolderIn
<1>2. attempts' = attempts
  <2>1. attempts \in [Items -> 0..MaxAttempts] /\ attempts' = [attempts EXCEPT ![i] = 0]
    BY DEF Enqueue, IInv, TypeOK
  <2>2. attempts[i] = 0
    BY DEF Enqueue, IInv, ClaimsAccounted
  <2>. QED  BY <2>1, <2>2
<1>. QED  BY <1>1, <1>2 DEF Enqueue, Abs!QEnqueue

LEMMA DequeueRefines ==
  ASSUME IInv, NEW w \in Workers, Dequeue(w)
  PROVE  \E i \in Items : Abs!QClaim(w, i)
<1>0. PICK i \in Pending :
        /\ status' = [status EXCEPT ![i] = "claimed"]
        /\ job' = [job EXCEPT ![w] = i]
  BY DEF Dequeue
<1>1. /\ i \in Items /\ status[i] = "pending" /\ job[w] = None
      /\ ClaimExclusive /\ job \in [Workers -> Items \cup {None}]
      /\ attempts' = attempts
  BY DEF Pending, Dequeue, IInv, TypeOK
<1>2. \A v \in Workers : job[v] # i
  BY <1>1, NoneIsNoItem DEF ClaimExclusive
<1>3. ASSUME NEW j \in Items PROVE Holder(j) # w
  BY <1>1, NoneIsNoItem DEF Holder, HolderIn
<1>4. ASSUME NEW j \in Items
      PROVE  Holder(j)' = IF j = i THEN w ELSE Holder(j)
  <2>1. CASE j = i
    <3>1. job'[w] = i /\ \A v \in Workers : job'[v] = i => v = w
      BY <1>0, <1>1, <1>2
    <3>2. HolderIn(job', i) = w
      BY <3>1, HolderInIs
    <3>. QED  BY <2>1, <3>2 DEF Holder
  <2>2. CASE j # i
    <3>1. \A v \in Workers : job'[v] = j <=> job[v] = j
      BY <1>0, <1>1, <2>2, NoneIsNoItem
    <3>2. \A v, u \in Workers : job[v] = j /\ job[u] = j => v = u
      BY <1>1, OneHolder
    <3>3. HolderIn(job', j) = HolderIn(job, j)
      BY <3>1, <3>2, HolderInSame
    <3>. QED  BY <2>2, <3>3 DEF Holder
  <2>. QED  BY <2>1, <2>2
<1>5. [j \in Items |-> Holder(j)]' = [[j \in Items |-> Holder(j)] EXCEPT ![i] = w]
  BY <1>1, <1>4
<1>6. Abs!QClaim(w, i)
  BY <1>0, <1>1, <1>3, <1>5 DEF Abs!QClaim
<1>. QED  BY <1>1, <1>6

(* A worker that gives its job up leaves the item without a holder. *)
LEMMA ReleaseClearsHolder ==
  ASSUME IInv, NEW w \in Workers, job[w] # None,
         \A v \in Workers : job'[v] = IF v = w THEN None ELSE job[v]
  PROVE  /\ job[w] \in Items /\ Holder(job[w]) = w
         /\ [j \in Items |-> Holder(j)]'
              = [[j \in Items |-> Holder(j)] EXCEPT ![job[w]] = None]
<1>1. /\ job[w] \in Items /\ ClaimExclusive
      /\ job \in [Workers -> Items \cup {None}]
  BY DEF IInv, TypeOK
<1>2. \A v \in Workers : job[v] = job[w] => v = w
  BY <1>1, HoldersDiffer
<1>3. ASSUME NEW j \in Items
      PROVE  Holder(j)' = IF j = job[w] THEN None ELSE Holder(j)
  <2>1. CASE j = job[w]
    <3>1. \A v \in Workers : job'[v] # j
      BY <1>1, <1>2, <2>1, NoneIsNoItem
    <3>. QED  BY <2>1, <3>1, HolderInNone DEF Holder
  <2>2. CASE j # job[w]
    <3>1. \A v \in Workers : job'[v] = j <=> job[v] = j
      BY <1>1, <2>2, NoneIsNoItem
    <3>2. \A v, u \in Workers : job[v] = j /\ job[u] = j => v = u
      BY <1>1, OneHolder
    <3>3. HolderIn(job', j) = HolderIn(job, j)
      BY <3>1, <3>2, HolderInSame
    <3>. QED  BY <2>2, <3>3 DEF Holder
  <2>. QED  BY <2>1, <2>2
<1>4. Holder(job[w]) = w
  BY <1>2, HolderInIs DEF Holder
<1>. QED  BY <1>1, <1>3, <1>4

LEMMA AckRefines ==
  ASSUME IInv, NEW w \in Workers, Ack(w)
  PROVE  Abs!QAck(job[w])
<1>1. /\ job[w] # None
      /\ \A v \in Workers : job'[v] = IF v = w THEN None ELSE job[v]
      /\ status' = [status EXCEPT ![job[w]] = "done"] /\ attempts' = attempts
  BY DEF Ack, IInv, TypeOK
<1>. QED
  BY <1>1, ReleaseClearsHolder, NoneIsNoItem DEF Abs!QAck, Abs!QSettle

LEMMA NackWriteRefines ==
  ASSUME IInv, NEW w \in Workers, NackWrite(w)
  PROVE  Abs!QNack(job[w])
<1> DEFINE i == job[w]
<1>1. /\ i # None /\ i \in Items
      /\ \A v \in Workers : job'[v] = IF v = w THEN None ELSE job[v]
      /\ status[i] = "claimed" /\ attempts[i] \in 0..MaxAttempts
      /\ NackUpdate(i, attempts[i] + 1)
  BY DEF NackWrite, IInv, TypeOK, ClaimExclusive, NackReadsCurrent
<1>2. attempts[i] < MaxAttempts
  BY <1>1 DEF IInv, BuriedAtLimit
<1>3. /\ attempts' = [attempts EXCEPT ![i] = attempts[i] + 1]
      /\ status' = [status EXCEPT ![i] =
                      IF attempts[i] + 1 = MaxAttempts THEN "dead" ELSE "pending"]
  BY <1>1, <1>2 DEF NackUpdate
<1>4. /\ Holder(i) = w
      /\ [j \in Items |-> Holder(j)]' = [[j \in Items |-> Holder(j)] EXCEPT ![i] = None]
  BY <1>1, ReleaseClearsHolder
<1> HIDE DEF i
<1>5. Abs!QNack(i)
  BY <1>1, <1>2, <1>3, <1>4 DEF Abs!QNack, Abs!QSettle
<1>. QED  BY <1>5 DEF i

(* A crash orphans what the workers of the process hold. *)
LEMMA CrashRefines ==
  ASSUME IInv, NEW p \in Processes, Crash(p)
  PROVE  \E W \in SUBSET Workers : Abs!QOrphan(W)
<1> DEFINE W == {w \in Workers : ProcessOf[w] = p}
<1>1. /\ job' = [w \in Workers |-> IF ProcessOf[w] = p THEN None ELSE job[w]]
      /\ UNCHANGED <<status, attempts>> /\ ClaimExclusive
  BY DEF Crash, rowVars, IInv
<1>2. ASSUME NEW i \in Items
      PROVE  Holder(i)' = IF Holder(i) \in W THEN None ELSE Holder(i)
  <2>1. CASE \E w \in Workers : job[w] = i
    <3> PICK w \in Workers : job[w] = i
      BY <2>1
    <3>1. \A v \in Workers : job[v] = i => v = w
      BY <1>1, OneHolder
    <3>2. Holder(i) = w
      BY <3>1, HolderInIs DEF Holder
    <3>3. CASE w \in W
      <4>1. \A v \in Workers : job'[v] # i
        BY <1>1, <3>1, <3>3, NoneIsNoItem
      <4>. QED  BY <3>2, <3>3, <4>1, HolderInNone DEF Holder
    <3>4. CASE w \notin W
      <4>1. job'[w] = i /\ \A v \in Workers : job'[v] = i => v = w
        BY <1>1, <3>1, <3>4, NoneIsNoItem
      <4>. QED  BY <3>2, <3>4, <4>1, HolderInIs DEF Holder
    <3>. QED  BY <3>3, <3>4
  <2>2. CASE ~\E w \in Workers : job[w] = i
    <3>1. \A w \in Workers : job[w] # i /\ job'[w] # i
      BY <1>1, <2>2, NoneIsNoItem
    <3>. QED  BY <3>1, HolderInNone DEF Holder
  <2>. QED  BY <2>1, <2>2
<1>3. Abs!QOrphan(W)
  BY <1>1, <1>2 DEF Abs!QOrphan
<1>. QED  BY <1>3

(* reclaim_stale() with nobody at work reclaims orphans only. *)
LEMMA ReclaimRefines ==
  ASSUME \A w \in Workers : job[w] = None, ReclaimStale, UNCHANGED loopVars
  PROVE  \E S \in SUBSET Items : Abs!QReclaim(S)
<1> DEFINE S == {i \in Items : status[i] = "claimed"}
<1>1. /\ \A w \in Workers : job[w] = None
      /\ job' = job /\ attempts' = attempts
      /\ status' = [i \in Items |-> IF i \in S THEN "pending" ELSE status[i]]
  BY DEF ReclaimStale, loopVars
<1>2. ASSUME NEW i \in Items PROVE Holder(i) = None /\ Holder(i)' = Holder(i)
  BY <1>1, NoneIsNoItem, HolderInNone DEF Holder
<1>3. Abs!QReclaim(S)
  BY <1>1, <1>2 DEF Abs!QReclaim
<1>. QED  BY <1>3

(* The SELECT of nack(), a process that ends or joins: nothing the abstract *)
(* queue sees.                                                             *)
LEMMA InvisibleSteps ==
  ASSUME \/ \E w \in Workers : NackRead(w)
         \/ \E p \in Processes : Exit(p) \/ Join(p)
         \/ UNCHANGED vars
  PROVE  UNCHANGED Abs!absVars
<1>1. UNCHANGED <<status, attempts, job>>
  BY DEF NackRead, Exit, Join, vars, rowVars, loopVars
<1>. QED  BY <1>1 DEF Abs!absVars, Holder, HolderIn

(* What is left are the steps of enqueue, of the workers and of a crash. *)
LEMMA NextRefines ==
  ASSUME IInv,
         \/ [\E i \in Items : Enqueue(i)]_vars
         \/ \E w \in Workers : Dequeue(w) \/ Ack(w) \/ NackRead(w) \/ NackWrite(w)
         \/ \E p \in Processes : Crash(p)
  PROVE  Abs!QNext \/ UNCHANGED Abs!absVars
<1>1. ASSUME NEW i \in Items, Enqueue(i) PROVE Abs!QNext
  BY <1>1, EnqueueRefines DEF Abs!QNext
<1>2. ASSUME NEW w \in Workers, Dequeue(w) PROVE Abs!QNext
  BY <1>2, DequeueRefines DEF Abs!QNext
<1>3. ASSUME NEW w \in Workers, Ack(w) PROVE Abs!QNext
  BY <1>3, AckRefines DEF Abs!QNext, Ack, IInv, TypeOK
<1>4. ASSUME NEW w \in Workers, NackWrite(w) PROVE Abs!QNext
  <2>1. job[w] \in Items
    BY <1>4 DEF NackWrite, IInv, TypeOK, NackReadsCurrent
  <2>2. Abs!QNack(job[w])
    BY <1>4, NackWriteRefines
  <2>. QED  BY <2>1, <2>2 DEF Abs!QNext
<1>5. ASSUME NEW p \in Processes, Crash(p) PROVE Abs!QNext
  BY <1>5, CrashRefines DEF Abs!QNext
<1>6. ASSUME (\E w \in Workers : NackRead(w)) \/ UNCHANGED vars
      PROVE  UNCHANGED Abs!absVars
  BY <1>6, InvisibleSteps
<1>. QED  BY <1>1, <1>2, <1>3, <1>4, <1>5, <1>6

(***************************************************************************)
(* The SQLite queue implements the abstract task queue: the holder of an   *)
(* item is the live worker that has it in hand.                            *)
(***************************************************************************)
THEOREM Implements == ~Takeover => (Spec => ImplementsTaskQueue)
<1> SUFFICES ASSUME ~Takeover PROVE Spec => ImplementsTaskQueue
  OBVIOUS
<1>1. Init => Abs!QInit
  BY InitRefines
<1>2. IInv /\ [Next]_vars => [Abs!QNext]_(Abs!absVars)
  <2> SUFFICES ASSUME IInv, [Next]_vars
               PROVE  Abs!QNext \/ UNCHANGED Abs!absVars
    OBVIOUS
  <2>1. ASSUME NEW p \in Processes, Resume(p) PROVE Abs!QNext
    BY <2>1, ReclaimRefines DEF Abs!QNext, Resume
  <2>2. ASSUME NEW p \in Processes, Exit(p) \/ Join(p) PROVE UNCHANGED Abs!absVars
    BY <2>2, InvisibleSteps
  <2>. QED  BY <2>1, <2>2, NextRefines DEF Next
<1>. QED
  BY <1>1, <1>2, Inductive, PTL DEF Spec, ImplementsTaskQueue, Abs!QSpec
-----------------------------------------------------------------------------
(***************************************************************************)
(* RunWorkflow.  The queue's part of every step is proved above; what is   *)
(* added here is the coroutines, the memory and samples.jsonl.             *)
(***************************************************************************)
USE RunAssumption

(* Where a coroutine is, what it has in hand and what it knows of it. *)
LoopsAgree ==
  \A w \in Workers :
    /\ wpc[w] \in {"run", "record", "settle"} <=> job[w] # None
    /\ wpc[w] \in {"record", "settle"} => outcome[w] \in Outcomes
    /\ wpc[w] = "record" => outcome[w] # "raise"
    /\ wpc[w] = "settle" /\ outcome[w] # "raise" => job[w] \in completed
    /\ seen[w] # None => wpc[w] = "settle"

(* Coroutines run only while the run drains; a crash ends the process. *)
PhasesAgree ==
  /\ phase # "drain" => \A w \in Workers : wpc[w] = "exit"
  /\ \A p \in Processes : up[p] <=> phase # "down"

(* A row stays claimed without a coroutine only after a crash. *)
ClaimsAreHeld ==
  phase # "down" => \A i \in Items : status[i] = "claimed" => Held(i)

(* The completed ids are the recorded ones and those that lost their line. *)
LogAgrees ==
  /\ OneLineEach(Content(log))
  /\ \A i \in Items : status[i] = "done" => i \in Recorded \cup lost
  /\ completed \subseteq Recorded \cup lost
  /\ phase # "down" => Recorded \subseteq completed

CountersAgree ==
  /\ \E t, q \in Nat : q <= t /\ counters = Counters(t, q)
  /\ phase # "down" /\ completed = Recorded => counters = LoadCounters(Content(log))

(* An interrupted append loses its own sample, and may leave an unended    *)
(* line for which the next append pays.                                    *)
AtRisk == lost \cup Logged(log.tail)

LossesAccounted ==
  Cardinality(AtRisk) + (IF log.tail = <<>> THEN 0 ELSE 1) <= 2 * (crashes + failures)

FinishedSettled ==
  phase \in {"finalize", "finished"} /\ ~stop =>
    \A i \in Items : status[i] \in Settled \cup {"absent"}

RunIInv ==
  /\ IInv
  /\ RunTypeOK
  /\ LoopsAgree
  /\ PhasesAgree
  /\ ClaimsAreHeld
  /\ LogAgrees
  /\ CountersAgree
  /\ LossesAccounted
  /\ FinishedSettled
  /\ ManifestMatchesTotals
-----------------------------------------------------------------------------
LEMMA ItemsAreFinite == IsFiniteSet(Items)
  BY FS_Interval DEF Items

LEMMA ZeroIsNoItem == 0 \notin Items /\ None \notin Items
  BY DEF Items

(* What one more line adds to the two readers of samples.jsonl. *)
LEMMA AppendedLog ==
  ASSUME NEW s \in Seq(Lines(Items)), NEW l \in Lines(Items)
  PROVE  /\ Append(s, l) \in Seq(Lines(Items))
         /\ Logged(Append(s, l)) = Logged(s) \cup ({l.sid} \ {0})
         /\ OneLineEach(s) /\ l.sid \notin Logged(s) => OneLineEach(Append(s, l))
         /\ l.sid \notin Logged(s) =>
              FirstPassed(Append(s, l)) =
                FirstPassed(s) \cup (IF l.pass THEN {l.sid} \ {0} ELSE {})
<1> DEFINE t == Append(s, l)
           n == Len(s)
<1>1. /\ n \in Nat /\ DOMAIN s = 1..n /\ DOMAIN t = 1..(n + 1)
      /\ t \in Seq(Lines(Items)) /\ t[n + 1] = l /\ \A k \in 1..n : t[k] = s[k]
  OBVIOUS
<1> HIDE DEF t, n
<1>2. \A k \in 1..(n + 1) : k \in 1..n \/ k = n + 1
  BY <1>1
<1>3. \A k \in 1..n : k \in 1..(n + 1) /\ k < n + 1
  BY <1>1
<1>4. n + 1 \in 1..(n + 1)
  BY <1>1
<1>5. Logged(t) = Logged(s) \cup ({l.sid} \ {0})
  BY <1>1, <1>2, <1>3, <1>4 DEF Logged
<1>6. ASSUME OneLineEach(s), l.sid \notin Logged(s)
      PROVE  OneLineEach(t)
  <2> SUFFICES ASSUME NEW j \in 1..(n + 1), NEW k \in 1..(n + 1),
                      t[j].sid = t[k].sid, t[j].sid # 0
               PROVE  j = k
    BY <1>1 DEF OneLineEach
  <2>1. ASSUME NEW m \in 1..n, t[m].sid = l.sid, l.sid # 0 PROVE FALSE
    BY <1>1, <1>6, <2>1 DEF Logged
  <2>2. CASE j \in 1..n /\ k \in 1..n
    BY <1>1, <1>6, <2>2 DEF OneLineEach
  <2>3. CASE j = n + 1 \/ k = n + 1
    BY <1>1, <1>2, <2>1, <2>3
  <2> QED BY <1>2, <2>2, <2>3
<1>7. ASSUME l.sid \notin Logged(s)
      PROVE  FirstPassed(t) = FirstPassed(s) \cup (IF l.pass THEN {l.sid} \ {0} ELSE {})
  <2>1. ASSUME NEW k \in 1..n PROVE IsFirst(t, k) <=> IsFirst(s, k)
    <3>1. \A j \in 1..(k - 1) : j \in 1..n
      BY <1>1
    <3> QED BY <1>1, <3>1 DEF IsFirst
  <2>2. l.sid # 0 => IsFirst(t, n + 1)
    <3>1. (n + 1) - 1 = n
      BY <1>1
    <3> QED BY <1>1, <1>7, <3>1 DEF IsFirst, Logged
  <2>3. FirstPassed(t) \subseteq FirstPassed(s) \cup (IF l.pass THEN {l.sid} \ {0} ELSE {})
    BY <1>1, <1>2, <2>1 DEF FirstPassed
  <2>4. FirstPassed(s) \subseteq FirstPassed(t)
    BY <1>1, <1>3, <2>1 DEF FirstPassed
  <2>5. l.pass => {l.sid} \ {0} \subseteq FirstPassed(t)
    BY <1>1, <1>4, <2>2 DEF FirstPassed
  <2> QED BY <2>3, <2>4, <2>5
<1> QED BY <1>1, <1>5, <1>6, <1>7 DEF t

(* The readers return samples, finitely many, and the passed among them. *)
LEMMA LoggedAreItems ==
  ASSUME NEW s \in Seq(Lines(Items))
  PROVE  /\ Logged(s) \subseteq Items /\ FirstPassed(s) \subseteq Logged(s)
         /\ IsFiniteSet(Logged(s)) /\ IsFiniteSet(FirstPassed(s))
         /\ Cardinality(Logged(s)) \in Nat /\ Cardinality(FirstPassed(s)) \in Nat
         /\ Cardinality(FirstPassed(s)) <= Cardinality(Logged(s))
<1>1. \A k \in DOMAIN s : s[k] \in Lines(Items)
  OBVIOUS
<1>2. Logged(s) \subseteq Items
  BY <1>1 DEF Logged, Lines
<1>3. FirstPassed(s) \subseteq Logged(s)
  BY DEF FirstPassed, Logged
<1>4. IsFiniteSet(Logged(s))
  BY <1>2, ItemsAreFinite, FS_Subset
<1>5. IsFiniteSet(FirstPassed(s)) /\ Cardinality(FirstPassed(s)) <= Cardinality(Logged(s))
  BY <1>3, <1>4, FS_Subset
<1> QED BY <1>2, <1>3, <1>4, <1>5, FS_CardinalityType

LEMMA OneLog ==
  ASSUME NEW l
  PROVE  /\ Logged(<<l>>) = {l.sid} \ {0} /\ <<l>> # <<>>
         /\ \A m : <<m>> = <<l>> => m = l
<1>1. DOMAIN <<l>> = {1} /\ <<l>>[1] = l
  OBVIOUS
<1>2. Logged(<<l>>) = {l.sid} \ {0}
  BY <1>1 DEF Logged
<1>3. ASSUME NEW m, <<m>> = <<l>> PROVE m = l
  <2>1. <<m>>[1] = m
    OBVIOUS
  <2> QED BY <1>1, <1>3, <2>1
<1> QED BY <1>2, <1>3

(* The readers see the ended lines and the unended one alike. *)
LEMMA ContentIs ==
  ASSUME NEW f \in Logs(Items)
  PROVE  /\ Content(f) \in Seq(Lines(Items)) /\ f.ended \in Seq(Lines(Items))
         /\ f.tail = <<>> => Content(f) = f.ended
         /\ \A l \in Lines(Items) : f.tail = <<l>> => Content(f) = Append(f.ended, l)
         /\ f.tail = <<>> \/ \E l \in Lines(Items) : f.tail = <<l>>
         /\ Logged(Content(f)) = Logged(f.ended) \cup Logged(f.tail)
         /\ Logged(f.tail) \subseteq Items
         /\ OneLineEach(Content(f)) => OneLineEach(f.ended)
<1>1. f.ended \in Seq(Lines(Items)) /\ (f.tail = <<>> \/ \E l \in Lines(Items) : f.tail = <<l>>)
  BY DEF Logs
<1>2. Logged(<<>>) = {}
  BY DEF Logged
<1>3. CASE f.tail = <<>>
  <2>1. Content(f) = f.ended
    BY <1>1, <1>3 DEF Content
  <2>2. \A l \in Lines(Items) : f.tail # <<l>>
    BY <1>3
  <2> QED BY <1>1, <1>2, <1>3, <2>1, <2>2
<1>4. ASSUME NEW l \in Lines(Items), f.tail = <<l>>
      PROVE  /\ Content(f) = Append(f.ended, l) /\ f.tail # <<>>
             /\ Logged(f.tail) = {l.sid} \ {0} /\ Logged(f.tail) \subseteq Items
             /\ OneLineEach(Content(f)) => OneLineEach(f.ended)
             /\ \A m \in Lines(Items) : f.tail = <<m>> => m = l
  <2>1. Content(f) = Append(f.ended, l)
    BY <1>1, <1>4 DEF Content
  <2>2. Logged(f.tail) = {l.sid} \ {0} /\ f.tail # <<>>
    BY <1>4, OneLog
  <2>3. l.sid \in Items \cup {0}
    BY DEF Lines
  <2>5. Logged(f.tail) \subseteq Items
    BY <2>2, <2>3
  <2>6. \A m \in Lines(Items) : f.tail = <<m>> => m = l
    BY <1>4, OneLog
  <2>4. ASSUME OneLineEach(Content(f)) PROVE OneLineEach(f.ended)
    <3>1. /\ \A k \in DOMAIN f.ended : Content(f)[k] = f.ended[k]
          /\ DOMAIN f.ended \subseteq DOMAIN Content(f)
      BY <1>1, <2>1
    <3> QED BY <2>4, <3>1 DEF OneLineEach
  <2> QED BY <2>1, <2>2, <2>4, <2>5, <2>6
<1>5. ASSUME NEW l \in Lines(Items), f.tail = <<l>>
      PROVE  /\ Content(f) \in Seq(Lines(Items))
             /\ Logged(Content(f)) = Logged(f.ended) \cup Logged(f.tail)
  <2>1. PICK s \in Seq(Lines(Items)) : s = f.ended
    BY <1>1
  <2>2. /\ Append(s, l) \in Seq(Lines(Items))
        /\ Logged(Append(s, l)) = Logged(s) \cup ({l.sid} \ {0})
    BY AppendedLog
  <2>3. Content(f) = Append(s, l) /\ Logged(f.tail) = {l.sid} \ {0}
    BY <1>4, <1>5, <2>1
  <2> QED BY <2>1, <2>2, <2>3
<1>6. CASE \E l \in Lines(Items) : f.tail = <<l>>
  <2>1. PICK l \in Lines(Items) : f.tail = <<l>>
    BY <1>6
  <2>2. /\ Content(f) = Append(f.ended, l) /\ f.tail # <<>>
        /\ Logged(f.tail) \subseteq Items
        /\ OneLineEach(Content(f)) => OneLineEach(f.ended)
        /\ \A m \in Lines(Items) : f.tail = <<m>> => m = l
    BY <1>4, <2>1
  <2>3. /\ Content(f) \in Seq(Lines(Items))
        /\ Logged(Content(f)) = Logged(f.ended) \cup Logged(f.tail)
    BY <1>5, <2>1
  <2> QED BY <1>1, <1>6, <2>2, <2>3
<1> QED BY <1>1, <1>3, <1>6

(* What an append of a new sample's line, whole or interrupted, leaves.    *)
LEMMA WrittenLog ==
  ASSUME NEW f \in Logs(Items), NEW i \in Items, NEW b \in BOOLEAN,
         i \notin Logged(Content(f)), OneLineEach(Content(f)),
         NEW g \in Interrupted(f, Line(i, b))
  PROVE  /\ g \in Logs(Items) /\ OneLineEach(Content(g))
         /\ Logged(f.ended) \subseteq Logged(g.ended)
         /\ Logged(Content(g)) \subseteq Logged(Content(f)) \cup {i}
         /\ Logged(g.tail) \subseteq Logged(f.tail) \cup {i}
         /\ i \in Logged(Content(g)) =>
              /\ Logged(Content(g)) = Logged(Content(f)) \cup {i}
              /\ FirstPassed(Content(g)) =
                   FirstPassed(Content(f)) \cup (IF b THEN {i} ELSE {})
         /\ f.tail = <<>> /\ g = Appended(f, Line(i, b)) => i \in Logged(Content(g))
<1> DEFINE l == Line(i, b)
<1>1. /\ Junk \in Lines(Items) /\ Junk.sid = 0
      /\ l \in Lines(Items) /\ l.sid = i /\ l.pass = b /\ i # 0
  BY ZeroIsNoItem DEF Lines, Junk, Line
<1>2. /\ f.ended \in Seq(Lines(Items)) /\ OneLineEach(f.ended)
      /\ Logged(Content(f)) = Logged(f.ended) \cup Logged(f.tail)
      /\ f.tail = <<>> => Content(f) = f.ended
  BY ContentIs
<1>3. Logged(<<>>) = {} /\ Logged(<<Junk>>) = {} /\ Logged(<<l>>) = {i}
  <2>1. Logged(<<>>) = {}
    BY DEF Logged
  <2>2. Logged(<<Junk>>) = {Junk.sid} \ {0} /\ Logged(<<l>>) = {l.sid} \ {0}
    BY OneLog
  <2>3. {Junk.sid} \ {0} = {}
    BY <1>1
  <2>4. {l.sid} \ {0} = {i}
    BY <1>1
  <2> QED BY <2>1, <2>2, <2>3, <2>4
<1> HIDE DEF l
<1>4. /\ Append(f.ended, Junk) \in Seq(Lines(Items)) /\ OneLineEach(Append(f.ended, Junk))
      /\ Logged(Append(f.ended, Junk)) = Logged(f.ended)
  <2>1. {Junk.sid} \ {0} = {} /\ Junk.sid \notin Logged(f.ended)
    BY <1>1 DEF Logged
  <2>2. PICK s \in Seq(Lines(Items)) : s = f.ended
    BY <1>2
  <2>3. /\ Append(s, Junk) \in Seq(Lines(Items)) /\ OneLineEach(Append(s, Junk))
        /\ Logged(Append(s, Junk)) = Logged(s) \cup ({Junk.sid} \ {0})
    BY <1>1, <1>2, <2>1, <2>2, AppendedLog
  <2> QED BY <2>1, <2>2, <2>3
<1>5. /\ Append(f.ended, l) \in Seq(Lines(Items)) /\ OneLineEach(Append(f.ended, l))
      /\ Logged(Append(f.ended, l)) = Logged(f.ended) \cup {i}
      /\ FirstPassed(Append(f.ended, l)) = FirstPassed(f.ended) \cup (IF b THEN {i} ELSE {})
  <2>1. {i} \ {0} = {i} /\ i \notin Logged(f.ended)
    BY <1>1, <1>2
  <2> QED BY <1>1, <1>2, <2>1, AppendedLog
<1>6. ASSUME NEW h \in Logs(Items) PROVE /\ h.tail = <<>> => Content(h) = h.ended
                                         /\ h.tail = <<Junk>> => Content(h) = Append(h.ended, Junk)
                                         /\ h.tail = <<l>> => Content(h) = Append(h.ended, l)
  BY <1>1, ContentIs
<1>7. CASE g = f
  BY <1>2, <1>3, <1>7 DEF Appended
<1>8. CASE g = [f EXCEPT !.tail = <<Junk>>]
  <2>1. g.ended = f.ended /\ g.tail = <<Junk>> /\ g \in Logs(Items) /\ g.tail # <<>>
    BY <1>1, <1>8 DEF Logs
  <2>2. Content(g) = Append(f.ended, Junk)
    BY <1>6, <2>1
  <2>3. g # Appended(f, Line(i, b))
    BY <2>1 DEF Appended
  <2> QED BY <1>2, <1>3, <1>4, <2>1, <2>2, <2>3
<1>9. CASE f.tail = <<>> /\ g = [f EXCEPT !.tail = <<l>>]
  <2>1. g.ended = f.ended /\ g.tail = <<l>> /\ g \in Logs(Items)
    BY <1>1, <1>9 DEF Logs
  <2>2. Content(g) = Append(f.ended, l) /\ Content(f) = f.ended
    BY <1>2, <1>6, <1>9, <2>1
  <2> QED BY <1>2, <1>3, <1>5, <1>9, <2>1, <2>2
<1>10. CASE g = Appended(f, l) /\ f.tail = <<>>
  <2>1. g.ended = Append(f.ended, l) /\ g.tail = <<>> /\ g \in Logs(Items)
    BY <1>5, <1>10 DEF Appended, Logs
  <2>2. Content(g) = Append(f.ended, l) /\ Content(f) = f.ended
    BY <1>2, <1>6, <1>10, <2>1
  <2> QED BY <1>2, <1>3, <1>5, <1>10, <2>1, <2>2
<1>11. CASE g = Appended(f, l) /\ f.tail # <<>>
  <2>1. g.ended = Append(f.ended, Junk) /\ g.tail = <<>> /\ g \in Logs(Items)
    BY <1>4, <1>11 DEF Appended, Logs
  <2>2. Content(g) = Append(f.ended, Junk)
    BY <1>6, <2>1
  <2> QED BY <1>2, <1>3, <1>4, <1>11, <2>1, <2>2
<1> QED
  <2>1. \/ g = f \/ g = [f EXCEPT !.tail = <<Junk>>] \/ g = Appended(f, l)
        \/ f.tail = <<>> /\ g = [f EXCEPT !.tail = <<l>>]
    BY DEF Interrupted, l
  <2> QED BY <1>7, <1>8, <1>9, <1>10, <1>11, <2>1

(* With one line for each sample, the first is the last. *)
LEMMA ReadersAgree ==
  ASSUME NEW s \in Seq(Lines(Items)), OneLineEach(s)
  PROVE  LastPassed(s) = FirstPassed(s)
<1>1. ASSUME NEW k \in DOMAIN s, s[k].sid # 0 PROVE IsFirst(s, k) /\ IsLast(s, k)
  <2>1. /\ \A j \in 1..(k - 1) : j \in DOMAIN s /\ j # k
        /\ \A j \in (k + 1)..Len(s) : j \in DOMAIN s /\ j # k
    OBVIOUS
  <2> QED BY <1>1, <2>1 DEF IsFirst, IsLast, OneLineEach
<1> QED BY <1>1 DEF LastPassed, FirstPassed
-----------------------------------------------------------------------------
LEMMA InitRunIInv == RunInit => RunIInv
<1> SUFFICES ASSUME RunInit PROVE RunIInv
  OBVIOUS
<1> USE DEF RunInit
<1>1. IInv
  BY InitIInv
<1>2. Logged(<<>>) = {} /\ FirstPassed(<<>>) = {} /\ LastPassed(<<>>) = {}
  BY DEF Logged, FirstPassed, LastPassed
<1>3. IsFiniteSet({}) /\ Cardinality({}) = 0
  BY FS_EmptySet
<1>4. counters = Counters(0, 0) /\ Counters(0, 0) = [total |-> 0, passed |-> 0, failed |-> 0]
  BY DEF Counters
<1>5. RunTypeOK
  <2>1. counters \in [total : Nat, passed : Nat, failed : Nat]
    BY <1>4
  <2>2. log \in Logs(Items) /\ failures \in Nat
    BY RunAssumption DEF EmptyLog, Logs
  <2>3. outcome \in [Workers -> Outcomes \cup {None}] /\ stop \in BOOLEAN
    OBVIOUS
  <2>4. wpc \in [Workers -> {"loop", "run", "record", "settle", "exit"}]
    OBVIOUS
  <2> QED BY <2>1, <2>2, <2>3, <2>4 DEF RunTypeOK
<1>6. LoopsAgree /\ PhasesAgree /\ ClaimsAreHeld /\ FinishedSettled
  BY DEF Init, LoopsAgree, PhasesAgree, ClaimsAreHeld, FinishedSettled
<1>10. Content(log) = <<>> /\ Recorded = {} /\ log.tail = <<>> /\ AtRisk = {}
  BY <1>2 DEF Content, EmptyLog, Recorded, AtRisk
<1>7. LogAgrees /\ LossesAccounted
  <2>1. crashes = 0 /\ failures = 0
    BY DEF Init
  <2> QED BY <1>3, <1>10, <2>1 DEF Init, LogAgrees, LossesAccounted, OneLineEach
<1>8. CountersAgree
  <2>1. 0 \in Nat /\ 0 <= 0 /\ counters = Counters(0, 0)
    OBVIOUS
  <2> QED BY <1>2, <1>3, <1>10, <2>1 DEF CountersAgree, LoadCounters
<1>9. ManifestMatchesTotals
  BY <1>2, <1>3 DEF ManifestMatchesTotals, NoManifest, Summary
<1> QED BY <1>1, <1>5, <1>6, <1>7, <1>8, <1>9 DEF RunIInv

(* Steps that neither record a result nor read one back. *)
LEMMA LogKept ==
  ASSUME RunIInv, UNCHANGED <<fileVars, memVars, manifest, crashes>>,
         phase' # "down", phase # "down",
         \A i \in Items : status'[i] = "done" => status[i] = "done" \/ i \in completed
  PROVE  LogAgrees' /\ CountersAgree' /\ LossesAccounted' /\ ManifestMatchesTotals'
<1> USE DEF fileVars, memVars, RunIInv
<1>1. LogAgrees'
  BY DEF LogAgrees, Recorded
<1>2. CountersAgree'
  BY DEF CountersAgree, Recorded
<1>3. LossesAccounted' /\ ManifestMatchesTotals'
  BY DEF LossesAccounted, AtRisk, ManifestMatchesTotals
<1> QED BY <1>1, <1>2, <1>3

(* The rows go in while no coroutine runs. *)
LEMMA EnqueueRowIInv ==
  ASSUME RunIInv, NEW i \in Items, EnqueueRow(i)
  PROVE  RunIInv'
<1> USE DEF RunIInv
<1>1. IInv'
  BY EnqueueIInv DEF EnqueueRow
<1>2. /\ phase = "enqueue" /\ status[i] = "absent"
      /\ status' = [status EXCEPT ![i] = "pending"]
      /\ UNCHANGED <<job, seen, up, crashes, runVars>>
  BY DEF EnqueueRow, Enqueue, loopVars, procVars
<1>3. \A j \in Items : status'[j] = status[j] \/ status'[j] = "pending"
  BY <1>2 DEF IInv, TypeOK
<1>4. RunTypeOK' /\ LoopsAgree' /\ PhasesAgree' /\ FinishedSettled'
  BY <1>2 DEF runVars, fileVars, memVars, RunTypeOK, LoopsAgree, PhasesAgree, FinishedSettled
<1>5. ClaimsAreHeld'
  BY <1>2, <1>3 DEF ClaimsAreHeld, Held, runVars
<1>6. LogAgrees' /\ CountersAgree' /\ LossesAccounted' /\ ManifestMatchesTotals'
  BY <1>2, <1>3, LogKept DEF runVars
<1> QED BY <1>1, <1>4, <1>5, <1>6

(* Steps of the coroutines and of execute() that leave the queue alone. *)
LEMMA ControlIInv ==
  ASSUME RunIInv, UNCHANGED <<vars, fileVars, memVars, manifest, outcome>>,
         phase' \in {"drain", "finalize"}, phase \in {"enqueue", "drain"},
         wpc' \in [Workers -> {"loop", "run", "record", "settle", "exit"}],
         \A w \in Workers : wpc'[w] = wpc[w] \/ {wpc[w], wpc'[w]} \subseteq {"loop", "exit"},
         phase' # "drain" => \A w \in Workers : wpc'[w] = "exit",
         stop' \in BOOLEAN, FinishedSettled'
  PROVE  RunIInv'
<1> USE DEF RunIInv
<1>1. UNCHANGED <<status, job, seen, up, crashes>>
  BY DEF vars, rowVars, loopVars, procVars
<1>2. IInv'
  BY StutterIInv
<1>3. RunTypeOK'
  BY DEF RunTypeOK, fileVars, memVars
<1>4. LoopsAgree'
  BY <1>1 DEF LoopsAgree, memVars
<1>5. PhasesAgree' /\ ClaimsAreHeld'
  BY <1>1 DEF PhasesAgree, ClaimsAreHeld, Held
<1>6. LogAgrees' /\ CountersAgree' /\ LossesAccounted' /\ ManifestMatchesTotals'
  BY <1>1, LogKept
<1> QED BY <1>2, <1>3, <1>4, <1>5, <1>6

LEMMA SpawnIInv == RunIInv /\ SpawnWorkers => RunIInv'
  BY ControlIInv DEF SpawnWorkers, SpawnAll, FinishedSettled, RunIInv, RunTypeOK, PhasesAgree

LEMMA WorkerExitIInv ==
  ASSUME RunIInv, NEW w \in Workers, WorkerExit(w)
  PROVE  RunIInv'
<1>1. /\ wpc' = [wpc EXCEPT ![w] = "exit"] /\ wpc[w] = "loop" /\ phase = "drain"
      /\ wpc \in [Workers -> {"loop", "run", "record", "settle", "exit"}]
      /\ UNCHANGED <<vars, phase, outcome, fileVars, memVars, stop, manifest>>
  BY DEF WorkerExit, Goto, RunIInv, RunTypeOK
<1>2. FinishedSettled' /\ stop' \in BOOLEAN
  BY <1>1 DEF FinishedSettled, RunIInv, RunTypeOK
<1>3. /\ wpc' \in [Workers -> {"loop", "run", "record", "settle", "exit"}]
      /\ \A v \in Workers : wpc'[v] = wpc[v] \/ {wpc[v], wpc'[v]} \subseteq {"loop", "exit"}
  BY <1>1
<1> QED BY <1>1, <1>2, <1>3, ControlIInv

(* gather() returned: nothing is in hand, so with nothing pending all that *)
(* was enqueued is settled.                                                *)
LEMMA RoundEndsIInv == RunIInv /\ RoundEnds => RunIInv'
<1> SUFFICES ASSUME RunIInv, RoundEnds PROVE RunIInv'
  OBVIOUS
<1> USE DEF RunIInv
<1>1. /\ phase = "drain" /\ \A w \in Workers : wpc[w] = "exit"
      /\ \/ phase' = "finalize" /\ wpc' = wpc /\ (stop \/ Pending = {})
         \/ phase' = "drain" /\ wpc' = [w \in Workers |-> "loop"]
      /\ UNCHANGED <<vars, outcome, fileVars, memVars, stop, manifest>>
  BY DEF RoundEnds, SpawnAll
<1>2. \A i \in Items : status[i] # "claimed"
  BY <1>1, ZeroIsNoItem DEF ClaimsAreHeld, Held, LoopsAgree
<1>3. FinishedSettled'
  <2>1. status' = status /\ stop' = stop /\ status \in [Items -> Status]
    BY <1>1 DEF vars, rowVars, IInv, TypeOK
  <2> QED BY <1>1, <1>2, <2>1 DEF FinishedSettled, Pending, Settled, Status
<1>4. /\ wpc' \in [Workers -> {"loop", "run", "record", "settle", "exit"}]
      /\ \A v \in Workers : wpc'[v] = wpc[v] \/ {wpc[v], wpc'[v]} \subseteq {"loop", "exit"}
      /\ stop' \in BOOLEAN
  <2>1. wpc \in [Workers -> {"loop", "run", "record", "settle", "exit"}] /\ stop \in BOOLEAN
    BY DEF RunTypeOK
  <2>2. CASE wpc' = wpc
    BY <1>1, <2>1, <2>2
  <2>3. CASE wpc' = [w \in Workers |-> "loop"]
    BY <1>1, <2>1, <2>3
  <2> QED BY <1>1, <2>2, <2>3
<1> QED BY <1>1, <1>3, <1>4, ControlIInv

LEMMA SigtermIInv == RunIInv /\ Sigterm => RunIInv'
<1> SUFFICES ASSUME RunIInv, Sigterm PROVE RunIInv'
  OBVIOUS
<1> USE DEF RunIInv
<1>1. /\ phase \in {"enqueue", "drain"} /\ stop' = TRUE
      /\ UNCHANGED <<vars, phase, wpc, outcome, fileVars, memVars, manifest>>
  BY DEF Sigterm
<1>2. IInv'
  BY <1>1, StutterIInv
<1>3. UNCHANGED <<status, job, seen, up, crashes>>
  BY <1>1 DEF vars, rowVars, loopVars, procVars
<1>4. RunTypeOK' /\ LoopsAgree' /\ PhasesAgree' /\ ClaimsAreHeld' /\ FinishedSettled'
  BY <1>1, <1>3 DEF RunTypeOK, LoopsAgree, PhasesAgree, ClaimsAreHeld, Held, FinishedSettled,
                    fileVars, memVars
<1>5. LogAgrees' /\ CountersAgree' /\ LossesAccounted' /\ ManifestMatchesTotals'
  BY <1>1, <1>3, LogKept
<1> QED BY <1>2, <1>4, <1>5

(* dequeue(): the claim that appears is held. *)
LEMMA WorkerTakeIInv ==
  ASSUME RunIInv, NEW w \in Workers, WorkerTake(w)
  PROVE  RunIInv'
<1> USE DEF RunIInv
<1>1. IInv'
  BY DequeueIInv DEF WorkerTake
<1>2. PICK i \in Items :
        /\ status[i] = "pending" /\ status' = [status EXCEPT ![i] = "claimed"]
        /\ job' = [job EXCEPT ![w] = i]
  BY DEF WorkerTake, Dequeue, Pending
<1>3. /\ phase = "drain" /\ wpc[w] = "loop" /\ wpc' = [wpc EXCEPT ![w] = "run"]
      /\ UNCHANGED <<seen, up, crashes, phase, outcome, fileVars, memVars, stop, manifest>>
  BY DEF WorkerTake, Goto, Dequeue, procVars
<1>4. RunTypeOK'
  BY <1>3 DEF RunTypeOK, fileVars, memVars
<1>5. LoopsAgree'
  BY <1>2, <1>3, ZeroIsNoItem DEF LoopsAgree, RunTypeOK, IInv, TypeOK, memVars
<1>6. PhasesAgree' /\ FinishedSettled'
  BY <1>3 DEF PhasesAgree, FinishedSettled
<1>7. ClaimsAreHeld'
  <2>1. job[w] = None
    BY <1>3 DEF LoopsAgree
  <2>2. \A v \in Workers \ {w} : job'[v] = job[v]
    BY <1>2 DEF IInv, TypeOK
  <2>3. job'[w] = i
    BY <1>2 DEF IInv, TypeOK
  <2>4. \A j \in Items : Held(j) => Held(j)'
    BY <2>1, <2>2, ZeroIsNoItem DEF Held
  <2>5. Held(i)'
    BY <2>3 DEF Held
  <2>6. \A j \in Items \ {i} : status'[j] = status[j]
    BY <1>2 DEF IInv, TypeOK
  <2> QED BY <1>3, <2>4, <2>5, <2>6 DEF ClaimsAreHeld
<1>8. \A j \in Items : status'[j] = "done" => status[j] = "done"
  BY <1>2 DEF IInv, TypeOK
<1>9. LogAgrees' /\ CountersAgree' /\ LossesAccounted' /\ ManifestMatchesTotals'
  BY <1>3, <1>8, LogKept
<1> QED BY <1>1, <1>4, <1>5, <1>6, <1>7, <1>9

LEMMA WorkerRunIInv ==
  ASSUME RunIInv, NEW w \in Workers, NEW o \in Outcomes, WorkerRun(w, o)
  PROVE  RunIInv'
<1> USE DEF RunIInv
<1>1. /\ wpc[w] = "run" /\ outcome' = [outcome EXCEPT ![w] = o]
      /\ wpc' = [wpc EXCEPT ![w] = IF o = "raise" THEN "settle" ELSE "record"]
      /\ UNCHANGED <<vars, phase, fileVars, memVars, stop, manifest>>
  BY DEF WorkerRun, Goto
<1>2. UNCHANGED <<status, job, seen, up, crashes>>
  BY <1>1 DEF vars, rowVars, loopVars, procVars
<1>3. phase = "drain"
  BY <1>1 DEF PhasesAgree
<1>4. IInv'
  BY <1>1, StutterIInv
<1>5. RunTypeOK'
  BY <1>1 DEF RunTypeOK, fileVars, memVars
<1>6. LoopsAgree'
  BY <1>1, <1>2 DEF LoopsAgree, RunTypeOK, memVars
<1>7. PhasesAgree' /\ FinishedSettled' /\ ClaimsAreHeld'
  BY <1>1, <1>2, <1>3 DEF PhasesAgree, FinishedSettled, ClaimsAreHeld, Held
<1>8. LogAgrees' /\ CountersAgree' /\ LossesAccounted' /\ ManifestMatchesTotals'
  BY <1>1, <1>2, <1>3, LogKept
<1> QED BY <1>4, <1>5, <1>6, <1>7, <1>8

LEMMA TakeAway ==
  ASSUME NEW A, NEW B, NEW i, i \notin A, i \notin B, A \cup {i} = B \cup {i}
  PROVE  A = B
  OBVIOUS

(* Counters one sample on. *)
LEMMA CountIs ==
  ASSUME NEW t \in Nat, NEW q \in Nat, q <= t, NEW b \in BOOLEAN
  PROVE  /\ Count(Counters(t, q), b) = Counters(t + 1, IF b THEN q + 1 ELSE q)
         /\ t + 1 \in Nat /\ (IF b THEN q + 1 ELSE q) \in Nat
         /\ (IF b THEN q + 1 ELSE q) <= t + 1
         /\ Counters(t, q) \in [total : Nat, passed : Nat, failed : Nat]
<1>1. Counters(t, q).total = t /\ Counters(t, q).passed = q
  BY DEF Counters
<1>2. t - q \in Nat
  OBVIOUS
<1>3. Count(Counters(t, q), b) = Counters(t + 1, IF b THEN q + 1 ELSE q)
  BY <1>1 DEF Count
<1> QED BY <1>2, <1>3 DEF Counters

(* _record_result of a sample that is not recorded yet: it is counted, and *)
(* its line is written, in part, or not at all.                            *)
LEMMA RecordFirst ==
  ASSUME RunIInv, NEW i \in Items, NEW b \in BOOLEAN, i \notin completed, phase # "down",
         completed' = completed \cup {i}, counters' = Count(counters, b),
         log' \in Interrupted(log, Line(i, b)), Losing(Recorded \cup {i}),
         UNCHANGED <<status, phase>>
  PROVE  /\ LogAgrees' /\ CountersAgree' /\ log' \in Logs(Items) /\ lost' \subseteq Items
         /\ counters' \in [total : Nat, passed : Nat, failed : Nat]
         /\ AtRisk' \subseteq AtRisk \cup {i}
         /\ log.tail = <<>> /\ log' = Appended(log, Line(i, b)) => lost' = lost
<1> USE DEF RunIInv
<1>1. /\ log \in Logs(Items) /\ lost \subseteq Items /\ completed \subseteq Items
  BY DEF RunTypeOK
<1>2. i \notin Recorded /\ Recorded \subseteq completed /\ OneLineEach(Content(log))
  BY DEF LogAgrees
<1>3. /\ log' \in Logs(Items) /\ OneLineEach(Content(log'))
      /\ Logged(log.ended) \subseteq Logged(log'.ended)
      /\ Recorded' \subseteq Recorded \cup {i}
      /\ Logged(log'.tail) \subseteq Logged(log.tail) \cup {i}
      /\ i \in Recorded' =>
           /\ Recorded' = Recorded \cup {i}
           /\ FirstPassed(Content(log')) =
                FirstPassed(Content(log)) \cup (IF b THEN {i} ELSE {})
      /\ log.tail = <<>> /\ log' = Appended(log, Line(i, b)) => i \in Recorded'
  <2>1. Recorded = Logged(Content(log)) /\ Recorded' = Logged(Content(log'))
    BY DEF Recorded
  <2>2. PICK g \in Interrupted(log, Line(i, b)) : g = log'
    OBVIOUS
  <2>3. /\ g \in Logs(Items) /\ OneLineEach(Content(g))
        /\ Logged(log.ended) \subseteq Logged(g.ended)
        /\ Logged(Content(g)) \subseteq Recorded \cup {i}
        /\ Logged(g.tail) \subseteq Logged(log.tail) \cup {i}
        /\ i \in Logged(Content(g)) =>
             /\ Logged(Content(g)) = Recorded \cup {i}
             /\ FirstPassed(Content(g)) =
                  FirstPassed(Content(log)) \cup (IF b THEN {i} ELSE {})
        /\ log.tail = <<>> /\ g = Appended(log, Line(i, b)) => i \in Logged(Content(g))
    BY <1>1, <1>2, <2>1, WrittenLog
  <2> QED BY <2>1, <2>2, <2>3
<1>4. /\ Recorded = Logged(log.ended) \cup Logged(log.tail)
      /\ Recorded' = Logged(log'.ended) \cup Logged(log'.tail)
  BY <1>1, <1>3, ContentIs DEF Recorded
<1>5. lost' = lost \cup ((Recorded \cup {i}) \ Recorded')
  BY DEF Losing
<1>6. Recorded \subseteq Items
  BY <1>1, <1>2
<1>7. LogAgrees'
  BY <1>2, <1>3, <1>5 DEF LogAgrees
<1>8. AtRisk' \subseteq AtRisk \cup {i}
  BY <1>3, <1>4, <1>5 DEF AtRisk
<1>9. PICK t \in Nat, q \in Nat : q <= t /\ counters = Counters(t, q)
  BY DEF CountersAgree
<1>10. /\ \E u, v \in Nat : v <= u /\ counters' = Counters(u, v)
       /\ counters' \in [total : Nat, passed : Nat, failed : Nat]
  <2> DEFINE v == IF b THEN q + 1 ELSE q
  <2>1. counters' = Counters(t + 1, v) /\ t + 1 \in Nat /\ v \in Nat /\ v <= t + 1
    BY <1>9, CountIs
  <2>2. PICK u \in Nat : u = t + 1
    BY <2>1
  <2> HIDE DEF v
  <2>3. Counters(u, v) \in [total : Nat, passed : Nat, failed : Nat]
    BY <2>1, <2>2, CountIs
  <2> QED BY <2>1, <2>2, <2>3
<1>11. CountersAgree'
  <2> SUFFICES ASSUME completed' = Recorded' PROVE counters' = LoadCounters(Content(log'))
    BY <1>10 DEF CountersAgree
  <2> DEFINE R == Logged(Content(log))
             P == FirstPassed(Content(log))
             R1 == Logged(Content(log'))
             P1 == FirstPassed(Content(log'))
  <2>1. /\ R = Recorded /\ R1 = Recorded'
        /\ LoadCounters(Content(log)) = Counters(Cardinality(R), Cardinality(P))
        /\ LoadCounters(Content(log')) = Counters(Cardinality(R1), Cardinality(P1))
    BY DEF Recorded, LoadCounters
  <2>2. P \subseteq R /\ IsFiniteSet(R) /\ IsFiniteSet(P)
        /\ Cardinality(R) \in Nat /\ Cardinality(P) \in Nat /\ Cardinality(P) <= Cardinality(R)
    BY <1>1, ContentIs, LoggedAreItems
  <2> HIDE DEF R, P, R1, P1
  <2>3. R1 = R \cup {i} /\ P1 = P \cup (IF b THEN {i} ELSE {}) /\ i \notin R
    <3>1. i \in Recorded'
      OBVIOUS
    <3> QED BY <1>2, <1>3, <2>1, <3>1 DEF R, P, P1
  <2>4. completed = R
    BY <1>2, <2>1, <2>3, TakeAway
  <2>5. counters = Counters(Cardinality(R), Cardinality(P))
    BY <2>1, <2>4 DEF CountersAgree
  <2>6. Cardinality(R1) = Cardinality(R) + 1
    BY <2>2, <2>3, FS_AddElement
  <2>7. Cardinality(P1) = IF b THEN Cardinality(P) + 1 ELSE Cardinality(P)
    <3>1. CASE b
      BY <2>2, <2>3, <3>1, FS_AddElement
    <3>2. CASE ~b
      <4>1. P1 = P
        BY <2>3, <3>2
      <4> QED BY <3>2, <4>1
    <3> QED BY <3>1, <3>2
  <2>8. PICK n \in Nat, m \in Nat : n = Cardinality(R) /\ m = Cardinality(P) /\ m <= n
    BY <2>2
  <2>9. Count(Counters(n, m), b) = Counters(n + 1, IF b THEN m + 1 ELSE m)
    <3>1. m <= n
      BY <2>8
    <3> QED BY <3>1, CountIs
  <2> QED BY <2>1, <2>5, <2>6, <2>7, <2>8, <2>9
<1>12. log.tail = <<>> /\ log' = Appended(log, Line(i, b)) => lost' = lost
  BY <1>3, <1>5
<1> QED BY <1>3, <1>1, <1>5, <1>6, <1>7, <1>8, <1>10, <1>11, <1>12

LEMMA RiskIsFinite ==
  ASSUME RunIInv
  PROVE  /\ IsFiniteSet(AtRisk) /\ Cardinality(AtRisk) \in Nat
         /\ crashes \in Nat /\ failures \in Nat
<1>1. log \in Logs(Items) /\ lost \subseteq Items /\ failures \in Nat
  BY DEF RunIInv, RunTypeOK
<1>2. crashes \in Nat
  BY DEF RunIInv, IInv, TypeOK
<1>3. Logged(log.tail) \subseteq Items
  BY <1>1, ContentIs
<1>4. AtRisk \subseteq Items
  BY <1>1, <1>3 DEF AtRisk
<1>5. IsFiniteSet(AtRisk) /\ Cardinality(AtRisk) \in Nat
  BY <1>4, ItemsAreFinite, FS_Subset, FS_CardinalityType
<1> QED BY <1>1, <1>2, <1>5

(* An interrupted append puts one sample at risk, and one unended line.    *)
LEMMA FaultIsPaid ==
  ASSUME RunIInv, NEW i, AtRisk' \subseteq AtRisk \cup {i},
         crashes' + failures' = crashes + failures + 1
  PROVE  LossesAccounted'
<1>1. crashes \in Nat /\ failures \in Nat /\ LossesAccounted
  BY RiskIsFinite DEF RunIInv
<1>2. IsFiniteSet(AtRisk) /\ Cardinality(AtRisk) \in Nat
  BY RiskIsFinite
<1>3. /\ IsFiniteSet(AtRisk \cup {i})
      /\ Cardinality(AtRisk \cup {i}) \in {Cardinality(AtRisk), Cardinality(AtRisk) + 1}
  BY <1>2, FS_AddElement
<1>4. /\ IsFiniteSet(AtRisk') /\ Cardinality(AtRisk') <= Cardinality(AtRisk \cup {i})
      /\ Cardinality(AtRisk') \in Nat
  BY <1>3, FS_Subset, FS_CardinalityType
<1>5. PICK n \in Nat, m \in Nat, c \in Nat :
        /\ n = Cardinality(AtRisk) /\ m = Cardinality(AtRisk') /\ m <= n + 1
        /\ c = crashes + failures /\ n <= 2 * c
  <2>1. Cardinality(AtRisk') <= Cardinality(AtRisk) + 1
    BY <1>2, <1>3, <1>4
  <2>2. Cardinality(AtRisk) <= 2 * (crashes + failures)
    BY <1>1, <1>2 DEF LossesAccounted
  <2>3. crashes + failures \in Nat
    BY <1>1
  <2> QED BY <1>2, <1>4, <2>1, <2>2, <2>3
<1>6. m + 1 <= 2 * (c + 1) /\ m + 0 <= 2 * (c + 1)
  BY <1>5
<1>7. crashes' + failures' = c + 1
  BY <1>5
<1> QED BY <1>5, <1>6, <1>7 DEF LossesAccounted

(* An append that goes through pays for the unended line it met.           *)
LEMMA AppendPays ==
  ASSUME RunIInv, NEW i \in Items, AtRisk' \subseteq AtRisk \cup {i}, log'.tail = <<>>,
         log.tail = <<>> => lost' = lost, UNCHANGED <<crashes, failures>>
  PROVE  LossesAccounted'
<1>1. crashes \in Nat /\ failures \in Nat /\ LossesAccounted
  BY RiskIsFinite DEF RunIInv
<1>2. IsFiniteSet(AtRisk) /\ Cardinality(AtRisk) \in Nat
  BY RiskIsFinite
<1>3. CASE log.tail = <<>>
  <2>1. AtRisk' = AtRisk
    BY <1>3 DEF AtRisk
  <2> QED BY <1>1, <1>3, <2>1 DEF LossesAccounted
<1>4. CASE log.tail # <<>>
  <2>1. /\ IsFiniteSet(AtRisk \cup {i})
        /\ Cardinality(AtRisk \cup {i}) \in {Cardinality(AtRisk), Cardinality(AtRisk) + 1}
    BY <1>2, FS_AddElement
  <2>2. Cardinality(AtRisk') <= Cardinality(AtRisk \cup {i}) /\ Cardinality(AtRisk') \in Nat
    BY <2>1, FS_Subset, FS_CardinalityType
  <2>3. Cardinality(AtRisk) + 1 <= 2 * (crashes + failures)
    BY <1>1, <1>4 DEF LossesAccounted
  <2>4. PICK m \in Nat, n \in Nat : /\ m = Cardinality(AtRisk') /\ n = Cardinality(AtRisk)
                                     /\ m <= n + 1
    BY <1>2, <2>1, <2>2
  <2>5. PICK c \in Nat : c = crashes + failures /\ n + 1 <= 2 * c
    BY <1>1, <2>3, <2>4
  <2>6. m + 0 <= 2 * c
    BY <2>4, <2>5
  <2> QED BY <2>4, <2>5, <2>6 DEF LossesAccounted
<1> QED BY <1>3, <1>4

(* What the recording steps of a coroutine have in common. *)
LEMMA RecordIInv ==
  ASSUME RunIInv, NEW w \in Workers, wpc[w] = "record", wpc' = [wpc EXCEPT ![w] = "settle"],
         outcome' \in [Workers -> Outcomes \cup {None}], outcome'[w] \in Outcomes,
         \A v \in Workers \ {w} : outcome'[v] = outcome[v],
         UNCHANGED <<vars, phase, stop, manifest>>,
         completed' = completed \cup {job[w]}, LogAgrees', CountersAgree', LossesAccounted',
         log' \in Logs(Items), lost' \subseteq Items, failures' \in Nat,
         counters' \in [total : Nat, passed : Nat, failed : Nat]
  PROVE  RunIInv'
<1> USE DEF RunIInv
<1>1. UNCHANGED <<status, job, seen, up, crashes>>
  BY DEF vars, rowVars, loopVars, procVars
<1>2. phase = "drain" /\ job[w] # None /\ job[w] \in Items
  BY DEF PhasesAgree, LoopsAgree, IInv, TypeOK
<1>3. IInv'
  BY StutterIInv
<1>4. RunTypeOK'
  BY <1>2 DEF RunTypeOK
<1>5. LoopsAgree'
  <2>1. wpc'[w] = "settle" /\ \A v \in Workers \ {w} : wpc'[v] = wpc[v]
    BY DEF RunTypeOK
  <2> QED BY <1>1, <1>2, <2>1 DEF LoopsAgree
<1>6. PhasesAgree' /\ ClaimsAreHeld' /\ FinishedSettled' /\ ManifestMatchesTotals'
  BY <1>1, <1>2 DEF PhasesAgree, ClaimsAreHeld, Held, FinishedSettled, ManifestMatchesTotals
<1> QED BY <1>3, <1>4, <1>5, <1>6

(* _record_result of a sample that is recorded already changes nothing.    *)
LEMMA WorkerRecordIInv ==
  ASSUME RunIInv, NEW w \in Workers, WorkerRecord(w)
  PROVE  RunIInv'
<1> USE DEF RunIInv
<1>1. /\ wpc[w] = "record" /\ wpc' = [wpc EXCEPT ![w] = "settle"]
      /\ UNCHANGED <<vars, phase, outcome, failures, stop, manifest>>
  BY DEF WorkerRecord, Goto
<1>2. UNCHANGED <<status, job, seen, up, crashes>>
  BY <1>1 DEF vars, rowVars, loopVars, procVars
<1>3. /\ phase = "drain" /\ job[w] # None /\ job[w] \in Items
      /\ outcome[w] \in Outcomes
      /\ outcome \in [Workers -> Outcomes \cup {None}] /\ failures \in Nat
  BY <1>1 DEF PhasesAgree, LoopsAgree, RunTypeOK, IInv, TypeOK
<1>4. PICK i \in Items : i = job[w]
  BY <1>3
<1>5. PICK b \in BOOLEAN : b = (outcome[w] = "pass")
  OBVIOUS
<1>6. /\ completed' = completed \cup {i} /\ LogAgrees' /\ CountersAgree' /\ LossesAccounted'
      /\ log' \in Logs(Items) /\ lost' \subseteq Items
      /\ counters' \in [total : Nat, passed : Nat, failed : Nat]
  <2>1. CASE i \in completed
    <3>1. UNCHANGED <<fileVars, memVars>>
      BY <1>1, <1>4, <2>1 DEF WorkerRecord, fileVars
    <3>2. LogAgrees' /\ CountersAgree' /\ LossesAccounted'
      BY <1>1, <1>2, <1>3, <3>1, LogKept
    <3> QED BY <2>1, <3>1, <3>2 DEF RunTypeOK, fileVars, memVars
  <2>2. CASE i \notin completed
    <3>1. /\ completed' = completed \cup {i} /\ counters' = Count(counters, b)
          /\ log' = Appended(log, Line(i, b)) /\ Losing(Recorded \cup {i})
      BY <1>4, <1>5, <2>2 DEF WorkerRecord, CountSample, ResultLine
    <3>2. log' \in Interrupted(log, Line(i, b)) /\ log'.tail = <<>>
      BY <3>1 DEF Interrupted, Appended
    <3>3. /\ LogAgrees' /\ CountersAgree' /\ log' \in Logs(Items) /\ lost' \subseteq Items
          /\ counters' \in [total : Nat, passed : Nat, failed : Nat]
          /\ AtRisk' \subseteq AtRisk \cup {i} /\ (log.tail = <<>> => lost' = lost)
      BY <1>1, <1>2, <1>3, <2>2, <3>1, <3>2, RecordFirst
    <3>4. LossesAccounted'
      BY <1>1, <1>2, <3>2, <3>3, AppendPays
    <3> QED BY <3>1, <3>3, <3>4
  <2> QED BY <2>1, <2>2
<1> QED BY <1>1, <1>3, <1>4, <1>6, RecordIInv

(* The append raises: the sample is counted, and has a line or is lost.    *)
LEMMA AppendRaisesIInv ==
  ASSUME RunIInv, NEW w \in Workers, AppendRaises(w)
  PROVE  RunIInv'
<1> USE DEF RunIInv
<1>1. /\ wpc[w] = "record" /\ wpc' = [wpc EXCEPT ![w] = "settle"] /\ job[w] \notin completed
      /\ failures' = failures + 1
      /\ outcome' = [outcome EXCEPT ![w] = "raise"]
      /\ UNCHANGED <<vars, phase, stop, manifest>>
  BY DEF AppendRaises, Goto
<1>2. UNCHANGED <<status, job, seen, up, crashes>>
  BY <1>1 DEF vars, rowVars, loopVars, procVars
<1>3. /\ phase = "drain" /\ job[w] # None /\ job[w] \in Items
      /\ outcome \in [Workers -> Outcomes \cup {None}] /\ failures \in Nat
      /\ crashes \in Nat
  BY <1>1, RunAssumption DEF PhasesAgree, LoopsAgree, RunTypeOK, IInv, TypeOK
<1>4. PICK i \in Items : i = job[w]
  BY <1>3
<1>5. PICK b \in BOOLEAN : b = (outcome[w] = "pass")
  OBVIOUS
<1>6. /\ completed' = completed \cup {i} /\ counters' = Count(counters, b)
      /\ log' \in Interrupted(log, Line(i, b)) /\ Losing(Recorded \cup {i})
  BY <1>4, <1>5 DEF AppendRaises, CountSample, ResultLine
<1>7. /\ LogAgrees' /\ CountersAgree' /\ log' \in Logs(Items) /\ lost' \subseteq Items
      /\ counters' \in [total : Nat, passed : Nat, failed : Nat]
      /\ AtRisk' \subseteq AtRisk \cup {i}
  BY <1>1, <1>2, <1>3, <1>4, <1>6, RecordFirst
<1>8. failures' \in Nat /\ crashes' + failures' = crashes + failures + 1
  BY <1>1, <1>2, <1>3
<1>9. LossesAccounted'
  BY <1>7, <1>8, FaultIsPaid
<1>10. /\ outcome' \in [Workers -> Outcomes \cup {None}] /\ outcome'[w] \in Outcomes
       /\ \A v \in Workers \ {w} : outcome'[v] = outcome[v]
  BY <1>1, <1>3 DEF Outcomes
<1> QED BY <1>1, <1>4, <1>6, <1>7, <1>8, <1>9, <1>10, RecordIInv

(* ack() and nack(): the worker lets go of its row, which is no longer     *)
(* claimed, and which is done only when its sample is recorded.            *)
LEMMA SettleRunIInv ==
  ASSUME RunIInv, NEW w \in Workers, wpc[w] = "settle", BackToLoop(w), IInv',
         NEW st \in Status \ {"claimed"}, st = "done" => job[w] \in completed,
         status' = [status EXCEPT ![job[w]] = st], job' = [job EXCEPT ![w] = None],
         seen' = [seen EXCEPT ![w] = None], UNCHANGED <<up, crashes>>
  PROVE  RunIInv'
<1> USE DEF RunIInv
<1>1. /\ wpc' = [wpc EXCEPT ![w] = "loop"] /\ outcome' = [outcome EXCEPT ![w] = None]
      /\ UNCHANGED <<phase, fileVars, memVars, stop, manifest>>
  BY DEF BackToLoop, Goto
<1>2. phase = "drain" /\ job[w] # None /\ job[w] \in Items
  BY DEF PhasesAgree, LoopsAgree, IInv, TypeOK
<1>3. PICK i \in Items : i = job[w]
  BY <1>2
<1>4. /\ wpc \in [Workers -> {"loop", "run", "record", "settle", "exit"}]
      /\ status \in [Items -> Status] /\ seen \in [Workers -> (0..MaxAttempts) \cup {None}]
      /\ job \in [Workers -> Items \cup {None}] /\ outcome \in [Workers -> Outcomes \cup {None}]
  BY DEF RunTypeOK, IInv, TypeOK
<1>5. RunTypeOK'
  BY <1>1 DEF RunTypeOK, fileVars, memVars
<1>6. LoopsAgree'
  BY <1>1, <1>4 DEF LoopsAgree, memVars
<1>7. PhasesAgree' /\ FinishedSettled'
  BY <1>1, <1>2, <1>4 DEF PhasesAgree, FinishedSettled
<1>8. ClaimsAreHeld'
  <2> SUFFICES ASSUME NEW j \in Items, status'[j] = "claimed"
               PROVE  \E v \in Workers : job'[v] = j
    BY DEF ClaimsAreHeld, Held
  <2>1. j # i /\ status[j] = "claimed"
    BY <1>3, <1>4
  <2>2. PICK v \in Workers : job[v] = j
    BY <1>2, <2>1 DEF ClaimsAreHeld, Held
  <2>3. v # w
    BY <1>3, <2>1, <2>2
  <2> QED BY <1>4, <2>2, <2>3
<1>9. \A j \in Items : status'[j] = "done" => status[j] = "done" \/ j \in completed
  BY <1>3, <1>4
<1>10. LogAgrees' /\ CountersAgree' /\ LossesAccounted' /\ ManifestMatchesTotals'
  BY <1>1, <1>2, <1>9, LogKept
<1> QED BY <1>5, <1>6, <1>7, <1>8, <1>10

LEMMA WorkerAckIInv ==
  ASSUME RunIInv, NEW w \in Workers, WorkerAck(w)
  PROVE  RunIInv'
<1>1. /\ wpc[w] = "settle" /\ outcome[w] \in {"pass", "done"} /\ Ack(w) /\ BackToLoop(w)
  BY DEF WorkerAck
<1>2. IInv'
  BY <1>1, AckIInv DEF RunIInv
<1>3. job[w] \in completed
  BY <1>1 DEF RunIInv, LoopsAgree
<1>4. seen' = [seen EXCEPT ![w] = None]
  <2>1. seen[w] = None /\ seen' = seen /\ seen \in [Workers -> (0..MaxAttempts) \cup {None}]
    BY <1>1 DEF Ack, RunIInv, IInv, TypeOK
  <2> QED BY <2>1
<1>5. /\ status' = [status EXCEPT ![job[w]] = "done"] /\ job' = [job EXCEPT ![w] = None]
      /\ UNCHANGED <<up, crashes>> /\ "done" \in Status \ {"claimed"}
  BY <1>1 DEF Ack, procVars, Status
<1> QED BY <1>1, <1>2, <1>3, <1>4, <1>5, SettleRunIInv

LEMMA WorkerNackReadIInv ==
  ASSUME RunIInv, NEW w \in Workers, WorkerNackRead(w)
  PROVE  RunIInv'
<1> USE DEF RunIInv
<1>1. wpc[w] = "settle" /\ NackRead(w) /\ UNCHANGED runVars
  BY DEF WorkerNackRead
<1>2. IInv'
  BY <1>1, NackReadIInv
<1>3. /\ UNCHANGED <<status, job, up, crashes, phase, wpc, outcome, fileVars, memVars, stop,
                     manifest>>
      /\ seen' = [seen EXCEPT ![w] = attempts[job[w]]]
      /\ seen \in [Workers -> (0..MaxAttempts) \cup {None}]
  BY <1>1 DEF NackRead, rowVars, procVars, runVars, IInv, TypeOK
<1>4. RunTypeOK' /\ PhasesAgree' /\ ClaimsAreHeld' /\ FinishedSettled'
  BY <1>3 DEF RunTypeOK, PhasesAgree, ClaimsAreHeld, Held, FinishedSettled, fileVars, memVars
<1>5. LoopsAgree'
  BY <1>1, <1>3 DEF LoopsAgree, memVars
<1>6. phase # "down"
  BY <1>1 DEF PhasesAgree
<1>7. LogAgrees' /\ CountersAgree' /\ LossesAccounted' /\ ManifestMatchesTotals'
  BY <1>3, <1>6, LogKept
<1> QED BY <1>2, <1>4, <1>5, <1>7

LEMMA WorkerNackWriteIInv ==
  ASSUME RunIInv, NEW w \in Workers, WorkerNackWrite(w)
  PROVE  RunIInv'
<1>1. NackWrite(w) /\ BackToLoop(w)
  BY DEF WorkerNackWrite
<1>2. IInv'
  BY <1>1, NackWriteIInv DEF RunIInv
<1>3. wpc[w] = "settle"
  BY <1>1 DEF NackWrite, RunIInv, LoopsAgree
<1>4. PICK st \in {"pending", "dead"} : status' = [status EXCEPT ![job[w]] = st]
  BY <1>1 DEF NackWrite, NackUpdate
<1>5. /\ job' = [job EXCEPT ![w] = None] /\ seen' = [seen EXCEPT ![w] = None]
      /\ UNCHANGED <<up, crashes>> /\ st \in Status \ {"claimed"} /\ st # "done"
  BY <1>1 DEF NackWrite, procVars, Status
<1> QED BY <1>1, <1>2, <1>3, <1>4, <1>5, SettleRunIInv

(* What _load_completed_from_disk() and finalize() read back. *)
LEMMA LoadedAgree ==
  ASSUME NEW s \in Seq(Lines(Items))
  PROVE  /\ \E t, q \in Nat : q <= t /\ LoadCounters(s) = Counters(t, q)
         /\ LoadCounters(s) \in [total : Nat, passed : Nat, failed : Nat]
<1>1. PICK t \in Nat, q \in Nat :
        t = Cardinality(Logged(s)) /\ q = Cardinality(FirstPassed(s)) /\ q <= t
  BY LoggedAreItems
<1>2. LoadCounters(s) = Counters(t, q)
  BY <1>1 DEF LoadCounters
<1>3. Counters(t, q) \in [total : Nat, passed : Nat, failed : Nat]
  BY <1>1, CountIs
<1> QED BY <1>1, <1>2, <1>3

LEMMA FinalizeIInv == RunIInv /\ Finalize => RunIInv'
<1> SUFFICES ASSUME RunIInv, Finalize PROVE RunIInv'
  OBVIOUS
<1> USE DEF RunIInv
<1>1. /\ phase = "finalize" /\ phase' = "finished"
      /\ completed' = Recorded /\ counters' = LoadCounters(Content(log))
      /\ manifest' = [totals |-> LoadCounters(Content(log)),
                      summary |-> Summary(Content(log)), written |-> TRUE]
      /\ UNCHANGED <<vars, wpc, outcome, log, failures, lost, stop>>
  BY DEF Finalize, fileVars
<1>2. UNCHANGED <<status, job, seen, up, crashes>>
  BY <1>1 DEF vars, rowVars, loopVars, procVars
<1>3. Content(log) \in Seq(Lines(Items)) /\ OneLineEach(Content(log))
  BY ContentIs DEF RunTypeOK, LogAgrees
<1>4. IInv'
  BY <1>1, StutterIInv
<1>5. RunTypeOK'
  <2>1. /\ LoadCounters(Content(log)) \in [total : Nat, passed : Nat, failed : Nat]
        /\ Recorded \subseteq Items
    BY <1>3, LoadedAgree, LoggedAreItems DEF Recorded
  <2> QED BY <1>1, <2>1 DEF RunTypeOK
<1>6. LoopsAgree' /\ PhasesAgree' /\ ClaimsAreHeld' /\ FinishedSettled'
  BY <1>1, <1>2 DEF LoopsAgree, PhasesAgree, ClaimsAreHeld, Held, FinishedSettled
<1>7. LogAgrees' /\ LossesAccounted'
  BY <1>1, <1>2 DEF LogAgrees, LossesAccounted, AtRisk, Recorded
<1>8. CountersAgree'
  <2>1. \E t, q \in Nat : q <= t /\ LoadCounters(Content(log)) = Counters(t, q)
    BY <1>3, LoadedAgree
  <2> QED BY <1>1, <2>1 DEF CountersAgree, Recorded
<1>9. ManifestMatchesTotals'
  <2>1. LastPassed(Content(log)) = FirstPassed(Content(log))
    BY <1>3, ReadersAgree
  <2> QED BY <1>1, <2>1 DEF ManifestMatchesTotals, Summary, LoadCounters
<1> QED BY <1>4, <1>5, <1>6, <1>7, <1>8, <1>9

(* What a crash leaves of samples.jsonl: all of it, or one append more,    *)
(* wherever the coroutine was inside it.                                   *)
LEMMA CrashedLog ==
  ASSUME RunIInv, NEW p \in Processes, RunCrash(p)
  PROVE  /\ log' \in Logs(Items) /\ OneLineEach(Content(log')) /\ lost' \subseteq Items
         /\ lost' = lost \cup (Recorded \ Recorded')
         /\ \E i : AtRisk' \subseteq AtRisk \cup {i}
<1> USE DEF RunIInv
<1>1. /\ log \in Logs(Items) /\ lost \subseteq Items /\ OneLineEach(Content(log))
  BY DEF RunTypeOK, LogAgrees
<1>2. Recorded = Logged(log.ended) \cup Logged(log.tail) /\ Recorded \subseteq Items
  BY <1>1, ContentIs, LoggedAreItems DEF Recorded
<1>3. lost' = lost \cup (Recorded \ Recorded')
  BY DEF RunCrash, Losing
<1>4. lost' \subseteq Items
  BY <1>1, <1>2, <1>3
<1>5. CASE log' = log
  <2>1. AtRisk' \subseteq AtRisk \cup {0}
    BY <1>3, <1>5 DEF AtRisk, Recorded
  <2> QED BY <1>1, <1>3, <1>4, <1>5, <2>1
<1>6. CASE \E w \in Workers : /\ wpc[w] = "record" /\ job[w] \notin completed
                            /\ log' \in Interrupted(log, ResultLine(w))
  <2>1. PICK w \in Workers : /\ wpc[w] = "record" /\ job[w] \notin completed
                            /\ log' \in Interrupted(log, ResultLine(w))
    BY <1>6
  <2>2. job[w] \in Items /\ phase = "drain"
    BY <2>1 DEF LoopsAgree, PhasesAgree, IInv, TypeOK
  <2>3. PICK i \in Items : i = job[w]
    BY <2>2
  <2>4. PICK b \in BOOLEAN : b = (outcome[w] = "pass")
    OBVIOUS
  <2>5. log' \in Interrupted(log, Line(i, b)) /\ i \notin Logged(Content(log))
    BY <2>1, <2>2, <2>3, <2>4 DEF ResultLine, LogAgrees, Recorded
  <2>6. /\ log' \in Logs(Items) /\ OneLineEach(Content(log'))
        /\ Logged(log.ended) \subseteq Logged(log'.ended)
        /\ Logged(log'.tail) \subseteq Logged(log.tail) \cup {i}
    BY <1>1, <2>5, WrittenLog
  <2>7. Recorded' = Logged(log'.ended) \cup Logged(log'.tail)
    BY <2>6, ContentIs DEF Recorded
  <2>8. AtRisk' \subseteq AtRisk \cup {i}
    BY <1>2, <1>3, <2>6, <2>7 DEF AtRisk
  <2> QED BY <1>3, <1>4, <2>6, <2>8
<1> QED BY <1>5, <1>6 DEF RunCrash

(* The one process dies: memory is lost, and perhaps a line. *)
LEMMA RunCrashIInv ==
  ASSUME RunIInv, NEW p \in Processes, RunCrash(p)
  PROVE  RunIInv'
<1> USE DEF RunIInv
<1>1. /\ phase' = "down" /\ Crash(p)
      /\ wpc' = [w \in Workers |-> "exit"] /\ outcome' = [w \in Workers |-> None]
      /\ completed' = {} /\ counters' = Counters(0, 0) /\ stop' = FALSE
      /\ UNCHANGED <<failures, manifest>>
  BY DEF RunCrash
<1>2. IInv'
  BY <1>1, CrashIInv
<1>3. Processes = {p} /\ \A w \in Workers : ProcessOf[w] = p
  BY RunAssumption
<1>4. /\ status' = status /\ up' = [up EXCEPT ![p] = FALSE] /\ crashes' = crashes + 1
      /\ up \in [Processes -> BOOLEAN] /\ crashes \in Nat
      /\ \A w \in Workers : job'[w] = None /\ seen'[w] = None
  BY <1>1, <1>3 DEF Crash, rowVars, IInv, TypeOK
<1>5. /\ Counters(0, 0) \in [total : Nat, passed : Nat, failed : Nat]
      /\ \E t, q \in Nat : q <= t /\ Counters(0, 0) = Counters(t, q)
  <2>1. 0 \in Nat /\ 0 <= 0
    OBVIOUS
  <2> QED BY <2>1, CountIs
<1>6. /\ log' \in Logs(Items) /\ OneLineEach(Content(log')) /\ lost' \subseteq Items
      /\ lost' = lost \cup (Recorded \ Recorded')
  BY CrashedLog
<1>7. RunTypeOK'
  BY <1>1, <1>5, <1>6 DEF RunTypeOK
<1>8. LoopsAgree' /\ PhasesAgree' /\ ClaimsAreHeld' /\ FinishedSettled'
  BY <1>1, <1>3, <1>4 DEF LoopsAgree, PhasesAgree, ClaimsAreHeld, FinishedSettled
<1>9. LogAgrees'
  BY <1>1, <1>4, <1>6 DEF LogAgrees
<1>10. CountersAgree' /\ ManifestMatchesTotals'
  BY <1>1, <1>5 DEF CountersAgree, ManifestMatchesTotals
<1>11. LossesAccounted'
  <2>1. PICK i : AtRisk' \subseteq AtRisk \cup {i}
    BY CrashedLog
  <2>2. failures \in Nat
    BY DEF RunTypeOK
  <2>3. crashes' + failures' = crashes + failures + 1
    BY <1>1, <1>4, <2>2
  <2> QED BY <2>1, <2>3, FaultIsPaid
<1> QED BY <1>2, <1>7, <1>8, <1>9, <1>10, <1>11

(* reclaim_stale() with nothing in hand. *)
LEMMA ReclaimIInv ==
  ASSUME IInv, \A w \in Workers : job[w] = None, ReclaimStale,
         UNCHANGED <<loopVars, crashes, claims>>, up' \in [Processes -> BOOLEAN]
  PROVE  IInv' /\ \A i \in Items : status'[i] # "claimed"
                                   /\ (status'[i] = "done" <=> status[i] = "done")
<1> USE DEF IInv
<1>1. /\ status' = [i \in Items |->
                      IF status[i] = "claimed" THEN "pending" ELSE status[i]]
      /\ token' = [i \in Items |-> IF status[i] = "claimed" THEN None ELSE token[i]]
      /\ UNCHANGED <<attempts, job, seen, crashes, claims>>
  BY DEF ReclaimStale, loopVars
<1>2. TypeOK'
  BY <1>1 DEF TypeOK, Status
<1>3. ClaimExclusive' /\ NackReadsCurrent'
  BY <1>1 DEF ClaimExclusive, NackReadsCurrent
<1>4. BuriedAtLimit'
  BY <1>1 DEF BuriedAtLimit, TypeOK
<1>5. ClaimsAccounted'
  BY <1>1 DEF ClaimsAccounted, Held, TypeOK
<1> QED BY <1>1, <1>2, <1>3, <1>4, <1>5

LEMMA RunResumeIInv ==
  ASSUME RunIInv, NEW p \in Processes, RunResume(p)
  PROVE  RunIInv'
<1> USE DEF RunIInv
<1>1. /\ phase \in {"down", "finished"} /\ ReclaimStale
      /\ UNCHANGED <<loopVars, crashes, claims>>
      /\ \/ phase = "down" /\ up' = [up EXCEPT ![p] = TRUE]
         \/ phase = "finished" /\ up' = up
      /\ completed' = Recorded /\ counters' = LoadCounters(Content(log)) /\ stop' = FALSE
      /\ phase' = "drain" /\ wpc' = [w \in Workers |-> "loop"]
      /\ UNCHANGED <<outcome, log, failures, lost, manifest>>
  BY DEF RunResume, Resume, procVars, SpawnAll, fileVars
<1>2. Processes = {p} /\ up \in [Processes -> BOOLEAN]
  BY DEF IInv, TypeOK
<1>3. up' \in [Processes -> BOOLEAN] /\ up'[p] = TRUE
  BY <1>1, <1>2 DEF PhasesAgree
<1>4. \A w \in Workers : job[w] = None /\ seen[w] = None /\ job'[w] = None /\ seen'[w] = None
  BY <1>1 DEF PhasesAgree, LoopsAgree, loopVars
<1>5. IInv' /\ \A i \in Items : status'[i] # "claimed"
                                /\ (status'[i] = "done" <=> status[i] = "done")
  BY <1>1, <1>3, <1>4, ReclaimIInv
<1>6. Content(log) \in Seq(Lines(Items))
  BY ContentIs DEF RunTypeOK
<1>7. RunTypeOK'
  <2>1. /\ LoadCounters(Content(log)) \in [total : Nat, passed : Nat, failed : Nat]
        /\ Recorded \subseteq Items
    BY <1>6, LoadedAgree, LoggedAreItems DEF Recorded
  <2> QED BY <1>1, <2>1 DEF RunTypeOK
<1>8. LoopsAgree' /\ PhasesAgree' /\ ClaimsAreHeld' /\ FinishedSettled'
  BY <1>1, <1>2, <1>3, <1>4, <1>5
     DEF LoopsAgree, PhasesAgree, ClaimsAreHeld, Held, FinishedSettled
<1>9. LogAgrees' /\ ManifestMatchesTotals'
  BY <1>1, <1>5 DEF LogAgrees, Recorded, ManifestMatchesTotals
<1>10. LossesAccounted'
  BY <1>1 DEF LossesAccounted, AtRisk
<1>11. CountersAgree'
  <2>1. \E t, q \in Nat : q <= t /\ LoadCounters(Content(log)) = Counters(t, q)
    BY <1>6, LoadedAgree
  <2> QED BY <1>1, <2>1 DEF CountersAgree, Recorded
<1> QED BY <1>5, <1>7, <1>8, <1>9, <1>10, <1>11
-----------------------------------------------------------------------------
(***************************************************************************)
(* The inductive invariant holds in every state of an embedded run, for    *)
(* any number of rows, workers, attempts, crashes and resumes.             *)
(***************************************************************************)
THEOREM RunInductive == RunSpec => []RunIInv
<1>1. RunInit => RunIInv
  BY InitRunIInv
<1>2. RunIInv /\ [RunNext]_allVars => RunIInv'
  <2> SUFFICES ASSUME RunIInv, [RunNext]_allVars PROVE RunIInv'
    OBVIOUS
  <2>1. ASSUME NEW i \in Items, EnqueueRow(i) PROVE RunIInv'
    BY <2>1, EnqueueRowIInv
  <2>2. CASE SpawnWorkers \/ RoundEnds \/ Finalize \/ Sigterm
    BY <2>2, SpawnIInv, RoundEndsIInv, FinalizeIInv, SigtermIInv
  <2>3. ASSUME NEW w \in Workers,
               WorkerExit(w) \/ WorkerTake(w) \/ WorkerRecord(w) \/ AppendRaises(w)
        PROVE  RunIInv'
    BY <2>3, WorkerExitIInv, WorkerTakeIInv, WorkerRecordIInv, AppendRaisesIInv
  <2>4. ASSUME NEW w \in Workers, WorkerAck(w) \/ WorkerNackRead(w) \/ WorkerNackWrite(w)
        PROVE  RunIInv'
    BY <2>4, WorkerAckIInv, WorkerNackReadIInv, WorkerNackWriteIInv
  <2>5. ASSUME NEW w \in Workers, NEW o \in Outcomes, WorkerRun(w, o) PROVE RunIInv'
    BY <2>5, WorkerRunIInv
  <2>6. ASSUME NEW p \in Processes, RunCrash(p) PROVE RunIInv'
    BY <2>6, RunCrashIInv
  <2>7. ASSUME NEW p \in Processes, RunResume(p) PROVE RunIInv'
    BY <2>7, RunResumeIInv
  <2>8. CASE UNCHANGED allVars
    <3>1. UNCHANGED vars /\ UNCHANGED runVars
      BY <2>8 DEF allVars
    <3>2. IInv'
      BY <3>1, StutterIInv DEF RunIInv
    <3>3. UNCHANGED <<status, job, seen, up, crashes, phase, wpc, outcome, log, failures, lost,
                      completed, counters, stop, manifest>>
      BY <3>1 DEF vars, rowVars, loopVars, procVars, runVars, fileVars, memVars
    <3>4. RunTypeOK' /\ PhasesAgree' /\ FinishedSettled' /\ ClaimsAreHeld'
      BY <3>3 DEF RunIInv, RunTypeOK, PhasesAgree, FinishedSettled, ClaimsAreHeld, Held
    <3>5. LoopsAgree'
      BY <3>3 DEF RunIInv, LoopsAgree
    <3>6. LogAgrees' /\ CountersAgree' /\ LossesAccounted' /\ ManifestMatchesTotals'
      BY <3>3 DEF RunIInv, LogAgrees, CountersAgree, LossesAccounted, AtRisk, Recorded,
                  ManifestMatchesTotals
    <3> QED BY <3>2, <3>4, <3>5, <3>6 DEF RunIInv
  <2> QED BY <2>1, <2>2, <2>3, <2>4, <2>5, <2>6, <2>7, <2>8 DEF RunNext
<1> QED BY <1>1, <1>2, PTL DEF RunSpec

(***************************************************************************)
(* _record_result is idempotent per sample: samples.jsonl never holds two  *)
(* readable lines of one sample.                                           *)
(***************************************************************************)
THEOREM LinesAreUnique == RunSpec => []RecordedOnce
<1>1. RunIInv => RecordedOnce
  BY DEF RunIInv, LogAgrees, RecordedOnce
<1> QED BY <1>1, RunInductive, PTL

(***************************************************************************)
(* While the run is up its counters and completed ids are those a reader   *)
(* of samples.jsonl computes, but for the samples that an interrupted      *)
(* append has cost their line.                                             *)
(***************************************************************************)
THEOREM MemoryIsTheLog == RunSpec => []MemoryMatchesLog
<1>1. RunIInv => MemoryMatchesLog
  BY DEF RunIInv, LogAgrees, CountersAgree, MemoryMatchesLog
<1> QED BY <1>1, RunInductive, PTL

(***************************************************************************)
(* A row is acked only after its result is in samples.jsonl, or is one of  *)
(* the at most two samples that each crash and each append that raises     *)
(* costs.                                                                  *)
(***************************************************************************)
THEOREM AcksFollowRecords == RunSpec => []AckedIsRecorded
<1>1. RunIInv => AckedIsRecorded
  <2> SUFFICES ASSUME RunIInv PROVE Cardinality(lost) <= 2 * (crashes + failures)
    BY DEF RunIInv, LogAgrees, AckedIsRecorded
  <2>1. /\ crashes \in Nat /\ failures \in Nat /\ LossesAccounted
        /\ IsFiniteSet(AtRisk) /\ Cardinality(AtRisk) \in Nat
    BY RiskIsFinite DEF RunIInv
  <2>2. lost \subseteq AtRisk
    BY DEF AtRisk
  <2>3. Cardinality(lost) <= Cardinality(AtRisk) /\ Cardinality(lost) \in Nat
    BY <2>1, <2>2, FS_Subset, FS_CardinalityType
  <2>4. Cardinality(AtRisk) <= 2 * (crashes + failures)
    BY <2>1 DEF LossesAccounted
  <2> QED BY <2>1, <2>3, <2>4
<1> QED BY <1>1, RunInductive, PTL

(***************************************************************************)
(* A run that finishes without a signal leaves no enqueued row unsettled.  *)
(***************************************************************************)
THEOREM FinishedMeansSettled == RunSpec => []NothingLeftBehind
<1>1. RunIInv => NothingLeftBehind
  BY DEF RunIInv, FinishedSettled, NothingLeftBehind
<1> QED BY <1>1, RunInductive, PTL

(***************************************************************************)
(* The totals of run.completed agree with the samples RUN_MANIFEST.json    *)
(* lists, although their readers take different lines of a sample.         *)
(***************************************************************************)
THEOREM TotalsMatchManifest == RunSpec => []ManifestMatchesTotals
<1>1. RunIInv => ManifestMatchesTotals
  BY DEF RunIInv
<1> QED BY <1>1, RunInductive, PTL

(***************************************************************************)
(* Inside an embedded run the queue keeps its claims exclusive whatever    *)
(* Takeover allows elsewhere: it resumes only with nothing in hand.        *)
(***************************************************************************)
THEOREM RunClaimsAreExclusive == RunSpec => [](ClaimExclusive /\ NoSharedSample)
<1>1. RunIInv => ClaimExclusive /\ NoSharedSample
  BY HoldersDiffer DEF RunIInv, IInv, NoSharedSample
<1> QED BY <1>1, RunInductive, PTL

(***************************************************************************)
(* Memory, files and coroutines of a run stay in their types.              *)
(***************************************************************************)
THEOREM RunTypeCorrect == RunSpec => [](TypeOK /\ RunTypeOK)
<1>1. RunIInv => TypeOK /\ RunTypeOK
  BY DEF RunIInv, IInv
<1> QED BY <1>1, RunInductive, PTL

(* A step of the run is, to the queue, one of its own steps, or the        *)
(* reclaim of a run that had finished and is resumed.                      *)
LEMMA RunStepIsNext ==
  ASSUME [RunNext]_allVars
  PROVE  \/ [Next]_vars
         \/ phase = "finished" /\ ReclaimStale /\ UNCHANGED loopVars
<1>1. ASSUME NEW i \in Items, EnqueueRow(i) PROVE Next
  BY <1>1 DEF EnqueueRow, Next
<1>2. ASSUME NEW w \in Workers,
             WorkerTake(w) \/ WorkerAck(w) \/ WorkerNackRead(w) \/ WorkerNackWrite(w)
      PROVE  Next
  BY <1>2 DEF WorkerTake, WorkerAck, WorkerNackRead, WorkerNackWrite, Next
<1>3. ASSUME \/ SpawnWorkers \/ RoundEnds \/ Finalize \/ Sigterm
             \/ \E w \in Workers : \/ WorkerExit(w) \/ WorkerRecord(w) \/ AppendRaises(w)
                                   \/ \E o \in Outcomes : WorkerRun(w, o)
             \/ UNCHANGED allVars
      PROVE  UNCHANGED vars
  BY <1>3 DEF SpawnWorkers, RoundEnds, Finalize, Sigterm, WorkerExit, WorkerRecord,
              AppendRaises, WorkerRun, allVars
<1>4. ASSUME NEW p \in Processes, RunCrash(p) PROVE Next
  BY <1>4 DEF RunCrash, Next
<1>5. ASSUME NEW p \in Processes, RunResume(p)
      PROVE  Next \/ (phase = "finished" /\ ReclaimStale /\ UNCHANGED loopVars)
  <2>1. CASE phase = "down" /\ Resume(p)
    <3>1. \E r \in Processes : Crash(r) \/ Exit(r) \/ Join(r) \/ Resume(r)
      BY <2>1
    <3> QED BY <3>1 DEF Next
  <2>2. CASE phase = "finished" /\ ReclaimStale /\ UNCHANGED <<loopVars, procVars, claims>>
    BY <2>2
  <2> QED BY <1>5, <2>1, <2>2 DEF RunResume
<1> QED BY <1>1, <1>2, <1>3, <1>4, <1>5 DEF RunNext

(***************************************************************************)
(* An embedded run keeps the promises of the abstract task queue, also     *)
(* when it is resumed after it had finished, and whatever Takeover allows  *)
(* elsewhere.                                                              *)
(***************************************************************************)
THEOREM RunRefinesTaskQueue == RunSpec => ImplementsTaskQueue
<1>1. RunInit => Abs!QInit
  BY InitRefines DEF RunInit
<1>2. RunIInv /\ [RunNext]_allVars => [Abs!QNext]_(Abs!absVars)
  <2> SUFFICES ASSUME RunIInv, [RunNext]_allVars
               PROVE  Abs!QNext \/ UNCHANGED Abs!absVars
    OBVIOUS
  <2>1. IInv
    BY DEF RunIInv
  <2>2. ASSUME NEW p \in Processes, RunResume(p) PROVE Abs!QNext
    <3>1. /\ \A w \in Workers : job[w] = None
          /\ ReclaimStale /\ UNCHANGED loopVars
      BY <2>2 DEF RunResume, Resume, RunIInv, PhasesAgree, LoopsAgree
    <3> QED BY <3>1, ReclaimRefines DEF Abs!QNext
  <2>3. ASSUME \A p \in Processes : ~RunResume(p)
        PROVE  Abs!QNext \/ UNCHANGED Abs!absVars
    <3>1. \/ [\E i \in Items : Enqueue(i)]_vars
          \/ \E w \in Workers : Dequeue(w) \/ Ack(w) \/ NackRead(w) \/ NackWrite(w)
          \/ \E p \in Processes : Crash(p)
      BY <2>3 DEF RunNext, EnqueueRow, WorkerTake, WorkerAck, WorkerNackRead,
                  WorkerNackWrite, RunCrash, SpawnWorkers, RoundEnds, Finalize, Sigterm,
                  WorkerExit, WorkerRecord, AppendRaises, WorkerRun, allVars
    <3> QED BY <2>1, <3>1, NextRefines
  <2> QED BY <2>2, <2>3
<1> QED BY <1>1, <1>2, RunInductive, PTL DEF RunSpec, ImplementsTaskQueue, Abs!QSpec

(***************************************************************************)
(* A sample that is done or dead stays so through retries, crashes and     *)
(* resumes of its run.                                                     *)
(***************************************************************************)
THEOREM RunSettledStaysSettled == RunSpec => SettledIsFinal
<1> DEFINE Final == \A i \in Items : status[i] \in Settled => status'[i] = status[i]
<1>1. RunIInv /\ [RunNext]_allVars => [Final]_vars
  BY RunStepIsNext, SettledStep DEF RunIInv
<1> QED BY <1>1, RunInductive, PTL DEF RunSpec, SettledIsFinal
=============================================================================
