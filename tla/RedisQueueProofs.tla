--------------------------- MODULE RedisQueueProofs ---------------------------
(***************************************************************************)
(* Proofs about RedisQueue, and about the runs DistributedRun puts on it,  *)
(* for any number of runs, items, agents, attempts and deaths.  Most of    *)
(* them need that a run is resumed only while no agent holds an item       *)
(* (Takeover = FALSE), some also that no agent dies between an RPOP and    *)
(* its claim (CrashInWindow = FALSE); each theorem says what it needs.     *)
(***************************************************************************)
EXTENDS DistributedRun, FiniteSetTheorems, TLAPS

USE RedisAssumption

(* No item is twice in the list, in two hands, or in both. *)
Unique(s) == \A j, k \in DOMAIN s : s[j] = s[k] => j = k

OnePlace ==
  /\ Unique(pending)
  /\ \A v, w \in Workers : job[v] = job[w] /\ job[v] # None => v = w
  /\ \A w \in Workers : job[w] \notin Range(pending)

(* What the round trips of an agent know of the item in its hands. *)
HandsAgree ==
  \A w \in Workers :
    /\ step[w] = "idle" <=> job[w] = None
    /\ step[w] = "popped" => status[job[w]] = "pending"
    /\ step[w] \in {"working", "nacking"} => status[job[w]] = "claimed"
    /\ IF step[w] = "nacking" THEN seen[w] = attempts[job[w]] ELSE seen[w] = None

(* A reclaim under way has only claims to push back that nobody holds. *)
StaleIsOrphaned ==
  \A i \in stale : status[i] = "claimed" /\ \A w \in Workers : job[w] # i

(* The last attempt buries; an item not enqueued has none. *)
AttemptsLeft ==
  \A i \in Items :
    /\ status[i] # "dead" => attempts[i] < MaxAttempts
    /\ status[i] = "absent" => attempts[i] = 0

IInv ==
  /\ TypeOK
  /\ OnePlace
  /\ HandsAgree
  /\ StaleIsOrphaned
  /\ AttemptsLeft
  /\ StructuresAgree
  /\ IsFiniteSet(claimed)
-----------------------------------------------------------------------------
(* LPUSH of an item that is not in the list. *)
LEMMA PushFacts ==
  ASSUME NEW S, NEW s \in Seq(S), NEW i \in S
  PROVE  /\ Append(s, i) \in Seq(S)
         /\ Range(Append(s, i)) = Range(s) \cup {i}
         /\ Unique(s) /\ i \notin Range(s) => Unique(Append(s, i))
<1>1. /\ Append(s, i) \in Seq(S)
      /\ DOMAIN s = 1..Len(s) /\ DOMAIN Append(s, i) = 1..(Len(s) + 1)
      /\ Len(s) \in Nat
      /\ Append(s, i)[Len(s) + 1] = i
      /\ \A k \in 1..Len(s) : Append(s, i)[k] = s[k]
  OBVIOUS
<1>2. Range(Append(s, i)) = Range(s) \cup {i}
  <2>1. Range(Append(s, i)) \subseteq Range(s) \cup {i}
    <3> SUFFICES ASSUME NEW k \in 1..(Len(s) + 1)
                 PROVE  Append(s, i)[k] \in Range(s) \cup {i}
      BY <1>1 DEF Range
    <3>1. k \in 1..Len(s) \/ k = Len(s) + 1
      BY <1>1
    <3> QED BY <1>1, <3>1 DEF Range
  <2>2. Range(s) \cup {i} \subseteq Range(Append(s, i))
    <3>1. i \in Range(Append(s, i))
      BY <1>1 DEF Range
    <3>2. ASSUME NEW k \in 1..Len(s) PROVE s[k] \in Range(Append(s, i))
      <4>1. k \in 1..(Len(s) + 1)
        BY <1>1
      <4> QED BY <1>1, <4>1 DEF Range
    <3> QED BY <1>1, <3>1, <3>2 DEF Range
  <2> QED BY <2>1, <2>2
<1>3. ASSUME Unique(s), i \notin Range(s) PROVE Unique(Append(s, i))
  <2> SUFFICES ASSUME NEW j \in 1..(Len(s) + 1), NEW k \in 1..(Len(s) + 1),
                      Append(s, i)[j] = Append(s, i)[k]
               PROVE  j = k
    BY <1>1 DEF Unique
  <2>1. (j \in 1..Len(s) \/ j = Len(s) + 1) /\ (k \in 1..Len(s) \/ k = Len(s) + 1)
    BY <1>1
  <2> QED BY <1>1, <1>3, <2>1 DEF Unique, Range
<1> QED BY <1>1, <1>2, <1>3

(* RPOP of a list that is not empty. *)
LEMMA PopFacts ==
  ASSUME NEW S, NEW s \in Seq(S), s # <<>>, Unique(s)
  PROVE  /\ Tail(s) \in Seq(S) /\ Head(s) \in S /\ Head(s) \in Range(s)
         /\ Range(Tail(s)) = Range(s) \ {Head(s)}
         /\ Unique(Tail(s))
<1>1. /\ Len(s) \in Nat \ {0} /\ Tail(s) \in Seq(S) /\ Head(s) = s[1] /\ Head(s) \in S
      /\ DOMAIN s = 1..Len(s) /\ DOMAIN Tail(s) = 1..(Len(s) - 1)
      /\ \A k \in 1..(Len(s) - 1) : Tail(s)[k] = s[k + 1]
  OBVIOUS
<1>2. Head(s) \in Range(s)
  BY <1>1 DEF Range
<1>3. Range(Tail(s)) = Range(s) \ {Head(s)}
  <2>1. ASSUME NEW k \in 1..(Len(s) - 1)
        PROVE  Tail(s)[k] \in Range(s) \ {Head(s)}
    <3>1. k + 1 \in 1..Len(s) /\ k + 1 # 1 /\ 1 \in 1..Len(s)
      BY <1>1
    <3> QED BY <1>1, <3>1 DEF Unique, Range
  <2>2. ASSUME NEW k \in 1..Len(s), s[k] # Head(s)
        PROVE  s[k] \in Range(Tail(s))
    <3>1. k # 1 /\ k - 1 \in 1..(Len(s) - 1) /\ (k - 1) + 1 = k
      BY <1>1, <2>2
    <3> QED BY <1>1, <3>1 DEF Range
  <2> QED BY <1>1, <2>1, <2>2 DEF Range
<1>4. Unique(Tail(s))
  <2> SUFFICES ASSUME NEW j \in 1..(Len(s) - 1), NEW k \in 1..(Len(s) - 1),
                      Tail(s)[j] = Tail(s)[k]
               PROVE  j = k
    BY <1>1 DEF Unique
  <2>1. j + 1 \in 1..Len(s) /\ k + 1 \in 1..Len(s) /\ j \in Nat /\ k \in Nat
    BY <1>1
  <2> QED BY <1>1, <2>1 DEF Unique
<1> QED BY <1>1, <1>2, <1>3, <1>4

LEMMA HeadAndTail ==
  ASSUME NEW S, NEW s \in Seq(S), s # <<>>
  PROVE  Tail(s) \in Seq(S) /\ Head(s) \in S
  OBVIOUS
-----------------------------------------------------------------------------
LEMMA NoneIsNotListed == TypeOK => None \notin Range(pending)
  BY DEF TypeOK, Range

LEMMA InitIInv == Init => IInv
<1> SUFFICES ASSUME Init PROVE IInv
  OBVIOUS
<1>1. TypeOK
  BY DEF Init, TypeOK, Status
<1>2. OnePlace /\ HandsAgree /\ StaleIsOrphaned
  BY DEF Init, OnePlace, Unique, Range, HandsAgree, StaleIsOrphaned
<1>3. AttemptsLeft /\ StructuresAgree
  BY DEF Init, AttemptsLeft, StructuresAgree, Range
<1>4. IsFiniteSet(claimed)
  BY FS_EmptySet DEF Init
<1> QED BY <1>1, <1>2, <1>3, <1>4 DEF IInv

(* enqueue(): the item was nowhere. *)
LEMMA EnqueueIInv ==
  ASSUME IInv, NEW i \in Items, Enqueue(i)
  PROVE  IInv'
<1> USE DEF IInv
<1>1. /\ status[i] = "absent" /\ status' = [status EXCEPT ![i] = "pending"]
      /\ attempts' = [attempts EXCEPT ![i] = 0]
      /\ UNCHANGED <<claimed, dead, job, step, seen, stale, crashes>>
  BY DEF Enqueue, SetStatus, agentVars
<1>2. i \notin Range(pending) /\ \A w \in Workers : job[w] # i
  BY <1>1 DEF StructuresAgree, HandsAgree, TypeOK
<1>3. /\ pending' \in Seq(Items) /\ Unique(pending')
      /\ Range(pending') = Range(pending) \cup {i}
  BY <1>2, PushFacts DEF Enqueue, LPush, TypeOK, OnePlace
<1>4. TypeOK'
  BY <1>1, <1>3 DEF TypeOK, Status
<1>5. OnePlace' /\ HandsAgree'
  BY <1>1, <1>2, <1>3 DEF OnePlace, HandsAgree, TypeOK
<1>6. StaleIsOrphaned' /\ AttemptsLeft'
  BY <1>1, <1>2, <1>3 DEF StaleIsOrphaned, AttemptsLeft, TypeOK
<1>7. StructuresAgree' /\ IsFiniteSet(claimed')
  BY <1>1, <1>2, <1>3 DEF StructuresAgree, TypeOK
<1> QED BY <1>4, <1>5, <1>6, <1>7

(* RPOP: the item moves from the list to a hand. *)
LEMMA PopIInv ==
  ASSUME IInv, NEW w \in Workers, Pop(w)
  PROVE  IInv'
<1> USE DEF IInv
<1> DEFINE i == Head(pending)
<1>1. /\ i \in Items /\ i \in Range(pending) /\ status[i] = "pending"
      /\ pending' \in Seq(Items) /\ Unique(pending')
      /\ Range(pending') = Range(pending) \ {i}
  BY PopFacts DEF Pop, TypeOK, OnePlace, StructuresAgree
<1>2. /\ step[w] = "idle" /\ job[w] = None
      /\ job' = [job EXCEPT ![w] = i] /\ step' = [step EXCEPT ![w] = "popped"]
      /\ UNCHANGED <<status, attempts, claimed, dead, seen, stale, crashes>>
  BY DEF Pop, Hand, HandsAgree
<1> HIDE DEF i
<1>3. \A v \in Workers : job[v] # i
  BY <1>1 DEF OnePlace
<1>4. TypeOK'
  BY <1>1, <1>2 DEF TypeOK
<1>5. OnePlace'
  BY <1>1, <1>2, <1>3 DEF OnePlace, TypeOK
<1>6. HandsAgree'
  BY <1>1, <1>2 DEF HandsAgree, TypeOK
<1>7. StaleIsOrphaned' /\ AttemptsLeft' /\ StructuresAgree' /\ IsFiniteSet(claimed')
  BY <1>1, <1>2 DEF StaleIsOrphaned, AttemptsLeft, StructuresAgree, TypeOK
<1> QED BY <1>4, <1>5, <1>6, <1>7

(* The claim: the item's hash catches up with the hand that has it. *)
LEMMA ClaimIInv ==
  ASSUME IInv, NEW w \in Workers, Claim(w)
  PROVE  IInv'
<1> USE DEF IInv
<1> DEFINE i == job[w]
<1>1. i \in Items /\ status[i] = "pending" /\ step[w] = "popped"
  BY DEF Claim, HandsAgree, TypeOK
<1>2. /\ status' = [status EXCEPT ![i] = "claimed"]
      /\ claimed' = claimed \cup {i}
      /\ job' = job /\ step' = [step EXCEPT ![w] = "working"]
      /\ UNCHANGED <<pending, attempts, dead, seen, stale, crashes>>
  BY DEF Claim, SetStatus, Hand, TypeOK
<1>3. i \notin Range(pending) /\ \A v \in Workers \ {w} : job[v] # i
  BY <1>1 DEF OnePlace
<1>4. TypeOK'
  BY <1>1, <1>2 DEF TypeOK, Status
<1>5. OnePlace'
  BY <1>2 DEF OnePlace
<1>6. HandsAgree'
  BY <1>1, <1>2, <1>3 DEF HandsAgree, TypeOK
<1>7. StaleIsOrphaned' /\ AttemptsLeft'
  BY <1>1, <1>2 DEF StaleIsOrphaned, AttemptsLeft, TypeOK
<1>8. StructuresAgree'
  BY <1>1, <1>2, <1>3 DEF StructuresAgree, TypeOK
<1>9. IsFiniteSet(claimed')
  BY <1>2, FS_AddElement
<1> QED BY <1>4, <1>5, <1>6, <1>7, <1>8, <1>9

(* An item that leaves the hand of w for a state s of its own: settled, or *)
(* put back at the end of the list.                                        *)
LEMMA LeaveIInv ==
  ASSUME IInv, NEW w \in Workers, step[w] \in {"working", "nacking"},
         NEW s \in {"pending", "done", "dead"}, NEW n \in 0..MaxAttempts,
         s # "dead" => n < MaxAttempts,
         status' = [status EXCEPT ![job[w]] = s],
         attempts' = [attempts EXCEPT ![job[w]] = n],
         claimed' = claimed \ {job[w]},
         dead' = IF s = "dead" THEN dead \cup {job[w]} ELSE dead,
         pending' = IF s = "pending" THEN Append(pending, job[w]) ELSE pending,
         job' = [job EXCEPT ![w] = None],
         step' = [step EXCEPT ![w] = "idle"],
         seen' = [seen EXCEPT ![w] = None],
         UNCHANGED <<stale, crashes>>
  PROVE  IInv'
<1> USE DEF IInv
<1> DEFINE i == job[w]
<1>1. i \in Items /\ status[i] = "claimed"
  BY DEF HandsAgree, TypeOK
<1>2. i \notin Range(pending) /\ i \notin stale /\ \A v \in Workers \ {w} : job[v] # i
  BY <1>1 DEF OnePlace, StaleIsOrphaned
<1>3. /\ pending' \in Seq(Items) /\ Unique(pending')
      /\ Range(pending') = IF s = "pending" THEN Range(pending) \cup {i} ELSE Range(pending)
  <2>1. pending \in Seq(Items) /\ Unique(pending)
    BY DEF TypeOK, OnePlace
  <2>2. /\ Append(pending, i) \in Seq(Items)
        /\ Range(Append(pending, i)) = Range(pending) \cup {i}
        /\ Unique(Append(pending, i))
    BY <1>1, <1>2, <2>1, PushFacts
  <2> QED BY <2>1, <2>2
<1> HIDE DEF i
<1>4. TypeOK'
  <2>1. pending' \in Seq(Items) /\ job' \in [Workers -> Items \cup {None}]
        /\ step' \in [Workers -> {"idle", "popped", "working", "nacking"}]
        /\ seen' \in [Workers -> (0..MaxAttempts) \cup {None}]
    BY <1>3 DEF TypeOK
  <2>2. status' \in [Items -> Status] /\ attempts' \in [Items -> 0..MaxAttempts]
    BY DEF TypeOK, Status
  <2>3. claimed' \subseteq Items /\ dead' \subseteq Items /\ stale' \subseteq Items
    BY <1>1 DEF TypeOK, i
  <2> QED BY <2>1, <2>2, <2>3 DEF TypeOK
<1>5. OnePlace'
  <2>1. None \notin Range(pending') /\ job' = [job EXCEPT ![w] = None]
    BY <1>1, <1>3, NoneIsNotListed DEF i
  <2>2. \A v \in Workers \ {w} : job'[v] = job[v] /\ job[v] # i
    BY <1>2 DEF TypeOK
  <2> QED BY <1>3, <2>1, <2>2 DEF OnePlace, TypeOK
<1>6. HandsAgree'
  BY <1>1, <1>2 DEF HandsAgree, TypeOK, i
<1>7. StaleIsOrphaned' /\ AttemptsLeft'
  BY <1>1, <1>2 DEF StaleIsOrphaned, AttemptsLeft, TypeOK, i
<1>8. StructuresAgree'
  BY <1>1, <1>2, <1>3 DEF StructuresAgree, TypeOK, i
<1>9. IsFiniteSet(claimed')
  BY FS_Subset
<1> QED BY <1>4, <1>5, <1>6, <1>7, <1>8, <1>9

LEMMA AckIInv ==
  ASSUME IInv, NEW w \in Workers, Ack(w)
  PROVE  IInv'
<1> USE DEF IInv
<1>1. job[w] \in Items /\ step[w] = "working" /\ seen[w] = None /\ status[job[w]] = "claimed"
  BY DEF Ack, HandsAgree, TypeOK
<1>2. /\ attempts[job[w]] \in 0..MaxAttempts /\ attempts[job[w]] < MaxAttempts
      /\ attempts = [attempts EXCEPT ![job[w]] = attempts[job[w]]]
      /\ seen = [seen EXCEPT ![w] = None]
  BY <1>1 DEF AttemptsLeft, TypeOK
<1>3. /\ status' = [status EXCEPT ![job[w]] = "done"] /\ claimed' = claimed \ {job[w]}
      /\ job' = [job EXCEPT ![w] = None] /\ step' = [step EXCEPT ![w] = "idle"]
      /\ UNCHANGED <<pending, attempts, dead, seen, stale, crashes>>
  BY DEF Ack, SetStatus, ZRem, Hand
<1> QED BY <1>1, <1>2, <1>3, LeaveIInv

LEMMA NackReadIInv ==
  ASSUME IInv, NEW w \in Workers, NackRead(w)
  PROVE  IInv'
<1> USE DEF IInv
<1>1. /\ step[w] = "working" /\ job[w] \in Items
      /\ seen' = [seen EXCEPT ![w] = attempts[job[w]]]
      /\ job' = job /\ step' = [step EXCEPT ![w] = "nacking"]
      /\ UNCHANGED <<pending, status, attempts, claimed, dead, stale, crashes>>
  BY DEF NackRead, Hand, HandsAgree, TypeOK, storeVars
<1>2. TypeOK'
  BY <1>1 DEF TypeOK
<1>3. OnePlace' /\ HandsAgree' /\ StaleIsOrphaned'
  BY <1>1 DEF OnePlace, HandsAgree, StaleIsOrphaned, TypeOK
<1>4. AttemptsLeft' /\ StructuresAgree' /\ IsFiniteSet(claimed')
  BY <1>1 DEF AttemptsLeft, StructuresAgree
<1> QED BY <1>2, <1>3, <1>4

(* A death with a claimed item in hand leaves its claim to a reclaim. *)
LEMMA AgentCrashIInv ==
  ASSUME IInv, NEW w \in Workers, AgentCrash(w)
  PROVE  IInv'
<1> USE DEF IInv
<1>1. /\ crashes' \in 0..MaxCrashes
      /\ job' = [job EXCEPT ![w] = None] /\ step' = [step EXCEPT ![w] = "idle"]
      /\ seen' = [seen EXCEPT ![w] = None]
      /\ UNCHANGED <<pending, status, attempts, claimed, dead, stale>>
  BY DEF AgentCrash, Hand, TypeOK, storeVars
<1>2. TypeOK'
  BY <1>1 DEF TypeOK
<1>3. OnePlace' /\ HandsAgree' /\ StaleIsOrphaned'
  BY <1>1, NoneIsNotListed DEF OnePlace, HandsAgree, StaleIsOrphaned, TypeOK
<1>4. AttemptsLeft' /\ StructuresAgree' /\ IsFiniteSet(claimed')
  BY <1>1 DEF AttemptsLeft, StructuresAgree
<1> QED BY <1>2, <1>3, <1>4

(* nack() writes back the attempts it read, which are still current. *)
LEMMA NackWriteIInv ==
  ASSUME IInv, NEW w \in Workers, NackWrite(w)
  PROVE  IInv'
<1> USE DEF IInv
<1> DEFINE i == job[w]
           n == attempts[i] + 1
           s == IF n >= MaxAttempts THEN "dead" ELSE "pending"
<1>1. /\ step[w] = "nacking" /\ i \in Items /\ status[i] = "claimed" /\ seen[w] = attempts[i]
      /\ attempts[i] \in 0..MaxAttempts /\ attempts[i] < MaxAttempts
  BY DEF NackWrite, HandsAgree, AttemptsLeft, TypeOK
<1>2. /\ attempts' = [attempts EXCEPT ![i] = n] /\ claimed' = claimed \ {i}
      /\ job' = [job EXCEPT ![w] = None] /\ step' = [step EXCEPT ![w] = "idle"]
      /\ seen' = [seen EXCEPT ![w] = None]
      /\ UNCHANGED <<stale, crashes>>
  BY <1>1 DEF NackWrite, ZRem, Hand
<1>3. /\ status' = [status EXCEPT ![i] = s]
      /\ dead' = IF s = "dead" THEN dead \cup {i} ELSE dead
      /\ pending' = IF s = "pending" THEN Append(pending, i) ELSE pending
  BY <1>1 DEF NackWrite, SetStatus, LPush
<1>4. n \in 0..MaxAttempts /\ s \in {"pending", "done", "dead"} /\ (s # "dead" => n < MaxAttempts)
  BY <1>1
<1> HIDE DEF n, s
<1> QED BY <1>1, <1>2, <1>3, <1>4, LeaveIInv

LEMMA DeadLetterIInv ==
  ASSUME IInv, NEW w \in Workers, DeadLetter(w)
  PROVE  IInv'
<1> USE DEF IInv
<1>1. /\ step[w] = "working" /\ seen[w] = None
      /\ job[w] \in Items /\ attempts[job[w]] \in 0..MaxAttempts
      /\ attempts = [attempts EXCEPT ![job[w]] = attempts[job[w]]]
      /\ seen = [seen EXCEPT ![w] = None]
  BY DEF DeadLetter, HandsAgree, TypeOK
<1>2. /\ status' = [status EXCEPT ![job[w]] = "dead"] /\ claimed' = claimed \ {job[w]}
      /\ dead' = dead \cup {job[w]}
      /\ job' = [job EXCEPT ![w] = None] /\ step' = [step EXCEPT ![w] = "idle"]
      /\ UNCHANGED <<pending, attempts, seen, stale, crashes>>
  BY DEF DeadLetter, SetStatus, ZRem, Hand
<1> QED BY <1>1, <1>2, LeaveIInv

(* The ids a resume reads are claimed and, with every agent idle, held by  *)
(* nobody; a reclaim that dies reads them anew.                            *)
LEMMA ReclaimScanIInv ==
  ASSUME IInv, ~Takeover, ReclaimScan \/ ReclaimCrash
  PROVE  IInv'
<1> USE DEF IInv
<1>1. /\ UNCHANGED <<pending, status, attempts, claimed, dead, job, step, seen, crashes>>
      /\ stale' = {} \/ (stale' = claimed /\ \A w \in Workers : job[w] = None)
  BY DEF ReclaimScan, ReclaimCrash, storeVars, agentVars
<1>2. TypeOK' /\ StaleIsOrphaned'
  BY <1>1 DEF TypeOK, StaleIsOrphaned, StructuresAgree
<1>3. OnePlace' /\ HandsAgree'
  BY <1>1 DEF OnePlace, HandsAgree
<1>4. AttemptsLeft' /\ StructuresAgree' /\ IsFiniteSet(claimed')
  BY <1>1 DEF AttemptsLeft, StructuresAgree
<1> QED BY <1>2, <1>3, <1>4

LEMMA ReclaimOneIInv ==
  ASSUME IInv, NEW i \in Items, ReclaimOne(i)
  PROVE  IInv'
<1> USE DEF IInv
<1>1. /\ i \in stale /\ status[i] = "claimed" /\ \A w \in Workers : job[w] # i
      /\ status' = [status EXCEPT ![i] = "pending"] /\ claimed' = claimed \ {i}
      /\ stale' = stale \ {i}
      /\ UNCHANGED <<attempts, dead, job, step, seen, crashes>>
  BY DEF ReclaimOne, SetStatus, ZRem, StaleIsOrphaned, agentVars
<1>2. i \notin Range(pending)
  BY <1>1 DEF StructuresAgree
<1>3. /\ pending' \in Seq(Items) /\ Unique(pending')
      /\ Range(pending') = Range(pending) \cup {i}
  BY <1>2, PushFacts DEF ReclaimOne, LPush, TypeOK, OnePlace
<1>4. TypeOK'
  BY <1>1, <1>3 DEF TypeOK, Status
<1>5. OnePlace' /\ HandsAgree'
  BY <1>1, <1>2, <1>3 DEF OnePlace, HandsAgree, TypeOK
<1>6. StaleIsOrphaned' /\ AttemptsLeft'
  BY <1>1, <1>2, <1>3 DEF StaleIsOrphaned, AttemptsLeft, TypeOK
<1>7. StructuresAgree'
  BY <1>1, <1>2, <1>3 DEF StructuresAgree, TypeOK
<1>8. IsFiniteSet(claimed')
  BY <1>1, FS_Subset
<1> QED BY <1>4, <1>5, <1>6, <1>7, <1>8
-----------------------------------------------------------------------------
LEMMA NextIInv ==
  ASSUME IInv, [Next]_vars, ~Takeover
  PROVE  IInv'
<1>1. ASSUME NEW i \in Items, Enqueue(i) PROVE IInv'
  BY <1>1, EnqueueIInv
<1>2. ASSUME NEW i \in Items, ReclaimOne(i) PROVE IInv'
  BY <1>2, ReclaimOneIInv
<1>3. ASSUME NEW w \in Workers, Pop(w) \/ Claim(w) PROVE IInv'
  BY <1>3, PopIInv, ClaimIInv
<1>4. ASSUME NEW w \in Workers, Ack(w) \/ NackRead(w) \/ NackWrite(w) \/ DeadLetter(w)
      PROVE  IInv'
  BY <1>4, AckIInv, NackReadIInv, NackWriteIInv, DeadLetterIInv
<1>5. ASSUME NEW w \in Workers, AgentCrash(w) PROVE IInv'
  BY <1>5, AgentCrashIInv
<1>6. CASE ReclaimScan \/ ReclaimCrash
  BY <1>6, ReclaimScanIInv
<1>7. CASE UNCHANGED vars
  BY <1>7 DEF vars, storeVars, agentVars, IInv, TypeOK, OnePlace, HandsAgree,
              StaleIsOrphaned, AttemptsLeft, StructuresAgree
<1> QED BY <1>1, <1>2, <1>3, <1>4, <1>5, <1>6, <1>7 DEF Next

(***************************************************************************)
(* The inductive invariant: one item is in one place, and the four         *)
(* structures, the item hashes and the agents' hands agree about it.       *)
(***************************************************************************)
THEOREM RedisInductive == ~Takeover => (Spec => []IInv)
<1> SUFFICES ASSUME ~Takeover PROVE Spec => []IInv
  OBVIOUS
<1>1. Init => IInv
  BY InitIInv
<1>2. IInv /\ [Next]_vars => IInv'
  BY NextIInv
<1> QED BY <1>1, <1>2, PTL DEF Spec

(* With one place for each item, the copies of NoDuplicateWork count it. *)
LEMMA CopiesOfOnePlace ==
  ASSUME IInv, NEW i \in Items
  PROVE  /\ Copies(i) \in {0, 1}
         /\ i \in Range(pending) \/ (\E w \in Workers : job[w] = i) => Copies(i) = 1
<1> DEFINE K == {k \in DOMAIN pending : pending[k] = i}
           W == {w \in Workers : job[w] = i}
<1>1. /\ i \in Range(pending) <=> K # {}
      /\ \A j, k \in K : j = k
      /\ \A v, w \in W : v = w
      /\ K = {} \/ W = {}
  BY DEF IInv, OnePlace, Unique, Range
<1>2. Cardinality({}) = 0 /\ \A x : Cardinality({x}) = 1
  BY FS_EmptySet, FS_Singleton
<1>3. (K = {} \/ \E k \in K : K = {k}) /\ (W = {} \/ \E w \in W : W = {w})
  BY <1>1
<1>4. Copies(i) = Cardinality(K) + Cardinality(W)
  BY DEF Copies
<1>5. Cardinality(K) = IF K = {} THEN 0 ELSE 1
  BY <1>2, <1>3
<1>6. Cardinality(W) = IF W = {} THEN 0 ELSE 1
  BY <1>2, <1>3
<1>7. (\E w \in Workers : job[w] = i) <=> W # {}
  OBVIOUS
<1> HIDE DEF K, W
<1> QED BY <1>1, <1>4, <1>5, <1>6, <1>7

(***************************************************************************)
(* Two agents never have the same item, in hand or still to come, not even *)
(* when agents die between an RPOP and its claim.                          *)
(***************************************************************************)
THEOREM NoItemTwice == ~Takeover => (Spec => []NoDuplicateWork)
<1>1. IInv => NoDuplicateWork
  BY CopiesOfOnePlace DEF NoDuplicateWork
<1> QED BY <1>1, RedisInductive, PTL

(***************************************************************************)
(* The four structures of a prefix tell the same of every item.            *)
(***************************************************************************)
THEOREM RedisStructuresAgree == ~Takeover => (Spec => []StructuresAgree)
<1>1. IInv => StructuresAgree
  BY DEF IInv
<1> QED BY <1>1, RedisInductive, PTL

(***************************************************************************)
(* Every variable of the Redis backend stays in its type.                  *)
(***************************************************************************)
THEOREM RedisTypeCorrect == ~Takeover => (Spec => []TypeOK)
<1>1. IInv => TypeOK
  BY DEF IInv
<1> QED BY <1>1, RedisInductive, PTL
-----------------------------------------------------------------------------
(* An item that is lost: pending in its hash, in no list, in no hand. *)
Nowhere(i) ==
  /\ status[i] = "pending"
  /\ i \notin Range(pending)
  /\ \A w \in Workers : job[w] # i

NothingNowhere == \A i \in Items : ~Nowhere(i)

(* An agent dies between its RPOP of item i and the claim. *)
DropsItem(i) == \E w \in Workers : AgentCrash(w) /\ step[w] = "popped" /\ job[w] = i

(* A lost item stays lost, and only a death in the window loses one. *)
LEMMA NowhereMoves ==
  ASSUME IInv, [Next]_vars, NEW i \in Items
  PROVE  /\ Nowhere(i) => Nowhere(i)'
         /\ Nowhere(i)' => Nowhere(i) \/ DropsItem(i)
<1> USE DEF IInv
<1> DEFINE Goal == /\ Nowhere(i) => Nowhere(i)'
                   /\ Nowhere(i)' => Nowhere(i) \/ DropsItem(i)
<1> SUFFICES Goal
  OBVIOUS
<1>1. ASSUME NEW j \in Items, Enqueue(j) \/ ReclaimOne(j) PROVE Goal
  <2>1. /\ status' = [status EXCEPT ![j] = "pending"] /\ status[j] \in {"absent", "claimed"}
        /\ pending' = Append(pending, j) /\ job' = job
    BY <1>1 DEF Enqueue, ReclaimOne, SetStatus, LPush, agentVars, StaleIsOrphaned
  <2>2. Range(pending') = Range(pending) \cup {j}
    BY <2>1, PushFacts DEF TypeOK
  <2> QED BY <2>1, <2>2 DEF Nowhere, TypeOK
<1>2. ASSUME NEW w \in Workers, Pop(w) PROVE Goal
  <2>1. /\ Range(pending') = Range(pending) \ {Head(pending)} /\ Head(pending) \in Range(pending)
        /\ job' = [job EXCEPT ![w] = Head(pending)] /\ job[w] = None /\ status' = status
    BY <1>2, PopFacts DEF Pop, Hand, HandsAgree, TypeOK, OnePlace
  <2> QED BY <2>1 DEF Nowhere, TypeOK
<1>3. ASSUME NEW w \in Workers, Claim(w) \/ NackRead(w) PROVE Goal
  <2>1. /\ pending' = pending /\ job' = job
        /\ status' = status \/ status' = [status EXCEPT ![job[w]] = "claimed"]
    BY <1>3 DEF Claim, NackRead, SetStatus, Hand, storeVars, TypeOK
  <2> QED BY <2>1 DEF Nowhere, TypeOK
<1>4. ASSUME NEW w \in Workers, Ack(w) \/ DeadLetter(w) PROVE Goal
  <2>1. /\ pending' = pending /\ job' = [job EXCEPT ![w] = None]
        /\ \E t \in {"done", "dead"} : status' = [status EXCEPT ![job[w]] = t]
    BY <1>4 DEF Ack, DeadLetter, SetStatus, Hand
  <2> QED BY <2>1 DEF Nowhere, TypeOK
<1>5. ASSUME NEW w \in Workers, NackWrite(w) PROVE Goal
  <2>1. /\ job[w] \in Items /\ job' = [job EXCEPT ![w] = None]
        /\ \/ status' = [status EXCEPT ![job[w]] = "dead"] /\ pending' = pending
           \/ /\ status' = [status EXCEPT ![job[w]] = "pending"]
              /\ pending' = Append(pending, job[w])
    BY <1>5 DEF NackWrite, SetStatus, LPush, Hand, HandsAgree, TypeOK
  <2>2. Range(Append(pending, job[w])) = Range(pending) \cup {job[w]}
    BY <2>1, PushFacts DEF TypeOK
  <2>3. /\ status'[i] = "pending" /\ i \notin Range(pending') => status[i] = "pending" /\ i # job[w]
        /\ i \notin Range(pending') => i \notin Range(pending)
    BY <2>1, <2>2 DEF TypeOK
  <2>4. i # job[w] => status'[i] = status[i] /\ (i \notin Range(pending) => i \notin Range(pending'))
    BY <2>1, <2>2 DEF TypeOK
  <2>5. i # job[w] => \A v \in Workers : job'[v] = i <=> job[v] = i
    BY <2>1 DEF TypeOK
  <2> QED BY <2>3, <2>4, <2>5 DEF Nowhere
<1>6. ASSUME NEW w \in Workers, AgentCrash(w) PROVE Goal
  <2>1. job' = [job EXCEPT ![w] = None] /\ UNCHANGED <<pending, status>>
    BY <1>6 DEF AgentCrash, Hand, storeVars
  <2>2. Nowhere(i) => Nowhere(i)'
    BY <2>1 DEF Nowhere, TypeOK
  <2>3. ASSUME Nowhere(i)', ~Nowhere(i) PROVE DropsItem(i)
    <3>1. job[w] = i /\ status[i] = "pending"
      BY <2>1, <2>3 DEF Nowhere, TypeOK
    <3>2. step[w] = "popped"
      BY <3>1 DEF HandsAgree, TypeOK
    <3> QED BY <1>6, <3>1, <3>2 DEF DropsItem
  <2> QED BY <2>2, <2>3
<1>7. CASE ReclaimScan \/ ReclaimCrash \/ UNCHANGED vars
  BY <1>7 DEF ReclaimScan, ReclaimCrash, vars, storeVars, agentVars, Nowhere
<1> HIDE DEF Goal, IInv
<1> QED BY <1>1, <1>2, <1>3, <1>4, <1>5, <1>6, <1>7 DEF Next

LEMMA NothingNowhereStep ==
  ASSUME IInv, NothingNowhere, [Next]_vars, ~CrashInWindow
  PROVE  NothingNowhere'
  BY NowhereMoves DEF NothingNowhere, DropsItem, AgentCrash

LEMMA NothingNowhereAlways == ~Takeover /\ ~CrashInWindow => (Spec => []NothingNowhere)
<1> SUFFICES ASSUME ~Takeover, ~CrashInWindow PROVE Spec => []NothingNowhere
  OBVIOUS
<1>1. Init => NothingNowhere
  BY DEF Init, NothingNowhere, Nowhere
<1>2. IInv /\ NothingNowhere /\ [Next]_vars => NothingNowhere'
  BY NothingNowhereStep
<1> QED BY <1>1, <1>2, RedisInductive, PTL DEF Spec

LEMMA OrphanIsNowhere ==
  ASSUME IInv, NEW i \in Items
  PROVE  Orphan(i) <=> Nowhere(i)
<1>1. Copies(i) # 1 => i \notin Range(pending) /\ \A w \in Workers : job[w] # i
  BY CopiesOfOnePlace
<1>2. ASSUME i \notin Range(pending), \A w \in Workers : job[w] # i
      PROVE  Copies(i) = 0
  <2> DEFINE K == {k \in DOMAIN pending : pending[k] = i}
             W == {w \in Workers : job[w] = i}
  <2>1. K = {} /\ W = {}
    BY <1>2 DEF Range
  <2>2. Copies(i) = Cardinality(K) + Cardinality(W)
    BY DEF Copies
  <2> HIDE DEF K, W
  <2> QED BY <2>1, <2>2, FS_EmptySet
<1> QED BY <1>1, <1>2 DEF Orphan, Nowhere

(***************************************************************************)
(* The docstring of dequeue() says that an item orphaned between the RPOP  *)
(* and the HSET is recovered by reclaim_stale.  It never is: no step of    *)
(* any client, and no reclaim, brings an orphan back.                      *)
(***************************************************************************)
THEOREM OrphanIsForever ==
  ~Takeover => (Spec => [][\A i \in Items : Orphan(i) => Orphan(i)']_vars)
<1> SUFFICES ASSUME ~Takeover PROVE Spec => [][\A i \in Items : Orphan(i) => Orphan(i)']_vars
  OBVIOUS
<1>1. ASSUME IInv, IInv', [Next]_vars
      PROVE  \A i \in Items : Orphan(i) => Orphan(i)'
  <2> SUFFICES ASSUME NEW i \in Items, Orphan(i) PROVE Orphan(i)'
    OBVIOUS
  <2>1. Nowhere(i)'
    BY <1>1, OrphanIsNowhere, NowhereMoves
  <2>2. Orphan(i)' <=> Nowhere(i)'
    BY <1>1, OrphanIsNowhere, PTL
  <2> QED BY <2>1, <2>2
<1>2. IInv /\ IInv' /\ [Next]_vars => [\A i \in Items : Orphan(i) => Orphan(i)']_vars
  BY <1>1
<1> QED BY <1>2, RedisInductive, PTL DEF Spec

(***************************************************************************)
(* No unsettled item is out of the reach of the agents and of reclaim.     *)
(***************************************************************************)
THEOREM NoItemLost == ~Takeover /\ ~CrashInWindow => (Spec => []NothingLost)
<1>1. ASSUME IInv, NothingNowhere PROVE NothingLost
  <2> SUFFICES ASSUME NEW i \in Items, status[i] \notin Settled \cup {"absent"}
               PROVE  Copies(i) = 1 \/ i \in claimed
    BY DEF NothingLost
  <2>1. status[i] \in {"pending", "claimed"}
    BY <1>1 DEF IInv, TypeOK, Status, Settled
  <2> QED BY <1>1, <2>1, CopiesOfOnePlace DEF IInv, NothingNowhere, Nowhere, StructuresAgree
<1> QED BY <1>1, RedisInductive, NothingNowhereAlways, PTL

(* With both counts at zero, an item in the queue is settled, between an   *)
(* agent's RPOP and its claim, or lost.                                    *)
LEMMA DrainedRows ==
  ASSUME IInv, Drained, NEW i \in Items, status[i] # "absent",
         ~\E w \in Workers : job[w] = i /\ step[w] = "popped"
  PROVE  status[i] \in Settled \/ Nowhere(i)
<1> USE DEF IInv
<1>1. pending = <<>> /\ claimed = {}
  BY FS_EmptySet DEF Drained, TypeOK
<1>2. status[i] # "claimed"
  BY <1>1 DEF StructuresAgree
<1>3. status[i] = "pending" => Nowhere(i)
  BY <1>1 DEF Nowhere, Range, HandsAgree, TypeOK
<1> QED BY <1>2, <1>3 DEF TypeOK, Status, Settled

(***************************************************************************)
(* queue_drained() overlooks nothing but an item between RPOP and claim.   *)
(***************************************************************************)
THEOREM DrainedIsSettled == ~Takeover /\ ~CrashInWindow => (Spec => []DrainedButForWindow)
<1>1. ASSUME IInv, NothingNowhere PROVE DrainedButForWindow
  BY <1>1, DrainedRows DEF DrainedButForWindow, NothingNowhere
<1> QED BY <1>1, RedisInductive, NothingNowhereAlways, PTL

(* The lost items are no more than the agents that died. *)
LostItems == {i \in Items : Nowhere(i)}

LossBounded ==
  /\ IsFiniteSet(LostItems)
  /\ Cardinality(LostItems) <= crashes

LEMMA LossStep ==
  ASSUME IInv, IInv', LossBounded, [Next]_vars
  PROVE  LossBounded'
<1>1. crashes \in Nat /\ crashes' \in Nat
  BY DEF IInv, TypeOK
<1>2. Cardinality(LostItems) \in Nat
  BY FS_CardinalityType DEF LossBounded
<1>3. CASE \E w \in Workers : AgentCrash(w)
  <2>1. PICK w \in Workers : AgentCrash(w)
    BY <1>3
  <2>2. crashes' = crashes + 1 /\ job' = [job EXCEPT ![w] = None] /\ UNCHANGED <<pending, status>>
    BY <2>1 DEF AgentCrash, Hand, storeVars
  <2>3. LostItems' \subseteq LostItems \cup {job[w]}
    BY <2>2 DEF LostItems, Nowhere, IInv, TypeOK
  <2>4. /\ IsFiniteSet(LostItems \cup {job[w]})
        /\ Cardinality(LostItems \cup {job[w]}) <= Cardinality(LostItems) + 1
    <3>1. IsFiniteSet(LostItems)
      BY DEF LossBounded
    <3>2. /\ IsFiniteSet(LostItems \cup {job[w]})
          /\ \/ Cardinality(LostItems \cup {job[w]}) = Cardinality(LostItems)
             \/ Cardinality(LostItems \cup {job[w]}) = Cardinality(LostItems) + 1
      BY <3>1, FS_AddElement, Zenon
    <3> QED BY <1>2, <3>2
  <2>5. /\ IsFiniteSet(LostItems')
        /\ Cardinality(LostItems') <= Cardinality(LostItems \cup {job[w]})
    BY <2>3, <2>4, FS_Subset
  <2>6. Cardinality(LostItems') \in Nat /\ Cardinality(LostItems \cup {job[w]}) \in Nat
    BY <2>4, <2>5, FS_CardinalityType
  <2> HIDE DEF LostItems
  <2> QED BY <1>1, <1>2, <2>2, <2>4, <2>5, <2>6 DEF LossBounded
<1>4. CASE ~\E w \in Workers : AgentCrash(w)
  <2>1. LostItems' \subseteq LostItems
    BY <1>4, NowhereMoves DEF LostItems, DropsItem
  <2>2. crashes' = crashes
    BY <1>4 DEF Next, Enqueue, ReclaimOne, Pop, Claim, Ack, NackRead, NackWrite, DeadLetter,
                ReclaimScan, ReclaimCrash, vars
  <2>3. IsFiniteSet(LostItems') /\ Cardinality(LostItems') <= Cardinality(LostItems)
    BY <2>1, FS_Subset DEF LossBounded
  <2>4. Cardinality(LostItems') \in Nat
    BY <2>3, FS_CardinalityType
  <2> HIDE DEF LostItems
  <2> QED BY <1>1, <1>2, <2>2, <2>3, <2>4 DEF LossBounded
<1> QED BY <1>3, <1>4

(***************************************************************************)
(* Wherever agents die, every death costs the queue one item at most.      *)
(***************************************************************************)
THEOREM LossIsBounded == ~Takeover => (Spec => []LossBounded)
<1> SUFFICES ASSUME ~Takeover PROVE Spec => []LossBounded
  OBVIOUS
<1>1. Init => LossBounded
  <2> SUFFICES ASSUME Init PROVE LossBounded
    OBVIOUS
  <2>1. LostItems = {} /\ crashes = 0
    BY DEF Init, LostItems, Nowhere
  <2> QED BY <2>1, FS_EmptySet DEF LossBounded
<1>2. IInv /\ IInv' /\ LossBounded /\ [Next]_vars => LossBounded'
  BY LossStep
<1> QED BY <1>1, <1>2, RedisInductive, PTL DEF Spec
-----------------------------------------------------------------------------
(* Holder is the one agent that has the item, and None when nobody has it. *)
HolderIn(f, i) ==
  IF \E w \in Workers : f[w] = i THEN CHOOSE w \in Workers : f[w] = i ELSE None

LEMMA HolderInIs ==
  ASSUME NEW f, NEW i, i # None,
         \A v, w \in Workers : f[v] = f[w] /\ f[v] # None => v = w
  PROVE  /\ HolderIn(f, i) \in Workers \cup {None}
         /\ \A w \in Workers : HolderIn(f, i) = w <=> f[w] = i
<1>1. CASE \E w \in Workers : f[w] = i
  <2> DEFINE c == CHOOSE w \in Workers : f[w] = i
  <2>1. c \in Workers /\ f[c] = i
    BY <1>1
  <2>2. HolderIn(f, i) = c
    BY <1>1 DEF HolderIn
  <2> HIDE DEF c
  <2> QED BY <2>1, <2>2
<1>2. CASE ~\E w \in Workers : f[w] = i
  BY <1>2 DEF HolderIn
<1> QED BY <1>1, <1>2

LEMMA HolderIs ==
  ASSUME IInv
  PROVE  \A i \in Items :
           /\ Holder(i) \in Workers \cup {None}
           /\ \A w \in Workers : Holder(i) = w <=> job[w] = i
<1>1. ASSUME NEW i \in Items
      PROVE  Holder(i) = HolderIn(job, i) /\ i # None
  BY DEF Holder, HolderIn
<1> QED BY <1>1, HolderInIs DEF IInv, OnePlace

LEMMA HolderNextIs ==
  ASSUME IInv'
  PROVE  \A i \in Items :
           /\ Holder(i)' \in Workers \cup {None}
           /\ \A w \in Workers : Holder(i)' = w <=> job'[w] = i
<1>1. ASSUME NEW i \in Items
      PROVE  Holder(i)' = HolderIn(job', i) /\ i # None
  BY DEF Holder, HolderIn
<1>2. \A v, w \in Workers : job'[v] = job'[w] /\ job'[v] # None => v = w
  BY DEF IInv, OnePlace
<1> QED BY <1>1, <1>2, HolderInIs

(* The three ways a step touches the hands. *)
LEMMA HandsKept ==
  ASSUME IInv, job' = job, NEW i \in Items
  PROVE  Holder(i)' = Holder(i)
BY DEF Holder

LEMMA HandTakes ==
  ASSUME IInv, IInv', NEW w \in Workers, NEW i \in Items,
         job[w] = None, job' = [job EXCEPT ![w] = i]
  PROVE  \A j \in Items : Holder(j)' = IF j = i THEN w ELSE Holder(j)
<1>1. \A v \in Workers : job'[v] = IF v = w THEN i ELSE job[v]
  BY DEF IInv, TypeOK
<1>2. \A v \in Workers : job[v] # i
  BY <1>1 DEF IInv, OnePlace
<1>3. ASSUME NEW j \in Items
      PROVE  Holder(j)' = IF j = i THEN w ELSE Holder(j)
  BY <1>1, <1>2, HolderIs, HolderNextIs
<1> QED BY <1>3

LEMMA HandLeaves ==
  ASSUME IInv, IInv', NEW w \in Workers, job[w] \in Items,
         job' = [job EXCEPT ![w] = None]
  PROVE  /\ Holder(job[w]) = w
         /\ \A j \in Items : Holder(j)' = IF j = job[w] THEN None ELSE Holder(j)
<1>1. \A v \in Workers : job'[v] = IF v = w THEN None ELSE job[v]
  BY DEF IInv, TypeOK
<1>2. \A v \in Workers : job[v] = job[w] => v = w
  BY DEF IInv, OnePlace
<1>3. ASSUME NEW j \in Items
      PROVE  Holder(j)' = IF j = job[w] THEN None ELSE Holder(j)
  BY <1>1, <1>2, HolderIs, HolderNextIs
<1> QED BY <1>3, HolderIs

LEMMA InitRefines == Init => Abs!QInit
<1> SUFFICES ASSUME Init PROVE Abs!QInit
  OBVIOUS
<1>1. \A i \in Items : Holder(i) = None
  BY DEF Holder, Init
<1> QED BY <1>1 DEF Init, Abs!QInit

LEMMA EnqueueRefines ==
  ASSUME IInv, NEW i \in Items, Enqueue(i)
  PROVE  Abs!QEnqueue(i)
<1>1. /\ status[i] = "absent" /\ status' = [status EXCEPT ![i] = "pending"]
      /\ job' = job /\ attempts' = attempts
  BY DEF Enqueue, SetStatus, agentVars, IInv, TypeOK, AttemptsLeft
<1>2. \A w \in Workers : job[w] # i
  <2>1. ASSUME NEW w \in Workers, job[w] = i PROVE FALSE
    <3>1. step[w] \in {"popped", "working", "nacking"} /\ i # None
      BY <2>1 DEF IInv, HandsAgree, TypeOK
    <3> QED BY <1>1, <2>1, <3>1 DEF IInv, HandsAgree
  <2> QED BY <2>1
<1>3. Holder(i) = None
  BY <1>2, HolderIs
<1>4. \A j \in Items : Holder(j)' = Holder(j)
  BY <1>1, HandsKept
<1> QED BY <1>1, <1>3, <1>4 DEF Abs!QEnqueue, IInv, TypeOK

LEMMA PopRefines ==
  ASSUME IInv, IInv', NEW w \in Workers, Pop(w)
  PROVE  \E i \in Items : Abs!QClaim(w, i)
<1>1. PICK i \in Items : i = Head(pending) /\ i \in Range(pending) /\ status[i] = "pending"
  BY PopFacts DEF Pop, IInv, TypeOK, OnePlace, StructuresAgree
<1>2. /\ job[w] = None /\ job' = [job EXCEPT ![w] = i]
      /\ status' = status /\ attempts' = attempts
  BY <1>1 DEF Pop, Hand, IInv, HandsAgree
<1>3. Holder(i) = None /\ \A j \in Items : Holder(j) # w
  BY <1>1, <1>2, HolderIs DEF IInv, OnePlace
<1>4. \A j \in Items : Holder(j)' = IF j = i THEN w ELSE Holder(j)
  BY <1>1, <1>2, HandTakes
<1>5. Abs!QClaim(w, i)
  <2> DEFINE shown(j) == IF Holder(j) # None THEN "claimed" ELSE status[j]
  <2>1. shown(i) = "pending" /\ \A j \in Items : shown(j)' = IF j = i THEN "claimed" ELSE shown(j)
    BY <1>1, <1>2, <1>3, <1>4
  <2> HIDE DEF shown
  <2>2. /\ [j \in Items |-> shown(j)]' = [[j \in Items |-> shown(j)] EXCEPT ![i] = "claimed"]
        /\ [j \in Items |-> Holder(j)]' = [[j \in Items |-> Holder(j)] EXCEPT ![i] = w]
    BY <1>4, <2>1
  <2> QED BY <1>2, <1>3, <2>1, <2>2 DEF Abs!QClaim, shown
<1> QED BY <1>1, <1>5

(* The hash and the sorted set follow what the hand already shows. *)
LEMMA ClaimRefines ==
  ASSUME IInv, NEW w \in Workers, Claim(w) \/ NackRead(w)
  PROVE  UNCHANGED Abs!absVars
<1>1. /\ job' = job /\ attempts' = attempts
      /\ status' = status \/ (status' = [status EXCEPT ![job[w]] = "claimed"] /\ job[w] \in Items)
  BY DEF Claim, NackRead, SetStatus, Hand, storeVars, IInv, TypeOK, HandsAgree
<1>2. \A j \in Items : Holder(j)' = Holder(j)
  BY <1>1, HandsKept
<1>3. \A j \in Items : job[w] = j => Holder(j) # None
  BY HolderIs
<1>4. ASSUME NEW j \in Items
      PROVE  (IF Holder(j)' # None THEN "claimed" ELSE status'[j])
               = (IF Holder(j) # None THEN "claimed" ELSE status[j])
  BY <1>1, <1>2, <1>3 DEF IInv, TypeOK
<1> QED BY <1>1, <1>2, <1>4 DEF Abs!absVars

(* ack and dead_letter settle the item of the agent that calls them. *)
LEMMA SettleRefines ==
  ASSUME IInv, IInv', NEW w \in Workers, Ack(w) \/ DeadLetter(w)
  PROVE  \E i \in Items : Abs!QAck(i) \/ Abs!QDeadLetter(i)
<1>1. PICK i \in Items : i = job[w]
  BY DEF Ack, DeadLetter, IInv, TypeOK, HandsAgree
<1>2. /\ job' = [job EXCEPT ![w] = None] /\ attempts' = attempts
      /\ \/ status' = [status EXCEPT ![i] = "done"]
         \/ status' = [status EXCEPT ![i] = "dead"]
  BY <1>1 DEF Ack, DeadLetter, SetStatus, Hand
<1>3. /\ Holder(i) = w /\ w # None
      /\ \A j \in Items : Holder(j)' = IF j = i THEN None ELSE Holder(j)
  BY <1>1, <1>2, HandLeaves
<1>4. ASSUME NEW s, status' = [status EXCEPT ![i] = s]
      PROVE  Abs!QSettle(i, s)
  BY <1>3, <1>4 DEF Abs!QSettle, IInv, TypeOK
<1>5. Abs!QAck(i) \/ Abs!QDeadLetter(i)
  BY <1>2, <1>4 DEF Abs!QAck, Abs!QDeadLetter
<1> QED BY <1>5

LEMMA NackRefines ==
  ASSUME IInv, IInv', NEW w \in Workers, NackWrite(w)
  PROVE  \E i \in Items : Abs!QNack(i)
<1>1. PICK i \in Items : i = job[w]
  BY DEF NackWrite, IInv, TypeOK, HandsAgree
<1>2. /\ status[i] = "claimed" /\ seen[w] = attempts[i]
      /\ attempts[i] \in 0..MaxAttempts /\ attempts[i] < MaxAttempts
  BY <1>1 DEF NackWrite, IInv, HandsAgree, AttemptsLeft, TypeOK
<1>3. /\ job' = [job EXCEPT ![w] = None]
      /\ attempts' = [attempts EXCEPT ![i] = attempts[i] + 1]
      /\ status' = [status EXCEPT ![i] =
                      IF attempts[i] + 1 = MaxAttempts THEN "dead" ELSE "pending"]
  BY <1>1, <1>2 DEF NackWrite, SetStatus, Hand
<1>4. /\ Holder(i) = w /\ w # None
      /\ \A j \in Items : Holder(j)' = IF j = i THEN None ELSE Holder(j)
  BY <1>1, <1>3, HandLeaves
<1>5. Abs!QSettle(i, IF attempts[i] + 1 = MaxAttempts THEN "dead" ELSE "pending")
  <2> DEFINE s == IF attempts[i] + 1 = MaxAttempts THEN "dead" ELSE "pending"
  <2>1. status' = [status EXCEPT ![i] = s]
    BY <1>3
  <2> HIDE DEF s
  <2>2. Abs!QSettle(i, s)
    BY <1>4, <2>1 DEF Abs!QSettle, IInv, TypeOK
  <2> QED BY <2>2 DEF s
<1>6. Abs!QNack(i)
  BY <1>2, <1>3, <1>5 DEF Abs!QNack
<1> QED BY <1>6

LEMMA AgentCrashRefines ==
  ASSUME IInv, IInv', ~CrashInWindow, NEW w \in Workers, AgentCrash(w)
  PROVE  Abs!QOrphan({w})
<1>1. /\ job[w] \in Items /\ status[job[w]] = "claimed"
      /\ job' = [job EXCEPT ![w] = None] /\ status' = status /\ attempts' = attempts
  BY DEF AgentCrash, Hand, storeVars, IInv, TypeOK, HandsAgree
<1>2. /\ Holder(job[w]) = w
      /\ \A j \in Items : Holder(j)' = IF j = job[w] THEN None ELSE Holder(j)
  BY <1>1, HandLeaves
<1>3. \A j \in Items : Holder(j) = w <=> j = job[w]
  BY <1>2, HolderIs
<1> QED BY <1>1, <1>2, <1>3 DEF Abs!QOrphan

LEMMA ReclaimRefines ==
  ASSUME IInv, NEW i \in Items, ReclaimOne(i)
  PROVE  Abs!QReclaim({i})
<1>1. /\ i \in stale /\ status[i] = "claimed" /\ \A w \in Workers : job[w] # i
      /\ status' = [status EXCEPT ![i] = "pending"]
      /\ job' = job /\ attempts' = attempts
  BY DEF ReclaimOne, SetStatus, agentVars, IInv, StaleIsOrphaned
<1>2. Holder(i) = None
  BY <1>1, HolderIs
<1>3. \A j \in Items : Holder(j)' = Holder(j)
  BY <1>1, HandsKept
<1> QED BY <1>1, <1>2, <1>3 DEF Abs!QReclaim, IInv, TypeOK

(***************************************************************************)
(* The Redis backend keeps the promises of TaskQueue: no agent but the     *)
(* holder settles an item, every nack uses up one attempt, and only claims *)
(* whose agent died are reclaimed.                                         *)
(***************************************************************************)
THEOREM RedisRefinesTaskQueue ==
  ~Takeover /\ ~CrashInWindow => (Spec => ImplementsTaskQueue)
<1> SUFFICES ASSUME ~Takeover, ~CrashInWindow PROVE Spec => ImplementsTaskQueue
  OBVIOUS
<1>1. IInv /\ IInv' /\ [Next]_vars => [Abs!QNext]_(Abs!absVars)
  <2> SUFFICES ASSUME IInv, IInv', [Next]_vars
               PROVE  Abs!QNext \/ UNCHANGED Abs!absVars
    OBVIOUS
  <2>1. ASSUME NEW i \in Items, Enqueue(i) PROVE Abs!QNext
    BY <2>1, EnqueueRefines DEF Abs!QNext
  <2>2. ASSUME NEW i \in Items, ReclaimOne(i) PROVE Abs!QNext
    BY <2>2, ReclaimRefines DEF Abs!QNext
  <2>3. ASSUME NEW w \in Workers, Pop(w) PROVE Abs!QNext
    BY <2>3, PopRefines DEF Abs!QNext
  <2>4. ASSUME NEW w \in Workers, Claim(w) \/ NackRead(w) PROVE UNCHANGED Abs!absVars
    BY <2>4, ClaimRefines
  <2>5. ASSUME NEW w \in Workers, Ack(w) \/ DeadLetter(w) PROVE Abs!QNext
    BY <2>5, SettleRefines DEF Abs!QNext
  <2>6. ASSUME NEW w \in Workers, NackWrite(w) PROVE Abs!QNext
    BY <2>6, NackRefines DEF Abs!QNext
  <2>7. ASSUME NEW w \in Workers, AgentCrash(w) PROVE Abs!QNext
    BY <2>7, AgentCrashRefines DEF Abs!QNext
  <2>8. CASE ReclaimScan \/ ReclaimCrash \/ UNCHANGED vars
    <3>1. UNCHANGED <<status, attempts, job>>
      BY <2>8 DEF ReclaimScan, ReclaimCrash, vars, storeVars, agentVars
    <3> QED BY <3>1, HandsKept DEF Abs!absVars
  <2> QED BY <2>1, <2>2, <2>3, <2>4, <2>5, <2>6, <2>7, <2>8 DEF Next
<1> QED BY <1>1, InitRefines, RedisInductive, PTL DEF Spec, ImplementsTaskQueue, Abs!QSpec
-----------------------------------------------------------------------------
(* The runs of DistributedRun on top of the queue. *)

(* Every step of the composition is one of the queue, or leaves it alone. *)
LEMMA RunNextIsNext == [RunNext]_allVars => [Next]_vars
<1> SUFFICES ASSUME [RunNext]_allVars PROVE [Next]_vars
  OBVIOUS
<1>1. ASSUME NEW i \in Items, EnqueueRow(i) \/ ResumeOne(i) PROVE Next
  BY <1>1 DEF EnqueueRow, ResumeOne, Next
<1>2. ASSUME NEW w \in Workers,
             \/ AgentPop(w) \/ AgentClaim(w)
             \/ AgentAck(w) \/ AgentNackRead(w) \/ AgentNackWrite(w) \/ AgentDies(w)
      PROVE  Next
  BY <1>2 DEF AgentPop, AgentClaim, AgentAck, AgentNackRead, AgentNackWrite, AgentDies, Next
<1>3. ASSUME NEW w \in Workers, AppendRaises(w) \/ \E o \in Outcomes : AgentExecute(w, o)
      PROVE  UNCHANGED vars
  BY <1>3 DEF AgentExecute, AppendRaises
<1>4. ASSUME NEW r \in Runs,
             HandOver(r) \/ FinalizerCheck(r) \/ FinalizeRead(r) \/ FinalizeWrite(r)
      PROVE  UNCHANGED vars
  BY <1>4 DEF HandOver, FinalizerCheck, FinalizeRead, FinalizeWrite
<1>5. CASE ResumeScan \/ ResumeDies
  BY <1>5 DEF ResumeScan, ResumeDies, Next
<1>6. CASE ApiRestart \/ UNCHANGED allVars
  BY <1>6 DEF ApiRestart, allVars
<1> QED BY <1>1, <1>2, <1>3, <1>4, <1>5, <1>6 DEF RunNext

(* An item that is settled stays so, and none vanishes. *)
LEMMA StatusMoves ==
  ASSUME IInv, [Next]_vars, NEW i \in Items
  PROVE  /\ status[i] \in Settled => status'[i] = status[i]
         /\ status[i] # "absent" => status'[i] # "absent"
<1> USE DEF IInv, SetStatus, Settled
<1>1. ASSUME NEW j \in Items, Enqueue(j) \/ ReclaimOne(j)
      PROVE  /\ status' = [status EXCEPT ![j] = "pending"]
             /\ status[j] \in {"absent", "claimed"}
  BY <1>1 DEF Enqueue, ReclaimOne, StaleIsOrphaned
<1>2. ASSUME NEW w \in Workers,
             Claim(w) \/ Ack(w) \/ NackWrite(w) \/ DeadLetter(w)
      PROVE  /\ job[w] \in Items /\ status[job[w]] \in {"pending", "claimed"}
             /\ \E s \in {"pending", "claimed", "done", "dead"} :
                  status' = [status EXCEPT ![job[w]] = s]
  <2>1. job[w] \in Items /\ status[job[w]] \in {"pending", "claimed"}
    BY <1>2 DEF Claim, Ack, NackWrite, DeadLetter, HandsAgree, TypeOK
  <2>2. \E s \in {"pending", "claimed", "done", "dead"} :
          status' = [status EXCEPT ![job[w]] = s]
    BY <1>2 DEF Claim, Ack, NackWrite, DeadLetter
  <2> QED BY <2>1, <2>2
<1>3. ASSUME NEW w \in Workers, Pop(w) \/ NackRead(w) \/ AgentCrash(w)
      PROVE  status' = status
  BY <1>3 DEF Pop, NackRead, AgentCrash, storeVars
<1>4. CASE ReclaimScan \/ ReclaimCrash \/ UNCHANGED vars
  BY <1>4 DEF ReclaimScan, ReclaimCrash, storeVars, vars
<1>5. ASSUME NEW j \in Items, Enqueue(j) \/ ReclaimOne(j)
      PROVE  /\ status[i] \in Settled => status'[i] = status[i]
             /\ status[i] # "absent" => status'[i] # "absent"
  BY <1>1, <1>5 DEF TypeOK
<1>6. ASSUME NEW w \in Workers,
             Claim(w) \/ Ack(w) \/ NackWrite(w) \/ DeadLetter(w)
      PROVE  /\ status[i] \in Settled => status'[i] = status[i]
             /\ status[i] # "absent" => status'[i] # "absent"
  <2>1. PICK s \in {"pending", "claimed", "done", "dead"} :
          status' = [status EXCEPT ![job[w]] = s]
    BY <1>2, <1>6
  <2>2. job[w] \in Items /\ status[job[w]] \in {"pending", "claimed"}
    BY <1>2, <1>6
  <2>3. status'[i] = IF i = job[w] THEN s ELSE status[i]
    BY <2>1 DEF TypeOK
  <2> QED BY <2>2, <2>3
<1> QED BY <1>3, <1>4, <1>5, <1>6 DEF Next

(***************************************************************************)
(* What agents, finalizer and resume do to the queue is what its clients   *)
(* may do: the composition is a behaviour of RedisQueue.                   *)
(***************************************************************************)
THEOREM RunsUseTheQueue == RunSpec => Spec
<1>1. RunInit => Init
  BY DEF RunInit
<1> QED BY <1>1, RunNextIsNext, PTL DEF RunSpec, Spec

(***************************************************************************)
(* Distributed runs keep the promises of the abstract task queue.          *)
(***************************************************************************)
THEOREM RunsRefineTaskQueue ==
  ~Takeover /\ ~CrashInWindow => (RunSpec => ImplementsTaskQueue)
  BY RunsUseTheQueue, RedisRefinesTaskQueue, PTL

(***************************************************************************)
(* A row that is done or dead stays so, whatever resumes and nacks follow. *)
(***************************************************************************)
THEOREM SettledForGood ==
  ~Takeover => (Spec => [][\A i \in Items : status[i] \in Settled => status'[i] = status[i]]_vars)
<1> SUFFICES ASSUME ~Takeover
             PROVE  Spec => [][\A i \in Items : status[i] \in Settled => status'[i] = status[i]]_vars
  OBVIOUS
<1>1. IInv /\ [Next]_vars => [\A i \in Items : status[i] \in Settled => status'[i] = status[i]]_vars
  BY StatusMoves
<1> QED BY <1>1, RedisInductive, PTL DEF Spec

-----------------------------------------------------------------------------
(***************************************************************************)
(* The log.  What follows up to DoneIsLogged holds whatever is reclaimed   *)
(* under whose hands and wherever agents die.                              *)
(***************************************************************************)
(* A line of the sample ends in a newline, and is there to stay, or it was *)
(* glued to what an agent before had left.                                 *)
Kept(i) == i \in Logged(log[RunOf[i]].ended) \cup glued

Unended == {r \in Runs : log[r].tail # <<>>}

QueueTypes ==
  /\ pending \in Seq(Items)
  /\ status \in [Items -> Status]
  /\ claimed \subseteq Items /\ stale \subseteq Items
  /\ job \in [Workers -> Items \cup {None}]
  /\ step \in [Workers -> {"idle", "popped", "working", "nacking"}]
  /\ \A w \in Workers : step[w] # "idle" => job[w] # None
  /\ crashes \in Nat

RunTypes ==
  /\ phase \in [Runs -> Phases]
  /\ DOMAIN log = Runs /\ \A r \in Runs : log[r] \in Logs(Rows(r))
  /\ failures \in Nat /\ glued \subseteq Items
  /\ outcome \in [Workers -> Outcomes \cup {None}]
  /\ totals \in [Runs -> [total : Nat, passed : Nat, failed : Nat]]
  /\ DOMAIN manifest = Runs
  /\ \A r \in Runs : manifest[r].passed \subseteq manifest[r].samples
  /\ unseen \in [Runs -> BOOLEAN]

(* Somebody executed the sample in hand, and the line of a result to ack   *)
(* went to the file.                                                       *)
OutcomesAgree ==
  \A w \in Workers : outcome[w] # None =>
    /\ step[w] \in {"working", "nacking"}
    /\ outcome[w] \in {"pass", "done"} => Kept(job[w])

DoneIsKept == \A i \in Items : status[i] = "done" => Kept(i)

(* Every death and every append that raised leaves at most one unended     *)
(* line, and an unended line is glued to one line at most.                 *)
FaultsPaid ==
  /\ IsFiniteSet(glued) /\ IsFiniteSet(Unended)
  /\ Cardinality(glued) + Cardinality(Unended) <= crashes + failures

LogInv ==
  /\ QueueTypes
  /\ RunTypes
  /\ OutcomesAgree
  /\ DoneIsKept
  /\ FaultsPaid

LEMMA QueueTypesStep ==
  ASSUME QueueTypes, [Next]_vars
  PROVE  QueueTypes'
<1> USE DEF QueueTypes, SetStatus, LPush, ZRem, Hand, Status, storeVars, agentVars
<1>1. ASSUME NEW i \in Items, Enqueue(i) \/ ReclaimOne(i) PROVE QueueTypes'
  <2>1. Append(pending, i) \in Seq(Items)
    OBVIOUS
  <2> QED BY <1>1, <2>1 DEF Enqueue, ReclaimOne
<1>2. ASSUME NEW w \in Workers, Pop(w) PROVE QueueTypes'
  <2>1. Tail(pending) \in Seq(Items) /\ Head(pending) \in Items
    BY <1>2, HeadAndTail DEF Pop
  <2> QED BY <1>2, <2>1 DEF Pop
<1>3. ASSUME NEW w \in Workers, Claim(w) \/ Ack(w) \/ NackRead(w) \/ DeadLetter(w)
      PROVE  QueueTypes'
  BY <1>3 DEF Claim, Ack, NackRead, DeadLetter
<1>4. ASSUME NEW w \in Workers, NackWrite(w) PROVE QueueTypes'
  <2>1. job[w] \in Items
    BY <1>4 DEF NackWrite
  <2>2. Append(pending, job[w]) \in Seq(Items)
    BY <2>1
  <2> QED BY <1>4, <2>1, <2>2 DEF NackWrite
<1>5. ASSUME NEW w \in Workers, AgentCrash(w) PROVE QueueTypes'
  BY <1>5 DEF AgentCrash
<1>6. CASE ReclaimScan \/ ReclaimCrash \/ UNCHANGED vars
  BY <1>6 DEF ReclaimScan, ReclaimCrash, vars
<1> QED BY <1>1, <1>2, <1>3, <1>4, <1>5, <1>6 DEF Next

LEMMA AppendKeeps ==
  ASSUME NEW S, NEW s \in Seq(S), NEW x \in S
  PROVE  /\ DOMAIN s = 1..Len(s) /\ Len(s) \in Nat
         /\ Append(s, x) \in Seq(S)
         /\ DOMAIN Append(s, x) = 1..(Len(s) + 1)
         /\ Append(s, x)[Len(s) + 1] = x
         /\ \A k \in 1..Len(s) : Append(s, x)[k] = s[k]
  OBVIOUS

(* A line more in a file hides none of the others. *)
LEMMA AppendLogs ==
  ASSUME NEW S, NEW s \in Seq(S), NEW x \in S
  PROVE  Logged(Append(s, x)) = Logged(s) \cup ({x.sid} \ {0})
<1> DEFINE t == Append(s, x)
<1>1. /\ DOMAIN s = 1..Len(s) /\ Len(s) \in Nat
      /\ DOMAIN t = 1..(Len(s) + 1) /\ t[Len(s) + 1] = x
      /\ \A k \in 1..Len(s) : t[k] = s[k]
  BY AppendKeeps
<1> HIDE DEF t
<1>2. Logged(t) \subseteq Logged(s) \cup ({x.sid} \ {0})
  <2> SUFFICES ASSUME NEW k \in 1..(Len(s) + 1), t[k].sid # 0
               PROVE  t[k].sid \in Logged(s) \cup ({x.sid} \ {0})
    BY <1>1 DEF Logged
  <2>1. k \in 1..Len(s) \/ k = Len(s) + 1
    BY <1>1
  <2>2. CASE k \in 1..Len(s)
    BY <1>1, <2>2 DEF Logged
  <2>3. CASE k = Len(s) + 1
    BY <1>1, <2>3
  <2> QED BY <2>1, <2>2, <2>3
<1>3. Logged(s) \subseteq Logged(t)
  <2> SUFFICES ASSUME NEW k \in 1..Len(s), s[k].sid # 0 PROVE s[k].sid \in Logged(t)
    BY <1>1 DEF Logged
  <2>1. k \in DOMAIN t /\ t[k] = s[k]
    BY <1>1
  <2> QED BY <2>1 DEF Logged
<1>4. {x.sid} \ {0} \subseteq Logged(t)
  <2>1. Len(s) + 1 \in DOMAIN t
    BY <1>1
  <2> QED BY <1>1, <2>1 DEF Logged
<1> QED BY <1>2, <1>3, <1>4 DEF t

(* The readers see the ended lines and the unended one alike. *)
LEMMA ContentIs ==
  ASSUME NEW S, NEW f \in Logs(S)
  PROVE  /\ Content(f) \in Seq(Lines(S))
         /\ Logged(f.ended) \subseteq Logged(Content(f))
<1>1. PICK s \in Seq(Lines(S)) : s = f.ended
  BY DEF Logs
<1>2. f.tail = <<>> \/ \E l \in Lines(S) : f.tail = <<l>>
  BY DEF Logs
<1>3. CASE f.tail = <<>>
  <2>1. Content(f) = s
    BY <1>1, <1>3 DEF Content
  <2> QED BY <1>1, <2>1
<1>4. ASSUME NEW l \in Lines(S), f.tail = <<l>>
      PROVE  Content(f) \in Seq(Lines(S)) /\ Logged(f.ended) \subseteq Logged(Content(f))
  <2>1. Content(f) = Append(s, l)
    BY <1>1, <1>4 DEF Content
  <2>2. Append(s, l) \in Seq(Lines(S)) /\ Logged(Append(s, l)) = Logged(s) \cup ({l.sid} \ {0})
    BY AppendLogs, AppendKeeps
  <2> QED BY <1>1, <2>1, <2>2
<1> QED BY <1>2, <1>3, <1>4

(* An append, whole or interrupted, takes no ended line away, and a whole  *)
(* one behind a newline adds its own.                                      *)
LEMMA FileGrows ==
  ASSUME NEW S, NEW f \in Logs(S), NEW l \in Lines(S), NEW g \in Interrupted(f, l)
  PROVE  /\ g \in Logs(S)
         /\ Logged(f.ended) \subseteq Logged(g.ended)
         /\ g = Appended(f, l) => g.tail = <<>>
         /\ g = Appended(f, l) /\ f.tail = <<>> /\ l.sid # 0 => l.sid \in Logged(g.ended)
<1>1. PICK s \in Seq(Lines(S)) : s = f.ended
  BY DEF Logs
<1>2. Junk \in Lines(S)
  BY DEF Lines, Junk, Line
<1>3. ASSUME NEW x \in Lines(S)
      PROVE  /\ Append(s, x) \in Seq(Lines(S))
             /\ Logged(Append(s, x)) = Logged(s) \cup ({x.sid} \ {0})
  BY AppendLogs, AppendKeeps
<1>4. CASE g = Appended(f, l)
  <2> DEFINE x == IF f.tail = <<>> THEN l ELSE Junk
  <2>1. g.ended = Append(s, x) /\ g.tail = <<>>
    BY <1>1, <1>4 DEF Appended
  <2>2. x \in Lines(S)
    BY <1>2
  <2>3. g \in Logs(S)
    BY <1>3, <1>4, <1>1, <2>2 DEF Appended, Logs
  <2>4. f.tail = <<>> /\ l.sid # 0 => l.sid \in {x.sid} \ {0}
    OBVIOUS
  <2> HIDE DEF x
  <2> QED BY <1>1, <1>3, <2>1, <2>2, <2>3, <2>4
<1>5. CASE g # Appended(f, l)
  <2>1. g = f \/ g = [f EXCEPT !.tail = <<Junk>>] \/ g = [f EXCEPT !.tail = <<l>>]
    BY <1>5 DEF Interrupted
  <2>2. g \in Logs(S) /\ g.ended = f.ended
    BY <1>2, <2>1 DEF Logs
  <2> QED BY <1>5, <2>2
<1> QED BY <1>4, <1>5

(* A file is written, the others are not. *)
LEMMA FileWritten ==
  ASSUME RunTypes, NEW r \in Runs, NEW g \in Logs(Rows(r)),
         log' = [log EXCEPT ![r] = g], Logged(log[r].ended) \subseteq Logged(g.ended)
  PROVE  /\ DOMAIN log' = Runs /\ log'[r] = g
         /\ \A q \in Runs : q # r => log'[q] = log[q]
         /\ \A q \in Runs : /\ log'[q] \in Logs(Rows(q))
                            /\ Logged(log[q].ended) \subseteq Logged(log'[q].ended)
         /\ Unended' \subseteq Unended \cup {r}
         /\ g.tail = <<>> => Unended' = Unended \ {r}
<1>1. DOMAIN log' = Runs /\ log'[r] = g /\ \A q \in Runs : q # r => log'[q] = log[q]
  BY DEF RunTypes
<1> QED BY <1>1 DEF RunTypes, Unended

(* A set with one element more, at most. *)
LEMMA OneMore ==
  ASSUME NEW A, NEW B, NEW x, IsFiniteSet(A), B \subseteq A \cup {x}
  PROVE  /\ IsFiniteSet(B) /\ Cardinality(A) \in Nat /\ Cardinality(B) \in Nat
         /\ Cardinality(B) <= Cardinality(A) + 1
<1>1. /\ IsFiniteSet(A \cup {x}) /\ Cardinality(A) \in Nat
      /\ Cardinality(A \cup {x}) <= Cardinality(A) + 1
  <2>1. Cardinality(A) \in Nat
    BY FS_CardinalityType
  <2>2. CASE x \in A
    <3>1. A \cup {x} = A
      BY <2>2
    <3>2. IsFiniteSet(A \cup {x}) /\ Cardinality(A \cup {x}) = Cardinality(A)
      BY <3>1, Zenon
    <3> QED BY <2>1, <3>2
  <2>3. CASE x \notin A
    <3>1. IsFiniteSet(A \cup {x}) /\ Cardinality(A \cup {x}) = Cardinality(A) + 1
      BY <2>3, FS_AddElement
    <3> QED BY <2>1, <3>1
  <2> QED BY <2>2, <2>3
<1>2. IsFiniteSet(B) /\ Cardinality(B) <= Cardinality(A \cup {x})
  BY <1>1, FS_Subset
<1> QED BY <1>1, <1>2, FS_CardinalityType

(* A fault, and one unended line more. *)
LEMMA FaultPays ==
  ASSUME LogInv, QueueTypes', RunTypes', NEW r, Unended' \subseteq Unended \cup {r},
         UNCHANGED glued,
         \/ crashes' = crashes + 1 /\ failures' = failures
         \/ crashes' = crashes /\ failures' = failures + 1
  PROVE  FaultsPaid'
<1>1. /\ IsFiniteSet(Unended') /\ Cardinality(Unended') <= Cardinality(Unended) + 1
      /\ Cardinality(Unended) \in Nat /\ Cardinality(Unended') \in Nat
  BY OneMore DEF LogInv, FaultsPaid
<1>2. /\ IsFiniteSet(glued) /\ Cardinality(glued) \in Nat
      /\ Cardinality(glued) + Cardinality(Unended) <= crashes + failures
  BY FS_CardinalityType DEF LogInv, FaultsPaid
<1>3. crashes \in Nat /\ crashes' \in Nat /\ failures \in Nat /\ failures' \in Nat
  BY DistributedAssumption DEF LogInv, QueueTypes, RunTypes
<1>4. ASSUME crashes' = crashes + 1, failures' = failures
      PROVE  Cardinality(glued) + Cardinality(Unended') <= crashes' + failures'
  BY <1>1, <1>2, <1>3, <1>4
<1>5. ASSUME crashes' = crashes, failures' = failures + 1
      PROVE  Cardinality(glued) + Cardinality(Unended') <= crashes' + failures'
  BY <1>1, <1>2, <1>3, <1>5
<1>6. Cardinality(glued) + Cardinality(Unended') <= crashes' + failures'
  BY <1>4, <1>5
<1>7. glued' = glued
  OBVIOUS
<1> QED BY <1>1, <1>2, <1>6, <1>7 DEF FaultsPaid

(* What a reader computes of a file is a count, and what passed is logged. *)
LEMMA ReadsTyped ==
  ASSUME NEW S, NEW s \in Seq(S)
  PROVE  /\ LoadCounters(s) \in [total : Nat, passed : Nat, failed : Nat]
         /\ Summary(s).passed \subseteq Summary(s).samples
<1>1. Len(s) \in Nat /\ DOMAIN s = 1..Len(s)
  OBVIOUS
<1>2. IsFiniteSet(Logged(s)) /\ Cardinality(Logged(s)) \in Nat
  <2> DEFINE T == {s[k].sid : k \in 1..Len(s)}
             f == [k \in 1..Len(s) |-> s[k].sid]
  <2>1. f \in Surjection(1..Len(s), T)
    BY DEF Surjection
  <2>2. IsFiniteSet(1..Len(s))
    BY <1>1, FS_Interval
  <2>3. IsFiniteSet(T)
    BY <2>1, <2>2, FS_Surjection
  <2>4. Logged(s) \subseteq T
    BY <1>1 DEF Logged
  <2> HIDE DEF T
  <2> QED BY <2>3, <2>4, FS_Subset, FS_CardinalityType
<1>3. FirstPassed(s) \subseteq Logged(s) /\ LastPassed(s) \subseteq Logged(s)
  BY DEF FirstPassed, LastPassed, Logged
<1>4. Cardinality(FirstPassed(s)) \in Nat /\ Cardinality(FirstPassed(s)) <= Cardinality(Logged(s))
  BY <1>2, <1>3, FS_Subset, FS_CardinalityType
<1>5. ASSUME NEW t \in Nat, NEW q \in Nat, q <= t
      PROVE  Counters(t, q) \in [total : Nat, passed : Nat, failed : Nat]
  BY <1>5 DEF Counters
<1> QED BY <1>2, <1>3, <1>4, <1>5 DEF LoadCounters, Summary

LEMMA InitLog == RunInit => LogInv
<1> SUFFICES ASSUME RunInit PROVE LogInv
  OBVIOUS
<1> USE DistributedAssumption
<1>1. QueueTypes
  BY DEF RunInit, Init, QueueTypes, Status
<1>2. RunTypes
  <2>1. Counters(0, 0) \in [total : Nat, passed : Nat, failed : Nat]
    BY DEF Counters
  <2>2. ASSUME NEW r \in Runs
        PROVE  /\ EmptyLog \in Logs(Rows(r))
               /\ Summary(<<>>).passed \subseteq Summary(<<>>).samples
    <3>1. <<>> \in Seq(Lines(Rows(r)))
      OBVIOUS
    <3> QED BY <3>1, ReadsTyped DEF EmptyLog, Logs
  <2> QED BY <2>1, <2>2 DEF RunInit, RunTypes, Phases
<1>3. OutcomesAgree /\ DoneIsKept
  BY DEF RunInit, Init, OutcomesAgree, DoneIsKept
<1>4. FaultsPaid
  <2>1. glued = {} /\ Unended = {} /\ crashes = 0 /\ failures = 0
    BY DEF RunInit, Init, Unended, EmptyLog
  <2> QED BY <2>1, FS_EmptySet DEF FaultsPaid
<1> QED BY <1>1, <1>2, <1>3, <1>4 DEF LogInv

(* A step after which no sample is done, and no result to ack, without its *)
(* line, while the files grow at most.                                     *)
LEMMA FilesGrow ==
  ASSUME LogInv, QueueTypes', FaultsPaid', UNCHANGED <<apiVars, glued>>,
         failures' \in Nat, DOMAIN log' = Runs,
         \A r \in Runs : /\ log'[r] \in Logs(Rows(r))
                         /\ Logged(log[r].ended) \subseteq Logged(log'[r].ended),
         \A i \in Items : status'[i] = "done" => status[i] = "done" \/ Kept(i),
         outcome' \in [Workers -> Outcomes \cup {None}],
         \A w \in Workers : outcome'[w] # None =>
           /\ step'[w] \in {"working", "nacking"}
           /\ outcome'[w] = "raise" \/ (outcome'[w] = outcome[w] /\ job'[w] = job[w])
  PROVE  LogInv'
<1> USE DEF LogInv
<1>1. RunTypes'
  BY DEF RunTypes, apiVars
<1>2. \A i \in Items : Kept(i) => Kept(i)'
  BY DistributedAssumption DEF Kept
<1>3. DoneIsKept'
  BY <1>2 DEF DoneIsKept
<1>4. OutcomesAgree'
  <2> SUFFICES ASSUME NEW w \in Workers, outcome'[w] \in {"pass", "done"}
               PROVE  Kept(job[w])' /\ job'[w] \in Items
    BY DEF OutcomesAgree
  <2>1. outcome[w] = outcome'[w] /\ job'[w] = job[w] /\ outcome[w] # None
    BY DistributedAssumption DEF Outcomes
  <2>2. Kept(job[w]) /\ job[w] \in Items
    BY <2>1 DEF OutcomesAgree, QueueTypes
  <2>3. Kept(job[w])' <=> job'[w] \in Logged(log'[RunOf[job'[w]]].ended) \cup glued'
    BY DEF Kept
  <2> QED BY <2>1, <2>2, <2>3, DistributedAssumption DEF Kept
<1> QED BY <1>1, <1>3, <1>4

(* A step of the queue that leaves the files alone. *)
LEMMA QueueStepLogs ==
  ASSUME LogInv, QueueTypes', UNCHANGED <<apiVars, fileVars, crashes>>,
         \A i \in Items : status'[i] = "done" => status[i] = "done" \/ Kept(i),
         outcome' \in [Workers -> Outcomes \cup {None}],
         \A w \in Workers : outcome'[w] # None =>
           /\ outcome'[w] = outcome[w] /\ job'[w] = job[w]
           /\ step'[w] \in {"working", "nacking"}
  PROVE  LogInv'
<1>1. UNCHANGED <<log, failures, glued>> /\ Unended' = Unended
  BY DEF fileVars, Unended
<1>2. FaultsPaid'
  BY <1>1 DEF LogInv, FaultsPaid
<1> QED BY <1>1, <1>2, FilesGrow DEF LogInv, RunTypes

(* The steps of an agent between a poll and the end of a nack. *)
LEMMA TakeLogs ==
  ASSUME LogInv, QueueTypes', NEW w \in Workers,
         AgentPop(w) \/ AgentClaim(w) \/ AgentNackRead(w)
  PROVE  LogInv'
<1> USE DEF LogInv, QueueTypes
<1>1. UNCHANGED runVars /\ UNCHANGED crashes
  BY DEF AgentPop, Pop, AgentClaim, Claim, AgentNackRead, NackRead
<1>2. \A i \in Items : status'[i] = "done" => status[i] = "done"
  BY DEF AgentPop, Pop, AgentClaim, Claim, AgentNackRead, NackRead, SetStatus, storeVars
<1>3. \A v \in Workers : outcome[v] # None =>
        job'[v] = job[v] /\ step'[v] \in {"working", "nacking"}
  BY DEF OutcomesAgree, AgentPop, Pop, AgentClaim, Claim, AgentNackRead, NackRead, Hand
<1> QED BY <1>1, <1>2, <1>3, QueueStepLogs DEF runVars, RunTypes

(* What leaves the hand of an agent it has no result of. *)
LEMMA ForgetLogs ==
  ASSUME LogInv, NEW w \in Workers,
         Forget(w), job' = [job EXCEPT ![w] = None], step' = [step EXCEPT ![w] = "idle"]
  PROVE  /\ outcome' \in [Workers -> Outcomes \cup {None}]
         /\ \A v \in Workers : outcome'[v] # None =>
              /\ outcome'[v] = outcome[v] /\ job'[v] = job[v]
              /\ step'[v] \in {"working", "nacking"}
<1> USE DEF LogInv, QueueTypes, RunTypes, Forget
<1>1. outcome' \in [Workers -> Outcomes \cup {None}]
  OBVIOUS
<1>2. ASSUME NEW v \in Workers, outcome'[v] # None
      PROVE  /\ outcome'[v] = outcome[v] /\ job'[v] = job[v]
             /\ step'[v] \in {"working", "nacking"}
  BY <1>2 DEF OutcomesAgree
<1> QED BY <1>1, <1>2

(* An item leaves the hand of an agent. *)
LEMMA LeaveLogs ==
  ASSUME LogInv, QueueTypes', NEW w \in Workers, AgentAck(w) \/ AgentNackWrite(w)
  PROVE  LogInv'
<1> USE DEF LogInv, QueueTypes
<1>1. UNCHANGED <<apiVars, fileVars, crashes>>
  BY DEF AgentAck, Ack, AgentNackWrite, NackWrite
<1>2. \A i \in Items : status'[i] = "done" => status[i] = "done" \/ Kept(i)
  <2>1. CASE AgentAck(w)
    <3>1. /\ status' = [status EXCEPT ![job[w]] = "done"]
          /\ outcome[w] \in {"pass", "done"} /\ outcome[w] # None
      BY <2>1, DistributedAssumption DEF AgentAck, Ack, SetStatus, Outcomes
    <3>2. Kept(job[w])
      BY <3>1 DEF OutcomesAgree
    <3> QED BY <3>1, <3>2
  <2>2. CASE AgentNackWrite(w)
    BY <2>2 DEF AgentNackWrite, NackWrite, SetStatus
  <2> QED BY <2>1, <2>2
<1>3. Forget(w) /\ job' = [job EXCEPT ![w] = None] /\ step' = [step EXCEPT ![w] = "idle"]
  BY DEF AgentAck, Ack, AgentNackWrite, NackWrite, Hand
<1> QED BY <1>1, <1>2, <1>3, ForgetLogs, QueueStepLogs

(* An append that stops leaves the file of the run in hand, and a line at  *)
(* its end perhaps.                                                        *)
LEMMA StopWrites ==
  ASSUME RunTypes, QueueTypes, NEW w \in Workers, Executing(w), AppendStops(w, BOOLEAN)
  PROVE  /\ RunInHand(w) \in Runs /\ DOMAIN log' = Runs
         /\ \A q \in Runs : q # RunInHand(w) => log'[q] = log[q]
         /\ \A q \in Runs : /\ log'[q] \in Logs(Rows(q))
                            /\ Logged(log[q].ended) \subseteq Logged(log'[q].ended)
         /\ Unended' \subseteq Unended \cup {RunInHand(w)}
<1>1. job[w] \in Items
  BY DEF Executing, QueueTypes
<1> DEFINE r == RunInHand(w)
<1>2. r \in Runs /\ job[w] \in Rows(r) /\ log[r] \in Logs(Rows(r))
  BY <1>1, DistributedAssumption DEF RunInHand, Rows, RunTypes
<1>3. PICK p \in BOOLEAN :
        \E g \in Interrupted(log[r], Line(job[w], p)) : log' = [log EXCEPT ![r] = g]
  BY DEF AppendStops, FileInHand, SetFile
<1>4. PICK g \in Interrupted(log[r], Line(job[w], p)) : log' = [log EXCEPT ![r] = g]
  BY <1>3
<1>5. Line(job[w], p) \in Lines(Rows(r))
  BY <1>2 DEF Line, Lines
<1> HIDE DEF r
<1>6. g \in Logs(Rows(r)) /\ Logged(log[r].ended) \subseteq Logged(g.ended)
  BY <1>2, <1>5, FileGrows
<1>7. /\ r \in Runs /\ DOMAIN log' = Runs
      /\ \A q \in Runs : q # r => log'[q] = log[q]
      /\ \A q \in Runs : /\ log'[q] \in Logs(Rows(q))
                         /\ Logged(log[q].ended) \subseteq Logged(log'[q].ended)
      /\ Unended' \subseteq Unended \cup {r}
  BY <1>2, <1>4, <1>6, FileWritten
<1> QED BY <1>7 DEF r

(* A line that says "not passed" is a line of either verdict. *)
LEMMA EitherVerdict ==
  ASSUME NEW w \in Workers, AppendStops(w, {FALSE})
  PROVE  AppendStops(w, BOOLEAN)
  BY DEF AppendStops

(* An append raises. *)
LEMMA AppendRaisesLogs ==
  ASSUME LogInv, QueueTypes', NEW w \in Workers, AppendRaises(w)
  PROVE  LogInv'
<1> USE DEF LogInv
<1>1. /\ UNCHANGED <<vars, apiVars, glued>> /\ failures' = failures + 1
      /\ Executing(w) /\ AppendStops(w, BOOLEAN)
      /\ outcome' = [outcome EXCEPT ![w] = "raise"] \/ outcome' = outcome
  BY EitherVerdict DEF AppendRaises
<1>2. failures' \in Nat
  BY <1>1 DEF RunTypes
<1>3. /\ DOMAIN log' = Runs
      /\ \A q \in Runs : /\ log'[q] \in Logs(Rows(q))
                         /\ Logged(log[q].ended) \subseteq Logged(log'[q].ended)
      /\ Unended' \subseteq Unended \cup {RunInHand(w)}
  BY <1>1, StopWrites
<1>4. outcome' \in [Workers -> Outcomes \cup {None}] /\ step[w] = "working"
  BY <1>1 DEF RunTypes, Outcomes, Executing
<1>5. RunTypes'
  BY <1>1, <1>2, <1>3, <1>4 DEF RunTypes, apiVars
<1>6. FaultsPaid'
  <2>1. crashes' = crashes /\ failures' = failures + 1
    BY <1>1 DEF vars
  <2> QED BY <1>1, <1>3, <1>5, <2>1, FaultPays
<1>7. \A v \in Workers : outcome'[v] # None =>
        /\ step'[v] \in {"working", "nacking"}
        /\ outcome'[v] = "raise" \/ (outcome'[v] = outcome[v] /\ job'[v] = job[v])
  BY <1>1, <1>4 DEF vars, agentVars, RunTypes, OutcomesAgree
<1>8. status' = status
  BY <1>1 DEF vars, storeVars
<1> QED BY <1>1, <1>2, <1>3, <1>4, <1>6, <1>7, <1>8, FilesGrow

(* An agent dies, between two steps or inside its append. *)
LEMMA DiesLogs ==
  ASSUME LogInv, QueueTypes', NEW w \in Workers, AgentDies(w)
  PROVE  LogInv'
<1> USE DEF LogInv
<1>1. /\ UNCHANGED <<apiVars, failures, glued, storeVars>> /\ crashes' = crashes + 1
      /\ Forget(w) /\ job' = [job EXCEPT ![w] = None] /\ step' = [step EXCEPT ![w] = "idle"]
      /\ UNCHANGED log \/ (Executing(w) /\ AppendStops(w, BOOLEAN))
  BY DEF AgentDies, AgentCrash, Hand
<1>2. /\ DOMAIN log' = Runs
      /\ \A q \in Runs : /\ log'[q] \in Logs(Rows(q))
                         /\ Logged(log[q].ended) \subseteq Logged(log'[q].ended)
      /\ \E r : Unended' \subseteq Unended \cup {r}
  <2>1. CASE UNCHANGED log
    BY <2>1 DEF RunTypes, Unended
  <2>2. CASE Executing(w) /\ AppendStops(w, BOOLEAN)
    BY <2>2, StopWrites
  <2> QED BY <1>1, <2>1, <2>2
<1>3. /\ outcome' \in [Workers -> Outcomes \cup {None}]
      /\ \A v \in Workers : outcome'[v] # None =>
           /\ outcome'[v] = outcome[v] /\ job'[v] = job[v]
           /\ step'[v] \in {"working", "nacking"}
  BY <1>1, ForgetLogs
<1>4. failures' \in Nat /\ status' = status
  BY <1>1 DEF RunTypes, storeVars
<1>5. RunTypes'
  BY <1>1, <1>2, <1>3, <1>4 DEF RunTypes, apiVars
<1>6. FaultsPaid'
  <2>1. crashes' = crashes + 1 /\ failures' = failures
    BY <1>1
  <2>2. PICK r : Unended' \subseteq Unended \cup {r}
    BY <1>2
  <2> QED BY <1>1, <1>5, <2>1, <2>2, FaultPays
<1> QED BY <1>1, <1>2, <1>3, <1>4, <1>6, FilesGrow

(* Rows that come in, and a resume that reclaims. *)
LEMMA RowsLog ==
  ASSUME LogInv, QueueTypes',
         \/ \E i \in Items : EnqueueRow(i) \/ ResumeOne(i)
         \/ ResumeScan \/ ResumeDies
         \/ UNCHANGED allVars
  PROVE  LogInv'
<1> USE DEF LogInv, QueueTypes
<1>1. UNCHANGED runVars /\ UNCHANGED agentVars /\ UNCHANGED crashes
  BY DEF EnqueueRow, Enqueue, ResumeOne, ReclaimOne, ResumeScan, ReclaimScan,
         ResumeDies, ReclaimCrash, allVars, vars
<1>2. \A i \in Items : status'[i] = "done" => status[i] = "done"
  BY DEF EnqueueRow, Enqueue, ResumeOne, ReclaimOne, ResumeScan, ReclaimScan,
         ResumeDies, ReclaimCrash, allVars, vars, storeVars, SetStatus
<1>3. \A v \in Workers : outcome[v] # None =>
        job'[v] = job[v] /\ step'[v] \in {"working", "nacking"}
  BY <1>1 DEF OutcomesAgree, agentVars
<1> QED BY <1>1, <1>2, <1>3, QueueStepLogs DEF runVars, RunTypes

(* An attempt that does not raise appends a line, perhaps to one that has  *)
(* no end.                                                                 *)
LEMMA AppendResultLogs ==
  ASSUME LogInv, NEW w \in Workers, NEW o \in Outcomes, Executing(w), AppendResult(w, o)
  PROVE  /\ RunInHand(w) \in Runs /\ DOMAIN log' = Runs
         /\ \A q \in Runs : q # RunInHand(w) => log'[q] = log[q]
         /\ \A q \in Runs : /\ log'[q] \in Logs(Rows(q))
                            /\ Logged(log[q].ended) \subseteq Logged(log'[q].ended)
         /\ glued \subseteq glued' /\ glued' \subseteq Items
         /\ job[w] \in Logged(log'[RunInHand(w)].ended) \cup glued'
         /\ IsFiniteSet(glued') /\ IsFiniteSet(Unended')
         /\ Cardinality(glued') + Cardinality(Unended') <= Cardinality(glued) + Cardinality(Unended)
<1> USE DEF LogInv
<1> DEFINE i == job[w]
           r == RunInHand(w)
           l == Line(i, o = "pass")
           g == Appended(log[r], l)
<1>1. i \in Items /\ i # 0
  BY DistributedAssumption DEF Executing, QueueTypes
<1>2. r \in Runs /\ i \in Rows(r) /\ log[r] \in Logs(Rows(r))
  BY <1>1, DistributedAssumption DEF RunInHand, Rows, RunTypes
<1>3. l \in Lines(Rows(r)) /\ l.sid = i
  BY <1>2 DEF Line, Lines
<1>4. /\ log' = [log EXCEPT ![r] = g]
      /\ glued' = IF log[r].tail = <<>> THEN glued ELSE glued \cup {i}
  BY DEF AppendResult, FileInHand, SetFile
<1>5. g \in Interrupted(log[r], l)
  BY DEF Interrupted
<1> HIDE DEF l, r
<1>6. /\ g \in Logs(Rows(r)) /\ Logged(log[r].ended) \subseteq Logged(g.ended) /\ g.tail = <<>>
      /\ log[r].tail = <<>> => i \in Logged(g.ended)
  BY <1>1, <1>2, <1>3, <1>5, FileGrows
<1> HIDE DEF g
<1>7. /\ DOMAIN log' = Runs /\ log'[r] = g
      /\ \A q \in Runs : q # r => log'[q] = log[q]
      /\ \A q \in Runs : /\ log'[q] \in Logs(Rows(q))
                         /\ Logged(log[q].ended) \subseteq Logged(log'[q].ended)
      /\ Unended' = Unended \ {r}
  BY <1>2, <1>4, <1>6, FileWritten
<1>8. /\ IsFiniteSet(glued') /\ IsFiniteSet(Unended')
      /\ Cardinality(glued') + Cardinality(Unended') <= Cardinality(glued) + Cardinality(Unended)
  <2>1. /\ IsFiniteSet(glued) /\ IsFiniteSet(Unended)
        /\ Cardinality(glued) \in Nat /\ Cardinality(Unended) \in Nat
    BY FS_CardinalityType DEF FaultsPaid
  <2>2. CASE log[r].tail = <<>>
    <3>1. Unended' = Unended /\ glued' = glued
      BY <1>4, <1>7, <2>2 DEF Unended
    <3> QED BY <2>1, <3>1
  <2>3. CASE log[r].tail # <<>>
    <3>1. r \in Unended /\ glued' = glued \cup {i}
      BY <1>2, <1>4, <2>3 DEF Unended
    <3>2. IsFiniteSet(Unended') /\ Cardinality(Unended') = Cardinality(Unended) - 1
      BY <1>7, <2>1, <3>1, FS_RemoveElement
    <3>3. /\ IsFiniteSet(glued') /\ Cardinality(glued') \in Nat
          /\ Cardinality(glued') <= Cardinality(glued) + 1
      BY <2>1, <3>1, OneMore
    <3> QED BY <2>1, <3>2, <3>3
  <2> QED BY <2>2, <2>3
<1>9. glued \subseteq glued' /\ glued' \subseteq Items /\ i \in Logged(log'[r].ended) \cup glued'
  BY <1>1, <1>4, <1>6, <1>7 DEF RunTypes
<1> QED BY <1>2, <1>7, <1>8, <1>9 DEF r

LEMMA ExecuteLogs ==
  ASSUME LogInv, QueueTypes', NEW w \in Workers, NEW o \in Outcomes, AgentExecute(w, o)
  PROVE  LogInv'
<1> USE DEF LogInv
<1>1. /\ outcome' = [outcome EXCEPT ![w] = o] /\ UNCHANGED <<vars, apiVars, failures>>
      /\ Executing(w)
      /\ IF o = "raise" THEN UNCHANGED <<log, glued>> ELSE AppendResult(w, o)
  BY DEF AgentExecute
<1>2. status' = status /\ job' = job /\ step' = step /\ crashes' = crashes
  BY <1>1 DEF vars, storeVars, agentVars
<1>3. outcome' \in [Workers -> Outcomes \cup {None}] /\ step[w] = "working"
  BY <1>1 DEF RunTypes, Executing
<1>4. CASE o = "raise"
  <2>1. UNCHANGED <<log, glued, failures>> /\ Unended' = Unended
    BY <1>1, <1>4 DEF Unended
  <2>2. FaultsPaid' /\ failures' \in Nat
    BY <1>2, <2>1 DEF FaultsPaid, RunTypes
  <2>3. \A v \in Workers : outcome'[v] # None =>
          /\ step'[v] \in {"working", "nacking"}
          /\ outcome'[v] = "raise" \/ (outcome'[v] = outcome[v] /\ job'[v] = job[v])
    BY <1>1, <1>2, <1>3, <1>4 DEF RunTypes, OutcomesAgree
  <2> QED BY <1>1, <1>2, <1>3, <2>1, <2>2, <2>3, FilesGrow DEF RunTypes
<1>5. CASE o # "raise"
  <2>1. /\ RunInHand(w) \in Runs /\ DOMAIN log' = Runs
        /\ \A q \in Runs : /\ log'[q] \in Logs(Rows(q))
                           /\ Logged(log[q].ended) \subseteq Logged(log'[q].ended)
        /\ glued \subseteq glued' /\ glued' \subseteq Items
        /\ job[w] \in Logged(log'[RunInHand(w)].ended) \cup glued'
        /\ IsFiniteSet(glued') /\ IsFiniteSet(Unended')
        /\ Cardinality(glued') + Cardinality(Unended') <= Cardinality(glued) + Cardinality(Unended)
    BY <1>1, <1>5, AppendResultLogs
  <2>2. RunTypes'
    BY <1>1, <1>3, <2>1 DEF RunTypes, apiVars
  <2>3. FaultsPaid'
    <3>1. /\ Cardinality(glued) \in Nat /\ Cardinality(Unended) \in Nat
          /\ Cardinality(glued') \in Nat /\ Cardinality(Unended') \in Nat
      BY <2>1, FS_CardinalityType DEF FaultsPaid
    <3>2. crashes \in Nat /\ failures \in Nat /\ failures' = failures
      BY <1>1, DistributedAssumption DEF QueueTypes, RunTypes
    <3> QED BY <1>2, <2>1, <3>1, <3>2 DEF FaultsPaid
  <2>4. \A j \in Items : Kept(j) => Kept(j)'
    BY <2>1, DistributedAssumption DEF Kept
  <2>5. DoneIsKept'
    BY <1>2, <2>4 DEF DoneIsKept
  <2>6. OutcomesAgree'
    <3> SUFFICES ASSUME NEW v \in Workers, outcome'[v] # None
                 PROVE  /\ step[v] \in {"working", "nacking"}
                        /\ outcome'[v] \in {"pass", "done"} => Kept(job[v])'
      BY <1>2 DEF OutcomesAgree, Kept
    <3>1. CASE v = w
      BY <1>2, <1>3, <2>1, <3>1 DEF Kept, RunInHand
    <3>2. CASE v # w
      <4>1. outcome[v] # None /\ outcome'[v] = outcome[v]
        BY <1>1, <3>2 DEF RunTypes
      <4>2. step[v] \in {"working", "nacking"} /\ job[v] \in Items
        BY <4>1 DEF OutcomesAgree, QueueTypes
      <4>3. Kept(job[v]) => Kept(job[v])'
        BY <1>2, <2>4, <4>2 DEF Kept
      <4> QED BY <4>1, <4>2, <4>3 DEF OutcomesAgree
    <3> QED BY <3>1, <3>2
  <2> QED BY <2>2, <2>3, <2>5, <2>6
<1> QED BY <1>4, <1>5

(* The coordinator and the finalizer leave the queue and the files alone. *)
LEMMA ApiLogs ==
  ASSUME LogInv, QueueTypes', UNCHANGED <<vars, fileVars, outcome>>,
         ApiRestart \/ \E r \in Runs :
           HandOver(r) \/ FinalizerCheck(r) \/ FinalizeRead(r) \/ FinalizeWrite(r)
  PROVE  LogInv'
<1> USE DEF LogInv
<1>1. UNCHANGED <<log, failures, glued, status, job, step, crashes>>
  BY DEF fileVars, vars, storeVars, agentVars
<1>2. DoneIsKept' /\ OutcomesAgree' /\ FaultsPaid'
  BY <1>1 DEF DoneIsKept, OutcomesAgree, FaultsPaid, Kept, Unended
<1>3. \A r \in Runs : /\ LoadCounters(Content(log[r])) \in [total : Nat, passed : Nat, failed : Nat]
                      /\ Summary(Content(log[r])).passed \subseteq Summary(Content(log[r])).samples
  BY ContentIs, ReadsTyped DEF RunTypes
<1>4. RunTypes'
  <2> USE <1>1 DEF RunTypes, Goto, Phases
  <2>1. CASE ApiRestart
    BY <2>1 DEF ApiRestart
  <2>2. ASSUME NEW r \in Runs, HandOver(r) \/ FinalizerCheck(r) PROVE RunTypes'
    BY <2>2 DEF HandOver, FinalizerCheck
  <2>3. ASSUME NEW r \in Runs, FinalizeRead(r) PROVE RunTypes'
    BY <1>3, <2>3 DEF FinalizeRead
  <2>4. ASSUME NEW r \in Runs, FinalizeWrite(r) PROVE RunTypes'
    BY <1>3, <2>4 DEF FinalizeWrite
  <2> QED BY <2>1, <2>2, <2>3, <2>4
<1> QED BY <1>2, <1>4

LEMMA LogStep ==
  ASSUME LogInv, [RunNext]_allVars
  PROVE  LogInv'
<1>1. QueueTypes'
  BY RunNextIsNext, QueueTypesStep DEF LogInv
<1>2. CASE \/ \E i \in Items : EnqueueRow(i) \/ ResumeOne(i)
           \/ ResumeScan \/ ResumeDies
           \/ UNCHANGED allVars
  BY <1>1, <1>2, RowsLog
<1>3. ASSUME NEW w \in Workers, AgentPop(w) \/ AgentClaim(w) \/ AgentNackRead(w)
      PROVE  LogInv'
  BY <1>1, <1>3, TakeLogs
<1>4. ASSUME NEW w \in Workers, NEW o \in Outcomes, AgentExecute(w, o) PROVE LogInv'
  BY <1>1, <1>4, ExecuteLogs
<1>5. ASSUME NEW w \in Workers, AgentAck(w) \/ AgentNackWrite(w) PROVE LogInv'
  BY <1>1, <1>5, LeaveLogs
<1>6. ASSUME NEW w \in Workers, AgentDies(w) \/ AppendRaises(w) PROVE LogInv'
  BY <1>1, <1>6, DiesLogs, AppendRaisesLogs
<1>7. ASSUME ApiRestart \/ \E r \in Runs :
               HandOver(r) \/ FinalizerCheck(r) \/ FinalizeRead(r) \/ FinalizeWrite(r)
      PROVE  LogInv'
  <2>1. UNCHANGED <<vars, fileVars, outcome>>
    BY <1>7 DEF ApiRestart, HandOver, FinalizerCheck, FinalizeRead, FinalizeWrite
  <2> QED BY <1>1, <1>7, <2>1, ApiLogs
<1> QED BY <1>2, <1>3, <1>4, <1>5, <1>6, <1>7 DEF RunNext

LEMMA LogAlways == RunSpec => []LogInv
<1>1. LogInv /\ [RunNext]_allVars => LogInv'
  BY LogStep
<1> QED BY <1>1, InitLog, PTL DEF RunSpec

(***************************************************************************)
(* A sample that is done has a readable line in the samples.jsonl of its   *)
(* own run, or its line was glued to one that a dying agent or a raising   *)
(* append left unended, and no more than one sample for each of those;     *)
(* whatever else the agents did, and whoever resumed the run under their   *)
(* hands.                                                                  *)
(***************************************************************************)
THEOREM DoneIsLogged == RunSpec => []AckedIsLogged
<1>1. ASSUME LogInv PROVE AckedIsLogged
  <2> USE <1>1 DEF LogInv
  <2>1. ASSUME NEW i \in Items, status[i] = "done" PROVE i \in Recorded(RunOf[i]) \cup glued
    <3>1. Kept(i) /\ RunOf[i] \in Runs
      BY <2>1, DistributedAssumption DEF DoneIsKept
    <3>2. Logged(log[RunOf[i]].ended) \subseteq Recorded(RunOf[i])
      BY <3>1, ContentIs DEF RunTypes, Recorded
    <3> QED BY <3>1, <3>2 DEF Kept
  <2>2. Cardinality(glued) <= crashes + failures
    <3>1. Cardinality(glued) \in Nat /\ Cardinality(Unended) \in Nat
      BY FS_CardinalityType DEF FaultsPaid
    <3>2. crashes \in Nat /\ failures \in Nat
      BY DistributedAssumption DEF QueueTypes, RunTypes
    <3> QED BY <3>1, <3>2 DEF FaultsPaid
  <2> QED BY <2>1, <2>2 DEF AckedIsLogged
<1> QED BY <1>1, LogAlways, PTL
-----------------------------------------------------------------------------
(* A run that was handed over has all its rows in the queue. *)
RowsAreIn ==
  \A i \in Items :
    phase[RunOf[i]] \notin {"enqueue", "forgotten"} => status[i] # "absent"

(* A check that overlooked no row saw all of them settled, or lost. *)
Checked(r) == phase[r] \in {"drained", "counted", "finalized"} /\ ~unseen[r]
ChecksHold ==
  \A i \in Items : Checked(RunOf[i]) => status[i] \in Settled \/ Nowhere(i)

(* What finalize() read of the file is what the file still says. *)
ReadsAgree ==
  \A r \in Runs : Checked(r) =>
    /\ phase[r] \in {"counted", "finalized"} => totals[r] = LoadCounters(Content(log[r]))
    /\ phase[r] = "finalized" => manifest[r] = Summary(Content(log[r]))

RunIInv ==
  /\ IInv
  /\ LogInv
  /\ RowsAreIn
  /\ ChecksHold
  /\ ReadsAgree

LEMMA InitRunIInv == RunInit => RunIInv
<1> SUFFICES ASSUME RunInit PROVE RunIInv
  OBVIOUS
<1>1. IInv
  BY InitIInv DEF RunInit
<1>2. RowsAreIn /\ ChecksHold /\ ReadsAgree
  BY DistributedAssumption DEF RunInit, RowsAreIn, ChecksHold, ReadsAgree, Checked
<1> QED BY <1>1, <1>2, InitLog DEF RunIInv

(* A step of the queue disturbs what is said of the runs only through the  *)
(* status of a row.                                                        *)
LEMMA QueueStepKeeps ==
  ASSUME RunIInv, [Next]_vars, UNCHANGED <<apiVars, log>>
  PROVE  RowsAreIn' /\ ChecksHold' /\ ReadsAgree'
<1> USE DEF RunIInv
<1>1. RowsAreIn' /\ ChecksHold'
  BY StatusMoves, NowhereMoves DEF RowsAreIn, ChecksHold, Checked, apiVars
<1>2. ReadsAgree'
  BY DEF ReadsAgree, Checked, apiVars
<1> QED BY <1>1, <1>2

(* An attempt logs for an item that is claimed, so no check that overlooked *)
(* nothing is behind it.                                                   *)
LEMMA AppendKeepsReads ==
  ASSUME RunIInv, NEW w \in Workers, Executing(w), UNCHANGED apiVars,
         RunInHand(w) \in Runs,
         \A q \in Runs : q # RunInHand(w) => log'[q] = log[q]
  PROVE  ReadsAgree'
<1> USE DEF RunIInv, IInv
<1>1. job[w] \in Items /\ status[job[w]] = "claimed"
  BY DEF Executing, HandsAgree, TypeOK
<1>2. ~Checked(RunInHand(w))
  BY <1>1 DEF ChecksHold, Nowhere, Settled, RunInHand
<1> QED BY <1>2 DEF ReadsAgree, Checked, apiVars

LEMMA ExecuteKeeps ==
  ASSUME RunIInv, NEW w \in Workers,
         AppendRaises(w) \/ \E o \in Outcomes : AgentExecute(w, o)
  PROVE  RowsAreIn' /\ ChecksHold' /\ ReadsAgree'
<1> USE DEF RunIInv, LogInv
<1>1. UNCHANGED <<vars, apiVars>> /\ Executing(w)
  BY DEF AgentExecute, AppendRaises
<1>2. RowsAreIn' /\ ChecksHold'
  <2>1. \A j \in Items : Nowhere(j)' = Nowhere(j)
    BY <1>1 DEF Nowhere, vars, storeVars, agentVars
  <2> QED BY <1>1, <2>1 DEF RowsAreIn, ChecksHold, Checked, vars, storeVars, apiVars
<1>3. ASSUME UNCHANGED log PROVE ReadsAgree'
  BY <1>1, <1>3 DEF ReadsAgree, Checked, apiVars
<1>4. ASSUME NEW o \in Outcomes, AppendResult(w, o) PROVE ReadsAgree'
  BY <1>1, <1>4, AppendResultLogs, AppendKeepsReads
<1>5. ASSUME AppendStops(w, BOOLEAN) PROVE ReadsAgree'
  BY <1>1, <1>5, StopWrites, AppendKeepsReads
<1> QED BY <1>2, <1>3, <1>4, <1>5, EitherVerdict DEF AgentExecute, AppendRaises

(* So does an agent that dies in its append. *)
LEMMA DiesKeeps ==
  ASSUME RunIInv, [Next]_vars, NEW w \in Workers, AgentDies(w)
  PROVE  RowsAreIn' /\ ChecksHold' /\ ReadsAgree'
<1> USE DEF RunIInv, LogInv
<1>1. UNCHANGED apiVars /\ (UNCHANGED log \/ (Executing(w) /\ AppendStops(w, BOOLEAN)))
  BY DEF AgentDies
<1>2. RowsAreIn' /\ ChecksHold'
  BY <1>1, StatusMoves, NowhereMoves DEF RowsAreIn, ChecksHold, Checked, apiVars
<1>3. ASSUME UNCHANGED log PROVE ReadsAgree'
  BY <1>1, <1>3 DEF ReadsAgree, Checked, apiVars
<1>4. ASSUME Executing(w), AppendStops(w, BOOLEAN) PROVE ReadsAgree'
  BY <1>1, <1>4, StopWrites, AppendKeepsReads
<1> QED BY <1>1, <1>2, <1>3, <1>4

(* The coordinator and the finalizer. *)
LEMMA ApiKeeps ==
  ASSUME RunIInv, UNCHANGED <<vars, fileVars, outcome>>,
         ApiRestart \/ \E r \in Runs :
           HandOver(r) \/ FinalizerCheck(r) \/ FinalizeRead(r) \/ FinalizeWrite(r)
  PROVE  RowsAreIn' /\ ChecksHold' /\ ReadsAgree'
<1> USE DEF RunIInv, IInv, LogInv
<1>1. status' = status /\ log' = log /\ \A i \in Items : Nowhere(i)' = Nowhere(i)
  BY DEF Nowhere, vars, storeVars, agentVars, fileVars
<1> USE DistributedAssumption, <1>1
    DEF RowsAreIn, ChecksHold, ReadsAgree, Checked, RunTypes, Goto
<1>1a. CASE ApiRestart
  BY <1>1a DEF ApiRestart
<1>2. ASSUME NEW r \in Runs, HandOver(r) PROVE RowsAreIn' /\ ChecksHold' /\ ReadsAgree'
  BY <1>2 DEF HandOver, Rows
<1>3. ASSUME NEW r \in Runs, FinalizerCheck(r)
      PROVE  RowsAreIn' /\ ChecksHold' /\ ReadsAgree'
  <2>1. /\ phase[r] = "awaits" /\ phase' = [phase EXCEPT ![r] = "drained"] /\ Drained
        /\ unseen' = [unseen EXCEPT ![r] =
              \E w \in Workers : step[w] = "popped" /\ job[w] \in Rows(r)]
        /\ UNCHANGED <<log, totals, manifest>>
    BY <1>3 DEF FinalizerCheck, QueueDrained, fileVars
  <2>2. ASSUME NEW i \in Items, RunOf[i] = r, ~unseen'[r] PROVE status[i] \in Settled \/ Nowhere(i)
    <3>1. status[i] # "absent"
      BY <2>1, <2>2 DEF Rows
    <3>2. ~\E w \in Workers : job[w] = i /\ step[w] = "popped"
      BY <2>1, <2>2 DEF Rows
    <3> QED BY <2>1, <3>1, <3>2, DrainedRows
  <2> QED BY <2>1, <2>2
<1>4. ASSUME NEW r \in Runs, FinalizeRead(r)
      PROVE  RowsAreIn' /\ ChecksHold' /\ ReadsAgree'
  <2>1. RowsAreIn' /\ ChecksHold'
    BY <1>4 DEF FinalizeRead
  <2>2. ReadsAgree'
    BY <1>4 DEF FinalizeRead
  <2> QED BY <2>1, <2>2
<1>5. ASSUME NEW r \in Runs, FinalizeWrite(r)
      PROVE  RowsAreIn' /\ ChecksHold' /\ ReadsAgree'
  <2>1. RowsAreIn' /\ ChecksHold'
    BY <1>5 DEF FinalizeWrite
  <2>2. ReadsAgree'
    BY <1>5 DEF FinalizeWrite
  <2> QED BY <2>1, <2>2
<1> QED BY <1>1a, <1>2, <1>3, <1>4, <1>5

-----------------------------------------------------------------------------
(***************************************************************************)
(* The inductive invariant of the composition: what an agent acks it has   *)
(* logged, a check that overlooked nothing saw every row settled or lost,  *)
(* and the file of such a run is read as it stays.                         *)
(***************************************************************************)
THEOREM DistributedInductive == ~Takeover => (RunSpec => []RunIInv)
<1> SUFFICES ASSUME ~Takeover PROVE RunSpec => []RunIInv
  OBVIOUS
<1>1. RunIInv /\ [RunNext]_allVars => RunIInv'
  <2> SUFFICES ASSUME RunIInv, [RunNext]_allVars PROVE RunIInv'
    OBVIOUS
  <2>1. [Next]_vars /\ IInv' /\ LogInv'
    BY RunNextIsNext, NextIInv, LogStep DEF RunIInv
  <2>2. CASE UNCHANGED <<apiVars, log>>
    BY <2>1, <2>2, QueueStepKeeps DEF RunIInv
  <2>3. ASSUME NEW w \in Workers,
               AppendRaises(w) \/ \E o \in Outcomes : AgentExecute(w, o)
        PROVE  RunIInv'
    BY <2>1, <2>3, ExecuteKeeps DEF RunIInv
  <2>6. ASSUME NEW w \in Workers, AgentDies(w) PROVE RunIInv'
    BY <2>1, <2>6, DiesKeeps DEF RunIInv
  <2>4. ASSUME ApiRestart \/ \E r \in Runs :
                 HandOver(r) \/ FinalizerCheck(r) \/ FinalizeRead(r) \/ FinalizeWrite(r)
        PROVE  RunIInv'
    <3>1. UNCHANGED <<vars, fileVars, outcome>>
      BY <2>4 DEF ApiRestart, HandOver, FinalizerCheck, FinalizeRead, FinalizeWrite
    <3> QED BY <2>1, <2>4, <3>1, ApiKeeps DEF RunIInv
  <2>5. ASSUME \/ \E i \in Items : EnqueueRow(i) \/ ResumeOne(i)
               \/ \E w \in Workers : \/ AgentPop(w) \/ AgentClaim(w) \/ AgentAck(w)
                                     \/ AgentNackRead(w) \/ AgentNackWrite(w)
               \/ ResumeScan \/ ResumeDies
               \/ UNCHANGED allVars
        PROVE  UNCHANGED <<apiVars, log>>
    BY <2>5 DEF EnqueueRow, ResumeOne, AgentPop, AgentClaim, AgentAck, AgentNackRead,
                AgentNackWrite, ResumeScan, ResumeDies, runVars, fileVars, allVars
  <2> QED BY <2>2, <2>3, <2>4, <2>5, <2>6 DEF RunNext
<1> QED BY <1>1, InitRunIInv, PTL DEF RunSpec

(***************************************************************************)
(* Queue, runs, files and reports stay in their types.                     *)
(***************************************************************************)
THEOREM RunTypeCorrect == ~Takeover => (RunSpec => []RunTypeOK)
<1>1. RunIInv => RunTypeOK
  BY DEF RunIInv, IInv, LogInv, RunTypes, RunTypeOK
<1> QED BY <1>1, DistributedInductive, PTL

(***************************************************************************)
(* A run is wrapped up with every row settled and every one that is done   *)
(* in its manifest, unless its line was glued to one a fault left unended, *)
(* or the check overlooked a row on its way from the list to a claim.      *)
(***************************************************************************)
THEOREM WrapUpIsComplete ==
  ~Takeover /\ ~CrashInWindow => (RunSpec => []FinalizedIsComplete)
<1>1. ASSUME RunIInv, NothingNowhere PROVE FinalizedIsComplete
  <2> SUFFICES ASSUME NEW r \in Runs, phase[r] = "finalized", ~unseen[r],
                      NEW i \in Rows(r)
               PROVE  /\ status[i] \in Settled
                      /\ status[i] = "done" => i \in manifest[r].samples \cup glued
    BY DEF FinalizedIsComplete
  <2>1. i \in Items /\ RunOf[i] = r /\ i # 0 /\ Checked(r)
    BY DistributedAssumption DEF Rows, Checked
  <2>2. status[i] \in Settled
    BY <1>1, <2>1 DEF RunIInv, ChecksHold, NothingNowhere
  <2>3. manifest[r].samples = Logged(Content(log[r]))
    <3>1. manifest[r] = Summary(Content(log[r]))
      BY <1>1, <2>1 DEF RunIInv, ReadsAgree
    <3> QED BY <3>1 DEF Summary
  <2>4. status[i] = "done" => i \in Logged(log[r].ended) \cup glued
    BY <1>1, <2>1 DEF RunIInv, LogInv, DoneIsKept, Kept
  <2>5. Logged(log[r].ended) \subseteq Logged(Content(log[r]))
    BY <1>1, ContentIs DEF RunIInv, LogInv, RunTypes
  <2> QED BY <2>2, <2>3, <2>4, <2>5
<1> QED BY <1>1, DistributedInductive, NothingNowhereAlways, RunsUseTheQueue, PTL

(***************************************************************************)
(* The totals and the manifest of such a run, two reads of a file agents   *)
(* append to, are what any later reader of it computes.                    *)
(***************************************************************************)
THEOREM WrapUpIsFinal == ~Takeover => (RunSpec => []ReportsAreFinal)
<1>1. RunIInv => ReportsAreFinal
  BY DEF RunIInv, ReadsAgree, ReportsAreFinal, Checked
<1> QED BY <1>1, DistributedInductive, PTL
=============================================================================
