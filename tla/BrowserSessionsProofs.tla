------------------------ MODULE BrowserSessionsProofs ------------------------
(***************************************************************************)
(* The rate bound of BrowserSessions, for every number of samples, hosts,  *)
(* permits, navigations and faults: the sessions touch the limiter only    *)
(* through acquire(), and a lazily refilled bucket is never ahead of what  *)
(* the rate allows.                                                        *)
(***************************************************************************)
EXTENDS BrowserSessions, FiniteSetTheorems, TLAPS

(* A bucket holds whole requests, at least one.                            *)
LEMMA CapIsNat == Cap \in Nat /\ Period \in Nat /\ Period >= 1
  BY RateAssumption DEF Cap

(* _refill() stays within the capacity.                                    *)
LEMMA RefilledBounds ==
  ASSUME RateTypeOK, NEW h \in Hosts
  PROVE  /\ bucket[h].tokens \in 0..Cap /\ bucket[h].age \in 0..Cap
         /\ Refilled(h) \in 0..Cap
  BY CapIsNat DEF RateTypeOK, Refilled, AtMost

(* The bucket an acquire() leaves behind holds n and was just refilled.    *)
LEMMA SetTokensType ==
  ASSUME RateTypeOK, NEW h \in Hosts, NEW n \in 0..Cap, SetTokens(h, n)
  PROVE  /\ bucket' \in [Hosts -> [tokens : 0..Cap, age : 0..Cap]]
         /\ bucket'[h] = [tokens |-> n, age |-> 0]
         /\ \A g \in Hosts \ {h} : bucket'[g] = bucket[g]
<1>1. [tokens |-> n, age |-> 0] \in [tokens : 0..Cap, age : 0..Cap]
  BY CapIsNat
<1> QED
  BY <1>1 DEF RateTypeOK, SetTokens

(* An admission takes from the allowance what it takes from the bucket.    *)
LEMMA AdmitKeepsRateInv ==
  ASSUME RateInv, NEW c \in Callers, NEW h \in Hosts, Admit(c, h)
  PROVE  RateInv'
<1> USE DEF RateInv
<1> DEFINE n == Refilled(h) - Period
<1>1. n \in 0..Cap
  BY CapIsNat, RefilledBounds DEF Admit
<1>2. SetTokens(h, n)
  BY DEF Admit
<1>3. /\ bucket' \in [Hosts -> [tokens : 0..Cap, age : 0..Cap]]
      /\ bucket'[h] = [tokens |-> n, age |-> 0]
      /\ \A g \in Hosts \ {h} : bucket'[g] = bucket[g]
  BY <1>1, <1>2, SetTokensType
<1>4. RateTypeOK'
  <2>1. slack' \in [Hosts -> Int]
    <3>1. slack[h] - Period \in Int
      BY CapIsNat DEF RateTypeOK
    <3> QED BY <3>1 DEF RateTypeOK, Admit
  <2>2. waiting' \in [Callers -> [host : Hosts, left : 0..Period] \cup {None}]
    BY DEF RateTypeOK, Admit
  <2> QED BY <1>3, <2>1, <2>2 DEF RateTypeOK
<1>5. ASSUME NEW g \in Hosts PROVE slack'[g] = Refilled(g)'
  <2>1. CASE g = h
    <3>1. slack'[h] = n
      BY DEF Admit, RateTypeOK
    <3>2. Refilled(h)' = n
      BY <1>1, <1>3, CapIsNat DEF Refilled, AtMost
    <3> QED BY <2>1, <3>1, <3>2
  <2>2. CASE g # h
    BY <2>2, <1>3 DEF Admit, RateTypeOK, Refilled
  <2> QED BY <2>1, <2>2
<1> QED BY <1>4, <1>5

(* A caller that has to sleep leaves bucket and allowance as they are.     *)
LEMMA SleepKeepsRateInv ==
  ASSUME RateInv, NEW c \in Callers, NEW h \in Hosts, Sleep(c, h)
  PROVE  RateInv'
<1> USE DEF RateInv
<1> DEFINE n == Refilled(h)
<1>1. n \in 0..Cap /\ Period - n \in 0..Period
  BY CapIsNat, RefilledBounds DEF Sleep
<1>2. SetTokens(h, n)
  BY DEF Sleep
<1>3. /\ bucket' \in [Hosts -> [tokens : 0..Cap, age : 0..Cap]]
      /\ bucket'[h] = [tokens |-> n, age |-> 0]
      /\ \A g \in Hosts \ {h} : bucket'[g] = bucket[g]
  BY <1>1, <1>2, SetTokensType
<1>4. RateTypeOK'
  <2>1. [host |-> h, left |-> Period - n] \in [host : Hosts, left : 0..Period]
    BY <1>1
  <2> QED BY <1>3, <2>1 DEF RateTypeOK, Sleep
<1>5. ASSUME NEW g \in Hosts PROVE slack'[g] = Refilled(g)'
  <2>1. CASE g = h
    <3>1. Refilled(h)' = n
      BY <1>1, <1>3, CapIsNat DEF Refilled, AtMost
    <3> QED BY <2>1, <3>1 DEF Sleep
  <2>2. CASE g # h
    BY <2>2, <1>3 DEF Sleep, Refilled
  <2> QED BY <2>1, <2>2
<1> QED BY <1>4, <1>5

(* Bucket and allowance grow by one a tick, up to the same capacity.       *)
LEMMA TickKeepsRateInv == RateInv /\ Tick => RateInv'
<1> SUFFICES ASSUME RateInv, Tick PROVE RateInv'
  OBVIOUS
<1> USE DEF RateInv
<1>1. bucket' \in [Hosts -> [tokens : 0..Cap, age : 0..Cap]]
  BY RefilledBounds, CapIsNat DEF Tick, RateTypeOK, AtMost
<1>2. waiting' \in [Callers -> [host : Hosts, left : 0..Period] \cup {None}]
  <2> SUFFICES ASSUME NEW c \in Callers
               PROVE  waiting'[c] \in [host : Hosts, left : 0..Period] \cup {None}
    BY DEF Tick, RateTypeOK
  <2>1. CASE waiting[c] = None \/ waiting[c].left = 0
    BY <2>1 DEF Tick, RateTypeOK
  <2>2. CASE waiting[c] # None /\ waiting[c].left # 0
    <3>1. waiting[c] \in [host : Hosts, left : 0..Period]
      BY <2>2 DEF RateTypeOK
    <3>2. waiting'[c] = [waiting[c] EXCEPT !.left = @ - 1]
      BY <2>2 DEF Tick
    <3>3. waiting[c].left - 1 \in 0..Period
      BY <2>2, <3>1, CapIsNat
    <3> QED BY <3>1, <3>2, <3>3
  <2> QED BY <2>1, <2>2
<1>3. ASSUME NEW h \in Hosts PROVE slack'[h] = Refilled(h)' /\ slack'[h] \in Int
  <2>1. bucket'[h].tokens = bucket[h].tokens /\ bucket'[h].age = AtMost(Cap, bucket[h].age + 1)
    BY RefilledBounds DEF Tick, RateTypeOK
  <2>2. slack'[h] = AtMost(Cap, Refilled(h) + 1)
    BY DEF Tick
  <2> QED BY <2>1, <2>2, RefilledBounds, CapIsNat DEF Refilled, AtMost
<1>4. slack' \in [Hosts -> Int]
  BY <1>3 DEF Tick
<1> QED BY <1>1, <1>2, <1>3, <1>4 DEF RateTypeOK

(* One step of the limiter, whoever takes it.                              *)
LEMMA RateStep == RateInv /\ [RateNext]_rateVars => RateInv'
<1> SUFFICES ASSUME RateInv, [RateNext]_rateVars PROVE RateInv'
  OBVIOUS
<1>1. CASE \E c \in Callers, h \in Hosts : Acquire(c, h)
  BY <1>1, AdmitKeepsRateInv, SleepKeepsRateInv DEF Acquire
<1>2. CASE \E c \in Callers : Wake(c)
  <2> PICK c \in Callers : Wake(c)
    BY <1>2
  <2>1. waiting[c].host \in Hosts
    BY DEF Wake, RateInv, RateTypeOK
  <2> QED BY <2>1, AdmitKeepsRateInv, SleepKeepsRateInv DEF Wake
<1>3. CASE Tick
  BY <1>3, TickKeepsRateInv
<1>4. CASE UNCHANGED rateVars
  BY <1>4 DEF rateVars, RateInv, RateTypeOK, Refilled
<1> QED BY <1>1, <1>2, <1>3, <1>4 DEF RateNext

(* A full bucket has its whole burst to give.                              *)
LEMMA RateStart == RateInit => RateInv
  BY CapIsNat DEF RateInit, RateInv, RateTypeOK, Refilled, AtMost
-----------------------------------------------------------------------------
(* Every step of a session, of the pool or of Chromium is a step of the    *)
(* limiter or leaves the limiter alone.                                    *)
LEMMA SessionsUseTheLimiter == [Next]_vars => [RateNext]_rateVars
<1> SUFFICES ASSUME [Next]_vars PROVE [RateNext]_rateVars
  OBVIOUS
<1>1. ASSUME NEW s \in Samples, SampleStep(s) PROVE [RateNext]_rateVars
  <2>1. CASE \E h \in Hosts : AskLimiter(s, h)
    BY <2>1 DEF AskLimiter, RateNext, Samples
  <2>2. CASE AskAgain(s)
    BY <2>2 DEF AskAgain, RateNext, Samples
  <2>3. CASE UNCHANGED rateVars
    BY <2>3
  <2> QED
    BY <1>1, <2>1, <2>2, <2>3 DEF SampleStep, AcquirePermit, Setup, StartDriver, Launch,
       SetupRaises, OpenContext, OpenPage, OpenRaises, PageLoads, Close
<1>2. CASE ChromiumDies
  BY <1>2 DEF ChromiumDies
<1>3. CASE Teardown
  BY <1>3 DEF Teardown
<1>4. CASE TimePasses
  BY <1>4 DEF TimePasses, RateNext
<1>5. CASE UNCHANGED vars
  BY <1>5 DEF vars
<1> QED BY <1>1, <1>2, <1>3, <1>4, <1>5 DEF Next

(* The sessions implement the limiter, seen alone.                         *)
THEOREM SessionsRefineLimiter == Spec => RateSpec
<1>1. Init => RateInit
  BY DEF Init
<1>2. [Next]_vars => [RateNext]_rateVars
  BY SessionsUseTheLimiter
<1> QED BY <1>1, <1>2, PTL DEF Spec, RateSpec

(* The bucket is never ahead of the allowance.                             *)
THEOREM BucketMatchesAllowance == Spec => []RateInv
<1>1. Init => RateInv
  BY RateStart DEF Init
<1>2. RateInv /\ [Next]_vars => RateInv'
  BY RateStep, SessionsUseTheLimiter
<1> QED BY <1>1, <1>2, PTL DEF Spec

(* No host is asked faster than its rate and burst allow, in any window of *)
(* time and however many samples share it (goto() through acquire()).      *)
THEOREM RateIsBounded == Spec => []RateBound
<1>1. RateInv => RateBound
  BY RefilledBounds, CapIsNat DEF RateInv, RateBound
<1> QED BY <1>1, BucketMatchesAllowance, PTL
-----------------------------------------------------------------------------
(* A sample that moves is counted where it arrives and no longer where it  *)
(* was.                                                                    *)
LEMMA Move ==
  ASSUME phase \in [Samples -> Holding \cup Over \cup {"new"}],
         NEW s \in Samples, NEW w, Goto(s, w), NEW P
  PROVE  /\ IsFiniteSet(In(P)) /\ Cardinality(In(P)) \in Nat
         /\ phase[s] \in P => Cardinality(In(P)) >= 1
         /\ Cardinality(In(P)') =
              Cardinality(In(P)) + (IF w \in P THEN 1 ELSE 0) - (IF phase[s] \in P THEN 1 ELSE 0)
<1>1. IsFiniteSet(In(P)) /\ Cardinality(In(P)) \in Nat
  <2>1. In(P) \in SUBSET Samples
    BY DEF In
  <2> QED BY <2>1, FS_Subset, FS_CardinalityType, PoolAssumption
<1>2. s \in In(P) <=> phase[s] \in P
  BY DEF In
<1>3. phase[s] \in P => Cardinality(In(P)) >= 1
  <2>1. In(P) # {} => Cardinality(In(P)) # 0
    BY <1>1, FS_EmptySet
  <2> QED BY <1>1, <1>2, <2>1
<1>4. CASE w \in P
  <2>1. In(P)' = In(P) \cup {s}
    BY <1>4 DEF In, Goto
  <2>2. Cardinality(In(P) \cup {s}) = IF s \in In(P) THEN Cardinality(In(P)) ELSE Cardinality(In(P)) + 1
    BY <1>1, FS_AddElement
  <2> QED BY <1>1, <1>2, <1>3, <1>4, <2>1, <2>2
<1>5. CASE w \notin P
  <2>1. In(P)' = In(P) \ {s}
    BY <1>5 DEF In, Goto
  <2>2. Cardinality(In(P) \ {s}) = IF s \in In(P) THEN Cardinality(In(P)) - 1 ELSE Cardinality(In(P))
    BY <1>1, FS_RemoveElement
  <2> QED BY <1>1, <1>2, <1>3, <1>5, <2>1, <2>2
<1> QED BY <1>4, <1>5

(* What a step of a sample that only moves has to keep of the rest.        *)
LEMMA TypeStep ==
  ASSUME PoolInv, RateTypeOK', NEW s \in Samples, SampleStep(s), permits' \in 0..Concurrency
  PROVE  TypeOK'
<1> USE DEF PoolInv
<1>1. phase' \in [Samples -> Holding \cup Over \cup {"new"}]
  BY DEF SampleStep, AcquirePermit, Setup, StartDriver, Launch, SetupRaises, OpenContext, OpenPage,
     OpenRaises, AskLimiter, AskAgain, PageLoads, Close, poolVars, Goto, Release, TypeOK, Holding, Over
<1>2. gotos' \in [Samples -> 0..Gotos]
  <2>1. CASE \E h \in Hosts : AskLimiter(s, h)
    <3>1. gotos[s] > 0 /\ gotos[s] \in 0..Gotos /\ gotos' = [gotos EXCEPT ![s] = gotos[s] - 1]
      BY <2>1 DEF AskLimiter, TypeOK
    <3>2. gotos[s] - 1 \in 0..Gotos
      BY <3>1, PoolAssumption
    <3> QED BY <3>1, <3>2 DEF TypeOK
  <2>2. CASE UNCHANGED gotos
    BY <2>2 DEF TypeOK
  <2> QED
    BY <2>1, <2>2 DEF SampleStep, AcquirePermit, Setup, StartDriver, Launch, SetupRaises,
       OpenContext, OpenPage, OpenRaises, AskAgain, PageLoads, Close, poolVars
<1>3. browser' \in {"none", "up", "dead"} /\ hasPw' \in BOOLEAN /\ lock' \in Samples \cup {None}
  BY DEF SampleStep, AcquirePermit, Setup, StartDriver, Launch, SetupRaises, OpenContext, OpenPage,
     OpenRaises, AskLimiter, AskAgain, PageLoads, Close, poolVars, TypeOK
<1>4. drivers' \in Int /\ chromiums' \in Int /\ contexts' \in Int
  BY DEF SampleStep, AcquirePermit, Setup, StartDriver, Launch, SetupRaises, OpenContext, OpenPage,
     OpenRaises, AskLimiter, AskAgain, PageLoads, Close, poolVars, procVars, TypeOK
<1>5. faults' \in [Kinds -> Nat]
  BY DEF SampleStep, AcquirePermit, Setup, StartDriver, Launch, SetupRaises, OpenContext, OpenPage,
     OpenRaises, AskLimiter, AskAgain, PageLoads, Close, poolVars, procVars, TypeOK, Fault, Kinds
<1> QED BY <1>1, <1>2, <1>3, <1>4, <1>5 DEF TypeOK

(* The counts before and after a step of one sample.                       *)
LEMMA Counts ==
  ASSUME PoolInv, NEW s \in Samples, NEW w, Goto(s, w)
  PROVE  /\ Cardinality(In(Holding)') = Cardinality(In(Holding))
              + (IF w \in Holding THEN 1 ELSE 0) - (IF phase[s] \in Holding THEN 1 ELSE 0)
         /\ Cardinality(In(InContext)') = Cardinality(In(InContext))
              + (IF w \in InContext THEN 1 ELSE 0) - (IF phase[s] \in InContext THEN 1 ELSE 0)
         /\ Cardinality(In(Holding)) \in Nat /\ Cardinality(In(InContext)) \in Nat
         /\ phase[s] \in Holding => Cardinality(In(Holding)) >= 1
         /\ phase[s] \in InContext => Cardinality(In(InContext)) >= 1
         /\ phase'[s] = w /\ \A t \in Samples \ {s} : phase'[t] = phase[t]
<1>1. phase \in [Samples -> Holding \cup Over \cup {"new"}]
  BY DEF PoolInv, TypeOK
<1>2. /\ Cardinality(In(Holding)') = Cardinality(In(Holding))
           + (IF w \in Holding THEN 1 ELSE 0) - (IF phase[s] \in Holding THEN 1 ELSE 0)
      /\ Cardinality(In(Holding)) \in Nat
      /\ phase[s] \in Holding => Cardinality(In(Holding)) >= 1
  BY <1>1, Move
<1>3. /\ Cardinality(In(InContext)') = Cardinality(In(InContext))
           + (IF w \in InContext THEN 1 ELSE 0) - (IF phase[s] \in InContext THEN 1 ELSE 0)
      /\ Cardinality(In(InContext)) \in Nat
      /\ phase[s] \in InContext => Cardinality(In(InContext)) >= 1
  BY <1>1, Move
<1>4. phase'[s] = w /\ \A t \in Samples \ {s} : phase'[t] = phase[t]
  BY <1>1 DEF Goto
<1> QED BY <1>2, <1>3, <1>4

(* Who is in setup() is there alone, and has no browser yet.               *)
LEMMA AloneInSetup ==
  ASSUME PoolInv, NEW s \in Samples, phase[s] \in {"locked", "starting"}
  PROVE  /\ lock = s /\ browser = "none"
         /\ \A t \in Samples \ {s} : phase[t] \notin {"locked", "starting"}
         /\ phase[s] = "locked" => drivers <= faults["launch"]
<1>1. s \in In({"locked", "starting"}) /\ lock = s /\ browser = "none"
  BY DEF PoolInv, In
<1>2. \A t \in Samples \ {s} : phase[t] \notin {"locked", "starting"}
  BY <1>1 DEF PoolInv, In
<1>3. phase[s] = "locked" => In({"starting"}) = {}
  BY <1>2 DEF In
<1> QED BY <1>1, <1>2, <1>3 DEF PoolInv

(* A fault is counted under its kind.                                      *)
LEMMA FaultCount ==
  ASSUME TypeOK, NEW k \in Kinds, Fault(k)
  PROVE  faults'[k] = faults[k] + 1 /\ \A j \in Kinds \ {k} : faults'[j] = faults[j]
  BY DEF TypeOK, Fault

(* No step of a sample loses a permit, and what it opens it closes or      *)
(* leaves to the count of the fault that made it.                          *)
LEMMA SampleStepKeepsPoolInv ==
  ASSUME PoolInv, RateTypeOK', NEW s \in Samples, SampleStep(s)
  PROVE  PoolInv'
<1> USE DEF PoolInv
<1>0. /\ permits \in 0..Concurrency /\ Concurrency \in Nat
      /\ drivers \in Int /\ chromiums \in Int /\ contexts \in Int
      /\ \A k \in Kinds : faults[k] \in Nat
      /\ "launch" \in Kinds /\ "page" \in Kinds
  BY PoolAssumption DEF TypeOK, Kinds
<1> DEFINE Locks == \A t \in In({"locked", "starting"}) : lock = t /\ browser = "none"
           Waiting == browser = "none" /\ In({"starting"}) = {} => drivers <= faults["launch"]
           Gone == browser # "up" => contexts = 0
<1>1. ASSUME AcquirePermit(s) PROVE NothingElseLeaks' /\ Locks' /\ Waiting' /\ Gone'
  <2> DEFINE w == IF browser = "none" THEN "acquired" ELSE "opening"
  <2>1. Goto(s, w)
    BY <1>1 DEF AcquirePermit, procVars
  <2>2. NothingElseLeaks'
    BY <1>0, <1>1, <2>1, Counts DEF NothingElseLeaks, Holding, InContext, AcquirePermit, procVars
  <2>3. Locks' /\ Waiting' /\ Gone'
    BY <1>0, <1>1, <2>1, Counts, PoolAssumption DEF In, AcquirePermit, procVars
  <2> QED BY <2>2, <2>3
<1>2. ASSUME Setup(s) PROVE NothingElseLeaks' /\ Locks' /\ Waiting' /\ Gone'
  <2> DEFINE w == IF browser = "none" THEN "locked" ELSE "opening"
  <2>1. Goto(s, w)
    BY <1>2 DEF Setup, procVars
  <2>2. NothingElseLeaks'
    BY <1>0, <1>2, <2>1, Counts DEF NothingElseLeaks, Holding, InContext, Setup, procVars
  <2>3. Locks' /\ Waiting' /\ Gone'
    <3>1. phase'[s] = w /\ \A t \in Samples \ {s} : phase'[t] = phase[t]
      BY <2>1, Counts
    <3>2. \A t \in Samples : phase[t] \notin {"locked", "starting"}
      BY <1>2, PoolAssumption DEF Setup, In
    <3>3. /\ lock' = IF browser = "none" THEN s ELSE lock
          /\ UNCHANGED <<browser, drivers, contexts, faults>>
      BY <1>2 DEF Setup, procVars
    <3>4. \A t \in Samples : phase'[t] # "starting" /\ (phase'[t] = "locked" => t = s /\ browser = "none")
      BY <3>1, <3>2
    <3>5. Locks'
      BY <3>3, <3>4 DEF In
    <3>6. In({"starting"}) = {}
      BY <3>2 DEF In
    <3>7. Waiting' /\ Gone'
      BY <3>3, <3>6
    <3> QED BY <3>5, <3>7
  <2> QED BY <2>2, <2>3
<1>3. ASSUME StartDriver(s) PROVE NothingElseLeaks' /\ Locks' /\ Waiting' /\ Gone'
  <2>1. Goto(s, "starting") /\ phase[s] = "locked"
    BY <1>3 DEF StartDriver
  <2>2. /\ lock = s /\ browser = "none" /\ drivers <= faults["launch"]
        /\ \A t \in Samples \ {s} : phase[t] \notin {"locked", "starting"}
    BY <2>1, AloneInSetup
  <2>3. /\ UNCHANGED <<permits, browser, lock, chromiums, contexts, faults>>
        /\ drivers' = drivers + 1 /\ hasPw' = TRUE
    BY <1>3 DEF StartDriver
  <2>4. NothingElseLeaks'
    BY <1>0, <2>1, <2>2, <2>3, Counts DEF NothingElseLeaks, Holding, InContext
  <2>5. phase'[s] = "starting" /\ \A t \in Samples \ {s} : phase'[t] = phase[t]
    BY <2>1, Counts
  <2>6. Locks' /\ Gone'
    BY <2>2, <2>3, <2>5 DEF In
  <2>7. Waiting'
    BY <2>5 DEF In
  <2> QED BY <2>4, <2>6, <2>7
<1>4. ASSUME Launch(s) PROVE NothingElseLeaks' /\ Locks' /\ Waiting' /\ Gone'
  <2>1. Goto(s, "opening") /\ phase[s] = "starting"
    BY <1>4 DEF Launch
  <2>2. /\ browser = "none"
        /\ \A t \in Samples \ {s} : phase[t] \notin {"locked", "starting"}
    BY <2>1, AloneInSetup
  <2>3. /\ UNCHANGED <<permits, hasPw, drivers, contexts, faults>>
        /\ chromiums' = chromiums + 1 /\ browser' = "up"
    BY <1>4 DEF Launch
  <2>4. NothingElseLeaks'
    BY <1>0, <2>1, <2>2, <2>3, Counts DEF NothingElseLeaks, Holding, InContext
  <2>5. phase'[s] = "opening" /\ \A t \in Samples \ {s} : phase'[t] = phase[t]
    BY <2>1, Counts
  <2>6. Locks' /\ Waiting' /\ Gone'
    BY <2>2, <2>3, <2>5 DEF In
  <2> QED BY <2>4, <2>6
<1>5. ASSUME SetupRaises(s) PROVE NothingElseLeaks' /\ Locks' /\ Waiting' /\ Gone'
  <2>1. /\ Goto(s, "failed") /\ phase[s] \in {"locked", "starting"}
        /\ permits' = permits + 1
        /\ UNCHANGED <<browser, hasPw, drivers, chromiums, contexts>>
    BY <1>5 DEF SetupRaises, Release, procVars
  <2>2. /\ browser = "none" /\ (phase[s] = "locked" => drivers <= faults["launch"])
        /\ \A t \in Samples \ {s} : phase[t] \notin {"locked", "starting"}
    BY <2>1, AloneInSetup
  <2>3. /\ faults'["page"] = faults["page"]
        /\ faults'["launch"] = faults["launch"] + (IF phase[s] = "starting" THEN 1 ELSE 0)
    <3>1. CASE phase[s] = "locked" /\ Fault("driver")
      BY <1>0, <3>1, FaultCount DEF Kinds
    <3>2. CASE phase[s] = "starting" /\ Fault("launch")
      BY <1>0, <3>2, FaultCount DEF Kinds
    <3> QED BY <1>5, <3>1, <3>2 DEF SetupRaises
  <2>4. NothingElseLeaks' /\ drivers' <= faults'["launch"]
    BY <1>0, <2>1, <2>2, <2>3, Counts DEF NothingElseLeaks, Holding, InContext
  <2>5. phase'[s] = "failed" /\ \A t \in Samples \ {s} : phase'[t] = phase[t]
    BY <2>1, Counts
  <2>6. Locks' /\ Gone'
    BY <2>1, <2>2, <2>5 DEF In
  <2> QED BY <2>4, <2>6
<1>6. ASSUME OpenContext(s) PROVE NothingElseLeaks' /\ Locks' /\ Waiting' /\ Gone'
  <2> DEFINE w == "paging"
  <2>1. Goto(s, w)
    BY <1>6 DEF OpenContext
  <2>2. NothingElseLeaks'
    BY <1>0, <1>6, <2>1, Counts DEF NothingElseLeaks, Holding, InContext, OpenContext
  <2>3. Locks' /\ Waiting' /\ Gone'
    BY <1>0, <1>6, <2>1, Counts, PoolAssumption DEF In, OpenContext
  <2> QED BY <2>2, <2>3
<1>7. ASSUME OpenPage(s) PROVE NothingElseLeaks' /\ Locks' /\ Waiting' /\ Gone'
  <2> DEFINE w == "using"
  <2>1. Goto(s, w)
    BY <1>7 DEF OpenPage, procVars
  <2>2. NothingElseLeaks'
    BY <1>0, <1>7, <2>1, Counts DEF NothingElseLeaks, Holding, InContext, OpenPage, procVars
  <2>3. Locks' /\ Waiting' /\ Gone'
    BY <1>0, <1>7, <2>1, Counts, PoolAssumption DEF In, OpenPage, procVars
  <2> QED BY <2>2, <2>3
<1>8. ASSUME OpenRaises(s) PROVE NothingElseLeaks' /\ Locks' /\ Waiting' /\ Gone'
  <2>1. /\ Goto(s, "failed") /\ phase[s] \in {"opening", "paging"}
        /\ permits' = permits + 1
        /\ UNCHANGED <<browser, hasPw, lock, drivers, chromiums, contexts>>
    BY <1>8 DEF OpenRaises, Release, procVars
  <2>2. /\ faults'["launch"] = faults["launch"] /\ faults'["page"] >= faults["page"]
        /\ faults'["page"] \in Nat
        /\ phase[s] = "paging" => browser = "dead" \/ faults'["page"] = faults["page"] + 1
    <3>1. CASE UNCHANGED faults /\ browser = "dead"
      BY <1>0, <3>1
    <3>2. CASE phase[s] = "opening" /\ Fault("context")
      BY <1>0, <3>2, FaultCount DEF Kinds
    <3>3. CASE phase[s] = "paging" /\ Fault("page")
      BY <1>0, <3>3, FaultCount DEF Kinds
    <3> QED BY <1>8, <3>1, <3>2, <3>3 DEF OpenRaises
  <2>3. NothingElseLeaks'
    BY <1>0, <2>1, <2>2, Counts DEF NothingElseLeaks, Holding, InContext
  <2>4. phase'[s] = "failed" /\ \A t \in Samples \ {s} : phase'[t] = phase[t]
    BY <2>1, Counts
  <2>5. Locks' /\ Gone'
    BY <2>1, <2>4 DEF In
  <2>6. In({"starting"})' = In({"starting"})
    BY <2>1, <2>4 DEF In
  <2>7. Waiting'
    BY <2>1, <2>2, <2>6
  <2> QED BY <2>3, <2>5, <2>7
<1>9. ASSUME NEW h \in Hosts, AskLimiter(s, h) PROVE NothingElseLeaks' /\ Locks' /\ Waiting' /\ Gone'
  <2> DEFINE w == "loading"
  <2>1. Goto(s, w)
    BY <1>9 DEF AskLimiter, procVars
  <2>2. NothingElseLeaks'
    BY <1>0, <1>9, <2>1, Counts DEF NothingElseLeaks, Holding, InContext, AskLimiter, procVars
  <2>3. Locks' /\ Waiting' /\ Gone'
    BY <1>0, <1>9, <2>1, Counts, PoolAssumption DEF In, AskLimiter, procVars
  <2> QED BY <2>2, <2>3
<1>10. ASSUME PageLoads(s) PROVE NothingElseLeaks' /\ Locks' /\ Waiting' /\ Gone'
  <2> DEFINE w == "using"
  <2>1. Goto(s, w)
    BY <1>10 DEF PageLoads, procVars
  <2>2. NothingElseLeaks'
    BY <1>0, <1>10, <2>1, Counts DEF NothingElseLeaks, Holding, InContext, PageLoads, procVars
  <2>3. Locks' /\ Waiting' /\ Gone'
    BY <1>0, <1>10, <2>1, Counts, PoolAssumption DEF In, PageLoads, procVars
  <2> QED BY <2>2, <2>3
<1>11. ASSUME Close(s) PROVE NothingElseLeaks' /\ Locks' /\ Waiting' /\ Gone'
  <2> DEFINE w == "done"
  <2>1. Goto(s, w)
    BY <1>11 DEF Close, Release
  <2>2. NothingElseLeaks'
    BY <1>0, <1>11, <2>1, Counts DEF NothingElseLeaks, Holding, InContext, Close, Release
  <2>3. Locks' /\ Waiting' /\ Gone'
    BY <1>0, <1>11, <2>1, Counts, PoolAssumption DEF In, Close, Release
  <2> QED BY <2>2, <2>3
<1>12. ASSUME AskAgain(s) PROVE NothingElseLeaks' /\ Locks' /\ Waiting' /\ Gone'
  BY <1>12 DEF AskAgain, poolVars, procVars, NothingElseLeaks, In
<1>13. NothingElseLeaks' /\ Locks' /\ Waiting' /\ Gone'
  BY <1>1, <1>2, <1>3, <1>4, <1>5, <1>6, <1>7, <1>8, <1>9, <1>10, <1>11, <1>12 DEF SampleStep
<1>14. permits' \in 0..Concurrency
  <2>1. Cardinality(In(Holding)') \in Nat
    <3>1. In(Holding)' \in SUBSET Samples
      BY DEF In
    <3> QED BY <3>1, FS_Subset, FS_CardinalityType, PoolAssumption
  <2>2. permits' \in Nat
    BY <1>0 DEF SampleStep, AcquirePermit, Setup, StartDriver, Launch, SetupRaises, OpenContext,
       OpenPage, OpenRaises, AskLimiter, AskAgain, PageLoads, Close, Release, poolVars
  <2>3. permits' + Cardinality(In(Holding)') = Concurrency
    BY <1>13 DEF NothingElseLeaks
  <2> QED BY <1>0, <2>1, <2>2, <2>3
<1>15. TypeOK'
  BY <1>14, TypeStep
<1> QED BY <1>13, <1>15

(* The same for a dying Chromium, the teardown and time.                   *)
LEMMA OthersKeepPoolInv ==
  ASSUME PoolInv, RateTypeOK', ChromiumDies \/ Teardown \/ TimePasses \/ UNCHANGED vars
  PROVE  PoolInv'
<1> USE DEF PoolInv
<1>0. /\ drivers \in Int /\ chromiums \in Int /\ contexts \in Int
      /\ \A k \in Kinds : faults[k] \in Nat
      /\ "launch" \in Kinds /\ "page" \in Kinds /\ "death" \in Kinds
      /\ Cardinality(In(InContext)) \in Nat
  <2>1. In(InContext) \in SUBSET Samples
    BY DEF In
  <2>2. Cardinality(In(InContext)) \in Nat
    BY <2>1, FS_Subset, FS_CardinalityType, PoolAssumption
  <2> QED BY <2>2 DEF TypeOK, Kinds
<1>1. CASE ChromiumDies
  <2>1. UNCHANGED <<phase, permits, lock, hasPw, drivers, gotos>> /\ browser' = "dead" /\ contexts' = 0
    BY <1>1 DEF ChromiumDies
  <2>2. /\ faults' = [faults EXCEPT !["death"] = faults["death"] + 1]
        /\ faults' \in [Kinds -> Nat] /\ faults'["launch"] = faults["launch"]
        /\ faults'["page"] = faults["page"]
    BY <1>0, <1>1 DEF ChromiumDies, Fault, TypeOK, Kinds
  <2>3. In(Holding)' = In(Holding) /\ In(InContext)' = In(InContext)
        /\ In({"locked", "starting"})' = In({"locked", "starting"})
    BY <2>1 DEF In
  <2>4. browser = "up" /\ chromiums' = chromiums - 1
    BY <1>1 DEF ChromiumDies
  <2>5. TypeOK'
    BY <1>0, <2>1, <2>2, <2>4 DEF TypeOK
  <2>6. NothingElseLeaks'
    BY <1>0, <2>1, <2>2, <2>3, <2>4 DEF NothingElseLeaks
  <2> QED BY <2>1, <2>3, <2>4, <2>5, <2>6
<1>2. CASE Teardown
  <2>1. UNCHANGED <<phase, permits, lock, gotos, faults>> /\ browser' = "none" /\ hasPw' = FALSE
    BY <1>2 DEF Teardown
  <2>2. /\ drivers' = IF hasPw THEN drivers - 1 ELSE drivers
        /\ chromiums' = IF browser = "up" THEN chromiums - 1 ELSE chromiums
        /\ contexts' = 0
    BY <1>2 DEF Teardown
  <2>3. In(Holding)' = In(Holding) /\ In(InContext)' = In(InContext)
    BY <2>1 DEF In
  <2>4. In({"locked", "starting"})' = {}
    BY <1>2, <2>1 DEF Teardown, In, Over
  <2>5. TypeOK'
    <3>1. UNCHANGED rateVars
      BY <1>2 DEF Teardown
    <3>2. drivers' \in Int /\ chromiums' \in Int /\ contexts' \in Int
      BY <1>0, <2>2
    <3> QED BY <2>1, <3>2 DEF TypeOK
  <2>6. NothingElseLeaks' /\ drivers' <= faults'["launch"]
    BY <1>0, <2>1, <2>2, <2>3 DEF NothingElseLeaks
  <2> QED BY <2>2, <2>4, <2>5, <2>6
<1>3. CASE TimePasses
  BY <1>3 DEF TimePasses, poolVars, procVars, TypeOK, NothingElseLeaks, In
<1>4. CASE UNCHANGED vars
  BY <1>4 DEF vars, poolVars, procVars, TypeOK, NothingElseLeaks, In
<1> QED BY <1>1, <1>2, <1>3, <1>4

(* The invariant of the pool, in every state of the sessions.              *)
THEOREM PoolInductive == Spec => []PoolInv
<1>1. Init => PoolInv
  <2> SUFFICES ASSUME Init PROVE PoolInv
    OBVIOUS
  <2>1. \A P \in {Holding, InContext, {"locked", "starting"}} : In(P) = {}
    BY DEF Init, In, Holding, InContext
  <2>2. TypeOK
    <3>1. RateTypeOK
      BY RateStart DEF Init, RateInv
    <3>2. phase \in [Samples -> Holding \cup Over \cup {"new"}] /\ gotos \in [Samples -> 0..Gotos]
      BY PoolAssumption DEF Init
    <3>3. faults \in [Kinds -> Nat] /\ permits \in 0..Concurrency
      BY PoolAssumption DEF Init
    <3>4. {drivers, chromiums, contexts} \subseteq Int
      BY DEF Init
    <3> QED BY <3>1, <3>2, <3>3, <3>4 DEF Init, TypeOK
  <2>3. NothingElseLeaks
    BY <2>1, FS_EmptySet, PoolAssumption DEF Init, NothingElseLeaks, Kinds
  <2> QED BY <2>1, <2>2, <2>3 DEF Init, PoolInv, Kinds
<1>2. RateInv /\ RateInv' /\ PoolInv /\ [Next]_vars => PoolInv'
  BY SampleStepKeepsPoolInv, OthersKeepPoolInv DEF Next, RateInv
<1> QED BY <1>1, <1>2, BucketMatchesAllowance, PTL DEF Spec

(* The semaphore's permits, the one Chromium, the drivers and the contexts *)
(* add up, whatever raises, for every number of samples and permits.       *)
THEOREM PoolLeaksNothingElse == Spec => []NothingElseLeaks
<1>1. PoolInv => NothingElseLeaks
  BY DEF PoolInv
<1> QED BY <1>1, PoolInductive, PTL

(* Type correctness of the limiter, the pool and the sessions.             *)
THEOREM SessionsTypeCorrect == Spec => []TypeOK
<1>1. PoolInv => TypeOK
  BY DEF PoolInv
<1> QED BY <1>1, PoolInductive, PTL
=============================================================================
