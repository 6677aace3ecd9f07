--------------------------- MODULE PlanCacheProofs ---------------------------
(***************************************************************************)
(* Theorems about Descriptors and PlanCache, for all pages, hints, samples *)
(* and processes.                                                          *)
(***************************************************************************)
EXTENDS PlanCache, FiniteSetTheorems, TLAPS

(* Of two members of a finite set of numbers the smaller has the smaller rank. *)
LEMMA RankIsStrict ==
  ASSUME NEW ks \in SUBSET Nat, IsFiniteSet(ks),
         NEW j \in ks, NEW k \in ks, j < k
  PROVE  Rank(j, ks) < Rank(k, ks)
<1> DEFINE J == {l \in ks : l < j}
           K == {l \in ks : l < k}
<1>1. IsFiniteSet(J) /\ IsFiniteSet(K)
  BY FS_Subset
<1>2. J \subseteq K \ {j} /\ j \in K
  <2>1. \A l \in ks : l \in Nat
    OBVIOUS
  <2>2. \A l \in J : l \in K /\ l # j
    BY <2>1
  <2> QED BY <2>1, <2>2
<1>3. Cardinality(J) \in Nat /\ Cardinality(K) \in Nat
  BY <1>1, FS_CardinalityType
<1> HIDE DEF J, K
<1>4. /\ IsFiniteSet(K \ {j})
      /\ Cardinality(K \ {j}) = Cardinality(K) - 1
  BY <1>1, <1>2, FS_RemoveElement
<1>5. Cardinality(J) <= Cardinality(K \ {j})
  BY <1>2, <1>4, FS_Subset
<1>6. Cardinality(J) < Cardinality(K)
  BY <1>3, <1>4, <1>5
<1> QED BY <1>6 DEF Rank, J, K

(* A descriptor finds one mark of a page at most (_match_descriptor). *)
LEMMA OneCandidatePerOrdinal ==
  ASSUME NEW ks \in SUBSET Nat, IsFiniteSet(ks),
         NEW j \in ks, NEW k \in ks, Rank(j, ks) = Rank(k, ks)
  PROVE  j = k
<1>1. ~(j < k) /\ ~(k < j)
  <2>1. Rank(j, ks) \in Nat /\ Rank(k, ks) \in Nat
    BY FS_Subset, FS_CardinalityType DEF Rank
  <2> QED BY <2>1, RankIsStrict
<1> QED BY <1>1

(***************************************************************************)
(* On the page it was made for, a descriptor finds the mark it was made    *)
(* for and no other, provided that its own filter accepts the mark         *)
(* (_descriptor_for and _match_descriptor).                                *)
(***************************************************************************)
THEOREM DescriptorRoundTrip ==
  ASSUME NEW page, NEW n \in Nat, DOMAIN page = 1..n,
         NEW k \in DOMAIN page, NEW hint,
         Fits(page[k], FilterFor(page[k], hint))
  PROVE  Match(DescriptorFor(k, page, hint), page) = {k}
<1> DEFINE filter == FilterFor(page[k], hint)
           found == Candidates(filter, page)
<1>1. found \in SUBSET Nat /\ k \in found
  BY DEF Candidates
<1>2. IsFiniteSet(found)
  BY FS_Interval, FS_Subset DEF Candidates
<1>3. Ordinal(k, page, hint) = Rank(k, found)
  BY DEF Ordinal
<1> HIDE DEF found
<1>4. ASSUME NEW j \in found, Rank(j, found) = Rank(k, found)
      PROVE  j = k
  BY <1>1, <1>2, <1>4, OneCandidatePerOrdinal
<1>5. Match(DescriptorFor(k, page, hint), page)
        = {j \in found : Rank(j, found) = Rank(k, found)}
  BY <1>3 DEF Match, DescriptorFor, found
<1> QED BY <1>1, <1>4, <1>5
-----------------------------------------------------------------------------
LEMMA ConstantFacts ==
  /\ ProcessOf \in [Samples -> Processes]
  /\ MaxPlans \in [Samples -> Nat \ {0}]
  /\ 0 \in 0..MaxCrashes
  /\ None \notin Objects /\ None \notin {"tmp", "file", "unlinked"}
BY PlanCacheAssumption DEF Objects

LEMMA LearnedIsAPlan ==
  ASSUME NEW s \in Samples, NEW k \in DOMAIN PageOf[s], NEW h \in Hints
  PROVE  Learned(s, k, h) \in Plans
BY DEF Plans

LEMMA UnresolvedIsAPlan == Unresolved \in Plans
BY DEF Plans

LEMMA NewObjectIsAnObject ==
  ASSUME SampleTypeOK, NEW s \in Samples, planCount[s] < MaxPlans[s]
  PROVE  NewObject(s) \in Objects
<1>1. planCount[s] + 1 \in 1..MaxPlans[s]
  BY ConstantFacts DEF SampleTypeOK
<1> QED BY <1>1 DEF NewObject, Objects

LEMMA FoundIsOnThePage ==
  ASSUME NEW s \in Samples, NEW k \in Found(s)
  PROVE  k \in DOMAIN PageOf[s]
BY DEF Found, Match, Candidates

LEMMA PickIsOnThePage ==
  ASSUME NEW id, NEW h, NEW page, NEW k \in VisionPick(id, h, page)
  PROVE  k \in DOMAIN page
BY DEF VisionPick, Candidates

LEMMA InitIInv == Init => IInv
<1> SUFFICES ASSUME Init PROVE IInv
  OBVIOUS
<1>1. CacheTypeOK
  BY DEF Init, CacheTypeOK, Plans
<1>2. SampleTypeOK
  BY ConstantFacts DEF Init, SampleTypeOK
<1>3. HistoryTypeOK
  BY ConstantFacts, Zenon DEF Init, HistoryTypeOK
<1>4. RunsAPlan
  BY DEF Init, RunsAPlan, Putting
<1>5. PutsAlone
  BY ConstantFacts DEF Init, PutsAlone, Putting
<1> QED BY <1>1, <1>2, <1>3, <1>4, <1>5 DEF IInv, TypeOK

(* A step that leaves the files alone, of a sample outside put(). *)
LEMMA QuietStep ==
  ASSUME SampleTypeOK, ~overlapped => PutsAlone, NEW s \in Samples, ~Putting(s),
         UNCHANGED <<file, tmp, handle, overlapped>>,
         NEW ph, Goto(s, ph), ph \notin {"write", "rename"}
  PROVE  (~overlapped => PutsAlone)'
BY DEF Goto, SampleTypeOK, PutsAlone, Putting, SamplesOf

(* The beginning of put(). *)
LEMMA PutOpensStep ==
  ASSUME IInv, NEW s \in Samples, ~Putting(s), NEW o \in Objects, PutOpens(s, o)
  PROVE  /\ mem' \in [Processes -> Objects \cup {None}]
         /\ file' \in Contents \cup {None}
         /\ tmp' \in Contents \cup {None}
         /\ handle' \in [Processes -> {"tmp", "file", "unlinked", None}]
         /\ overlapped' \in BOOLEAN
         /\ (~overlapped => PutsAlone)'
<1> USE DEF IInv, TypeOK
<1>1. ProcessOf[s] \in Processes
  BY ConstantFacts
<1>2. /\ mem' \in [Processes -> Objects \cup {None}]
      /\ file' \in Contents \cup {None}
      /\ tmp' \in Contents \cup {None}
      /\ handle' \in [Processes -> {"tmp", "file", "unlinked", None}]
  BY <1>1 DEF PutOpens, CacheTypeOK, Contents
<1>3. overlapped' \in BOOLEAN
  BY Zenon DEF PutOpens
<1>4. ASSUME ~overlapped' PROVE PutsAlone'
  <2>1. PutsAlone /\ \A t \in Samples : ~Putting(t)
    BY <1>4 DEF PutOpens
  <2>2. \A p \in Processes : handle[p] = None
    BY <2>1 DEF PutsAlone, SamplesOf, Putting
  <2>3. /\ phase' = [phase EXCEPT ![s] = "write"]
        /\ tmp' = Empty /\ file' = file
        /\ handle' = [handle EXCEPT ![ProcessOf[s]] = "tmp"]
    BY DEF PutOpens, Goto
  <2>4. \A t \in Samples : phase'[t] \in {"write", "rename"} <=> t = s
    BY <2>1, <2>3 DEF SampleTypeOK, Putting
  <2>5. phase'[s] = "write" /\ handle'[ProcessOf[s]] = "tmp"
    BY <1>1, <2>3 DEF SampleTypeOK, CacheTypeOK
  <2>6. \A p \in Processes : p # ProcessOf[s] => handle'[p] = None
    BY <2>2, <2>3 DEF CacheTypeOK
  <2> QED
    BY <2>1, <2>3, <2>4, <2>5, <2>6, ConstantFacts DEF PutsAlone, Putting, SamplesOf
<1> QED BY <1>2, <1>3, <1>4

(* One lemma per action. *)
LEMMA PlanHitIInv ==
  ASSUME IInv, NEW s \in Samples, PlanHit(s)
  PROVE  IInv'
<1> USE DEF IInv, TypeOK
<1>1. planCount[s] < MaxPlans[s] /\ ProcessOf[s] \in Processes
  BY ConstantFacts DEF PlanHit, SampleTypeOK
<1>2. NewObject(s) \in Objects
  BY <1>1, NewObjectIsAnObject
<1>3. /\ mem' \in [Processes -> Objects \cup {None}]
      /\ heap' \in [Objects -> Plans]
      /\ \E o \in Objects : Adopt(s, o)
  <2>1. CASE mem[ProcessOf[s]] # None
    BY <1>1, <2>1 DEF PlanHit, CacheTypeOK
  <2>2. CASE mem[ProcessOf[s]] = None
    BY <1>1, <1>2, <2>2 DEF PlanHit, CacheTypeOK, Readable
  <2> QED BY <2>1, <2>2
<1>4. CacheTypeOK'
  BY <1>3 DEF PlanHit, CacheTypeOK
<1>5. plan' \in [Samples -> Objects \cup {None}] /\ plan'[s] \in Objects
  BY <1>3 DEF Adopt, SampleTypeOK
<1>6. SampleTypeOK'
  BY <1>1, <1>3, <1>5, ConstantFacts DEF PlanHit, Adopt, Goto, SampleTypeOK
<1>7. HistoryTypeOK'
  BY DEF PlanHit, HistoryTypeOK
<1>8. RunsAPlan'
  BY <1>3, <1>5 DEF PlanHit, Adopt, Goto, SampleTypeOK, RunsAPlan, Putting
<1>9. (~overlapped => PutsAlone)'
  BY QuietStep DEF PlanHit, Putting
<1> QED BY <1>4, <1>6, <1>7, <1>8, <1>9

LEMMA PlanMissIInv ==
  ASSUME IInv, NEW s \in Samples, PlanMiss(s)
  PROVE  IInv'
<1> USE DEF IInv, TypeOK
<1>1. CacheTypeOK' /\ HistoryTypeOK'
  BY DEF PlanMiss, cacheVars, CacheTypeOK, HistoryTypeOK
<1>2. SampleTypeOK'
  BY DEF PlanMiss, Goto, SampleTypeOK
<1>3. RunsAPlan'
  BY DEF PlanMiss, Goto, SampleTypeOK, RunsAPlan, Putting
<1>4. (~overlapped => PutsAlone)'
  BY QuietStep DEF PlanMiss, cacheVars, Putting
<1> QED BY <1>1, <1>2, <1>3, <1>4

LEMMA PlannerAnswersIInv ==
  ASSUME IInv, NEW s \in Samples, PlannerAnswers(s)
  PROVE  IInv'
<1> USE DEF IInv, TypeOK
<1>1. planCount[s] < MaxPlans[s] /\ NewObject(s) \in Objects /\ ~Putting(s)
  BY NewObjectIsAnObject DEF PlannerAnswers, RunsAPlan, Putting
<1>2. PutOpens(s, NewObject(s))
  BY DEF PlannerAnswers
<1>3. /\ (~overlapped => PutsAlone)' /\ overlapped' \in BOOLEAN
      /\ mem' \in [Processes -> Objects \cup {None}]
      /\ file' \in Contents \cup {None} /\ tmp' \in Contents \cup {None}
      /\ handle' \in [Processes -> {"tmp", "file", "unlinked", None}]
  BY <1>1, <1>2, PutOpensStep
<1>4. CacheTypeOK'
  BY <1>3, UnresolvedIsAPlan DEF PlannerAnswers, CacheTypeOK
<1>5. HistoryTypeOK'
  BY <1>3 DEF PlannerAnswers, HistoryTypeOK
<1>6. SampleTypeOK'
  BY <1>1, <1>2 DEF PlannerAnswers, PutOpens, Goto, SampleTypeOK
<1>7. RunsAPlan'
  BY <1>1, <1>2 DEF PlannerAnswers, PutOpens, Goto, SampleTypeOK, RunsAPlan, Putting
<1> QED BY <1>3, <1>4, <1>5, <1>6, <1>7

LEMMA PutWritesIInv ==
  ASSUME IInv, NEW s \in Samples, PutWrites(s)
  PROVE  IInv'
<1> USE DEF IInv, TypeOK
<1> DEFINE text == heap[plan[s]]
<1>1. text \in Plans /\ ProcessOf[s] \in Processes
  BY ConstantFacts DEF PutWrites, RunsAPlan, CacheTypeOK
<1>2. \A old : Written(old, text) \subseteq Contents
  BY <1>1 DEF Written, Contents
<1>3. CacheTypeOK'
  BY <1>2 DEF PutWrites, CacheTypeOK
<1>4. HistoryTypeOK'
  BY DEF PutWrites, HistoryTypeOK
<1>5. SampleTypeOK'
  BY DEF PutWrites, Goto, SampleTypeOK
<1>6. RunsAPlan'
  BY DEF PutWrites, Goto, SampleTypeOK, RunsAPlan, Putting
<1>7. ASSUME ~overlapped' PROVE PutsAlone'
  <2>1. PutsAlone /\ tmp = Empty /\ handle[ProcessOf[s]] = "tmp"
    BY <1>7 DEF PutWrites, PutsAlone
  <2>2. tmp' \in Plans /\ file' = file
    BY <1>1, <2>1 DEF PutWrites, Written
  <2>3. \A t \in Samples : phase[t] \in {"write", "rename"} => t = s
    BY <2>1 DEF PutWrites, PutsAlone, Putting
  <2>4. \A p \in Processes : handle'[p] = None
    BY <2>1, <2>3, <1>1 DEF PutWrites, PutsAlone, CacheTypeOK, SamplesOf
  <2> QED BY <2>1, <2>2, <2>3, <2>4, ConstantFacts
          DEF PutWrites, Goto, SampleTypeOK, PutsAlone, Putting
<1> QED BY <1>3, <1>4, <1>5, <1>6, <1>7

LEMMA PutRenamesIInv ==
  ASSUME IInv, NEW s \in Samples, PutRenames(s)
  PROVE  IInv'
<1> USE DEF IInv, TypeOK
<1>1. CacheTypeOK'
  BY DEF PutRenames, Rename, CacheTypeOK
<1>2. HistoryTypeOK'
  BY DEF PutRenames, HistoryTypeOK
<1>3. SampleTypeOK' /\ RunsAPlan'
  <2>1. target[s] = 0 => planCount[s] + 1 <= MaxPlans[s]
    BY ConstantFacts DEF PutRenames, RunsAPlan, Putting, SampleTypeOK
  <2>2. SampleTypeOK'
    BY <2>1 DEF PutRenames, AfterPut, LetGo, Goto, SampleTypeOK
  <2>3. RunsAPlan'
    BY DEF PutRenames, AfterPut, LetGo, Goto, SampleTypeOK, RunsAPlan, Putting
  <2> QED BY <2>2, <2>3
<1>4. ASSUME ~overlapped' PROVE PutsAlone'
  <2>1. PutsAlone /\ tmp \in Plans
    BY <1>4 DEF PutRenames, PutsAlone
  <2>2. \A t \in Samples : phase[t] \in {"write", "rename"} => t = s
    BY <2>1 DEF PutRenames, PutsAlone, Putting
  <2>3. \A p \in Processes : handle[p] = None
    BY <2>1, <2>2 DEF PutRenames, PutsAlone, SamplesOf
  <2>4. \A p \in Processes : handle'[p] = None
    BY <2>3, ConstantFacts DEF PutRenames, Rename
  <2>5. file' \in Plans \cup {None}
    BY <2>1 DEF PutRenames, Rename, PutsAlone
  <2>6. \A t \in Samples : phase'[t] \notin {"write", "rename"}
    BY <2>2 DEF PutRenames, AfterPut, LetGo, Goto, SampleTypeOK
  <2> QED BY <2>4, <2>5, <2>6, ConstantFacts DEF PutsAlone, Putting
<1> QED BY <1>1, <1>2, <1>3, <1>4

LEMMA ReplayIInv ==
  ASSUME IInv, NEW s \in Samples, Replay(s)
  PROVE  IInv'
<1> USE DEF IInv, TypeOK
<1>1. PICK k \in Found(s) : ActOn(s, k)
  BY DEF Replay
<1>2. k \in Nat \ {0}
  BY FoundIsOnThePage, PlanCacheAssumption
<1>3. CacheTypeOK' /\ HistoryTypeOK'
  BY DEF Replay, cacheVars, CacheTypeOK, HistoryTypeOK
<1>4. SampleTypeOK'
  BY <1>1, <1>2 DEF Replay, ActOn, Goto, SampleTypeOK
<1>5. RunsAPlan'
  BY <1>1, <1>2 DEF Replay, ActOn, Goto, SampleTypeOK, RunsAPlan, Putting
<1>6. (~overlapped => PutsAlone)'
  BY <1>1, QuietStep DEF Replay, ActOn, cacheVars, Putting
<1> QED BY <1>3, <1>4, <1>5, <1>6

LEMMA AskVisionIInv ==
  ASSUME IInv, NEW s \in Samples, AskVision(s)
  PROVE  IInv'
<1> USE DEF IInv, TypeOK
<1>1. CacheTypeOK' /\ HistoryTypeOK'
  BY DEF AskVision, cacheVars, CacheTypeOK, HistoryTypeOK
<1>2. SampleTypeOK'
  BY DEF AskVision, Goto, SampleTypeOK
<1>3. RunsAPlan'
  BY DEF AskVision, Goto, SampleTypeOK, RunsAPlan, Putting
<1>4. (~overlapped => PutsAlone)'
  BY QuietStep DEF AskVision, cacheVars, Putting
<1> QED BY <1>1, <1>2, <1>3, <1>4

LEMMA VisionAnswersIInv ==
  ASSUME IInv, NEW s \in Samples, VisionAnswers(s)
  PROVE  IInv'
<1> USE DEF IInv, TypeOK
<1>1. PICK h \in Hints, k \in DOMAIN PageOf[s] :
        /\ heap' = [heap EXCEPT ![plan[s]] = Learned(s, k, h)]
        /\ ActOn(s, k)
  BY PickIsOnThePage DEF VisionAnswers
<1>2. k \in Nat \ {0} /\ Learned(s, k, h) \in Plans
  BY LearnedIsAPlan, PlanCacheAssumption
<1>3. CacheTypeOK'
  BY <1>1, <1>2 DEF VisionAnswers, cacheVars, CacheTypeOK
<1>4. HistoryTypeOK'
  BY DEF VisionAnswers, cacheVars, HistoryTypeOK
<1>5. SampleTypeOK'
  BY <1>1, <1>2 DEF VisionAnswers, ActOn, Goto, SampleTypeOK
<1>6. RunsAPlan'
  BY <1>1, <1>2 DEF VisionAnswers, ActOn, Goto, SampleTypeOK, RunsAPlan, Putting
<1>7. (~overlapped => PutsAlone)'
  <2>1. Goto(s, "act")
    BY <1>1 DEF ActOn
  <2> QED BY <2>1, QuietStep DEF VisionAnswers, cacheVars, Putting
<1> QED BY <1>3, <1>4, <1>5, <1>6, <1>7

LEMMA RetryIInv ==
  ASSUME IInv, NEW s \in Samples, Retry(s)
  PROVE  IInv'
<1> USE DEF IInv, TypeOK
<1>1. CacheTypeOK' /\ HistoryTypeOK'
  BY DEF Retry, cacheVars, CacheTypeOK, HistoryTypeOK
<1>2. SampleTypeOK'
  BY DEF Retry, Goto, SampleTypeOK
<1>3. RunsAPlan'
  BY DEF Retry, Goto, SampleTypeOK, RunsAPlan, Putting
<1>4. (~overlapped => PutsAlone)'
  BY QuietStep DEF Retry, cacheVars, Putting
<1> QED BY <1>1, <1>2, <1>3, <1>4

LEMMA ReplanIInv ==
  ASSUME IInv, NEW s \in Samples, Replan(s)
  PROVE  IInv'
<1> USE DEF IInv, TypeOK
<1>1. CacheTypeOK' /\ HistoryTypeOK'
  BY DEF Replan, cacheVars, CacheTypeOK, HistoryTypeOK
<1>2. SampleTypeOK'
  BY DEF Replan, LetGo, Goto, SampleTypeOK
<1>3. RunsAPlan'
  BY DEF Replan, LetGo, Goto, SampleTypeOK, RunsAPlan, Putting
<1>4. (~overlapped => PutsAlone)'
  <2>1. Goto(s, "plan")
    BY DEF Replan, LetGo
  <2> QED BY <2>1, QuietStep DEF Replan, cacheVars, Putting
<1> QED BY <1>1, <1>2, <1>3, <1>4

LEMMA JudgePassesIInv ==
  ASSUME IInv, NEW s \in Samples, JudgePasses(s)
  PROVE  IInv'
<1> USE DEF IInv, TypeOK
<1>1. plan[s] \in Objects /\ ~Putting(s) /\ PutOpens(s, plan[s])
  BY DEF JudgePasses, RunsAPlan, Putting
<1>2. /\ (~overlapped => PutsAlone)' /\ overlapped' \in BOOLEAN
      /\ mem' \in [Processes -> Objects \cup {None}]
      /\ file' \in Contents \cup {None} /\ tmp' \in Contents \cup {None}
      /\ handle' \in [Processes -> {"tmp", "file", "unlinked", None}]
  BY <1>1, PutOpensStep
<1>3. CacheTypeOK'
  BY <1>2 DEF JudgePasses, CacheTypeOK
<1>4. HistoryTypeOK'
  BY <1>2 DEF JudgePasses, HistoryTypeOK
<1>5. SampleTypeOK'
  BY <1>1 DEF JudgePasses, PutOpens, Goto, SampleTypeOK
<1>6. RunsAPlan'
  BY <1>1 DEF JudgePasses, PutOpens, Goto, SampleTypeOK, RunsAPlan, Putting
<1> QED BY <1>2, <1>3, <1>4, <1>5, <1>6

LEMMA FailsIInv ==
  ASSUME IInv, NEW s \in Samples, Fails(s)
  PROVE  IInv'
<1> USE DEF IInv, TypeOK
<1>1. CacheTypeOK' /\ HistoryTypeOK'
  BY DEF Fails, cacheVars, CacheTypeOK, HistoryTypeOK
<1>2. SampleTypeOK'
  BY DEF Fails, LetGo, Goto, SampleTypeOK
<1>3. RunsAPlan'
  BY DEF Fails, LetGo, Goto, SampleTypeOK, RunsAPlan, Putting
<1>4. (~overlapped => PutsAlone)'
  <2>1. Goto(s, "end")
    BY DEF Fails, LetGo
  <2> QED BY <2>1, QuietStep DEF Fails, cacheVars, Putting
<1> QED BY <1>1, <1>2, <1>3, <1>4

LEMMA CrashIInv ==
  ASSUME IInv, NEW p \in Processes, Crash(p)
  PROVE  IInv'
<1> USE DEF IInv, TypeOK
<1>1. CacheTypeOK'
  BY UnresolvedIsAPlan DEF Crash, CacheTypeOK
<1>2. HistoryTypeOK'
  <2>1. crashes' \in 0..MaxCrashes
    BY PlanCacheAssumption DEF Crash, HistoryTypeOK
  <2> QED BY <2>1 DEF Crash, HistoryTypeOK
<1>3. SampleTypeOK'
  BY DEF Crash, SampleTypeOK
<1>4. RunsAPlan'
  BY DEF Crash, SampleTypeOK, RunsAPlan, Putting
<1>5. ASSUME ~overlapped' PROVE PutsAlone'
  <2>1. PutsAlone /\ file' = file /\ tmp' = tmp
    BY <1>5 DEF Crash
  <2>2. \A t \in Samples :
          phase'[t] \in {"write", "rename"} => ProcessOf[t] # p /\ phase'[t] = phase[t]
    BY DEF Crash, SampleTypeOK, SamplesOf
  <2>3. \A t \in Samples : ProcessOf[t] # p => phase'[t] = phase[t]
    BY DEF Crash, SampleTypeOK, SamplesOf
  <2>4. \A q \in Processes : handle'[q] = IF q = p THEN None ELSE handle[q]
    BY DEF Crash, CacheTypeOK
  <2> QED BY <2>1, <2>2, <2>3, <2>4, ConstantFacts DEF PutsAlone, Putting, SamplesOf
<1> QED BY <1>1, <1>2, <1>3, <1>4, <1>5

LEMMA NextIInv == IInv /\ [Next]_vars => IInv'
<1> SUFFICES ASSUME IInv, [Next]_vars PROVE IInv'
  OBVIOUS
<1>1. CASE UNCHANGED vars
  BY <1>1 DEF vars, cacheVars, IInv, TypeOK, CacheTypeOK, SampleTypeOK,
              HistoryTypeOK, RunsAPlan, PutsAlone, Putting
<1>2. ASSUME NEW s \in Samples, SampleStep(s) PROVE IInv'
  BY <1>2, PlanHitIInv, PlanMissIInv, PlannerAnswersIInv, PutWritesIInv,
     PutRenamesIInv, ReplayIInv, AskVisionIInv, VisionAnswersIInv, RetryIInv,
     ReplanIInv, JudgePassesIInv, FailsIInv
     DEF SampleStep
<1>3. ASSUME NEW p \in Processes, Crash(p) PROVE IInv'
  BY <1>3, CrashIInv
<1> QED BY <1>1, <1>2, <1>3 DEF Next

(* The inductive invariant. *)
THEOREM PlanCacheInductive == Spec => []IInv
<1> QED BY InitIInv, NextIInv, PTL DEF Spec

(* Type correctness: only whole plans reach a sample, whatever is on disk. *)
THEOREM PlanCacheTypeCorrect == Spec => []TypeOK
<1>1. IInv => TypeOK
  BY DEF IInv
<1> QED BY <1>1, PlanCacheInductive, PTL

(***************************************************************************)
(* put() is atomic against crashes of any number of processes, as long as  *)
(* no two of them were inside put() together (plan_cache.py, put).         *)
(***************************************************************************)
THEOREM PutIsCrashAtomic == Spec => []WholeUnlessOverlapped
<1>1. IInv => WholeUnlessOverlapped
  BY DEF IInv, PutsAlone, WholeUnlessOverlapped
<1> QED BY <1>1, PlanCacheInductive, PTL

(* Who leaves "annotate" to act or to ask does so in visual_do. *)
LEMMA LeavesAnnotate ==
  ASSUME IInv, Next, NEW s \in Samples,
         phase[s] = "annotate", phase'[s] \in {"vision", "act"}
  PROVE  Replay(s) \/ AskVision(s)
<1> USE DEF IInv, TypeOK
<1>1. ~\E p \in Processes : Crash(p)
  BY DEF Crash
<1>2. PICK t \in Samples : SampleStep(t)
  BY <1>1 DEF Next
<1>3. \A ph : Goto(t, ph) => t = s /\ phase'[s] = ph
  BY DEF Goto, SampleTypeOK
<1>4. ~PlanHit(t) /\ ~PlanMiss(t)
  BY <1>3 DEF PlanHit, PlanMiss
<1>5. ~PlannerAnswers(t) /\ ~PutWrites(t) /\ ~JudgePasses(t)
  BY <1>3 DEF PlannerAnswers, PutWrites, JudgePasses, PutOpens
<1>6. ~PutRenames(t) /\ ~Retry(t) /\ ~Replan(t) /\ ~Fails(t)
  BY <1>3 DEF PutRenames, AfterPut, Retry, Replan, Fails, LetGo
<1>7. ~VisionAnswers(t)
  BY <1>3 DEF VisionAnswers, ActOn
<1>8. Replay(t) \/ AskVision(t)
  BY <1>2, <1>4, <1>5, <1>6, <1>7 DEF SampleStep
<1>9. t = s
  BY <1>3, <1>8 DEF Replay, AskVision, ActOn
<1> QED BY <1>8, <1>9

(***************************************************************************)
(* Replay is deterministic, for any pages, hints, samples and processes: a *)
(* descriptor whose pattern fits its own mark leads every sample that meets*)
(* the same page to that mark, without the vision model (nodes.py,         *)
(* visual_do).                                                             *)
(***************************************************************************)
THEOREM ReplayIsDeterministic == Spec => ReplayIsFaithful
<1> DEFINE Replays(s) ==
      /\ phase[s] = "annotate"
      /\ phase'[s] \in {"vision", "act"}
      /\ heap[plan[s]] # Unresolved
      /\ heap[plan[s]].page = PageOf[s]
      /\ FitsItself(heap[plan[s]])
      => phase'[s] = "act" /\ target'[s] = heap[plan[s]].mark
<1>1. ASSUME IInv, Next, NEW s \in Samples PROVE Replays(s)
  <2> DEFINE l == heap[plan[s]]
  <2>1. SUFFICES ASSUME phase[s] = "annotate", phase'[s] \in {"vision", "act"},
                        l # Unresolved, l.page = PageOf[s], FitsItself(l)
                 PROVE  phase'[s] = "act" /\ target'[s] = l.mark
    OBVIOUS
  <2>2. l \in Plans
    BY <1>1, <2>1 DEF IInv, RunsAPlan, TypeOK, CacheTypeOK
  <2>3. PICK t \in Samples : \E k \in DOMAIN PageOf[t], h \in Hints : l = Learned(t, k, h)
    BY <2>1, <2>2 DEF Plans
  <2>4. PICK k \in DOMAIN PageOf[t], h \in Hints : l = Learned(t, k, h)
    BY <2>3
  <2>5. /\ l.page = PageOf[t] /\ l.mark = k
        /\ l.desc = DescriptorFor(k, PageOf[t], h)
        /\ l.desc.filter = FilterFor(PageOf[t][k], h)
    BY <2>4 DEF Learned, DescriptorFor
  <2>6. Found(s) = {l.mark}
    <3>1. DOMAIN PageOf[t] = 1..Len(PageOf[t]) /\ Len(PageOf[t]) \in Nat
      BY PlanCacheAssumption
    <3>2. Fits(PageOf[t][k], FilterFor(PageOf[t][k], h))
      BY <2>1, <2>5 DEF FitsItself
    <3>3. Match(l.desc, PageOf[t]) = {k}
      BY <2>5, <3>1, <3>2, DescriptorRoundTrip
    <3> QED BY <2>1, <2>5, <3>3 DEF Found
  <2>7. Replay(s) \/ AskVision(s)
    BY <1>1, <2>1, LeavesAnnotate
  <2>8. Replay(s)
    BY <2>6, <2>7 DEF AskVision
  <2> HIDE DEF l
  <2>9. ActOn(s, l.mark)
    BY <2>6, <2>8 DEF Replay
  <2> QED
    BY <1>1, <2>9 DEF ActOn, Goto, IInv, TypeOK, SampleTypeOK
<1>2. ASSUME UNCHANGED vars, NEW s \in Samples PROVE Replays(s)
  BY <1>2 DEF vars, cacheVars
<1>3. IInv /\ [Next]_vars => [\A s \in Samples : Replays(s)]_vars
  BY <1>1, <1>2
<1> QED BY <1>3, PlanCacheInductive, PTL DEF Spec, ReplayIsFaithful
-----------------------------------------------------------------------------
(* Objects do not travel between processes: only the file does.            *)
OwnObjects ==
  /\ \A p \in Processes : mem[p] # None => mem[p][1] \in SamplesOf(p)
  /\ \A s \in Samples : plan[s] # None => plan[s][1] \in SamplesOf(ProcessOf[s])

(* Before a sample passed, nothing that was learned is on its way to disk. *)
Blank == {Unresolved, Empty, Torn, None}
NothingLearned ==
  ~passed =>
    /\ file \in Blank /\ tmp \in Blank
    /\ \A s \in Samples : phase[s] = "write" => heap[plan[s]] = Unresolved

LInv == IInv /\ OwnObjects /\ NothingLearned

(* What a sample does to the objects of its process does not change the    *)
(* text of a put(): the event loop is free, or it is another process's.    *)
LEMMA TextIsKept ==
  ASSUME LInv, NEW s \in Samples, LoopIsFree(s), NEW o \in Objects,
         o[1] \in SamplesOf(ProcessOf[s]), NEW x,
         heap' = [heap EXCEPT ![o] = x],
         NEW t \in Samples, phase[t] = "write"
  PROVE  t # s /\ heap'[plan[t]] = heap[plan[t]]
<1>1. t \notin SamplesOf(ProcessOf[s])
  BY DEF LoopIsFree, Putting
<1>2. plan[t] \in Objects /\ plan[t] # None
  BY ConstantFacts DEF LInv, IInv, RunsAPlan
<1>3. plan[t][1] \in SamplesOf(ProcessOf[t])
  BY <1>2 DEF LInv, OwnObjects
<1>4. plan[t] # o
  BY <1>1, <1>3 DEF SamplesOf
<1>5. t # s
  BY <1>1 DEF SamplesOf
<1> QED BY <1>2, <1>4, <1>5 DEF LInv, IInv, TypeOK, CacheTypeOK

LEMMA OwnObject ==
  ASSUME NEW s \in Samples
  PROVE  NewObject(s)[1] = s /\ s \in SamplesOf(ProcessOf[s]) /\ ProcessOf[s] \in Processes
  BY ConstantFacts DEF NewObject, SamplesOf

LEMMA PlanHitLInv ==
  ASSUME LInv, NEW s \in Samples, PlanHit(s)
  PROVE  OwnObjects' /\ NothingLearned'
<1> USE DEF LInv, IInv, TypeOK
<1>1. NewObject(s) \in Objects /\ LoopIsFree(s) /\ ProcessOf[s] \in Processes
  BY ConstantFacts, NewObjectIsAnObject DEF PlanHit, SampleTypeOK
<1>2. \/ /\ mem[ProcessOf[s]] # None /\ Adopt(s, mem[ProcessOf[s]])
         /\ UNCHANGED <<mem, heap>>
      \/ /\ Adopt(s, NewObject(s))
         /\ mem' = [mem EXCEPT ![ProcessOf[s]] = NewObject(s)]
         /\ heap' = [heap EXCEPT ![NewObject(s)] = file]
  BY DEF PlanHit
<1>3. /\ phase' = [phase EXCEPT ![s] = "annotate"]
      /\ UNCHANGED <<file, tmp, passed>>
  BY DEF PlanHit, Goto
<1>4. OwnObjects'
  BY <1>1, <1>2, OwnObject DEF Adopt, OwnObjects, CacheTypeOK, SampleTypeOK
<1>5. ASSUME NEW t \in Samples, phase'[t] = "write"
      PROVE  plan'[t] = plan[t] /\ heap'[plan[t]] = heap[plan[t]] /\ phase[t] = "write"
  <2>1. t # s /\ phase[t] = "write"
    BY <1>3, <1>5 DEF SampleTypeOK
  <2>2. plan'[t] = plan[t]
    BY <1>2, <2>1 DEF Adopt, SampleTypeOK
  <2>3. CASE heap' = [heap EXCEPT ![NewObject(s)] = file]
    <3>1. NewObject(s)[1] \in SamplesOf(ProcessOf[s])
      BY OwnObject
    <3>2. heap'[plan[t]] = heap[plan[t]]
      BY <1>1, <2>1, <2>3, <3>1, TextIsKept
    <3> QED BY <2>1, <2>2, <3>2
  <2> QED BY <1>2, <2>1, <2>2, <2>3
<1>6. NothingLearned'
  BY <1>3, <1>5 DEF NothingLearned
<1> QED BY <1>4, <1>6

LEMMA PlannerAnswersLInv ==
  ASSUME LInv, NEW s \in Samples, PlannerAnswers(s)
  PROVE  OwnObjects' /\ NothingLearned'
<1> USE DEF LInv, IInv, TypeOK
<1>1. NewObject(s) \in Objects /\ LoopIsFree(s) /\ ProcessOf[s] \in Processes
  BY ConstantFacts, NewObjectIsAnObject DEF PlannerAnswers, RunsAPlan
<1>2. /\ mem' = [mem EXCEPT ![ProcessOf[s]] = NewObject(s)]
      /\ plan' = [plan EXCEPT ![s] = NewObject(s)]
      /\ heap' = [heap EXCEPT ![NewObject(s)] = Unresolved]
      /\ phase' = [phase EXCEPT ![s] = "write"]
      /\ file' = file /\ tmp' = Empty /\ passed' = passed
  BY DEF PlannerAnswers, PutOpens, Goto
<1>3. OwnObjects'
  BY <1>1, <1>2, OwnObject DEF OwnObjects, CacheTypeOK, SampleTypeOK
<1>4. ASSUME NEW t \in Samples, phase'[t] = "write", ~passed
      PROVE  heap'[plan'[t]] = Unresolved
  <2>1. CASE t = s
    BY <1>1, <1>2, <2>1 DEF CacheTypeOK, SampleTypeOK
  <2>2. CASE t # s
    <3>1. phase[t] = "write" /\ plan'[t] = plan[t]
      BY <1>2, <1>4, <2>2 DEF SampleTypeOK
    <3>2. NewObject(s)[1] \in SamplesOf(ProcessOf[s])
      BY OwnObject
    <3>3. heap'[plan[t]] = heap[plan[t]]
      BY <1>1, <1>2, <3>1, <3>2, TextIsKept
    <3> QED BY <1>4, <3>1, <3>3 DEF NothingLearned
  <2> QED BY <2>1, <2>2
<1>5. NothingLearned'
  BY <1>2, <1>4 DEF NothingLearned, Blank
<1> QED BY <1>3, <1>5

LEMMA VisionAnswersLInv ==
  ASSUME LInv, NEW s \in Samples, VisionAnswers(s)
  PROVE  OwnObjects' /\ NothingLearned'
<1> USE DEF LInv, IInv, TypeOK
<1>1. PICK x : heap' = [heap EXCEPT ![plan[s]] = x]
  BY DEF VisionAnswers
<1>2. /\ plan[s] \in Objects /\ plan[s][1] \in SamplesOf(ProcessOf[s]) /\ LoopIsFree(s)
  BY ConstantFacts DEF VisionAnswers, RunsAPlan, OwnObjects
<1>3. /\ phase' = [phase EXCEPT ![s] = "act"]
      /\ UNCHANGED <<mem, file, tmp, plan, passed>>
  BY DEF VisionAnswers, ActOn, Goto, cacheVars
<1>4. OwnObjects'
  BY <1>3 DEF OwnObjects
<1>5. \A t \in Samples : phase'[t] = "write" =>
        phase[t] = "write" /\ heap'[plan'[t]] = heap[plan[t]]
  BY <1>1, <1>2, <1>3, TextIsKept DEF SampleTypeOK
<1>6. NothingLearned'
  BY <1>3, <1>5 DEF NothingLearned
<1> QED BY <1>4, <1>6

LEMMA PutWritesLInv ==
  ASSUME LInv, NEW s \in Samples, PutWrites(s)
  PROVE  OwnObjects' /\ NothingLearned'
<1> USE DEF LInv, IInv, TypeOK
<1>1. OwnObjects'
  BY DEF PutWrites, OwnObjects
<1>2. ASSUME ~passed PROVE file' \in Blank /\ tmp' \in Blank
  <2>1. heap[plan[s]] = Unresolved
    BY <1>2 DEF PutWrites, NothingLearned
  <2> QED BY <1>2, <2>1 DEF PutWrites, Written, NothingLearned, Blank
<1>3. \A t \in Samples : phase'[t] = "write" => phase[t] = "write"
  BY DEF PutWrites, Goto, SampleTypeOK
<1>4. NothingLearned'
  BY <1>2, <1>3 DEF PutWrites, NothingLearned
<1> QED BY <1>1, <1>4

(* The steps that change no object: a plan can only be let go of, and a    *)
(* text only be on its way to disk from before, or of a sample that passed.*)
LEMMA OtherStepLInv ==
  ASSUME LInv, NEW s \in Samples,
         \/ PlanMiss(s) \/ PutRenames(s) \/ Replay(s) \/ AskVision(s)
         \/ Retry(s) \/ Replan(s) \/ JudgePasses(s) \/ Fails(s)
  PROVE  OwnObjects' /\ NothingLearned'
<1> USE DEF LInv, IInv, TypeOK
<1>1. CASE PlanMiss(s) \/ Replay(s) \/ AskVision(s) \/ Retry(s)
  <2>1. UNCHANGED <<mem, file, tmp, heap, plan, passed>>
    BY <1>1 DEF PlanMiss, Replay, AskVision, Retry, cacheVars
  <2>2. \A t \in Samples : phase'[t] = "write" => phase[t] = "write"
    BY <1>1 DEF PlanMiss, Replay, AskVision, Retry, ActOn, Goto, SampleTypeOK
  <2> QED BY <2>1, <2>2 DEF OwnObjects, NothingLearned
<1>2. CASE Replan(s) \/ Fails(s) \/ PutRenames(s)
  <2>1. UNCHANGED <<mem, heap, passed>>
    BY <1>2 DEF Replan, Fails, PutRenames, cacheVars
  <2>2. plan' = plan \/ plan' = [plan EXCEPT ![s] = None]
    BY <1>2 DEF Replan, Fails, PutRenames, AfterPut, LetGo
  <2>3. \A t \in Samples : phase'[t] = "write" => phase[t] = "write" /\ t # s
    BY <1>2 DEF Replan, Fails, PutRenames, AfterPut, LetGo, Goto, SampleTypeOK
  <2>4. file' \in {file, tmp} /\ tmp' \in {tmp, None}
    BY <1>2 DEF Replan, Fails, PutRenames, Rename, cacheVars
  <2>5. OwnObjects'
    BY <2>1, <2>2 DEF OwnObjects, SampleTypeOK
  <2>6. NothingLearned'
    BY <2>1, <2>2, <2>3, <2>4 DEF NothingLearned, Blank, SampleTypeOK
  <2> QED BY <2>5, <2>6
<1>3. CASE JudgePasses(s)
  <2>1. /\ plan[s] # None /\ ProcessOf[s] \in Processes
        /\ mem' = [mem EXCEPT ![ProcessOf[s]] = plan[s]]
        /\ plan' = plan /\ passed'
    BY <1>3, ConstantFacts DEF JudgePasses, PutOpens, RunsAPlan
  <2> QED BY <2>1 DEF OwnObjects, NothingLearned, CacheTypeOK
<1> QED BY <1>1, <1>2, <1>3

LEMMA CrashLInv ==
  ASSUME LInv, NEW p \in Processes, Crash(p)
  PROVE  OwnObjects' /\ NothingLearned'
<1> USE DEF LInv, IInv, TypeOK
<1>1. OwnObjects'
  BY DEF Crash, OwnObjects, CacheTypeOK, SampleTypeOK
<1>2. ASSUME NEW t \in Samples, phase'[t] = "write"
      PROVE  /\ phase[t] = "write" /\ plan'[t] = plan[t]
             /\ heap'[plan[t]] \in {heap[plan[t]], Unresolved}
  <2>1. phase[t] = "write" /\ t \notin SamplesOf(p)
    BY <1>2 DEF Crash, SampleTypeOK
  <2>2. plan[t] \in Objects
    BY <2>1 DEF RunsAPlan
  <2> QED BY <2>1, <2>2 DEF Crash
<1>3. NothingLearned'
  BY <1>2 DEF Crash, NothingLearned
<1> QED BY <1>1, <1>3

(***************************************************************************)
(* What one sample's vision model resolved reaches the file, and by it the *)
(* samples of other processes and later runs, only through a sample the    *)
(* judge passed: of any number of samples, processes and crashes.          *)
(***************************************************************************)
THEOREM OnlyAPassTeaches == Spec => []LearnedFromAPass
<1>1. Init => LInv
  BY InitIInv DEF Init, LInv, OwnObjects, NothingLearned, Blank
<1>2. LInv /\ [Next]_vars => LInv'
  <2> SUFFICES ASSUME LInv, [Next]_vars PROVE OwnObjects' /\ NothingLearned'
    BY NextIInv DEF LInv
  <2>1. CASE UNCHANGED vars
    BY <2>1 DEF vars, cacheVars, LInv, OwnObjects, NothingLearned
  <2>2. ASSUME NEW s \in Samples, SampleStep(s) PROVE OwnObjects' /\ NothingLearned'
    BY <2>2, PlanHitLInv, PlannerAnswersLInv, VisionAnswersLInv, PutWritesLInv,
       OtherStepLInv DEF SampleStep
  <2>3. ASSUME NEW p \in Processes, Crash(p) PROVE OwnObjects' /\ NothingLearned'
    BY <2>3, CrashLInv
  <2> QED BY <2>1, <2>2, <2>3 DEF Next
<1>3. LInv => LearnedFromAPass
  BY DEF LInv, NothingLearned, Blank, LearnedFromAPass
<1> QED BY <1>1, <1>2, <1>3, PTL DEF Spec
-----------------------------------------------------------------------------
(***************************************************************************)
(* The two halves of termination that need no ENABLED and no fairness.     *)
(***************************************************************************)

(* The most steps a sample can still make with m plans to come: a plan     *)
(* takes eleven at most, with its put() and its one retry.                 *)
StepsFrom(m, ph, acted, again) ==
  LET retry == IF again THEN 0 ELSE 3
  IN CASE ph = "plan" -> 11 * m + 1
       [] ph = "planner" -> 11 * m
       [] ph = "write" -> IF acted THEN 2 ELSE 11 * m - 1
       [] ph = "rename" -> IF acted THEN 1 ELSE 11 * m - 2
       [] ph = "annotate" -> 11 * m + 5 + retry
       [] ph = "vision" -> 11 * m + 4 + retry
       [] ph = "act" -> 11 * m + 3 + retry
       [] OTHER -> 0

StepsLeft(s) ==
  StepsFrom(MaxPlans[s] - planCount[s], phase[s], target[s] # 0, s \in retried)

(* A sample in the planner, or in the put() after it, has a plan to come.  *)
LEMMA PlansToCome ==
  ASSUME IInv, NEW s \in Samples
  PROVE  /\ MaxPlans[s] - planCount[s] \in Nat
         /\ planCount[s] < MaxPlans[s] => MaxPlans[s] - planCount[s] > 0
         /\ phase[s] = "planner" \/ (Putting(s) /\ target[s] = 0)
              => MaxPlans[s] - planCount[s] > 0
<1>1. /\ MaxPlans[s] \in Nat /\ planCount[s] \in Nat /\ planCount[s] <= MaxPlans[s]
      /\ phase[s] = "planner" \/ (Putting(s) /\ target[s] = 0) => planCount[s] < MaxPlans[s]
  BY ConstantFacts DEF IInv, TypeOK, SampleTypeOK, RunsAPlan
<1>2. planCount[s] < MaxPlans[s] => MaxPlans[s] - planCount[s] > 0
  BY <1>1
<1> QED BY <1>1, <1>2

LEMMA StepsLeftIsNat ==
  ASSUME IInv, NEW s \in Samples
  PROVE  StepsLeft(s) \in Nat
<1>1. PICK m \in Nat : m = MaxPlans[s] - planCount[s]
  BY PlansToCome
<1>2. phase[s] = "planner" \/ (phase[s] \in {"write", "rename"} /\ target[s] = 0) => m > 0
  BY <1>1, PlansToCome DEF Putting
<1> QED BY <1>1, <1>2 DEF StepsLeft, StepsFrom

(* From one of the phases of a plan to a later one, to the planning of the *)
(* next plan, or to the end.                                               *)
LEMMA StepsFall ==
  ASSUME NEW m \in Nat, NEW acted, NEW again, NEW acted1, NEW again1
  PROVE  /\ StepsFrom(m, "end", acted1, again1) = 0
         /\ StepsFrom(m, "plan", acted, again) > 0
         /\ m > 0 => /\ StepsFrom(m, "planner", acted1, again1) < StepsFrom(m, "plan", acted, again)
                     /\ StepsFrom(m - 1, "annotate", acted1, again1)
                          < StepsFrom(m, "plan", acted, again)
                     /\ StepsFrom(m, "write", acted1, again1) < StepsFrom(m, "planner", acted, again)
                     /\ StepsFrom(m, "planner", acted, again) > 0
<1>1. StepsFrom(m, "end", acted1, again1) = 0 /\ StepsFrom(m, "plan", acted, again) = 11 * m + 1
  BY DEF StepsFrom
<1>2. StepsFrom(m, "planner", acted, again) = 11 * m /\ StepsFrom(m, "planner", acted1, again1) = 11 * m
  BY DEF StepsFrom
<1>3. StepsFrom(m, "write", acted1, again1) \in {2, 11 * m - 1}
  BY DEF StepsFrom
<1>4. StepsFrom(m - 1, "annotate", acted1, again1) \in {11 * (m - 1) + 5, 11 * (m - 1) + 8}
  BY DEF StepsFrom
<1>5. m > 0 => /\ StepsFrom(m - 1, "annotate", acted1, again1) < 11 * m + 1
  BY <1>4
<1>6. m > 0 => StepsFrom(m, "write", acted1, again1) < 11 * m /\ 11 * m > 0
  BY <1>3
<1> QED BY <1>1, <1>2, <1>5, <1>6

(* Each step of a sample leaves it fewer.                                  *)
LEMMA StepsLeftFall ==
  ASSUME IInv, NEW s \in Samples, SampleStep(s)
  PROVE  StepsLeft(s)' < StepsLeft(s)
<1> USE DEF IInv, TypeOK
<1> DEFINE acted == target[s] # 0
           again == s \in retried
           acted1 == target'[s] # 0
           again1 == s \in retried'
           m1 == MaxPlans[s] - planCount'[s]
<1>1. PICK m \in Nat :
        /\ m = MaxPlans[s] - planCount[s]
        /\ planCount[s] < MaxPlans[s] => m > 0
        /\ phase[s] = "planner" \/ (Putting(s) /\ target[s] = 0) => m > 0
  BY PlansToCome
<1>2. /\ StepsLeft(s) = StepsFrom(m, phase[s], acted, again)
      /\ StepsLeft(s)' = StepsFrom(m1, phase'[s], acted1, again1)
  BY <1>1 DEF StepsLeft
<1>3. planCount'[s] = planCount[s] => m1 = m
  BY <1>1
<1>4. planCount'[s] = planCount[s] + 1 => m1 = m - 1
  BY <1>1, ConstantFacts DEF SampleTypeOK
<1> HIDE DEF acted, again, acted1, again1, m1
<1>5. CASE PlanHit(s)
  <2>1. phase[s] = "plan" /\ phase'[s] = "annotate" /\ planCount[s] = 0
    BY <1>5 DEF PlanHit, Goto, SampleTypeOK
  <2>2. planCount'[s] = planCount[s] + 1
    BY <1>5 DEF PlanHit, Adopt, SampleTypeOK
  <2>3. m > 0
    BY <1>1, <2>1, ConstantFacts
  <2> QED BY <1>2, <1>4, <2>1, <2>2, <2>3, StepsFall
<1>6. CASE PlanMiss(s)
  <2>1. phase[s] = "plan" /\ phase'[s] = "planner" /\ m1 = m /\ m > 0
    BY <1>1, <1>3, <1>6 DEF PlanMiss, Goto, SampleTypeOK
  <2> QED BY <1>2, <2>1, StepsFall
<1>7. CASE PlannerAnswers(s)
  <2>1. phase[s] = "planner" /\ phase'[s] = "write" /\ m1 = m /\ m > 0
    BY <1>1, <1>3, <1>7 DEF PlannerAnswers, PutOpens, Goto, SampleTypeOK
  <2> QED BY <1>2, <2>1, StepsFall
<1>8. CASE PutWrites(s)
  <2>1. phase[s] = "write" /\ phase'[s] = "rename" /\ m1 = m /\ acted1 = acted /\ (~acted => m > 0)
    BY <1>1, <1>3, <1>8 DEF PutWrites, Goto, SampleTypeOK, Putting, acted, acted1
  <2> QED BY <1>1, <1>2, <2>1 DEF StepsFrom
<1>9. CASE PutRenames(s)
  <2>1. CASE target[s] # 0
    <3>1. phase[s] = "rename" /\ phase'[s] = "end" /\ acted
      BY <1>9, <2>1 DEF PutRenames, AfterPut, LetGo, Goto, SampleTypeOK, acted
    <3> QED BY <1>2, <3>1 DEF StepsFrom
  <2>2. CASE target[s] = 0
    <3>1. phase[s] = "rename" /\ phase'[s] = "annotate" /\ ~acted /\ m > 0
      BY <1>1, <1>9, <2>2 DEF PutRenames, AfterPut, Goto, SampleTypeOK, Putting, acted
    <3>2. m1 = m - 1
      BY <1>4, <1>9, <2>2 DEF PutRenames, AfterPut, SampleTypeOK
    <3>3. StepsLeft(s) = 11 * m - 2 /\ StepsLeft(s)' \in {11 * (m - 1) + 5, 11 * (m - 1) + 8}
      BY <1>2, <3>1, <3>2 DEF StepsFrom
    <3> QED BY <3>1, <3>3
  <2> QED BY <2>1, <2>2
<1>10. CASE Replay(s) \/ AskVision(s) \/ VisionAnswers(s)
  <2>1. /\ \/ phase[s] = "annotate" /\ phase'[s] \in {"vision", "act"}
           \/ phase[s] = "vision" /\ phase'[s] = "act"
        /\ UNCHANGED <<planCount, retried>>
    BY <1>10 DEF Replay, AskVision, VisionAnswers, ActOn, Goto, SampleTypeOK
  <2>2. m1 = m /\ again1 = again
    BY <1>3, <2>1 DEF again, again1
  <2> QED BY <1>1, <1>2, <2>1, <2>2 DEF StepsFrom
<1>11. CASE Retry(s)
  <2>1. phase[s] = "act" /\ phase'[s] = "annotate" /\ m1 = m /\ ~again /\ again1
    BY <1>3, <1>11 DEF Retry, Goto, SampleTypeOK, again, again1
  <2>2. StepsLeft(s) = 11 * m + 6 /\ StepsLeft(s)' = 11 * m + 5
    BY <1>2, <2>1 DEF StepsFrom
  <2> QED BY <2>2
<1>12. CASE Replan(s)
  <2>1. phase[s] \in {"annotate", "vision", "act"} /\ phase'[s] = "plan" /\ m1 = m
    BY <1>3, <1>12 DEF Replan, LetGo, Goto, SampleTypeOK
  <2> QED BY <1>1, <1>2, <2>1 DEF StepsFrom
<1>13. CASE JudgePasses(s)
  <2>1. phase[s] = "act" /\ phase'[s] = "write" /\ m1 = m /\ acted1
    BY <1>3, <1>13 DEF JudgePasses, PutOpens, Goto, SampleTypeOK, RunsAPlan, acted1
  <2> QED BY <1>1, <1>2, <2>1 DEF StepsFrom
<1>14. CASE Fails(s)
  <2>1. /\ phase[s] \in {"plan", "planner", "annotate", "vision", "act"} /\ phase'[s] = "end"
        /\ phase[s] = "planner" => m > 0
    BY <1>1, <1>14 DEF Fails, LetGo, Goto, SampleTypeOK
  <2>2. StepsLeft(s)' = 0
    BY <1>2, <2>1 DEF StepsFrom
  <2>3. StepsLeft(s) \in Nat /\ StepsLeft(s) > 0
    BY <1>1, <1>2, <2>1 DEF StepsFrom
  <2> QED BY <2>2, <2>3
<1> QED
  BY <1>5, <1>6, <1>7, <1>8, <1>9, <1>10, <1>11, <1>12, <1>13, <1>14 DEF SampleStep

(* What a step of one sample leaves to the others.                         *)
LEMMA OthersKeepTheirs ==
  ASSUME IInv, NEW s \in Samples, SampleStep(s), NEW t \in Samples, t # s
  PROVE  StepsLeft(t)' = StepsLeft(t)
<1> USE DEF IInv, TypeOK, SampleTypeOK
<1>1. phase'[t] = phase[t]
  BY DEF SampleStep, PlanHit, PlanMiss, PlannerAnswers, PutOpens, PutWrites, PutRenames, AfterPut,
         Replay, AskVision, VisionAnswers, ActOn, Retry, Replan, JudgePasses, Fails, LetGo, Goto
<1>2. planCount'[t] = planCount[t]
  BY DEF SampleStep, PlanHit, Adopt, PlanMiss, PlannerAnswers, PutWrites, PutRenames, AfterPut,
         Replay, AskVision, VisionAnswers, Retry, Replan, JudgePasses, Fails
<1>3. target'[t] = target[t]
  BY DEF SampleStep, PlanHit, PlanMiss, PlannerAnswers, PutWrites, PutRenames, AfterPut,
         Replay, AskVision, VisionAnswers, ActOn, Retry, Replan, JudgePasses, Fails, LetGo
<1>4. t \in retried' <=> t \in retried
  BY DEF SampleStep, PlanHit, PlanMiss, PlannerAnswers, PutWrites, PutRenames, AfterPut,
         Replay, AskVision, VisionAnswers, Retry, Replan, JudgePasses, Fails, LetGo
<1> QED BY <1>1, <1>2, <1>3, <1>4 DEF StepsLeft, StepsFrom

(***************************************************************************)
(* Between crashes a sample makes at most 11 * MaxPlans + 1 steps in plan, *)
(* cache, vision, retry and replan: each one leaves it fewer, and none     *)
(* gives another sample more, of whichever process.                        *)
(***************************************************************************)
EachStepGetsOn ==
  \A s \in Samples : SampleStep(s) =>
    /\ StepsLeft(s) \in Nat /\ StepsLeft(s)' \in Nat /\ StepsLeft(s)' < StepsLeft(s)
    /\ \A t \in Samples \ {s} : StepsLeft(t)' = StepsLeft(t)

(* The measure of every sample is a number. *)
StepsAreNumbers == \A s \in Samples : StepsLeft(s) \in Nat

(* Neither retries nor replans keep a sample going for ever. *)
THEOREM SamplesGetOn == Spec => [][EachStepGetsOn]_vars
<1>1. IInv => StepsAreNumbers
  BY StepsLeftIsNat DEF StepsAreNumbers
<1>2. ASSUME IInv, StepsAreNumbers, StepsAreNumbers'
      PROVE  EachStepGetsOn
  <2> SUFFICES ASSUME NEW s \in Samples, SampleStep(s)
               PROVE  /\ StepsLeft(s)' < StepsLeft(s)
                      /\ StepsLeft(s) \in Nat /\ StepsLeft(s)' \in Nat
                      /\ \A t \in Samples \ {s} : StepsLeft(t)' = StepsLeft(t)
    BY DEF EachStepGetsOn
  <2>1. StepsLeft(s)' < StepsLeft(s) /\ \A t \in Samples \ {s} : StepsLeft(t)' = StepsLeft(t)
    BY <1>2, StepsLeftFall, OthersKeepTheirs
  <2> QED BY <1>2, <2>1 DEF StepsAreNumbers
<1> QED BY <1>1, <1>2, PlanCacheInductive, PTL

(* The guards of PutWrites and PutRenames, of PlanHit, PlanMiss and Fails: *)
(* what they assign besides, any state allows.                             *)
MayStep(s) ==
  \/ Putting(s)
  \/ /\ LoopIsFree(s)
     /\ \/ /\ phase[s] = "plan" /\ planCount[s] = 0
           /\ mem[ProcessOf[s]] # None \/ Readable(file)
        \/ /\ phase[s] = "plan" /\ planCount[s] < MaxPlans[s]
           /\ planCount[s] = 0 => mem[ProcessOf[s]] = None /\ ~Readable(file)
        \/ /\ phase[s] \in {"plan", "planner", "annotate", "vision", "act"}
           /\ phase[s] = "plan" => planCount[s] = MaxPlans[s]

(***************************************************************************)
(* NoSampleIsStuck by its guards: of the samples of a process that has one *)
(* to finish, one can go on, whatever the shared files and the memory hold.*)
(***************************************************************************)
SomeoneMayStep ==
  \A s \in Samples :
    phase[s] # "end" => \E t \in SamplesOf(ProcessOf[s]) : phase[t] # "end" /\ MayStep(t)

(* What one process leaves in the files never stops another one. *)
THEOREM NobodyIsBlocked == Spec => []SomeoneMayStep
<1>1. ASSUME IInv PROVE SomeoneMayStep
  <2> USE <1>1 DEF IInv, TypeOK, SampleTypeOK
  <2> SUFFICES ASSUME NEW s \in Samples, phase[s] # "end"
               PROVE  \E t \in SamplesOf(ProcessOf[s]) : phase[t] # "end" /\ MayStep(t)
    BY DEF SomeoneMayStep
  <2>1. CASE ~LoopIsFree(s)
    BY <2>1 DEF LoopIsFree, MayStep, Putting
  <2>2. CASE LoopIsFree(s)
    <3>1. s \in SamplesOf(ProcessOf[s])
      BY DEF SamplesOf
    <3>2. ~Putting(s)
      BY <2>2, <3>1 DEF LoopIsFree
    <3>3. CASE phase[s] = "plan"
      <4>1. planCount[s] = MaxPlans[s] \/ planCount[s] < MaxPlans[s]
        BY ConstantFacts
      <4> QED BY <2>2, <3>1, <3>3, <4>1 DEF MayStep
    <3>4. CASE phase[s] # "plan"
      BY <2>2, <3>1, <3>2, <3>4 DEF MayStep, Putting
    <3> QED BY <3>3, <3>4
  <2> QED BY <2>1, <2>2
<1> QED BY <1>1, PlanCacheInductive, PTL
=============================================================================
