------------------------------ MODULE PlanCache ------------------------------
(***************************************************************************)
(* agent/plan_cache.py with the nodes that use it: the plan node, visual_do*)
(* and the judge, for the samples of one task, hence of one cache key.  A  *)
(* process holds its entry in memory (PlanCache._mem); all processes share *)
(* the file <key>.json and the name <key>.json.tmp.  Entry and graph state *)
(* are one list object, which visual_do changes in place.                  *)
(*                                                                         *)
(* A plan is abstracted to its one visual_do step, and that to the         *)
(* descriptor in its "resolved" field.                                     *)
(***************************************************************************)
EXTENDS Descriptors

CONSTANTS
  Samples, Processes,
  ProcessOf,     \* which process runs a sample
  PageOf,        \* the page a sample's step finds
  Hints,         \* the filters vision may propose
  MaxPlans,      \* bound: plans of each sample
  MaxCrashes,    \* bound: crashes of processes
  Unresolved,    \* a plan whose visual_do step has no "resolved" yet
  Empty, Torn,   \* file contents that are no plan
  None

ASSUME PlanCacheAssumption ==
  /\ ProcessOf \in [Samples -> Processes]
  /\ \A s \in Samples :
       /\ Len(PageOf[s]) \in Nat \ {0}
       /\ DOMAIN PageOf[s] = 1..Len(PageOf[s])
  /\ None \notin (Samples \X Nat) \cup {"tmp", "file", "unlinked"}
  /\ MaxPlans \in [Samples -> Nat \ {0}]
  /\ MaxCrashes \in Nat

VARIABLES
  mem,          \* process -> the list object in PlanCache._mem
  heap,         \* list object -> the plan it holds
  file, tmp,    \* contents of <key>.json and <key>.json.tmp
  handle,       \* process -> the name its open file goes by
  phase, plan,  \* sample -> what it does, and the list object it runs
  planCount,    \* sample -> plan_count
  target,       \* sample -> the mark it acts on
  retried,      \* samples whose step the verifier has refused once
  passed,       \* history: the judge has passed a sample
  overlapped,   \* history: two processes were inside put() at a time
  crashes

cacheVars == <<mem, file, tmp, handle, overlapped>>
vars == <<cacheVars, heap, phase, plan, planCount, target, retried, passed, crashes>>

Objects == UNION {{s} \X (1..MaxPlans[s]) : s \in Samples}

(* A "resolved" field, with the page and the mark it was made for. *)
Learned(s, k, hint) ==
  [desc |-> DescriptorFor(k, PageOf[s], hint), page |-> PageOf[s], mark |-> k]
Plans ==
  {Unresolved} \cup UNION
    {{Learned(s, k, h) : k \in DOMAIN PageOf[s], h \in Hints} : s \in Samples}
Contents == Plans \cup {Empty, Torn}

SamplesOf(p) == {s \in Samples : ProcessOf[s] = p}
Putting(s) == phase[s] \in {"write", "rename"}

(* put() and get() do not await: no other coroutine of the process runs. *)
LoopIsFree(s) == \A t \in SamplesOf(ProcessOf[s]) : ~Putting(t)

CacheTypeOK ==
  /\ mem \in [Processes -> Objects \cup {None}]
  /\ heap \in [Objects -> Plans]
  /\ file \in Contents \cup {None}
  /\ tmp \in Contents \cup {None}
  /\ handle \in [Processes -> {"tmp", "file", "unlinked", None}]

SampleTypeOK ==
  /\ phase \in [Samples -> {"plan", "planner", "write", "rename", "annotate",
                            "vision", "act", "end"}]
  /\ plan \in [Samples -> Objects \cup {None}]
  /\ planCount \in [Samples -> Nat]
  /\ \A s \in Samples : planCount[s] <= MaxPlans[s]
  /\ target \in [Samples -> Nat]
  /\ retried \subseteq Samples

HistoryTypeOK ==
  passed \in BOOLEAN /\ overlapped \in BOOLEAN /\ crashes \in 0..MaxCrashes

TypeOK == CacheTypeOK /\ SampleTypeOK /\ HistoryTypeOK

Init ==
  /\ mem = [p \in Processes |-> None]
  /\ heap = [o \in Objects |-> Unresolved]
  /\ file = None /\ tmp = None
  /\ handle = [p \in Processes |-> None]
  /\ phase = [s \in Samples |-> "plan"]
  /\ plan = [s \in Samples |-> None]
  /\ planCount = [s \in Samples |-> 0]
  /\ target = [s \in Samples |-> 0] /\ retried = {}
  /\ passed = FALSE /\ overlapped = FALSE /\ crashes = 0
-----------------------------------------------------------------------------
Goto(s, ph) == phase' = [phase EXCEPT ![s] = ph]

(* The list object of the plan the sample gets next. *)
NewObject(s) == <<s, planCount[s] + 1>>
Adopt(s, o) ==
  /\ plan' = [plan EXCEPT ![s] = o]
  /\ planCount' = [planCount EXCEPT ![s] = @ + 1]

(* get(): a file that is no JSON list is no hit. *)
Readable(content) == content \in Plans

(* The plan node finds a plan: in memory, where all samples share one      *)
(* object, or in the file.                                                 *)
PlanHit(s) ==
  /\ phase[s] = "plan" /\ LoopIsFree(s)
  /\ planCount[s] = 0
  /\ LET p == ProcessOf[s]
     IN \/ /\ mem[p] # None
           /\ Adopt(s, mem[p])
           /\ UNCHANGED <<mem, heap>>
        \/ /\ mem[p] = None
           /\ Readable(file)
           /\ Adopt(s, NewObject(s))
           /\ mem' = [mem EXCEPT ![p] = NewObject(s)]
           /\ heap' = [heap EXCEPT ![NewObject(s)] = file]
  /\ Goto(s, "annotate")
  /\ UNCHANGED <<file, tmp, handle, overlapped, target, retried, passed, crashes>>

(* No hit, or not the first plan of the sample: the planner is asked. *)
PlanMiss(s) ==
  /\ phase[s] = "plan" /\ LoopIsFree(s)
  /\ planCount[s] < MaxPlans[s]
  /\ planCount[s] = 0 => mem[ProcessOf[s]] = None /\ ~Readable(file)
  /\ Goto(s, "planner")
  /\ UNCHANGED <<cacheVars, heap, plan, planCount, target, retried, passed, crashes>>

(* Fault: the file itself is opened. *)
PutOpensFile(s, o) ==
  LET p == ProcessOf[s]
  IN /\ mem' = [mem EXCEPT ![p] = o]
     /\ file' = Empty
     /\ tmp' = Empty
     /\ handle' = [handle EXCEPT ![p] = "file"]
     /\ overlapped' = (overlapped \/ \E t \in Samples : Putting(t))
     /\ Goto(s, "write")

(* put() of object o begins: memory, then write_text() opens the .tmp and  *)
(* truncates it.                                                           *)
PutOpens(s, o) ==
  LET p == ProcessOf[s]
  IN /\ mem' = [mem EXCEPT ![p] = o]
     /\ tmp' = Empty
     /\ handle' = [handle EXCEPT ![p] = "tmp"]
     /\ overlapped' = (overlapped \/ \E t \in Samples : Putting(t))
     /\ Goto(s, "write")
     /\ UNCHANGED file

(* The planner's answer is put into the cache. *)
PlannerAnswers(s) ==
  /\ phase[s] = "planner" /\ LoopIsFree(s)
  /\ heap' = [heap EXCEPT ![NewObject(s)] = Unresolved]
  /\ plan' = [plan EXCEPT ![s] = NewObject(s)]
  /\ PutOpens(s, NewObject(s))
  /\ UNCHANGED <<planCount, target, retried, passed, crashes>>

(* What a file that held old holds when text is written from its start: a  *)
(* text that is shorter than what another process has written leaves the   *)
(* end of that.                                                            *)
Written(old, text) == IF old \in {Empty, text} THEN {text} ELSE {text, Torn}

(* One write(); the open file may have been renamed by another process,    *)
(* and even been replaced since.                                           *)
PutWrites(s) ==
  LET p == ProcessOf[s]
      text == heap[plan[s]]
  IN /\ phase[s] = "write"
     /\ tmp' \in IF handle[p] = "tmp" THEN Written(tmp, text) ELSE {tmp}
     /\ file' \in IF handle[p] = "file" THEN Written(file, text) ELSE {file}
     /\ handle' = [handle EXCEPT ![p] = None]
     /\ Goto(s, "rename")
     /\ UNCHANGED <<mem, overlapped, heap, plan, planCount, target,
                    retried, passed, crashes>>

(* The sample is through with its plan. *)
LetGo(s, ph) ==
  /\ Goto(s, ph)
  /\ plan' = [plan EXCEPT ![s] = None]
  /\ target' = [target EXCEPT ![s] = 0]
  /\ retried' = retried \ {s}

(* After put() the judge's sample is done, the planner's starts to act. *)
AfterPut(s) ==
  IF target[s] # 0
  THEN LetGo(s, "end") /\ UNCHANGED planCount
  ELSE /\ Goto(s, "annotate")
       /\ planCount' = [planCount EXCEPT ![s] = @ + 1]
       /\ UNCHANGED <<plan, target, retried>>

Rename ==
  /\ file' = tmp
  /\ tmp' = None
  /\ handle' = [p \in Processes |->
                 CASE handle[p] = "tmp" -> "file"
                   [] handle[p] = "file" -> "unlinked"
                   [] OTHER -> handle[p]]

(* Fault: the error of a rename() without .tmp is not caught. *)
RenameNeedsTmp(s) ==
  /\ phase[s] = "rename"
  /\ tmp # None
  /\ Rename
  /\ AfterPut(s)
  /\ UNCHANGED <<mem, overlapped, heap, passed, crashes>>

(* rename(): another process may have taken the .tmp away; that error is   *)
(* swallowed by the caller.                                                *)
PutRenames(s) ==
  /\ phase[s] = "rename"
  /\ IF tmp = None THEN UNCHANGED <<file, tmp, handle>> ELSE Rename
  /\ AfterPut(s)
  /\ UNCHANGED <<mem, overlapped, heap, passed, crashes>>
-----------------------------------------------------------------------------
ActOn(s, k) == target' = [target EXCEPT ![s] = k] /\ Goto(s, "act")

Found(s) ==
  LET learned == heap[plan[s]]
  IN IF learned = Unresolved THEN {} ELSE Match(learned.desc, PageOf[s])

(* visual_do: annotate returns the marks, and the descriptor finds one. *)
Replay(s) ==
  /\ phase[s] = "annotate" /\ LoopIsFree(s)
  /\ \E k \in Found(s) : ActOn(s, k)
  /\ UNCHANGED <<cacheVars, heap, plan, planCount, retried, passed, crashes>>

(* It finds none: the vision model is asked. *)
AskVision(s) ==
  /\ phase[s] = "annotate" /\ LoopIsFree(s)
  /\ Found(s) = {}
  /\ Goto(s, "vision")
  /\ UNCHANGED <<cacheVars, heap, plan, planCount, target, retried, passed, crashes>>

(* Vision picks a mark, or an id that is none (0); the descriptor of it is *)
(* written into the plan, whoever runs that plan.                          *)
VisionAnswers(s) ==
  /\ phase[s] = "vision" /\ LoopIsFree(s)
  /\ \E id \in {0} \cup DOMAIN PageOf[s], hint \in Hints :
       \E k \in VisionPick(id, hint, PageOf[s]) :
         /\ heap' = [heap EXCEPT ![plan[s]] = Learned(s, k, hint)]
         /\ ActOn(s, k)
  /\ UNCHANGED <<cacheVars, plan, planCount, retried, passed, crashes>>

(* The verifier refuses the click for the first time: the same step again, *)
(* by the descriptor that led to it.                                       *)
Retry(s) ==
  /\ phase[s] = "act" /\ LoopIsFree(s)
  /\ s \notin retried
  /\ retried' = retried \cup {s}
  /\ target' = [target EXCEPT ![s] = 0]
  /\ Goto(s, "annotate")
  /\ UNCHANGED <<cacheVars, heap, plan, planCount, passed, crashes>>

(* A tool call fails, or the verifier refuses again, and the sample plans  *)
(* anew.                                                                   *)
Replan(s) ==
  /\ phase[s] \in {"annotate", "vision", "act"} /\ LoopIsFree(s)
  /\ planCount[s] < MaxPlans[s]
  /\ LetGo(s, "plan")
  /\ UNCHANGED <<cacheVars, heap, planCount, passed, crashes>>

(* Fault: any verdict writes the plan back. *)
JudgeKeepsAny(s) ==
  /\ phase[s] = "act" /\ LoopIsFree(s)
  /\ passed' \in {passed, TRUE}
  /\ PutOpens(s, plan[s])
  /\ UNCHANGED <<heap, plan, planCount, target, retried, crashes>>

(* The click works, and the graph comes to a judge who passes the sample:  *)
(* that writes the plan back, with all that samples have resolved in it. *)
JudgePasses(s) ==
  /\ phase[s] = "act" /\ LoopIsFree(s)
  /\ passed' = TRUE
  /\ PutOpens(s, plan[s])
  /\ UNCHANGED <<heap, plan, planCount, target, retried, crashes>>

(* Another verdict, the plan cap, a model that gives up. *)
Fails(s) ==
  /\ phase[s] \in {"plan", "planner", "annotate", "vision", "act"}
  /\ phase[s] = "plan" => planCount[s] = MaxPlans[s]
  /\ LoopIsFree(s)
  /\ LetGo(s, "end")
  /\ UNCHANGED <<cacheVars, heap, planCount, passed, crashes>>

(* A process dies and is started again; the queue hands out what it had in *)
(* hand, on threads that remember plan_count.                              *)
Crash(p) ==
  /\ crashes < MaxCrashes
  /\ crashes' = crashes + 1
  /\ mem' = [mem EXCEPT ![p] = None]
  /\ handle' = [handle EXCEPT ![p] = None]
  /\ heap' = [o \in Objects |-> IF o[1] \in SamplesOf(p) THEN Unresolved ELSE heap[o]]
  /\ LET lost == {s \in SamplesOf(p) : phase[s] # "end"}
         gone == SamplesOf(p)
     IN /\ phase' = [s \in Samples |-> IF s \in lost THEN "plan" ELSE phase[s]]
        /\ plan' = [s \in Samples |-> IF s \in gone THEN None ELSE plan[s]]
        /\ target' = [s \in Samples |-> IF s \in gone THEN 0 ELSE target[s]]
        /\ retried' = retried \ gone
  /\ UNCHANGED <<file, tmp, overlapped, planCount, passed>>

SampleStep(s) ==
  \/ PlanHit(s) \/ PlanMiss(s) \/ PlannerAnswers(s)
  \/ PutWrites(s) \/ PutRenames(s)
  \/ Replay(s) \/ AskVision(s) \/ VisionAnswers(s)
  \/ Retry(s) \/ Replan(s) \/ JudgePasses(s) \/ Fails(s)

Next ==
  \/ \E s \in Samples : SampleStep(s)
  \/ \E p \in Processes : Crash(p)

Spec == Init /\ [][Next]_vars
-----------------------------------------------------------------------------
(* The mark is one the filter made for it accepts: vision's pattern was    *)
(* not too strict.                                                         *)
FitsItself(l) == Fits(l.page[l.mark], l.desc.filter)

(***************************************************************************)
(* Replay is deterministic: a sample that comes to a step with a           *)
(* descriptor made on a page like its own, by whichever sample of whichever*)
(* process, acts on the mark that was chosen then and asks no vision model *)
(* ("subsequent rows replay deterministically", agent/nodes.py).  It takes *)
(* a pattern that fits the mark it was proposed for.                       *)
(***************************************************************************)
ReplayIsFaithful ==
  [][\A s \in Samples :
       /\ phase[s] = "annotate"
       /\ phase'[s] \in {"vision", "act"}
       /\ heap[plan[s]] # Unresolved
       /\ heap[plan[s]].page = PageOf[s]
       /\ FitsItself(heap[plan[s]])
       => phase'[s] = "act" /\ target'[s] = heap[plan[s]].mark]_vars

(***************************************************************************)
(* tmp and rename make put() atomic against crashes: as long as no two     *)
(* processes were inside put() together, the file is a plan or not there,  *)
(* whatever a crash left in the .tmp.                                      *)
(***************************************************************************)
WholeUnlessOverlapped == ~overlapped => file \in Plans \cup {None}

(* What makes TypeOK and WholeUnlessOverlapped inductive. *)
RunsAPlan ==
  \A s \in Samples :
    /\ phase[s] \in {"write", "rename", "annotate", "vision", "act"} => plan[s] \in Objects
    /\ phase[s] = "planner" \/ (Putting(s) /\ target[s] = 0)
         => planCount[s] < MaxPlans[s]
    /\ phase[s] = "act" => target[s] # 0

PutsAlone ==
  /\ \A s, t \in Samples : Putting(s) /\ Putting(t) => s = t
  /\ \A s \in Samples :
       /\ phase[s] = "write" => tmp = Empty /\ handle[ProcessOf[s]] = "tmp"
       /\ phase[s] = "rename" => tmp \in Plans
  /\ \A p \in Processes :
       /\ handle[p] \in {"tmp", None}
       /\ handle[p] = "tmp" => \E s \in SamplesOf(p) : phase[s] = "write"
  /\ file \in Plans \cup {None}

IInv == TypeOK /\ RunsAPlan /\ (~overlapped => PutsAlone)

(***************************************************************************)
(* Descriptors outlive a process only by way of a sample that passed:      *)
(* until then the file holds the planner's plan as it was.                 *)
(***************************************************************************)
LearnedFromAPass == ~passed => file \in {Unresolved, Empty, Torn, None}

(***************************************************************************)
(* No sample is stuck in the cache: whatever file another process left     *)
(* half-written, renamed away or torn, each process that has a sample can  *)
(* go on with it or with the sample that holds its event loop.             *)
(***************************************************************************)
NoSampleIsStuck ==
  \A s \in Samples :
    phase[s] # "end" => \E t \in SamplesOf(ProcessOf[s]) : ENABLED SampleStep(t)

(***************************************************************************)
(* "Writes are atomic (tmp + rename), so concurrent putters can't produce  *)
(* a half-written plan with a valid hash name" (AGENT_ARCHITECTURE.md).    *)
(***************************************************************************)
NeverHalfWritten == file \notin {Empty, Torn}
=============================================================================
