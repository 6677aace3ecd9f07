--------------------------- MODULE BrowserSessions ---------------------------
(***************************************************************************)
(* browser/pool.py and the life of a session of browser/local.py: samples  *)
(* share one lazily started Chromium through a semaphore, each in a        *)
(* context of its own, and navigate through the rate limiter.  Steps are   *)
(* what happens between two awaits.  The runner and the workers call       *)
(* setup() before their first sample, which is the case of a sample that   *)
(* is through Launch before any other starts; `andera check` does not.     *)
(***************************************************************************)
EXTENDS RateLimiter, FiniteSets

CONSTANTS
  Concurrency,  \* permits of the semaphore
  Gotos,        \* bound: navigations of a sample
  MaxFaults     \* bound: Playwright calls that raise, and deaths of Chromium

Samples == Callers

ASSUME PoolAssumption ==
  /\ Concurrency \in Nat \ {0} /\ Gotos \in Nat /\ MaxFaults \in Nat
  /\ IsFiniteSet(Samples) /\ None \notin Samples

VARIABLES
  phase,     \* phase[s]: where sample s is in acquire() or in its session
  gotos,     \* gotos[s]: navigations still to do
  permits,   \* value of the semaphore
  browser,   \* _browser: "none", "up", or "dead" (Chromium has died)
  hasPw,     \* _pw is set
  lock,      \* holder of _setup_lock
  drivers,   \* Playwright drivers running
  chromiums, \* Chromium processes running
  contexts,  \* contexts open in them
  faults     \* faults[k]: how many of kind k have happened

poolVars == <<phase, gotos, permits, browser, hasPw, lock>>
procVars == <<drivers, chromiums, contexts>>
vars == <<rateVars, poolVars, procVars, faults>>

Kinds == {"driver", "launch", "context", "page", "death"}
Holding == {"acquired", "locked", "starting", "opening", "paging", "using", "loading"}
InContext == {"paging", "using", "loading"}
Over == {"done", "failed"}
In(ph) == {s \in Samples : phase[s] \in ph}

TypeOK ==
  /\ RateTypeOK
  /\ phase \in [Samples -> Holding \cup Over \cup {"new"}]
  /\ gotos \in [Samples -> 0..Gotos]
  /\ permits \in 0..Concurrency
  /\ browser \in {"none", "up", "dead"} /\ hasPw \in BOOLEAN
  /\ lock \in Samples \cup {None}
  /\ {drivers, chromiums, contexts} \subseteq Int
  /\ faults \in [Kinds -> Nat]

Init ==
  /\ RateInit
  /\ phase = [s \in Samples |-> "new"]
  /\ gotos = [s \in Samples |-> Gotos]
  /\ permits = Concurrency
  /\ browser = "none" /\ hasPw = FALSE /\ lock = None
  /\ drivers = 0 /\ chromiums = 0 /\ contexts = 0
  /\ faults = [k \in Kinds |-> 0]
-----------------------------------------------------------------------------
Goto(s, where) == phase' = [phase EXCEPT ![s] = where]

Fault(k) ==
  /\ faults[k] < MaxFaults
  /\ faults' = [faults EXCEPT ![k] = @ + 1]

(* The finally of acquire(), after the session, if there is one, is closed. *)
Release(s, outcome) ==
  /\ Goto(s, outcome)
  /\ permits' = permits + 1

AcquirePermit(s) ==
  /\ phase[s] = "new"
  /\ permits > 0
  /\ permits' = permits - 1
  /\ Goto(s, IF browser = "none" THEN "acquired" ELSE "opening")
  /\ UNCHANGED <<rateVars, gotos, browser, hasPw, lock, procVars, faults>>

(* Fault: setup() does not look again once it has the lock. *)
SetupBlindly(s) ==
  /\ phase[s] = "acquired"
  /\ lock = None
  /\ lock' = s /\ Goto(s, "locked")
  /\ UNCHANGED <<rateVars, gotos, permits, browser, hasPw, procVars, faults>>

(* setup(): the lock, and the browser another sample may have launched. *)
Setup(s) ==
  /\ phase[s] = "acquired"
  /\ lock = None
  /\ IF browser = "none" THEN lock' = s /\ Goto(s, "locked")
                         ELSE Goto(s, "opening") /\ UNCHANGED lock
  /\ UNCHANGED <<rateVars, gotos, permits, browser, hasPw, procVars, faults>>

StartDriver(s) ==
  /\ phase[s] = "locked"
  /\ drivers' = drivers + 1 /\ hasPw' = TRUE
  /\ Goto(s, "starting")
  /\ UNCHANGED <<rateVars, gotos, permits, browser, lock, chromiums, contexts, faults>>

Launch(s) ==
  /\ phase[s] = "starting"
  /\ chromiums' = chromiums + 1 /\ browser' = "up"
  /\ lock' = None /\ Goto(s, "opening")
  /\ UNCHANGED <<rateVars, gotos, permits, hasPw, drivers, contexts, faults>>

SetupRaises(s) ==
  /\ \/ phase[s] = "locked" /\ Fault("driver")
     \/ phase[s] = "starting" /\ Fault("launch")
  /\ lock' = None
  /\ Release(s, "failed")
  /\ UNCHANGED <<rateVars, gotos, browser, hasPw, procVars>>

(* from_browser(): new_context, new_page. *)
OpenContext(s) ==
  /\ phase[s] = "opening" /\ browser = "up"
  /\ contexts' = contexts + 1
  /\ Goto(s, "paging")
  /\ UNCHANGED <<rateVars, gotos, permits, browser, hasPw, lock, drivers, chromiums, faults>>

OpenPage(s) ==
  /\ phase[s] = "paging" /\ browser = "up"
  /\ Goto(s, "using")
  /\ UNCHANGED <<rateVars, gotos, permits, browser, hasPw, lock, procVars, faults>>

(* Raising, here or because Chromium is gone: no session, nothing closed. *)
OpenRaises(s) ==
  /\ \/ phase[s] = "opening" /\ (IF browser = "dead" THEN UNCHANGED faults ELSE Fault("context"))
     \/ phase[s] = "paging" /\ (IF browser = "dead" THEN UNCHANGED faults ELSE Fault("page"))
  /\ Release(s, "failed")
  /\ UNCHANGED <<rateVars, gotos, browser, hasPw, lock, procVars>>

(* goto(): through the limiter, then page.goto; the preflight and the      *)
(* tools of the graph swallow what it raises.                              *)
AskLimiter(s, h) ==
  /\ phase[s] = "using" /\ gotos[s] > 0
  /\ Acquire(s, h)
  /\ gotos' = [gotos EXCEPT ![s] = @ - 1]
  /\ Goto(s, "loading")
  /\ UNCHANGED <<permits, browser, hasPw, lock, procVars, faults>>

AskAgain(s) ==
  /\ phase[s] = "loading"
  /\ Wake(s)
  /\ UNCHANGED <<poolVars, procVars, faults>>

PageLoads(s) ==
  /\ phase[s] = "loading" /\ waiting[s] = None
  /\ Goto(s, "using")
  /\ UNCHANGED <<rateVars, gotos, permits, browser, hasPw, lock, procVars, faults>>

(* Fault: the session of a dead Chromium keeps its permit. *)
CloseIfUp(s) ==
  /\ phase[s] = "using" /\ browser = "up"
  /\ contexts' = contexts - 1
  /\ Release(s, "done")
  /\ UNCHANGED <<rateVars, gotos, browser, hasPw, lock, drivers, chromiums, faults>>

(* The sample ends, well or not: close() closes the context if it can. *)
Close(s) ==
  /\ phase[s] = "using"
  /\ contexts' = IF browser = "up" THEN contexts - 1 ELSE contexts
  /\ Release(s, "done")
  /\ UNCHANGED <<rateVars, gotos, browser, hasPw, lock, drivers, chromiums, faults>>

(* Chromium dies; _browser stays set, so nobody launches another one. *)
ChromiumDies ==
  /\ browser = "up"
  /\ Fault("death")
  /\ browser' = "dead"
  /\ chromiums' = chromiums - 1 /\ contexts' = 0
  /\ UNCHANGED <<rateVars, phase, gotos, permits, hasPw, lock, drivers>>

(* teardown(), after the last worker has returned. *)
Teardown ==
  /\ In(Over) = Samples
  /\ browser' = "none" /\ hasPw' = FALSE
  /\ chromiums' = IF browser = "up" THEN chromiums - 1 ELSE chromiums
  /\ contexts' = IF browser = "up" THEN 0 ELSE contexts
  /\ drivers' = IF hasPw THEN drivers - 1 ELSE drivers
  /\ UNCHANGED <<rateVars, phase, gotos, permits, lock, faults>>

TimePasses == Tick /\ UNCHANGED <<poolVars, procVars, faults>>

SampleStep(s) ==
  \/ AcquirePermit(s) \/ Setup(s) \/ StartDriver(s) \/ Launch(s) \/ SetupRaises(s)
  \/ OpenContext(s) \/ OpenPage(s) \/ OpenRaises(s)
  \/ \E h \in Hosts : AskLimiter(s, h)
  \/ AskAgain(s) \/ PageLoads(s) \/ Close(s)

Next ==
  \/ \E s \in Samples : SampleStep(s)
  \/ ChromiumDies \/ Teardown \/ TimePasses

Spec == Init /\ [][Next]_vars

FairSpec ==
  /\ Spec
  /\ \A s \in Samples : WF_vars(SampleStep(s))
  /\ WF_vars(TimePasses) /\ WF_vars(Teardown)
-----------------------------------------------------------------------------
(***************************************************************************)
(* Nothing is held by nobody.  The free permits and the samples inside     *)
(* acquire() add up on every path out of it; at most one Chromium runs     *)
(* (pool.py: "ONE Playwright + ONE Chromium launched ONCE"); drivers and   *)
(* contexts beyond those in use are exactly the leaks of a launch or of a  *)
(* page that failed, which nothing closes.                                 *)
(***************************************************************************)
NothingElseLeaks ==
  /\ permits + Cardinality(In(Holding)) = Concurrency
  /\ chromiums = IF browser = "up" THEN 1 ELSE 0
  /\ drivers <= (IF hasPw THEN 1 ELSE 0) + faults["launch"]
  /\ contexts <= Cardinality(In(InContext)) + faults["page"]

(***************************************************************************)
(* Every sample gets its session and is over, whatever raises and whenever *)
(* Chromium dies: no permit is lost to a failure and nobody starves in     *)
(* front of the limiter.  Then everything the pool knows of is torn down.  *)
(***************************************************************************)
EverySampleEnds == <>[](In(Over) = Samples /\ chromiums = 0 /\ ~hasPw)

(* What makes it inductive: who is in setup() has its lock and meets no    *)
(* browser; a driver nobody has launched from was left by a launch; and    *)
(* contexts go with their Chromium.                                        *)
PoolInv ==
  /\ TypeOK
  /\ NothingElseLeaks
  /\ \A s \in In({"locked", "starting"}) : lock = s /\ browser = "none"
  /\ browser = "none" /\ In({"starting"}) = {} => drivers <= faults["launch"]
  /\ browser # "up" => contexts = 0
=============================================================================
