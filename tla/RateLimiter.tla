----------------------------- MODULE RateLimiter -----------------------------
(***************************************************************************)
(* browser/rate_limiter.py: one token bucket per host, shared by the       *)
(* coroutines of a process.  acquire() takes a token or sleeps, without    *)
(* the lock, until the token it saw missing is due, and looks again.       *)
(* Time is in ticks: a tick refills one unit, a request takes Period units *)
(* and a bucket holds Burst requests.  Ages and sleeps are relative, so no *)
(* clock grows without bound.                                              *)
(***************************************************************************)
EXTENDS Naturals, Integers

CONSTANTS
  Callers,  \* coroutines that call acquire()
  Hosts,    \* hosts with a name (for an empty one acquire() returns at once)
  Burst,    \* capacity of a bucket, in requests
  Period,   \* ticks in which one request is refilled: 1/rps
  None      \* not waiting

ASSUME RateAssumption == Burst \in Nat \ {0} /\ Period \in Nat \ {0}

Cap == Burst * Period

VARIABLES
  bucket,   \* bucket[h]: units at the last refill, ticks since then
  waiting,  \* waiting[c]: host and ticks left to sleep, or None
  slack     \* history: slack[h], what the rate still allows h (see RateBound)

rateVars == <<bucket, waiting, slack>>

AtMost(m, n) == IF n > m THEN m ELSE n

RateTypeOK ==
  /\ bucket \in [Hosts -> [tokens : 0..Cap, age : 0..Cap]]
  /\ waiting \in [Callers -> [host : Hosts, left : 0..Period] \cup {None}]
  /\ slack \in [Hosts -> Int]

(* A bucket is made full on first use; it is the same as if it had always  *)
(* been there.                                                             *)
RateInit ==
  /\ bucket = [h \in Hosts |-> [tokens |-> Cap, age |-> 0]]
  /\ waiting = [c \in Callers |-> None]
  /\ slack = [h \in Hosts |-> Cap]
-----------------------------------------------------------------------------
(* _refill() *)
Refilled(h) == AtMost(Cap, bucket[h].tokens + bucket[h].age)
SetTokens(h, n) == bucket' = [bucket EXCEPT ![h] = [tokens |-> n, age |-> 0]]

(* time_until_token() <= 0: the token is taken and acquire() returns. *)
Admit(c, h) ==
  /\ Refilled(h) >= Period
  /\ SetTokens(h, Refilled(h) - Period)
  /\ waiting' = [waiting EXCEPT ![c] = None]
  /\ slack' = [slack EXCEPT ![h] = @ - Period]

Sleep(c, h) ==
  /\ Refilled(h) < Period
  /\ SetTokens(h, Refilled(h))
  /\ waiting' = [waiting EXCEPT ![c] = [host |-> h, left |-> Period - Refilled(h)]]
  /\ UNCHANGED slack

(* The first look of acquire(h), and the one after each sleep. *)
Acquire(c, h) == waiting[c] = None /\ (Admit(c, h) \/ Sleep(c, h))

(* Fault: the caller that has slept takes the token without looking again. *)
WakeAndTake(c) ==
  /\ waiting[c] # None
  /\ waiting[c].left = 0
  /\ LET h == waiting[c].host IN
       /\ SetTokens(h, IF Refilled(h) >= Period THEN Refilled(h) - Period ELSE 0)
       /\ slack' = [slack EXCEPT ![h] = @ - Period]
  /\ waiting' = [waiting EXCEPT ![c] = None]

Wake(c) ==
  /\ waiting[c] # None
  /\ waiting[c].left = 0
  /\ Admit(c, waiting[c].host) \/ Sleep(c, waiting[c].host)

(* Time passes; coroutines may be scheduled late. *)
Tick ==
  /\ bucket' = [h \in Hosts |-> [bucket[h] EXCEPT !.age = AtMost(Cap, @ + 1)]]
  /\ waiting' = [c \in Callers |->
       IF waiting[c] = None \/ waiting[c].left = 0 THEN waiting[c]
       ELSE [waiting[c] EXCEPT !.left = @ - 1]]
  /\ slack' = [h \in Hosts |-> AtMost(Cap, slack[h] + 1)]

RateNext ==
  \/ \E c \in Callers, h \in Hosts : Acquire(c, h)
  \/ \E c \in Callers : Wake(c)
  \/ Tick

RateSpec == RateInit /\ [][RateNext]_rateVars
-----------------------------------------------------------------------------
(***************************************************************************)
(* In no window of d ticks does a host get more than (Cap + d) / Period    *)
(* requests through the limiter (rate_limiter.py: "must not hammer any     *)
(* single target host faster than per_host_rps"), however many callers     *)
(* race for the token that is due.  slack[h] is Cap + d - Period * n for   *)
(* the window, among all that end now, in which that is least: each tick   *)
(* adds one, each admission of h takes Period, and the empty window that   *)
(* starts now has Cap.                                                     *)
(***************************************************************************)
RateBound == \A h \in Hosts : slack[h] >= 0

(* What makes it inductive: the lazily refilled bucket is never ahead of   *)
(* the allowance.                                                          *)
RateInv ==
  /\ RateTypeOK
  /\ \A h \in Hosts : slack[h] = Refilled(h)
=============================================================================
