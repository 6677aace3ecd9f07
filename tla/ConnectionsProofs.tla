-------------------------- MODULE ConnectionsProofs --------------------------
(***************************************************************************)
(* The two safety properties of Connections, for every number of windows,  *)
(* requests and every TTL.                                                 *)
(***************************************************************************)
EXTENDS Connections, TLAPS

(* What is registered, or in the hands of somebody who closes it, was      *)
(* opened by a POST that has returned.                                     *)
Opened ==
  /\ \A s \in registered : pc[s] = "done"
  /\ \A h \in Handlers : target[h] # None => pc[target[h]] = "done"
  /\ \A h \in Handlers : \A s \in todo[h] : pc[s] = "done"
  /\ \A h \in Handlers : pc[h] \in Closing \cup {"capturing"} => target[h] # None

ConnectionsInv == TypeOK /\ Opened /\ WindowsAreKnown

(* A POST goes on reaping, or starts its driver.                           *)
LEMMA ReapOrStartKeeps ==
  ASSUME TypeOK, Opened, NEW s \in Sessions, pc[s] # "done",
         NEW stale \in SUBSET Sessions, \A t \in stale : pc[t] = "done",
         ReapOrStart(s, stale)
  PROVE  /\ pc' \in [Handlers -> Opening \cup Closing \cup {"idle", "starting", "capturing", "done"}]
         /\ target' \in [Handlers -> Sessions \cup {None}]
         /\ todo' \in [Handlers -> SUBSET Sessions]
         /\ \A h \in Handlers \ {s} : pc'[h] = pc[h]
         /\ \A h \in Handlers : target'[h] # None => pc'[target'[h]] = "done"
         /\ \A h \in Handlers : \A t \in todo'[h] : pc'[t] = "done"
         /\ \A h \in Handlers : pc'[h] \in Closing \cup {"capturing"} => target'[h] # None
         /\ pc'[s] \notin Opening
<1> USE ConnectionsAssumption DEF Handlers
<1>1. CASE stale = {} /\ Goto(s, "starting") /\ UNCHANGED <<target, todo>>
  BY <1>1 DEF Goto, TypeOK, Opened, Opening, Closing
<1>2. ASSUME NEW t \in stale,
             Goto(s, "closing"), target' = [target EXCEPT ![s] = t],
             todo' = [todo EXCEPT ![s] = stale \ {t}]
      PROVE  /\ pc' \in [Handlers -> Opening \cup Closing \cup {"idle", "starting", "capturing", "done"}]
             /\ target' \in [Handlers -> Sessions \cup {None}]
             /\ todo' \in [Handlers -> SUBSET Sessions]
             /\ \A h \in Handlers \ {s} : pc'[h] = pc[h]
             /\ \A h \in Handlers : target'[h] # None => pc'[target'[h]] = "done"
             /\ \A h \in Handlers : \A u \in todo'[h] : pc'[u] = "done"
             /\ \A h \in Handlers : pc'[h] \in Closing \cup {"capturing"} => target'[h] # None
             /\ pc'[s] \notin Opening
  <2>1. /\ pc' = [pc EXCEPT ![s] = "closing"]
        /\ \A h \in Handlers \ {s} : pc'[h] = pc[h]
        /\ pc'[s] = "closing"
    BY <1>2 DEF Goto, TypeOK
  <2>2. /\ target'[s] = t /\ \A h \in Handlers \ {s} : target'[h] = target[h]
        /\ todo'[s] = stale \ {t} /\ \A h \in Handlers \ {s} : todo'[h] = todo[h]
    BY <1>2 DEF TypeOK
  <2>3. t # None /\ t \in Sessions /\ pc[t] = "done"
    BY <1>2
  <2>4. \A u \in Sessions : pc[u] = "done" => pc'[u] = "done"
    BY <2>1
  <2>5. /\ pc' \in [Handlers -> Opening \cup Closing \cup {"idle", "starting", "capturing", "done"}]
        /\ target' \in [Handlers -> Sessions \cup {None}]
        /\ todo' \in [Handlers -> SUBSET Sessions]
    BY <1>2, <2>1, <2>3 DEF TypeOK, Closing
  <2>6. \A h \in Handlers : target'[h] # None => pc'[target'[h]] = "done"
    BY <2>2, <2>3, <2>4 DEF Opened, TypeOK
  <2>7. \A h \in Handlers : \A u \in todo'[h] : pc'[u] = "done"
    BY <2>2, <2>4 DEF Opened, TypeOK
  <2>8. \A h \in Handlers : pc'[h] \in Closing \cup {"capturing"} => target'[h] # None
    BY <2>1, <2>2, <2>3 DEF Opened
  <2> QED BY <2>1, <2>5, <2>6, <2>7, <2>8 DEF Opening
<1> QED BY <1>1, <1>2 DEF ReapOrStart

(* The steps of a POST that opens its window.                              *)
LEMMA OpeningKeepsInv ==
  ASSUME ConnectionsInv, NEW s \in Sessions,
         Start(s) \/ Launch(s) \/ Register(s) \/ OpeningRaises(s) \/ Abandon(s)
  PROVE  ConnectionsInv'
<1> USE DEF ConnectionsInv
<1>1. pc[s] \in {"starting", "launching", "loading", "abandoning"}
  BY DEF Start, Launch, Register, OpeningRaises, Abandon
<1>2. UNCHANGED <<target, todo, age, sealed>>
  BY DEF Start, Launch, Register, OpeningRaises, Abandon
<1>3. /\ \A h \in Handlers \ {s} : pc'[h] = pc[h]
      /\ pc'[s] \in Opening \cup {"done"}
      /\ pc' \in [Handlers -> Opening \cup Closing \cup {"idle", "starting", "capturing", "done"}]
  BY DEF Start, Launch, Register, OpeningRaises, Abandon, Goto, TypeOK, Handlers, Opening
<1>4. registered' \subseteq registered \cup {s} /\ (s \in registered' => s \in registered \/ pc'[s] = "done")
  BY DEF Start, Launch, Register, OpeningRaises, Abandon, Goto, TypeOK, Handlers
<1>5. TypeOK'
  <2>1. registered' \subseteq Sessions
    BY <1>4 DEF TypeOK
  <2>2. {driver', window'} \subseteq [Sessions -> BOOLEAN]
    <3>1. driver' = driver \/ \E b \in BOOLEAN : driver' = [driver EXCEPT ![s] = b]
      BY DEF Start, Launch, Register, OpeningRaises, Abandon, Stop
    <3>2. window' = window \/ \E b \in BOOLEAN : window' = [window EXCEPT ![s] = b]
      BY DEF Start, Launch, Register, OpeningRaises, Abandon, Stop
    <3>3. driver' \in [Sessions -> BOOLEAN]
      BY <3>1 DEF TypeOK
    <3>4. window' \in [Sessions -> BOOLEAN]
      BY <3>2 DEF TypeOK
    <3> QED BY <3>3, <3>4
  <2> QED BY <1>2, <1>3, <2>1, <2>2 DEF TypeOK
<1>6. Opened'
  <2>1. \A t \in Sessions : pc[t] = "done" => pc'[t] = "done"
    BY <1>1, <1>3 DEF Handlers
  <2> QED BY <1>1, <1>2, <1>3, <1>4, <2>1 DEF Opened, TypeOK, Handlers, Opening, Closing
<1>7. WindowsAreKnown'
  <2> SUFFICES ASSUME NEW t \in Sessions, driver'[t] \/ window'[t]
               PROVE  t \in registered' \/ pc'[t] \in Opening
    BY DEF WindowsAreKnown
  <2>1. CASE t # s
    <3>1. driver'[t] = driver[t] /\ window'[t] = window[t] /\ pc'[t] = pc[t] /\ (t \in registered => t \in registered')
      BY <1>3, <2>1 DEF Start, Launch, Register, OpeningRaises, Abandon, Stop, TypeOK, Handlers
    <3> QED BY <3>1 DEF WindowsAreKnown
  <2>2. CASE t = s /\ Start(s)
    <3>1. CASE Goto(s, "launching")
      BY <2>2, <3>1 DEF Goto, TypeOK, Handlers, Opening
    <3>2. CASE Goto(s, "done") /\ UNCHANGED driver
      BY <2>2, <3>2 DEF Start, WindowsAreKnown, Opening
    <3> QED BY <2>2, <3>1, <3>2 DEF Start
  <2>3. CASE t = s /\ (Launch(s) \/ OpeningRaises(s))
    BY <2>3 DEF Launch, OpeningRaises, Goto, TypeOK, Handlers, Opening
  <2>4. CASE t = s /\ Register(s)
    BY <2>4 DEF Register
  <2>5. CASE t = s /\ Abandon(s)
    BY <2>5 DEF Abandon, Stop, TypeOK
  <2> QED BY <2>1, <2>2, <2>3, <2>4, <2>5
<1> QED BY <1>5, <1>6, <1>7

(* A session is forgotten in the step that stops its driver.               *)
LEMMA StopDriverKeepsInv ==
  ASSUME ConnectionsInv, NEW h \in Handlers, StopDriver(h)
  PROVE  ConnectionsInv'
<1> USE DEF ConnectionsInv
<1> DEFINE s == target[h]
<1>1. s \in Sessions /\ pc[s] = "done" /\ pc[h] = "stopping"
  BY DEF StopDriver, Opened, TypeOK, Closing
<1>2. /\ driver' \in [Sessions -> BOOLEAN] /\ window' \in [Sessions -> BOOLEAN]
      /\ ~driver'[s] /\ ~window'[s]
      /\ \A t \in Sessions \ {s} : driver'[t] = driver[t] /\ window'[t] = window[t]
  BY <1>1 DEF StopDriver, Stop, TypeOK
<1>3. registered' = registered \ {s} /\ UNCHANGED <<age, sealed>>
  BY DEF StopDriver
<1>4. /\ pc' \in [Handlers -> Opening \cup Closing \cup {"idle", "starting", "capturing", "done"}]
      /\ target' \in [Handlers -> Sessions \cup {None}]
      /\ todo' \in [Handlers -> SUBSET Sessions]
      /\ \A g \in Handlers \ {h} : pc'[g] = pc[g]
      /\ \A g \in Handlers : target'[g] # None => pc'[target'[g]] = "done"
      /\ \A g \in Handlers : \A t \in todo'[g] : pc'[t] = "done"
      /\ \A g \in Handlers : pc'[g] \in Closing \cup {"capturing"} => target'[g] # None
      /\ pc'[h] \notin Opening
  <2>1. CASE /\ h \in Requests /\ Goto(h, "idle")
             /\ target' = [target EXCEPT ![h] = None] /\ UNCHANGED todo
    <3>1. /\ pc'[h] = "idle" /\ \A g \in Handlers \ {h} : pc'[g] = pc[g]
          /\ target'[h] = None /\ \A g \in Handlers \ {h} : target'[g] = target[g]
      BY <2>1 DEF Goto, TypeOK
    <3>2. \A t \in Sessions : pc'[t] = pc[t]
      BY <2>1, <3>1, ConnectionsAssumption DEF Handlers
    <3>3. /\ pc' \in [Handlers -> Opening \cup Closing \cup {"idle", "starting", "capturing", "done"}]
          /\ target' \in [Handlers -> Sessions \cup {None}]
          /\ todo' \in [Handlers -> SUBSET Sessions]
      BY <2>1 DEF Goto, TypeOK
    <3> QED BY <2>1, <3>1, <3>2, <3>3 DEF Opened, TypeOK, Opening, Closing
  <2>2. CASE h \in Sessions /\ ReapOrStart(h, todo[h])
    <3>1. todo[h] \in SUBSET Sessions /\ \A t \in todo[h] : pc[t] = "done"
      BY DEF TypeOK, Opened
    <3> QED BY <1>1, <2>2, <3>1, ReapOrStartKeeps
  <2> QED BY <2>1, <2>2 DEF StopDriver
<1>5. TypeOK'
  BY <1>2, <1>3, <1>4 DEF TypeOK
<1>6. \A t \in Sessions : pc[t] = "done" => pc'[t] = "done"
  BY <1>1, <1>4 DEF Handlers
<1>7. Opened'
  BY <1>3, <1>4, <1>6 DEF Opened, TypeOK
<1>8. WindowsAreKnown'
  <2> SUFFICES ASSUME NEW t \in Sessions, driver'[t] \/ window'[t]
               PROVE  t \in registered' \/ pc'[t] \in Opening
    BY DEF WindowsAreKnown
  <2>1. t # s /\ (driver[t] \/ window[t])
    BY <1>2
  <2>2. t \in registered \/ pc[t] \in Opening
    BY <2>1 DEF WindowsAreKnown
  <2>3. pc[t] \in Opening => pc'[t] = pc[t]
    BY <1>1, <1>4 DEF Handlers, Opening
  <2> QED BY <1>3, <2>1, <2>2, <2>3
<1> QED BY <1>5, <1>7, <1>8

(* Saving, cancelling and the close of a browser.                          *)
LEMMA ClosingKeepsInv ==
  ASSUME ConnectionsInv, NEW h \in Handlers,
         (h \in Requests /\ Capture(h)) \/ CloseBrowser(h)
  PROVE  ConnectionsInv'
<1> USE DEF ConnectionsInv
<1>1. target[h] \in Sessions /\ pc[h] \in {"capturing", "closing"}
  BY DEF Capture, CloseBrowser, Opened, TypeOK, Closing
<1>2. /\ pc'[h] \in Closing
      /\ \A g \in Handlers \ {h} : pc'[g] = pc[g]
      /\ pc' \in [Handlers -> Opening \cup Closing \cup {"idle", "starting", "capturing", "done"}]
      /\ UNCHANGED <<registered, age, driver, target, todo>>
  BY DEF Capture, CloseBrowser, Goto, TypeOK, Closing
<1>3. /\ window' \in [Sessions -> BOOLEAN] /\ sealed' \in Sessions \cup {None}
      /\ \A t \in Sessions : window'[t] => window[t]
  BY <1>1 DEF Capture, CloseBrowser, TypeOK
<1>4. TypeOK'
  BY <1>2, <1>3 DEF TypeOK
<1>5. \A t \in Sessions : pc[t] \in Opening \cup {"done"} => pc'[t] = pc[t]
  BY <1>1, <1>2 DEF Handlers, Opening
<1>6. Opened'
  BY <1>1, <1>2, <1>5, ConnectionsAssumption DEF Opened, TypeOK
<1>7. WindowsAreKnown'
  BY <1>2, <1>3, <1>5 DEF WindowsAreKnown
<1> QED BY <1>4, <1>6, <1>7

(* What users, time and the API process do.                                *)
LEMMA OthersKeepInv ==
  ASSUME ConnectionsInv,
         \/ \E s \in Sessions : PostNew(s) \/ UserCloses(s)
         \/ \E r \in Requests, s \in Sessions : PostSave(r, s) \/ PostCancel(r, s)
         \/ Tick \/ ApiRestart \/ Delete
  PROVE  ConnectionsInv'
<1> USE DEF ConnectionsInv
<1>1. ASSUME NEW s \in Sessions, PostNew(s) PROVE ConnectionsInv'
  <2> DEFINE stale == {t \in registered : age[t] > TTL}
  <2>1. stale \in SUBSET Sessions /\ \A t \in stale : pc[t] = "done"
    BY DEF TypeOK, Opened
  <2>2. pc[s] = "idle" /\ ReapOrStart(s, stale) /\ UNCHANGED <<registered, age, driver, window, sealed>>
    BY <1>1 DEF PostNew
  <2> HIDE DEF stale
  <2>3. /\ pc' \in [Handlers -> Opening \cup Closing \cup {"idle", "starting", "capturing", "done"}]
        /\ target' \in [Handlers -> Sessions \cup {None}]
        /\ todo' \in [Handlers -> SUBSET Sessions]
        /\ \A h \in Handlers \ {s} : pc'[h] = pc[h]
        /\ \A h \in Handlers : target'[h] # None => pc'[target'[h]] = "done"
        /\ \A h \in Handlers : \A t \in todo'[h] : pc'[t] = "done"
        /\ \A h \in Handlers : pc'[h] \in Closing \cup {"capturing"} => target'[h] # None
    BY <2>1, <2>2, ReapOrStartKeeps
  <2>4. TypeOK'
    BY <2>2, <2>3 DEF TypeOK
  <2>5. \A t \in Sessions : pc[t] \in Opening \cup {"done"} => pc'[t] = pc[t]
    BY <2>2, <2>3 DEF Handlers, Opening
  <2>6. Opened'
    BY <2>2, <2>3, <2>5 DEF Opened, TypeOK
  <2>7. WindowsAreKnown'
    BY <2>2, <2>5 DEF WindowsAreKnown
  <2> QED BY <2>4, <2>6, <2>7
<1>2. ASSUME NEW s \in Sessions, UserCloses(s) PROVE ConnectionsInv'
  <2>1. TypeOK' /\ Opened'
    BY <1>2 DEF UserCloses, TypeOK, Opened
  <2>2. WindowsAreKnown'
    BY <1>2 DEF UserCloses, TypeOK, WindowsAreKnown
  <2> QED BY <2>1, <2>2
<1>3. ASSUME NEW r \in Requests, NEW s \in Sessions, PostSave(r, s) \/ PostCancel(r, s)
      PROVE  ConnectionsInv'
  <2>1. /\ s \in registered /\ pc[r] = "idle" /\ r \in Handlers
        /\ target' = [target EXCEPT ![r] = s]
        /\ UNCHANGED <<registered, age, driver, window, todo, sealed>>
    BY <1>3 DEF PostSave, PostCancel, Handlers
  <2>2. /\ pc'[r] \in {"capturing", "closing"} /\ \A h \in Handlers \ {r} : pc'[h] = pc[h]
        /\ pc' \in [Handlers -> Opening \cup Closing \cup {"idle", "starting", "capturing", "done"}]
    BY <1>3, <2>1 DEF PostSave, PostCancel, Goto, TypeOK, Closing
  <2>3. \A t \in Sessions : pc'[t] = pc[t]
    BY <2>1, <2>2, ConnectionsAssumption DEF Handlers
  <2>4. TypeOK'
    BY <2>1, <2>2 DEF TypeOK
  <2>5. target'[r] = s /\ \A h \in Handlers \ {r} : target'[h] = target[h]
    BY <2>1 DEF TypeOK
  <2>6. Opened'
    BY <2>1, <2>2, <2>3, <2>5, ConnectionsAssumption DEF Opened, TypeOK
  <2>7. WindowsAreKnown'
    BY <2>1, <2>3 DEF WindowsAreKnown
  <2> QED BY <2>4, <2>6, <2>7
<1>4. CASE Tick
  <2>1. UNCHANGED <<registered, driver, window, pc, target, todo, sealed>>
    BY <1>4 DEF Tick
  <2>2. age' \in [Sessions -> 0..(TTL + 1)]
    BY <1>4, ConnectionsAssumption DEF Tick, TypeOK
  <2> QED BY <2>1, <2>2 DEF TypeOK, Opened, WindowsAreKnown
<1>5. CASE ApiRestart
  <2>1. TypeOK'
    BY <1>5 DEF ApiRestart, TypeOK
  <2>2. Opened'
    BY <1>5, ConnectionsAssumption DEF ApiRestart, Opened, Closing
  <2>3. WindowsAreKnown'
    BY <1>5 DEF ApiRestart, WindowsAreKnown
  <2> QED BY <2>1, <2>2, <2>3
<1>6. CASE Delete
  BY <1>6 DEF Delete, TypeOK, Opened, WindowsAreKnown
<1> QED BY <1>1, <1>2, <1>3, <1>4, <1>5, <1>6

(* The invariant over any step.                                            *)
LEMMA ConnectionsStep == ConnectionsInv /\ [Next]_vars => ConnectionsInv'
<1> SUFFICES ASSUME ConnectionsInv, [Next]_vars PROVE ConnectionsInv'
  OBVIOUS
<1>1. CASE \E h \in Handlers : HandlerStep(h)
  BY <1>1, OpeningKeepsInv, ClosingKeepsInv, StopDriverKeepsInv DEF HandlerStep
<1>2. CASE \/ \E s \in Sessions : PostNew(s) \/ UserCloses(s)
           \/ \E r \in Requests, s \in Sessions : PostSave(r, s) \/ PostCancel(r, s)
           \/ Tick \/ ApiRestart \/ Delete
  BY <1>2, OthersKeepInv
<1>3. CASE UNCHANGED vars
  BY <1>3 DEF vars, ConnectionsInv, TypeOK, Opened, WindowsAreKnown
<1> QED BY <1>1, <1>2, <1>3 DEF Next
-----------------------------------------------------------------------------
(* Every window can be found by somebody who closes it, and whoever closes *)
(* a session has one that was opened.                                      *)
THEOREM ConnectionsInductive == Spec => []ConnectionsInv
<1>1. Init => ConnectionsInv
  BY ConnectionsAssumption DEF Init, ConnectionsInv, TypeOK, Opened, WindowsAreKnown, Closing
<1>2. ConnectionsInv /\ [Next]_vars => ConnectionsInv'
  BY ConnectionsStep
<1> QED BY <1>1, <1>2, PTL DEF Spec

(* As long as a driver or a Chromium runs, its session is registered or    *)
(* still being opened.                                                     *)
THEOREM NoStrayWindow == Spec => []WindowsAreKnown
<1>1. ConnectionsInv => WindowsAreKnown
  BY DEF ConnectionsInv
<1> QED BY <1>1, ConnectionsInductive, PTL

(* A save that comes back after its session was cancelled or reaped seals  *)
(* nothing: its window is gone.                                            *)
THEOREM SealedOnlyFromRegistered == Spec => NothingSealedAfterwards
<1> DEFINE Step == sealed' \in {sealed, None} \/ sealed' \in registered
<1>1. ConnectionsInv /\ [Next]_vars => [Step]_vars
  <2> SUFFICES ASSUME ConnectionsInv, [Next]_vars PROVE [Step]_vars
    OBVIOUS
  <2>1. CASE \E h \in Handlers : h \in Requests /\ Capture(h)
    <3> PICK r \in Requests : Capture(r)
      BY <2>1
    <3>1. target[r] \in Sessions /\ pc[target[r]] = "done"
      BY DEF Capture, ConnectionsInv, TypeOK, Opened, Handlers
    <3>2. window[target[r]] => target[r] \in registered
      BY <3>1 DEF ConnectionsInv, WindowsAreKnown, Opening
    <3> QED BY <3>2 DEF Capture
  <2>2. CASE sealed' \in {sealed, None}
    BY <2>2
  <2>3. [Next]_vars => sealed' \in {sealed, None} \/ \E h \in Handlers : h \in Requests /\ Capture(h)
    BY DEF Next, vars, HandlerStep, Start, Launch, Register, OpeningRaises, Abandon, CloseBrowser,
       StopDriver, PostNew, UserCloses, PostSave, PostCancel, Tick, ApiRestart, Delete
  <2> QED BY <2>1, <2>2, <2>3
<1> QED BY <1>1, ConnectionsInductive, PTL DEF Spec, NothingSealedAfterwards

(***************************************************************************)
(* Registry, handlers and windows stay in their types.                     *)
(***************************************************************************)
THEOREM ConnectionsTypeCorrect == Spec => []TypeOK
<1>1. ConnectionsInv => TypeOK
  BY DEF ConnectionsInv
<1> QED BY <1>1, ConnectionsInductive, PTL

(***************************************************************************)
(* A session that was saved, cancelled, reaped or given up is over for     *)
(* good: no handler that was still at work on it opens its window, starts  *)
(* its driver or registers it again.                                       *)
(***************************************************************************)
Over(s) == pc[s] = "done" /\ s \notin registered /\ ~driver[s] /\ ~window[s]

THEOREM ClosedForGood ==
  Spec => [][\A s \in Sessions : pc[s] = "done" /\ s \notin registered => Over(s)']_vars
<1> DEFINE Step == \A s \in Sessions : pc[s] = "done" /\ s \notin registered => Over(s)'
<1>1. ASSUME ConnectionsInv, Next PROVE Step
  <2> SUFFICES ASSUME NEW s \in Sessions, pc[s] = "done", s \notin registered
               PROVE  pc'[s] = "done" /\ s \notin registered' /\ ~driver'[s] /\ ~window'[s]
    BY DEF Over
  <2>1. ~driver[s] /\ ~window[s]
    BY <1>1 DEF ConnectionsInv, WindowsAreKnown, Opening
  <2>2. /\ pc \in [Handlers -> Opening \cup Closing \cup {"idle", "starting", "capturing", "done"}]
        /\ driver \in [Sessions -> BOOLEAN] /\ window \in [Sessions -> BOOLEAN]
        /\ s \in Handlers
    BY <1>1 DEF ConnectionsInv, TypeOK, Handlers
  <2> USE DEF Goto, ReapOrStart, Stop
  <2>3. ASSUME NEW t \in Sessions, Start(t) \/ Launch(t) \/ Register(t) \/ OpeningRaises(t) \/ Abandon(t)
        PROVE  pc'[s] = "done" /\ s \notin registered' /\ ~driver'[s] /\ ~window'[s]
    BY <2>1, <2>2, <2>3 DEF Start, Launch, Register, OpeningRaises, Abandon
  <2>4. ASSUME NEW h \in Handlers, Capture(h) \/ CloseBrowser(h) \/ StopDriver(h)
        PROVE  pc'[s] = "done" /\ s \notin registered' /\ ~driver'[s] /\ ~window'[s]
    BY <2>1, <2>2, <2>4 DEF Capture, CloseBrowser, StopDriver
  <2>5. ASSUME NEW t \in Sessions, PostNew(t) \/ UserCloses(t)
        PROVE  pc'[s] = "done" /\ s \notin registered' /\ ~driver'[s] /\ ~window'[s]
    BY <2>1, <2>2, <2>5 DEF PostNew, UserCloses
  <2>6. ASSUME NEW r \in Requests, NEW t \in Sessions, PostSave(r, t) \/ PostCancel(r, t)
        PROVE  pc'[s] = "done" /\ s \notin registered' /\ ~driver'[s] /\ ~window'[s]
    BY <2>1, <2>2, <2>6, ConnectionsAssumption DEF PostSave, PostCancel
  <2>7. CASE Tick \/ ApiRestart \/ Delete
    BY <2>1, <2>2, <2>7, ConnectionsAssumption DEF Tick, ApiRestart, Delete
  <2> QED BY <1>1, <2>3, <2>4, <2>5, <2>6, <2>7 DEF Next, HandlerStep
<1>2. ConnectionsInv /\ [Next]_vars => [Step]_vars
  BY <1>1
<1> QED BY <1>2, ConnectionsInductive, PTL DEF Spec
=============================================================================
