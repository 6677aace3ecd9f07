----------------------------- MODULE Connections -----------------------------
(***************************************************************************)
(* api/routes/connections.py: headed login windows, one Playwright driver  *)
(* and one Chromium each, that a user opens, saves or cancels through      *)
(* requests to the API, or simply closes.  A handler is a coroutine: its   *)
(* steps are what it does between two awaits, and handlers of the same     *)
(* session overlap.  A session is named after the POST that opens it.      *)
(***************************************************************************)
EXTENDS Naturals

CONSTANTS
  Sessions,  \* POSTs to /ui/connections/new
  Requests,  \* handlers of save and cancel, one request after the other
  TTL,       \* _SESSION_TTL_SECONDS, in ticks
  None

ASSUME ConnectionsAssumption ==
  TTL \in Nat /\ None \notin Sessions /\ Sessions \cap Requests = {}

Handlers == Sessions \cup Requests

VARIABLES
  registered, \* keys of _SESSIONS
  age,        \* age[s]: ticks since created_at
  driver,     \* driver[s]: the Playwright driver of s runs
  window,     \* window[s]: the Chromium of s is open
  pc,         \* pc[h]: the await handler h is in
  target,     \* target[h]: session that h saves or closes
  todo,       \* todo[h]: stale sessions a POST has still to close
  sealed      \* session whose storage_state was sealed last, or None

vars == <<registered, age, driver, window, pc, target, todo, sealed>>

Opening == {"launching", "loading", "abandoning"}
Closing == {"closing", "stopping"}

TypeOK ==
  /\ registered \subseteq Sessions
  /\ age \in [Sessions -> 0..(TTL + 1)]
  /\ {driver, window} \subseteq [Sessions -> BOOLEAN]
  /\ pc \in [Handlers -> Opening \cup Closing \cup {"idle", "starting", "capturing", "done"}]
  /\ target \in [Handlers -> Sessions \cup {None}]
  /\ todo \in [Handlers -> SUBSET Sessions]
  /\ sealed \in Sessions \cup {None}

Init ==
  /\ registered = {} /\ sealed = None
  /\ age = [s \in Sessions |-> 0]
  /\ driver = [s \in Sessions |-> FALSE]
  /\ window = [s \in Sessions |-> FALSE]
  /\ pc = [h \in Handlers |-> "idle"]
  /\ target = [h \in Handlers |-> None]
  /\ todo = [h \in Handlers |-> {}]
-----------------------------------------------------------------------------
Goto(h, where) == pc' = [pc EXCEPT ![h] = where]

(* The loop of _reap_stale() over what is left of its snapshot, and the    *)
(* start of the driver after it.                                           *)
ReapOrStart(s, stale) ==
  \/ /\ stale = {}
     /\ Goto(s, "starting")
     /\ UNCHANGED <<target, todo>>
  \/ \E t \in stale :
       /\ Goto(s, "closing")
       /\ target' = [target EXCEPT ![s] = t]
       /\ todo' = [todo EXCEPT ![s] = stale \ {t}]

PostNew(s) ==
  /\ pc[s] = "idle"
  /\ ReapOrStart(s, {t \in registered : age[t] > TTL})
  /\ UNCHANGED <<registered, age, driver, window, sealed>>

(* async_playwright().start() returns, or raises out of the handler. *)
Start(s) ==
  /\ pc[s] = "starting"
  /\ \/ driver' = [driver EXCEPT ![s] = TRUE] /\ Goto(s, "launching")
     \/ Goto(s, "done") /\ UNCHANGED driver
  /\ UNCHANGED <<registered, age, window, target, todo, sealed>>

Launch(s) ==
  /\ pc[s] = "launching"
  /\ window' = [window EXCEPT ![s] = TRUE]
  /\ Goto(s, "loading")
  /\ UNCHANGED <<registered, age, driver, target, todo, sealed>>

(* page.goto() returns: the session is registered. *)
Register(s) ==
  /\ pc[s] = "loading" /\ window[s]
  /\ registered' = registered \cup {s}
  /\ Goto(s, "done")
  /\ UNCHANGED <<age, driver, window, target, todo, sealed>>

(* Fault: a launch or a goto that raises leaves its driver behind. *)
RaiseAndForget(s) ==
  /\ pc[s] \in {"launching", "loading"}
  /\ Goto(s, "done")
  /\ UNCHANGED <<registered, age, driver, window, target, todo, sealed>>

(* launch, new_page or goto raises, always if the user has closed the      *)
(* window meanwhile: pw.stop(), and no session.                            *)
OpeningRaises(s) ==
  /\ pc[s] \in {"launching", "loading"}
  /\ Goto(s, "abandoning")
  /\ UNCHANGED <<registered, age, driver, window, target, todo, sealed>>

(* Chromium goes with its driver. *)
Stop(s) ==
  /\ driver' = [driver EXCEPT ![s] = FALSE]
  /\ window' = [window EXCEPT ![s] = FALSE]

Abandon(s) ==
  /\ pc[s] = "abandoning"
  /\ Stop(s)
  /\ Goto(s, "done")
  /\ UNCHANGED <<registered, age, target, todo, sealed>>
-----------------------------------------------------------------------------
(* Save and cancel of a session that is not registered only redirect. *)
PostSave(r, s) ==
  /\ pc[r] = "idle" /\ s \in registered
  /\ Goto(r, "capturing")
  /\ target' = [target EXCEPT ![r] = s]
  /\ UNCHANGED <<registered, age, driver, window, todo, sealed>>

PostCancel(r, s) ==
  /\ pc[r] = "idle" /\ s \in registered
  /\ Goto(r, "closing")
  /\ target' = [target EXCEPT ![r] = s]
  /\ UNCHANGED <<registered, age, driver, window, todo, sealed>>

(* storage_state() returns or, for a window that is gone, raises; the      *)
(* state is sealed, or sealing raises; the session is closed all the same. *)
Capture(r) ==
  /\ pc[r] = "capturing"
  /\ \/ window[target[r]] /\ sealed' = target[r]
     \/ UNCHANGED sealed
  /\ Goto(r, "closing")
  /\ UNCHANGED <<registered, age, driver, window, target, todo>>

(* Fault: _close_session() forgets the session first. *)
PopAndClose(h) ==
  /\ pc[h] = "closing"
  /\ registered' = registered \ {target[h]}
  /\ Goto(h, "stopping")
  /\ UNCHANGED <<age, driver, window, target, todo, sealed>>

(* _close_session(): browser.close() returns, or raises and is ignored;    *)
CloseBrowser(h) ==
  /\ pc[h] = "closing"
  /\ \/ window' = [window EXCEPT ![target[h]] = FALSE]
     \/ UNCHANGED window
  /\ Goto(h, "stopping")
  /\ UNCHANGED <<registered, age, driver, target, todo, sealed>>

(* Fault: what the first close of a snapshot raises ends the request. *)
StopAndLeave(h) ==
  /\ pc[h] = "stopping"
  /\ Stop(target[h])
  /\ registered' = registered \ {target[h]}
  /\ Goto(h, IF h \in Requests THEN "idle" ELSE "done")
  /\ target' = [target EXCEPT ![h] = None]
  /\ UNCHANGED <<age, todo, sealed>>

(* pw.stop() does, and the session is forgotten. *)
StopDriver(h) ==
  /\ pc[h] = "stopping"
  /\ Stop(target[h])
  /\ registered' = registered \ {target[h]}
  /\ \/ /\ h \in Requests
        /\ Goto(h, "idle")
        /\ target' = [target EXCEPT ![h] = None]
        /\ UNCHANGED todo
     \/ h \in Sessions /\ ReapOrStart(h, todo[h])
  /\ UNCHANGED <<age, sealed>>
-----------------------------------------------------------------------------
(* The user closes the window by hand; its session stays registered. *)
UserCloses(s) ==
  /\ window[s]
  /\ window' = [window EXCEPT ![s] = FALSE]
  /\ UNCHANGED <<registered, age, driver, pc, target, todo, sealed>>

Tick ==
  /\ age' = [s \in Sessions |->
       IF s \in registered /\ age[s] <= TTL THEN age[s] + 1 ELSE age[s]]
  /\ UNCHANGED <<registered, driver, window, pc, target, todo, sealed>>

(* The API goes down, and its drivers with it. *)
ApiRestart ==
  /\ registered' = {}
  /\ driver' = [s \in Sessions |-> FALSE]
  /\ window' = [s \in Sessions |-> FALSE]
  /\ pc' = [h \in Handlers |-> IF h \in Requests \/ pc[h] = "idle" THEN "idle" ELSE "done"]
  /\ target' = [h \in Handlers |-> None]
  /\ todo' = [h \in Handlers |-> {}]
  /\ UNCHANGED <<age, sealed>>

(* delete_connection() and its form. *)
Delete ==
  /\ sealed # None
  /\ sealed' = None
  /\ UNCHANGED <<registered, age, driver, window, pc, target, todo>>

HandlerStep(h) ==
  \/ h \in Sessions /\ (Start(h) \/ Launch(h) \/ Register(h) \/ OpeningRaises(h) \/ Abandon(h))
  \/ h \in Requests /\ Capture(h)
  \/ CloseBrowser(h) \/ StopDriver(h)

Next ==
  \/ \E h \in Handlers : HandlerStep(h)
  \/ \E s \in Sessions : PostNew(s) \/ UserCloses(s)
  \/ \E r \in Requests, s \in Sessions : PostSave(r, s) \/ PostCancel(r, s)
  \/ Tick \/ ApiRestart \/ Delete

Spec == Init /\ [][Next]_vars

(* Playwright's calls return; nobody has to send another request. *)
FairSpec == Spec /\ \A h \in Handlers : WF_vars(HandlerStep(h))
-----------------------------------------------------------------------------
(***************************************************************************)
(* No window without somebody who can close it: as long as a driver or a   *)
(* Chromium runs, its session is registered, for save, cancel or the next  *)
(* reap to find, or the POST that opens it is still at work (connections.  *)
(* py: "so dangling Chromium windows can't accumulate").                   *)
(***************************************************************************)
WindowsAreKnown ==
  \A s \in Sessions : driver[s] \/ window[s] => s \in registered \/ pc[s] \in Opening

(***************************************************************************)
(* What has been cancelled, reaped or saved is over: nothing is sealed     *)
(* from a session that is no longer registered, though a save that found   *)
(* it may still be waiting for its storage_state.                          *)
(***************************************************************************)
NothingSealedAfterwards ==
  [][sealed' \in {sealed, None} \/ sealed' \in registered]_vars

(***************************************************************************)
(* Who starts to close a session finishes, whatever raises and whoever     *)
(* closes it too: saved, cancelled, and every stale session in the         *)
(* snapshot of a POST.                                                     *)
(***************************************************************************)
BeingClosed(s) == \E h \in Handlers : target[h] = s \/ s \in todo[h]

ClosingEnds ==
  \A s \in Sessions :
    BeingClosed(s) ~> (s \notin registered /\ ~driver[s] /\ ~window[s])
=============================================================================
