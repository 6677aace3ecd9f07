------------------------------- MODULE EventBus -------------------------------
(***************************************************************************)
(* api/ws.py with the two WebSocket routes in front of it (routes/         *)
(* events.py, routes/screencast.py) and its publishers: the audit logs of  *)
(* the API process, which call publish() after each INSERT (the ones of    *)
(* agents have no on_append), and the screencasters of its samples.  A     *)
(* client has a bounded queue and a handler that moves one event at a time *)
(* from it to the socket.                                                  *)
(***************************************************************************)
EXTENDS AuditChain

CONSTANTS
  Api,            \* the process the bus is in
  EventClients,   \* clients of /api/events
  FrameClients,   \* clients of /api/screencast
  WantedRun,      \* WantedRun[c]: the run_id of an events client, or None
  WatchedSample,  \* WatchedSample[c]: the sample_id of a screencast client
  Samples,        \* samples that are screencast
  Capacity,       \* maxsize of a queue
  MaxFrames       \* bound: frames published

Clients == EventClients \cup FrameClients

(* Run or sample, whether it is a frame, and (history) its place among all. *)
Event == [of : Runs \cup Samples, frame : BOOLEAN, at : Nat]

ASSUME BusAssumption ==
  /\ Capacity \in Nat \ {0}
  /\ MaxFrames \in Nat
  /\ Api \in Processes
  /\ None \notin Event

VARIABLES
  conn,   \* conn[c]: "new", "on" (subscribed) or "off"
  gone,   \* gone[c]: the client has left; the handler learns it by sending
  queue,  \* queue[c]: the asyncio.Queue of c
  hand,   \* hand[c]: the event the handler is sending, or None
  got,    \* got[c]: the last event sent to c, or None
  frames, \* frames published so far
  clock,  \* history: events published so far
  last    \* history: last[c], the last event published to the queue of c

busVars == <<conn, gone, queue, hand, got, frames, clock, last>>
vars == <<auditVars, busVars>>

TypeOK ==
  /\ AuditTypeOK
  /\ conn \in [Clients -> {"new", "on", "off"}]
  /\ gone \in [Clients -> BOOLEAN]
  /\ queue \in [Clients -> Seq(Event)]
  /\ \A c \in Clients : Len(queue[c]) <= Capacity
  /\ {hand, got, last} \subseteq [Clients -> Event \cup {None}]
  /\ frames \in 0..MaxFrames /\ clock \in Nat

Nothing == [c \in Clients |-> None]

Init ==
  /\ AuditInit
  /\ conn = [c \in Clients |-> "new"]
  /\ gone = [c \in Clients |-> FALSE]
  /\ queue = [c \in Clients |-> <<>>]
  /\ hand = Nothing /\ got = Nothing /\ last = Nothing
  /\ frames = 0 /\ clock = 0
-----------------------------------------------------------------------------
(* Fault: an event that finds the queue full is dropped. *)
PutOrDrop(q, e) == IF Len(q) < Capacity THEN Append(q, e) ELSE q

(* put_nowait(), after a get_nowait() when the queue is full. *)
Put(q, e) == Append(IF Len(q) < Capacity THEN q ELSE Tail(q), e)

(* A frame has no run_id: it goes to the subscribers of everything only,   *)
(* which the screencast clients are.                                       *)
Targets(e) ==
  {c \in Clients : /\ conn[c] = "on"
                   /\ \/ c \in FrameClients
                      \/ WantedRun[c] = None
                      \/ ~e.frame /\ WantedRun[c] = e.of}

Publish(of, isFrame) ==
  LET e == [of |-> of, frame |-> isFrame, at |-> clock + 1] IN
  /\ queue' = [c \in Clients |-> IF c \in Targets(e) THEN Put(queue[c], e) ELSE queue[c]]
  /\ last' = [c \in Clients |-> IF c \in Targets(e) THEN e ELSE last[c]]
  /\ clock' = clock + 1

(* append() of AuditLog: on_append is called once the row is in.           *)
AppendRow(w) ==
  /\ Insert(w)
  /\ ProcessOf[w] = Api
  /\ Publish(RunOf[w], FALSE)
  /\ UNCHANGED <<conn, gone, hand, got, frames>>

AppendUnseen(w) == Insert(w) /\ ProcessOf[w] # Api /\ UNCHANGED busVars

ReadHash(w) == Select(w) /\ UNCHANGED busVars
AppendFails(w) == InsertRaises(w) /\ UNCHANGED busVars

PublishFrame(s) ==
  /\ frames < MaxFrames
  /\ frames' = frames + 1
  /\ Publish(s, TRUE)
  /\ UNCHANGED <<auditVars, conn, gone, hand, got>>

Subscribe(c) ==
  /\ conn[c] = "new"
  /\ conn' = [conn EXCEPT ![c] = "on"]
  /\ UNCHANGED <<auditVars, gone, queue, hand, got, frames, clock, last>>

Leave(c) ==
  /\ conn[c] = "on" /\ ~gone[c]
  /\ gone' = [gone EXCEPT ![c] = TRUE]
  /\ UNCHANGED <<auditVars, conn, queue, hand, got, frames, clock, last>>

(* The screencast route skips what is not a frame of its sample. *)
Forwards(c, e) == c \in EventClients \/ (e.frame /\ e.of = WatchedSample[c])

Take(c) ==
  /\ conn[c] = "on" /\ hand[c] = None /\ queue[c] # <<>>
  /\ queue' = [queue EXCEPT ![c] = Tail(@)]
  /\ hand' = IF Forwards(c, Head(queue[c])) THEN [hand EXCEPT ![c] = Head(queue[c])] ELSE hand
  /\ UNCHANGED <<auditVars, conn, gone, got, frames, clock, last>>

Send(c) ==
  /\ conn[c] = "on" /\ hand[c] # None /\ ~gone[c]
  /\ got' = [got EXCEPT ![c] = hand[c]]
  /\ hand' = [hand EXCEPT ![c] = None]
  /\ UNCHANGED <<auditVars, conn, gone, queue, frames, clock, last>>

(* unsubscribe() and close(): the queue and the socket of C are no more. *)
Drop(C) ==
  /\ conn' = [c \in Clients |-> IF c \in C THEN "off" ELSE conn[c]]
  /\ queue' = [c \in Clients |-> IF c \in C THEN <<>> ELSE queue[c]]
  /\ hand' = [c \in Clients |-> IF c \in C THEN None ELSE hand[c]]
  /\ got' = [c \in Clients |-> IF c \in C THEN None ELSE got[c]]
  /\ last' = [c \in Clients |-> IF c \in C THEN None ELSE last[c]]

(* Fault: a timeout of the wait sends nothing, as in screencast.py. *)
SilentRaise(c) ==
  /\ conn[c] = "on" /\ gone[c]
  /\ hand[c] # None
  /\ Drop({c})
  /\ UNCHANGED <<auditVars, gone, frames, clock>>

(* To send to a client that has left raises, and the handler unsubscribes: *)
(* an event, or the ping of events.py when none came for 30 seconds.       *)
SendRaises(c) ==
  /\ conn[c] = "on" /\ gone[c]
  /\ hand[c] # None \/ (c \in EventClients /\ queue[c] = <<>>)
  /\ Drop({c})
  /\ UNCHANGED <<auditVars, gone, frames, clock>>

(* The API process dies, its bus and its sockets with it; or an agent does. *)
CrashApi ==
  /\ Crash(Api)
  /\ Drop(Clients)
  /\ gone' = [c \in Clients |-> TRUE]
  /\ UNCHANGED <<frames, clock>>

CrashAgent(p) == Crash(p) /\ UNCHANGED busVars

Handler(c) == Take(c) \/ Send(c) \/ SendRaises(c)

Next ==
  \/ \E w \in Writers :
       ReadHash(w) \/ AppendRow(w) \/ AppendUnseen(w) \/ AppendFails(w)
  \/ \E s \in Samples : PublishFrame(s)
  \/ \E c \in Clients : Subscribe(c) \/ Leave(c) \/ Handler(c)
  \/ CrashApi \/ \E p \in Processes \ {Api} : CrashAgent(p)

Spec == Init /\ [][Next]_vars

(* A handler that has something to send is scheduled, and a client that is *)
(* there reads its socket, however slowly.                                 *)
FairSpec == Spec /\ \A c \in Clients : WF_vars(Handler(c))
-----------------------------------------------------------------------------
OnTheWay(c) == (IF hand[c] = None THEN <<>> ELSE <<hand[c]>>) \o queue[c]

(***************************************************************************)
(* A slow subscriber misses events but never the newest, and sees what it  *)
(* sees in the order in which it was published: what is on its way to it   *)
(* is ascending, later than what it got, and ends with the last event      *)
(* published to it that it has not passed yet (ws.py: "rather than drop    *)
(* current event").                                                        *)
(***************************************************************************)
NewestInOrder ==
  \A c \in {x \in Clients : conn[x] = "on"} :
    LET way == OnTheWay(c) IN
    /\ \A i \in 1..(Len(way) - 1) : way[i].at < way[i + 1].at
    /\ way # <<>> /\ got[c] # None => got[c].at < way[1].at
    /\ queue[c] # <<>> => queue[c][Len(queue[c])] = last[c]
    /\ c \in EventClients /\ way = <<>> => got[c] = last[c]

(***************************************************************************)
(* Every events client gets to the last event published to it, though      *)
(* nothing more is ever published, and one that has left is unsubscribed   *)
(* (events.py: "so we can ping the client periodically and detect          *)
(* disconnects"): neither a stale view nor a dead subscription lasts.      *)
(***************************************************************************)
ClientsAreServed ==
  \A c \in EventClients :
    []<>(conn[c] = "on" => ~gone[c] /\ got[c] = last[c])
=============================================================================
