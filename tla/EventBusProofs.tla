--------------------------- MODULE EventBusProofs ---------------------------
(***************************************************************************)
(* The audit chain of a run forks only under appends of two processes that *)
(* overlap, for every number of writers, processes, runs and rows, deaths  *)
(* and failed appends; and so it does below the event bus, which loses     *)
(* events to a slow client but neither their order nor the newest.         *)
(***************************************************************************)
EXTENDS EventBus, TLAPS

(* A writer has a run and a process, and a hash that is read is a number.  *)
LEMMA WriterFacts ==
  ASSUME AuditTypeOK, NEW w \in Writers
  PROVE  /\ RunOf[w] \in Runs /\ ProcessOf[w] \in Processes
         /\ rows[RunOf[w]] \in Seq(Row) /\ Len(rows[RunOf[w]]) \in Nat
         /\ DOMAIN rows[RunOf[w]] = 1..Len(rows[RunOf[w]])
         /\ LastHash(rows[RunOf[w]]) = Len(rows[RunOf[w]])
<1>1. RunOf[w] \in Runs /\ ProcessOf[w] \in Processes
  BY DEF Runs, Processes
<1>2. rows[RunOf[w]] \in Seq(Row)
  BY <1>1 DEF AuditTypeOK
<1>3. ASSUME NEW c \in Seq(Row)
      PROVE  Len(c) \in Nat /\ DOMAIN c = 1..Len(c) /\ LastHash(c) = Len(c)
  BY <1>3 DEF LastHash, Genesis
<1> QED BY <1>1, <1>2, <1>3

(* A step that inserts nothing, after which the writers that are still in  *)
(* append() hold what they held.                                           *)
LEMMA FewerAppends ==
  ASSUME AuditInv, AuditTypeOK', UNCHANGED rows,
         \A w \in Writers : prev'[w] # None => prev'[w] = prev[w]
  PROVE  AuditInv'
<1> USE DEF AuditInv
<1>1. AppendsExclude' /\ PrevWasNewest' /\ ForksNeedOverlap'
  BY DEF AppendsExclude, PrevWasNewest, ForksNeedOverlap, InAppend
<1> QED BY <1>1

(* The SELECT: the newest hash, while no other object of the process       *)
(* appends.                                                                *)
LEMMA SelectKeepsAuditInv ==
  ASSUME AuditInv, NEW w \in Writers, Select(w)
  PROVE  AuditInv'
<1> USE DEF AuditInv
<1> DEFINE n == Len(rows[RunOf[w]])
<1>1. /\ n \in Nat /\ DOMAIN rows[RunOf[w]] = 1..n
      /\ LastHash(rows[RunOf[w]]) = n
  BY WriterFacts
<1>2. /\ prev' = [prev EXCEPT ![w] = n] /\ rows' = rows
      /\ \A v \in Writers : ProcessOf[v] = ProcessOf[w] => ~InAppend(v)
  BY <1>1 DEF Select
<1>3. prev'[w] = n /\ \A v \in Writers \ {w} : prev'[v] = prev[v]
  BY <1>2 DEF AuditTypeOK
<1>4. AuditTypeOK'
  BY <1>1, <1>2 DEF AuditTypeOK
<1>5. AppendsExclude'
  BY <1>2, <1>3 DEF AppendsExclude, InAppend
<1>6. PrevWasNewest'
  <2> SUFFICES ASSUME NEW v \in Writers, prev'[v] # None,
                      NEW j \in DOMAIN rows[RunOf[v]], prev'[v] < j
               PROVE  /\ v \in rows[RunOf[v]][j].during
                      /\ ProcessOf[v] # ProcessOf[rows[RunOf[v]][j].by]
    BY <1>2 DEF PrevWasNewest, InAppend
  <2>1. CASE v = w
    <3>1. j \in 1..n /\ n < j
      BY <1>1, <1>3, <2>1
    <3> QED BY <1>1, <3>1
  <2>2. CASE v # w
    BY <1>3, <2>2 DEF PrevWasNewest, InAppend
  <2> QED BY <2>1, <2>2
<1>7. ForksNeedOverlap'
  BY <1>2 DEF ForksNeedOverlap
<1> QED BY <1>4, <1>5, <1>6, <1>7

(* The INSERT: every other append to the run knows of the new row, and so  *)
(* did the rows it passes over of this one.                                *)
LEMMA InsertKeepsAuditInv ==
  ASSUME AuditInv, NEW w \in Writers, Insert(w)
  PROVE  AuditInv'
<1> USE DEF AuditInv
<1> DEFINE r == RunOf[w]
           c == rows[r]
           n == Len(c)
           d == Append(c, NewRow(w))
<1>1. r \in Runs /\ c \in Seq(Row) /\ n \in Nat /\ DOMAIN c = 1..n
  BY WriterFacts
<1>2. /\ InAppend(w) /\ prev[w] \in Nat
      /\ rows' = [rows EXCEPT ![r] = d] /\ prev' = [prev EXCEPT ![w] = None]
  BY DEF Insert, Release, InAppend, AuditTypeOK
<1>3. /\ NewRow(w) \in Row /\ NewRow(w).prev = prev[w] /\ NewRow(w).by = w
      /\ NewRow(w).during = Appending(r)
  BY <1>2 DEF NewRow, Row, Appending
<1>4. /\ d \in Seq(Row) /\ DOMAIN d = 1..(n + 1) /\ d[n + 1] = NewRow(w)
      /\ \A k \in 1..n : d[k] = c[k]
  <2>1. ASSUME NEW s \in Seq(Row), NEW x \in Row
        PROVE  /\ Append(s, x) \in Seq(Row) /\ DOMAIN Append(s, x) = 1..(Len(s) + 1)
               /\ Append(s, x)[Len(s) + 1] = x
               /\ \A k \in 1..Len(s) : Append(s, x)[k] = s[k]
    OBVIOUS
  <2> QED BY <1>1, <1>3, <2>1
<1> HIDE DEF d
<1>5. rows'[r] = d /\ \A q \in Runs \ {r} : rows'[q] = rows[q]
  BY <1>1, <1>2 DEF AuditTypeOK
<1>6. prev'[w] = None /\ \A v \in Writers \ {w} : prev'[v] = prev[v]
  BY <1>2 DEF AuditTypeOK
<1>7. AuditTypeOK'
  <2>1. rows' \in [Runs -> Seq(Row)]
    BY <1>1, <1>2, <1>4 DEF AuditTypeOK
  <2>2. prev' \in [Writers -> Nat \cup {None}]
    BY <1>2 DEF AuditTypeOK
  <2> QED BY <2>1, <2>2 DEF AuditTypeOK, Row
<1>8. AppendsExclude'
  BY <1>6 DEF AppendsExclude, InAppend
<1>9. PrevWasNewest'
  <2> SUFFICES ASSUME NEW v \in Writers, prev'[v] # None,
                      NEW j \in DOMAIN rows'[RunOf[v]], prev'[v] < j
               PROVE  /\ v \in rows'[RunOf[v]][j].during
                      /\ ProcessOf[v] # ProcessOf[rows'[RunOf[v]][j].by]
    BY DEF PrevWasNewest, InAppend
  <2>1. v # w /\ prev'[v] = prev[v] /\ InAppend(v) /\ RunOf[v] \in Runs
    BY <1>6, WriterFacts DEF InAppend
  <2>2. CASE RunOf[v] # r
    BY <1>5, <2>1, <2>2 DEF PrevWasNewest
  <2>3. CASE RunOf[v] = r /\ j \in 1..n
    BY <1>1, <1>4, <1>5, <2>1, <2>3 DEF PrevWasNewest
  <2>4. CASE RunOf[v] = r /\ j = n + 1
    <3>1. ProcessOf[v] # ProcessOf[w]
      BY <1>2, <2>1 DEF AppendsExclude
    <3>2. v \in Appending(r)
      BY <2>1, <2>4 DEF Appending
    <3> QED BY <1>3, <1>4, <1>5, <2>4, <3>1, <3>2
  <2>5. RunOf[v] = r => j \in 1..n \/ j = n + 1
    BY <1>1, <1>4, <1>5
  <2> QED BY <2>2, <2>3, <2>4, <2>5
<1>10. ForksNeedOverlap'
  <2> SUFFICES ASSUME NEW q \in Runs, NEW j \in DOMAIN rows'[q], NEW k \in DOMAIN rows'[q],
                      rows'[q][k].prev < j, j < k
               PROVE  /\ rows'[q][k].by \in rows'[q][j].during
                      /\ ProcessOf[rows'[q][k].by] # ProcessOf[rows'[q][j].by]
    BY DEF ForksNeedOverlap
  <2>1. CASE q # r
    BY <1>5, <2>1 DEF ForksNeedOverlap
  <2>2. CASE q = r /\ k \in 1..n
    <3>1. j \in 1..n /\ d[j] = c[j] /\ d[k] = c[k]
      BY <1>1, <1>4, <1>5, <2>2
    <3> QED BY <1>1, <1>5, <2>2, <3>1 DEF ForksNeedOverlap
  <2>3. CASE q = r /\ k = n + 1
    <3>1. j \in 1..n /\ d[j] = c[j] /\ d[k] = NewRow(w)
      BY <1>1, <1>4, <1>5, <2>3
    <3>2. prev[w] < j
      BY <1>3, <1>5, <2>3, <3>1
    <3>3. w \in c[j].during /\ ProcessOf[w] # ProcessOf[c[j].by]
      BY <1>1, <1>2, <3>1, <3>2 DEF PrevWasNewest
    <3> QED BY <1>3, <1>5, <2>3, <3>1, <3>3
  <2>4. q = r => k \in 1..n \/ k = n + 1
    BY <1>1, <1>4, <1>5
  <2> QED BY <2>1, <2>2, <2>3, <2>4
<1> QED BY <1>7, <1>8, <1>9, <1>10

(* The invariant of the audit log over any of its steps.                   *)
LEMMA AuditStep == AuditInv /\ [AuditNext]_auditVars => AuditInv'
<1> SUFFICES ASSUME AuditInv, [AuditNext]_auditVars PROVE AuditInv'
  OBVIOUS
<1>1. ASSUME NEW w \in Writers, Select(w) \/ Insert(w) PROVE AuditInv'
  BY <1>1, SelectKeepsAuditInv, InsertKeepsAuditInv
<1>2. ASSUME NEW w \in Writers, InsertRaises(w) PROVE AuditInv'
  <2>1. /\ UNCHANGED rows /\ AuditTypeOK'
        /\ \A v \in Writers : prev'[v] # None => prev'[v] = prev[v]
    BY <1>2 DEF InsertRaises, Release, AuditInv, AuditTypeOK
  <2> QED BY <2>1, FewerAppends
<1>3. ASSUME NEW p \in Processes, Crash(p) PROVE AuditInv'
  <2>1. /\ UNCHANGED rows /\ AuditTypeOK'
        /\ \A v \in Writers : prev'[v] # None => prev'[v] = prev[v]
    BY <1>3 DEF Crash, AuditInv, AuditTypeOK
  <2> QED BY <2>1, FewerAppends
<1>4. CASE UNCHANGED auditVars
  BY <1>4 DEF auditVars, AuditInv, AuditTypeOK, AppendsExclude, PrevWasNewest, InAppend,
              ForksNeedOverlap
<1> QED BY <1>1, <1>2, <1>3, <1>4 DEF AuditNext

LEMMA AuditStart == AuditInit => AuditInv
<1> SUFFICES ASSUME AuditInit PROVE AuditInv
  OBVIOUS
<1>1. AuditTypeOK
  BY DEF AuditInit, AuditTypeOK
<1>2. AppendsExclude /\ PrevWasNewest /\ ForksNeedOverlap
  BY DEF AuditInit, AppendsExclude, PrevWasNewest, ForksNeedOverlap, InAppend
<1> QED BY <1>1, <1>2 DEF AuditInv
-----------------------------------------------------------------------------
(* Publishing, subscribing and sending leave the audit log alone.          *)
LEMMA BusUsesTheLog == [Next]_vars => [AuditNext]_auditVars
<1> SUFFICES ASSUME [Next]_vars PROVE [AuditNext]_auditVars
  OBVIOUS
<1>1. CASE \E w \in Writers : ReadHash(w) \/ AppendRow(w) \/ AppendUnseen(w) \/ AppendFails(w)
  BY <1>1 DEF ReadHash, AppendRow, AppendUnseen, AppendFails, AuditNext
<1>2. CASE \E s \in Samples : PublishFrame(s)
  BY <1>2 DEF PublishFrame
<1>3. CASE \E c \in Clients : Subscribe(c) \/ Leave(c) \/ Handler(c)
  BY <1>3 DEF Subscribe, Leave, Handler, Take, Send, SendRaises
<1>4. CASE CrashApi \/ \E p \in Processes \ {Api} : CrashAgent(p)
  BY <1>4, BusAssumption DEF CrashApi, CrashAgent, AuditNext
<1>5. CASE UNCHANGED vars
  BY <1>5 DEF vars
<1> QED BY <1>1, <1>2, <1>3, <1>4, <1>5 DEF Next

(* The steps the bus has no part in.                                       *)
LogOnly ==
  \/ \E w \in Writers : ReadHash(w) \/ AppendUnseen(w) \/ AppendFails(w)
  \/ \E p \in Processes \ {Api} : CrashAgent(p)
  \/ UNCHANGED vars

LEMMA LogOnlySteps == LogOnly => UNCHANGED busVars
  BY DEF LogOnly, ReadHash, AppendUnseen, AppendFails, CrashAgent, vars

LEMMA BusSteps ==
  ASSUME [Next]_vars
  PROVE  \/ LogOnly
         \/ \E w \in Writers : AppendRow(w)
         \/ \E s \in Samples : PublishFrame(s)
         \/ \E c \in Clients : Subscribe(c) \/ Leave(c) \/ Handler(c)
         \/ CrashApi
  BY DEF Next, LogOnly

(***************************************************************************)
(* The chain of a run forks only where appends of two processes overlap:   *)
(* a row that passes over others was in the making, by another process,    *)
(* when each of them was inserted.                                         *)
(***************************************************************************)
THEOREM OnlyOverlapForks == AuditSpec => []ForksNeedOverlap
<1>1. AuditInv => ForksNeedOverlap
  BY DEF AuditInv
<1> QED BY <1>1, AuditStart, AuditStep, PTL DEF AuditSpec

(* The bus listens to append() and changes nothing about it: the log below *)
(* it behaves as the log alone may.                                        *)
THEOREM BusRefinesLog == Spec => AuditSpec
<1>1. Init => AuditInit
  BY DEF Init
<1> QED BY <1>1, BusUsesTheLog, PTL DEF Spec, AuditSpec

(* So it is with the event bus on top, whatever its clients do.            *)
THEOREM OnlyOverlapForksBelowTheBus == Spec => []ForksNeedOverlap
  BY BusRefinesLog, OnlyOverlapForks, PTL
-----------------------------------------------------------------------------
(* What a client got (g), has in hand (h), in its queue (q) and was sent   *)
(* last (l), when n events were published; ev: nothing is filtered out.    *)
View(g, h, q, l, n, ev) ==
  /\ \A j, k \in DOMAIN q : j < k => q[j].at < q[k].at
  /\ \A k \in DOMAIN q : q[k].at <= n
  /\ h # None => h.at <= n /\ \A k \in DOMAIN q : h.at < q[k].at
  /\ g # None => /\ g.at <= n
                 /\ h # None => g.at < h.at
                 /\ \A k \in DOMAIN q : g.at < q[k].at
  /\ q # <<>> => l = q[Len(q)]
  /\ ev /\ q = <<>> => l = IF h = None THEN g ELSE h

BusTypes ==
  /\ conn \in [Clients -> {"new", "on", "off"}]
  /\ queue \in [Clients -> Seq(Event)]
  /\ hand \in [Clients -> Event \cup {None}]
  /\ got \in [Clients -> Event \cup {None}]
  /\ last \in [Clients -> Event \cup {None}]
  /\ clock \in Nat

ViewOf(c) == View(got[c], hand[c], queue[c], last[c], clock, c \in EventClients)

BusInv ==
  /\ BusTypes
  /\ \A c \in Clients : conn[c] = "on" => ViewOf(c)
  /\ \A c \in Clients : conn[c] = "new" =>
       got[c] = None /\ hand[c] = None /\ last[c] = None /\ queue[c] = <<>>

(* put_nowait() behind what is left of the queue: all of it, or its tail.  *)
LEMMA PutFacts ==
  ASSUME NEW q \in Seq(Event), NEW e \in Event
  PROVE  /\ Put(q, e) \in Seq(Event)
         /\ \E d \in {0, 1} :
              /\ d <= Len(q) /\ DOMAIN Put(q, e) = 1..(Len(q) - d + 1)
              /\ Len(Put(q, e)) = Len(q) - d + 1
              /\ Put(q, e)[Len(q) - d + 1] = e
              /\ \A k \in 1..(Len(q) - d) : Put(q, e)[k] = q[k + d]
<1>1. CASE Len(q) < Capacity
  <2>1. Put(q, e) = Append(q, e)
    BY <1>1 DEF Put
  <2>2. /\ Append(q, e) \in Seq(Event) /\ Len(q) \in Nat
        /\ DOMAIN Append(q, e) = 1..(Len(q) + 1) /\ Len(Append(q, e)) = Len(q) + 1
        /\ Append(q, e)[Len(q) + 1] = e
        /\ \A k \in 1..Len(q) : Append(q, e)[k] = q[k]
    OBVIOUS
  <2> QED BY <2>1, <2>2
<1>2. CASE ~(Len(q) < Capacity)
  <2>1. Put(q, e) = Append(Tail(q), e)
    BY <1>2 DEF Put
  <2>2. /\ q # <<>> /\ Len(q) \in Nat \ {0}
        /\ Tail(q) \in Seq(Event) /\ Len(Tail(q)) = Len(q) - 1
        /\ \A k \in 1..(Len(q) - 1) : Tail(q)[k] = q[k + 1]
    BY <1>2, BusAssumption
  <2> DEFINE t == Tail(q)
  <2> HIDE DEF t
  <2>3. ASSUME t \in Seq(Event), Len(t) = Len(q) - 1, Len(q) \in Nat \ {0}
        PROVE  /\ Append(t, e) \in Seq(Event)
               /\ DOMAIN Append(t, e) = 1..Len(q) /\ Len(Append(t, e)) = Len(q)
               /\ Append(t, e)[Len(q)] = e
               /\ \A k \in 1..(Len(q) - 1) : Append(t, e)[k] = t[k]
    BY <2>3
  <2>4. 1 <= Len(q) /\ Len(q) - 1 + 1 = Len(q)
    BY <2>2
  <2>5. /\ Put(q, e) \in Seq(Event)
        /\ DOMAIN Put(q, e) = 1..(Len(q) - 1 + 1) /\ Len(Put(q, e)) = Len(q) - 1 + 1
        /\ Put(q, e)[Len(q) - 1 + 1] = e
    BY <2>1, <2>2, <2>3, <2>4 DEF t
  <2>6. \A k \in 1..(Len(q) - 1) : Put(q, e)[k] = q[k + 1]
    BY <2>1, <2>2, <2>3 DEF t
  <2> QED BY <2>4, <2>5, <2>6
<1> QED BY <1>1, <1>2

(* What is published next is later than all of it, and the newest of it.   *)
LEMMA ViewPut ==
  ASSUME NEW g \in Event \cup {None}, NEW h \in Event \cup {None}, NEW q \in Seq(Event),
         NEW l, NEW n \in Nat, NEW ev, View(g, h, q, l, n, ev),
         NEW e \in Event, e.at = n + 1
  PROVE  View(g, h, Put(q, e), e, n + 1, ev)
<1> DEFINE p == Put(q, e)
<1>1. PICK d \in {0, 1} :
        /\ d <= Len(q) /\ DOMAIN p = 1..(Len(q) - d + 1) /\ Len(p) = Len(q) - d + 1
        /\ p[Len(q) - d + 1] = e
        /\ \A k \in 1..(Len(q) - d) : p[k] = q[k + d]
  BY PutFacts
<1>2. p \in Seq(Event)
  BY PutFacts
<1> HIDE DEF p
<1>3. /\ Len(q) \in Nat /\ DOMAIN q = 1..Len(q) /\ p # <<>>
      /\ \A k \in 1..Len(q) : q[k].at \in Nat
  <2>1. \A k \in 1..Len(q) : q[k] \in Event
    OBVIOUS
  <2> QED BY <1>1, <2>1 DEF Event
<1>4. \A k \in 1..Len(p) :
        \/ k = Len(p) /\ p[k].at = n + 1
        \/ k < Len(p) /\ k + d \in 1..Len(q) /\ p[k] = q[k + d]
  BY <1>1, <1>3
<1>5. \A k \in 1..Len(q) : q[k].at <= n
  BY <1>3 DEF View
<1>6. \A j, k \in DOMAIN p : j < k => p[j].at < p[k].at
  <2> SUFFICES ASSUME NEW j \in 1..Len(p), NEW k \in 1..Len(p), j < k
               PROVE  p[j].at < p[k].at
    BY <1>1
  <2>1. j < Len(p) /\ j + d \in 1..Len(q) /\ p[j] = q[j + d]
    BY <1>1, <1>3, <1>4
  <2>2. CASE k = Len(p)
    BY <1>3, <1>4, <1>5, <2>1, <2>2
  <2>3. CASE k # Len(p)
    <3>1. k + d \in 1..Len(q) /\ p[k] = q[k + d] /\ j + d < k + d
      BY <1>4, <2>3
    <3> QED BY <1>3, <2>1, <3>1 DEF View
  <2> QED BY <2>2, <2>3
<1>7. \A k \in DOMAIN p : p[k].at <= n + 1
  BY <1>1, <1>3, <1>4, <1>5
<1>8. ASSUME NEW x \in Event, x.at <= n, \A k \in DOMAIN q : x.at < q[k].at
      PROVE  x.at <= n + 1 /\ \A k \in DOMAIN p : x.at < p[k].at
  <2>1. x.at \in Nat
    BY DEF Event
  <2>2. ASSUME NEW k \in DOMAIN p PROVE x.at < p[k].at
    <3>1. CASE k = Len(p) /\ p[k].at = n + 1
      BY <1>8, <2>1, <3>1
    <3>2. CASE k + d \in 1..Len(q) /\ p[k] = q[k + d]
      BY <1>3, <1>8, <3>2
    <3> QED BY <1>1, <1>4, <3>1, <3>2
  <2> QED BY <1>8, <2>1, <2>2
<1>9. p[Len(p)] = e
  BY <1>1
<1>10. h # None => h.at <= n + 1 /\ \A k \in DOMAIN p : h.at < p[k].at
  BY <1>8 DEF View
<1>11. g # None => /\ g.at <= n + 1
                   /\ h # None => g.at < h.at
                   /\ \A k \in DOMAIN p : g.at < p[k].at
  BY <1>8 DEF View
<1>12. View(g, h, p, e, n + 1, ev)
  BY <1>3, <1>6, <1>7, <1>9, <1>10, <1>11 DEF View
<1> QED BY <1>12 DEF p

(* An event for somebody else only moves the clock.                        *)
LEMMA ViewLater ==
  ASSUME NEW g \in Event \cup {None}, NEW h \in Event \cup {None}, NEW q \in Seq(Event),
         NEW l, NEW n \in Nat, NEW ev, View(g, h, q, l, n, ev)
  PROVE  View(g, h, q, l, n + 1, ev)
<1>1. \A x \in Event : x.at \in Nat
  BY DEF Event
<1>2. \A k \in DOMAIN q : q[k] \in Event
  OBVIOUS
<1>3. \A x \in Event : x.at <= n => x.at <= n + 1
  BY <1>1
<1> QED BY <1>2, <1>3 DEF View

(* The head of the queue goes to the hand, or is filtered out.             *)
LEMMA ViewTake ==
  ASSUME NEW g \in Event \cup {None}, NEW q \in Seq(Event), q # <<>>,
         NEW l, NEW n \in Nat, NEW ev, View(g, None, q, l, n, ev)
  PROVE  /\ Tail(q) \in Seq(Event) /\ Head(q) \in Event
         /\ View(g, Head(q), Tail(q), l, n, ev)
         /\ ~ev => View(g, None, Tail(q), l, n, ev)
<1> DEFINE t == Tail(q)
           x == Head(q)
<1>1. /\ t \in Seq(Event) /\ x \in Event /\ x = q[1] /\ Len(q) \in Nat \ {0}
      /\ Len(t) = Len(q) - 1 /\ DOMAIN t = 1..(Len(q) - 1) /\ DOMAIN q = 1..Len(q)
      /\ \A k \in 1..(Len(q) - 1) : t[k] = q[k + 1]
  OBVIOUS
<1> HIDE DEF t, x
<1>2. t # <<>> => Len(q) > 1
  BY <1>1
<1>3. t = <<>> => Len(q) = 1
  <2>1. Len(<<>>) = 0
    OBVIOUS
  <2> QED BY <1>1, <2>1
<1>4. \A k \in DOMAIN t : k + 1 \in DOMAIN q /\ 1 \in DOMAIN q /\ 1 < k + 1 /\ t[k] = q[k + 1]
  BY <1>1
<1>5. \A j, k \in DOMAIN t : j < k => t[j].at < t[k].at
  <2> SUFFICES ASSUME NEW j \in DOMAIN t, NEW k \in DOMAIN t, j < k PROVE t[j].at < t[k].at
    OBVIOUS
  <2>1. j + 1 < k + 1
    BY <1>1
  <2> QED BY <1>4, <2>1 DEF View
<1>6. \A k \in DOMAIN t : t[k].at <= n /\ x.at < t[k].at
  BY <1>1, <1>4 DEF View
<1>7. x.at <= n /\ (g # None => g.at <= n /\ g.at < x.at)
  BY <1>1 DEF View
<1>8. g # None => \A k \in DOMAIN t : g.at < t[k].at
  BY <1>4 DEF View
<1>9. t # <<>> => l = t[Len(t)]
  <2> SUFFICES ASSUME t # <<>> PROVE l = t[Len(t)]
    OBVIOUS
  <2>1. Len(t) \in DOMAIN t /\ Len(t) + 1 = Len(q)
    BY <1>1, <1>2
  <2> QED BY <1>4, <2>1 DEF View
<1>10. t = <<>> => l = x
  BY <1>1, <1>3 DEF View
<1>11. x # None
  BY <1>1, BusAssumption
<1>12. View(g, x, t, l, n, ev) /\ (~ev => View(g, None, t, l, n, ev))
  BY <1>5, <1>6, <1>7, <1>8, <1>9, <1>10, <1>11 DEF View
<1> QED BY <1>1, <1>12 DEF t, x

LEMMA ViewSend ==
  ASSUME NEW g, NEW h, h # None, NEW q, NEW l, NEW n, NEW ev, View(g, h, q, l, n, ev)
  PROVE  View(h, None, q, l, n, ev)
  BY DEF View

LEMMA FreshView ==
  ASSUME NEW n, NEW ev
  PROVE  View(None, None, <<>>, None, n, ev)
  BY DEF View
-----------------------------------------------------------------------------
LEMMA InitBusInv == Init => BusInv
  BY DEF Init, Nothing, BusInv, BusTypes, ViewOf

(* publish() to the subscribers there are.                                 *)
LEMMA PublishBusInv ==
  ASSUME BusInv, NEW of \in Runs \cup Samples, NEW isFrame \in BOOLEAN,
         Publish(of, isFrame), UNCHANGED <<conn, hand, got>>
  PROVE  BusInv'
<1> USE DEF BusInv
<1> DEFINE e == [of |-> of, frame |-> isFrame, at |-> clock + 1]
<1>1. e \in Event /\ e.at = clock + 1
  BY DEF Event, BusTypes
<1>2. /\ queue' = [c \in Clients |-> IF c \in Targets(e) THEN Put(queue[c], e) ELSE queue[c]]
      /\ last' = [c \in Clients |-> IF c \in Targets(e) THEN e ELSE last[c]]
      /\ clock' = clock + 1
      /\ \A c \in Targets(e) : c \in Clients /\ conn[c] = "on"
  BY DEF Publish, Targets
<1> HIDE DEF e
<1>3. BusTypes'
  <2>1. queue' \in [Clients -> Seq(Event)]
    BY <1>1, <1>2, PutFacts DEF BusTypes
  <2>2. last' \in [Clients -> Event \cup {None}]
    BY <1>1, <1>2 DEF BusTypes
  <2> QED BY <1>2, <2>1, <2>2 DEF BusTypes
<1>4. ASSUME NEW c \in Clients, conn'[c] = "on" PROVE ViewOf(c)'
  <2>1. /\ View(got[c], hand[c], queue[c], last[c], clock, c \in EventClients)
        /\ got[c] \in Event \cup {None} /\ hand[c] \in Event \cup {None}
        /\ queue[c] \in Seq(Event) /\ clock \in Nat
    BY <1>4 DEF ViewOf, BusTypes
  <2>2. CASE c \in Targets(e)
    <3>1. View(got[c], hand[c], Put(queue[c], e), e, clock + 1, c \in EventClients)
      BY <1>1, <2>1, ViewPut
    <3> QED BY <1>2, <2>2, <3>1 DEF ViewOf
  <2>3. CASE c \notin Targets(e)
    <3>1. View(got[c], hand[c], queue[c], last[c], clock + 1, c \in EventClients)
      BY <2>1, ViewLater
    <3> QED BY <1>2, <2>3, <3>1 DEF ViewOf
  <2> QED BY <2>2, <2>3
<1>5. ASSUME NEW c \in Clients, conn'[c] = "new"
      PROVE  got'[c] = None /\ hand'[c] = None /\ last'[c] = None /\ queue'[c] = <<>>
  BY <1>2, <1>5
<1> QED BY <1>3, <1>4, <1>5

(* A step of one client: its view, when it is still there, and the others'. *)
LEMMA ClientBusInv ==
  ASSUME BusInv, BusTypes', NEW c \in Clients,
         clock' = clock,
         \A d \in Clients \ {c} :
           /\ conn'[d] = conn[d] /\ queue'[d] = queue[d] /\ hand'[d] = hand[d]
           /\ got'[d] = got[d] /\ last'[d] = last[d],
         conn'[c] # "new",
         conn'[c] = "on" => ViewOf(c)'
  PROVE  BusInv'
<1>1. \A d \in Clients \ {c} : ViewOf(d)' = ViewOf(d)
  BY DEF ViewOf
<1>2. \A d \in Clients : conn'[d] = "on" => ViewOf(d)'
  BY <1>1 DEF BusInv
<1> QED BY <1>2 DEF BusInv

LEMMA SubscribeBusInv ==
  ASSUME BusInv, NEW c \in Clients, Subscribe(c) \/ Leave(c)
  PROVE  BusInv'
<1>1. CASE Subscribe(c)
  <2>1. ViewOf(c)'
    BY <1>1, FreshView DEF Subscribe, BusInv, ViewOf
  <2>2. BusTypes'
    BY <1>1 DEF Subscribe, BusInv, BusTypes
  <2> QED BY <1>1, <2>1, <2>2, ClientBusInv DEF Subscribe, BusInv, BusTypes
<1>2. CASE Leave(c)
  BY <1>2 DEF Leave, BusInv, BusTypes, ViewOf
<1> QED BY <1>1, <1>2

LEMMA TakeBusInv ==
  ASSUME BusInv, NEW c \in Clients, Take(c)
  PROVE  BusInv'
<1>1. /\ View(got[c], None, queue[c], last[c], clock, c \in EventClients)
      /\ got[c] \in Event \cup {None} /\ queue[c] \in Seq(Event) /\ queue[c] # <<>>
      /\ clock \in Nat
  BY DEF Take, BusInv, BusTypes, ViewOf
<1>2. /\ Tail(queue[c]) \in Seq(Event) /\ Head(queue[c]) \in Event
      /\ View(got[c], Head(queue[c]), Tail(queue[c]), last[c], clock, c \in EventClients)
      /\ c \notin EventClients =>
           View(got[c], None, Tail(queue[c]), last[c], clock, c \in EventClients)
  BY <1>1, ViewTake
<1>3. /\ queue' = [queue EXCEPT ![c] = Tail(queue[c])]
      /\ \/ hand' = [hand EXCEPT ![c] = Head(queue[c])]
         \/ hand' = hand /\ c \notin EventClients /\ hand[c] = None
      /\ UNCHANGED <<conn, got, clock, last>> /\ conn[c] = "on"
  BY DEF Take, Forwards
<1>4. BusTypes'
  BY <1>2, <1>3 DEF BusInv, BusTypes
<1>5. ViewOf(c)'
  BY <1>2, <1>3 DEF BusInv, BusTypes, ViewOf
<1> QED BY <1>3, <1>4, <1>5, ClientBusInv DEF BusInv, BusTypes

LEMMA SendBusInv ==
  ASSUME BusInv, NEW c \in Clients, Send(c)
  PROVE  BusInv'
<1>1. View(hand[c], None, queue[c], last[c], clock, c \in EventClients)
  BY ViewSend DEF Send, BusInv, ViewOf
<1>2. /\ got' = [got EXCEPT ![c] = hand[c]] /\ hand' = [hand EXCEPT ![c] = None]
      /\ UNCHANGED <<conn, queue, clock, last>> /\ conn[c] = "on"
  BY DEF Send
<1>3. BusTypes'
  BY <1>2 DEF BusInv, BusTypes
<1>4. ViewOf(c)'
  BY <1>1, <1>2 DEF BusInv, BusTypes, ViewOf
<1> QED BY <1>2, <1>3, <1>4, ClientBusInv DEF BusInv, BusTypes

(* Clients that are dropped have no view any more.                         *)
LEMMA DropBusInv ==
  ASSUME BusInv, NEW C \in SUBSET Clients, Drop(C), UNCHANGED clock
  PROVE  BusInv'
<1>1. BusTypes'
  BY DEF Drop, BusInv, BusTypes
<1>2. ASSUME NEW d \in Clients, conn'[d] # "off"
      PROVE  /\ conn'[d] = conn[d] /\ queue'[d] = queue[d] /\ hand'[d] = hand[d]
             /\ got'[d] = got[d] /\ last'[d] = last[d]
  BY <1>2 DEF Drop
<1>3. \A d \in Clients : conn'[d] = "on" => ViewOf(d)'
  BY <1>2 DEF BusInv, ViewOf
<1> QED BY <1>1, <1>2, <1>3 DEF BusInv

(* What the invariant says of the way to a client.                         *)
LEMMA BusInvGivesOrder == BusInv => NewestInOrder
<1> SUFFICES ASSUME BusInv, NEW c \in Clients, conn[c] = "on"
             PROVE  LET way == OnTheWay(c) IN
                    /\ \A i \in 1..(Len(way) - 1) : way[i].at < way[i + 1].at
                    /\ way # <<>> /\ got[c] # None => got[c].at < way[1].at
                    /\ queue[c] # <<>> => queue[c][Len(queue[c])] = last[c]
                    /\ c \in EventClients /\ way = <<>> => got[c] = last[c]
  BY DEF NewestInOrder
<1> DEFINE q == queue[c]
           h == hand[c]
<1>1. /\ View(got[c], h, q, last[c], clock, c \in EventClients)
      /\ q \in Seq(Event) /\ Len(q) \in Nat /\ DOMAIN q = 1..Len(q)
  BY DEF BusInv, BusTypes, ViewOf
<1> HIDE DEF q, h
<1>2. CASE h = None
  <2>1. OnTheWay(c) = q
    BY <1>1, <1>2 DEF OnTheWay, q, h
  <2>2. \A i \in 1..(Len(q) - 1) : q[i].at < q[i + 1].at
    <3> SUFFICES ASSUME NEW i \in 1..(Len(q) - 1) PROVE q[i].at < q[i + 1].at
      OBVIOUS
    <3>1. i \in DOMAIN q /\ i + 1 \in DOMAIN q /\ i < i + 1
      BY <1>1
    <3> QED BY <1>1, <3>1 DEF View
  <2>3. q # <<>> => 1 \in DOMAIN q
    BY <1>1
  <2> QED BY <1>1, <1>2, <2>1, <2>2, <2>3 DEF View, q
<1>3. CASE h # None
  <2> DEFINE way == <<h>> \o q
  <2>1. OnTheWay(c) = way
    BY <1>3 DEF OnTheWay, q, h
  <2>2. /\ Len(way) = Len(q) + 1 /\ way[1] = h /\ way # <<>>
        /\ \A k \in 1..Len(q) : way[k + 1] = q[k]
    BY <1>1
  <2> HIDE DEF way
  <2>3. \A i \in 1..(Len(way) - 1) : way[i].at < way[i + 1].at
    <3> SUFFICES ASSUME NEW i \in 1..Len(q) PROVE way[i].at < way[i + 1].at
      BY <1>1, <2>2
    <3>1. CASE i = 1
      BY <1>1, <1>3, <2>2, <3>1 DEF View
    <3>2. CASE i # 1
      <4>1. i - 1 \in 1..Len(q) /\ (i - 1) + 1 = i /\ i - 1 < i
        BY <1>1, <3>2
      <4>2. way[i] = q[i - 1] /\ way[i + 1] = q[i]
        BY <2>2, <4>1
      <4> QED BY <1>1, <4>1, <4>2 DEF View
    <3> QED BY <3>1, <3>2
  <2> QED BY <1>1, <1>3, <2>1, <2>2, <2>3 DEF View, q
<1> QED BY <1>2, <1>3

LEMMA BusStep ==
  ASSUME BusInv, [Next]_vars
  PROVE  BusInv'
<1>1. CASE LogOnly
  BY <1>1, LogOnlySteps DEF busVars, BusInv, BusTypes, ViewOf
<1>2. ASSUME NEW w \in Writers, AppendRow(w) PROVE BusInv'
  <2>1. RunOf[w] \in Runs \cup Samples
    BY DEF Runs
  <2> QED BY <1>2, <2>1, PublishBusInv DEF AppendRow
<1>3. ASSUME NEW s \in Samples, PublishFrame(s) PROVE BusInv'
  BY <1>3, PublishBusInv DEF PublishFrame
<1>4. ASSUME NEW c \in Clients, Subscribe(c) \/ Leave(c) PROVE BusInv'
  BY <1>4, SubscribeBusInv
<1>5. ASSUME NEW c \in Clients, Handler(c) PROVE BusInv'
  BY <1>5, TakeBusInv, SendBusInv, DropBusInv DEF Handler, SendRaises
<1>6. CASE CrashApi
  BY <1>6, DropBusInv DEF CrashApi
<1> QED BY <1>1, <1>2, <1>3, <1>4, <1>5, <1>6, BusSteps

LEMMA BusAlways == Spec => []BusInv
<1>1. BusInv /\ [Next]_vars => BusInv'
  BY BusStep
<1> QED BY <1>1, InitBusInv, PTL DEF Spec

(***************************************************************************)
(* However slow a client, whatever it wants and whoever publishes: what is *)
(* on its way is in order, later than what it got, and ends with the last  *)
(* event published to it.                                                  *)
(***************************************************************************)
THEOREM NewestIsLast == Spec => []NewestInOrder
  BY BusAlways, BusInvGivesOrder, PTL

(***************************************************************************)
(* Nothing is delivered twice or behind a later event: as long as a client *)
(* is connected, each event it gets was published after the last one.      *)
(***************************************************************************)
GetsLater ==
  \A c \in Clients :
    got[c] # None /\ got'[c] # None /\ got'[c] # got[c] => got[c].at < got'[c].at

THEOREM DeliveredInOrder == Spec => [][GetsLater]_vars
<1>1. ASSUME BusInv, Next PROVE GetsLater
  <2>1. ASSUME LogOnly \/ \E w \in Writers : AppendRow(w) PROVE UNCHANGED got
    BY <2>1, LogOnlySteps DEF AppendRow, busVars
  <2>2. ASSUME NEW s \in Samples, PublishFrame(s) PROVE UNCHANGED got
    BY <2>2 DEF PublishFrame
  <2>3. ASSUME NEW d \in Clients, Subscribe(d) \/ Leave(d) \/ Take(d) PROVE UNCHANGED got
    BY <2>3 DEF Subscribe, Leave, Take
  <2>4. ASSUME NEW d \in Clients, Send(d) PROVE GetsLater
    <3>1. got[d] # None => got[d].at < hand[d].at
      BY <1>1, <2>4 DEF Send, BusInv, ViewOf, View
    <3> QED BY <2>4, <3>1 DEF Send, GetsLater
  <2>5. ASSUME NEW C \in SUBSET Clients, Drop(C) PROVE GetsLater
    BY <2>5 DEF Drop, GetsLater
  <2> QED
    BY <1>1, <2>1, <2>2, <2>3, <2>4, <2>5, BusSteps
       DEF Handler, SendRaises, CrashApi, GetsLater
<1>2. BusInv /\ [Next]_vars => [GetsLater]_vars
  BY <1>1
<1> QED BY <1>2, BusAlways, PTL DEF Spec
-----------------------------------------------------------------------------
LEMMA PutIsBounded ==
  ASSUME NEW q \in Seq(Event), Len(q) <= Capacity, NEW e \in Event
  PROVE  Len(Put(q, e)) <= Capacity
<1>1. CASE Len(q) < Capacity
  <2>1. Len(Append(q, e)) = Len(q) + 1 /\ Len(q) \in Nat
    OBVIOUS
  <2> QED BY <1>1, <2>1, BusAssumption DEF Put
<1>2. CASE ~(Len(q) < Capacity)
  <2>1. q # <<>> /\ Len(q) = Capacity
    BY <1>2, BusAssumption
  <2>2. Tail(q) \in Seq(Event) /\ Len(Tail(q)) = Len(q) - 1 /\ Len(q) \in Nat \ {0}
    BY <2>1
  <2>3. Len(Append(Tail(q), e)) = Len(Tail(q)) + 1
    BY <2>2
  <2>4. Len(Tail(q)) + 1 = Len(q)
    BY <2>2
  <2> QED BY <1>2, <2>1, <2>3, <2>4, BusAssumption DEF Put
<1> QED BY <1>1, <1>2

(* The rest of the type invariant: whoever left, and how much is queued.   *)
Bounds ==
  /\ gone \in [Clients -> BOOLEAN]
  /\ frames \in 0..MaxFrames
  /\ \A c \in Clients : Len(queue[c]) <= Capacity

LEMMA PublishBounds ==
  ASSUME BusTypes, Bounds, NEW of \in Runs \cup Samples, NEW isFrame \in BOOLEAN,
         Publish(of, isFrame)
  PROVE  \A c \in Clients : Len(queue'[c]) <= Capacity
<1> DEFINE e == [of |-> of, frame |-> isFrame, at |-> clock + 1]
<1>1. e \in Event
  BY DEF Event, BusTypes
<1>2. queue' = [c \in Clients |-> IF c \in Targets(e) THEN Put(queue[c], e) ELSE queue[c]]
  BY DEF Publish
<1> HIDE DEF e
<1> QED BY <1>1, <1>2, PutIsBounded DEF BusTypes, Bounds

LEMMA BoundsStep ==
  ASSUME BusTypes, Bounds, [Next]_vars
  PROVE  Bounds'
<1>1. CASE LogOnly
  BY <1>1, LogOnlySteps DEF busVars, Bounds
<1>2. ASSUME NEW w \in Writers, AppendRow(w) PROVE Bounds'
  <2>1. RunOf[w] \in Runs \cup Samples
    BY DEF Runs
  <2>2. \A c \in Clients : Len(queue'[c]) <= Capacity
    BY <1>2, <2>1, PublishBounds DEF AppendRow
  <2> QED BY <1>2, <2>2 DEF AppendRow, Bounds
<1>3. ASSUME NEW s \in Samples, PublishFrame(s) PROVE Bounds'
  <2>1. \A c \in Clients : Len(queue'[c]) <= Capacity
    BY <1>3, PublishBounds DEF PublishFrame
  <2>2. frames' \in 0..MaxFrames
    BY <1>3, BusAssumption DEF PublishFrame, Bounds
  <2> QED BY <1>3, <2>1, <2>2 DEF PublishFrame, Bounds
<1>4. ASSUME NEW c \in Clients, Subscribe(c) \/ Leave(c) \/ Send(c) PROVE Bounds'
  BY <1>4 DEF Subscribe, Leave, Send, Bounds
<1>5. ASSUME NEW c \in Clients, Take(c) PROVE Bounds'
  <2>1. queue[c] \in Seq(Event) /\ queue[c] # <<>>
    BY <1>5 DEF Take, BusTypes
  <2>2. Len(Tail(queue[c])) <= Len(queue[c]) /\ Len(queue[c]) \in Nat
        /\ Len(Tail(queue[c])) \in Nat
    BY <2>1
  <2>3. Len(Tail(queue[c])) <= Capacity
    BY <2>2, BusAssumption DEF Bounds
  <2> QED BY <1>5, <2>3 DEF Take, Bounds, BusTypes
<1>6. ASSUME NEW C \in SUBSET Clients, Drop(C), UNCHANGED frames,
             gone' \in [Clients -> BOOLEAN]
      PROVE  Bounds'
  <2>1. Len(<<>>) <= Capacity
    BY BusAssumption
  <2> QED BY <1>6, <2>1 DEF Drop, Bounds
<1>7. ASSUME NEW c \in Clients, SendRaises(c) PROVE Bounds'
  BY <1>6, <1>7 DEF SendRaises, Bounds
<1>8. CASE CrashApi
  BY <1>6, <1>8 DEF CrashApi
<1> QED BY <1>1, <1>2, <1>3, <1>4, <1>5, <1>7, <1>8, BusSteps DEF Handler

(***************************************************************************)
(* Log and bus stay in their types; no queue outgrows its maxsize, however *)
(* slow its client.                                                        *)
(***************************************************************************)
THEOREM BusTypeCorrect == Spec => []TypeOK
<1> DEFINE Inv == AuditInv /\ BusInv /\ Bounds
<1>1. Init => Inv
  <2>1. Init => Bounds
    BY BusAssumption DEF Init, Bounds
  <2> QED BY <2>1, AuditStart, InitBusInv DEF Init
<1>2. Inv /\ [Next]_vars => Inv'
  BY BusStep, BoundsStep, BusUsesTheLog, AuditStep DEF BusInv
<1>3. Inv => TypeOK
  BY DEF AuditInv, BusInv, BusTypes, Bounds, TypeOK
<1> HIDE DEF Inv
<1> QED BY <1>1, <1>2, <1>3, PTL DEF Spec
-----------------------------------------------------------------------------
(***************************************************************************)
(* The filters: what a client that asked for one run is queued, and what   *)
(* the screencast route forwards to it.                                    *)
(***************************************************************************)
OneRun(c) == c \in EventClients \ FrameClients /\ WantedRun[c] # None
Queued(c, e) == OneRun(c) => ~e.frame /\ e.of = WantedRun[c]
Asked(c, e) ==
  /\ Queued(c, e)
  /\ c \in FrameClients \ EventClients => e.frame /\ e.of = WatchedSample[c]

OnlyWhatIsAsked == \A c \in Clients : got[c] # None => Asked(c, got[c])

AskedInv ==
  /\ OnlyWhatIsAsked
  /\ \A c \in Clients : hand[c] # None => Asked(c, hand[c])
  /\ \A c \in Clients : \A k \in DOMAIN queue[c] : Queued(c, queue[c][k])

LEMMA PublishAsked ==
  ASSUME BusTypes, AskedInv, NEW of \in Runs \cup Samples, NEW isFrame \in BOOLEAN,
         Publish(of, isFrame), UNCHANGED <<hand, got>>
  PROVE  AskedInv'
<1> DEFINE e == [of |-> of, frame |-> isFrame, at |-> clock + 1]
<1>1. e \in Event
  BY DEF Event, BusTypes
<1>2. queue' = [c \in Clients |-> IF c \in Targets(e) THEN Put(queue[c], e) ELSE queue[c]]
  BY DEF Publish
<1>3. \A c \in Targets(e) : Queued(c, e)
  BY DEF Targets, Queued, OneRun
<1> HIDE DEF e
<1>4. ASSUME NEW c \in Clients, NEW k \in DOMAIN queue'[c] PROVE Queued(c, queue'[c][k])
  <2>1. CASE c \notin Targets(e)
    BY <1>2, <1>4, <2>1 DEF AskedInv
  <2>2. CASE c \in Targets(e)
    <3>1. queue[c] \in Seq(Event) /\ DOMAIN queue[c] = 1..Len(queue[c]) /\ Len(queue[c]) \in Nat
      BY DEF BusTypes
    <3> DEFINE q == queue[c]
               p == Put(q, e)
    <3>2. PICK d \in {0, 1} :
            /\ d <= Len(q) /\ DOMAIN p = 1..(Len(q) - d + 1)
            /\ p[Len(q) - d + 1] = e
            /\ \A j \in 1..(Len(q) - d) : p[j] = q[j + d]
      BY <1>1, <3>1, PutFacts
    <3>3. queue'[c] = p
      BY <1>2, <2>2
    <3> HIDE DEF p
    <3>4. k = Len(q) - d + 1 \/ (k \in 1..(Len(q) - d) /\ k + d \in DOMAIN q)
      BY <1>4, <3>1, <3>2, <3>3
    <3>5. CASE k = Len(q) - d + 1
      BY <1>3, <2>2, <3>2, <3>3, <3>5
    <3>6. CASE k \in 1..(Len(q) - d) /\ k + d \in DOMAIN q
      BY <3>2, <3>3, <3>6 DEF AskedInv
    <3> QED BY <3>4, <3>5, <3>6
  <2> QED BY <2>1, <2>2
<1> QED BY <1>4 DEF AskedInv, OnlyWhatIsAsked

LEMMA TakeAsked ==
  ASSUME BusTypes, AskedInv, NEW c \in Clients, Take(c)
  PROVE  AskedInv'
<1>1. /\ queue[c] \in Seq(Event) /\ queue[c] # <<>> /\ queue \in [Clients -> Seq(Event)]
      /\ hand \in [Clients -> Event \cup {None}]
  BY DEF Take, BusTypes
<1>2. /\ queue' = [queue EXCEPT ![c] = Tail(queue[c])] /\ got' = got
      /\ \/ hand' = [hand EXCEPT ![c] = Head(queue[c])] /\ Forwards(c, Head(queue[c]))
         \/ hand' = hand
  BY DEF Take
<1> DEFINE q == queue[c]
           t == Tail(q)
           x == Head(q)
<1>3. /\ x = q[1] /\ 1 \in DOMAIN q
      /\ DOMAIN t = 1..(Len(q) - 1) /\ DOMAIN q = 1..Len(q) /\ Len(q) \in Nat
      /\ \A k \in 1..(Len(q) - 1) : t[k] = q[k + 1]
  BY <1>1
<1> HIDE DEF t, x
<1>4. \A k \in DOMAIN t : Queued(c, t[k])
  <2>1. \A k \in DOMAIN t : k + 1 \in DOMAIN q /\ t[k] = q[k + 1]
    BY <1>3
  <2> QED BY <2>1 DEF AskedInv
<1>5. Queued(c, x)
  BY <1>3 DEF AskedInv
<1>6. Forwards(c, x) => Asked(c, x)
  BY <1>5 DEF Forwards, Asked
<1>7. \A d \in Clients : \A k \in DOMAIN queue'[d] : Queued(d, queue'[d][k])
  BY <1>1, <1>2, <1>4 DEF AskedInv, t
<1>8. \A d \in Clients : hand'[d] # None => Asked(d, hand'[d])
  BY <1>1, <1>2, <1>6 DEF AskedInv, x
<1> QED BY <1>2, <1>7, <1>8 DEF AskedInv, OnlyWhatIsAsked

(***************************************************************************)
(* A client of one run gets that run's events and no frames; a screencast  *)
(* client gets the frames of the sample it watches and nothing else,       *)
(* although the bus hands it everything.                                   *)
(***************************************************************************)
THEOREM FiltersHold == Spec => []OnlyWhatIsAsked
<1> DEFINE Inv == BusInv /\ AskedInv
<1>1. Init => Inv
  <2>1. Init => AskedInv
    BY DEF Init, Nothing, AskedInv, OnlyWhatIsAsked
  <2> QED BY <2>1, InitBusInv
<1>2. Inv /\ [Next]_vars => Inv'
  <2> SUFFICES ASSUME BusInv, AskedInv, [Next]_vars PROVE AskedInv'
    BY BusStep
  <2> USE DEF BusInv
  <2>1. CASE LogOnly
    BY <2>1, LogOnlySteps DEF busVars, AskedInv, OnlyWhatIsAsked
  <2>2. ASSUME NEW w \in Writers, AppendRow(w) PROVE AskedInv'
    <3>1. RunOf[w] \in Runs \cup Samples
      BY DEF Runs
    <3> QED BY <2>2, <3>1, PublishAsked DEF AppendRow
  <2>3. ASSUME NEW s \in Samples, PublishFrame(s) PROVE AskedInv'
    BY <2>3, PublishAsked DEF PublishFrame
  <2>4. ASSUME NEW c \in Clients, Subscribe(c) \/ Leave(c) PROVE AskedInv'
    BY <2>4 DEF Subscribe, Leave, AskedInv, OnlyWhatIsAsked
  <2>5. ASSUME NEW c \in Clients, Take(c) PROVE AskedInv'
    BY <2>5, TakeAsked
  <2>6. ASSUME NEW c \in Clients, Send(c) PROVE AskedInv'
    BY <2>6 DEF Send, AskedInv, OnlyWhatIsAsked, BusTypes
  <2>7. ASSUME NEW C \in SUBSET Clients, Drop(C) PROVE AskedInv'
    BY <2>7 DEF Drop, AskedInv, OnlyWhatIsAsked
  <2> QED
    BY <2>1, <2>2, <2>3, <2>4, <2>5, <2>6, <2>7, BusSteps DEF Handler, SendRaises, CrashApi
<1>3. Inv => OnlyWhatIsAsked
  BY DEF AskedInv
<1> HIDE DEF Inv
<1> QED BY <1>1, <1>2, <1>3, PTL DEF Spec
=============================================================================
