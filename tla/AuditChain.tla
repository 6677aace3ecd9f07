------------------------------ MODULE AuditChain ------------------------------
(***************************************************************************)
(* storage/audit_log.py: the hash-chained audit log of each run, a SQLite  *)
(* file of its own.  append() is a SELECT of the newest hash and an INSERT *)
(* of the row chained to it, each a transaction of its own; the lock held  *)
(* over both is a threading.Lock of the AuditLog object, so it excludes    *)
(* nobody in another process.  Agents (worker.py) open the file of a run   *)
(* next to each other and next to the process that started it              *)
(* (orchestrator/runner.py).  sha256 is collision-free and event ids are   *)
(* fresh uuids, so the hash of the n-th row is the number n.               *)
(***************************************************************************)
EXTENDS Naturals, Sequences

CONSTANTS
  Writers,    \* AuditLog objects
  ProcessOf,  \* ProcessOf[w]: the OS process of writer w
  RunOf,      \* RunOf[w]: the run whose file w writes
  MaxRows,    \* bound: MaxRows[r], rows of run r
  None        \* no append under way

Genesis == 0
Runs == {RunOf[w] : w \in Writers}
Processes == {ProcessOf[w] : w \in Writers}

ASSUME AuditAssumption ==
  /\ MaxRows \in [Runs -> Nat]
  /\ None \notin Nat

VARIABLES
  rows,   \* rows[r]: audit_log of run r in rowid order
  prev    \* prev[w]: the hash w has read and not yet chained a row to

auditVars == <<rows, prev>>

(* The prev_hash of a row, and (history) who inserted it, while which      *)
(* writers were between their SELECT and their INSERT.                     *)
Row == [prev : Nat, by : Writers, during : SUBSET Writers]

AuditTypeOK ==
  /\ rows \in [Runs -> Seq(Row)]
  /\ prev \in [Writers -> Nat \cup {None}]

AuditInit ==
  /\ rows = [r \in Runs |-> <<>>]
  /\ prev = [w \in Writers |-> None]
-----------------------------------------------------------------------------
InAppend(w) == prev[w] # None

(* "ORDER BY rowid DESC LIMIT 1" *)
LastHash(c) == IF c = <<>> THEN Genesis ELSE Len(c)

(* Fault: the object remembers the last hash it wrote instead of reading.  *)
SelectCached(w) ==
  LET own == {0} \cup {k \in DOMAIN rows[RunOf[w]] : rows[RunOf[w]][k].by = w} IN
  /\ \A v \in Writers : ProcessOf[v] = ProcessOf[w] => ~InAppend(v)
  /\ Len(rows[RunOf[w]]) < MaxRows[RunOf[w]]
  /\ prev' = [prev EXCEPT ![w] = CHOOSE k \in own : \A j \in own : j <= k]
  /\ UNCHANGED rows

(* append() holds the lock and awaits nothing: in a process it is one at a *)
(* time.                                                                   *)
Select(w) ==
  /\ \A v \in Writers : ProcessOf[v] = ProcessOf[w] => ~InAppend(v)
  /\ Len(rows[RunOf[w]]) < MaxRows[RunOf[w]]
  /\ prev' = [prev EXCEPT ![w] = LastHash(rows[RunOf[w]])]
  /\ UNCHANGED rows

Appending(r) == {w \in Writers : InAppend(w) /\ RunOf[w] = r}

NewRow(w) == [prev |-> prev[w], by |-> w, during |-> Appending(RunOf[w])]

Release(w) == prev' = [prev EXCEPT ![w] = None]

Insert(w) ==
  /\ InAppend(w)
  /\ rows' = [rows EXCEPT ![RunOf[w]] = Append(@, NewRow(w))]
  /\ Release(w)

(* "database is locked", or the disk is full. *)
InsertRaises(w) ==
  /\ InAppend(w)
  /\ Release(w)
  /\ UNCHANGED rows

(* The process dies, in an append of one of its objects perhaps. *)
Crash(p) ==
  /\ prev' = [w \in Writers |-> IF ProcessOf[w] = p THEN None ELSE prev[w]]
  /\ UNCHANGED rows

AuditNext ==
  \/ \E w \in Writers : Select(w) \/ Insert(w) \/ InsertRaises(w)
  \/ \E p \in Processes : Crash(p)

AuditSpec == AuditInit /\ [][AuditNext]_auditVars
-----------------------------------------------------------------------------
(* verify_chain() over the rows c: each row names the hash before it. *)
Verifies(c) == \A k \in DOMAIN c : c[k].prev = LastHash(SubSeq(c, 1, k - 1))

(***************************************************************************)
(* verify_chain() of each run holds after every append (ARCHITECTURE.md:   *)
(* "transaction around prev_hash read + insert, so the chain never races"; *)
(* the class comment of AuditLog: "Safe under concurrent writers").        *)
(***************************************************************************)
ChainIntact == \A r \in Runs : Verifies(rows[r])

(***************************************************************************)
(* What the code keeps of that: a row that is not chained to the one       *)
(* before it was in the making, by another process, when each of the rows  *)
(* it passes over was inserted.  So the chain of a run verifies as long as *)
(* no two processes are in append() for it at once, whichever dies in one  *)
(* or gives up, and no append passes over a row that was there when it     *)
(* began.                                                                  *)
(***************************************************************************)
ForksNeedOverlap ==
  \A r \in Runs : \A j, k \in DOMAIN rows[r] :
    rows[r][k].prev < j /\ j < k =>
      /\ rows[r][k].by \in rows[r][j].during
      /\ ProcessOf[rows[r][k].by] # ProcessOf[rows[r][j].by]

(* What makes it inductive: a process is in one append() at a time, and    *)
(* what was inserted since the SELECT of one knows of it.                  *)
AppendsExclude ==
  \A v, w \in Writers :
    InAppend(v) /\ InAppend(w) /\ ProcessOf[v] = ProcessOf[w] => v = w

PrevWasNewest ==
  \A w \in Writers : InAppend(w) =>
    \A j \in DOMAIN rows[RunOf[w]] : prev[w] < j =>
      /\ w \in rows[RunOf[w]][j].during
      /\ ProcessOf[w] # ProcessOf[rows[RunOf[w]][j].by]

AuditInv == AuditTypeOK /\ AppendsExclude /\ PrevWasNewest /\ ForksNeedOverlap
=============================================================================
