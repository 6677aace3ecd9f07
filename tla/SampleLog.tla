------------------------------ MODULE SampleLog ------------------------------
(***************************************************************************)
(* runs/<run_id>/samples.jsonl: result lines, the append that writes one,  *)
(* and the two readers of the file in orchestrator/runner.py.  A line      *)
(* keeps the sample it is about and whether its verdict was "pass"; sid 0  *)
(* stands for a line json.loads rejects, which both readers skip.          *)
(***************************************************************************)
EXTENDS Naturals, Sequences, FiniteSets

Line(s, p) == [sid |-> s, pass |-> p]
Junk == Line(0, FALSE)
Lines(S) == [sid : S \cup {0}, pass : BOOLEAN]

(* The file: the lines that end in a newline, and at most one that does    *)
(* not, which an append that was interrupted left at the end.              *)
Logs(S) == [ended : Seq(Lines(S)), tail : {<<>>} \cup {<<l>> : l \in Lines(S)}]
EmptyLog == [ended |-> <<>>, tail |-> <<>>]
Content(f) == f.ended \o f.tail

(* open("a") and write: behind an unended line the new one is glued to it, *)
(* and neither can be read.                                                *)
Appended(f, l) ==
  [ended |-> Append(f.ended, IF f.tail = <<>> THEN l ELSE Junk), tail |-> <<>>]

(* What that append leaves when the process dies in it or it raises:       *)
(* nothing, a part of the line, all but its newline, or all of it.         *)
Interrupted(f, l) ==
  {f, [f EXCEPT !.tail = <<Junk>>], Appended(f, l)} \cup
    (IF f.tail = <<>> THEN {[f EXCEPT !.tail = <<l>>]} ELSE {})

(* The samples that have a readable line. *)
Logged(lines) == {lines[k].sid : k \in DOMAIN lines} \ {0}

IsFirst(lines, k) == \A j \in 1..(k - 1) : lines[j].sid # lines[k].sid
IsLast(lines, k) == \A j \in (k + 1)..Len(lines) : lines[j].sid # lines[k].sid

(* _load_completed_from_disk: the first line of a sample counts. *)
FirstPassed(lines) ==
  {lines[k].sid : k \in {j \in DOMAIN lines : lines[j].pass /\ IsFirst(lines, j)}} \ {0}

Counters(total, passed) == [total |-> total, passed |-> passed, failed |-> total - passed]

LoadCounters(lines) ==
  Counters(Cardinality(Logged(lines)), Cardinality(FirstPassed(lines)))

(* _samples_summary_from_jsonl: the last line of a sample wins; it is what *)
(* output.csv and RUN_MANIFEST.json show.                                  *)
LastPassed(lines) ==
  {lines[k].sid : k \in {j \in DOMAIN lines : lines[j].pass /\ IsLast(lines, j)}} \ {0}

Summary(lines) == [samples |-> Logged(lines), passed |-> LastPassed(lines)]

OneLineEach(lines) ==
  \A j, k \in DOMAIN lines : lines[j].sid = lines[k].sid /\ lines[j].sid # 0 => j = k
=============================================================================
