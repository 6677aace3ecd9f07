----------------------------- MODULE Descriptors -----------------------------
(***************************************************************************)
(* agent/nodes.py, the structural descriptors of visual_do: what a step    *)
(* remembers of the element that vision chose, so that it can be found     *)
(* again on another page.                                                  *)
(*                                                                         *)
(* A page is the sequence of its marks in DOM order (mark_id is the index) *)
(* and a mark maps its fields to values.  A filter maps some of the fields *)
(* to the values it accepts: the ones a regular expression finds, or the   *)
(* one that is equal.  A field with an empty or a broken pattern is not in *)
(* the domain.                                                             *)
(***************************************************************************)
EXTENDS Naturals, Sequences, FiniteSets

Fits(mark, filter) == \A f \in DOMAIN filter : mark[f] \in filter[f]

(* _filter_by_descriptor *)
Candidates(filter, page) == {k \in DOMAIN page : Fits(page[k], filter)}

(* list.index: how many of ks come before k *)
Rank(k, ks) == Cardinality({j \in ks : j < k})

(* _match_descriptor: the candidate at the descriptor's ordinal, if any. *)
Match(desc, page) ==
  LET found == Candidates(desc.filter, page)
  IN {k \in found : Rank(k, found) = desc.ordinal}

(* The choice of _vision_resolve: the mark of that id, or, for an id that  *)
(* vision made up, the first that fits its hint, or the first of all.      *)
VisionPick(id, hint, page) ==
  LET found == Candidates(hint, page)
      pool == IF id \in DOMAIN page THEN {id}
              ELSE IF found # {} THEN found ELSE DOMAIN page
  IN {k \in pool : \A j \in pool : k <= j}

(* The hint's filter with the mark's own role. *)
FilterFor(mark, hint) ==
  [f \in DOMAIN hint \cup {"role"} |->
    IF f = "role" THEN {mark["role"]} ELSE hint[f]]

(* Fault: the ordinal is the position on the page. *)
OrdinalOnPage(k, page, hint) == k - 1

(* Among the marks the filter accepts; among those of its role if the mark *)
(* is not accepted by its own filter.                                      *)
Ordinal(k, page, hint) ==
  LET filter == FilterFor(page[k], hint)
      sameRole == {j \in DOMAIN page : page[j]["role"] = page[k]["role"]}
  IN Rank(k, IF Fits(page[k], filter) THEN Candidates(filter, page) ELSE sameRole)

(* _descriptor_for *)
DescriptorFor(k, page, hint) ==
  [filter |-> FilterFor(page[k], hint), ordinal |-> Ordinal(k, page, hint)]
=============================================================================
