--------------------------- MODULE MCArtifactStore ---------------------------
(***************************************************************************)
(* Instances of ArtifactStore for TLC: processes that run samples of one   *)
(* cached plan, and so put into the same folders.                          *)
(***************************************************************************)
EXTENDS ArtifactStore, TLC

Interchangeable ==
  Permutations(Processes) \cup Permutations(Contents) \cup Permutations(Folders)
=============================================================================
