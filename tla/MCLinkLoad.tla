----------------------------- MODULE MCLinkLoad -----------------------------
(***************************************************************************)
(* Small instances of LinkLoad: two parent rows and business keys, one or  *)
(* two child rows, two or three daily runs.  Rows and keys are only ever   *)
(* compared, so the instances are symmetric in them.                       *)
(***************************************************************************)
EXTENDS LinkLoad, TLC

Symmetry == Permutations(Parent) \cup Permutations(Child) \cup Permutations(BKey)
=============================================================================
