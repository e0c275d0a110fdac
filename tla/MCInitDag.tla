----------------------------- MODULE MCInitDag -----------------------------
(***************************************************************************)
(* Two runs of InitDag: the scheduled one and one started by hand, which   *)
(* may find anything a failed or complete first run leaves.                *)
(***************************************************************************)
EXTENDS InitDag
=============================================================================
