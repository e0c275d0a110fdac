---------------------------- MODULE MCVaultLoad ----------------------------
(***************************************************************************)
(* Small instances of VaultLoad: one or two source rows, two attribute     *)
(* values, two or three daily runs.                                        *)
(***************************************************************************)
EXTENDS VaultLoad

OneKey == [x \in SrcRow |-> CHOOSE k \in Key : TRUE]
OwnKey == [x \in SrcRow |-> x]
=============================================================================
