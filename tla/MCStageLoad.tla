---------------------------- MODULE MCStageLoad ----------------------------
(***************************************************************************)
(* Small instances of StageLoad: two staging tasks, two daily runs, file   *)
(* names that are scarce enough to be used again, and query results with   *)
(* every kind of value the file format treats differently.  Names are only *)
(* compared and so symmetric.                                              *)
(***************************************************************************)
EXTENDS StageLoad, TLC

CONSTANTS A, B      \* ordinary characters
Alphabet == {A, B, Quote, Delim, Break}

StageTask == {"stg_a", "stg_b"}
NoUpstream == [t \in StageTask |-> {}]

\* Ordinary values, an empty one, NULL and quotes; and a row torn by a
\* delimiter and a line break between two that are not.
Harmless == << <<<<A, B>>, <<>>>>, <<Null, <<A, Quote>>>> >>
Torn == << <<<<B>>, <<A>>>>, <<<<A, Delim>>, <<Break, B>>>>, <<<<Quote>>, Null>> >>
Contents == [v \in Rows |-> IF v = "harmless" THEN Harmless ELSE Torn]

Symmetry == Permutations(Name)
=============================================================================
