-------------------------- MODULE MCMetastoreClient --------------------------
(***************************************************************************)
(* A small instance of MetastoreClient: two tables, of which one may be    *)
(* partitioned by one or by two columns, two partition values, calls with  *)
(* and without a filter.                                                   *)
(***************************************************************************)
EXTENDS MetastoreClient

OnePartitioned ==
    LET p == CHOOSE t \in Table : TRUE
    IN  [t \in Table |-> IF t = p THEN {<<>>, <<"ds">>, <<"hr", "ds">>} ELSE {<<>>}]
\* One for each of the two forms.
Names == {[ds |-> 1], [hr |-> 2, ds |-> 1]}
Filters == {[field |-> "ds", accepts |-> {Min(Value)}]}
=============================================================================
