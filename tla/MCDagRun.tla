------------------------------ MODULE MCDagRun ------------------------------
(***************************************************************************)
(* Small DAGs with the shape of the two of this repository: adventureworks *)
(* (two staging tasks, a hub, a satellite, its end dating; the second      *)
(* staging task feeds the satellite only through the knots) and            *)
(* starschema.                                                             *)
(***************************************************************************)
EXTENDS DagRun

LoadTask == {"stg_a", "stg_b", "hub", "sat", "enddate"}
LoadUpstream ==
    [t \in LoadTask |->
        CASE t \in {"stg_a", "stg_b"} -> {}
          [] t = "hub" -> {"stg_a", "stg_b"}
          [] t = "sat" -> {"hub"}
          [] t = "enddate" -> {"sat"}]

\* The starschema DAG: two dimensions, the knot and the fact table.
StarTask == {"dim_a", "dim_b", "dimensions_done", "fact"}
StarUpstream ==
    [t \in StarTask |->
        CASE t \in {"dim_a", "dim_b"} -> {}
          [] t = "dimensions_done" -> {"dim_a", "dim_b"}
          [] t = "fact" -> {"dimensions_done"}]

\* One statement of the first run may never come back.
Hung == {<<1, "dim_a">>}

HungSpec == DagSpec /\ DagFairness(Hung)
=============================================================================
