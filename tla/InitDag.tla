------------------------------ MODULE InitDag ------------------------------
(***************************************************************************)
(* The DAG init_datavault2_example: it writes the connections into         *)
(* Airflow's database and creates the databases and tables the other two   *)
(* DAGs take for granted.  It is scheduled once; further runs are started  *)
(* by hand, after a failure or again.  There is no dagrun_timeout.         *)
(*                                                                         *)
(* One table stands for the twelve hubs and one for the twelve satellites; *)
(* link and ref are the layer between, which the satellites wait for.      *)
(***************************************************************************)
EXTENDS DagRun, Sequences

\* In the order in which init_datavault2_example() creates them.
ConnectionIds == <<"adventureworks", "hive_default", "hive_advworks_staging",
                   "hive_datavault_raw", "hive_datavault_temp", "hive_dv_star",
                   "hiveserver2-dvstar">>
Connection == {ConnectionIds[i] : i \in 1 .. Len(ConnectionIds)}

Database == {"advworks_staging", "dv_raw", "dv_temp", "dv_star"}

\* The layers of tables.
Hub == {"hub"}
Link == {"link", "ref"}
Sat == {"sat"}
Table == Hub \cup Link \cup Sat

\* A task that creates one database or table has its name.
InitTask == {"connections", "links_done", "all_done"} \cup Database \cup Table

\* Mutants: tables hang on the connections only; satellites do not wait for
\* the links.
InitUpstream_FromConnections ==
    [t \in InitTask |->
        CASE t = "connections"     -> {}
          [] t \in Database \cup Hub -> {"connections"}
          [] t \in Link            -> Hub
          [] t = "links_done"      -> Link
          [] t \in Sat             -> {"links_done"}
          [] t = "all_done"        -> Sat]
InitUpstream_NoLinks ==
    [t \in InitTask |->
        CASE t = "connections"      -> {}
          [] t = "advworks_staging" -> {"connections"}
          [] t = "dv_raw"           -> {"advworks_staging"}
          [] t = "dv_temp"          -> {"dv_raw"}
          [] t = "dv_star"          -> {"dv_temp"}
          [] t \in Hub              -> {"dv_temp"}
          [] t \in Link \cup Sat    -> Hub
          [] t = "links_done"       -> Link
          [] t = "all_done"         -> Sat]

\* t1 >> t2 >> t3 >> t4 >> t5 and the upstream and downstream of each table;
\* hubs_done is contracted.
InitUpstream ==
    [t \in InitTask |->
        CASE t = "connections"      -> {}
          [] t = "advworks_staging" -> {"connections"}
          [] t = "dv_raw"           -> {"advworks_staging"}
          [] t = "dv_temp"          -> {"dv_raw"}
          [] t = "dv_star"          -> {"dv_temp"}
          [] t \in Hub              -> {"dv_temp"}
          [] t \in Link             -> Hub
          [] t = "links_done"       -> Link
          [] t \in Sat              -> {"links_done"}
          [] t = "all_done"         -> Sat]

ASSUME InitAssumption ==
    Task = InitTask /\ Upstream = InitUpstream /\ ~DependsOnPast /\ ~Timeouts

VARIABLES
    rows,       \* rows[c]: number of rows with conn_id c in Airflow's database
    made,       \* made[r]: connections the task of run r has committed
    exists      \* databases and tables in the metastore

vars == <<dagVars, rows, made, exists>>

Init ==
    /\ DagInit
    /\ rows = [c \in Connection |-> 0]
    /\ made = [r \in Run |-> 0]
    /\ exists = {}

-----------------------------------------------------------------------------
Schedule(r) ==
    /\ \/ CreateRun(r) \/ EndRun(r)
       \/ \E t \in Task : StartTask(r, t) \/ FailUpstream(r, t)
    /\ UNCHANGED <<rows, made, exists>>

\* Mutant: the row is inserted without looking for an older one.
Connect_Insert(r) ==
    /\ ti[r]["connections"] = "running" /\ made[r] < Len(ConnectionIds)
    /\ made' = [made EXCEPT ![r] = @ + 1]
    /\ rows' = [rows EXCEPT ![ConnectionIds[made[r] + 1]] = @ + 1]
    /\ UNCHANGED <<dagVars, exists>>

\* create_new_conn: fills the row there is, or a new one, and commits.
Connect(r) ==
    /\ ti[r]["connections"] = "running"
    /\ made[r] < Len(ConnectionIds)
    /\ made' = [made EXCEPT ![r] = @ + 1]
    /\ rows' = [rows EXCEPT ![ConnectionIds[made[r] + 1]] = IF @ = 0 THEN 1 ELSE @]
    /\ UNCHANGED <<dagVars, exists>>

Connected(r) ==
    /\ made[r] = Len(ConnectionIds)
    /\ FinishTask(r, "connections")
    /\ UNCHANGED <<rows, made, exists>>

\* What a statement needs: its connection, and the schema of that connection
\* (run_cli sends USE first); "default" is always there.
CanRun(t) ==
    /\ t \in Database => rows["hive_default"] > 0
    /\ t \in Table => rows["hive_datavault_raw"] > 0 /\ "dv_raw" \in exists

\* CREATE DATABASE IF NOT EXISTS, CREATE TABLE IF NOT EXISTS; the task may
\* fail although the statement took effect.
Create(r, t) ==
    /\ t \in Database \cup Table /\ CanRun(t)
    /\ FinishTask(r, t) \/ FailTask(r, t)
    /\ exists' = exists \cup {t}
    /\ UNCHANGED <<rows, made>>

Knot(r, t) ==
    /\ t \in {"links_done", "all_done"}
    /\ FinishTask(r, t)
    /\ UNCHANGED <<rows, made, exists>>

\* A task fails without an effect of its last step, or is refused.
Fail(r, t) ==
    /\ FailTask(r, t)
    /\ UNCHANGED <<rows, made, exists>>

\* Nobody starts a further run.
Stop ==
    /\ \A r \in Run : run[r] # "running"
    /\ UNCHANGED vars

Next ==
    \/ \E r \in Run :
          \/ Schedule(r)
          \/ Connect(r) \/ Connected(r)
          \/ \E t \in Task : Create(r, t) \/ Knot(r, t) \/ Fail(r, t)
    \/ Stop

Spec == Init /\ [][Next]_vars

\* The scheduler goes on; a task that executes makes progress and ends.
Fairness ==
    \A r \in Run :
        /\ WF_vars(EndRun(r) /\ UNCHANGED <<rows, made, exists>>)
        /\ WF_vars(Connect(r) \/ Connected(r))
        /\ \A t \in Task :
              /\ WF_vars((StartTask(r, t) \/ FailUpstream(r, t))
                            /\ UNCHANGED <<rows, made, exists>>)
              /\ WF_vars(Create(r, t) \/ Knot(r, t) \/ Fail(r, t))

FairSpec == Spec /\ Fairness

-----------------------------------------------------------------------------
\* However often the DAG ran or failed, a connection id has at most one row:
\* with two, Airflow would pick one of them at random.
TypeOK ==
    /\ DagTypeOK
    /\ rows \in [Connection -> {0, 1}]
    /\ made \in [Run -> 0 .. Len(ConnectionIds)]
    /\ exists \subseteq Database \cup Table

\* No statement of the DAG is refused for want of what another task should
\* have created: only a crash makes a task fail, and a further run can repair
\* what an earlier one left.
NothingRefused ==
    \A r \in Run, t \in Task : ti[r][t] = "running" => CanRun(t)

LoadConnection == {"adventureworks", "hive_advworks_staging", "hive_datavault_raw",
                   "hive_datavault_temp"}

\* When all_done was reached in some run, the adventureworks DAG finds all
\* its connections, databases and tables, also while dv_star is missing.
LoadReady ==
    \A r \in Run : ti[r]["all_done"] = "success" =>
        /\ \A c \in LoadConnection : rows[c] = 1
        /\ (Database \ {"dv_star"}) \cup Table \subseteq exists

\* A run that was started comes to an end although it has no timeout.
InitEnds == \A r \in Run : run[r] = "running" ~> run[r] \in Ended
=============================================================================
