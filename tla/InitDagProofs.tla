--------------------------- MODULE InitDagProofs ---------------------------
(***************************************************************************)
(* The initialisation is repeatable: whatever runs of it failed before,    *)
(* for any number of them, connections stay unique, no statement is        *)
(* refused, and a run that reached all_done left everything the load       *)
(* needs.                                                                  *)
(***************************************************************************)
EXTENDS InitDag, DagRunProofs

\* The edges that t1 >> ... >> t5 and the calls of create_table set.
LEMMA Graph ==
    /\ Task = InitTask
    /\ Upstream["advworks_staging"] = {"connections"}
    /\ Upstream["dv_raw"] = {"advworks_staging"}
    /\ Upstream["dv_temp"] = {"dv_raw"}
    /\ Upstream["dv_star"] = {"dv_temp"}
    /\ Upstream["hub"] = {"dv_temp"}
    /\ \A t \in Link : Upstream[t] = Hub
    /\ Upstream["links_done"] = Link
    /\ \A t \in Sat : Upstream[t] = {"links_done"}
    /\ Upstream["all_done"] = Sat
  BY InitAssumption DEF InitUpstream, InitTask, Database, Table, Hub, Link, Sat

\* The knots and the connection task are no databases or tables.
LEMMA Names ==
    /\ {"connections", "links_done", "all_done"} \subseteq InitTask
    /\ Database \cup Table \subseteq InitTask
    /\ "connections" \notin Database \cup Table
    /\ "links_done" \notin Database \cup Table
    /\ "all_done" \notin Database \cup Table
  BY DEF InitTask, Database, Table, Hub, Link, Sat

\* create_new_conn is called for seven connections, the ones of the load
\* among them.
LEMMA Ids ==
    /\ Len(ConnectionIds) = 7
    /\ \A i \in 1 .. 7 : ConnectionIds[i] \in Connection
    /\ \A c \in Connection : \E i \in 1 .. 7 : c = ConnectionIds[i]
    /\ LoadConnection \cup {"hive_default"} \subseteq Connection
<1>1. Len(ConnectionIds) = 7
  BY DEF ConnectionIds
<1>2. /\ ConnectionIds[1] = "adventureworks" /\ ConnectionIds[2] = "hive_default"
      /\ ConnectionIds[3] = "hive_advworks_staging"
      /\ ConnectionIds[4] = "hive_datavault_raw"
      /\ ConnectionIds[5] = "hive_datavault_temp"
  BY DEF ConnectionIds
<1>3. Connection = {ConnectionIds[i] : i \in 1 .. 7}
  BY <1>1 DEF Connection
<1>4. {1, 2, 3, 4, 5} \subseteq 1 .. 7
  OBVIOUS
<1>5. LoadConnection \cup {"hive_default"} \subseteq Connection
  BY <1>2, <1>3, <1>4 DEF LoadConnection
<1> QED
  BY <1>1, <1>3, <1>5

-----------------------------------------------------------------------------
\* Every step is a step of an Airflow DAG or leaves it alone.
LEMMA StepImplementsDag == [Next]_vars => [DagNext]_dagVars
<1> SUFFICES ASSUME [Next]_vars PROVE [DagNext]_dagVars
  OBVIOUS
<1>1. ASSUME NEW r \in Run, Schedule(r) PROVE DagNext
  BY <1>1 DEF Schedule, DagNext
<1>2. ASSUME NEW r \in Run, Connect(r) PROVE UNCHANGED dagVars
  BY <1>2 DEF Connect
<1>3. ASSUME NEW r \in Run, Connected(r) PROVE DagNext
  BY <1>3, Graph, Names DEF Connected, DagNext
<1>4. ASSUME NEW r \in Run, NEW t \in Task, Create(r, t) \/ Knot(r, t) \/ Fail(r, t)
      PROVE DagNext
  BY <1>4 DEF Create, Knot, Fail, DagNext
<1>5. CASE Stop \/ UNCHANGED vars
  BY <1>5 DEF Stop, vars
<1> QED
  BY <1>1, <1>2, <1>3, <1>4, <1>5 DEF Next

\* All that holds of every DAG holds of the initialisation.
THEOREM InitImplementsDag == Spec => DagSpec
<1>1. Init => DagInit
  BY DEF Init
<1> QED
  BY <1>1, StepImplementsDag, PTL DEF Spec, DagSpec

-----------------------------------------------------------------------------
\* The connections a run has written are there, and a run whose first task
\* succeeded has written all of them.
ConnectionInv ==
    /\ \A r \in Run : \A i \in 1 .. made[r] : rows[ConnectionIds[i]] = 1
    /\ \A r \in Run : ti[r]["connections"] = "success" => made[r] = 7

\* What a task of any run created stays.
CreatedInv ==
    \A r \in Run, t \in Database \cup Table : ti[r][t] = "success" => t \in exists

InitInv == TypeOK /\ ConnectionInv /\ CreatedInv

\* A task that does not get a new success keeps the two facts.
LEMMA QuietStep ==
    ASSUME InitInv, DagTypeOK', UNCHANGED <<rows, made, exists>>,
           \A r \in Run, t \in Task : ti'[r][t] = "success" =>
               \/ ti[r][t] = "success"
               \/ t \in {"links_done", "all_done"}
               \/ t = "connections" /\ made[r] = 7
    PROVE  InitInv'
<1>1. TypeOK'
  BY DEF InitInv, TypeOK
<1>2. ConnectionInv'
  BY Graph, Names DEF InitInv, ConnectionInv
<1>3. CreatedInv'
  BY Graph, Names DEF InitInv, CreatedInv
<1> QED
  BY <1>1, <1>2, <1>3 DEF InitInv

\* No step takes back a connection or table another one relied on.
LEMMA InitInvStep == InitInv /\ DagTypeOK' /\ [Next]_vars => InitInv'
<1> SUFFICES ASSUME InitInv, DagTypeOK', [Next]_vars PROVE InitInv'
  OBVIOUS
<1>0. DagTypeOK
  BY DEF InitInv, TypeOK
<1>1. ASSUME NEW r \in Run, Schedule(r) PROVE InitInv'
  <2>1. \A q \in Run, u \in Task : ti'[q][u] = "success" => ti[q][u] = "success"
    <3>1. CASE UNCHANGED ti
      BY <3>1
    <3>2. ASSUME NEW t \in Task, NEW s \in {"running", "upstream_failed"}, SetTask(r, t, s)
          PROVE \A q \in Run, u \in Task : ti'[q][u] = "success" => ti[q][u] = "success"
      BY <1>0, <3>2, SetTaskFact DEF TaskState
    <3> QED
      BY <1>1, <3>1, <3>2 DEF Schedule, CreateRun, EndRun, StartTask, FailUpstream
  <2> QED
    BY <1>1, <2>1, QuietStep DEF Schedule
<1>2. ASSUME NEW r \in Run, Connect(r) PROVE InitInv'
  <2> DEFINE c == ConnectionIds[made[r] + 1]
  <2>1. made[r] \in 0 .. 6 /\ made[r] + 1 \in 1 .. 7 /\ c \in Connection
    BY <1>2, Ids DEF Connect, InitInv, TypeOK
  <2>2. rows' = [rows EXCEPT ![c] = 1] /\ rows \in [Connection -> {0, 1}]
    BY <1>2, <2>1 DEF Connect, InitInv, TypeOK
  <2>3. made' = [made EXCEPT ![r] = @ + 1] /\ made \in [Run -> 0 .. 7]
    BY <1>2, Ids DEF Connect, InitInv, TypeOK
  <2>4. TypeOK'
    BY <1>2, <2>1, <2>2, <2>3, Ids DEF Connect, InitInv, TypeOK
  <2>5. ASSUME NEW q \in Run, NEW i \in 1 .. made'[q]
        PROVE  rows'[ConnectionIds[i]] = 1
    <3>1. i \in 1 .. 7 /\ ConnectionIds[i] \in Connection
      BY <2>1, <2>3, Ids
    <3>2. CASE i \in 1 .. made[q]
      BY <2>1, <2>2, <3>1, <3>2 DEF InitInv, ConnectionInv
    <3>3. CASE i \notin 1 .. made[q]
      <4>1. q = r /\ i = made[r] + 1
        BY <2>1, <2>3, <3>3
      <4> QED
        BY <2>1, <2>2, <4>1
    <3> QED
      BY <3>2, <3>3
  <2>6. ti[r]["connections"] # "success"
    BY <1>2 DEF Connect
  <2>7. ConnectionInv'
    BY <1>2, <2>3, <2>5, <2>6 DEF Connect, dagVars, InitInv, ConnectionInv
  <2>8. CreatedInv'
    BY <1>2 DEF Connect, dagVars, InitInv, CreatedInv
  <2> QED
    BY <2>4, <2>7, <2>8 DEF InitInv
<1>3. ASSUME NEW r \in Run, Connected(r) PROVE InitInv'
  <2>1. SetTask(r, "connections", "success") /\ made[r] = 7
    BY <1>3, Ids DEF Connected, FinishTask
  <2>2. \A q \in Run, u \in Task :
           ti'[q][u] = IF q = r /\ u = "connections" THEN "success" ELSE ti[q][u]
    BY <1>0, <2>1, SetTaskFact, Graph, Names DEF TaskState
  <2> QED
    BY <1>3, <2>1, <2>2, QuietStep DEF Connected
<1>4. ASSUME NEW r \in Run, NEW t \in Task, Create(r, t) PROVE InitInv'
  <2>1. PICK s \in {"success", "failed"} : SetTask(r, t, s)
    BY <1>4 DEF Create, FinishTask, FailTask
  <2>2. \A q \in Run, u \in Task : ti'[q][u] = IF q = r /\ u = t THEN s ELSE ti[q][u]
    BY <1>0, <2>1, SetTaskFact DEF TaskState
  <2>3. t \in Database \cup Table /\ t # "connections"
    BY <1>4, Names DEF Create
  <2>4. TypeOK'
    BY <1>4, <2>3 DEF Create, InitInv, TypeOK
  <2>5. ConnectionInv'
    BY <1>4, <2>2, <2>3, Graph, Names DEF Create, InitInv, ConnectionInv
  <2>6. CreatedInv'
    BY <1>4, <2>2, Graph, Names DEF Create, InitInv, CreatedInv
  <2> QED
    BY <2>4, <2>5, <2>6 DEF InitInv
<1>5. ASSUME NEW r \in Run, NEW t \in Task, Knot(r, t) PROVE InitInv'
  <2>1. \A q \in Run, u \in Task :
           ti'[q][u] = IF q = r /\ u = t THEN "success" ELSE ti[q][u]
    BY <1>0, <1>5, SetTaskFact DEF Knot, FinishTask, TaskState
  <2> QED
    BY <1>5, <2>1, QuietStep DEF Knot
<1>6. ASSUME NEW r \in Run, NEW t \in Task, Fail(r, t) PROVE InitInv'
  BY <1>0, <1>6, FailFact, QuietStep DEF Fail
<1>7. CASE Stop \/ UNCHANGED vars
  BY <1>7 DEF Stop, vars, dagVars, InitInv, TypeOK, DagTypeOK, ConnectionInv, CreatedInv
<1> QED
  BY <1>1, <1>2, <1>3, <1>4, <1>5, <1>6, <1>7 DEF Next

\* What a successful task of any run wrote or created is there for good.
THEOREM InitInvariant == Spec => [](InitInv /\ DagInv)
<1>1. Init /\ DagTypeOK => InitInv
  BY Ids, Graph, Names
  DEF Init, DagInit, InitInv, TypeOK, ConnectionInv, CreatedInv
<1>2. InitInv /\ DagTypeOK' /\ [Next]_vars => InitInv'
  BY InitInvStep
<1>3. DagInv => DagTypeOK
  BY DEF DagInv
<1> QED
  BY <1>1, <1>2, <1>3, InitImplementsDag, DagInvariant, PTL DEF Spec

\* For any number of runs by hand and failures anywhere, no connection id
\* gets a second row.
THEOREM InitTypeCorrect == Spec => []TypeOK
<1>1. InitInv => TypeOK
  BY DEF InitInv
<1> QED
  BY <1>1, InitInvariant, PTL

-----------------------------------------------------------------------------
\* Once the first task of some run succeeded all connections are there.
LEMMA AllConnected ==
    ASSUME InitInv, NEW r \in Run, ti[r]["connections"] = "success"
    PROVE  \A c \in Connection : rows[c] = 1
<1>1. made[r] = 7
  BY DEF InitInv, ConnectionInv
<1>2. \A i \in 1 .. 7 : rows[ConnectionIds[i]] = 1
  BY <1>1 DEF InitInv, ConnectionInv
<1> QED
  BY <1>2, Ids

\* A task that executes follows the success of all that the chain t1 to t4
\* puts before it.
LEMMA Chain ==
    ASSUME DagInv, NEW r \in Run, NEW t \in Database \cup Table,
           ti[r][t] \in {"running", "success"}
    PROVE  /\ ti[r]["connections"] = "success"
           /\ t \in Table => /\ ti[r]["advworks_staging"] = "success"
                             /\ ti[r]["dv_raw"] = "success"
                             /\ ti[r]["dv_temp"] = "success"
<1>1. ASSUME NEW u \in Task, NEW w \in Upstream[u], ti[r][u] \in {"running", "success"}
      PROVE  ti[r][w] = "success"
  BY <1>1 DEF DagInv, UpstreamDone
<1>2. {"connections", "links_done"} \cup Database \cup Table \subseteq Task
  BY Graph, Names
<1>3. ti[r]["advworks_staging"] \in {"running", "success"} => ti[r]["connections"] = "success"
  BY <1>1, <1>2, Graph DEF Database
<1>4. ti[r]["dv_raw"] \in {"running", "success"} => ti[r]["advworks_staging"] = "success"
  BY <1>1, <1>2, Graph DEF Database
<1>5. ti[r]["dv_temp"] \in {"running", "success"} => ti[r]["dv_raw"] = "success"
  BY <1>1, <1>2, Graph DEF Database
<1>6. ti[r]["dv_star"] \in {"running", "success"} => ti[r]["dv_temp"] = "success"
  BY <1>1, <1>2, Graph DEF Database
<1>7. ti[r]["hub"] \in {"running", "success"} => ti[r]["dv_temp"] = "success"
  BY <1>1, <1>2, Graph DEF Table, Hub
<1>8. \A l \in Link : ti[r][l] \in {"running", "success"} => ti[r]["hub"] = "success"
  BY <1>1, <1>2, Graph DEF Table, Hub
<1>9. ti[r]["links_done"] \in {"running", "success"} => ti[r]["link"] = "success"
  BY <1>1, <1>2, Graph DEF Link
<1>10. \A s \in Sat : ti[r][s] \in {"running", "success"} => ti[r]["links_done"] = "success"
  BY <1>1, <1>2, Graph DEF Table
<1>11. t \in Table => ti[r]["dv_temp"] = "success"
  BY <1>7, <1>8, <1>9, <1>10 DEF Table, Hub, Link
<1> QED
  BY <1>3, <1>4, <1>5, <1>6, <1>11 DEF Database

\* No statement of the initialisation is ever refused for a connection or a
\* database that is missing, in a first run or in a later one.
THEOREM InitRefusesNothing == Spec => []NothingRefused
<1>1. InitInv /\ DagInv => NothingRefused
  <2> SUFFICES ASSUME InitInv, DagInv, NEW r \in Run, NEW t \in Task, ti[r][t] = "running"
               PROVE  CanRun(t)
    BY DEF NothingRefused
  <2>1. CASE t \in Database
    <3>1. rows["hive_default"] = 1
      BY <2>1, Chain, AllConnected, Ids
    <3>2. t \notin Table
      BY <2>1 DEF Database, Table, Hub, Link, Sat
    <3> QED
      BY <3>1, <3>2 DEF CanRun
  <2>2. CASE t \in Table
    <3>1. rows["hive_datavault_raw"] = 1
      BY <2>2, Chain, AllConnected, Ids DEF LoadConnection
    <3>2. "dv_raw" \in exists
      BY <2>2, Chain DEF InitInv, CreatedInv, Database
    <3>3. t \notin Database
      BY <2>2 DEF Database, Table, Hub, Link, Sat
    <3> QED
      BY <3>1, <3>2, <3>3 DEF CanRun
  <2> QED
    BY <2>1, <2>2 DEF CanRun
<1> QED
  BY <1>1, InitInvariant, PTL

\* A run of the initialisation that reached all_done has left every
\* connection, database and table the load works with.
THEOREM InitIsReady == Spec => []LoadReady
<1>1. InitInv /\ DagInv => LoadReady
  <2> SUFFICES ASSUME InitInv, DagInv, NEW r \in Run, ti[r]["all_done"] = "success"
               PROVE  /\ \A c \in LoadConnection : rows[c] = 1
                      /\ (Database \ {"dv_star"}) \cup Table \subseteq exists
    BY DEF LoadReady
  <2>1. \A u \in Task : ti[r][u] = "success" =>
            \A w \in Upstream[u] : ti[r][w] = "success"
    BY DEF DagInv, UpstreamDone
  <2>2. {"links_done", "all_done"} \cup Database \cup Table \subseteq Task
    BY Graph, Names
  <2>3. \A t \in Sat : ti[r][t] = "success"
    BY <2>1, <2>2, Graph
  <2>4. ti[r]["links_done"] = "success"
    BY <2>1, <2>2, <2>3, Graph DEF Sat, Table
  <2>5. \A t \in Link : ti[r][t] = "success"
    BY <2>1, <2>2, <2>4, Graph
  <2>6. \A t \in Hub : ti[r][t] = "success"
    BY <2>1, <2>2, <2>5, Graph DEF Link, Table
  <2>7. \A t \in Table : ti[r][t] = "success"
    BY <2>3, <2>5, <2>6 DEF Table
  <2>8. \A t \in Database \ {"dv_star"} : ti[r][t] = "success"
    BY <2>7, Chain DEF Table, Hub, Database
  <2>9. \A c \in LoadConnection : rows[c] = 1
    BY <2>7, Chain, AllConnected, Ids DEF Table, Hub
  <2> QED
    BY <2>7, <2>8, <2>9 DEF InitInv, CreatedInv
<1> QED
  BY <1>1, InitInvariant, PTL
=============================================================================
