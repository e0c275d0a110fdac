--------------------------- MODULE LinkLoadProofs ---------------------------
(***************************************************************************)
(* Theorems about the load of one relationship, for every source table,    *)
(* every number of daily runs, and whatever fails, times out or overlaps.  *)
(***************************************************************************)
EXTENDS LinkLoad, DagRunProofs

\* Only the listed tasks exist, and each has its upstream as drawn.
LEMMA Graph ==
    /\ Task = {"stage_parent", "stage_child", "hub", "link"}
    /\ Upstream["hub"] = {"stage_parent", "stage_child"}
    /\ Upstream["link"] = {"hub"}
  BY LinkAssumption DEF LoadTask, LoadUpstream

\* A task ends and its statement is gone.
Ends(r, t) ==
    /\ FinishTask(r, t) \/ FailTask(r, t)
    /\ read' = [read EXCEPT ![r] = [@ EXCEPT ![t] = NoRead]]
    /\ UNCHANGED <<today, parent, child>>

\* Each of the writing actions is the end of its task.
LEMMA WritesEnd ==
    ASSUME NEW r \in Run
    PROVE  /\ StageParent(r) => Ends(r, "stage_parent")
           /\ StageChild(r) => Ends(r, "stage_child")
           /\ WriteHub(r) => Ends(r, "hub")
           /\ WriteLink(r) => Ends(r, "link")
           /\ \A t \in Task : Fail(r, t) => Ends(r, t)
  BY DEF StageParent, StageChild, WriteHub, WriteLink, Fail, Complete, Ends, source

\* The end of a statement is the end of its task in the DAG.
LEMMA EndsIsDag == ASSUME NEW r \in Run, NEW t \in Task, Ends(r, t) PROVE DagNext
  BY DEF Ends, DagNext

\* Every step of the load is a step of the DAG or leaves the DAG alone.
LEMMA StepImplementsDag == [Next]_vars => [DagNext]_dagVars
<1> SUFFICES ASSUME [Next]_vars PROVE [DagNext]_dagVars
  OBVIOUS
<1>1. ASSUME NEW r \in Run, Schedule(r) PROVE DagNext
  BY <1>1 DEF Schedule, DagNext
<1>2. ASSUME NEW r \in Run, ReadHub(r) \/ ReadLink(r) PROVE UNCHANGED dagVars
  BY <1>2 DEF ReadHub, ReadLink, Read
<1>3. ASSUME NEW r \in Run,
             \/ StageParent(r) \/ StageChild(r) \/ WriteHub(r) \/ WriteLink(r)
             \/ \E t \in Task : Fail(r, t)
      PROVE DagNext
  BY <1>3, Graph, WritesEnd, EndsIsDag
<1>4. ASSUME \/ NextDay
             \/ \E p \in Parent, k \in BKey : EditParent(p, k)
             \/ \E c \in Child, p \in Parent : EditChild(c, p)
      PROVE UNCHANGED dagVars
  BY <1>4 DEF NextDay, EditParent, EditChild
<1>5. CASE Stop
  BY <1>5 DEF Stop, Idle
<1>6. CASE UNCHANGED vars
  BY <1>6 DEF vars
<1> QED
  BY <1>1, <1>2, <1>3, <1>4, <1>5, <1>6 DEF Next

\* The load is an Airflow DAG run: all that holds of every DAG holds of it.
THEOREM LinkImplementsDag == Spec => DagSpec
<1>1. Init => DagInit
  BY DEF Init
<1> QED
  BY <1>1, StepImplementsDag, PTL DEF Spec, DagSpec

-----------------------------------------------------------------------------
(***************************************************************************)
(* The part of the inductive invariant that holds for all nine links.      *)
(***************************************************************************)
\* A run, and all that it does, comes after its day.
Due ==
    \A r \in Run : /\ run[r] # "none" => r < today
                   /\ \A t \in Task : ti[r][t] # "none" => r < today

\* Only an executing task has a statement in flight.
ReadRunning ==
    \A r \in Run, t \in Task : read[r][t] # NoRead => ti[r][t] = "running"

\* A staging table exists once its task succeeded.
StagedThere ==
    \A r \in Run :
        /\ ti[r]["stage_parent"] = "success" => stagedParent[r] \in SUBSET BKey
        /\ ti[r]["stage_child"] = "success" => stagedChild[r] \in SUBSET Staged

\* What a hub statement has read, with the hub, covers what it loads from.
HubReadCovers ==
    \A r \in Run : read[r]["hub"] # NoRead => Feed(r) \subseteq read[r]["hub"] \cup HubKeys

HubCovers == \A r \in Run : ti[r]["hub"] = "success" => Feed(r) \subseteq HubKeys

InLink(b) == \E l \in link : l.child = b.child /\ l.parent = b.parent

LinkReadCovers ==
    \A r \in Run : read[r]["link"] # NoRead =>
        \A b \in stagedChild[r] : b \in read[r]["link"] \/ InLink(b)

LinkCovers == \A r \in Run : ti[r]["link"] = "success" => \A b \in stagedChild[r] : InLink(b)

Shape == TypeOK /\ DagInv /\ Due /\ ReadRunning /\ StagedThere

\* What a step does to the tasks and statements, in the words of the proofs.
LEMMA EndsFact ==
    ASSUME Shape, NEW r \in Run, NEW t \in Task, Ends(r, t)
    PROVE  /\ ti[r][t] = "running"
           /\ \A q \in Run, u \in Task :
                 /\ (q # r \/ u # t) => ti'[q][u] = ti[q][u] /\ read'[q][u] = read[q][u]
                 /\ ti'[q][u] = "success" => ti[q][u] \in {"running", "success"}
           /\ read'[r][t] = NoRead
           /\ read' \in [Run -> [Task -> {NoRead} \cup SUBSET (BKey \cup Staged)]]
           /\ \A q \in Run, u \in Task :
                 read'[q][u] = NoRead \/ read'[q][u] \in Snapshot(u)
           /\ ReadRunning' /\ Due'
<1> USE DEF Shape
<1>1. PICK s \in {"success", "failed"} : SetTask(r, t, s) /\ UNCHANGED run
  BY DEF Ends, FinishTask, FailTask
<1>2. \A q \in Run, u \in Task :
         ti'[q][u] = IF q = r /\ u = t THEN s ELSE ti[q][u]
  BY <1>1, SetTaskFact DEF TypeOK, TaskState
<1>3. ti[r][t] = "running"
  BY DEF Ends, FinishTask, FailTask
<1>4. \A q \in Run, u \in Task :
         read'[q][u] = IF q = r /\ u = t THEN NoRead ELSE read[q][u]
  BY DEF Ends, TypeOK
<1>5. /\ read' \in [Run -> [Task -> {NoRead} \cup SUBSET (BKey \cup Staged)]]
      /\ \A q \in Run, u \in Task :
            read'[q][u] = NoRead \/ read'[q][u] \in Snapshot(u)
  BY <1>4 DEF Ends, TypeOK
<1>6. ReadRunning'
  BY <1>2, <1>4 DEF ReadRunning
<1>7. Due'
  BY <1>1, <1>2, <1>3 DEF Due, Ends
<1> QED
  BY <1>2, <1>3, <1>4, <1>5, <1>6, <1>7

\* A statement starts: nothing but its own entry of `read` changes.
LEMMA ReadFact ==
    ASSUME Shape, NEW r \in Run, NEW t \in Task, NEW x \in Snapshot(t), Read(r, t, x)
    PROVE  /\ UNCHANGED <<run, ti, today, parent, child, stagedParent, stagedChild, hub, link>>
           /\ ti[r][t] = "running"
           /\ \A q \in Run, u \in Task :
                 read'[q][u] = IF q = r /\ u = t THEN x ELSE read[q][u]
           /\ read' \in [Run -> [Task -> {NoRead} \cup SUBSET (BKey \cup Staged)]]
<1> USE DEF Shape
<1>1. \A q \in Run, u \in Task :
         read'[q][u] = IF q = r /\ u = t THEN x ELSE read[q][u]
  BY DEF Read, TypeOK
<1>2. x \in SUBSET (BKey \cup Staged)
  BY Graph DEF Snapshot
<1>3. read' \in [Run -> [Task -> {NoRead} \cup SUBSET (BKey \cup Staged)]]
  BY <1>2 DEF Read, TypeOK
<1> QED
  BY <1>1, <1>3 DEF Read, dagVars, source, staging

\* The scheduler starts, skips and closes; it completes no task.
LEMMA ScheduleFact ==
    ASSUME Shape, DagInv', NEW r \in Run, Schedule(r)
    PROVE  /\ UNCHANGED <<today, parent, child, stagedParent, stagedChild, hub, link, read>>
           /\ \A q \in Run, u \in Task :
                 /\ ti[q][u] = "running" => ti'[q][u] = "running"
                 /\ ti'[q][u] = "success" => ti[q][u] = "success"
           /\ Due'
<1> USE DEF Shape
<1>1. UNCHANGED <<today, parent, child, stagedParent, stagedChild, hub, link, read>>
  BY DEF Schedule, source, staging
<1>2. CASE r < today /\ CreateRun(r)
  BY <1>1, <1>2 DEF CreateRun, Due, TypeOK, DagTypeOK
<1>3. CASE EndRun(r) \/ TimeoutRun(r)
  BY <1>1, <1>3 DEF EndRun, TimeoutRun, Due, TypeOK, DagTypeOK
<1>4. ASSUME NEW t \in Task, StartTask(r, t) \/ FailUpstream(r, t)
      PROVE  /\ \A q \in Run, u \in Task :
                   /\ ti[q][u] = "running" => ti'[q][u] = "running"
                   /\ ti'[q][u] = "success" => ti[q][u] = "success"
             /\ Due'
  <2>1. PICK s \in {"running", "upstream_failed"} : SetTask(r, t, s)
    BY <1>4 DEF StartTask, FailUpstream
  <2>2. \A q \in Run, u \in Task :
           ti'[q][u] = IF q = r /\ u = t THEN s ELSE ti[q][u]
    BY <2>1, SetTaskFact DEF TypeOK, TaskState
  <2>3. run' = run /\ run[r] = "running" /\ ti[r][t] = "none"
    BY <1>4 DEF StartTask, FailUpstream
  <2>4. Due'
    BY <1>1, <2>2, <2>3 DEF Due
  <2> QED
    BY <2>2, <2>3, <2>4
<1> QED
  BY <1>1, <1>2, <1>3, <1>4 DEF Schedule, CreateRun, EndRun, TimeoutRun

\* The tables are empty and no statement is in flight at the start.
LEMMA ShapeInit == Init => Shape
<1> SUFFICES ASSUME Init PROVE Shape
  OBVIOUS
<1>1. DagInv
  BY DagInvInit DEF Init
<1>2. TypeOK
  <2>1. today \in 1 .. Runs + 1 /\ 0 \in 0 .. Runs
    BY DagAssumption DEF Init
  <2>2. /\ parent \in [Parent -> [key : BKey \cup {Absent}, mod : 0 .. Runs]]
        /\ child \in [Child -> [parent : Parent \cup {Absent}, mod : 0 .. Runs]]
    BY <2>1 DEF Init
  <2> QED
    BY <1>1, <2>1, <2>2 DEF Init, TypeOK, DagInv
<1>3. Due /\ ReadRunning /\ StagedThere
  BY Graph DEF Init, DagInit, Due, ReadRunning, StagedThere
<1> QED
  BY <1>1, <1>2, <1>3 DEF Shape

\* What the source does: only the source and the calendar move.
LEMMA SourceFact ==
    ASSUME Shape,
           \/ NextDay
           \/ \E p \in Parent, k \in BKey : EditParent(p, k)
           \/ \E c \in Child, p \in Parent : EditChild(c, p)
    PROVE  /\ UNCHANGED <<run, ti, stagedParent, stagedChild, hub, link, read>>
           /\ today' \in 1 .. Runs + 1 /\ today' >= today
           /\ parent' \in [Parent -> [key : BKey \cup {Absent}, mod : 0 .. Runs]]
           /\ child' \in [Child -> [parent : Parent \cup {Absent}, mod : 0 .. Runs]]
           /\ ForeignKey'
<1> USE LinkAssumption, DagAssumption DEF Shape
<1>1. UNCHANGED <<run, ti, stagedParent, stagedChild, hub, link, read>>
  BY DEF NextDay, EditParent, EditChild, dagVars, staging
<1>2. CASE NextDay
  BY <1>1, <1>2 DEF NextDay, TypeOK, source, ForeignKey
<1>3. ASSUME NEW p \in Parent, NEW k \in BKey, EditParent(p, k)
      PROVE  /\ today' \in 1 .. Runs + 1 /\ today' >= today
             /\ parent' \in [Parent -> [key : BKey \cup {Absent}, mod : 0 .. Runs]]
             /\ child' \in [Child -> [parent : Parent \cup {Absent}, mod : 0 .. Runs]]
             /\ ForeignKey'
  <2>1. today' = today /\ child' = child /\ today \in 0 .. Runs /\ today' \in 1 .. Runs + 1
    BY <1>3 DEF EditParent, TypeOK
  <2>2. parent' = [parent EXCEPT ![p] = [key |-> k, mod |-> today]]
    BY <1>3 DEF EditParent
  <2>3. parent' \in [Parent -> [key : BKey \cup {Absent}, mod : 0 .. Runs]]
    BY <2>1, <2>2 DEF TypeOK
  <2>4. \A q \in Parent : parent[q].key # Absent => parent'[q].key # Absent
    BY <2>2 DEF TypeOK
  <2>5. ForeignKey'
    BY <2>1, <2>4 DEF TypeOK, ForeignKey
  <2> QED
    BY <2>1, <2>3, <2>5 DEF TypeOK
<1>4. ASSUME NEW c \in Child, NEW p \in Parent, EditChild(c, p)
      PROVE  /\ today' \in 1 .. Runs + 1 /\ today' >= today
             /\ parent' \in [Parent -> [key : BKey \cup {Absent}, mod : 0 .. Runs]]
             /\ child' \in [Child -> [parent : Parent \cup {Absent}, mod : 0 .. Runs]]
             /\ ForeignKey'
  <2>1. today' = today /\ parent' = parent /\ today \in 0 .. Runs /\ today' \in 1 .. Runs + 1
    BY <1>4 DEF EditChild, TypeOK
  <2>2. child' = [child EXCEPT ![c] = [parent |-> p, mod |-> today]] /\ parent[p].key # Absent
    BY <1>4 DEF EditChild
  <2>3. child' \in [Child -> [parent : Parent \cup {Absent}, mod : 0 .. Runs]]
    BY <2>1, <2>2 DEF TypeOK
  <2>4. ForeignKey'
    BY <2>1, <2>2 DEF TypeOK, ForeignKey
  <2> QED
    BY <2>1, <2>3, <2>4 DEF TypeOK
<1> QED
  BY <1>1, <1>2, <1>3, <1>4

\* The queries return rows of the shape of their tables.
LEMMA QueryFact ==
    ASSUME Shape, NEW r \in Run
    PROVE  ParentQuery(r) \in SUBSET BKey /\ ChildQuery(r) \in SUBSET Staged
<1>1. ParentQuery(r) \in SUBSET BKey
  BY DEF Shape, TypeOK, ParentQuery
<1>2. \A c \in Child : child[c].parent # Absent => parent[child[c].parent].key \in BKey
  BY DEF Shape, TypeOK, ForeignKey
<1>3. ChildQuery(r) \in SUBSET Staged
  BY <1>2 DEF ChildQuery, Staged
<1> QED
  BY <1>1, <1>3

\* A hub or link statement that starts finds its inputs complete.
LEMMA InputsThere ==
    ASSUME Shape, NEW r \in Run
    PROVE  /\ ti[r]["hub"] \in {"running", "success"} =>
                 /\ ti[r]["stage_parent"] = "success" /\ ti[r]["stage_child"] = "success"
                 /\ stagedParent[r] \in SUBSET BKey /\ stagedChild[r] \in SUBSET Staged
                 /\ Feed(r) \in SUBSET BKey
           /\ ti[r]["link"] \in {"running", "success"} => ti[r]["hub"] = "success"
<1>1. ASSUME ti[r]["hub"] \in {"running", "success"}
      PROVE  /\ ti[r]["stage_parent"] = "success" /\ ti[r]["stage_child"] = "success"
             /\ stagedParent[r] \in SUBSET BKey /\ stagedChild[r] \in SUBSET Staged
  BY <1>1, Graph DEF Shape, DagInv, UpstreamDone, StagedThere
<1>2. stagedParent[r] \in SUBSET BKey /\ stagedChild[r] \in SUBSET Staged
         => Feed(r) \in SUBSET BKey
  BY DEF Feed, Staged
<1> QED
  BY <1>1, <1>2, Graph DEF Shape, DagInv, UpstreamDone

\* What a hub or link statement reads has the shape of its table.
LEMMA ReadsWellTyped ==
    ASSUME Shape, NEW r \in Run
    PROVE  /\ ReadHub(r) => Read(r, "hub", HubQuery(r)) /\ HubQuery(r) \in Snapshot("hub")
           /\ ReadLink(r) => Read(r, "link", LinkQuery(r)) /\ LinkQuery(r) \in Snapshot("link")
<1>1. ReadHub(r) => HubQuery(r) \in SUBSET BKey
  BY InputsThere DEF ReadHub, Read, HubQuery
<1>2. ReadLink(r) => LinkQuery(r) \in SUBSET Staged
  BY InputsThere DEF ReadLink, Read, LinkQuery
<1> QED
  BY <1>1, <1>2 DEF ReadHub, ReadLink, Snapshot

-----------------------------------------------------------------------------
\* No step stores a row or a snapshot of another shape.
LEMMA ShapeStep ==
    ASSUME Shape, DagInv', [Next]_vars
    PROVE  Shape'
<1> USE Graph DEF Shape
\* A step that leaves the source and the tables alone and completes no task.
<1>1. ASSUME UNCHANGED <<parent, child, stagedParent, stagedChild, hub, link>>,
             today' = today,
             \A q \in Run, u \in Task : ti'[q][u] = "success" => ti[q][u] = "success",
             read' \in [Run -> [Task -> {NoRead} \cup SUBSET (BKey \cup Staged)]],
             \A q \in Run, u \in Task : read'[q][u] = NoRead \/ read'[q][u] \in Snapshot(u),
             Due', ReadRunning'
      PROVE  Shape'
  <2>1. TypeOK'
    BY <1>1 DEF TypeOK, DagInv, ForeignKey
  <2>2. StagedThere'
    BY <1>1 DEF StagedThere
  <2> QED
    BY <1>1, <2>1, <2>2
<1>2. ASSUME NEW r \in Run, Schedule(r) PROVE Shape'
  BY <1>1, <1>2, ScheduleFact DEF TypeOK, ReadRunning
<1>3. ASSUME NEW r \in Run, ReadHub(r) \/ ReadLink(r) PROVE Shape'
  <2>1. ASSUME NEW t \in Task, NEW x \in Snapshot(t), Read(r, t, x) PROVE Shape'
    <3>1. /\ UNCHANGED <<run, ti, today, parent, child, stagedParent, stagedChild, hub, link>>
          /\ ti[r][t] = "running"
          /\ read' \in [Run -> [Task -> {NoRead} \cup SUBSET (BKey \cup Staged)]]
          /\ \A q \in Run, u \in Task :
                read'[q][u] = IF q = r /\ u = t THEN x ELSE read[q][u]
      BY <2>1, ReadFact
    <3>2. \A q \in Run, u \in Task : read'[q][u] = NoRead \/ read'[q][u] \in Snapshot(u)
      BY <3>1 DEF TypeOK
    <3>3. Due' /\ ReadRunning'
      BY <3>1 DEF Due, ReadRunning
    <3> QED
      BY <1>1, <3>1, <3>2, <3>3
  <2>2. CASE ReadHub(r)
    <3>1. Read(r, "hub", HubQuery(r)) /\ HubQuery(r) \in Snapshot("hub") /\ "hub" \in Task
      BY <2>2, ReadsWellTyped
    <3> QED
      BY <2>1, <3>1
  <2>3. CASE ReadLink(r)
    <3>1. Read(r, "link", LinkQuery(r)) /\ LinkQuery(r) \in Snapshot("link") /\ "link" \in Task
      BY <2>3, ReadsWellTyped
    <3> QED
      BY <2>1, <3>1
  <2> QED
    BY <1>3, <2>2, <2>3
<1>4. ASSUME NEW r \in Run, NEW t \in Task, Ends(r, t),
             stagedParent' \in [Run -> (SUBSET BKey) \cup {NoTable}],
             stagedChild' \in [Run -> (SUBSET Staged) \cup {NoTable}],
             hub' \in SUBSET [key : BKey, dtm : Run],
             link' \in SUBSET [child : Child, parent : BKey, dtm : Run]
      PROVE  TypeOK' /\ Due' /\ ReadRunning'
  <2>1. Due' /\ ReadRunning'
    BY <1>4, EndsFact
  <2>2. TypeOK'
    BY <1>4, EndsFact DEF TypeOK, DagInv, ForeignKey, Ends
  <2> QED
    BY <2>1, <2>2
<1>5. ASSUME NEW r \in Run, StageParent(r) PROVE Shape'
  <2>1. /\ Ends(r, "stage_parent") /\ UNCHANGED <<stagedChild, hub, link>>
        /\ stagedParent' = [stagedParent EXCEPT ![r] = ParentQuery(r)]
    BY <1>5, WritesEnd DEF StageParent
  <2>2. /\ stagedParent' \in [Run -> (SUBSET BKey) \cup {NoTable}]
        /\ \A q \in Run : stagedParent'[q] = IF q = r THEN ParentQuery(r) ELSE stagedParent[q]
    BY <2>1, QueryFact DEF TypeOK
  <2>3. TypeOK' /\ Due' /\ ReadRunning'
    BY <1>4, <2>1, <2>2 DEF TypeOK
  <2>4. StagedThere'
    BY <2>1, <2>2, EndsFact, QueryFact DEF StagedThere
  <2> QED
    BY <2>3, <2>4
<1>6. ASSUME NEW r \in Run, StageChild(r) PROVE Shape'
  <2>1. /\ Ends(r, "stage_child") /\ UNCHANGED <<stagedParent, hub, link>>
        /\ stagedChild' = [stagedChild EXCEPT ![r] = ChildQuery(r)]
    BY <1>6, WritesEnd DEF StageChild
  <2>2. /\ stagedChild' \in [Run -> (SUBSET Staged) \cup {NoTable}]
        /\ \A q \in Run : stagedChild'[q] = IF q = r THEN ChildQuery(r) ELSE stagedChild[q]
    BY <2>1, QueryFact DEF TypeOK
  <2>3. TypeOK' /\ Due' /\ ReadRunning'
    BY <1>4, <2>1, <2>2 DEF TypeOK
  <2>4. StagedThere'
    BY <2>1, <2>2, EndsFact, QueryFact DEF StagedThere
  <2> QED
    BY <2>3, <2>4
<1>7. ASSUME NEW r \in Run, WriteHub(r) \/ WriteLink(r) PROVE Shape'
  <2>1. hub' \in SUBSET [key : BKey, dtm : Run]
    BY <1>7 DEF WriteHub, WriteLink, TypeOK, Snapshot
  <2>2. link' \in SUBSET [child : Child, parent : BKey, dtm : Run]
    <3>1. CASE WriteHub(r)
      BY <3>1 DEF WriteHub, TypeOK
    <3>2. CASE WriteLink(r)
      <4>1. read[r]["link"] \in SUBSET Staged
        BY <3>2 DEF WriteLink, TypeOK, Snapshot
      <4> QED
        BY <3>2, <4>1 DEF WriteLink, TypeOK, Staged
    <3> QED
      BY <1>7, <3>1, <3>2
  <2>3. /\ Ends(r, "hub") \/ Ends(r, "link")
        /\ UNCHANGED <<stagedParent, stagedChild>>
    BY <1>7, WritesEnd DEF WriteHub, WriteLink, staging
  <2>4. TypeOK' /\ Due' /\ ReadRunning'
    BY <1>4, <2>1, <2>2, <2>3 DEF TypeOK
  <2>5. StagedThere'
    BY <2>3, EndsFact DEF StagedThere
  <2> QED
    BY <2>4, <2>5
<1>8. ASSUME NEW r \in Run, NEW t \in Task, Fail(r, t) PROVE Shape'
  <2>1. Ends(r, t) /\ UNCHANGED <<stagedParent, stagedChild, hub, link>>
    BY <1>8, WritesEnd DEF Fail, staging
  <2>2. \A q \in Run, u \in Task : ti'[q][u] = "success" => ti[q][u] = "success"
    <3>1. DagTypeOK /\ FailTask(r, t)
      BY <1>8 DEF Fail, TypeOK
    <3> QED
      BY <3>1, FailFact
  <2>3. /\ read' \in [Run -> [Task -> {NoRead} \cup SUBSET (BKey \cup Staged)]]
        /\ \A q \in Run, u \in Task : read'[q][u] = NoRead \/ read'[q][u] \in Snapshot(u)
        /\ Due' /\ ReadRunning'
    BY <2>1, EndsFact
  <2>4. UNCHANGED <<today, parent, child>>
    BY <2>1 DEF Ends
  <2> QED
    BY <1>1, <2>1, <2>2, <2>3, <2>4
<1>9. ASSUME \/ NextDay
             \/ \E p \in Parent, k \in BKey : EditParent(p, k)
             \/ \E c \in Child, p \in Parent : EditChild(c, p)
      PROVE Shape'
  <2>1. TypeOK' /\ StagedThere' /\ ReadRunning'
    BY <1>9, SourceFact DEF TypeOK, StagedThere, ReadRunning, DagInv
  <2>2. Due'
    BY <1>9, SourceFact, DagAssumption DEF Due, TypeOK, Run
  <2> QED
    BY <2>1, <2>2
<1>10. CASE Stop \/ UNCHANGED vars
  <2>1. UNCHANGED <<run, ti, today, parent, child, stagedParent, stagedChild, hub, link, read>>
    BY <1>10 DEF Stop, Idle, vars, dagVars, source, staging
  <2> QED
    BY <2>1 DEF TypeOK, DagInv, ForeignKey, Due, ReadRunning, StagedThere
<1> QED
  BY <1>2, <1>3, <1>5, <1>6, <1>7, <1>8, <1>9, <1>10 DEF Next

\* Tables and statements in flight always hold rows of their shape, and no
\* run touches the warehouse before its day is over.
THEOREM LinkShape == Spec => []Shape
<1>1. Spec => []DagInv
  BY LinkImplementsDag, DagInvariant, PTL
<1> QED
  BY <1>1, ShapeInit, ShapeStep, PTL DEF Spec

\* Tables and statements in flight hold rows of their shape, and the source
\* keeps its foreign key, for all nine links.
THEOREM LinkTypeCorrect == Spec => []TypeOK
<1>1. Shape => TypeOK
  BY DEF Shape
<1> QED
  BY <1>1, LinkShape, PTL

-----------------------------------------------------------------------------
(***************************************************************************)
(* What a successful hub or link task has covered stays covered: both      *)
(* tables only grow, and staging tables do not change under them.          *)
(***************************************************************************)
CoverInv ==
    /\ HubReadCovers
    /\ HubCovers
    /\ MatchChild => LinkReadCovers /\ LinkCovers

\* Nothing is staged or recorded at the start.
LEMMA CoverInit == Init => CoverInv
  BY Graph DEF Init, DagInit, CoverInv, HubReadCovers, HubCovers, LinkReadCovers, LinkCovers

\* The part of a step every coverage argument needs.
LEMMA WriteHubFact ==
    ASSUME Shape, NEW r \in Run, WriteHub(r)
    PROVE  /\ read[r]["hub"] \in SUBSET BKey /\ HubKeys' = HubKeys \cup read[r]["hub"]
           /\ UNCHANGED <<stagedParent, stagedChild, link>>
<1> DEFINE new == {[key |-> k, dtm |-> r] : k \in read[r]["hub"]}
<1>1. hub' = hub \cup new /\ read[r]["hub"] # NoRead
  BY DEF WriteHub
<1>2. \A h \in new : h.key \in read[r]["hub"]
  OBVIOUS
<1>3. ASSUME NEW k \in read[r]["hub"] PROVE \E h \in new : h.key = k
  <2>1. [key |-> k, dtm |-> r] \in new /\ [key |-> k, dtm |-> r].key = k
    OBVIOUS
  <2> QED
    BY <2>1
<1>4. read[r]["hub"] \in SUBSET BKey
  BY <1>1, Graph DEF Shape, TypeOK, Snapshot
<1>5. UNCHANGED <<stagedParent, stagedChild, link>>
  BY DEF WriteHub, staging
<1> HIDE DEF new
<1>6. HubKeys' = HubKeys \cup read[r]["hub"]
  BY <1>1, <1>2, <1>3 DEF HubKeys
<1> QED
  BY <1>4, <1>5, <1>6

\* Writing the link adds what its statement read and nothing else.
LEMMA WriteLinkFact ==
    ASSUME Shape, NEW r \in Run, WriteLink(r)
    PROVE  /\ read[r]["link"] \in SUBSET Staged
           /\ UNCHANGED <<stagedParent, stagedChild, hub>>
           /\ \A b : InLink(b) => InLink(b)'
           /\ \A b \in read[r]["link"] : InLink(b)'
           /\ \A l \in link' : l \in link \/ \E b \in read[r]["link"] : l.parent = b.parent
<1> DEFINE new == {[child |-> b.child, parent |-> b.parent, dtm |-> r] : b \in read[r]["link"]}
<1>1. link' = link \cup new /\ read[r]["link"] # NoRead
  BY DEF WriteLink
<1>2. ASSUME NEW b \in read[r]["link"]
      PROVE  \E l \in new : l.child = b.child /\ l.parent = b.parent
  <2>1. [child |-> b.child, parent |-> b.parent, dtm |-> r] \in new
    OBVIOUS
  <2> QED
    BY <2>1
<1>3. \A l \in new : \E b \in read[r]["link"] : l.parent = b.parent
  OBVIOUS
<1>4. read[r]["link"] \in SUBSET Staged
  BY <1>1, Graph DEF Shape, TypeOK, Snapshot
<1>5. UNCHANGED <<stagedParent, stagedChild, hub>>
  BY DEF WriteLink, staging
<1> HIDE DEF new
<1> QED
  BY <1>1, <1>2, <1>3, <1>4, <1>5 DEF InLink

\* No step makes a hub or link lose what a successful task recorded.
LEMMA CoverStep ==
    ASSUME Shape, Shape', CoverInv, [Next]_vars
    PROVE  CoverInv'
<1> USE Graph DEF CoverInv
\* Tables, and what is in flight, unchanged or ended; nothing completes.
<1>1. ASSUME UNCHANGED <<stagedParent, stagedChild, hub, link>>,
             \A q \in Run, u \in Task :
                /\ ti'[q][u] = "success" => ti[q][u] = "success"
                /\ read'[q][u] # NoRead => read'[q][u] = read[q][u]
      PROVE  CoverInv'
  <2>1. \A q \in Run : Feed(q)' = Feed(q)
    BY <1>1 DEF Feed
  <2>2. HubKeys' = HubKeys /\ \A b : InLink(b)' <=> InLink(b)
    BY <1>1 DEF HubKeys, InLink
  <2>3. HubReadCovers' /\ HubCovers'
    BY <1>1, <2>1, <2>2 DEF HubReadCovers, HubCovers
  <2>4. MatchChild => LinkReadCovers' /\ LinkCovers'
    BY <1>1, <2>2 DEF LinkReadCovers, LinkCovers
  <2> QED
    BY <2>3, <2>4
<1>2. ASSUME NEW r \in Run, Schedule(r) PROVE CoverInv'
  <2>1. DagInv'
    BY DEF Shape
  <2> QED
    BY <1>1, <1>2, <2>1, ScheduleFact
<1>3. ASSUME NEW r \in Run, ReadHub(r) PROVE CoverInv'
  <2>1. Read(r, "hub", HubQuery(r)) /\ HubQuery(r) \in Snapshot("hub")
    BY <1>3, ReadsWellTyped
  <2>2. /\ UNCHANGED <<run, ti, stagedParent, stagedChild, hub, link>>
        /\ \A q \in Run, u \in Task :
              read'[q][u] = IF q = r /\ u = "hub" THEN HubQuery(r) ELSE read[q][u]
    BY <2>1, ReadFact
  <2>3. Feed(r) \subseteq HubQuery(r) \cup HubKeys
    BY DEF HubQuery
  <2>4. \A q \in Run : Feed(q)' = Feed(q)
    BY <2>2 DEF Feed
  <2>5. HubReadCovers' /\ HubCovers'
    BY <2>2, <2>3, <2>4 DEF HubReadCovers, HubCovers, HubKeys
  <2>6. MatchChild => LinkReadCovers' /\ LinkCovers'
    BY <2>2 DEF LinkReadCovers, LinkCovers, InLink
  <2> QED
    BY <2>5, <2>6
<1>4. ASSUME NEW r \in Run, ReadLink(r) PROVE CoverInv'
  <2>1. Read(r, "link", LinkQuery(r)) /\ LinkQuery(r) \in Snapshot("link")
    BY <1>4, ReadsWellTyped
  <2>2. /\ UNCHANGED <<run, ti, stagedParent, stagedChild, hub, link>>
        /\ \A q \in Run, u \in Task :
              read'[q][u] = IF q = r /\ u = "link" THEN LinkQuery(r) ELSE read[q][u]
    BY <2>1, ReadFact
  <2>3. MatchChild => \A b \in stagedChild[r] : b \in LinkQuery(r) \/ InLink(b)
    BY DEF LinkQuery, Linked, InLink
  <2>4. \A q \in Run : Feed(q)' = Feed(q)
    BY <2>2 DEF Feed
  <2>5. HubReadCovers' /\ HubCovers'
    BY <2>2, <2>4 DEF HubReadCovers, HubCovers, HubKeys
  <2>6. MatchChild => LinkReadCovers' /\ LinkCovers'
    BY <2>2, <2>3 DEF LinkReadCovers, LinkCovers, InLink
  <2> QED
    BY <2>5, <2>6
\* A staging task of a run ends before its hub and link tasks start.
<1>5. ASSUME NEW r \in Run, StageParent(r) \/ StageChild(r) PROVE CoverInv'
  <2>1. /\ Ends(r, "stage_parent") \/ Ends(r, "stage_child")
        /\ UNCHANGED <<hub, link>>
    BY <1>5, WritesEnd DEF StageParent, StageChild
  <2>2. \A q \in Run : q # r => stagedParent'[q] = stagedParent[q] /\ stagedChild'[q] = stagedChild[q]
    BY <1>5 DEF StageParent, StageChild, Shape, TypeOK
  <2>3. ti[r]["stage_parent"] = "running" \/ ti[r]["stage_child"] = "running"
    BY <2>1, EndsFact
  <2>4. /\ ti[r]["hub"] \notin {"running", "success"}
        /\ ti[r]["link"] \notin {"running", "success"}
    BY <2>3, InputsThere
  <2>5. /\ read[r]["hub"] = NoRead /\ read[r]["link"] = NoRead
        /\ \A q \in Run, u \in {"hub", "link"} :
              ti'[q][u] = ti[q][u] /\ read'[q][u] = read[q][u]
    BY <2>1, <2>4, EndsFact DEF Shape, ReadRunning
  <2>6. \A q \in Run : q # r => Feed(q)' = Feed(q)
    BY <2>2 DEF Feed
  <2>7. HubReadCovers' /\ HubCovers'
    BY <2>1, <2>4, <2>5, <2>6 DEF HubReadCovers, HubCovers, HubKeys
  <2>8. MatchChild => LinkReadCovers' /\ LinkCovers'
    BY <2>1, <2>2, <2>4, <2>5 DEF LinkReadCovers, LinkCovers, InLink
  <2> QED
    BY <2>7, <2>8
<1>6. ASSUME NEW r \in Run, WriteHub(r) PROVE CoverInv'
  <2>1. Ends(r, "hub") /\ read[r]["hub"] # NoRead
    BY <1>6, WritesEnd DEF WriteHub
  <2>2. /\ HubKeys' = HubKeys \cup read[r]["hub"]
        /\ UNCHANGED <<stagedParent, stagedChild, link>>
    BY <1>6, WriteHubFact
  <2>3. /\ read'[r]["hub"] = NoRead
        /\ \A q \in Run, u \in Task :
              (q # r \/ u # "hub") => ti'[q][u] = ti[q][u] /\ read'[q][u] = read[q][u]
    BY <2>1, EndsFact
  <2>4. \A q \in Run : Feed(q)' = Feed(q)
    BY <2>2 DEF Feed
  <2>5. Feed(r) \subseteq HubKeys'
    BY <2>1, <2>2 DEF HubReadCovers
  <2>6. HubReadCovers' /\ HubCovers'
    BY <2>2, <2>3, <2>4, <2>5 DEF HubReadCovers, HubCovers
  <2>7. MatchChild => LinkReadCovers' /\ LinkCovers'
    BY <2>2, <2>3 DEF LinkReadCovers, LinkCovers, InLink
  <2> QED
    BY <2>6, <2>7
<1>7. ASSUME NEW r \in Run, WriteLink(r) PROVE CoverInv'
  <2>1. Ends(r, "link") /\ read[r]["link"] # NoRead
    BY <1>7, WritesEnd DEF WriteLink
  <2>2. /\ UNCHANGED <<stagedParent, stagedChild, hub>>
        /\ \A b : InLink(b) => InLink(b)'
        /\ \A b \in read[r]["link"] : InLink(b)'
    BY <1>7, WriteLinkFact
  <2>3. /\ read'[r]["link"] = NoRead
        /\ \A q \in Run, u \in Task :
              (q # r \/ u # "link") => ti'[q][u] = ti[q][u] /\ read'[q][u] = read[q][u]
    BY <2>1, EndsFact
  <2>4. \A q \in Run : Feed(q)' = Feed(q)
    BY <2>2 DEF Feed
  <2>5. HubReadCovers' /\ HubCovers'
    BY <2>2, <2>3, <2>4 DEF HubReadCovers, HubCovers, HubKeys
  <2>6. MatchChild => \A b \in stagedChild[r] : InLink(b)'
    BY <2>1, <2>2 DEF LinkReadCovers
  <2>7. MatchChild => LinkReadCovers' /\ LinkCovers'
    BY <2>2, <2>3, <2>6 DEF LinkReadCovers, LinkCovers
  <2> QED
    BY <2>5, <2>7
<1>8. ASSUME NEW r \in Run, NEW t \in Task, Fail(r, t) PROVE CoverInv'
  <2>1. Ends(r, t) /\ UNCHANGED <<stagedParent, stagedChild, hub, link>>
    BY <1>8, WritesEnd DEF Fail, staging
  <2>2. \A q \in Run, u \in Task : ti'[q][u] = "success" => ti[q][u] = "success"
    <3>1. DagTypeOK /\ FailTask(r, t)
      BY <1>8 DEF Fail, Shape, TypeOK
    <3> QED
      BY <3>1, FailFact
  <2>3. \A q \in Run, u \in Task : read'[q][u] # NoRead => read'[q][u] = read[q][u]
    BY <2>1, EndsFact
  <2> QED
    BY <1>1, <2>1, <2>2, <2>3
<1>9. ASSUME \/ NextDay
             \/ \E p \in Parent, k \in BKey : EditParent(p, k)
             \/ \E c \in Child, p \in Parent : EditChild(c, p)
             \/ Stop
             \/ UNCHANGED vars
      PROVE CoverInv'
  <2>1. UNCHANGED <<ti, stagedParent, stagedChild, hub, link, read>>
    BY <1>9 DEF NextDay, EditParent, EditChild, Stop, Idle, vars, dagVars, staging
  <2> QED
    BY <1>1, <2>1
<1> QED
  BY <1>2, <1>3, <1>4, <1>5, <1>6, <1>7, <1>8, <1>9 DEF Next

\* What a successful hub or link task found staged stays recorded.
THEOREM CoverInvariant == Spec => []CoverInv
  BY LinkShape, CoverInit, CoverStep, PTL DEF Spec

\* When the hub is loaded from the staging table of the entity itself, what
\* that run's satellite will find staged has its anchor in the hub.
THEOREM FeedIsAnchored == ASSUME HubFromParent PROVE Spec => []FeedAnchored
<1>1. CoverInv => FeedAnchored
  BY DEF CoverInv, HubCovers, Feed, FeedAnchored
<1> QED
  BY <1>1, CoverInvariant, PTL

\* A link that compares all the columns its hash key is made of records every
\* relationship it found staged.
THEOREM LinkIsComplete == ASSUME MatchChild PROVE Spec => []LinkComplete
<1>1. CoverInv => LinkComplete
  BY DEF CoverInv, LinkCovers, InLink, LinkComplete
<1> QED
  BY <1>1, CoverInvariant, PTL

-----------------------------------------------------------------------------
(***************************************************************************)
(* Why a link is anchored although the child is staged at another moment   *)
(* than its parent.  The child's filter on modifieddate only passes rows   *)
(* of the loaded day; the day is over, so the parents of those rows were   *)
(* all in the source when the run staged them in full, before or after.    *)
(***************************************************************************)
Anchoring == HubFromParent /\ ~ParentDelta /\ ChildDelta /\ ~Rekeying

\* A staged reference still names a parent of the source.
KeysSettled ==
    \A r \in Run : ti[r]["stage_child"] = "success" =>
        \A b \in stagedChild[r] : \E p \in Parent : parent[p].key = b.parent

\* The staged parents of a run include those of every child as old as its day.
ParentsSeen ==
    \A r \in Run : ti[r]["stage_parent"] = "success" =>
        \A c \in Child :
            (child[c].parent # Absent /\ child[c].mod <= r) =>
                parent[child[c].parent].key \in stagedParent[r]

ChildrenCovered ==
    \A r \in Run :
        (ti[r]["stage_parent"] = "success" /\ ti[r]["stage_child"] = "success") =>
            \A b \in stagedChild[r] : b.parent \in stagedParent[r]

ReadAnchored ==
    \A r \in Run : read[r]["link"] # NoRead =>
        \A b \in read[r]["link"] : b.parent \in HubKeys

AnchorInv ==
    KeysSettled /\ ParentsSeen /\ ChildrenCovered /\ ReadAnchored /\ LinkAnchored

\* There is no link row and no staged child at the start.
LEMMA AnchorInit == Init => AnchorInv
  BY Graph DEF Init, DagInit, AnchorInv, KeysSettled, ParentsSeen, ChildrenCovered,
               ReadAnchored, LinkAnchored

\* The source's own steps disturb the two conjuncts that mention it.
LEMMA AnchorSource ==
    ASSUME Anchoring, Shape, AnchorInv,
           \/ NextDay
           \/ \E p \in Parent, k \in BKey : EditParent(p, k)
           \/ \E c \in Child, p \in Parent : EditChild(c, p)
    PROVE  KeysSettled' /\ ParentsSeen'
<1> USE LinkAssumption, Graph DEF Shape, AnchorInv
<1>1. UNCHANGED <<ti, stagedParent, stagedChild>>
  BY SourceFact
<1>2. CASE NextDay
  BY <1>1, <1>2 DEF NextDay, source, KeysSettled, ParentsSeen
<1>3. ASSUME NEW p \in Parent, NEW k \in BKey, EditParent(p, k)
      PROVE  KeysSettled' /\ ParentsSeen'
  <2>1. child' = child /\ \A q \in Parent : parent[q].key # Absent => parent'[q].key = parent[q].key
    BY <1>3 DEF EditParent, TypeOK, Anchoring
  <2>2. KeysSettled'
    <3>1. \A r \in Run : ti[r]["stage_child"] = "success" =>
             \A b \in stagedChild[r] : b.parent # Absent
      BY DEF StagedThere, Staged
    <3> QED
      BY <1>1, <2>1, <3>1 DEF KeysSettled
  <2>3. ParentsSeen'
    <3>1. \A c \in Child : child[c].parent # Absent =>
             parent'[child[c].parent].key = parent[child[c].parent].key
      BY <2>1 DEF TypeOK, ForeignKey
    <3> QED
      BY <1>1, <2>1, <3>1 DEF ParentsSeen
  <2> QED
    BY <2>2, <2>3
<1>4. ASSUME NEW c \in Child, NEW p \in Parent, EditChild(c, p)
      PROVE  KeysSettled' /\ ParentsSeen'
  <2>1. /\ parent' = parent
        /\ \A d \in Child : d # c => child'[d] = child[d]
        /\ child'[c].mod = today
    BY <1>4 DEF EditChild, TypeOK
  <2>2. \A r \in Run : ti[r]["stage_parent"] = "success" => ~(today <= r)
    <3>1. today \in Nat /\ Run \in SUBSET Nat
      BY DagAssumption DEF TypeOK, Run
    <3>2. \A r \in Run : ti[r]["stage_parent"] = "success" => r < today
      BY DEF Due
    <3> QED
      BY <3>1, <3>2
  <2>3. KeysSettled'
    BY <1>1, <2>1 DEF KeysSettled
  <2>4. ParentsSeen'
    BY <1>1, <2>1, <2>2 DEF ParentsSeen
  <2> QED
    BY <2>3, <2>4
<1> QED
  BY <1>2, <1>3, <1>4

\* No step, an edit of the source included, leaves a staged child without
\* its parent where the hub looks for it.
LEMMA AnchorStep ==
    ASSUME Anchoring, Shape, Shape', CoverInv, AnchorInv, [Next]_vars
    PROVE  AnchorInv'
<1> USE Graph DEF AnchorInv
\* The hub only grows, the source stands still, and no staging task ends.
<1>1. ASSUME UNCHANGED <<parent, child, stagedParent, stagedChild>>,
             \A q \in Run, u \in {"stage_parent", "stage_child"} :
                ti'[q][u] = "success" => ti[q][u] = "success"
      PROVE  KeysSettled' /\ ParentsSeen' /\ ChildrenCovered'
  BY <1>1 DEF KeysSettled, ParentsSeen, ChildrenCovered
<1>2. ASSUME HubKeys \subseteq HubKeys', link' = link,
             \A q \in Run : read'[q]["link"] # NoRead => read'[q]["link"] = read[q]["link"]
      PROVE  ReadAnchored' /\ LinkAnchored'
  BY <1>2 DEF ReadAnchored, LinkAnchored
<1>3. ASSUME NEW r \in Run, Schedule(r) PROVE AnchorInv'
  <2>1. /\ UNCHANGED <<parent, child, stagedParent, stagedChild, hub, link, read>>
        /\ \A q \in Run, u \in Task : ti'[q][u] = "success" => ti[q][u] = "success"
    BY <1>3, ScheduleFact DEF Shape
  <2> QED
    BY <1>1, <1>2, <2>1 DEF HubKeys
<1>4. ASSUME NEW r \in Run, ReadHub(r) PROVE AnchorInv'
  <2>1. Read(r, "hub", HubQuery(r)) /\ HubQuery(r) \in Snapshot("hub")
    BY <1>4, ReadsWellTyped
  <2>2. /\ UNCHANGED <<ti, parent, child, stagedParent, stagedChild, hub, link>>
        /\ \A q \in Run : read'[q]["link"] = read[q]["link"]
    BY <2>1, ReadFact
  <2> QED
    BY <1>1, <1>2, <2>2 DEF HubKeys
<1>5. ASSUME NEW r \in Run, ReadLink(r) PROVE AnchorInv'
  <2>1. Read(r, "link", LinkQuery(r)) /\ LinkQuery(r) \in Snapshot("link")
    BY <1>5, ReadsWellTyped
  <2>2. /\ UNCHANGED <<ti, parent, child, stagedParent, stagedChild, hub, link>>
        /\ ti[r]["link"] = "running"
        /\ \A q \in Run :
              read'[q]["link"] = IF q = r THEN LinkQuery(r) ELSE read[q]["link"]
    BY <2>1, ReadFact
  <2>3. /\ ti[r]["hub"] = "success"
        /\ ti[r]["stage_parent"] = "success" /\ ti[r]["stage_child"] = "success"
    BY <2>2, InputsThere
  <2>4. \A b \in LinkQuery(r) : b.parent \in HubKeys
    BY <2>3 DEF LinkQuery, ChildrenCovered, CoverInv, HubCovers, Feed, Anchoring
  <2>5. ReadAnchored' /\ LinkAnchored'
    BY <2>2, <2>4 DEF ReadAnchored, LinkAnchored, HubKeys
  <2> QED
    BY <1>1, <2>2, <2>5
<1>6. ASSUME NEW r \in Run, StageParent(r) PROVE AnchorInv'
  <2>1. /\ Ends(r, "stage_parent") /\ UNCHANGED <<stagedChild, hub, link>>
        /\ stagedParent' = [stagedParent EXCEPT ![r] = ParentQuery(r)]
    BY <1>6, WritesEnd DEF StageParent
  <2>2. /\ UNCHANGED <<parent, child>>
        /\ \A q \in Run : stagedParent'[q] = IF q = r THEN ParentQuery(r) ELSE stagedParent[q]
    BY <2>1 DEF Ends, Shape, TypeOK
  <2>3. /\ \A q \in Run : read'[q]["link"] = read[q]["link"]
        /\ \A q \in Run : ti'[q]["stage_child"] = ti[q]["stage_child"]
        /\ \A q \in Run : q # r => ti'[q]["stage_parent"] = ti[q]["stage_parent"]
    BY <2>1, EndsFact
  <2>4. ParentQuery(r) = {parent[p].key : p \in {q \in Parent : parent[q].key # Absent}}
    BY DEF ParentQuery, Anchoring
  <2>5. KeysSettled'
    BY <2>1, <2>2, <2>3 DEF KeysSettled
  <2>6. ParentsSeen'
    <3>1. \A c \in Child : child[c].parent # Absent =>
             parent[child[c].parent].key \in ParentQuery(r)
      BY <2>4 DEF Shape, TypeOK, ForeignKey
    <3> QED
      BY <2>2, <2>3, <3>1 DEF ParentsSeen
  <2>7. ChildrenCovered'
    <3>1. ti[r]["stage_child"] = "success" =>
             \A b \in stagedChild[r] : b.parent \in ParentQuery(r)
      <4>1. ti[r]["stage_child"] = "success" =>
               \A b \in stagedChild[r] : b.parent # Absent
        BY LinkAssumption DEF Shape, StagedThere, Staged
      <4> QED
        BY <2>4, <4>1 DEF KeysSettled
    <3> QED
      BY <2>1, <2>2, <2>3, <3>1 DEF ChildrenCovered
  <2> QED
    BY <1>2, <2>1, <2>3, <2>5, <2>6, <2>7 DEF HubKeys
<1>7. ASSUME NEW r \in Run, StageChild(r) PROVE AnchorInv'
  <2>1. /\ Ends(r, "stage_child") /\ UNCHANGED <<stagedParent, hub, link>>
        /\ stagedChild' = [stagedChild EXCEPT ![r] = ChildQuery(r)]
    BY <1>7, WritesEnd DEF StageChild
  <2>2. /\ UNCHANGED <<parent, child>>
        /\ \A q \in Run : stagedChild'[q] = IF q = r THEN ChildQuery(r) ELSE stagedChild[q]
    BY <2>1 DEF Ends, Shape, TypeOK
  <2>3. /\ \A q \in Run : read'[q]["link"] = read[q]["link"]
        /\ \A q \in Run : ti'[q]["stage_parent"] = ti[q]["stage_parent"]
        /\ \A q \in Run : q # r => ti'[q]["stage_child"] = ti[q]["stage_child"]
    BY <2>1, EndsFact
  <2>4. \A b \in ChildQuery(r) :
           \E c \in Child : /\ child[c].parent \in Parent /\ child[c].mod <= r
                            /\ b.parent = parent[child[c].parent].key
    <3>1. r \in Nat
      BY DagAssumption DEF Run
    <3>2. ASSUME NEW b \in ChildQuery(r)
          PROVE  \E c \in Child : /\ child[c].parent # Absent /\ child[c].mod = r
                                  /\ b.parent = parent[child[c].parent].key
      BY DEF ChildQuery, Anchoring
    <3>3. \A c \in Child : child[c].parent # Absent => child[c].parent \in Parent
      BY DEF Shape, TypeOK
    <3> QED
      BY <3>1, <3>2, <3>3
  <2>5. KeysSettled'
    BY <2>2, <2>3, <2>4 DEF KeysSettled
  <2>6. ParentsSeen'
    BY <2>1, <2>2, <2>3 DEF ParentsSeen
  <2>7. ChildrenCovered'
    <3>1. ti[r]["stage_parent"] = "success" =>
             \A b \in ChildQuery(r) : b.parent \in stagedParent[r]
      BY <2>4, LinkAssumption DEF ParentsSeen
    <3> QED
      BY <2>1, <2>2, <2>3, <3>1 DEF ChildrenCovered
  <2> QED
    BY <1>2, <2>1, <2>3, <2>5, <2>6, <2>7 DEF HubKeys
<1>8. ASSUME NEW r \in Run, WriteHub(r) PROVE AnchorInv'
  <2>1. Ends(r, "hub")
    BY <1>8, WritesEnd
  <2>2. /\ HubKeys \subseteq HubKeys'
        /\ UNCHANGED <<parent, child, stagedParent, stagedChild, link>>
    BY <1>8, <2>1, WriteHubFact DEF Ends
  <2>3. \A q \in Run : /\ read'[q]["link"] = read[q]["link"]
                       /\ ti'[q]["stage_parent"] = ti[q]["stage_parent"]
                       /\ ti'[q]["stage_child"] = ti[q]["stage_child"]
    BY <2>1, EndsFact
  <2> QED
    BY <1>1, <1>2, <2>2, <2>3
<1>9. ASSUME NEW r \in Run, WriteLink(r) PROVE AnchorInv'
  <2>1. Ends(r, "link") /\ read[r]["link"] # NoRead
    BY <1>9, WritesEnd DEF WriteLink
  <2>2. /\ UNCHANGED <<parent, child, stagedParent, stagedChild, hub>>
        /\ \A l \in link' : l \in link \/ \E b \in read[r]["link"] : l.parent = b.parent
    BY <1>9, <2>1, WriteLinkFact DEF Ends
  <2>3. \A q \in Run : /\ read'[q]["link"] # NoRead => read'[q]["link"] = read[q]["link"]
                       /\ ti'[q]["stage_parent"] = ti[q]["stage_parent"]
                       /\ ti'[q]["stage_child"] = ti[q]["stage_child"]
    BY <2>1, EndsFact
  <2>4. ReadAnchored'
    BY <2>2, <2>3 DEF ReadAnchored, HubKeys
  <2>5. LinkAnchored'
    BY <2>1, <2>2 DEF ReadAnchored, LinkAnchored, HubKeys
  <2> QED
    BY <1>1, <2>2, <2>3, <2>4, <2>5
<1>10. ASSUME NEW r \in Run, NEW t \in Task, Fail(r, t) PROVE AnchorInv'
  <2>1. Ends(r, t) /\ UNCHANGED <<stagedParent, stagedChild, hub, link>>
    BY <1>10, WritesEnd DEF Fail, staging
  <2>2. \A q \in Run, u \in Task : ti'[q][u] = "success" => ti[q][u] = "success"
    <3>1. DagTypeOK /\ FailTask(r, t)
      BY <1>10 DEF Fail, Shape, TypeOK
    <3> QED
      BY <3>1, FailFact
  <2>3. \A q \in Run : read'[q]["link"] # NoRead => read'[q]["link"] = read[q]["link"]
    BY <2>1, EndsFact
  <2> QED
    BY <1>1, <1>2, <2>1, <2>2, <2>3 DEF HubKeys, Ends
<1>11. ASSUME \/ NextDay
              \/ \E p \in Parent, k \in BKey : EditParent(p, k)
              \/ \E c \in Child, p \in Parent : EditChild(c, p)
       PROVE AnchorInv'
  <2>1. UNCHANGED <<ti, stagedParent, stagedChild, hub, link, read>>
    BY <1>11, SourceFact
  <2>2. KeysSettled' /\ ParentsSeen'
    BY <1>11, AnchorSource
  <2>3. ChildrenCovered'
    BY <2>1 DEF ChildrenCovered
  <2> QED
    BY <1>2, <2>1, <2>2, <2>3 DEF HubKeys
<1>12. CASE Stop \/ UNCHANGED vars
  <2>1. UNCHANGED <<ti, parent, child, stagedParent, stagedChild, hub, link, read>>
    BY <1>12 DEF Stop, Idle, vars, dagVars, source, staging
  <2> QED
    BY <1>1, <1>2, <2>1 DEF HubKeys
<1> QED
  BY <1>3, <1>4, <1>5, <1>6, <1>7, <1>8, <1>9, <1>10, <1>11, <1>12 DEF Next

\* A link ties hubs together, for any rows, keys and runs, through failures,
\* timeouts and overlapping runs, when the parent is staged in full under an
\* immutable business key and the child by modifieddate.
THEOREM LinkIsAnchored == ASSUME Anchoring PROVE Spec => []LinkAnchored
<1>1. AnchorInv => LinkAnchored
  BY DEF AnchorInv
<1>2. Init => AnchorInv
  BY AnchorInit
<1>3. Shape /\ Shape' /\ CoverInv /\ AnchorInv /\ [Next]_vars => AnchorInv'
  BY AnchorStep
<1> QED
  BY <1>1, <1>2, <1>3, LinkShape, CoverInvariant, PTL DEF Spec

-----------------------------------------------------------------------------
(***************************************************************************)
(* Why a relationship a successful run recorded is not recorded again.     *)
(* Such a run has no statement left in flight, and every later run was     *)
(* created, and so read the link, after it had ended.                      *)
(***************************************************************************)
\* Tasks and link rows belong to runs that exist.
Born ==
    /\ \A r \in Run, t \in Task : ti[r][t] # "none" => run[r] # "none"
    /\ \A l \in link : run[l.dtm] # "none"

\* What a link statement is about to insert is new to the successful runs
\* before its own.
Fresh ==
    \A r \in Run : read[r]["link"] # NoRead =>
        \A b \in read[r]["link"], l \in link :
            (l.child = b.child /\ l.parent = b.parent /\ l.dtm < r)
                => run[l.dtm] # "success"

UniqueInv == Born /\ Fresh /\ LinkUnique

\* There is no link row at the start.
LEMMA UniqueInit == Init => UniqueInv
  BY Graph DEF Init, DagInit, UniqueInv, Born, Fresh, LinkUnique

\* What the scheduler does to runs: a run that becomes successful was active.
LEMMA RunFact ==
    ASSUME DagTypeOK, NEW r \in Run, Schedule(r), NEW q \in Run
    PROVE  /\ run[q] # "none" => run'[q] # "none"
           /\ run'[q] = "success" => run[q] \in {"success", "running"}
<1> USE DEF DagTypeOK
<1>1. CASE CreateRun(r)
  BY <1>1 DEF CreateRun
<1>2. CASE EndRun(r) \/ TimeoutRun(r)
  BY <1>2 DEF EndRun, TimeoutRun
<1>3. CASE \E t \in Task : StartTask(r, t) \/ FailUpstream(r, t)
  BY <1>3 DEF StartTask, FailUpstream
<1> QED
  BY <1>1, <1>2, <1>3 DEF Schedule

\* A task starts or is skipped only in an active run.
LEMMA BornFact ==
    ASSUME DagTypeOK, Born, NEW r \in Run, Schedule(r)
    PROVE  \A q \in Run, u \in Task : ti'[q][u] # "none" => run'[q] # "none"
<1>1. CASE CreateRun(r) \/ EndRun(r) \/ TimeoutRun(r)
  <2>1. ti' = ti
    BY <1>1 DEF CreateRun, EndRun, TimeoutRun
  <2> QED
    BY <2>1, RunFact DEF Born
<1>2. ASSUME NEW t \in Task, StartTask(r, t) \/ FailUpstream(r, t)
      PROVE  \A q \in Run, u \in Task : ti'[q][u] # "none" => run'[q] # "none"
  <2>1. PICK s \in {"running", "upstream_failed"} : SetTask(r, t, s)
    BY <1>2 DEF StartTask, FailUpstream
  <2>2. \A q \in Run, u \in Task : ti'[q][u] = IF q = r /\ u = t THEN s ELSE ti[q][u]
    BY <2>1, SetTaskFact DEF TaskState
  <2>3. run' = run /\ run[r] = "running"
    BY <1>2 DEF StartTask, FailUpstream
  <2> QED
    BY <2>2, <2>3 DEF Born
<1> QED
  BY <1>1, <1>2 DEF Schedule

\* No statement inserts again what a successful run recorded before it.
LEMMA UniqueStep ==
    ASSUME Shape, Shape', OneActiveRun, SuccessIsTotal, UniqueInv, [Next]_vars
    PROVE  UniqueInv'
<1> USE Graph DEF UniqueInv
<1>1. link \subseteq [child : Child, parent : BKey, dtm : Run]
  BY DEF Shape, TypeOK
\* Nothing is inserted, and no statement starts.
<1>2. ASSUME UNCHANGED <<run, link>>,
             \A q \in Run, u \in Task :
                /\ ti'[q][u] # "none" => ti[q][u] # "none"
                /\ read'[q][u] # NoRead => read'[q][u] = read[q][u]
      PROVE  UniqueInv'
  <2>1. Born' /\ LinkUnique'
    BY <1>2 DEF Born, LinkUnique
  <2>2. Fresh'
    BY <1>2 DEF Fresh
  <2> QED
    BY <2>1, <2>2
<1>3. ASSUME NEW r \in Run, Schedule(r) PROVE UniqueInv'
  <2>1. DagInv' /\ DagTypeOK
    BY DEF Shape, TypeOK
  <2>2. UNCHANGED <<link, read>>
    BY <1>3, <2>1, ScheduleFact
  <2>3. Born'
    BY <1>1, <1>3, <2>1, <2>2, BornFact, RunFact DEF Born
\* A run before one that exists has ended: it becomes successful no more.
  <2>4. ASSUME NEW q \in Run, NEW p \in Run, q < p, run[p] # "none", run'[q] = "success"
        PROVE  run[q] = "success"
    <3>1. run[q] \in Ended
      BY <2>4 DEF OneActiveRun
    <3> QED
      BY <1>3, <2>1, <2>4, <3>1, RunFact DEF Ended
  <2>5. \A q \in Run : read[q]["link"] # NoRead => run[q] # "none"
    BY DEF Shape, ReadRunning, Born
  <2>6. Fresh'
    BY <1>1, <2>2, <2>4, <2>5 DEF Fresh
  <2>7. LinkUnique'
    BY <1>1, <2>2, <2>4 DEF LinkUnique, Born
  <2> QED
    BY <2>3, <2>6, <2>7
<1>4. ASSUME NEW r \in Run, ReadHub(r) PROVE UniqueInv'
  <2>1. Read(r, "hub", HubQuery(r)) /\ HubQuery(r) \in Snapshot("hub")
    BY <1>4, ReadsWellTyped
  <2>2. /\ UNCHANGED <<run, ti, link>>
        /\ \A q \in Run, u \in Task :
              read'[q][u] = IF q = r /\ u = "hub" THEN HubQuery(r) ELSE read[q][u]
    BY <2>1, ReadFact
  <2> QED
    BY <2>2 DEF Born, Fresh, LinkUnique
\* The statement starts: NOT EXISTS looks at all rows there are.
<1>5. ASSUME NEW r \in Run, ReadLink(r) PROVE UniqueInv'
  <2>1. Read(r, "link", LinkQuery(r)) /\ LinkQuery(r) \in Snapshot("link")
    BY <1>5, ReadsWellTyped
  <2>2. /\ UNCHANGED <<run, ti, link>>
        /\ \A q \in Run, u \in Task :
              read'[q][u] = IF q = r /\ u = "link" THEN LinkQuery(r) ELSE read[q][u]
    BY <2>1, ReadFact
  <2>3. \A b \in LinkQuery(r), l \in link : ~(l.child = b.child /\ l.parent = b.parent)
    BY DEF LinkQuery, Linked
  <2>4. Born' /\ LinkUnique'
    BY <2>2 DEF Born, LinkUnique
  <2>5. Fresh'
    BY <2>2, <2>3 DEF Fresh
  <2> QED
    BY <2>4, <2>5
\* The statement inserts: its own run is not successful while the task executes.
<1>6. ASSUME NEW r \in Run, WriteLink(r) PROVE UniqueInv'
  <2>1. Ends(r, "link") /\ read[r]["link"] # NoRead /\ run' = run
    BY <1>6, WritesEnd DEF WriteLink, Complete, FinishTask, FailTask
  <2>2. ti[r]["link"] = "running"
    BY <2>1, EndsFact
  <2>3. run[r] \notin {"none", "success"}
    BY <2>2 DEF SuccessIsTotal, Born
  <2>4. \A l \in link' : \/ l \in link
                         \/ /\ l.dtm = r
                            /\ \E b \in read[r]["link"] : l.child = b.child /\ l.parent = b.parent
    BY <1>6 DEF WriteLink
  <2>5. \A q \in Run, u \in Task :
           /\ ti'[q][u] # "none" => ti[q][u] # "none"
           /\ read'[q][u] # NoRead => read'[q][u] = read[q][u]
    BY <2>1, <2>2, EndsFact
  <2>6. Born'
    BY <2>1, <2>3, <2>4, <2>5 DEF Born
  <2>7. Fresh'
    BY <2>1, <2>3, <2>4, <2>5 DEF Fresh
  <2>8. LinkUnique'
    BY <1>1, <2>1, <2>3, <2>4 DEF LinkUnique, Fresh
  <2> QED
    BY <2>6, <2>7, <2>8
\* Another task ends.
<1>7. ASSUME NEW r \in Run, NEW t \in Task, Ends(r, t), UNCHANGED link PROVE UniqueInv'
  <2>1. run' = run
    BY <1>7 DEF Ends, FinishTask, FailTask
  <2>2. \A q \in Run, u \in Task :
           /\ ti'[q][u] # "none" => ti[q][u] # "none"
           /\ read'[q][u] # NoRead => read'[q][u] = read[q][u]
    BY <1>7, EndsFact
  <2> QED
    BY <1>2, <1>7, <2>1, <2>2
<1>8. ASSUME NEW r \in Run,
             \/ StageParent(r) \/ StageChild(r) \/ WriteHub(r)
             \/ \E t \in Task : Fail(r, t)
      PROVE  UniqueInv'
  BY <1>7, <1>8, WritesEnd DEF StageParent, StageChild, WriteHub, Fail
<1>9. ASSUME \/ NextDay
             \/ \E p \in Parent, k \in BKey : EditParent(p, k)
             \/ \E c \in Child, p \in Parent : EditChild(c, p)
             \/ Stop
             \/ UNCHANGED vars
      PROVE UniqueInv'
  <2>1. UNCHANGED <<run, ti, link, read>>
    BY <1>9 DEF NextDay, EditParent, EditChild, Stop, Idle, vars, dagVars
  <2> QED
    BY <1>2, <2>1
<1> QED
  BY <1>3, <1>4, <1>5, <1>6, <1>8, <1>9 DEF Next

\* A relationship that a successful run recorded is not recorded again, for
\* any rows, keys and runs, through failures, timeouts and overlapping runs.
THEOREM LinkIsUnique == Spec => []LinkUnique
<1>1. UniqueInv => LinkUnique
  BY DEF UniqueInv
<1>2. Shape /\ Shape' /\ OneActiveRun /\ SuccessIsTotal /\ UniqueInv /\ [Next]_vars => UniqueInv'
  BY UniqueStep
<1> QED
  BY <1>1, <1>2, UniqueInit, LinkShape, LinkImplementsDag, RunsInOrder, SuccessTotal, PTL DEF Spec
=============================================================================
