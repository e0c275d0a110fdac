-------------------------- MODULE VaultLoadProofs --------------------------
(***************************************************************************)
(* Theorems about the load of one satellite, for every source table, every *)
(* number of daily runs, and whatever fails or times out.  Those about the *)
(* history of the satellite need that runs do not overlap (NoOverlap).     *)
(***************************************************************************)
EXTENDS VaultLoad, DagRunProofs, SatelliteProofs, FiniteSetTheorems

\* Only the listed tasks exist, and each has its upstream as drawn.
LEMMA Graph ==
    /\ Task = {"stage", "hub", "sat", "other", "drop", "enddate", "copyback"}
    /\ Upstream["hub"] = {"stage"} /\ Upstream["sat"] = {"hub"}
    /\ Upstream["drop"] = {"sat", "other"} /\ Upstream["enddate"] = {"drop"}
    /\ Upstream["copyback"] = {"enddate"}
  BY VaultAssumption DEF LoadTask, LoadUpstream

\* A completed statement is a finished or a failed task.
LEMMA CompleteFact ==
    ASSUME NEW r \in Run, NEW t \in Task, Complete(r, t)
    PROVE  (FinishTask(r, t) \/ FailTask(r, t)) /\ DagNext
  BY DEF Complete, DagNext

\* Every step of the load is a step of the DAG or leaves the DAG alone.
LEMMA StepImplementsDag == [Next]_vars => [DagNext]_dagVars
<1> SUFFICES ASSUME [Next]_vars PROVE [DagNext]_dagVars
  OBVIOUS
<1>1. ASSUME NEW r \in Run, Schedule(r) PROVE DagNext
  BY <1>1 DEF Schedule, DagNext
<1>2. ASSUME NEW r \in Run,
             \/ ReadStage(r) \/ ReadHub(r) \/ ReadSat(r)
             \/ ReadEndDate(r) \/ ReadCopyback(r)
      PROVE UNCHANGED dagVars
  BY <1>2 DEF ReadStage, ReadHub, ReadSat, ReadEndDate, ReadCopyback, Read
<1>3. ASSUME NEW r \in Run,
             \/ WriteStage(r) \/ WriteHub(r) \/ WriteSat(r) \/ WriteOther(r)
             \/ DropTemp(r) \/ WriteEndDate(r) \/ WriteCopyback(r)
      PROVE DagNext
  BY <1>3, Graph, CompleteFact
  DEF WriteStage, WriteHub, WriteSat, WriteOther, DropTemp, WriteEndDate, WriteCopyback
<1>4. ASSUME NEW r \in Run, TearCopyback(r) PROVE DagNext
  BY <1>4, Graph DEF TearCopyback, DagNext
<1>5. ASSUME NEW r \in Run, NEW t \in Task, Fail(r, t) PROVE DagNext
  BY <1>5 DEF Fail, DagNext
<1>6. ASSUME NextDay \/ \E x \in SrcRow, v \in Val : EditSource(x, v)
      PROVE UNCHANGED dagVars
  BY <1>6 DEF NextDay, EditSource
<1>7. CASE Stop
  BY <1>7 DEF Stop, Idle
<1>8. CASE UNCHANGED vars
  BY <1>8 DEF vars
<1> QED
  BY <1>1, <1>2, <1>3, <1>4, <1>5, <1>6, <1>7, <1>8 DEF Next

\* The load is an Airflow DAG run: all that holds of every DAG holds of it.
THEOREM ImplementsDag == Spec => DagSpec
<1>1. Init => DagInit
  BY DEF Init
<1> QED
  BY <1>1, StepImplementsDag, PTL DEF Spec, DagSpec

\* In every daily load the layers wait for each other: whatever a task of a
\* run may read has been written by the earlier tasks of that run.
THEOREM LoadBarrier == Spec => []Barrier
  BY ImplementsDag, BarrierHolds, PTL

-----------------------------------------------------------------------------
(***************************************************************************)
(* The inductive invariant behind SatAnchored.  A satellite row comes from *)
(* a staging table all of whose keys the hub task of the same run put into *)
(* the hub first; the rows then travel through statements in flight and    *)
(* the temporary table, possibly of another run, and the hub never shrinks.*)
(***************************************************************************)
HubKeys == {h.key : h \in hub}
Anchored(S) == \A s \in S : s.key \in HubKeys

\* Only an executing task has a statement in flight.
ReadRunning ==
    \A r \in Run, t \in Task : read[r][t] # NoRead => ti[r][t] = "running"

\* The staging table of a run exists once its staging task succeeded.
StagedThere ==
    \A r \in Run : ti[r]["stage"] = "success" => staged[r] \in SUBSET Staged

\* What the hub statement has read, with the hub, covers the staged keys.
HubReadCovers ==
    \A r \in Run : read[r]["hub"] # NoRead =>
        \A b \in staged[r] : b.key \in read[r]["hub"] \cup HubKeys

HubCovers ==
    \A r \in Run : ti[r]["hub"] = "success" => Anchored(staged[r])

RowsInFlightAnchored ==
    \A r \in Run, t \in {"sat", "enddate", "copyback"} :
        read[r][t] # NoRead => Anchored(read[r][t])

TempAnchored == temp # NoTable => Anchored(temp)

VaultInv ==
    /\ TypeOK
    /\ DagInv
    /\ ReadRunning
    /\ StagedThere
    /\ HubReadCovers
    /\ HubCovers
    /\ RowsInFlightAnchored
    /\ TempAnchored
    /\ Anchored(sat)

\* One entry of `read` changes.
LEMMA SetReadFact ==
    ASSUME TypeOK, NEW r \in Run, NEW t \in Task,
           NEW x \in {NoRead} \cup Snapshot(t),
           read' = [read EXCEPT ![r] = [@ EXCEPT ![t] = x]]
    PROVE  /\ read' \in [Run -> [Task -> {NoRead} \cup SUBSET (Staged \cup Key \cup SatRow)]]
           /\ \A q \in Run, u \in Task :
                 /\ read'[q][u] = IF q = r /\ u = t THEN x ELSE read[q][u]
                 /\ read'[q][u] = NoRead \/ read'[q][u] \in Snapshot(u)
<1>1. x \in {NoRead} \cup SUBSET (Staged \cup Key \cup SatRow)
  BY Graph DEF Snapshot
<1>2. \A q \in Run, u \in Task :
         read'[q][u] = IF q = r /\ u = t THEN x ELSE read[q][u]
  BY DEF TypeOK
<1> QED
  BY <1>1, <1>2 DEF TypeOK

\* A task ends and its statement is gone.
Ends(r, t) ==
    /\ FinishTask(r, t) \/ FailTask(r, t)
    /\ read' = [read EXCEPT ![r] = [@ EXCEPT ![t] = NoRead]]

\* The end of one task leaves the other tasks and statements as they were.
LEMMA EndsFact ==
    ASSUME TypeOK, ReadRunning, NEW r \in Run, NEW t \in Task, Ends(r, t)
    PROVE  /\ ti[r][t] = "running"
           /\ \A q \in Run, u \in Task :
                 /\ (q # r \/ u # t) => ti'[q][u] = ti[q][u] /\ read'[q][u] = read[q][u]
                 /\ ti'[q][u] = "success" => ti[q][u] \in {"running", "success"}
           /\ read'[r][t] = NoRead
           /\ read' \in [Run -> [Task -> {NoRead} \cup SUBSET (Staged \cup Key \cup SatRow)]]
           /\ \A q \in Run, u \in Task :
                 read'[q][u] = NoRead \/ read'[q][u] \in Snapshot(u)
           /\ ReadRunning'
<1>1. PICK s \in {"success", "failed"} : SetTask(r, t, s)
  BY DEF Ends, FinishTask, FailTask
<1>2. \A q \in Run, u \in Task :
         ti'[q][u] = IF q = r /\ u = t THEN s ELSE ti[q][u]
  BY <1>1, SetTaskFact DEF TypeOK, TaskState
<1>3. ti[r][t] = "running"
  BY DEF Ends, FinishTask, FailTask
<1>4. /\ read' \in [Run -> [Task -> {NoRead} \cup SUBSET (Staged \cup Key \cup SatRow)]]
      /\ \A q \in Run, u \in Task :
            /\ read'[q][u] = IF q = r /\ u = t THEN NoRead ELSE read[q][u]
            /\ read'[q][u] = NoRead \/ read'[q][u] \in Snapshot(u)
  BY SetReadFact DEF Ends
<1>5. ReadRunning'
  BY <1>2, <1>4 DEF ReadRunning
<1> QED
  BY <1>2, <1>3, <1>4, <1>5

-----------------------------------------------------------------------------
\* The vault is empty and no statement is in flight at the start.
LEMMA VaultInvInit == Init => VaultInv
<1> SUFFICES ASSUME Init PROVE VaultInv
  OBVIOUS
<1>1. DagInv
  BY DagInvInit DEF Init
<1>2. TypeOK
  <2>1. today \in 1 .. Runs + 1
    BY DagAssumption DEF Init
  <2>2. source \in [SrcRow -> [val : Val \cup {NoRow}, mod : 0 .. Runs]]
    BY DagAssumption DEF Init
  <2> QED
    BY <1>1, <2>1, <2>2 DEF Init, TypeOK, DagInv
<1>3. StagedThere /\ HubCovers
  BY Graph DEF Init, DagInit, StagedThere, HubCovers
<1>4. ReadRunning /\ HubReadCovers /\ RowsInFlightAnchored
  BY Graph DEF Init, ReadRunning, HubReadCovers, RowsInFlightAnchored
<1> QED
  BY <1>1, <1>2, <1>3, <1>4 DEF VaultInv, Init, TempAnchored, Anchored

\* The scheduler starts, skips and closes; it completes no task.
LEMMA ScheduleStep ==
    ASSUME VaultInv, DagInv', NEW r \in Run, Schedule(r)
    PROVE  VaultInv'
<1>1. \A q \in Run, u \in Task :
         /\ ti[q][u] = "running" => ti'[q][u] = "running"
         /\ ti'[q][u] = "success" => ti[q][u] = "success"
  <2>1. CASE CreateRun(r) \/ EndRun(r) \/ TimeoutRun(r)
    BY <2>1 DEF CreateRun, EndRun, TimeoutRun
  <2>2. ASSUME NEW t \in Task, StartTask(r, t) \/ FailUpstream(r, t)
        PROVE  \A q \in Run, u \in Task :
                 /\ ti[q][u] = "running" => ti'[q][u] = "running"
                 /\ ti'[q][u] = "success" => ti[q][u] = "success"
    BY <2>2, SetTaskFact DEF VaultInv, TypeOK, StartTask, FailUpstream, TaskState
  <2> QED
    BY <2>1, <2>2 DEF Schedule
<1>2. UNCHANGED <<today, source, staged, hub, sat, temp, read>>
  BY DEF Schedule, data
<1>3. TypeOK'
  BY <1>2 DEF VaultInv, TypeOK, DagInv
<1>4. ReadRunning'
  BY <1>1, <1>2 DEF VaultInv, ReadRunning
<1>5. StagedThere' /\ HubCovers'
  BY <1>1, <1>2, Graph DEF VaultInv, StagedThere, HubCovers, Anchored, HubKeys
<1>6. HubReadCovers' /\ RowsInFlightAnchored' /\ TempAnchored' /\ Anchored(sat)'
  BY <1>2 DEF VaultInv, HubReadCovers, RowsInFlightAnchored, TempAnchored, Anchored, HubKeys
<1> QED
  BY <1>3, <1>4, <1>5, <1>6 DEF VaultInv

\* The source changes, the day ends: nothing in Hive moves.
LEMMA SourceStep ==
    ASSUME VaultInv, DagInv',
           NextDay \/ \E x \in SrcRow, v \in Val : EditSource(x, v)
    PROVE  VaultInv'
<1>1. UNCHANGED <<run, ti, staged, hub, sat, temp, read>>
  BY DEF NextDay, EditSource, dagVars, data
<1>2. /\ today' \in 1 .. Runs + 1
      /\ source' \in [SrcRow -> [val : Val \cup {NoRow}, mod : 0 .. Runs]]
  <2>1. CASE NextDay
    BY <2>1, DagAssumption DEF NextDay, VaultInv, TypeOK
  <2>2. ASSUME NEW x \in SrcRow, NEW v \in Val, EditSource(x, v)
        PROVE  /\ today' \in 1 .. Runs + 1
               /\ source' \in [SrcRow -> [val : Val \cup {NoRow}, mod : 0 .. Runs]]
    BY <2>2, DagAssumption DEF EditSource, VaultInv, TypeOK
  <2> QED
    BY <2>1, <2>2
<1>3. TypeOK'
  BY <1>1, <1>2 DEF VaultInv, TypeOK, DagInv
<1> QED
  BY <1>1, <1>3
  DEF VaultInv, ReadRunning, StagedThere, HubReadCovers, HubCovers, HubKeys,
      RowsInFlightAnchored, TempAnchored, Anchored

-----------------------------------------------------------------------------
\* A statement starts with a well-formed, anchored snapshot.
LEMMA ReadStep ==
    ASSUME VaultInv, DagInv', NEW r \in Run, NEW t \in Task, NEW x \in Snapshot(t),
           Read(r, t, x),
           t = "hub" => \A b \in staged[r] : b.key \in x \cup HubKeys,
           t \in {"sat", "enddate", "copyback"} => Anchored(x)
    PROVE  VaultInv'
<1>1. UNCHANGED <<run, ti, today, source, staged, hub, sat, temp>>
  BY DEF Read, dagVars, data
<1>2. /\ read' \in [Run -> [Task -> {NoRead} \cup SUBSET (Staged \cup Key \cup SatRow)]]
      /\ \A q \in Run, u \in Task :
            /\ read'[q][u] = IF q = r /\ u = t THEN x ELSE read[q][u]
            /\ read'[q][u] = NoRead \/ read'[q][u] \in Snapshot(u)
  BY SetReadFact DEF VaultInv, Read
<1>3. TypeOK'
  BY <1>1, <1>2 DEF VaultInv, TypeOK, DagInv
<1>4. ReadRunning'
  BY <1>1, <1>2 DEF VaultInv, ReadRunning, Read
<1>5. HubReadCovers'
  BY <1>1, <1>2, Graph DEF VaultInv, HubReadCovers, HubKeys
<1>6. RowsInFlightAnchored'
  BY <1>1, <1>2, Graph DEF VaultInv, RowsInFlightAnchored, Anchored, HubKeys
<1>7. StagedThere' /\ HubCovers' /\ TempAnchored' /\ Anchored(sat)'
  BY <1>1 DEF VaultInv, StagedThere, HubCovers, TempAnchored, Anchored, HubKeys
<1> QED
  BY <1>3, <1>4, <1>5, <1>6, <1>7 DEF VaultInv

\* Every row the satellite statement inserts has the key of a staged record.
LEMMA SatQueryFact ==
    ASSUME NEW r \in Run, staged[r] \in SUBSET Staged
    PROVE  /\ SatQuery(r) \in SUBSET SatRow
           /\ \A x \in SatQuery(r) : \E b \in staged[r] : x.key = b.key
  BY DEF SatQuery, NewVersions, SatRow, Staged

\* Taking a snapshot keeps the invariant.
LEMMA ReadSteps ==
    ASSUME VaultInv, DagInv', NEW r \in Run,
           \/ ReadStage(r) \/ ReadHub(r) \/ ReadSat(r)
           \/ ReadEndDate(r) \/ ReadCopyback(r)
    PROVE  VaultInv'
<1> USE Graph DEF VaultInv
<1>1. SatRow = Row(Key, Val, Run) /\ Run \in SUBSET Nat /\ sat \in SUBSET Row(Key, Val, Run)
  BY DagAssumption DEF SatRow, Row, Run, TypeOK
<1>2. CASE ReadStage(r)
  <2>1. StagingQuery(r) \in Snapshot("stage")
    BY VaultAssumption DEF StagingQuery, Snapshot, Staged, TypeOK
  <2> QED
    BY <1>2, <2>1, ReadStep DEF ReadStage
<1>3. CASE ReadHub(r)
  <2>1. ti[r]["stage"] = "success"
    BY <1>3 DEF ReadHub, Read, DagInv, UpstreamDone
  <2>2. HubQuery(r) \in Snapshot("hub")
    BY <2>1 DEF HubQuery, Snapshot, StagedThere, Staged
  <2>3. \A b \in staged[r] : b.key \in HubQuery(r) \cup HubKeys
    BY DEF HubQuery, HubKeys
  <2> QED
    BY <1>3, <2>2, <2>3, ReadStep DEF ReadHub
<1>4. CASE ReadSat(r)
  <2>1. ti[r]["hub"] = "success" /\ ti[r]["stage"] = "success"
    BY <1>4 DEF ReadSat, Read, DagInv, UpstreamDone
  <2>2. /\ SatQuery(r) \in SUBSET SatRow
        /\ \A x \in SatQuery(r) : \E b \in staged[r] : x.key = b.key
    BY <2>1, SatQueryFact DEF StagedThere
  <2>3. SatQuery(r) \in Snapshot("sat")
    BY <2>2 DEF Snapshot
  <2>4. Anchored(SatQuery(r))
    BY <2>1, <2>2 DEF HubCovers, Anchored
  <2> QED
    BY <1>4, <2>3, <2>4, ReadStep DEF ReadSat
<1>5. CASE ReadEndDate(r)
  <2>1. PICK last \in LastRows(sat) : Read(r, "enddate", EndDate(sat, last))
    BY <1>5 DEF ReadEndDate
  <2>2. /\ EndDate(sat, last) \in SUBSET SatRow
        /\ \A x \in EndDate(sat, last) : \E s \in sat : x.key = s.key
    BY <1>1, EndDateFact
  <2>3. EndDate(sat, last) \in Snapshot("enddate")
    BY <2>2 DEF Snapshot
  <2>4. Anchored(EndDate(sat, last))
    BY <2>2 DEF Anchored
  <2> QED
    BY <2>1, <2>3, <2>4, ReadStep
<1>6. CASE ReadCopyback(r)
  <2>1. temp \in Snapshot("copyback") /\ Anchored(temp)
    BY <1>6 DEF ReadCopyback, TempAnchored, TypeOK, Snapshot
  <2> QED
    BY <1>6, <2>1, ReadStep DEF ReadCopyback
<1> QED
  BY <1>2, <1>3, <1>4, <1>5, <1>6

-----------------------------------------------------------------------------
\* A task ends, and the table it writes gets what it had read.
LEMMA WriteSteps ==
    ASSUME VaultInv, DagInv', NEW r \in Run,
           \/ WriteStage(r) \/ WriteHub(r) \/ WriteSat(r) \/ WriteOther(r)
           \/ DropTemp(r) \/ WriteEndDate(r) \/ WriteCopyback(r) \/ TearCopyback(r)
    PROVE  VaultInv'
<1> USE Graph DEF VaultInv
<1> DEFINE Others(t) ==
       \A q \in Run, u \in Task :
          /\ (q # r \/ u # t) => ti'[q][u] = ti[q][u] /\ read'[q][u] = read[q][u]
          /\ ti'[q][u] = "success" => ti[q][u] \in {"running", "success"}
\* What does not depend on the task that ended.
<1>1. ASSUME NEW t \in Task, Ends(r, t), UNCHANGED <<today, source>>,
             staged' \in [Run -> (SUBSET Staged) \cup {NoTable}],
             hub' \in SUBSET [key : Key, dtm : Run],
             sat' \in SUBSET SatRow,
             temp' = NoTable \/ temp' \in SUBSET SatRow
      PROVE  /\ TypeOK' /\ ReadRunning'
             /\ ti[r][t] = "running" /\ read'[r][t] = NoRead /\ Others(t)
  BY <1>1, EndsFact DEF TypeOK, DagInv
<1>2. CASE WriteStage(r)
  <2>1. /\ Ends(r, "stage") /\ HasRead(r, "stage")
        /\ UNCHANGED <<today, source, hub, sat, temp>>
        /\ staged' = [staged EXCEPT ![r] = read[r]["stage"]]
    BY <1>2 DEF WriteStage, Complete, Ends
  <2>2. read[r]["stage"] \in SUBSET Staged
    BY <2>1 DEF HasRead, TypeOK, Snapshot
  <2>3. /\ TypeOK' /\ ReadRunning'
        /\ ti[r]["stage"] = "running" /\ read'[r]["stage"] = NoRead /\ Others("stage")
    BY <1>1, <2>1, <2>2 DEF TypeOK
  <2>4. \A q \in Run : staged'[q] = IF q = r THEN read[r]["stage"] ELSE staged[q]
    BY <2>1 DEF TypeOK
  <2>5. ti[r]["hub"] \notin {"running", "success"} /\ read[r]["hub"] = NoRead
    BY <2>3 DEF DagInv, UpstreamDone, ReadRunning
  <2>6. StagedThere'
    BY <2>2, <2>3, <2>4 DEF StagedThere
  <2>7. HubReadCovers'
    BY <2>1, <2>3, <2>4, <2>5 DEF HubReadCovers, HubKeys
  <2>8. HubCovers'
    BY <2>1, <2>3, <2>4, <2>5 DEF HubCovers, Anchored, HubKeys
  <2>9. RowsInFlightAnchored' /\ TempAnchored' /\ Anchored(sat)'
    BY <2>1, <2>3 DEF RowsInFlightAnchored, TempAnchored, Anchored, HubKeys
  <2> QED
    BY <2>3, <2>6, <2>7, <2>8, <2>9
<1>3. CASE WriteHub(r)
  <2>1. /\ Ends(r, "hub") /\ HasRead(r, "hub")
        /\ UNCHANGED <<today, source, staged, sat, temp>>
        /\ hub' = hub \cup {[key |-> k, dtm |-> r] : k \in read[r]["hub"]}
    BY <1>3 DEF WriteHub, Complete, Ends
  <2>2. read[r]["hub"] \in SUBSET Key
    BY <2>1 DEF HasRead, TypeOK, Snapshot
  <2>3. /\ TypeOK' /\ ReadRunning'
        /\ ti[r]["hub"] = "running" /\ read'[r]["hub"] = NoRead /\ Others("hub")
    <3>1. hub' \in SUBSET [key : Key, dtm : Run]
      BY <2>1, <2>2 DEF TypeOK
    <3> QED
      BY <1>1, <2>1, <3>1 DEF TypeOK
  <2>4. HubKeys' = HubKeys \cup read[r]["hub"]
    <3> DEFINE new == {[key |-> k, dtm |-> r] : k \in read[r]["hub"]}
    <3>1. \A h \in new : h.key \in read[r]["hub"]
      OBVIOUS
    <3>2. ASSUME NEW k \in read[r]["hub"] PROVE \E h \in new : h.key = k
      <4>1. [key |-> k, dtm |-> r] \in new /\ [key |-> k, dtm |-> r].key = k
        OBVIOUS
      <4> QED
        BY <4>1
    <3>3. HubKeys' = {h.key : h \in hub \cup new}
      BY <2>1 DEF HubKeys
    <3> HIDE DEF new
    <3> QED
      BY <3>1, <3>2, <3>3 DEF HubKeys
  <2>5. \A b \in staged[r] : b.key \in HubKeys'
    BY <2>1, <2>4 DEF HubReadCovers, HasRead
  <2>6. StagedThere'
    BY <2>1, <2>3 DEF StagedThere
  <2>7. HubReadCovers'
    BY <2>1, <2>3, <2>4 DEF HubReadCovers
  <2>8. HubCovers'
    BY <2>1, <2>3, <2>4, <2>5 DEF HubCovers, Anchored
  <2>9. RowsInFlightAnchored' /\ TempAnchored' /\ Anchored(sat)'
    BY <2>1, <2>3, <2>4 DEF RowsInFlightAnchored, TempAnchored, Anchored
  <2> QED
    BY <2>3, <2>6, <2>7, <2>8, <2>9
\* The remaining tasks touch neither the staging tables nor the hub.
<1>4. ASSUME NEW t \in Task \ {"stage", "hub"}, Ends(r, t),
             UNCHANGED <<today, source, staged, hub>>,
             sat' \in SUBSET SatRow, Anchored(sat'),
             temp' = NoTable \/ (temp' \in SUBSET SatRow /\ Anchored(temp'))
      PROVE  VaultInv'
  <2>1. /\ TypeOK' /\ ReadRunning'
        /\ ti[r][t] = "running" /\ read'[r][t] = NoRead /\ Others(t)
    BY <1>1, <1>4 DEF TypeOK
  <2>2. StagedThere' /\ HubReadCovers' /\ HubCovers'
    BY <1>4, <2>1 DEF StagedThere, HubReadCovers, HubCovers, Anchored, HubKeys
  <2>3. RowsInFlightAnchored'
    BY <1>4, <2>1 DEF RowsInFlightAnchored, Anchored, HubKeys
  <2>4. TempAnchored' /\ Anchored(sat)'
    BY <1>4 DEF TempAnchored, Anchored, HubKeys
  <2> QED
    BY <2>1, <2>2, <2>3, <2>4
<1>5. CASE WriteSat(r)
  <2>1. read[r]["sat"] \in SUBSET SatRow /\ Anchored(read[r]["sat"])
    BY <1>5 DEF WriteSat, HasRead, TypeOK, Snapshot, RowsInFlightAnchored
  <2>2. sat' \in SUBSET SatRow /\ Anchored(sat')
    BY <1>5, <2>1 DEF WriteSat, TypeOK, Anchored
  <2> QED
    BY <1>4, <1>5, <2>2 DEF WriteSat, Complete, Ends, TypeOK, TempAnchored
<1>6. CASE WriteOther(r)
  BY <1>4, <1>6 DEF WriteOther, Complete, Ends, TypeOK, TempAnchored, data
<1>7. CASE DropTemp(r)
  BY <1>4, <1>7 DEF DropTemp, Complete, Ends, TypeOK
<1>8. CASE WriteEndDate(r)
  <2>1. read[r]["enddate"] \in SUBSET SatRow /\ Anchored(read[r]["enddate"])
    BY <1>8 DEF WriteEndDate, HasRead, TypeOK, Snapshot, RowsInFlightAnchored
  <2> QED
    BY <1>4, <1>8, <2>1 DEF WriteEndDate, Complete, Ends, TypeOK
<1>9. CASE WriteCopyback(r)
  <2>1. read[r]["copyback"] \in SUBSET SatRow /\ Anchored(read[r]["copyback"])
    BY <1>9 DEF WriteCopyback, HasRead, TypeOK, Snapshot, RowsInFlightAnchored
  <2> QED
    BY <1>4, <1>9, <2>1 DEF WriteCopyback, Complete, Ends, TypeOK, TempAnchored
<1>10. CASE TearCopyback(r)
  <2>1. sat' = {} /\ Anchored(sat')
    BY <1>10 DEF TearCopyback, Anchored
  <2> QED
    BY <1>4, <1>10, <2>1 DEF TearCopyback, Ends, TypeOK, TempAnchored
<1> QED
  BY <1>2, <1>3, <1>5, <1>6, <1>7, <1>8, <1>9, <1>10

\* A task fails without effect.
LEMMA FailStep ==
    ASSUME VaultInv, DagInv', NEW r \in Run, NEW t \in Task, Fail(r, t)
    PROVE  VaultInv'
<1> USE Graph DEF VaultInv
<1>1. Ends(r, t) /\ UNCHANGED <<today, source, staged, hub, sat, temp>>
  BY DEF Fail, Ends, data
<1>2. /\ ti[r][t] = "running" /\ read'[r][t] = NoRead /\ ReadRunning'
      /\ \A q \in Run, u \in Task :
            (q # r \/ u # t) => ti'[q][u] = ti[q][u] /\ read'[q][u] = read[q][u]
      /\ TypeOK'
  BY <1>1, EndsFact DEF TypeOK, DagInv
<1>3. ti'[r][t] # "success"
  BY SetTaskFact DEF Fail, FailTask, TypeOK, TaskState
<1>4. StagedThere' /\ HubReadCovers' /\ HubCovers'
  BY <1>1, <1>2, <1>3 DEF StagedThere, HubReadCovers, HubCovers, Anchored, HubKeys
<1>5. RowsInFlightAnchored' /\ TempAnchored' /\ Anchored(sat)'
  BY <1>1, <1>2 DEF RowsInFlightAnchored, TempAnchored, Anchored, HubKeys
<1> QED
  BY <1>2, <1>4, <1>5

\* A step that only stutters keeps the invariant.
LEMMA StutterStep ==
    ASSUME VaultInv, DagInv', Stop \/ UNCHANGED vars
    PROVE  VaultInv'
<1>1. UNCHANGED <<run, ti, today, source, staged, hub, sat, temp, read>>
  BY DEF Stop, Idle, dagVars, data, vars
<1> QED
  BY <1>1
  DEF VaultInv, TypeOK, DagInv, ReadRunning, StagedThere, HubReadCovers, HubCovers,
      RowsInFlightAnchored, TempAnchored, Anchored, HubKeys

\* No statement, failure, timeout or overlap of runs breaks the invariant.
LEMMA VaultInvStep == VaultInv /\ DagInv' /\ [Next]_vars => VaultInv'
  BY ScheduleStep, SourceStep, ReadSteps, WriteSteps, FailStep, StutterStep DEF Next

\* Every key that is or may still get into the satellite is in the hub.
THEOREM VaultInvariant == Spec => []VaultInv
<1>1. Spec => []DagInv
  BY ImplementsDag, DagInvariant, PTL
<1> QED
  BY <1>1, VaultInvInit, VaultInvStep, PTL DEF Spec

\* Tables and statements in flight always hold rows of their shape.
THEOREM TypeCorrect == Spec => []TypeOK
<1>1. VaultInv => TypeOK
  BY DEF VaultInv
<1> QED
  BY <1>1, VaultInvariant, PTL

\* Referential integrity of the vault: the hub knows every key of the
\* satellite, for any number of keys and runs, with full or delta staging,
\* through failures, timeouts, overlapping runs and torn overwrites.
THEOREM SatIsAnchored == Spec => []SatAnchored
<1>1. VaultInv => SatAnchored
  BY DEF VaultInv, SatAnchored, Anchored, HubKeys
<1> QED
  BY <1>1, VaultInvariant, PTL

-----------------------------------------------------------------------------
(***************************************************************************)
(* The load as long as runs do not overlap, which is so when none outlives *)
(* dagrun_timeout.  The tasks that execute belong to one run, so nothing   *)
(* moves between the moment a statement reads a table and the moment it    *)
(* writes, and a step changes the satellite in one of four ways.           *)
(***************************************************************************)
\* The runs as NoOverlap leaves them.
Apart == Alone /\ Unborn /\ OneActiveRun

\* What the hub statement is about to insert is still missing in the hub.
HubFresh ==
    \A r \in Run : read[r]["hub"] # NoRead => read[r]["hub"] \cap HubKeys = {}

\* A table is the satellite as end dating leaves it.
Redated(T) == \E last \in LastRows(sat) : T = EndDate(sat, last)

\* The temporary table of run r is complete, and r will or may copy it back.
AwaitsCopy(r) ==
    /\ ti[r]["enddate"] = "success"
    /\ \/ ti[r]["copyback"] = "running"
       \/ ti[r]["copyback"] = "none" /\ run[r] = "running"

\* No input of a statement in flight has changed since it was read, and the
\* temporary table is up to date until it is copied back.
Fresh ==
    \A r \in Run :
        /\ read[r]["sat"] # NoRead => read[r]["sat"] = SatQuery(r)
        /\ read[r]["enddate"] # NoRead => Redated(read[r]["enddate"])
        /\ AwaitsCopy(r) => Redated(temp)
        /\ read[r]["copyback"] # NoRead => Redated(read[r]["copyback"])

\* The loads that may have put rows into the satellite.
HasLoaded(r) == ti[r]["sat"] \in {"success", "failed"}

\* Every version carries the date of a load that ran.
Loaded == \A s \in sat : HasLoaded(s.dtm)

\* The last completed end dating saw all versions.
Settled(r) ==
    ti[r]["copyback"] = "success" /\ \A q \in Run : q > r => ~HasLoaded(q)

SettledOpen == \A r \in Run : Settled(r) => OneOpen(sat)

\* The four kinds of steps.
Keeps(r, t) ==
    /\ staged' = staged
    /\ ti[r][t] = "running" /\ ti'[r][t] \in {"success", "failed"}
    /\ \A q \in Run, u \in Task : (q # r \/ u # t) => ti'[q][u] = ti[q][u]

Still ==
    /\ sat' = sat
    /\ \A q \in Run :
          /\ ti[q]["stage"] = "success" => staged'[q] = staged[q]
          /\ HasLoaded(q) => ti'[q]["sat"] = ti[q]["sat"]
          /\ \A t \in {"sat", "copyback"} : ti'[q][t] = "success" => ti[q][t] = "success"

Insert(r) == Keeps(r, "sat") /\ sat' = sat \cup SatQuery(r)

Redate(r) == Keeps(r, "copyback") /\ Redated(sat')

Tear(r) ==
    TornOverwrite /\ Keeps(r, "copyback") /\ ti'[r]["copyback"] = "failed" /\ sat' = {}

-----------------------------------------------------------------------------
(***************************************************************************)
(* The load of a source table whose business keys are unique: no two rows  *)
(* of one load tie.                                                        *)
(***************************************************************************)
Injective == \A x, y \in SrcRow : KeyOf[x] = KeyOf[y] => x = y

OnePerKey(B) == \A b, c \in B : b.key = c.key => b = c

StagedOnce ==
    \A r \in Run :
        /\ read[r]["stage"] # NoRead => OnePerKey(read[r]["stage"])
        /\ ti[r]["stage"] = "success" => OnePerKey(staged[r])

SettledDated == \A r \in Run : Settled(r) => Contiguous(sat)

\* The latest version of a key is open.
OpenLatest == \A s \in sat : LatestOf(sat, s) => s.end = NoEnd

\* A completed end dating closed every version that was not the latest.
Closed ==
    \A r \in Run : ti[r]["copyback"] = "success" =>
        \A s, x \in sat :
            (s.key = x.key /\ s.dtm < x.dtm /\ x.dtm <= r) => s.end # NoEnd

\* x is the version of its key that follows s.
Follows(s, x) ==
    /\ s.key = x.key /\ s.dtm < x.dtm
    /\ \A y \in sat : ~(y.key = s.key /\ s.dtm < y.dtm /\ y.dtm < x.dtm)

NoRepeats ==
    \A s, x \in sat : Follows(s, x) /\ s.val = x.val =>
        \A q \in Run : s.dtm <= q /\ q < x.dtm => ti[q]["copyback"] # "success"

\* s is the latest version of its key at the load date q.
LatestAt(s, q) ==
    s.dtm <= q /\ \A x \in sat : ~(x.key = s.key /\ s.dtm < x.dtm /\ x.dtm <= q)

\* For every load that succeeded, the latest version then is what it staged.
Faithful ==
    \A q \in Run : ti[q]["sat"] = "success" =>
        \A b \in staged[q] :
            \/ \E s \in sat : s.key = b.key /\ s.val = b.val /\ LatestAt(s, q)
            \/ b.val = Blank /\ \A s \in sat : ~(s.key = b.key /\ s.dtm <= q)

\* A full staging table holds every row that did not change afterwards.
Covers(B, r) ==
    \A x \in SrcRow : (source[x].val # NoRow /\ source[x].mod <= r) =>
        [key |-> KeyOf[x], val |-> source[x].val] \in B

StagingCovers ==
    \A r \in Run :
        /\ run[r] # "none" => r < today
        /\ read[r]["stage"] # NoRead => Covers(read[r]["stage"], r)
        /\ ti[r]["stage"] = "success" => Covers(staged[r], r)

\* What is about to be copied back is in the temporary table still.
TempThere == \A r \in Run : read[r]["copyback"] # NoRead => temp # NoTable

-----------------------------------------------------------------------------
(***************************************************************************)
(* What a step does to the tasks, the statements in flight and the tables, *)
(* entry by entry.                                                         *)
(***************************************************************************)
\* The source, the clock or the scheduler moves: no task ends.
Quiet ==
    /\ UNCHANGED <<staged, hub, sat, temp, read>>
    /\ \A q \in Run, u \in Task :
          \/ ti'[q][u] = ti[q][u]
          \/ /\ ti[q][u] = "none" /\ ti'[q][u] \in {"running", "upstream_failed"}
             /\ run[q] = "running"
    /\ \A q \in Run : run'[q] = "running" => run[q] \in {"none", "running"}

\* The statement of a task takes the snapshot x.
Took(r, t, x) ==
    /\ UNCHANGED <<run, staged, hub, sat, temp>>
    /\ ti[r][t] = "running"
    /\ \A q \in Run, u \in Task :
          /\ ti'[q][u] = ti[q][u]
          /\ read'[q][u] = IF q = r /\ u = t THEN x ELSE read[q][u]

Takes(r) ==
    \/ Took(r, "stage", StagingQuery(r))
    \/ Took(r, "hub", HubQuery(r))
    \/ Took(r, "sat", SatQuery(r))
    \/ \E last \in LastRows(sat) : Took(r, "enddate", EndDate(sat, last))
    \/ temp # NoTable /\ Took(r, "copyback", temp)

\* A task ends, and its statement with it.
Put(r, t) ==
    /\ ti[r][t] = "running" /\ ti'[r][t] \in {"success", "failed"}
    /\ read'[r][t] = NoRead /\ run' = run
    /\ \A q \in Run, u \in Task :
          (q # r \/ u # t) => ti'[q][u] = ti[q][u] /\ read'[q][u] = read[q][u]

PutStage(r) ==
    /\ Put(r, "stage") /\ HasRead(r, "stage") /\ UNCHANGED <<hub, sat, temp>>
    /\ \A q \in Run : staged'[q] = IF q = r THEN read[r]["stage"] ELSE staged[q]

PutHub(r) ==
    /\ Put(r, "hub") /\ HasRead(r, "hub") /\ UNCHANGED <<staged, sat, temp>>
    /\ hub' = hub \cup {[key |-> k, dtm |-> r] : k \in read[r]["hub"]}

PutSat(r) ==
    /\ Put(r, "sat") /\ HasRead(r, "sat") /\ UNCHANGED <<staged, hub, temp>>
    /\ sat' = sat \cup read[r]["sat"]

PutDrop(r) == Put(r, "drop") /\ UNCHANGED <<staged, hub, sat>> /\ temp' = NoTable

PutEndDate(r) ==
    /\ Put(r, "enddate") /\ HasRead(r, "enddate") /\ UNCHANGED <<staged, hub, sat>>
    /\ temp = NoTable /\ temp' = read[r]["enddate"]

PutCopyback(r) ==
    /\ Put(r, "copyback") /\ HasRead(r, "copyback") /\ UNCHANGED <<staged, hub, temp>>
    /\ sat' = read[r]["copyback"]

\* A task ends without effect: one that writes nothing here, or a failure.
PutNothing(r, t) ==
    /\ Put(r, t) /\ UNCHANGED <<staged, hub, sat, temp>>
    /\ t = "other" \/ ti'[r][t] = "failed"

Puts(r) ==
    \/ PutStage(r) \/ PutHub(r) \/ PutSat(r)
    \/ PutDrop(r) \/ PutEndDate(r) \/ PutCopyback(r)
    \/ \E t \in Task : PutNothing(r, t)
    \/ Tear(r) /\ Put(r, "copyback") /\ HasRead(r, "copyback") /\ UNCHANGED <<hub, temp>>

\* The end of a task, entry by entry.
LEMMA PutFact ==
    ASSUME VaultInv, NEW r \in Run, NEW t \in Task, Ends(r, t)
    PROVE  Put(r, t) /\ (FailTask(r, t) => ti'[r][t] = "failed")
<1>1. PICK s \in {"success", "failed"} : SetTask(r, t, s) /\ (FailTask(r, t) => s = "failed")
  BY DEF Ends, FinishTask, FailTask
<1>2. \A q \in Run, u \in Task : ti'[q][u] = IF q = r /\ u = t THEN s ELSE ti[q][u]
  BY <1>1, SetTaskFact DEF VaultInv, TypeOK, TaskState
<1>3. run' = run
  BY DEF Ends, FinishTask, FailTask
<1> QED
  BY <1>1, <1>2, <1>3, EndsFact DEF Put, VaultInv

\* Every step is one of these.
LEMMA Moves ==
    ASSUME VaultInv, DagInv', [Next]_vars
    PROVE  Quiet \/ \E r \in Run : Takes(r) \/ Puts(r)
<1> USE Graph
<1>1. ASSUME NEW r \in Run, Schedule(r) PROVE Quiet
  <2>1. CASE CreateRun(r) \/ EndRun(r) \/ TimeoutRun(r)
    <3>1. \A q \in Run : run'[q] = "running" => run[q] \in {"none", "running"}
      BY <2>1 DEF CreateRun, EndRun, TimeoutRun, VaultInv, TypeOK, DagTypeOK
    <3> QED
      BY <1>1, <2>1, <3>1 DEF CreateRun, EndRun, TimeoutRun, Quiet, Schedule, data
  <2>2. ASSUME NEW t \in Task, StartTask(r, t) \/ FailUpstream(r, t) PROVE Quiet
    <3>1. PICK s \in {"running", "upstream_failed"} :
             SetTask(r, t, s) /\ ti[r][t] = "none" /\ run[r] = "running" /\ run' = run
      BY <2>2 DEF StartTask, FailUpstream
    <3>2. \A q \in Run, u \in Task : ti'[q][u] = IF q = r /\ u = t THEN s ELSE ti[q][u]
      BY <3>1, SetTaskFact DEF VaultInv, TypeOK, TaskState
    <3> QED
      BY <1>1, <3>1, <3>2 DEF Quiet, Schedule, data
  <2> QED
    BY <1>1, <2>1, <2>2 DEF Schedule
<1>2. CASE NextDay \/ (\E x \in SrcRow, v \in Val : EditSource(x, v)) \/ Stop \/ UNCHANGED vars
  BY <1>2 DEF NextDay, EditSource, Stop, Idle, vars, dagVars, data, Quiet
<1>3. ASSUME NEW r \in Run, NEW t \in Task, NEW x, Read(r, t, x) PROVE Took(r, t, x)
  BY <1>3 DEF Read, Took, dagVars, data, VaultInv, TypeOK
<1>4. ASSUME NEW r \in Run,
             \/ ReadStage(r) \/ ReadHub(r) \/ ReadSat(r)
             \/ ReadEndDate(r) \/ ReadCopyback(r)
      PROVE  Takes(r)
  BY <1>3, <1>4 DEF ReadStage, ReadHub, ReadSat, ReadEndDate, ReadCopyback, Takes
<1>5. ASSUME NEW r \in Run, NEW t \in Task, Complete(r, t) PROVE Put(r, t)
  BY <1>5, PutFact DEF Complete, Ends
<1>6. ASSUME NEW r \in Run,
             \/ WriteStage(r) \/ WriteHub(r) \/ WriteSat(r) \/ WriteOther(r)
             \/ DropTemp(r) \/ WriteEndDate(r) \/ WriteCopyback(r)
      PROVE  Puts(r)
  <2>1. CASE WriteStage(r)
    BY <1>5, <2>1 DEF WriteStage, PutStage, Puts, VaultInv, TypeOK
  <2>2. CASE WriteHub(r)
    BY <1>5, <2>2 DEF WriteHub, PutHub, Puts
  <2>3. CASE WriteSat(r)
    BY <1>5, <2>3 DEF WriteSat, PutSat, Puts
  <2>4. CASE WriteOther(r)
    BY <1>5, <2>4 DEF WriteOther, PutNothing, Puts, data
  <2>5. CASE DropTemp(r)
    BY <1>5, <2>5 DEF DropTemp, PutDrop, Puts
  <2>6. CASE WriteEndDate(r)
    BY <1>5, <2>6 DEF WriteEndDate, PutEndDate, Puts
  <2>7. CASE WriteCopyback(r)
    BY <1>5, <2>7 DEF WriteCopyback, PutCopyback, Puts
  <2> QED
    BY <1>6, <2>1, <2>2, <2>3, <2>4, <2>5, <2>6, <2>7
<1>7. ASSUME NEW r \in Run, TearCopyback(r) PROVE Puts(r)
  <2>1. Put(r, "copyback") /\ ti'[r]["copyback"] = "failed"
    BY <1>7, PutFact DEF TearCopyback, Ends
  <2>2. Tear(r)
    BY <1>7, <2>1 DEF TearCopyback, Tear, Keeps, Put
  <2> QED
    BY <1>7, <2>1, <2>2 DEF Puts, TearCopyback
<1>8. ASSUME NEW r \in Run, NEW t \in Task, Fail(r, t) PROVE Puts(r)
  BY <1>8, PutFact DEF Fail, Ends, PutNothing, Puts, data
<1> QED
  BY <1>1, <1>2, <1>4, <1>6, <1>7, <1>8 DEF Next

-----------------------------------------------------------------------------
\* The hub statement inserts keys that were missing when it looked, and no
\* other run adds keys in between.
LEMMA HubStep ==
    ASSUME VaultInv, DagInv', Apart, HubFresh, HubUnique, [Next]_vars
    PROVE  HubFresh' /\ HubUnique'
<1> USE Graph
<1>1. CASE UNCHANGED hub /\ \A q \in Run : read'[q]["hub"] \in {read[q]["hub"], NoRead}
  BY <1>1 DEF HubFresh, HubUnique, HubKeys
<1>2. ASSUME NEW r \in Run, Took(r, "hub", HubQuery(r)) PROVE HubFresh' /\ HubUnique'
  BY <1>2 DEF Took, HubFresh, HubUnique, HubKeys, HubQuery
<1>3. ASSUME NEW r \in Run, PutHub(r) PROVE HubFresh' /\ HubUnique'
  <2> DEFINE new == {[key |-> k, dtm |-> r] : k \in read[r]["hub"]}
  <2>1. \A q \in Run : read'[q]["hub"] = NoRead
    BY <1>3 DEF PutHub, Put, Apart, Alone, Run, VaultInv, ReadRunning
  <2>2. HubFresh'
    BY <2>1 DEF HubFresh
  <2>3. \A h \in new : h.key \in read[r]["hub"]
    OBVIOUS
  <2>4. \A g, h \in new : g.key = h.key => g = h
    OBVIOUS
  <2>5. \A h \in new, g \in hub : g.key # h.key
    <3> HIDE DEF new
    <3> QED
      BY <1>3, <2>3 DEF PutHub, HasRead, HubFresh, HubKeys
  <2>6. hub' = hub \cup new
    BY <1>3 DEF PutHub
  <2> HIDE DEF new
  <2>7. HubUnique'
    BY <2>4, <2>5, <2>6 DEF HubUnique
  <2> QED
    BY <2>2, <2>7
<1>4. ASSUME NEW r \in Run, Takes(r) PROVE HubFresh' /\ HubUnique'
  BY <1>1, <1>2, <1>4 DEF Takes, Took
<1>5. ASSUME NEW r \in Run, Puts(r) PROVE HubFresh' /\ HubUnique'
  <2>1. CASE PutHub(r)
    BY <1>3, <2>1
  <2>2. CASE \E t \in Task : Put(r, t) /\ UNCHANGED hub
    BY <1>1, <2>2 DEF Put
  <2> QED
    BY <1>5, <2>1, <2>2
    DEF Puts, PutStage, PutSat, PutDrop, PutEndDate, PutCopyback, PutNothing
<1> QED
  BY <1>1, <1>4, <1>5, Moves DEF Quiet

\* When no run outlives dagrun_timeout, no runs overlap: all the theorems
\* below hold then without a condition on the behaviour.
THEOREM LoadsDoNotOverlap == ASSUME ~Timeouts PROVE Spec => []NoOverlap
  BY ImplementsDag, OneRunExecutes, PTL

\* Runs that do not overlap are apart, also when some of them timed out.
LEMMA ApartInvariant == Spec /\ []NoOverlap => []DagInv /\ []Apart
<1>1. Alone /\ Unborn /\ OneActiveRun => Apart
  BY DEF Apart
<1> QED
  BY <1>1, ImplementsDag, DagInvariant, RunsApart, NoTaskBeforeRun, RunsInOrder, PTL

\* As long as runs do not overlap, the hub holds a business key once.
THEOREM HubKeyUnique == Spec /\ []NoOverlap => []HubUnique
<1>1. Init => HubFresh /\ HubUnique
  BY Graph DEF Init, HubFresh, HubUnique
<1> QED
  BY <1>1, ApartInvariant, HubStep, VaultInvariant, PTL DEF Spec

-----------------------------------------------------------------------------
\* While a task executes, the other runs have no statement in flight and no
\* temporary table to copy back.
LEMMA OthersRest ==
    ASSUME VaultInv, Apart, NEW r \in Run, NEW t \in Task, ti[r][t] = "running",
           NEW q \in Run, q # r
    PROVE  /\ \A u \in Task : read[q][u] = NoRead /\ ti[q][u] # "running"
           /\ ~AwaitsCopy(q)
<1>1. q < r \/ q > r
  BY DagAssumption DEF Run
<1>2. CASE q < r
  <2>1. run[q] # "running"
    BY <1>2 DEF Apart, OneActiveRun, Unborn, Ended
  <2> QED
    BY <1>2, <2>1, Graph DEF Apart, Alone, VaultInv, ReadRunning, AwaitsCopy
<1>3. CASE q > r
  BY <1>3, Graph DEF Apart, Alone, VaultInv, ReadRunning, AwaitsCopy
<1> QED
  BY <1>1, <1>2, <1>3

\* A task that comes later in the run has neither started nor read.
LEMMA LaterRest ==
    ASSUME VaultInv, NEW r \in Run, NEW t \in Task, ti[r][t] = "running"
    PROVE  /\ t = "stage" =>
                ti[r]["sat"] \notin {"running", "success"} /\ read[r]["sat"] = NoRead
           /\ t = "sat" => ti[r]["drop"] \notin {"running", "success"}
           /\ t \in {"sat", "drop"} =>
                ti[r]["enddate"] \notin {"running", "success"} /\ read[r]["enddate"] = NoRead
           /\ t \in {"sat", "drop", "enddate"} =>
                ti[r]["copyback"] \notin {"running", "success"} /\ read[r]["copyback"] = NoRead
           /\ t = "copyback" =>
                /\ ti[r]["enddate"] = "success" /\ ti[r]["sat"] = "success"
                /\ read[r]["enddate"] = NoRead /\ read[r]["sat"] = NoRead
<1>1. ti[r]["sat"] \in {"running", "success"} => ti[r]["stage"] = "success"
  BY Graph DEF VaultInv, DagInv, UpstreamDone
<1>2. ti[r]["drop"] \in {"running", "success"} => ti[r]["sat"] = "success"
  BY Graph DEF VaultInv, DagInv, UpstreamDone
<1>3. ti[r]["enddate"] \in {"running", "success"} => ti[r]["drop"] = "success"
  BY Graph DEF VaultInv, DagInv, UpstreamDone
<1>4. ti[r]["copyback"] \in {"running", "success"} => ti[r]["enddate"] = "success"
  BY Graph DEF VaultInv, DagInv, UpstreamDone
<1>5. \A u \in Task : read[r][u] # NoRead => ti[r][u] = "running"
  BY DEF VaultInv, ReadRunning
<1> QED
  BY <1>1, <1>2, <1>3, <1>4, <1>5, Graph

\* Every step changes the satellite in one of the four ways.
LEMMA Kinds ==
    ASSUME VaultInv, DagInv', Fresh, [Next]_vars
    PROVE  Still \/ \E r \in Run : Insert(r) \/ Redate(r) \/ Tear(r)
<1> USE Graph
<1>1. CASE Quiet
  BY <1>1 DEF Quiet, Still, HasLoaded
<1>2. ASSUME NEW r \in Run, Takes(r) PROVE Still
  BY <1>2 DEF Takes, Took, Still
<1>3. ASSUME NEW r \in Run, PutSat(r) PROVE Insert(r)
  BY <1>3 DEF PutSat, Put, HasRead, Fresh, Insert, Keeps
<1>4. ASSUME NEW r \in Run, PutCopyback(r) PROVE Redate(r)
  BY <1>4 DEF PutCopyback, Put, HasRead, Fresh, Redate, Redated, Keeps
<1>5. ASSUME NEW r \in Run, NEW t \in Task, Put(r, t), UNCHANGED sat,
             t \in {"sat", "copyback"} => ti'[r][t] = "failed",
             t # "stage" => UNCHANGED staged,
             \A q \in Run : q # r => staged'[q] = staged[q]
      PROVE  Still
  BY <1>5 DEF Put, Still, HasLoaded
<1>6. ASSUME NEW r \in Run,
             PutStage(r) \/ PutHub(r) \/ PutDrop(r) \/ PutEndDate(r)
             \/ \E t \in Task : PutNothing(r, t)
      PROVE  Still
  BY <1>5, <1>6 DEF PutStage, PutHub, PutDrop, PutEndDate, PutNothing
<1> QED
  BY <1>1, <1>2, <1>3, <1>4, <1>6, Moves DEF Puts

\* What a statement has read stays true until it writes.
LEMMA FreshStep ==
    ASSUME VaultInv, DagInv', Apart, Fresh, [Next]_vars
    PROVE  Fresh'
<1> USE Graph
<1>1. CASE Quiet
  <2>1. \A q \in Run : AwaitsCopy(q)' => AwaitsCopy(q)
    BY <1>1 DEF Quiet, AwaitsCopy, Apart, Unborn
  <2> QED
    BY <1>1, <2>1 DEF Quiet, Fresh, Redated, SatQuery
<1>2. ASSUME NEW r \in Run, NEW t \in Task, NEW x, Took(r, t, x),
             t = "sat" => x = SatQuery(r),
             t \in {"enddate", "copyback"} => Redated(x)
      PROVE  Fresh'
  <2>1. \A q \in Run : AwaitsCopy(q)' => AwaitsCopy(q)
    BY <1>2 DEF Took, AwaitsCopy
  <2> QED
    BY <1>2, <2>1 DEF Took, Fresh, Redated, SatQuery
<1>3. ASSUME NEW r \in Run, Takes(r) PROVE Fresh'
  <2>1. CASE Took(r, "copyback", temp)
    <3>1. Redated(temp)
      BY <2>1, LaterRest DEF Took, Fresh, AwaitsCopy
    <3> QED
      BY <1>2, <2>1, <3>1
  <2>2. CASE \E last \in LastRows(sat) : Took(r, "enddate", EndDate(sat, last))
    BY <1>2, <2>2 DEF Redated
  <2> QED
    BY <1>2, <1>3, <2>1, <2>2 DEF Takes
\* The end of a task: what is left to show for its own run.
<1>4. ASSUME NEW r \in Run, NEW t \in Task, Put(r, t),
             \A q \in Run : q # r => staged'[q] = staged[q],
             read'[r]["sat"] # NoRead => UNCHANGED <<staged, sat>>,
             read'[r]["enddate"] # NoRead => UNCHANGED sat,
             read'[r]["copyback"] # NoRead => UNCHANGED sat,
             AwaitsCopy(r)' => UNCHANGED sat /\ (t = "enddate" \/ UNCHANGED temp),
             (t = "enddate" /\ ti'[r]["enddate"] = "success")
                => temp' = read[r]["enddate"] /\ HasRead(r, "enddate")
      PROVE  Fresh'
  <2>1. ti[r][t] = "running"
    BY <1>4 DEF Put
  <2>2. \A q \in Run : q # r =>
           /\ \A u \in Task : read'[q][u] = NoRead
           /\ ~AwaitsCopy(q)'
    BY <1>4, <2>1, OthersRest DEF Put, AwaitsCopy
  <2>3. /\ read'[r]["sat"] # NoRead => read'[r]["sat"] = SatQuery(r)'
        /\ read'[r]["enddate"] # NoRead => Redated(read[r]["enddate"])'
        /\ read'[r]["copyback"] # NoRead => Redated(read[r]["copyback"])'
    BY <1>4 DEF Put, Fresh, SatQuery, Redated
  <2>4. AwaitsCopy(r)' => Redated(temp)'
    BY <1>4 DEF Put, Fresh, Redated, HasRead, AwaitsCopy
  <2> QED
    BY <2>2, <2>3, <2>4 DEF Fresh
<1>5. ASSUME NEW r \in Run, Puts(r) PROVE Fresh'
  <2>1. CASE PutStage(r)
    BY <1>4, <2>1, LaterRest DEF PutStage, Put, AwaitsCopy
  <2>2. CASE PutHub(r)
    BY <1>4, <2>2 DEF PutHub
  <2>3. CASE PutSat(r)
    BY <1>4, <2>3, LaterRest DEF PutSat, Put, AwaitsCopy
  <2>4. CASE PutDrop(r)
    BY <1>4, <2>4, LaterRest DEF PutDrop, Put, AwaitsCopy
  <2>5. CASE PutEndDate(r)
    BY <1>4, <2>5 DEF PutEndDate
  <2>6. CASE PutCopyback(r) \/ (Tear(r) /\ Put(r, "copyback") /\ UNCHANGED <<hub, temp>>)
    <3>1. Put(r, "copyback") /\ staged' = staged
      BY <2>6 DEF PutCopyback, Tear, Keeps
    <3>2. /\ read'[r]["sat"] = NoRead /\ read'[r]["enddate"] = NoRead
          /\ read'[r]["copyback"] = NoRead /\ ti'[r]["copyback"] \in {"success", "failed"}
      BY <3>1, LaterRest DEF Put
    <3> QED
      BY <1>4, <3>1, <3>2 DEF AwaitsCopy
  <2>7. ASSUME NEW t \in Task, PutNothing(r, t) PROVE Fresh'
    BY <1>4, <2>7 DEF PutNothing
  <2> QED
    BY <1>5, <2>1, <2>2, <2>3, <2>4, <2>5, <2>6, <2>7 DEF Puts
<1> QED
  BY <1>1, <1>3, <1>5, Moves

-----------------------------------------------------------------------------
\* The satellite is a table of rows in the sense of SatelliteProofs.
LEMMA SatShape ==
    ASSUME VaultInv
    PROVE  /\ Run \in SUBSET Nat /\ Run = 1 .. Runs /\ Runs \in Nat
           /\ sat \in SUBSET Row(Key, Val, Run)
           /\ \A s \in sat : s.dtm \in Run /\ s.key \in Key /\ s.val \in Val
  BY DagAssumption DEF VaultInv, TypeOK, SatRow, Row, Run

\* What the satellite statement inserts.
LEMMA SatQueryRows ==
    ASSUME VaultInv, NEW r \in Run, ti[r]["sat"] = "running"
    PROVE  /\ staged[r] \in SUBSET Staged
           /\ SatQuery(r) \in SUBSET Row(Key, Val, Run)
           /\ \A x \in SatQuery(r) :
                 /\ x.dtm = r /\ x.end = NoEnd
                 /\ \E b \in staged[r] :
                       x.key = b.key /\ x.val = b.val /\ Changed(b, sat)
<1>1. ti[r]["stage"] = "success"
  BY Graph DEF VaultInv, DagInv, UpstreamDone
<1>2. staged[r] \in SUBSET [key : Key, val : Val]
  BY <1>1 DEF VaultInv, StagedThere, Staged
<1>3. /\ NewVersions(staged[r], sat, r) \in SUBSET Row(Key, Val, Run)
      /\ \A x \in NewVersions(staged[r], sat, r) :
            /\ x.dtm = r /\ x.end = NoEnd
            /\ \E b \in staged[r] :
                  x.key = b.key /\ x.val = b.val /\ Changed(b, sat)
  BY <1>2 DEF NewVersions, Row
<1> QED
  BY <1>2, <1>3 DEF SatQuery, Staged

\* A run that copied back had loaded before.
LEMMA CopiedLoaded ==
    ASSUME VaultInv, NEW r \in Run, ti[r]["copyback"] = "success"
    PROVE  ti[r]["sat"] = "success"
  BY Graph DEF VaultInv, DagInv, UpstreamDone

\* While a run loads, all that was copied back or loaded came from earlier ones.
LEMMA EarlierOnly ==
    ASSUME VaultInv, Apart, NEW r \in Run, NEW t \in {"sat", "copyback"}, ti[r][t] = "running",
           NEW q \in Run
    PROVE  /\ ti[q]["copyback"] = "success" => q < r
           /\ HasLoaded(q) => q <= r
           /\ t = "sat" /\ HasLoaded(q) => q < r
<1>1. q < r \/ q = r \/ q > r
  BY DagAssumption DEF Run
<1>2. CASE q > r
  BY <1>2, Graph DEF Apart, Alone, HasLoaded
<1>3. CASE q = r
  BY <1>3, CopiedLoaded, DagAssumption DEF HasLoaded, Run
<1>4. CASE q < r
  BY <1>4, DagAssumption DEF Run
<1> QED
  BY <1>1, <1>2, <1>3, <1>4

\* A load that ran stays one.
LEMMA HasLoadedStays ==
    ASSUME Still \/ \E r \in Run : Insert(r) \/ Redate(r) \/ Tear(r),
           NEW q \in Run, HasLoaded(q)
    PROVE  HasLoaded(q)'
  BY Graph DEF Still, Insert, Redate, Tear, Keeps, HasLoaded

\* End dating and inserting date every version with a load that ran.
LEMMA LoadedStep ==
    ASSUME VaultInv, DagInv', Fresh, Loaded, [Next]_vars
    PROVE  Loaded'
<1>1. \A q \in Run : HasLoaded(q) => HasLoaded(q)'
  BY Kinds, HasLoadedStays
<1>2. ASSUME NEW r \in Run, Insert(r) PROVE Loaded'
  <2>1. \A x \in SatQuery(r) : x.dtm = r
    BY <1>2, SatQueryRows DEF Insert, Keeps
  <2>2. HasLoaded(r)'
    BY <1>2 DEF Insert, Keeps, HasLoaded
  <2> QED
    BY <1>1, <1>2, <2>1, <2>2, SatShape DEF Insert, Loaded
<1>3. ASSUME NEW r \in Run, Redate(r) PROVE Loaded'
  <2>1. PICK last \in LastRows(sat) : sat' = EndDate(sat, last)
    BY <1>3 DEF Redate, Redated
  <2>2. \A x \in EndDate(sat, last) : \E s \in sat :
           x.key = s.key /\ x.val = s.val /\ x.dtm = s.dtm
    <3>1. Run \in SUBSET Nat /\ sat \in SUBSET Row(Key, Val, Run)
      BY SatShape
    <3> QED
      BY <3>1, EndDateFact
  <2> QED
    BY <1>1, <2>1, <2>2, SatShape DEF Loaded
<1>4. ASSUME NEW r \in Run, Tear(r) PROVE Loaded'
  BY <1>4 DEF Tear, Loaded
<1>5. CASE Still
  BY <1>1, <1>5, SatShape DEF Still, Loaded
<1> QED
  BY <1>2, <1>3, <1>4, <1>5, Kinds

\* Only a completed end dating settles the satellite; a load unsettles it.
LEMMA SettledFact ==
    ASSUME VaultInv, Apart, NEW q \in Run, Settled(q)'
    PROVE  /\ Still => Settled(q)
           /\ \A r \in Run : ~Insert(r)
<1>1. ASSUME Still PROVE Settled(q)
  <2>1. \A p \in Run : HasLoaded(p) => HasLoaded(p)'
    BY <1>1, HasLoadedStays
  <2> QED
    BY <1>1, <2>1 DEF Settled, Still
<1>2. ASSUME NEW r \in Run, Insert(r) PROVE FALSE
  <2>1. ti[q]["copyback"] = "success" /\ HasLoaded(r)' /\ ti[r]["sat"] = "running"
    BY <1>2, Graph DEF Settled, Insert, Keeps, HasLoaded
  <2>2. q < r
    BY <2>1, EarlierOnly
  <2> QED
    BY <2>1, <2>2, DagAssumption DEF Settled, Run
<1> QED
  BY <1>1, <1>2

\* End dating leaves one open row per key, with ties too.
LEMMA SettledOpenStep ==
    ASSUME VaultInv, DagInv', Apart, Fresh, SettledOpen, [Next]_vars
    PROVE  SettledOpen'
<1> SUFFICES ASSUME NEW q \in Run, Settled(q)' PROVE OneOpen(sat)'
  BY DEF SettledOpen
<1>1. CASE Still
  BY <1>1, SettledFact DEF Still, SettledOpen
<1>2. ASSUME NEW r \in Run, Redate(r) PROVE OneOpen(sat)'
  <2>1. PICK last \in LastRows(sat) : sat' = EndDate(sat, last)
    BY <1>2 DEF Redate, Redated
  <2>2. OneOpen(EndDate(sat, last))
    <3>1. /\ Run \in SUBSET Nat /\ Versioned(sat, Run)
          /\ Runs \in Nat /\ \A d \in Run : d <= Runs
      BY SatShape, RowsVersioned
    <3> QED
      BY <2>1, <3>1, EndDateOneOpen
  <2> QED
    BY <2>1, <2>2
<1>3. ASSUME NEW r \in Run, Tear(r) PROVE OneOpen(sat)'
  BY <1>3 DEF Tear, OneOpen
<1> QED
  BY <1>1, <1>2, <1>3, Kinds, SettledFact

\* After a run that succeeded, and before the next one, the satellite is
\* settled.
LEMMA LastIsSettled ==
    ASSUME SuccessIsTotal, Apart, NEW r \in Run, LastSucceeded(r)
    PROVE  Settled(r) /\ \A t \in Task : ti[r][t] = "success"
  BY Graph DEF SuccessIsTotal, Apart, Unborn, LastSucceeded, Settled, HasLoaded

QuietInv == VaultInv /\ Apart /\ SuccessIsTotal /\ Fresh

\* The snapshots of the statements in flight and the temporary table stay
\* true until they are used.
THEOREM QuietInvariant == Spec /\ []NoOverlap => []QuietInv
<1>1. Init => Fresh
  BY Graph DEF Init, DagInit, Fresh, AwaitsCopy
<1>2. Spec => []SuccessIsTotal
  BY ImplementsDag, SuccessTotal, PTL
<1> QED
  BY <1>1, <1>2, ApartInvariant, FreshStep, VaultInvariant, PTL DEF Spec, QuietInv

\* Every version carries the date of a load that ran, and a settled
\* satellite has one open row per key.
THEOREM VersionsInvariant ==
    Spec /\ []NoOverlap => [](Loaded /\ SettledOpen)
<1>1. Init => Loaded /\ SettledOpen
  BY DEF Init, Loaded, SettledOpen, OneOpen
<1>2. QuietInv /\ QuietInv' /\ Loaded /\ SettledOpen /\ [Next]_vars
         => Loaded' /\ SettledOpen'
  BY LoadedStep, SettledOpenStep DEF QuietInv, VaultInv
<1> QED
  BY <1>1, <1>2, QuietInvariant, PTL DEF Spec

\* After a successful run each key has exactly one active record, whatever
\* failed before, with ties and after torn overwrites.
THEOREM ActiveVersionUnique == Spec /\ []NoOverlap => []OneActiveVersion
<1>1. QuietInv /\ SettledOpen => OneActiveVersion
  <2> SUFFICES ASSUME QuietInv, SettledOpen, NEW r \in Run, LastSucceeded(r), NEW s \in sat
               PROVE  Cardinality(RowsOf(Current(sat), s.key)) = 1
    BY DEF OneActiveVersion
  <2>1. PICK y \in sat : RowsOf(Current(sat), s.key) = {y}
    BY LastIsSettled DEF QuietInv, SettledOpen, OneOpen
  <2> QED
    BY <2>1, FS_Singleton
<1> QED
  BY <1>1, QuietInvariant, VersionsInvariant, PTL

-----------------------------------------------------------------------------
\* The staging query returns one record per business key.
LEMMA StagedOnceStep ==
    ASSUME Injective, VaultInv, DagInv', StagedOnce, [Next]_vars
    PROVE  StagedOnce'
<1> USE Graph
<1>1. CASE Quiet
  BY <1>1 DEF Quiet, StagedOnce
<1>2. ASSUME NEW r \in Run, Takes(r) PROVE StagedOnce'
  <2>1. OnePerKey(StagingQuery(r))
    BY DEF StagingQuery, OnePerKey, Injective
  <2> QED
    BY <1>2, <2>1 DEF Takes, Took, StagedOnce
<1>3. ASSUME NEW r \in Run, PutStage(r) PROVE StagedOnce'
  BY <1>3 DEF PutStage, Put, HasRead, StagedOnce
<1>4. ASSUME NEW r \in Run, NEW t \in Task, Put(r, t), UNCHANGED staged,
             t = "stage" => ti'[r][t] = "failed"
      PROVE  StagedOnce'
  BY <1>4 DEF Put, StagedOnce
<1>5. ASSUME NEW r \in Run, Puts(r) PROVE StagedOnce'
  BY <1>3, <1>4, <1>5
  DEF Puts, PutHub, PutSat, PutDrop, PutEndDate, PutCopyback, PutNothing, Tear, Keeps
<1> QED
  BY <1>1, <1>2, <1>5, Moves

\* Without ties, end dating closes all versions of a key but the latest.
LEMMA RedateFact ==
    ASSUME VaultInv, OnePerLoad(sat), NEW r \in Run, Redate(r)
    PROVE  /\ SameVersions(sat, sat')
           /\ Contiguous(sat') /\ OnePerLoad(sat')
           /\ \A s \in sat' : s.end = NoEnd <=> LatestOf(sat', s)
<1>1. PICK last \in LastRows(sat) : sat' = EndDate(sat, last)
  BY DEF Redate, Redated
<1>2. Run \in SUBSET Nat /\ sat \in SUBSET Row(Key, Val, Run)
  BY SatShape
<1>3. EndDate(sat, last) \in SUBSET Row(Key, Val, Run)
  BY <1>2, EndDateFact
<1>4. SameVersions(sat, EndDate(sat, last))
  BY <1>2, EndDateSame
<1>5. Contiguous(EndDate(sat, last)) /\ OnePerLoad(EndDate(sat, last))
  BY <1>1, <1>2, EndDateDates
<1>6. \A s \in EndDate(sat, last) : s.end = NoEnd <=> LatestOf(EndDate(sat, last), s)
  <2> DEFINE T == EndDate(sat, last)
  <2>1. T \in SUBSET Row(Key, Val, Run) /\ Contiguous(T)
    BY <1>3, <1>5
  <2> HIDE DEF T
  <2>2. \A s \in T : s.end = NoEnd <=> LatestOf(T, s)
    BY <1>2, <2>1, DatedOpen
  <2> QED
    BY <2>2 DEF T
<1> QED
  BY <1>1, <1>4, <1>5, <1>6

\* The rows a load inserts are newer than all others, one per key, and each
\* differs from an open row of its key, if there is one.
LEMMA InsertFact ==
    ASSUME VaultInv, Apart, Loaded, StagedOnce, NEW r \in Run, Insert(r)
    PROVE  /\ sat' = sat \cup SatQuery(r)
           /\ \A s \in sat : s.dtm \in Nat /\ s.dtm < r
           /\ \A x \in SatQuery(r) :
                 /\ x.dtm = r /\ x.end = NoEnd
                 /\ \E b \in staged[r] :
                       x.key = b.key /\ x.val = b.val /\ Changed(b, sat)
           /\ \A x, y \in SatQuery(r) : x.key = y.key => x = y
<1>1. ti[r]["sat"] = "running" /\ ti[r]["stage"] = "success" /\ sat' = sat \cup SatQuery(r)
  BY Graph DEF Insert, Keeps, VaultInv, DagInv, UpstreamDone
<1>2. \A s \in sat : s.dtm \in Run /\ s.dtm \in Nat /\ s.dtm < r
  BY <1>1, EarlierOnly, SatShape DEF Loaded
<1>3. /\ SatQuery(r) \in SUBSET Row(Key, Val, Run)
      /\ \A x \in SatQuery(r) :
                 /\ x.dtm = r /\ x.end = NoEnd
                 /\ \E b \in staged[r] :
                       x.key = b.key /\ x.val = b.val /\ Changed(b, sat)
  BY <1>1, SatQueryRows
<1>4. ASSUME NEW x \in SatQuery(r), NEW y \in SatQuery(r), x.key = y.key PROVE x = y
  <2>1. PICK b \in staged[r] : x.key = b.key /\ x.val = b.val
    BY <1>3
  <2>2. PICK c \in staged[r] : y.key = c.key /\ y.val = c.val
    BY <1>3
  <2>3. b = c
    BY <1>1, <1>4, <2>1, <2>2 DEF StagedOnce, OnePerKey
  <2> QED
    BY <1>3, <1>4, <2>1, <2>2, <2>3 DEF Row
<1> QED
  BY <1>1, <1>2, <1>3, <1>4

-----------------------------------------------------------------------------
TieFree ==
    /\ StagedOnce
    /\ OnePerLoad(sat)
    /\ SettledDated
    /\ OpenLatest
    /\ Closed
    /\ NoRepeats

\* A load keeps the table free of ties and repeats no version of a key that
\* end dating has reached.
LEMMA InsertTieFree ==
    ASSUME VaultInv, Apart, Loaded, TieFree, NEW r \in Run, Insert(r)
    PROVE  OnePerLoad(sat)' /\ OpenLatest' /\ Closed' /\ NoRepeats'
<1>1. /\ sat' = sat \cup SatQuery(r)
      /\ \A s \in sat : s.dtm \in Nat /\ s.dtm < r
      /\ \A x \in SatQuery(r) :
            /\ x.dtm = r /\ x.end = NoEnd
            /\ \E b \in staged[r] :
                  x.key = b.key /\ x.val = b.val /\ Changed(b, sat)
      /\ \A x, y \in SatQuery(r) : x.key = y.key => x = y
  BY InsertFact DEF TieFree
<1>2. \A q \in Run : ti'[q]["copyback"] = "success" => ti[q]["copyback"] = "success" /\ q < r
  <2>1. ti[r]["sat"] = "running"
    BY DEF Insert, Keeps
  <2>2. \A q \in Run : ti'[q]["copyback"] = "success" => ti[q]["copyback"] = "success"
    BY Graph DEF Insert, Keeps
  <2> QED
    BY <2>1, <2>2, EarlierOnly
<1>3. r \in Nat /\ Run \in SUBSET Nat
  BY SatShape
<1>4. OnePerLoad(sat)'
  BY <1>1, <1>3 DEF OnePerLoad, TieFree
<1>5. OpenLatest'
  BY <1>1 DEF OpenLatest, LatestOf, TieFree
<1>6. Closed'
  BY <1>1, <1>2, <1>3 DEF Closed, TieFree
<1>7. NoRepeats'
  <2> SUFFICES ASSUME NEW s \in sat', NEW x \in sat', Follows(s, x)', s.val = x.val,
                      NEW q \in Run, s.dtm <= q, q < x.dtm, ti'[q]["copyback"] = "success"
               PROVE  FALSE
    BY DEF NoRepeats
  <2>1. s \in sat
    BY <1>1, <1>3 DEF Follows
  <2>2. CASE x \in sat
    <3>1. Follows(s, x)
      BY <1>1 DEF Follows
    <3> QED
      BY <1>2, <2>1, <2>2, <3>1 DEF NoRepeats, TieFree
  <2>3. CASE x \in SatQuery(r)
    <3>1. x.dtm = r /\ s.key = x.key
      BY <1>1, <2>3 DEF Follows
    <3>2. LatestOf(sat, s)
      BY <1>1, <3>1 DEF Follows, LatestOf
    <3>3. s.end = NoEnd
      BY <2>1, <3>2 DEF OpenLatest, TieFree
    <3>4. PICK b \in staged[r] : x.key = b.key /\ x.val = b.val /\ Changed(b, sat)
      BY <1>1, <2>3
    <3>5. s \in RowsOf(Current(sat), b.key)
      BY <2>1, <3>1, <3>3, <3>4 DEF RowsOf, Current
    <3>6. PICK y \in RowsOf(Current(sat), b.key) : y.val # b.val
      BY <3>4, <3>5 DEF Changed
    <3>7. y \in sat /\ y.key = s.key /\ y.end = NoEnd /\ y # s
      BY <3>1, <3>4, <3>6 DEF RowsOf, Current
    <3>8. y.dtm # s.dtm
      BY <2>1, <3>7 DEF OnePerLoad, TieFree
    <3>9. y.dtm < s.dtm
      BY <1>1, <2>1, <3>2, <3>7, <3>8 DEF LatestOf
    <3> QED
      BY <1>2, <2>1, <3>7, <3>9 DEF Closed, TieFree
  <2> QED
    BY <1>1, <2>2, <2>3
<1> QED
  BY <1>4, <1>5, <1>6, <1>7

\* End dating keeps the versions and closes the right ones.
LEMMA RedateTieFree ==
    ASSUME VaultInv, Apart, Loaded, TieFree, NEW r \in Run, Redate(r)
    PROVE  OnePerLoad(sat)' /\ OpenLatest' /\ Closed' /\ NoRepeats'
<1>1. /\ SameVersions(sat, sat')
      /\ OnePerLoad(sat')
      /\ \A s \in sat' : s.end = NoEnd <=> LatestOf(sat', s)
  BY RedateFact DEF TieFree
<1>2. OpenLatest' /\ Closed'
  BY <1>1 DEF OpenLatest, Closed, LatestOf
<1>3. NoRepeats'
  <2> SUFFICES ASSUME NEW s \in sat', NEW x \in sat', Follows(s, x)', s.val = x.val,
                      NEW q \in Run, s.dtm <= q, q < x.dtm, ti'[q]["copyback"] = "success"
               PROVE  FALSE
    BY DEF NoRepeats
  <2>1. PICK t \in sat : s.key = t.key /\ s.val = t.val /\ s.dtm = t.dtm
    BY <1>1 DEF SameVersions
  <2>2. PICK y \in sat : x.key = y.key /\ x.val = y.val /\ x.dtm = y.dtm
    BY <1>1 DEF SameVersions
  <2>3. Follows(t, y)
    <3>1. \A z \in sat' : ~(z.key = s.key /\ s.dtm < z.dtm /\ z.dtm < x.dtm)
      BY DEF Follows
    <3>2. \A u \in sat : \E z \in sat' : z.key = u.key /\ z.dtm = u.dtm
      BY <1>1 DEF SameVersions
    <3>3. s.key = x.key /\ s.dtm < x.dtm
      BY DEF Follows
    <3> QED
      BY <2>1, <2>2, <3>1, <3>2, <3>3 DEF Follows
  <2>4. ti[q]["copyback"] # "success"
    BY <2>1, <2>2, <2>3 DEF NoRepeats, TieFree
  <2>5. q = r
    BY <2>4, Graph DEF Redate, Keeps
  <2>6. y.dtm \in Run /\ y.dtm <= r
    <3>1. ti[r]["copyback"] = "running"
      BY DEF Redate, Keeps
    <3> QED
      BY <3>1, EarlierOnly, SatShape DEF Loaded
  <2> QED
    BY <2>2, <2>5, <2>6, SatShape
<1> QED
  BY <1>1, <1>2, <1>3

\* No step creates a tie, loses the right open row or repeats a version.
LEMMA TieFreeStep ==
    ASSUME Injective, VaultInv, DagInv', Apart, Fresh, Loaded, TieFree, [Next]_vars
    PROVE  TieFree'
<1>1. StagedOnce'
  BY StagedOnceStep DEF TieFree
<1>2. SettledDated'
  <2> SUFFICES ASSUME NEW q \in Run, Settled(q)' PROVE Contiguous(sat)'
    BY DEF SettledDated
  <2>1. CASE Still
    BY <2>1, SettledFact DEF Still, SettledDated, TieFree
  <2>2. ASSUME NEW r \in Run, Redate(r) PROVE Contiguous(sat)'
    BY <2>2, RedateFact DEF TieFree
  <2>3. ASSUME NEW r \in Run, Tear(r) PROVE Contiguous(sat)'
    BY <2>3 DEF Tear, Contiguous
  <2> QED
    BY <2>1, <2>2, <2>3, Kinds, SettledFact
<1>3. CASE Still
  <2>1. OnePerLoad(sat)' /\ OpenLatest' /\ Closed' /\ NoRepeats'
    BY <1>3, Graph DEF Still, OnePerLoad, OpenLatest, Closed, NoRepeats, Follows, TieFree
  <2> QED
    BY <1>1, <1>2, <2>1 DEF TieFree
<1>4. ASSUME NEW r \in Run, Tear(r) PROVE OnePerLoad(sat)' /\ OpenLatest' /\ Closed' /\ NoRepeats'
  BY <1>4 DEF Tear, OnePerLoad, OpenLatest, Closed, NoRepeats
<1> QED
  BY <1>1, <1>2, <1>3, <1>4, InsertTieFree, RedateTieFree, Kinds DEF TieFree

\* With unique business keys no two versions tie, a settled satellite is
\* dated without gaps, and end dating leaves the latest version open only.
THEOREM TieFreeInvariant ==
    ASSUME Injective PROVE Spec /\ []NoOverlap => []TieFree
<1>1. Init => TieFree
  BY Graph DEF Init, DagInit, TieFree, StagedOnce, OnePerLoad, SettledDated, Settled,
               OpenLatest, Closed, NoRepeats
<1>2. QuietInv /\ QuietInv' /\ Loaded /\ TieFree /\ [Next]_vars => TieFree'
  BY TieFreeStep DEF QuietInv, VaultInv
<1> QED
  BY <1>1, <1>2, QuietInvariant, VersionsInvariant, PTL DEF Spec

\* After a successful run the validity periods of the versions of each key
\* follow one another without gap or overlap, and the last one is open.
THEOREM PeriodsFollow ==
    ASSUME Injective PROVE Spec /\ []NoOverlap => []WellDated
<1>1. QuietInv /\ TieFree => WellDated
  BY LastIsSettled DEF QuietInv, TieFree, WellDated, SettledDated, Contiguous
<1> QED
  BY <1>1, QuietInvariant, TieFreeInvariant, PTL

\* A version is never loaded twice: between two equal versions in succession
\* no run completed end dating.
THEOREM NothingLoadedTwice ==
    ASSUME Injective PROVE Spec /\ []NoOverlap => []NoTrueDuplicates
<1>1. VaultInv /\ TieFree => NoTrueDuplicates
  <2> SUFFICES ASSUME VaultInv, TieFree, NEW s \in sat, NEW x \in sat,
                      s.key = x.key, NextLoad(sat, s) = x.dtm, s.val = x.val,
                      NEW q \in s.dtm .. (x.dtm - 1)
               PROVE  ti[q]["copyback"] # "success"
    BY DEF NoTrueDuplicates
  <2>1. /\ Run \in SUBSET Nat /\ sat \in SUBSET Row(Key, Val, Run)
        /\ \A y \in sat : y.dtm \in Run /\ y.dtm \in Nat
    BY SatShape
  <2>2. /\ x.dtm \in LaterLoads(sat, s)
        /\ \A e \in LaterLoads(sat, s) : x.dtm <= e
    <3>1. NextLoad(sat, s) # NoEnd
      BY <2>1, NoEndAssumption
    <3> QED
      BY <2>1, <3>1, NextLoadFact
  <2>3. \A d : d \in LaterLoads(sat, s) <=> \E y \in sat : y.key = s.key /\ y.dtm > s.dtm /\ d = y.dtm
    BY LaterLoadsFact
  <2>4. Follows(s, x)
    <3>1. s.dtm < x.dtm
      BY <2>1, <2>2, <2>3
    <3>2. ASSUME NEW y \in sat, y.key = s.key, s.dtm < y.dtm, y.dtm < x.dtm PROVE FALSE
      <4>1. y.dtm \in LaterLoads(sat, s)
        BY <2>1, <2>3, <3>2
      <4> QED
        BY <2>1, <2>2, <3>2, <4>1
    <3> QED
      BY <3>1, <3>2 DEF Follows
  <2>5. q \in Run /\ s.dtm <= q /\ q < x.dtm
    BY <2>1, SatShape
  <2> QED
    BY <2>4, <2>5 DEF TieFree, NoRepeats
<1> QED
  BY <1>1, VaultInvariant, TieFreeInvariant, PTL

-----------------------------------------------------------------------------
(***************************************************************************)
(* What the satellite remembers when no overwrite is torn.                 *)
(***************************************************************************)
\* A load that left a record out had its value as the latest version, or no
\* version and nothing to say.
LEMMA LeftOut ==
    ASSUME VaultInv, TieFree, NEW b, ~Changed(b, sat)
    PROVE  \/ \E s \in sat : s.key = b.key /\ s.val = b.val /\ LatestOf(sat, s)
           \/ b.val = Blank /\ \A s \in sat : s.key # b.key
<1>1. \A t \in sat : \E s \in sat : s.key = t.key /\ LatestOf(sat, s)
  <2>1. /\ Run \in SUBSET Nat /\ Versioned(sat, Run)
        /\ Runs \in Nat /\ \A d \in Run : d <= Runs
    BY SatShape, RowsVersioned
  <2> QED
    BY <2>1, LatestRow
<1>2. \A s \in sat : s.key = b.key /\ LatestOf(sat, s) => s \in RowsOf(Current(sat), b.key)
  BY DEF TieFree, OpenLatest, RowsOf, Current
<1>3. CASE \A s \in sat : s.key # b.key
  <2>1. RowsOf(Current(sat), b.key) = {}
    BY <1>3 DEF RowsOf, Current
  <2> QED
    BY <1>3, <2>1 DEF Changed
<1>4. CASE \E s \in sat : s.key = b.key
  <2>1. PICK s \in sat : s.key = b.key /\ LatestOf(sat, s)
    BY <1>1, <1>4
  <2>2. s \in RowsOf(Current(sat), b.key)
    BY <1>2, <2>1
  <2>3. s.val = b.val
    BY <2>2 DEF Changed
  <2> QED
    BY <2>1, <2>3
<1> QED
  BY <1>3, <1>4

\* After a load the latest version of every staged key is the staged one, and
\* what earlier loads staged is still what was latest then.
LEMMA InsertFaithful ==
    ASSUME VaultInv, Apart, Loaded, TieFree, Faithful, NEW r \in Run, Insert(r)
    PROVE  Faithful'
<1>1. /\ sat' = sat \cup SatQuery(r) /\ staged' = staged
      /\ \A s \in sat : s.dtm \in Nat /\ s.dtm < r
      /\ \A x \in SatQuery(r) :
            /\ x.dtm = r /\ x.end = NoEnd
            /\ \E b \in staged[r] :
                  x.key = b.key /\ x.val = b.val /\ Changed(b, sat)
  BY InsertFact DEF TieFree, Insert, Keeps
<1>2. /\ ti[r]["sat"] = "running" /\ ti[r]["stage"] = "success"
      /\ \A q \in Run : q # r => ti'[q]["sat"] = ti[q]["sat"]
  BY Graph DEF Insert, Keeps, VaultInv, DagInv, UpstreamDone
<1>3. r \in Nat /\ Run \in SUBSET Nat
  BY SatShape
<1> SUFFICES ASSUME NEW q \in Run, ti'[q]["sat"] = "success", NEW b \in staged[q]
             PROVE  \/ \E s \in sat' : s.key = b.key /\ s.val = b.val /\ LatestAt(s, q)'
                    \/ b.val = Blank /\ \A s \in sat' : ~(s.key = b.key /\ s.dtm <= q)
  BY <1>1 DEF Faithful
<1>4. CASE q # r
  <2>1. q < r
    BY <1>2, <1>4, EarlierOnly DEF HasLoaded
  <2>2. \A s : LatestAt(s, q) => LatestAt(s, q)'
    BY <1>1, <1>3, <2>1 DEF LatestAt
  <2>3. \A x \in SatQuery(r) : ~(x.dtm <= q)
    <3>1. q \in Nat /\ r \in Nat
      BY <1>3
    <3>2. ~(r <= q)
      BY <2>1, <3>1
    <3> QED
      BY <1>1, <3>2
  <2>4. \/ \E s \in sat : s.key = b.key /\ s.val = b.val /\ LatestAt(s, q)
        \/ b.val = Blank /\ \A s \in sat : ~(s.key = b.key /\ s.dtm <= q)
    BY <1>2, <1>4 DEF Faithful
  <2> QED
    BY <1>1, <2>2, <2>3, <2>4
<1>5. CASE q = r /\ Changed(b, sat)
  <2> DEFINE x == [key |-> b.key, val |-> b.val, dtm |-> r, end |-> NoEnd]
  <2>1. x \in SatQuery(r)
    BY <1>5 DEF SatQuery, NewVersions
  <2>2. LatestAt(x, q)'
    BY <1>1, <1>3, <1>5 DEF LatestAt
  <2> QED
    BY <1>1, <2>1, <2>2
<1>6. CASE q = r /\ ~Changed(b, sat)
  <2>1. \A x \in SatQuery(r) : x.key # b.key
    BY <1>1, <1>2, <1>6 DEF TieFree, StagedOnce, OnePerKey
  <2>2. \A s \in sat : s.key = b.key /\ LatestOf(sat, s) => LatestAt(s, q)'
    BY <1>1, <1>3, <1>6, <2>1 DEF LatestOf, LatestAt
  <2> QED
    BY <1>1, <1>6, <2>1, <2>2, LeftOut
<1> QED
  BY <1>4, <1>5, <1>6

\* No step makes the satellite untrue to what was staged.
LEMMA FaithfulStep ==
    ASSUME ~TornOverwrite, VaultInv, DagInv', Apart, Fresh, Loaded, TieFree, Faithful,
           [Next]_vars
    PROVE  Faithful'
<1>1. CASE Still
  <2>1. \A q \in Run : ti'[q]["sat"] = "success" =>
           ti[q]["sat"] = "success" /\ staged'[q] = staged[q]
    BY <1>1, Graph DEF Still, VaultInv, DagInv, UpstreamDone
  <2> QED
    BY <1>1, <2>1 DEF Still, Faithful, LatestAt
<1>2. ASSUME NEW r \in Run, Redate(r) PROVE Faithful'
  <2>1. \A q \in Run : ti'[q]["sat"] = ti[q]["sat"] /\ staged' = staged
    BY <1>2, Graph DEF Redate, Keeps
  <2>2. SameVersions(sat, sat')
    BY <1>2, RedateFact DEF TieFree
  <2>3. ASSUME NEW q \in Run, NEW b,
               \/ \E s \in sat : s.key = b.key /\ s.val = b.val /\ LatestAt(s, q)
               \/ b.val = Blank /\ \A s \in sat : ~(s.key = b.key /\ s.dtm <= q)
        PROVE  \/ \E s \in sat' : s.key = b.key /\ s.val = b.val /\ LatestAt(s, q)'
               \/ b.val = Blank /\ \A s \in sat' : ~(s.key = b.key /\ s.dtm <= q)
    <3>1. ASSUME NEW s \in sat, s.key = b.key, s.val = b.val, LatestAt(s, q)
          PROVE  \E x \in sat' : x.key = b.key /\ x.val = b.val /\ LatestAt(x, q)'
      <4>1. PICK x \in sat' : x.key = s.key /\ x.val = s.val /\ x.dtm = s.dtm
        BY <2>2 DEF SameVersions
      <4>2. \A z \in sat' : \E y \in sat : z.key = y.key /\ z.dtm = y.dtm
        BY <2>2 DEF SameVersions
      <4>3. LatestAt(x, q)'
        BY <3>1, <4>1, <4>2 DEF LatestAt
      <4> QED
        BY <3>1, <4>1, <4>3
    <3> QED
      BY <2>2, <2>3, <3>1 DEF SameVersions
  <2> QED
    BY <2>1, <2>3 DEF Faithful
<1> QED
  BY <1>1, <1>2, InsertFaithful, Kinds DEF Tear

\* For every load, the satellite remembers what was latest then.
THEOREM FaithfulInvariant ==
    ASSUME Injective, ~TornOverwrite PROVE Spec /\ []NoOverlap => []Faithful
<1>1. Init => Faithful
  BY Graph DEF Init, DagInit, Faithful
<1>2. QuietInv /\ QuietInv' /\ Loaded /\ TieFree /\ Faithful /\ [Next]_vars => Faithful'
  BY FaithfulStep DEF QuietInv, VaultInv
<1> QED
  BY <1>1, <1>2, QuietInvariant, VersionsInvariant, TieFreeInvariant, PTL DEF Spec

\* In a dated satellite a query for a date sees the latest version of then.
LEMMA SeenFact ==
    ASSUME VaultInv, OnePerLoad(sat), Contiguous(sat), NEW q \in Run, NEW k
    PROVE  /\ \A s \in sat : s.key = k /\ LatestAt(s, q) => SeenAt(k, q) = {s.val}
           /\ (\A s \in sat : ~(s.key = k /\ s.dtm <= q)) => SeenAt(k, q) = {}
<1>1. /\ Run \in SUBSET Nat /\ sat \in SUBSET Row(Key, Val, Run)
      /\ \A s \in sat : s.dtm \in Nat
  BY SatShape
<1>2. \A s \in sat : s \in VersionsAt(sat, s.key, q) <=> LatestAt(s, q)
  <2> SUFFICES ASSUME NEW s \in sat
               PROVE  s \in VersionsAt(sat, s.key, q) <=> LatestAt(s, q)
    OBVIOUS
  <2>1. q \in Nat
    BY <1>1
  <2> QED
    BY <1>1, <2>1, DatedAt DEF LatestAt
<1>3. \A s : s \in VersionsAt(sat, k, q) <=> s \in sat /\ s.key = k /\ LatestAt(s, q)
  BY <1>2 DEF VersionsAt, RowsOf
<1>4. ASSUME NEW s \in sat, s.key = k, LatestAt(s, q) PROVE SeenAt(k, q) = {s.val}
  <2>1. ASSUME NEW x \in VersionsAt(sat, k, q) PROVE x = s
    <3>1. x \in sat /\ x.key = k /\ LatestAt(x, q)
      BY <1>3
    <3>2. ~(x.dtm < s.dtm) /\ ~(s.dtm < x.dtm)
      BY <1>4, <3>1 DEF LatestAt
    <3>3. x.dtm = s.dtm
      BY <1>1, <3>1, <3>2
    <3> QED
      BY <1>4, <3>1, <3>3 DEF OnePerLoad
  <2>2. VersionsAt(sat, k, q) = {s}
    BY <1>3, <1>4, <2>1
  <2> QED
    BY <2>2 DEF SeenAt
<1>5. ASSUME \A s \in sat : ~(s.key = k /\ s.dtm <= q) PROVE SeenAt(k, q) = {}
  <2>1. VersionsAt(sat, k, q) = {}
    BY <1>3, <1>5 DEF LatestAt
  <2> QED
    BY <2>1 DEF SeenAt
<1> QED
  BY <1>4, <1>5

\* What the vault is for: after a successful run a query for any past load
\* date sees exactly the attributes that load had staged.
THEOREM PastIsSeen ==
    ASSUME Injective, ~TornOverwrite PROVE Spec /\ []NoOverlap => []AsOf
<1>1. QuietInv /\ TieFree /\ Faithful => AsOf
  <2> SUFFICES ASSUME QuietInv, TieFree, Faithful, NEW r \in Run, LastSucceeded(r),
                      NEW q \in 1 .. r, ti[q]["sat"] = "success", NEW b \in staged[q]
               PROVE  \/ SeenAt(b.key, q) = {b.val}
                      \/ SeenAt(b.key, q) = {} /\ b.val = Blank
    BY DEF AsOf
  <2>1. Contiguous(sat) /\ OnePerLoad(sat)
    BY LastIsSettled DEF QuietInv, TieFree, SettledDated
  <2>2. q \in Run
    BY DagAssumption DEF Run
  <2>3. \/ \E s \in sat : s.key = b.key /\ s.val = b.val /\ LatestAt(s, q)
        \/ b.val = Blank /\ \A s \in sat : ~(s.key = b.key /\ s.dtm <= q)
    BY <2>2 DEF Faithful
  <2>4. /\ \A s \in sat : s.key = b.key /\ LatestAt(s, q) => SeenAt(b.key, q) = {s.val}
        /\ (\A s \in sat : ~(s.key = b.key /\ s.dtm <= q)) => SeenAt(b.key, q) = {}
    BY <2>1, <2>2, SeenFact DEF QuietInv
  <2> QED
    BY <2>3, <2>4
<1> QED
  BY <1>1, QuietInvariant, TieFreeInvariant, FaithfulInvariant, PTL

-----------------------------------------------------------------------------
\* A step changes the source, or it leaves it alone and at most advances the
\* clock or creates a run that is due.
LEMMA ClockFact ==
    ASSUME VaultInv, [Next]_vars
    PROVE  \/ \E x \in SrcRow, v \in Val : EditSource(x, v)
           \/ /\ source' = source /\ today' \in Nat /\ today <= today'
              /\ \A r \in Run : run'[r] # "none" => run[r] # "none" \/ r < today
<1>1. today \in Nat /\ DagTypeOK
  BY DagAssumption DEF VaultInv, TypeOK
<1>2. ASSUME UNCHANGED <<source, today, run>>
      PROVE  /\ source' = source /\ today' \in Nat /\ today <= today'
             /\ \A r \in Run : run'[r] # "none" => run[r] # "none" \/ r < today
  BY <1>1, <1>2
<1>3. ASSUME NEW r \in Run, Schedule(r)
      PROVE  /\ source' = source /\ today' \in Nat /\ today <= today'
             /\ \A q \in Run : run'[q] # "none" => run[q] # "none" \/ q < today
  <2>1. CASE r < today /\ CreateRun(r)
    BY <1>1, <1>3, <2>1 DEF Schedule, CreateRun, DagTypeOK
  <2>2. CASE EndRun(r) \/ TimeoutRun(r)
    BY <1>1, <1>3, <2>2 DEF Schedule, EndRun, TimeoutRun, DagTypeOK
  <2>3. CASE \E t \in Task : StartTask(r, t) \/ FailUpstream(r, t)
    BY <1>2, <1>3, <2>3 DEF Schedule, StartTask, FailUpstream
  <2> QED
    BY <1>3, <2>1, <2>2, <2>3 DEF Schedule
<1>4. CASE NextDay
  BY <1>1, <1>4 DEF NextDay, dagVars
<1>5. ASSUME NEW r \in Run, NEW t, Complete(r, t) \/ FailTask(r, t)
      PROVE  UNCHANGED run /\ (Complete(r, t) => UNCHANGED <<today, source>>)
  BY <1>5 DEF Complete, FinishTask, FailTask
<1>6. ASSUME NEW r \in Run,
             \/ ReadStage(r) \/ ReadHub(r) \/ ReadSat(r)
             \/ ReadEndDate(r) \/ ReadCopyback(r)
             \/ WriteStage(r) \/ WriteHub(r) \/ WriteSat(r) \/ WriteOther(r)
             \/ DropTemp(r) \/ WriteEndDate(r) \/ WriteCopyback(r) \/ TearCopyback(r)
             \/ \E t \in Task : Fail(r, t)
      PROVE  UNCHANGED <<source, today, run>>
  BY <1>5, <1>6
  DEF ReadStage, ReadHub, ReadSat, ReadEndDate, ReadCopyback, Read, dagVars,
      WriteStage, WriteHub, WriteSat, WriteOther, DropTemp, WriteEndDate,
      WriteCopyback, TearCopyback, Fail
<1>7. CASE Stop \/ UNCHANGED vars
  BY <1>2, <1>7 DEF Stop, Idle, vars, dagVars
<1> QED
  BY <1>2, <1>3, <1>4, <1>6, <1>7 DEF Next

\* A staging table is never overtaken by a change of a day it covers.
LEMMA StagingCoversStep ==
    ASSUME ~DeltaStaging, VaultInv, DagInv', Unborn, StagingCovers, [Next]_vars
    PROVE  StagingCovers'
<1> USE Graph
<1>1. today \in Nat /\ Run \in SUBSET Nat
  BY DagAssumption DEF VaultInv, TypeOK, Run
<1>2. CASE \E x \in SrcRow, v \in Val : EditSource(x, v)
  <2>1. PICK x \in SrcRow, v \in Val : EditSource(x, v)
    BY <1>2
  <2>2. /\ UNCHANGED <<run, ti, today, staged, read>>
        /\ \A y \in SrcRow : source'[y] = IF y = x THEN [val |-> v, mod |-> today] ELSE source[y]
    BY <2>1 DEF EditSource, dagVars, data, VaultInv, TypeOK
  <2>3. ASSUME NEW r \in Run, NEW B, r < today, Covers(B, r) PROVE Covers(B, r)'
    BY <1>1, <2>2, <2>3 DEF Covers
  <2>4. \A r \in Run :
           read[r]["stage"] # NoRead \/ ti[r]["stage"] = "success" => r < today
    BY DEF Unborn, VaultInv, ReadRunning, StagingCovers
  <2> QED
    BY <2>2, <2>3, <2>4 DEF StagingCovers
<1>3. ASSUME source' = source, today' \in Nat, today <= today',
             \A r \in Run : run'[r] # "none" => run[r] # "none" \/ r < today
      PROVE  StagingCovers'
  <2>1. \A r \in Run : run'[r] # "none" => r < today'
    BY <1>1, <1>3 DEF StagingCovers
  <2>2. \A B, r : Covers(B, r)' <=> Covers(B, r)
    BY <1>3 DEF Covers
  <2>3. CASE Quiet
    BY <2>1, <2>2, <2>3 DEF Quiet, StagingCovers
  <2>4. ASSUME NEW r \in Run, Takes(r) PROVE StagingCovers'
    <3>1. Covers(StagingQuery(r), r)
      BY DEF StagingQuery, Covers
    <3> QED
      BY <2>1, <2>2, <2>4, <3>1 DEF Takes, Took, StagingCovers
  <2>5. ASSUME NEW r \in Run, PutStage(r) PROVE StagingCovers'
    BY <2>1, <2>2, <2>5 DEF PutStage, Put, HasRead, StagingCovers
  <2>6. ASSUME NEW r \in Run, NEW t \in Task, Put(r, t), UNCHANGED staged,
               t = "stage" => ti'[r][t] = "failed"
        PROVE  StagingCovers'
    BY <2>1, <2>2, <2>6 DEF Put, StagingCovers
  <2>7. ASSUME NEW r \in Run, Puts(r) PROVE StagingCovers'
    BY <2>5, <2>6, <2>7
    DEF Puts, PutHub, PutSat, PutDrop, PutEndDate, PutCopyback, PutNothing, Tear, Keeps
  <2> QED
    BY <2>3, <2>4, <2>7, Moves
<1> QED
  BY <1>2, <1>3, ClockFact

\* With full staging, the staging table of a run holds every source row that
\* did not change after the day of the run, whatever overlaps or times out.
THEOREM StagingComplete == ASSUME ~DeltaStaging PROVE Spec => []StagingCovers
<1>1. Init => StagingCovers
  BY Graph DEF Init, DagInit, StagingCovers
<1>2. VaultInv /\ VaultInv' /\ Unborn /\ StagingCovers /\ [Next]_vars => StagingCovers'
  BY StagingCoversStep DEF VaultInv
<1>3. Spec => []Unborn
  BY ImplementsDag, NoTaskBeforeRun, PTL
<1> QED
  BY <1>1, <1>2, <1>3, VaultInvariant, PTL DEF Spec

\* After a successful run the vault shows every source row as it is, if it
\* did not change after the day that was loaded.
THEOREM VaultCaughtUp ==
    ASSUME Injective, ~TornOverwrite, ~DeltaStaging
    PROVE  Spec /\ []NoOverlap => []CaughtUp
<1>1. QuietInv /\ TieFree /\ Faithful /\ StagingCovers => CaughtUp
  <2> SUFFICES ASSUME QuietInv, TieFree, Faithful, StagingCovers,
                      NEW r \in Run, LastSucceeded(r), NEW x \in SrcRow,
                      source[x].val \notin {NoRow, Blank}, source[x].mod <= r
               PROVE  SeenAt(KeyOf[x], r) = {source[x].val}
    BY DEF CaughtUp
  <2> DEFINE b == [key |-> KeyOf[x], val |-> source[x].val]
  <2>1. ti[r]["sat"] = "success" /\ ti[r]["stage"] = "success" /\ Contiguous(sat) /\ OnePerLoad(sat)
    BY LastIsSettled, Graph DEF QuietInv, TieFree, SettledDated
  <2>2. b \in staged[r]
    BY <2>1 DEF StagingCovers, Covers
  <2>3. b.key = KeyOf[x] /\ b.val = source[x].val
    OBVIOUS
  <2> HIDE DEF b
  <2>4. PICK s \in sat : s.key = b.key /\ s.val = b.val /\ LatestAt(s, r)
    BY <2>1, <2>2, <2>3 DEF Faithful
  <2> QED
    BY <2>1, <2>3, <2>4, SeenFact DEF QuietInv
<1> QED
  BY <1>1, QuietInvariant, TieFreeInvariant, FaithfulInvariant, StagingComplete, PTL

-----------------------------------------------------------------------------
\* Without torn overwrites the satellite only gains versions.
LEMMA VersionsGrow ==
    ASSUME ~TornOverwrite, VaultInv, DagInv', Fresh, [Next]_vars
    PROVE  \A s \in sat : \E x \in sat' : x.key = s.key /\ x.val = s.val /\ x.dtm = s.dtm
<1>1. ASSUME NEW r \in Run, Redate(r)
      PROVE  \A s \in sat : \E x \in sat' : x.key = s.key /\ x.val = s.val /\ x.dtm = s.dtm
  <2>1. PICK last \in LastRows(sat) : sat' = EndDate(sat, last)
    BY <1>1 DEF Redate, Redated
  <2>2. Run \in SUBSET Nat /\ sat \in SUBSET Row(Key, Val, Run)
    BY SatShape
  <2>3. SameVersions(sat, EndDate(sat, last))
    BY <2>2, EndDateSame
  <2> QED
    BY <2>1, <2>3 DEF SameVersions
<1>2. CASE Still \/ \E r \in Run : Insert(r)
  BY <1>2 DEF Still, Insert
<1> QED
  BY <1>1, <1>2, Kinds DEF Tear

\* No step makes the satellite forget a version, unless an overwrite is torn.
THEOREM NothingForgotten ==
    ASSUME ~TornOverwrite PROVE Spec /\ []NoOverlap => HistoryKept
<1>1. QuietInv /\ QuietInv' /\ [Next]_vars =>
         [{Version(s) : s \in sat} \subseteq {Version(s) : s \in sat'}]_sat
  BY VersionsGrow DEF QuietInv, VaultInv, Version
<1> QED
  BY <1>1, QuietInvariant, PTL DEF Spec, HistoryKept

\* A table that waits to be copied back is not dropped.
LEMMA TempThereStep ==
    ASSUME VaultInv, DagInv', Apart, TempThere, [Next]_vars
    PROVE  TempThere'
<1> USE Graph
<1>1. \A q \in Run : read[q]["copyback"] # NoRead =>
          ti[q]["copyback"] = "running" /\ ti[q]["drop"] = "success" /\ ti[q]["enddate"] = "success"
  BY DEF VaultInv, ReadRunning, DagInv, UpstreamDone
<1>2. CASE temp' = temp /\ \A q \in Run : read'[q]["copyback"] \in {read[q]["copyback"], NoRead}
  BY <1>2 DEF TempThere
<1>3. ASSUME NEW r \in Run, temp # NoTable /\ Took(r, "copyback", temp) PROVE TempThere'
  BY <1>3 DEF Took, TempThere
<1>4. ASSUME NEW r \in Run, PutDrop(r) \/ PutEndDate(r) PROVE TempThere'
  <2>1. ASSUME NEW q \in Run, read[q]["copyback"] # NoRead PROVE FALSE
    <3>1. ti[r]["drop"] = "running" \/ ti[r]["enddate"] = "running"
      BY <1>4 DEF PutDrop, PutEndDate, Put
    <3>2. q = r
      BY <1>1, <2>1, <3>1 DEF Apart, Alone, Run
    <3> QED
      BY <1>1, <2>1, <3>1, <3>2
  <2>2. \A q \in Run : read'[q]["copyback"] \in {read[q]["copyback"], NoRead}
    BY <1>4 DEF PutDrop, PutEndDate, Put
  <2> QED
    BY <2>1, <2>2 DEF TempThere
<1>5. CASE Quiet
  BY <1>2, <1>5 DEF Quiet
<1>6. ASSUME NEW r \in Run, Takes(r) PROVE TempThere'
  BY <1>2, <1>3, <1>6 DEF Takes, Took
<1>7. ASSUME NEW r \in Run, Puts(r) PROVE TempThere'
  <2>1. ASSUME NEW t \in Task, Put(r, t)
        PROVE  \A q \in Run : read'[q]["copyback"] \in {read[q]["copyback"], NoRead}
    BY <2>1 DEF Put
  <2> QED
    BY <1>2, <1>4, <1>7, <2>1
    DEF Puts, PutStage, PutHub, PutSat, PutDrop, PutEndDate, PutCopyback, PutNothing
<1> QED
  BY <1>5, <1>6, <1>7, Moves

\* Versions are forgotten with the temporary table only.
LEMMA KnownKept ==
    ASSUME VaultInv, DagInv', Fresh, TempThere, [Next]_vars, ~(temp # NoTable /\ temp' = NoTable)
    PROVE  Known \subseteq Known'
<1> USE Graph
<1>1. CASE UNCHANGED <<sat, temp>>
  BY <1>1 DEF Known
<1>2. \A T : Redated(T) => {Version(s) : s \in sat} = {Version(s) : s \in T}
  <2>1. Run \in SUBSET Nat /\ sat \in SUBSET Row(Key, Val, Run)
    BY SatShape
  <2>2. \A last : SameVersions(sat, EndDate(sat, last))
    BY <2>1, EndDateSame
  <2> QED
    BY <2>2 DEF Redated, SameVersions, Version
<1>3. ASSUME NEW r \in Run, PutSat(r) PROVE Known \subseteq Known'
  BY <1>3 DEF PutSat, Known
<1>4. ASSUME NEW r \in Run, PutDrop(r) PROVE Known \subseteq Known'
  BY <1>4 DEF PutDrop, Known
<1>5. ASSUME NEW r \in Run, PutEndDate(r) PROVE Known \subseteq Known'
  BY <1>5 DEF PutEndDate, Known
<1>6. ASSUME NEW r \in Run, PutCopyback(r) PROVE Known \subseteq Known'
  <2>1. Redated(sat')
    BY <1>6 DEF PutCopyback, HasRead, Fresh
  <2>2. {Version(s) : s \in sat} = {Version(s) : s \in sat'}
    BY <1>2, <2>1
  <2> QED
    BY <1>6, <2>2 DEF PutCopyback, Known
<1>7. ASSUME NEW r \in Run, Tear(r), temp' = temp, read[r]["copyback"] # NoRead
      PROVE  Known \subseteq Known'
  <2>1. ti[r]["copyback"] = "running" /\ ti[r]["enddate"] = "success"
    BY <1>7 DEF VaultInv, ReadRunning, DagInv, UpstreamDone
  <2>2. Redated(temp) /\ temp # NoTable
    BY <1>7, <2>1 DEF Fresh, AwaitsCopy, TempThere
  <2>3. {Version(s) : s \in sat} = {Version(s) : s \in temp}
    BY <1>2, <2>2
  <2> QED
    BY <1>7, <2>2, <2>3 DEF Known
<1> QED
  BY <1>1, <1>3, <1>4, <1>5, <1>6, <1>7, Moves
  DEF Quiet, Takes, Took, Puts, PutStage, PutHub, PutNothing, HasRead

\* Whatever fails, ties or tears: a version is forgotten only when a later run
\* drops the temporary table.
THEOREM NothingLost ==
    Spec /\ []NoOverlap => HistoryRecoverable
<1>1. Init => TempThere
  BY Graph DEF Init, TempThere
<1>2. QuietInv /\ QuietInv' /\ TempThere /\ [Next]_vars => TempThere'
  BY TempThereStep DEF QuietInv, VaultInv
<1>3. QuietInv /\ QuietInv' /\ TempThere /\ [Next]_vars =>
         [~(temp # NoTable /\ temp' = NoTable) => Known \subseteq Known']_<<sat, temp>>
  BY KnownKept DEF QuietInv, VaultInv
<1> QED
  BY <1>1, <1>2, <1>3, QuietInvariant, PTL DEF Spec, HistoryRecoverable

-----------------------------------------------------------------------------
\* The versions of the refinement mapping.
Vers(S) == {[key |-> s.key, val |-> s.val, dtm |-> s.dtm] : s \in S}

\* A load appends versions that are newer than all others, one per key.
LEMMA InsertAppends ==
    ASSUME VaultInv, Apart, Loaded, StagedOnce, NEW r \in Run, Insert(r)
    PROVE  /\ \A v \in Vers(sat) : v.dtm < r
           /\ \E changed \in SUBSET Key : \E value \in [changed -> Val] :
                 Vers(sat') = Vers(sat) \cup
                    {[key |-> k, val |-> value[k], dtm |-> r] : k \in changed}
<1> DEFINE new == SatQuery(r)
           changed == {x.key : x \in new}
           value == [k \in changed |-> (CHOOSE x \in new : x.key = k).val]
<1>1. /\ sat' = sat \cup new
      /\ \A s \in sat : s.dtm \in Nat /\ s.dtm < r
      /\ \A x \in new : x.dtm = r
      /\ \A x, y \in new : x.key = y.key => x = y
  BY InsertFact
<1>2. \A x \in new : x.key \in Key /\ x.val \in Val
  BY SatQueryRows DEF Insert, Keeps, Row
<1> HIDE DEF new
<1>3. \A x \in new : (CHOOSE y \in new : y.key = x.key) = x
  BY <1>1
<1>4. \A x \in new : value[x.key] = x.val
  BY <1>3
<1>5. changed \in SUBSET Key /\ value \in [changed -> Val]
  BY <1>2, <1>3
<1>6. Vers(new) = {[key |-> k, val |-> value[k], dtm |-> r] : k \in changed}
  <2> HIDE DEF value
  <2> QED
    BY <1>1, <1>4 DEF Vers
<1>7. Vers(sat') = Vers(sat) \cup Vers(new)
  BY <1>1 DEF Vers
<1>8. \A v \in Vers(sat) : v.dtm < r
  BY <1>1 DEF Vers
<1> HIDE DEF changed, value
<1> QED
  BY <1>5, <1>6, <1>7, <1>8

\* The satellite implements the append-only, chronological history.
THEOREM ImplementsHistory ==
    ASSUME Injective, ~TornOverwrite PROVE Spec /\ []NoOverlap => HistorySpec
<1>1. Init => History!Init
  BY DEF Init, History!Init
<1>2. QuietInv /\ QuietInv' /\ Loaded /\ TieFree /\ [Next]_vars =>
         [\E d \in Run : History!Append(d)]_(Vers(sat))
  <2> SUFFICES ASSUME QuietInv, QuietInv', Loaded, TieFree, [Next]_vars
               PROVE  (\E d \in Run : History!Append(d)) \/ Vers(sat') = Vers(sat)
    BY DEF Vers
  <2>1. ASSUME NEW r \in Run, Insert(r) PROVE History!Append(r)
    BY <2>1, InsertAppends DEF QuietInv, TieFree, Vers, History!Append
  <2>2. ASSUME NEW r \in Run, Redate(r) PROVE Vers(sat') = Vers(sat)
    BY <2>2, RedateFact DEF QuietInv, TieFree, SameVersions, Vers
  <2>3. CASE Still
    BY <2>3 DEF Still
  <2> QED
    BY <2>1, <2>2, <2>3, Kinds DEF QuietInv, VaultInv, Tear
<1> QED
  BY <1>1, <1>2, QuietInvariant, VersionsInvariant, TieFreeInvariant, PTL
  DEF Spec, HistorySpec, History!Spec, Vers
=============================================================================
