-------------------------- MODULE StageLoadProofs --------------------------
(***************************************************************************)
(* Theorems about the staging operator, for every number of staging tables,*)
(* daily runs, file names and query results, and whatever fails, times out *)
(* or overlaps; and about what csv writer and Hive make of rows of any     *)
(* number, width and content.                                              *)
(***************************************************************************)
EXTENDS StageLoad, DagRunProofs, SequenceTheorems, FiniteSetTheorems

\* Setting one entry of a table indexed by run and task.
LEMMA UpdateFact ==
    ASSUME NEW V, NEW f \in [Run -> [Task -> V]], NEW r \in Run, NEW t \in Task,
           NEW v \in V
    PROVE  LET g == [f EXCEPT ![r] = [@ EXCEPT ![t] = v]]
           IN  /\ g \in [Run -> [Task -> V]]
               /\ \A q \in Run, u \in Task :
                     g[q][u] = IF q = r /\ u = t THEN v ELSE f[q][u]
  OBVIOUS

\* What Hive reads of a batch is told apart from no table and no file.
LEMMA ReadingFact ==
    ASSUME NEW b \in Batch
    PROVE  ReadBack(b) \in Readings /\ ReadBack(b) # Absent
  BY StageAssumption DEF Readings

\* Each task of each run has a staging table.
LEMMA TagFact == \A r \in Run, t \in Task : TableOf(r, t) \in Run \X Task
  BY DEF TableOf

\* Different tasks have different tables.
LEMMA TableFact ==
    \A r, q \in Run, t, u \in Task : TableOf(r, t) = TableOf(q, u) => r = q /\ t = u
  BY DEF TableOf

-----------------------------------------------------------------------------
\* The inductive invariant.  A task between two steps is executing and owns
\* its file name alone; the file it put is still its own; and every file in
\* HDFS was left by the task whose batch it holds, or is about to be loaded.
Attempts ==
    \A r \in Run, t \in Task :
        /\ local[r][t] # NoFile => ti[r][t] = "running" /\ batch[r][t] \in Batch
        /\ ti[r][t] = "success" => batch[r][t] \in Batch
        /\ batch[r][t] # Absent => batch[r][t].source = t /\ batch[r][t].load_dtm = r
        /\ phase[r][t] = "start" => batch[r][t] = Absent

NamesDistinct ==
    \A r, q \in Run, t, u \in Task :
        local[r][t] # NoFile /\ local[r][t] = local[q][u] => r = q /\ t = u

PutOwn ==
    \A r \in Run, t \in Task :
        phase[r][t] = "put" => hdfs[local[r][t]] = batch[r][t]

Origin ==
    \A n \in Name : \A r \in Run, t \in Task :
        (hdfs[n] # Absent /\ hdfs[n].source = t /\ hdfs[n].load_dtm = r) =>
            /\ hdfs[n] = batch[r][t]
            /\ ti[r][t] = "failed" \/ (phase[r][t] = "put" /\ local[r][t] = n)

StageInv ==
    TypeOK /\ Attempts /\ NamesDistinct /\ PutOwn /\ Origin /\ StagedOwn

\* A file is open exactly between the query and the end of the task.
LEMMA OpenFact ==
    ASSUME TypeOK, NEW r \in Run, NEW t \in Task,
           phase[r][t] \in {"dumped", "dropped", "created", "put"}
    PROVE  local[r][t] \in Name /\ local[r][t] # NoFile
<1>1. local[r][t] \in Name \cup {NoFile} /\ OpenFile(r, t)
  BY DEF TypeOK
<1> QED
  BY <1>1 DEF OpenFile

\* No file is open and no table exists at the start.
LEMMA InitInv == Init => StageInv
  BY StageAssumption, TagFact
  DEF Init, DagInit, StageInv, TypeOK, OpenFile, DagTypeOK, RunState, TaskState, Phase,
      Attempts, NamesDistinct, PutOwn, Origin, StagedOwn

\* The scheduler moves no task that is executing or has ended.
LEMMA ScheduleFact ==
    ASSUME DagTypeOK, NEW r \in Run, Schedule(r)
    PROVE  /\ DagTypeOK' /\ UNCHANGED stageVars
           /\ \A q \in Run, u \in Task :
                 /\ ti[q][u] \in {"running", "failed"} => ti'[q][u] = ti[q][u]
                 /\ ti'[q][u] = "success" <=> ti[q][u] = "success"
<1>1. UNCHANGED stageVars
  BY DEF Schedule
<1>2. CASE CreateRun(r) \/ EndRun(r) \/ TimeoutRun(r)
  BY <1>1, <1>2 DEF CreateRun, EndRun, TimeoutRun, DagTypeOK, RunState
<1>3. ASSUME NEW t \in Task, StartTask(r, t)
      PROVE  /\ DagTypeOK'
             /\ \A q \in Run, u \in Task :
                   /\ ti[q][u] \in {"running", "failed"} => ti'[q][u] = ti[q][u]
                   /\ ti'[q][u] = "success" <=> ti[q][u] = "success"
  <2>1. "running" \in TaskState /\ SetTask(r, t, "running") /\ UNCHANGED run
    BY <1>3 DEF StartTask, TaskState
  <2>2. /\ ti' \in [Run -> [Task -> TaskState]]
        /\ \A q \in Run, u \in Task :
              ti'[q][u] = IF q = r /\ u = t THEN "running" ELSE ti[q][u]
    BY <2>1, SetTaskFact
  <2>3. ti[r][t] = "none"
    BY <1>3 DEF StartTask
  <2> QED
    BY <2>1, <2>2, <2>3 DEF DagTypeOK
<1> QED
  BY <1>1, <1>2, <1>3 DEF Schedule

\* A task that ends gives up its file name; nothing else of it changes.
LEMMA EndFact ==
    ASSUME TypeOK, NEW r \in Run, NEW t \in Task,
           FinishTask(r, t) \/ FailTask(r, t), Release(r, t)
    PROVE  /\ DagTypeOK' /\ batch' = batch
           /\ local' \in [Run -> [Task -> Name \cup {NoFile}]]
           /\ phase' \in [Run -> [Task -> Phase]]
           /\ ti[r][t] = "running"
           /\ FailTask(r, t) => ti'[r][t] = "failed"
           /\ \A q \in Run, u \in Task :
                 /\ q # r \/ u # t => ti'[q][u] = ti[q][u]
                 /\ local'[q][u] = IF q = r /\ u = t THEN NoFile ELSE local[q][u]
                 /\ phase'[q][u] = IF q = r /\ u = t THEN "end" ELSE phase[q][u]
<1>1. PICK s \in {"success", "failed"} : SetTask(r, t, s) /\ UNCHANGED run
  BY DEF FinishTask, FailTask
<1>2. DagTypeOK /\ s \in TaskState
  BY DEF TypeOK, TaskState
<1>3. /\ ti' \in [Run -> [Task -> TaskState]]
      /\ \A q \in Run, u \in Task :
            ti'[q][u] = IF q = r /\ u = t THEN s ELSE ti[q][u]
  BY <1>1, <1>2, SetTaskFact
<1>4. /\ local' \in [Run -> [Task -> Name \cup {NoFile}]]
      /\ \A q \in Run, u \in Task :
            local'[q][u] = IF q = r /\ u = t THEN NoFile ELSE local[q][u]
  BY UpdateFact DEF Release, TypeOK
<1>5. /\ phase' \in [Run -> [Task -> Phase]]
      /\ \A q \in Run, u \in Task :
            phase'[q][u] = IF q = r /\ u = t THEN "end" ELSE phase[q][u]
  <2>1. "end" \in Phase /\ phase \in [Run -> [Task -> Phase]]
    BY DEF Phase, TypeOK
  <2> QED
    BY <2>1, UpdateFact DEF Release
<1>6. ti[r][t] = "running"
  BY DEF FinishTask, FailTask
<1>7. FailTask(r, t) => ti'[r][t] = "failed"
  <2>1. FailTask(r, t) => SetTask(r, t, "failed") /\ "failed" \in TaskState
    BY DEF FailTask, TaskState
  <2> QED
    BY <1>2, <2>1, SetTaskFact
<1>8. DagTypeOK'
  BY <1>1, <1>2, <1>3 DEF DagTypeOK
<1> QED
  BY <1>3, <1>4, <1>5, <1>6, <1>7, <1>8 DEF Release

-----------------------------------------------------------------------------
\* Between the query and the load only the phase of the task advances.
LEMMA AdvanceFact ==
    ASSUME TypeOK, NEW r \in Run, NEW t \in Task, NEW p \in Phase, Advance(r, t, p)
    PROVE  /\ UNCHANGED <<run, ti>>
           /\ phase' \in [Run -> [Task -> Phase]]
           /\ \A q \in Run, u \in Task :
                 phase'[q][u] = IF q = r /\ u = t THEN p ELSE phase[q][u]
<1>1. phase \in [Run -> [Task -> Phase]]
  BY DEF TypeOK
<1> QED
  BY <1>1, UpdateFact DEF Advance, dagVars

\* The query opens a name nobody else uses and tags its rows.
LEMMA DumpStep ==
    ASSUME StageInv, NEW r \in Run, NEW t \in Task, Dump(r, t)
    PROVE  StageInv'
<1>1. PICK b \in Batch :
         /\ b.source = t /\ b.load_dtm = r
         /\ batch' = [batch EXCEPT ![r] = [@ EXCEPT ![t] = b]]
  <2>1. PICK v \in Rows :
           batch' = [batch EXCEPT ![r] = [@ EXCEPT ![t] =
                        [source |-> t, load_dtm |-> r, rows |-> v]]]
    BY DEF Dump
  <2>2. [source |-> t, load_dtm |-> r, rows |-> v] \in Batch
    BY DEF Batch
  <2> QED
    BY <2>1, <2>2
<1>2. b # Absent
  BY StageAssumption
<1>3. /\ batch' \in [Run -> [Task -> Batch \cup {Absent}]]
      /\ \A q \in Run, u \in Task :
            batch'[q][u] = IF q = r /\ u = t THEN b ELSE batch[q][u]
  <2>1. batch \in [Run -> [Task -> Batch \cup {Absent}]]
    BY DEF StageInv, TypeOK
  <2> QED
    BY <1>1, <2>1, UpdateFact
<1>4. PICK n \in Name \ OpenNames :
         local' = [local EXCEPT ![r] = [@ EXCEPT ![t] = n]]
  BY DEF Dump
<1>5. /\ local' \in [Run -> [Task -> Name \cup {NoFile}]]
      /\ \A q \in Run, u \in Task :
            local'[q][u] = IF q = r /\ u = t THEN n ELSE local[q][u]
  BY <1>4, UpdateFact DEF StageInv, TypeOK
<1>6. /\ UNCHANGED <<run, ti>>
      /\ phase' \in [Run -> [Task -> Phase]]
      /\ \A q \in Run, u \in Task :
            phase'[q][u] = IF q = r /\ u = t THEN "dumped" ELSE phase[q][u]
  <2>1. "dumped" \in Phase /\ Advance(r, t, "dumped")
    BY DEF Phase, Dump
  <2> QED
    BY <2>1, AdvanceFact DEF StageInv
<1>7. ti[r][t] = "running" /\ phase[r][t] = "start" /\ UNCHANGED <<hdfs, table>>
  BY DEF Dump, At
<1>8. \A q \in Run, u \in Task : local[q][u] # n
  <2> SUFFICES ASSUME NEW q \in Run, NEW u \in Task PROVE local[q][u] \in OpenNames
    BY <1>4
  <2>1. <<q, u>> \in Run \X Task /\ <<q, u>>[1] = q /\ <<q, u>>[2] = u
    OBVIOUS
  <2> QED
    BY <2>1 DEF OpenNames
<1>9. n # NoFile
  BY StageAssumption
<1>10. TypeOK'
  <2>1. \A q \in Run, u \in Task : OpenFile(q, u)'
    BY <1>5, <1>6, <1>9 DEF StageInv, TypeOK, OpenFile
  <2> QED
    BY <2>1, <1>3, <1>5, <1>6, <1>7 DEF StageInv, TypeOK, DagTypeOK
<1>11. Attempts'
  <2> SUFFICES ASSUME NEW q \in Run, NEW u \in Task
               PROVE  /\ local'[q][u] # NoFile => ti'[q][u] = "running" /\ batch'[q][u] \in Batch
                      /\ ti'[q][u] = "success" => batch'[q][u] \in Batch
                      /\ batch'[q][u] # Absent =>
                            batch'[q][u].source = u /\ batch'[q][u].load_dtm = q
                      /\ phase'[q][u] = "start" => batch'[q][u] = Absent
    BY DEF Attempts
  <2>1. CASE q = r /\ u = t
    BY <2>1, <1>1, <1>3, <1>6, <1>7
  <2>2. CASE q # r \/ u # t
    <3>1. /\ batch'[q][u] = batch[q][u] /\ local'[q][u] = local[q][u]
          /\ ti'[q][u] = ti[q][u] /\ phase'[q][u] = phase[q][u]
      BY <2>2, <1>3, <1>5, <1>6
    <3> QED
      BY <3>1 DEF StageInv, Attempts
  <2> QED
    BY <2>1, <2>2
<1>12. NamesDistinct'
  BY <1>5, <1>8 DEF StageInv, NamesDistinct
<1>13. PutOwn'
  <2> SUFFICES ASSUME NEW q \in Run, NEW u \in Task, phase'[q][u] = "put"
               PROVE  hdfs[local'[q][u]] = batch'[q][u]
    BY <1>7 DEF PutOwn
  <2>1. q # r \/ u # t
    BY <1>6
  <2>2. /\ batch'[q][u] = batch[q][u] /\ local'[q][u] = local[q][u]
        /\ phase[q][u] = "put"
    BY <2>1, <1>3, <1>5, <1>6
  <2> QED
    BY <2>2 DEF StageInv, PutOwn
<1>14. Origin'
  BY <1>3, <1>5, <1>6, <1>7 DEF StageInv, Origin
<1>15. StagedOwn'
  BY <1>3, <1>6, <1>7 DEF StageInv, StagedOwn
<1> QED
  BY <1>10, <1>11, <1>12, <1>13, <1>14, <1>15 DEF StageInv

\* DROP and CREATE touch the table of an executing task only.
LEMMA DdlStep ==
    ASSUME StageInv, NEW r \in Run, NEW t \in Task,
           DropTable(r, t) \/ CreateTable(r, t)
    PROVE  StageInv'
<1>1. PICK p \in {"dropped", "created"} : Advance(r, t, p)
  BY DEF DropTable, CreateTable
<1>2. /\ UNCHANGED <<run, ti>>
      /\ phase' \in [Run -> [Task -> Phase]]
      /\ \A q \in Run, u \in Task :
            phase'[q][u] = IF q = r /\ u = t THEN p ELSE phase[q][u]
  <2>1. p \in Phase
    BY DEF Phase
  <2> QED
    BY <1>1, <2>1, AdvanceFact DEF StageInv
<1>3. /\ ti[r][t] = "running" /\ phase[r][t] \in {"dumped", "dropped"}
      /\ UNCHANGED <<batch, local, hdfs>>
  BY DEF DropTable, CreateTable, At
<1>4. /\ table' \in [Run \X Task -> Readings \cup {Empty, NoTable}]
      /\ \A i \in Run \X Task : i # TableOf(r, t) => table'[i] = table[i]
  BY TagFact DEF DropTable, CreateTable, StageInv, TypeOK
<1>5. TypeOK'
  <2>1. \A q \in Run, u \in Task : OpenFile(q, u)'
    BY <1>2, <1>3 DEF StageInv, TypeOK, OpenFile
  <2> QED
    BY <2>1, <1>2, <1>3, <1>4 DEF StageInv, TypeOK, DagTypeOK
<1>6. Attempts' /\ NamesDistinct'
  BY <1>2, <1>3 DEF StageInv, Attempts, NamesDistinct
<1>7. PutOwn' /\ Origin'
  BY <1>2, <1>3 DEF StageInv, PutOwn, Origin
<1>8. StagedOwn'
  BY <1>2, <1>3, <1>4 DEF StageInv, StagedOwn, TableOf
<1> QED
  BY <1>5, <1>6, <1>7, <1>8 DEF StageInv

\* The put writes under the task's own name, where no file was.
LEMMA PutStep ==
    ASSUME StageInv, NEW r \in Run, NEW t \in Task, Put(r, t)
    PROVE  StageInv'
<1>1. /\ UNCHANGED <<run, ti>>
      /\ phase' \in [Run -> [Task -> Phase]]
      /\ \A q \in Run, u \in Task :
            phase'[q][u] = IF q = r /\ u = t THEN "put" ELSE phase[q][u]
  <2>1. "put" \in Phase /\ Advance(r, t, "put")
    BY DEF Phase, Put
  <2> QED
    BY <2>1, AdvanceFact DEF StageInv
<1>2. /\ phase[r][t] = "created" /\ hdfs[local[r][t]] = Absent
      /\ hdfs' = [hdfs EXCEPT ![local[r][t]] = batch[r][t]]
      /\ UNCHANGED <<batch, local, table>>
  BY DEF Put, At
<1>3. local[r][t] \in Name /\ local[r][t] # NoFile
  BY <1>2, OpenFact DEF StageInv
<1>4. batch[r][t] \in Batch /\ batch[r][t] # Absent
  BY <1>3, StageAssumption DEF StageInv, Attempts
<1>5. /\ hdfs' \in [Name -> Batch \cup {Absent}]
      /\ \A n \in Name : hdfs'[n] = IF n = local[r][t] THEN batch[r][t] ELSE hdfs[n]
  BY <1>2, <1>3, <1>4 DEF StageInv, TypeOK
<1>6. TypeOK'
  <2>1. \A q \in Run, u \in Task : OpenFile(q, u)'
    BY <1>1, <1>2 DEF StageInv, TypeOK, OpenFile
  <2> QED
    BY <2>1, <1>1, <1>2, <1>5 DEF StageInv, TypeOK, DagTypeOK
<1>7. Attempts' /\ NamesDistinct'
  <2>1. \A q \in Run, u \in Task : phase'[q][u] = "start" => phase[q][u] = "start"
    BY <1>1
  <2>2. Attempts'
    BY <1>1, <1>2, <2>1 DEF StageInv, Attempts
  <2>3. NamesDistinct'
    BY <1>2 DEF StageInv, NamesDistinct
  <2> QED
    BY <2>2, <2>3
<1>8. PutOwn'
  <2> SUFFICES ASSUME NEW q \in Run, NEW u \in Task, phase'[q][u] = "put"
               PROVE  hdfs'[local[q][u]] = batch[q][u]
    BY <1>2 DEF PutOwn
  <2>1. CASE q = r /\ u = t
    BY <2>1, <1>3, <1>5
  <2>2. CASE q # r \/ u # t
    <3>1. phase[q][u] = "put" /\ local[q][u] \in Name
      BY <2>2, <1>1, OpenFact DEF StageInv
    <3>2. local[q][u] # local[r][t]
      BY <2>2, <1>3 DEF StageInv, NamesDistinct
    <3> QED
      BY <3>1, <3>2, <1>5 DEF StageInv, PutOwn
  <2> QED
    BY <2>1, <2>2
<1>9. Origin'
  BY <1>1, <1>2, <1>4, <1>5 DEF StageInv, Origin, Attempts
<1>10. StagedOwn'
  BY <1>1, <1>2 DEF StageInv, StagedOwn
<1> QED
  BY <1>6, <1>7, <1>8, <1>9, <1>10 DEF StageInv

\* LOAD DATA moves the task's own file into the task's own table.
LEMMA LoadStep ==
    ASSUME StageInv, NEW r \in Run, NEW t \in Task, Load(r, t)
    PROVE  StageInv'
<1>1. /\ ti[r][t] = "running" /\ phase[r][t] = "put"
      /\ FinishTask(r, t) \/ FailTask(r, t)
      /\ table' = [table EXCEPT ![TableOf(r, t)] = ReadBack(hdfs[local[r][t]])]
      /\ hdfs' = [hdfs EXCEPT ![local[r][t]] = Absent]
      /\ Release(r, t)
  BY DEF Load, At
<1>2. local[r][t] \in Name /\ local[r][t] # NoFile
  BY <1>1, OpenFact DEF StageInv
<1>3. hdfs[local[r][t]] = batch[r][t] /\ batch[r][t] \in Batch
  BY <1>1, <1>2 DEF StageInv, PutOwn, Attempts
<1>4. /\ DagTypeOK' /\ batch' = batch
      /\ local' \in [Run -> [Task -> Name \cup {NoFile}]]
      /\ phase' \in [Run -> [Task -> Phase]]
      /\ \A q \in Run, u \in Task :
            /\ q # r \/ u # t => ti'[q][u] = ti[q][u]
            /\ local'[q][u] = IF q = r /\ u = t THEN NoFile ELSE local[q][u]
            /\ phase'[q][u] = IF q = r /\ u = t THEN "end" ELSE phase[q][u]
  BY <1>1, EndFact DEF StageInv
<1>5. /\ hdfs' \in [Name -> Batch \cup {Absent}]
      /\ \A n \in Name : hdfs'[n] = IF n = local[r][t] THEN Absent ELSE hdfs[n]
  BY <1>1, <1>2 DEF StageInv, TypeOK
<1>6. /\ table' \in [Run \X Task -> Readings \cup {Empty, NoTable}]
      /\ \A i \in Run \X Task :
            table'[i] = IF i = TableOf(r, t) THEN ReadBack(batch[r][t]) ELSE table[i]
  BY <1>1, <1>3, TagFact, ReadingFact DEF StageInv, TypeOK
<1>7. TypeOK'
  <2>1. \A q \in Run, u \in Task : OpenFile(q, u)'
    BY <1>4 DEF StageInv, TypeOK, OpenFile
  <2> QED
    BY <2>1, <1>4, <1>5, <1>6 DEF StageInv, TypeOK
<1>8. Attempts'
  BY <1>3, <1>4 DEF StageInv, Attempts
<1>9. NamesDistinct'
  BY <1>4 DEF StageInv, NamesDistinct
<1>10. PutOwn'
  <2> SUFFICES ASSUME NEW q \in Run, NEW u \in Task, phase'[q][u] = "put"
               PROVE  hdfs'[local'[q][u]] = batch'[q][u]
    BY DEF PutOwn
  <2>1. q # r \/ u # t
    BY <1>4
  <2>2. phase[q][u] = "put" /\ local'[q][u] = local[q][u] /\ local[q][u] \in Name
    BY <2>1, <1>4, OpenFact DEF StageInv
  <2>3. local[q][u] # local[r][t]
    BY <2>1, <1>2 DEF StageInv, NamesDistinct
  <2> QED
    BY <2>2, <2>3, <1>4, <1>5 DEF StageInv, PutOwn
<1>11. Origin'
  <2> SUFFICES ASSUME NEW n \in Name, NEW q \in Run, NEW u \in Task,
                      hdfs'[n] # Absent, hdfs'[n].source = u, hdfs'[n].load_dtm = q
               PROVE  /\ hdfs'[n] = batch'[q][u]
                      /\ \/ ti'[q][u] = "failed"
                         \/ phase'[q][u] = "put" /\ local'[q][u] = n
    BY DEF Origin
  <2>1. n # local[r][t] /\ hdfs'[n] = hdfs[n]
    BY <1>5
  <2>2. /\ hdfs[n] = batch[q][u]
        /\ ti[q][u] = "failed" \/ (phase[q][u] = "put" /\ local[q][u] = n)
    BY <2>1 DEF StageInv, Origin
  <2>3. q # r \/ u # t
    BY <2>1, <2>2, <1>1
  <2> QED
    BY <2>1, <2>2, <2>3, <1>4
<1>12. StagedOwn'
  BY <1>4, <1>6 DEF StageInv, StagedOwn, TableOf
<1> QED
  BY <1>7, <1>8, <1>9, <1>10, <1>11, <1>12 DEF StageInv

\* A failure leaves files and tables where they are.
LEMMA FailStep ==
    ASSUME StageInv, NEW r \in Run, NEW t \in Task, Fail(r, t)
    PROVE  StageInv'
<1>1. FailTask(r, t) /\ Release(r, t) /\ UNCHANGED <<hdfs, table>>
  BY DEF Fail
<1>2. /\ DagTypeOK' /\ batch' = batch
      /\ local' \in [Run -> [Task -> Name \cup {NoFile}]]
      /\ phase' \in [Run -> [Task -> Phase]]
      /\ ti'[r][t] = "failed"
      /\ \A q \in Run, u \in Task :
            /\ q # r \/ u # t => ti'[q][u] = ti[q][u]
            /\ local'[q][u] = IF q = r /\ u = t THEN NoFile ELSE local[q][u]
            /\ phase'[q][u] = IF q = r /\ u = t THEN "end" ELSE phase[q][u]
  BY <1>1, EndFact DEF StageInv
<1>3. TypeOK'
  <2>1. \A q \in Run, u \in Task : OpenFile(q, u)'
    BY <1>2 DEF StageInv, TypeOK, OpenFile
  <2> QED
    BY <2>1, <1>1, <1>2 DEF StageInv, TypeOK
<1>4. Attempts' /\ NamesDistinct'
  <2>1. Attempts'
    BY <1>2 DEF StageInv, Attempts
  <2>2. NamesDistinct'
    BY <1>2 DEF StageInv, NamesDistinct
  <2> QED
    BY <2>1, <2>2
<1>5. PutOwn'
  BY <1>1, <1>2 DEF StageInv, PutOwn
<1>6. Origin'
  BY <1>1, <1>2 DEF StageInv, Origin
<1>7. StagedOwn'
  BY <1>1, <1>2 DEF StageInv, StagedOwn
<1> QED
  BY <1>3, <1>4, <1>5, <1>6, <1>7 DEF StageInv

\* No step of a staging task or a failure mixes up files of two tasks.
LEMMA StageStep == StageInv /\ [Next]_vars => StageInv'
<1> SUFFICES ASSUME StageInv, [Next]_vars PROVE StageInv'
  OBVIOUS
<1>1. ASSUME NEW r \in Run, Schedule(r) PROVE StageInv'
  <2>1. /\ DagTypeOK' /\ UNCHANGED stageVars
        /\ \A q \in Run, u \in Task :
              /\ ti[q][u] \in {"running", "failed"} => ti'[q][u] = ti[q][u]
              /\ ti'[q][u] = "success" <=> ti[q][u] = "success"
    BY <1>1, ScheduleFact DEF StageInv, TypeOK
  <2>2. UNCHANGED <<batch, phase, local, hdfs, table>>
    BY <2>1 DEF stageVars
  <2>3. TypeOK'
    BY <2>1, <2>2 DEF StageInv, TypeOK, OpenFile
  <2>4. Attempts' /\ NamesDistinct' /\ PutOwn'
    BY <2>1, <2>2 DEF StageInv, Attempts, NamesDistinct, PutOwn
  <2>5. Origin' /\ StagedOwn'
    BY <2>1, <2>2 DEF StageInv, Origin, StagedOwn
  <2> QED
    BY <2>3, <2>4, <2>5 DEF StageInv
<1>2. CASE Stop \/ UNCHANGED vars
  <2>1. UNCHANGED <<run, ti, batch, phase, local, hdfs, table>>
    BY <1>2 DEF Stop, Idle, vars, dagVars, stageVars
  <2> QED
    BY <2>1 DEF StageInv, TypeOK, OpenFile, DagTypeOK, Attempts, NamesDistinct, PutOwn, Origin,
                StagedOwn
<1> QED
  BY <1>1, <1>2, DumpStep, DdlStep, PutStep, LoadStep, FailStep DEF Next

\* The invariant holds of every behaviour of the staging tasks.
THEOREM StageInvariant == Spec => []StageInv
  BY InitInv, StageStep, PTL DEF Spec

\* Files and tables always hold batches.
THEOREM StageTypeCorrect == Spec => []TypeOK
<1>1. StageInv => TypeOK
  BY DEF StageInv
<1> QED
  BY <1>1, StageInvariant, PTL

\* For every number of tables, runs and file names: after its success a
\* staging task's table holds what Hive reads of its own query's rows.
THEOREM StagedIsOwn == Spec => []StagedOwn
<1>1. StageInv => StagedOwn
  BY DEF StageInv
<1> QED
  BY <1>1, StageInvariant, PTL

\* No successful task leaves its file behind in HDFS.
THEOREM LeftoversAreOfFailures == Spec => []LeftoversOfFailures
<1>1. StageInv => LeftoversOfFailures
  <2> SUFFICES ASSUME StageInv, NEW n \in Name, NEW r \in Run, NEW t \in Task,
                      hdfs[n] # Absent, hdfs[n] = batch[r][t]
               PROVE  ti[r][t] # "success"
    BY DEF LeftoversOfFailures
  <2>1. hdfs[n].source = t /\ hdfs[n].load_dtm = r
    BY DEF StageInv, Attempts
  <2>2. ti[r][t] = "failed" \/ (phase[r][t] = "put" /\ local[r][t] = n)
    BY <2>1 DEF StageInv, Origin
  <2>3. n # NoFile
    BY StageAssumption
  <2> QED
    BY <2>2, <2>3 DEF StageInv, Attempts
<1> QED
  BY <1>1, StageInvariant, PTL

-----------------------------------------------------------------------------
\* The refinement mapping.
TakenMap == [i \in Run \X Task |-> Taken(i[1], i[2])]
Shown == [i \in Run \X Task |-> Published(i[1], i[2])]

\* A task of a run is a pair.
LEMMA PairFact ==
    \A i \in Run \X Task : i[1] \in Run /\ i[2] \in Task /\ i = <<i[1], i[2]>>
  OBVIOUS

\* What later tasks see is the same when each single table is.
LEMMA ShownSame ==
    ASSUME \A q \in Run, u \in Task : Published(q, u)' = Published(q, u)
    PROVE  Shown' = Shown
  BY PairFact DEF Shown

\* What was taken stays as long as no query returns.
LEMMA TakenSame ==
    ASSUME UNCHANGED batch
    PROVE  TakenMap' = TakenMap
  BY DEF TakenMap, Taken

\* Taking is what Dump does.
LEMMA DumpTakes ==
    ASSUME StageInv, NEW r \in Run, NEW t \in Task, Dump(r, t)
    PROVE  Staging!Take(<<r, t>>)
<1>1. PICK b \in Batch : batch' = [batch EXCEPT ![r] = [@ EXCEPT ![t] = b]]
  BY DEF Dump, Batch
<1>2. \A q \in Run, u \in Task :
         batch'[q][u] = IF q = r /\ u = t THEN b ELSE batch[q][u]
  <2>1. batch \in [Run -> [Task -> Batch \cup {Absent}]]
    BY DEF StageInv, TypeOK
  <2> QED
    BY <1>1, <2>1, UpdateFact
<1>3. TakenMap' = [TakenMap EXCEPT ![<<r, t>>] = ReadBack(b)]
  <2>1. \A i \in Run \X Task :
           TakenMap'[i] = IF i = <<r, t>> THEN ReadBack(b) ELSE TakenMap[i]
    <3> SUFFICES ASSUME NEW q \in Run, NEW u \in Task
                 PROVE  Taken(q, u)' = IF q = r /\ u = t THEN ReadBack(b) ELSE Taken(q, u)
      BY PairFact DEF TakenMap
    <3>1. b # Absent
      BY StageAssumption
    <3> QED
      BY <1>2, <3>1 DEF Taken
  <2> QED
    BY <2>1 DEF TakenMap
<1>4. TakenMap[<<r, t>>] = Absent
  BY DEF Dump, At, StageInv, Attempts, TakenMap, Taken
<1>5. Shown' = Shown
  <2>1. UNCHANGED <<ti, table>>
    BY DEF Dump, Advance, dagVars
  <2> QED
    BY <2>1, ShownSame DEF Published, TableOf
<1> QED
  BY <1>1, <1>3, <1>4, <1>5, ReadingFact DEF Staging!Take, TakenMap, Shown

\* Publishing is what a load does whose task succeeds.
LEMMA LoadPublishes ==
    ASSUME StageInv, StageInv', NEW r \in Run, NEW t \in Task, Load(r, t),
           FinishTask(r, t)
    PROVE  Staging!Publish(<<r, t>>)
<1>1. /\ ti[r][t] = "running" /\ UNCHANGED batch
      /\ table' = [table EXCEPT ![TableOf(r, t)] = ReadBack(hdfs[local[r][t]])]
  BY DEF Load, At, Release
<1>2. "success" \in TaskState /\ SetTask(r, t, "success") /\ DagTypeOK
  BY DEF FinishTask, TaskState, StageInv, TypeOK
<1>3. \A q \in Run, u \in Task :
         ti'[q][u] = IF q = r /\ u = t THEN "success" ELSE ti[q][u]
  BY <1>2, SetTaskFact
<1>4. batch[r][t] \in Batch /\ table'[<<r, t>>] = ReadBack(batch[r][t])
  BY <1>1, <1>3 DEF StageInv, Attempts, StagedOwn, TableOf
<1>5. \A i \in Run \X Task : i # <<r, t>> => table'[i] = table[i]
  BY <1>1 DEF TableOf, StageInv, TypeOK
<1>6. \A i \in Run \X Task :
         Shown'[i] = IF i = <<r, t>> THEN ReadBack(batch[r][t]) ELSE Shown[i]
  <2> SUFFICES ASSUME NEW q \in Run, NEW u \in Task
               PROVE  Published(q, u)' =
                         IF q = r /\ u = t THEN ReadBack(batch[r][t]) ELSE Published(q, u)
    BY PairFact DEF Shown
  <2>1. CASE q = r /\ u = t
    BY <2>1, <1>3, <1>4 DEF Published, TableOf
  <2>2. CASE ~(q = r /\ u = t)
    BY <2>2, <1>3, <1>5 DEF Published, TableOf
  <2> QED
    BY <2>1, <2>2
<1>7. Shown' = [Shown EXCEPT ![<<r, t>>] = TakenMap[<<r, t>>]]
  BY <1>4, <1>6, StageAssumption DEF Shown, TakenMap, Taken
<1>8. TakenMap[<<r, t>>] # Absent /\ Shown[<<r, t>>] = Absent
  BY <1>1, <1>4, ReadingFact, StageAssumption DEF TakenMap, Taken, Shown, Published
<1> QED
  BY <1>1, <1>7, <1>8, TakenSame DEF Staging!Publish, TakenMap, Shown

\* All other steps stutter.
LEMMA StagingStutters ==
    ASSUME StageInv,
           \/ \E r \in Run : Schedule(r)
           \/ \E r \in Run, t \in Task :
                 \/ DropTable(r, t) \/ CreateTable(r, t) \/ Put(r, t) \/ Fail(r, t)
                 \/ Load(r, t) /\ FailTask(r, t)
           \/ Stop \/ UNCHANGED vars
    PROVE  UNCHANGED <<TakenMap, Shown>>
<1>1. UNCHANGED batch
  BY DEF Schedule, DropTable, CreateTable, Put, Fail, Load, Release, Stop, vars, stageVars
<1>2. ASSUME NEW r \in Run, Schedule(r) PROVE Shown' = Shown
  <2>1. /\ UNCHANGED table
        /\ \A q \in Run, u \in Task : ti'[q][u] = "success" <=> ti[q][u] = "success"
    BY <1>2, ScheduleFact DEF StageInv, TypeOK, stageVars
  <2> QED
    BY <2>1, ShownSame DEF Published, TableOf
<1>3. ASSUME NEW r \in Run, NEW t \in Task,
             DropTable(r, t) \/ CreateTable(r, t) \/ Put(r, t)
      PROVE  Shown' = Shown
  <2>1. ti[r][t] = "running" /\ UNCHANGED ti
    BY <1>3 DEF DropTable, CreateTable, Put, At, Advance, dagVars
  <2>2. \A i \in Run \X Task : i # <<r, t>> => table'[i] = table[i]
    BY <1>3 DEF DropTable, CreateTable, Put, TableOf, StageInv, TypeOK
  <2>3. \A q \in Run, u \in Task : Published(q, u)' = Published(q, u)
    BY <2>1, <2>2 DEF Published, TableOf
  <2> QED
    BY <2>3, ShownSame
<1>4. ASSUME NEW r \in Run, NEW t \in Task, Fail(r, t) \/ (Load(r, t) /\ FailTask(r, t))
      PROVE  Shown' = Shown
  <2>1. FailTask(r, t) /\ Release(r, t)
    BY <1>4 DEF Fail, Load
  <2>2. /\ ti[r][t] = "running" /\ ti'[r][t] = "failed"
        /\ \A q \in Run, u \in Task : q # r \/ u # t => ti'[q][u] = ti[q][u]
    BY <2>1, EndFact DEF StageInv
  <2>3. \A i \in Run \X Task : i # <<r, t>> => table'[i] = table[i]
    BY <1>4 DEF Fail, Load, TableOf, StageInv, TypeOK
  <2>4. \A q \in Run, u \in Task : Published(q, u)' = Published(q, u)
    <3> SUFFICES ASSUME NEW q \in Run, NEW u \in Task
                 PROVE  Published(q, u)' = Published(q, u)
      OBVIOUS
    <3>1. CASE q = r /\ u = t
      BY <3>1, <2>2 DEF Published
    <3>2. CASE ~(q = r /\ u = t)
      BY <3>2, <2>2, <2>3 DEF Published, TableOf
    <3> QED
      BY <3>1, <3>2
  <2> QED
    BY <2>4, ShownSame
<1>5. ASSUME Stop \/ UNCHANGED vars PROVE Shown' = Shown
  <2>1. UNCHANGED <<ti, table>>
    BY <1>5 DEF Stop, Idle, vars, dagVars, stageVars
  <2> QED
    BY <2>1, ShownSame DEF Published, TableOf
<1>6. Shown' = Shown
  <2>1. CASE \E r \in Run : Schedule(r)
    BY <2>1, <1>2
  <2>2. CASE \E r \in Run, t \in Task :
                \/ DropTable(r, t) \/ CreateTable(r, t) \/ Put(r, t) \/ Fail(r, t)
                \/ Load(r, t) /\ FailTask(r, t)
    BY <2>2, <1>3, <1>4
  <2> QED
    BY <2>1, <2>2, <1>5
<1>7. TakenMap' = TakenMap
  BY <1>1, TakenSame
<1> QED
  BY <1>6, <1>7

\* The chain of query, local file, DDL, put and LOAD DATA implements one
\* staging step per table and run: this is what lets the other modules take
\* a staging task as atomic.
THEOREM StagingImplemented == Spec => StagingSpec
<1>1. Init => Staging!Init
  BY DEF Init, DagInit, Staging!Init, Published, Taken
<1>2. StageInv /\ StageInv' /\ [Next]_vars => [Staging!Next]_<<TakenMap, Shown>>
  <2> SUFFICES ASSUME StageInv, StageInv', [Next]_vars
               PROVE  Staging!Next \/ UNCHANGED <<TakenMap, Shown>>
    OBVIOUS
  <2>1. ASSUME NEW r \in Run, NEW t \in Task, Dump(r, t) PROVE Staging!Next
    BY <2>1, DumpTakes DEF Staging!Next
  <2>2. ASSUME NEW r \in Run, NEW t \in Task, Load(r, t), FinishTask(r, t)
        PROVE  Staging!Next
    BY <2>2, LoadPublishes DEF Staging!Next
  <2>3. ASSUME NEW r \in Run, NEW t \in Task, Load(r, t), ~FinishTask(r, t)
        PROVE  FailTask(r, t)
    BY <2>3 DEF Load
  <2> QED
    BY <2>1, <2>2, <2>3, StagingStutters DEF Next
<1> QED
  BY <1>1, <1>2, StageInvariant, PTL DEF Spec, StagingSpec, Staging!Spec, TakenMap, Shown
-----------------------------------------------------------------------------
\* From here on the text of the files, for rows and values of any number and
\* length.  What FlattenSeq and Split compute is settled without induction:
\* a least place at which a claim fails leads to a contradiction.

\* Used below in place of induction: a set of numbers, such as those at which
\* something goes wrong, has a least one.
LEMMA LeastNumber ==
    ASSUME NEW S \in SUBSET Nat, S # {}
    PROVE  \E n \in S : \A m \in S : n <= m
<1> DEFINE R == {p \in Nat \X Nat : p[1] < p[2]}
<1>1. IsWellFoundedOn(R, Nat)
  BY NatLessThanWellFounded DEF OpToRel
<1>2. PICK n \in S : \A m \in S : ~ (<<m, n>> \in R)
  BY <1>1, WFMin
<1>3. \A m \in S : ~(m < n)
  BY <1>2
<1> QED
  BY <1>3

\* f[i] is the concatenation of the first i members of s.
Joins(f, s, n) == \A i \in 1 .. n : f[i] = IF i = 1 THEN s[i] ELSE f[i - 1] \o s[i]

\* The recursion by which FlattenSeq is defined has a solution.
LEMMA JoinsExist ==
    ASSUME NEW T, NEW s \in Seq(Seq(T)), NEW n \in 1 .. Len(s)
    PROVE  \E f \in [1 .. n -> Seq(T)] : Joins(f, s, n)
<1> DEFINE Good(m) == \E f \in [1 .. m -> Seq(T)] : Joins(f, s, m)
           Bad == {m \in 1 .. Len(s) : ~Good(m)}
<1>1. Len(s) \in Nat /\ \A i \in 1 .. Len(s) : s[i] \in Seq(T)
  OBVIOUS
<1>2. ASSUME NEW m \in 1 .. Len(s), m # 1, Good(m - 1) PROVE Good(m)
  <2>1. PICK f \in [1 .. m - 1 -> Seq(T)] : Joins(f, s, m - 1)
    BY <1>2
  <2> DEFINE g == [i \in 1 .. m |-> IF i = m THEN f[m - 1] \o s[m] ELSE f[i]]
  <2>2. m \in Nat /\ m - 1 \in 1 .. m - 1
    BY <1>1, <1>2
  <2>3. f[m - 1] \o s[m] \in Seq(T)
    BY <1>1, <2>2
  <2>4. g \in [1 .. m -> Seq(T)]
    BY <2>2, <2>3
  <2>5. \A i \in 1 .. m : g[i] = IF i = m THEN f[m - 1] \o s[m] ELSE f[i]
    OBVIOUS
  <2> HIDE DEF g
  <2>6. ASSUME NEW i \in 1 .. m PROVE g[i] = IF i = 1 THEN s[i] ELSE g[i - 1] \o s[i]
    <3>1. i = 1 \/ (i - 1 \in 1 .. m /\ i - 1 # m)
      BY <2>2
    <3>2. CASE i = m
      BY <3>1, <3>2, <2>5, <1>2
    <3>3. CASE i # m
      <4>1. i \in 1 .. m - 1
        BY <3>3, <2>2
      <4>2. f[i] = IF i = 1 THEN s[i] ELSE f[i - 1] \o s[i]
        BY <4>1, <2>1 DEF Joins
      <4>3. g[i] = f[i] /\ (i # 1 => g[i - 1] = f[i - 1])
        BY <3>1, <3>3, <2>5
      <4> QED
        BY <4>2, <4>3
    <3> QED
      BY <3>2, <3>3
  <2>7. Joins(g, s, m)
    BY <2>6 DEF Joins
  <2> QED
    BY <2>4, <2>7
<1>3. Good(1)
  <2> DEFINE g == [i \in 1 .. 1 |-> s[1]]
  <2>1. 1 \in 1 .. Len(s) /\ s[1] \in Seq(T)
    BY <1>1
  <2>2. g \in [1 .. 1 -> Seq(T)]
    BY <2>1
  <2>3. \A i \in 1 .. 1 : i = 1 /\ g[i] = s[i]
    OBVIOUS
  <2>4. Joins(g, s, 1)
    BY <2>3 DEF Joins
  <2> HIDE DEF g
  <2> QED
    BY <2>2, <2>4
<1> HIDE DEF Good
<1>4. Bad \in SUBSET Nat
  OBVIOUS
<1>5. ASSUME NEW m \in Bad, \A k \in Bad : m <= k PROVE FALSE
  <2>1. m \in 1 .. Len(s) /\ ~Good(m)
    OBVIOUS
  <2>2. m # 1 /\ m - 1 \in 1 .. Len(s) /\ ~(m <= m - 1)
    BY <1>1, <1>3, <2>1
  <2>3. Good(m - 1)
    BY <1>5, <2>2
  <2> QED
    BY <1>2, <2>1, <2>2, <2>3
<1>6. Bad = {}
  <2> HIDE DEF Bad
  <2> QED
    BY <1>4, <1>5, LeastNumber
<1>7. Good(n)
  BY <1>6
<1> QED
  BY <1>7 DEF Good

\* FlattenSeq is the last of the prefixes.
LEMMA FlattenFact ==
    ASSUME NEW T, NEW s \in Seq(Seq(T)), s # <<>>
    PROVE  \E f \in [1 .. Len(s) -> Seq(T)] :
              Joins(f, s, Len(s)) /\ FlattenSeq(s) = f[Len(s)]
<1> DEFINE n == Len(s)
           Rec(f) == f = [i \in 1 .. n |-> IF i = 1 THEN s[i] ELSE f[i - 1] \o s[i]]
           flatten == CHOOSE f : Rec(f)
<1>1. n \in Nat \ {0}
  OBVIOUS
<1>2. PICK g \in [1 .. n -> Seq(T)] : Joins(g, s, n)
  BY <1>1, JoinsExist
<1>3. Rec(g)
  BY <1>2 DEF Joins
<1>4. Rec(flatten)
  BY <1>3
<1>5. flatten = g
  <2> HIDE DEF flatten
  <2> DEFINE Bad == {i \in 1 .. n : flatten[i] # g[i]}
  <2>1. ASSUME NEW m \in Bad, \A k \in Bad : m <= k PROVE FALSE
    <3>1. m \in 1 .. n /\ flatten[m] # g[m]
      OBVIOUS
    <3>2. m = 1 \/ (m - 1 \in 1 .. n /\ ~(m <= m - 1))
      BY <3>1, <1>1
    <3>3. m = 1 \/ flatten[m - 1] = g[m - 1]
      BY <3>2, <2>1
    <3>4. flatten[m] = IF m = 1 THEN s[m] ELSE flatten[m - 1] \o s[m]
      BY <1>4, <3>1
    <3>5. g[m] = IF m = 1 THEN s[m] ELSE g[m - 1] \o s[m]
      BY <1>2, <3>1 DEF Joins
    <3> QED
      BY <3>1, <3>3, <3>4, <3>5
  <2>2. Bad \in SUBSET Nat
    BY <1>1
  <2>3. Bad = {}
    <3> HIDE DEF Bad
    <3> QED
      BY <2>1, <2>2, LeastNumber
  <2>4. \A i \in 1 .. n : flatten[i] = g[i]
    BY <2>3
  <2>5. flatten = [i \in 1 .. n |-> flatten[i]] /\ g = [i \in 1 .. n |-> g[i]]
    BY <1>4
  <2> QED
    BY <2>4, <2>5
<1>6. FlattenSeq(s) = flatten[n]
  BY <1>1 DEF FlattenSeq
<1> QED
  BY <1>2, <1>5, <1>6
-----------------------------------------------------------------------------
\* off[i] is where the i-th member of s ends when the members are joined.
Ends(off, s) ==
    /\ off \in [0 .. Len(s) -> Nat]
    /\ off[0] = 0
    /\ \A i \in 1 .. Len(s) : off[i] = off[i - 1] + Len(s[i])

\* Ends are numbers, and what lies between two of them is one member.
LEMMA EndsFact ==
    ASSUME NEW T, NEW s \in Seq(Seq(T)), NEW off, Ends(off, s)
    PROVE  /\ Len(s) \in Nat
           /\ \A i \in 0 .. Len(s) : off[i] \in Nat
           /\ \A i \in 1 .. Len(s) :
                 /\ i - 1 \in 0 .. Len(s) /\ i \in 0 .. Len(s)
                 /\ off[i] = off[i - 1] + Len(s[i]) /\ Len(s[i]) \in Nat
                 /\ s[i] \in Seq(T)
<1>1. Len(s) \in Nat
  BY LenProperties
<1>2. \A i \in 0 .. Len(s) : off[i] \in Nat
  BY DEF Ends
<1>3. \A i \in 1 .. Len(s) : i - 1 \in 0 .. Len(s) /\ i \in 0 .. Len(s)
  BY <1>1
<1>4. \A i \in 1 .. Len(s) : s[i] \in Seq(T) /\ Len(s[i]) \in Nat
  BY ElementOfSeq, LenProperties
<1>5. \A i \in 1 .. Len(s) : off[i] = off[i - 1] + Len(s[i])
  BY DEF Ends
<1> QED
  BY <1>1, <1>2, <1>3, <1>4, <1>5

\* A later member ends later, or at the same place when it is empty.
LEMMA EndsGrow ==
    ASSUME NEW T, NEW s \in Seq(Seq(T)), NEW off, Ends(off, s),
           NEW i \in 0 .. Len(s), NEW j \in i .. Len(s)
    PROVE  off[i] <= off[j]
<1> DEFINE Bad == {k \in i .. Len(s) : ~(off[i] <= off[k])}
<1>1. Len(s) \in Nat /\ i \in Nat /\ \A k \in 0 .. Len(s) : off[k] \in Nat
  BY EndsFact
<1>2. ASSUME NEW m \in Bad, \A k \in Bad : m <= k PROVE FALSE
  <2>1. m \in i .. Len(s) /\ ~(off[i] <= off[m])
    OBVIOUS
  <2>2. m # i
    BY <2>1, <1>1
  <2>3. m - 1 \in i .. Len(s) /\ m \in 1 .. Len(s) /\ ~(m <= m - 1)
    BY <1>1, <2>1, <2>2
  <2>4. off[i] <= off[m - 1]
    BY <1>2, <2>3
  <2>5. off[m] = off[m - 1] + Len(s[m]) /\ Len(s[m]) \in Nat
    BY <2>3, EndsFact
  <2>6. off[m - 1] \in Nat /\ off[m] \in Nat /\ off[i] \in Nat
    BY <2>3, EndsFact
  <2>7. off[m - 1] <= off[m]
    BY <2>5, <2>6
  <2> QED
    BY <2>1, <2>4, <2>6, <2>7
<1>3. Bad \in SUBSET Nat
  BY <1>1
<1>4. Bad = {}
  <2> HIDE DEF Bad
  <2> QED
    BY <1>2, <1>3, LeastNumber
<1> QED
  BY <1>4

\* Every position is one of some member.
LEMMA EndsCover ==
    ASSUME NEW T, NEW s \in Seq(Seq(T)), NEW off, Ends(off, s),
           NEW p \in 1 .. off[Len(s)]
    PROVE  \E i \in 1 .. Len(s) : \E j \in 1 .. Len(s[i]) : p = off[i - 1] + j
<1> DEFINE After == {i \in 0 .. Len(s) : p <= off[i]}
<1>1. Len(s) \in Nat /\ \A k \in 0 .. Len(s) : off[k] \in Nat
  BY EndsFact
<1>2. PICK i \in After : \A k \in After : i <= k
  <2>1. After \in SUBSET Nat
    BY <1>1
  <2>2. Len(s) \in After
    BY <1>1
  <2> HIDE DEF After
  <2> QED
    BY <2>1, <2>2, LeastNumber
<1>3. i # 0
  BY <1>1 DEF Ends
<1>4. i \in 1 .. Len(s) /\ i - 1 \in 0 .. Len(s) /\ ~(i <= i - 1)
  BY <1>1, <1>3
<1>5. ~(p <= off[i - 1])
  BY <1>2, <1>4
<1>6. off[i] = off[i - 1] + Len(s[i]) /\ Len(s[i]) \in Nat
  BY <1>4, EndsFact
<1> DEFINE a == off[i - 1]
           l == Len(s[i])
<1>7. a \in Nat /\ l \in Nat /\ p <= a + l /\ ~(p <= a) /\ p \in Nat
  BY <1>1, <1>4, <1>5, <1>6
<1> HIDE DEF a, l
<1>8. p - a \in 1 .. l /\ p = a + (p - a)
  BY <1>7
<1> QED
  BY <1>4, <1>8 DEF a, l

\* Joined members stand one after the other.
Layout(off, s) ==
    /\ Ends(off, s)
    /\ Len(FlattenSeq(s)) = off[Len(s)]
    /\ \A i \in 1 .. Len(s) : \A j \in 1 .. Len(s[i]) :
          FlattenSeq(s)[off[i - 1] + j] = s[i][j]

\* Every sequence of sequences can be joined, and its members are laid out so.
LEMMA Flattened ==
    ASSUME NEW T, NEW s \in Seq(Seq(T))
    PROVE  FlattenSeq(s) \in Seq(T) /\ \E off : Layout(off, s)
<1>1. Len(s) \in Nat /\ \A i \in 1 .. Len(s) : s[i] \in Seq(T)
  OBVIOUS
<1>2. CASE s = <<>>
  <2>1. Len(s) = 0 /\ FlattenSeq(s) = <<>>
    BY <1>2 DEF FlattenSeq
  <2>2. Ends([k \in 0 .. 0 |-> 0], s)
    BY <2>1 DEF Ends
  <2> QED
    BY <1>2, <2>1, <2>2 DEF Layout
<1>3. CASE s # <<>>
  <2> DEFINE n == Len(s)
  <2>1. PICK f \in [1 .. n -> Seq(T)] : Joins(f, s, n) /\ FlattenSeq(s) = f[n]
    BY <1>3, FlattenFact
  <2> DEFINE off == [k \in 0 .. n |-> IF k = 0 THEN 0 ELSE Len(f[k])]
  <2>2. n \in Nat \ {0} /\ n \in 1 .. n
    BY <1>3
  <2>3. /\ off \in [0 .. n -> Nat] /\ off[0] = 0
        /\ \A k \in 1 .. n : off[k] = Len(f[k])
    BY <2>2
  <2> HIDE DEF off
  <2>4. ASSUME NEW i \in 1 .. n, i # 1
        PROVE  /\ i - 1 \in 1 .. n /\ f[i] = f[i - 1] \o s[i]
               /\ f[i - 1] \in Seq(T) /\ s[i] \in Seq(T)
    <3>1. i - 1 \in 1 .. n
      BY <2>2, <2>4
    <3> QED
      BY <3>1, <1>1, <2>1, <2>4 DEF Joins
  <2>5. ASSUME NEW i \in 1 .. n PROVE off[i] = off[i - 1] + Len(s[i])
    <3>1. CASE i = 1
      <4>1. f[i] = s[i]
        BY <3>1, <2>1 DEF Joins
      <4>2. Len(s[i]) \in Nat
        BY <1>1
      <4> QED
        BY <3>1, <4>1, <4>2, <2>3
    <3>2. CASE i # 1
      <4>1. Len(f[i]) = Len(f[i - 1]) + Len(s[i])
        <5> DEFINE x == f[i - 1]
                   y == s[i]
        <5>1. f[i] = x \o y /\ x \in Seq(T) /\ y \in Seq(T)
          BY <3>2, <2>4
        <5> HIDE DEF x, y
        <5>2. Len(f[i]) = Len(x) + Len(y)
          BY <5>1, ConcatProperties
        <5> QED
          BY <5>2 DEF x, y
      <4> QED
        BY <3>2, <4>1, <2>3, <2>4
    <3> QED
      BY <3>1, <3>2
  <2>6. Ends(off, s)
    BY <2>3, <2>5 DEF Ends
  <2>7. ASSUME NEW i \in 1 .. n, NEW j \in 1 .. Len(s[i])
        PROVE  f[n][off[i - 1] + j] = s[i][j]
    <3> DEFINE p == off[i - 1] + j
               Bad == {m \in i .. n : f[m][p] # s[i][j]}
    <3>1. /\ i - 1 \in 0 .. n /\ off[i - 1] \in Nat /\ Len(s[i]) \in Nat
          /\ p \in 1 .. off[i] /\ off[i] \in Nat
      <4>1. i - 1 \in 0 .. n /\ i \in 0 .. n /\ Len(s[i]) \in Nat
        BY <2>2, <1>1
      <4> QED
        BY <4>1, <2>3, <2>5
    <3> HIDE DEF p
    <3>2. f[i][p] = s[i][j]
      <4>1. CASE i = 1
        <5>1. f[i] = s[i]
          BY <4>1, <2>1 DEF Joins
        <5>2. p = j
          BY <4>1, <2>3 DEF p
        <5> QED
          BY <5>1, <5>2
      <4>2. CASE i # 1
        <5>1. off[i - 1] = Len(f[i - 1]) /\ off[i] = off[i - 1] + Len(s[i])
          BY <4>2, <2>3, <2>4, <2>5
        <5>2. p \in 1 .. off[i - 1] + Len(s[i]) /\ ~(p <= off[i - 1]) /\ p - off[i - 1] = j
          <6> DEFINE a == off[i - 1]
                     l == Len(s[i])
          <6>1. a \in Nat /\ l \in Nat /\ j \in 1 .. l /\ p = a + j
            BY <3>1 DEF p
          <6> HIDE DEF a, l
          <6>2. p \in 1 .. a + l /\ ~(p <= a) /\ p - a = j
            BY <6>1
          <6> QED
            BY <6>2 DEF a, l
        <5>3. f[i] = f[i - 1] \o s[i] /\ f[i - 1] \in Seq(T) /\ s[i] \in Seq(T)
          BY <4>2, <2>4
        <5>4. (f[i - 1] \o s[i])[p] = s[i][p - Len(f[i - 1])]
          BY <5>1, <5>2, <5>3, ConcatProperties
        <5> QED
          BY <5>1, <5>2, <5>3, <5>4
      <4> QED
        BY <4>1, <4>2
    <3>3. ASSUME NEW m \in Bad, \A k \in Bad : m <= k PROVE FALSE
      <4>1. m \in i .. n /\ f[m][p] # s[i][j] /\ m # i
        BY <3>2
      <4>2. m \in 1 .. n /\ m # 1 /\ m - 1 \in i .. n /\ ~(m <= m - 1)
        BY <4>1, <2>2
      <4>3. f[m - 1][p] = s[i][j]
        BY <4>2, <3>3
      <4>4. f[m] = f[m - 1] \o s[m] /\ f[m - 1] \in Seq(T) /\ s[m] \in Seq(T)
        BY <4>2, <2>4
      <4>5. off[i] <= off[m - 1] /\ off[m - 1] = Len(f[m - 1])
        <5>1. i \in 0 .. n /\ m - 1 \in 1 .. n
          BY <4>2, <2>2
        <5> QED
          BY <5>1, <4>2, <2>3, <2>6, EndsGrow
      <4>6. p \in 1 .. Len(f[m - 1]) + Len(s[m]) /\ p <= Len(f[m - 1])
        <5> DEFINE a == Len(f[m - 1])
                   l == Len(s[m])
        <5>1. a \in Nat /\ l \in Nat /\ off[i] <= a
          BY <4>4, <4>5
        <5> HIDE DEF a, l
        <5>2. p \in 1 .. a + l /\ p <= a
          BY <5>1, <3>1
        <5> QED
          BY <5>2 DEF a, l
      <4>7. (f[m - 1] \o s[m])[p] = f[m - 1][p]
        BY <4>4, <4>6, ConcatProperties
      <4> QED
        BY <4>1, <4>3, <4>4, <4>7
    <3>4. Bad \in SUBSET Nat
      BY <2>2
    <3>5. Bad = {}
      <4> HIDE DEF Bad
      <4> QED
        BY <3>3, <3>4, LeastNumber
    <3>6. f[n][p] = s[i][j]
      <4>1. n \in i .. n
        BY <2>2
      <4> QED
        BY <4>1, <3>5
    <3> QED
      BY <3>6 DEF p
  <2>8. FlattenSeq(s) \in Seq(T) /\ Len(FlattenSeq(s)) = off[n]
    BY <2>1, <2>2, <2>3
  <2> QED
    BY <2>1, <2>6, <2>7, <2>8 DEF Layout
<1> QED
  BY <1>2, <1>3
-----------------------------------------------------------------------------
\* Where a token stands, and how many of these places are up to i.
Places(s, d) == {i \in DOMAIN s : s[i] = d}
Rank(at, i) == Cardinality({j \in at : j <= i})

\* Where the k-th piece ends.
CutOf(s, d, k) ==
    IF k = 0 THEN 0
    ELSE IF k > Cardinality(Places(s, d)) THEN Len(s) + 1
    ELSE CHOOSE i \in Places(s, d) : Rank(Places(s, d), i) = k

\* The pieces of Split, in these terms.
LEMMA SplitDef ==
    ASSUME NEW s, NEW d
    PROVE  Split(s, d) = [k \in 1 .. Cardinality(Places(s, d)) + 1 |->
                             SubSeq(s, CutOf(s, d, k - 1) + 1, CutOf(s, d, k) - 1)]
  BY DEF Split, Places, CutOf, Rank

\* There are finitely many places.
LEMMA PlacesFinite ==
    ASSUME NEW T, NEW s \in Seq(T), NEW d
    PROVE  /\ Len(s) \in Nat /\ DOMAIN s = 1 .. Len(s)
           /\ Places(s, d) \in SUBSET (1 .. Len(s))
           /\ IsFiniteSet(Places(s, d)) /\ Cardinality(Places(s, d)) \in Nat
<1>1. Len(s) \in Nat /\ DOMAIN s = 1 .. Len(s)
  BY LenProperties
<1>2. Places(s, d) \in SUBSET (1 .. Len(s))
  BY <1>1 DEF Places
<1>3. IsFiniteSet(1 .. Len(s))
  BY <1>1, FS_Interval
<1>4. IsFiniteSet(Places(s, d))
  BY <1>2, <1>3, FS_Subset
<1> QED
  BY <1>1, <1>2, <1>4, FS_CardinalityType

\* The places up to some number are finitely many, too.
LEMMA RankType ==
    ASSUME NEW at \in SUBSET Nat, IsFiniteSet(at), NEW i
    PROVE  /\ IsFiniteSet({j \in at : j <= i})
           /\ Rank(at, i) \in Nat /\ Rank(at, i) <= Cardinality(at)
<1> DEFINE upto == {j \in at : j <= i}
<1>1. upto \in SUBSET at
  OBVIOUS
<1> HIDE DEF upto
<1>2. IsFiniteSet(upto) /\ Cardinality(upto) <= Cardinality(at)
  BY <1>1, FS_Subset
<1>3. Cardinality(upto) \in Nat
  BY <1>2, FS_CardinalityType
<1> QED
  BY <1>2, <1>3 DEF upto, Rank

\* The next place has the next rank.
LEMMA RankNext ==
    ASSUME NEW at \in SUBSET Nat, IsFiniteSet(at), NEW p \in Nat, NEW q \in at,
           p < q, \A j \in at : ~(p < j /\ j < q)
    PROVE  Rank(at, q) = Rank(at, p) + 1
<1> DEFINE below == {j \in at : j <= p}
           upto == {j \in at : j <= q}
<1>1. upto = below \cup {q} /\ q \notin below
  <2>1. q \in Nat /\ \A j \in at : j \in Nat
    OBVIOUS
  <2>2. q <= q /\ ~(q <= p) /\ \A j \in at : j <= q <=> (j <= p \/ j = q)
    BY <2>1
  <2> QED
    BY <2>2
<1>2. IsFiniteSet(below)
  BY RankType
<1> HIDE DEF below, upto
<1>3. Cardinality(upto) = Cardinality(below) + 1
  BY <1>1, <1>2, FS_AddElement
<1> QED
  BY <1>3 DEF below, upto, Rank

\* Two places have different ranks.
LEMMA RankUnique ==
    ASSUME NEW at \in SUBSET Nat, IsFiniteSet(at), NEW p \in at, NEW q \in at,
           Rank(at, p) = Rank(at, q)
    PROVE  p = q
<1>1. ASSUME NEW a \in at, NEW b \in at, a < b PROVE Rank(at, a) # Rank(at, b)
  <2> DEFINE below == {j \in at : j <= a}
             upto == {j \in at : j <= b}
  <2>1. below \in SUBSET upto /\ b \in upto /\ b \notin below
    <3>1. a \in Nat /\ b \in Nat /\ \A j \in at : j \in Nat
      OBVIOUS
    <3>2. b <= b /\ ~(b <= a) /\ \A j \in at : j <= a => j <= b
      BY <3>1, <1>1
    <3> QED
      BY <3>2
  <2>2. IsFiniteSet(upto)
    BY RankType
  <2> HIDE DEF below, upto
  <2>3. Cardinality(below) # Cardinality(upto)
    BY <2>1, <2>2, FS_Subset
  <2> QED
    BY <2>3 DEF below, upto, Rank
<1>2. p < q \/ q < p \/ p = q
  OBVIOUS
<1> QED
  BY <1>1, <1>2

\* No token stands before the first.
LEMMA RankZero ==
    ASSUME NEW T, NEW s \in Seq(T), NEW d
    PROVE  Rank(Places(s, d), 0) = 0
<1>1. \A j \in Places(s, d) : ~(j <= 0)
  BY PlacesFinite
<1>2. {j \in Places(s, d) : j <= 0} = {}
  BY <1>1
<1> QED
  BY <1>2, FS_EmptySet DEF Rank

\* The k-th piece ends at the place of rank k.
LEMMA CutFact ==
    ASSUME NEW T, NEW s \in Seq(T), NEW d
    PROVE  /\ CutOf(s, d, 0) = 0
           /\ CutOf(s, d, Cardinality(Places(s, d)) + 1) = Len(s) + 1
           /\ \A q \in Places(s, d) : CutOf(s, d, Rank(Places(s, d), q)) = q
<1> DEFINE at == Places(s, d)
<1>1. at \in SUBSET Nat /\ IsFiniteSet(at) /\ Cardinality(at) \in Nat
  BY PlacesFinite
<1>2. CutOf(s, d, Cardinality(at) + 1) = Len(s) + 1
  BY <1>1 DEF CutOf
<1>3. ASSUME NEW q \in at PROVE CutOf(s, d, Rank(at, q)) = q
  <2> HIDE DEF at
  <2>1. Rank(at, q) \in Nat /\ Rank(at, q) <= Cardinality(at)
    BY <1>1, RankType
  <2>2. Rank(at, q) # 0
    <3>1. q \in {j \in at : j <= q}
      BY <1>1
    <3>2. IsFiniteSet({j \in at : j <= q})
      BY <1>1, RankType
    <3> QED
      BY <3>1, <3>2, FS_EmptySet DEF Rank
  <2>3. CutOf(s, d, Rank(at, q)) = CHOOSE i \in at : Rank(at, i) = Rank(at, q)
    BY <1>1, <2>1, <2>2 DEF CutOf, at
  <2>4. \A i \in at : Rank(at, i) = Rank(at, q) => i = q
    BY <1>1, RankUnique
  <2> QED
    BY <2>3, <2>4
<1> QED
  BY <1>2, <1>3 DEF CutOf

\* What stands between two tokens d, or before the first or after the last
\* one, is one of the pieces, and the last only when no d comes after it.
LEMMA SplitPiece ==
    ASSUME NEW T, NEW s \in Seq(T), NEW d,
           NEW p \in 0 .. Len(s), NEW q \in (p + 1) .. (Len(s) + 1),
           p = 0 \/ s[p] = d, q = Len(s) + 1 \/ s[q] = d,
           \A j \in (p + 1) .. (q - 1) : s[j] # d
    PROVE  LET k == Rank(Places(s, d), p) + 1
           IN  /\ Split(s, d)[k] = SubSeq(s, p + 1, q - 1)
               /\ k \in 1 .. Cardinality(Places(s, d)) + 1
               /\ q # Len(s) + 1 => k <= Cardinality(Places(s, d))
               /\ q = Len(s) + 1 => k = Cardinality(Places(s, d)) + 1
               /\ q # Len(s) + 1 => Rank(Places(s, d), q) = k
<1> DEFINE at == Places(s, d)
           k == Rank(at, p) + 1
<1>1. /\ Len(s) \in Nat /\ DOMAIN s = 1 .. Len(s) /\ at \in SUBSET (1 .. Len(s))
      /\ at \in SUBSET Nat /\ IsFiniteSet(at) /\ Cardinality(at) \in Nat
  BY PlacesFinite
<1>2. \A j \in 1 .. Len(s) : j \in at <=> s[j] = d
  BY <1>1 DEF Places
<1>3. /\ CutOf(s, d, 0) = 0 /\ CutOf(s, d, Cardinality(at) + 1) = Len(s) + 1
      /\ \A i \in at : CutOf(s, d, Rank(at, i)) = i
  BY CutFact
<1>4. p \in Nat /\ q \in Nat /\ p < q /\ (p = 0 \/ p \in at) /\ (q = Len(s) + 1 \/ q \in at)
  BY <1>1, <1>2
<1>5. \A j \in at : ~(p < j /\ j < q)
  BY <1>1, <1>2, <1>4
<1> HIDE DEF at
<1>6. Rank(at, p) \in Nat /\ Rank(at, p) <= Cardinality(at)
  BY <1>1, RankType
<1>7. CutOf(s, d, k - 1) = p
  <2>1. k - 1 = Rank(at, p)
    BY <1>6
  <2>2. CASE p = 0
    BY <2>1, <2>2, <1>3, RankZero DEF at
  <2> QED
    BY <2>1, <2>2, <1>3, <1>4
<1>8. CASE q # Len(s) + 1
  <2>1. q \in at /\ Rank(at, q) = k
    BY <1>1, <1>4, <1>5, <1>8, RankNext
  <2>2. k <= Cardinality(at)
    BY <2>1, <1>1, RankType
  <2>3. CutOf(s, d, k) = q /\ k \in 1 .. Cardinality(at) + 1
    BY <2>1, <2>2, <1>1, <1>3, <1>6
  <2> HIDE DEF k
  <2>4. Split(s, d)[k] = SubSeq(s, p + 1, q - 1)
    BY <1>7, <2>3, SplitDef DEF at
  <2> QED
    BY <1>8, <2>1, <2>2, <2>3, <2>4 DEF at, k
<1>9. CASE q = Len(s) + 1
  <2>1. {j \in at : j <= p} = at
    <3>1. \A j \in at : j \in Nat /\ j < q
      BY <1>1, <1>9
    <3>2. \A j \in at : j <= p
      BY <3>1, <1>4, <1>5
    <3> QED
      BY <3>2
  <2>2. k = Cardinality(at) + 1
    BY <2>1 DEF Rank
  <2>3. CutOf(s, d, k) = q /\ k \in 1 .. Cardinality(at) + 1
    BY <2>2, <1>1, <1>3, <1>9
  <2> HIDE DEF k
  <2>4. Split(s, d)[k] = SubSeq(s, p + 1, q - 1)
    BY <1>7, <2>3, SplitDef DEF at
  <2> QED
    BY <1>9, <2>2, <2>3, <2>4 DEF at, k
<1> QED
  BY <1>8, <1>9

\* c lists the start, all places of d, and the end.
Cuts(c, n, s, d) ==
    /\ c \in [0 .. n -> 0 .. Len(s) + 1]
    /\ c[0] = 0 /\ c[n] = Len(s) + 1
    /\ \A i \in 1 .. n : c[i - 1] < c[i]
    /\ \A i \in 1 .. n - 1 : c[i] <= Len(s) /\ s[c[i]] = d
    /\ \A i \in 1 .. n : \A j \in c[i - 1] + 1 .. c[i] - 1 : s[j] # d

\* When all places are known, so are all pieces.
LEMMA SplitAll ==
    ASSUME NEW T, NEW s \in Seq(T), NEW d, NEW n \in Nat \ {0}, NEW c,
           Cuts(c, n, s, d)
    PROVE  /\ Cardinality(Places(s, d)) = n - 1
           /\ \A i \in 1 .. n : Split(s, d)[i] = SubSeq(s, c[i - 1] + 1, c[i] - 1)
<1> DEFINE at == Places(s, d)
           Bad == {i \in 0 .. n - 1 : Rank(at, c[i]) # i}
<1> USE DEF Cuts
<1>1. Len(s) \in Nat
  BY LenProperties
<1>2. ASSUME NEW i \in 1 .. n
      PROVE  /\ i - 1 \in 0 .. n - 1
             /\ c[i - 1] \in 0 .. Len(s) /\ c[i] \in c[i - 1] + 1 .. Len(s) + 1
             /\ c[i - 1] = 0 \/ s[c[i - 1]] = d
             /\ i # n => c[i] # Len(s) + 1 /\ s[c[i]] = d
             /\ c[i] = Len(s) + 1 \/ s[c[i]] = d
  <2>1. i - 1 \in 0 .. n - 1 /\ i \in 0 .. n /\ i - 1 \in 0 .. n
    OBVIOUS
  <2>2. i = 1 \/ i - 1 \in 1 .. n - 1
    OBVIOUS
  <2>3. i = n \/ i \in 1 .. n - 1
    OBVIOUS
  <2>4. c[i - 1] \in 0 .. Len(s) + 1 /\ c[i] \in 0 .. Len(s) + 1 /\ c[i - 1] < c[i]
    BY <2>1
  <2>5. c[i - 1] \in 0 .. Len(s) /\ c[i] \in c[i - 1] + 1 .. Len(s) + 1
    BY <2>4, <1>1
  <2>6. c[i - 1] = 0 \/ s[c[i - 1]] = d
    BY <2>2
  <2>7. i # n => c[i] # Len(s) + 1 /\ s[c[i]] = d
    BY <2>3, <1>1
  <2> QED
    BY <2>1, <2>5, <2>6, <2>7
<1>3. ASSUME NEW i \in 1 .. n
      PROVE  LET k == Rank(at, c[i - 1]) + 1
             IN  /\ Split(s, d)[k] = SubSeq(s, c[i - 1] + 1, c[i] - 1)
                 /\ c[i] = Len(s) + 1 => k = Cardinality(at) + 1
                 /\ c[i] # Len(s) + 1 => Rank(at, c[i]) = k
  <2> DEFINE p == c[i - 1]
             q == c[i]
  <2>1. \A j \in p + 1 .. q - 1 : s[j] # d
    OBVIOUS
  <2>2. p \in 0 .. Len(s) /\ q \in p + 1 .. Len(s) + 1
    BY <1>2
  <2>3. (p = 0 \/ s[p] = d) /\ (q = Len(s) + 1 \/ s[q] = d)
    BY <1>2
  <2> HIDE DEF p, q
  <2>4. LET k == Rank(Places(s, d), p) + 1
        IN  /\ Split(s, d)[k] = SubSeq(s, p + 1, q - 1)
            /\ q = Len(s) + 1 => k = Cardinality(Places(s, d)) + 1
            /\ q # Len(s) + 1 => Rank(Places(s, d), q) = k
    BY <2>1, <2>2, <2>3, SplitPiece
  <2> QED
    BY <2>4 DEF p, q
<1> HIDE DEF at
<1>4. ASSUME NEW m \in Bad, \A i \in Bad : m <= i PROVE FALSE
  <2>1. m \in 0 .. n - 1 /\ Rank(at, c[m]) # m
    OBVIOUS
  <2>2. m # 0
    BY <2>1, RankZero DEF at
  <2>3. m \in 1 .. n /\ m # n /\ m - 1 \in 0 .. n - 1 /\ ~(m <= m - 1)
    BY <2>1, <2>2
  <2>4. Rank(at, c[m - 1]) = m - 1
    BY <2>3, <1>4
  <2>5. Rank(at, c[m]) = Rank(at, c[m - 1]) + 1
    BY <2>3, <1>2, <1>3
  <2> QED
    BY <2>1, <2>3, <2>4, <2>5
<1>5. Bad \in SUBSET Nat
  OBVIOUS
<1>6. Bad = {}
  <2> HIDE DEF Bad
  <2> QED
    BY <1>4, <1>5, LeastNumber
<1>7. \A i \in 1 .. n : Rank(at, c[i - 1]) + 1 = i
  <2> SUFFICES ASSUME NEW i \in 1 .. n PROVE Rank(at, c[i - 1]) + 1 = i
    OBVIOUS
  <2>1. i - 1 \in 0 .. n - 1
    OBVIOUS
  <2>2. Rank(at, c[i - 1]) = i - 1
    BY <2>1, <1>6
  <2> QED
    BY <2>2
<1>8. n = Cardinality(at) + 1
  <2>1. n \in 1 .. n
    OBVIOUS
  <2> QED
    BY <2>1, <1>3, <1>7
<1>9. \A i \in 1 .. n : Split(s, d)[i] = SubSeq(s, c[i - 1] + 1, c[i] - 1)
  BY <1>3, <1>7
<1>10. Cardinality(at) = n - 1
  <2>1. Cardinality(at) \in Nat
    BY PlacesFinite DEF at
  <2> QED
    BY <2>1, <1>8
<1> QED
  BY <1>9, <1>10 DEF at
-----------------------------------------------------------------------------
\* Members that are not empty take at least one place each.
LEMMA EndsAtLeast ==
    ASSUME NEW T, NEW s \in Seq(Seq(T)), NEW off, Ends(off, s),
           \A i \in 1 .. Len(s) : Len(s[i]) > 0
    PROVE  off[Len(s)] >= Len(s)
<1> DEFINE Bad == {i \in 0 .. Len(s) : ~(off[i] >= i)}
<1>1. Len(s) \in Nat /\ \A i \in 0 .. Len(s) : off[i] \in Nat
  BY EndsFact
<1>2. ASSUME NEW m \in Bad, \A i \in Bad : m <= i PROVE FALSE
  <2>1. m \in 0 .. Len(s) /\ ~(off[m] >= m) /\ m # 0
    BY <1>1
  <2>2. m \in 1 .. Len(s) /\ m - 1 \in 0 .. Len(s) /\ ~(m <= m - 1)
    BY <2>1, <1>1
  <2>3. off[m - 1] >= m - 1
    BY <2>2, <1>2
  <2>4. off[m] = off[m - 1] + Len(s[m]) /\ Len(s[m]) \in Nat /\ Len(s[m]) > 0
    BY <2>2, EndsFact
  <2>5. off[m] \in Nat /\ off[m - 1] \in Nat
    BY <2>2, EndsFact
  <2>6. off[m] >= m
    BY <2>2, <2>3, <2>4, <2>5
  <2> QED
    BY <2>1, <2>6
<1>3. Bad \in SUBSET Nat
  BY <1>1
<1>4. Bad = {}
  <2> HIDE DEF Bad
  <2> QED
    BY <1>2, <1>3, LeastNumber
<1>5. Len(s) \in 0 .. Len(s)
  BY <1>1
<1> QED
  BY <1>4, <1>5

\* Doubling quotes loses nothing and adds only quotes.
LEMMA DoubledFact ==
    ASSUME NEW T, Quote \in T, NEW v \in Seq(T)
    PROVE  /\ Doubled(v) \in Seq(T)
           /\ Len(Doubled(v)) >= Len(v)
           /\ \A p \in 1 .. Len(Doubled(v)) :
                 \/ Doubled(v)[p] = Quote
                 \/ \E i \in DOMAIN v : Doubled(v)[p] = v[i]
<1> DEFINE s == [i \in DOMAIN v |-> IF v[i] = Quote THEN <<Quote, Quote>> ELSE <<v[i]>>]
<1>1. Len(v) \in Nat /\ DOMAIN v = 1 .. Len(v) /\ \A i \in 1 .. Len(v) : v[i] \in T
  BY LenProperties
<1>2. \A i \in 1 .. Len(v) :
         s[i] = IF v[i] = Quote THEN <<Quote, Quote>> ELSE <<v[i]>>
  BY <1>1
<1>3. ASSUME NEW i \in 1 .. Len(v)
      PROVE  /\ s[i] \in Seq(T) /\ Len(s[i]) > 0
             /\ \A j \in 1 .. Len(s[i]) : s[i][j] = Quote \/ s[i][j] = v[i]
  <2>1. CASE v[i] = Quote
    <3>1. s[i] = <<Quote, Quote>>
      BY <2>1, <1>2
    <3> HIDE DEF s
    <3> QED
      BY <3>1
  <2>2. CASE v[i] # Quote
    <3>1. s[i] = <<v[i]>> /\ v[i] \in T
      BY <2>2, <1>1, <1>2
    <3> HIDE DEF s
    <3> QED
      BY <3>1
  <2> QED
    BY <2>1, <2>2
<1>4. s \in Seq(Seq(T)) /\ Len(s) = Len(v)
  <2>1. s \in [1 .. Len(v) -> Seq(T)]
    BY <1>1, <1>3
  <2> QED
    BY <2>1, <1>1
<1> HIDE DEF s
<1>5. PICK off : Layout(off, s)
  BY <1>4, Flattened
<1>6. Doubled(v) = FlattenSeq(s) /\ FlattenSeq(s) \in Seq(T)
  BY <1>4, Flattened DEF Doubled, s
<1>7. off[Len(s)] >= Len(s)
  BY <1>3, <1>4, <1>5, EndsAtLeast DEF Layout
<1>8. ASSUME NEW p \in 1 .. Len(FlattenSeq(s))
      PROVE  FlattenSeq(s)[p] = Quote \/ \E i \in 1 .. Len(v) : FlattenSeq(s)[p] = v[i]
  <2>1. PICK i \in 1 .. Len(s) : \E j \in 1 .. Len(s[i]) : p = off[i - 1] + j
    <3>1. Ends(off, s) /\ p \in 1 .. off[Len(s)]
      BY <1>5 DEF Layout
    <3>2. s \in Seq(Seq(T))
      BY <1>4
    <3> QED
      BY <3>1, <3>2, EndsCover
  <2>2. PICK j \in 1 .. Len(s[i]) : p = off[i - 1] + j
    BY <2>1
  <2>3. FlattenSeq(s)[p] = s[i][j]
    BY <2>2, <1>5 DEF Layout
  <2> QED
    BY <2>3, <1>3, <1>4
<1>9. Len(FlattenSeq(s)) >= Len(v)
  BY <1>4, <1>5, <1>7 DEF Layout
<1> QED
  BY <1>1, <1>6, <1>8, <1>9

\* The tokens and the values of a row; a file also holds delimiters and breaks.
Tokens(T) == Quote \in T /\ Delim \in T /\ Break \in T
Values(T) == {Null} \cup Seq(T)

\* A value is written as a sequence of tokens: as it is when nothing in it is
\* special, or else longer and between quotes.
LEMMA WrittenFact ==
    ASSUME NEW T, Tokens(T), NEW v \in Values(T)
    PROVE  /\ Written(v) \in Seq(T)
           /\ v = Null => Written(v) = <<>>
           /\ v # Null /\ ~Special(v) => Written(v) = v
           /\ v # Null /\ Special(v) =>
                 /\ Len(Written(v)) > Len(v)
                 /\ Written(v)[1] = Quote /\ Written(v)[Len(Written(v))] = Quote
                 /\ \A p \in 1 .. Len(Written(v)) :
                       \/ Written(v)[p] = Quote
                       \/ \E i \in DOMAIN v : Written(v)[p] = v[i]
<1>1. CASE v = Null
  BY <1>1 DEF Written
<1>2. CASE v # Null /\ ~Special(v)
  BY <1>2 DEF Written, Values
<1>3. CASE v # Null /\ Special(v)
  <2> DEFINE q == <<Quote>>
             w == Doubled(v)
             x == q \o w
             y == x \o q
  <2>1. Written(v) = y
    BY <1>3 DEF Written
  <2>2. v \in Seq(T) /\ Quote \in T
    BY <1>3 DEF Values, Tokens
  <2>3. /\ w \in Seq(T) /\ Len(w) >= Len(v) /\ Len(v) \in Nat /\ Len(w) \in Nat
        /\ \A p \in 1 .. Len(w) : w[p] = Quote \/ \E i \in DOMAIN v : w[p] = v[i]
    BY <2>2, DoubledFact, LenProperties
  <2>4. q \in Seq(T) /\ Len(q) = 1 /\ q[1] = Quote
    BY <2>2
  <2> HIDE DEF w, q
  <2>5. /\ x \in Seq(T) /\ Len(x) = 1 + Len(w)
        /\ \A p \in 1 .. 1 + Len(w) : x[p] = IF p <= 1 THEN q[p] ELSE w[p - 1]
    <3>1. /\ x \in Seq(T) /\ Len(x) = Len(q) + Len(w)
          /\ \A p \in 1 .. Len(q) + Len(w) : x[p] = IF p <= Len(q) THEN q[p] ELSE w[p - Len(q)]
      BY <2>3, <2>4, ConcatProperties
    <3> HIDE DEF x
    <3> QED
      BY <3>1, <2>4
  <2> HIDE DEF x
  <2>6. /\ y \in Seq(T) /\ Len(y) = Len(w) + 2
        /\ \A p \in 1 .. Len(w) + 2 :
              y[p] = IF p <= Len(w) + 1 THEN x[p] ELSE q[p - (Len(w) + 1)]
    <3>1. /\ y \in Seq(T) /\ Len(y) = Len(x) + Len(q)
          /\ \A p \in 1 .. Len(x) + Len(q) :
                y[p] = IF p <= Len(x) THEN x[p] ELSE q[p - Len(x)]
      BY <2>4, <2>5, ConcatProperties
    <3>2. Len(x) = Len(w) + 1 /\ Len(x) + Len(q) = Len(w) + 2
      BY <2>3, <2>4, <2>5
    <3> QED
      BY <3>1, <3>2
  <2> HIDE DEF y
  <2>7. ASSUME NEW p \in 1 .. Len(w) + 2
        PROVE  /\ p = 1 \/ p = Len(w) + 2 => y[p] = Quote
               /\ y[p] = Quote \/ \E i \in DOMAIN v : y[p] = v[i]
    <3>1. CASE p = 1
      <4>1. 1 \in 1 .. Len(w) + 2 /\ 1 <= Len(w) + 1 /\ 1 \in 1 .. 1 + Len(w)
        BY <2>3
      <4>2. y[1] = x[1] /\ x[1] = q[1]
        BY <4>1, <2>5, <2>6
      <4> QED
        BY <3>1, <4>2, <2>4
    <3>2. CASE p = Len(w) + 2
      <4>1. ~(p <= Len(w) + 1) /\ p - (Len(w) + 1) = 1
        BY <3>2, <2>3
      <4>2. y[p] = q[1]
        BY <4>1, <2>6
      <4> QED
        BY <4>2, <2>4
    <3>3. CASE p # 1 /\ p # Len(w) + 2
      <4>1. p <= Len(w) + 1 /\ p \in 1 .. 1 + Len(w) /\ ~(p <= 1) /\ p - 1 \in 1 .. Len(w)
        BY <3>3, <2>3
      <4>2. y[p] = w[p - 1]
        BY <4>1, <2>5, <2>6
      <4> QED
        BY <3>3, <4>1, <4>2, <2>3
    <3> QED
      BY <3>1, <3>2, <3>3
  <2>8. Len(y) > Len(v) /\ 1 \in 1 .. Len(w) + 2 /\ Len(w) + 2 \in 1 .. Len(w) + 2
    BY <2>3, <2>6
  <2> QED
    BY <1>3, <2>1, <2>6, <2>7, <2>8
<1> QED
  BY <1>1, <1>2, <1>3

\* Plain values are written without delimiter and break.
LEMMA WrittenPlain ==
    ASSUME NEW T, Tokens(T), Quote \notin {Delim, Break}, NEW v \in Values(T), Plain(v)
    PROVE  \A p \in 1 .. Len(Written(v)) : Written(v)[p] \notin {Delim, Break}
<1>1. CASE v = Null
  BY <1>1, WrittenFact
<1>2. CASE v # Null
  <2>1. v \in Seq(T) /\ DOMAIN v = 1 .. Len(v)
    BY <1>2, LenProperties DEF Values
  <2>2. \A i \in DOMAIN v : v[i] \notin {Delim, Break}
    BY <1>2 DEF Plain
  <2> QED
    BY <1>2, <2>1, <2>2, WrittenFact
<1> QED
  BY <1>1, <1>2
-----------------------------------------------------------------------------
\* The fields of a row with what follows each.
Fields(row) ==
    [i \in DOMAIN row |-> Written(row[i]) \o IF i = Len(row) THEN <<Break>> ELSE <<Delim>>]

\* Each of them ends with one delimiter, or break, after what was written.
LEMMA FieldsFact ==
    ASSUME NEW T, Tokens(T), NEW row \in Seq(Values(T))
    PROVE  /\ Fields(row) \in Seq(Seq(T)) /\ Len(Fields(row)) = Len(row)
           /\ \A i \in 1 .. Len(row) :
                 LET w == Written(row[i])
                     x == Fields(row)[i]
                 IN  /\ w \in Seq(T) /\ Len(w) \in Nat /\ Len(x) = Len(w) + 1
                     /\ x[Len(w) + 1] = IF i = Len(row) THEN Break ELSE Delim
                     /\ \A j \in 1 .. Len(w) : x[j] = w[j]
<1>1. Len(row) \in Nat /\ DOMAIN row = 1 .. Len(row)
  BY LenProperties
<1>2. ASSUME NEW i \in 1 .. Len(row), NEW w, w = Written(row[i]), NEW x, x = Fields(row)[i]
      PROVE  /\ w \in Seq(T) /\ x \in Seq(T) /\ Len(w) \in Nat /\ Len(x) = Len(w) + 1
             /\ x[Len(w) + 1] = IF i = Len(row) THEN Break ELSE Delim
             /\ \A j \in 1 .. Len(w) : x[j] = w[j]
  <2>1. row[i] \in Values(T)
    BY ElementOfSeq
  <2>2. w \in Seq(T) /\ Len(w) \in Nat
    BY <1>2, <2>1, WrittenFact, LenProperties
  <2>3. PICK d \in T : /\ x = w \o <<d>>
                       /\ d = IF i = Len(row) THEN Break ELSE Delim
    BY <1>1, <1>2 DEF Fields, Tokens
  <2>4. <<d>> \in Seq(T) /\ Len(<<d>>) = 1 /\ <<d>>[1] = d
    OBVIOUS
  <2>5. /\ x \in Seq(T) /\ Len(x) = Len(w) + 1
        /\ \A j \in 1 .. Len(w) + 1 : x[j] = IF j <= Len(w) THEN w[j] ELSE <<d>>[j - Len(w)]
    BY <2>2, <2>3, <2>4, ConcatProperties
  <2>6. x[Len(w) + 1] = d
    <3>1. Len(w) + 1 \in 1 .. Len(w) + 1 /\ ~(Len(w) + 1 <= Len(w))
          /\ (Len(w) + 1) - Len(w) = 1
      BY <2>2
    <3> QED
      BY <3>1, <2>4, <2>5
  <2>7. \A j \in 1 .. Len(w) : x[j] = w[j]
    BY <2>2, <2>5
  <2> QED
    BY <2>2, <2>3, <2>5, <2>6, <2>7
<1>3. Fields(row) \in [1 .. Len(row) -> Seq(T)]
  <2>1. \A i \in 1 .. Len(row) : Fields(row)[i] \in Seq(T)
    BY <1>2
  <2>2. Fields(row) = [i \in 1 .. Len(row) |-> Fields(row)[i]]
    BY <1>1 DEF Fields
  <2> QED
    BY <2>1, <2>2
<1>4. Fields(row) \in Seq(Seq(T)) /\ Len(Fields(row)) = Len(row)
  BY <1>1, <1>3
<1> QED
  BY <1>2, <1>4

\* A line is not empty and ends with a break.
LEMMA LineFact ==
    ASSUME NEW T, Tokens(T), NEW row \in Seq(Values(T)), row # <<>>
    PROVE  /\ Line(row) \in Seq(T) /\ Len(Line(row)) \in Nat \ {0}
           /\ Line(row)[Len(Line(row))] = Break
           /\ \E off : Layout(off, Fields(row))
<1>1. Line(row) = FlattenSeq(Fields(row))
  BY DEF Line, Fields
<1>2. Fields(row) \in Seq(Seq(T)) /\ Len(Fields(row)) = Len(row)
  BY FieldsFact
<1>3. Line(row) \in Seq(T) /\ \E off : Layout(off, Fields(row))
  BY <1>1, <1>2, Flattened
<1>4. PICK off : Layout(off, Fields(row))
  BY <1>3
<1> DEFINE n == Len(row)
           x == Fields(row)[n]
<1>5. n \in Nat \ {0} /\ n \in 1 .. n
  BY EmptySeq
<1>6. /\ Len(x) \in Nat \ {0} /\ x[Len(x)] = Break /\ Len(x) \in 1 .. Len(x)
  <2> DEFINE w == Written(row[n])
  <2>1. Len(w) \in Nat /\ Len(x) = Len(w) + 1 /\ x[Len(w) + 1] = Break
    BY <1>5, FieldsFact
  <2> HIDE DEF w, x
  <2> QED
    BY <2>1
<1>7. off[n] = off[n - 1] + Len(x) /\ off[n - 1] \in Nat /\ off[n] = Len(Line(row))
  <2>1. off[n] = off[n - 1] + Len(x) /\ off[n - 1] \in Nat
    <3>1. Fields(row) \in Seq(Seq(T)) /\ Ends(off, Fields(row))
      BY <1>2, <1>4 DEF Layout
    <3>2. n \in 1 .. Len(Fields(row))
      BY <1>2, <1>5
    <3>3. off[n] = off[n - 1] + Len(x) /\ n - 1 \in 0 .. Len(Fields(row))
      BY <3>1, <3>2, EndsFact
    <3> QED
      BY <3>1, <3>3, EndsFact
  <2>2. off[n] = Len(Line(row))
    BY <1>1, <1>2, <1>4 DEF Layout
  <2> QED
    BY <2>1, <2>2
<1>8. Line(row)[off[n - 1] + Len(x)] = x[Len(x)]
  BY <1>1, <1>2, <1>4, <1>5, <1>6 DEF Layout
<1> HIDE DEF n, x
<1> QED
  BY <1>3, <1>6, <1>7, <1>8

\* A row of plain values is one line, and its fields are what was written.
LEMMA LinePlain ==
    ASSUME NEW T, Tokens(T), Quote \notin {Delim, Break}, Delim # Break,
           NEW row \in Seq(Values(T)), row # <<>>, \A i \in DOMAIN row : Plain(row[i])
    PROVE  /\ \A p \in 1 .. Len(Line(row)) - 1 : Line(row)[p] # Break
           /\ Split(SubSeq(Line(row), 1, Len(Line(row)) - 1), Delim)
                 = [i \in 1 .. Len(row) |-> Written(row[i])]
<1> DEFINE n == Len(row)
           line == Line(row)
           l == Len(line)
           body == SubSeq(line, 1, l - 1)
           W(i) == Len(Written(row[i]))
<1>1. n \in Nat \ {0} /\ DOMAIN row = 1 .. n
  BY EmptySeq, LenProperties
<1>2. line = FlattenSeq(Fields(row))
  BY DEF Line, Fields
<1>3. Fields(row) \in Seq(Seq(T)) /\ Len(Fields(row)) = n
  BY FieldsFact
<1>4. line \in Seq(T) /\ l \in Nat \ {0}
  BY LineFact
<1>5. PICK off : Layout(off, Fields(row))
  BY LineFact
<1>6. /\ Ends(off, Fields(row)) /\ off \in [0 .. n -> Nat] /\ off[0] = 0 /\ off[n] = l
      /\ \A i \in 1 .. n : \A j \in 1 .. Len(Fields(row)[i]) :
            line[off[i - 1] + j] = Fields(row)[i][j]
  BY <1>2, <1>3, <1>5 DEF Layout, Ends
<1> HIDE DEF line, l
<1>7. /\ \A i \in 0 .. n : off[i] \in Nat /\ off[i] <= l
      /\ \A i \in 1 .. n :
            /\ i - 1 \in 0 .. n /\ i \in 0 .. n /\ W(i) \in Nat
            /\ off[i] = off[i - 1] + (W(i) + 1) /\ off[i - 1] < off[i]
  <2>1. ASSUME NEW i \in 1 .. n
        PROVE  W(i) \in Nat /\ Len(Fields(row)[i]) = W(i) + 1
    BY FieldsFact
  <2>2. \A i \in 0 .. n : off[i] \in Nat /\ off[i] <= l
    <3> SUFFICES ASSUME NEW i \in 0 .. n PROVE off[i] \in Nat /\ off[i] <= l
      OBVIOUS
    <3>1. n \in i .. n
      BY <1>1
    <3>2. off[i] <= off[n]
      BY <3>1, <1>3, <1>6, EndsGrow
    <3> QED
      BY <3>2, <1>6
  <2> HIDE DEF W, n
  <2>3. ASSUME NEW i \in 1 .. n
        PROVE  /\ i - 1 \in 0 .. n /\ i \in 0 .. n
               /\ off[i] = off[i - 1] + (W(i) + 1) /\ off[i - 1] < off[i]
    <3>1. i - 1 \in 0 .. n /\ i \in 0 .. n
      BY <1>1
    <3>2. off[i] = off[i - 1] + (W(i) + 1)
      BY <2>1, <1>3, <1>6 DEF Ends
    <3>3. off[i - 1] \in Nat /\ off[i] \in Nat /\ W(i) \in Nat
      BY <2>1, <2>2, <3>1
    <3>4. off[i - 1] < off[i]
      BY <3>2, <3>3
    <3> QED
      BY <3>1, <3>2, <3>4
  <2> QED
    BY <2>1, <2>2, <2>3
<1>8. ASSUME NEW i \in 1 .. n
       PROVE  /\ line[off[i]] = IF i = n THEN Break ELSE Delim
              /\ \A j \in 1 .. W(i) :
                    /\ line[off[i - 1] + j] = Written(row[i])[j]
                    /\ line[off[i - 1] + j] \notin {Delim, Break}
              /\ Written(row[i]) \in Seq(T)
  <2>1. /\ W(i) \in Nat /\ Len(Fields(row)[i]) = W(i) + 1 /\ Written(row[i]) \in Seq(T)
        /\ Fields(row)[i][W(i) + 1] = IF i = n THEN Break ELSE Delim
        /\ \A j \in 1 .. W(i) : Fields(row)[i][j] = Written(row[i])[j]
    BY FieldsFact
  <2>2. row[i] \in Values(T) /\ Plain(row[i])
    BY <1>1, ElementOfSeq
  <2>3. \A j \in 1 .. W(i) : Written(row[i])[j] \notin {Delim, Break}
    BY <2>2, WrittenPlain
  <2> HIDE DEF W, n
  <2>4. line[off[i]] = IF i = n THEN Break ELSE Delim
    <3>1. W(i) + 1 \in 1 .. Len(Fields(row)[i])
      BY <2>1
    <3>2. line[off[i - 1] + (W(i) + 1)] = Fields(row)[i][W(i) + 1]
      BY <3>1, <1>6
    <3> QED
      BY <3>2, <2>1, <1>7
  <2>5. \A j \in 1 .. W(i) : line[off[i - 1] + j] = Written(row[i])[j]
    <3>1. \A j \in 1 .. W(i) : j \in 1 .. Len(Fields(row)[i])
      BY <2>1
    <3> QED
      BY <3>1, <2>1, <1>6
  <2> QED
    BY <2>1, <2>3, <2>4, <2>5
<1> HIDE DEF W, n
<1>9. ASSUME NEW i \in 1 .. n, NEW p \in off[i - 1] + 1 .. off[i] - 1
      PROVE  p - off[i - 1] \in 1 .. W(i) /\ p \in 1 .. l - 1
             /\ line[p] \notin {Delim, Break}
  <2> DEFINE j == p - off[i - 1]
  <2>1. /\ off[i - 1] \in Nat /\ off[i] \in Nat /\ off[i] <= l /\ W(i) \in Nat
        /\ off[i] = off[i - 1] + (W(i) + 1)
    BY <1>7
  <2>2. j \in 1 .. W(i) /\ off[i - 1] + j = p /\ p \in 1 .. l - 1
    <3> DEFINE a == off[i - 1]
               w == W(i)
    <3>1. a \in Nat /\ w \in Nat /\ a + w + 1 <= l /\ l \in Nat
      BY <1>4, <2>1
    <3>2. p \in a + 1 .. a + w
      BY <2>1
    <3> HIDE DEF a, w
    <3>3. p - a \in 1 .. w /\ a + (p - a) = p /\ p \in 1 .. l - 1
      BY <3>1, <3>2
    <3> QED
      BY <3>3 DEF a, w
  <2> HIDE DEF j
  <2>3. line[off[i - 1] + j] \notin {Delim, Break}
    BY <2>2, <1>8
  <2> QED
    BY <2>2, <2>3 DEF j
<1>10. \A p \in 1 .. l - 1 : line[p] # Break
  <2> SUFFICES ASSUME NEW p \in 1 .. l - 1 PROVE line[p] # Break
    OBVIOUS
  <2>1. PICK i \in 1 .. n : \E j \in 1 .. Len(Fields(row)[i]) : p = off[i - 1] + j
    <3>1. p \in 1 .. off[Len(Fields(row))]
      BY <1>3, <1>4, <1>6
    <3>2. Fields(row) \in Seq(Seq(T))
      BY <1>3
    <3>3. \E i \in 1 .. Len(Fields(row)) : \E j \in 1 .. Len(Fields(row)[i]) : p = off[i - 1] + j
      <4>1. Ends(off, Fields(row))
        BY <1>6
      <4> QED
        BY <4>1, <3>1, <3>2, EndsCover
    <3> QED
      BY <3>3, <1>3
  <2>2. p \in off[i - 1] + 1 .. off[i]
    <3>1. Len(Fields(row)[i]) = W(i) + 1
      BY FieldsFact DEF W, n
    <3>2. off[i] = off[i - 1] + (W(i) + 1) /\ off[i - 1] \in Nat /\ W(i) \in Nat
      BY <1>7
    <3> QED
      BY <3>1, <3>2, <2>1
  <2>3. CASE p = off[i]
    <3>1. i # n
      BY <2>3, <1>4, <1>6
    <3> QED
      BY <3>1, <2>3, <1>8
  <2>4. CASE p # off[i]
    <3>1. off[i - 1] \in Nat /\ off[i] \in Nat
      BY <1>7
    <3>2. p \in off[i - 1] + 1 .. off[i] - 1
      BY <2>2, <2>4, <3>1
    <3> QED
      BY <3>2, <1>9
  <2> QED
    BY <2>3, <2>4
<1>11. /\ body \in Seq(T) /\ Len(body) = l - 1
       /\ \A p \in 1 .. l - 1 : body[p] = line[p]
  <2>1. \A p \in 1 .. l - 1 : line[p] \in T
    BY <1>4 DEF l
  <2> QED
    BY <2>1, <1>4, SubSeqProperties
<1> HIDE DEF body
<1>12. off \in [0 .. n -> 0 .. Len(body) + 1]
  <2>1. \A i \in 0 .. n : off[i] \in 0 .. l
    BY <1>4, <1>7
  <2>2. 0 .. l = 0 .. Len(body) + 1
    BY <1>4, <1>11
  <2> QED
    BY <2>1, <2>2, <1>6
<1>13. \A i \in 1 .. n - 1 : off[i] <= Len(body) /\ body[off[i]] = Delim
  <2> SUFFICES ASSUME NEW i \in 1 .. n - 1
               PROVE  off[i] <= Len(body) /\ body[off[i]] = Delim
    OBVIOUS
  <2>1. i \in 1 .. n /\ i # n /\ i + 1 \in 1 .. n /\ i + 1 \in 0 .. n /\ (i + 1) - 1 = i
    BY <1>1
  <2>2. off[i] < off[i + 1] /\ off[i + 1] <= l /\ off[i + 1] \in Nat
    BY <2>1, <1>7
  <2>3. off[i - 1] < off[i] /\ off[i] \in Nat /\ off[i - 1] \in Nat
    BY <2>1, <1>7
  <2>4. off[i] \in 1 .. l - 1
    BY <2>2, <2>3, <1>4
  <2>5. line[off[i]] = Delim
    BY <2>1, <1>8
  <2> QED
    BY <2>4, <2>5, <1>4, <1>11
<1>14. \A i \in 1 .. n : \A p \in off[i - 1] + 1 .. off[i] - 1 : body[p] # Delim
  BY <1>9, <1>11
<1>15. /\ Cardinality(Places(body, Delim)) = n - 1
       /\ \A i \in 1 .. n : Split(body, Delim)[i] = SubSeq(body, off[i - 1] + 1, off[i] - 1)
  <2>1. \A i \in 1 .. n : off[i - 1] < off[i]
    BY <1>7
  <2>2. off[n] = Len(body) + 1
    BY <1>4, <1>6, <1>11
  <2>3. Cuts(off, n, body, Delim)
    BY <2>1, <2>2, <1>6, <1>12, <1>13, <1>14 DEF Cuts
  <2> QED
    BY <2>3, <1>1, <1>11, SplitAll
<1>16. ASSUME NEW i \in 1 .. n PROVE SubSeq(body, off[i - 1] + 1, off[i] - 1) = Written(row[i])
  <2> DEFINE piece == SubSeq(body, off[i - 1] + 1, off[i] - 1)
             a == off[i - 1] + 1
             b == off[i] - 1
  <2>1. a \in Int /\ b \in Int /\ b - a + 1 = W(i) /\ (IF a <= b THEN b - a + 1 ELSE 0) = W(i)
    <3>1. off[i] = off[i - 1] + (W(i) + 1) /\ off[i - 1] \in Nat /\ W(i) \in Nat
      BY <1>7
    <3> QED
      BY <3>1
  <2>2. \A p \in a .. b : body[p] \in T
    <3>1. \A p \in a .. b : p \in 1 .. Len(body)
      BY <1>9, <1>11
    <3> QED
      BY <3>1, <1>11, ElementOfSeq
  <2>3. /\ piece \in Seq(T) /\ Len(piece) = W(i)
        /\ \A j \in 1 .. W(i) : piece[j] = body[a + j - 1]
    <3> HIDE DEF a, b
    <3>1. piece = SubSeq(body, a, b)
      BY DEF a, b
    <3> HIDE DEF piece
    <3> QED
      BY <3>1, <2>1, <2>2, SubSeqProperties
  <2> HIDE DEF piece
  <2>4. ASSUME NEW j \in 1 .. W(i) PROVE piece[j] = Written(row[i])[j]
    <3>1. a + j - 1 = off[i - 1] + j /\ off[i - 1] + j \in off[i - 1] + 1 .. off[i] - 1
      <4>1. off[i] = off[i - 1] + (W(i) + 1) /\ off[i - 1] \in Nat /\ W(i) \in Nat
        BY <1>7
      <4> QED
        BY <4>1
    <3>2. off[i - 1] + j \in 1 .. l - 1
      BY <3>1, <1>9
    <3>3. body[off[i - 1] + j] = line[off[i - 1] + j]
      BY <3>2, <1>11
    <3>4. piece[j] = body[off[i - 1] + j]
      BY <3>1, <2>3
    <3> QED
      BY <3>3, <3>4, <1>8
  <2>5. piece = Written(row[i])
    BY <2>3, <2>4, <1>8, SeqEqual DEF W
  <2> QED
    BY <2>5 DEF piece
<1>17. Split(body, Delim) = [i \in 1 .. n |-> Written(row[i])]
  <2>1. Cardinality(Places(body, Delim)) + 1 = n
    BY <1>1, <1>15
  <2>2. Split(body, Delim) = [i \in 1 .. n |-> Split(body, Delim)[i]]
    BY <2>1, SplitDef
  <2> QED
    BY <2>2, <1>15, <1>16
<1> QED
  BY <1>10, <1>17 DEF body, l, line, n
-----------------------------------------------------------------------------
\* Every line that is ended is a row of the table, and no other text is.
LEMMA HiveFact ==
    ASSUME NEW T, NEW text \in Seq(T), NEW columns
    PROVE  HiveRows(text, columns) =
              [k \in 1 .. Cardinality(Places(text, Break)) |->
                  Fitted(Split(Split(text, Break)[k], Delim), columns)]
<1> DEFINE m == Cardinality(Places(text, Break))
           pieces == Split(text, Break)
           lines == Front(pieces)
<1>1. m \in Nat
  BY PlacesFinite
<1>2. pieces \in [1 .. m + 1 -> {pieces[k] : k \in 1 .. m + 1}]
  BY SplitDef
<1> HIDE DEF m
<1>3. pieces \in Seq({pieces[k] : k \in 1 .. m + 1}) /\ Len(pieces) = m + 1
  <2> DEFINE V == {pieces[k] : k \in 1 .. m + 1}
  <2>1. pieces \in [1 .. m + 1 -> V] /\ m + 1 \in Nat
    BY <1>1, <1>2
  <2> HIDE DEF V, pieces
  <2>2. pieces \in Seq(V) /\ Len(pieces) = m + 1
    BY <2>1
  <2> QED
    BY <2>2 DEF V
<1>4. /\ lines \in Seq({pieces[k] : k \in 1 .. m + 1}) /\ Len(lines) = m
      /\ \A k \in 1 .. m : lines[k] = pieces[k]
  <2> DEFINE V == {pieces[k] : k \in 1 .. m + 1}
  <2>1. lines = SubSeq(pieces, 1, m)
    BY <1>1, <1>3 DEF Front
  <2>2. \A k \in 1 .. m : pieces[k] \in V
    BY <1>1
  <2> HIDE DEF V, lines, pieces
  <2>3. /\ lines \in Seq(V) /\ Len(lines) = IF 1 <= m THEN m - 1 + 1 ELSE 0
        /\ \A k \in 1 .. m - 1 + 1 : lines[k] = pieces[1 + k - 1]
    BY <1>1, <2>1, <2>2, SubSeqProperties
  <2>4. \A k \in 1 .. m : 1 + k - 1 = k /\ k \in 1 .. m - 1 + 1
    BY <1>1
  <2>5. Len(lines) = m
    BY <1>1, <2>3
  <2> QED
    BY <2>3, <2>4, <2>5 DEF V
<1>5. DOMAIN lines = 1 .. m
  BY <1>4, LenProperties
<1>6. HiveRows(text, columns) = [k \in DOMAIN lines |-> Fitted(Split(lines[k], Delim), columns)]
  BY DEF HiveRows
<1> HIDE DEF lines, pieces
<1>7. HiveRows(text, columns) = [k \in 1 .. m |-> Fitted(Split(pieces[k], Delim), columns)]
  BY <1>4, <1>5, <1>6
<1> QED
  BY <1>7 DEF m, pieces

\* As many fields as columns are declared are taken as they are.
LEMMA FittedSame ==
    ASSUME NEW S, NEW fields \in Seq(S)
    PROVE  Fitted(fields, Len(fields)) = fields
<1> DEFINE n == Len(fields)
           nulls == [i \in 1 .. n |-> Null]
           all == fields \o nulls
           V == S \cup {Null}
<1>1. n \in Nat
  BY LenProperties
<1>2. fields \in Seq(V)
  <2>1. fields \in [1 .. n -> V]
    BY LenProperties
  <2> QED
    BY <1>1, <2>1
<1>3. nulls \in Seq(V)
  BY <1>1
<1> HIDE DEF nulls, V
<1>4. \A i \in 1 .. n : all[i] = fields[i] /\ fields[i] \in V
  <2>1. \A i \in 1 .. n + Len(nulls) : all[i] = IF i <= n THEN fields[i] ELSE nulls[i - n]
    BY <1>2, <1>3, ConcatProperties
  <2>2. Len(nulls) \in Nat
    BY <1>3, LenProperties
  <2>3. \A i \in 1 .. n : i \in 1 .. n + Len(nulls) /\ i <= n
    BY <1>1, <2>2
  <2> QED
    BY <1>2, <2>1, <2>3, ElementOfSeq
<1> HIDE DEF all, n
<1>5. /\ SubSeq(all, 1, n) \in Seq(V)
      /\ Len(SubSeq(all, 1, n)) = IF 1 <= n THEN n - 1 + 1 ELSE 0
      /\ \A i \in 1 .. n - 1 + 1 : SubSeq(all, 1, n)[i] = all[1 + i - 1]
  <2>1. \A i \in 1 .. n : all[i] \in V
    BY <1>4
  <2> QED
    BY <1>1, <2>1, SubSeqProperties
<1>6. Len(SubSeq(all, 1, n)) = n /\ \A i \in 1 .. n : SubSeq(all, 1, n)[i] = fields[i]
  <2>1. \A i \in 1 .. n : i \in 1 .. n - 1 + 1 /\ 1 + i - 1 = i
    BY <1>1
  <2>2. (IF 1 <= n THEN n - 1 + 1 ELSE 0) = n
    BY <1>1
  <2> QED
    BY <2>1, <2>2, <1>4, <1>5
<1>7. SubSeq(all, 1, n) = fields
  BY <1>2, <1>5, <1>6, SeqEqual DEF n
<1> QED
  BY <1>7 DEF all, nulls, n, Fitted
-----------------------------------------------------------------------------
\* The results of a query as the file holds them: rows of values, none without
\* a column.
Results(T) == {row \in Seq(Values(T)) : row # <<>>}

\* off[i] is where the line of the i-th row ends.
FileOf(off, rows, text) ==
    LET line(i) == Line(rows[i])
    IN  /\ off \in [0 .. Len(rows) -> 0 .. Len(text)]
        /\ off[0] = 0 /\ off[Len(rows)] = Len(text)
        /\ \A i \in 1 .. Len(rows) :
              /\ off[i] = off[i - 1] + Len(line(i)) /\ Len(line(i)) \in Nat \ {0}
              /\ text[off[i]] = Break
              /\ \A j \in 1 .. Len(line(i)) : text[off[i - 1] + j] = line(i)[j]

\* The file holds the lines of the rows one after the other.
LEMMA TextFact ==
    ASSUME NEW T, Tokens(T), NEW rows \in Seq(Results(T))
    PROVE  Text(rows) \in Seq(T) /\ \E off : FileOf(off, rows, Text(rows))
<1> DEFINE n == Len(rows)
           lines == [i \in DOMAIN rows |-> Line(rows[i])]
<1>1. n \in Nat /\ DOMAIN rows = 1 .. n
  BY LenProperties
<1>2. ASSUME NEW i \in 1 .. n
      PROVE  /\ lines[i] = Line(rows[i]) /\ lines[i] \in Seq(T) /\ Len(lines[i]) \in Nat \ {0}
             /\ lines[i][Len(lines[i])] = Break
  <2>1. rows[i] \in Seq(Values(T)) /\ rows[i] # <<>>
    BY ElementOfSeq DEF Results
  <2>2. lines[i] = Line(rows[i])
    BY <1>1
  <2> HIDE DEF lines
  <2> QED
    BY <2>1, <2>2, LineFact
<1>3. lines \in Seq(Seq(T)) /\ Len(lines) = n
  <2>1. lines \in [1 .. n -> Seq(T)]
    BY <1>1, <1>2
  <2> HIDE DEF lines
  <2> QED
    BY <1>1, <2>1
<1>4. Text(rows) = FlattenSeq(lines)
  BY DEF Text
<1> HIDE DEF lines
<1>5. Text(rows) \in Seq(T)
  BY <1>3, <1>4, Flattened
<1>6. PICK off : Layout(off, lines)
  BY <1>3, Flattened
<1>7. Ends(off, lines) /\ off[n] = Len(Text(rows)) /\ off[0] = 0 /\ off \in [0 .. n -> Nat]
  BY <1>3, <1>4, <1>6 DEF Layout, Ends
<1> HIDE DEF n
<1>8. off \in [0 .. n -> 0 .. Len(Text(rows))]
  <2>1. ASSUME NEW i \in 0 .. n PROVE off[i] \in 0 .. Len(Text(rows))
    <3>1. n \in i .. n
      BY <1>1
    <3>2. off[i] <= off[n]
      BY <3>1, <1>3, <1>7, EndsGrow
    <3> QED
      BY <3>2, <1>1, <1>7
  <2> QED
    BY <2>1, <1>7
<1>9. ASSUME NEW i \in 1 .. n
      PROVE  /\ off[i] = off[i - 1] + Len(lines[i])
             /\ \A j \in 1 .. Len(lines[i]) : Text(rows)[off[i - 1] + j] = lines[i][j]
             /\ Text(rows)[off[i]] = Break
  <2>1. off[i] = off[i - 1] + Len(lines[i])
    BY <1>3, <1>7 DEF Ends
  <2>2. \A j \in 1 .. Len(lines[i]) : Text(rows)[off[i - 1] + j] = lines[i][j]
    BY <1>3, <1>4, <1>6 DEF Layout
  <2>3. Len(lines[i]) \in 1 .. Len(lines[i])
    BY <1>2
  <2> QED
    BY <2>1, <2>2, <2>3, <1>2
<1>10. \A i \in 1 .. n :
          /\ off[i] = off[i - 1] + Len(Line(rows[i])) /\ Len(Line(rows[i])) \in Nat \ {0}
          /\ Text(rows)[off[i]] = Break
          /\ \A j \in 1 .. Len(Line(rows[i])) : Text(rows)[off[i - 1] + j] = Line(rows[i])[j]
  <2> SUFFICES ASSUME NEW i \in 1 .. n
               PROVE  /\ off[i] = off[i - 1] + Len(Line(rows[i]))
                      /\ Len(Line(rows[i])) \in Nat \ {0}
                      /\ Text(rows)[off[i]] = Break
                      /\ \A j \in 1 .. Len(Line(rows[i])) :
                            Text(rows)[off[i - 1] + j] = Line(rows[i])[j]
    OBVIOUS
  <2>1. lines[i] = Line(rows[i])
    BY <1>2
  <2> QED
    BY <2>1, <1>2, <1>9
<1>11. FileOf(off, rows, Text(rows))
  BY <1>7, <1>8, <1>10 DEF FileOf, n
<1> QED
  BY <1>5, <1>11

\* A row of plain values.
PlainValues(row) == \A i \in DOMAIN row : Plain(row[i])

\* Between the ends of two lines stands one line, without its break.
LEMMA LineStands ==
    ASSUME NEW T, Tokens(T), Quote \notin {Delim, Break}, Delim # Break,
           NEW rows \in Seq(Results(T)), NEW off, FileOf(off, rows, Text(rows)),
           NEW i \in 1 .. Len(rows), PlainValues(rows[i])
    PROVE  /\ off[i - 1] \in 0 .. Len(Text(rows)) /\ off[i] \in off[i - 1] + 1 .. Len(Text(rows))
           /\ off[i - 1] = 0 \/ Text(rows)[off[i - 1]] = Break
           /\ \A p \in off[i - 1] + 1 .. off[i] - 1 : Text(rows)[p] # Break
           /\ Split(SubSeq(Text(rows), off[i - 1] + 1, off[i] - 1), Delim)
                 = [c \in 1 .. Len(rows[i]) |-> Written(rows[i][c])]
<1> DEFINE text == Text(rows)
           line == Line(rows[i])
           l == Len(line)
           a == off[i - 1] + 1
           b == off[i] - 1
           e == off[i - 1]
<1>1. rows[i] \in Seq(Values(T)) /\ rows[i] # <<>> /\ Len(rows) \in Nat
  BY ElementOfSeq, LenProperties DEF Results
<1>2. text \in Seq(T) /\ line \in Seq(T)
  BY <1>1, TextFact, LineFact
<1>3. /\ \A p \in 1 .. l - 1 : line[p] # Break
      /\ Split(SubSeq(line, 1, l - 1), Delim) = [c \in 1 .. Len(rows[i]) |-> Written(rows[i][c])]
  BY <1>1, LinePlain DEF PlainValues
<1>4. /\ off[i] = off[i - 1] + l /\ l \in Nat \ {0}
      /\ \A j \in 1 .. l : text[off[i - 1] + j] = line[j]
  BY DEF FileOf
<1>5. /\ off[i - 1] \in 0 .. Len(text) /\ off[i] \in 0 .. Len(text) /\ Len(text) \in Nat
      /\ off[i - 1] = 0 \/ text[off[i - 1]] = Break
  <2>1. i - 1 \in 0 .. Len(rows) /\ i \in 0 .. Len(rows) /\ (i = 1 \/ i - 1 \in 1 .. Len(rows))
    BY <1>1
  <2>2. off[i - 1] = 0 \/ text[off[i - 1]] = Break
    BY <2>1 DEF FileOf
  <2>3. off[i - 1] \in 0 .. Len(text) /\ off[i] \in 0 .. Len(text)
    BY <2>1 DEF FileOf
  <2>4. Len(text) \in Nat
    BY <1>2, LenProperties
  <2> QED
    BY <2>2, <2>3, <2>4
<1> HIDE DEF text, line, l
<1>6. /\ a \in Int /\ b \in Int /\ b - a + 1 = l - 1 /\ (IF a <= b THEN b - a + 1 ELSE 0) = l - 1
      /\ \A p \in a .. b : p - off[i - 1] \in 1 .. l - 1 /\ off[i - 1] + (p - off[i - 1]) = p
  <2>1. e \in Nat /\ l \in Nat \ {0} /\ a = e + 1 /\ b = e + l - 1
    BY <1>4, <1>5
  <2> HIDE DEF a, b, e
  <2>2. a \in Int /\ b \in Int /\ b - a + 1 = l - 1
    BY <2>1
  <2>3. (IF a <= b THEN b - a + 1 ELSE 0) = l - 1
    BY <2>1
  <2>4. \A p \in a .. b : p - e \in 1 .. l - 1 /\ e + (p - e) = p
    BY <2>1
  <2> QED
    BY <2>2, <2>3, <2>4 DEF e
<1>7. \A p \in a .. b : text[p] = line[p - off[i - 1]] /\ text[p] # Break
  <2>1. \A j \in 1 .. l - 1 : j \in 1 .. l
    BY <1>4
  <2> QED
    BY <2>1, <1>3, <1>4, <1>6
<1>8. \A p \in 1 .. l - 1 : line[p] \in T
  <2>1. \A p \in 1 .. l - 1 : p \in 1 .. Len(line)
    BY <1>4 DEF l
  <2> QED
    BY <2>1, <1>2, ElementOfSeq
<1>9. SubSeq(text, a, b) = SubSeq(line, 1, l - 1)
  <2>1. \A p \in a .. b : text[p] \in T
    BY <1>6, <1>7, <1>8
  <2>2. /\ SubSeq(text, a, b) \in Seq(T) /\ Len(SubSeq(text, a, b)) = l - 1
        /\ \A j \in 1 .. l - 1 : SubSeq(text, a, b)[j] = text[a + j - 1]
    <3> HIDE DEF a, b
    <3> QED
      BY <1>6, <2>1, SubSeqProperties
  <2>3. /\ SubSeq(line, 1, l - 1) \in Seq(T) /\ Len(SubSeq(line, 1, l - 1)) = l - 1
        /\ \A j \in 1 .. l - 1 : SubSeq(line, 1, l - 1)[j] = line[j]
    <3> DEFINE h == l - 1
    <3>1. h \in Nat /\ h - 1 + 1 = h /\ (IF 1 <= h THEN h - 1 + 1 ELSE 0) = h
      BY <1>4
    <3>2. \A j \in 1 .. h : 1 + j - 1 = j
      BY <3>1
    <3> HIDE DEF h
    <3>3. /\ SubSeq(line, 1, h) \in Seq(T) /\ Len(SubSeq(line, 1, h)) = h
          /\ \A j \in 1 .. h : SubSeq(line, 1, h)[j] = line[1 + j - 1]
      <4>1. \A p \in 1 .. h : line[p] \in T
        BY <1>8 DEF h
      <4> QED
        BY <3>1, <4>1, SubSeqProperties
    <3>4. \A j \in 1 .. h : SubSeq(line, 1, h)[j] = line[j]
      BY <3>2, <3>3
    <3> QED
      BY <3>3, <3>4 DEF h
  <2>4. \A j \in 1 .. l - 1 : text[a + j - 1] = line[j]
    <3>1. \A j \in 1 .. l - 1 : j \in 1 .. l /\ a + j - 1 = off[i - 1] + j
      BY <1>4, <1>5
    <3> QED
      BY <3>1, <1>4
  <2>5. \A j \in 1 .. l - 1 : SubSeq(text, a, b)[j] = SubSeq(line, 1, l - 1)[j]
    BY <2>2, <2>3, <2>4
  <2> DEFINE x == SubSeq(text, a, b)
             y == SubSeq(line, 1, l - 1)
  <2>6. x \in Seq(T) /\ y \in Seq(T) /\ Len(x) = Len(y) /\ \A j \in 1 .. Len(x) : x[j] = y[j]
    BY <2>2, <2>3, <2>5
  <2> HIDE DEF x, y
  <2>7. x = y
    BY <2>6, SeqEqual
  <2> QED
    BY <2>7 DEF x, y
<1>10. off[i] \in off[i - 1] + 1 .. Len(text)
  BY <1>4, <1>5
<1> QED
  BY <1>3, <1>5, <1>7, <1>9, <1>10 DEF text

\* The fields of a row, as they are written.
WrittenRow(row) == [c \in 1 .. Len(row) |-> Written(row[c])]

\* A row of plain values is stored as it was written, whatever stands before
\* and after it.
LEMMA RowStored ==
    ASSUME NEW T, Tokens(T), Quote \notin {Delim, Break}, Delim # Break,
           NEW rows \in Seq(Results(T)), NEW i \in 1 .. Len(rows), PlainValues(rows[i])
    PROVE  \E j \in DOMAIN HiveRows(Text(rows), Len(rows[i])) :
              HiveRows(Text(rows), Len(rows[i]))[j] = WrittenRow(rows[i])
<1> DEFINE text == Text(rows)
           n == Len(rows[i])
           written == [c \in 1 .. n |-> Written(rows[i][c])]
<1>1. text \in Seq(T) /\ rows[i] \in Seq(Values(T))
  BY TextFact, ElementOfSeq DEF Results
<1>2. PICK off : FileOf(off, rows, text)
  BY TextFact
<1> DEFINE p == off[i - 1]
           q == off[i]
<1>3. /\ p \in 0 .. Len(text) /\ q \in p + 1 .. Len(text)
      /\ p = 0 \/ text[p] = Break
      /\ \A j \in p + 1 .. q - 1 : text[j] # Break
      /\ Split(SubSeq(text, p + 1, q - 1), Delim) = written
  BY <1>2, LineStands
<1>4. text[q] = Break
  BY <1>2 DEF FileOf
<1>5. Len(text) \in Nat /\ n \in Nat
  BY <1>1, LenProperties
<1> HIDE DEF text, p, q
<1>6. PICK k \in 1 .. Cardinality(Places(text, Break)) :
         Split(text, Break)[k] = SubSeq(text, p + 1, q - 1)
  <2>1. q \in p + 1 .. Len(text) + 1 /\ q # Len(text) + 1
    BY <1>3, <1>5
  <2> DEFINE m == Rank(Places(text, Break), p) + 1
  <2>2. /\ Split(text, Break)[m] = SubSeq(text, p + 1, q - 1)
        /\ m \in 1 .. Cardinality(Places(text, Break)) + 1
        /\ m <= Cardinality(Places(text, Break))
    BY <1>1, <1>3, <1>4, <2>1, SplitPiece
  <2>3. Cardinality(Places(text, Break)) \in Nat
    BY <1>1, PlacesFinite
  <2> HIDE DEF m
  <2>4. m \in 1 .. Cardinality(Places(text, Break))
    BY <2>2, <2>3
  <2> QED
    BY <2>2, <2>4
<1>7. written \in Seq({written[c] : c \in 1 .. n}) /\ Len(written) = n
  <2> DEFINE V == {written[c] : c \in 1 .. n}
  <2>1. written \in [1 .. n -> V]
    OBVIOUS
  <2> HIDE DEF written, V, n
  <2>2. written \in Seq(V) /\ Len(written) = n
    BY <1>5, <2>1
  <2> QED
    BY <2>2 DEF V
<1> HIDE DEF written, n
<1>8. Fitted(written, n) = written
  BY <1>7, FittedSame
<1>9. /\ k \in DOMAIN HiveRows(text, n)
      /\ HiveRows(text, n)[k] = Fitted(Split(Split(text, Break)[k], Delim), n)
  <2>1. HiveRows(text, n) = [m \in 1 .. Cardinality(Places(text, Break)) |->
                               Fitted(Split(Split(text, Break)[m], Delim), n)]
    BY <1>1, HiveFact
  <2> QED
    BY <2>1
<1>10. HiveRows(text, n)[k] = written
  BY <1>3, <1>6, <1>8, <1>9
<1> QED
  BY <1>9, <1>10 DEF text, n, written, WrittenRow

\* When all rows are plain, the table has no other rows.
LEMMA RowCount ==
    ASSUME NEW T, Tokens(T), Quote \notin {Delim, Break}, Delim # Break,
           NEW rows \in Seq(Results(T)), \A i \in 1 .. Len(rows) : PlainValues(rows[i]),
           NEW columns
    PROVE  Len(HiveRows(Text(rows), columns)) = Len(rows)
<1> DEFINE text == Text(rows)
           n == Len(rows)
<1>1. text \in Seq(T) /\ n \in Nat /\ Len(text) \in Nat
  BY TextFact, LenProperties
<1>2. PICK off : FileOf(off, rows, text)
  BY TextFact
<1> DEFINE c == [i \in 0 .. n + 1 |-> IF i = n + 1 THEN Len(text) + 1 ELSE off[i]]
<1>3. /\ off \in [0 .. n -> 0 .. Len(text)] /\ off[0] = 0 /\ off[n] = Len(text)
      /\ \A i \in 1 .. n : text[off[i]] = Break
  BY <1>2 DEF FileOf
<1>4. ASSUME NEW i \in 1 .. n
      PROVE  /\ off[i - 1] < off[i]
             /\ \A p \in off[i - 1] + 1 .. off[i] - 1 : text[p] # Break
  <2>1. /\ off[i - 1] \in 0 .. Len(text) /\ off[i] \in off[i - 1] + 1 .. Len(text)
        /\ \A p \in off[i - 1] + 1 .. off[i] - 1 : text[p] # Break
    BY <1>2, LineStands
  <2> QED
    BY <2>1, <1>1
<1> HIDE DEF text, n
<1>5. /\ c \in [0 .. n + 1 -> 0 .. Len(text) + 1]
      /\ c[0] = 0 /\ c[n + 1] = Len(text) + 1
      /\ \A i \in 0 .. n : c[i] = off[i]
  BY <1>1, <1>3
<1> HIDE DEF c
<1>6. ASSUME NEW i \in 1 .. n + 1
      PROVE  c[i - 1] < c[i] /\ \A p \in c[i - 1] + 1 .. c[i] - 1 : text[p] # Break
  <2>1. CASE i = n + 1
    <3>1. c[i - 1] = Len(text) /\ c[i] = Len(text) + 1
      <4>1. i - 1 = n /\ n \in 0 .. n
        BY <2>1, <1>1
      <4> QED
        BY <4>1, <2>1, <1>3, <1>5
    <3> QED
      BY <3>1, <1>1
  <2>2. CASE i # n + 1
    <3>1. i \in 1 .. n /\ i - 1 \in 0 .. n /\ i \in 0 .. n
      BY <2>2, <1>1
    <3>2. c[i - 1] = off[i - 1] /\ c[i] = off[i]
      BY <3>1, <1>5
    <3> QED
      BY <3>1, <3>2, <1>4
  <2> QED
    BY <2>1, <2>2
<1>7. \A i \in 1 .. n : c[i] <= Len(text) /\ text[c[i]] = Break
  <2> SUFFICES ASSUME NEW i \in 1 .. n PROVE c[i] <= Len(text) /\ text[c[i]] = Break
    OBVIOUS
  <2>1. i \in 0 .. n
    BY <1>1
  <2>2. c[i] = off[i] /\ off[i] \in 0 .. Len(text)
    BY <2>1, <1>3, <1>5
  <2> QED
    BY <2>2, <1>1, <1>3
<1>8. Cardinality(Places(text, Break)) = n
  <2>1. n + 1 \in Nat \ {0} /\ (n + 1) - 1 = n
    BY <1>1
  <2>2. Cuts(c, n + 1, text, Break)
    BY <2>1, <1>5, <1>6, <1>7 DEF Cuts
  <2>3. Cardinality(Places(text, Break)) = (n + 1) - 1
    BY <2>1, <2>2, <1>1, SplitAll
  <2> QED
    BY <2>1, <2>3
<1>9. Len(HiveRows(text, columns)) = n
  BY <1>1, <1>8, HiveFact
<1> QED
  BY <1>9 DEF text, n
-----------------------------------------------------------------------------
\* What the rows of a file are made of.
FileToken == Token \cup (Task \X Run)

\* The rows of a batch, tagged, are rows of values; their tags are plain.
LEMMA TaggedFact ==
    ASSUME NEW b \in Batch
    PROVE  LET rows == RowsOf[b.rows]
           IN  /\ rows \in Seq([1 .. Columns -> {Null} \cup Seq(Token)])
               /\ Tagged(b) \in Seq(Results(FileToken)) /\ Len(Tagged(b)) = Len(rows)
               /\ \A i \in 1 .. Len(rows) :
                     /\ Len(Tagged(b)[i]) = Columns + 1
                     /\ \A c \in 1 .. Columns :
                           rows[i][c] \in Values(FileToken) /\ Tagged(b)[i][c] = rows[i][c]
                     /\ Tagged(b)[i][Columns + 1] = Tag(b)
<1> DEFINE rows == RowsOf[b.rows]
           V == {Null} \cup Seq(Token)
           W == Values(FileToken)
<1>1. b.rows \in Rows /\ b.source \in Task /\ b.load_dtm \in Run
  BY DEF Batch
<1>2. rows \in Seq([1 .. Columns -> V]) /\ Columns \in Nat
  BY <1>1, ContentAssumption
<1>3. Len(rows) \in Nat /\ DOMAIN rows = 1 .. Len(rows)
  BY <1>2, LenProperties
<1>4. V \subseteq W
  BY DEF Values, FileToken
<1>5. Tag(b) \in W
  <2>1. <<b.source, b.load_dtm>> \in FileToken
    BY <1>1 DEF FileToken
  <2> QED
    BY <2>1 DEF Tag, Values
<1> HIDE DEF rows, V, W
<1>6. ASSUME NEW i \in 1 .. Len(rows)
      PROVE  LET x == Append(rows[i], Tag(b))
             IN  /\ x \in Results(FileToken) /\ Len(x) = Columns + 1
                 /\ \A c \in 1 .. Columns : rows[i][c] \in W /\ x[c] = rows[i][c]
                 /\ x[Columns + 1] = Tag(b)
  <2>1. rows[i] \in [1 .. Columns -> V]
    BY <1>2, ElementOfSeq
  <2>2. rows[i] \in [1 .. Columns -> W]
    BY <2>1, <1>4
  <2>3. rows[i] \in Seq(W) /\ Len(rows[i]) = Columns
    BY <2>2, <1>2
  <2> DEFINE x == Append(rows[i], Tag(b))
  <2>4. /\ x \in Seq(W) /\ Len(x) = Columns + 1
        /\ \A c \in 1 .. Columns : x[c] = rows[i][c]
        /\ x[Columns + 1] = Tag(b)
    BY <2>3, <1>2, <1>5
  <2> HIDE DEF x
  <2>5. x # <<>>
    BY <2>4, <1>2, EmptySeq
  <2> QED
    BY <2>2, <2>4, <2>5 DEF Results, x, W
<1>7. Tagged(b) = [i \in 1 .. Len(rows) |-> Append(rows[i], Tag(b))]
  BY <1>3 DEF Tagged, rows
<1>8. /\ Tagged(b) \in Seq(Results(FileToken)) /\ Len(Tagged(b)) = Len(rows)
      /\ \A i \in 1 .. Len(rows) : Tagged(b)[i] = Append(rows[i], Tag(b))
  <2>1. Tagged(b) \in [1 .. Len(rows) -> Results(FileToken)]
    BY <1>6, <1>7
  <2>2. \A i \in 1 .. Len(rows) : Tagged(b)[i] = Append(rows[i], Tag(b))
    BY <1>7
  <2> QED
    BY <2>1, <2>2, <1>3
<1> QED
  BY <1>2, <1>6, <1>8 DEF rows, V, W

\* A value arrives as Arrives says, and the tag as it was.
LEMMA ArrivesFact ==
    ASSUME NEW T, Tokens(T), Quote \notin {Delim, Break},
           NEW v \in Values(T), Plain(v)
    PROVE  Arrives(v, Written(v))
<1>1. CASE v = Null
  BY <1>1, WrittenFact DEF Arrives, HasQuote
<1>2. CASE v # Null /\ ~HasQuote(v)
  <2>1. ~Special(v)
    BY <1>2 DEF Special, HasQuote, Plain
  <2> QED
    BY <1>2, <2>1, WrittenFact DEF Arrives
<1>3. CASE HasQuote(v)
  <2>1. v # Null /\ Special(v)
    BY <1>3 DEF Special, HasQuote
  <2> QED
    BY <1>3, <2>1, WrittenFact DEF Arrives
<1> QED
  BY <1>1, <1>2, <1>3

\* The tag is read as it was written.
LEMMA TagArrives ==
    ASSUME NEW b \in Batch
    PROVE  Plain(Tag(b)) /\ Written(Tag(b)) = Tag(b)
<1>1. <<b.source, b.load_dtm>> \notin {Quote, Delim, Break}
  BY ContentAssumption DEF Batch
<1>2. /\ Tag(b) \in Seq({<<b.source, b.load_dtm>>}) /\ DOMAIN Tag(b) = {1}
      /\ Tag(b)[1] = <<b.source, b.load_dtm>>
  BY DEF Tag
<1>3. Plain(Tag(b)) /\ ~Special(Tag(b))
  BY <1>1, <1>2 DEF Plain, Special
<1>4. Tag(b) # Null
  BY ContentAssumption DEF Batch, Tag
<1> QED
  BY <1>3, <1>4 DEF Written

\* Hive reads of a file with a batch the rows of its text.
LEMMA ReadBackFact ==
    ASSUME NEW b \in Batch
    PROVE  ReadBack(b) = HiveRows(Text(Tagged(b)), Columns + 1)
<1>1. <<b, HiveRows(Text(Tagged(b)), Columns + 1)>> \in Reading
  BY DEF Reading
<1>2. \A p \in Reading : p[1] = b => p[2] = HiveRows(Text(Tagged(b)), Columns + 1)
  BY DEF Reading
<1> QED
  BY <1>1, <1>2 DEF ReadBack

\* Of every batch its plain rows arrive.
LEMMA BatchArrives ==
    ASSUME NEW b \in Batch
    PROVE  LET rows == RowsOf[b.rows]
               stored == ReadBack(b)
               Row(x, y) ==
                   /\ \A c \in 1 .. Columns : Arrives(x[c], y[c])
                   /\ y[Columns + 1] = Tag(b)
           IN  /\ \A i \in DOMAIN rows :
                     PlainRow(rows[i]) =>
                         \E j \in DOMAIN stored : Row(rows[i], stored[j])
               /\ (\A i \in DOMAIN rows : PlainRow(rows[i])) =>
                     Len(stored) = Len(rows)
<1> DEFINE rows == RowsOf[b.rows]
           tagged == Tagged(b)
           stored == ReadBack(b)
           T == FileToken
<1>1. /\ rows \in Seq([1 .. Columns -> {Null} \cup Seq(Token)])
      /\ tagged \in Seq(Results(T)) /\ Len(tagged) = Len(rows)
      /\ \A i \in 1 .. Len(rows) :
            /\ Len(tagged[i]) = Columns + 1
            /\ \A c \in 1 .. Columns : rows[i][c] \in Values(T) /\ tagged[i][c] = rows[i][c]
            /\ tagged[i][Columns + 1] = Tag(b)
  BY TaggedFact
<1>2. Tokens(T) /\ Quote \notin {Delim, Break} /\ Delim # Break /\ Columns \in Nat
  BY ContentAssumption DEF Tokens, FileToken
<1>3. stored = HiveRows(Text(tagged), Columns + 1)
  BY ReadBackFact
<1>4. DOMAIN rows = 1 .. Len(rows)
  BY <1>1, LenProperties
<1> HIDE DEF rows, tagged, stored, T
<1>5. ASSUME NEW i \in 1 .. Len(rows), PlainRow(rows[i]) PROVE PlainValues(tagged[i])
  <2>1. tagged[i] \in Seq(Values(T))
    BY <1>1, ElementOfSeq DEF Results
  <2>2. DOMAIN tagged[i] = 1 .. Columns + 1
    BY <2>1, <1>1, LenProperties
  <2>3. rows[i] \in [1 .. Columns -> {Null} \cup Seq(Token)]
    BY <1>1, ElementOfSeq
  <2>4. \A c \in 1 .. Columns : Plain(rows[i][c])
    BY <2>3, <1>5 DEF PlainRow
  <2>5. ASSUME NEW c \in DOMAIN tagged[i] PROVE Plain(tagged[i][c])
    <3>1. CASE c = Columns + 1
      BY <3>1, <1>1, TagArrives
    <3>2. CASE c # Columns + 1
      <4>1. c \in 1 .. Columns
        BY <3>2, <2>2, <1>2
      <4> QED
        BY <4>1, <2>4, <1>1
    <3> QED
      BY <3>1, <3>2
  <2> QED
    BY <2>5 DEF PlainValues
<1>6. ASSUME NEW i \in 1 .. Len(rows), PlainRow(rows[i])
      PROVE  \E j \in DOMAIN stored :
                /\ \A c \in 1 .. Columns : Arrives(rows[i][c], stored[j][c])
                /\ stored[j][Columns + 1] = Tag(b)
  <2>1. PICK j \in DOMAIN stored : stored[j] = [c \in 1 .. Columns + 1 |-> Written(tagged[i][c])]
    <3>1. i \in 1 .. Len(tagged) /\ Len(tagged[i]) = Columns + 1 /\ PlainValues(tagged[i])
      BY <1>1, <1>5, <1>6
    <3>2. \E j \in DOMAIN HiveRows(Text(tagged), Len(tagged[i])) :
             HiveRows(Text(tagged), Len(tagged[i]))[j] = WrittenRow(tagged[i])
      BY <3>1, <1>1, <1>2, RowStored
    <3> QED
      BY <3>1, <3>2, <1>3 DEF WrittenRow
  <2>2. stored[j][Columns + 1] = Tag(b)
    <3>1. Columns + 1 \in 1 .. Columns + 1
      BY <1>2
    <3> QED
      BY <3>1, <2>1, <1>1, TagArrives
  <2>3. ASSUME NEW c \in 1 .. Columns PROVE Arrives(rows[i][c], stored[j][c])
    <3>1. c \in 1 .. Columns + 1
      BY <1>2
    <3>2. stored[j][c] = Written(rows[i][c]) /\ rows[i][c] \in Values(T)
      BY <3>1, <2>1, <1>1
    <3>3. Plain(rows[i][c])
      <4>1. rows[i] \in [1 .. Columns -> {Null} \cup Seq(Token)]
        BY <1>1, ElementOfSeq
      <4> QED
        BY <4>1, <1>6 DEF PlainRow
    <3> QED
      BY <3>2, <3>3, <1>2, ArrivesFact
  <2> QED
    BY <2>2, <2>3
<1>7. ASSUME \A i \in 1 .. Len(rows) : PlainRow(rows[i]) PROVE Len(stored) = Len(rows)
  <2>1. \A i \in 1 .. Len(tagged) : PlainValues(tagged[i])
    BY <1>1, <1>5, <1>7
  <2> QED
    BY <2>1, <1>1, <1>2, <1>3, RowCount
<1> QED
  BY <1>4, <1>6, <1>7 DEF rows, stored

\* For rows of any number and width and values of any length: the table of a
\* successful staging task holds every row of its query whose values have no
\* delimiter and no line break, value by value and under its own tag, whatever
\* other rows are torn into, and nothing else when there are no others.
THEOREM RowsAlwaysArrive == Spec => []RowsArrive
<1>1. StageInv => RowsArrive
  <2> SUFFICES ASSUME StageInv, NEW r \in Run, NEW t \in Task, ti[r][t] = "success"
               PROVE  LET b == batch[r][t]
                          rows == RowsOf[b.rows]
                          stored == table[TableOf(r, t)]
                          Row(x, y) ==
                              /\ \A c \in 1 .. Columns : Arrives(x[c], y[c])
                              /\ y[Columns + 1] = Tag(b)
                      IN  /\ \A i \in DOMAIN rows :
                                PlainRow(rows[i]) =>
                                    \E j \in DOMAIN stored : Row(rows[i], stored[j])
                          /\ (\A i \in DOMAIN rows : PlainRow(rows[i])) =>
                                Len(stored) = Len(rows)
    BY DEF RowsArrive
  <2>1. batch[r][t] \in Batch
    BY DEF StageInv, Attempts
  <2>2. table[TableOf(r, t)] = ReadBack(batch[r][t])
    BY DEF StageInv, StagedOwn
  <2> QED
    BY <2>1, <2>2, BatchArrives
<1> QED
  BY <1>1, StageInvariant, PTL
=============================================================================
