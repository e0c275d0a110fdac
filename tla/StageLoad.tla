----------------------------- MODULE StageLoad -----------------------------
(***************************************************************************)
(* StagePostgresToHiveOperator and HiveCliHook.load_file: what one staging *)
(* task does between its query and its success.  The rows go through a     *)
(* local temporary file, a file in one HDFS directory that all staging     *)
(* tasks share, and LOAD DATA, which moves that file into the table of the *)
(* run; DDL, put and LOAD DATA are three client processes, and any of them *)
(* may fail.  A file is represented by the batch that was written to it;   *)
(* what Hive makes of its text is TextFormat's.  The DAG is cut down to its*)
(* staging tasks.                                                          *)
(***************************************************************************)
EXTENDS DagRun, TextFormat

CONSTANTS
    Name,       \* base names NamedTemporaryFile may choose
    Columns,    \* number of columns of the source queries
    Rows,       \* results a source query may have
    RowsOf,     \* RowsOf[v]: the sequence of rows of result v
    NoFile,     \* no local file
    Absent,     \* no such file in HDFS
    NoTable,    \* no such table in Hive
    Failures    \* may a step fail?

\* What a query returned, and the record_source and load_dtm it is given.
Batch == [source : Task, load_dtm : Run, rows : Rows]

\* A row as it is written: record_source and load_dtm follow its values.
Tag(b) == << <<b.source, b.load_dtm>> >>
Tagged(b) == [i \in DOMAIN RowsOf[b.rows] |-> Append(RowsOf[b.rows][i], Tag(b))]

\* What Hive reads of the file with batch b (looked up in a relation, which
\* TLC evaluates once).
Reading == {<<b, HiveRows(Text(Tagged(b)), Columns + 1)>> : b \in Batch}
ReadBack(b) == (CHOOSE p \in Reading : p[1] = b)[2]
Readings == {ReadBack(b) : b \in Batch}

\* A table without rows.
Empty == <<>>

ASSUME StageAssumption ==
    /\ Upstream = [t \in Task |-> {}]
    /\ NoFile \notin Name
    /\ Absent \notin Batch
    /\ {Absent, NoTable} \cap (Readings \cup {Empty}) = {}
    /\ Failures \in BOOLEAN

\* A query returns rows of one width.  A value may hold any token, but the
\* tag none that means something to writer or reader: no name of a source
\* and no date is NULL or has a quote, chr(1) or a line break in it.
ASSUME ContentAssumption ==
    /\ Columns \in Nat
    /\ {Quote, Delim, Break} \subseteq Token
    /\ Quote # Delim /\ Quote # Break /\ Delim # Break
    /\ \A v \in Rows : RowsOf[v] \in Seq([1 .. Columns -> {Null} \cup Seq(Token)])
    /\ \A t \in Task, r \in Run :
          <<t, r>> \notin {Quote, Delim, Break} /\ << <<t, r>> >> # Null

VARIABLES
    batch,      \* batch[r][t]: what the query returned; Absent before
    phase,      \* phase[r][t]: last step of load_file that is done
    local,      \* local[r][t]: name of the open temporary file
    hdfs,       \* hdfs[n]: file /user/cloudera/n
    table       \* table[i]: Hive table i of dv_stg_?

stageVars == <<batch, phase, local, hdfs, table>>
vars == <<dagVars, stageVars>>

\* Mutant: the table name lacks the execution date.
TableOf_Undated(r, t) == <<1, t>>

\* hive_table + "_{{execution_date...}}"
TableOf(r, t) == <<r, t>>

Init ==
    /\ DagInit
    /\ batch = [r \in Run |-> [t \in Task |-> Absent]]
    /\ phase = [r \in Run |-> [t \in Task |-> "start"]]
    /\ local = [r \in Run |-> [t \in Task |-> NoFile]]
    /\ hdfs = [n \in Name |-> Absent]
    /\ table = [i \in Run \X Task |-> NoTable]

-----------------------------------------------------------------------------
Schedule(r) ==
    /\ \/ CreateRun(r) \/ EndRun(r) \/ TimeoutRun(r)
       \/ \E t \in Task : StartTask(r, t)
    /\ UNCHANGED stageVars

At(r, t, p) == ti[r][t] = "running" /\ phase[r][t] = p

Advance(r, t, p) ==
    /\ phase' = [phase EXCEPT ![r] = [@ EXCEPT ![t] = p]]
    /\ UNCHANGED dagVars

OpenNames == {local[p[1]][p[2]] : p \in Run \X Task}

\* The query, whatever the source holds by now, and its rows written to a
\* local file whose name no other open temporary file has (LocalExecutor: all
\* tasks share one /tmp).
Dump(r, t) ==
    /\ At(r, t, "start")
    /\ \E v \in Rows :
          batch' = [batch EXCEPT ![r] = [@ EXCEPT ![t] =
                        [source |-> t, load_dtm |-> r, rows |-> v]]]
    /\ \E n \in Name \ OpenNames :
          local' = [local EXCEPT ![r] = [@ EXCEPT ![t] = n]]
    /\ Advance(r, t, "dumped")
    /\ UNCHANGED <<hdfs, table>>

\* DROP TABLE IF EXISTS ; CREATE TABLE IF NOT EXISTS
DropTable(r, t) ==
    /\ At(r, t, "dumped")
    /\ table' = [table EXCEPT ![TableOf(r, t)] = NoTable]
    /\ Advance(r, t, "dropped")
    /\ UNCHANGED <<batch, local, hdfs>>

CreateTable(r, t) ==
    /\ At(r, t, "dropped")
    /\ table' = [table EXCEPT ![TableOf(r, t)] = IF @ = NoTable THEN Empty ELSE @]
    /\ Advance(r, t, "created")
    /\ UNCHANGED <<batch, local, hdfs>>

\* Mutant: the return code of `hdfs dfs -put` is not looked at.
Put_Unchecked(r, t) ==
    LET n == local[r][t]
    IN  /\ At(r, t, "created")
        /\ hdfs' = [hdfs EXCEPT ![n] = IF @ = Absent THEN batch[r][t] ELSE @]
        /\ Advance(r, t, "put")
        /\ UNCHANGED <<batch, local, table>>

\* `hdfs dfs -put` refuses a destination that exists.
Put(r, t) ==
    LET n == local[r][t]
    IN  /\ At(r, t, "created")
        /\ hdfs[n] = Absent
        /\ hdfs' = [hdfs EXCEPT ![n] = batch[r][t]]
        /\ Advance(r, t, "put")
        /\ UNCHANGED <<batch, local, table>>

\* Mutant: the temporary file outlives its task.
Release_KeepFile(r, t) ==
    /\ phase' = [phase EXCEPT ![r] = [@ EXCEPT ![t] = "end"]]
    /\ UNCHANGED <<local, batch>>

\* The task process ends and its temporary file is removed.
Release(r, t) ==
    /\ local' = [local EXCEPT ![r] = [@ EXCEPT ![t] = NoFile]]
    /\ phase' = [phase EXCEPT ![r] = [@ EXCEPT ![t] = "end"]]
    /\ UNCHANGED batch

\* Mutant: LOAD DATA LOCAL INPATH, as without beeline: it copies.
Load_Copy(r, t) ==
    /\ At(r, t, "put")
    /\ hdfs[local[r][t]] # Absent /\ table[TableOf(r, t)] # NoTable
    /\ FinishTask(r, t) \/ (Failures /\ FailTask(r, t))
    /\ table' = [table EXCEPT ![TableOf(r, t)] = ReadBack(hdfs[local[r][t]])]
    /\ UNCHANGED hdfs
    /\ Release(r, t)

\* LOAD DATA INPATH ... OVERWRITE moves the file into the table; the client
\* may still report an error afterwards.
Load(r, t) ==
    LET n == local[r][t]
    IN  /\ At(r, t, "put")
        /\ hdfs[n] # Absent /\ table[TableOf(r, t)] # NoTable
        /\ FinishTask(r, t) \/ (Failures /\ FailTask(r, t))
        /\ table' = [table EXCEPT ![TableOf(r, t)] = ReadBack(hdfs[n])]
        /\ hdfs' = [hdfs EXCEPT ![n] = Absent]
        /\ Release(r, t)

\* What cannot succeed: the put meets a file, or LOAD DATA misses its file or
\* its table.
Refused(r, t) ==
    LET n == local[r][t]
    IN  \/ phase[r][t] = "created" /\ hdfs[n] # Absent
        \/ phase[r][t] = "put" /\ (hdfs[n] = Absent \/ table[TableOf(r, t)] = NoTable)

\* A step fails, also after it took effect; nothing is cleaned up in Hive or
\* HDFS.
Fail(r, t) ==
    /\ Failures \/ Refused(r, t)
    /\ FailTask(r, t)
    /\ Release(r, t)
    /\ UNCHANGED <<hdfs, table>>

\* The horizon is over.
Stop == Idle /\ UNCHANGED stageVars

Next ==
    \/ \E r \in Run : Schedule(r)
    \/ \E r \in Run, t \in Task :
          \/ Dump(r, t)
          \/ DropTable(r, t) \/ CreateTable(r, t)
          \/ Put(r, t) \/ Load(r, t)
          \/ Fail(r, t)
    \/ Stop

Spec == Init /\ [][Next]_vars

-----------------------------------------------------------------------------
Phase == {"start", "dumped", "dropped", "created", "put", "end"}

OpenFile(r, t) == local[r][t] # NoFile <=> phase[r][t] \notin {"start", "end"}

\* Files hold batches and tables what Hive reads of one, and a file is open
\* exactly while its task is between its query and its end.
TypeOK ==
    /\ DagTypeOK
    /\ batch \in [Run -> [Task -> Batch \cup {Absent}]]
    /\ phase \in [Run -> [Task -> Phase]]
    /\ local \in [Run -> [Task -> Name \cup {NoFile}]]
    /\ hdfs \in [Name -> Batch \cup {Absent}]
    /\ table \in [Run \X Task -> Readings \cup {Empty, NoTable}]
    /\ \A r \in Run, t \in Task : OpenFile(r, t)

\* Although all tasks put their files into one directory under reused names
\* and failures leave files behind: when a staging task succeeded, its table
\* holds exactly what Hive reads of what its own query returned.
StagedOwn ==
    \A r \in Run, t \in Task :
        ti[r][t] = "success" => table[TableOf(r, t)] = ReadBack(batch[r][t])

\* What arrives of a row whose values hold no delimiter and no line break: its
\* values, but a NULL is an empty string and a value with a quote is quoted.
PlainRow(row) == \A c \in DOMAIN row : Plain(row[c])
HasQuote(v) == v # Null /\ \E i \in DOMAIN v : v[i] = Quote
Arrives(v, w) ==
    /\ v = Null => w = <<>>
    /\ v # Null /\ ~HasQuote(v) => w = v
    /\ HasQuote(v) => Len(w) > Len(v) /\ w[1] = Quote /\ w[Len(w)] = Quote

\* The table of a successful staging task holds every such row of its query
\* with the right tag, whatever rows it stands between, and nothing else when
\* all rows are such.  (Other rows are torn into pieces.)
RowsArrive ==
    \A r \in Run, t \in Task :
        ti[r][t] = "success" =>
            LET b == batch[r][t]
                rows == RowsOf[b.rows]
                stored == table[TableOf(r, t)]
                Row(x, y) ==
                    /\ \A c \in 1 .. Columns : Arrives(x[c], y[c])
                    /\ y[Columns + 1] = Tag(b)
            IN  /\ \A i \in DOMAIN rows :
                      PlainRow(rows[i]) =>
                          \E j \in DOMAIN stored : Row(rows[i], stored[j])
                /\ (\A i \in DOMAIN rows : PlainRow(rows[i])) =>
                      Len(stored) = Len(rows)

\* A file stays in HDFS only when its task has not succeeded.
LeftoversOfFailures ==
    \A n \in Name, r \in Run, t \in Task :
        (hdfs[n] # Absent /\ hdfs[n] = batch[r][t]) => ti[r][t] # "success"

\* What later tasks see of the staging area: the tables of tasks that
\* succeeded.
Published(r, t) == IF ti[r][t] = "success" THEN table[TableOf(r, t)] ELSE Absent

\* Seen from the later tasks, staging is what the models of the vault load
\* take it for: one query, published once as Hive reads it, never changed.
Taken(r, t) == IF batch[r][t] = Absent THEN Absent ELSE ReadBack(batch[r][t])
Staging == INSTANCE AtomicStage WITH
    Item <- Run \X Task,
    Value <- Readings,
    None <- Absent,
    taken <- [i \in Run \X Task |-> Taken(i[1], i[2])],
    published <- [i \in Run \X Task |-> Published(i[1], i[2])]
StagingSpec == Staging!Spec
=============================================================================
