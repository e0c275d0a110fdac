----------------------------- MODULE VaultLoad -----------------------------
(***************************************************************************)
(* The adventureworks DAG at work on one source table: its staging task,   *)
(* the hub and the satellite it feeds, and the three end-dating tasks of   *)
(* that satellite.  The task "other" stands for the loads of the other     *)
(* satellites, which end dating also waits for.  The knots (DummyOperator  *)
(* tasks) only join edges and are contracted.                              *)
(*                                                                         *)
(* Hive tables here are not transactional and no lock is held: a statement *)
(* reads its inputs when it starts and writes its result when it ends, and *)
(* whatever other tasks write in between is not seen.                      *)
(***************************************************************************)
EXTENDS DagRun, Satellite

CONSTANTS
    SrcRow,         \* primary keys of the source table
    Key,            \* business keys, hashed
    KeyOf,          \* KeyOf[x]: the business key of source row x
    Val,            \* values of the descriptive attributes
    NoRow,          \* a source row that does not exist yet
    NoTable,        \* a Hive table that does not exist
    NoRead,         \* a statement that has not read its inputs
    DeltaStaging,   \* does the staging query filter on modifieddate?
    Failures,       \* may a task fail?
    TornOverwrite   \* may an INSERT OVERWRITE die with its target emptied?

LoadTask == {"stage", "hub", "sat", "other", "drop", "enddate", "copyback"}

\* Mutant: the satellite does not wait for the hub.
LoadUpstream_NoKnot ==
    [t \in LoadTask |->
        CASE t = "stage"                   -> {}
          [] t \in {"hub", "sat", "other"} -> {"stage"}
          [] t = "drop"                    -> {"sat", "other", "hub"}
          [] t = "enddate"                 -> {"drop"}
          [] t = "copyback"                -> {"enddate"}]

LoadUpstream ==
    [t \in LoadTask |->
        CASE t = "stage"               -> {}
          [] t = "hub"                 -> {"stage"}
          [] t \in {"sat", "other"}    -> {"hub"}
          [] t = "drop"                -> {"sat", "other"}
          [] t = "enddate"             -> {"drop"}
          [] t = "copyback"            -> {"enddate"}]

ASSUME VaultAssumption ==
    /\ Task = LoadTask /\ Upstream = LoadUpstream
    /\ KeyOf \in [SrcRow -> Key]
    /\ NoRow \notin Val
    /\ {DeltaStaging, Failures, TornOverwrite} \subseteq BOOLEAN

VARIABLES
    today,      \* the current day; run r loads day r and may start after it
    source,     \* source[x]: attributes and day of last change (modifieddate)
    staged,     \* staged[r]: staging table <name>_<execution date of run r>
    hub,        \* rows [key, dtm] of the hub
    sat,        \* rows of the satellite
    temp,       \* dv_temp.<satellite>_temp
    read        \* read[r][t]: what the statement of task t in run r has read

data == <<staged, hub, sat, temp>>
vars == <<dagVars, today, source, data, read>>

Init ==
    /\ DagInit
    /\ today = 1
    /\ \E v \in [SrcRow -> Val \cup {NoRow}] :
          source = [x \in SrcRow |-> [val |-> v[x], mod |-> 0]]
    /\ staged = [r \in Run |-> NoTable]
    /\ hub = {} /\ sat = {} /\ temp = NoTable
    /\ read = [r \in Run |-> [t \in Task |-> NoRead]]

-----------------------------------------------------------------------------
\* The source system inserts or changes a row, at most once a day (bound).
EditSource(x, v) ==
    /\ today <= Runs
    /\ source[x].mod < today
    /\ source[x].val # v
    /\ source' = [source EXCEPT ![x] = [val |-> v, mod |-> today]]
    /\ UNCHANGED <<dagVars, today, data, read>>

NextDay ==
    /\ today <= Runs
    /\ today' = today + 1
    /\ UNCHANGED <<dagVars, source, data, read>>

\* The run of a day is due when the day is over.
Schedule(r) ==
    /\ \/ r < today /\ CreateRun(r)
       \/ EndRun(r)
       \/ TimeoutRun(r)
       \/ \E t \in Task : StartTask(r, t) \/ FailUpstream(r, t)
    /\ UNCHANGED <<today, source, data, read>>

-----------------------------------------------------------------------------
\* Mutant: every table is staged by modifieddate.
StagingQuery_Delta(r) ==
    {[key |-> KeyOf[x], val |-> source[x].val] :
        x \in {y \in SrcRow : source[y].val # NoRow /\ source[y].mod = r}}

\* The SELECT of the staging task; sha1 of the business key gives `key`.
StagingQuery(r) ==
    {[key |-> KeyOf[x], val |-> source[x].val] :
        x \in {y \in SrcRow : /\ source[y].val # NoRow
                              /\ DeltaStaging => source[y].mod = r}}

\* Mutant: the hub takes every staged key.
HubQuery_NoCheck(r) == {b.key : b \in staged[r]}

\* hub_*.hql: the business keys the hub does not have.
HubQuery(r) == {b.key : b \in staged[r]} \ {h.key : h \in hub}

\* sat_*.hql
SatQuery(r) == NewVersions(staged[r], sat, r)

\* A statement starts: it has its snapshot `result`.
Read(r, t, result) ==
    /\ ti[r][t] = "running" /\ read[r][t] = NoRead
    /\ read' = [read EXCEPT ![r] = [@ EXCEPT ![t] = result]]
    /\ UNCHANGED <<dagVars, today, source, data>>

ReadStage(r) == Read(r, "stage", StagingQuery(r))
ReadHub(r) == Read(r, "hub", HubQuery(r))
ReadSat(r) == Read(r, "sat", SatQuery(r))
\* CREATE TABLE ... AS without IF NOT EXISTS: refused when the table exists.
ReadEndDate(r) ==
    /\ temp = NoTable
    /\ \E last \in LastRows(sat) : Read(r, "enddate", EndDate(sat, last))
ReadCopyback(r) == temp # NoTable /\ Read(r, "copyback", temp)

\* The task ends after its statement took effect; Airflow may still record a
\* failure (a lost process, an error of the client after the commit).
Complete(r, t) ==
    /\ FinishTask(r, t) \/ (Failures /\ FailTask(r, t))
    /\ read' = [read EXCEPT ![r] = [@ EXCEPT ![t] = NoRead]]
    /\ UNCHANGED <<today, source>>

HasRead(r, t) == read[r][t] # NoRead

WriteStage(r) ==
    /\ HasRead(r, "stage") /\ Complete(r, "stage")
    /\ staged' = [staged EXCEPT ![r] = read[r]["stage"]]
    /\ UNCHANGED <<hub, sat, temp>>

WriteHub(r) ==
    /\ HasRead(r, "hub") /\ Complete(r, "hub")
    /\ hub' = hub \cup {[key |-> k, dtm |-> r] : k \in read[r]["hub"]}
    /\ UNCHANGED <<staged, sat, temp>>

WriteSat(r) ==
    /\ HasRead(r, "sat") /\ Complete(r, "sat")
    /\ sat' = sat \cup read[r]["sat"]
    /\ UNCHANGED <<staged, hub, temp>>

WriteOther(r) == Complete(r, "other") /\ UNCHANGED data

DropTemp(r) ==
    /\ Complete(r, "drop")
    /\ temp' = NoTable
    /\ UNCHANGED <<staged, hub, sat>>

WriteEndDate(r) ==
    /\ HasRead(r, "enddate") /\ temp = NoTable
    /\ Complete(r, "enddate")
    /\ temp' = read[r]["enddate"]
    /\ UNCHANGED <<staged, hub, sat>>

\* Mutant: INSERT INTO instead of INSERT OVERWRITE.
WriteCopyback_Append(r) ==
    /\ HasRead(r, "copyback") /\ Complete(r, "copyback")
    /\ sat' = sat \cup read[r]["copyback"]
    /\ UNCHANGED <<staged, hub, temp>>

WriteCopyback(r) ==
    /\ HasRead(r, "copyback") /\ Complete(r, "copyback")
    /\ sat' = read[r]["copyback"]
    /\ UNCHANGED <<staged, hub, temp>>

\* INSERT OVERWRITE removes the old files before it moves the new ones in.
TearCopyback(r) ==
    /\ TornOverwrite /\ HasRead(r, "copyback")
    /\ FailTask(r, "copyback")
    /\ read' = [read EXCEPT ![r] = [@ EXCEPT !["copyback"] = NoRead]]
    /\ sat' = {}
    /\ UNCHANGED <<today, source, staged, hub, temp>>

\* The two statements that cannot run: the temporary table exists, or not.
Refused(r, t) ==
    \/ t = "enddate" /\ temp # NoTable
    \/ t = "copyback" /\ temp = NoTable /\ ~HasRead(r, t)

Fail(r, t) ==
    /\ Failures \/ Refused(r, t)
    /\ FailTask(r, t)
    /\ read' = [read EXCEPT ![r] = [@ EXCEPT ![t] = NoRead]]
    /\ UNCHANGED <<today, source, data>>

\* The horizon is over.
Stop ==
    /\ today > Runs
    /\ Idle
    /\ UNCHANGED <<today, source, data, read>>

Next ==
    \/ NextDay
    \/ \E x \in SrcRow, v \in Val : EditSource(x, v)
    \/ \E r \in Run :
          \/ Schedule(r)
          \/ ReadStage(r) \/ WriteStage(r)
          \/ ReadHub(r) \/ WriteHub(r)
          \/ ReadSat(r) \/ WriteSat(r) \/ WriteOther(r)
          \/ DropTemp(r)
          \/ ReadEndDate(r) \/ WriteEndDate(r)
          \/ ReadCopyback(r) \/ WriteCopyback(r) \/ TearCopyback(r)
          \/ \E t \in Task : Fail(r, t)
    \/ Stop

Spec == Init /\ [][Next]_vars

-----------------------------------------------------------------------------
Staged == [key : Key, val : Val]
SatRow == [key : Key, val : Val, dtm : Run, end : Run \cup {NoEnd}]

Snapshot(t) ==
    CASE t = "stage"                   -> SUBSET Staged
      [] t = "hub"                     -> SUBSET Key
      [] t \in {"sat", "enddate", "copyback"} -> SUBSET SatRow
      [] t \in {"other", "drop"}        -> {}

\* Every table holds rows of its own shape, every statement in flight a
\* result of the shape of its table.
TypeOK ==
    /\ DagTypeOK
    /\ today \in 1 .. Runs + 1
    /\ source \in [SrcRow -> [val : Val \cup {NoRow}, mod : 0 .. Runs]]
    /\ staged \in [Run -> (SUBSET Staged) \cup {NoTable}]
    /\ hub \subseteq [key : Key, dtm : Run]
    /\ sat \subseteq SatRow
    /\ temp = NoTable \/ temp \subseteq SatRow
    /\ read \in [Run -> [Task -> {NoRead} \cup SUBSET (Staged \cup Key \cup SatRow)]]
    /\ \A r \in Run, t \in Task :
          read[r][t] = NoRead \/ read[r][t] \in Snapshot(t)

\* Referential integrity of the vault, which Hive does not enforce: the hub
\* knows the key of every satellite row, at every moment, whatever failed,
\* timed out or overlapped.
SatAnchored == \A s \in sat : \E h \in hub : h.key = s.key

\* A business key is recorded once, by the first load that met it.
HubUnique == \A g, h \in hub : g.key = h.key => g = h

\* Run r is the last one that exists, and it succeeded.
LastSucceeded(r) ==
    run[r] = "success" /\ \A q \in Run : q > r => run[q] = "none"

\* After a successful run the validity periods of the versions of each key
\* follow one another without gap or overlap, and the last one is open,
\* also where earlier runs had stopped before end dating.
WellDated ==
    \A r \in Run : LastSucceeded(r) => \A s \in sat : s.end = NextLoad(sat, s)

\* After a successful run each known key has exactly one active record (the
\* one with a NULL load_end_dtm).
OneActiveVersion ==
    \A r \in Run : LastSucceeded(r) =>
        \A s \in sat : Cardinality(RowsOf(Current(sat), s.key)) = 1

SeenAt(k, d) == {s.val : s \in VersionsAt(sat, k, d)}

\* What the vault is for: after a successful run, a query for any past load
\* date sees exactly the attributes that load had staged.
AsOf ==
    \A r \in Run : LastSucceeded(r) =>
        \A q \in 1 .. r : ti[q]["sat"] = "success" =>
            \A b \in staged[q] :
                \/ SeenAt(b.key, q) = {b.val}
                \/ SeenAt(b.key, q) = {} /\ b.val = Blank

\* After a successful run the vault shows every source row as it is, if it
\* did not change after the day that was loaded.
CaughtUp ==
    \A r \in Run : LastSucceeded(r) =>
        \A x \in SrcRow :
            (source[x].val \notin {NoRow, Blank} /\ source[x].mod <= r) =>
                SeenAt(KeyOf[x], r) = {source[x].val}

\* "so we don't load records twice": a version that repeats the one before
\* it was loaded when no run had completed end dating since that one.
NoTrueDuplicates ==
    \A s, x \in sat :
        (s.key = x.key /\ NextLoad(sat, s) = x.dtm /\ s.val = x.val) =>
            \A q \in s.dtm .. (x.dtm - 1) : ti[q]["copyback"] # "success"

Version(s) == <<s.key, s.dtm, s.val>>

\* No step makes the satellite forget a version.
HistoryKept ==
    [][{Version(s) : s \in sat} \subseteq {Version(s) : s \in sat'}]_sat

Known == {Version(s) : s \in sat} \cup
             (IF temp = NoTable THEN {} ELSE {Version(s) : s \in temp})

\* A version is forgotten only with the temporary table: what a torn overwrite
\* takes from the satellite is in there until a later run drops it.
HistoryRecoverable ==
    [][~(temp # NoTable /\ temp' = NoTable) => Known \subseteq Known']_<<sat, temp>>

\* The satellite implements the append-only, chronological history.
History == INSTANCE SatHistory WITH
    Load <- Run,
    versions <- {[key |-> s.key, val |-> s.val, dtm |-> s.dtm] : s \in sat}
HistorySpec == History!Spec
=============================================================================
