-------------------------- MODULE StarSchemaProofs --------------------------
(***************************************************************************)
(* The star is consistent in itself for every source, every number of      *)
(* loads and star runs, and every interleaving of the two DAGs, although   *)
(* dimensions are dropped and built while the vault changes; beside a      *)
(* loaded vault at rest its dimensions are unique and its facts complete.  *)
(***************************************************************************)
EXTENDS StarSchema, DagRunProofs, SatelliteProofs

\* The fact table waits for all dimensions.
LEMMA Graph ==
    /\ Task = {"dim_salesorder", "dim_product", "dim_address", "dim_currency", "fact"}
    /\ \A t \in Task : t # "fact" => t \in Upstream["fact"]
    /\ \A t \in Dimension : t \in Task /\ t # "fact"
    /\ Inputs("fact") \subseteq Dimension
  BY StarAssumption DEF StarTask, StarUpstream, Dimension, Inputs

\* The load of the vault does not touch the star or its runs.
LEMMA VaultFact == VaultStep => UNCHANGED <<dagVars, work, apart, early>> /\ calm' = {}
  BY DEF VaultStep, BeginLoad, LoadRef, LoadDetail, LoadShipping, LoadRated, AbortLoad, LoadSat,
         Insert, DateSat, Do

\* A task of a star run works while it executes.
LEMMA TaskStepFact ==
    ASSUME NEW r \in Run, NEW t \in Task, TaskStep(r, t)
    PROVE  ti[r][t] = "running" /\ UNCHANGED <<vault, run, apart, calm>>
  BY DEF TaskStep, DropStar, Read, Write, Fail, FinishTask, FailTask, dagVars

\* Every step is a step of the star's own DAG or leaves that DAG alone.
LEMMA StepImplementsDag == [Next]_vars => [DagNext]_dagVars
<1> SUFFICES ASSUME [Next]_vars PROVE [DagNext]_dagVars
  OBVIOUS
<1>1. CASE VaultStep
  BY <1>1, VaultFact
<1>2. ASSUME NEW r \in Run, Schedule(r) PROVE DagNext
  BY <1>2 DEF Schedule, Create, DagNext
<1>3. ASSUME NEW r \in Run, NEW t \in Task, TaskStep(r, t) PROVE [DagNext]_dagVars
  <2>1. CASE DropStar(r, t) \/ Read(r, t)
    BY <2>1 DEF DropStar, Read
  <2>2. CASE Write(r, t) \/ Fail(r, t)
    BY <2>2 DEF Write, Fail, DagNext
  <2> QED
    BY <1>3, <2>1, <2>2 DEF TaskStep
<1>4. CASE Stop \/ UNCHANGED vars
  BY <1>4 DEF Stop, Idle, vars
<1> QED
  BY <1>1, <1>2, <1>3, <1>4 DEF Next, VaultStep, TaskStep

\* The star run is an Airflow DAG: all that holds of every DAG holds of it.
THEOREM StarImplementsDag == Spec => DagSpec
<1>1. Init => DagInit
  BY DEF Init
<1> QED
  BY <1>1, StepImplementsDag, PTL DEF Spec, DagSpec

-----------------------------------------------------------------------------
(***************************************************************************)
(* Runs that nothing of an earlier run disturbs.                           *)
(***************************************************************************)
\* What the scheduler does: it creates a run, or it starts and skips tasks.
Scheduled ==
    /\ UNCHANGED <<apart, calm>>
    /\ \A p \in Run, u \in Task :
          \/ ti'[p][u] = ti[p][u]
          \/ ti[p][u] = "none" /\ ti'[p][u] \in {"running", "upstream_failed"}

LEMMA ScheduleFact ==
    ASSUME DagTypeOK, NEW r \in Run, Schedule(r)
    PROVE  /\ UNCHANGED <<vault, work>>
           /\ (Create(r) /\ ti' = ti) \/ Scheduled
<1>1. UNCHANGED <<vault, work>>
  BY DEF Schedule
<1>2. CASE Create(r)
  BY <1>1, <1>2 DEF Create, CreateRun
<1>3. CASE UNCHANGED <<apart, calm>> /\ (EndRun(r) \/ TimeoutRun(r))
  BY <1>1, <1>3 DEF EndRun, TimeoutRun, Scheduled
<1>4. ASSUME UNCHANGED <<apart, calm>>, NEW t \in Task, StartTask(r, t) \/ FailUpstream(r, t)
      PROVE  Scheduled
  <2>1. PICK s \in {"running", "upstream_failed"} : SetTask(r, t, s) /\ ti[r][t] = "none"
    BY <1>4 DEF StartTask, FailUpstream
  <2>2. \A p \in Run, u \in Task : ti'[p][u] = IF p = r /\ u = t THEN s ELSE ti[p][u]
    BY <2>1, SetTaskFact DEF TaskState
  <2> QED
    BY <1>4, <2>1, <2>2 DEF Scheduled
<1> QED
  BY <1>1, <1>2, <1>3, <1>4 DEF Schedule

\* What a task's step does to the task states.
LEMMA TaskStates ==
    ASSUME DagTypeOK, NEW r \in Run, NEW t \in Task, TaskStep(r, t)
    PROVE  \/ ti' = ti /\ (DropStar(r, t) \/ Read(r, t))
           \/ /\ Write(r, t) \/ Fail(r, t)
              /\ ti'[r][t] \in {"success", "failed"}
              /\ \A p \in Run, u \in Task : p # r \/ u # t => ti'[p][u] = ti[p][u]
<1>1. CASE DropStar(r, t) \/ Read(r, t)
  BY <1>1 DEF DropStar, Read, dagVars
<1>2. CASE Write(r, t) \/ Fail(r, t)
  <2>1. PICK s \in {"success", "failed"} : SetTask(r, t, s)
    BY <1>2 DEF Write, Fail, FinishTask, FailTask
  <2>2. \A p \in Run, u \in Task : ti'[p][u] = IF p = r /\ u = t THEN s ELSE ti[p][u]
    BY <2>1, SetTaskFact DEF TaskState
  <2> QED
    BY <1>2, <2>2
<1> QED
  BY <1>1, <1>2 DEF TaskStep

\* Every run before one that is apart has ended with its tasks.
ApartInv ==
    \A r \in apart : \A q \in Run : q < r =>
        run[q] \in Ended /\ \A t \in Task : ti[q][t] # "running"

\* Runs that have ended start no task.
LEMMA ApartStep ==
    ASSUME DagTypeOK, DagTypeOK', ApartInv, apart \subseteq Run, [Next]_vars
    PROVE  ApartInv'
<1>1. CASE VaultStep \/ Stop \/ UNCHANGED vars
  BY <1>1, VaultFact DEF Stop, Idle, vars, dagVars, ApartInv
<1>2. ASSUME NEW r \in Run, NEW t \in Task, TaskStep(r, t) PROVE ApartInv'
  <2>1. \A p \in Run, u \in Task : ti'[p][u] = "running" => ti[p][u] = "running"
    BY <1>2, TaskStates
  <2> QED
    BY <1>2, <2>1, TaskStepFact DEF ApartInv
<1>3. ASSUME NEW r \in Run, Create(r) PROVE ApartInv'
  <2>1. /\ ti' = ti /\ \A q \in Run : q # r => run'[q] = run[q]
        /\ run[r] = "none"
        /\ \A q \in Run : q < r => run[q] \in Ended
    BY <1>3 DEF Create, CreateRun, DagTypeOK, RunState, Ended
  <2>2. ASSUME NEW p \in apart, NEW q \in Run, q < p
        PROVE  run'[q] \in Ended /\ \A t \in Task : ti'[q][t] # "running"
    BY <2>1, <2>2 DEF ApartInv, Ended
  <2>3. ASSUME Executing = {}, NEW q \in Run, q < r
        PROVE  run'[q] \in Ended /\ \A t \in Task : ti'[q][t] # "running"
    <3>1. q # r
      BY <2>3, DagAssumption DEF Run
    <3>2. \A t \in Task : <<q, t>> \notin Executing
      BY <2>3
    <3> QED
      BY <2>1, <2>3, <3>1, <3>2 DEF Executing
  <2> QED
    BY <1>3, <2>2, <2>3 DEF Create, ApartInv
<1>4. ASSUME NEW r \in Run, EndRun(r) \/ TimeoutRun(r), UNCHANGED apart PROVE ApartInv'
  BY <1>4 DEF EndRun, TimeoutRun, ApartInv, DagTypeOK, Ended
<1>5. ASSUME NEW r \in Run, NEW t \in Task, StartTask(r, t) \/ FailUpstream(r, t),
             UNCHANGED apart
      PROVE  ApartInv'
  <2>1. run' = run /\ run[r] = "running"
    BY <1>5 DEF StartTask, FailUpstream
  <2>2. PICK s \in TaskState : SetTask(r, t, s)
    BY <1>5 DEF StartTask, FailUpstream, TaskState
  <2>3. \A p \in Run, u \in Task : ti'[p][u] = IF p = r /\ u = t THEN s ELSE ti[p][u]
    BY <2>2, SetTaskFact
  <2> QED
    BY <1>5, <2>1, <2>3 DEF ApartInv, Ended
<1> QED
  BY <1>1, <1>2, <1>3, <1>4, <1>5 DEF Next, VaultStep, TaskStep, Schedule

\* No later run has done anything since.
Quiet(r) == \A q \in Run, t \in Task : q > r => ti[q][t] \in {"none", "upstream_failed"}

\* As long as no later run does anything, a run that is apart executes alone.
LEMMA OnlyOwn ==
    ASSUME ApartInv, NEW r \in Run, r \in apart, Quiet(r),
           NEW q \in Run, NEW t \in Task, ti[q][t] = "running"
    PROVE  q = r
<1>1. ~(q < r) /\ ~(q > r)
  BY DEF ApartInv, Quiet
<1> QED
  BY <1>1, DagAssumption DEF Run

\* What has begun stays so.
LEMMA QuietBack ==
    ASSUME DagTypeOK, [Next]_vars, NEW r \in Run, Quiet(r)'
    PROVE  Quiet(r)
<1> SUFFICES ASSUME NEW q \in Run, NEW t \in Task, q > r
             PROVE  ti[q][t] \in {"none", "upstream_failed"}
  BY DEF Quiet
<1>0. ti'[q][t] \in {"none", "upstream_failed"}
  BY DEF Quiet
<1>1. CASE ti' = ti
  BY <1>0, <1>1
<1>2. ASSUME NEW p \in Run, NEW u \in Task, TaskStep(p, u) PROVE ti[q][t] \in {"none", "upstream_failed"}
  BY <1>0, <1>2, TaskStates
<1>3. ASSUME NEW p \in Run, Schedule(p) PROVE ti[q][t] \in {"none", "upstream_failed"}
  <2>1. CASE Scheduled
    BY <1>0, <2>1 DEF Scheduled
  <2> QED
    BY <1>1, <1>3, <2>1, ScheduleFact
<1>4. CASE VaultStep \/ Stop \/ UNCHANGED vars
  BY <1>1, <1>4, VaultFact DEF Stop, Idle, vars, dagVars
<1> QED
  BY <1>2, <1>3, <1>4 DEF Next, VaultStep, TaskStep

-----------------------------------------------------------------------------
(***************************************************************************)
(* The shape of the tables.                                                *)
(***************************************************************************)
LoadDate == 1 .. Loads
Rows(e) == [key : KeyOf[e], dtm : LoadDate, end : LoadDate \cup {NoEnd}]

\* A load that has statements left has a number.
Shape ==
    /\ TypeOK
    /\ refers \in [Line -> Reference]
    /\ load \in 0 .. Loads
    /\ todo # {} => load \in LoadDate
    /\ DOMAIN sat = Entity
    /\ DOMAIN star = Task
    /\ DOMAIN result = Run /\ \A r \in Run : DOMAIN result[r] = Task

\* What an execution inserts into the satellite of e.
Inserted(e, changed) == {[key |-> k, dtm |-> load, end |-> NoEnd] : k \in changed}

Grew(e) ==
    \E changed \in SUBSET Staged(e) :
        /\ \A k \in Staged(e) : RowsOf(sat[e], k) = {} => k \in changed
        /\ e \notin Changing => \A k \in changed : RowsOf(sat[e], k) = {}
        /\ sat'[e] = sat[e] \cup Inserted(e, changed)

Others(e) == DOMAIN sat' = Entity /\ \A f \in Entity : f # e => sat'[f] = sat[f]

\* The satellite of one entity grows, the others stay.
LEMMA InsertFact ==
    ASSUME DOMAIN sat = Entity, NEW e \in Entity, Insert(e)
    PROVE  Grew(e) /\ Others(e) /\ UNCHANGED <<detail, shipping, rated>>
<1>1. PICK changed \in SUBSET Staged(e) :
          /\ \A k \in Staged(e) : RowsOf(sat[e], k) = {} => k \in changed
          /\ e \notin Changing => \A k \in changed : RowsOf(sat[e], k) = {}
          /\ sat' = [sat EXCEPT ![e] = @ \cup Inserted(e, changed)]
  BY DEF Insert, Inserted
<1>2. sat'[e] = sat[e] \cup Inserted(e, changed) /\ Others(e)
  BY <1>1 DEF Others
<1> QED
  BY <1>1, <1>2 DEF Grew, Insert

\* Every step of the load takes one of these forms.
Ran(step) ==
    /\ step \in todo /\ todo' = todo \ {step} /\ loaded' = (todo' = {})
    /\ source' = source /\ refers' = refers /\ load' = load /\ calm' = {}
    /\ IF loaded' THEN lost' = lost \ staged /\ staged' = {}
                  ELSE UNCHANGED <<lost, staged>>

Loading ==
    \/ BeginLoad
    \/ AbortLoad
    \/ /\ Ran(<<"link", "detail">>) /\ UNCHANGED <<shipping, rated, sat>>
       /\ detail' = detail \cup DetailQuery
    \/ /\ Ran(<<"link", "shipping">>) /\ UNCHANGED <<detail, rated, sat>>
       /\ shipping' = shipping \cup ShippingQuery
    \/ /\ Ran(<<"link", "rated">>) /\ UNCHANGED <<detail, shipping, sat>>
       /\ rated' = rated \cup RatedQuery
    \/ /\ Ran(<<"ref", "country">>) /\ UNCHANGED <<detail, shipping, rated>>
       /\ Grew("country") /\ Others("country")
    \/ \E e \in Entity \ {"country"} :
          /\ todo \cap LinkStep = {}
          /\ Ran(<<"sat", e>>) /\ UNCHANGED <<detail, shipping, rated>>
          /\ Grew(e) /\ Others(e)
    \/ \E e \in Dated :
          /\ todo \cap (LinkStep \cup SatStep) = {}
          /\ Ran(<<"enddate", e>>) /\ UNCHANGED <<detail, shipping, rated>>
          /\ sat'[e] = EndDate(sat[e], sat[e]) /\ Others(e)

\* What a step of the load does, table by table.
LEMMA LoadingFact ==
    ASSUME DOMAIN sat = Entity, VaultStep
    PROVE  Loading
<1>1. ASSUME NEW step, Do(step) PROVE Ran(step)
  BY <1>1 DEF Do, Ran
<1>2. CASE BeginLoad \/ AbortLoad
  BY <1>2 DEF Loading
<1>3. CASE LoadDetail \/ LoadShipping \/ LoadRated
  BY <1>1, <1>3 DEF LoadDetail, LoadShipping, LoadRated, Loading
<1>4. CASE LoadRef
  BY <1>1, <1>4, InsertFact DEF LoadRef, Loading, Entity
<1>5. ASSUME NEW e \in Entity \ {"country"}, LoadSat(e) PROVE Loading
  BY <1>1, <1>5, InsertFact DEF LoadSat, Loading
<1>6. ASSUME NEW e \in Dated, DateSat(e) PROVE Loading
  <2>1. e \in Entity
    BY DEF Dated, Entity
  <2>2. sat'[e] = EndDate(sat[e], sat[e]) /\ Others(e)
    BY <1>6, <2>1 DEF DateSat, Others
  <2> QED
    BY <1>1, <1>6, <2>2 DEF DateSat, Loading
<1> QED
  BY <1>2, <1>3, <1>4, <1>5, <1>6 DEF VaultStep

\* The satellites of the star model are tables of versions.
LEMMA StarRows ==
    ASSUME NEW e, NEW S \in SUBSET Rows(e)
    PROVE  Versioned(S, LoadDate)
  BY DEF Versioned, Rows

\* End dating keeps the shape of a satellite.
LEMMA RedatedRows ==
    ASSUME NEW e, NEW S \in SUBSET Rows(e), NEW last
    PROVE  EndDate(S, last) \in SUBSET Rows(e)
<1> DEFINE E(s) == IF s \in last THEN NextLoad(S, s) ELSE s.dtm
<1>1. Versioned(S, LoadDate) /\ LoadDate \in SUBSET Nat
  BY StarRows DEF LoadDate
<1>2. ASSUME NEW s \in S PROVE E(s) \in LoadDate \cup {NoEnd}
  <2>1. NextLoad(S, s) \in LoadDate \cup {NoEnd}
    BY <1>1, NextLoadOf
  <2> QED
    BY <1>1, <2>1 DEF Versioned
<1>3. ASSUME NEW s \in S PROVE [s EXCEPT !.end = E(s)] \in Rows(e)
  <2> HIDE DEF E
  <2> QED
    BY <1>2 DEF Rows
<1> QED
  BY <1>3 DEF EndDate

\* The load keeps the shape of the vault.
LEMMA ShapeLoading ==
    ASSUME Shape, Loading, UNCHANGED <<dagVars, work, apart, early>>, calm' = {}
    PROVE  Shape'
<1>1. DagTypeOK' /\ apart' \subseteq {r \in Run : run'[r] # "none"}
  BY DEF Shape, TypeOK, dagVars, DagTypeOK
<1>2. /\ DOMAIN star' = Task /\ DOMAIN result' = Run /\ \A r \in Run : DOMAIN result'[r] = Task
      /\ early' \subseteq Run \X Task
      /\ \A t \in Task : star'[t] = NoTable \/ star'[t] \subseteq TableRow(t)
      /\ dropped' \subseteq Executing'
      /\ \A r \in Run, t \in Task :
            result'[r][t] = NoTable \/ (<<r, t>> \in dropped' /\ result'[r][t] \subseteq TableRow(t))
  BY DEF Shape, TypeOK, work, dagVars, Executing
<1>3. refers' = refers
  BY DEF Loading, BeginLoad, AbortLoad, Ran
\* The tables of the vault.
<1>4. /\ detail' \subseteq [line : Line, order : Order, product : Product, offer : Offer]
      /\ shipping' \subseteq [order : Order, address : Address]
      /\ rated' \subseteq [order : Order, pair : Pair]
  <2>1. DetailQuery \subseteq [line : Line, order : Order, product : Product, offer : Offer]
    BY DEF DetailQuery, Staged, KeyOf, Shape, Reference
  <2>2. StagedHeads \subseteq Reference
    BY DEF StagedHeads, Lines, Shape
  <2>3. ShippingQuery \subseteq [order : Order, address : Address]
    BY <2>2 DEF ShippingQuery, Reference
  <2>4. RatedQuery \subseteq [order : Order, pair : Pair]
    <3>1. ASSUME NEW h \in StagedHeads, h.rate # NoRate
          PROVE  [order |-> h.order, pair |-> PairOf[h.rate]] \in [order : Order, pair : Pair]
      BY <2>2, <3>1, StarAssumption DEF Reference
    <3> QED
      BY <3>1 DEF RatedQuery
  <2> QED
    BY <2>1, <2>3, <2>4 DEF Loading, BeginLoad, AbortLoad, Shape, TypeOK
<1>5. DOMAIN sat' = Entity /\ \A e \in Entity : sat'[e] \subseteq Rows(e)
  <2>1. \A e \in Entity : sat[e] \subseteq Rows(e)
    BY DEF Shape, TypeOK, Rows, LoadDate
  <2>2. ASSUME NEW e \in Entity, Grew(e), Others(e), todo # {}
        PROVE  DOMAIN sat' = Entity /\ \A f \in Entity : sat'[f] \subseteq Rows(f)
    <3>1. PICK changed \in SUBSET Staged(e) : sat'[e] = sat[e] \cup Inserted(e, changed)
      BY <2>2 DEF Grew
    <3>2. Inserted(e, changed) \subseteq Rows(e)
      BY <2>2 DEF Inserted, Rows, Staged, Shape
    <3> QED
      BY <2>1, <2>2, <3>1, <3>2 DEF Others
  <2>3. ASSUME NEW e \in Dated, sat'[e] = EndDate(sat[e], sat[e]), Others(e)
        PROVE  DOMAIN sat' = Entity /\ \A f \in Entity : sat'[f] \subseteq Rows(f)
    <3>1. e \in Entity
      BY DEF Dated, Entity
    <3>2. EndDate(sat[e], sat[e]) \in SUBSET Rows(e)
      BY <2>1, <3>1, RedatedRows
    <3> QED
      BY <2>1, <2>3, <3>2 DEF Others
  <2>4. CASE UNCHANGED sat
    BY <2>1, <2>4 DEF Shape
  <2>5. "country" \in Entity
    BY DEF Entity
  <2> QED
    BY <2>2, <2>3, <2>4, <2>5 DEF Loading, BeginLoad, AbortLoad, Ran
\* The sets of keys and the statements to do.
<1>6. /\ source' \subseteq Keys /\ Consistent(source)'
      /\ staged' \subseteq source' /\ lost' \subseteq source' \ Full
      /\ load' \in 0 .. Loads /\ (todo' # {} => load' \in LoadDate)
      /\ todo' \subseteq RefStep \cup LinkStep \cup SatStep \cup DateStep
  <2>1. CASE BeginLoad
    <3>1. PICK new \in SUBSET (Keys \ source), old \in SUBSET (source \cap Edited) :
              /\ Consistent(source \cup new)
              /\ source' = source \cup new
              /\ staged' = new \cup old \cup (source' \cap Full)
      BY <2>1 DEF BeginLoad
    <3>2. Consistent(source)'
      BY <1>3, <3>1 DEF Consistent
    <3>3. load' \in LoadDate /\ lost' = lost
      BY <2>1, StarAssumption DEF BeginLoad, Shape, LoadDate
    <3>4. todo' \subseteq RefStep \cup LinkStep \cup SatStep \cup DateStep
      BY <2>1 DEF BeginLoad, Statements
    <3>5. source' \subseteq Keys /\ staged' \subseteq source' /\ lost' \subseteq source' \ Full
      BY <3>1, <3>3 DEF Shape, TypeOK
    <3> QED
      BY <3>2, <3>3, <3>4, <3>5, StarAssumption DEF LoadDate
  <2>2. CASE AbortLoad
    BY <1>3, <2>2 DEF AbortLoad, Shape, TypeOK, Consistent
  <2>3. ASSUME NEW step, Ran(step)
        PROVE  /\ source' \subseteq Keys /\ Consistent(source)'
               /\ staged' \subseteq source' /\ lost' \subseteq source' \ Full
               /\ load' \in 0 .. Loads /\ (todo' # {} => load' \in LoadDate)
               /\ todo' \subseteq RefStep \cup LinkStep \cup SatStep \cup DateStep
    BY <1>3, <2>3 DEF Ran, Shape, TypeOK, Consistent
  <2> QED
    BY <2>1, <2>2, <2>3 DEF Loading
<1> QED
  BY <1>1, <1>2, <1>3, <1>4, <1>5, <1>6 DEF Shape, TypeOK, Rows, LoadDate

\* A fact is made of one row of each table the query reads.
LEMMA FactOf ==
    ASSUME NEW f \in FactQuery
    PROVE  \E s \in sat["line"], l \in detail, o \in star["dim_salesorder"], h \in shipping,
              a \in star["dim_address"], c \in star["dim_currency"] \cup {NoRate} :
                 Joined(s, l, o, h, a, c) /\ f = Fact(s, l, o, a, c)
<1> DEFINE all == sat["line"] \X detail \X star["dim_salesorder"] \X shipping
                         \X star["dim_address"] \X (star["dim_currency"] \cup {NoRate})
<1>1. PICK x \in all :
         /\ Joined(x[1], x[2], x[3], x[4], x[5], x[6])
         /\ f = Fact(x[1], x[2], x[3], x[5], x[6])
  BY DEF FactQuery, FactFrom
<1>2. /\ x[1] \in sat["line"] /\ x[2] \in detail /\ x[3] \in star["dim_salesorder"]
      /\ x[4] \in shipping /\ x[5] \in star["dim_address"]
      /\ x[6] \in star["dim_currency"] \cup {NoRate}
  OBVIOUS
<1> QED
  BY <1>1, <1>2

\* And every choice of rows that join gives one.
LEMMA FactFor ==
    ASSUME NEW s \in sat["line"], NEW l \in detail, NEW o \in star["dim_salesorder"],
           NEW h \in shipping, NEW a \in star["dim_address"],
           NEW c \in star["dim_currency"] \cup {NoRate}, Joined(s, l, o, h, a, c)
    PROVE  Fact(s, l, o, a, c) \in FactQuery
<1> DEFINE all == sat["line"] \X detail \X star["dim_salesorder"] \X shipping
                         \X star["dim_address"] \X (star["dim_currency"] \cup {NoRate})
           x == <<s, l, o, h, a, c>>
<1>1. x \in all /\ Joined(x[1], x[2], x[3], x[4], x[5], x[6])
  OBVIOUS
<1>2. Fact(x[1], x[2], x[3], x[5], x[6]) \in FactQuery
  BY <1>1 DEF FactQuery, FactFrom
<1> QED
  BY <1>2

\* The tables of the star get rows of their shape.
LEMMA QueryTyped ==
    ASSUME Shape, NEW t \in Task, \A d \in Inputs(t) : star[d] # NoTable
    PROVE  Query(t) \subseteq TableRow(t)
<1> USE Graph
<1>1. \A e \in Entity : sat[e] \subseteq Rows(e)
  BY DEF Shape, TypeOK, Rows, LoadDate
<1>2. ASSUME NEW e \in {"order", "product", "rate"}, NEW S, S \subseteq sat[e]
      PROVE  Versions(S) \subseteq DimRow(KeyOf[e])
  <2>1. S \subseteq Rows(e)
    BY <1>1, <1>2 DEF Entity
  <2> QED
    BY <2>1 DEF Versions, DimRow, Rows, LoadDate
<1>3. /\ SalesOrderQuery \subseteq DimRow(KeyOf["order"])
      /\ ProductQuery \subseteq DimRow(KeyOf["product"])
      /\ CurrencyQuery \subseteq DimRow(KeyOf["rate"])
  BY <1>2 DEF SalesOrderQuery, ProductQuery, CurrencyQuery, Active, Current
<1>4. AddressQuery \subseteq AddressRow
  <2>1. sat["address"] \subseteq Rows("address") /\ sat["country"] \subseteq Rows("country")
    BY <1>1 DEF Entity
  <2> QED
    BY <2>1 DEF AddressQuery, AddressRow, Rows, LoadDate, KeyOf
<1>5. ASSUME t = "fact", NEW f \in FactQuery PROVE f \in FactRow
  <2>1. PICK s \in sat["line"], l \in detail, o \in star["dim_salesorder"], h \in shipping,
             a \in star["dim_address"], c \in star["dim_currency"] \cup {NoRate} :
                Joined(s, l, o, h, a, c) /\ f = Fact(s, l, o, a, c)
    BY <1>5, FactOf
  <2>2. s.key \in Line /\ s.dtm \in LoadDate
    BY <1>1 DEF Rows, KeyOf, Entity
  <2>3. l.product \in Product /\ l.order \in Order
    BY DEF Shape, TypeOK
  <2>4. o.key = l.order
    BY <2>1 DEF Joined
  <2>5. a \in AddressRow /\ c \in DimRow(Rate) \cup {NoRate}
    BY <1>5 DEF Shape, TypeOK, TableRow, Inputs
  <2> QED
    BY <2>1, <2>2, <2>3, <2>4, <2>5 DEF Fact, FactRow, LoadDate
<1> QED
  BY <1>3, <1>4, <1>5 DEF Query, TableRow, KeyOf

\* Tasks that read too early are tasks of runs.
LEMMA EarlyStep ==
    ASSUME early \subseteq Run \X Task, [Next]_vars
    PROVE  early' \subseteq Run \X Task
<1>1. CASE VaultStep \/ Stop \/ UNCHANGED vars
  BY <1>1, VaultFact DEF Stop, vars
<1>2. ASSUME NEW r \in Run, Schedule(r) PROVE early' \subseteq Run \X Task
  BY <1>2 DEF Schedule
<1>3. ASSUME NEW r \in Run, NEW t \in Task, TaskStep(r, t) PROVE early' \subseteq Run \X Task
  BY <1>3 DEF TaskStep, DropStar, Read, Write, Fail
<1> QED
  BY <1>1, <1>2, <1>3 DEF Next

\* A star run keeps the shape of the star.
LEMMA ShapeStep ==
    ASSUME Shape, DagTypeOK', [Next]_vars
    PROVE  Shape'
<1> USE Graph
<1>0. early' \subseteq Run \X Task
  BY EarlyStep DEF Shape, TypeOK
<1>1. CASE VaultStep
  BY <1>1, VaultFact, LoadingFact, ShapeLoading DEF Shape
\* The vault rests.
<1>2. ASSUME UNCHANGED vault,
             DOMAIN star' = Task, DOMAIN result' = Run, \A r \in Run : DOMAIN result'[r] = Task,
             \A t \in Task : star'[t] = NoTable \/ star'[t] \subseteq TableRow(t),
             dropped' \subseteq Executing',
             \A r \in Run, t \in Task :
                result'[r][t] = NoTable \/ (<<r, t>> \in dropped' /\ result'[r][t] \subseteq TableRow(t)),
             calm' \subseteq apart', apart' \subseteq {r \in Run : run'[r] # "none"}
      PROVE  Shape'
  BY <1>0, <1>2 DEF Shape, TypeOK, vault, Consistent
<1>3. ASSUME NEW r \in Run, Schedule(r) PROVE Shape'
  <2>1. UNCHANGED <<vault, work>> /\ ((Create(r) /\ ti' = ti) \/ Scheduled)
    BY <1>3, ScheduleFact DEF Shape, TypeOK
  <2>2. Executing \subseteq Executing'
    BY <2>1 DEF Scheduled, Executing
  <2>3. calm' \subseteq apart' /\ apart' \subseteq {q \in Run : run'[q] # "none"}
    <3>1. CASE Create(r)
      BY <3>1 DEF Create, CreateRun, Shape, TypeOK, DagTypeOK
    <3>2. CASE (EndRun(r) \/ TimeoutRun(r)) /\ UNCHANGED <<apart, calm>>
      BY <3>2 DEF EndRun, TimeoutRun, Shape, TypeOK, DagTypeOK
    <3>3. CASE (\E t \in Task : StartTask(r, t) \/ FailUpstream(r, t)) /\ UNCHANGED <<apart, calm>>
      BY <3>3 DEF StartTask, FailUpstream, Shape, TypeOK
    <3> QED
      BY <1>3, <3>1, <3>2, <3>3 DEF Schedule
  <2> QED
    BY <1>2, <2>1, <2>2, <2>3 DEF Shape, TypeOK, work
<1>4. ASSUME NEW r \in Run, NEW t \in Task, TaskStep(r, t) PROVE Shape'
  <2>1. /\ ti[r][t] = "running" /\ UNCHANGED <<vault, run, apart, calm>>
        /\ calm' \subseteq apart' /\ apart' \subseteq {q \in Run : run'[q] # "none"}
    BY <1>4, TaskStepFact DEF Shape, TypeOK
  <2>2. CASE DropStar(r, t)
    <3>1. /\ UNCHANGED <<ti, result>> /\ dropped' = dropped \cup {<<r, t>>}
          /\ star' = [star EXCEPT ![t] = NoTable]
      BY <2>2 DEF DropStar, dagVars
    <3>2. dropped' \subseteq Executing'
      BY <2>1, <3>1 DEF Shape, TypeOK, Executing
    <3>3. DOMAIN star' = Task /\ \A u \in Task : star'[u] = NoTable \/ star'[u] \subseteq TableRow(u)
      BY <3>1 DEF Shape, TypeOK
    <3>4. \A q \in Run, u \in Task :
             result'[q][u] = NoTable \/ (<<q, u>> \in dropped' /\ result'[q][u] \subseteq TableRow(u))
      BY <3>1 DEF Shape, TypeOK
    <3>5. DOMAIN result' = Run /\ \A q \in Run : DOMAIN result'[q] = Task
      BY <3>1 DEF Shape
    <3> QED
      BY <1>2, <2>1, <3>2, <3>3, <3>4, <3>5
  <2>3. CASE Read(r, t)
    <3>1. Query(t) \subseteq TableRow(t)
      BY <2>3, QueryTyped DEF Read
    <3>2. /\ UNCHANGED <<ti, star, dropped>> /\ <<r, t>> \in dropped
          /\ result' = [result EXCEPT ![r] = [@ EXCEPT ![t] = Query(t)]]
      BY <2>3 DEF Read, dagVars
    <3>3. /\ DOMAIN result' = Run /\ \A q \in Run : DOMAIN result'[q] = Task
          /\ \A q \in Run, u \in Task :
                result'[q][u] = IF q = r /\ u = t THEN Query(t) ELSE result[q][u]
      BY <3>2 DEF Shape
    <3> HIDE DEF Query
    <3> QED
      BY <1>2, <2>1, <3>1, <3>2, <3>3 DEF Shape, TypeOK, Executing
  <2>4. CASE Write(r, t) \/ Fail(r, t)
    <3>1. \A p \in Run, u \in Task : p # r \/ u # t => ti'[p][u] = ti[p][u]
      <4>1. ~(DropStar(r, t) \/ Read(r, t)) \/ ti' = ti
        BY DEF DropStar, Read, dagVars
      <4> QED
        BY <1>4, <4>1, TaskStates DEF Shape, TypeOK
    <3>2. Forget(r, t)
      BY <2>4 DEF Write, Fail
    <3>3. /\ DOMAIN result' = Run /\ \A q \in Run : DOMAIN result'[q] = Task
          /\ \A q \in Run, u \in Task :
                result'[q][u] = IF q = r /\ u = t THEN NoTable ELSE result[q][u]
          /\ dropped' = dropped \ {<<r, t>>}
      BY <3>2 DEF Forget, Shape
    <3>4. dropped' \subseteq Executing'
      BY <3>1, <3>3 DEF Shape, TypeOK, Executing
    <3>5. DOMAIN star' = Task /\ \A u \in Task : star'[u] = NoTable \/ star'[u] \subseteq TableRow(u)
      <4>1. star' = star \/ (star' = [star EXCEPT ![t] = result[r][t]] /\ result[r][t] # NoTable)
        BY <2>4 DEF Write, Fail
      <4>2. result[r][t] # NoTable => result[r][t] \subseteq TableRow(t)
        BY DEF Shape, TypeOK
      <4> QED
        BY <4>1, <4>2 DEF Shape, TypeOK
    <3>6. \A q \in Run, u \in Task :
             result'[q][u] = NoTable \/ (<<q, u>> \in dropped' /\ result'[q][u] \subseteq TableRow(u))
      BY <3>3 DEF Shape, TypeOK
    <3> QED
      BY <1>2, <2>1, <3>3, <3>4, <3>5, <3>6
  <2> QED
    BY <1>4, <2>2, <2>3, <2>4 DEF TaskStep
<1>5. CASE Stop \/ UNCHANGED vars
  <2>1. UNCHANGED <<vault, run, ti, star, dropped, result, apart, calm>>
    BY <1>5 DEF Stop, Idle, vars, dagVars, work
  <2>2. Executing' = Executing
    BY <2>1 DEF Executing
  <2> QED
    BY <1>2, <2>1, <2>2 DEF Shape, TypeOK
<1> QED
  BY <1>1, <1>3, <1>4, <1>5 DEF Next, VaultStep, TaskStep

\* Shape, and with it TypeOK, holds in every reachable state.
THEOREM ShapeInvariant == Spec => []Shape
<1>1. Init => Shape
  <2> SUFFICES ASSUME Init PROVE Shape
    OBVIOUS
  <2>1. DagTypeOK
    BY DagInvInit DEF Init, DagInv
  <2>2. /\ refers \in [Line -> Reference] /\ load = 0 /\ source \in SUBSET Keys
        /\ Consistent(source) /\ lost = source \ Full /\ todo = {} /\ staged = {}
        /\ detail = {} /\ shipping = {} /\ rated = {}
        /\ sat = [e \in Entity |-> {}] /\ star = [t \in Task |-> {}] /\ dropped = {}
        /\ result = [r \in Run |-> [t \in Task |-> NoTable]] /\ apart = {} /\ calm = {}
        /\ early = {}
    BY DEF Init
  <2> QED
    BY <2>1, <2>2, StarAssumption DEF Shape, TypeOK
<1>2. Spec => []DagTypeOK
  BY StarImplementsDag, DagTypeCorrect, PTL
<1> QED
  BY <1>1, <1>2, ShapeStep, PTL DEF Spec

\* The tables of the vault and of the star hold rows of their shape, only
\* executing tasks have work in hand, and only runs that exist are apart.
THEOREM StarTypeCorrect == Spec => []TypeOK
<1>1. Shape => TypeOK
  BY DEF Shape
<1> QED
  BY <1>1, ShapeInvariant, PTL

-----------------------------------------------------------------------------
(***************************************************************************)
(* The star beside a vault that changes.                                   *)
(***************************************************************************)
\* The fact of a row resolves in the dimensions.
Resolves(f) ==
    /\ \E o \in star["dim_salesorder"] : o.key = f.order
    /\ f.address \in star["dim_address"]
    /\ f.rate \in star["dim_currency"] \cup {NoRate}

\* What run r has built so far is there, and its facts, in hand or in place,
\* resolve.
OnDimensions(r) ==
    /\ \A t \in Task : ti[r][t] = "success" => star[t] # NoTable
    /\ ti[r]["fact"] = "success" => \A f \in star["fact"] : Resolves(f)
    /\ ti[r]["fact"] = "running" /\ result[r]["fact"] # NoTable =>
          \A f \in result[r]["fact"] : Resolves(f)

StarInv == \A r \in apart : Quiet(r) => OnDimensions(r)

\* The rows of the fact table are made from rows of the dimensions.
LEMMA FactRows ==
    ASSUME NEW f \in FactQuery
    PROVE  Resolves(f)
<1>1. PICK s \in sat["line"], l \in detail, o \in star["dim_salesorder"], h \in shipping,
           a \in star["dim_address"], c \in star["dim_currency"] \cup {NoRate} :
              Joined(s, l, o, h, a, c) /\ f = Fact(s, l, o, a, c)
  BY FactOf
<1>2. f.order = o.key /\ f.address = a /\ f.rate = c
  BY <1>1 DEF Fact
<1> QED
  BY <1>2 DEF Resolves

\* Beside the fact task of a run its dimension tasks do nothing any more.
LEMMA FactAfterDimensions ==
    ASSUME UpstreamDone, NEW r \in Run, NEW t \in Task, ti[r][t] = "running", t # "fact"
    PROVE  ti[r]["fact"] \notin {"running", "success"}
  BY Graph DEF UpstreamDone

\* A task of the run itself keeps the facts on the dimensions.
LEMMA OwnTask ==
    ASSUME Shape, UpstreamDone, NEW r \in Run, NEW t \in Task, TaskStep(r, t), OnDimensions(r)
    PROVE  OnDimensions(r)'
<1> USE Graph
<1>1. /\ ti[r][t] = "running" /\ "fact" \in Task
      /\ t # "fact" => ti[r]["fact"] \notin {"running", "success"}
  BY TaskStepFact, FactAfterDimensions
<1>2. CASE DropStar(r, t)
  <2>1. /\ UNCHANGED <<ti, result>> /\ star' = [star EXCEPT ![t] = NoTable]
    BY <1>2 DEF DropStar, dagVars
  <2>2. \A u \in Task : u # t => star'[u] = star[u]
    BY <2>1 DEF Shape
  <2>3. CASE t # "fact"
    BY <1>1, <2>1, <2>2, <2>3 DEF OnDimensions
  <2>4. CASE t = "fact"
    <3>1. \A f : Resolves(f) => Resolves(f)'
      BY <2>2, <2>4 DEF Resolves
    <3> QED
      BY <1>1, <2>1, <2>2, <2>4, <3>1 DEF OnDimensions
  <2> QED
    BY <2>3, <2>4
<1>3. CASE Read(r, t)
  <2>1. /\ UNCHANGED <<ti, star>> /\ result' = [result EXCEPT ![r] = [@ EXCEPT ![t] = Query(t)]]
    BY <1>3 DEF Read, dagVars
  <2>2. \A f : Resolves(f) => Resolves(f)'
    BY <2>1 DEF Resolves
  <2>3. CASE t # "fact"
    BY <1>1, <2>1, <2>3 DEF OnDimensions
  <2>4. CASE t = "fact"
    <3>1. result'[r]["fact"] = FactQuery
      BY <2>1, <2>4 DEF Shape, Query
    <3>2. \A f \in FactQuery : Resolves(f)'
      BY <2>2, FactRows
    <3> QED
      BY <1>1, <2>1, <2>4, <3>1, <3>2 DEF OnDimensions
  <2> QED
    BY <2>3, <2>4
<1>4. CASE Write(r, t) \/ Fail(r, t)
  <2>1. /\ ti'[r][t] \in {"success", "failed"}
        /\ \A u \in Task : u # t => ti'[r][u] = ti[r][u]
    <3>1. ti' = ti => ti'[r][t] \notin {"success", "failed"}
      BY <1>1
    <3>2. ti'[r][t] \in {"success", "failed"}
      BY <1>4 DEF Write, Fail, FinishTask, FailTask, SetTask, Shape, TypeOK, DagTypeOK
    <3> QED
      BY <3>1, <3>2, TaskStates DEF Shape, TypeOK
  <2>2. \A u \in Task : u # t => star'[u] = star[u]
    BY <1>4 DEF Write, Fail, Shape
  <2>3. ti'[r][t] = "success" => star'[t] = result[r][t] /\ result[r][t] # NoTable
    <3>1. CASE Write(r, t)
      BY <3>1 DEF Write, Shape
    <3>2. CASE Fail(r, t)
      BY <3>2 DEF Fail, FailTask, SetTask, Shape, TypeOK, DagTypeOK
    <3> QED
      BY <1>4, <3>1, <3>2
  <2>4. CASE t # "fact"
    BY <1>1, <2>1, <2>2, <2>3, <2>4 DEF OnDimensions
  <2>5. CASE t = "fact"
    <3>1. \A f : Resolves(f) => Resolves(f)'
      BY <2>2, <2>5 DEF Resolves
    <3>2. ti'[r]["fact"] = "success" => \A f \in star'["fact"] : Resolves(f)'
      BY <1>1, <2>3, <2>5, <3>1 DEF OnDimensions
    <3>3. \A u \in Task : ti'[r][u] = "success" => star'[u] # NoTable
      BY <2>1, <2>2, <2>3 DEF OnDimensions
    <3>4. ti'[r]["fact"] # "running"
      BY <2>1, <2>5
    <3> QED
      BY <3>2, <3>3, <3>4 DEF OnDimensions
  <2> QED
    BY <2>4, <2>5
<1> QED
  BY <1>2, <1>3, <1>4 DEF TaskStep

\* No step leaves a fact without its dimensions.
LEMMA StarStep ==
    ASSUME Shape, UpstreamDone, Unborn, ApartInv, StarInv, [Next]_vars
    PROVE  StarInv'
<1> SUFFICES ASSUME NEW r \in apart', Quiet(r)'
             PROVE  OnDimensions(r)'
  BY DEF StarInv
<1> USE Graph
<1>0. apart \subseteq Run /\ "fact" \in Task /\ DagTypeOK
  BY DEF Shape, TypeOK
\* The scheduler and the load leave the tables alone.
<1>1. ASSUME r \in apart, UNCHANGED work, Scheduled \/ ti' = ti
      PROVE  OnDimensions(r)'
  <2>1. r \in Run /\ Quiet(r)
    BY <1>0, <1>1, QuietBack
  <2>2. OnDimensions(r)
    BY <1>1, <2>1 DEF StarInv
  <2>3. UNCHANGED <<star, result>> /\ \A f : Resolves(f) => Resolves(f)'
    BY <1>1 DEF work, Resolves
  <2>4. \A t \in Task : ti'[r][t] = "success" => ti[r][t] = "success"
    BY <1>1, <2>1 DEF Scheduled
  <2>5. ti'[r]["fact"] = "running" /\ result[r]["fact"] # NoTable => ti[r]["fact"] = "running"
    <3>1. result[r]["fact"] # NoTable => <<r, "fact">> \in Executing
      BY <1>0, <2>1 DEF Shape, TypeOK
    <3> QED
      BY <3>1 DEF Executing
  <2> QED
    BY <1>0, <2>2, <2>3, <2>4, <2>5 DEF OnDimensions
<1>2. CASE VaultStep \/ Stop \/ UNCHANGED vars
  BY <1>1, <1>2, VaultFact DEF Stop, Idle, vars, dagVars
<1>3. ASSUME NEW q \in Run, Schedule(q) PROVE OnDimensions(r)'
  <2>1. UNCHANGED work /\ ((Create(q) /\ ti' = ti) \/ Scheduled)
    BY <1>0, <1>3, ScheduleFact
  <2>2. CASE r \in apart
    BY <1>1, <2>1, <2>2
  <2>3. CASE r \notin apart
    <3>1. r = q /\ run[r] = "none" /\ ti' = ti
      BY <2>1, <2>3 DEF Scheduled, Create, CreateRun
    <3>2. \A t \in Task : ti'[r][t] = "none"
      BY <1>3, <3>1 DEF Unborn
    <3> QED
      BY <1>0, <3>2 DEF OnDimensions
  <2> QED
    BY <2>2, <2>3
<1>4. ASSUME NEW q \in Run, NEW t \in Task, TaskStep(q, t) PROVE OnDimensions(r)'
  <2>1. r \in apart /\ ti[q][t] = "running"
    BY <1>4, TaskStepFact
  <2>2. r \in Run /\ Quiet(r)
    BY <1>0, <2>1, QuietBack
  <2>3. q = r
    BY <2>1, <2>2, OnlyOwn
  <2> QED
    BY <1>4, <2>1, <2>2, <2>3, OwnTask DEF StarInv
<1> QED
  BY <1>2, <1>3, <1>4 DEF Next, VaultStep, TaskStep

\* What the runs that nothing disturbs can rely on.
THEOREM ApartInvariant == Spec => [](ApartInv /\ StarInv)
<1>1. Init => ApartInv /\ StarInv
  BY DEF Init, ApartInv, StarInv
<1>2. Shape /\ Shape' /\ ApartInv /\ [Next]_vars => ApartInv'
  BY ApartStep DEF Shape, TypeOK
<1>3. Shape /\ UpstreamDone /\ Unborn /\ ApartInv /\ StarInv /\ [Next]_vars => StarInv'
  BY StarStep
<1>4. DagInv => UpstreamDone
  BY DEF DagInv
<1> QED
  BY <1>1, <1>2, <1>3, <1>4, ShapeInvariant, StarImplementsDag, DagInvariant, NoTaskBeforeRun,
     PTL DEF Spec

\* The star is consistent in itself: all tables are there, and the order, the
\* address and the rate of each fact are rows of the dimensions beside it,
\* through failures and timeouts of the star runs and whatever a load of the
\* vault does in the meantime.
THEOREM StarResolves == Spec => []FactResolves
<1>1. Shape /\ UpstreamDone /\ StarInv => FactResolves
  <2> SUFFICES ASSUME Shape, UpstreamDone, StarInv, NEW r \in apart, Latest(r)
               PROVE  OnTop
    BY DEF FactResolves
  <2>1. r \in Run /\ Quiet(r) /\ ti[r]["fact"] = "success"
    BY DEF Shape, TypeOK, Latest, Quiet
  <2>2. \A t \in Task : ti[r][t] = "success"
    BY <2>1, Graph DEF UpstreamDone
  <2>3. OnDimensions(r)
    BY <2>1 DEF StarInv
  <2> QED
    BY <2>1, <2>2, <2>3 DEF OnDimensions, Resolves, OnTop
<1>2. DagInv => UpstreamDone
  BY DEF DagInv
<1> QED
  BY <1>1, <1>2, ShapeInvariant, ApartInvariant, StarImplementsDag, DagInvariant, PTL

-----------------------------------------------------------------------------
(***************************************************************************)
(* The vault at the end of a load.                                         *)
(***************************************************************************)
\* A load has succeeded when no statement is left; calm is kept only then.
Progress ==
    /\ todo # {} => ~loaded
    /\ todo = {} => staged = {}
    /\ todo # {} => source \cap Full \subseteq staged
    /\ \A e \in Dated : <<"sat", e>> \in todo => <<"enddate", e>> \in todo
    /\ calm # {} => loaded

\* The statement of e is over for a staged key, or the key arrived by an
\* earlier load and was not lost since.
Settled(k, step) ==
    \/ k \in staged /\ step \notin todo
    \/ k \in source /\ k \notin lost /\ k \notin staged /\ (k \in Full => loaded)

\* The entities whose active versions a dimension shows.
Shown == {"order", "product"}

\* A satellite that gets versions has one open row per key once it is end
\* dated, the others never have more than one row.
Dating ==
    /\ \A e \in Dated :
          /\ OnePerLoad(sat[e])
          /\ \A s \in sat[e] : s.dtm <= load /\ (<<"sat", e>> \in todo => s.dtm < load)
          /\ (loaded \/ todo # {}) /\ <<"enddate", e>> \notin todo => OneOpen(sat[e])
    /\ \A e \in Shown \ Changing : \A s \in sat[e] :
          s.end = NoEnd /\ \A x \in sat[e] : x.key = s.key => x = s

\* What the link of the lines holds of a line.
DetailOf(l) ==
    [line |-> l, order |-> refers[l].order, product |-> refers[l].product,
     offer |-> refers[l].offer]

\* The links hold what the lines of the source refer to.
Linked ==
    /\ OneHead
    /\ \A d \in detail : d.line \in Lines /\ d = DetailOf(d.line)
    /\ \A h \in shipping : \E l \in Lines :
          h.order = refers[l].order /\ h.address = refers[l].address
    /\ \A p \in rated : \E l \in Lines :
          /\ p.order = refers[l].order
          /\ refers[l].rate # NoRate /\ p.pair = PairOf[refers[l].rate]

\* No two lines of an order have the same product at the same offer, and no
\* two orders the same address: what the NOT EXISTS of the links take for
\* granted.
Distinct ==
    \A l, m \in Line :
        /\ (/\ refers[l].order = refers[m].order /\ refers[l].product = refers[m].product
            /\ refers[l].offer = refers[m].offer) => l = m
        /\ refers[l].address = refers[m].address => refers[l].order = refers[m].order

StepOf(e) == IF e = "country" THEN <<"ref", "country">> ELSE <<"sat", e>>

Has(e, k) == \E s \in sat[e] : s.key = k

\* What is settled is in the vault.
Arrived ==
    /\ \A e \in Entity : \A k \in KeyOf[e] : Settled(k, StepOf(e)) => Has(e, k)
    /\ Distinct =>
          /\ \A l \in Line : Settled(l, <<"link", "detail">>) => \E d \in detail : d.line = l
          /\ \A o \in Order : Settled(o, <<"link", "shipping">>) => \E h \in shipping : h.order = o

VaultInv == Progress /\ Dating /\ Linked /\ Arrived

\* A load that finds rows of an entity has a statement for each of its tables.
LEMMA StatementsFact ==
    ASSUME NEW keys
    PROVE  /\ \A e \in Entity : \A k \in KeyOf[e] : k \in keys => StepOf(e) \in Statements(keys)
           /\ \A l \in Line : l \in keys => <<"link", "detail">> \in Statements(keys)
           /\ \A o \in Order : o \in keys => <<"link", "shipping">> \in Statements(keys)
           /\ \A e \in Dated : <<"enddate", e>> \in Statements(keys)
<1> DEFINE found == {e \in Entity : keys \cap KeyOf[e] # {}}
           Feed == [detail |-> "line", shipping |-> "order", rated |-> "order"]
<1>1. Statements(keys) = {s \in RefStep \cup SatStep : s[2] \in found} \cup
                         {s \in LinkStep : Feed[s[2]] \in found} \cup DateStep
  BY DEF Statements
<1>2. ASSUME NEW e \in Entity, NEW k \in KeyOf[e], k \in keys
      PROVE  StepOf(e) \in Statements(keys)
  <2>1. StepOf(e) \in RefStep \cup SatStep /\ StepOf(e)[2] = e
    BY DEF StepOf, RefStep, SatStep
  <2> QED
    BY <1>1, <1>2, <2>1
<1>3. ASSUME NEW l \in Line, l \in keys PROVE <<"link", "detail">> \in Statements(keys)
  <2>1. "line" \in found
    BY <1>3 DEF KeyOf, Entity
  <2> QED
    BY <1>1, <2>1 DEF LinkStep
<1>4. ASSUME NEW o \in Order, o \in keys PROVE <<"link", "shipping">> \in Statements(keys)
  <2>1. "order" \in found
    BY <1>4 DEF KeyOf, Entity
  <2> QED
    BY <1>1, <2>1 DEF LinkStep
<1>5. \A e \in Dated : <<"enddate", e>> \in Statements(keys)
  BY <1>1 DEF DateStep
<1> QED
  BY <1>2, <1>3, <1>4, <1>5

\* What a load finds when it starts: all that is new, and all of what is
\* staged in full.
LEMMA BeginFact ==
    ASSUME BeginLoad
    PROVE  /\ todo = {} /\ todo' = Statements(staged') /\ loaded' = (todo' = {})
           /\ source \subseteq source' /\ source' \ staged' \subseteq source
           /\ source' \cap Full \subseteq staged'
           /\ load' = load + 1 /\ calm' = {}
           /\ UNCHANGED <<refers, lost, detail, shipping, rated, sat>>
  BY DEF BeginLoad

\* Steps of the star runs leave the vault alone, and take note of its rest
\* when it is loaded.
LEMMA OutsideFact ==
    ASSUME [Next]_vars
    PROVE  VaultStep \/ (UNCHANGED vault /\ (calm' = calm \/ loaded))
<1>1. ASSUME NEW r \in Run, Schedule(r) PROVE UNCHANGED vault /\ (calm' = calm \/ loaded)
  BY <1>1 DEF Schedule, Create
<1>2. ASSUME NEW r \in Run, NEW t \in Task, TaskStep(r, t) PROVE UNCHANGED vault /\ calm' = calm
  BY <1>2, TaskStepFact
<1>3. CASE Stop \/ UNCHANGED vars
  BY <1>3 DEF Stop, vars
<1> QED
  BY <1>1, <1>2, <1>3 DEF Next, VaultStep, TaskStep

\* A load that has succeeded has nothing left to do.
LEMMA ProgressStep ==
    ASSUME Shape, Shape', Progress, Loading
    PROVE  Progress'
<1>1. CASE BeginLoad
  <2>1. /\ todo' = Statements(staged') /\ loaded' = (todo' = {}) /\ calm' = {}
        /\ source' \cap Full \subseteq staged'
    BY <1>1, BeginFact
  <2>2. todo' = {} => staged' = {}
    <3> SUFFICES ASSUME NEW k \in staged' PROVE todo' # {}
      OBVIOUS
    <3>1. k \in Keys
      BY DEF Shape, TypeOK
    <3>2. PICK e \in Entity : k \in KeyOf[e]
      BY <3>1 DEF Keys, KeyOf, Entity
    <3>3. StepOf(e) \in Statements(staged')
      BY <3>2, StatementsFact
    <3> QED
      BY <2>1, <3>3
  <2>3. \A e \in Dated : <<"enddate", e>> \in todo'
    BY <2>1, StatementsFact
  <2> QED
    BY <2>1, <2>2, <2>3 DEF Progress
<1>2. CASE AbortLoad
  BY <1>2 DEF AbortLoad, Progress
<1>3. ASSUME NEW step, Ran(step),
             \A e \in Dated : step = <<"enddate", e>> => todo \cap (LinkStep \cup SatStep) = {}
      PROVE  Progress'
  <2>1. ASSUME NEW e \in Dated, <<"sat", e>> \in todo' PROVE <<"enddate", e>> \in todo'
    <3>1. <<"sat", e>> \in todo /\ <<"enddate", e>> \in todo /\ todo' = todo \ {step}
      BY <1>3, <2>1 DEF Ran, Progress
    <3>2. <<"sat", e>> \in SatStep
      BY DEF SatStep, Dated, Entity
    <3>3. step # <<"enddate", e>>
      BY <1>3, <3>1, <3>2
    <3> QED
      BY <3>1, <3>3
  <2> QED
    BY <1>3, <2>1 DEF Ran, Progress
<1> QED
  BY <1>1, <1>2, <1>3 DEF Loading

\* A key is settled only by the statement of its table.
LEMMA SettledFact ==
    ASSUME Shape, Shape', Progress, Loading, NEW k, NEW step,
           BeginLoad /\ k \in staged' => step \in todo'
    PROVE  Settled(k, step)' => Settled(k, step) \/ (k \in staged /\ Ran(step))
<1> SUFFICES ASSUME Settled(k, step)' PROVE Settled(k, step) \/ (k \in staged /\ Ran(step))
  OBVIOUS
<1>1. CASE BeginLoad
  <2>1. k \notin staged' /\ k \in source' /\ k \notin lost'
    BY <1>1 DEF Settled
  <2>2. k \in source /\ k \notin Full /\ k \notin lost /\ todo = {}
    BY <1>1, <2>1, BeginFact
  <2> QED
    BY <2>2 DEF Settled, Progress
<1>2. CASE AbortLoad
  BY <1>2 DEF AbortLoad, Settled, Progress
<1>3. ASSUME NEW s, Ran(s) PROVE Settled(k, step) \/ (k \in staged /\ Ran(step))
  <2>1. CASE s = step /\ k \in staged
    BY <1>3, <2>1
  <2>2. CASE k \in staged /\ s # step
    <3>1. step \notin todo
      BY <1>3, <2>2 DEF Ran, Settled
    <3> QED
      BY <2>2, <3>1 DEF Settled
  <2>3. CASE k \notin staged
    BY <1>3, <2>3 DEF Ran, Settled, Progress
  <2> QED
    BY <2>1, <2>2, <2>3
<1> QED
  BY <1>1, <1>2, <1>3 DEF Loading

\* What a step of the load does to one satellite.
LEMMA SatLoading ==
    ASSUME Shape, Progress, Loading, NEW e \in Entity
    PROVE  \/ sat'[e] = sat[e] /\ ~Ran(StepOf(e)) /\ \A f \in Dated : Ran(<<"enddate", f>>) => f # e
           \/ Grew(e) /\ Ran(StepOf(e)) /\ todo # {}
           \/ /\ e \in Dated /\ Ran(<<"enddate", e>>) /\ sat'[e] = EndDate(sat[e], sat[e])
              /\ todo \cap SatStep = {}
<1>1. \A s, t : Ran(s) /\ Ran(t) => s = t
  BY DEF Ran
<1>2. CASE BeginLoad \/ AbortLoad
  <2>1. sat' = sat /\ \A s : ~Ran(s)
    <3>1. ASSUME NEW s, AbortLoad, Ran(s) PROVE FALSE
      <4>1. todo' = {} /\ ~loaded /\ loaded' = loaded
        BY <3>1 DEF AbortLoad, Progress
      <4>2. loaded' = TRUE
        BY <3>1, <4>1 DEF Ran
      <4> QED
        BY <4>1, <4>2
    <3> QED
      BY <1>2, <3>1 DEF BeginLoad, AbortLoad, Ran
  <2> QED
    BY <2>1
<1>3. CASE (\E t \in LinkStep : Ran(t)) /\ UNCHANGED sat
  <2>1. StepOf(e) \notin LinkStep /\ \A f : <<"enddate", f>> \notin LinkStep
    BY DEF StepOf, LinkStep
  <2> QED
    BY <1>1, <1>3, <2>1
<1>4. ASSUME NEW g \in Entity, Ran(StepOf(g)), Grew(g), Others(g)
      PROVE  \/ sat'[e] = sat[e] /\ ~Ran(StepOf(e)) /\ \A f \in Dated : Ran(<<"enddate", f>>) => f # e
             \/ Grew(e) /\ Ran(StepOf(e)) /\ todo # {}
  <2>1. CASE g = e
    BY <1>4, <2>1 DEF Ran
  <2>2. CASE g # e
    <3>1. StepOf(g) # StepOf(e) /\ \A f : <<"enddate", f>> # StepOf(g)
      BY <2>2 DEF StepOf
    <3> QED
      BY <1>1, <1>4, <2>2, <3>1 DEF Others
  <2> QED
    BY <2>1, <2>2
<1>5. ASSUME NEW g \in Dated, Ran(<<"enddate", g>>), sat'[g] = EndDate(sat[g], sat[g]), Others(g),
             todo \cap (LinkStep \cup SatStep) = {}
      PROVE  \/ sat'[e] = sat[e] /\ ~Ran(StepOf(e)) /\ \A f \in Dated : Ran(<<"enddate", f>>) => f # e
             \/ /\ e \in Dated /\ Ran(<<"enddate", e>>) /\ sat'[e] = EndDate(sat[e], sat[e])
                /\ todo \cap SatStep = {}
  <2>1. CASE g = e
    BY <1>5, <2>1
  <2>2. CASE g # e
    <3>1. <<"enddate", g>> # StepOf(e) /\ \A f : <<"enddate", f>> = <<"enddate", g>> => f = g
      BY DEF StepOf
    <3> QED
      BY <1>1, <1>5, <2>2, <3>1 DEF Others
  <2> QED
    BY <2>1, <2>2
<1>6. ASSUME NEW g \in Entity \ {"country"} PROVE StepOf(g) = <<"sat", g>>
  BY DEF StepOf
<1>7. StepOf("country") = <<"ref", "country">> /\ "country" \in Entity
  BY DEF StepOf, Entity
<1> QED
  BY <1>2, <1>3, <1>4, <1>5, <1>6, <1>7 DEF Loading, LinkStep

\* The tables end dating and the dimensions look at are satellites.
LEMMA DatedFact ==
    /\ \A e \in Dated : e \in Entity /\ StepOf(e) = <<"sat", e>> /\ <<"sat", e>> \in SatStep /\ e \in Shown
    /\ \A e \in Shown : e \in Entity /\ (e \in Changing => e \in Dated)
  BY DEF Dated, Entity, StepOf, SatStep, Shown

\* A table without ties is the set of the last rows of its loads.
LEMMA LastOfAll ==
    ASSUME NEW S, OnePerLoad(S)
    PROVE  S \in LastRows(S)
<1>1. ASSUME NEW s \in S PROVE S \cap SameLoad(S, s) = {s}
  BY DEF SameLoad, RowsOf, OnePerLoad
<1> QED
  BY <1>1 DEF LastRows

\* After end dating a satellite has one open row per key.
LEMMA DatingStep ==
    ASSUME Shape, Shape', Progress, Dating, Loading
    PROVE  Dating'
<1>1. ASSUME NEW e \in Dated
      PROVE  /\ OnePerLoad(sat[e])'
             /\ \A s \in sat'[e] : s.dtm <= load' /\ (<<"sat", e>> \in todo' => s.dtm < load')
             /\ (loaded' \/ todo' # {}) /\ <<"enddate", e>> \notin todo' => OneOpen(sat[e])'
  <2>1. /\ e \in Entity /\ StepOf(e) = <<"sat", e>> /\ <<"sat", e>> \in SatStep
        /\ OnePerLoad(sat[e])
        /\ \A s \in sat[e] : s.dtm <= load /\ (<<"sat", e>> \in todo => s.dtm < load)
        /\ (loaded \/ todo # {}) /\ <<"enddate", e>> \notin todo => OneOpen(sat[e])
        /\ <<"sat", e>> \in todo => <<"enddate", e>> \in todo
    BY DatedFact DEF Dating, Progress
  <2>2. sat[e] \in SUBSET Rows(e) /\ load \in Nat
    BY <2>1 DEF Shape, TypeOK, Rows, LoadDate
  <2>3. CASE BeginLoad
    <3>1. sat' = sat /\ load' = load + 1 /\ <<"enddate", e>> \in todo'
      BY <2>3, BeginFact, StatementsFact
    <3>2. \A s \in sat[e] : s.dtm \in Nat /\ s.dtm < load + 1
      BY <2>1, <2>2 DEF Rows, LoadDate
    <3> QED
      BY <2>1, <3>1, <3>2, <2>2 DEF Rows, LoadDate
  <2>4. CASE AbortLoad
    BY <2>1, <2>4 DEF AbortLoad, Progress
  <2>5. CASE sat'[e] = sat[e] /\ ~Ran(StepOf(e)) /\ (\E s : Ran(s)) /\ ~Ran(<<"enddate", e>>)
    <3>1. PICK s : Ran(s) /\ s # <<"enddate", e>>
      BY <2>5
    <3>2. todo # {} /\ load' = load /\ todo' = todo \ {s}
      BY <3>1 DEF Ran
    <3>3. <<"enddate", e>> \notin todo' => <<"enddate", e>> \notin todo
      BY <3>1, <3>2
    <3> QED
      BY <2>1, <2>5, <3>2, <3>3
  <2>6. CASE Grew(e) /\ Ran(StepOf(e))
    <3>1. /\ <<"sat", e>> \in todo /\ load' = load /\ todo' = todo \ {<<"sat", e>>}
          /\ <<"enddate", e>> \in todo'
      BY <2>1, <2>6 DEF Ran
    <3>2. PICK changed \in SUBSET Staged(e) : sat'[e] = sat[e] \cup Inserted(e, changed)
      BY <2>6 DEF Grew
    <3>3. ASSUME NEW s \in Inserted(e, changed)
          PROVE  s = [key |-> s.key, dtm |-> load, end |-> NoEnd]
      BY <3>3 DEF Inserted
    <3>4. \A s \in sat[e] : s.dtm \in Nat /\ s.dtm < load
      BY <2>1, <2>2, <3>1 DEF Rows, LoadDate
    <3>5. OnePerLoad(sat[e])'
      <4> SUFFICES ASSUME NEW s \in sat'[e], NEW x \in sat'[e], s.key = x.key, s.dtm = x.dtm
                   PROVE  s = x
        BY DEF OnePerLoad
      <4>1. CASE s \in sat[e] /\ x \in sat[e]
        BY <2>1, <4>1 DEF OnePerLoad
      <4>2. CASE s \in Inserted(e, changed) /\ x \in Inserted(e, changed)
        BY <3>3, <4>2
      <4>3. \A y \in Inserted(e, changed) : y.dtm = load
        BY <3>3
      <4> QED
        BY <2>2, <3>2, <3>4, <4>1, <4>2, <4>3
    <3>6. \A s \in Inserted(e, changed) : s.dtm = load
      BY <3>3
    <3>7. \A s \in sat'[e] : s.dtm <= load'
      BY <2>1, <2>2, <3>1, <3>2, <3>6
    <3> QED
      BY <3>1, <3>5, <3>7
  <2>7. CASE Ran(<<"enddate", e>>) /\ sat'[e] = EndDate(sat[e], sat[e]) /\ todo \cap SatStep = {}
    <3> DEFINE S == sat[e]
    <3>1. Versioned(S, LoadDate) /\ LoadDate \in SUBSET Nat /\ S \in LastRows(S)
      BY <2>1, <2>2, StarRows, LastOfAll DEF LoadDate
    <3>2. OnePerLoad(EndDate(S, S))
      BY <2>1, <3>1, EndDateOnePerLoad
    <3>3. OneOpen(EndDate(S, S))
      <4>1. Loads \in Nat /\ \A d \in LoadDate : d <= Loads
        BY StarAssumption DEF LoadDate
      <4>2. \A last \in LastRows(S) : OneOpen(EndDate(S, last))
        BY <3>1, <4>1, EndDateOneOpen
      <4> QED
        BY <3>1, <4>2
    <3>4. \A x \in EndDate(S, S) : \E s \in S : x.dtm = s.dtm
      <4>1. \A x \in EndDate(S, S) : \E s \in S :
                /\ x.key = s.key /\ x.dtm = s.dtm
                /\ x.end = IF s \in S THEN NextLoad(S, s) ELSE s.dtm
                /\ x = [s EXCEPT !.end = IF s \in S THEN NextLoad(S, s) ELSE s.dtm]
        BY <3>1, EndDateRow
      <4> QED
        BY <4>1
    <3>5. load' = load /\ <<"sat", e>> \notin todo'
      BY <2>1, <2>7 DEF Ran
    <3> QED
      BY <2>1, <2>7, <3>2, <3>3, <3>4, <3>5
  <2>8. BeginLoad \/ AbortLoad \/ \E s : Ran(s)
    BY DEF Loading
  <2> QED
    BY <2>1, <2>3, <2>4, <2>5, <2>6, <2>7, <2>8, SatLoading
<1>2. ASSUME NEW e \in Shown \ Changing
      PROVE  \A s \in sat'[e] : s.end = NoEnd /\ \A x \in sat'[e] : x.key = s.key => x = s
  <2>1. /\ e \in Entity /\ e \notin Dated
        /\ \A s \in sat[e] : s.end = NoEnd /\ \A x \in sat[e] : x.key = s.key => x = s
    BY DatedFact DEF Dating, Dated
  <2>2. CASE Grew(e)
    <3>1. PICK changed \in SUBSET Staged(e) :
            /\ \A k \in changed : RowsOf(sat[e], k) = {}
            /\ sat'[e] = sat[e] \cup Inserted(e, changed)
      BY <2>2 DEF Grew
    <3>2. ASSUME NEW s \in Inserted(e, changed)
          PROVE  /\ s = [key |-> s.key, dtm |-> load, end |-> NoEnd]
                 /\ \A x \in sat[e] : x.key # s.key
      BY <3>1, <3>2 DEF Inserted, RowsOf
    <3>3. \A s, x \in Inserted(e, changed) : s.key = x.key => s = x
      BY <3>2
    <3>4. \A s \in Inserted(e, changed) : s.end = NoEnd
      BY <3>2
    <3> QED
      BY <2>1, <3>1, <3>2, <3>3, <3>4
  <2> QED
    BY <2>1, <2>2, SatLoading
<1> QED
  BY <1>1, <1>2 DEF Dating

\* The links take what the lines refer to, and lines refer to it for ever.
LEMMA LinkedStep ==
    ASSUME Shape, Linked, Loading
    PROVE  Linked'
<1>1. refers' = refers /\ Lines \subseteq Lines' /\ \A l : DetailOf(l)' = DetailOf(l)
  BY DEF Loading, BeginLoad, AbortLoad, Ran, Lines, DetailOf
<1>2. OneHead'
  BY <1>1 DEF Linked, OneHead
<1>3. ASSUME NEW h \in StagedHeads PROVE \E l \in Lines : h = refers[l]
  BY DEF StagedHeads
<1>4. ASSUME NEW d \in DetailQuery PROVE d.line \in Lines /\ d = DetailOf(d.line)
  <2>1. PICK l \in Staged("line") : d = DetailOf(l)
    BY DEF DetailQuery, DetailOf
  <2>2. l \in Lines /\ d.line = l
    BY <2>1 DEF Staged, KeyOf, Lines, DetailOf, Shape, TypeOK
  <2> QED
    BY <2>1, <2>2
<1>5. ASSUME NEW h \in ShippingQuery
      PROVE  \E l \in Lines : h.order = refers[l].order /\ h.address = refers[l].address
  BY <1>3 DEF ShippingQuery
<1>6. ASSUME NEW p \in RatedQuery
      PROVE  \E l \in Lines : /\ p.order = refers[l].order
                             /\ refers[l].rate # NoRate /\ p.pair = PairOf[refers[l].rate]
  BY <1>3 DEF RatedQuery
<1>7. \A d \in detail' : d \in detail \/ d \in DetailQuery
  BY DEF Loading, BeginLoad, AbortLoad
<1>8. \A h \in shipping' : h \in shipping \/ h \in ShippingQuery
  BY DEF Loading, BeginLoad, AbortLoad
<1>9. \A p \in rated' : p \in rated \/ p \in RatedQuery
  BY DEF Loading, BeginLoad, AbortLoad
<1> QED
  BY <1>1, <1>2, <1>4, <1>5, <1>6, <1>7, <1>8, <1>9 DEF Linked

\* What was in a satellite stays in it.
LEMMA HasKept ==
    ASSUME Shape, Progress, Loading, NEW e \in Entity, NEW k, Has(e, k)
    PROVE  Has(e, k)'
<1>1. PICK s \in sat[e] : s.key = k
  BY DEF Has
<1>2. CASE Grew(e) \/ sat'[e] = sat[e]
  <2>1. s \in sat'[e]
    BY <1>2 DEF Grew
  <2> QED
    BY <1>1, <2>1 DEF Has
<1>3. CASE sat'[e] = EndDate(sat[e], sat[e])
  <2> DEFINE F(x) == [x EXCEPT !.end = IF x \in sat[e] THEN NextLoad(sat[e], x) ELSE x.dtm]
  <2>1. F(s) \in sat'[e]
    BY <1>3 DEF EndDate
  <2>2. F(s).key = s.key
    BY DEF Shape, TypeOK
  <2> HIDE DEF F
  <2> QED
    BY <1>1, <2>1, <2>2 DEF Has
<1> QED
  BY <1>2, <1>3, SatLoading

\* The statement of a table brings in every key that is staged for it.
LEMMA ArrivedStep ==
    ASSUME Shape, Shape', Progress, Linked, Arrived, Loading
    PROVE  Arrived'
<1>1. ASSUME BeginLoad
      PROVE  /\ \A e \in Entity : \A k \in KeyOf[e] : k \in staged' => StepOf(e) \in todo'
             /\ \A l \in Line : l \in staged' => <<"link", "detail">> \in todo'
             /\ \A o \in Order : o \in staged' => <<"link", "shipping">> \in todo'
  BY <1>1, BeginFact, StatementsFact
<1>2. refers' = refers /\ detail \subseteq detail' /\ shipping \subseteq shipping'
  BY DEF Loading, BeginLoad, AbortLoad, Ran
<1>3. Distinct' = Distinct
  BY <1>2 DEF Distinct
<1>4. \A s, t : Ran(s) /\ Ran(t) => s = t
  BY DEF Ran
<1>5. ASSUME NEW e \in Entity, NEW k \in KeyOf[e], Settled(k, StepOf(e))'
      PROVE  Has(e, k)'
  <2>1. Settled(k, StepOf(e)) \/ (k \in staged /\ Ran(StepOf(e)))
    BY <1>1, <1>5, SettledFact
  <2>2. CASE Has(e, k)
    BY <2>2, HasKept
  <2>3. CASE k \in staged /\ Ran(StepOf(e)) /\ ~Has(e, k)
    <3>1. \A f : StepOf(e) # <<"enddate", f>>
      BY DEF StepOf
    <3>2. Grew(e)
      BY <1>4, <2>3, <3>1, SatLoading
    <3>3. PICK changed \in SUBSET Staged(e) :
              /\ \A x \in Staged(e) : RowsOf(sat[e], x) = {} => x \in changed
              /\ sat'[e] = sat[e] \cup Inserted(e, changed)
      BY <3>2 DEF Grew
    <3>4. k \in changed
      BY <2>3, <3>3 DEF Staged, Has, RowsOf
    <3>5. [key |-> k, dtm |-> load, end |-> NoEnd] \in sat'[e]
      BY <3>3, <3>4 DEF Inserted
    <3> QED
      BY <3>5 DEF Has
  <2> QED
    BY <2>1, <2>2, <2>3 DEF Arrived
<1>6. ASSUME Distinct, NEW l \in Line, Settled(l, <<"link", "detail">>)'
      PROVE  \E d \in detail' : d.line = l
  <2>1. Settled(l, <<"link", "detail">>) \/ (l \in staged /\ Ran(<<"link", "detail">>))
    BY <1>1, <1>6, SettledFact
  <2>2. CASE Settled(l, <<"link", "detail">>)
    BY <1>2, <1>6, <2>2 DEF Arrived
  <2>3. CASE l \in staged /\ Ran(<<"link", "detail">>)
    <3> DEFINE d == DetailOf(l)
    <3>1. detail' = detail \cup DetailQuery
      <4>1. \A e \in Entity : StepOf(e) # <<"link", "detail">>
        BY DEF StepOf
      <4>2. /\ StepOf("country") = <<"ref", "country">>
            /\ \A e \in Entity \ {"country"} : StepOf(e) = <<"sat", e>>
            /\ "country" \in Entity
        BY DEF StepOf, Entity
      <4>3. ~BeginLoad /\ ~AbortLoad
        BY <2>3 DEF Ran, BeginLoad, AbortLoad, Progress
      <4>4. <<"link", "detail">> # <<"link", "shipping">>
            /\ \A e : <<"enddate", e>> # <<"link", "detail">>
        OBVIOUS
      <4> QED
        BY <1>4, <2>3, <4>1, <4>2, <4>3, <4>4 DEF Loading
    <3>2. CASE d \in DetailQuery
      BY <3>1, <3>2 DEF DetailOf
    <3>3. CASE d \notin DetailQuery
      <4>1. PICK x \in detail : x.order = d.order /\ x.product = d.product /\ x.offer = d.offer
        BY <2>3, <3>3 DEF DetailQuery, DetailOf, Staged, KeyOf
      <4>2. /\ x.line \in Line /\ refers[x.line].order = refers[l].order
            /\ refers[x.line].product = refers[l].product
            /\ refers[x.line].offer = refers[l].offer
        BY <4>1 DEF Linked, Lines, DetailOf
      <4>3. x.line = l
        BY <1>6, <4>2 DEF Distinct
      <4> QED
        BY <1>2, <4>3
    <3> QED
      BY <3>2, <3>3
  <2> QED
    BY <2>1, <2>2, <2>3
<1>7. ASSUME Distinct, NEW o \in Order, Settled(o, <<"link", "shipping">>)'
      PROVE  \E h \in shipping' : h.order = o
  <2>1. Settled(o, <<"link", "shipping">>) \/ (o \in staged /\ Ran(<<"link", "shipping">>))
    BY <1>1, <1>7, SettledFact
  <2>2. CASE Settled(o, <<"link", "shipping">>)
    BY <1>2, <1>7, <2>2 DEF Arrived
  <2>3. CASE o \in staged /\ Ran(<<"link", "shipping">>)
    <3>1. shipping' = shipping \cup ShippingQuery
      <4>1. \A e \in Entity : StepOf(e) # <<"link", "shipping">>
        BY DEF StepOf
      <4>2. /\ StepOf("country") = <<"ref", "country">>
            /\ \A e \in Entity \ {"country"} : StepOf(e) = <<"sat", e>>
            /\ "country" \in Entity
        BY DEF StepOf, Entity
      <4>3. ~BeginLoad /\ ~AbortLoad
        BY <2>3 DEF Ran, BeginLoad, AbortLoad, Progress
      <4>4. <<"link", "detail">> # <<"link", "shipping">>
            /\ \A e : <<"enddate", e>> # <<"link", "shipping">>
        OBVIOUS
      <4> QED
        BY <1>4, <2>3, <4>1, <4>2, <4>3, <4>4 DEF Loading
    <3>2. PICK l \in Lines : refers[l].order = o
      BY <2>3 DEF Shape, TypeOK, Consistent, Lines
    <3> DEFINE h == [order |-> refers[l].order, address |-> refers[l].address]
    <3>3. CASE h \in ShippingQuery
      BY <3>1, <3>2, <3>3
    <3>4. CASE h \notin ShippingQuery
      <4>1. PICK x \in shipping : x.address = h.address
        BY <2>3, <3>2, <3>4 DEF ShippingQuery, StagedHeads, Staged, KeyOf
      <4>2. PICK m \in Lines : x.order = refers[m].order /\ x.address = refers[m].address
        BY DEF Linked
      <4>3. refers[m].order = refers[l].order
        BY <1>6, <1>7, <4>1, <4>2 DEF Distinct, Lines
      <4> QED
        BY <1>2, <3>2, <4>2, <4>3
    <3> QED
      BY <3>3, <3>4
  <2> QED
    BY <2>1, <2>2, <2>3
<1> QED
  BY <1>3, <1>5, <1>6, <1>7 DEF Arrived

\* The vault keeps what its loads promise, whatever the star runs do.
THEOREM VaultInvariant == Spec => []VaultInv
<1>1. Init => VaultInv
  <2> SUFFICES ASSUME Init PROVE VaultInv
    OBVIOUS
  <2>1. /\ todo = {} /\ staged = {} /\ lost = source \ Full /\ calm = {} /\ loaded = FALSE
        /\ detail = {} /\ shipping = {} /\ rated = {} /\ OneHead
        /\ \A e \in Entity : sat[e] = {}
    BY DEF Init
  <2>2. \A k, step : ~Settled(k, step)
    BY <2>1 DEF Settled
  <2> QED
    BY <2>1, <2>2, DatedFact
    DEF VaultInv, Progress, Dating, Linked, Arrived, OnePerLoad, OneOpen
<1>2. Shape /\ Shape' /\ VaultInv /\ [Next]_vars => VaultInv'
  <2> SUFFICES ASSUME Shape, Shape', VaultInv, [Next]_vars PROVE VaultInv'
    OBVIOUS
  <2>1. CASE VaultStep
    <3>1. Loading
      BY <2>1, LoadingFact DEF Shape
    <3> QED
      BY <3>1, ProgressStep, DatingStep, LinkedStep, ArrivedStep DEF VaultInv
  <2>2. CASE UNCHANGED vault /\ (calm' = calm \/ loaded)
    <3>1. Progress'
      BY <2>2 DEF VaultInv, Progress, vault
    <3>2. Dating'
      BY <2>2 DEF VaultInv, Dating, vault
    <3>3. Linked'
      BY <2>2 DEF VaultInv, Linked, DetailOf, Lines, OneHead, vault
    <3>4. \A k, step : Settled(k, step)' <=> Settled(k, step)
      BY <2>2 DEF Settled, vault
    <3>5. Distinct' <=> Distinct
      BY <2>2 DEF Distinct, vault
    <3>6. Arrived'
      BY <2>2, <3>4, <3>5 DEF VaultInv, Arrived, Has, vault
    <3> QED
      BY <3>1, <3>2, <3>3, <3>6 DEF VaultInv
  <2> QED
    BY <2>1, <2>2, OutsideFact
<1> QED
  BY <1>1, <1>2, ShapeInvariant, PTL DEF Spec

-----------------------------------------------------------------------------
(***************************************************************************)
(* The star beside a vault at rest.                                        *)
(***************************************************************************)
\* What a query of a dimension gives does not depend on the star.
LEMMA DimensionsRest ==
    ASSUME UNCHANGED vault
    PROVE  \A t \in Dimension : Query(t)' = Query(t)
<1>1. /\ SalesOrderQuery' = SalesOrderQuery /\ ProductQuery' = ProductQuery
      /\ AddressQuery' = AddressQuery /\ CurrencyQuery' = CurrencyQuery
  BY DEF vault, SalesOrderQuery, ProductQuery, AddressQuery, CurrencyQuery, Active, Current, Versions
<1> QED
  BY <1>1 DEF Query, Dimension, StarTask

\* The query of the fact table reads three dimensions.
LEMMA FactRest ==
    ASSUME UNCHANGED vault, \A d \in Inputs("fact") : star'[d] = star[d]
    PROVE  Query("fact")' = Query("fact")
<1>1. /\ star'["dim_salesorder"] = star["dim_salesorder"]
      /\ star'["dim_address"] = star["dim_address"]
      /\ star'["dim_currency"] = star["dim_currency"]
  BY DEF Inputs
<1>2. UNCHANGED <<sat, detail, shipping, rated>>
  BY DEF vault
<1>3. \A o : Converted(o)' = Converted(o)
  BY <1>1, <1>2 DEF Converted, RatesOf
<1>4. FactQuery' = FactQuery
  BY <1>1, <1>2, <1>3 DEF FactQuery, FactFrom, Joined, Fact
<1> QED
  BY <1>4 DEF Query

\* What run r has built so far is, in hand or in place, what its query gives.
AsQueried(r) ==
    \A t \in Task :
        /\ ti[r][t] = "success" => star[t] = Query(t)
        /\ ti[r][t] = "running" /\ result[r][t] # NoTable => result[r][t] = Query(t)

\* On a vault at rest the tables are still what their queries give.
Built == \A r \in calm : Quiet(r) => AsQueried(r)

\* A task of the run itself builds what its query gives.
LEMMA OwnBuild ==
    ASSUME Shape, UpstreamDone, NEW r \in Run, NEW t \in Task, TaskStep(r, t), AsQueried(r)
    PROVE  AsQueried(r)'
<1> USE Graph
<1>1. /\ ti[r][t] = "running" /\ UNCHANGED vault
      /\ t # "fact" => ti[r]["fact"] \notin {"running", "success"}
  BY TaskStepFact, FactAfterDimensions
<1>2. \A u \in Task : u # t => star'[u] = star[u] /\ ti'[r][u] = ti[r][u]
  <2>1. star' = star \/ \E rows : star' = [star EXCEPT ![t] = rows]
    BY DEF TaskStep, DropStar, Read, Write, Fail
  <2>2. \A u \in Task : u # t => ti'[r][u] = ti[r][u]
    BY TaskStates DEF Shape, TypeOK
  <2> QED
    BY <2>1, <2>2 DEF Shape
<1>3. ASSUME NEW u \in Task, ti'[r][u] \in {"running", "success"}
      PROVE  Query(u)' = Query(u)
  <2>1. CASE u # "fact"
    BY <1>1, <2>1, DimensionsRest DEF Dimension, StarTask
  <2>2. CASE u = "fact"
    <3>1. t = "fact"
      BY <1>1, <1>2, <1>3, <2>2
    <3>2. \A d \in Inputs("fact") : star'[d] = star[d]
      BY <1>2, <3>1
    <3> QED
      BY <1>1, <2>2, <3>2, FactRest
  <2> QED
    BY <2>1, <2>2
<1> SUFFICES ASSUME NEW u \in Task, ti'[r][u] \in {"running", "success"}
             PROVE  /\ ti'[r][u] = "success" => star'[u] = Query(u)
                    /\ ti'[r][u] = "running" /\ result'[r][u] # NoTable => result'[r][u] = Query(u)
  BY <1>3 DEF AsQueried
<1>4. CASE u # t
  <2>1. result'[r][u] = result[r][u]
    <3>1. result' = result \/ \E rows : result' = [result EXCEPT ![r] = [@ EXCEPT ![t] = rows]]
      BY DEF TaskStep, DropStar, Read, Write, Fail, Forget
    <3> QED
      BY <1>4, <3>1 DEF Shape
  <2> QED
    BY <1>2, <1>4, <2>1 DEF AsQueried
<1>5. CASE u = t
  <2>1. CASE DropStar(r, t)
    BY <1>1, <1>5, <2>1 DEF DropStar, dagVars, AsQueried
  <2>2. CASE Read(r, t)
    <3>1. ti' = ti /\ result' = [result EXCEPT ![r] = [@ EXCEPT ![t] = Query(t)]]
      BY <2>2 DEF Read, dagVars
    <3>2. result'[r][t] = Query(t)
      BY <3>1 DEF Shape
    <3> QED
      BY <1>1, <1>5, <3>1, <3>2
  <2>3. CASE Write(r, t)
    <3>1. star'[t] = result[r][t] /\ result[r][t] # NoTable
      BY <2>3 DEF Write, Shape
    <3>2. ti'[r][t] # "running"
      BY <2>3 DEF Write, FinishTask, FailTask, SetTask, Shape, TypeOK, DagTypeOK
    <3> QED
      BY <1>1, <1>5, <3>1, <3>2 DEF AsQueried
  <2>4. CASE Fail(r, t)
    <3>1. ti'[r][t] = "failed"
      BY <2>4 DEF Fail, FailTask, SetTask, Shape, TypeOK, DagTypeOK
    <3> QED
      BY <1>5, <3>1
  <2> QED
    BY <2>1, <2>2, <2>3, <2>4 DEF TaskStep
<1> QED
  BY <1>4, <1>5

\* The tables of the star follow from the vault while it rests.
LEMMA BuiltStep ==
    ASSUME Shape, UpstreamDone, Unborn, ApartInv, Built, [Next]_vars
    PROVE  Built'
<1> SUFFICES ASSUME NEW r \in calm', Quiet(r)'
             PROVE  AsQueried(r)'
  BY DEF Built
<1> USE Graph
<1>0. calm \subseteq apart /\ apart \subseteq Run /\ DagTypeOK
  BY DEF Shape, TypeOK
<1>1. ASSUME r \in calm, UNCHANGED <<vault, work>>, Scheduled \/ ti' = ti
      PROVE  AsQueried(r)'
  <2>1. r \in Run /\ AsQueried(r)
    BY <1>0, <1>1, QuietBack DEF Built
  <2>2. UNCHANGED <<star, result>>
    BY <1>1 DEF work
  <2>3. \A t \in Task : Query(t)' = Query(t)
    BY <1>1, <2>2, DimensionsRest, FactRest DEF Dimension, StarTask
  <2>4. \A t \in Task : ti'[r][t] = "success" => ti[r][t] = "success"
    BY <1>1, <2>1 DEF Scheduled
  <2>5. \A t \in Task : result[r][t] # NoTable => ti[r][t] = "running"
    <3>1. \A t \in Task : result[r][t] # NoTable => <<r, t>> \in Executing
      BY <1>0, <2>1 DEF Shape, TypeOK
    <3> QED
      BY <3>1 DEF Executing
  <2> QED
    BY <2>1, <2>2, <2>3, <2>4, <2>5 DEF AsQueried
<1>2. CASE VaultStep
  BY <1>2, VaultFact
<1>3. CASE Stop \/ UNCHANGED vars
  BY <1>1, <1>3 DEF Stop, Idle, vars, dagVars
<1>4. ASSUME NEW q \in Run, Schedule(q) PROVE AsQueried(r)'
  <2>1. UNCHANGED <<vault, work>> /\ ((Create(q) /\ ti' = ti) \/ Scheduled)
    BY <1>0, <1>4, ScheduleFact
  <2>2. CASE r \in calm
    BY <1>1, <2>1, <2>2
  <2>3. CASE r \notin calm
    <3>1. r = q /\ run[r] = "none" /\ ti' = ti
      BY <2>1, <2>3 DEF Scheduled, Create, CreateRun
    <3>2. \A t \in Task : ti'[r][t] = "none"
      BY <1>4, <3>1 DEF Unborn
    <3> QED
      BY <3>2 DEF AsQueried
  <2> QED
    BY <2>2, <2>3
<1>5. ASSUME NEW q \in Run, NEW t \in Task, TaskStep(q, t) PROVE AsQueried(r)'
  <2>1. r \in calm /\ ti[q][t] = "running"
    BY <1>5, TaskStepFact
  <2>2. r \in Run /\ r \in apart /\ Quiet(r)
    BY <1>0, <2>1, QuietBack
  <2>3. q = r
    BY <2>1, <2>2, OnlyOwn
  <2> QED
    BY <1>5, <2>1, <2>2, <2>3, OwnBuild DEF Built
<1> QED
  BY <1>2, <1>3, <1>4, <1>5 DEF Next, VaultStep, TaskStep

\* While the loaded vault rests, the tables of a star run that nothing
\* disturbs are what their queries give.
THEOREM BuiltInvariant == Spec => []Built
<1>1. Init => Built
  BY DEF Init, Built
<1>2. Shape /\ UpstreamDone /\ Unborn /\ ApartInv /\ Built /\ [Next]_vars => Built'
  BY BuiltStep
<1>3. DagInv => UpstreamDone
  BY DEF DagInv
<1> QED
  BY <1>1, <1>2, <1>3, StarImplementsDag, DagInvariant, NoTaskBeforeRun, ShapeInvariant,
     ApartInvariant, PTL DEF Spec

\* What a calm run finds: all tables as their queries give them, and all keys
\* in the vault that no failed load lost.
LEMMA AtRest ==
    ASSUME Shape, VaultInv, UpstreamDone, Built, NEW r \in calm, Latest(r)
    PROVE  /\ star["dim_salesorder"] = SalesOrderQuery
           /\ star["dim_product"] = ProductQuery
           /\ star["dim_address"] = AddressQuery
           /\ star["dim_currency"] = CurrencyQuery
           /\ star["fact"] = FactQuery
           /\ \A e \in Shown : OneOpen(sat[e])
           /\ \A k \in source : k \notin lost => \A step : Settled(k, step)
<1>1. loaded /\ todo = {} /\ r \in Run /\ Quiet(r)
  BY DEF VaultInv, Progress, Shape, TypeOK, Latest, Quiet
<1>2. \A t \in Task : ti[r][t] = "success"
  BY <1>1, Graph DEF Latest, UpstreamDone
<1>3. \A t \in Task : star[t] = Query(t)
  BY <1>1, <1>2 DEF Built, AsQueried
<1>4. ASSUME NEW e \in Shown PROVE OneOpen(sat[e])
  <2>1. CASE e \in Dated
    BY <1>1, <2>1 DEF VaultInv, Dating
  <2>2. CASE e \notin Changing
    <3>1. \A s \in sat[e] : s.end = NoEnd /\ \A x \in sat[e] : x.key = s.key => x = s
      BY <2>2 DEF VaultInv, Dating
    <3>2. \A s \in sat[e] : RowsOf(Current(sat[e]), s.key) = {s}
      BY <3>1 DEF RowsOf, Current
    <3> QED
      BY <3>2 DEF OneOpen
  <2> QED
    BY <2>1, <2>2, DatedFact
<1>5. ASSUME NEW k \in source, k \notin lost, NEW step PROVE Settled(k, step)
  BY <1>1, <1>5 DEF Settled, VaultInv, Progress
<1> QED
  BY <1>3, <1>4, <1>5, Graph DEF Query

\* A dimension of active versions has one row per key.
LEMMA UniqueVersions ==
    ASSUME NEW S, OneOpen(S)
    PROVE  /\ \A x, y \in Versions(Current(S)) : x.key = y.key => x = y
           /\ \A s \in S : \E x \in Versions(Current(S)) : x.key = s.key
<1>1. ASSUME NEW x \in Versions(Current(S)), NEW y \in Versions(Current(S)), x.key = y.key
      PROVE  x = y
  <2>1. PICK s \in Current(S) : x = [key |-> s.key, dtm |-> s.dtm]
    BY DEF Versions
  <2>2. PICK t \in Current(S) : y = [key |-> t.key, dtm |-> t.dtm]
    BY DEF Versions
  <2>3. s \in S /\ t \in RowsOf(Current(S), s.key) /\ s \in RowsOf(Current(S), s.key)
    BY <1>1, <2>1, <2>2 DEF Current, RowsOf
  <2>4. s = t
    BY <2>3 DEF OneOpen
  <2> QED
    BY <2>1, <2>2, <2>4
<1>2. ASSUME NEW s \in S PROVE \E x \in Versions(Current(S)) : x.key = s.key
  <2>1. PICK y \in S : RowsOf(Current(S), s.key) = {y}
    BY DEF OneOpen
  <2>2. y \in Current(S) /\ y.key = s.key
    BY <2>1 DEF RowsOf
  <2>3. [key |-> y.key, dtm |-> y.dtm] \in Versions(Current(S))
    BY <2>2 DEF Versions
  <2> QED
    BY <2>2, <2>3
<1> QED
  BY <1>1, <1>2

-----------------------------------------------------------------------------
(***************************************************************************)
(* Dimensions of active versions beside a vault that changes.              *)
(***************************************************************************)
\* Where no end dating is awaited, a dimension of active versions gets one
\* row per key.
LEMMA ReadOnce ==
    ASSUME Shape, VaultInv, NEW t \in DOMAIN Shows, ~Awaits(t)
    PROVE  OneVersion(Query(t))
<1> DEFINE e == Shows[t]
<1>1. e \in Shown /\ Query(t) = Versions(Current(sat[e]))
  BY DEF Shows, Shown, Query, SalesOrderQuery, ProductQuery, Active
<1>2. CASE e \in Dated
  <2>1. (loaded \/ todo # {}) /\ <<"enddate", e>> \notin todo
    BY <1>2 DEF Awaits
  <2>2. OneOpen(sat[e])
    BY <1>2, <2>1 DEF VaultInv, Dating
  <2> QED
    BY <1>1, <2>2, UniqueVersions DEF OneVersion
<1>3. CASE e \notin Dated
  <2>1. \A s, x \in sat[e] : x.key = s.key => x = s
    BY <1>1, <1>3, DatedFact DEF VaultInv, Dating
  <2> QED
    BY <1>1, <2>1 DEF OneVersion, Versions, Current
<1> QED
  BY <1>2, <1>3

\* What run r has built so far of such dimensions, in hand or in place.
Once(r) ==
    \A t \in DOMAIN Shows : <<r, t>> \notin early =>
        /\ ti[r][t] = "success" => OneVersion(star[t])
        /\ ti[r][t] = "running" /\ result[r][t] # NoTable => OneVersion(result[r][t])

OnceInv == \A r \in apart : Quiet(r) => Once(r)

\* A task of the run itself reads no key twice, or early.
LEMMA OwnOnce ==
    ASSUME Shape, VaultInv, NEW r \in Run, NEW t \in Task, TaskStep(r, t), Once(r)
    PROVE  Once(r)'
<1>1. ti[r][t] = "running" /\ DOMAIN Shows \subseteq Task /\ early \subseteq early'
  <2>1. early \subseteq early'
    BY DEF TaskStep, DropStar, Read, Write, Fail
  <2> QED
    BY <2>1, Graph, TaskStepFact DEF Shows
<1>2. \A u \in Task : u # t => /\ star'[u] = star[u] /\ ti'[r][u] = ti[r][u]
                              /\ result'[r][u] = result[r][u]
  <2>1. star' = star \/ \E rows : star' = [star EXCEPT ![t] = rows]
    BY DEF TaskStep, DropStar, Read, Write, Fail
  <2>2. \A u \in Task : u # t => ti'[r][u] = ti[r][u]
    BY TaskStates DEF Shape, TypeOK
  <2>3. result' = result \/ \E rows : result' = [result EXCEPT ![r] = [@ EXCEPT ![t] = rows]]
    BY DEF TaskStep, DropStar, Read, Write, Fail, Forget
  <2> QED
    BY <2>1, <2>2, <2>3 DEF Shape
<1> SUFFICES ASSUME NEW u \in DOMAIN Shows, <<r, u>> \notin early'
             PROVE  /\ ti'[r][u] = "success" => OneVersion(star'[u])
                    /\ ti'[r][u] = "running" /\ result'[r][u] # NoTable => OneVersion(result'[r][u])
  BY DEF Once, OneVersion, Shows
<1>3. CASE u # t
  BY <1>1, <1>2, <1>3 DEF Once
<1>4. CASE u = t
  <2>1. CASE DropStar(r, t)
    BY <1>1, <1>4, <2>1 DEF DropStar, dagVars, Once
  <2>2. CASE Read(r, t)
    <3>1. ti' = ti /\ result'[r][t] = Query(t)
      BY <2>2 DEF Read, dagVars, Shape
    <3>2. ~Awaits(t)
      BY <1>4, <2>2 DEF Read
    <3>3. OneVersion(Query(t))
      BY <1>4, <3>2, ReadOnce
    <3> QED
      BY <1>1, <1>4, <3>1, <3>3
  <2>3. CASE Write(r, t)
    <3>1. star'[t] = result[r][t] /\ result[r][t] # NoTable
      BY <2>3 DEF Write, Shape
    <3>2. ti'[r][t] # "running"
      BY <2>3 DEF Write, FinishTask, FailTask, SetTask, Shape, TypeOK, DagTypeOK
    <3> QED
      BY <1>1, <1>4, <3>1, <3>2 DEF Once
  <2>4. CASE Fail(r, t)
    <3>1. ti'[r][t] = "failed"
      BY <2>4 DEF Fail, FailTask, SetTask, Shape, TypeOK, DagTypeOK
    <3> QED
      BY <1>4, <3>1
  <2> QED
    BY <2>1, <2>2, <2>3, <2>4 DEF TaskStep
<1> QED
  BY <1>3, <1>4

\* Whatever the vault does, the dimensions stay as they were read.
LEMMA OnceStep ==
    ASSUME Shape, VaultInv, Unborn, ApartInv, OnceInv, [Next]_vars
    PROVE  OnceInv'
<1> SUFFICES ASSUME NEW r \in apart', Quiet(r)'
             PROVE  Once(r)'
  BY DEF OnceInv
<1>0. apart \subseteq Run /\ DagTypeOK /\ DOMAIN Shows \subseteq Task
  BY Graph DEF Shape, TypeOK, Shows
<1>1. ASSUME r \in apart, UNCHANGED <<work, early>>, Scheduled \/ ti' = ti
      PROVE  Once(r)'
  <2>1. r \in Run /\ Quiet(r)
    BY <1>0, <1>1, QuietBack
  <2>2. Once(r)
    BY <1>1, <2>1 DEF OnceInv
  <2>3. UNCHANGED <<star, result, early>>
    BY <1>1 DEF work
  <2>4. \A t \in Task : ti'[r][t] = "success" => ti[r][t] = "success"
    BY <1>1, <2>1 DEF Scheduled
  <2>5. \A t \in Task : result[r][t] # NoTable => ti[r][t] = "running"
    <3>1. \A t \in Task : result[r][t] # NoTable => <<r, t>> \in Executing
      BY <2>1 DEF Shape, TypeOK
    <3> QED
      BY <3>1 DEF Executing
  <2> QED
    BY <1>0, <2>2, <2>3, <2>4, <2>5 DEF Once, OneVersion
<1>2. CASE VaultStep \/ Stop \/ UNCHANGED vars
  BY <1>1, <1>2, VaultFact DEF Stop, Idle, vars, dagVars
<1>3. ASSUME NEW q \in Run, Schedule(q) PROVE Once(r)'
  <2>1. UNCHANGED <<work, early>> /\ ((Create(q) /\ ti' = ti) \/ Scheduled)
    BY <1>0, <1>3, ScheduleFact DEF Schedule
  <2>2. CASE r \in apart
    BY <1>1, <2>1, <2>2
  <2>3. CASE r \notin apart
    <3>1. r = q /\ run[r] = "none" /\ ti' = ti
      BY <2>1, <2>3 DEF Scheduled, Create, CreateRun
    <3>2. \A t \in Task : ti'[r][t] = "none"
      BY <1>3, <3>1 DEF Unborn
    <3> QED
      BY <1>0, <3>2 DEF Once
  <2> QED
    BY <2>2, <2>3
<1>4. ASSUME NEW q \in Run, NEW t \in Task, TaskStep(q, t) PROVE Once(r)'
  <2>1. r \in apart /\ ti[q][t] = "running"
    BY <1>4, TaskStepFact
  <2>2. r \in Run /\ Quiet(r)
    BY <1>0, <2>1, QuietBack
  <2>3. q = r
    BY <2>1, <2>2, OnlyOwn
  <2> QED
    BY <1>4, <2>1, <2>2, <2>3, OwnOnce DEF OnceInv
<1> QED
  BY <1>2, <1>3, <1>4 DEF Next

\* Whatever the loads do before and after it is read, a dimension of active
\* versions has one row for each key, however many versions the key has had,
\* unless it is read between the load of its satellite and the end dating, or
\* after a load that did not get there.
THEOREM DimensionsUnique == Spec => []DimensionUnique
<1>1. Init => OnceInv
  BY DEF Init, OnceInv
<1>2. Shape /\ VaultInv /\ Unborn /\ ApartInv /\ OnceInv /\ [Next]_vars => OnceInv'
  BY OnceStep
<1>3. Shape /\ UpstreamDone /\ OnceInv => DimensionUnique
  <2> SUFFICES ASSUME Shape, UpstreamDone, OnceInv, NEW r \in apart, Latest(r),
                      NEW t \in DOMAIN Shows, <<r, t>> \notin early
               PROVE  OneVersion(star[t])
    BY DEF DimensionUnique
  <2>1. r \in Run /\ Quiet(r) /\ t \in Task /\ t \in Upstream["fact"]
    BY Graph DEF Shape, TypeOK, Latest, Quiet, Shows
  <2>2. ti[r][t] = "success"
    BY <2>1, Graph DEF Latest, UpstreamDone
  <2> QED
    BY <2>1, <2>2 DEF OnceInv, Once
<1>4. DagInv => UpstreamDone
  BY DEF DagInv
<1> QED
  BY <1>1, <1>2, <1>3, <1>4, ShapeInvariant, VaultInvariant, NoTaskBeforeRun, ApartInvariant,
     StarImplementsDag, DagInvariant, PTL DEF Spec

-----------------------------------------------------------------------------
(***************************************************************************)
(* The facts of a star run on a vault at rest.                             *)
(***************************************************************************)
\* On a loaded vault at rest the product of each fact, which comes from the
\* link, is a row of dim_product.
THEOREM ProductsResolve == Spec => []ProductResolves
<1>1. Shape /\ VaultInv /\ UpstreamDone /\ Built => ProductResolves
  <2> SUFFICES ASSUME Shape, VaultInv, UpstreamDone, Built, NEW r \in calm, Latest(r),
                      NEW f \in star["fact"]
               PROVE  \E p \in star["dim_product"] : p.key = f.product
    BY DEF ProductResolves
  <2>1. PICK v \in sat["line"], d \in detail, o \in star["dim_salesorder"], h \in shipping,
             a \in star["dim_address"], c \in star["dim_currency"] \cup {NoRate} :
                Joined(v, d, o, h, a, c) /\ f = Fact(v, d, o, a, c)
    BY AtRest, FactOf
  <2>2. d \in detail /\ f.product = d.product
    BY <2>1 DEF Fact
  <2>3. f.product \in source /\ f.product \in Product
    <3>1. d.line \in Lines /\ d.product = refers[d.line].product
      BY DEF VaultInv, Linked, DetailOf
    <3> QED
      BY <2>2, <3>1 DEF Lines, Shape, TypeOK, Consistent
  <2>4. Settled(f.product, StepOf("product"))
    BY <2>3, AtRest DEF Shape, TypeOK, Full
  <2>5. Has("product", f.product)
    BY <2>3, <2>4 DEF VaultInv, Arrived, Entity, KeyOf
  <2>6. OneOpen(sat["product"]) /\ star["dim_product"] = Versions(Current(sat["product"]))
    BY AtRest DEF Shown, ProductQuery, Active
  <2> QED
    BY <2>5, <2>6, UniqueVersions DEF Has
<1>2. DagInv => UpstreamDone
  BY DEF DagInv
<1> QED
  BY <1>1, <1>2, ShapeInvariant, VaultInvariant, BuiltInvariant, StarImplementsDag, DagInvariant, PTL

\* Where the links lose nothing, no order line is missing from the fact table
\* on a loaded vault at rest, unless what it needs changed before the first
\* load or in one that failed, or its rate is of another day than the order.
THEOREM FactsComplete == Spec => [](Distinct => FactComplete)
<1>1. Shape /\ VaultInv /\ UpstreamDone /\ Built => (Distinct => FactComplete)
  <2> SUFFICES ASSUME Shape, VaultInv, UpstreamDone, Built, Distinct, NEW r \in calm, Latest(r),
                      NEW l \in Lines, Needs(l) \cap lost = {}, OnItsDay(l)
               PROVE  \E f \in star["fact"] : f.line = l
    BY DEF FactComplete
  <2> DEFINE o == refers[l].order
             a == refers[l].address
             n == CountryOf[a]
             m == refers[l].rate
  <2>1. /\ l \in Line /\ o \in Order /\ a \in Address /\ n \in Country
        /\ {l, o, a, n} \subseteq source /\ m \in Rate \cup {NoRate}
        /\ m # NoRate => m \in source
    BY StarAssumption DEF Lines, Shape, TypeOK, Consistent, Reference
  <2>2. ASSUME NEW k \in {l, o, a, n, m}, k \in source, NEW step PROVE Settled(k, step)
    BY <2>2, AtRest DEF Needs
  <2>3. /\ Has("line", l) /\ Has("order", o) /\ Has("address", a) /\ Has("country", n)
        /\ m # NoRate => Has("rate", m)
    <3> HIDE DEF o, a, n, m
    <3> QED
      BY <2>1, <2>2 DEF VaultInv, Arrived, Entity, KeyOf
  <2>4. PICK s \in sat["line"] : s.key = l
    BY <2>3 DEF Has
  <2>5. PICK d \in detail : d.line = l /\ d.order = o
    BY <2>1, <2>2 DEF VaultInv, Arrived, Linked, DetailOf
  <2>6. PICK h \in shipping : h.order = o
    BY <2>1, <2>2 DEF VaultInv, Arrived
  <2>7. h.address = a
    BY <2>1, <2>6 DEF VaultInv, Linked, OneHead, Lines
  <2>8. PICK v \in star["dim_salesorder"] : v.key = o
    <3>1. OneOpen(sat["order"]) /\ star["dim_salesorder"] = Versions(Current(sat["order"]))
      BY AtRest DEF Shown, SalesOrderQuery, Active
    <3> QED
      BY <2>3, <3>1, UniqueVersions DEF Has
  <2>9. PICK w \in star["dim_address"] : w.key = a
    <3>1. PICK x \in sat["address"] : x.key = a
      BY <2>3 DEF Has
    <3>2. PICK y \in sat["country"] : y.key = n
      BY <2>3 DEF Has
    <3>3. [key |-> x.key, dtm |-> x.dtm, country |-> y.dtm] \in AddressQuery
      <4>1. <<x, y>> \in {z \in sat["address"] \X sat["country"] : CountryOf[z[1].key] = z[2].key}
        BY <3>1, <3>2
      <4> QED
        BY <4>1 DEF AddressQuery
    <3> QED
      BY <3>1, <3>3, AtRest
\* The rate of the order's day is among the rates of its pair, if there are any.
  <2>10. PICK c \in star["dim_currency"] \cup {NoRate} : c \in Converted(o)
    <3>1. CASE RatesOf(o) = {}
      BY <3>1 DEF Converted
    <3>2. ASSUME NEW x \in RatesOf(o)
          PROVE  \E c \in star["dim_currency"] : c \in Converted(o)
      <4>1. PICK p \in rated : p.order = o
        BY DEF RatesOf
      <4>2. PICK k \in Lines : /\ p.order = refers[k].order
                              /\ refers[k].rate # NoRate /\ p.pair = PairOf[refers[k].rate]
        BY DEF VaultInv, Linked
      <4>3. refers[k].rate = m
        BY <4>1, <4>2, <2>1 DEF VaultInv, Linked, OneHead, Lines
      <4>4. m # NoRate /\ p.pair = PairOf[m]
        BY <4>2, <4>3
      <4>5. PICK y \in sat["rate"] : y.key = m
        BY <2>3, <4>4 DEF Has
      <4> DEFINE c == [key |-> y.key, dtm |-> y.dtm]
      <4>6. c \in star["dim_currency"] /\ c.key = m
        BY <4>5, AtRest DEF CurrencyQuery, Versions
      <4>7. DateOf[m] = OrderDate[o]
        BY <4>4 DEF OnItsDay
      <4> HIDE DEF c, m, o
      <4>8. c \in RatesOf(o)
        BY <4>1, <4>4, <4>6 DEF RatesOf
      <4> QED
        BY <4>6, <4>7, <4>8 DEF Converted
    <3> QED
      BY <3>1, <3>2
  <2>11. Joined(s, d, v, h, w, c)
    BY <2>4, <2>5, <2>6, <2>7, <2>8, <2>9, <2>10 DEF Joined
  <2>12. Fact(s, d, v, w, c) \in FactQuery
    BY <2>11, FactFor
  <2> QED
    BY <2>4, <2>12, AtRest DEF Fact
<1>2. DagInv => UpstreamDone
  BY DEF DagInv
<1> QED
  BY <1>1, <1>2, ShapeInvariant, VaultInvariant, BuiltInvariant, StarImplementsDag, DagInvariant, PTL

=============================================================================
