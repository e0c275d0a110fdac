# Verification of the Data Vault 2 example pipeline

TLA+ models of the Airflow/Hive pipeline in `src/examples/datavault2-example`,
with TLC runs on small instances and TLAPS proofs for every size. The pipeline
copies the AdventureWorks sales tables from Postgres into Hive once a day, loads
a Data Vault (hubs, links, satellites) from them and builds a star schema on it.

`PROJECT.json` lists the components, the runs, the mutants that show each
property can fail, the source lines of every definition, the findings, the
hazards and the theorems.

## 1. The system

| Component | State it keeps | Operations | Hard behaviours | Correct when |
|---|---|---|---|---|
| Airflow running the DAGs (`airflow.cfg`, `args` and `dag` of each DAG file) | state of each run and task instance | create, end and time out runs; start, end, fail and skip tasks | tasks in parallel; failures without retry; a run that times out leaves its tasks executing | layers wait for each other; a successful run did all its work; every run ends |
| Initialisation DAG (`init_datavault2_example.py`, `sql/ddl`) | connections in Airflow's database, Hive databases and tables | write connections, create databases and tables | partial failure and repetition by hand | repeatable; complete when it says so; no statement comes too early |
| Staging (`hive_operators.py`, `hive_hooks.py`, `sql/staging`) | temporary file, HDFS file, staging table per run | query, DDL, HDFS put, LOAD DATA | three processes that fail one by one; one HDFS directory for all tasks; csv written, delimited text read | a successful task published exactly its own query; rows that fit the format arrive |
| Hubs and links (`sql/loading/hub_*`, `link_*`) | insert-only tables | insert what is not there | check and insert on a snapshot; parent and child staged at different moments | keys once; relationships complete, once, anchored |
| Satellites (`sql/loading/sat_*`, `sql/postupdates`) | versions of attributes with validity | insert changed versions; drop, rebuild and copy back to end date | a failure between load and end dating; overwrite while another run inserts; ties | history is append-only, well dated, answers as-of queries |
| Reference table (`ref_countryregion.hql`) | versions without hub | insert | matched by position, never end dated, staged by modifieddate | each address finds its country (that it finds one only does not hold: finding 4) |
| Star schema DAG (`starschema.py`, `sql/starschema`) | dimension and fact tables | drop and create each table daily | runs beside the load; reads the vault while it changes; tasks of a timed-out run drop and create what the next run builds | consistent in itself when no task of an earlier run is left; complete and unique on a vault at rest |
| Metastore and HiveServer2 hooks (`hive_hooks.py` 473-) | one client connection; used by no DAG | metastore calls, some of two requests | transport left open after a failure; tables that change between two requests; a server that goes away | an answer was true during its call; a call ends; who may leave the transport open |
| BigQuery upload, connection test, containers and start-up, source database, dbt skeleton, first exercise | | | | not modelled, see section 8 |

Interaction: the initialisation DAG creates what the other two take for granted.
In `adventureworks`, every staging task runs before any hub (`staging_done`),
every hub before any link (`hubs_done`), then satellites (`links_done`), then end
dating (`sats_done`). Tasks share nothing but Hive tables; Hive does not lock them.
`starschema` reads the vault on its own schedule. With `max_active_runs=1` the
next run starts when the one before ended, and a run that exceeds
`dagrun_timeout` has ended although its tasks are still executing. `starschema` sets
`depends_on_past`, but its `start_date` is `days_ago(1)`, computed anew at each parse: the run
before a daily run lies before `start_date`, Airflow 1.9 takes each instance for the first one
of its task, and nothing waits for an earlier run (finding 1).

## 2. The modules

| Module | Models | State and actions in terms of the code |
|---|---|---|
| `DagRun` | one Airflow DAG | `run[r]`, `ti[r][t]` are the rows of Airflow's `dag_run` and `task_instance`; `Upstream` is what `>>` sets; `CreateRun`, `EndRun`, `TimeoutRun`, `StartTask`, `FailUpstream` are the scheduler, `FinishTask`/`FailTask` the end of `run_cli` with return code 0 or not; `StartDate` moves with the run, which is what makes `PastDone` true |
| `InitDag` | the initialisation DAG, on `DagRun` | `Connect` is one `create_new_conn`, `Create` one CREATE statement, `CanRun` what beeline needs to connect |
| `Satellite` | the queries of one satellite | `NewVersions` is `loading/sat_*.hql`, `EndDate` with `LastRows` is `postupdates/sat_*.hql` (LEAD over rows that may tie) |
| `SatHistory` | abstract: an append-only, chronological history | implemented by `VaultLoad` |
| `VaultLoad` | one source table on its way to hub and satellite, on `DagRun` and `Satellite` | each Hive statement is `Read...` (its snapshot) and `Write...` (its result); `TearCopyback` is an INSERT OVERWRITE that dies with the table emptied |
| `LinkLoad` | two related source tables, the parent's hub and their link | constants select the staging filter, the feed of the hub and the columns of NOT EXISTS, which is how the nine links differ |
| `StageLoad` | `StagePostgresToHiveOperator.execute` and `HiveCliHook.load_file` | `Dump`, `DropTable`, `CreateTable`, `Put`, `Load`; `Fail` between any two and after each |
| `TextFormat` | the csv writer and Hive's reader, a pure encoding used by `StageLoad` | values are sequences of tokens of which quote, delimiter and line break mean something; `Written` quotes, `HiveRows` splits at every break and delimiter, quoted or not, and fits each line to the declared columns |
| `AtomicStage` | abstract: a batch is taken once and published once | implemented by `StageLoad`; it is what `VaultLoad` and `LinkLoad` use as staging |
| `StarSchema` | the starschema DAG beside the statements of a load | a task is `DropStar`, then `Read` (the query of its CREATE TABLE AS, refused if the table is there again or one it reads is missing) and `Write`; `Fail` at any point; `BeginLoad` stages, `LoadRef` is the reference table, `LoadDetail`, `LoadShipping`, `LoadRated`, `LoadSat`, `DateSat`, `AbortLoad` are the rest of the load; `apart` and `calm` note what a star run found when it started, `early` which dimensions were read before their satellite was end dated |
| `MetastoreClient` | `HiveMetastoreHook` | `transport` is `metastore._oprot.trans`, `req` and `pc` the method called and its next step; `Open`, `Rpc` (first or second request), `Close`, `Raise`; `Ddl`, `Disconnect`, `Restart` are other sessions and the server |
| `MC*` | values for TLC: graphs, `KeyOf` functions, symmetry sets | |
| `*Proofs` | theorems about the module they extend | section 6 |

Definitions named `X_Something` before `X` are mutants: a plausible bug of that
definition. No specification uses them.

What the models abstract, everywhere:

- A row is its hash key and one value for its descriptive attributes; a date is the
  number of the daily run. Distinct business keys have distinct hashes.
- DummyOperator knots are contracted into the edges they join.
- Hive tables are not transactional: a statement reads its inputs when it starts and
  commits when it ends. A failing INSERT INTO leaves nothing; a failing client may
  have committed.
- The tasks of a run that timed out go on (Airflow 1.9 marks the run only). Nobody
  clears or reruns load tasks by hand; repeating the initialisation is modelled.
- The executor is the LocalExecutor of `airflow.cfg`: tasks share one `/tmp`, so
  open temporary files have distinct names, and a name may be used again later.
- `hdfs dfs -put` is all or nothing and refuses an existing destination. A killed
  worker's local file is not modelled.
- `DROP TABLE` of a missing table is no error in Hive.

## 3. The runs

| Run | Instance | Distinct states | Shows |
|---|---|---|---|
| `init_rerun` | the scheduled run and one by hand | 40 000 | connections stay unique, nothing is refused, `all_done` means the load can start, and every run ends (`TypeOK`, `NothingRefused`, `LoadReady`, `Barrier`, `SuccessIsTotal`, `InitEnds`) |
| `dag_star` | starschema graph, 3 runs, timeouts, one client that never returns, 2 slots | 94 000 | a hung client keeps its slot for ever, and every run still ends (`RunsGoOn`) |
| `dag_unordered` | small load graph, 3 runs, `depends_on_past` False | violation | finding 1 |
| `vault_failures` | 1 key, 3 runs, failures anywhere | 514 000 | `HubUnique`, `WellDated`, `AsOf`, `CaughtUp`, `NoTrueDuplicates`, and that the satellite implements `SatHistory` |
| `vault_ties` | 2 source rows with one business key, staged by modifieddate; 2 runs; failures, torn overwrites | 159 000 | `OneActiveVersion`, `SatAnchored`, `HistoryRecoverable` |
| `vault_lost` | 1 key, 2 runs, timeouts | violation | finding 2 |
| `link_load` | 2 parents, 1 child, 2 keys, 2 runs, failures, timeouts | 1 060 000 | `LinkAnchored`, `FeedAnchored`, `LinkComplete`, `LinkUnique` |
| `link_address` | 1 parent, 2 children, NOT EXISTS without the child | violation | finding 3 |
| `stage_overlap` | 2 staging tasks, 2 runs, 2 file names, failures, timeouts; harmless rows, or rows with quotes, delimiters, breaks and NULLs | 389 000 | `StagedOwn`, `LeftoversOfFailures`, `RowsArrive`, and that staging implements `AtomicStage` |
| `metastore_calls` | 2 tables, one of which may have no, one or two partition columns, 2 partition values; every method, with and without filter; 3 states of the metastore during a call | 514 000 | `TrueAnswers`, `LeftOpenByFailure`, `CallsEnd` |
| `star_scenes` | four scenes, below | 1 100 000 | `FactResolves`, `DimensionUnique`, `ProductResolves`, `FactComplete` |
| `star_fanout` | the scene `rest` with 1 rate and countries that change | violation | finding 4 |

The scenes of `star_scenes` (`MCStarScenes`) have one row of each entity or none:

| Scene | Instance | Distinct states | Is about |
|---|---|---|---|
| `beside` | 1 line, order, product, address, country, rate; 1 load beside 1 star run, statement by statement | 237 000 | `FactResolves`, `DimensionUnique` while the vault changes |
| `versions` | 1 product that changes; 2 loads beside 1 star run with failing tasks | 117 000 | `DimensionUnique` of a dimension that is read before, between and after the statements of a load |
| `apart` | 2 star runs over an empty vault; timeouts | 84 000 | `FactResolves` while tables are dropped, refused and missing |
| `rest` | the rows of `beside` with 2 rates; 2 loads, 1 star run on a vault at rest | 667 000 | `ProductResolves`, `FactComplete` |

### Bounds, and why they are enough for what is asked

- Runs: two make an overlap, a rerun or a leftover; three let the load after the
  next one meet what the first left (open rows, skipped end dating).
- Keys: the queries never relate rows of different keys of a satellite, so one key is
  enough for the history. Ties and link matching need two source rows, the link needs
  two parents so that a child may change its parent and be staged before it.
- Values: two attribute values, or one and `Blank` (what COALESCE cannot tell from a
  missing row). Going back to an earlier value is in both.
- The source changes each row at most once a day, on any day of the horizon and also
  while a staging task of the day before runs.
- `Concurrency` stands for `dag_concurrency` (8): 8 or 4, no limit for a small graph, or 2
  where waiting for a slot is of interest.
- `StarSchema` lets the entities in `Changing` get further versions. A loading statement that
  finds no staged row changes nothing and is left out of `todo`; end dating always takes the
  whole table and is never left out. The source may have rows before the first load; those
  staged by modifieddate are in `lost` from the start.
- What can go wrong in `StarSchema` is checked where it happens, in the scene that needs it:
  reading beside a load, tasks of two runs (of an empty vault: it is about which tables exist),
  and what the links, end dating and lost rows make of the facts. `SceneSpec` is a part of the
  behaviours of `Spec`: star tasks fail for no reason of the model in `versions` only, runs time
  out in `apart` only, star runs find a vault at rest in `rest`, and one star task executes at a
  time but in `apart`. `RestSpec` of `star_fanout` is `rest` without the last bound. The theorems
  are about `Spec`.
- `MetastoreClient`: each call starts from a metastore in any state, so changes between
  calls need no steps. `Changes` bounds the states during one call to three: before, between
  and after its two requests: a table dropped and created again with other columns needs all
  three.
- `SYMMETRY` is used in the runs of `LinkLoad` and `StageLoad` (file names), which compare
  the elements of those sets for equality only; `StagingSpec` states no liveness.
- Deadlock is checked in all runs: the stuttering steps `Idle` and `Stop` exist only at the
  end of the horizon (in `InitDag`, while no run is active: nobody starts another).

### Fairness

Safety is checked without fairness. `RunsGoOn` and `InitEnds` assume weak
fairness of the scheduler's actions, which its loop considers again and again, and
that a task process ends (`FinishTask \/ FailTask`). The second is an assumption about
Hive and Postgres, for `run_cli` reads its client without a timeout and no
`execution_timeout` is set. Weak fairness is enough: these actions are disabled only
by other progress, and the runs confirm it. `RunsGoOn` takes the second assumption back for one
task of the first run (`Hung`): its client never needs to return. `TimeoutRun` is fair only for
that run, where the scheduler finds `dagrun_timeout` exceeded at its next look; the later runs end
because their tasks get the slots that are left. With as many hung clients as slots they would
not. `InitEnds` has no timeout to rely on.

`CallsEnd` of the metastore hook assumes `WF_vars(Step)`: the thread that called goes on,
and a request is answered or its connection is lost. The client sets no socket timeout, so a
server that neither answers nor closes is excluded by that assumption. Nothing is assumed of
the server coming back.

## 4. Findings

1. `dag_unordered`: `adventureworks.py` sets `depends_on_past` to False, below a comment
   that wants "to maintain chronological order when loading the datavault"; the
   documentation quotes True. After a failed task a later day is loaded. `starschema.py` does set
   it to True, but with a `start_date` that moves with the clock it has no effect there, nor
   would it here.
2. `vault_lost`: a task of a timed-out run is still in flight when the next run inserts
   new versions; its copyback overwrites the satellite and they are lost.
3. `link_address`: `link_salesorder_address.hql` looks for the addresses but not for the
   order, so a second order with the same pair of addresses gets no link.
4. `star_fanout`: the reference table of countries is never end dated and `dim_address.hql`
   joins all its rows, so after a country was renamed each address in it is in the dimension
   twice under one key, and `fact_orderdetail.hql` counts its order lines twice. Further
   versions of an address or a line multiply the facts in the same way.

Smaller facts are premises rather than runs. A dimension read between the load
of a satellite and its end dating has two active rows of a key; such tasks are in `early`, and
`DimensionUnique` leaves them out. A task of a timed-out star run may drop or create a table
the next run works with, which then fails or, worse, succeeds before its dimension is dropped; only
runs in `apart` start without such tasks. `get_partitions` zips the column names of its first
request with the values of its second: when the table is dropped and created with other
partition columns in between, it returns rows that were never in a table, and `TrueAnswers`
promises only that each half was true. The hub of sales reasons is fed by
another staging table than its satellite, so `FeedAnchored` and `SatAnchored` are not
claimed for it. Links to addresses, credit cards and currency rates, whose parents are
staged by modifieddate, are outside the premises of `LinkIsAnchored`, and their rows may
lack a hub key after a missed load. What a failed load had staged by modifieddate is not
staged again, nor is what changed before the first load (`lost` in `StarSchema`);
`FactComplete` is stated for the other lines. It also leaves out lines of an order whose rate is
of another day: the WHERE of `fact_orderdetail.hql` drops them. After one
failed call of the metastore hook `table_exists` says no for every table, so `TrueAnswers`
promises nothing of that no.

## 5. What the properties protect

The hazards in `PROJECT.json` name the line each one bites at. The deepest:

- `AsOf` and `WellDated`: one failed satellite skips the end dating of all twelve, and
  the next load compares with several open rows of a key. That the LEAD query
  recomputes all end dates, and that a record is inserted when it differs from *some*
  open row, is what makes the next run repair the table.
- `HistoryRecoverable`: between the two halves of an INSERT OVERWRITE the temporary
  table is the only copy. It stays complete until a later run drops it, which is how long
  there is to repair the satellite by hand; the next run itself does not look at it.
- `LinkAnchored`: a child is joined to its parent in the source at another moment than
  the parent is staged; that the child is filtered by modifieddate and the parent is not
  saves it.
- `StagedOwn`: files of failed tasks stay in the shared HDFS directory under names that
  may be used again. The put that refuses an existing file and the LOAD DATA that moves
  it are both needed.
- `RowsArrive`: the csv writer quotes, Hive does not unquote. A row without delimiters and
  line breaks arrives whatever rows stand before it, with NULL read as an empty string and a
  value with a quote read in its quotes; other rows are torn, and only they.
- `TrueAnswers`: `get_tables`, `get_partitions` and `max_partition` join the results of two
  requests; the names of the first are zipped with the values of the second. A row that
  comes out was in the table at some moment, unless the table came back with other columns.
- `DimensionUnique`: each dimension is read at a moment of its own while a load inserts new
  versions with one statement and closes the old ones with a later one, which a failed load
  never reaches. The open rows of a failed load are closed by the next, so a dimension read
  before or after the two statements is fine, whatever runs beside it.
- `LeftOpenByFailure`: one method has a `finally`, six do not; a method must not close a
  transport it did not open, nor take a broken connection for "no such partition".
- `FactComplete`: the address dimension joins every name of a country, of whatever load, and a
  line needs its order, address, country and rate from loads that may have failed. The rate
  is outer joined and its date tested afterwards: an order in the own currency stays, one whose
  pair has rates, but none of its day, is dropped with its lines.
- `FactResolves`: each table is dropped, missing for a while and created again, beside a load
  and beside tasks of a timed-out run. The facts take their keys from the dimensions of their
  own run as long as no task of another run was left when it started.
- `RunsGoOn`: that `depends_on_past` has no effect costs the order (finding 1) and is what lets
  the runs after a failed or a hung task go on; with a fixed `start_date` they would wait.

## 6. What is proved

For all values of the constants, by `tlapm`:

| Module | Theorems | Argument |
|---|---|---|
| `DagRunProofs` | `DagTypeCorrect`, `BarrierHolds`, `SuccessTotal`, `RunsInOrder`, `NoTaskBeforeRun`, `TasksEndWithRun`, `OneRunExecutes`, `RunsApart` | `DagInv`: a started task has its direct upstream done, and a successful run its leaves. The done tasks are closed under `Upstream`, hence contain all ancestors; in an acyclic graph a missing task leads to a missing leaf. `RunsInOrder` is what `max_active_runs` gives: the lemma of the next three. `WithinRun`, without timeouts: only the active run has tasks that are neither finished nor untouched, hence `NoOverlap`. `Alone`, from `NoOverlap` and with timeouts: the first task of a run to get a state starts, which it cannot beside an older one |
| `InitDagProofs` | `InitImplementsDag`, `InitTypeCorrect`, `InitRefusesNothing`, `InitIsReady` | `InitInv`: the first `made[r]` connections exist once; a task that succeeded in any run left what it creates. With `DagInv` the chain t1-t4 gives the rest |
| `SatelliteProofs` | lemmas on `NewVersions` and `EndDate` | new rows carry staged keys; end dating keeps key, value and load date, leaves one open row per key whatever order ties get (`EndDateOneOpen`), and without ties dates each version with the load of the next (`EndDateDates`); a contiguous table answers a query for a date with the latest version then (`DatedAt`) |
| `VaultLoadProofs` | `ImplementsDag`, `LoadBarrier`, `TypeCorrect`, `SatIsAnchored`, `LoadsDoNotOverlap`, `HubKeyUnique`, `ActiveVersionUnique`, `PeriodsFollow`, `NothingLoadedTwice`, `PastIsSeen`, `StagingComplete`, `VaultCaughtUp`, `NothingForgotten`, `NothingLost`, `ImplementsHistory` | below |
| `LinkLoadProofs` | `LinkImplementsDag`, `LinkTypeCorrect`, `FeedIsAnchored`, `LinkIsComplete`, `LinkIsAnchored`, `LinkIsUnique` | `CoverInv`: what a succeeded statement found staged is in its table. `AnchorInv`: a staged child was changed on the day of its run, its parent existed then, and a full staging of that run holds it. `UniqueInv`: a statement in flight carries nothing that a run recorded and completed before it read |
| `StageLoadProofs` | `StageTypeCorrect`, `StagedIsOwn`, `LeftoversAreOfFailures`, `StagingImplemented`, `RowsAlwaysArrive` | `StageInv`: open files have distinct names, and a file put by a task that is still open holds its batch; refinement of `AtomicStage`; what arrives of a row is below |
| `MetastoreClientProofs` | `HookTypeCorrect`, `AnswersAreTrue`, `TransportIsLeftByFailure` | `HookInvariant`: what a call keeps of its first request held in some state of `seen`, and the present state is in `seen`; `ZipFact` and `RowsFact` say what comes out of names of one state and values of another, which are the rows of the table when its columns are the same, and else halves that each were true; for `get_tables` a table that was there in all states is among the names. A transport open between calls was left by the last call |
| `StarSchemaProofs` | `StarImplementsDag`, `StarTypeCorrect`, `ApartInvariant`, `StarResolves`, `VaultInvariant`, `BuiltInvariant`, `DimensionsUnique`, `ProductsResolve`, `FactsComplete` | below |

Every specification of a DAG is shown to implement `DagRun`'s, so its theorems
hold of each.

### The history of a satellite

`VaultInv` holds through timeouts and overlapping runs: every key that may still reach
the satellite is in the hub already, because a satellite is loaded from a staging table
whose hub task succeeded. `SatIsAnchored` follows. The other theorems of `VaultLoad` need
more, and the argument has three layers.

1. A statement reads a snapshot and writes later. `QuietInv` says that nothing moved in between
   as long as runs do not overlap: `NoOverlap`, the tasks that execute at one moment are of one
   run. Runs may time out and leave tasks behind; `RunsApart` shows that an executing task then has
   no executing task in earlier runs and only untouched ones in later runs. Within a run tasks
   are ordered, so every snapshot in flight equals what its query gives
   now (`Fresh`), and the temporary table does while a copyback is to come (`AwaitsCopy`: one
   executes, or its run is active). Lemma `Kinds` concludes that a step leaves the satellite
   alone, inserts what `SatQuery` gives now, replaces it by its own end dating, or tears it.
2. `Loaded` and `SettledOpen` (`VersionsInvariant`): versions carry dates of loads that ran,
   and end dating that has seen all of them left one open row per key. Ties, torn
   overwrites and failures are allowed here. `ActiveVersionUnique` follows.
3. `TieFree`: no two versions of a key have one date, a settled table is contiguous, the
   latest version is always open, what a completed end dating saw is closed, and equal
   neighbours have no completed end dating between them. The last two say why several open
   rows of a key, left by failed end dating, do no harm. `Faithful` adds that for every load
   that succeeded the latest version at its date is what it staged; `Covers` that a full
   staging table misses no unchanged row. From these follow `PeriodsFollow`,
   `NothingLoadedTwice`, `PastIsSeen`, `VaultCaughtUp` and the refinement `ImplementsHistory`.

`NothingLost` has ties and torn overwrites too: `TempThere` and `Fresh` say that
what is about to be copied back is the end-dated satellite and still in the temporary table.

The premises are those under which the code keeps the promise, and the runs show what
happens without them:

- `[]NoOverlap`: all theorems of layers 1 to 3 but `StagingComplete`. It is a premise on the
  behaviour, not on a constant: no task of a run executes beside one of another. A run that outlives
  `dagrun_timeout` does no harm by itself, only when its last task is still executing while
  the next run starts one; finding 2 is what happens then. `LoadsDoNotOverlap` shows that the
  premise holds when there are no timeouts, as in the runs `vault_failures` and `vault_ties`.
- `Injective`, the rows of a source table have distinct business keys: `PeriodsFollow`,
  `NothingLoadedTwice`, `PastIsSeen`, `VaultCaughtUp`, `ImplementsHistory`. It fails for
  currency rates, where one load may give a key two rows (`vault_ties`).
- `~TornOverwrite`: `PastIsSeen`, `VaultCaughtUp`, `NothingForgotten`, `ImplementsHistory`. A torn
  overwrite empties the satellite, and nothing restores it.
- `~DeltaStaging`: `StagingComplete`, `VaultCaughtUp`. A table staged by modifieddate
  does not deliver what changed before its first loaded day.

### The star beside the vault

Nothing but `max_active_runs` keeps star runs apart, and tasks of a run that timed out go on. So
the theorems are about the runs in `apart`: when they started, no task executed. `ApartInv` says
that every earlier run has then ended with all its tasks, for good, because a run that ended
starts none. `Quiet(r)`: no later run has done anything yet. Both together give `OnlyOwn`: run r
executes alone, so whatever its tasks find dropped or written is its own. Under them hold

- `OnDimensions` (`StarInv`): the tables r has built are there, and the facts it has in hand or in
  place are made of rows of its dimensions, although between the reading of the facts and their
  writing the vault moves on. The fact task starts after the dimensions, so none of them is
  dropped meanwhile. `StarResolves` is read off it.
- `Once` (`OnceInv`): a dimension of active versions that r has read, in hand or in place, has one
  row per key, unless it was read while end dating was awaited (`early`). At the moment of the
  reading `Dating` below gives it, and afterwards only r itself touches the table.
  `DimensionsUnique` is read off it.
- `AsQueried` (`Built`), for runs in `calm`: what r has read or written is what its query gives on
  the vault as it is now, which has not moved since.

`VaultInv` of this module describes the load: `Progress` ties
`loaded` to what is left to do; `Arrived` says that a key that was staged (and not lost by a
failed load) is in its table once the statement of that table is over, lemma `SettledFact`
being the bookkeeping; `Linked` that links hold what lines refer to; `Dating` that
end dating leaves one open row per key. `ProductsResolve` and
`FactsComplete` are read off `VaultInv` and `Built`. `FactsComplete` has a premise on the source,
`Distinct`: no two lines of an order have one product and offer, and no two orders one address.
It is what the NOT EXISTS of the two links takes for granted; finding 3 shows what is missing
otherwise. An order with one product and offer in two lines loses a line in the same way. The
rate needs no such premise: its link is inserted under its full key, and a rate of the order's
day that arrived is among those the WHERE keeps.

### What arrives of a row

`StageInv` shows that a table holds what Hive reads of its own batch. What that is, `RowsAlwaysArrive`
says for rows of any number and width and values of any length. It is a fact about text:

1. `Flattened`: joined sequences stand one after the other, so each row has its stretch of
   the file (`TextFact`), each field its stretch of the line, and both end with their
   delimiter (`FieldsFact`, `LineFact`).
2. `SplitPiece`: what stands between two neighbouring delimiters, or before the first or
   after the last, is one piece of `Split`, whatever stands elsewhere. This is why a torn row
   does no harm to its neighbours. `SplitAll`: when all places of the delimiter are known, so
   are all pieces and their number.
3. `WrittenFact`, `WrittenPlain`: quoting adds quotes only, so a plain value is written without
   a delimiter or a break; `LinePlain` splits the line of a plain row into what was written.
4. `RowStored` and `RowCount` put these together.

The claims are about recursion over sequences. Instead of induction, which needs a theorem about
an operator parameter, they use `LeastNumber`: if a claim failed, there would be a least
place where it does, and the place before it shows that it does not. `JoinsExist` does the same for the
existence of the function `FlattenSeq` is defined by. `ContentAssumption` has the premises: a
query's rows have one width, quote, delimiter and break are different characters, and
the tag (source and load date) holds none of them.

### Other premises and assumptions

`LinkIsComplete` assumes `MatchChild`
(seven of the nine links); `FeedIsAnchored` a hub fed from the parent's staging table
(all but sales reasons); `LinkIsAnchored` a parent staged in full, an immutable business
key, and a child staged by modifieddate.

The assumptions on constants (`DagAssumption`, `AcyclicAssumption`, `InitAssumption`,
`NoEndAssumption`, `VaultAssumption`, `LinkAssumption`, `StageAssumption`, `ContentAssumption`,
`StarAssumption`, `MetastoreAssumption`) are evaluated by the runs. They state the shape of each graph and that
the model values differ; `MetastoreAssumption` also that sets of partition values have a
maximum. The existence of a latest version or a next load is drawn from
`NatLessThanWellFounded` (`Earliest`, `LatestDate`), which needs no induction over an operator.

## 7. What is only model-checked

Liveness (`RunsGoOn`, `InitEnds`, `CallsEnd`), which is beyond the prover.
Every other property of a passing run is a theorem; the tables of
section 3 show them on small instances, where the premises above are those of the
configurations.

Modelling choices a reader should know:

- In `VaultLoad` and `LinkLoad` a staging table is published in one step; `StagingImplemented`
  justifies it.
- In `StarSchema` a query reads all its tables at one moment, and the statements of a load take
  effect at one moment each. Orders come with their lines; an order has one address (so finding
  3 does not hide finding 4) and at most one rate, of a pair of currencies; the state of an
  address, the two currencies of a pair, the sales reason and the territory of an order are
  left out. The order stands for the territory: `dim_salesterritory` is built like `dim_product`.
- The INSERT of the reference table matches columns by position: the load date lands in
  `record_source`, `load_dtm` stays empty and the text of the record source is read as NULL in
  `load_end_dtm`. The rows stay open either way; the model keeps the load date as the field
  that tells them apart.
- In `StageLoad` the sequence number is part of the tag of a row, columns are text (Hive reads
  a number it cannot parse as NULL), and the hash of a key is left to `LinkLoad`.
- `CaughtUp` is stated for tables staged in full; a table staged by modifieddate does not
  deliver what changed before its first loaded day.

## 8. Not modelled, and why

- HiveServer2Hook opens a connection and reads results, without state of its own;
  `get_databases` of the metastore hook is one request like the first of `get_tables`. Kerberos
  and SASL are configuration. `load_df`, `test_hql` and `kill` of the CLI hook have no caller.
- HiveToGcsOperator and `upload_to_bq.py`: the statements that would create tasks are
  commented out.
- Containers, start-up scripts, source database scripts, vendored reference schema, the
  connection test, the dbt skeleton and the first exercise: linear set-up or no own logic.

## 9. Plan

Written so far, in this order: `DagRun`, `Satellite`, `VaultLoad` with `SatHistory`, `LinkLoad`,
`StageLoad` with `AtomicStage` and `TextFormat`, `StarSchema` with the reference table, `InitDag`,
`MetastoreClient`, and the proofs of each.

Next to model:

1. Load tasks that an operator clears and reruns; the load and the initialisation composed.
2. The state of an address and the sales reason of an order in `StarSchema`.
3. Start-up: what waits for which port, and what the entry point retries.

Next to prove:

1. A premise weaker than `NoOverlap`: the pairs of tasks that may execute side by side, such as a
   staging task beside the last copyback, without losing a version.
2. That the statements of a load in `StarSchema` are what `VaultLoad` and `LinkLoad`
   implement: a refinement mapping to `Insert`, `DateSat` and the links.
