------------------------------- MODULE DagRun -------------------------------
(***************************************************************************)
(* The control of one Airflow DAG: the daily runs the scheduler creates    *)
(* and the state of every task instance of every run.  The DAG files give  *)
(* the parameters (graph, depends_on_past, max_active_runs,                *)
(* dagrun_timeout) and airflow.cfg the limits; the scheduler itself is     *)
(* Airflow 1.9, an external program modelled from how the DAG files        *)
(* configure it.  Tasks have no retries: neither `args` nor an operator    *)
(* sets them, so a failed attempt is final.                                *)
(***************************************************************************)
EXTENDS Naturals, FiniteSets

CONSTANTS
    Task,           \* the task ids of the DAG
    Upstream,       \* Upstream[t]: the tasks set with `>>` directly before t
    Runs,           \* bound: number of daily runs considered
    Concurrency,    \* dag_concurrency of airflow.cfg
    DependsOnPast,  \* default_args["depends_on_past"]
    Timeouts        \* may a run be active for longer than dagrun_timeout?

Run == 1 .. Runs

ASSUME DagAssumption ==
    /\ Upstream \in [Task -> SUBSET Task]
    /\ Runs \in Nat \ {0}
    /\ Concurrency \in Nat \ {0}
    /\ DependsOnPast \in BOOLEAN
    /\ Timeouts \in BOOLEAN

\* Airflow refuses a DAG with a cycle: in every non-empty set of tasks one
\* is upstream of no other.
ASSUME AcyclicAssumption ==
    \A S \in SUBSET Task :
        S # {} => \E t \in S : \A u \in S : t \notin Upstream[u]

VARIABLES
    run,    \* run[r]: state of the run with the r-th execution date
    ti      \* ti[r][t]: state of the task instance of t in run r

dagVars == <<run, ti>>

RunState == {"none", "running", "success", "failed"}
TaskState == {"none", "running", "success", "failed", "upstream_failed"}
Ended == {"success", "failed"}
Finished == {"success", "failed", "upstream_failed"}

\* The tasks nothing follows: Airflow decides a run's outcome on them.
Leaves == {t \in Task : \A u \in Task : t \notin Upstream[u]}

\* All tasks that must come before t: the least set that holds Upstream[t]
\* and is closed under Upstream.
Ancestors ==
    [t \in Task |->
        {u \in Task :
            \A S \in SUBSET Task :
                (Upstream[t] \subseteq S /\ \A v \in S : Upstream[v] \subseteq S)
                    => u \in S}]

Executing == {p \in Run \X Task : ti[p[1]][p[2]] = "running"}

\* Mutant: start_date is a fixed day.
StartDate_Fixed(r) == 1

\* start_date is days_ago(1), computed anew whenever the DAG file is parsed.
\* A run is created when its day is over: from then on this is r or later.
StartDate(r) == r

\* The run before would lie before start_date: an instance of run r counts as
\* the first one of its task.
FirstInstance(r) == r - 1 < StartDate(r)

\* depends_on_past: the same task of the run before, if there is one.
PastDone(r, t) ==
    DependsOnPast /\ ~FirstInstance(r) => ti[r - 1][t] = "success"

DagInit ==
    /\ run = [r \in Run |-> "none"]
    /\ ti = [r \in Run |-> [t \in Task |-> "none"]]

SetTask(r, t, s) == ti' = [ti EXCEPT ![r] = [@ EXCEPT ![t] = s]]

-----------------------------------------------------------------------------
\* max_active_runs=1: the next run in date order starts when none is running.
CreateRun(r) ==
    /\ run[r] = "none"
    /\ \A q \in Run : q < r => run[q] # "none"
    /\ \A q \in Run : run[q] # "running"
    /\ run' = [run EXCEPT ![r] = "running"]
    /\ UNCHANGED ti

\* Mutant: trigger rule one_success.
StartTask_OneSuccess(r, t) ==
    /\ run[r] = "running" /\ ti[r][t] = "none"
    /\ Upstream[t] = {} \/ \E u \in Upstream[t] : ti[r][u] = "success"
    /\ PastDone(r, t) /\ Cardinality(Executing) < Concurrency
    /\ SetTask(r, t, "running")
    /\ UNCHANGED run

StartTask(r, t) ==
    /\ run[r] = "running"
    /\ ti[r][t] = "none"
    /\ \A u \in Upstream[t] : ti[r][u] = "success"
    /\ PastDone(r, t)
    /\ Cardinality(Executing) < Concurrency
    /\ SetTask(r, t, "running")
    /\ UNCHANGED run

\* A task process is not tied to the state of its run: it also ends after
\* the run timed out.
FinishTask(r, t) ==
    /\ ti[r][t] = "running"
    /\ SetTask(r, t, "success")
    /\ UNCHANGED run

FailTask(r, t) ==
    /\ ti[r][t] = "running"
    /\ SetTask(r, t, "failed")
    /\ UNCHANGED run

\* Mutant: skips a task only when all of its upstream failed.
FailUpstream_All(r, t) ==
    /\ run[r] = "running" /\ ti[r][t] = "none" /\ Upstream[t] # {}
    /\ \A u \in Upstream[t] : ti[r][u] \in {"failed", "upstream_failed"}
    /\ SetTask(r, t, "upstream_failed")
    /\ UNCHANGED run

\* trigger_rule all_success: one failed upstream task is enough.
FailUpstream(r, t) ==
    /\ run[r] = "running"
    /\ ti[r][t] = "none"
    /\ \E u \in Upstream[t] : ti[r][u] \in {"failed", "upstream_failed"}
    /\ SetTask(r, t, "upstream_failed")
    /\ UNCHANGED run

\* Mutant: a skipped leaf does not fail the run.
EndRun_SkippedIsFine(r) ==
    /\ run[r] = "running" /\ \A t \in Task : ti[r][t] \in Finished
    /\ run' = [run EXCEPT ![r] =
                  IF \A t \in Leaves : ti[r][t] # "failed" THEN "success" ELSE "failed"]
    /\ UNCHANGED ti

EndRun(r) ==
    /\ run[r] = "running"
    /\ \A t \in Task : ti[r][t] \in Finished
    /\ run' = [run EXCEPT ![r] =
                  IF \A t \in Leaves : ti[r][t] = "success"
                  THEN "success" ELSE "failed"]
    /\ UNCHANGED ti

\* Mutant: an own state for runs that timed out.
TimeoutRun_OwnState(r) ==
    /\ Timeouts /\ run[r] = "running"
    /\ run' = [run EXCEPT ![r] = "timed_out"]
    /\ UNCHANGED ti

\* dagrun_timeout: the scheduler marks the run failed and stops scheduling
\* its tasks; the ones already executing go on.
TimeoutRun(r) ==
    /\ Timeouts
    /\ run[r] = "running"
    /\ run' = [run EXCEPT ![r] = "failed"]
    /\ UNCHANGED ti

\* The horizon of Runs runs is over.
Idle ==
    /\ \A r \in Run : run[r] \in Ended
    /\ Executing = {}
    /\ UNCHANGED dagVars

DagNext ==
    \/ \E r \in Run : CreateRun(r) \/ EndRun(r) \/ TimeoutRun(r)
    \/ \E r \in Run, t \in Task :
          \/ StartTask(r, t)
          \/ FinishTask(r, t)
          \/ FailTask(r, t)
          \/ FailUpstream(r, t)
    \/ Idle

DagSpec == DagInit /\ [][DagNext]_dagVars

\* The scheduler loop reconsiders every run and task again and again.  No
\* execution_timeout is set, so a task's process ends if Hive and Postgres
\* let it: that those of `hung` do is not assumed.  dagrun_timeout is counted
\* on only for the runs they belong to, the others may be faster than that.
DagFairness(hung) ==
    /\ \A r \in Run : WF_dagVars(CreateRun(r)) /\ WF_dagVars(EndRun(r))
    /\ \A r \in Run, t \in Task :
          /\ WF_dagVars(StartTask(r, t))
          /\ WF_dagVars(FailUpstream(r, t))
    /\ \A p \in (Run \X Task) \ hung :
          WF_dagVars(FinishTask(p[1], p[2]) \/ FailTask(p[1], p[2]))
    /\ \A p \in hung : WF_dagVars(TimeoutRun(p[1]))

DagFairSpec == DagSpec /\ DagFairness({})

-----------------------------------------------------------------------------
\* Run and task states are the ones Airflow stores.
DagTypeOK ==
    /\ run \in [Run -> RunState]
    /\ ti \in [Run -> [Task -> TaskState]]

\* The knots (staging_done, hubs_done, ...) are barriers: when a task of a
\* run executes or is done, everything before it in the graph, however far,
\* has succeeded in that run, whatever failed or timed out in between.
Barrier ==
    \A r \in Run, t \in Task :
        ti[r][t] \in {"running", "success"} =>
            \A u \in Ancestors[t] : ti[r][u] = "success"

\* A run reported as successful did all of its work, although Airflow looks
\* at the last tasks only.
SuccessIsTotal ==
    \A r \in Run : run[r] = "success" => \A t \in Task : ti[r][t] = "success"

\* A task of one run executes or is done only after the same task of the
\* run before succeeded: the order the loads of the vault are meant to have.
Chronological ==
    \A r \in Run, t \in Task :
        (r > 1 /\ ti[r][t] \in {"running", "success"}) => ti[r - 1][t] = "success"

\* A hung client keeps its slot of dag_concurrency, also after its run timed
\* out.  As long as fewer hang than there are slots, every other daily run
\* still gets all of its tasks decided and ends by itself, whatever failed in
\* the runs before it.
RunsGoOn == \A r \in Run : <>(run[r] \in Ended)
=============================================================================
