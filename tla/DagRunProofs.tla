---------------------------- MODULE DagRunProofs ----------------------------
(***************************************************************************)
(* What holds of every Airflow DAG configured as this repository does, for *)
(* any graph, any number of runs and any concurrency limit.                *)
(***************************************************************************)
EXTENDS DagRun, TLAPS

\* Every executing or finished task of a run has its direct upstream done:
\* the inductive core of Barrier.
UpstreamDone ==
    \A r \in Run, t \in Task :
        ti[r][t] \in {"running", "success"} =>
            \A u \in Upstream[t] : ti[r][u] = "success"

\* A run that succeeded saw all leaves succeed.
LeavesDone ==
    \A r \in Run : run[r] = "success" => \A t \in Leaves : ti[r][t] = "success"

DagInv == DagTypeOK /\ UpstreamDone /\ LeavesDone

-----------------------------------------------------------------------------
\* Changing one task instance leaves every other one as it was.
LEMMA SetTaskFact ==
    ASSUME DagTypeOK, NEW r \in Run, NEW t \in Task, NEW s \in TaskState,
           SetTask(r, t, s)
    PROVE  /\ ti' \in [Run -> [Task -> TaskState]]
           /\ \A q \in Run, u \in Task :
                 ti'[q][u] = IF q = r /\ u = t THEN s ELSE ti[q][u]
  BY DEF DagTypeOK, SetTask

\* A failing task makes no other one succeed.
LEMMA FailFact ==
    ASSUME DagTypeOK, NEW r \in Run, NEW t \in Task, FailTask(r, t)
    PROVE  \A q \in Run, u \in Task : ti'[q][u] = "success" => ti[q][u] = "success"
<1>1. "failed" \in TaskState /\ SetTask(r, t, "failed")
  BY DEF FailTask, TaskState
<1>2. \A q \in Run, u \in Task :
         ti'[q][u] = IF q = r /\ u = t THEN "failed" ELSE ti[q][u]
  BY <1>1, SetTaskFact
<1> QED
  BY <1>2

\* The stored states are always among Airflow's states.
THEOREM DagTypeCorrect == DagSpec => []DagTypeOK
<1>1. DagInit => DagTypeOK
  BY DEF DagInit, DagTypeOK, RunState, TaskState
<1>2. DagTypeOK /\ [DagNext]_dagVars => DagTypeOK'
  <2> SUFFICES ASSUME DagTypeOK, [DagNext]_dagVars PROVE DagTypeOK'
    OBVIOUS
  <2> USE DEF DagTypeOK, RunState, TaskState
  <2>1. CASE \E r \in Run : CreateRun(r) \/ EndRun(r) \/ TimeoutRun(r)
    BY <2>1 DEF CreateRun, EndRun, TimeoutRun
  <2>2. ASSUME NEW r \in Run, NEW t \in Task,
               StartTask(r, t) \/ FinishTask(r, t) \/ FailTask(r, t) \/ FailUpstream(r, t)
        PROVE DagTypeOK'
    BY <2>2, SetTaskFact DEF StartTask, FinishTask, FailTask, FailUpstream
  <2>3. CASE UNCHANGED dagVars
    BY <2>3 DEF dagVars
  <2> QED
    BY <2>1, <2>2, <2>3 DEF DagNext, Idle
<1> QED
  BY <1>1, <1>2, PTL DEF DagSpec

\* The invariant holds at the start and every step keeps it.
LEMMA DagInvInit == DagInit => DagInv
  BY DEF DagInit, DagInv, DagTypeOK, UpstreamDone, LeavesDone, RunState, TaskState

\* No step of the scheduler or of a task breaks the invariant.
LEMMA DagInvStep == DagInv /\ DagTypeOK' /\ [DagNext]_dagVars => DagInv'
<1> SUFFICES ASSUME DagInv, DagTypeOK', [DagNext]_dagVars PROVE DagInv'
  OBVIOUS
<1> USE DEF DagInv
<1>1. ASSUME NEW r \in Run, CreateRun(r) \/ EndRun(r) \/ TimeoutRun(r) PROVE DagInv'
  <2>1. UpstreamDone'
    BY <1>1 DEF UpstreamDone, CreateRun, EndRun, TimeoutRun
  <2>2. LeavesDone'
    BY <1>1 DEF DagTypeOK, LeavesDone, CreateRun, EndRun, TimeoutRun, Leaves
  <2> QED
    BY <2>1, <2>2
<1>2. ASSUME NEW r \in Run, NEW t \in Task, StartTask(r, t) PROVE DagInv'
  <2>1. \A q \in Run, u \in Task :
           ti'[q][u] = IF q = r /\ u = t THEN "running" ELSE ti[q][u]
    BY <1>2, SetTaskFact DEF StartTask, TaskState
  <2>2. t \notin Upstream[t] /\ ti[r][t] = "none"
    BY <1>2 DEF StartTask
  <2>3. UpstreamDone'
    BY <1>2, <2>1, <2>2, DagAssumption DEF UpstreamDone, StartTask
  <2>4. LeavesDone'
    BY <1>2, <2>1, <2>2 DEF LeavesDone, StartTask, Leaves
  <2> QED
    BY <2>3, <2>4
<1>3. ASSUME NEW r \in Run, NEW t \in Task,
             FinishTask(r, t) \/ FailTask(r, t) \/ FailUpstream(r, t)
      PROVE DagInv'
  <2>1. ASSUME NEW s \in TaskState, SetTask(r, t, s), UNCHANGED run,
               ti[r][t] # "success", s # "running",
               s = "success" => ti[r][t] = "running"
        PROVE DagInv'
    <3>1. \A q \in Run, u \in Task :
             ti'[q][u] = IF q = r /\ u = t THEN s ELSE ti[q][u]
      BY <2>1, SetTaskFact
    <3>2. UpstreamDone'
      BY <2>1, <3>1, DagAssumption DEF UpstreamDone
    <3>3. LeavesDone'
      BY <2>1, <3>1 DEF LeavesDone, Leaves
    <3> QED
      BY <3>2, <3>3
  <2>2. CASE FinishTask(r, t)
    BY <2>1, <2>2 DEF FinishTask, TaskState
  <2>3. CASE FailTask(r, t)
    BY <2>1, <2>3 DEF FailTask, TaskState
  <2>4. CASE FailUpstream(r, t)
    BY <2>1, <2>4 DEF FailUpstream, TaskState
  <2> QED
    BY <1>3, <2>2, <2>3, <2>4
<1>4. CASE UNCHANGED dagVars
  BY <1>4 DEF dagVars, UpstreamDone, LeavesDone
<1> QED
  BY <1>1, <1>2, <1>3, <1>4 DEF DagNext, Idle

\* In every reachable state started tasks have their direct upstream done
\* and successful runs their leaves.
THEOREM DagInvariant == DagSpec => []DagInv
<1>1. DagTypeOK' /\ DagInv /\ [DagNext]_dagVars => DagInv'
  BY DagInvStep
<1> QED
  BY <1>1, DagInvInit, DagTypeCorrect, PTL DEF DagSpec

-----------------------------------------------------------------------------
\* The set of tasks that succeeded in a run is closed under Upstream, so it
\* contains the ancestors of each task that started.
LEMMA BarrierFromInv == DagInv => Barrier
<1> SUFFICES ASSUME DagInv, NEW r \in Run, NEW t \in Task,
                    ti[r][t] \in {"running", "success"},
                    NEW u \in Ancestors[t]
             PROVE  ti[r][u] = "success"
  BY DEF Barrier
<1> DEFINE Done == {v \in Task : ti[r][v] = "success"}
<1>1. Upstream[t] \subseteq Done /\ \A v \in Done : Upstream[v] \subseteq Done
  BY DagAssumption DEF DagInv, UpstreamDone
<1>2. Done \in SUBSET Task
  OBVIOUS
<1>3. u \in Done
  BY <1>1, <1>2 DEF Ancestors
<1> QED
  BY <1>3

\* The knots are barriers, in every run of every DAG of this shape.
THEOREM BarrierHolds == DagSpec => []Barrier
  BY DagInvariant, BarrierFromInv, PTL

\* In an acyclic graph a task that did not succeed leads to a leaf that did
\* not, so successful leaves mean that every task succeeded.
LEMMA TotalFromInv == DagInv => SuccessIsTotal
<1> SUFFICES ASSUME DagInv, NEW r \in Run, run[r] = "success"
             PROVE  \A t \in Task : ti[r][t] = "success"
  BY DEF SuccessIsTotal
<1> DEFINE Missing == {t \in Task : ti[r][t] # "success"}
<1>1. SUFFICES ASSUME Missing # {} PROVE FALSE
  OBVIOUS
<1>2. PICK t \in Missing : \A u \in Missing : t \notin Upstream[u]
  <2>1. Missing \in SUBSET Task
    OBVIOUS
  <2> QED
    BY <1>1, <2>1, AcyclicAssumption
<1>3. \A u \in Task : t \notin Upstream[u]
  BY <1>2 DEF DagInv, UpstreamDone
<1>4. t \in Leaves
  BY <1>2, <1>3 DEF Leaves
<1> QED
  BY <1>2, <1>4 DEF DagInv, LeavesDone

\* A run reported as successful did all of its work.
THEOREM SuccessTotal == DagSpec => []SuccessIsTotal
  BY DagInvariant, TotalFromInv, PTL

\* max_active_runs: runs are created in date order and a run exists only
\* after every earlier one has ended.
OneActiveRun ==
    \A r, q \in Run : q < r /\ run[r] # "none" => run[q] \in Ended

\* max_active_runs=1: when a run exists, the runs before it have ended.
THEOREM RunsInOrder == DagSpec => []OneActiveRun
<1>1. DagInit => OneActiveRun
  BY DEF DagInit, OneActiveRun
<1>2. DagTypeOK /\ OneActiveRun /\ [DagNext]_dagVars => OneActiveRun'
  <2> SUFFICES ASSUME DagTypeOK, OneActiveRun, [DagNext]_dagVars
               PROVE  OneActiveRun'
    OBVIOUS
  <2> USE DEF OneActiveRun, DagTypeOK, Ended
  <2>1. ASSUME NEW r \in Run, CreateRun(r) PROVE OneActiveRun'
    <3>1. \A q \in Run : q < r => run[q] \in Ended
      BY <2>1 DEF CreateRun, RunState
    <3>2. \A q \in Run : run'[q] = IF q = r THEN "running" ELSE run[q]
      BY <2>1 DEF CreateRun
    <3> QED
      BY <2>1, <3>1, <3>2 DEF CreateRun, Run
  <2>2. ASSUME NEW r \in Run, EndRun(r) \/ TimeoutRun(r) PROVE OneActiveRun'
    BY <2>2 DEF EndRun, TimeoutRun
  <2>3. CASE UNCHANGED run
    BY <2>3
  <2> QED
    BY <2>1, <2>2, <2>3
    DEF DagNext, StartTask, FinishTask, FailTask, FailUpstream, Idle, dagVars
<1> QED
  BY <1>1, <1>2, DagTypeCorrect, PTL DEF DagSpec

-----------------------------------------------------------------------------
\* The tasks of a run that does not exist yet have no state.
Unborn == \A r \in Run, t \in Task : run[r] = "none" => ti[r][t] = "none"

\* No task is scheduled before its run exists.
THEOREM NoTaskBeforeRun == DagSpec => []Unborn
<1>1. DagInit => Unborn
  BY DEF DagInit, Unborn
<1>2. DagTypeOK /\ Unborn /\ [DagNext]_dagVars => Unborn'
  <2> SUFFICES ASSUME DagTypeOK, Unborn, [DagNext]_dagVars PROVE Unborn'
    OBVIOUS
  <2>1. ASSUME NEW r \in Run, CreateRun(r) \/ EndRun(r) \/ TimeoutRun(r) PROVE Unborn'
    BY <2>1 DEF CreateRun, EndRun, TimeoutRun, Unborn, DagTypeOK
  <2>2. ASSUME NEW r \in Run, NEW t \in Task,
               StartTask(r, t) \/ FinishTask(r, t) \/ FailTask(r, t) \/ FailUpstream(r, t)
        PROVE  Unborn'
    <3>1. UNCHANGED run /\ run[r] # "none"
      BY <2>2 DEF StartTask, FinishTask, FailTask, FailUpstream, Unborn
    <3>2. PICK s \in TaskState : SetTask(r, t, s)
      BY <2>2 DEF StartTask, FinishTask, FailTask, FailUpstream, TaskState
    <3>3. \A q \in Run, u \in Task : ti'[q][u] = IF q = r /\ u = t THEN s ELSE ti[q][u]
      BY <3>2, SetTaskFact
    <3> QED
      BY <3>1, <3>3 DEF Unborn
  <2>3. CASE UNCHANGED dagVars
    BY <2>3 DEF dagVars, Unborn
  <2> QED
    BY <2>1, <2>2, <2>3 DEF DagNext, Idle
<1> QED
  BY <1>1, <1>2, DagTypeCorrect, PTL DEF DagSpec

-----------------------------------------------------------------------------
(***************************************************************************)
(* What is different when no run outlives dagrun_timeout: its tasks end    *)
(* with it.                                                                *)
(***************************************************************************)
WithinRun ==
    \A r \in Run, t \in Task :
        /\ ti[r][t] = "running" => run[r] = "running"
        /\ run[r] = "none" => ti[r][t] = "none"
        /\ run[r] \in Ended => ti[r][t] \in Finished

\* Without timeouts no step leaves a task behind its run.
LEMMA WithinRunStep ==
    ASSUME ~Timeouts, DagTypeOK, WithinRun, [DagNext]_dagVars
    PROVE  WithinRun'
<1> USE DEF Ended, Finished
\* A task of the active run changes its state.
<1>1. ASSUME NEW r \in Run, NEW t \in Task, NEW s \in TaskState, s # "none",
             SetTask(r, t, s), UNCHANGED run, run[r] = "running"
      PROVE  WithinRun'
  <2>1. \A q \in Run, u \in Task : ti'[q][u] = IF q = r /\ u = t THEN s ELSE ti[q][u]
    BY <1>1, SetTaskFact
  <2> QED
    BY <1>1, <2>1 DEF WithinRun
<1>2. ASSUME NEW r \in Run, NEW t \in Task,
             StartTask(r, t) \/ FinishTask(r, t) \/ FailTask(r, t) \/ FailUpstream(r, t)
      PROVE  WithinRun'
  <2>1. UNCHANGED run /\ run[r] = "running"
    BY <1>2 DEF StartTask, FinishTask, FailTask, FailUpstream, WithinRun
  <2>2. \E s \in TaskState : s # "none" /\ SetTask(r, t, s)
    BY <1>2 DEF StartTask, FinishTask, FailTask, FailUpstream, TaskState
  <2> QED
    BY <1>1, <2>1, <2>2
<1>3. ASSUME NEW r \in Run, CreateRun(r) PROVE WithinRun'
  BY <1>3 DEF CreateRun, WithinRun, DagTypeOK
<1>4. ASSUME NEW r \in Run, EndRun(r) PROVE WithinRun'
  BY <1>4 DEF EndRun, WithinRun, DagTypeOK
<1>5. CASE UNCHANGED dagVars
  BY <1>5 DEF dagVars, WithinRun
<1> QED
  BY <1>2, <1>3, <1>4, <1>5 DEF DagNext, TimeoutRun, Idle

\* When no run outlives its timeout, its tasks end before it does.
THEOREM TasksEndWithRun == ASSUME ~Timeouts PROVE DagSpec => []WithinRun
<1>1. DagInit => WithinRun
  BY DEF DagInit, WithinRun, Ended
<1>2. DagTypeOK /\ WithinRun /\ [DagNext]_dagVars => WithinRun'
  BY WithinRunStep
<1> QED
  BY <1>1, <1>2, DagTypeCorrect, PTL DEF DagSpec

-----------------------------------------------------------------------------
(***************************************************************************)
(* Runs whose tasks never execute side by side: what max_active_runs = 1   *)
(* is meant to give, and gives as long as no task outlives its run.        *)
(***************************************************************************)
\* The tasks that execute at one moment belong to one run.
NoOverlap ==
    \A r, q \in Run, t, u \in Task :
        ti[r][t] = "running" /\ ti[q][u] = "running" => r = q

\* The runs beside one with an executing task: earlier ones execute nothing,
\* later ones have not begun.
Alone ==
    \A r, q \in Run, t, u \in Task :
        ti[r][t] = "running" =>
            /\ q < r => ti[q][u] # "running"
            /\ q > r => ti[q][u] = "none"

\* When no run outlives its timeout, only tasks of one run execute at a time.
THEOREM OneRunExecutes == ASSUME ~Timeouts PROVE DagSpec => []NoOverlap
<1>1. WithinRun /\ OneActiveRun => NoOverlap
  BY DagAssumption DEF WithinRun, OneActiveRun, NoOverlap, Ended, Run
<1> QED
  BY <1>1, TasksEndWithRun, RunsInOrder, PTL

\* The first task of a run that gets a state does so by starting, which it
\* does beside no earlier run.
LEMMA AloneStep ==
    ASSUME DagTypeOK, Unborn, OneActiveRun, Alone, NoOverlap', [DagNext]_dagVars
    PROVE  Alone'
<1>1. ASSUME NEW r \in Run, NEW t \in Task, StartTask(r, t) PROVE Alone'
  <2>1. \A q \in Run, u \in Task : ti'[q][u] = IF q = r /\ u = t THEN "running" ELSE ti[q][u]
    BY <1>1, SetTaskFact DEF StartTask, TaskState
  <2>2. \A q \in Run, u \in Task : q > r => ti[q][u] = "none"
    BY <1>1 DEF StartTask, OneActiveRun, Unborn, Ended
  <2>3. \A q \in Run, u \in Task : ti'[q][u] = "running" => q = r
    BY <2>1 DEF NoOverlap
  <2>4. ASSUME NEW q \in Run, NEW p \in Run, NEW u \in Task, NEW v \in Task,
               ti'[q][u] = "running"
        PROVE  /\ p < q => ti'[p][v] # "running"
               /\ p > q => ti'[p][v] = "none"
    <3>1. q = r
      BY <2>3, <2>4
    <3>2. r \in Nat /\ p \in Nat
      BY DagAssumption DEF Run
    <3>3. p < q \/ p > q => p # r
      BY <3>1, <3>2
    <3> QED
      BY <2>1, <2>2, <2>3, <3>1, <3>3
  <2> QED
    BY <2>4 DEF Alone
<1>2. ASSUME NEW r \in Run, NEW t \in Task, NEW s \in {"success", "failed", "upstream_failed"},
             SetTask(r, t, s),
             \/ ti[r][t] = "running"
             \/ \E u \in Task : ti[r][u] \in {"failed", "upstream_failed"}
      PROVE  Alone'
  <2>1. \A q \in Run, u \in Task : ti'[q][u] = IF q = r /\ u = t THEN s ELSE ti[q][u]
    BY <1>2, SetTaskFact DEF TaskState
  <2>2. \A q \in Run, u \in Task : ti[q][u] = "running" => ~(r > q)
    BY <1>2 DEF Alone
  <2> QED
    BY <2>1, <2>2 DEF Alone
<1>3. ASSUME NEW r \in Run, NEW t \in Task, FinishTask(r, t) \/ FailTask(r, t) \/ FailUpstream(r, t)
      PROVE  Alone'
  <2>1. FailUpstream(r, t) => \E u \in Task : ti[r][u] \in {"failed", "upstream_failed"}
    BY DagAssumption DEF FailUpstream
  <2> QED
    BY <1>2, <1>3, <2>1 DEF FinishTask, FailTask, FailUpstream
<1>4. CASE UNCHANGED ti
  BY <1>4 DEF Alone
<1> QED
  BY <1>1, <1>3, <1>4 DEF DagNext, CreateRun, EndRun, TimeoutRun, Idle, dagVars

\* As long as runs do not overlap, whatever times out, an executing task has
\* only untouched runs after it and no executing task before it.
THEOREM RunsApart == DagSpec /\ []NoOverlap => []Alone
<1>1. DagInit => Alone
  BY DEF DagInit, Alone
<1>2. DagTypeOK /\ Unborn /\ OneActiveRun /\ Alone /\ NoOverlap' /\ [DagNext]_dagVars => Alone'
  BY AloneStep
<1> QED
  BY <1>1, <1>2, DagTypeCorrect, NoTaskBeforeRun, RunsInOrder, PTL DEF DagSpec
=============================================================================
