------------------------------ MODULE LinkLoad ------------------------------
(***************************************************************************)
(* The adventureworks DAG at work on a relationship: a source table        *)
(* ("child", such as salesorderheader) that refers to another ("parent",   *)
(* such as shipmethod), their staging tasks, the hub of the parent and the *)
(* link.  Four constants tell the nine links apart: which of the two       *)
(* tables is staged by modifieddate, which staging table feeds the hub,    *)
(* and which columns the link compares.                                    *)
(*                                                                         *)
(* A staging table belongs to one run and is read only after its task      *)
(* succeeded, so a staging task is one step here, at the moment its query  *)
(* runs.  Hub and link statements read when they start and write when they *)
(* end, as in VaultLoad.                                                   *)
(***************************************************************************)
EXTENDS DagRun

CONSTANTS
    Parent, Child,  \* primary keys of the two source tables
    BKey,           \* hashed business keys of the parent
    Absent,         \* a source row that does not exist yet
    NoTable,        \* a staging table that does not exist
    NoRead,         \* a statement that has not read its inputs
    ParentDelta,    \* is the parent staged by modifieddate?
    ChildDelta,     \* is the child?
    HubFromParent,  \* is the hub loaded from the parent's staging table?
    MatchChild,     \* does the link compare the child's key?
    Rekeying,       \* may the business key of a parent row change?
    Failures        \* may a task fail?

LoadTask == {"stage_parent", "stage_child", "hub", "link"}

\* staging_done and hubs_done, contracted.
LoadUpstream ==
    [t \in LoadTask |->
        CASE t \in {"stage_parent", "stage_child"} -> {}
          [] t = "hub"                             -> {"stage_parent", "stage_child"}
          [] t = "link"                            -> {"hub"}]

ASSUME LinkAssumption ==
    /\ Task = LoadTask /\ Upstream = LoadUpstream
    /\ Absent \notin BKey /\ Absent \notin Parent
    /\ {ParentDelta, ChildDelta, HubFromParent, MatchChild, Rekeying, Failures}
           \subseteq BOOLEAN

VARIABLES
    today,          \* the current day; run r loads day r and starts after it
    parent,         \* parent[p]: business key and modifieddate
    child,          \* child[c]: the parent row it refers to, and modifieddate
    stagedParent,   \* stagedParent[r]: staging table of run r, its hash keys
    stagedChild,    \* stagedChild[r]: rows [child, parent], both hash keys
    hub,            \* rows [key, dtm]
    link,           \* rows [child, parent, dtm]
    read            \* read[r][t]: what the statement of task t has read

source == <<parent, child>>
staging == <<stagedParent, stagedChild>>
vars == <<dagVars, today, source, staging, hub, link, read>>

\* The foreign key of the source database.
ForeignKey ==
    \A c \in Child : child[c].parent # Absent => parent[child[c].parent].key # Absent

Init ==
    /\ DagInit
    /\ today = 1
    /\ parent \in [Parent -> [key : BKey \cup {Absent}, mod : {0}]]
    /\ child \in [Child -> [parent : Parent \cup {Absent}, mod : {0}]]
    /\ ForeignKey
    /\ stagedParent = [r \in Run |-> NoTable]
    /\ stagedChild = [r \in Run |-> NoTable]
    /\ hub = {} /\ link = {}
    /\ read = [r \in Run |-> [t \in Task |-> NoRead]]

-----------------------------------------------------------------------------
\* The source inserts a parent row or changes one, at most once a day (bound).
EditParent(p, k) ==
    /\ today <= Runs
    /\ parent[p].mod < today
    /\ parent[p].key \in {Absent, k} \/ Rekeying
    /\ parent' = [parent EXCEPT ![p] = [key |-> k, mod |-> today]]
    /\ UNCHANGED <<dagVars, today, child, staging, hub, link, read>>

EditChild(c, p) ==
    /\ today <= Runs
    /\ child[c].mod < today
    /\ parent[p].key # Absent
    /\ child' = [child EXCEPT ![c] = [parent |-> p, mod |-> today]]
    /\ UNCHANGED <<dagVars, today, parent, staging, hub, link, read>>

NextDay ==
    /\ today <= Runs
    /\ today' = today + 1
    /\ UNCHANGED <<dagVars, source, staging, hub, link, read>>

\* The run of a day is due when the day is over.
Schedule(r) ==
    /\ \/ r < today /\ CreateRun(r)
       \/ EndRun(r)
       \/ TimeoutRun(r)
       \/ \E t \in Task : StartTask(r, t) \/ FailUpstream(r, t)
    /\ UNCHANGED <<today, source, staging, hub, link, read>>

-----------------------------------------------------------------------------
\* The task ends after its statement took effect, recorded as a success or,
\* when the process is lost after the commit, as a failure.
Complete(r, t) ==
    /\ FinishTask(r, t) \/ (Failures /\ FailTask(r, t))
    /\ read' = [read EXCEPT ![r] = [@ EXCEPT ![t] = NoRead]]
    /\ UNCHANGED <<today, source>>

\* Mutant: the surrogate key is staged where the hash key belongs.
ParentQuery_Surrogate(r) == {p \in Parent : parent[p].key # Absent}

ParentQuery(r) ==
    {parent[p].key : p \in {q \in Parent : /\ parent[q].key # Absent
                                           /\ ParentDelta => parent[q].mod = r}}

\* Mutant: the child's WHERE clause on modifieddate is missing.
ChildQuery_Full(r) ==
    {[child |-> c, parent |-> parent[child[c].parent].key] :
        c \in {d \in Child : child[d].parent # Absent}}

\* The child joins its parent in the source, as the parent is at that moment.
ChildQuery(r) ==
    {[child |-> c, parent |-> parent[child[c].parent].key] :
        c \in {d \in Child : /\ child[d].parent # Absent
                             /\ ChildDelta => child[d].mod = r}}

StageParent(r) ==
    /\ Complete(r, "stage_parent")
    /\ stagedParent' = [stagedParent EXCEPT ![r] = ParentQuery(r)]
    /\ UNCHANGED <<stagedChild, hub, link>>

StageChild(r) ==
    /\ Complete(r, "stage_child")
    /\ stagedChild' = [stagedChild EXCEPT ![r] = ChildQuery(r)]
    /\ UNCHANGED <<stagedParent, hub, link>>

HubKeys == {h.key : h \in hub}

\* Mutant: the hub is loaded from the other staging table.
Feed_Child(r) == {b.parent : b \in stagedChild[r]}

\* The keys the hub is loaded from: hub_salesreason is the only one that
\* takes them from the staged child.
Feed(r) ==
    IF HubFromParent THEN stagedParent[r] ELSE {b.parent : b \in stagedChild[r]}

HubQuery(r) == Feed(r) \ HubKeys

\* Mutant: a link compares the key of the child only.
Linked_ChildOnly(b) == \E l \in link : l.child = b.child
\* Mutant: no NOT EXISTS.
Linked_Never(b) == FALSE

\* The NOT EXISTS of a link: link_salesorder_address and
\* link_salesorderdetail leave out a column their hash key is made of.
Linked(b) == \E l \in link : l.parent = b.parent /\ (MatchChild => l.child = b.child)

LinkQuery(r) == {b \in stagedChild[r] : ~Linked(b)}

\* A statement starts: it has its snapshot `result`.
Read(r, t, result) ==
    /\ ti[r][t] = "running" /\ read[r][t] = NoRead
    /\ read' = [read EXCEPT ![r] = [@ EXCEPT ![t] = result]]
    /\ UNCHANGED <<dagVars, today, source, staging, hub, link>>

ReadHub(r) == Read(r, "hub", HubQuery(r))
ReadLink(r) == Read(r, "link", LinkQuery(r))

WriteHub(r) ==
    /\ read[r]["hub"] # NoRead /\ Complete(r, "hub")
    /\ hub' = hub \cup {[key |-> k, dtm |-> r] : k \in read[r]["hub"]}
    /\ UNCHANGED <<staging, link>>

WriteLink(r) ==
    /\ read[r]["link"] # NoRead /\ Complete(r, "link")
    /\ link' = link \cup {[child |-> b.child, parent |-> b.parent, dtm |-> r] :
                             b \in read[r]["link"]}
    /\ UNCHANGED <<staging, hub>>

Fail(r, t) ==
    /\ Failures
    /\ FailTask(r, t)
    /\ read' = [read EXCEPT ![r] = [@ EXCEPT ![t] = NoRead]]
    /\ UNCHANGED <<today, source, staging, hub, link>>

\* The horizon is over.
Stop ==
    /\ today > Runs
    /\ Idle
    /\ UNCHANGED <<today, source, staging, hub, link, read>>

Next ==
    \/ NextDay
    \/ \E p \in Parent, k \in BKey : EditParent(p, k)
    \/ \E c \in Child, p \in Parent : EditChild(c, p)
    \/ \E r \in Run :
          \/ Schedule(r)
          \/ StageParent(r) \/ StageChild(r)
          \/ ReadHub(r) \/ WriteHub(r)
          \/ ReadLink(r) \/ WriteLink(r)
          \/ \E t \in Task : Fail(r, t)
    \/ Stop

Spec == Init /\ [][Next]_vars

-----------------------------------------------------------------------------
Staged == [child : Child, parent : BKey]

Snapshot(t) == CASE t = "hub"  -> SUBSET BKey
                 [] t = "link" -> SUBSET Staged
                 [] t \in {"stage_parent", "stage_child"} -> {}

\* Tables and statements in flight hold rows of their shape; the source keeps
\* its own foreign key.
TypeOK ==
    /\ DagTypeOK
    /\ today \in 1 .. Runs + 1
    /\ parent \in [Parent -> [key : BKey \cup {Absent}, mod : 0 .. Runs]]
    /\ child \in [Child -> [parent : Parent \cup {Absent}, mod : 0 .. Runs]]
    /\ ForeignKey
    /\ stagedParent \in [Run -> (SUBSET BKey) \cup {NoTable}]
    /\ stagedChild \in [Run -> (SUBSET Staged) \cup {NoTable}]
    /\ hub \subseteq [key : BKey, dtm : Run]
    /\ link \subseteq [child : Child, parent : BKey, dtm : Run]
    /\ read \in [Run -> [Task -> {NoRead} \cup SUBSET (BKey \cup Staged)]]
    /\ \A r \in Run, t \in Task : read[r][t] = NoRead \/ read[r][t] \in Snapshot(t)

\* A link ties hubs together: the parent key of every link row is in the hub,
\* although the child was staged at another moment than its parent.
LinkAnchored == \A l \in link : l.parent \in HubKeys

\* A hub is "an 'anchor' around which elements referring to a business entity
\* resolve": what the satellite task of the parent finds staged is in the hub
\* once the hub task succeeded.
FeedAnchored ==
    \A r \in Run : ti[r]["hub"] = "success" => stagedParent[r] \subseteq HubKeys

\* Links document the relationships: once the link task of a run succeeded,
\* each relationship it found staged is in the link.
LinkComplete ==
    \A r \in Run : ti[r]["link"] = "success" =>
        \A b \in stagedChild[r] :
            \E l \in link : l.child = b.child /\ l.parent = b.parent

\* A relationship that a successful run recorded is not recorded again by a
\* later one, whatever failed, timed out or was still in flight in between.
LinkUnique ==
    \A l, m \in link :
        (l.child = m.child /\ l.parent = m.parent /\ l.dtm < m.dtm)
            => run[l.dtm] # "success"
=============================================================================
