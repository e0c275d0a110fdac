----------------------------- MODULE Satellite -----------------------------
(***************************************************************************)
(* What the loading and end-dating statements do to one satellite table.   *)
(* The twelve loading/sat_*.hql and postupdates/sat_*.hql files share this *)
(* shape; they differ in the columns only.  A table is a set of rows       *)
(*   [key |-> hash key, val |-> descriptive attributes,                    *)
(*    dtm |-> load_dtm, end |-> load_end_dtm]                              *)
(* and load_dtm is the number of the daily run (its execution date).       *)
(***************************************************************************)
EXTENDS Naturals, FiniteSets

CONSTANTS
    NoEnd,  \* load_end_dtm IS NULL
    Blank   \* attributes COALESCE cannot tell from those of a missing row

ASSUME NoEndAssumption == NoEnd \notin Nat

Current(S) == {s \in S : s.end = NoEnd}

RowsOf(S, k) == {s \in S : s.key = k}

\* Mutant: a record is skipped when it equals one of several current rows.
Changed_FromAll(b, S) ==
    LET cur == RowsOf(Current(S), b.key)
    IN  IF cur = {} THEN b.val # Blank ELSE \A s \in cur : s.val # b.val
\* Mutant: no comparison of attributes.
Changed_Always(b, S) == TRUE

\* LEFT OUTER JOIN on the current rows of the same key, then
\* COALESCE(new, '') != COALESCE(old, '') for some attribute.
Changed(b, S) ==
    LET cur == RowsOf(Current(S), b.key)
    IN  IF cur = {} THEN b.val # Blank ELSE \E s \in cur : s.val # b.val

\* The rows an execution for load date d inserts from the staged records.
NewVersions(batch, S, d) ==
    {[key |-> b.key, val |-> b.val, dtm |-> d, end |-> NoEnd] :
        b \in {x \in batch : Changed(x, S)}}

LaterLoads(S, s) == {x.dtm : x \in {y \in RowsOf(S, s.key) : y.dtm > s.dtm}}

\* Mutant: LEAD with a default instead of NULL.
NextLoad_Default(S, s) ==
    LET later == LaterLoads(S, s)
    IN  IF later = {} THEN 0 ELSE CHOOSE d \in later : \A e \in later : d <= e

NextLoad(S, s) ==
    LET later == LaterLoads(S, s)
    IN  IF later = {} THEN NoEnd ELSE CHOOSE d \in later : \A e \in later : d <= e

SameLoad(S, s) == {x \in RowsOf(S, s.key) : x.dtm = s.dtm}

\* Mutant: every row of a load sees the next load, as with a self-join.
LastRows_All(S) == {S}

\* Rows of one key with the same load_dtm are ordered arbitrarily by
\* ORDER BY load_dtm: any one of them may come last.
LastRows(S) == {L \in SUBSET S : \A s \in S : \E x \in S : L \cap SameLoad(S, s) = {x}}

\* Mutant: end dates the open rows and drops the closed ones.
EndDate_OpenOnly(S, last) ==
    {[s EXCEPT !.end = IF s \in last THEN NextLoad(S, s) ELSE s.dtm] : s \in Current(S)}

\* LEAD(load_dtm) OVER (PARTITION BY key ORDER BY load_dtm): the load_dtm of
\* the row that follows.
EndDate(S, last) ==
    {[s EXCEPT !.end = IF s \in last THEN NextLoad(S, s) ELSE s.dtm] : s \in S}

\* The versions of a key that a query sees for the point in time d.
VersionsAt(S, k, d) ==
    {s \in RowsOf(S, k) : s.dtm <= d /\ (s.end = NoEnd \/ d < s.end)}
=============================================================================
