-------------------------- MODULE SatelliteProofs --------------------------
(***************************************************************************)
(* Lemmas about the statements on one satellite table, for every table.    *)
(***************************************************************************)
EXTENDS Satellite, WellFoundedInduction, TLAPS

\* The shape of a row, for any keys, attributes and load dates.
Row(K, V, D) == [key : K, val : V, dtm : D, end : D \cup {NoEnd}]

\* A non-empty set of load dates has an earliest one.
LEMMA Earliest ==
    ASSUME NEW T \in SUBSET Nat, T # {}
    PROVE  \E d \in T : \A e \in T : d <= e
<1> DEFINE R == {p \in Nat \X Nat : p[1] < p[2]}
<1>1. IsWellFoundedOn(R, Nat)
  BY NatLessThanWellFounded DEF OpToRel
<1>2. PICK d \in T : \A e \in T : ~ (<<e, d>> \in R)
  BY <1>1, WFMin
<1>3. \A e \in T : ~ (e < d)
  BY <1>2
<1> QED
  BY <1>3

-----------------------------------------------------------------------------
\* A table of versions with load dates in D, whatever else its rows hold:
\* end dating changes the end of a row and nothing else.
Versioned(S, D) ==
    \A s \in S :
        /\ s.dtm \in D
        /\ \A e : LET x == [s EXCEPT !.end = e]
                  IN  x.key = s.key /\ x.dtm = s.dtm /\ x.end = e

\* The satellites of the vault are such tables.
LEMMA RowsVersioned ==
    ASSUME NEW K, NEW V, NEW D, NEW S \in SUBSET Row(K, V, D)
    PROVE  Versioned(S, D)
  BY DEF Versioned, Row

\* The load dates LEAD looks at are those of rows of the same key.
LEMMA LaterLoadsFact ==
    ASSUME NEW S, NEW s
    PROVE  \A d : d \in LaterLoads(S, s) <=> \E y \in S : y.key = s.key /\ y.dtm > s.dtm /\ d = y.dtm
  BY DEF LaterLoads, RowsOf

\* LEAD finds the earliest later load date of the key, or NULL.
LEMMA NextLoadOf ==
    ASSUME NEW D \in SUBSET Nat, NEW S, Versioned(S, D), NEW s
    PROVE  \/ /\ NextLoad(S, s) = NoEnd
              /\ LaterLoads(S, s) = {}
           \/ /\ NextLoad(S, s) \in LaterLoads(S, s)
              /\ NextLoad(S, s) \in D
              /\ \A e \in LaterLoads(S, s) : NextLoad(S, s) <= e
<1> DEFINE later == LaterLoads(S, s)
<1>1. later \in SUBSET D
  <2>1. \A x \in S : x.dtm \in D
    BY DEF Versioned
  <2> QED
    BY <2>1 DEF LaterLoads, RowsOf
<1>2. CASE later = {}
  BY <1>2 DEF NextLoad
<1>3. CASE later # {}
  <2>1. \E d \in later : \A e \in later : d <= e
    BY <1>1, <1>3, Earliest
  <2>2. NextLoad(S, s) = CHOOSE d \in later : \A e \in later : d <= e
    BY <1>3 DEF NextLoad
  <2>3. NextLoad(S, s) \in later /\ \A e \in later : NextLoad(S, s) <= e
    <3> HIDE DEF later
    <3> QED
      BY <2>1, <2>2
  <2> QED
    BY <1>1, <2>3
<1> QED
  BY <1>2, <1>3

\* The same for a satellite of the vault.
LEMMA NextLoadFact ==
    ASSUME NEW K, NEW V, NEW D \in SUBSET Nat, NEW S \in SUBSET Row(K, V, D),
           NEW s \in S
    PROVE  \/ /\ NextLoad(S, s) = NoEnd
              /\ LaterLoads(S, s) = {}
           \/ /\ NextLoad(S, s) \in LaterLoads(S, s)
              /\ NextLoad(S, s) \in D
              /\ \A e \in LaterLoads(S, s) : NextLoad(S, s) <= e
<1>1. Versioned(S, D)
  BY RowsVersioned
<1> QED
  BY <1>1, NextLoadOf

\* End dating changes load_end_dtm only: it neither invents nor loses a
\* version.
LEMMA EndDateFact ==
    ASSUME NEW K, NEW V, NEW D \in SUBSET Nat, NEW S \in SUBSET Row(K, V, D),
           NEW last
    PROVE  /\ EndDate(S, last) \in SUBSET Row(K, V, D)
           /\ \A x \in EndDate(S, last) : \E s \in S :
                 x.key = s.key /\ x.val = s.val /\ x.dtm = s.dtm
           /\ \A s \in S : \E x \in EndDate(S, last) :
                 x.key = s.key /\ x.val = s.val /\ x.dtm = s.dtm
<1> DEFINE E(s) == IF s \in last THEN NextLoad(S, s) ELSE s.dtm
<1> DEFINE F(s) == [s EXCEPT !.end = E(s)]
<1>1. ASSUME NEW s \in S
      PROVE  /\ F(s) \in Row(K, V, D)
             /\ F(s).key = s.key /\ F(s).val = s.val /\ F(s).dtm = s.dtm
  <2>1. E(s) \in D \cup {NoEnd}
    BY NextLoadFact DEF Row
  <2> QED
    BY <2>1 DEF Row
<1>2. EndDate(S, last) = {F(s) : s \in S}
  BY DEF EndDate
<1> HIDE DEF F
<1> QED
  BY <1>1, <1>2

\* The rows an execution inserts are open and dated with the load, and each
\* comes from a staged record.
LEMMA NewVersionsFact ==
    ASSUME NEW K, NEW V, NEW D, NEW S, NEW d \in D,
           NEW batch \in SUBSET [key : K, val : V]
    PROVE  /\ NewVersions(batch, S, d) \in SUBSET Row(K, V, D)
           /\ \A x \in NewVersions(batch, S, d) :
                 /\ x.dtm = d /\ x.end = NoEnd
                 /\ \E b \in batch : x.key = b.key /\ x.val = b.val
  BY DEF NewVersions, Row

-----------------------------------------------------------------------------
(***************************************************************************)
(* What end dating makes of a table.                                       *)
(***************************************************************************)
\* No key was loaded twice by one load.
OnePerLoad(S) == \A s, x \in S : (s.key = x.key /\ s.dtm = x.dtm) => s = x

\* Each row ends where the next version of its key begins.
Contiguous(S) == \A s \in S : s.end = NextLoad(S, s)

\* Each key has exactly one open row.
OneOpen(S) == \A s \in S : \E y \in S : RowsOf(Current(S), s.key) = {y}

\* The tables differ in load_end_dtm only.
SameVersions(S, T) ==
    /\ \A s \in S : \E x \in T : x.key = s.key /\ x.val = s.val /\ x.dtm = s.dtm
    /\ \A x \in T : \E s \in S : x.key = s.key /\ x.val = s.val /\ x.dtm = s.dtm

\* A set of load dates that does not grow beyond m has a latest one.
LEMMA LatestDate ==
    ASSUME NEW m \in Nat, NEW T \in SUBSET (0 .. m), T # {}
    PROVE  \E d \in T : \A e \in T : e <= d
<1> DEFINE Back == {b \in Nat : \E d \in T : b = m - d}
<1>1. Back \in SUBSET Nat /\ Back # {}
  <2>1. PICK d \in T : d \in 0 .. m
    OBVIOUS
  <2>2. m - d \in Back
    BY <2>1
  <2> QED
    BY <2>2
<1>2. PICK b \in Back : \A c \in Back : b <= c
  <2> HIDE DEF Back
  <2> QED
    BY <1>1, Earliest
<1>3. PICK d \in T : b = m - d
  BY <1>2
<1>4. ASSUME NEW e \in T PROVE e <= d
  <2>1. m - e \in Back /\ d \in 0 .. m /\ e \in 0 .. m
    OBVIOUS
  <2>2. m - d <= m - e
    BY <1>2, <1>3, <2>1
  <2> QED
    BY <2>1, <2>2
<1> QED
  BY <1>4

\* No version of the key is later.
LatestOf(S, s) == \A x \in S : ~(x.key = s.key /\ s.dtm < x.dtm)

\* A key with versions has a latest one.
LEMMA LatestRow ==
    ASSUME NEW D \in SUBSET Nat, NEW S, Versioned(S, D),
           NEW m \in Nat, \A d \in D : d <= m, NEW t \in S
    PROVE  \E s \in S : s.key = t.key /\ LatestOf(S, s)
<1> DEFINE dates == {s.dtm : s \in RowsOf(S, t.key)}
<1>1. \A s \in S : s.dtm \in D /\ s.dtm \in Nat
  BY DEF Versioned
<1>2. dates \in SUBSET (0 .. m) /\ dates # {}
  <2>1. t \in RowsOf(S, t.key)
    BY DEF RowsOf
  <2>2. \A s \in RowsOf(S, t.key) : s.dtm \in D
    BY <1>1 DEF RowsOf
  <2>3. D \subseteq 0 .. m
    OBVIOUS
  <2> QED
    BY <2>1, <2>2, <2>3
<1>3. PICK d \in dates : \A e \in dates : e <= d
  <2> HIDE DEF dates
  <2> QED
    BY <1>2, LatestDate
<1>4. PICK s \in S : s.key = t.key /\ s.dtm = d
  BY DEF RowsOf
<1>5. ASSUME NEW x \in S, x.key = s.key, s.dtm < x.dtm PROVE FALSE
  <2>1. x.dtm \in dates
    BY <1>4, <1>5 DEF RowsOf
  <2> HIDE DEF dates
  <2> QED
    BY <1>1, <1>3, <1>4, <1>5, <2>1
<1> QED
  BY <1>4, <1>5 DEF LatestOf

\* LEAD does not look at load_end_dtm.
LEMMA NextLoadSame ==
    ASSUME NEW S, NEW T, SameVersions(S, T), NEW s, NEW x, s.key = x.key, s.dtm = x.dtm
    PROVE  LaterLoads(S, s) = LaterLoads(T, x) /\ NextLoad(S, s) = NextLoad(T, x)
<1>1. \A d : d \in LaterLoads(S, s) <=> d \in LaterLoads(T, x)
  BY LaterLoadsFact DEF SameVersions
<1>2. LaterLoads(S, s) = LaterLoads(T, x)
  BY <1>1
<1> QED
  BY <1>2 DEF NextLoad

\* A row after end dating is one of before, with a new load_end_dtm.
LEMMA EndDateRow ==
    ASSUME NEW D, NEW S, Versioned(S, D), NEW last
    PROVE  \A x \in EndDate(S, last) : \E s \in S :
              /\ x.key = s.key /\ x.dtm = s.dtm
              /\ x.end = IF s \in last THEN NextLoad(S, s) ELSE s.dtm
              /\ x = [s EXCEPT !.end = IF s \in last THEN NextLoad(S, s) ELSE s.dtm]
<1> SUFFICES ASSUME NEW x \in EndDate(S, last)
             PROVE  \E s \in S :
              /\ x.key = s.key /\ x.dtm = s.dtm
              /\ x.end = IF s \in last THEN NextLoad(S, s) ELSE s.dtm
              /\ x = [s EXCEPT !.end = IF s \in last THEN NextLoad(S, s) ELSE s.dtm]
  OBVIOUS
<1>1. PICK s \in S : x = [s EXCEPT !.end = IF s \in last THEN NextLoad(S, s) ELSE s.dtm]
  BY DEF EndDate
<1> DEFINE e == IF s \in last THEN NextLoad(S, s) ELSE s.dtm
<1>2. LET y == [s EXCEPT !.end = e] IN y.key = s.key /\ y.dtm = s.dtm /\ y.end = e
  <2> HIDE DEF e
  <2> QED
    BY DEF Versioned
<1> QED
  BY <1>1, <1>2

\* End dating keeps the versions.
LEMMA EndDateSame ==
    ASSUME NEW K, NEW V, NEW D \in SUBSET Nat, NEW S \in SUBSET Row(K, V, D), NEW last
    PROVE  SameVersions(S, EndDate(S, last))
  BY EndDateFact DEF SameVersions

\* Without ties every row is the last of its load, and end dating makes none.
LEMMA EndDateOnePerLoad ==
    ASSUME NEW D, NEW S, Versioned(S, D), OnePerLoad(S), NEW last \in LastRows(S)
    PROVE  /\ last = S
           /\ OnePerLoad(EndDate(S, last))
           /\ \A x \in EndDate(S, last) : \E s \in S :
                 x.key = s.key /\ x.dtm = s.dtm /\ x.end = NextLoad(S, s)
<1> DEFINE T == EndDate(S, last)
<1>1. last = S
  <2>1. ASSUME NEW s \in S PROVE s \in last
    <3>1. PICK x \in S : last \cap SameLoad(S, s) = {x}
      BY DEF LastRows
    <3>2. x.key = s.key /\ x.dtm = s.dtm /\ x \in last
      BY <3>1 DEF SameLoad, RowsOf
    <3> QED
      BY <3>2 DEF OnePerLoad
  <2> QED
    BY <2>1 DEF LastRows
<1>2. \A x \in T : \E s \in S :
         /\ x.key = s.key /\ x.dtm = s.dtm /\ x.end = NextLoad(S, s)
         /\ x = [s EXCEPT !.end = NextLoad(S, s)]
  <2>1. \A x \in T : \E s \in S :
           /\ x.key = s.key /\ x.dtm = s.dtm
           /\ x.end = IF s \in last THEN NextLoad(S, s) ELSE s.dtm
           /\ x = [s EXCEPT !.end = IF s \in last THEN NextLoad(S, s) ELSE s.dtm]
    BY EndDateRow
  <2> HIDE DEF T
  <2> QED
    BY <1>1, <2>1
<1>3. ASSUME NEW x \in T, NEW y \in T, x.key = y.key, x.dtm = y.dtm PROVE x = y
  <2>1. PICK s \in S : /\ x.key = s.key /\ x.dtm = s.dtm
                       /\ x = [s EXCEPT !.end = NextLoad(S, s)]
    BY <1>2
  <2>2. PICK z \in S : /\ y.key = z.key /\ y.dtm = z.dtm
                       /\ y = [z EXCEPT !.end = NextLoad(S, z)]
    BY <1>2
  <2>3. s = z
    BY <1>3, <2>1, <2>2 DEF OnePerLoad
  <2> QED
    BY <2>1, <2>2, <2>3
<1> QED
  BY <1>1, <1>2, <1>3 DEF OnePerLoad

\* Then the periods of a key follow one another.
LEMMA EndDateDates ==
    ASSUME NEW K, NEW V, NEW D \in SUBSET Nat, NEW S \in SUBSET Row(K, V, D),
           NEW last \in LastRows(S), OnePerLoad(S)
    PROVE  Contiguous(EndDate(S, last)) /\ OnePerLoad(EndDate(S, last))
<1> DEFINE T == EndDate(S, last)
<1>1. Versioned(S, D)
  BY RowsVersioned
<1>2. /\ OnePerLoad(T)
      /\ \A x \in T : \E s \in S :
            x.key = s.key /\ x.dtm = s.dtm /\ x.end = NextLoad(S, s)
  BY <1>1, EndDateOnePerLoad
<1>3. SameVersions(S, T)
  BY EndDateSame
<1>4. ASSUME NEW x \in T PROVE x.end = NextLoad(T, x)
  <2>1. PICK s \in S : x.key = s.key /\ x.dtm = s.dtm /\ x.end = NextLoad(S, s)
    BY <1>2
  <2> QED
    BY <1>3, <2>1, NextLoadSame
<1> QED
  BY <1>2, <1>4 DEF Contiguous

\* Also with ties, and whichever row of a tie comes last: each key is left
\* with exactly one open row.
LEMMA EndDateOneOpen ==
    ASSUME NEW D \in SUBSET Nat, NEW S, Versioned(S, D),
           NEW m \in Nat, \A d \in D : d <= m
    PROVE  \A last \in LastRows(S) : OneOpen(EndDate(S, last))
<1> SUFFICES ASSUME NEW last \in LastRows(S), NEW t \in EndDate(S, last)
             PROVE  \E y \in EndDate(S, last) :
                       RowsOf(Current(EndDate(S, last)), t.key) = {y}
  BY DEF OneOpen
<1> DEFINE T == EndDate(S, last)
           k == t.key
           E(s) == IF s \in last THEN NextLoad(S, s) ELSE s.dtm
           F(s) == [s EXCEPT !.end = E(s)]
<1>1. \A s \in S : s.dtm \in D /\ s.dtm \in Nat
  BY DEF Versioned
<1>2. \A x \in T : \E s \in S : x.key = s.key /\ x.end = E(s) /\ x = F(s)
  BY EndDateRow
<1>3. \A s \in S : F(s).key = s.key /\ F(s).end = E(s)
  <2> HIDE DEF E
  <2> QED
    BY DEF Versioned
<1>4. PICK s1 \in S : s1.key = k
  BY <1>2
<1>5. PICK s0 \in S : s0.key = k /\ LatestOf(S, s0)
  BY <1>4, LatestRow
<1>6. PICK x0 \in S : last \cap SameLoad(S, s0) = {x0}
  BY DEF LastRows
<1>7. x0 \in last /\ x0.key = k /\ x0.dtm = s0.dtm
  BY <1>5, <1>6 DEF SameLoad, RowsOf
<1>8. NextLoad(S, x0) = NoEnd
  <2>1. \A d : d \in LaterLoads(S, x0) <=> \E y \in S : y.key = x0.key /\ y.dtm > x0.dtm /\ d = y.dtm
    BY LaterLoadsFact
  <2>2. LaterLoads(S, x0) = {}
    BY <1>1, <1>5, <1>7, <2>1 DEF LatestOf
  <2> QED
    BY <2>2 DEF NextLoad
<1>9. F(x0) \in RowsOf(Current(T), k)
  <2>1. F(x0) \in T
    BY DEF EndDate
  <2>2. F(x0).end = NoEnd /\ F(x0).key = k
    BY <1>3, <1>7, <1>8
  <2> HIDE DEF F, T
  <2> QED
    BY <2>1, <2>2 DEF RowsOf, Current
<1>10. ASSUME NEW y \in RowsOf(Current(T), k) PROVE y = F(x0)
  <2>1. y \in T /\ y.key = k /\ y.end = NoEnd
    BY DEF RowsOf, Current
  <2>2. PICK s \in S : y.key = s.key /\ y.end = E(s) /\ y = F(s)
    BY <1>2, <2>1
  <2>3. s \in last /\ NextLoad(S, s) = NoEnd
    BY <1>1, <2>1, <2>2, NoEndAssumption
  <2>4. LaterLoads(S, s) = {}
    <3>1. NextLoad(S, s) \notin D
      BY <2>3, NoEndAssumption
    <3> QED
      BY <3>1, NextLoadOf
  <2>5. s.dtm = s0.dtm
    <3>1. \A d : d \in LaterLoads(S, s) <=> \E z \in S : z.key = s.key /\ z.dtm > s.dtm /\ d = z.dtm
      BY LaterLoadsFact
    <3>2. ~(s0.dtm > s.dtm)
      BY <1>5, <2>1, <2>2, <2>4, <3>1
    <3>3. ~(s0.dtm < s.dtm)
      BY <1>5, <2>1, <2>2 DEF LatestOf
    <3> QED
      BY <1>1, <3>2, <3>3
  <2>6. s \in last \cap SameLoad(S, s0)
    BY <1>5, <2>1, <2>2, <2>3, <2>5 DEF SameLoad, RowsOf
  <2> QED
    BY <1>6, <2>2, <2>6
<1> HIDE DEF F, k, T
<1>11. RowsOf(Current(T), k) = {F(x0)} /\ F(x0) \in T
  BY <1>9, <1>10 DEF RowsOf, Current
<1> QED
  BY <1>11 DEF T, k

\* In a well-dated table a row is open exactly when it is the latest of its
\* key.
LEMMA DatedOpen ==
    ASSUME NEW K, NEW V, NEW D \in SUBSET Nat, NEW S \in SUBSET Row(K, V, D),
           Contiguous(S), NEW s \in S
    PROVE  s.end = NoEnd <=> LatestOf(S, s)
<1>1. s.end = NextLoad(S, s)
  BY DEF Contiguous
<1>2. \A d : d \in LaterLoads(S, s) <=> \E x \in S : x.key = s.key /\ x.dtm > s.dtm /\ d = x.dtm
  BY LaterLoadsFact
<1>3. LaterLoads(S, s) = {} <=> LatestOf(S, s)
  <2>1. ASSUME LaterLoads(S, s) = {}, NEW x \in S, x.key = s.key, s.dtm < x.dtm PROVE FALSE
    <3>1. x.dtm > s.dtm
      BY <2>1 DEF Row
    <3> QED
      BY <1>2, <2>1, <3>1
  <2>2. ASSUME LatestOf(S, s), NEW d \in LaterLoads(S, s) PROVE FALSE
    <3>1. PICK x \in S : x.key = s.key /\ x.dtm > s.dtm
      BY <1>2, <2>2
    <3>2. s.dtm < x.dtm
      BY <3>1 DEF Row
    <3> QED
      BY <2>2, <3>1, <3>2 DEF LatestOf
  <2> QED
    BY <2>1, <2>2 DEF LatestOf
<1> QED
  BY <1>1, <1>3, NextLoadFact, NoEndAssumption

\* In a well-dated table a query for a past date sees the latest version of
\* then.
LEMMA DatedAt ==
    ASSUME NEW K, NEW V, NEW D \in SUBSET Nat, NEW S \in SUBSET Row(K, V, D),
           Contiguous(S), NEW s \in S, NEW q \in Nat
    PROVE  s \in VersionsAt(S, s.key, q) <=>
              s.dtm <= q /\ \A x \in S : ~(x.key = s.key /\ s.dtm < x.dtm /\ x.dtm <= q)
<1>1. s.end = NextLoad(S, s) /\ s.dtm \in Nat /\ \A x \in S : x.dtm \in Nat
  BY DEF Contiguous, Row
<1>2. s \in VersionsAt(S, s.key, q) <=> s.dtm <= q /\ (s.end = NoEnd \/ q < s.end)
  BY DEF VersionsAt, RowsOf
<1>3. CASE s.end = NoEnd
  <2>1. LatestOf(S, s)
    BY <1>3, DatedOpen
  <2> QED
    BY <1>1, <1>2, <1>3, <2>1 DEF LatestOf
<1>4. CASE s.end # NoEnd
  <2>1. /\ NextLoad(S, s) \in LaterLoads(S, s)
        /\ NextLoad(S, s) \in D
        /\ \A e \in LaterLoads(S, s) : NextLoad(S, s) <= e
    <3>1. NextLoad(S, s) # NoEnd
      BY <1>1, <1>4
    <3> QED
      BY <3>1, NextLoadFact
  <2>2. \A d : d \in LaterLoads(S, s) <=> \E x \in S : x.key = s.key /\ x.dtm > s.dtm /\ d = x.dtm
    BY LaterLoadsFact
  <2>3. PICK y \in S : y.key = s.key /\ y.dtm > s.dtm /\ s.end = y.dtm
    BY <1>1, <2>1, <2>2
  <2>4. \A x \in S : x.key = s.key /\ s.dtm < x.dtm => s.end <= x.dtm
    BY <1>1, <2>1, <2>2
  <2> QED
    BY <1>1, <1>2, <1>4, <2>3, <2>4
<1> QED
  BY <1>3, <1>4
=============================================================================
