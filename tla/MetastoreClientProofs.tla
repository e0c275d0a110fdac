------------------------ MODULE MetastoreClientProofs ------------------------
(***************************************************************************)
(* Theorems about the metastore hook, for any tables, partition values and *)
(* filters, and any number of changes of the metastore during a call.      *)
(***************************************************************************)
EXTENDS MetastoreClient, TLAPS

Methods == {"get_table", "table_exists", "check_for_partition",
            "check_for_named_partition", "get_tables", "get_partitions", "max_partition"}

\* A request has the arguments of its method.
LEMMA RequestFact ==
    ASSUME NEW q \in Request
    PROVE  /\ q.op \in Methods
           /\ q.op # "get_tables" => q.table \in Table
           /\ q.op = "max_partition" => q.field \in Field \cup {NoField}
  BY DEF Request, Methods

\* The lists of columns have no name twice.
LEMMA KeysFact ==
    ASSUME NEW k \in Keys
    PROVE  /\ k \in Seq(Field)
           /\ \A i, j \in DOMAIN k : k[i] = k[j] => i = j
<1>1. \E t \in Table : k \in KeysOf[t]
  BY MetastoreAssumption DEF Keys, Range
<1> QED
  BY <1>1, MetastoreAssumption

\* What the metastore says of an existing table.
LEMMA StoreFact ==
    ASSUME NEW s \in Store, NEW t \in Table, s[t] # NoTable
    PROVE  /\ s[t].keys \in Keys
           /\ s[t].parts \subseteq ValuesFor(s[t].keys)
           /\ s[t].keys = <<>> => s[t].parts = {}
<1>1. s[t] \in Definition
  BY DEF Store
<1>2. PICK k \in Keys :
         s[t] \in [keys : {k}, parts : IF k = <<>> THEN {{}} ELSE SUBSET ValuesFor(k)]
  BY <1>1 DEF Definition
<1>3. s[t].keys = k /\ s[t].parts \in IF k = <<>> THEN {{}} ELSE SUBSET ValuesFor(k)
  BY <1>2
<1> QED
  BY <1>3

\* A dict of names and values has the names that have a value.
LEMMA ZipFact ==
    ASSUME NEW k \in Keys, NEW l \in Keys, NEW p \in ValuesFor(l)
    PROVE  /\ Zip(k, p) \in Row
           /\ DOMAIN Zip(k, p) = {k[i] : i \in DOMAIN k \cap DOMAIN l}
<1> DEFINE common == DOMAIN k \cap DOMAIN p
           names  == {k[i] : i \in common}
           value(f) == p[CHOOSE i \in common : k[i] = f]
<1>1. common = DOMAIN k \cap DOMAIN l /\ k \in Seq(Field) /\ p \in [DOMAIN l -> Value]
  BY KeysFact DEF ValuesFor
<1>2. names \in SUBSET Field
  BY <1>1
<1>3. \A f \in names : value(f) \in Value
  <2> SUFFICES ASSUME NEW f \in names PROVE value(f) \in Value
    OBVIOUS
  <2>1. \E i \in common : k[i] = f
    OBVIOUS
  <2>2. (CHOOSE i \in common : k[i] = f) \in common
    BY <2>1
  <2> QED
    BY <1>1, <2>2
<1>4. Zip(k, p) = [f \in names |-> value(f)]
  BY DEF Zip
<1> HIDE DEF names, value
<1>5. Zip(k, p) \in [names -> Value] /\ DOMAIN Zip(k, p) = names
  BY <1>3, <1>4
<1>6. Zip(k, p) \in Row
  BY <1>2, <1>5 DEF Row
<1> QED
  BY <1>1, <1>5, <1>6 DEF names

\* Rows of one table under one list of names have the same columns.
LEMMA RowsFact ==
    ASSUME NEW s \in Store, NEW t \in Table, s[t] # NoTable, NEW k \in Keys, NEW filter
    PROVE  /\ Rows(k, s[t], filter).rows \subseteq Row
           /\ \A r \in Rows(k, s[t], filter).rows :
                 DOMAIN r = {k[i] : i \in DOMAIN k \cap DOMAIN s[t].keys}
<1>1. \A p \in Selected(s[t], filter) : p \in ValuesFor(s[t].keys) /\ s[t].keys \in Keys
  BY StoreFact DEF Selected
<1>2. Rows(k, s[t], filter).rows = {Zip(k, p) : p \in Selected(s[t], filter)}
  BY DEF Rows
<1>3. \A p \in Selected(s[t], filter) :
         /\ Zip(k, p) \in Row
         /\ DOMAIN Zip(k, p) = {k[i] : i \in DOMAIN k \cap DOMAIN s[t].keys}
  BY <1>1, ZipFact
<1> HIDE DEF Rows
<1> QED
  BY <1>2, <1>3

\* A non-empty set of partition values has a largest one.
LEMMA MaxFact ==
    ASSUME NEW S \in SUBSET Value, S # {}
    PROVE  Max(S) \in S /\ \A v \in S : v <= Max(S)
<1>1. \E m \in S : \A v \in S : m >= v
  BY MetastoreAssumption
<1> QED
  BY <1>1 DEF Max

-----------------------------------------------------------------------------
\* The inductive invariant: what a call keeps between its requests was true
\* of the metastore since the call began.
Listed(names) ==
    /\ names \subseteq Table
    /\ \A t \in names : \E s \in seen : s[t] # NoTable
    /\ \A t \in Table : (\A s \in seen : s[t] # NoTable) => t \in names

HalfTrue ==
    pc = "second" =>
        \/ req.op = "get_tables" /\ Listed(got.names)
        \/ /\ req.op \in TwoRequests /\ got.keys \in Keys
           /\ \E s \in seen : s[req.table] # NoTable /\ s[req.table].keys = got.keys

\* The names are those of one moment, the values those of another.
Zipped(s, u) ==
    /\ s[req.table] # NoTable /\ u[req.table] # NoTable
    /\ Understood(u[req.table], req.filter)
    /\ got = Rows(s[req.table].keys, u[req.table], req.filter)

RowsTrue ==
    /\ got \in [rows : SUBSET Row]
    /\ \E s, u \in seen : Zipped(s, u)
    /\ \A r, x \in got.rows : DOMAIN r = DOMAIN x
    /\ SameColumns(req.table) =>
          \E s \in seen : s[req.table] # NoTable /\
                          got.rows = Listing(s[req.table], req.filter)

GotTrue ==
    pc = "close" =>
        /\ req.op = "get_tables" => got \in AnswerOf(req) /\ ListHolds(got)
        /\ req.op = "table_exists" => \E s \in seen : s[req.table] # NoTable
        /\ req.op \in TwoRequests => RowsTrue
        /\ req.op \in Methods \ ({"get_tables", "table_exists"} \cup TwoRequests) =>
              got \in AnswerOf(req) /\ \E s \in seen : Holds(s, req, got)

OpenedBefore == pc = "open" /\ transport # "closed" => failed

HookInv ==
    /\ TypeOK /\ TrueAnswers /\ LeftOpenByFailure
    /\ pc # "idle" => store \in seen
    /\ HalfTrue /\ GotTrue /\ OpenedBefore

\* Nothing was asked yet.
LEMMA InitInv == Init => HookInv
<1> SUFFICES ASSUME Init PROVE HookInv
  OBVIOUS
<1>1. TypeOK
  BY DEF Init, TypeOK, Request
<1> QED
  BY <1>1 DEF Init, HookInv, TrueAnswers, LeftOpenByFailure, HalfTrue, GotTrue, OpenedBefore

\* An exception leaves the transport open only where a method without
\* `finally` is at fault.
LEMMA RaiseStep ==
    ASSUME HookInv, pc \in {"open", "request", "second"}, Raise,
           UNCHANGED <<store, up, req, seen>>
    PROVE  HookInv'
<1>1. req \in Request /\ req.op \in Methods
  BY RequestFact DEF HookInv, TypeOK
<1>2. /\ pc' = "idle"
      /\ answer' = IF req.op = "table_exists" THEN [yes |-> FALSE] ELSE Raised
      /\ failed' = (failed \/ req.op # "check_for_named_partition")
      /\ transport' \in {"closed", transport}
      /\ req.op = "check_for_named_partition" /\ pc # "open" => transport' = "closed"
  BY DEF Raise
<1>3. answer' \in {NoAnswer, Raised} \/ answer' \in AnswerOf(req)
  BY <1>2 DEF AnswerOf
<1>4. TypeOK'
  <2>1. (answer \in {NoAnswer, Raised} \/ answer \in AnswerOf(req))'
    BY <1>3 DEF AnswerOf
  <2> QED
    BY <2>1, <1>2 DEF HookInv, TypeOK
<1>5. TrueAnswers'
  <2>1. CASE req.op = "table_exists"
    <3>1. store \in seen /\ answer'.yes = FALSE
      BY <2>1, <1>2 DEF HookInv
    <3> QED
      BY <2>1, <3>1 DEF TrueAnswers, Holds
  <2>2. CASE req.op # "table_exists"
    BY <2>2, <1>2 DEF TrueAnswers
  <2> QED
    BY <2>1, <2>2
<1>6. LeftOpenByFailure'
  BY <1>2 DEF HookInv, LeftOpenByFailure, OpenedBefore
<1> QED
  BY <1>2, <1>4, <1>5, <1>6 DEF HookInv, HalfTrue, GotTrue, OpenedBefore

\* Opening keeps nothing of the metastore yet.
LEMMA OpenStep ==
    ASSUME HookInv, Open
    PROVE  HookInv'
<1>1. CASE /\ transport = "closed" /\ transport' = "open" /\ pc' = "request"
           /\ UNCHANGED <<got, answer, failed>>
  <2>1. UNCHANGED <<store, up, req, seen, answer, failed>> /\ pc = "open"
    BY <1>1 DEF Open
  <2>2. TypeOK'
    BY <1>1, <2>1 DEF HookInv, TypeOK, AnswerOf
  <2> QED
    BY <1>1, <2>1, <2>2
    DEF HookInv, TypeOK, TrueAnswers, LeftOpenByFailure, HalfTrue, GotTrue, OpenedBefore
<1>2. CASE Raise
  BY <1>2, RaiseStep DEF Open
<1> QED
  BY <1>1, <1>2 DEF Open

\* A request that was answered leads on when what is kept is true.
LEMMA GotStep ==
    ASSUME HookInv, NEW v, NEW p \in {"second", "close"}, Got(v, p),
           pc \in {"request", "second"}, UNCHANGED <<store, up, req, seen>>,
           HalfTrue', GotTrue'
    PROVE  HookInv'
<1>1. pc' = p /\ UNCHANGED <<transport, answer, failed>>
  BY DEF Got
<1>2. answer = NoAnswer
  BY DEF HookInv, TypeOK
<1>3. TypeOK'
  BY <1>1, <1>2 DEF HookInv, TypeOK
<1> QED
  BY <1>1, <1>2, <1>3 DEF HookInv, TrueAnswers, LeftOpenByFailure, OpenedBefore

\* The first request: what it returns is what the metastore holds now.
LEMMA FirstStep ==
    ASSUME HookInv, pc = "request", FirstRequest, UNCHANGED <<store, up, req, seen>>
    PROVE  HookInv'
<1>1. /\ req \in Request /\ req.op \in Methods /\ store \in Store /\ store \in seen
      /\ req.op # "get_tables" => req.table \in Table
  BY RequestFact DEF HookInv, TypeOK
<1>2. CASE Raise
  BY <1>2, RaiseStep
<1>3. CASE req.op \in {"get_table", "table_exists"} /\ ~Raise
  <2>1. Got([keys |-> store[req.table].keys], "close") /\ store[req.table] # NoTable
    BY <1>3 DEF FirstRequest, Exists
  <2>2. store[req.table].keys \in Keys
    BY <1>1, <1>3, <2>1, StoreFact
  <2>3. got' = [keys |-> store[req.table].keys] /\ pc' = "close"
    BY <2>1 DEF Got
  <2>4. req.op = "get_table" => got' \in AnswerOf(req) /\ Holds(store, req, got')
    BY <2>1, <2>2, <2>3 DEF AnswerOf, Holds
  <2>5. GotTrue' /\ HalfTrue'
    BY <1>1, <1>3, <2>1, <2>3, <2>4 DEF GotTrue, HalfTrue, AnswerOf, Holds, TwoRequests
  <2> QED
    BY <2>1, <2>5, GotStep
<1>4. CASE req.op = "check_for_partition" /\ ~Raise
  <2> DEFINE found == Selected(store[req.table], req.filter) # {}
  <2>1. Got([yes |-> found], "close") /\ store[req.table] # NoTable
    BY <1>4 DEF FirstRequest, Exists
  <2>2. found <=> Listing(store[req.table], req.filter) # {}
    BY DEF Listing
  <2> HIDE DEF found
  <2>3. got' = [yes |-> found] /\ pc' = "close" /\ found \in BOOLEAN
    BY <2>1 DEF Got, found
  <2>4. got' \in AnswerOf(req)
    BY <1>4, <2>3 DEF AnswerOf
  <2>5. Holds(store, req, got')
    BY <1>4, <2>1, <2>2, <2>3 DEF Holds
  <2>6. GotTrue' /\ HalfTrue'
    BY <1>1, <1>4, <2>3, <2>4, <2>5 DEF GotTrue, HalfTrue, AnswerOf, Holds, TwoRequests
  <2> QED
    BY <2>1, <2>6, GotStep
<1>7. CASE req.op = "check_for_named_partition" /\ ~Raise
  <2> DEFINE there == Exists(req.table) /\ HasNamed(store[req.table], req.name)
  <2>1. Got([yes |-> there], "close")
    BY <1>7 DEF FirstRequest
  <2>2. got' = [yes |-> there] /\ pc' = "close" /\ there \in BOOLEAN
    BY <2>1 DEF Got, Exists, HasNamed
  <2>3. got' \in AnswerOf(req)
    BY <1>7, <2>2 DEF AnswerOf
  <2>4. Holds(store, req, got')
    BY <1>7, <2>2 DEF Holds, Exists
  <2>5. GotTrue' /\ HalfTrue'
    BY <1>1, <1>7, <2>2, <2>3, <2>4 DEF GotTrue, HalfTrue, AnswerOf, Holds, TwoRequests
  <2> QED
    BY <2>1, <2>5, GotStep
<1>5. CASE req.op = "get_tables" /\ ~Raise
  <2>1. Got([names |-> {t \in Table : Exists(t)}], "second")
    BY <1>5 DEF FirstRequest
  <2>2. got' = [names |-> {t \in Table : Exists(t)}] /\ pc' = "second"
    BY <2>1 DEF Got
  <2>3. HalfTrue' /\ GotTrue'
    BY <1>1, <1>5, <2>2 DEF HalfTrue, GotTrue, Listed, Exists, TwoRequests
  <2> QED
    BY <2>1, <2>3, GotStep
<1>6. CASE req.op \in {"get_partitions", "max_partition"} /\ ~Raise
  <2>1. Got([keys |-> store[req.table].keys], "second") /\ store[req.table] # NoTable
    BY <1>6 DEF FirstRequest, Exists
  <2>2. got' = [keys |-> store[req.table].keys] /\ pc' = "second"
    BY <2>1 DEF Got
  <2>3. store[req.table].keys \in Keys
    BY <1>1, <1>6, <2>1, StoreFact
  <2>4. HalfTrue' /\ GotTrue'
    BY <1>1, <1>6, <2>1, <2>2, <2>3 DEF HalfTrue, GotTrue, TwoRequests
  <2> QED
    BY <2>1, <2>4, GotStep
<1> QED
  BY <1>1, <1>2, <1>3, <1>4, <1>5, <1>6, <1>7 DEF Methods

\* The second request combines what is held now with what was held before.
LEMMA SecondStep ==
    ASSUME HookInv, pc = "second", SecondRequest, UNCHANGED <<store, up, req, seen>>
    PROVE  HookInv'
<1>1. /\ req \in Request /\ store \in Store /\ store \in seen
      /\ req.op # "get_tables" => req.table \in Table
  BY RequestFact DEF HookInv, TypeOK
<1>2. CASE Raise
  BY <1>2, RaiseStep
<1>3. CASE req.op = "get_tables" /\ ~Raise
  <2>1. Got(TableObjects(got.names), "close") /\ Listed(got.names)
    BY <1>3 DEF SecondRequest, HookInv, HalfTrue, TwoRequests
  <2>2. got' = TableObjects(got.names) /\ pc' = "close"
    BY <2>1 DEF Got
  <2> DEFINE Objects == {[table |-> t, keys |-> store[t].keys] :
                            t \in {u \in got.names : Exists(u)}}
  <2>3. got' = [tables |-> Objects]
    BY <2>2 DEF TableObjects
  <2>4. \A o \in Objects : /\ o \in [table : Table, keys : Keys]
                           /\ store[o.table] # NoTable /\ store[o.table].keys = o.keys
    BY <1>1, <2>1, StoreFact DEF Listed, Exists
  <2>5. ASSUME NEW t \in Table, \A s \in seen : s[t] # NoTable
        PROVE  \E o \in Objects : o.table = t
    <3>1. t \in got.names /\ Exists(t)
      BY <1>1, <2>1, <2>5 DEF Listed, Exists
    <3>2. [table |-> t, keys |-> store[t].keys] \in Objects
      BY <3>1
    <3> QED
      BY <3>2
  <2>6. got' \in [tables : SUBSET [table : Table, keys : Keys]]
    BY <2>3, <2>4
  <2>7. ListHolds(got)'
    <3> HIDE DEF Objects
    <3>1. got'.tables = Objects
      BY <2>3
    <3> QED
      BY <1>1, <2>4, <2>5, <3>1 DEF ListHolds
  <2>8. GotTrue' /\ HalfTrue'
    <3> HIDE DEF Objects
    <3> QED
      BY <1>3, <2>2, <2>6, <2>7 DEF GotTrue, HalfTrue, AnswerOf, TwoRequests
  <2> QED
    BY <2>1, <2>8, GotStep
<1>4. CASE req.op # "get_tables" /\ ~Raise
  <2> DEFINE now == store[req.table]
  <2>1. /\ Got(Rows(got.keys, now, req.filter), "close") /\ now # NoTable
        /\ req.op \in TwoRequests /\ got.keys \in Keys
        /\ \E s \in seen : s[req.table] # NoTable /\ s[req.table].keys = got.keys
        /\ Understood(now, req.filter)
    BY <1>4 DEF SecondRequest, Exists, HookInv, HalfTrue
  <2>2. got' = Rows(got.keys, now, req.filter) /\ pc' = "close"
    BY <2>1 DEF Got
  <2>3. /\ got' \in [rows : SUBSET Row]
        /\ \A r, x \in got'.rows : DOMAIN r = DOMAIN x
    <3>1. req.table \in Table
      BY <1>1, <1>4
    <3>2. /\ Rows(got.keys, now, req.filter).rows \subseteq Row
          /\ \A r \in Rows(got.keys, now, req.filter).rows :
                DOMAIN r = {got.keys[i] : i \in DOMAIN got.keys \cap DOMAIN now.keys}
      BY <1>1, <2>1, <3>1, RowsFact
    <3>3. Rows(got.keys, now, req.filter) =
             [rows |-> Rows(got.keys, now, req.filter).rows]
      BY DEF Rows
    <3> QED
      BY <2>2, <3>2, <3>3
  <2>4. SameColumns(req.table) => got'.rows = Listing(now, req.filter)
    <3>1. SameColumns(req.table) => now.keys = got.keys
      BY <1>1, <2>1 DEF SameColumns
    <3> QED
      BY <2>2, <3>1 DEF Rows, Listing
  <2>5. RowsTrue'
    <3>1. SameColumns(req.table)' <=> SameColumns(req.table)
      BY DEF SameColumns
    <3>2. PICK s \in seen : s[req.table] # NoTable /\ s[req.table].keys = got.keys
      BY <2>1
    <3>3. Zipped(s, store)'
      BY <2>1, <2>2, <3>2 DEF Zipped
    <3> QED
      BY <1>1, <2>1, <2>3, <2>4, <3>1, <3>3 DEF RowsTrue
  <2>6. GotTrue' /\ HalfTrue'
    BY <1>1, <2>1, <2>2, <2>5 DEF GotTrue, HalfTrue, TwoRequests
  <2> QED
    BY <2>1, <2>6, GotStep
<1> QED
  BY <1>2, <1>3, <1>4

\* The maximum of rows is that of column c, their only one or the one asked for.
IsMaximum(rows, field, c) ==
    /\ \A r \in rows : c \in DOMAIN r
    /\ \/ \A r \in rows : DOMAIN r = {c}
       \/ c = field /\ \A r \in rows, f \in Field : DOMAIN r # {f}
    /\ Maximum(rows, field) = [max |-> Max({r[c] : r \in rows})]
    /\ Max({r[c] : r \in rows}) \in {r[c] : r \in rows} \cap Value
    /\ \A r \in rows : r[c] <= Max({x[c] : x \in rows})

\* What max_partition makes of rows with the same columns.
LEMMA MaximumFact ==
    ASSUME NEW rows \in SUBSET Row, NEW field, rows # {},
           \A r, x \in rows : DOMAIN r = DOMAIN x
    PROVE  \/ Maximum(rows, field) = Raised
           \/ \E c \in Field : IsMaximum(rows, field, c)
<1> DEFINE one   == CHOOSE r \in rows : TRUE
           names == DOMAIN one
           asked == IF \E f \in Field : names = {f} THEN CHOOSE f \in Field : names = {f}
                                                   ELSE field
<1>1. one \in rows /\ \A r \in rows : DOMAIN r = names
  OBVIOUS
<1>2. /\ names \subseteq Field
      /\ \A r \in rows, c \in names : r[c] \in Value
  BY <1>1 DEF Row
<1>3. Maximum(rows, field) = IF asked \in names THEN [max |-> Max({r[asked] : r \in rows})]
                                               ELSE Raised
  BY DEF Maximum
<1>4. \/ names = {asked}
      \/ asked = field /\ \A f \in Field : names # {f}
  OBVIOUS
<1> HIDE DEF one, asked
<1>5. ASSUME asked \in names
      PROVE  /\ Max({r[asked] : r \in rows}) \in {r[asked] : r \in rows} \cap Value
             /\ \A r \in rows : r[asked] <= Max({x[asked] : x \in rows})
  <2> DEFINE found == {r[asked] : r \in rows}
  <2>1. found \in SUBSET Value /\ found # {}
    BY <1>1, <1>2, <1>5
  <2> HIDE DEF found
  <2>2. Max(found) \in found /\ \A v \in found : v <= Max(found)
    BY <2>1, MaxFact
  <2> QED
    BY <2>1, <2>2 DEF found
<1> HIDE DEF names
<1>6. asked \in names => IsMaximum(rows, field, asked)
  BY <1>1, <1>2, <1>3, <1>4, <1>5 DEF IsMaximum
<1> QED
  BY <1>2, <1>3, <1>6

\* The columns of the rows of a table: one, or several.
HasColumns(d, r) ==
    /\ Len(d.keys) = 1 => DOMAIN r = {d.keys[1]}
    /\ Len(d.keys) # 1 => \A f \in Field : DOMAIN r # {f}

\* Rows of a table have its columns.
LEMMA ListingFact ==
    ASSUME NEW s \in Store, NEW t \in Table, s[t] # NoTable, NEW filter,
           NEW r \in Listing(s[t], filter)
    PROVE  HasColumns(s[t], r)
<1>1. s[t].keys \in Keys /\ Listing(s[t], filter) = Rows(s[t].keys, s[t], filter).rows
  BY StoreFact DEF Listing, Rows
<1>2. DOMAIN r = {s[t].keys[i] : i \in DOMAIN s[t].keys}
  <2> DEFINE k == s[t].keys
  <2>1. k \in Keys /\ r \in Rows(k, s[t], filter).rows
    BY <1>1
  <2> HIDE DEF k
  <2>2. \A x \in Rows(k, s[t], filter).rows :
           DOMAIN x = {k[i] : i \in DOMAIN k \cap DOMAIN s[t].keys}
    BY <2>1, RowsFact
  <2>3. DOMAIN r = {k[i] : i \in DOMAIN k \cap DOMAIN s[t].keys}
    BY <2>1, <2>2
  <2> QED
    BY <2>3 DEF k
<1>3. /\ s[t].keys \in Seq(Field)
      /\ \A i, j \in DOMAIN s[t].keys : s[t].keys[i] = s[t].keys[j] => i = j
  BY <1>1, KeysFact
<1>4. s[t].keys # <<>>
  BY StoreFact DEF Listing, Selected
<1>5. DOMAIN s[t].keys = 1 .. Len(s[t].keys) /\ Len(s[t].keys) \in Nat \ {0}
  BY <1>3, <1>4
<1>6. ASSUME Len(s[t].keys) # 1, NEW f \in Field, DOMAIN r = {f} PROVE FALSE
  <2>1. Len(s[t].keys) >= 2
    <3>1. \A n \in Nat : n # 0 /\ n # 1 => n >= 2
      OBVIOUS
    <3> QED
      BY <1>5, <1>6, <3>1
  <2>2. 1 \in DOMAIN s[t].keys /\ 2 \in DOMAIN s[t].keys
    BY <1>5, <2>1
  <2>3. s[t].keys[1] = f /\ s[t].keys[2] = f
    BY <1>2, <1>6, <2>2
  <2> QED
    BY <1>3, <2>2, <2>3
<1>7. Len(s[t].keys) = 1 => DOMAIN r = {s[t].keys[1]}
  BY <1>2, <1>5
<1> QED
  BY <1>6, <1>7 DEF HasColumns

\* The answer is what was kept.
LEMMA CloseStep ==
    ASSUME HookInv, Close
    PROVE  HookInv'
<1>1. /\ pc = "close" /\ pc' = "idle" /\ transport' = "closed"
      /\ UNCHANGED <<store, up, req, seen, failed>>
      /\ req \in Request /\ req.op \in Methods
  BY RequestFact DEF Close, HookInv, TypeOK
<1>2. /\ answer' = Raised \/ answer' \in AnswerOf(req)
      /\ answer' \notin {NoAnswer, Raised} =>
            IF req.op = "get_tables" THEN ListHolds(answer')
            ELSE \/ \E s \in seen : Holds(s, req, answer')
                 \/ /\ req.op \in TwoRequests /\ ~SameColumns(req.table)
                    /\ OfHalves(req, answer')
  <2>1. CASE req.op = "table_exists"
    <3>1. answer' = [yes |-> TRUE] /\ \E s \in seen : s[req.table] # NoTable
      BY <1>1, <2>1 DEF Close, HookInv, GotTrue
    <3> QED
      BY <2>1, <3>1 DEF AnswerOf, Holds
  <2>2. CASE req.op = "max_partition"
    <3>1. answer' = Maximum(got.rows, req.field) /\ RowsTrue /\ req.table \in Table
      BY <1>1, <2>2, RequestFact DEF Close, HookInv, GotTrue, TwoRequests
    <3>4. OfHalves(req, answer')
      BY <2>2, <3>1 DEF RowsTrue, Zipped, OfHalves
    <3>2. CASE got.rows = {}
      <4>1. answer' = None
        BY <3>1, <3>2 DEF Maximum
      <4>2. \/ ~SameColumns(req.table)
            \/ \E s \in seen : Holds(s, req, None)
        BY <2>2, <3>1, <3>2 DEF RowsTrue, Holds
      <4> QED
        BY <2>2, <3>4, <4>1, <4>2 DEF AnswerOf, TwoRequests
    <3>3. CASE got.rows # {} /\ answer' # Raised
      <4>1. got.rows \in SUBSET Row /\ \A r, x \in got.rows : DOMAIN r = DOMAIN x
        BY <3>1 DEF RowsTrue
      <4>2. PICK c \in Field :
               /\ \A r \in got.rows : c \in DOMAIN r
               /\ \/ \A r \in got.rows : DOMAIN r = {c}
                  \/ c = req.field /\ \A r \in got.rows, f \in Field : DOMAIN r # {f}
               /\ Maximum(got.rows, req.field) = [max |-> Max({r[c] : r \in got.rows})]
               /\ Max({r[c] : r \in got.rows}) \in {r[c] : r \in got.rows} \cap Value
               /\ \A r \in got.rows : r[c] <= Max({x[c] : x \in got.rows})
        <5>1. /\ got.rows # {} /\ Maximum(got.rows, req.field) # Raised
          BY <3>1, <3>3
        <5>2. \E c \in Field : IsMaximum(got.rows, req.field, c)
          BY <4>1, <5>1, MaximumFact
        <5> QED
          BY <5>2 DEF IsMaximum
      <4>3. answer' = [max |-> Max({r[c] : r \in got.rows})]
        BY <3>1, <4>2
      <4>4. answer' \in AnswerOf(req)
        BY <2>2, <4>2, <4>3 DEF AnswerOf
      <4>5. ASSUME SameColumns(req.table) PROVE \E s \in seen : Holds(s, req, answer')
        <5>1. PICK s \in seen : s[req.table] # NoTable /\
                                got.rows = Listing(s[req.table], req.filter)
          BY <3>1, <4>5 DEF RowsTrue
        <5>2. s \in Store
          BY DEF HookInv, TypeOK
        <5>3. Column(s[req.table], req.field) = c
          <6>1. PICK r \in got.rows : TRUE
            BY <3>3
          <6>2. /\ Len(s[req.table].keys) = 1 => DOMAIN r = {s[req.table].keys[1]}
                /\ Len(s[req.table].keys) # 1 => \A f \in Field : DOMAIN r # {f}
            <7>1. s[req.table] # NoTable /\ r \in Listing(s[req.table], req.filter)
              BY <5>1, <6>1
            <7>2. HasColumns(s[req.table], r)
              BY <3>1, <5>2, <7>1, ListingFact
            <7> QED
              BY <7>2 DEF HasColumns
          <6>3. CASE Len(s[req.table].keys) = 1
            <7>1. c \in {s[req.table].keys[1]}
              BY <4>2, <6>1, <6>2, <6>3
            <7> QED
              BY <6>3, <7>1 DEF Column
          <6>4. CASE Len(s[req.table].keys) # 1
            <7>1. c = req.field
              BY <4>2, <6>1, <6>2, <6>4
            <7> QED
              BY <6>4, <7>1 DEF Column
          <6> QED
            BY <6>3, <6>4
        <5> DEFINE found == {r[c] : r \in {x \in got.rows : c \in DOMAIN x}}
        <5>4. found = {r[c] : r \in got.rows}
          BY <4>2
        <5>5. answer'.max \in found /\ \A v \in found : v <= answer'.max
          BY <4>2, <4>3, <5>4
        <5>6. answer' # None
          <6>1. answer' \in [max : Value]
            BY <4>2, <4>3
          <6> QED
            BY <6>1, MetastoreAssumption
        <5> QED
          BY <2>2, <5>1, <5>3, <5>5, <5>6 DEF Holds
      <4> QED
        BY <2>2, <3>4, <4>4, <4>5 DEF TwoRequests
    <3> QED
      BY <3>2, <3>3
  <2>3. CASE req.op = "get_tables"
    BY <1>1, <2>3 DEF Close, HookInv, GotTrue
  <2>4. CASE req.op = "get_partitions"
    <3>1. answer' = got /\ RowsTrue
      BY <1>1, <2>4 DEF Close, HookInv, GotTrue, TwoRequests
    <3>2. SameColumns(req.table) => \E s \in seen : Holds(s, req, got)
      BY <2>4, <3>1 DEF RowsTrue, Holds
    <3>3. OfHalves(req, answer')
      BY <2>4, <3>1 DEF RowsTrue, Zipped, OfHalves, Rows
    <3> QED
      BY <2>4, <3>1, <3>2, <3>3 DEF RowsTrue, AnswerOf, TwoRequests
  <2>5. CASE req.op \notin {"get_tables", "table_exists"} \cup TwoRequests
    <3>1. answer' = got /\ got \in AnswerOf(req) /\ \E s \in seen : Holds(s, req, got)
      BY <1>1, <2>5 DEF Close, HookInv, GotTrue, TwoRequests
    <3> QED
      BY <2>5, <3>1
  <2> QED
    BY <2>1, <2>2, <2>3, <2>4, <2>5 DEF TwoRequests
<1>3. TrueAnswers'
  BY <1>1, <1>2 DEF TrueAnswers, ListHolds, SameColumns, OfHalves
<1>4. TypeOK'
  <2>1. AnswerOf(req)' = AnswerOf(req)
    BY <1>1 DEF AnswerOf
  <2> QED
    BY <1>1, <1>2, <2>1 DEF HookInv, TypeOK
<1> QED
  BY <1>1, <1>3, <1>4 DEF HookInv, LeftOpenByFailure, HalfTrue, GotTrue, OpenedBefore

-----------------------------------------------------------------------------
\* What was true since the call began stays so when the metastore changes.
LEMMA DdlStep ==
    ASSUME HookInv, NEW t \in Table, NEW d \in Definition \cup {NoTable}, Ddl(t, d)
    PROVE  HookInv'
<1>1. /\ pc # "idle" /\ store' = [store EXCEPT ![t] = d]
      /\ seen' = seen \cup {store'}
      /\ UNCHANGED <<up, transport, req, pc, got, answer, failed>>
      /\ answer = NoAnswer
  BY DEF Ddl, HookInv, TypeOK
<1>2. store' \in Store
  <2>1. d # NoTable => d.keys \in KeysOf[t]
    BY DEF Ddl, HookInv, TypeOK, Store
  <2>2. store \in Store
    BY DEF HookInv, TypeOK
  <2> QED
    BY <1>1, <2>1, <2>2 DEF Store
<1>3. TypeOK'
  BY <1>1, <1>2 DEF HookInv, TypeOK
<1>4. HalfTrue'
  BY <1>1 DEF HookInv, HalfTrue, Listed
<1>5. ListHolds(got) => ListHolds(got)'
  BY <1>1 DEF ListHolds
<1>6. /\ (\E s \in seen : Holds(s, req, got)) => (\E s \in seen : Holds(s, req, got))'
      /\ SameColumns(req.table)' => SameColumns(req.table)
      /\ AnswerOf(req)' = AnswerOf(req)
  BY <1>1 DEF SameColumns, AnswerOf
<1>8. RowsTrue => RowsTrue'
  BY <1>1, <1>6 DEF RowsTrue, Zipped
<1>7. GotTrue'
  BY <1>1, <1>5, <1>6, <1>8 DEF HookInv, GotTrue
<1> QED
  BY <1>1, <1>3, <1>4, <1>7 DEF HookInv, TrueAnswers, LeftOpenByFailure, OpenedBefore

\* What is kept and answered is as true as before when nobody touches it.
LEMMA TruthSame ==
    ASSUME TrueAnswers, HalfTrue, GotTrue, UNCHANGED <<req, pc, got, answer, seen>>
    PROVE  TrueAnswers' /\ HalfTrue' /\ GotTrue'
<1>1. /\ ListHolds(got)' <=> ListHolds(got)
      /\ ListHolds(answer)' <=> ListHolds(answer)
  BY DEF ListHolds
<1>2. /\ (\E s \in seen : Holds(s, req, got))' <=> \E s \in seen : Holds(s, req, got)
      /\ (\E s \in seen : Holds(s, req, answer))' <=>
            \E s \in seen : Holds(s, req, answer)
  BY DEF Holds
<1>3. /\ AnswerOf(req)' = AnswerOf(req)
      /\ SameColumns(req.table)' <=> SameColumns(req.table)
      /\ RowsTrue' <=> RowsTrue
      /\ OfHalves(req, answer)' <=> OfHalves(req, answer)
  BY DEF AnswerOf, RowsTrue, Zipped, SameColumns, OfHalves
<1>4. TrueAnswers'
  BY <1>1, <1>2, <1>3 DEF TrueAnswers
<1>5. HalfTrue'
  BY DEF HalfTrue, Listed
<1>6. GotTrue'
  BY <1>1, <1>2, <1>3 DEF GotTrue
<1> QED
  BY <1>4, <1>5, <1>6

\* Connections and the server come and go beside the answers.
LEMMA ServerStep ==
    ASSUME HookInv, Disconnect \/ Restart
    PROVE  HookInv'
<1>1. /\ UNCHANGED <<store, req, pc, got, answer, seen, failed>>
      /\ up' \in BOOLEAN /\ transport' \in {"closed", "open", "broken"}
      /\ transport' = "closed" <=> transport = "closed"
  BY DEF Disconnect, Restart, HookInv, TypeOK
<1>2. TypeOK'
  <2>1. AnswerOf(req)' = AnswerOf(req)
    BY <1>1 DEF AnswerOf
  <2> QED
    BY <1>1, <2>1 DEF HookInv, TypeOK
<1>3. TrueAnswers' /\ HalfTrue' /\ GotTrue'
  BY <1>1, TruthSame DEF HookInv
<1> QED
  BY <1>1, <1>2, <1>3 DEF HookInv, LeftOpenByFailure, OpenedBefore

\* A call and a new client start from what is there.
LEMMA EdgeStep ==
    ASSUME HookInv, Unpickle \/ (\E q \in Request : Call(q)) \/ UNCHANGED vars
    PROVE  HookInv'
<1>1. CASE \E q \in Request : Call(q)
  <2>1. /\ req' \in Request /\ pc' = "open" /\ answer' = NoAnswer /\ seen' = {store}
        /\ pc = "idle" /\ UNCHANGED <<store, up, transport, failed>>
    BY <1>1 DEF Call
  <2> QED
    BY <2>1 DEF HookInv, TypeOK, TrueAnswers, LeftOpenByFailure, HalfTrue, GotTrue,
                OpenedBefore
<1>2. CASE Unpickle \/ UNCHANGED vars
  <2>1. /\ UNCHANGED <<store, up, req, pc, got, answer, seen>>
        /\ \/ pc = "idle" /\ transport' = "closed" /\ failed' = FALSE
           \/ UNCHANGED <<transport, failed>>
    BY <1>2 DEF Unpickle, vars
  <2>2. TypeOK'
    <3>1. AnswerOf(req)' = AnswerOf(req)
      BY <2>1 DEF AnswerOf
    <3> QED
      BY <2>1, <3>1 DEF HookInv, TypeOK
  <2>3. TrueAnswers' /\ HalfTrue' /\ GotTrue'
    BY <2>1, TruthSame DEF HookInv
  <2> QED
    BY <2>1, <2>2, <2>3 DEF HookInv, LeftOpenByFailure, OpenedBefore
<1> QED
  BY <1>1, <1>2

\* No step of the hook or of its surroundings breaks the invariant.
LEMMA HookStep == HookInv /\ [Next]_vars => HookInv'
<1> SUFFICES ASSUME HookInv, [Next]_vars PROVE HookInv'
  OBVIOUS
<1>1. CASE Rpc
  <2>1. UNCHANGED <<store, up, req, seen>> /\ pc \in {"request", "second"}
    BY <1>1 DEF Rpc
  <2> QED
    BY <1>1, <2>1, RaiseStep, FirstStep, SecondStep DEF Rpc
<1> QED
  BY <1>1, OpenStep, CloseStep, DdlStep, ServerStep, EdgeStep DEF Next

\* The invariant holds of every behaviour of the hook.
THEOREM HookInvariant == Spec => []HookInv
  BY InitInv, HookStep, PTL DEF Spec

\* Answers always have the form their method promises.
THEOREM HookTypeCorrect == Spec => []TypeOK
<1>1. HookInv => TypeOK
  BY DEF HookInv
<1> QED
  BY <1>1, HookInvariant, PTL

\* Whatever happens to the metastore and its server during a call: an answer
\* was true at some moment of the call.  For the methods that ask about
\* partitions twice this takes a table that keeps its columns; else the names
\* and the values of the answer are each of some moment of the call.
THEOREM AnswersAreTrue == Spec => []TrueAnswers
<1>1. HookInv => TrueAnswers
  BY DEF HookInv
<1> QED
  BY <1>1, HookInvariant, PTL

\* Only a method without `finally` leaves the transport open, and then no call
\* succeeds.
THEOREM TransportIsLeftByFailure == Spec => []LeftOpenByFailure
<1>1. HookInv => LeftOpenByFailure
  BY DEF HookInv
<1> QED
  BY <1>1, HookInvariant, PTL
=============================================================================
