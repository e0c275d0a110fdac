--------------------------- MODULE MetastoreClient ---------------------------
(***************************************************************************)
(* HiveMetastoreHook: one Thrift client that opens its transport for every *)
(* call and closes it again, against a metastore whose tables and          *)
(* partitions other sessions change meanwhile and whose server may go away.*)
(* All methods share the transport: only check_for_named_partition closes  *)
(* it when a request fails, and Thrift (0.13) refuses to open it twice.    *)
(* The metastore is external, modelled from the requests the hook makes.   *)
(* A table is the pair of names a method resolves its arguments to, a row  *)
(* of an answer the dict of a partition: a function from column names to   *)
(* values.                                                                 *)
(***************************************************************************)
EXTENDS Naturals, Sequences, FiniteSets, FiniteSetsExt, Functions

CONSTANTS
    Table,      \* tables other sessions create and drop
    Field,      \* names of partition columns
    KeysOf,     \* KeysOf[t]: the lists of partition columns t is created with
    Value,      \* values of partition columns
    Filter,     \* the partition filters: a column and the values it accepts
    Name,       \* the partition names that are asked for
    NoFilter, NoField,  \* the argument None
    NoTable,    \* no such table
    NoAnswer,   \* the call has not returned
    Raised,     \* the call raised an exception
    None,       \* Python's None
    Changes     \* bound: states of the metastore during one call

Keys == UNION Range(KeysOf)
ValuesFor(keys) == [DOMAIN keys -> Value]

\* A table without partition columns has no partitions.
Definition ==
    UNION {[keys : {k}, parts : IF k = <<>> THEN {{}} ELSE SUBSET ValuesFor(k)] : k \in Keys}
Store ==
    {s \in [Table -> Definition \cup {NoTable}] :
        \A t \in Table : s[t] # NoTable => s[t].keys \in KeysOf[t]}

Row == UNION {[S -> Value] : S \in SUBSET Field}

ASSUME MetastoreAssumption ==
    /\ KeysOf \in [Table -> SUBSET Seq(Field)]
    /\ \A k \in Keys : \A i, j \in DOMAIN k : k[i] = k[j] => i = j
    /\ Value \subseteq Nat
    /\ \A S \in SUBSET Value : S # {} => \E m \in S : \A v \in S : v <= m
    /\ Filter \subseteq [field : Field, accepts : SUBSET Value]
    /\ Name \subseteq Row
    /\ NoFilter \notin Filter /\ NoField \notin Field
    /\ NoTable \notin Definition
    /\ NoAnswer # Raised
    /\ None \notin {NoAnswer, Raised} \cup [max : Value]
    /\ Changes \in Nat

VARIABLES
    store,      \* what the metastore holds
    up,         \* does its server accept connections?
    transport,  \* self.metastore._oprot.trans; "broken": open, other end gone
    req,        \* the call being served, or the last one
    pc,         \* next step of that call; "idle" between calls
    got,        \* what the call keeps of its first request
    answer,     \* what the last call returned
    seen,       \* the states of the metastore since the call began
    failed      \* has a method without `finally` failed with this client?

vars == <<store, up, transport, req, pc, got, answer, seen, failed>>

Request ==
    [op : {"get_table", "table_exists"}, table : Table] \cup
    [op : {"check_for_partition"}, table : Table, filter : Filter] \cup
    [op : {"check_for_named_partition"}, table : Table, name : Name] \cup
    [op : {"get_tables"}] \cup
    [op : {"get_partitions"}, table : Table, filter : Filter \cup {NoFilter}] \cup
    [op : {"max_partition"}, table : Table, filter : Filter \cup {NoFilter},
     field : Field \cup {NoField}]

Init ==
    /\ store \in Store
    /\ up \in BOOLEAN
    /\ transport = "closed"
    /\ req = [op |-> "get_tables"]
    /\ pc = "idle"
    /\ got = NoAnswer
    /\ answer = NoAnswer
    /\ seen = {store}
    /\ failed = FALSE

-----------------------------------------------------------------------------
Call(q) ==
    /\ pc = "idle"
    /\ req' = q
    /\ pc' = "open"
    /\ got' = NoAnswer
    /\ answer' = NoAnswer
    /\ seen' = {store}
    /\ UNCHANGED <<store, up, transport, failed>>

\* Mutants: check_for_named_partition without `finally`, and with an `except`
\* for every exception.
Raise_NoFinally ==
    /\ answer' = IF req.op = "table_exists" THEN [yes |-> FALSE] ELSE Raised
    /\ failed' = (failed \/ req.op # "check_for_named_partition")
    /\ pc' = "idle"
    /\ got' = NoAnswer
    /\ UNCHANGED transport
Raise_AnyIsFalse ==
    /\ answer' = IF req.op \in {"table_exists", "check_for_named_partition"}
                    THEN [yes |-> FALSE] ELSE Raised
    /\ failed' = (failed \/ req.op # "check_for_named_partition")
    /\ pc' = "idle"
    /\ got' = NoAnswer
    /\ IF req.op = "check_for_named_partition" /\ pc # "open"
          THEN transport' = "closed" ELSE UNCHANGED transport

\* An exception ends the call: table_exists takes any for "no", and only
\* check_for_named_partition closes a transport it opened.
Raise ==
    /\ answer' = IF req.op = "table_exists" THEN [yes |-> FALSE] ELSE Raised
    /\ failed' = (failed \/ req.op # "check_for_named_partition")
    /\ pc' = "idle"
    /\ got' = NoAnswer
    /\ IF req.op = "check_for_named_partition" /\ pc # "open"
          THEN transport' = "closed" ELSE UNCHANGED transport

\* Mutant: wait for the server.
Open_Waits ==
    /\ pc = "open"
    /\ transport = "closed" /\ up
    /\ transport' = "open"
    /\ pc' = "request"
    /\ UNCHANGED <<store, up, req, got, answer, seen, failed>>

\* trans.open() raises when the transport is open already, and when the
\* server refuses, which leaves it closed.
Open ==
    /\ pc = "open"
    /\ UNCHANGED <<store, up, req, seen>>
    /\ \/ /\ transport = "closed" /\ up
          /\ transport' = "open"
          /\ pc' = "request"
          /\ UNCHANGED <<got, answer, failed>>
       \/ /\ transport # "closed" \/ ~up
          /\ Raise

\* The request was answered with v, and step p follows.
Got(v, p) ==
    /\ got' = v
    /\ pc' = p
    /\ UNCHANGED <<transport, answer, failed>>

\* zip: a dict of the names and values that have a partner.
Zip(names, values) ==
    LET common == DOMAIN names \cap DOMAIN values
    IN  [f \in {names[i] : i \in common} |-> values[CHOOSE i \in common : names[i] = f]]

\* The partitions of table d that a filter accepts; the metastore refuses a
\* filter on a column the table is not partitioned by.
Understood(d, filter) == filter = NoFilter \/ filter.field \in Range(d.keys)
Selected(d, filter) ==
    {p \in d.parts : filter = NoFilter \/ Zip(d.keys, p)[filter.field] \in filter.accepts}

Exists(t) == store[t] # NoTable

\* get_partition_by_name: the name has a value for each column of the table.
HasNamed(d, name) ==
    \E p \in d.parts :
        \A i \in DOMAIN d.keys : d.keys[i] \in DOMAIN name /\ name[d.keys[i]] = p[i]

\* The first or only request of a method.
FirstRequest ==
    CASE req.op \in {"get_table", "table_exists"} ->
            IF Exists(req.table)
               THEN Got([keys |-> store[req.table].keys], "close") ELSE Raise
      [] req.op = "check_for_partition" ->
            IF Exists(req.table) /\ Understood(store[req.table], req.filter)
               THEN Got([yes |-> Selected(store[req.table], req.filter) # {}], "close")
               ELSE Raise
      [] req.op = "check_for_named_partition" ->
            Got([yes |-> Exists(req.table) /\ HasNamed(store[req.table], req.name)], "close")
      [] req.op = "get_tables" -> Got([names |-> {t \in Table : Exists(t)}], "second")
      [] req.op \in {"get_partitions", "max_partition"} ->
            IF Exists(req.table) /\ store[req.table].keys # <<>>
               THEN Got([keys |-> store[req.table].keys], "second") ELSE Raise

\* Mutant: the names are the answer.
TableObjects_Names(names) == [tables |-> names]

\* get_table_objects_by_name: those of the names that still exist.
TableObjects(names) ==
    [tables |-> {[table |-> t, keys |-> store[t].keys] :
                    t \in {u \in names : Exists(u)}}]

\* zip(pnames, p.values): the names are those of the first request, the values
\* of the second.
Rows(names, d, filter) == [rows |-> {Zip(names, p) : p \in Selected(d, filter)}]

SecondRequest ==
    IF req.op = "get_tables" THEN Got(TableObjects(got.names), "close")
    ELSE IF Exists(req.table) /\ Understood(store[req.table], req.filter)
    THEN Got(Rows(got.keys, store[req.table], req.filter), "close")
    ELSE Raise

\* A request is answered, or the connection is lost.
Rpc ==
    /\ pc \in {"request", "second"}
    /\ UNCHANGED <<store, up, req, seen>>
    /\ IF transport = "broken" THEN Raise
       ELSE IF pc = "request" THEN FirstRequest ELSE SecondRequest

\* What max_partition makes of the rows: a single column goes before the
\* field asked for, and a field that no row has is a KeyError.
Maximum(rows, field) ==
    LET names == DOMAIN (CHOOSE r \in rows : TRUE)
        asked == IF \E f \in Field : names = {f} THEN CHOOSE f \in Field : names = {f}
                                                ELSE field
    IN  CASE rows = {} -> None
          [] rows # {} /\ asked \in names -> [max |-> Max({r[asked] : r \in rows})]
          [] OTHER -> Raised

Close ==
    /\ pc = "close"
    /\ transport' = "closed"
    /\ pc' = "idle"
    /\ got' = NoAnswer
    /\ answer' = CASE req.op = "table_exists" -> [yes |-> TRUE]
                   [] req.op = "max_partition" -> Maximum(got.rows, req.field)
                   [] OTHER -> got
    /\ UNCHANGED <<store, up, req, seen, failed>>

\* __setstate__: a pickled hook gets a new client.
Unpickle ==
    /\ pc = "idle"
    /\ transport' = "closed"
    /\ failed' = FALSE
    /\ UNCHANGED <<store, up, req, pc, got, answer, seen>>

-----------------------------------------------------------------------------
\* Is the call about table t?
About(t) == req.op # "get_tables" => req.table = t

\* One statement of another session, on what a call is about; what happens
\* between two calls is as if the first statement of the next one.
Ddl(t, d) ==
    /\ pc # "idle" /\ About(t)
    /\ Cardinality(seen) < Changes
    /\ \/ /\ store[t] = NoTable /\ d # NoTable
          /\ d.keys \in KeysOf[t] /\ d.parts = {}
       \/ store[t] # NoTable /\ d = NoTable
       \/ /\ store[t] # NoTable /\ d # NoTable
          /\ d.keys = store[t].keys
          /\ \E p \in ValuesFor(d.keys) : d.parts = store[t].parts \cup {p} \/
                                         d.parts = store[t].parts \ {p}
    /\ store' = [store EXCEPT ![t] = d]
    /\ seen' = seen \cup {store'}
    /\ UNCHANGED <<up, transport, req, pc, got, answer, failed>>

\* The server stops, with all connections, or a connection is lost.
Disconnect ==
    /\ up' \in {FALSE, up}
    /\ transport' = IF transport = "open" THEN "broken" ELSE transport
    /\ UNCHANGED <<store, req, pc, got, answer, seen, failed>>

Restart ==
    /\ ~up
    /\ up' = TRUE
    /\ UNCHANGED <<store, transport, req, pc, got, answer, seen, failed>>

Step == Open \/ Rpc \/ Close

Next ==
    \/ \E q \in Request : Call(q)
    \/ Open \/ Rpc \/ Close
    \/ Unpickle
    \/ \E t \in Table, d \in Definition \cup {NoTable} : Ddl(t, d)
    \/ Disconnect
    \/ Restart

\* The thread that called goes on; a request is answered or its connection
\* is lost.
Spec == Init /\ [][Next]_vars /\ WF_vars(Step)

-----------------------------------------------------------------------------
\* What a call may return.
AnswerOf(q) ==
    CASE q.op = "get_table" -> [keys : Keys]
      [] q.op = "get_tables" -> [tables : SUBSET [table : Table, keys : Keys]]
      [] q.op = "get_partitions" -> [rows : SUBSET Row]
      [] q.op = "max_partition" -> [max : Value] \cup {None}
      [] OTHER -> [yes : BOOLEAN]

\* Answers have the form their method promises, a call between opening and
\* closing has an open transport, and only a call that ended has an answer.
TypeOK ==
    /\ store \in Store /\ up \in BOOLEAN
    /\ transport \in {"closed", "open", "broken"}
    /\ req \in Request
    /\ pc \in {"idle", "open", "request", "second", "close"}
    /\ failed \in BOOLEAN
    /\ seen \subseteq Store
    /\ pc \in {"request", "second", "close"} => transport # "closed"
    /\ pc # "idle" => answer = NoAnswer
    /\ answer \in {NoAnswer, Raised} \/ answer \in AnswerOf(req)

\* The partitions of table d under the names of its own columns.
Listing(d, filter) == {Zip(d.keys, p) : p \in Selected(d, filter)}

\* The column a maximum is about.
Column(d, field) == IF Len(d.keys) = 1 THEN d.keys[1] ELSE field

\* What an answer says, held against the metastore s.
Holds(s, q, a) ==
    LET d == s[q.table]
    IN  /\ d # NoTable \/ q.op \in {"table_exists", "check_for_named_partition"}
        /\ CASE q.op = "get_table" -> a.keys = d.keys
             [] q.op = "table_exists" -> a.yes => d # NoTable
             [] q.op = "check_for_partition" -> a.yes <=> Listing(d, q.filter) # {}
             [] q.op = "check_for_named_partition" ->
                   a.yes <=> (d # NoTable /\ HasNamed(d, q.name))
             [] q.op = "get_partitions" -> a.rows = Listing(d, q.filter)
             [] q.op = "max_partition" ->
                   LET c     == Column(d, q.field)
                       found == {r[c] : r \in {x \in Listing(d, q.filter) : c \in DOMAIN x}}
                   IN  \/ a = None /\ Listing(d, q.filter) = {}
                       \/ a # None /\ a.max \in found /\ \A v \in found : v <= a.max

\* A list of tables made of two requests: each was there at some moment as it
\* is described, and none that was there all the time is missing.
ListHolds(a) ==
    /\ \A o \in a.tables : \E s \in seen :
          s[o.table] # NoTable /\ s[o.table].keys = o.keys
    /\ \A t \in Table :
          (\A s \in seen : s[t] # NoTable) => \E o \in a.tables : o.table = t

\* While the call ran, the table did not come back with other columns.
SameColumns(t) ==
    \A s, u \in seen : s[t] # NoTable /\ u[t] # NoTable => s[t].keys = u[t].keys

TwoRequests == {"get_partitions", "max_partition"}

\* The answer is made of names and values that each were there at some moment.
OfHalves(q, a) ==
    \E s, u \in seen :
        /\ s[q.table] # NoTable /\ u[q.table] # NoTable
        /\ Understood(u[q.table], q.filter)
        /\ LET rows == Rows(s[q.table].keys, u[q.table], q.filter).rows
           IN  a = IF q.op = "get_partitions" THEN [rows |-> rows]
                                              ELSE Maximum(rows, q.field)

\* Whatever other sessions and the server do meanwhile: what a call returned
\* was true at some moment of the call.  The methods that ask for names and
\* values of partitions in two requests promise it as long as the table does
\* not come back with other columns in between; if it does, each half of the
\* answer was true.  get_tables promises it of each table alone, and the "no"
\* of table_exists promises nothing.
TrueAnswers ==
    answer \notin {NoAnswer, Raised} =>
        IF req.op = "get_tables" THEN ListHolds(answer)
        ELSE \/ \E s \in seen : Holds(s, req, answer)
             \/ req.op \in TwoRequests /\ ~SameColumns(req.table) /\ OfHalves(req, answer)

\* Between calls the transport is open only after a method without `finally`
\* failed; from then on no call succeeds until the hook is unpickled.
LeftOpenByFailure ==
    (pc = "idle" /\ transport # "closed") =>
        /\ failed
        /\ IF req.op = "table_exists" THEN answer = [yes |-> FALSE] ELSE answer = Raised

\* A call ends although the server may never come back.
CallsEnd == pc # "idle" ~> pc = "idle"
=============================================================================
