----------------------------- MODULE StarSchema -----------------------------
(***************************************************************************)
(* The starschema DAG beside the load of the vault.  It rebuilds every     *)
(* dimension with DROP and CREATE TABLE AS, and then the fact table from   *)
(* the dimensions and the vault.  Nothing orders the two DAGs: the         *)
(* statements of a star run are interleaved with those of a load.          *)
(*                                                                         *)
(* The vault is cut down to an order line, its order, its product, an      *)
(* address of the order, the country of the address and the currency rate  *)
(* of the order, with the three links between them.  The order also stands *)
(* for the sales territory, the address for both addresses of an order;    *)
(* the state between an address and its country is left out, and so are    *)
(* the two currencies of a rate: they multiply or drop all rates of their  *)
(* pair alike.  A load appears as the moments its statements take effect;  *)
(* how it gets there is in VaultLoad and LinkLoad.                         *)
(***************************************************************************)
EXTENDS DagRun, Satellite

CONSTANTS
    Line, Order, Product, Address,  \* hash keys
    Offer,      \* hash keys of the special offers
    Country,    \* country codes
    CountryOf,  \* CountryOf[a]: the country of an address
    Rate,       \* currency rates: a pair of currencies on a day
    Pair,       \* hash keys of the pairs of currencies
    PairOf,     \* PairOf[c]: the pair of a rate
    DateOf,     \* DateOf[c]: its day
    OrderDate,  \* OrderDate[o]: the day of an order
    NoRate,     \* the rate of an order in the own currency
    Loads,      \* bound: number of vault loads considered
    Changing,   \* bound: the entities whose rows get further versions
    NoTable     \* a star table that does not exist

StarTask == {"dim_salesorder", "dim_product", "dim_address", "dim_currency", "fact"}
Dimension == StarTask \ {"fact"}
Entity == {"line", "order", "product", "address", "country", "rate"}

\* dimensions_done, contracted.
StarUpstream == [t \in StarTask |-> IF t = "fact" THEN Dimension ELSE {}]

ASSUME StarAssumption ==
    /\ Task = StarTask /\ Upstream = StarUpstream /\ DependsOnPast
    /\ Loads \in Nat
    /\ Changing \subseteq Entity
    /\ CountryOf \in [Address -> Country]
    /\ PairOf \in [Rate -> Pair]
    /\ NoRate \notin Rate

VARIABLES
    source,     \* the keys the source has
    refers,     \* refers[l]: order, product and offer of a line, address and
                \* rate of its order
    load,       \* number of the current or last load
    staged,     \* the keys in the staging tables of the load under way
    lost,       \* keys whose last change no successful load has staged, and
                \* none will: a failed one had, or it was before the first
    todo,       \* its statements that are still to take effect
    loaded,     \* has the last load succeeded?
    detail,     \* link_salesorderdetail
    shipping,   \* link_salesorder_address
    rated,      \* link_salesorder_currencyrate
    sat,        \* sat[e]: rows [key, dtm, end] of the satellite of entity
                \* e, or of the reference table of the countries
    star,       \* star[t]: the table that task t builds
    dropped,    \* the executing tasks that have dropped their table
    result,     \* result[r][t]: what the query of a task gave so far
    apart,      \* star runs at whose start no task executed
    early,      \* tasks that read a satellite that was not end dated
    calm        \* the runs of `apart` since whose start the vault has rested

vault == <<source, refers, load, staged, lost, todo, loaded, detail, shipping, rated, sat>>
work == <<star, dropped, result>>
vars == <<dagVars, vault, work, apart, early, calm>>

KeyOf ==
    [line |-> Line, order |-> Order, product |-> Product, address |-> Address,
     country |-> Country, rate |-> Rate]
Keys == Line \cup Order \cup Product \cup Address \cup Country \cup Rate
Reference ==
    [order : Order, product : Product, offer : Offer, address : Address,
     rate : Rate \cup {NoRate}]

Lines == source \cap Line
Staged(e) == staged \cap KeyOf[e]

\* Only the products are staged in full, all others by modifieddate.
Full == Product

\* The source keeps its foreign keys, and orders come with their lines.
Consistent(keys) ==
    /\ \A l \in keys \cap Line :
          /\ {refers[l].order, refers[l].product, refers[l].address} \subseteq keys
          /\ refers[l].rate \in keys \cup {NoRate}
    /\ \A o \in keys \cap Order : \E l \in keys \cap Line : refers[l].order = o
    /\ \A a \in keys \cap Address : CountryOf[a] \in keys

\* The satellites whose end dates a star query reads and whose rows get
\* further versions; the others are left without.
Dated == {"order", "product"} \cap Changing

RefStep == {"ref"} \X {"country"}
LinkStep == {"link"} \X {"detail", "shipping", "rated"}
SatStep == {"sat"} \X (Entity \ {"country"})
DateStep == {"enddate"} \X Dated

\* The statements of a load that have something to do: those that find rows in
\* their staging table, and end dating, which always takes the whole table.
Statements(keys) ==
    LET found == {e \in Entity : keys \cap KeyOf[e] # {}}
        Feed == [detail |-> "line", shipping |-> "order", rated |-> "order"]
    IN  {s \in RefStep \cup SatStep : s[2] \in found} \cup
        {s \in LinkStep : Feed[s[2]] \in found} \cup DateStep

\* The lines of an order have its address and its rate.
OneHead ==
    \A l, m \in Line : refers[l].order = refers[m].order =>
        refers[l].address = refers[m].address /\ refers[l].rate = refers[m].rate

\* Before the first load: the source has rows already, and those staged by
\* modifieddate are not staged before they change.  An earlier star run built
\* the tables from the empty vault.
Init ==
    /\ DagInit
    /\ refers \in [Line -> Reference] /\ OneHead
    /\ source \in SUBSET Keys /\ Consistent(source)
    /\ load = 0 /\ staged = {} /\ lost = source \ Full /\ todo = {} /\ loaded = FALSE
    /\ detail = {} /\ shipping = {} /\ rated = {}
    /\ sat = [e \in Entity |-> {}]
    /\ star = [t \in Task |-> {}]
    /\ dropped = {} /\ result = [r \in Run |-> [t \in Task |-> NoTable]]
    /\ apart = {} /\ early = {} /\ calm = {}

\* The keys whose rows may change after they arrived.
Edited == UNION {KeyOf[e] : e \in Changing}

-----------------------------------------------------------------------------
\* A load starts and stages the source, where since the last load rows were
\* inserted and changed.
BeginLoad ==
    /\ todo = {} /\ load < Loads
    /\ load' = load + 1
    /\ \E new \in SUBSET (Keys \ source), old \in SUBSET (source \cap Edited) :
          /\ Consistent(source \cup new)
          /\ source' = source \cup new
          /\ staged' = new \cup old \cup (source' \cap Full)
    /\ todo' = Statements(staged')
    /\ loaded' = (todo' = {})
    /\ calm' = {}
    /\ UNCHANGED <<dagVars, refers, lost, detail, shipping, rated, sat, work, apart, early>>

\* A statement of the load takes effect; the last one completes the load.
Do(step) ==
    /\ step \in todo
    /\ todo' = todo \ {step}
    /\ loaded' = (todo' = {})
    /\ IF loaded' THEN lost' = lost \ staged /\ staged' = {}
                  ELSE UNCHANGED <<lost, staged>>
    /\ calm' = {}
    /\ UNCHANGED <<dagVars, source, refers, load, work, apart, early>>

\* The NOT EXISTS of the links: of a line without its own key, of the
\* addresses of an order without its key (LinkLoad shows what that costs).
DetailQuery ==
    {d \in {[line |-> l, order |-> refers[l].order, product |-> refers[l].product,
             offer |-> refers[l].offer] : l \in Staged("line")} :
        ~ \E e \in detail :
            e.order = d.order /\ e.product = d.product /\ e.offer = d.offer}

\* What is staged of an order, of which a line tells it.
StagedHeads == {refers[l] : l \in {k \in Lines : refers[k].order \in Staged("order")}}

ShippingQuery ==
    {s \in {[order |-> h.order, address |-> h.address] : h \in StagedHeads} :
        ~ \E t \in shipping : t.address = s.address}

RatedQuery ==
    {[order |-> h.order, pair |-> PairOf[h.rate]] :
        h \in {x \in StagedHeads : x.rate # NoRate}} \ rated

LoadDetail ==
    /\ todo \cap RefStep = {}
    /\ Do(<<"link", "detail">>)
    /\ detail' = detail \cup DetailQuery
    /\ UNCHANGED <<shipping, rated, sat>>

LoadShipping ==
    /\ todo \cap RefStep = {}
    /\ Do(<<"link", "shipping">>)
    /\ shipping' = shipping \cup ShippingQuery
    /\ UNCHANGED <<detail, rated, sat>>

LoadRated ==
    /\ todo \cap RefStep = {}
    /\ Do(<<"link", "rated">>)
    /\ rated' = rated \cup RatedQuery
    /\ UNCHANGED <<detail, shipping, sat>>

\* Staged keys get their first version, changed ones another (what is
\* changed, and that blank rows are not, is in Satellite).  The key of
\* sat_currencyrate is the pair, but rates of other days differ from its open
\* row, so that every rate gets its own.
Insert(e) ==
    /\ \E changed \in SUBSET Staged(e) :
          /\ \A k \in Staged(e) : RowsOf(sat[e], k) = {} => k \in changed
          /\ e \notin Changing => \A k \in changed : RowsOf(sat[e], k) = {}
          /\ sat' = [sat EXCEPT ![e] = @ \cup
                        {[key |-> k, dtm |-> load, end |-> NoEnd] : k \in changed}]
    /\ UNCHANGED <<detail, shipping, rated>>

LoadSat(e) ==
    /\ todo \cap LinkStep = {}
    /\ Do(<<"sat", e>>)
    /\ Insert(e)

\* The reference table is loaded with the hubs and never end dated: a country
\* keeps all rows it ever got, and they all are open.  Its INSERT goes by
\* position and puts the load date into record_source, so `dtm` is there.
LoadRef ==
    /\ Do(<<"ref", "country">>)
    /\ Insert("country")

DateSat(e) ==
    /\ todo \cap (LinkStep \cup SatStep) = {}
    /\ Do(<<"enddate", e>>)
    /\ sat' = [sat EXCEPT ![e] = EndDate(@, @)]
    /\ UNCHANGED <<detail, shipping, rated>>

\* A task of the load fails and the rest of it is skipped.  What was staged
\* by modifieddate is not staged again before it changes again.
AbortLoad ==
    /\ todo # {}
    /\ todo' = {}
    /\ lost' = lost \cup (staged \ Full)
    /\ staged' = {}
    /\ calm' = {}
    /\ UNCHANGED <<dagVars, source, refers, load, loaded, detail, shipping, rated, sat,
                   work, apart, early>>

-----------------------------------------------------------------------------
\* When a run starts, it is known whether tasks of earlier runs are still
\* executing, and whether the vault is loaded.
Create(r) ==
    /\ CreateRun(r)
    /\ apart' = IF Executing = {} THEN apart \cup {r} ELSE apart
    /\ calm' = IF Executing = {} /\ loaded THEN calm \cup {r} ELSE calm

Schedule(r) ==
    /\ \/ Create(r)
       \/ /\ \/ EndRun(r) \/ TimeoutRun(r)
             \/ \E t \in Task : StartTask(r, t) \/ FailUpstream(r, t)
          /\ UNCHANGED <<apart, calm>>
    /\ UNCHANGED <<vault, work, early>>

\* Mutants: no load_end_dtm IS NULL; only what the last load brought.
Active_All(S) == S
Active_LastLoad(S) == {s \in Current(S) : s.dtm = load}

\* The rows of a satellite that are active.
Active(S) == Current(S)

\* A dimension row for each of some versions.  The inner joins with the hubs
\* lose nothing: satellites are anchored (VaultLoad).
Versions(S) == {[key |-> s.key, dtm |-> s.dtm] : s \in S}

SalesOrderQuery == Versions(Active(sat["order"]))
ProductQuery == Versions(Active(sat["product"]))

\* A row for each version of an address and each name its country ever had.
AddressQuery ==
    {[key |-> x[1].key, dtm |-> x[1].dtm, country |-> x[2].dtm] :
        x \in {y \in sat["address"] \X sat["country"] : CountryOf[y[1].key] = y[2].key}}

\* No end date is asked for, so that the rates of earlier days are there.
CurrencyQuery == Versions(sat["rate"])

\* The rates of the currency pair of an order.
RatesOf(o) ==
    {c \in star["dim_currency"] :
        \E p \in rated : p.order = o /\ p.pair = PairOf[c.key]}

\* Mutant: inner joins.
Converted_Inner(o) == {c \in RatesOf(o) : DateOf[c.key] = OrderDate[o]}

\* The LEFT JOINs keep an order without any rate, the WHERE drops all rates
\* but those of the order's day, and the order with them if none is left.  An
\* order keeps its pair and so has at most one row in the link.
Converted(o) ==
    {c \in RatesOf(o) : DateOf[c.key] = OrderDate[o]} \cup
    {c \in {NoRate} : RatesOf(o) = {}}

\* One row per version of a line and way to join it.
Joined(s, l, o, h, a, c) ==
    /\ l.line = s.key
    /\ o.key = l.order
    /\ h.order = l.order
    /\ a.key = h.address
    /\ c \in Converted(l.order)

Fact(s, l, o, a, c) ==
    [line |-> s.key, dtm |-> s.dtm, product |-> l.product, order |-> o.key,
     address |-> a, rate |-> c]

FactFrom(addresses) ==
    {Fact(x[1], x[2], x[3], x[5], x[6]) :
        x \in {y \in sat["line"] \X detail \X star["dim_salesorder"] \X shipping
                         \X addresses \X (star["dim_currency"] \cup {NoRate}) :
                Joined(y[1], y[2], y[3], y[4], y[5], y[6])}}

\* Mutant: the address comes from the vault, not from the dimension.
FactQuery_FromVault == FactFrom(AddressQuery)

\* The product comes from the link, the order, the address and the rate from
\* the dimensions; a row of a dimension stands for the key it is known by.
FactQuery == FactFrom(star["dim_address"])

Query(t) ==
    CASE t = "dim_salesorder" -> SalesOrderQuery
      [] t = "dim_product"    -> ProductQuery
      [] t = "dim_address"    -> AddressQuery
      [] t = "dim_currency"   -> CurrencyQuery
      [] t = "fact"           -> FactQuery

\* The tables of the star that a query reads.
Inputs(t) == IF t = "fact" THEN {"dim_salesorder", "dim_address", "dim_currency"} ELSE {}

\* Mutant: the table counts as dropped for whatever comes next.
Forget_Dropped(r, t) ==
    /\ UNCHANGED dropped
    /\ result' = [result EXCEPT ![r] = [@ EXCEPT ![t] = NoTable]]

\* A task's process is over, and with it what it had in hand.
Forget(r, t) ==
    /\ dropped' = dropped \ {<<r, t>>}
    /\ result' = [result EXCEPT ![r] = [@ EXCEPT ![t] = NoTable]]

\* DROP TABLE, an own statement before the CREATE, also of a table that does
\* not exist.
DropStar(r, t) ==
    /\ ti[r][t] = "running"
    /\ <<r, t>> \notin dropped
    /\ dropped' = dropped \cup {<<r, t>>}
    /\ star' = [star EXCEPT ![t] = NoTable]
    /\ UNCHANGED <<dagVars, vault, result, apart, early, calm>>

\* Does the satellite a dimension shows wait for end dating, of the load under
\* way or, if that failed, of the next one?
Shows == [dim_salesorder |-> "order", dim_product |-> "product"]
Awaits(t) ==
    /\ t \in DOMAIN Shows /\ Shows[t] \in Dated
    /\ <<"enddate", Shows[t]>> \in todo \/ (todo = {} /\ ~loaded)

\* CREATE TABLE AS is refused if the table exists or one it reads does not;
\* else it reads the tables, here at one moment, ...
Read(r, t) ==
    /\ ti[r][t] = "running" /\ <<r, t>> \in dropped /\ result[r][t] = NoTable
    /\ star[t] = NoTable
    /\ \A d \in Inputs(t) : star[d] # NoTable
    /\ result' = [result EXCEPT ![r] = [@ EXCEPT ![t] = Query(t)]]
    /\ early' = IF Awaits(t) THEN early \cup {<<r, t>>} ELSE early
    /\ UNCHANGED <<dagVars, vault, star, dropped, apart, calm>>

\* ... and puts the result in place later, if there is still no such table.
Write(r, t) ==
    /\ result[r][t] # NoTable
    /\ star[t] = NoTable
    /\ FinishTask(r, t) \/ FailTask(r, t)
    /\ star' = [star EXCEPT ![t] = result[r][t]]
    /\ Forget(r, t)
    /\ UNCHANGED <<vault, apart, early, calm>>

Fail(r, t) ==
    /\ FailTask(r, t)
    /\ Forget(r, t)
    /\ UNCHANGED <<vault, star, apart, early, calm>>

\* The horizon of Runs runs is over, and no load is under way.
Stop ==
    /\ todo = {}
    /\ Idle
    /\ UNCHANGED <<vault, work, apart, early, calm>>

\* What a task of a star run does.
TaskStep(r, t) == DropStar(r, t) \/ Read(r, t) \/ Write(r, t) \/ Fail(r, t)

\* What the load and the source do; the star runs stay as they are.
VaultStep ==
    \/ BeginLoad \/ LoadRef \/ LoadDetail \/ LoadShipping \/ LoadRated \/ AbortLoad
    \/ \E e \in Entity \ {"country"} : LoadSat(e)
    \/ \E e \in Dated : DateSat(e)

Next ==
    \/ VaultStep
    \/ \E r \in Run : Schedule(r) \/ \E t \in Task : TaskStep(r, t)
    \/ Stop

Spec == Init /\ [][Next]_vars

-----------------------------------------------------------------------------
DimRow(keys) == [key : keys, dtm : 1 .. Loads]
AddressRow == [key : Address, dtm : 1 .. Loads, country : 1 .. Loads]
FactRow ==
    [line : Line, dtm : 1 .. Loads, product : Product, order : Order, address : AddressRow,
     rate : DimRow(Rate) \cup {NoRate}]
TableRow(t) ==
    CASE t = "dim_salesorder" -> DimRow(Order)
      [] t = "dim_product"    -> DimRow(Product)
      [] t = "dim_address"    -> AddressRow
      [] t = "dim_currency"   -> DimRow(Rate)
      [] t = "fact"           -> FactRow

\* Tables hold rows of their shape, only executing tasks have work in hand,
\* and the ghosts speak of runs that exist.
TypeOK ==
    /\ DagTypeOK
    /\ source \subseteq Keys /\ Consistent(source)
    /\ staged \subseteq source /\ lost \subseteq source \ Full
    /\ todo \subseteq RefStep \cup LinkStep \cup SatStep \cup DateStep
    /\ detail \subseteq [line : Line, order : Order, product : Product, offer : Offer]
    /\ shipping \subseteq [order : Order, address : Address]
    /\ rated \subseteq [order : Order, pair : Pair]
    /\ \A e \in Entity :
          sat[e] \subseteq [key : KeyOf[e], dtm : 1 .. Loads, end : (1 .. Loads) \cup {NoEnd}]
    /\ \A t \in Task : star[t] = NoTable \/ star[t] \subseteq TableRow(t)
    /\ dropped \subseteq Executing
    /\ \A r \in Run, t \in Task :
          result[r][t] = NoTable \/ (<<r, t>> \in dropped /\ result[r][t] \subseteq TableRow(t))
    /\ calm \subseteq apart /\ apart \subseteq {r \in Run : run[r] # "none"}
    /\ early \subseteq Run \X Task

\* Run r built the fact table, and no later run has touched a table since.
Latest(r) ==
    /\ ti[r]["fact"] = "success"
    /\ \A q \in Run, t \in Task : q > r => ti[q][t] \in {"none", "upstream_failed"}

\* All tables are there, and the order, the address and the rate of each fact
\* are rows of the dimensions.
OnTop ==
    /\ \A t \in Task : star[t] # NoTable
    /\ \A f \in star["fact"] :
          /\ \E o \in star["dim_salesorder"] : o.key = f.order
          /\ f.address \in star["dim_address"]
          /\ f.rate \in star["dim_currency"] \cup {NoRate}

\* The star is consistent in itself, whatever the vault did meanwhile, if no
\* task of an earlier run was left when the run started that built it.
FactResolves == \A r \in apart : Latest(r) => OnTop

\* On a loaded vault at rest the product key of each fact, which the fact
\* table takes from the link, is in dim_product too.
ProductResolves ==
    \A r \in calm : Latest(r) => \A f \in star["fact"] :
        \E p \in star["dim_product"] : p.key = f.product

OneVersion(table) == \A x, y \in table : x.key = y.key => x = y

\* Whatever loads did before and after it was read, a dimension of active
\* versions has one row for each key, unless it was read between the load of
\* its satellite and the end dating, or after a load that did not get there.
DimensionUnique ==
    \A r \in apart : Latest(r) =>
        \A t \in DOMAIN Shows : <<r, t>> \notin early => OneVersion(star[t])

\* What a line needs to get into the fact table.
Needs(l) ==
    LET h == refers[l] IN {l, h.order, h.address, CountryOf[h.address], h.rate}

\* The rate an order refers to is the one of its day.
OnItsDay(l) ==
    refers[l].rate # NoRate => DateOf[refers[l].rate] = OrderDate[refers[l].order]

\* On a loaded vault at rest no order line is missing from the fact table, if
\* it, its order, its address, the country and its rate have not changed
\* before the first load or in one that failed, and the rate is of the
\* order's day.
FactComplete ==
    \A r \in calm : Latest(r) =>
        \A l \in Lines :
            Needs(l) \cap lost = {} /\ OnItsDay(l) => \E f \in star["fact"] : f.line = l

\* The fact table measures each order line once.
FactOnce ==
    \A r \in calm : Latest(r) => \A f, g \in star["fact"] : f.line = g.line => f = g
=============================================================================
