SPECIFICATION RestSpec
CONSTANTS
    Task <- StarTask
    Upstream <- StarUpstream
    Runs = 1
    Concurrency = 2
    DependsOnPast = TRUE
    Timeouts = FALSE
    NoEnd = NoEnd
    Blank = Blank
    NoTable = NoTable
    NoRate = NoRate
    Line = {l1}
    Order = {o1}
    Product = {p1}
    Address = {a1}
    Offer = {f1}
    Country = {c1}
    CountryOf <- OneCountry
    Rate = {r1}
    Pair = {x1}
    PairOf <- OnePair
    DateOf <- Days
    OrderDate <- FirstDay
    Loads = 2
    Changing = {"country"}
INVARIANTS FactOnce
