SPECIFICATION Spec
CONSTANTS
    Table = {t1, t2}
    Field = {"ds", "hr"}
    KeysOf <- OnePartitioned
    Value = {1, 2}
    Filter <- Filters
    Name <- Names
    NoFilter = NoFilter
    NoField = NoField
    NoTable = NoTable
    NoAnswer = NoAnswer
    Raised = Raised
    None = None
    Changes = 3
INVARIANTS TypeOK TrueAnswers LeftOpenByFailure
PROPERTY CallsEnd
