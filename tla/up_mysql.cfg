SPECIFICATION Spec
CONSTANTS
    Procs = {p1, p2, p3}
    Uppers = {p1, p2, p3}
    Downers = {}
    Baseliners = {}
    Repairers = {}
    Versions = {1, 2, 3}
    Contents = {"a", "b", "d"}
    Irreversible = {}
    NoFile = NoFile
    Broken = Broken
    NoRow = NoRow
    Nobody = Nobody
    Objects = {"a"}
    Creates <- CreatesNamesake
    DDL = {"a", "b"}
    Dialect = "mysql"
    SessionsDrop = TRUE
    InitialDisks <- OneOfEachKind
    MaxCalls = 4
    MaxEdits = 1
SYMMETRY SymmetricProcs
INVARIANTS
    HistoryPrefix
    PlanClosed
    OrphanIsNext
    UpComplete
PROPERTIES
    ImplementsTwoStepLog
