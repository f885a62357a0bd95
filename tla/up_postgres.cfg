SPECIFICATION Spec
CONSTANTS
    Procs = {p1, p2, p3}
    Uppers = {p1, p2, p3}
    Downers = {}
    Baseliners = {}
    Repairers = {}
    Versions = {1, 2, 3}
    Contents = {"a", "b"}
    Irreversible = {}
    NoFile = NoFile
    Broken = Broken
    NoRow = NoRow
    Nobody = Nobody
    Objects = {"a"}
    Creates <- CreatesNamesake
    DDL = {"a"}
    Dialect = "postgres"
    SessionsDrop = FALSE
    InitialDisks <- AllFiles
    MaxCalls = 4
    MaxEdits = 2
SYMMETRY SymmetricProcs
INVARIANTS
    TypeOK
    HistoryPrefix
    SchemaMatchesHistory
    LockExclusive
    PlanIsFresh
    RecordedIsWhatRan
    UpComplete
PROPERTIES
    ImplementsLog
