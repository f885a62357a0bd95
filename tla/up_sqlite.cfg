SPECIFICATION Spec
CONSTANTS
    Procs = {p1, p2}
    Uppers = {p1, p2}
    Downers = {}
    Baseliners = {}
    Repairers = {}
    Versions = {0, 1, 2, 3}
    Contents = {"a", "b"}
    Irreversible = {}
    NoFile = NoFile
    Broken = Broken
    NoRow = NoRow
    Nobody = Nobody
    Objects = {}
    Creates <- CreatesNamesake
    DDL = {}
    Dialect = "sqlite"
    SessionsDrop = FALSE
    InitialDisks <- SomeFiles
    MaxCalls = 4
    MaxEdits = 1
SYMMETRY SymmetricProcs
INVARIANTS
    HistoryPrefix
    SchemaMatchesHistory
    RowsClaimedOnce
    UpComplete
PROPERTIES
    ImplementsLog
    DryRunChangesNothing
