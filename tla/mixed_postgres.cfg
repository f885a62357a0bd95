SPECIFICATION Spec
CONSTANTS
    Procs = {p1, p2, p3}
    Uppers = {p1, p2}
    Downers = {p2, p3}
    Baseliners = {}
    Repairers = {}
    Versions = {1, 2, 3}
    Contents = {"a", "b"}
    Irreversible = {}
    NoFile = NoFile
    Broken = Broken
    NoRow = NoRow
    Nobody = Nobody
    Objects = {"a", "b"}
    Creates <- CreatesNamesake
    DDL = {"a", "b"}
    Dialect = "postgres"
    SessionsDrop = FALSE
    InitialDisks <- AllFiles
    MaxCalls = 5
    MaxEdits = 1
INVARIANTS
    SchemaMatchesHistory
    DownRemovesItsRow
    PlanIsFresh
