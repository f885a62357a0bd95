SPECIFICATION Spec
CONSTANTS
    Procs = {p1, p2}
    Uppers = {p1}
    Downers = {p2}
    Baseliners = {}
    Repairers = {}
    Versions = {1, 2, 3}
    Contents = {"a", "b"}
    Irreversible = {}
    NoFile = NoFile
    Broken = Broken
    NoRow = NoRow
    Nobody = Nobody
    Objects = {"a", "b"}
    Creates <- CreatesNamesake
    DDL = {"a", "b"}
    Dialect = "postgres"
    SessionsDrop = FALSE
    InitialDisks <- AllFiles
    MaxCalls = 3
    MaxEdits = 0
PROPERTIES
    DownRevertsTheLast
