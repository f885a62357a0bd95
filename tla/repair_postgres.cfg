SPECIFICATION Spec
CONSTANTS
    Procs = {p1}
    Uppers = {p1}
    Downers = {}
    Baseliners = {}
    Repairers = {p1}
    Versions = {1, 2}
    Contents = {"a", "b"}
    Irreversible = {}
    NoFile = NoFile
    Broken = Broken
    NoRow = NoRow
    Nobody = Nobody
    Objects = {"a"}
    Creates <- CreatesNamesake
    DDL = {"a"}
    Dialect = "postgres"
    SessionsDrop = FALSE
    InitialDisks <- AllFiles
    MaxCalls = 3
    MaxEdits = 0
PROPERTIES
    RepairFixesChecksum
