SPECIFICATION FairSpec
CONSTANTS
    Procs = {p1, p2, p3}
    Uppers = {p1, p2}
    Downers = {p2, p3}
    Baseliners = {p3}
    Repairers = {}
    Versions = {1, 2}
    Contents = {"a", "b"}
    Irreversible = {}
    NoFile = NoFile
    Broken = Broken
    NoRow = NoRow
    Nobody = Nobody
    Objects = {"a"}
    Creates <- CreatesNamesake
    DDL = {"a"}
    Dialect = "postgres"
    SessionsDrop = FALSE
    InitialDisks <- AllFiles
    MaxCalls = 3
    MaxEdits = 0
INVARIANTS
    NeverTwice
PROPERTIES
    Terminates
