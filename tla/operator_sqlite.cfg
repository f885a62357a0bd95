SPECIFICATION Spec
CONSTANTS
    Procs = {p1}
    Uppers = {p1}
    Downers = {p1}
    Baseliners = {}
    Repairers = {p1}
    Versions = {1, 2, 3}
    Contents = {"a", "i"}
    Irreversible = {"i"}
    NoFile = NoFile
    Broken = Broken
    NoRow = NoRow
    Nobody = Nobody
    Objects = {"a"}
    Creates <- CreatesNamesake
    DDL = {"a"}
    Dialect = "sqlite"
    SessionsDrop = FALSE
    InitialDisks <- LastIrreversible
    MaxCalls = 5
    MaxEdits = 2
INVARIANTS
    CleanValidateMeansUpRuns
    StatusShowsHistory
PROPERTIES
    ImplementsLog
    DownRevertsTheLast
    MatchingHistoryIsAccepted
