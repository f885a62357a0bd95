SPECIFICATION Spec
CONSTANTS
    Procs = {p1, p2}
    Dirs = {"./migrations", "db"}
    Tables = {"shift_migrations", "1bad"}
    ValidTables = {"shift_migrations"}
    URLs = {"sqlite://a.db", "mysql://u@h:1/d"}
    Parsed <- SomeURLs
    DefaultDir = "./migrations"
    DefaultTable = "shift_migrations"
    NoKey = NoKey
    Absent = Absent
    Malformed = Malformed
    Statements = {"create", "drop"}
    Arguments <- SomeArguments
    Sanitized <- SanitizedArguments
    Names = {"add_users", "b"}
    MaxSuffix = 2
    MaxVersion = 2
    Texts <- ShortTexts
    EditTexts <- SomeEdits
    EditPlaces <- SomePlaces
    NoFile = NoFile
    Broken = Broken
    Flags <- SomeFlags
    InitialEnvs <- SomeEnvs
    InitialConfigs <- SomeConfigs
    InitialFiles <- SomeDirectories
    MaxCalls = 2
    MaxEdits = 1
SYMMETRY SymmetricProcs
INVARIANTS
    TypeOK
    SectionsFollowMarkers
    CreateNumbersNext
    InitPreparesDirectory
PROPERTIES
    DirectoryLoaded
    NothingOverwritten
