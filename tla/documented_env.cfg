SPECIFICATION Spec
CONSTANTS
    Procs = {p1}
    Dirs = {"./migrations", "db"}
    Tables = {"shift_migrations", "1bad"}
    ValidTables = {"shift_migrations"}
    URLs = {"sqlite://a.db", "mysql://u@h:1/d"}
    Parsed <- SomeURLs
    DefaultDir = "./migrations"
    DefaultTable = "shift_migrations"
    NoKey = NoKey
    Absent = Absent
    Malformed = Malformed
    Statements = {"create", "drop"}
    Arguments <- SomeArguments
    Sanitized <- SanitizedArguments
    Names = {"add_users", "b"}
    MaxSuffix = 2
    MaxVersion = 2
    Texts <- ShortTexts
    EditTexts <- SomeEdits
    EditPlaces <- SomePlaces
    NoFile = NoFile
    Broken = Broken
    Flags <- SomeFlags
    InitialEnvs <- BothVariables
    InitialConfigs <- SomeConfigs
    InitialFiles <- SomeDirectories
    MaxCalls = 1
    MaxEdits = 1
INVARIANT
    DocumentedVariablesDecide
