---------------------------- MODULE MCWorkspace ----------------------------
(***************************************************************************)
(* Values for the constants of Workspace that a configuration cannot       *)
(* write.                                                                  *)
(***************************************************************************)
EXTENDS WorkspaceInv, TLC, SequencesExt

(* What create is asked for: two ways to spell one name, and no name. *)
SomeArguments == {"Add users", "add-users", "--"}

SanitizedArguments ==
    ("Add users" :> "add_users") @@ ("add-users" :> "add_users") @@ ("--" :> "")

SQLiteForm == [start |-> "sqlite://", ext |-> ".db", parts |-> {}]

MySQLForm ==
    [start |-> "mysql://", ext |-> "other",
     parts |-> {"user", "host", "port", "dbname"}]

(* A SQLite file, and a MySQL server without a password. *)
SomeURLs == ("sqlite://a.db" :> SQLiteForm) @@ ("mysql://u@h:1/d" :> MySQLForm)

SQLiteURL == [NoSettings EXCEPT !.database_url = "sqlite://a.db"]

(* A command as the user types it, one for another directory, and one with *)
(* a table name that is refused.                                           *)
SomeFlags ==
    {SQLiteURL,
     [NoSettings EXCEPT !.migrations_dir = "db"],
     [NoSettings EXCEPT !.table_name = "1bad"]}

NoVariables == [plain |-> NoSettings, shift |-> NoSettings]

SomeEnvs ==
    {NoVariables,
     [NoVariables EXCEPT !.shift.database_url = "mysql://u@h:1/d",
                         !.plain.migrations_dir = "db"]}

(* Both spellings of one variable. *)
BothVariables ==
    {[NoVariables EXCEPT !.plain.migrations_dir = "db",
                         !.shift.migrations_dir = "./migrations"]}

SomeConfigs ==
    {Absent, Malformed,
     [database_url |-> "sqlite://a.db", migrations_dir |-> "db",
      table_name |-> NoKey],
     [EmptyFile EXCEPT !.migrations_dir = ""]}

Written == <<Up, "create", Down, "drop">>

Irreversible == <<Up, "create">>

SomeEdits == {Written, <<"create">>}

(* All texts of up to five tokens. *)
ShortTexts == BoundedSeq(Tokens, 5)

File(v, n) == [version |-> v, name |-> n, suffix |-> 1]

(* No file; two with different, equal or missing numbers. *)
SomeDirectories ==
    {EmptyDir} \cup
    {[EmptyDir EXCEPT ![File(1, "add_users")] = Written,
                      ![File(v, "b")] = Irreversible] :
        v \in {1, 2, Unnumbered}}

SomePlaces ==
    {"./migrations"} \X {File(1, "add_users"), File(2, "add_users")}

SymmetricProcs == Permutations(Procs)

=============================================================================
