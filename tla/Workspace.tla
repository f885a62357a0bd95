----------------------------- MODULE Workspace -----------------------------
(***************************************************************************)
(* The directory a project lives in: .shift.toml and the directories of    *)
(* migration files.  Processes run init, create, or a command that loads   *)
(* the migrations (up, down, status, validate, baseline; what those do     *)
(* then is in Runner), each step being one call of the operating system.   *)
(* A developer edits the same files.                                       *)
(***************************************************************************)
EXTENDS Config, MigrationFile, Integers, FiniteSets

CONSTANTS
    Procs,
    Arguments,      \* what create is asked to call the migration
    Sanitized,      \* sanitizeMigrationName of each: several may give one
                    \* name, "" is an argument without letter or digit
    Names,          \* the names of files a developer or create chooses
    MaxSuffix,      \* bound on the suffix create tells equal names apart by
    MaxVersion,     \* the largest int
    Texts,          \* texts of the files there are at first
    EditTexts,      \* texts a developer writes
    EditPlaces,     \* files a developer edits: <<directory, path>>
    NoFile,         \* a path without a file
    Broken,         \* see Migration
    Flags,          \* the flags a command is started with
    InitialEnvs,    \* the environments to start from
    InitialConfigs, \* the config files to start from
    InitialFiles,   \* the contents of the default directory to start from
    MaxCalls,       \* bound on the number of commands
    MaxEdits        \* bound on the number of edits

(* The number of a file whose name ParseFilename refuses. *)
Unnumbered == -1

(* 001_users.sql is [version |-> 1, name |-> "users", suffix |-> 1],       *)
(* 001_users_2.sql has suffix 2.                                           *)
Paths ==
    [version : 0..MaxVersion \cup {Unnumbered}, name : Names,
     suffix : 1..MaxSuffix]

AllTexts == Texts \cup EditTexts \cup {<<>>, Template}

Directories == [Paths -> AllTexts \cup {NoFile}]

EmptyDir == [f \in Paths |-> NoFile]

(* init writes a config file with all keys and no database URL; those that *)
(* developers write have one, or lack a key.                               *)
WrittenByInit(c) ==
    /\ c \in FileSettings
    /\ c.database_url = ""
    /\ c.migrations_dir # NoKey /\ c.table_name # NoKey

ASSUME WorkspaceAssumption ==
    /\ Sanitized \in [Arguments -> Names \cup {""}]
    /\ "" \notin Names
    /\ MaxSuffix \in Nat \ {0} /\ MaxVersion \in Nat
    /\ Texts \cup EditTexts \subseteq Seq(Tokens)
    /\ EditPlaces \subseteq Dirs \X Paths
    /\ NoFile \notin AllTexts /\ Broken \notin AllTexts \cup {NoFile}
    /\ Flags \subseteq Settings
    /\ InitialEnvs \subseteq Environments
    /\ InitialConfigs \subseteq FileSettings \cup {Absent, Malformed}
    /\ \A c \in InitialConfigs : ~WrittenByInit(c)
    /\ InitialFiles \subseteq Directories
    /\ MaxCalls \in Nat /\ MaxEdits \in Nat

VARIABLES
    config,     \* .shift.toml
    existing,   \* the directories that exist
    files,      \* what is in each of them
    env,        \* the environment, the same for all commands
    proc,       \* where each process is and what it knows, see ProcStates
    changed,    \* what others have changed since it looked: a history
                \* variable, no step depends on it
    calls,      \* commands started so far
    edits       \* edits so far

workspace == <<config, existing, files, env>>
bounds == <<calls, edits>>
vars == <<workspace, proc, changed, bounds>>

Commands == {"init", "create", "load"}

Steps == {"config", "mkdir", "open", "list", "stat", "truncate", "write",
          "parse"}

Versions == 0..MaxVersion

ProcStates ==
    [pc      : Steps \cup {"idle"},
     cmd     : Commands \cup {"none"},
     flags   : Settings,
     cfg     : Settings,                \* what config.Load has returned
     target  : [version : 0..MaxVersion \cup {Unnumbered},
                name : Names \cup {""},
                suffix : 1..MaxSuffix], \* the file create will write
     listing : SUBSET Paths,            \* what LoadDir has still to read
     loaded  : [Versions -> AllTexts \cup {NoFile}],   \* what it has read
     gone    : BOOLEAN]     \* the file it is writing has been deleted

Idle ==
    [pc |-> "idle", cmd |-> "none", flags |-> NoSettings, cfg |-> NoSettings,
     target |-> [version |-> 0, name |-> "", suffix |-> 1],
     listing |-> {}, loaded |-> [v \in Versions |-> NoFile], gone |-> FALSE]

(* What a process may find changed: a file, or the config file. *)
Places == (Dirs \X Paths) \cup {<<"config">>}

TypeOK ==
    /\ config \in FileSettings \cup {Absent, Malformed}
    /\ existing \subseteq Dirs
    /\ files \in [Dirs -> Directories]
    /\ env \in Environments
    /\ proc \in [Procs -> ProcStates]
    /\ changed \in [Procs -> SUBSET Places]
    /\ calls \in 0..MaxCalls
    /\ edits \in 0..MaxEdits

(* The default directory exists if it has files. *)
Init ==
    /\ config \in InitialConfigs
    /\ \E initial \in InitialFiles :
        /\ files = [d \in Dirs |->
                        IF d = DefaultDir THEN initial ELSE EmptyDir]
        /\ existing = IF initial = EmptyDir THEN {} ELSE {DefaultDir}
    /\ env \in InitialEnvs
    /\ proc = [p \in Procs |-> Idle]
    /\ changed = [p \in Procs |-> {}]
    /\ calls = 0
    /\ edits = 0

-----------------------------------------------------------------------------
At(p, c, s) == proc[p].cmd = c /\ proc[p].pc = s

Busy(p) == proc[p].pc # "idle"

Dir(p) == proc[p].cfg.migrations_dir

Target(p) == proc[p].target

(* The .sql files of a directory. *)
Listed(d) == {f \in Paths : files[d][f] # NoFile}

(* Others see that x has changed. *)
Touch(p, x) ==
    changed' = [q \in Procs |-> IF q # p /\ Busy(q) THEN changed[q] \cup {x}
                                ELSE changed[q]]

(* p sees x as it is now. *)
Look(p, x) == changed' = [changed EXCEPT ![p] = @ \ x]

(* The command of p is over, with or without an error. *)
End(p) == proc' = [proc EXCEPT ![p] = Idle]

(* ... and this was not a step that writes. *)
Finish(p) ==
    /\ End(p)
    /\ Look(p, Places)
    /\ UNCHANGED <<workspace, bounds>>

Start(p, c) ==
    /\ ~Busy(p)
    /\ calls < MaxCalls
    /\ calls' = calls + 1
    /\ \E given \in Flags, a \in Arguments :
        proc' = [proc EXCEPT ![p].pc = "config", ![p].cmd = c,
                    ![p].flags = given,
                    ![p].target.name = IF c = "create" THEN Sanitized[a]
                                       ELSE ""]
    /\ UNCHANGED <<workspace, changed, edits>>

(* PersistentPreRunE runs config.Load before every command. *)
LoadConfig(p) ==
    /\ proc[p].pc = "config"
    /\ LoadSucceeds(proc[p].flags, env, config)
    /\ proc' = [proc EXCEPT
                    ![p].cfg = Load(proc[p].flags, env, config),
                    ![p].pc = IF proc[p].cmd = "load" THEN "open" ELSE "mkdir"]
    /\ UNCHANGED <<workspace, changed, bounds>>

LoadConfigFails(p) ==
    /\ proc[p].pc = "config"
    /\ ~LoadSucceeds(proc[p].flags, env, config)
    /\ Finish(p)

(* openRunner *)
OpenRunner(p) ==
    /\ proc[p].pc = "open"
    /\ Opens(proc[p].cfg.database_url)
    /\ proc' = [proc EXCEPT ![p].pc = "list"]
    /\ UNCHANGED <<workspace, changed, bounds>>

OpenRunnerFails(p) ==
    /\ proc[p].pc = "open"
    /\ ~Opens(proc[p].cfg.database_url)
    /\ Finish(p)

(* Mutant of MkdirAll: the default directory, whatever the settings are. *)
MkdirDefault(d) == existing' = existing \cup {DefaultDir}

MkdirAll(d) == existing' = existing \cup {d}

(* init and create; create looks at its argument afterwards. *)
MakeDir(p) ==
    /\ proc[p].pc = "mkdir"
    /\ Given(Dir(p))
    /\ MkdirAll(Dir(p))
    /\ proc' = [proc EXCEPT
                    ![p].pc = IF proc[p].cmd = "init" THEN "stat" ELSE "list"]
    /\ UNCHANGED <<config, files, env, changed, bounds>>

MakeDirFails(p) ==
    /\ proc[p].pc = "mkdir"
    /\ ~Given(Dir(p))
    /\ Finish(p)

-----------------------------------------------------------------------------
(* Mutant of NextVersion: one more than there are files. *)
CountedVersion(d) == Cardinality(Listed(d)) + 1

(* nextMigrationVersion: one more than the largest number. *)
NextVersion(d) ==
    CHOOSE n \in 1..(MaxVersion + 1) :
        /\ \A f \in Listed(d) : f.version < n
        /\ n = 1 \/ \E f \in Listed(d) : f.version = n - 1

(* Mutant of Numbered: an int has no end. *)
NumberedForever(n) == n

(* An int wraps around, and a file name that begins with a minus sign has  *)
(* no number.                                                              *)
Numbered(n) == IF n > MaxVersion THEN Unnumbered ELSE n

(* create reads the directory. *)
ChooseVersion(p) ==
    /\ At(p, "create", "list")
    /\ Given(Target(p).name)
    /\ \A f \in Listed(Dir(p)) : f.version # Unnumbered
    /\ proc' = [proc EXCEPT
                    ![p].target.version = Numbered(NextVersion(Dir(p))),
                    ![p].pc = "stat"]
    /\ Look(p, Places)
    /\ UNCHANGED <<workspace, bounds>>

(* The name is empty, or a .sql file has no number. *)
ChooseVersionFails(p) ==
    /\ At(p, "create", "list")
    /\ \/ ~Given(Target(p).name)
       \/ \E f \in Listed(Dir(p)) : f.version = Unnumbered
    /\ Finish(p)

(* Mutant of FileExists: create does not ask. *)
FileNeverExists(d, f) == FALSE

FileExists(d, f) == files[d][f] # NoFile

(* The name is taken: create tries the next suffix. *)
NextSuffix(p) ==
    /\ At(p, "create", "stat")
    /\ FileExists(Dir(p), Target(p))
    /\ Target(p).suffix < MaxSuffix
    /\ proc' = [proc EXCEPT ![p].target.suffix = @ + 1]
    /\ UNCHANGED <<workspace, changed, bounds>>

NameIsFree(p) ==
    /\ At(p, "create", "stat")
    /\ ~FileExists(Dir(p), Target(p))
    /\ Look(p, {<<Dir(p), Target(p)>>})
    /\ proc' = [proc EXCEPT ![p].pc = "truncate"]
    /\ UNCHANGED <<workspace, bounds>>

(* os.WriteFile creates or empties the file, then fills it. *)
TruncateMigration(p) ==
    /\ At(p, "create", "truncate")
    /\ files' = [files EXCEPT ![Dir(p)][Target(p)] = <<>>]
    /\ Touch(p, <<Dir(p), Target(p)>>)
    /\ proc' = [proc EXCEPT ![p].pc = "write"]
    /\ UNCHANGED <<config, existing, env, bounds>>

(* A file that has been deleted since stays deleted; a text that somebody  *)
(* has put into it meanwhile is lost.                                      *)
WriteMigration(p) ==
    /\ At(p, "create", "write")
    /\ files' = IF proc[p].gone THEN files
                ELSE [files EXCEPT ![Dir(p)][Target(p)] = Template]
    /\ Touch(p, <<Dir(p), Target(p)>>)
    /\ End(p)
    /\ UNCHANGED <<config, existing, env, bounds>>

-----------------------------------------------------------------------------
(* init leaves a config file alone that is there, however it looks. *)
ConfigExists(p) ==
    /\ At(p, "init", "stat")
    /\ config # Absent
    /\ Finish(p)

ConfigIsMissing(p) ==
    /\ At(p, "init", "stat")
    /\ config = Absent
    /\ Look(p, {<<"config">>})
    /\ proc' = [proc EXCEPT ![p].pc = "truncate"]
    /\ UNCHANGED <<workspace, bounds>>

TruncateConfig(p) ==
    /\ At(p, "init", "truncate")
    /\ config' = EmptyFile
    /\ Touch(p, <<"config">>)
    /\ proc' = [proc EXCEPT ![p].pc = "write"]
    /\ UNCHANGED <<existing, files, env, bounds>>

(* What init writes: the database URL is not, whatever the flags were. *)
ConfigOf(p) == [proc[p].cfg EXCEPT !.database_url = ""]

(* When somebody else has written a longer text since, its end is left     *)
(* behind.                                                                 *)
WriteConfig(p) ==
    /\ At(p, "init", "write")
    /\ \/ ~proc[p].gone /\ config' = ConfigOf(p)
       \/ ~proc[p].gone /\ config \notin {EmptyFile, ConfigOf(p)}
            /\ config' = Malformed
       \/ proc[p].gone /\ config' = config
    /\ Touch(p, <<"config">>)
    /\ End(p)
    /\ UNCHANGED <<existing, files, env, bounds>>

-----------------------------------------------------------------------------
(* LoadDir lists the directory and then reads the files one by one, in the *)
(* order of their names; here in any order.                                *)
ListDir(p) ==
    /\ At(p, "load", "list")
    /\ Dir(p) \in existing
    /\ proc' = [proc EXCEPT ![p].listing = Listed(Dir(p)), ![p].pc = "parse"]
    /\ Look(p, Places)
    /\ UNCHANGED <<workspace, bounds>>

ListDirFails(p) ==
    /\ At(p, "load", "list")
    /\ Dir(p) \notin existing
    /\ Finish(p)

(* Mutant of Usable: two files may have one number. *)
UsableTwice(p, f) ==
    /\ f.version # Unnumbered
    /\ files[Dir(p)][f] # NoFile
    /\ Splits(files[Dir(p)][f])

(* ParseFile accepts f and its number is new. *)
Usable(p, f) ==
    /\ f.version # Unnumbered
    /\ files[Dir(p)][f] # NoFile
    /\ Splits(files[Dir(p)][f])
    /\ proc[p].loaded[f.version] = NoFile

ParseFile(p, f) ==
    /\ proc[p].pc = "parse"
    /\ Usable(p, f)
    /\ proc' = [proc EXCEPT ![p].loaded[f.version] = files[Dir(p)][f],
                            ![p].listing = @ \ {f}]
    /\ UNCHANGED <<workspace, changed, bounds>>

ParseFileFails(p, f) ==
    /\ proc[p].pc = "parse"
    /\ ~Usable(p, f)
    /\ Finish(p)

(* The directory is loaded and the command goes on in Runner. *)
DirIsLoaded(p) ==
    /\ proc[p].pc = "parse"
    /\ proc[p].listing = {}
    /\ Finish(p)

(* A call fails or the process is killed; what it has written stays. *)
Fails(p) ==
    /\ Busy(p)
    /\ Finish(p)

-----------------------------------------------------------------------------
Writing(q) ==
    IF proc[q].cmd = "init" THEN <<"config">> ELSE <<Dir(q), Target(q)>>

(* An edit of x changes it for all commands that are running; if it is     *)
(* deleted, those that have it open write to a file without a name.        *)
Edit(x, deleted) ==
    /\ edits < MaxEdits
    /\ edits' = edits + 1
    /\ changed' = [q \in Procs |-> IF Busy(q) THEN changed[q] \cup {x}
                                   ELSE changed[q]]
    /\ proc' = [q \in Procs |->
                   IF deleted /\ proc[q].pc = "write" /\ Writing(q) = x
                   THEN [proc[q] EXCEPT !.gone = TRUE]
                   ELSE proc[q]]
    /\ UNCHANGED <<existing, env, calls>>

(* A developer writes or deletes a migration file. *)
DevWrites(d, f, t) ==
    /\ d \in existing
    /\ files[d][f] # t
    /\ files' = [files EXCEPT ![d][f] = t]
    /\ config' = config
    /\ Edit(<<d, f>>, t = NoFile)

(* ... or the config file. *)
DevConfigures(c) ==
    /\ config # c
    /\ config' = c
    /\ files' = files
    /\ Edit(<<"config">>, c = Absent)

(* All commands have ended and no other will be started. *)
Quiescent ==
    /\ calls = MaxCalls
    /\ \A p \in Procs : ~Busy(p)
    /\ UNCHANGED vars

InitStep(p) ==
    \/ ConfigExists(p)
    \/ ConfigIsMissing(p)
    \/ TruncateConfig(p)
    \/ WriteConfig(p)

CreateStep(p) ==
    \/ ChooseVersion(p)
    \/ ChooseVersionFails(p)
    \/ NextSuffix(p)
    \/ NameIsFree(p)
    \/ TruncateMigration(p)
    \/ WriteMigration(p)

LoadStep(p) ==
    \/ OpenRunner(p)
    \/ OpenRunnerFails(p)
    \/ ListDir(p)
    \/ ListDirFails(p)
    \/ \E f \in proc[p].listing : ParseFile(p, f) \/ ParseFileFails(p, f)
    \/ DirIsLoaded(p)

Step(p) ==
    \/ LoadConfig(p)
    \/ LoadConfigFails(p)
    \/ MakeDir(p)
    \/ MakeDirFails(p)
    \/ InitStep(p)
    \/ CreateStep(p)
    \/ LoadStep(p)

Next ==
    \/ \E p \in Procs :
        \/ \E c \in Commands : Start(p, c)
        \/ Step(p)
        \/ Fails(p)
    \/ \E x \in EditPlaces, t \in EditTexts \cup {NoFile} :
        DevWrites(x[1], x[2], t)
    \/ \E c \in InitialConfigs : DevConfigures(c)
    \/ Quiescent

Spec == Init /\ [][Next]_vars

-----------------------------------------------------------------------------
(* What Runner takes a directory for: a content per version, Broken where  *)
(* LoadDir fails.  A file without a number spoils version 0.               *)
DiskOf(d) ==
    [v \in Versions |->
        LET here == {f \in Listed(d) : f.version = v}
        IN  IF v = 0 /\ \E f \in Listed(d) : f.version = Unnumbered THEN Broken
            ELSE IF here = {} THEN NoFile
            ELSE IF \E f \in here : here = {f} /\ Splits(files[d][f])
            THEN files[d][CHOOSE f \in here : TRUE]
            ELSE Broken]

Loadable == {t \in AllTexts : Splits(t)}

Disk == INSTANCE Migration
          WITH Contents <- Loadable,
               Irreversible <- {t \in Loadable : DownSQL(t) = <<>>},
               NoRow <- NoFile

(* The versions of some files, as Migration has them. *)
NumbersOf(F) ==
    [v \in Versions |->
        IF \E f \in F : f.version = v THEN Template ELSE NoFile]

(* Nobody else has touched the directory of p since p has read it. *)
Undisturbed(p) == changed[p] \cap ({Dir(p)} \X Paths) = {}

Untouched(p, f) == <<Dir(p), f>> \notin changed[p]

(* splitSQL, which works with the first up marker and the first down       *)
(* marker after it, cuts every file the way the markers say, and refuses   *)
(* it only when no statement is up (migration.go:148-174): no statement is *)
(* lost between the sections, in both, or in the wrong one.  So does it    *)
(* with half-written and edited files, and with all that may be there at   *)
(* first.                                                                  *)
SectionsFollowMarkers ==
    /\ \A d \in Dirs : \A f \in Listed(d) : FollowsMarkers(files[d][f])
    /\ calls = 0 /\ edits = 0 => \A text \in Texts : FollowsMarkers(text)

(* LoadDir, which reads file by file and stops at the first error, does    *)
(* what the one step of Runner does when nobody edits in between: it fails *)
(* exactly on a directory with a Broken version and loads any other        *)
(* completely.  Whatever is edited in between, no file that was left alone *)
(* is missing or passes for another (migration.go:74-106).                 *)
DirectoryLoaded ==
    [][\A p \in Procs :
        /\ DirIsLoaded(p) =>
               \A f \in Listed(Dir(p)) : Untouched(p, f)
                   => /\ f.version \in Versions
                      /\ proc[p].loaded[f.version] = files[Dir(p)][f]
        /\ DirIsLoaded(p) /\ Undisturbed(p)
               => proc[p].loaded = DiskOf(Dir(p))
        /\ (\E f \in proc[p].listing : ParseFileFails(p, f)) /\ Undisturbed(p)
               => ~Disk!Loads(DiskOf(Dir(p)))]_vars

(* A create that nobody interferes with adds a number that is new, and     *)
(* numbers without a gap stay so: up does not refuse the directory for its *)
(* sequence (create.go:33-39 and migration.go:125-146).                    *)
CreateNumbersNext ==
    \A p \in Procs :
        LET new == Target(p)
            others == Listed(Dir(p)) \ {new}
        IN  /\ At(p, "create", "truncate") \/ At(p, "create", "write")
            /\ Undisturbed(p)
            /\ new.version # Unnumbered
            => /\ \A f \in others : f.version # new.version
               /\ Disk!ValidateSequence(NumbersOf(others))
                  => Disk!ValidateSequence(NumbersOf(others \cup {new}))

(* create and init empty a file only if it came into being after they had  *)
(* looked for it: whatever was there before, another create's file of the  *)
(* same number and name too, survives (create.go:40-45, init.go:23-29).    *)
NothingOverwritten ==
    [][\A p \in Procs :
        /\ TruncateMigration(p) /\ files[Dir(p)][Target(p)] # NoFile
               => <<Dir(p), Target(p)>> \in changed[p]
        /\ TruncateConfig(p) /\ config # Absent
               => <<"config">> \in changed[p]]_vars

(* The directory that the config file of an init names exists, whatever    *)
(* the flags, the environment and other inits: the commands that follow    *)
(* find it (init.go:19-29).                                                *)
InitPreparesDirectory ==
    WrittenByInit(config) => config.migrations_dir \in existing

(* Without a flag, SHIFT_DATABASE_URL, SHIFT_MIGRATIONS_DIR and            *)
(* SHIFT_TABLE_NAME decide when they are set (README.md:55-59, 69-73).     *)
DocumentedVariablesDecide ==
    \A p \in Procs, k \in Keys :
        /\ Busy(p) /\ proc[p].pc # "config"
        /\ ~Given(proc[p].flags[k]) /\ Given(env.shift[k])
        => proc[p].cfg[k] = env.shift[k]

=============================================================================
