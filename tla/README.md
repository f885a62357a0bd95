# A TLA+ model of sqlshift

sqlshift applies numbered SQL files to a PostgreSQL, MySQL or SQLite database and
keeps a history table of what it has applied. Its promises are about that table,
the schema and the files agreeing, and what makes them hard is everything that can
happen between two statements: other sqlshift processes, crashes, lost sessions,
DDL that commits by itself, files that change. These modules model the statements
as steps and check, and to a large part prove, what any interleaving of them can
do. Two specifications divide the system: `Runner` is what the processes do to the
database, `Workspace` what they do to the files and how they come to read them.

## Inventory

| Part | State | Operations | Hard about it | Correct when |
|---|---|---|---|---|
| `internal/migration/runner.go` up | locals of one run: lock, loaded files, plan | `UpWithVerbose`, `applyMigration`, `PlanUp` (dry run) | concurrent ups, stale plan, crash between two transactions | no holes in the history, a migration in effect once exactly when recorded, one up at a time, up ends with everything recorded |
| runner.go down | loaded files, the last row | `Down` | takes no lock, ignores the number of deleted rows | removes the last row, reverts nothing twice |
| runner.go validate, status | none | `Validate`, `Status` | must agree with what up refuses; reads files and history at two moments | a clean validate means up runs; status shows every row |
| `cmd/baseline.go` | loaded files, its version | one checked insert | takes no lock, leaves the versions below unrecorded | up goes on with higher versions |
| `cmd/repair.go` | none | one UPDATE | same SQL for three dialects | the row holds the new checksum |
| `internal/migration/migration.go` | the directory | `LoadDir`, `ParseFile`, `splitSQL`, `PlanUp`, `ValidateSequence`, `Checksum` | duplicates, gaps, unusable files, markers, files that change between two reads | loads exactly the directories with distinct usable versions, cuts a file as its markers say |
| `internal/db` | the database: history rows, locks, transactions | `AcquireUpLock`, `CreateHistoryTable`, `InsertMigration`, `DeleteMigration`, `GetApplied`, `Open` | session locks on another connection than the work, GET_LOCK timeout, implicit commits, no lock in SQLite | see up and down |
| `cmd/create.go`, `cmd/init.go` | the directory, `.shift.toml` | next number, `fileExists`, `os.Stat`, write | two of them at once, a kill between truncating and writing, the largest int | a new number and no gap, nothing that was there is lost, the directory of the config exists |
| `internal/config`, `cmd/root.go` | none | `Load` | precedence, two spellings of a variable | flag over environment over file |
| `internal/output` | none | formatting | - | - |

The processes share nothing but the migrations directory and the database. A
process opens a pool; the lock lives on one reserved connection of it, the
transactions run on others. Commands never call each other.

## Modules

* `Migration.tla` - the pure functions over a directory and a history:
  `Loads` (LoadDir), `ValidateSequence`, `PlanUp`, `UpAccepts` (every check of
  `UpWithVerbose` before it runs anything), `IsLast` and `Revertible` (Down),
  `Validate`. A directory is a function from versions to contents, `NoFile` or
  `Broken` (any reason for LoadDir to fail); a history is a function from versions
  to contents or `NoRow`. A content stands for its SHA-256.
* `MigrationLog.tla` - the abstract specification: `applied` and `schema`, and two
  actions that change both at once, `Apply` of the next version and `Revert` of
  the last.
* `TwoStepLog.tla` - what is left of it under MySQL's implicit commits: the next
  version may be run any number of times, whole or in part, before it is recorded,
  and no other version is run until it is. `Again` allows a version that is recorded
  to be run once more; `Runner` needs that only where the lock may be lost.
* `Runner.tla` - the processes. One action per statement or directory read; `pc` is
  the next statement, in the order of the source:

  | `pc` | up | down | baseline | source of the step |
  |---|---|---|---|---|
  | `lock` | 1 | | | `AcquireUpLock` |
  | `table` | 2 | | 2 | `CreateHistoryTable` |
  | `load` | 3 | 1 | 1 | `LoadDir` |
  | `check` | 4 | 2 | 3 | `GetApplied` and every check that follows it |
  | `exec` | 5 | 3 | | `tx.ExecContext` of the SQL |
  | `record` | 6 | 4 | 4 | `InsertMigration`, `DeleteMigration` |
  | `commit` | 7 | 5 | 5 | `tx.Commit`, then the next migration of the plan |
  | `release` | 8 | | | the deferred release |

  `up --dry-run` is `load`, `check`. `down --dry-run` is `down`: the command does
  not read the flag. `repair` is one action. `Fails` ends a command at any step and
  stands for an error of the statement as well as for a killed process: the
  server rolls back and frees the lock. A commit whose answer is lost is the commit
  followed by `Fails`. A MySQL section that stops halfway, because a statement of it
  fails or the process is killed, is `ExecCut`.
* `RunnerInv.tla` - the inductive invariants of `Runner`, in layers, used by the
  runs and the proofs.
* Theorems about `Runner`: `RunnerProofs.tla` has the layers all the others need and
  ups in PostgreSQL and SQLite, `OrphanProofs.tla` ups in every dialect,
  `RaceProofs.tla` commands that race, downs and baselines among them, and
  `OperatorProofs.tla` commands that do not overlap, and what is reported to the
  operator.
* `MigrationFile.tla` - `splitSQL`, on texts that are sequences of tokens (two
  markers, blank space, statements). `UpSQL` and `DownSQL` search as the code does;
  `FollowsMarkers` says position by position, without searching, what belongs to
  which section, and `FileProofs.tla` proves that the two agree on every text.
* `Config.tla` - `config.Load` with flags, both spellings of each variable, file
  and defaults, and what `db.Open` accepts: `DetectDriver` and `FormatsMySQLDSN`,
  over the parts of a URL.
* `Workspace.tla` - `init`, `create` and the beginning of every command that loads
  the migrations, over one config file and several directories of named files. One
  action per call of the operating system:

  | `pc` | init | create | up, down, status, validate, baseline | source of the step |
  |---|---|---|---|---|
  | `config` | 1 | 1 | 1 | `PersistentPreRunE`, `config.Load` |
  | `mkdir` | 2 | 2 | | `os.MkdirAll` |
  | `open` | | | 2 | `openRunner`, `db.Open` |
  | `list` | | 3 | 3 | `os.ReadDir` in `nextMigrationVersion` and `LoadDir` |
  | `stat` | 3 | 4 | | `os.Stat`, `fileExists` (once per suffix) |
  | `truncate` | 4 | 5 | | `os.WriteFile`, opening the file |
  | `write` | 5 | 6 | | `os.WriteFile`, filling it |
  | `parse` | | | 4 | `ParseFile`, once per file |

  `changed[p]` is a history variable: what others have touched since `p` looked.
  No step depends on it; the properties use it to say "unless somebody interfered".
  `gone` says that the file `p` is writing has been deleted under it.
* `WorkspaceInv.tla` - the inductive invariant of `Workspace`; `WorkspaceProofs.tla`
  - the theorems about it.
* `MCRunner.tla`, `MCWorkspace.tla` - values for TLC.

`Workspace` instantiates `Migration` as `Disk`, with texts that split for contents:
`DiskOf` maps a directory of named files to what `Runner` takes for its directory,
with `Broken` for a version that two files share or whose text does not split.
`DirectoryLoaded` is the seam between the two specifications: `Runner` reads a
directory in one step, `Workspace` file by file, and the property says that the
second does what the first assumes.

Definitions named as a *mutant* in their comment are deliberate mistakes. They
take no part in the specification; putting one in the place of the definition it
follows makes TLC report the property listed with it in `PROJECT.json`, which
shows that the property can fail.

### The database as the model has it

The server is not part of the repository; the model takes from it what the code
relies on.

* What a section does is a matter of the text the process has loaded, not of the
  version: `DevWrites` may have replaced the file since it was first run. The
  constant `Creates` gives the objects that the up section of a text creates and its
  down section drops. A text that creates objects fails where one of them is there
  (`Rejected`), its down section where one is gone. A text that creates none - `CREATE
  ... IF NOT EXISTS`, `ALTER ... MODIFY`, rows inserted or changed - never fails for
  what the database holds and can be run again, unnoticed.
* `objects[v]` are the objects of version `v` that are there, `net[v]` counts
  commits of its up section minus commits of its down section. Two versions do not
  create or drop objects of each other. `ran[v]` is the text whose up section took
  effect last.
* A transaction has no variable: `OpenSQL(p, v)` and `OpenRow(p, v)` follow from
  the step of `p`. A row that is not committed blocks other writers of the same
  version (`RowFree`), an object likewise (`ObjectFree`), and SQLite has one
  writer (`WriterFree`; SQLite answers with an error, which is `Fails`).
* A PostgreSQL `DELETE` does not see an uncommitted row of another transaction, so
  it removes nothing, is not an error and leaves nothing to wait for (`hit`).
* In MySQL a text of `DDL` takes effect statement by statement (`AutoCommits`), as
  the integration test `TestMySQLDDLImplicitCommitDocumentation` records. `DDL`
  includes every text that creates an object, and others that can be run again. If
  the section stops halfway, any part of it has taken effect (`ExecCut`): rows
  inserted before a `CREATE` that fails, the first of two tables. Such a run is
  counted in `net` like a whole one, so `net` may be 2 or more before the row is
  there: an up is killed, the developer repairs the file or the DDL can be run again,
  and the next up runs it on top.
* The lock belongs to a session. `LoseSession` takes it away from its owner, who
  goes on; it is enabled by the constant `SessionsDrop`.
* `DevWrites` is a developer who writes, breaks or deletes a file at any moment.

Simplifications: in `Runner`, `LoadDir` reads the directory in one step (see
`DirectoryLoaded` for why it may, and for what is left when files change
meanwhile); the transaction of `CreateHistoryTable` is one step, and the "already
exists" codes a concurrent creation may give are its success; versions are a
finite set of naturals.

### The files as the model has them

* A file is a number, a name and a suffix: `001_users_2.sql` is version 1, `users`,
  suffix 2. A name that itself ends like a suffix (`create users_2`) is another
  name; that it may collide with a suffixed one is left out. `Unnumbered` is every
  file name that `ParseFilename` refuses.
* `sanitizeMigrationName` is the constant `Sanitized`: any function from arguments
  to names, several to one, and to "" for an argument without a letter or digit.
* `LoadDir` reads the files in the order of their names, the model in any order.
* `MaxVersion` stands for the largest int: one more becomes a number with a minus
  sign, which is no file name that parses (`Numbered`).
* `MaxSuffix` bounds the suffixes; a create that needs a further one can only stop.
* A text that a developer saves between a create's truncation and its write is
  lost. For `.shift.toml`, where the two texts differ in length, it may also leave
  a tail behind (`WriteConfig`), which does not parse.
* Directories are never deleted, the environment is the same for all commands, and
  the config file is `.shift.toml` of the working directory.

## Runs

| Run | Shows | Bounds |
|---|---|---|
| `up_postgres` | under the advisory lock concurrent ups exclude each other and work from fresh plans; through crashes and edits the history has no hole, a migration is in effect once exactly when recorded, a row holds the checksum of what ran, a finished up has recorded all it loaded; the abstract log is implemented | 3 processes, 3 versions, two texts (one creates an object, one can be run again), 4 commands, 2 edits; 100,938 states |
| `up_sqlite` | the same without any lock, for SQL that never fails: the primary key alone stops the second up; `up --dry-run` changes nothing | 2 processes, versions 0 to 3, 4 commands, 1 edit, directories with a file missing and none of version 0 (the edit may add either, or remove one); 14,906 states |
| `up_mysql` | with implicit commits, sections cut short, lock timeouts and lost sessions the history has no hole, plans are closed and a finished up is complete; a migration that is executed - perhaps more than once - and not recorded is the next one; the two-step log is implemented | 3 processes, 3 versions, three texts (one creates an object, one is DDL that can be run again, one is DML), 4 commands, 1 edit; 611,976 states |
| `mixed_postgres` | downs that race with each other and with ups revert nothing twice and keep schema and history in step, when every migration creates an object; plans stay fresh | 2 ups, 2 downs among 3 processes, 3 versions, two texts with an object each, 5 commands, 1 edit; 1,430,783 states |
| `operator_sqlite` | commands that do not overlap: down removes the last row, a clean validate means up is not refused, status shows every row and nothing pending below an applied version though files change between its two reads, the abstract log is implemented with `Revert` | 1 process, 3 versions, 5 commands (repairs among them), 2 edits; 91,919 states |
| `liveness_postgres` | every command ends, and with downs and a baseline in play no migration is run on top of a run of its own (`NeverTwice`) | 3 processes (up, down, baseline), 2 versions, 3 commands; 7,220 states |
| `down_not_last` | (violation) README.md:47: a down that overlaps an up deletes a row that is not the last | 2 processes |
| `baseline_promise` | (violation) cmd/baseline.go:106-107: after `baseline 2` every up is refused, 1 being out of order | 1 process |
| `repair_postgres` | (violation) cmd/repair.go:13: repair does nothing on PostgreSQL | 1 process |
| `down_dry_run` | (violation) ROADMAP.md:39-43: `down --dry-run` reverts | 1 process |
| `workspace` | two of init, create and a loading command side by side, and a developer: a create that nobody disturbs uses a new number and leaves no gap; nothing is emptied that was there before the look; the directory a written config names exists; no file left alone is missed by `LoadDir`; every text of up to five tokens is cut as its markers say | 2 processes, 2 commands, 1 edit; 2 directories, versions up to 2 (so that the int wraps), two names, two suffixes; directories with distinct, equal and missing numbers |
| `documented_env` | (violation) README.md:55-59, 69-73: `MIGRATIONS_DIR` decides although `SHIFT_MIGRATIONS_DIR` is set | 1 process |

Why these bounds: a race between two commands takes two processes and a third
one shows that it is not special; a hole takes three versions; a stale plan takes
a plan of two; a command, a failure, a retry and one command more take four calls;
an edit that matters is one between two steps of a command, and a second one can
undo it. In `workspace` two commands are enough for every race the code has (two
creates, two inits, a create and a load) and two versions for a first number, a
next one and the wrap around; five tokens hold both markers twice, or once
each with statements around them. `MaxCalls` and `MaxEdits` appear in guards only, so a bounded run is a
prefix of an unbounded one. Processes are symmetric in the runs of up, where
all may run the same commands; the liveness run uses no symmetry. Deadlock is
checked: `Quiescent` is the only way to stop.

Fairness (`FairSpec`): weak fairness of the steps of a process, because a
statement that is sent is answered and the code goes straight on to the next one;
strong fairness of `AcquireUpLock`, because PostgreSQL serves the waiters for an
advisory lock in order. Neither `Fails` nor the start of a command is fair. A
migration that never returns, or a session that holds a lock and is never noticed
to be dead, is outside of this assumption.

## Theorems

For every set of processes, versions, names, texts and settings, and every bound.

`Runner`, in every dialect and with lost sessions unless "assumes" says otherwise:

| Theorem | Says | Assumes |
|---|---|---|
| *`RunnerProofs.tla`* | | |
| `TypeCorrect` | `TypeOK` always | - |
| `UpsExcludeEachOther` | `LockExclusive` | not SQLite, no lost session |
| `PlanStaysFresh` | `PlanIsFresh`, downs and repairs allowed | not SQLite, no lost session, no baseline |
| `HistoryHasNoHoles` | `HistoryPrefix` | only ups |
| `PlansStayClosed` | `PlanClosed` | only ups |
| `RowsAreClaimedOnce` | `RowsClaimedOnce` | only ups |
| `SchemaFollowsHistory` | `SchemaMatchesHistory` | only ups, not MySQL |
| `RunnerImplementsLog` | `Spec => ImplementsLog` | only ups, not MySQL |
| *`OrphanProofs.tla`* | | |
| `OrphansAreNext` | `OrphanIsNext` | only ups |
| `RunnerImplementsTwoStepLog` | `Spec => ImplementsTwoStepLog` | only ups |
| `OrphansAreRecordedAsRun` | `RecordedIsWhatRan` | only ups, no repair; in MySQL no lost session |
| `UpsAreComplete` | `UpComplete` | only ups, no repair |
| *`RaceProofs.tla`* | | |
| `NothingRunsTwice` | `NeverTwice`, every command allowed | not MySQL |
| `ChecksumIsOfWhatRan` | `RecordedIsWhatRan`, downs allowed | not MySQL, no baseline, no repair |
| `ObjectsAlwaysFollowRows` | `ObjectsFollowRows`: the objects of a migration are there, as its text created them, exactly when it is recorded; downs allowed | not MySQL, no baseline, own objects |
| `SchemaSurvivesDowns` | `SchemaMatchesHistory`, downs allowed | not MySQL, no baseline, own objects |
| `DownsRemoveTheirRow` | `DownRemovesItsRow` | not MySQL, no baseline, own objects |
| *`OperatorProofs.tla`* | | |
| `DownsRevertTheLast` | `DownRevertsTheLast`, baselines allowed | no overlap |
| `OperatorImplementsLog` | `Spec => ImplementsLog`, with `Revert` | one operator, not MySQL |
| `ValidateForetellsUp` | `CleanValidateMeansUpRuns` | only ups, or one operator |
| `StatusIsInOrder` | `StatusShowsHistory` | only ups, or one operator |
| `MatchingFilesAreAccepted` | `MatchingHistoryIsAccepted` | only ups, or one operator |
| `DryRunsChangeNothing` | `DryRunChangesNothing` of `up --dry-run` | no down |

"Only ups" means that nobody runs down or baseline; repairs, dry runs, crashes and
edits stay allowed, and so does any number of ups. "No overlap" means that there is
one process; "one operator" that besides nobody runs baseline. "No repair" includes
PostgreSQL, where repair has no effect. "Own objects" (`OwnObjects`): every text creates
something, and an edit keeps the objects of a file or replaces them all. What the
assumptions exclude does break the
properties: the runs `down_not_last`, `baseline_promise` and `down_dry_run` show three
of them violated, a repair replaces a checksum without running anything, two downs of
a migration without objects both succeed; in MySQL a down that dies has dropped an
object whose row remains, an up that is retried runs re-runnable DDL twice
(`NothingRunsTwice`), and with a lost lock a second up may run another text of the
file after the first has run it and before it records it (`RecordedIsWhatRan`). (`DryRunsChangeNothing` excludes down because the
property names `down --dry-run` too.)

`FileProofs.tla` and `WorkspaceProofs.tla`, without further assumptions:

| Theorem | Says |
|---|---|
| `EveryTextFollowsMarkers` | splitSQL cuts a text of any length as its markers say |
| `SectionsAlwaysFollowMarkers` | `SectionsFollowMarkers`: every file there is at any moment is |
| `WorkspaceTypes` | `TypeOK` always |
| `InitsPrepareTheirDirectory` | `InitPreparesDirectory` |
| `CreatesNumberNext` | `CreateNumbersNext` |
| `NothingIsOverwritten` | `NothingOverwritten` |
| `LoadDirIsOneStep` | `DirectoryLoaded` |

The argument for `Runner`, layer by layer (`RunnerInv.tla`):

1. `TypeInv`. `TypeOK` is not inductive: a row gets `loaded[p][v]`, which could be
   `NoFile`. `PlanOK` adds that a process which is past its check plans only for
   versions whose file it has loaded, and that it has no plan before.
2. `ControlInv`: which command can be at which step.
3. `LockHeld`: an up past `AcquireUpLock` owns the lock. Exclusion follows.
4. `PlanUnrecorded`: no planned version is recorded (but for the row MySQL has
   already taken). Only an up adds rows, and by 3 there is only one.
5. `PrefixInv`: `PlanClosed` says that below a planned version all are planned or
   recorded. It is true when the plan is made, because of `ValidateSequence`, and
   stays true because rows are only added. As the loop takes the least planned
   version, the row it adds closes the history up - no lock is needed. The reports
   follow from it: a history without a hole has nothing pending below an applied
   version, and being out of order is the only thing up checks and validate does not.
6. `SchemaInv`: `RowsClaimedOnce` says that a row waiting for its commit is new and
   nobody else's. So a commit counts a migration up from 0 to 1.
7. The refinement: by 5 the version committed is the one after the last recorded
   one, by 6 its count becomes 1, and every other step leaves both variables of
   the log as they are.
8. `OrphanInv`, for MySQL: between the DDL of a migration and its row nothing in the
   database tells who has run it, or how often. `ExecutedIsInEffect` remembers that an
   up at its insert has run it, so what is recorded has been run. `OrphanIsNext` is
   preserved because of the plan and not because of the SQL: what an up runs is the
   least version of a closed plan, so it is the next one, or one that another up has
   recorded since (with a lost lock). While one migration is an orphan, any other
   that is run would have to be the next one as well, and there is one next one. It
   must say that the orphan's version is above 0, or a version 0 would satisfy it
   before any row and the step that records version 1 would break it. The proof
   goes by what a step does (`StepEffects`: nothing, run, record, or both), and the
   same four cases map to `TwoStepLog`. That the row has the checksum of what ran
   last needs in addition that nobody runs the migration in between: `WhileLocked`
   has the lock for MySQL, the primary key is enough elsewhere.
9. `NeverTwiceInv`, outside MySQL and for any mixture of commands: a row that an up
   or a baseline adds is new and is added by one process only, and a migration
   counts at most as often as it is recorded. A down takes one off both or, when
   another has removed the row, off the count alone; so a count never exceeds one.
10. `CompleteInv`: what an up has loaded is planned or recorded at every step, and
   what it has handled is recorded, since without a down no row goes away. In MySQL
   the row is there before the commit; `RowIsItsOwn` says that it is this up's.
11. `DownRaceInv`: whoever has an object's `CREATE` or `DROP` in an open transaction
   has found it missing or there, and is alone with it (`ObjectsClaimedOnce`).
   `ObjectsFollowRows` ties the objects to the row: those of the text that was run,
   all or none. So a down that has dropped an object finds its row when it comes to
   delete it, which in turn keeps objects and row together at the commit; and of
   two downs the second finds the object gone. Down's missing lock does not matter
   here. An edit in between is harmless as long as the new text has none of the old
   objects, whose `DROP` then fails, or all of them; an edit that keeps some could
   drop half (`OwnObjects` excludes it).
12. `OperatorInv`: without overlap the row down has chosen is the last one at each
   of its steps (`RevertsLast`; in MySQL it may be gone before the commit), and a
   history without a hole minus its last row is one without a hole. So 5 extends to
   downs, and with it the reports and the refinement.

The argument for `Workspace` (`WorkspaceInv.tla`): `WorkspaceIInv` says what each
command may rely on between two steps.

* `DirectoryMade`: past `os.MkdirAll` the directory exists. With it, the config file
  that init writes names one that does.
* `LookedBefore`: what stands where a command is about to write came after its look.
  It is inductive because a create of the same file is in `changed`.
* `NumberIsNext`: the chosen number is one more than the largest of the files that
  are still as they were read. The files that have been touched since must be left
  out on both sides, or the first interfering create breaks the induction.
* `ReadAsTheyAre`: of the files already read, those nobody touched are loaded as
  they are, with distinct numbers; anything else in `loaded` comes from a file that
  was touched. At the end of the listing this is `DirectoryLoaded`.

The assumptions about constants are `MigrationAssumption`, `RunnerAssumption`,
`StatementsAssumption`, `ConfigAssumption` and `WorkspaceAssumption`; TLC evaluates
them in the runs.

Model-checked only: `Terminates` and the absence of deadlock (liveness under
fairness and ENABLED are out of the prover's reach).

Where the results end. `PlanIsFresh` and `LockExclusive` need a lock that is not lost.
A killed process can lose the lock while a commit of its is still on the way to the
server on another connection; in the model that is `LoseSession`, the commit and then
`Fails`, so it is covered by what is claimed with lost sessions (the history, the
schema, completeness, both logs) and not by these two. Downs that race in MySQL have no
theorem: what is left of their promise depends on what half a down section has
dropped. And the proofs about migrations without objects stop where downs begin to
race, because there the schema does drift from the history. `CreateNumbersNext` and
`NothingOverwritten` say what create and init do when nobody interferes between the
look and the write, and bound what is lost when somebody does; that two creates may
choose one number and that the later write wins is how the code is.

## Not modelled

* Output: formatting of tables and JSON; it keeps no state.
* `--config` and where viper looks for the file; `--verbose`.
* The error codes by which the drivers report a table that exists or an object
  that is missing; they are told apart only as far as success and failure.
* `sanitizeMigrationName` character by character; the MySQL DSN that is produced, as
  opposed to the URLs that are accepted.
* Case folding of table names and the spelling of SQLite URLs (listed as hazards:
  what they lead to is decided by the servers).
* `UpdateMigrationChecksum` of the dialects, which has no caller.

## Plan

Done: `Migration`, `Runner`, `MigrationLog`, `TwoStepLog`, `RunnerInv`, `RunnerProofs`,
`OrphanProofs`, `RaceProofs`, `OperatorProofs`; `MigrationFile`, `Config`, `Workspace`,
`WorkspaceInv`, `FileProofs`, `WorkspaceProofs`. Every property that a passing run
checks, but `Terminates`, is stated by a theorem.

Left:

1. Proofs: which object and row a down that dies in MySQL leaves behind, and the
   two-step log with a two-step `Revert` for one operator; ups that race with one down.
2. `CreateHistoryTable` as its own steps (look, begin, create, commit) with two
   commands that create the table at once.
3. A run that couples the edits of `Workspace` to several loads of one process, to
   follow a create from its template to the migration that up applies.
