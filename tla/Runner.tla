------------------------------- MODULE Runner -------------------------------
(***************************************************************************)
(* Concurrent sqlshift processes over one database and one migrations      *)
(* directory: up, up --dry-run, down, baseline and repair, each step being *)
(* one statement sent to the server or one read of the directory.          *)
(*                                                                         *)
(* The database holds the history table and, for each migration, how often *)
(* its up section has been committed minus how often its down section has, *)
(* and which of its objects are there.  A transaction keeps no state of    *)
(* its own: what an open one has done follows from the step its process    *)
(* has reached.                                                            *)
(*                                                                         *)
(* What a section does to the database depends on the text the process has *)
(* loaded, not on the version: a file may be edited before it is run       *)
(* again.  A text creates some objects (its down section drops them) and   *)
(* then fails where one of them is already there (or gone), or it creates  *)
(* none (CREATE ... IF NOT EXISTS, a column modified, rows inserted) and   *)
(* can be run again and again.  Migrations do not create, or drop, the     *)
(* objects of one another.                                                 *)
(***************************************************************************)
EXTENDS Migration, Integers

CONSTANTS
    Procs,          \* processes started at one time or another
    Uppers,         \* those that may run up and up --dry-run
    Downers,        \* those that may run down and down --dry-run
    Baseliners,     \* those that may run baseline
    Repairers,      \* those that may run repair
    Objects,        \* names of tables, columns, indexes
    Creates,        \* the objects that the up section of a text creates and
                    \* its down section drops
    DDL,            \* texts with statements that MySQL commits by itself
    Dialect,        \* "postgres", "mysql" or "sqlite"
    SessionsDrop,   \* whether the session that holds the lock may be lost
    InitialDisks,   \* the directories to start from
    MaxCalls,       \* bound on the number of commands
    MaxEdits,       \* bound on the number of edits of the directory
    Nobody          \* the owner of a free lock

ASSUME RunnerAssumption ==
    /\ (Uppers \cup Downers \cup Baseliners \cup Repairers) \subseteq Procs
    /\ Creates \in [Contents -> SUBSET Objects]
    /\ DDL \subseteq Contents
    /\ \A c \in Contents : Creates[c] # {} => c \in DDL
    /\ Dialect \in {"postgres", "mysql", "sqlite"}
    /\ SessionsDrop \in BOOLEAN
    /\ InitialDisks \subseteq Disks
    /\ MaxCalls \in Nat
    /\ MaxEdits \in Nat
    /\ Nobody \notin Procs

VARIABLES
    disk,       \* the migrations directory
    hasTable,   \* whether the history table exists
    history,    \* its committed rows
    net,        \* committed runs of up minus committed runs of down, where
                \* a run that was cut short in MySQL counts as well
    objects,    \* the objects of each migration that are there
    ran,        \* the content whose up section last took effect
    lock,       \* who holds the advisory (named) lock
    pc,         \* the next step of each process
    cmd,        \* the command it runs
    loaded,     \* its copy of the directory, from LoadDir
    plan,       \* the versions it has still to handle
    hit,        \* whether its DELETE found a row
    calls,      \* commands started so far
    edits       \* edits of the directory so far

database == <<hasTable, history, net, objects, ran>>
locals == <<cmd, loaded, plan, hit>>
bounds == <<calls, edits>>
vars == <<disk, database, lock, pc, locals, bounds>>

Commands == {"up", "up-dry", "down", "down-dry", "baseline"}

Steps == {"lock", "table", "load", "check", "exec", "record", "commit",
          "release"}

(* LoadDir returns no directory with an unusable file in it. *)
LoadedDirs == [Versions -> Contents \cup {NoFile}]

TypeOK ==
    /\ disk \in Disks
    /\ hasTable \in BOOLEAN
    /\ history \in Histories
    /\ net \in [Versions -> Int]
    /\ objects \in [Versions -> SUBSET Objects]
    /\ ran \in Histories
    /\ lock \in Procs \cup {Nobody}
    /\ pc \in [Procs -> Steps \cup {"idle"}]
    /\ cmd \in [Procs -> Commands \cup {"none"}]
    /\ loaded \in [Procs -> LoadedDirs]
    /\ plan \in [Procs -> SUBSET Versions]
    /\ hit \in [Procs -> BOOLEAN]
    /\ calls \in 0..MaxCalls
    /\ edits \in 0..MaxEdits

Init ==
    /\ disk \in InitialDisks
    /\ hasTable = FALSE
    /\ history = NoRows
    /\ net = [v \in Versions |-> 0]
    /\ objects = [v \in Versions |-> {}]
    /\ ran = NoRows
    /\ lock = Nobody
    /\ pc = [p \in Procs |-> "idle"]
    /\ cmd = [p \in Procs |-> "none"]
    /\ loaded = [p \in Procs |-> NoFiles]
    /\ plan = [p \in Procs |-> {}]
    /\ hit = [p \in Procs |-> FALSE]
    /\ calls = 0
    /\ edits = 0

-----------------------------------------------------------------------------
(* The down command takes the --dry-run flag and does not look at it. *)
Reverting(p) == cmd[p] \in {"down", "down-dry"}

(* Mutant of Current: the plan is walked from its end. *)
CurrentFromTheEnd(p, v) == v \in plan[p] /\ \A w \in plan[p] : w <= v

(* The migration p is at: the loop over the plan goes in version order. *)
Current(p, v) == v \in plan[p] /\ \A w \in plan[p] : v <= w

(* Mutant of AutoCommits: the SQL and the row go to the pool, not to tx. *)
AutoCommitsAlways(p, v) == cmd[p] # "baseline"

(* MySQL commits the transaction before and after a DDL statement, so the  *)
(* statements of this migration take effect one by one.                    *)
AutoCommits(p, v) ==
    Dialect = "mysql" /\ loaded[p][v] \in DDL /\ cmd[p] # "baseline"

(* The objects that the copy p has of v creates or drops. *)
ObjectsOf(p, v) == Creates[loaded[p][v]]

(* p has sent the SQL of v and has not yet committed it. *)
OpenSQL(p, v) ==
    /\ Current(p, v)
    /\ cmd[p] # "baseline"
    /\ pc[p] \in {"record", "commit"}
    /\ ~AutoCommits(p, v)

(* p has inserted or deleted the row of v and has not yet committed it.    *)
(* In PostgreSQL a DELETE that has found no row leaves nothing to wait     *)
(* for; in MySQL it holds the gap, in SQLite the file.                     *)
OpenRow(p, v) ==
    /\ Current(p, v)
    /\ pc[p] = "commit"
    /\ ~AutoCommits(p, v)
    /\ Dialect = "postgres" /\ Reverting(p) => hit[p]

(* SQLite has one writer at a time. *)
WriterFree(p) ==
    Dialect = "sqlite" =>
        \A q \in Procs \ {p}, v \in Versions : ~OpenSQL(q, v) /\ ~OpenRow(q, v)

(* Creating or dropping an object waits for a transaction that is at it. *)
ObjectFree(p, v) ==
    \A q \in Procs \ {p} :
        OpenSQL(q, v) => ObjectsOf(p, v) \cap ObjectsOf(q, v) = {}

(* A row waits for the transaction that has inserted or deleted it. *)
RowFree(p, v) == \A q \in Procs \ {p} : ~OpenRow(q, v)

(* Mutant of LockFree: each process locks a key of its own. *)
LockAlwaysFree == TRUE

LockFree == lock = Nobody

-----------------------------------------------------------------------------
(* Mutant of End: the lock is not released. *)
EndWithLock(p) ==
    /\ pc' = [pc EXCEPT ![p] = "idle"]
    /\ cmd' = [cmd EXCEPT ![p] = "none"]
    /\ loaded' = [loaded EXCEPT ![p] = NoFiles]
    /\ plan' = [plan EXCEPT ![p] = {}]
    /\ hit' = [hit EXCEPT ![p] = FALSE]
    /\ lock' = lock

(* The command of p is over, its lock released and its session closed. *)
End(p) ==
    /\ pc' = [pc EXCEPT ![p] = "idle"]
    /\ cmd' = [cmd EXCEPT ![p] = "none"]
    /\ loaded' = [loaded EXCEPT ![p] = NoFiles]
    /\ plan' = [plan EXCEPT ![p] = {}]
    /\ hit' = [hit EXCEPT ![p] = FALSE]
    /\ lock' = IF lock = p THEN Nobody ELSE lock

(* ... and what it had not committed is rolled back. *)
Finish(p) == End(p) /\ UNCHANGED <<disk, database, bounds>>

Goto(p, s) == pc' = [pc EXCEPT ![p] = s]

May(p, c) ==
    /\ c \in {"up", "up-dry"} => p \in Uppers
    /\ c \in {"down", "down-dry"} => p \in Downers
    /\ c = "baseline" => p \in Baseliners

(* Mutants of First: up does not lock; up ignores --dry-run at first. *)
FirstUnlocked(c) == IF c = "up" THEN "table" ELSE "load"
FirstOfAnyUp(c) == IF c \in {"up", "up-dry"} THEN "lock" ELSE "load"

First(c) == IF c = "up" THEN "lock" ELSE "load"

(* A process starts command c; baseline names the version it marks. *)
Start(p, c) ==
    /\ pc[p] = "idle"
    /\ May(p, c)
    /\ calls < MaxCalls
    /\ calls' = calls + 1
    /\ Goto(p, First(c))
    /\ cmd' = [cmd EXCEPT ![p] = c]
    /\ IF c = "baseline"
       THEN \E v \in Versions \ {0} : plan' = [plan EXCEPT ![p] = {v}]
       ELSE plan' = plan
    /\ UNCHANGED <<disk, database, lock, loaded, hit, edits>>

(* AcquireUpLock: a session lock in PostgreSQL and MySQL, none in SQLite. *)
AcquireUpLock(p) ==
    /\ pc[p] = "lock"
    /\ Dialect # "sqlite" => LockFree
    /\ lock' = IF Dialect = "sqlite" THEN lock ELSE p
    /\ Goto(p, "table")
    /\ UNCHANGED <<disk, database, locals, bounds>>

(* GET_LOCK gives up after 30 seconds. *)
LockTimeout(p) ==
    /\ pc[p] = "lock"
    /\ Dialect = "mysql"
    /\ ~LockFree
    /\ Finish(p)

(* The server drops the session of the lock.  The runner works on other    *)
(* connections of the pool and never notices.                              *)
LoseSession ==
    /\ SessionsDrop
    /\ lock # Nobody
    /\ lock' = Nobody
    /\ UNCHANGED <<disk, database, pc, locals, bounds>>

(* CREATE TABLE IF NOT EXISTS, in a transaction of its own. *)
CreateHistoryTable(p) ==
    /\ pc[p] = "table"
    /\ hasTable \/ WriterFree(p)
    /\ hasTable' = TRUE
    /\ Goto(p, IF cmd[p] = "up" THEN "load" ELSE "check")
    /\ UNCHANGED <<disk, history, net, objects, ran, lock, locals, bounds>>

(* LoadDir, and the search of baseline for the file of its version. *)
LoadDir(p) ==
    /\ pc[p] = "load"
    /\ Loads(disk)
    /\ cmd[p] = "baseline" => plan[p] \subseteq Files(disk)
    /\ loaded' = [loaded EXCEPT ![p] = disk]
    /\ Goto(p, IF cmd[p] = "baseline" THEN "table" ELSE "check")
    /\ UNCHANGED <<disk, database, lock, cmd, plan, hit, bounds>>

LoadDirFails(p) ==
    /\ pc[p] = "load"
    /\ \/ ~Loads(disk)
       \/ cmd[p] = "baseline" /\ ~(plan[p] \subseteq Files(disk))
    /\ Finish(p)

-----------------------------------------------------------------------------
(* Each check reads the history table once and plans from what it sees. *)

CheckUp(p) ==
    /\ pc[p] = "check"
    /\ cmd[p] = "up"
    /\ UpAccepts(loaded[p], history)
    /\ plan' = [plan EXCEPT ![p] = PlanUp(loaded[p], history)]
    /\ Goto(p, IF PlanUp(loaded[p], history) = {} THEN "release" ELSE "exec")
    /\ UNCHANGED <<disk, database, lock, cmd, loaded, hit, bounds>>

RefuseUp(p) ==
    /\ pc[p] = "check"
    /\ cmd[p] = "up"
    /\ ~UpAccepts(loaded[p], history)
    /\ Finish(p)

(* up --dry-run prints PlanUp and stops. *)
ShowPlan(p) ==
    /\ pc[p] = "check"
    /\ cmd[p] = "up-dry"
    /\ Finish(p)

CheckDown(p) ==
    /\ pc[p] = "check"
    /\ Reverting(p)
    /\ \E v \in Versions :
        /\ IsLast(history, v)
        /\ Revertible(loaded[p], v)
        /\ plan' = [plan EXCEPT ![p] = {v}]
    /\ Goto(p, "exec")
    /\ UNCHANGED <<disk, database, lock, cmd, loaded, hit, bounds>>

(* Nothing is applied, or the last migration has no file or no down part. *)
RefuseDown(p) ==
    /\ pc[p] = "check"
    /\ Reverting(p)
    /\ \A v \in Versions : IsLast(history, v) => ~Revertible(loaded[p], v)
    /\ Finish(p)

CheckBaseline(p) ==
    /\ pc[p] = "check"
    /\ cmd[p] = "baseline"
    /\ \A v \in plan[p], w \in Recorded(history) : w < v
    /\ Goto(p, "record")
    /\ UNCHANGED <<disk, database, lock, locals, bounds>>

(* The version is already marked, or a later one is. *)
RefuseBaseline(p) ==
    /\ pc[p] = "check"
    /\ cmd[p] = "baseline"
    /\ \E v \in plan[p], w \in Recorded(history) : v <= w
    /\ Finish(p)

-----------------------------------------------------------------------------
(* Mutant of Rejected: Down goes on after an error of its SQL. *)
RejectedIgnoredByDown(p, v) ==
    ~Reverting(p) /\ ObjectsOf(p, v) \cap objects[v] # {}

(* An object cannot be created twice, nor dropped when it is gone. *)
Rejected(p, v) ==
    IF Reverting(p) THEN ~(ObjectsOf(p, v) \subseteq objects[v])
    ELSE ObjectsOf(p, v) \cap objects[v] # {}

(* The SQL of p takes effect, on the objects of made. *)
TakesEffect(p, v, made) ==
    IF Reverting(p)
    THEN /\ net' = [net EXCEPT ![v] = @ - 1]
         /\ objects' = [objects EXCEPT ![v] = @ \ made]
         /\ ran' = ran
    ELSE /\ net' = [net EXCEPT ![v] = @ + 1]
         /\ objects' = [objects EXCEPT ![v] = @ \cup made]
         /\ ran' = [ran EXCEPT ![v] = loaded[p][v]]

ApplySQL(p, v) == TakesEffect(p, v, ObjectsOf(p, v))

(* What UpSQL or DownSQL does at once; the rest waits for the commit. *)
Exec(p, v) ==
    /\ pc[p] = "exec"
    /\ Current(p, v)
    /\ WriterFree(p) /\ ObjectFree(p, v)
    /\ ~Rejected(p, v)
    /\ Goto(p, "record")
    /\ IF AutoCommits(p, v) THEN ApplySQL(p, v)
       ELSE UNCHANGED <<net, objects, ran>>
    /\ UNCHANGED <<disk, hasTable, history, lock, locals, bounds>>

(* A statement of the section fails, or the process is killed, after MySQL *)
(* has committed some of those before it: rows inserted in front of a      *)
(* CREATE TABLE, the first of two tables.                                  *)
ExecCut(p, v) ==
    /\ pc[p] = "exec"
    /\ Current(p, v)
    /\ AutoCommits(p, v)
    /\ \E made \in SUBSET ObjectsOf(p, v) : TakesEffect(p, v, made)
    /\ End(p)
    /\ UNCHANGED <<disk, hasTable, history, bounds>>

(* Mutant of ExecRejected: up skips the migration and goes on. *)
ExecSkipped(p, v) ==
    /\ pc[p] = "exec"
    /\ Current(p, v)
    /\ WriterFree(p) /\ ObjectFree(p, v)
    /\ Rejected(p, v)
    /\ plan' = [plan EXCEPT ![p] = @ \ {v}]
    /\ Goto(p, IF plan[p] = {v} THEN "release" ELSE "exec")
    /\ UNCHANGED <<disk, database, lock, cmd, loaded, hit, bounds>>

ExecRejected(p, v) ==
    /\ pc[p] = "exec"
    /\ Current(p, v)
    /\ WriterFree(p) /\ ObjectFree(p, v)
    /\ Rejected(p, v)
    /\ Finish(p)

(* Mutant of Insert: INSERT OR REPLACE. *)
InsertOrReplace(p, v) ==
    /\ pc[p] = "record"
    /\ ~Reverting(p)
    /\ Current(p, v)
    /\ WriterFree(p) /\ RowFree(p, v)
    /\ Goto(p, "commit")
    /\ history' = IF AutoCommits(p, v)
                  THEN [history EXCEPT ![v] = loaded[p][v]]
                  ELSE history
    /\ UNCHANGED <<disk, hasTable, net, objects, ran, lock, locals, bounds>>

(* InsertMigration; baseline begins its transaction here. *)
Insert(p, v) ==
    /\ pc[p] = "record"
    /\ ~Reverting(p)
    /\ Current(p, v)
    /\ WriterFree(p) /\ RowFree(p, v)
    /\ hasTable /\ history[v] = NoRow
    /\ Goto(p, "commit")
    /\ history' = IF AutoCommits(p, v)
                  THEN [history EXCEPT ![v] = loaded[p][v]]
                  ELSE history
    /\ UNCHANGED <<disk, hasTable, net, objects, ran, lock, locals, bounds>>

(* The version is the primary key of the history table. *)
InsertDuplicate(p, v) ==
    /\ pc[p] = "record"
    /\ ~Reverting(p)
    /\ Current(p, v)
    /\ WriterFree(p) /\ RowFree(p, v)
    /\ history[v] # NoRow
    /\ Finish(p)

(* DeleteMigration.  A DELETE that matches no row is not an error.  In     *)
(* PostgreSQL it does not see, nor wait for, an uncommitted new row.       *)
Delete(p, v) ==
    /\ pc[p] = "record"
    /\ Reverting(p)
    /\ Current(p, v)
    /\ RowFree(p, v) \/ (Dialect = "postgres" /\ history[v] = NoRow)
    /\ Goto(p, "commit")
    /\ hit' = [hit EXCEPT ![p] = history[v] # NoRow]
    /\ history' = IF AutoCommits(p, v)
                  THEN [history EXCEPT ![v] = NoRow]
                  ELSE history
    /\ UNCHANGED <<disk, hasTable, net, objects, ran, lock, cmd, loaded, plan,
                   bounds>>

(* Mutants of CommitUp: the file is read again for its checksum; the loop  *)
(* stops after one migration.                                              *)
CommitUpRereading(p, v) ==
    /\ pc[p] = "commit"
    /\ cmd[p] = "up"
    /\ Current(p, v)
    /\ IF AutoCommits(p, v)
       THEN UNCHANGED <<history, net, objects, ran>>
       ELSE /\ history' = [history EXCEPT ![v] = disk[v]]
            /\ ApplySQL(p, v)
    /\ plan' = [plan EXCEPT ![p] = @ \ {v}]
    /\ Goto(p, IF plan[p] = {v} THEN "release" ELSE "exec")
    /\ UNCHANGED <<disk, hasTable, lock, cmd, loaded, hit, bounds>>

CommitUpOnce(p, v) ==
    /\ pc[p] = "commit"
    /\ cmd[p] = "up"
    /\ Current(p, v)
    /\ IF AutoCommits(p, v)
       THEN UNCHANGED <<history, net, objects, ran>>
       ELSE /\ history' = [history EXCEPT ![v] = loaded[p][v]]
            /\ ApplySQL(p, v)
    /\ plan' = [plan EXCEPT ![p] = @ \ {v}]
    /\ Goto(p, "release")
    /\ UNCHANGED <<disk, hasTable, lock, cmd, loaded, hit, bounds>>

(* The end of applyMigration; the loop goes on with the next version. *)
CommitUp(p, v) ==
    /\ pc[p] = "commit"
    /\ cmd[p] = "up"
    /\ Current(p, v)
    /\ IF AutoCommits(p, v)
       THEN UNCHANGED <<history, net, objects, ran>>
       ELSE /\ history' = [history EXCEPT ![v] = loaded[p][v]]
            /\ ApplySQL(p, v)
    /\ plan' = [plan EXCEPT ![p] = @ \ {v}]
    /\ Goto(p, IF plan[p] = {v} THEN "release" ELSE "exec")
    /\ UNCHANGED <<disk, hasTable, lock, cmd, loaded, hit, bounds>>

CommitDown(p, v) ==
    /\ pc[p] = "commit"
    /\ Reverting(p)
    /\ Current(p, v)
    /\ IF AutoCommits(p, v)
       THEN UNCHANGED <<history, net, objects, ran>>
       ELSE /\ history' = IF hit[p] THEN [history EXCEPT ![v] = NoRow]
                          ELSE history
            /\ ApplySQL(p, v)
    /\ End(p)
    /\ UNCHANGED <<disk, hasTable, bounds>>

CommitBaseline(p, v) ==
    /\ pc[p] = "commit"
    /\ cmd[p] = "baseline"
    /\ Current(p, v)
    /\ history' = [history EXCEPT ![v] = loaded[p][v]]
    /\ End(p)
    /\ UNCHANGED <<disk, hasTable, net, objects, ran, bounds>>

(* The deferred releaseLock after the last migration. *)
Release(p) ==
    /\ pc[p] = "release"
    /\ Finish(p)

(* Any statement may fail and the process may be killed at any step: the   *)
(* command ends, the server rolls back and frees the lock.  A commit whose *)
(* answer is lost is a commit followed by this step.                       *)
Fails(p) ==
    /\ pc[p] # "idle"
    /\ Finish(p)

(* repair v c: one UPDATE, committed at once.  It is written with ? for    *)
(* every dialect, which PostgreSQL refuses as a syntax error; and an       *)
(* UPDATE that matches no row is reported as a success.                    *)
Repair(p, v, c) ==
    /\ pc[p] = "idle"
    /\ p \in Repairers
    /\ calls < MaxCalls
    /\ calls' = calls + 1
    /\ WriterFree(p) /\ RowFree(p, v)
    /\ history' = IF Dialect # "postgres" /\ history[v] # NoRow
                  THEN [history EXCEPT ![v] = c]
                  ELSE history
    /\ UNCHANGED <<disk, hasTable, net, objects, ran, lock, pc, locals, edits>>

(* A developer writes, breaks or deletes the file of a version. *)
DevWrites(v, c) ==
    /\ edits < MaxEdits
    /\ edits' = edits + 1
    /\ disk[v] # c
    /\ disk' = [disk EXCEPT ![v] = c]
    /\ UNCHANGED <<database, lock, pc, locals, calls>>

(* Every command has ended and no other will be started. *)
Quiescent ==
    /\ calls = MaxCalls
    /\ \A p \in Procs : pc[p] = "idle"
    /\ UNCHANGED vars

-----------------------------------------------------------------------------
UpStep(p) ==
    \/ AcquireUpLock(p)
    \/ LockTimeout(p)
    \/ CheckUp(p)
    \/ RefuseUp(p)
    \/ ShowPlan(p)
    \/ Release(p)
    \/ \E v \in Versions : CommitUp(p, v)

DownStep(p) ==
    \/ CheckDown(p)
    \/ RefuseDown(p)
    \/ \E v \in Versions : Delete(p, v) \/ CommitDown(p, v)

BaselineStep(p) ==
    \/ CheckBaseline(p)
    \/ RefuseBaseline(p)
    \/ \E v \in Versions : CommitBaseline(p, v)

(* Steps several commands have in common. *)
SharedStep(p) ==
    \/ CreateHistoryTable(p)
    \/ LoadDir(p)
    \/ LoadDirFails(p)
    \/ \E v \in Versions :
        \/ Exec(p, v)
        \/ ExecCut(p, v)
        \/ ExecRejected(p, v)
        \/ Insert(p, v)
        \/ InsertDuplicate(p, v)

Step(p) == UpStep(p) \/ DownStep(p) \/ BaselineStep(p) \/ SharedStep(p)

Environment ==
    \/ LoseSession
    \/ \E v \in Versions, c \in Contents \cup {NoFile, Broken} : DevWrites(v, c)

Next ==
    \/ \E p \in Procs :
        \/ \E c \in Commands : Start(p, c)
        \/ Step(p)
        \/ Fails(p)
        \/ \E v \in Versions, c \in Contents : Repair(p, v, c)
    \/ Environment
    \/ Quiescent

Spec == Init /\ [][Next]_vars

(* A statement that is sent is answered sooner or later, and PostgreSQL    *)
(* serves the waiters for an advisory lock in the order of their arrival.  *)
Fairness ==
    \A p \in Procs : WF_vars(Step(p)) /\ SF_vars(AcquireUpLock(p))

FairSpec == Spec /\ Fairness

-----------------------------------------------------------------------------
IsRecorded(v) == history[v] # NoRow

(* The history has no holes: below a recorded version every version is     *)
(* recorded, whatever number of ups run, fail or lose their lock, and with *)
(* or without a lock (runner.go:102-119).                                  *)
HistoryPrefix ==
    \A v \in Recorded(history) : \A w \in Versions :
        0 < w /\ w < v => w \in Recorded(history)

(* A migration has taken effect once if it is recorded and not at all if   *)
(* it is not: its SQL and its row are committed together (runner.go:326-   *)
(* 345), and no race, crash or lost lock runs it twice.                    *)
SchemaMatchesHistory ==
    \A v \in Versions : net[v] = IF IsRecorded(v) THEN 1 ELSE 0

(* Only one up at a time is past AcquireUpLock (db.go:16-18). *)
LockExclusive ==
    \A p, q \in Procs :
        /\ cmd[p] = "up" /\ pc[p] # "lock"
        /\ cmd[q] = "up" /\ pc[q] # "lock"
        => p = q

(* What up has planned from GetApplied is still unrecorded when it comes   *)
(* to run it, however long that takes: the lock keeps the plan from going  *)
(* stale (runner.go:65, 102-119).                                          *)
PlanIsFresh ==
    \A p \in Procs :
        cmd[p] = "up" /\ pc[p] = "exec" =>
            \A v \in plan[p] : ~IsRecorded(v)

(* The checksum in a row is that of the content whose SQL was run, though  *)
(* the file may have changed in between (migration.go:37-52,               *)
(* runner.go:332-339).                                                     *)
RecordedIsWhatRan ==
    \A v \in Recorded(history) : history[v] = ran[v]

(* An up that comes to its end has recorded every file it loaded, with the *)
(* content it loaded (runner.go:113-121).                                  *)
UpComplete ==
    \A p \in Procs :
        pc[p] = "release" =>
            \A v \in Files(loaded[p]) : history[v] = loaded[p][v]

(* MySQL commits DDL by itself, so there an up that dies may leave a       *)
(* migration run, or half run, and not recorded, and the next up may run   *)
(* it again, from a file that has been edited (runner.go:332-336).  It can *)
(* only be the one after the last recorded one; a recorded migration has   *)
(* always been run; and in PostgreSQL and SQLite there is nothing of this: *)
(* a migration that is not recorded has not been run, one that is recorded *)
(* has been run once.                                                      *)
OrphanIsNext ==
    \A v \in Versions :
        /\ IsRecorded(v) => net[v] >= 1 /\ (Dialect # "mysql" => net[v] = 1)
        /\ ~IsRecorded(v) /\ net[v] # 0 =>
               Dialect = "mysql" /\ 0 < v /\ net[v] >= 1
               /\ \A w \in Versions : IsRecorded(w) <=> (0 < w /\ w < v)

(* When validate reports no error, up on the same directory and the same   *)
(* history is not refused (runner.go:75-111 and 260-313 are two separate   *)
(* sets of checks; docs/real-world-testing.md:71).                         *)
CleanValidateMeansUpRuns ==
    Loads(disk) /\ ~HasValidationErrors(Validate(disk, history))
        => UpAccepts(disk, history)

(* status, which takes no lock and reads the directory before the history, *)
(* shows every row, and from 1 on nothing pending below something applied, *)
(* whatever has been run or edited between the two reads (runner.go:206-   *)
(* 258).                                                                   *)
StatusShowsHistory ==
    \A p \in Procs :
        pc[p] = "check" =>
            LET shown == Status(loaded[p], history)
                applied == {i.version : i \in {j \in shown :
                                                 j.state = "applied"}}
            IN  /\ applied = Recorded(history)
                /\ \A i \in shown, v \in applied :
                       i.state = "pending" /\ 0 < i.version
                           => v < i.version

(* No migration runs on top of a run of its own: with baselines that write *)
(* rows without the lock and downs that delete them, the schema is never   *)
(* ahead of the history (cmd/baseline.go:87-105, runner.go:326-345).  This *)
(* is so where SQL and row are committed together, not in MySQL.           *)
NeverTwice == \A v \in Versions : net[v] <= IF IsRecorded(v) THEN 1 ELSE 0

(* A down that commits has removed a row (DeleteMigration does not look at *)
(* the number of rows): of two downs that revert the same migration, the   *)
(* second fails before it gets there (runner.go:172-200).                  *)
DownRemovesItsRow ==
    \A p \in Procs : Reverting(p) /\ pc[p] = "commit" => hit[p]

(* down deletes the row of the highest applied version and no other        *)
(* (README.md:47, cmd/down.go:9).                                          *)
DownRevertsTheLast ==
    [][\A v \in Versions :
        history[v] # NoRow /\ history'[v] = NoRow =>
            \A w \in Recorded(history) : w <= v]_vars

(* A command with --dry-run leaves the database alone (ROADMAP.md:39-43). *)
DryRunChangesNothing ==
    [][\A p \in Procs :
        cmd[p] \in {"up-dry", "down-dry"} /\ pc'[p] # pc[p]
            => UNCHANGED database]_vars

(* An up whose files match every recorded row, with no gap between the     *)
(* files, is not refused; it goes on with the higher versions, as baseline *)
(* promises (cmd/baseline.go:106-107).                                     *)
MatchingHistoryIsAccepted ==
    [][\A p \in Procs :
        RefuseUp(p) =>
            \/ Missing(loaded[p], history) # {}
            \/ Mismatched(loaded[p], history) # {}
            \/ ~ValidateSequence(loaded[p])]_vars

(* After repair v c the row of v, if there is one, holds the checksum c    *)
(* (cmd/repair.go:13, progress/progress.md:48).                            *)
RepairFixesChecksum ==
    [][\A p \in Procs, v \in Versions, c \in Contents :
        Repair(p, v, c) /\ history[v] # NoRow => history'[v] = c]_vars

(* Every command comes to an end: no waiter for the lock is forgotten and  *)
(* no two transactions wait for each other.                                *)
Terminates ==
    \A p \in Procs : pc[p] # "idle" ~> pc[p] = "idle"

(* The history table and the schema move together, one version at a time. *)
Log == INSTANCE MigrationLog
         WITH applied <- Recorded(history), schema <- net

ImplementsLog == Log!Spec

(* In MySQL too the history moves one version at a time, but a migration   *)
(* of DDL takes two steps or more: it is run, perhaps more than once, and  *)
(* then recorded, and until then no other is run.  One that is recorded is *)
(* run again only by an up that has lost its lock (runner.go:332-345).     *)
SlowLog == INSTANCE TwoStepLog
             WITH applied <- Recorded(history), schema <- net,
                  Again <- SessionsDrop

ImplementsTwoStepLog == SlowLog!TwoStepSpec

=============================================================================
