----------------------------- MODULE RunnerInv -----------------------------
(***************************************************************************)
(* The inductive invariants of Runner: what has to be remembered about a   *)
(* process between two of its steps for the properties of Runner to be     *)
(* preserved by every step.  Each layer uses the ones above it.            *)
(***************************************************************************)
EXTENDS Runner

(* What the step and the command of a process say about its plan.  TypeOK  *)
(* needs it: a row gets the content the process has loaded for a version   *)
(* of its plan, which must be that of a file.                              *)
PlanOK(p) ==
    /\ pc[p] = "idle" => cmd[p] = "none"
    /\ /\ pc[p] \in {"idle", "lock", "table", "load", "check"}
       /\ cmd[p] # "baseline"
       => plan[p] = {}
    /\ pc[p] \notin {"idle", "load"} /\ (cmd[p] = "baseline" \/ pc[p] # "lock")
       => plan[p] \subseteq Files(loaded[p])

TypeInv == TypeOK /\ \A p \in Procs : PlanOK(p)

(* Who can run which command, and how far it goes. *)
ControlOK(p) ==
    /\ cmd[p] = "none" => pc[p] = "idle"
    /\ cmd[p] = "up-dry" => pc[p] \in {"load", "check"}
    /\ Reverting(p) => p \in Downers
    /\ cmd[p] = "baseline" => p \in Baseliners

ControlInv == TypeInv /\ \A p \in Procs : ControlOK(p)

(* An up that is past AcquireUpLock owns the lock. *)
LockHeld ==
    \A p \in Procs : cmd[p] = "up" /\ pc[p] # "lock" => lock = p

(* No planned version is recorded, but for the row that an up in MySQL has *)
(* inserted and that took effect at once.                                  *)
PlanUnrecorded ==
    \A p \in Procs : cmd[p] = "up" =>
        \A v \in plan[p] :
            IsRecorded(v) => pc[p] = "commit" /\ AutoCommits(p, v)
                             /\ Current(p, v)

(* A plan starts where the history ends and has no gap: every version      *)
(* below a planned one is planned as well or recorded.  The plan was made  *)
(* from an old history; it stays true because rows are only added          *)
(* (runner.go:102-119).                                                    *)
PlanClosed ==
    \A p \in Procs : cmd[p] = "up" =>
        \A v \in plan[p] :
            /\ 0 < v
            /\ \A w \in Versions :
                0 < w /\ w < v => w \in plan[p] \/ IsRecorded(w)

(* The row of an up in MySQL is in effect before its Commit. *)
RowInEffect ==
    \A p \in Procs, v \in Versions :
        cmd[p] = "up" /\ pc[p] = "commit" /\ Current(p, v) /\ AutoCommits(p, v)
            => IsRecorded(v)

PositiveRows == \A v \in Recorded(history) : 0 < v

(* A row waiting for its commit is new, and no other transaction has the   *)
(* same one: whoever planned the same migration has failed or will fail on *)
(* the primary key of the history table (runner.go:336-345).               *)
RowsClaimedOnce ==
    \A p \in Procs, v \in Versions :
        OpenRow(p, v) =>
            /\ ~IsRecorded(v)
            /\ \A q \in Procs \ {p} : ~OpenRow(q, v)

(* Of the transactions with the row of v open, one at most has inserted    *)
(* it, and then v is not recorded: a baseline, which has no lock, and an   *)
(* up cannot both go on.                                                   *)
RowsAddedOnce ==
    \A p \in Procs, v \in Versions :
        OpenRow(p, v) /\ ~Reverting(p) =>
            /\ ~IsRecorded(v)
            /\ \A q \in Procs \ {p} : OpenRow(q, v) => Reverting(q)

NeverTwiceInv == TypeInv /\ RowsAddedOnce /\ NeverTwice

(* What an up has taken off its plan, or never planned, is recorded with   *)
(* the content it has loaded.                                              *)
HandledIsRecorded ==
    \A p \in Procs :
        cmd[p] = "up" /\ pc[p] \in {"exec", "record", "commit", "release"} =>
            \A v \in Files(loaded[p]) \ plan[p] : history[v] = loaded[p][v]

(* Only an up with nothing left is at its end. *)
NothingLeft == \A p \in Procs : pc[p] = "release" => cmd[p] = "up" /\ plan[p] = {}

(* The row that an up in MySQL has committed early is its own. *)
RowIsItsOwn ==
    \A p \in Procs, v \in Versions :
        cmd[p] = "up" /\ pc[p] = "commit" /\ Current(p, v) /\ AutoCommits(p, v)
            => history[v] = loaded[p][v]

(* An up in MySQL has run the DDL of v, which has taken effect, and comes  *)
(* to record it.                                                           *)
Executed(p, v) ==
    /\ cmd[p] = "up" /\ pc[p] = "record"
    /\ Current(p, v)
    /\ AutoCommits(p, v)

(* So it has been run, whoever did it last.                                *)
ExecutedIsInEffect ==
    \A p \in Procs, v \in Versions : Executed(p, v) => net[v] >= 1

(* Under the lock it is this up that did it last.                          *)
ExecutedLast ==
    \A p \in Procs, v \in Versions :
        Executed(p, v) => ran[v] = loaded[p][v]

(* A transaction that creates or drops an object has found it as it should *)
(* be, and until it ends nobody else gets at the object.                   *)
ObjectsClaimedOnce ==
    \A p \in Procs, v \in Versions :
        OpenSQL(p, v) =>
            /\ ~Rejected(p, v)
            /\ \A q \in Procs \ {p} :
                OpenSQL(q, v) => ObjectsOf(p, v) \cap ObjectsOf(q, v) = {}

(* The objects of a migration are there exactly when it is recorded, and   *)
(* they are those of the text that was run.                                *)
ObjectsFollowRows ==
    \A v \in Versions :
        /\ net[v] = IF IsRecorded(v) THEN 1 ELSE 0
        /\ objects[v] = IF IsRecorded(v) THEN Creates[ran[v]] ELSE {}
        /\ IsRecorded(v) => ran[v] \in Contents

(* A down works on the last row, and finds it.  MySQL may have deleted the *)
(* row before the commit.                                                  *)
RevertsLast ==
    \A p \in Procs : Reverting(p) /\ pc[p] \in {"exec", "record", "commit"} =>
        /\ \A v \in plan[p] :
            IsLast(history, v) \/ (pc[p] = "commit" /\ AutoCommits(p, v))
        /\ pc[p] = "commit" => hit[p]

PrefixInv ==
    ControlInv /\ HistoryPrefix /\ PositiveRows /\ PlanClosed /\ RowInEffect

SchemaInv == PrefixInv /\ RowsClaimedOnce /\ SchemaMatchesHistory

(* For ups in every dialect. *)
OrphanInv ==
    PrefixInv /\ RowsClaimedOnce /\ ExecutedIsInEffect /\ OrphanIsNext

(* In addition, for ups in MySQL that keep their lock. *)
WhileLocked ==
    Dialect = "mysql" /\ ~SessionsDrop =>
        LockHeld /\ PlanUnrecorded /\ ExecutedLast

LockedInv == OrphanInv /\ WhileLocked

CompleteInv ==
    PrefixInv /\ RowsClaimedOnce /\ RowIsItsOwn /\ HandledIsRecorded /\ NothingLeft

(* For ups, downs and repairs in PostgreSQL and SQLite. *)
DownRaceInv ==
    /\ ControlInv
    /\ RowsAddedOnce /\ DownRemovesItsRow
    /\ ObjectsClaimedOnce /\ ObjectsFollowRows

(* For ups, downs and repairs that do not overlap. *)
OperatorInv == PrefixInv /\ PlanUnrecorded /\ RevertsLast

=============================================================================
