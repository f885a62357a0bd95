---------------------------- MODULE OrphanProofs ----------------------------
(***************************************************************************)
(* Theorems about ups in every dialect, MySQL with its implicit commits    *)
(* included: what a migration can leave behind when its SQL and its row    *)
(* take effect in two steps.                                               *)
(***************************************************************************)
EXTENDS RunnerProofs

(* The four things a step can do to the schema and the history: nothing    *)
(* but a repair, ...                                                       *)
Keeps ==
    /\ UNCHANGED <<net, ran>>
    /\ \A v \in Versions : IsRecorded(v)' <=> IsRecorded(v)
    /\ NoRepairs => history' = history

(* ... run a migration whose SQL commits itself, all of it or a part, ... *)
RunsAlone(p, u) ==
    /\ cmd[p] = "up" /\ pc[p] = "exec"
    /\ Current(p, u) /\ AutoCommits(p, u)
    /\ net' = [net EXCEPT ![u] = @ + 1]
    /\ ran' = [ran EXCEPT ![u] = loaded[p][u]]
    /\ history' = history

(* ... record what has been run so, ... *)
RecordsAlone(p, u) ==
    /\ Executed(p, u) /\ ~IsRecorded(u)
    /\ loaded[p][u] # NoRow
    /\ history' = [history EXCEPT ![u] = loaded[p][u]]
    /\ UNCHANGED <<net, ran>>

(* ... or commit both together. *)
AppliesWhole(p, u) ==
    /\ cmd[p] = "up" /\ Current(p, u) /\ ~AutoCommits(p, u) /\ ~IsRecorded(u)
    /\ loaded[p][u] # NoRow
    /\ history' = [history EXCEPT ![u] = loaded[p][u]]
    /\ net' = [net EXCEPT ![u] = @ + 1]
    /\ ran' = [ran EXCEPT ![u] = loaded[p][u]]

LEMMA StepEffects ==
  ASSUME UpOnly, PrefixInv, RowsClaimedOnce, [Next]_vars
  PROVE  \/ Keeps
         \/ \E p \in Procs, u \in Versions :
              RunsAlone(p, u) \/ RecordsAlone(p, u) \/ AppliesWhole(p, u)
<1>1. UpOnlyKinds
  BY UpOnlyNextKinds DEF PrefixInv
<1> USE DEF PrefixInv, ControlInv, TypeInv, TypeOK
<1>2. ASSUME NEW p \in Procs, NEW u \in Versions, cmd[p] = "up", Exec(p, u)
      PROVE  Keeps \/ RunsAlone(p, u)
  <2>1. CASE AutoCommits(p, u)
    BY <1>2, <2>1 DEF Exec, ApplySQL, TakesEffect, Reverting, RunsAlone
  <2>2. CASE ~AutoCommits(p, u)
    BY <1>2, <2>2 DEF Exec, Keeps, IsRecorded
  <2> QED
    BY <2>1, <2>2
<1>3. ASSUME NEW p \in Procs, NEW u \in Versions, cmd[p] = "up", Insert(p, u)
      PROVE  Keeps \/ RecordsAlone(p, u)
  <2>1. CASE AutoCommits(p, u)
    <3>1. u \in plan[p] /\ pc[p] = "record"
      BY <1>3 DEF Insert, Current
    <3>2. loaded[p][u] # NoRow
      BY <3>1, PlannedIsLoaded
    <3> QED
      BY <1>3, <2>1, <3>2 DEF Insert, RecordsAlone, Executed, IsRecorded
  <2>2. CASE ~AutoCommits(p, u)
    BY <1>3, <2>2 DEF Insert, Keeps, IsRecorded
  <2> QED
    BY <2>1, <2>2
<1>4. ASSUME NEW p \in Procs, NEW u \in Versions, CommitUp(p, u)
      PROVE  Keeps \/ AppliesWhole(p, u)
  <2>1. CASE AutoCommits(p, u)
    BY <1>4, <2>1 DEF CommitUp, Keeps, IsRecorded
  <2>2. CASE ~AutoCommits(p, u)
    <3>1. u \in plan[p] /\ pc[p] = "commit" /\ OpenRow(p, u)
      BY <1>4, <2>2 DEF CommitUp, Current, OpenRow, Reverting
    <3>2. loaded[p][u] # NoRow /\ ~IsRecorded(u)
      BY <3>1, PlannedIsLoaded DEF RowsClaimedOnce
    <3> QED
      BY <1>4, <2>2, <3>2
      DEF CommitUp, ApplySQL, TakesEffect, Reverting, AppliesWhole
  <2> QED
    BY <2>1, <2>2
<1>5. ASSUME NEW p \in Procs, NEW v \in Versions, NEW c \in Contents,
             Repair(p, v, c)
      PROVE  Keeps
  BY <1>5, MigrationAssumption
  DEF Repair, Keeps, NoRepairs, Histories, IsRecorded
<1>6. CASE UNCHANGED <<net, ran, history>>
  BY <1>6 DEF Keeps, IsRecorded
<1>7. ASSUME NEW p \in Procs, NEW u \in Versions, cmd[p] = "up", ExecCut(p, u)
      PROVE  RunsAlone(p, u)
  BY <1>7 DEF ExecCut, TakesEffect, Reverting, RunsAlone
<1> QED
  BY <1>1, <1>2, <1>3, <1>4, <1>5, <1>6, <1>7
  DEF UpOnlyKinds, Finish, Start, AcquireUpLock, CreateHistoryTable, LoadDir,
      CheckUp, LoseSession, DevWrites, vars, database

-----------------------------------------------------------------------------
(* Without down, what has been run stays in effect. *)
LEMMA RunsAddUp ==
  ASSUME UpOnly, OrphanInv, [Next]_vars
  PROVE  \A v \in Versions : 0 <= net[v] /\ net[v] <= net'[v]
<1> USE DEF OrphanInv, PrefixInv, ControlInv, TypeInv, TypeOK
<1>1. \A v \in Versions : net[v] \in Int /\ 0 <= net[v]
  BY DEF OrphanIsNext
<1>2. CASE Keeps
  BY <1>1, <1>2 DEF Keeps
<1>3. ASSUME NEW p \in Procs, NEW u \in Versions,
             RunsAlone(p, u) \/ RecordsAlone(p, u) \/ AppliesWhole(p, u)
      PROVE  \A v \in Versions : net[v] <= net'[v]
  BY <1>1, <1>3 DEF RunsAlone, RecordsAlone, AppliesWhole
<1> QED
  BY <1>1, <1>2, <1>3, StepEffects

(* A process comes to record what MySQL has committed only by running it. *)
LEMMA ExecutedByExec ==
  ASSUME UpOnly, ControlInv, [Next]_vars,
         NEW q \in Procs, NEW u \in Versions, Executed(q, u)'
  PROVE  \/ Exec(q, u) /\ AutoCommits(q, u) /\ cmd[q] = "up"
            /\ loaded' = loaded
         \/ Executed(q, u) /\ loaded'[q] = loaded[q]
<1> DEFINE Goal == \/ Exec(q, u) /\ AutoCommits(q, u) /\ cmd[q] = "up"
                      /\ loaded' = loaded
                   \/ Executed(q, u) /\ loaded'[q] = loaded[q]
<1>1. UpOnlyKinds
  BY UpOnlyNextKinds
<1> USE DEF ControlInv, TypeInv, TypeOK
<1>2. ASSUME NEW p \in Procs, NEW v \in Versions, cmd[p] = "up", Exec(p, v)
      PROVE  Goal
  <2>1. CASE q = p
    <3>1. Current(p, u) /\ AutoCommits(p, u) /\ loaded' = loaded
      BY <1>2, <2>1 DEF Exec, locals, Executed, Current, AutoCommits
    <3>2. u = v
      BY <1>2, <3>1, MigrationAssumption DEF Exec, Current
    <3> QED
      BY <1>2, <2>1, <3>1, <3>2
  <2>2. CASE q # p
    BY <1>2, <2>2 DEF Exec, Goto, locals, Executed, Current, AutoCommits
  <2> QED
    BY <2>1, <2>2
<1>3. ASSUME NEW p \in Procs, NEW v \in Versions,
             (cmd[p] = "up" /\ Insert(p, v)) \/ CommitUp(p, v)
      PROVE  Goal
  BY <1>3 DEF Insert, CommitUp, Goto, locals, Executed, Current, AutoCommits
<1>4. ASSUME NEW p \in Procs, End(p) PROVE Goal
  BY <1>4 DEF End, Executed, Current, AutoCommits
<1>5. ASSUME NEW p \in Procs, NEW c \in {"up", "up-dry"}, Start(p, c)
      PROVE  Goal
  BY <1>5 DEF Start, Goto, First, Executed, Current, AutoCommits
<1>6. ASSUME NEW p \in Procs,
             AcquireUpLock(p) \/ CreateHistoryTable(p) \/ LoadDir(p)
               \/ CheckUp(p)
      PROVE  Goal
  BY <1>6 DEF AcquireUpLock, CreateHistoryTable, LoadDir, CheckUp, Goto,
              locals, Executed, Current, AutoCommits
<1>7. CASE UNCHANGED <<cmd, pc, plan, loaded>>
  BY <1>7 DEF Executed, Current, AutoCommits
<1> QED
  BY <1>1, <1>2, <1>3, <1>4, <1>5, <1>6, <1>7
  DEF UpOnlyKinds, Finish, ExecCut, Repair, LoseSession, DevWrites, vars,
      locals

LEMMA ExecutedIsInEffectStep ==
  ASSUME UpOnly, OrphanInv, [Next]_vars
  PROVE  ExecutedIsInEffect'
<1> SUFFICES ASSUME NEW q \in Procs, NEW u \in Versions, Executed(q, u)'
             PROVE  net'[u] >= 1
  BY DEF ExecutedIsInEffect
<1>1. net[u] \in Int /\ net'[u] \in Int
  BY TypeInvStep DEF OrphanInv, PrefixInv, ControlInv, TypeInv, TypeOK
<1>2. CASE Exec(q, u) /\ AutoCommits(q, u) /\ cmd[q] = "up"
  <2>1. net'[u] = net[u] + 1
    BY <1>2 DEF Exec, ApplySQL, TakesEffect, Reverting, OrphanInv, PrefixInv,
                ControlInv, TypeInv, TypeOK
  <2> QED
    BY <1>1, <2>1, RunsAddUp
<1>3. CASE Executed(q, u)
  <2>1. net[u] >= 1
    BY <1>3 DEF OrphanInv, ExecutedIsInEffect
  <2> QED
    BY <1>1, <2>1, RunsAddUp
<1> QED
  BY <1>2, <1>3, ExecutedByExec DEF OrphanInv, PrefixInv

(* Who runs or records a migration is at the one after the last recorded   *)
(* one.                                                                    *)
LEMMA OrphanIsNextStep ==
  ASSUME UpOnly, OrphanInv, [Next]_vars
  PROVE  OrphanIsNext'
<1> USE MigrationAssumption
<1> USE DEF OrphanInv, PrefixInv, ControlInv, TypeInv, TypeOK, Histories
<1>1. CASE Keeps
  BY <1>1 DEF Keeps, OrphanIsNext
(* There is no second orphan: both would be the next migration. *)
<1>2. ASSUME NEW p \in Procs, NEW u \in Versions,
             cmd[p] = "up", Current(p, u), ~IsRecorded(u)
      PROVE  /\ 0 < u
             /\ \A w \in Versions : IsRecorded(w) <=> (0 < w /\ w < u)
             /\ \A v \in Versions : ~IsRecorded(v) /\ v # u => net[v] = 0
  <2>1. 0 < u /\ \A w \in Versions : IsRecorded(w) <=> (0 < w /\ w < u)
    BY <1>2, CommitAppliesNext DEF Recorded, IsRecorded
  <2>2. ASSUME NEW v \in Versions, ~IsRecorded(v), v # u, net[v] # 0
        PROVE  FALSE
    <3>1. 0 < v /\ \A w \in Versions : IsRecorded(w) <=> (0 < w /\ w < v)
      BY <2>2 DEF OrphanIsNext
    <3>2. u < v \/ v < u
      BY <2>2
    <3> QED
      BY <1>2, <2>1, <2>2, <3>1, <3>2
  <2> QED
    BY <2>1, <2>2
<1>3. ASSUME NEW p \in Procs, NEW u \in Versions, RunsAlone(p, u)
      PROVE  OrphanIsNext'
  <2>1. /\ Dialect = "mysql" /\ cmd[p] = "up" /\ Current(p, u)
        /\ \A v \in Versions : IsRecorded(v)' <=> IsRecorded(v)
    BY <1>3 DEF RunsAlone, AutoCommits, IsRecorded
  <2>2. /\ net'[u] = net[u] + 1 /\ net[u] \in Int /\ net[u] >= 0
        /\ \A v \in Versions \ {u} : net'[v] = net[v]
    BY <1>3, RunsAddUp DEF RunsAlone
  <2>3. CASE IsRecorded(u)
    BY <2>1, <2>2, <2>3 DEF OrphanIsNext
  <2>4. CASE ~IsRecorded(u)
    BY <1>2, <2>1, <2>2, <2>4 DEF OrphanIsNext
  <2> QED
    BY <2>3, <2>4
<1>4. ASSUME NEW p \in Procs, NEW u \in Versions,
             RecordsAlone(p, u) \/ AppliesWhole(p, u)
      PROVE  OrphanIsNext'
  <2>1. cmd[p] = "up" /\ Current(p, u) /\ ~IsRecorded(u)
    BY <1>4 DEF RecordsAlone, AppliesWhole, Executed
  <2>2. /\ IsRecorded(u)'
        /\ \A v \in Versions \ {u} : IsRecorded(v)' <=> IsRecorded(v)
    BY <1>4 DEF RecordsAlone, AppliesWhole, IsRecorded
  <2>3. /\ net'[u] >= 1 /\ (Dialect # "mysql" => net'[u] = 1)
        /\ \A v \in Versions \ {u} : net'[v] = net[v]
    <3>1. CASE RecordsAlone(p, u)
      BY <3>1 DEF RecordsAlone, ExecutedIsInEffect, Executed, AutoCommits
    <3>2. CASE AppliesWhole(p, u)
      <4>1. net[u] \in Int /\ net[u] >= 0 /\ (Dialect # "mysql" => net[u] = 0)
        BY <2>1, RunsAddUp DEF OrphanIsNext
      <4> QED
        BY <3>2, <4>1 DEF AppliesWhole
    <3> QED
      BY <1>4, <3>1, <3>2
  <2>4. \A v \in Versions : ~IsRecorded(v) /\ v # u => net[v] = 0
    BY <1>2, <2>1
  <2> QED
    BY <2>2, <2>3, <2>4 DEF OrphanIsNext
<1> QED
  BY <1>1, <1>3, <1>4, StepEffects

LEMMA OrphanInvariant ==
  ASSUME UpOnly
  PROVE  Spec => []OrphanInv
<1>1. Init => ExecutedIsInEffect /\ OrphanIsNext
  BY DEF Init, ExecutedIsInEffect, Executed, OrphanIsNext, IsRecorded, NoRows
<1>2. OrphanInv /\ [Next]_vars => ExecutedIsInEffect' /\ OrphanIsNext'
  BY ExecutedIsInEffectStep, OrphanIsNextStep
<1> QED
  BY <1>1, <1>2, ClaimInvariant, PTL DEF Spec, OrphanInv

(* Whatever dies, times out or loses its lock, whoever races for the same  *)
(* plan, and whether or not the SQL can be run again: at most one          *)
(* migration is run, or half run, and not recorded, it is so in MySQL      *)
(* only, and it is the one the next up comes to first.  What is recorded   *)
(* has been run, in PostgreSQL and SQLite once.                            *)
THEOREM OrphansAreNext ==
  ASSUME UpOnly
  PROVE  Spec => []OrphanIsNext
<1>1. OrphanInv => OrphanIsNext
  BY DEF OrphanInv
<1> QED
  BY <1>1, OrphanInvariant, PTL

-----------------------------------------------------------------------------
LEMMA ExecutedLastStep ==
  ASSUME UpOnly, OrphanInv, LockHeld, ExecutedLast, [Next]_vars
  PROVE  ExecutedLast'
<1> SUFFICES ASSUME NEW q \in Procs, NEW u \in Versions, Executed(q, u)'
             PROVE  ran'[u] = loaded'[q][u]
  BY DEF ExecutedLast
<1> USE DEF OrphanInv, PrefixInv, ControlInv, TypeInv, TypeOK, Histories
<1>1. CASE Exec(q, u) /\ AutoCommits(q, u) /\ cmd[q] = "up"
           /\ loaded' = loaded
  BY <1>1 DEF Exec, ApplySQL, TakesEffect, Reverting
<1>2. CASE Executed(q, u) /\ loaded'[q] = loaded[q]
  <2>1. cmd[q] = "up" /\ pc[q] = "record" /\ ran[u] = loaded[q][u]
    BY <1>2 DEF Executed, ExecutedLast
  <2>2. CASE ran' = ran
    BY <1>2, <2>1, <2>2
  (* Another process that runs something would be at work under the same   *)
  (* lock, and q itself is past running u.                                 *)
  <2>3. ASSUME NEW p \in Procs, NEW v \in Versions,
               cmd[p] = "up", pc[p] \in {"exec", "commit"}
        PROVE  FALSE
    <3>1. lock = p /\ lock = q
      BY <2>1, <2>3 DEF LockHeld
    <3> QED
      BY <2>1, <2>3, <3>1
  <2>4. UpOnlyKinds
    BY UpOnlyNextKinds
  <2> QED
    BY <2>2, <2>3, <2>4
    DEF UpOnlyKinds, Finish, Start, AcquireUpLock, CreateHistoryTable,
        LoadDir, CheckUp, Exec, ExecCut, Insert, CommitUp, Repair,
        LoseSession, DevWrites, vars, database
<1> QED
  BY <1>1, <1>2, ExecutedByExec

LEMMA LockedInvariant ==
  ASSUME UpOnly
  PROVE  Spec => []LockedInv
<1>1. Init => WhileLocked
  BY DEF Init, WhileLocked, LockHeld, PlanUnrecorded, ExecutedLast, Executed
<1>2. OrphanInv /\ WhileLocked /\ [Next]_vars => WhileLocked'
  <2> SUFFICES ASSUME OrphanInv, [Next]_vars,
                      Dialect = "mysql", ~SessionsDrop,
                      LockHeld, PlanUnrecorded, ExecutedLast
               PROVE  LockHeld' /\ PlanUnrecorded' /\ ExecutedLast'
    BY DEF WhileLocked
  <2> QED
    BY LockHeldStep, PlanUnrecordedStep, ExecutedLastStep
    DEF OrphanInv, PrefixInv, UpOnly
<1> QED
  BY <1>1, <1>2, OrphanInvariant, PTL DEF Spec, LockedInv

-----------------------------------------------------------------------------
(* The refinement: a migration is applied whole, or it is run, perhaps     *)
(* more than once, and then recorded, with no other migration in between.  *)
(* An up that keeps its lock does not run what is recorded.                *)
THEOREM RunnerImplementsTwoStepLog ==
  ASSUME UpOnly
  PROVE  Spec => ImplementsTwoStepLog
<1>1. Init => SlowLog!Init
  BY DEF Init, SlowLog!Init, Recorded, NoRows
<1>2. LockedInv /\ [Next]_vars => [SlowLog!TwoStepNext]_<<Recorded(history), net>>
  <2> SUFFICES ASSUME LockedInv, [Next]_vars
               PROVE  [SlowLog!TwoStepNext]_<<Recorded(history), net>>
    OBVIOUS
  <2> USE DEF LockedInv, OrphanInv, PrefixInv, ControlInv, TypeInv, TypeOK,
              Histories
  <2>1. CASE Keeps
    BY <2>1 DEF Keeps, Recorded, IsRecorded
  <2>2. ASSUME NEW p \in Procs, NEW u \in Versions, RunsAlone(p, u)
        PROVE  SlowLog!Run(u)
    <3>1. Recorded(history)' = Recorded(history)
      BY <2>2 DEF RunsAlone, Recorded
    <3>2. CASE IsRecorded(u)
      <4>1. SessionsDrop
        BY <2>2, <3>2
        DEF RunsAlone, AutoCommits, Current, WhileLocked, PlanUnrecorded
      <4> QED
        BY <2>2, <3>1, <3>2, <4>1
        DEF RunsAlone, SlowLog!Run, Recorded, IsRecorded
    <3>3. CASE ~IsRecorded(u)
      <4>1. 0 < u /\ Recorded(history) = {w \in Versions : 0 < w /\ w < u}
        BY <2>2, <3>3, CommitAppliesNext DEF RunsAlone
      <4> QED
        BY <2>2, <3>1, <4>1 DEF RunsAlone, SlowLog!Run, SlowLog!IsNext
    <3> QED
      BY <3>2, <3>3
  <2>3. ASSUME NEW p \in Procs, NEW u \in Versions,
               RecordsAlone(p, u) \/ AppliesWhole(p, u)
        PROVE  /\ SlowLog!IsNext(u)
               /\ Recorded(history)' = Recorded(history) \cup {u}
    <3>1. cmd[p] = "up" /\ Current(p, u) /\ ~IsRecorded(u)
      BY <2>3 DEF RecordsAlone, AppliesWhole, Executed
    <3>2. 0 < u /\ Recorded(history) = {w \in Versions : 0 < w /\ w < u}
      BY <3>1, CommitAppliesNext
    <3>3. Recorded(history)' = Recorded(history) \cup {u}
      BY <2>3 DEF RecordsAlone, AppliesWhole, Recorded
    <3> QED
      BY <3>2, <3>3 DEF SlowLog!IsNext
  <2>4. ASSUME NEW p \in Procs, NEW u \in Versions, RecordsAlone(p, u)
        PROVE  SlowLog!Record(u)
    <3>1. net[u] > 0
      <4>1. net[u] \in Int /\ net[u] >= 1
        BY <2>4 DEF RecordsAlone, ExecutedIsInEffect
      <4> QED
        BY <4>1
    <3>2. net' = net
      BY <2>4 DEF RecordsAlone
    <3> QED
      BY <2>3, <2>4, <3>1, <3>2 DEF SlowLog!Record
  <2>5. ASSUME NEW p \in Procs, NEW u \in Versions, AppliesWhole(p, u)
        PROVE  SlowLog!RunAndRecord(u)
    BY <2>3, <2>5 DEF AppliesWhole, SlowLog!RunAndRecord
  <2> QED
    BY <2>1, <2>2, <2>4, <2>5, StepEffects DEF SlowLog!TwoStepNext
<1> QED
  BY <1>1, <1>2, LockedInvariant, PTL
  DEF Spec, ImplementsTwoStepLog, SlowLog!TwoStepSpec

-----------------------------------------------------------------------------
LEMMA RecordedAsRunStep ==
  ASSUME UpOnly, NoRepairs, Dialect # "mysql" \/ ~SessionsDrop,
         LockedInv, RecordedIsWhatRan, [Next]_vars
  PROVE  RecordedIsWhatRan'
<1> USE DEF LockedInv, OrphanInv, PrefixInv, ControlInv, TypeInv, TypeOK,
            Histories, RecordedIsWhatRan, Recorded
<1>1. CASE Keeps
  BY <1>1 DEF Keeps
<1>2. ASSUME NEW p \in Procs, NEW u \in Versions, RunsAlone(p, u)
      PROVE  RecordedIsWhatRan'
  <2>1. ~IsRecorded(u)
    BY <1>2 DEF RunsAlone, AutoCommits, Current, WhileLocked, PlanUnrecorded
  <2> QED
    BY <1>2, <2>1 DEF RunsAlone, IsRecorded
<1>3. ASSUME NEW p \in Procs, NEW u \in Versions, RecordsAlone(p, u)
      PROVE  RecordedIsWhatRan'
  <2>1. ran[u] = loaded[p][u]
    BY <1>3 DEF RecordsAlone, Executed, AutoCommits, WhileLocked, ExecutedLast
  <2> QED
    BY <1>3, <2>1 DEF RecordsAlone
<1>4. ASSUME NEW p \in Procs, NEW u \in Versions, AppliesWhole(p, u)
      PROVE  RecordedIsWhatRan'
  BY <1>4 DEF AppliesWhole
<1> QED
  BY <1>1, <1>2, <1>3, <1>4, StepEffects

(* A row holds the checksum of the text that was run last, though the file *)
(* may have moved on in between.  In MySQL, where the text takes effect in *)
(* an earlier step than the row, this needs the lock: an up that has lost  *)
(* it may run an edited text after the other one has recorded its own.     *)
THEOREM OrphansAreRecordedAsRun ==
  ASSUME UpOnly, NoRepairs, Dialect # "mysql" \/ ~SessionsDrop
  PROVE  Spec => []RecordedIsWhatRan
<1>1. Init => RecordedIsWhatRan
  BY DEF Init, RecordedIsWhatRan, NoRows
<1> QED
  BY <1>1, LockedInvariant, RecordedAsRunStep, PTL DEF Spec

-----------------------------------------------------------------------------
(* A row is written once and stays as it is. *)
LEMMA RowsAreKept ==
  ASSUME UpOnly, NoRepairs, PrefixInv, RowsClaimedOnce, [Next]_vars
  PROVE  \A v \in Versions : IsRecorded(v) => history'[v] = history[v]
<1> USE DEF PrefixInv, ControlInv, TypeInv, TypeOK, Histories
<1>1. CASE Keeps
  BY <1>1 DEF Keeps
<1>2. ASSUME NEW p \in Procs, NEW u \in Versions,
             RunsAlone(p, u) \/ RecordsAlone(p, u) \/ AppliesWhole(p, u)
      PROVE  \A v \in Versions : IsRecorded(v) => history'[v] = history[v]
  BY <1>2 DEF RunsAlone, RecordsAlone, AppliesWhole
<1> QED
  BY <1>1, <1>2, StepEffects

LEMMA RowIsItsOwnStep ==
  ASSUME UpOnly, NoRepairs, CompleteInv, [Next]_vars
  PROVE  RowIsItsOwn'
<1> SUFFICES ASSUME NEW q \in Procs, NEW u \in Versions,
                    (cmd[q] = "up" /\ pc[q] = "commit")',
                    Current(q, u)', AutoCommits(q, u)'
             PROVE  history'[u] = loaded'[q][u]
  BY DEF RowIsItsOwn
<1> DEFINE Goal == history'[u] = loaded'[q][u]
<1>1. UpOnlyKinds
  BY UpOnlyNextKinds DEF CompleteInv, PrefixInv
<1> USE DEF CompleteInv, PrefixInv, ControlInv, TypeInv, TypeOK
<1>2. CASE /\ cmd[q] = "up" /\ pc[q] = "commit"
           /\ plan'[q] = plan[q] /\ loaded'[q] = loaded[q]
  <2>1. Current(q, u) /\ AutoCommits(q, u)
    BY <1>2 DEF Current, AutoCommits
  <2>2. IsRecorded(u) /\ history[u] = loaded[q][u]
    BY <1>2, <2>1 DEF RowInEffect, RowIsItsOwn
  <2> QED
    BY <1>2, <2>2, RowsAreKept
<1>3. ASSUME NEW p \in Procs, NEW v \in Versions, cmd[p] = "up", Insert(p, v)
      PROVE  Goal
  <2>1. CASE q = p
    <3>1. u = v /\ AutoCommits(p, v)
      BY <1>3, <2>1, MigrationAssumption
      DEF Insert, Current, AutoCommits, locals
    <3> QED
      BY <1>3, <2>1, <3>1 DEF Insert, locals, Histories
  <2>2. CASE q # p
    BY <1>2, <1>3, <2>2 DEF Insert, Goto, locals
  <2> QED
    BY <2>1, <2>2
<1>4. ASSUME NEW p \in Procs, End(p) PROVE Goal
  BY <1>2, <1>4 DEF End
<1>5. ASSUME NEW p \in Procs, NEW c \in {"up", "up-dry"}, Start(p, c)
      PROVE  Goal
  BY <1>2, <1>5 DEF Start, Goto, First
<1>6. ASSUME NEW p \in Procs,
             AcquireUpLock(p) \/ CreateHistoryTable(p) \/ LoadDir(p)
               \/ CheckUp(p)
      PROVE  Goal
  BY <1>2, <1>6 DEF AcquireUpLock, CreateHistoryTable, LoadDir, CheckUp, Goto,
                    locals
<1>7. ASSUME NEW p \in Procs, NEW v \in Versions,
             Exec(p, v) \/ CommitUp(p, v)
      PROVE  Goal
  BY <1>2, <1>7 DEF Exec, CommitUp, Goto, locals
<1>8. CASE UNCHANGED <<cmd, pc, plan, loaded>>
  BY <1>2, <1>8
<1> QED
  BY <1>1, <1>3, <1>4, <1>5, <1>6, <1>7, <1>8
  DEF UpOnlyKinds, Finish, ExecCut, Repair, LoseSession, DevWrites, vars,
      locals

LEMMA HandledIsRecordedStep ==
  ASSUME UpOnly, NoRepairs, CompleteInv, [Next]_vars
  PROVE  HandledIsRecorded'
<1> SUFFICES ASSUME NEW q \in Procs, (cmd[q] = "up")',
                    (pc[q] \in {"exec", "record", "commit", "release"})',
                    NEW u \in Versions,
                    (u \in Files(loaded[q]) \ plan[q])'
             PROVE  history'[u] = loaded'[q][u]
  BY DEF HandledIsRecorded, Files
<1> DEFINE Goal == history'[u] = loaded'[q][u]
<1>1. UpOnlyKinds
  BY UpOnlyNextKinds DEF CompleteInv, PrefixInv
<1> USE DEF CompleteInv, PrefixInv, ControlInv, TypeInv, TypeOK
(* What has been handled before stays recorded. *)
<1>2. ASSUME cmd[q] = "up",
             pc[q] \in {"exec", "record", "commit", "release"},
             loaded'[q] = loaded[q], u \notin plan[q]
      PROVE  Goal
  <2>1. u \in Files(loaded[q]) \ plan[q]
    BY <1>2 DEF Files
  <2>2. history[u] = loaded[q][u]
    BY <1>2, <2>1 DEF HandledIsRecorded
  <2>3. IsRecorded(u)
    BY <2>1, <2>2, MigrationAssumption DEF IsRecorded, LoadedDirs, Files
  <2> QED
    BY <1>2, <2>2, <2>3, RowsAreKept
<1>3. ASSUME NEW p \in Procs, CheckUp(p) PROVE Goal
  <2>1. CASE q = p
    <3>1. u \in Files(loaded[p]) /\ u \notin PlanUp(loaded[p], history)
      BY <1>3, <2>1 DEF CheckUp, Files
    <3>2. Mismatched(loaded[p], history) = {}
      BY <1>3 DEF CheckUp, UpAccepts
    <3>3. history[u] = loaded[p][u]
      BY <3>1, <3>2 DEF PlanUp, Mismatched
    <3> QED
      BY <1>3, <2>1, <3>3 DEF CheckUp, database
  <2>2. CASE q # p
    BY <1>2, <1>3, <2>2 DEF CheckUp, Goto
  <2> QED
    BY <2>1, <2>2
<1>4. ASSUME NEW p \in Procs, NEW v \in Versions, CommitUp(p, v) PROVE Goal
  <2>1. CASE q = p /\ u = v
    <3>1. CASE AutoCommits(p, v)
      BY <1>4, <2>1, <3>1 DEF CommitUp, RowIsItsOwn
    <3>2. CASE ~AutoCommits(p, v)
      BY <1>4, <2>1, <3>2 DEF CommitUp, Histories
    <3> QED
      BY <3>1, <3>2
  <2>2. CASE q # p \/ u # v
    BY <1>2, <1>4, <2>2 DEF CommitUp, Goto
  <2> QED
    BY <2>1, <2>2
<1>5. ASSUME NEW p \in Procs, End(p) PROVE Goal
  BY <1>2, <1>5 DEF End
<1>6. ASSUME NEW p \in Procs, NEW c \in {"up", "up-dry"}, Start(p, c)
      PROVE  Goal
  BY <1>2, <1>6 DEF Start, Goto, First
<1>7. ASSUME NEW p \in Procs,
             AcquireUpLock(p) \/ CreateHistoryTable(p) \/ LoadDir(p)
      PROVE  Goal
  BY <1>2, <1>7
  DEF AcquireUpLock, CreateHistoryTable, LoadDir, Goto, locals
<1>8. ASSUME NEW p \in Procs, NEW v \in Versions, Exec(p, v) \/ Insert(p, v)
      PROVE  Goal
  BY <1>2, <1>8 DEF Exec, Insert, Goto, locals
<1>9. CASE UNCHANGED <<cmd, pc, loaded, plan>>
  BY <1>2, <1>9
<1> QED
  BY <1>1, <1>3, <1>4, <1>5, <1>6, <1>7, <1>8, <1>9
  DEF UpOnlyKinds, Finish, ExecCut, Repair, LoseSession, DevWrites, vars,
      locals

LEMMA NothingLeftStep ==
  ASSUME UpOnly, ControlInv, NothingLeft, [Next]_vars
  PROVE  NothingLeft'
<1> SUFFICES ASSUME NEW q \in Procs, (pc[q] = "release")'
             PROVE  (cmd[q] = "up" /\ plan[q] = {})'
  BY DEF NothingLeft
<1>1. UpOnlyKinds
  BY UpOnlyNextKinds
<1> USE DEF NothingLeft, ControlInv, TypeInv, TypeOK
<1>2. ASSUME NEW p \in Procs, CheckUp(p) \/ End(p)
      PROVE  (cmd[q] = "up" /\ plan[q] = {})'
  BY <1>2 DEF CheckUp, End, Goto
<1>3. ASSUME NEW p \in Procs, NEW v \in Versions,
             CommitUp(p, v) \/ Exec(p, v) \/ Insert(p, v)
      PROVE  (cmd[q] = "up" /\ plan[q] = {})'
  BY <1>3 DEF CommitUp, Exec, Insert, Goto, locals
<1>4. ASSUME NEW p \in Procs, NEW c \in {"up", "up-dry"}, Start(p, c)
      PROVE  (cmd[q] = "up" /\ plan[q] = {})'
  BY <1>4 DEF Start, Goto, First
<1>5. ASSUME NEW p \in Procs,
             AcquireUpLock(p) \/ CreateHistoryTable(p) \/ LoadDir(p)
      PROVE  (cmd[q] = "up" /\ plan[q] = {})'
  BY <1>5 DEF AcquireUpLock, CreateHistoryTable, LoadDir, Goto, locals
<1>6. CASE UNCHANGED <<cmd, pc, plan>>
  BY <1>6
<1> QED
  BY <1>1, <1>2, <1>3, <1>4, <1>5, <1>6
  DEF UpOnlyKinds, Finish, ExecCut, Repair, LoseSession, DevWrites, vars,
      locals

(* An up that reaches its end, alone or in a race with others, lock or no  *)
(* lock, in every dialect, has not skipped a file: each is recorded as it  *)
(* has loaded it.                                                          *)
THEOREM UpsAreComplete ==
  ASSUME UpOnly, NoRepairs
  PROVE  Spec => []UpComplete
<1> DEFINE Rest == RowIsItsOwn /\ HandledIsRecorded /\ NothingLeft
<1>1. Init => Rest
  BY DEF Init, RowIsItsOwn, HandledIsRecorded, NothingLeft
<1>2. PrefixInv /\ RowsClaimedOnce /\ Rest /\ [Next]_vars => Rest'
  BY RowIsItsOwnStep, HandledIsRecordedStep, NothingLeftStep
  DEF CompleteInv, PrefixInv
<1>3. Rest => UpComplete
  BY DEF HandledIsRecorded, NothingLeft, UpComplete
<1> QED
  BY <1>1, <1>2, <1>3, ClaimInvariant, PTL DEF Spec

=============================================================================
