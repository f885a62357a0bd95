----------------------------- MODULE RaceProofs -----------------------------
(***************************************************************************)
(* Theorems about what races between commands leave behind: with downs,    *)
(* baselines and repairs as well as ups.                                   *)
(***************************************************************************)
EXTENDS RunnerProofs

(* A row that is written holds a content. *)
LEMMA CommitWritesRow ==
  ASSUME TypeInv, NEW p \in Procs, NEW v \in Versions,
         (CommitUp(p, v) /\ ~AutoCommits(p, v)) \/ CommitBaseline(p, v)
  PROVE  /\ history' = [history EXCEPT ![v] = loaded[p][v]]
         /\ IsRecorded(v)'
<1>1. v \in plan[p] /\ pc[p] = "commit"
  BY DEF CommitUp, CommitBaseline, Current
<1>2. loaded[p][v] # NoRow
  BY <1>1, PlannedIsLoaded
<1> QED
  BY <1>2 DEF CommitUp, CommitBaseline, IsRecorded, TypeInv, TypeOK, Histories

LEMMA RowsAddedOnceStep ==
  ASSUME TypeInv, RowsAddedOnce, [Next]_vars
  PROVE  RowsAddedOnce'
<1> SUFFICES ASSUME NEW q \in Procs, NEW u \in Versions,
                    OpenRow(q, u)', ~Reverting(q)'
             PROVE  /\ ~IsRecorded(u)'
                    /\ \A r \in Procs \ {q} :
                         OpenRow(r, u)' => Reverting(r)'
  BY DEF RowsAddedOnce
<1> DEFINE Claim == /\ ~IsRecorded(u)'
                    /\ \A r \in Procs \ {q} :
                         OpenRow(r, u)' => Reverting(r)'
           Adds(p, v) == OpenRow(p, v) /\ ~Reverting(p)
<1>1. StepKinds
  BY NextKinds
<1> USE DEF TypeInv, TypeOK, IsRecorded
(* A step that adds no row and opens none to add. *)
<1>2. ASSUME IsRecorded(u)' => IsRecorded(u),
             \A p \in Procs : Adds(p, u)' => Adds(p, u)
      PROVE  Claim
  BY <1>2 DEF RowsAddedOnce
<1>3. ASSUME NEW p \in Procs, NEW v \in Versions, Insert(p, v)
      PROVE  Claim
  <2>1. ~IsRecorded(v) /\ RowFree(p, v)
    BY <1>3 DEF Insert
  <2>2. \A r \in Procs \ {p} : Adds(r, u)' => Adds(r, u)
    BY <1>3 DEF Insert, OpenRow, Current, AutoCommits, Goto, locals, Reverting
  <2>3. OpenRow(p, u)' => u = v /\ ~AutoCommits(p, v)
    BY <1>3, MigrationAssumption
    DEF Insert, OpenRow, Current, AutoCommits, locals
  <2>4. u # v => (IsRecorded(u)' <=> IsRecorded(u))
    BY <1>3 DEF Insert, Histories
  <2>5. CASE u # v
    BY <1>2, <2>2, <2>3, <2>4, <2>5
  <2>6. CASE u = v
    <3>1. \A r \in Procs \ {p} : ~Adds(r, u)'
      BY <2>1, <2>2, <2>6 DEF RowFree
    <3>2. q = p /\ ~AutoCommits(p, v)
      BY <2>3, <3>1
    <3>3. history' = history
      BY <1>3, <3>2 DEF Insert
    <3> QED
      BY <2>1, <2>6, <3>1, <3>2, <3>3
  <2> QED
    BY <2>5, <2>6
<1>4. ASSUME NEW p \in Procs, NEW v \in Versions,
             CommitUp(p, v) \/ CommitBaseline(p, v)
      PROVE  Claim
  <2>1. \A r \in Procs : Adds(r, u)' => r # p /\ Adds(r, u)
    BY <1>4 DEF CommitUp, CommitBaseline, End, OpenRow, Current, AutoCommits,
                Goto, Reverting
  <2>2. CASE AutoCommits(p, v)
    <3>1. CommitUp(p, v)
      BY <1>4, <2>2 DEF CommitBaseline, AutoCommits
    <3> QED
      BY <1>2, <2>1, <2>2, <3>1 DEF CommitUp
  <2>3. CASE ~AutoCommits(p, v)
    <3>1. Adds(p, v)
      BY <1>4, <2>3 DEF CommitUp, CommitBaseline, OpenRow, Reverting
    <3>2. u # v
      BY <2>1, <3>1 DEF RowsAddedOnce
    <3>3. IsRecorded(u)' <=> IsRecorded(u)
      BY <1>4, <2>3, <3>2, CommitWritesRow DEF Histories
    <3> QED
      BY <2>1, <3>3 DEF RowsAddedOnce
  <2> QED
    BY <2>2, <2>3
<1>5. ASSUME NEW p \in Procs, NEW v \in Versions,
             Delete(p, v) \/ CommitDown(p, v)
      PROVE  Claim
  <2>1. IsRecorded(u)' => IsRecorded(u)
    BY <1>5 DEF Delete, CommitDown, Histories
  <2>2. \A r \in Procs : Adds(r, u)' => Adds(r, u)
    BY <1>5 DEF Delete, CommitDown, End, OpenRow, Current, AutoCommits, Goto,
                Reverting
  <2> QED
    BY <1>2, <2>1, <2>2
<1>6. ASSUME NEW p \in Procs, NEW v \in Versions, NEW c \in Contents,
             Repair(p, v, c)
      PROVE  Claim
  <2>1. IsRecorded(u)' => IsRecorded(u)
    BY <1>6 DEF Repair, Histories
  <2>2. \A r \in Procs : Adds(r, u)' => Adds(r, u)
    BY <1>6 DEF Repair, OpenRow, Current, AutoCommits, locals, Reverting
  <2> QED
    BY <1>2, <2>1, <2>2
<1>7. ASSUME NEW p \in Procs, End(p), history' = history PROVE Claim
  BY <1>2, <1>7 DEF End, OpenRow, Current, AutoCommits, Reverting
<1>8. ASSUME NEW p \in Procs, NEW c \in Commands, Start(p, c)
      PROVE  Claim
  BY <1>2, <1>8
  DEF Start, Goto, First, database, OpenRow, Current, AutoCommits, Reverting
<1>9. ASSUME NEW p \in Procs,
             AcquireUpLock(p) \/ CreateHistoryTable(p) \/ LoadDir(p)
               \/ CheckUp(p) \/ CheckDown(p) \/ CheckBaseline(p)
      PROVE  Claim
  BY <1>2, <1>9
  DEF AcquireUpLock, CreateHistoryTable, LoadDir, CheckUp, CheckDown,
      CheckBaseline, Goto, database, locals, OpenRow, Current, AutoCommits,
      Reverting
<1>10. ASSUME NEW p \in Procs, NEW v \in Versions, Exec(p, v) PROVE Claim
  BY <1>2, <1>10
  DEF Exec, Goto, locals, OpenRow, Current, AutoCommits, Reverting
<1>11. CASE UNCHANGED <<database, pc, locals>>
  BY <1>2, <1>11 DEF database, locals, OpenRow, Current, AutoCommits, Reverting
<1> QED
  BY <1>1, <1>3, <1>4, <1>5, <1>6, <1>7, <1>8, <1>9, <1>10, <1>11
  DEF StepKinds, Finish, ExecCut, LoseSession, DevWrites, vars, database,
      locals

(* A step either adds a row together with the run, or takes a run off. *)
LEMMA NeverTwiceStep ==
  ASSUME Dialect # "mysql", NeverTwiceInv, [Next]_vars
  PROVE  NeverTwice'
<1>1. StepKinds
  BY NextKinds
<1>2. \A p \in Procs, v \in Versions : ~AutoCommits(p, v)
  BY DEF AutoCommits
<1> USE DEF NeverTwiceInv, NeverTwice, TypeInv, TypeOK, IsRecorded
<1>3. ASSUME NEW p \in Procs, NEW v \in Versions, CommitUp(p, v)
      PROVE  NeverTwice'
  <2>1. ~IsRecorded(v)
    BY <1>2, <1>3 DEF CommitUp, OpenRow, Reverting, RowsAddedOnce
  <2>2. net' = [net EXCEPT ![v] = @ + 1]
    BY <1>2, <1>3 DEF CommitUp, ApplySQL, TakesEffect, Reverting
  <2> QED
    BY <1>2, <1>3, <2>1, <2>2, CommitWritesRow DEF Histories
<1>4. ASSUME NEW p \in Procs, NEW v \in Versions, CommitDown(p, v)
      PROVE  NeverTwice'
  <2>1. net' = [net EXCEPT ![v] = @ - 1]
    BY <1>2, <1>4 DEF CommitDown, ApplySQL, TakesEffect
  <2>2. \A u \in Versions \ {v} : IsRecorded(u)' <=> IsRecorded(u)
    BY <1>2, <1>4 DEF CommitDown, Histories
  <2> QED
    BY <2>1, <2>2
<1>5. ASSUME NEW p \in Procs, NEW v \in Versions, CommitBaseline(p, v)
      PROVE  NeverTwice'
  <2>1. net' = net
    BY <1>5 DEF CommitBaseline
  <2>2. \A u \in Versions : IsRecorded(u) => IsRecorded(u)'
    BY <1>5, CommitWritesRow DEF Histories
  <2> QED
    BY <2>1, <2>2
<1>6. ASSUME NEW p \in Procs, NEW v \in Versions, NEW c \in Contents,
             Repair(p, v, c)
      PROVE  NeverTwice'
  BY <1>6, MigrationAssumption DEF Repair, Histories
<1>7. CASE UNCHANGED <<net, history>>
  BY <1>7
<1>8. ASSUME NEW p \in Procs, NEW v \in Versions,
             Exec(p, v) \/ ExecCut(p, v) \/ Insert(p, v) \/ Delete(p, v)
      PROVE  UNCHANGED <<net, history>>
  BY <1>2, <1>8 DEF Exec, ExecCut, Insert, Delete
<1> QED
  BY <1>1, <1>3, <1>4, <1>5, <1>6, <1>7, <1>8
  DEF StepKinds, Finish, Start, AcquireUpLock, CreateHistoryTable, LoadDir,
      CheckUp, CheckDown, CheckBaseline, LoseSession, DevWrites, vars,
      database

(* In PostgreSQL and SQLite the schema is never ahead of the history,      *)
(* whoever runs ups, downs, baselines and repairs at the same time, with   *)
(* or without the lock, whatever the SQL is and however the files are      *)
(* edited: no up section is committed on a migration that is in effect.    *)
(* In MySQL one is when an up dies and the next one runs the same DDL.     *)
THEOREM NothingRunsTwice ==
  ASSUME Dialect # "mysql"
  PROVE  Spec => []NeverTwice
<1>1. Init => NeverTwiceInv
  BY TypeInvInit
  DEF Init, NeverTwiceInv, RowsAddedOnce, OpenRow, NeverTwice
<1>2. NeverTwiceInv /\ [Next]_vars => NeverTwiceInv'
  BY TypeInvStep, RowsAddedOnceStep, NeverTwiceStep DEF NeverTwiceInv
<1>3. NeverTwiceInv => NeverTwice
  BY DEF NeverTwiceInv
<1> QED
  BY <1>1, <1>2, <1>3, PTL DEF Spec

-----------------------------------------------------------------------------
LEMMA RecordedIsWhatRanStep ==
  ASSUME Dialect # "mysql", Baseliners = {}, NoRepairs,
         ControlInv, RecordedIsWhatRan, [Next]_vars
  PROVE  RecordedIsWhatRan'
<1>1. StepKinds
  BY NextKinds
<1>2. \A p \in Procs, v \in Versions : ~AutoCommits(p, v)
  BY DEF AutoCommits
<1> USE DEF ControlInv, TypeInv, TypeOK, RecordedIsWhatRan, Recorded
<1>3. ASSUME NEW p \in Procs, NEW v \in Versions, CommitUp(p, v)
      PROVE  RecordedIsWhatRan'
  <2>1. /\ history' = [history EXCEPT ![v] = loaded[p][v]]
        /\ ran' = [ran EXCEPT ![v] = loaded[p][v]]
    BY <1>2, <1>3 DEF CommitUp, ApplySQL, TakesEffect, Reverting
  <2> QED
    BY <2>1 DEF Histories
<1>4. ASSUME NEW p \in Procs, NEW v \in Versions, CommitDown(p, v)
      PROVE  RecordedIsWhatRan'
  <2>1. /\ \/ history' = [history EXCEPT ![v] = NoRow]
           \/ history' = history
        /\ ran' = ran
    BY <1>2, <1>4 DEF CommitDown, ApplySQL, TakesEffect
  <2> QED
    BY <2>1 DEF Histories
<1>5. ASSUME NEW p \in Procs, NEW v \in Versions, CommitBaseline(p, v)
      PROVE  FALSE
  BY <1>5 DEF CommitBaseline, ControlOK
<1>6. CASE UNCHANGED <<history, ran>>
  BY <1>6
<1>7. ASSUME NEW p \in Procs, NEW v \in Versions, NEW c \in Contents,
             Repair(p, v, c)
      PROVE  UNCHANGED <<history, ran>>
  BY <1>7 DEF Repair, NoRepairs
<1>8. ASSUME NEW p \in Procs, NEW v \in Versions,
             Exec(p, v) \/ ExecCut(p, v) \/ Insert(p, v) \/ Delete(p, v)
      PROVE  UNCHANGED <<history, ran>>
  BY <1>2, <1>8 DEF Exec, ExecCut, Insert, Delete
<1> QED
  BY <1>1, <1>3, <1>4, <1>5, <1>6, <1>7, <1>8
  DEF StepKinds, Finish, Start, AcquireUpLock, CreateHistoryTable, LoadDir,
      CheckUp, CheckDown, CheckBaseline, LoseSession, DevWrites, vars,
      database

(* Without baseline and repair the checksum of a row is that of the text   *)
(* whose up section ran last, whatever ups and downs race for it and       *)
(* whatever happens to the file: applyMigration works from what LoadDir    *)
(* has read.                                                               *)
THEOREM ChecksumIsOfWhatRan ==
  ASSUME Dialect # "mysql", Baseliners = {}, NoRepairs
  PROVE  Spec => []RecordedIsWhatRan
<1>1. Init => RecordedIsWhatRan
  BY DEF Init, RecordedIsWhatRan, NoRows
<1> QED
  BY <1>1, ControlInvInit, ControlInvStep, RecordedIsWhatRanStep, PTL DEF Spec

-----------------------------------------------------------------------------
(* Without a baseline a row is added by the transaction that runs the SQL, *)
(* so for migrations that create and drop objects it is the objects that   *)
(* decide the races: whoever comes second finds them there, or gone, and   *)
(* is rejected.                                                            *)
NoImplicitRows == Dialect # "mysql" /\ Baseliners = {}

(* Every text creates something, and an edit of a file either keeps its    *)
(* objects or replaces them all.                                           *)
OwnObjects ==
    \A c, d \in Contents :
        /\ Creates[c] # {}
        /\ Creates[c] = Creates[d] \/ Creates[c] \cap Creates[d] = {}

(* A transaction at an object stays the only one, whatever the texts are.  *)
LEMMA ObjectsClaimedOnceStep ==
  ASSUME NoImplicitRows, ControlInv, ObjectsClaimedOnce, [Next]_vars
  PROVE  ObjectsClaimedOnce'
<1> SUFFICES ASSUME NEW q \in Procs, NEW u \in Versions, OpenSQL(q, u)'
             PROVE  /\ ~Rejected(q, u)'
                    /\ \A r \in Procs \ {q} : OpenSQL(r, u)' =>
                         (ObjectsOf(q, u) \cap ObjectsOf(r, u) = {})'
  BY DEF ObjectsClaimedOnce
<1> DEFINE Claim == /\ ~Rejected(q, u)'
                    /\ \A r \in Procs \ {q} : OpenSQL(r, u)' =>
                         (ObjectsOf(q, u) \cap ObjectsOf(r, u) = {})'
           Keeps(r) == /\ OpenSQL(r, u) /\ loaded'[r] = loaded[r]
                       /\ Reverting(r)' <=> Reverting(r)
<1>1. StepKinds
  BY NextKinds
<1>2. \A p \in Procs, v \in Versions : ~AutoCommits(p, v) /\ ~AutoCommits(p, v)'
  BY DEF NoImplicitRows, AutoCommits
<1> USE DEF ControlInv, TypeInv, TypeOK
(* A step that leaves the objects of u as they are and opens nothing. *)
<1>3. ASSUME objects'[u] = objects[u],
             \A p \in Procs : OpenSQL(p, u)' => Keeps(p)
      PROVE  Claim
  <2>1. \A r \in Procs : OpenSQL(r, u)' =>
          /\ OpenSQL(r, u)
          /\ ObjectsOf(r, u)' = ObjectsOf(r, u)
          /\ Reverting(r)' <=> Reverting(r)
    BY <1>3 DEF ObjectsOf
  <2>2. ~Rejected(q, u)
    BY <2>1 DEF ObjectsClaimedOnce
  <2>3. ~Rejected(q, u)'
    BY ONLY <1>3, <2>1, <2>2, OpenSQL(q, u)', q \in Procs DEF Rejected
  <2>4. \A r \in Procs \ {q} : OpenSQL(r, u)' =>
          (ObjectsOf(q, u) \cap ObjectsOf(r, u) = {})'
    BY <2>1 DEF ObjectsClaimedOnce
  <2> QED
    BY <2>3, <2>4
<1>4. ASSUME NEW p \in Procs, NEW v \in Versions, Exec(p, v) PROVE Claim
  <2>1. /\ objects' = objects /\ loaded' = loaded
        /\ \A r \in Procs : Reverting(r)' <=> Reverting(r)
    BY <1>2, <1>4 DEF Exec, locals, Reverting
  <2>2. \A r \in Procs \ {p} : OpenSQL(r, u)' => OpenSQL(r, u)
    BY <1>2, <1>4 DEF Exec, OpenSQL, Current, Goto, locals
  <2>3. OpenSQL(p, u)' => u = v
    BY <1>4, MigrationAssumption DEF Exec, OpenSQL, Current, locals
  <2>4. CASE u = v
    <3>1. \A r \in Procs \ {p} : OpenSQL(r, u)' =>
            ObjectsOf(p, u) \cap ObjectsOf(r, u) = {}
      BY <1>4, <2>2, <2>4 DEF Exec, ObjectFree
    <3>2. ~Rejected(p, u)
      BY <1>4, <2>4 DEF Exec
    <3>3. /\ \A r \in Procs : ObjectsOf(r, u)' = ObjectsOf(r, u)
          /\ \A r \in Procs : Rejected(r, u)' <=> Rejected(r, u)
      BY <2>1 DEF ObjectsOf, Rejected
    <3>4. CASE q = p
      BY <3>1, <3>2, <3>3, <3>4
    <3>5. CASE q # p
      BY <2>2, <3>1, <3>3, <3>5 DEF ObjectsClaimedOnce
    <3> QED
      BY <3>4, <3>5
  <2>5. CASE u # v
    BY <1>3, <2>1, <2>2, <2>3, <2>5
  <2> QED
    BY <2>4, <2>5
<1>5. ASSUME NEW p \in Procs, NEW v \in Versions,
             CommitUp(p, v) \/ CommitDown(p, v)
      PROVE  Claim
  <2>1. OpenSQL(p, v)
    BY <1>2, <1>5 DEF CommitUp, CommitDown, OpenSQL, Reverting
  <2>2. \A r \in Procs : OpenSQL(r, u)' => r # p /\ Keeps(r)
    BY <1>2, <1>5
    DEF CommitUp, CommitDown, End, OpenSQL, Current, Goto, Reverting
  <2>3. CASE u # v
    <3>1. objects'[u] = objects[u]
      BY <1>2, <1>5, <2>3 DEF CommitUp, CommitDown, ApplySQL, TakesEffect
    <3> QED
      BY <1>3, <2>2, <3>1
  <2>4. CASE u = v
    <3>1. \/ objects'[u] = objects[u] \cup ObjectsOf(p, u)
          \/ objects'[u] = objects[u] \ ObjectsOf(p, u)
      BY <1>2, <1>5, <2>4 DEF CommitUp, CommitDown, ApplySQL, TakesEffect
    <3>2. /\ ~Rejected(q, u) /\ ObjectsOf(q, u)' = ObjectsOf(q, u)
          /\ ObjectsOf(q, u) \cap ObjectsOf(p, u) = {}
      BY <2>1, <2>2, <2>4 DEF ObjectsClaimedOnce, ObjectsOf
    <3>3. ~Rejected(q, u)'
      BY <2>2, <3>1, <3>2 DEF Rejected
    <3>4. \A r \in Procs \ {q} : OpenSQL(r, u)' =>
            (ObjectsOf(q, u) \cap ObjectsOf(r, u) = {})'
      BY <2>2 DEF ObjectsClaimedOnce, ObjectsOf
    <3> QED
      BY <3>3, <3>4
  <2> QED
    BY <2>3, <2>4
<1>6. ASSUME NEW p \in Procs, NEW v \in Versions, Insert(p, v) \/ Delete(p, v)
      PROVE  Claim
  BY <1>2, <1>3, <1>6
  DEF Insert, Delete, Goto, locals, OpenSQL, Current, Reverting
<1>7. ASSUME NEW p \in Procs, NEW v \in Versions,
             CommitBaseline(p, v) \/ ExecCut(p, v)
      PROVE  FALSE
  BY <1>2, <1>7 DEF CommitBaseline, ExecCut, ControlOK, NoImplicitRows
<1>8. ASSUME NEW p \in Procs, Finish(p) PROVE Claim
  BY <1>2, <1>3, <1>8 DEF Finish, End, database, OpenSQL, Current, Reverting
<1>9. ASSUME NEW p \in Procs, NEW c \in Commands, Start(p, c) PROVE Claim
  BY <1>2, <1>3, <1>9
  DEF Start, Goto, First, database, OpenSQL, Current, Reverting
<1>10. ASSUME NEW p \in Procs,
              AcquireUpLock(p) \/ CreateHistoryTable(p) \/ LoadDir(p)
                \/ CheckUp(p) \/ CheckDown(p)
       PROVE  Claim
  BY <1>2, <1>3, <1>10
  DEF AcquireUpLock, CreateHistoryTable, LoadDir, CheckUp, CheckDown, Goto,
      database, locals, OpenSQL, Current, Reverting
<1>11. ASSUME NEW p \in Procs, CheckBaseline(p) PROVE Claim
  BY <1>11 DEF CheckBaseline, ControlOK, NoImplicitRows
<1>12. CASE UNCHANGED <<objects, cmd, pc, plan, loaded>>
  BY <1>2, <1>3, <1>12 DEF OpenSQL, Current, Reverting
<1> QED
  BY <1>1, <1>4, <1>5, <1>6, <1>7, <1>8, <1>9, <1>10, <1>11, <1>12
  DEF StepKinds, Repair, LoseSession, DevWrites, vars, locals, database

(* A down that has dropped the objects of a text found them there, so its  *)
(* migration is recorded and they are all it has.                          *)
LEMMA DroppedIsRecorded ==
  ASSUME OwnObjects, DownRaceInv,
         NEW p \in Procs, NEW v \in Versions, Reverting(p), OpenSQL(p, v)
  PROVE  IsRecorded(v) /\ net[v] = 1 /\ objects[v] = ObjectsOf(p, v)
<1>1. loaded[p][v] \in Contents
  BY PlannedIsLoaded DEF OpenSQL, Current, DownRaceInv, ControlInv
<1>2. ObjectsOf(p, v) \subseteq objects[v] /\ ObjectsOf(p, v) # {}
  BY <1>1 DEF DownRaceInv, ObjectsClaimedOnce, Rejected, ObjectsOf, OwnObjects
<1>3. /\ IsRecorded(v) /\ net[v] = 1
      /\ ran[v] \in Contents /\ objects[v] = Creates[ran[v]]
  BY <1>2 DEF DownRaceInv, ObjectsFollowRows
<1> QED
  BY <1>1, <1>2, <1>3 DEF ObjectsOf, OwnObjects

LEMMA ObjectsFollowRowsStep ==
  ASSUME NoImplicitRows, OwnObjects, DownRaceInv, [Next]_vars
  PROVE  ObjectsFollowRows'
<1>1. StepKinds
  BY NextKinds
<1>2. \A p \in Procs, v \in Versions : ~AutoCommits(p, v)
  BY DEF NoImplicitRows, AutoCommits
<1> USE DEF DownRaceInv, ControlInv, TypeInv, TypeOK, ObjectsFollowRows,
            IsRecorded, Histories
<1>3. ASSUME NEW p \in Procs, NEW v \in Versions, CommitUp(p, v)
      PROVE  ObjectsFollowRows'
  <2>1. /\ net' = [net EXCEPT ![v] = @ + 1]
        /\ objects' = [objects EXCEPT ![v] = @ \cup ObjectsOf(p, v)]
        /\ ran' = [ran EXCEPT ![v] = loaded[p][v]]
        /\ history' = [history EXCEPT ![v] = loaded[p][v]]
    BY <1>2, <1>3 DEF CommitUp, ApplySQL, TakesEffect, Reverting
  <2>2. net[v] = 0 /\ objects[v] = {}
    BY <1>2, <1>3 DEF CommitUp, OpenRow, Reverting, RowsAddedOnce
  <2>3. loaded[p][v] \in Contents /\ loaded[p][v] # NoRow
    BY <1>3, PlannedIsLoaded DEF CommitUp, Current
  <2>4. /\ net'[v] = 1 /\ objects'[v] = Creates[ran'[v]]
        /\ history'[v] # NoRow /\ ran'[v] \in Contents
    BY <2>1, <2>2, <2>3 DEF ObjectsOf
  <2>5. \A w \in Versions \ {v} :
          /\ net'[w] = net[w] /\ objects'[w] = objects[w]
          /\ ran'[w] = ran[w] /\ history'[w] = history[w]
    BY <2>1
  <2> QED
    BY <2>4, <2>5
<1>4. ASSUME NEW p \in Procs, NEW v \in Versions, CommitDown(p, v)
      PROVE  ObjectsFollowRows'
  <2>1. /\ net' = [net EXCEPT ![v] = @ - 1]
        /\ objects' = [objects EXCEPT ![v] = @ \ ObjectsOf(p, v)]
        /\ ran' = ran
    BY <1>2, <1>4 DEF CommitDown, ApplySQL, TakesEffect
  <2>2. net[v] = 1 /\ objects[v] = ObjectsOf(p, v)
    BY <1>2, <1>4, DroppedIsRecorded DEF CommitDown, OpenSQL, Reverting
  <2>3. history' = [history EXCEPT ![v] = NoRow]
    BY <1>2, <1>4 DEF CommitDown, DownRemovesItsRow
  <2>4. net'[v] = 0 /\ objects'[v] = {} /\ history'[v] = NoRow
    BY <2>1, <2>2, <2>3
  <2>5. \A w \in Versions \ {v} :
          /\ net'[w] = net[w] /\ objects'[w] = objects[w]
          /\ ran'[w] = ran[w] /\ history'[w] = history[w]
    BY <2>1, <2>3
  <2> QED
    BY <2>4, <2>5
<1>5. ASSUME NEW p \in Procs, NEW v \in Versions,
             CommitBaseline(p, v) \/ ExecCut(p, v)
      PROVE  FALSE
  BY <1>2, <1>5 DEF CommitBaseline, ExecCut, ControlOK, NoImplicitRows
<1>6. ASSUME NEW p \in Procs, NEW v \in Versions, NEW c \in Contents,
             Repair(p, v, c)
      PROVE  ObjectsFollowRows'
  BY <1>6, MigrationAssumption DEF Repair
<1>7. CASE UNCHANGED <<net, objects, ran, history>>
  BY <1>7
<1>8. ASSUME NEW p \in Procs, NEW v \in Versions,
             Exec(p, v) \/ Insert(p, v) \/ Delete(p, v)
      PROVE  ObjectsFollowRows'
  BY <1>2, <1>7, <1>8 DEF Exec, Insert, Delete
<1> QED
  BY <1>1, <1>3, <1>4, <1>5, <1>6, <1>7, <1>8
  DEF StepKinds, Finish, Start, AcquireUpLock, CreateHistoryTable, LoadDir,
      CheckUp, CheckDown, CheckBaseline, LoseSession, DevWrites, vars,
      database

(* The DELETE of a down that has dropped the objects finds the row. *)
LEMMA DownRemovesItsRowStep ==
  ASSUME NoImplicitRows, OwnObjects, DownRaceInv, [Next]_vars
  PROVE  DownRemovesItsRow'
<1> SUFFICES ASSUME NEW q \in Procs, Reverting(q)', (pc[q] = "commit")'
             PROVE  hit'[q]
  BY DEF DownRemovesItsRow
<1>1. StepKinds
  BY NextKinds
<1>2. \A p \in Procs, v \in Versions : ~AutoCommits(p, v)
  BY DEF NoImplicitRows, AutoCommits
<1> USE DEF DownRaceInv, ControlInv, TypeInv, TypeOK, Reverting
<1>3. CASE pc[q] = "commit" /\ UNCHANGED <<cmd[q], hit[q]>>
  BY <1>3 DEF DownRemovesItsRow
<1>4. ASSUME NEW p \in Procs, NEW v \in Versions, Delete(p, v) PROVE hit'[q]
  <2>1. CASE q = p
    <3>1. OpenSQL(p, v) /\ Reverting(p)
      BY <1>2, <1>4 DEF Delete, OpenSQL
    <3>2. IsRecorded(v)
      BY <3>1, DroppedIsRecorded
    <3> QED
      BY <1>4, <2>1, <3>2 DEF Delete, IsRecorded
  <2>2. CASE q # p
    BY <1>3, <1>4, <2>2 DEF Delete, Goto
  <2> QED
    BY <2>1, <2>2
<1>5. ASSUME NEW p \in Procs, NEW v \in Versions, CommitUp(p, v)
      PROVE  hit'[q]
  BY <1>3, <1>5 DEF CommitUp, Goto
<1>6. ASSUME NEW p \in Procs, NEW v \in Versions, Exec(p, v) \/ Insert(p, v)
      PROVE  hit'[q]
  BY <1>3, <1>6 DEF Exec, Insert, Goto, locals
<1>7. ASSUME NEW p \in Procs, End(p) PROVE hit'[q]
  BY <1>3, <1>7 DEF End
<1>8. ASSUME NEW p \in Procs, NEW c \in Commands, Start(p, c) PROVE hit'[q]
  BY <1>3, <1>8 DEF Start, Goto, First
<1>9. ASSUME NEW p \in Procs,
             AcquireUpLock(p) \/ CreateHistoryTable(p) \/ LoadDir(p)
               \/ CheckUp(p) \/ CheckDown(p) \/ CheckBaseline(p)
      PROVE  hit'[q]
  BY <1>3, <1>9
  DEF AcquireUpLock, CreateHistoryTable, LoadDir, CheckUp, CheckDown,
      CheckBaseline, Goto, locals
<1>10. CASE UNCHANGED <<cmd, pc, hit>>
  BY <1>3, <1>10
<1> QED
  BY <1>1, <1>4, <1>5, <1>6, <1>7, <1>8, <1>9, <1>10
  DEF StepKinds, Finish, ExecCut, CommitDown, CommitBaseline, Repair,
      LoseSession, DevWrites, vars, locals

LEMMA DownRaceInvariant ==
  ASSUME NoImplicitRows, OwnObjects
  PROVE  Spec => []DownRaceInv
<1>1. Init => DownRaceInv
  BY ControlInvInit
  DEF Init, DownRaceInv, RowsAddedOnce, OpenRow, DownRemovesItsRow,
      ObjectsClaimedOnce, ObjectsFollowRows, OpenSQL, Reverting, IsRecorded,
      NoRows
<1>2. DownRaceInv /\ [Next]_vars => DownRaceInv'
  BY ControlInvStep, RowsAddedOnceStep, ObjectsClaimedOnceStep,
     ObjectsFollowRowsStep, DownRemovesItsRowStep
  DEF DownRaceInv, ControlInv
<1> QED
  BY <1>1, <1>2, PTL DEF Spec

(* However many ups and downs race, and however the files are edited: the  *)
(* objects of a migration are there, as the text that was run has created  *)
(* them, exactly when the migration is recorded.                           *)
THEOREM ObjectsAlwaysFollowRows ==
  ASSUME NoImplicitRows, OwnObjects
  PROVE  Spec => []ObjectsFollowRows
<1>1. DownRaceInv => ObjectsFollowRows
  BY DEF DownRaceInv
<1> QED
  BY <1>1, DownRaceInvariant, PTL

(* So with such migrations schema and history stay in step although down   *)
(* takes no lock.                                                          *)
THEOREM SchemaSurvivesDowns ==
  ASSUME NoImplicitRows, OwnObjects
  PROVE  Spec => []SchemaMatchesHistory
<1>1. ObjectsFollowRows => SchemaMatchesHistory
  BY DEF ObjectsFollowRows, SchemaMatchesHistory
<1> QED
  BY <1>1, ObjectsAlwaysFollowRows, PTL

(* ... and of the downs that race for one migration only the one that has  *)
(* found its row gets as far as its commit.                                *)
THEOREM DownsRemoveTheirRow ==
  ASSUME NoImplicitRows, OwnObjects
  PROVE  Spec => []DownRemovesItsRow
<1>1. DownRaceInv => DownRemovesItsRow
  BY DEF DownRaceInv
<1> QED
  BY <1>1, DownRaceInvariant, PTL

=============================================================================
