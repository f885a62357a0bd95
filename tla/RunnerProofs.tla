---------------------------- MODULE RunnerProofs ----------------------------
(***************************************************************************)
(* Theorems about Runner for every set of processes and versions, every    *)
(* directory and every interleaving.                                       *)
(***************************************************************************)
EXTENDS RunnerInv, TLAPS

(* The steps of the specification by what they do: the ways a command can  *)
(* end without a commit are one case.                                      *)
StepKinds ==
    \/ \E p \in Procs : Finish(p)
    \/ \E p \in Procs, c \in Commands : Start(p, c)
    \/ \E p \in Procs : AcquireUpLock(p)
    \/ \E p \in Procs : CreateHistoryTable(p)
    \/ \E p \in Procs : LoadDir(p)
    \/ \E p \in Procs : CheckUp(p)
    \/ \E p \in Procs : CheckDown(p)
    \/ \E p \in Procs : CheckBaseline(p)
    \/ \E p \in Procs, v \in Versions : Exec(p, v)
    \/ \E p \in Procs, v \in Versions : ExecCut(p, v)
    \/ \E p \in Procs, v \in Versions : Insert(p, v)
    \/ \E p \in Procs, v \in Versions : Delete(p, v)
    \/ \E p \in Procs, v \in Versions : CommitUp(p, v)
    \/ \E p \in Procs, v \in Versions : CommitDown(p, v)
    \/ \E p \in Procs, v \in Versions : CommitBaseline(p, v)
    \/ \E p \in Procs, v \in Versions, c \in Contents : Repair(p, v, c)
    \/ LoseSession
    \/ \E v \in Versions, c \in Contents \cup {NoFile, Broken} : DevWrites(v, c)
    \/ UNCHANGED vars

(* Every step of Next is of one of these kinds. *)
LEMMA NextKinds == [Next]_vars => StepKinds
<1> SUFFICES ASSUME Next PROVE StepKinds
  BY DEF StepKinds
<1>1. CASE Environment
  BY <1>1 DEF Environment, StepKinds
<1>2. CASE Quiescent
  BY <1>2 DEF Quiescent, StepKinds
<1>3. ASSUME NEW p \in Procs,
             \/ \E c \in Commands : Start(p, c)
             \/ Fails(p)
             \/ \E v \in Versions, c \in Contents : Repair(p, v, c)
      PROVE  StepKinds
  BY <1>3 DEF StepKinds, Fails
<1>4. ASSUME NEW p \in Procs, UpStep(p)
      PROVE  StepKinds
  BY <1>4 DEF StepKinds, UpStep, LockTimeout, RefuseUp, ShowPlan, Release
<1>5. ASSUME NEW p \in Procs, DownStep(p)
      PROVE  StepKinds
  BY <1>5 DEF StepKinds, DownStep, RefuseDown
<1>6. ASSUME NEW p \in Procs, BaselineStep(p)
      PROVE  StepKinds
  BY <1>6 DEF StepKinds, BaselineStep, RefuseBaseline
<1>7. ASSUME NEW p \in Procs, SharedStep(p)
      PROVE  StepKinds
  BY <1>7 DEF StepKinds, SharedStep, LoadDirFails, ExecRejected,
              InsertDuplicate
<1> QED
  BY <1>1, <1>2, <1>3, <1>4, <1>5, <1>6, <1>7 DEF Next, Step

-----------------------------------------------------------------------------
LEMMA TypeInvInit == Init => TypeInv
<1> SUFFICES ASSUME Init PROVE TypeInv
  OBVIOUS
<1>1. TypeOK
  <2>1. NoRows \in Histories
    BY DEF NoRows, Histories
  <2>2. NoFiles \in LoadedDirs
    BY DEF NoFiles, LoadedDirs
  <2>3. disk \in Disks /\ calls \in 0..MaxCalls /\ edits \in 0..MaxEdits
    BY RunnerAssumption DEF Init
  <2>4. hasTable \in BOOLEAN
    BY Zenon DEF Init
  <2>5. net \in [Versions -> Int] /\ lock \in Procs \cup {Nobody}
    BY DEF Init
  <2>7. objects \in [Versions -> SUBSET Objects]
    BY DEF Init
  <2>6. /\ pc \in [Procs -> Steps \cup {"idle"}]
        /\ cmd \in [Procs -> Commands \cup {"none"}]
        /\ loaded \in [Procs -> LoadedDirs]
        /\ plan \in [Procs -> SUBSET Versions]
        /\ hit \in [Procs -> BOOLEAN]
    BY <2>2 DEF Init
  <2> QED
    BY <2>1, <2>3, <2>4, <2>5, <2>6, <2>7 DEF Init, TypeOK
<1>2. \A p \in Procs : PlanOK(p)
  BY DEF Init, PlanOK
<1> QED
  BY <1>1, <1>2 DEF TypeInv

(* A command that ends leaves its process with no plan and no directory. *)
LEMMA EndIsClean ==
  ASSUME TypeInv, NEW p \in Procs, End(p)
  PROVE  /\ lock' \in Procs \cup {Nobody}
         /\ pc' \in [Procs -> Steps \cup {"idle"}]
         /\ cmd' \in [Procs -> Commands \cup {"none"}]
         /\ loaded' \in [Procs -> LoadedDirs]
         /\ plan' \in [Procs -> SUBSET Versions]
         /\ hit' \in [Procs -> BOOLEAN]
         /\ \A q \in Procs : PlanOK(q)'
<1>1. NoFiles \in LoadedDirs
  BY DEF NoFiles, LoadedDirs
<1>2. \A q \in Procs : PlanOK(q)'
  <2> SUFFICES ASSUME NEW q \in Procs PROVE PlanOK(q)'
    OBVIOUS
  <2>1. CASE q = p
    BY <2>1 DEF End, PlanOK, TypeInv, TypeOK
  <2>2. CASE q # p
    BY <2>2 DEF End, PlanOK, TypeInv, TypeOK, Files
  <2> QED
    BY <2>1, <2>2
<1> QED
  BY <1>1, <1>2 DEF TypeInv, TypeOK, End

(* The content a process has loaded for a version of its plan is one that  *)
(* a row can hold.                                                         *)
LEMMA PlannedIsLoaded ==
  ASSUME TypeInv, NEW p \in Procs, NEW v \in plan[p],
         pc[p] \in {"exec", "record", "commit"}
  PROVE  v \in Versions /\ loaded[p][v] \in Contents
         /\ loaded[p][v] # NoRow
BY MigrationAssumption
DEF TypeInv, TypeOK, PlanOK, LoadedDirs, Files

(* Running a migration, and writing its row, keep the types. *)
LEMMA EffectsTyped ==
  ASSUME TypeInv, NEW p \in Procs, NEW v \in plan[p],
         pc[p] \in {"exec", "record", "commit"}
  PROVE  /\ [history EXCEPT ![v] = loaded[p][v]] \in Histories
         /\ [history EXCEPT ![v] = NoRow] \in Histories
         /\ \A made \in SUBSET ObjectsOf(p, v) :
              TakesEffect(p, v, made) =>
                  /\ net' \in [Versions -> Int]
                  /\ objects' \in [Versions -> SUBSET Objects]
                  /\ ran' \in Histories
         /\ ApplySQL(p, v) => /\ net' \in [Versions -> Int]
                              /\ objects' \in [Versions -> SUBSET Objects]
                              /\ ran' \in Histories
<1>1. v \in Versions /\ loaded[p][v] \in Contents
  BY PlannedIsLoaded
<1>2. ObjectsOf(p, v) \in SUBSET Objects
  BY <1>1, RunnerAssumption DEF ObjectsOf
<1>3. /\ [history EXCEPT ![v] = loaded[p][v]] \in Histories
      /\ [history EXCEPT ![v] = NoRow] \in Histories
  BY <1>1 DEF TypeInv, TypeOK, Histories
<1>4. ASSUME NEW made \in SUBSET ObjectsOf(p, v), TakesEffect(p, v, made)
      PROVE  /\ net' \in [Versions -> Int]
             /\ objects' \in [Versions -> SUBSET Objects]
             /\ ran' \in Histories
  <2>1. net' \in [Versions -> Int]
    BY <1>4 DEF TakesEffect, TypeInv, TypeOK
  <2>2. objects' \in [Versions -> SUBSET Objects]
    <3>1. objects[v] \ made \in SUBSET Objects
          /\ objects[v] \cup made \in SUBSET Objects
      BY <1>1, <1>2 DEF TypeInv, TypeOK
    <3> QED
      BY <1>4, <3>1 DEF TakesEffect, TypeInv, TypeOK
  <2>3. ran' \in Histories
    BY <1>1, <1>4 DEF TakesEffect, TypeInv, TypeOK, Histories
  <2> QED
    BY <2>1, <2>2, <2>3
<1> QED
  BY <1>3, <1>4 DEF ApplySQL

LEMMA TypeInvStep == TypeInv /\ [Next]_vars => TypeInv'
<1> SUFFICES ASSUME TypeInv, StepKinds PROVE TypeInv'
  BY NextKinds
<1> USE DEF TypeInv, TypeOK
<1>1. ASSUME NEW p \in Procs, Finish(p) PROVE TypeInv'
  BY <1>1, EndIsClean DEF Finish, database, bounds
<1>2. ASSUME NEW p \in Procs, NEW c \in Commands, Start(p, c)
      PROVE TypeInv'
  <2>1. pc' \in [Procs -> Steps \cup {"idle"}]
    BY <1>2 DEF Start, Goto, First, Steps
  <2>2. plan' \in [Procs -> SUBSET Versions]
    BY <1>2 DEF Start
  <2>3. calls' \in 0..MaxCalls
    BY <1>2, RunnerAssumption DEF Start
  <2>4. \A q \in Procs : PlanOK(q)'
    <3> SUFFICES ASSUME NEW q \in Procs PROVE PlanOK(q)'
      OBVIOUS
    <3>1. CASE q = p
      BY <1>2, <3>1 DEF Start, Goto, First, Commands, PlanOK, Files
    <3>2. CASE q # p
      BY <1>2, <3>2 DEF Start, Goto, PlanOK, Files
    <3> QED
      BY <3>1, <3>2
  <2> QED
    BY <1>2, <2>1, <2>2, <2>3, <2>4 DEF Start, database
<1>3. ASSUME NEW p \in Procs, AcquireUpLock(p) PROVE TypeInv'
  BY <1>3 DEF AcquireUpLock, Goto, Steps, PlanOK, Files, database, locals,
              bounds
<1>4. ASSUME NEW p \in Procs, CreateHistoryTable(p) PROVE TypeInv'
  BY <1>4 DEF CreateHistoryTable, Goto, Steps, PlanOK, Files, locals, bounds
<1>5. ASSUME NEW p \in Procs, LoadDir(p) PROVE TypeInv'
  <2>1. disk \in LoadedDirs
    BY <1>5 DEF LoadDir, Loads, Disks, LoadedDirs
  <2>2. \A q \in Procs : PlanOK(q)'
    BY <1>5, <2>1 DEF LoadDir, Goto, PlanOK, Files
  <2> QED
    BY <1>5, <2>1, <2>2 DEF LoadDir, Goto, Steps, database, bounds
<1>6. ASSUME NEW p \in Procs, CheckUp(p) PROVE TypeInv'
  <2>1. PlanUp(loaded[p], history) \subseteq Files(loaded[p])
        /\ Files(loaded[p]) \subseteq Versions
    BY DEF PlanUp, Files
  <2>2. \A q \in Procs : PlanOK(q)'
    BY <1>6, <2>1 DEF CheckUp, Goto, PlanOK, Files
  <2> QED
    BY <1>6, <2>1, <2>2 DEF CheckUp, Goto, Steps, database, bounds
<1>7. ASSUME NEW p \in Procs, CheckDown(p) PROVE TypeInv'
  <2>1. PICK v \in Versions : /\ Revertible(loaded[p], v)
                              /\ plan' = [plan EXCEPT ![p] = {v}]
    BY <1>7 DEF CheckDown
  <2>2. v \in Files(loaded[p])
    BY <2>1, MigrationAssumption DEF Revertible, Files
  <2>3. \A q \in Procs : PlanOK(q)'
    BY <1>7, <2>1, <2>2 DEF CheckDown, Goto, PlanOK, Files
  <2> QED
    BY <1>7, <2>1, <2>3 DEF CheckDown, Goto, Steps, database, bounds
<1>8. ASSUME NEW p \in Procs, CheckBaseline(p) PROVE TypeInv'
  BY <1>8 DEF CheckBaseline, Goto, Steps, PlanOK, Files, database, locals,
              bounds
<1>9. ASSUME NEW p \in Procs, NEW v \in Versions, Exec(p, v) PROVE TypeInv'
  <2>1. v \in plan[p] /\ pc[p] = "exec"
    BY <1>9 DEF Exec, Current
  <2>2. net' \in [Versions -> Int] /\ objects' \in [Versions -> SUBSET Objects]
        /\ ran' \in Histories
    BY <1>9, <2>1, EffectsTyped DEF Exec
  <2> QED
    BY <1>9, <2>2 DEF Exec, Goto, Steps, PlanOK, Files, locals, bounds
<1>10. ASSUME NEW p \in Procs, NEW v \in Versions, Insert(p, v)
       PROVE TypeInv'
  <2>1. v \in plan[p] /\ pc[p] = "record"
    BY <1>10 DEF Insert, Current
  <2>2. history' \in Histories
    BY <1>10, <2>1, EffectsTyped DEF Insert
  <2> QED
    BY <1>10, <2>2 DEF Insert, Goto, Steps, PlanOK, Files, locals, bounds
<1>11. ASSUME NEW p \in Procs, NEW v \in Versions, Delete(p, v)
       PROVE TypeInv'
  <2>1. v \in plan[p] /\ pc[p] = "record"
    BY <1>11 DEF Delete, Current
  <2>2. history' \in Histories
    BY <1>11, <2>1, EffectsTyped DEF Delete
  <2> QED
    BY <1>11, <2>2 DEF Delete, Goto, Steps, PlanOK, Files, bounds
<1>12. ASSUME NEW p \in Procs, NEW v \in Versions, CommitUp(p, v)
       PROVE TypeInv'
  <2>1. v \in plan[p] /\ pc[p] = "commit"
    BY <1>12 DEF CommitUp, Current
  <2>2. history' \in Histories /\ net' \in [Versions -> Int]
        /\ objects' \in [Versions -> SUBSET Objects] /\ ran' \in Histories
    BY <1>12, <2>1, EffectsTyped DEF CommitUp
  <2>3. \A q \in Procs : PlanOK(q)'
    BY <1>12, <2>1 DEF CommitUp, Goto, PlanOK, Files
  <2> QED
    BY <1>12, <2>2, <2>3 DEF CommitUp, Goto, Steps, bounds
<1>13. ASSUME NEW p \in Procs, NEW v \in Versions, CommitDown(p, v)
       PROVE TypeInv'
  <2>1. v \in plan[p] /\ pc[p] = "commit"
    BY <1>13 DEF CommitDown, Current
  <2>2. history' \in Histories /\ net' \in [Versions -> Int]
        /\ objects' \in [Versions -> SUBSET Objects] /\ ran' \in Histories
    BY <1>13, <2>1, EffectsTyped DEF CommitDown
  <2> QED
    BY <1>13, <2>2, EndIsClean DEF CommitDown, bounds
<1>14. ASSUME NEW p \in Procs, NEW v \in Versions, CommitBaseline(p, v)
       PROVE TypeInv'
  <2>1. v \in plan[p] /\ pc[p] = "commit"
    BY <1>14 DEF CommitBaseline, Current
  <2>2. history' \in Histories
    BY <1>14, <2>1, EffectsTyped DEF CommitBaseline
  <2> QED
    BY <1>14, <2>2, EndIsClean DEF CommitBaseline, bounds
<1>15. ASSUME NEW p \in Procs, NEW v \in Versions, NEW c \in Contents,
              Repair(p, v, c)
       PROVE TypeInv'
  <2>1. history' \in Histories /\ calls' \in 0..MaxCalls
    BY <1>15, RunnerAssumption DEF Repair, Histories
  <2> QED
    BY <1>15, <2>1 DEF Repair, PlanOK, Files, locals
<1>16. CASE LoseSession
  BY <1>16 DEF LoseSession, PlanOK, Files, database, locals, bounds
<1>17. ASSUME NEW v \in Versions, NEW c \in Contents \cup {NoFile, Broken},
              DevWrites(v, c)
       PROVE TypeInv'
  <2>1. disk' \in Disks /\ edits' \in 0..MaxEdits
    BY <1>17, RunnerAssumption DEF DevWrites, Disks
  <2> QED
    BY <1>17, <2>1 DEF DevWrites, PlanOK, Files, database, locals
<1>18. CASE UNCHANGED vars
  BY <1>18 DEF vars, PlanOK, Files, database, locals, bounds
<1>19. ASSUME NEW p \in Procs, NEW v \in Versions, ExecCut(p, v)
       PROVE TypeInv'
  <2>1. v \in plan[p] /\ pc[p] = "exec"
    BY <1>19 DEF ExecCut, Current
  <2>2. net' \in [Versions -> Int] /\ objects' \in [Versions -> SUBSET Objects]
        /\ ran' \in Histories
    BY <1>19, <2>1, EffectsTyped DEF ExecCut
  <2> QED
    BY <1>19, <2>2, EndIsClean DEF ExecCut, bounds
<1> QED
  BY <1>1, <1>2, <1>3, <1>4, <1>5, <1>6, <1>7, <1>8, <1>9, <1>10, <1>11,
     <1>12, <1>13, <1>14, <1>15, <1>16, <1>17, <1>18, <1>19 DEF StepKinds

(* Every variable keeps its type and every process plans only for versions *)
(* whose file it has loaded.                                               *)
THEOREM TypeInvariant == Spec => []TypeInv
BY TypeInvInit, TypeInvStep, PTL DEF Spec

(* In every reachable state every variable has its type: a row holds the   *)
(* checksum of some loadable content and never that of a missing or broken *)
(* file, and a plan is a set of versions.                                  *)
THEOREM TypeCorrect == Spec => []TypeOK
<1>1. TypeInv => TypeOK
  BY DEF TypeInv
<1> QED
  BY <1>1, TypeInvariant, PTL

-----------------------------------------------------------------------------
LEMMA ControlInvInit == Init => ControlInv
BY TypeInvInit DEF Init, ControlInv, ControlOK, Reverting

LEMMA ControlInvStep == ControlInv /\ [Next]_vars => ControlInv'
<1> SUFFICES ASSUME ControlInv, StepKinds, TypeInv',
                    NEW q \in Procs
             PROVE  ControlOK(q)'
  BY NextKinds, TypeInvStep DEF ControlInv
<1> USE DEF ControlInv, TypeInv, TypeOK, ControlOK, Reverting
<1>1. ASSUME NEW p \in Procs, End(p) PROVE ControlOK(q)'
  BY <1>1 DEF End
<1>2. ASSUME NEW p \in Procs, NEW c \in Commands, Start(p, c)
      PROVE  ControlOK(q)'
  BY <1>2 DEF Start, Goto, First, May, Commands
<1>3. ASSUME NEW p \in Procs, AcquireUpLock(p) PROVE ControlOK(q)'
  BY <1>3 DEF AcquireUpLock, Goto, locals
<1>4. ASSUME NEW p \in Procs, CreateHistoryTable(p) PROVE ControlOK(q)'
  BY <1>4 DEF CreateHistoryTable, Goto, locals
<1>5. ASSUME NEW p \in Procs, LoadDir(p) PROVE ControlOK(q)'
  BY <1>5 DEF LoadDir, Goto
<1>6. ASSUME NEW p \in Procs, CheckUp(p) PROVE ControlOK(q)'
  BY <1>6 DEF CheckUp, Goto
<1>7. ASSUME NEW p \in Procs, CheckDown(p) PROVE ControlOK(q)'
  BY <1>7 DEF CheckDown, Goto
<1>8. ASSUME NEW p \in Procs, CheckBaseline(p) PROVE ControlOK(q)'
  BY <1>8 DEF CheckBaseline, Goto, locals
<1>9. ASSUME NEW p \in Procs, NEW v \in Versions,
             Exec(p, v) \/ Insert(p, v) \/ Delete(p, v)
      PROVE  ControlOK(q)'
  BY <1>9 DEF Exec, Insert, Delete, Goto, locals
<1>10. ASSUME NEW p \in Procs, NEW v \in Versions, CommitUp(p, v)
       PROVE  ControlOK(q)'
  BY <1>10 DEF CommitUp, Goto
<1>11. ASSUME NEW p \in Procs, NEW v \in Versions, NEW c \in Contents,
              Repair(p, v, c)
       PROVE  ControlOK(q)'
  BY <1>11 DEF Repair, locals
<1>12. CASE LoseSession
  BY <1>12 DEF LoseSession, locals
<1>13. ASSUME NEW v \in Versions, NEW c \in Contents \cup {NoFile, Broken},
              DevWrites(v, c)
       PROVE  ControlOK(q)'
  BY <1>13 DEF DevWrites, locals
<1>14. CASE UNCHANGED vars
  BY <1>14 DEF vars, locals
<1> QED
  BY <1>1, <1>2, <1>3, <1>4, <1>5, <1>6, <1>7, <1>8, <1>9, <1>10, <1>11,
     <1>12, <1>13, <1>14
  DEF StepKinds, Finish, ExecCut, CommitDown, CommitBaseline

THEOREM ControlInvariant == Spec => []ControlInv
BY ControlInvInit, ControlInvStep, PTL DEF Spec

-----------------------------------------------------------------------------
LEMMA LockHeldStep ==
  ASSUME Dialect # "sqlite", ~SessionsDrop
  PROVE  ControlInv /\ LockHeld /\ [Next]_vars => LockHeld'
<1> SUFFICES ASSUME ControlInv, LockHeld, StepKinds PROVE LockHeld'
  BY NextKinds
<1> USE DEF ControlInv, TypeInv, TypeOK, LockHeld
<1>1. ASSUME NEW p \in Procs, End(p) PROVE LockHeld'
  BY <1>1 DEF End
<1>2. ASSUME NEW p \in Procs, NEW c \in Commands, Start(p, c)
      PROVE  LockHeld'
  BY <1>2 DEF Start, Goto, First
<1>3. ASSUME NEW p \in Procs, AcquireUpLock(p) PROVE LockHeld'
  BY <1>3, RunnerAssumption DEF AcquireUpLock, LockFree, Goto, locals
<1>4. ASSUME NEW p \in Procs,
             CreateHistoryTable(p) \/ LoadDir(p) \/ CheckUp(p)
               \/ CheckDown(p) \/ CheckBaseline(p)
      PROVE  LockHeld'
  BY <1>4 DEF CreateHistoryTable, LoadDir, CheckUp, CheckDown,
              CheckBaseline, Goto, locals
<1>5. ASSUME NEW p \in Procs, NEW v \in Versions,
             Exec(p, v) \/ Insert(p, v) \/ Delete(p, v) \/ CommitUp(p, v)
      PROVE  LockHeld'
  BY <1>5 DEF Exec, Insert, Delete, CommitUp, Goto, locals
<1>6. ASSUME NEW p \in Procs, NEW v \in Versions, NEW c \in Contents,
             Repair(p, v, c)
      PROVE  LockHeld'
  BY <1>6 DEF Repair, locals
<1>7. CASE LoseSession
  BY <1>7 DEF LoseSession
<1>8. ASSUME NEW v \in Versions, NEW c \in Contents \cup {NoFile, Broken},
             DevWrites(v, c)
      PROVE  LockHeld'
  BY <1>8 DEF DevWrites, locals
<1>9. CASE UNCHANGED vars
  BY <1>9 DEF vars, locals
<1> QED
  BY <1>1, <1>2, <1>3, <1>4, <1>5, <1>6, <1>7, <1>8, <1>9
  DEF StepKinds, Finish, ExecCut, CommitDown, CommitBaseline

LEMMA LockHeldInvariant ==
  ASSUME Dialect # "sqlite", ~SessionsDrop
  PROVE  Spec => [](ControlInv /\ LockHeld)
<1>1. Init => LockHeld
  BY DEF Init, LockHeld
<1> QED
  BY <1>1, ControlInvInit, ControlInvStep, LockHeldStep, PTL DEF Spec

(* In PostgreSQL and MySQL, as long as no session is lost, at most one up  *)
(* at a time is past AcquireUpLock, whatever else runs: this is what       *)
(* db.go:16-18 promises.                                                   *)
THEOREM UpsExcludeEachOther ==
  ASSUME Dialect # "sqlite", ~SessionsDrop
  PROVE  Spec => []LockExclusive
<1>1. LockHeld => LockExclusive
  BY DEF LockHeld, LockExclusive
<1> QED
  BY <1>1, LockHeldInvariant, PTL

-----------------------------------------------------------------------------
LEMMA PlanUnrecordedStep ==
  ASSUME Dialect # "sqlite", ~SessionsDrop, Baseliners = {}
  PROVE  ControlInv /\ LockHeld /\ PlanUnrecorded /\ [Next]_vars
           => PlanUnrecorded'
<1> SUFFICES ASSUME ControlInv, LockHeld, PlanUnrecorded, StepKinds,
                    NEW q \in Procs, (cmd[q] = "up")',
                    NEW u \in plan[q]', IsRecorded(u)'
             PROVE  (pc[q] = "commit" /\ AutoCommits(q, u) /\ Current(q, u))'
  BY NextKinds DEF PlanUnrecorded
<1> DEFINE Goal == (pc[q] = "commit" /\ AutoCommits(q, u) /\ Current(q, u))'
<1> USE DEF ControlInv, TypeInv, TypeOK, PlanUnrecorded, IsRecorded
<1>1. ASSUME NEW p \in Procs, Finish(p) PROVE Goal
  BY <1>1 DEF Finish, End, database, AutoCommits, Current
<1>2. ASSUME NEW p \in Procs, NEW c \in Commands, Start(p, c) PROVE Goal
  BY <1>2 DEF Start, First, Goto, database, AutoCommits, Current, PlanOK
<1>3. ASSUME NEW p \in Procs,
             AcquireUpLock(p) \/ CreateHistoryTable(p) \/ CheckBaseline(p)
      PROVE  Goal
  BY <1>3 DEF AcquireUpLock, CreateHistoryTable, CheckBaseline, Goto,
              database, locals, AutoCommits, Current
<1>4. ASSUME NEW p \in Procs, LoadDir(p) PROVE Goal
  BY <1>4 DEF LoadDir, Goto, database, AutoCommits, Current
<1>5. ASSUME NEW p \in Procs, CheckUp(p) PROVE Goal
  BY <1>5 DEF CheckUp, PlanUp, Recorded, Files, Goto, database, AutoCommits,
              Current
<1>6. ASSUME NEW p \in Procs, CheckDown(p) PROVE Goal
  BY <1>6 DEF CheckDown, Reverting, Goto, database, AutoCommits, Current
<1>7. ASSUME NEW p \in Procs, NEW v \in Versions, Exec(p, v) PROVE Goal
  BY <1>7 DEF Exec, Goto, locals, AutoCommits, Current
<1>8. ASSUME NEW p \in Procs, NEW v \in Versions, Insert(p, v) PROVE Goal
  <2>1. cmd[p] = "up"
    BY <1>8 DEF Insert, ControlOK, Reverting, Commands
  <2>2. CASE q = p
    BY <1>8, <2>1, <2>2 DEF Insert, Goto, locals, AutoCommits, Current,
                            Histories
  <2>3. CASE q # p
    BY <1>8, <2>1, <2>3 DEF Insert, LockHeld, locals, PlanOK
  <2> QED
    BY <2>2, <2>3
<1>9. ASSUME NEW p \in Procs, NEW v \in Versions, Delete(p, v) PROVE Goal
  BY <1>9 DEF Delete, Reverting, Goto, AutoCommits, Current, Histories
<1>10. ASSUME NEW p \in Procs, NEW v \in Versions, CommitUp(p, v) PROVE Goal
  <2>1. CASE q = p
    <3>1. u \in plan[p] \ {v} /\ IsRecorded(u)
      BY <1>10, <2>1 DEF CommitUp, Histories
    <3>2. Current(p, u) /\ Current(p, v)
      BY <1>10, <2>1, <3>1 DEF CommitUp
    <3> QED
      BY <3>1, <3>2, MigrationAssumption DEF Current
  <2>2. CASE q # p
    BY <1>10, <2>2 DEF CommitUp, LockHeld, PlanOK
  <2> QED
    BY <2>1, <2>2
<1>11. ASSUME NEW p \in Procs, NEW v \in Versions, CommitDown(p, v)
       PROVE  Goal
  BY <1>11 DEF CommitDown, End, Reverting, AutoCommits, Current, Histories
<1>12. ASSUME NEW p \in Procs, NEW v \in Versions, CommitBaseline(p, v)
       PROVE  Goal
  BY <1>12 DEF CommitBaseline, ControlOK
<1>13. ASSUME NEW p \in Procs, NEW v \in Versions, NEW c \in Contents,
              Repair(p, v, c)
       PROVE  Goal
  BY <1>13 DEF Repair, locals, AutoCommits, Current, Histories
<1>14. CASE LoseSession
  BY <1>14 DEF LoseSession
<1>15. ASSUME NEW v \in Versions, NEW c \in Contents \cup {NoFile, Broken},
              DevWrites(v, c)
       PROVE  Goal
  BY <1>15 DEF DevWrites, database, locals, AutoCommits, Current
<1>16. CASE UNCHANGED vars
  BY <1>16 DEF vars, database, locals, AutoCommits, Current
<1>17. ASSUME NEW p \in Procs, NEW v \in Versions, ExecCut(p, v) PROVE Goal
  BY <1>17 DEF ExecCut, End, AutoCommits, Current
<1> QED
  BY <1>1, <1>2, <1>3, <1>4, <1>5, <1>6, <1>7, <1>8, <1>9, <1>10, <1>11,
     <1>12, <1>13, <1>14, <1>15, <1>16, <1>17 DEF StepKinds

(* An up that holds the lock works from a plan no other up or down makes   *)
(* stale: when it runs a migration, none of those it has left is recorded. *)
(* Only baseline, which takes no lock, can interfere.                      *)
THEOREM PlanStaysFresh ==
  ASSUME Dialect # "sqlite", ~SessionsDrop, Baseliners = {}
  PROVE  Spec => []PlanIsFresh
<1>1. Init => PlanUnrecorded
  BY DEF Init, PlanUnrecorded
<1>2. PlanUnrecorded => PlanIsFresh
  BY DEF PlanUnrecorded, PlanIsFresh
<1> QED
  BY <1>1, <1>2, LockHeldInvariant, PlanUnrecordedStep, PTL DEF Spec

-----------------------------------------------------------------------------
(* Without down and baseline fewer kinds of steps are left, and the only   *)
(* commands are up and up --dry-run.                                       *)
UpOnly == Downers = {} /\ Baseliners = {}

(* No repair of a checksum takes effect. *)
NoRepairs == Repairers = {} \/ Dialect = "postgres"

UpOnlyKinds ==
    \/ \E p \in Procs : Finish(p)
    \/ \E p \in Procs, c \in {"up", "up-dry"} : Start(p, c)
    \/ \E p \in Procs : AcquireUpLock(p)
    \/ \E p \in Procs : CreateHistoryTable(p)
    \/ \E p \in Procs : LoadDir(p)
    \/ \E p \in Procs : CheckUp(p)
    \/ \E p \in Procs, v \in Versions : cmd[p] = "up" /\ Exec(p, v)
    \/ \E p \in Procs, v \in Versions : cmd[p] = "up" /\ ExecCut(p, v)
    \/ \E p \in Procs, v \in Versions : cmd[p] = "up" /\ Insert(p, v)
    \/ \E p \in Procs, v \in Versions : CommitUp(p, v)
    \/ \E p \in Procs, v \in Versions, c \in Contents : Repair(p, v, c)
    \/ LoseSession
    \/ \E v \in Versions, c \in Contents \cup {NoFile, Broken} : DevWrites(v, c)
    \/ UNCHANGED vars

LEMMA UpOnlyCommands ==
  ASSUME UpOnly, ControlInv
  PROVE  \A p \in Procs : cmd[p] \in {"none", "up", "up-dry"}
BY DEF UpOnly, ControlInv, TypeInv, TypeOK, ControlOK, Reverting, Commands

LEMMA UpOnlyNextKinds ==
  ASSUME UpOnly, ControlInv, [Next]_vars
  PROVE  UpOnlyKinds
<1>1. StepKinds
  BY NextKinds
<1>2. \A p \in Procs : ~Reverting(p) /\ cmd[p] # "baseline"
  BY UpOnlyCommands DEF Reverting
<1>3. \A p \in Procs, c \in Commands : Start(p, c) => c \in {"up", "up-dry"}
  BY DEF UpOnly, Start, May, Commands
<1>4. \A p \in Procs, v \in Versions :
        /\ Exec(p, v) => cmd[p] = "up"
        /\ ExecCut(p, v) => cmd[p] = "up"
        /\ Insert(p, v) => cmd[p] = "up"
  BY UpOnlyCommands DEF Exec, ExecCut, Insert, ControlInv, ControlOK
<1>5. \A p \in Procs : ~CheckDown(p) /\ ~CheckBaseline(p)
  BY <1>2 DEF CheckDown, CheckBaseline
<1>6. \A p \in Procs, v \in Versions :
        ~Delete(p, v) /\ ~CommitDown(p, v) /\ ~CommitBaseline(p, v)
  BY <1>2 DEF Delete, CommitDown, CommitBaseline
<1> QED
  BY <1>1, <1>3, <1>4, <1>5, <1>6 DEF StepKinds, UpOnlyKinds

(* Rows are only added, ... *)
LEMMA RowsStay ==
  ASSUME UpOnly, PrefixInv, [Next]_vars, NEW v \in Versions, IsRecorded(v)
  PROVE  IsRecorded(v)'
<1>1. UpOnlyKinds
  BY UpOnlyNextKinds DEF PrefixInv
<1> USE DEF PrefixInv, ControlInv, TypeInv, TypeOK, Histories, IsRecorded
<1>2. ASSUME NEW p \in Procs, NEW w \in Versions,
             (cmd[p] = "up" /\ Insert(p, w)) \/ CommitUp(p, w)
      PROVE  IsRecorded(v)'
  <2>1. w \in plan[p] /\ pc[p] \in {"record", "commit"}
    BY <1>2 DEF Insert, CommitUp, Current
  <2>2. loaded[p][w] # NoRow
    BY <2>1, PlannedIsLoaded
  <2> QED
    BY <1>2, <2>2 DEF Insert, CommitUp
<1>3. ASSUME NEW p \in Procs, NEW w \in Versions, NEW c \in Contents,
             Repair(p, w, c)
      PROVE  IsRecorded(v)'
  BY <1>3, MigrationAssumption DEF Repair
<1>4. CASE history' = history
  BY <1>4
<1> QED
  BY <1>1, <1>2, <1>3, <1>4
  DEF UpOnlyKinds, Finish, Start, AcquireUpLock, CreateHistoryTable, LoadDir,
      CheckUp, Exec, ExecCut, LoseSession, DevWrites, vars, database

(* ... and a new one is that of the migration an up is at. *)
LEMMA NewRowIsCurrent ==
  ASSUME UpOnly, PrefixInv, [Next]_vars,
         NEW v \in Versions, ~IsRecorded(v), IsRecorded(v)'
  PROVE  \E p \in Procs : cmd[p] = "up" /\ Current(p, v)
<1>1. UpOnlyKinds
  BY UpOnlyNextKinds DEF PrefixInv
<1> USE DEF PrefixInv, ControlInv, TypeInv, TypeOK, Histories, IsRecorded
<1>2. ASSUME NEW p \in Procs, NEW w \in Versions,
             (cmd[p] = "up" /\ Insert(p, w)) \/ CommitUp(p, w)
      PROVE  cmd[p] = "up" /\ Current(p, v)
  BY <1>2 DEF Insert, CommitUp
<1>3. ASSUME NEW p \in Procs, NEW w \in Versions, NEW c \in Contents,
             Repair(p, w, c)
      PROVE  FALSE
  BY <1>3 DEF Repair
<1>4. CASE history' = history
  BY <1>4
<1> QED
  BY <1>1, <1>2, <1>3, <1>4
  DEF UpOnlyKinds, Finish, Start, AcquireUpLock, CreateHistoryTable, LoadDir,
      CheckUp, Exec, ExecCut, LoseSession, DevWrites, vars, database

(* So the history stays without holes: the new row closes it up.           *)
LEMMA HistoryPrefixStep ==
  ASSUME UpOnly, PrefixInv, [Next]_vars
  PROVE  HistoryPrefix' /\ PositiveRows'
<1> SUFFICES ASSUME NEW v \in Versions, IsRecorded(v)'
             PROVE  /\ 0 < v
                    /\ \A w \in Versions : 0 < w /\ w < v => IsRecorded(w)'
  BY DEF HistoryPrefix, PositiveRows, Recorded, IsRecorded
<1>1. /\ 0 < v
      /\ \A w \in Versions : 0 < w /\ w < v => IsRecorded(w)
  <2>1. CASE IsRecorded(v)
    BY <2>1 DEF PrefixInv, HistoryPrefix, PositiveRows, Recorded, IsRecorded
  <2>2. CASE ~IsRecorded(v)
    <3>1. PICK p \in Procs : cmd[p] = "up" /\ Current(p, v)
      BY <2>2, NewRowIsCurrent
    <3>2. \A w \in Versions : w < v => w \notin plan[p]
      BY <3>1, MigrationAssumption DEF Current
    <3> QED
      BY <3>1, <3>2 DEF PrefixInv, PlanClosed, Current
  <2> QED
    BY <2>1, <2>2
<1> QED
  BY <1>1, RowsStay

LEMMA PlanClosedStep ==
  ASSUME UpOnly, PrefixInv, [Next]_vars
  PROVE  PlanClosed'
<1> SUFFICES ASSUME NEW q \in Procs, (cmd[q] = "up")', NEW u \in plan[q]'
             PROVE  /\ 0 < u
                    /\ \A w \in Versions :
                        0 < w /\ w < u => w \in plan[q]' \/ IsRecorded(w)'
  BY DEF PlanClosed
<1> DEFINE Closed == /\ 0 < u
                     /\ \A w \in Versions :
                         0 < w /\ w < u => w \in plan[q]' \/ IsRecorded(w)'
<1>1. UpOnlyKinds
  BY UpOnlyNextKinds DEF PrefixInv
<1> USE DEF PrefixInv, ControlInv, TypeInv, TypeOK
<1>2. CASE cmd[q] = "up" /\ plan[q]' = plan[q]
  BY <1>2, RowsStay DEF PlanClosed
<1>3. ASSUME NEW p \in Procs, CheckUp(p) PROVE Closed
  <2>1. CASE q = p
    <3>1. u \in Files(loaded[p]) /\ ValidateSequence(loaded[p])
      BY <1>3, <2>1 DEF CheckUp, PlanUp, UpAccepts
    <3>2. u \in Nat /\ u > 0 /\ 1..u \subseteq Files(loaded[p])
      BY <3>1, MigrationAssumption DEF ValidateSequence, Files
    <3>3. ASSUME NEW w \in Versions, 0 < w, w < u
          PROVE  w \in plan[q]' \/ IsRecorded(w)'
      <4>1. w \in Files(loaded[p])
        BY <3>2, <3>3, MigrationAssumption
      <4> QED
        BY <1>3, <2>1, <4>1, RowsStay
        DEF CheckUp, PlanUp, Recorded, IsRecorded
    <3> QED
      BY <3>2, <3>3
  <2>2. CASE q # p
    BY <1>2, <1>3, <2>2 DEF CheckUp
  <2> QED
    BY <2>1, <2>2
<1>4. ASSUME NEW p \in Procs, NEW v \in Versions, CommitUp(p, v) PROVE Closed
  <2>1. CASE q = p
    <3>1. IsRecorded(v)'
      <4>1. v \in plan[p] /\ pc[p] = "commit"
        BY <1>4 DEF CommitUp, Current
      <4>2. CASE AutoCommits(p, v)
        BY <1>4, <4>2, RowsStay DEF CommitUp, RowInEffect
      <4>3. CASE ~AutoCommits(p, v)
        BY <1>4, <4>1, <4>3, PlannedIsLoaded
        DEF CommitUp, IsRecorded, Histories
      <4> QED
        BY <4>2, <4>3
    <3>2. plan[q]' = plan[q] \ {v} /\ cmd[q] = "up"
      BY <1>4, <2>1 DEF CommitUp
    <3> QED
      BY <3>1, <3>2, RowsStay DEF PlanClosed
  <2>2. CASE q # p
    BY <1>2, <1>4, <2>2 DEF CommitUp
  <2> QED
    BY <2>1, <2>2
<1>5. ASSUME NEW p \in Procs, End(p) PROVE Closed
  BY <1>2, <1>5 DEF End
<1>6. ASSUME NEW p \in Procs, NEW c \in {"up", "up-dry"}, Start(p, c)
      PROVE  Closed
  BY <1>2, <1>6 DEF Start, PlanOK
<1>7. CASE UNCHANGED <<cmd, plan>>
  BY <1>2, <1>7
<1> QED
  BY <1>1, <1>3, <1>4, <1>5, <1>6, <1>7
  DEF UpOnlyKinds, Finish, AcquireUpLock, CreateHistoryTable, LoadDir, Exec,
      ExecCut, Insert, Repair, LoseSession, DevWrites, vars, locals

LEMMA RowInEffectStep ==
  ASSUME UpOnly, PrefixInv, [Next]_vars
  PROVE  RowInEffect'
<1> SUFFICES ASSUME NEW q \in Procs, NEW u \in Versions,
                    (cmd[q] = "up" /\ pc[q] = "commit")',
                    Current(q, u)', AutoCommits(q, u)'
             PROVE  IsRecorded(u)'
  BY DEF RowInEffect
<1>1. UpOnlyKinds
  BY UpOnlyNextKinds DEF PrefixInv
<1> USE DEF PrefixInv, ControlInv, TypeInv, TypeOK
<1>2. CASE /\ cmd[q] = "up" /\ pc[q] = "commit"
           /\ plan[q]' = plan[q] /\ loaded[q]' = loaded[q]
  BY <1>2, RowsStay DEF RowInEffect, Current, AutoCommits
<1>3. ASSUME NEW p \in Procs, NEW v \in Versions, cmd[p] = "up", Insert(p, v)
      PROVE  IsRecorded(u)'
  <2>1. CASE q = p
    <3>1. u = v
      BY <1>3, <2>1, MigrationAssumption DEF Insert, Current, locals
    <3>2. v \in plan[p] /\ pc[p] = "record"
      BY <1>3 DEF Insert, Current
    <3>3. loaded[p][v] # NoRow
      BY <3>2, PlannedIsLoaded
    <3>4. AutoCommits(p, v)
      BY <1>3, <2>1, <3>1 DEF Insert, AutoCommits, locals
    <3> QED
      BY <1>3, <3>1, <3>3, <3>4 DEF Insert, IsRecorded, Histories
  <2>2. CASE q # p
    BY <1>2, <1>3, <2>2 DEF Insert, Goto, locals
  <2> QED
    BY <2>1, <2>2
<1>4. ASSUME NEW p \in Procs, End(p) PROVE IsRecorded(u)'
  BY <1>2, <1>4 DEF End
<1>5. ASSUME NEW p \in Procs, NEW c \in {"up", "up-dry"}, Start(p, c)
      PROVE  IsRecorded(u)'
  BY <1>2, <1>5 DEF Start, Goto, First
<1>6. ASSUME NEW p \in Procs,
             AcquireUpLock(p) \/ CreateHistoryTable(p) \/ LoadDir(p)
               \/ CheckUp(p)
      PROVE  IsRecorded(u)'
  BY <1>2, <1>6 DEF AcquireUpLock, CreateHistoryTable, LoadDir, CheckUp, Goto,
                    locals
<1>7. ASSUME NEW p \in Procs, NEW v \in Versions,
             Exec(p, v) \/ CommitUp(p, v)
      PROVE  IsRecorded(u)'
  BY <1>2, <1>7 DEF Exec, CommitUp, Goto, locals
<1>8. CASE UNCHANGED <<cmd, pc, plan, loaded>>
  BY <1>2, <1>8
<1> QED
  BY <1>1, <1>3, <1>4, <1>5, <1>6, <1>7, <1>8
  DEF UpOnlyKinds, Finish, ExecCut, Repair, LoseSession, DevWrites, vars,
      locals

LEMMA PrefixInvariant ==
  ASSUME UpOnly
  PROVE  Spec => []PrefixInv
<1>1. Init => PrefixInv
  BY ControlInvInit
  DEF Init, PrefixInv, HistoryPrefix, PositiveRows, PlanClosed, RowInEffect,
      Recorded, NoRows
<1>2. PrefixInv /\ [Next]_vars => PrefixInv'
  BY ControlInvStep, HistoryPrefixStep, PlanClosedStep, RowInEffectStep
  DEF PrefixInv
<1> QED
  BY <1>1, <1>2, PTL DEF Spec

(* Any number of ups, with or without a lock, with lost sessions, crashes  *)
(* and edits of the directory in any dialect, leave a history without      *)
(* holes.                                                                  *)
THEOREM HistoryHasNoHoles ==
  ASSUME UpOnly
  PROVE  Spec => []HistoryPrefix
<1>1. PrefixInv => HistoryPrefix
  BY DEF PrefixInv
<1> QED
  BY <1>1, PrefixInvariant, PTL

-----------------------------------------------------------------------------
(* The primary key of the history table lets one of several ups that have  *)
(* planned the same migration insert its row.  A row that MySQL commits at *)
(* once is one of DDL, and never open.                                     *)
LEMMA RowsClaimedOnceStep ==
  ASSUME UpOnly, PrefixInv, RowsClaimedOnce, [Next]_vars
  PROVE  RowsClaimedOnce'
<1> SUFFICES ASSUME NEW q \in Procs, NEW u \in Versions, OpenRow(q, u)'
             PROVE  /\ ~IsRecorded(u)'
                    /\ \A r \in Procs \ {q} : ~OpenRow(r, u)'
  BY DEF RowsClaimedOnce
<1> DEFINE Claim == /\ ~IsRecorded(u)'
                    /\ \A r \in Procs \ {q} : ~OpenRow(r, u)'
<1>1. UpOnlyKinds
  BY UpOnlyNextKinds DEF PrefixInv
<1> USE DEF PrefixInv, ControlInv, TypeInv, TypeOK, IsRecorded
(* A step that claims no row and does not write this one. *)
<1>3. ASSUME IsRecorded(u)' => IsRecorded(u),
             \A p \in Procs : OpenRow(p, u)' => OpenRow(p, u)
      PROVE  Claim
  BY <1>3 DEF RowsClaimedOnce
<1>4. ASSUME NEW p \in Procs, NEW v \in Versions, cmd[p] = "up", Insert(p, v)
      PROVE  Claim
  <2>1. ~IsRecorded(v) /\ RowFree(p, v)
    BY <1>4 DEF Insert
  <2>2. \A r \in Procs \ {p} : OpenRow(r, u)' => OpenRow(r, u)
    BY <1>4 DEF Insert, OpenRow, Current, AutoCommits, Reverting, Goto, locals
  <2>3. OpenRow(p, u)' => u = v /\ ~AutoCommits(p, v)
    BY <1>4, MigrationAssumption
    DEF Insert, OpenRow, Current, AutoCommits, Reverting, locals
  <2>4. u # v => (IsRecorded(u)' <=> IsRecorded(u))
    BY <1>4 DEF Insert, Histories
  <2>5. CASE u # v
    BY <1>3, <2>2, <2>3, <2>4, <2>5
  <2>6. CASE u = v
    <3>1. ~AutoCommits(p, v)
      <4>1. q = p \/ OpenRow(q, u)
        BY <2>2
      <4> QED
        BY <2>1, <2>3, <2>6, <4>1 DEF RowFree
    <3>2. history' = history
      BY <1>4, <3>1 DEF Insert
    <3> QED
      BY <2>1, <2>2, <2>6, <3>2 DEF RowFree
  <2> QED
    BY <2>5, <2>6
<1>5. ASSUME NEW p \in Procs, NEW v \in Versions, CommitUp(p, v)
      PROVE  Claim
  <2>1. \A r \in Procs : OpenRow(r, u)' => r # p /\ OpenRow(r, u)
    BY <1>5 DEF CommitUp, OpenRow, Current, AutoCommits, Reverting, Goto
  <2>2. CASE AutoCommits(p, v)
    BY <1>3, <1>5, <2>1, <2>2 DEF CommitUp
  <2>3. CASE ~AutoCommits(p, v)
    <3>1. OpenRow(p, v)
      BY <1>5, <2>3 DEF CommitUp, OpenRow, Reverting
    <3>2. u # v
      BY <2>1, <3>1 DEF RowsClaimedOnce
    <3>3. IsRecorded(u)' <=> IsRecorded(u)
      BY <1>5, <2>3, <3>2 DEF CommitUp, Histories
    <3> QED
      BY <1>3, <2>1, <3>3
  <2> QED
    BY <2>2, <2>3
<1>6. ASSUME NEW p \in Procs, NEW v \in Versions, NEW c \in Contents,
             Repair(p, v, c)
      PROVE  Claim
  <2>1. IsRecorded(u)' => IsRecorded(u)
    BY <1>6 DEF Repair, Histories
  <2>2. \A r \in Procs : OpenRow(r, u)' => OpenRow(r, u)
    BY <1>6 DEF Repair, OpenRow, Current, AutoCommits, Reverting, locals
  <2> QED
    BY <1>3, <2>1, <2>2
<1>7. ASSUME NEW p \in Procs, End(p), history' = history PROVE Claim
  BY <1>3, <1>7 DEF End, OpenRow, Current, AutoCommits, Reverting
<1>8. ASSUME NEW p \in Procs, NEW c \in {"up", "up-dry"}, Start(p, c)
      PROVE  Claim
  BY <1>3, <1>8
  DEF Start, Goto, First, database, OpenRow, Current, AutoCommits, Reverting
<1>9. ASSUME NEW p \in Procs,
             AcquireUpLock(p) \/ CreateHistoryTable(p) \/ LoadDir(p)
               \/ CheckUp(p)
      PROVE  Claim
  BY <1>3, <1>9
  DEF AcquireUpLock, CreateHistoryTable, LoadDir, CheckUp, Goto, database,
      locals, OpenRow, Current, AutoCommits, Reverting
<1>10. ASSUME NEW p \in Procs, NEW v \in Versions, Exec(p, v) PROVE Claim
  BY <1>3, <1>10 DEF Exec, Goto, locals, OpenRow, Current, AutoCommits, Reverting
<1>11. CASE UNCHANGED <<database, pc, locals>>
  BY <1>3, <1>11 DEF database, locals, OpenRow, Current, AutoCommits, Reverting
<1> QED
  BY <1>1, <1>4, <1>5, <1>6, <1>7, <1>8, <1>9, <1>10, <1>11
  DEF UpOnlyKinds, Finish, ExecCut, LoseSession, DevWrites, vars, database,
      locals

LEMMA ClaimInvariant ==
  ASSUME UpOnly
  PROVE  Spec => [](PrefixInv /\ RowsClaimedOnce)
<1>1. Init => RowsClaimedOnce
  BY DEF Init, RowsClaimedOnce, OpenRow
<1> QED
  BY <1>1, PrefixInvariant, RowsClaimedOnceStep, PTL DEF Spec

(* In every dialect, and without a lock, no two ups have the row of one    *)
(* migration in open transactions, and none has that of a recorded one:    *)
(* InsertMigration waits for the other and then fails.                     *)
THEOREM RowsAreClaimedOnce ==
  ASSUME UpOnly
  PROVE  Spec => []RowsClaimedOnce
BY ClaimInvariant, PTL

(* A plan of up starts where the history ends and has no gap, however old  *)
(* the history is that it was made from, in every dialect and without a    *)
(* lock.                                                                   *)
THEOREM PlansStayClosed ==
  ASSUME UpOnly
  PROVE  Spec => []PlanClosed
<1>1. PrefixInv => PlanClosed
  BY DEF PrefixInv
<1> QED
  BY <1>1, PrefixInvariant, PTL

-----------------------------------------------------------------------------
(* Where the server keeps DDL in the transaction (PostgreSQL, SQLite),     *)
(* nothing takes effect before CommitUp.                                   *)
(* What a step does to the schema and to the set of recorded versions.     *)
LEMMA UpEffect ==
  ASSUME UpOnly, Dialect # "mysql", SchemaInv, [Next]_vars
  PROVE  \/ /\ net' = net
            /\ \A v \in Versions : IsRecorded(v)' <=> IsRecorded(v)
         \/ \E p \in Procs, u \in Versions :
              /\ cmd[p] = "up" /\ Current(p, u)
              /\ ~IsRecorded(u) /\ IsRecorded(u)'
              /\ \A v \in Versions \ {u} : IsRecorded(v)' <=> IsRecorded(v)
              /\ net' = [net EXCEPT ![u] = @ + 1]
<1> DEFINE Same == /\ net' = net
                   /\ \A v \in Versions : IsRecorded(v)' <=> IsRecorded(v)
<1>1. UpOnlyKinds
  BY UpOnlyNextKinds DEF SchemaInv, PrefixInv
<1>2. \A p \in Procs, v \in Versions : ~AutoCommits(p, v)
  BY DEF AutoCommits
<1> USE DEF SchemaInv, PrefixInv, ControlInv, TypeInv, TypeOK, IsRecorded,
            Histories
<1>3. ASSUME NEW p \in Procs, NEW u \in Versions, CommitUp(p, u)
      PROVE  /\ cmd[p] = "up" /\ Current(p, u)
             /\ ~IsRecorded(u) /\ IsRecorded(u)'
             /\ \A v \in Versions \ {u} : IsRecorded(v)' <=> IsRecorded(v)
             /\ net' = [net EXCEPT ![u] = @ + 1]
  <2>1. OpenRow(p, u) /\ u \in plan[p] /\ pc[p] = "commit"
    BY <1>2, <1>3 DEF CommitUp, OpenRow, Current, Reverting
  <2>2. ~IsRecorded(u)
    BY <2>1 DEF RowsClaimedOnce
  <2>3. loaded[p][u] # NoRow
    BY <2>1, PlannedIsLoaded
  <2> QED
    BY <1>2, <1>3, <2>2, <2>3 DEF CommitUp, ApplySQL, TakesEffect, Reverting
<1>4. ASSUME NEW p \in Procs, NEW v \in Versions, NEW c \in Contents,
             Repair(p, v, c)
      PROVE  Same
  BY <1>4, MigrationAssumption DEF Repair
<1>5. ASSUME NEW p \in Procs, NEW v \in Versions, Exec(p, v) \/ Insert(p, v)
      PROVE  Same
  BY <1>2, <1>5 DEF Exec, Insert
<1>7. ASSUME NEW p \in Procs, NEW v \in Versions, ExecCut(p, v) PROVE FALSE
  BY <1>2, <1>7 DEF ExecCut
<1>6. CASE net' = net /\ history' = history
  BY <1>6
<1> QED
  BY <1>1, <1>3, <1>4, <1>5, <1>6, <1>7
  DEF UpOnlyKinds, Finish, Start, AcquireUpLock, CreateHistoryTable, LoadDir,
      CheckUp, LoseSession, DevWrites, vars, database

LEMMA SchemaInvariant ==
  ASSUME UpOnly, Dialect # "mysql"
  PROVE  Spec => []SchemaInv
<1>1. Init => SchemaInv
  <2>1. Init => PrefixInv
    BY ControlInvInit
    DEF Init, PrefixInv, HistoryPrefix, PositiveRows, PlanClosed, RowInEffect,
        Recorded, NoRows
  <2> QED
    BY <2>1 DEF Init, SchemaInv, RowsClaimedOnce, OpenRow,
                SchemaMatchesHistory, IsRecorded, NoRows
<1>2. SchemaInv /\ [Next]_vars => SchemaMatchesHistory'
  <2> SUFFICES ASSUME SchemaInv, [Next]_vars PROVE SchemaMatchesHistory'
    OBVIOUS
  <2> QED
    BY UpEffect DEF SchemaInv, SchemaMatchesHistory, PrefixInv, ControlInv,
                    TypeInv, TypeOK
<1>3. SchemaInv /\ [Next]_vars => SchemaInv'
  BY <1>2, RowsClaimedOnceStep, ControlInvStep, HistoryPrefixStep,
     PlanClosedStep, RowInEffectStep
  DEF SchemaInv, PrefixInv
<1> QED
  BY <1>1, <1>3, PTL DEF Spec

(* In PostgreSQL and SQLite a migration is in effect exactly when it is    *)
(* recorded, and then exactly once, whatever its SQL, however many ups     *)
(* race for it, and with or without the lock: the primary key of the       *)
(* history table makes the losers roll back.                               *)
THEOREM SchemaFollowsHistory ==
  ASSUME UpOnly, Dialect # "mysql"
  PROVE  Spec => []SchemaMatchesHistory
<1>1. SchemaInv => SchemaMatchesHistory
  BY DEF SchemaInv
<1> QED
  BY <1>1, SchemaInvariant, PTL

-----------------------------------------------------------------------------
(* The migration an up commits is the one after the last recorded one.     *)
LEMMA CommitAppliesNext ==
  ASSUME PrefixInv, NEW p \in Procs, NEW u \in Versions,
         cmd[p] = "up", Current(p, u), ~IsRecorded(u)
  PROVE  0 < u /\ Recorded(history) = {w \in Versions : 0 < w /\ w < u}
<1> USE MigrationAssumption
<1>1. 0 < u /\ \A w \in Versions : 0 < w /\ w < u => IsRecorded(w)
  <2>1. u \in plan[p] /\ \A w \in plan[p] : u <= w
    BY DEF Current
  <2>2. \A w \in Versions : w < u => w \notin plan[p]
    BY <2>1
  <2> QED
    BY <2>1, <2>2 DEF PrefixInv, PlanClosed
<1>2. ASSUME NEW w \in Recorded(history) PROVE 0 < w /\ w < u
  <2>1. 0 < w /\ w # u
    BY DEF PrefixInv, PositiveRows, Recorded, IsRecorded
  <2>2. ~(u < w)
    BY <1>1 DEF PrefixInv, HistoryPrefix, Recorded, IsRecorded
  <2> QED
    BY <2>1, <2>2 DEF Recorded
<1> QED
  BY <1>1, <1>2 DEF Recorded, IsRecorded

(* Concurrent ups implement the abstract log: every step applies the next  *)
(* migration, its SQL and its row at once, or leaves both as they are.     *)
THEOREM RunnerImplementsLog ==
  ASSUME UpOnly, Dialect # "mysql"
  PROVE  Spec => ImplementsLog
<1>1. Init => Log!Init
  BY DEF Init, Log!Init, Recorded, NoRows
<1>2. SchemaInv /\ [Next]_vars => [Log!Next]_<<Recorded(history), net>>
  <2> SUFFICES ASSUME SchemaInv, [Next]_vars
               PROVE  [Log!Next]_<<Recorded(history), net>>
    OBVIOUS
  <2>1. CASE /\ net' = net
             /\ \A v \in Versions : IsRecorded(v)' <=> IsRecorded(v)
    <3>1. Recorded(history)' = Recorded(history)
      BY <2>1 DEF Recorded, IsRecorded
    <3> QED
      BY <2>1, <3>1
  <2>2. ASSUME NEW p \in Procs, NEW u \in Versions,
               cmd[p] = "up", Current(p, u), ~IsRecorded(u), IsRecorded(u)',
               \A v \in Versions \ {u} : IsRecorded(v)' <=> IsRecorded(v),
               net' = [net EXCEPT ![u] = @ + 1]
        PROVE  Log!Apply(u)
    <3>1. 0 < u /\ Recorded(history) = {w \in Versions : 0 < w /\ w < u}
      BY <2>2, CommitAppliesNext DEF SchemaInv
    <3>2. Recorded(history)' = Recorded(history) \cup {u}
      BY <2>2 DEF Recorded, IsRecorded
    <3>3. net[u] = 0
      BY <2>2 DEF SchemaInv, SchemaMatchesHistory
    <3>4. net' = [net EXCEPT ![u] = 1]
      BY <2>2, <3>3
    <3> QED
      BY <3>1, <3>2, <3>4 DEF Log!Apply
  <2> QED
    BY <2>1, <2>2, UpEffect DEF Log!Next
<1> QED
  BY <1>1, <1>2, SchemaInvariant, PTL DEF Spec, ImplementsLog, Log!Spec

=============================================================================
