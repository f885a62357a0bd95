--------------------------- MODULE OperatorProofs ---------------------------
(***************************************************************************)
(* Theorems about one operator, whose ups, downs and repairs do not        *)
(* overlap, and about the reports and refusals that rest on a history      *)
(* without holes.                                                          *)
(***************************************************************************)
EXTENDS RunnerProofs

(* Commands that do not overlap are those of one process. *)
NoOverlap == \A p, q \in Procs : p = q

OneOperator == NoOverlap /\ Baseliners = {}

(* The three things a step can do to the set of recorded versions: leave   *)
(* it as it is, ...                                                        *)
RowsStand ==
    /\ \A v \in Versions : IsRecorded(v)' <=> IsRecorded(v)
    /\ Dialect # "mysql" => net' = net

(* ... add the version an up is at, ... *)
AddsRow(p, u) ==
    /\ cmd[p] = "up" /\ Current(p, u)
    /\ ~IsRecorded(u) /\ IsRecorded(u)'
    /\ \A v \in Versions \ {u} : IsRecorded(v)' <=> IsRecorded(v)
    /\ Dialect # "mysql" => net' = [net EXCEPT ![u] = @ + 1]

(* ... or remove the last one. *)
RemovesRow(p, u) ==
    /\ Reverting(p) /\ IsLast(history, u)
    /\ ~IsRecorded(u)'
    /\ \A v \in Versions \ {u} : IsRecorded(v)' <=> IsRecorded(v)
    /\ Dialect # "mysql" => net' = [net EXCEPT ![u] = @ - 1]

LEMMA OperatorEffects ==
  ASSUME Baseliners = {}, OperatorInv, [Next]_vars
  PROVE  \/ RowsStand
         \/ \E p \in Procs, u \in Versions : AddsRow(p, u) \/ RemovesRow(p, u)
<1>1. StepKinds
  BY NextKinds
<1> USE DEF OperatorInv, PrefixInv, ControlInv, TypeInv, TypeOK, IsRecorded,
            Histories
<1>2. ASSUME NEW p \in Procs, NEW u \in Versions, Exec(p, u) PROVE RowsStand
  BY <1>2 DEF Exec, AutoCommits, RowsStand
<1>3. ASSUME NEW p \in Procs, NEW u \in Versions, Insert(p, u)
      PROVE  RowsStand \/ AddsRow(p, u)
  <2>1. CASE AutoCommits(p, u)
    <3>1. u \in plan[p] /\ pc[p] = "record" /\ Dialect = "mysql"
      BY <1>3, <2>1 DEF Insert, Current, AutoCommits
    <3>2. loaded[p][u] # NoRow
      BY <3>1, PlannedIsLoaded
    <3>3. cmd[p] = "up"
      BY <1>3 DEF Insert, ControlOK, Reverting, Commands
    <3> QED
      BY <1>3, <2>1, <3>1, <3>2, <3>3 DEF Insert, AddsRow
  <2>2. CASE ~AutoCommits(p, u)
    BY <1>3, <2>2 DEF Insert, RowsStand
  <2> QED
    BY <2>1, <2>2
<1>4. ASSUME NEW p \in Procs, NEW u \in Versions, CommitUp(p, u)
      PROVE  RowsStand \/ AddsRow(p, u)
  <2>1. CASE AutoCommits(p, u)
    BY <1>4, <2>1 DEF CommitUp, RowsStand, AutoCommits
  <2>2. CASE ~AutoCommits(p, u)
    <3>1. u \in plan[p] /\ pc[p] = "commit" /\ ~IsRecorded(u)
      BY <1>4, <2>2 DEF CommitUp, Current, PlanUnrecorded
    <3>2. loaded[p][u] # NoRow
      BY <3>1, PlannedIsLoaded
    <3> QED
      BY <1>4, <2>2, <3>1, <3>2
      DEF CommitUp, ApplySQL, TakesEffect, Reverting, AddsRow
  <2> QED
    BY <2>1, <2>2
<1>5. ASSUME NEW p \in Procs, NEW u \in Versions, Delete(p, u)
      PROVE  RowsStand \/ RemovesRow(p, u)
  <2>1. CASE AutoCommits(p, u)
    BY <1>5, <2>1 DEF Delete, Current, AutoCommits, RevertsLast, RemovesRow
  <2>2. CASE ~AutoCommits(p, u)
    BY <1>5, <2>2 DEF Delete, RowsStand
  <2> QED
    BY <2>1, <2>2
<1>6. ASSUME NEW p \in Procs, NEW u \in Versions, CommitDown(p, u)
      PROVE  RowsStand \/ RemovesRow(p, u)
  <2>1. CASE AutoCommits(p, u)
    BY <1>6, <2>1 DEF CommitDown, AutoCommits, RowsStand
  <2>2. CASE ~AutoCommits(p, u)
    <3>1. IsLast(history, u) /\ hit[p]
      BY <1>6, <2>2 DEF CommitDown, Current, RevertsLast
    <3> QED
      BY <1>6, <2>2, <3>1 DEF CommitDown, ApplySQL, TakesEffect, RemovesRow
  <2> QED
    BY <2>1, <2>2
<1>7. ASSUME NEW p \in Procs, NEW u \in Versions, CommitBaseline(p, u)
      PROVE  FALSE
  BY <1>7 DEF CommitBaseline, ControlOK
<1>8. ASSUME NEW p \in Procs, NEW u \in Versions, NEW c \in Contents,
             Repair(p, u, c)
      PROVE  RowsStand
  BY <1>8, MigrationAssumption DEF Repair, RowsStand
<1>9. ASSUME NEW p \in Procs, NEW u \in Versions, ExecCut(p, u)
      PROVE  RowsStand
  BY <1>9 DEF ExecCut, AutoCommits, RowsStand
<1>10. CASE UNCHANGED <<history, net>>
  BY <1>10 DEF RowsStand
<1> QED
  BY <1>1, <1>2, <1>3, <1>4, <1>5, <1>6, <1>7, <1>8, <1>9, <1>10
  DEF StepKinds, Finish, Start, AcquireUpLock, CreateHistoryTable, LoadDir,
      CheckUp, CheckDown, CheckBaseline, LoseSession, DevWrites, vars,
      database

(* A row is only removed by a down, and an only process that runs up is    *)
(* not at a down.                                                          *)
LEMMA RowsStayDuringUp ==
  ASSUME OneOperator, OperatorInv, [Next]_vars,
         NEW p \in Procs, cmd[p] = "up", NEW v \in Versions, IsRecorded(v)
  PROVE  IsRecorded(v)'
<1>1. ASSUME NEW q \in Procs PROVE ~Reverting(q)
  BY DEF OneOperator, NoOverlap, Reverting
<1> QED
  BY <1>1, OperatorEffects
  DEF OneOperator, NoOverlap, RowsStand, AddsRow, RemovesRow

LEMMA OperatorPrefixStep ==
  ASSUME OneOperator, OperatorInv, [Next]_vars
  PROVE  HistoryPrefix' /\ PositiveRows'
<1> USE MigrationAssumption
<1> USE DEF OperatorInv, PrefixInv, HistoryPrefix, PositiveRows, Recorded,
            IsRecorded
<1>1. CASE RowsStand
  BY <1>1 DEF RowsStand
<1>2. ASSUME NEW p \in Procs, NEW u \in Versions, AddsRow(p, u)
      PROVE  HistoryPrefix' /\ PositiveRows'
  <2>1. 0 < u /\ \A w \in Versions : 0 < w /\ w < u => IsRecorded(w)
    <3>1. cmd[p] = "up" /\ u \in plan[p] /\ \A w \in plan[p] : u <= w
      BY <1>2 DEF AddsRow, Current
    <3>2. \A w \in Versions : w < u => w \notin plan[p]
      BY ONLY <3>1, u \in Versions, MigrationAssumption
    <3> QED
      BY <3>1, <3>2 DEF PlanClosed
  <2> QED
    BY <1>2, <2>1 DEF AddsRow
<1>3. ASSUME NEW p \in Procs, NEW u \in Versions, RemovesRow(p, u)
      PROVE  HistoryPrefix' /\ PositiveRows'
  BY <1>3 DEF RemovesRow, IsLast
<1> QED
  BY <1>1, <1>2, <1>3, OperatorEffects DEF OneOperator, NoOverlap

LEMMA OperatorPlanClosedStep ==
  ASSUME OneOperator, OperatorInv, [Next]_vars
  PROVE  PlanClosed'
<1> SUFFICES ASSUME NEW q \in Procs, (cmd[q] = "up")', NEW u \in plan[q]'
             PROVE  /\ 0 < u
                    /\ \A w \in Versions :
                        0 < w /\ w < u => w \in plan[q]' \/ IsRecorded(w)'
  BY DEF PlanClosed
<1> DEFINE Closed == /\ 0 < u
                     /\ \A w \in Versions :
                         0 < w /\ w < u => w \in plan[q]' \/ IsRecorded(w)'
<1>1. StepKinds
  BY NextKinds
<1> USE DEF OperatorInv, PrefixInv, ControlInv, TypeInv, TypeOK
<1>2. CASE cmd[q] = "up" /\ plan[q]' = plan[q]
  BY <1>2, RowsStayDuringUp DEF PlanClosed
<1>3. ASSUME NEW p \in Procs, CheckUp(p) PROVE Closed
  <2>1. q = p
    BY DEF OneOperator, NoOverlap
  <2>2. u \in Files(loaded[p]) /\ ValidateSequence(loaded[p])
    BY <1>3, <2>1 DEF CheckUp, PlanUp, UpAccepts
  <2>3. u \in Nat /\ u > 0 /\ 1..u \subseteq Files(loaded[p])
    BY <2>2, MigrationAssumption DEF ValidateSequence, Files
  <2>4. ASSUME NEW w \in Versions, 0 < w, w < u
        PROVE  w \in plan[q]' \/ IsRecorded(w)'
    <3>1. w \in Files(loaded[p])
      BY <2>3, <2>4, MigrationAssumption
    <3> QED
      BY <1>3, <2>1, <3>1
      DEF CheckUp, PlanUp, Recorded, IsRecorded, database
  <2> QED
    BY <2>3, <2>4
<1>4. ASSUME NEW p \in Procs, NEW v \in Versions, CommitUp(p, v) PROVE Closed
  <2>1. q = p /\ cmd[q] = "up"
    BY <1>4 DEF OneOperator, NoOverlap, CommitUp
  <2>2. IsRecorded(v)'
    <3>1. v \in plan[p] /\ pc[p] = "commit"
      BY <1>4 DEF CommitUp, Current
    <3>2. CASE AutoCommits(p, v)
      BY <1>4, <3>2 DEF CommitUp, RowInEffect, IsRecorded
    <3>3. CASE ~AutoCommits(p, v)
      BY <1>4, <3>1, <3>3, PlannedIsLoaded
      DEF CommitUp, IsRecorded, Histories
    <3> QED
      BY <3>2, <3>3
  <2>3. plan[q]' = plan[q] \ {v}
    BY <1>4, <2>1 DEF CommitUp
  <2> QED
    BY <2>1, <2>2, <2>3, RowsStayDuringUp DEF PlanClosed
<1>5. ASSUME NEW p \in Procs, End(p) PROVE Closed
  BY <1>2, <1>5 DEF End
<1>6. ASSUME NEW p \in Procs, NEW c \in Commands, Start(p, c) PROVE Closed
  BY <1>2, <1>6 DEF Start, PlanOK
<1>7. ASSUME NEW p \in Procs, CheckDown(p) PROVE Closed
  BY <1>7 DEF CheckDown, Reverting, OneOperator, NoOverlap
<1>8. ASSUME NEW p \in Procs, NEW v \in Versions,
             CommitDown(p, v) \/ CommitBaseline(p, v)
      PROVE  Closed
  BY <1>8 DEF CommitDown, CommitBaseline, End, OneOperator,
                NoOverlap
<1>9. CASE UNCHANGED <<cmd, plan>>
  BY <1>2, <1>9
<1> QED
  BY <1>1, <1>3, <1>4, <1>5, <1>6, <1>7, <1>8, <1>9
  DEF StepKinds, Finish, AcquireUpLock, CreateHistoryTable, LoadDir,
      CheckBaseline, Exec, ExecCut, Insert, Delete, Repair, LoseSession, DevWrites, vars, locals

LEMMA OperatorPlanUnrecordedStep ==
  ASSUME OneOperator, OperatorInv, [Next]_vars
  PROVE  PlanUnrecorded'
<1> SUFFICES ASSUME NEW q \in Procs, (cmd[q] = "up")',
                    NEW u \in plan[q]', IsRecorded(u)'
             PROVE  (pc[q] = "commit" /\ AutoCommits(q, u) /\ Current(q, u))'
  BY DEF PlanUnrecorded
<1> DEFINE Goal == (pc[q] = "commit" /\ AutoCommits(q, u) /\ Current(q, u))'
<1>1. StepKinds
  BY NextKinds
<1> USE DEF OneOperator, NoOverlap, OperatorInv, PrefixInv, ControlInv,
            TypeInv, TypeOK, PlanUnrecorded, IsRecorded
(* A step that plans nothing, writes nothing and stays before the commit.  *)
<1>2. CASE /\ cmd[q] = "up" /\ plan'[q] = plan[q]
           /\ history' = history /\ pc[q] # "commit"
  BY <1>2
<1>3. ASSUME NEW p \in Procs, CheckUp(p) PROVE Goal
  BY <1>3 DEF CheckUp, PlanUp, Files, Recorded, database
<1>4. ASSUME NEW p \in Procs, NEW v \in Versions, Insert(p, v) PROVE Goal
  BY <1>4 DEF Insert, Goto, locals, AutoCommits, Current, Histories
<1>5. ASSUME NEW p \in Procs, NEW v \in Versions, CommitUp(p, v) PROVE Goal
  <2>1. u \in plan[p] \ {v} /\ IsRecorded(u)
    BY <1>5 DEF CommitUp, Histories
  <2>2. Current(p, u) /\ Current(p, v)
    BY <1>5, <2>1 DEF CommitUp
  <2> QED
    BY <2>1, <2>2, MigrationAssumption DEF Current
<1>6. ASSUME NEW p \in Procs, End(p) PROVE Goal
  BY <1>6 DEF End
<1>7. ASSUME NEW p \in Procs, NEW c \in Commands, Start(p, c) PROVE Goal
  BY <1>7 DEF Start, PlanOK
<1>8. ASSUME NEW p \in Procs,
             AcquireUpLock(p) \/ CreateHistoryTable(p) \/ LoadDir(p)
      PROVE  Goal
  BY <1>2, <1>8
  DEF AcquireUpLock, CreateHistoryTable, LoadDir, database, locals
<1>9. ASSUME NEW p \in Procs, CheckDown(p) \/ CheckBaseline(p) PROVE Goal
  BY <1>9 DEF CheckDown, CheckBaseline, Reverting, locals
<1>10. ASSUME NEW p \in Procs, NEW v \in Versions, Exec(p, v) PROVE Goal
  BY <1>2, <1>10 DEF Exec, locals
<1>11. ASSUME NEW p \in Procs, NEW v \in Versions,
              Delete(p, v) \/ CommitDown(p, v) \/ CommitBaseline(p, v)
       PROVE  Goal
  BY <1>11 DEF Delete, CommitDown, CommitBaseline, End, Reverting
<1>12. ASSUME NEW p \in Procs, NEW v \in Versions, NEW c \in Contents,
              Repair(p, v, c)
       PROVE  Goal
  BY <1>12 DEF Repair, locals, PlanOK
<1>13. CASE UNCHANGED <<history, pc, cmd, loaded, plan>>
  BY <1>13 DEF AutoCommits, Current
<1> QED
  BY <1>1, <1>3, <1>4, <1>5, <1>6, <1>7, <1>8, <1>9, <1>10, <1>11, <1>12,
     <1>13
  DEF StepKinds, Finish, ExecCut, LoseSession, DevWrites, vars, locals, database

LEMMA OperatorRowInEffectStep ==
  ASSUME OneOperator, OperatorInv, [Next]_vars
  PROVE  RowInEffect'
<1> SUFFICES ASSUME NEW q \in Procs, NEW u \in Versions,
                    (cmd[q] = "up" /\ pc[q] = "commit")',
                    Current(q, u)', AutoCommits(q, u)'
             PROVE  IsRecorded(u)'
  BY DEF RowInEffect
<1>1. StepKinds
  BY NextKinds
<1> USE DEF OperatorInv, PrefixInv, ControlInv, TypeInv, TypeOK
<1>2. CASE /\ cmd[q] = "up" /\ pc[q] = "commit"
           /\ plan[q]' = plan[q] /\ loaded[q]' = loaded[q]
  BY <1>2, RowsStayDuringUp DEF RowInEffect, Current, AutoCommits
<1>3. ASSUME NEW p \in Procs, NEW v \in Versions, Insert(p, v)
      PROVE  IsRecorded(u)'
  <2>1. q = p
    BY DEF OneOperator, NoOverlap
  <2>2. u = v
    BY <1>3, <2>1, MigrationAssumption DEF Insert, Current, locals
  <2>3. v \in plan[p] /\ pc[p] = "record"
    BY <1>3 DEF Insert, Current
  <2>4. loaded[p][v] # NoRow
    BY <2>3, PlannedIsLoaded
  <2>5. AutoCommits(p, v)
    BY <1>3, <2>1, <2>2 DEF Insert, AutoCommits, locals
  <2> QED
    BY <1>3, <2>2, <2>4, <2>5 DEF Insert, IsRecorded, Histories
<1>4. ASSUME NEW p \in Procs, End(p) PROVE IsRecorded(u)'
  BY <1>2, <1>4 DEF End
<1>5. ASSUME NEW p \in Procs, NEW c \in Commands, Start(p, c)
      PROVE  IsRecorded(u)'
  BY <1>2, <1>5 DEF Start, Goto, First
<1>6. ASSUME NEW p \in Procs,
             AcquireUpLock(p) \/ CreateHistoryTable(p) \/ LoadDir(p)
               \/ CheckUp(p) \/ CheckDown(p) \/ CheckBaseline(p)
      PROVE  IsRecorded(u)'
  BY <1>2, <1>6 DEF AcquireUpLock, CreateHistoryTable, LoadDir, CheckUp,
                    CheckDown, CheckBaseline, Reverting, Goto, locals
<1>7. ASSUME NEW p \in Procs, NEW v \in Versions,
             \/ Exec(p, v) \/ Delete(p, v) \/ CommitUp(p, v)
             \/ CommitDown(p, v) \/ CommitBaseline(p, v)
      PROVE  IsRecorded(u)'
  BY <1>2, <1>7 DEF Exec, Delete, CommitUp, CommitDown, CommitBaseline, End,
                    Reverting, Goto, locals
<1>8. CASE UNCHANGED <<cmd, pc, loaded, plan>>
  BY <1>2, <1>8
<1> QED
  BY <1>1, <1>3, <1>4, <1>5, <1>6, <1>7, <1>8
  DEF StepKinds, Finish, ExecCut, Repair, LoseSession, DevWrites, vars, locals

LEMMA RevertsLastStep ==
  ASSUME NoOverlap, ControlInv, RevertsLast, [Next]_vars
  PROVE  RevertsLast'
<1> SUFFICES ASSUME NEW q \in Procs, Reverting(q)',
                    (pc[q] \in {"exec", "record", "commit"})'
             PROVE  /\ \A v \in plan'[q] :
                        \/ IsLast(history, v)'
                        \/ (pc[q] = "commit" /\ AutoCommits(q, v))'
                    /\ pc'[q] = "commit" => hit'[q]
  BY DEF RevertsLast
<1> DEFINE Goal == /\ \A v \in plan'[q] :
                        \/ IsLast(history, v)'
                        \/ (pc[q] = "commit" /\ AutoCommits(q, v))'
                   /\ pc'[q] = "commit" => hit'[q]
<1>1. StepKinds
  BY NextKinds
<1> USE DEF NoOverlap, ControlInv, TypeInv, TypeOK, RevertsLast, Reverting
<1>2. CASE UNCHANGED <<history, pc, cmd, loaded, plan, hit>>
  BY <1>2 DEF AutoCommits
<1>3. ASSUME NEW p \in Procs, CheckDown(p) PROVE Goal
  BY <1>3 DEF CheckDown, Goto, database
<1>4. ASSUME NEW p \in Procs, NEW u \in Versions, Exec(p, u) PROVE Goal
  BY <1>4 DEF Exec, Goto, locals
<1>5. ASSUME NEW p \in Procs, NEW u \in Versions, Delete(p, u) PROVE Goal
  <2>1. /\ q = p /\ pc[p] = "record"
        /\ plan' = plan /\ cmd' = cmd /\ loaded' = loaded
    BY <1>5 DEF Delete
  <2>2. \A v \in plan[p] : IsLast(history, v)
    BY <1>5, <2>1
  <2>3. hit'[p]
    BY <1>5, <2>2 DEF Delete, Current, IsLast, Recorded
  <2>4. CASE AutoCommits(p, u)
    <3>1. \A v \in plan[p] : v = u
      BY <1>5, <2>2, MigrationAssumption
      DEF Delete, Current, IsLast, Recorded
    <3>2. pc'[p] = "commit"
      BY <1>5 DEF Delete, Goto
    <3> QED
      BY <2>1, <2>3, <2>4, <3>1, <3>2 DEF AutoCommits
  <2>5. CASE ~AutoCommits(p, u)
    BY <1>5, <2>1, <2>2, <2>3, <2>5 DEF Delete
  <2> QED
    BY <2>4, <2>5
<1>6. ASSUME NEW p \in Procs, NEW u \in Versions,
             \/ Insert(p, u) \/ CommitUp(p, u) \/ CommitDown(p, u)
             \/ CommitBaseline(p, u)
      PROVE  Goal
  BY <1>6 DEF Insert, CommitUp, CommitDown, CommitBaseline, End, locals
<1>7. ASSUME NEW p \in Procs, NEW v \in Versions, NEW c \in Contents,
             Repair(p, v, c)
      PROVE  Goal
  BY <1>7 DEF Repair, locals
<1>8. ASSUME NEW p \in Procs, End(p) PROVE Goal
  BY <1>8 DEF End
<1>9. ASSUME NEW p \in Procs, NEW c \in Commands, Start(p, c) PROVE Goal
  BY <1>9 DEF Start, Goto, First
<1>10. ASSUME NEW p \in Procs,
              AcquireUpLock(p) \/ CreateHistoryTable(p) \/ LoadDir(p)
                \/ CheckUp(p) \/ CheckBaseline(p)
       PROVE  Goal
  BY <1>10 DEF AcquireUpLock, CreateHistoryTable, LoadDir, CheckUp,
               CheckBaseline, Goto, locals
<1> QED
  BY <1>1, <1>2, <1>3, <1>4, <1>5, <1>6, <1>7, <1>8, <1>9, <1>10
  DEF StepKinds, Finish, ExecCut, LoseSession, DevWrites, vars, locals, database

LEMMA OperatorInvariant ==
  ASSUME OneOperator
  PROVE  Spec => []OperatorInv
<1>1. Init => OperatorInv
  BY ControlInvInit
  DEF Init, OperatorInv, PrefixInv, HistoryPrefix, PositiveRows, PlanClosed,
      RowInEffect, PlanUnrecorded, RevertsLast, Reverting, Recorded, NoRows
<1>2. OperatorInv /\ [Next]_vars => OperatorInv'
  BY ControlInvStep, OperatorPrefixStep, OperatorPlanClosedStep,
     OperatorPlanUnrecordedStep, OperatorRowInEffectStep, RevertsLastStep
  DEF OperatorInv, PrefixInv, OneOperator
<1> QED
  BY <1>1, <1>2, PTL DEF Spec

-----------------------------------------------------------------------------
(* When nothing overlaps, a row that goes away is the last one, in every   *)
(* dialect, through any failure between the statements of down, and also   *)
(* above the holes that a baseline leaves.                                 *)
THEOREM DownsRevertTheLast ==
  ASSUME NoOverlap
  PROVE  Spec => DownRevertsTheLast
<1> DEFINE Inv == ControlInv /\ RevertsLast
           Removes(v) == history[v] # NoRow /\ history'[v] = NoRow
<1>1. Init => Inv
  BY ControlInvInit DEF Init, RevertsLast, Reverting
<1>2. Inv /\ [Next]_vars => Inv'
  BY ControlInvStep, RevertsLastStep
<1>3. Inv /\ [Next]_vars =>
        \A v \in Versions : Removes(v) => \A w \in Recorded(history) : w <= v
  <2> SUFFICES ASSUME Inv, StepKinds, NEW v \in Versions, Removes(v)
               PROVE  IsLast(history, v)
    BY NextKinds DEF IsLast
  <2> USE DEF ControlInv, TypeInv, TypeOK, Histories
  <2>1. ASSUME NEW p \in Procs, NEW u \in Versions, Delete(p, u)
        PROVE  IsLast(history, v)
    BY <2>1 DEF Delete, Current, RevertsLast
  <2>2. ASSUME NEW p \in Procs, NEW u \in Versions, CommitDown(p, u)
        PROVE  IsLast(history, v)
    BY <2>2 DEF CommitDown, Current, RevertsLast
  <2>3. ASSUME NEW p \in Procs, NEW u \in Versions,
               Insert(p, u) \/ CommitUp(p, u) \/ CommitBaseline(p, u)
        PROVE  FALSE
    <3>1. u \in plan[p] /\ pc[p] \in {"record", "commit"}
      BY <2>3 DEF Insert, CommitUp, CommitBaseline, Current
    <3>2. loaded[p][u] # NoRow
      BY <3>1, PlannedIsLoaded
    <3> QED
      BY <2>3, <3>2 DEF Insert, CommitUp, CommitBaseline
  <2>4. ASSUME NEW p \in Procs, NEW u \in Versions, NEW c \in Contents,
               Repair(p, u, c)
        PROVE  FALSE
    BY <2>4, MigrationAssumption DEF Repair
  <2>5. CASE UNCHANGED history
    BY <2>5
  <2> QED
    BY <2>1, <2>2, <2>3, <2>4, <2>5
    DEF StepKinds, Finish, Start, AcquireUpLock, CreateHistoryTable, LoadDir,
        CheckUp, CheckDown, CheckBaseline, Exec, ExecCut, LoseSession,
        DevWrites, vars, database
<1> QED
  BY <1>1, <1>2, <1>3, PTL DEF Spec, DownRevertsTheLast

LEMMA OperatorSchemaStep ==
  ASSUME OneOperator, Dialect # "mysql", OperatorInv, SchemaMatchesHistory,
         [Next]_vars
  PROVE  SchemaMatchesHistory'
<1> USE DEF OperatorInv, PrefixInv, ControlInv, TypeInv, TypeOK,
            SchemaMatchesHistory
<1>1. CASE RowsStand
  BY <1>1 DEF RowsStand
<1>2. ASSUME NEW p \in Procs, NEW u \in Versions, AddsRow(p, u)
      PROVE  SchemaMatchesHistory'
  BY <1>2 DEF AddsRow
<1>3. ASSUME NEW p \in Procs, NEW u \in Versions, RemovesRow(p, u)
      PROVE  SchemaMatchesHistory'
  BY <1>3 DEF RemovesRow, IsLast, Recorded, IsRecorded
<1> QED
  BY <1>1, <1>2, <1>3, OperatorEffects DEF OneOperator, NoOverlap

(* In PostgreSQL and SQLite every step of an operator applies the next     *)
(* migration or reverts the last, its SQL and its row at once, or changes  *)
(* neither.                                                                *)
THEOREM OperatorImplementsLog ==
  ASSUME OneOperator, Dialect # "mysql"
  PROVE  Spec => ImplementsLog
<1> DEFINE Inv == OperatorInv /\ SchemaMatchesHistory
<1>1. Init => SchemaMatchesHistory
  BY DEF Init, SchemaMatchesHistory, IsRecorded, NoRows
<1>2. Init => Log!Init
  BY DEF Init, Log!Init, Recorded, NoRows
<1>3. Inv /\ [Next]_vars => [Log!Next]_<<Recorded(history), net>>
  <2> SUFFICES ASSUME Inv, [Next]_vars
               PROVE  [Log!Next]_<<Recorded(history), net>>
    OBVIOUS
  <2> USE DEF OperatorInv, PrefixInv, ControlInv, TypeInv, TypeOK
  <2>1. CASE RowsStand
    <3>1. Recorded(history)' = Recorded(history)
      BY <2>1 DEF RowsStand, Recorded, IsRecorded
    <3> QED
      BY <2>1, <3>1 DEF RowsStand
  <2>2. ASSUME NEW p \in Procs, NEW u \in Versions, AddsRow(p, u)
        PROVE  Log!Apply(u)
    <3>1. 0 < u /\ Recorded(history) = {w \in Versions : 0 < w /\ w < u}
      BY <2>2, CommitAppliesNext DEF AddsRow
    <3>2. Recorded(history)' = Recorded(history) \cup {u}
      BY <2>2 DEF AddsRow, Recorded, IsRecorded
    <3>3. net' = [net EXCEPT ![u] = 1]
      BY <2>2 DEF AddsRow, SchemaMatchesHistory
    <3> QED
      BY <3>1, <3>2, <3>3 DEF Log!Apply
  <2>3. ASSUME NEW p \in Procs, NEW u \in Versions, RemovesRow(p, u)
        PROVE  Log!Revert(u)
    <3>1. u \in Recorded(history) /\ \A w \in Recorded(history) : w <= u
      BY <2>3 DEF RemovesRow, IsLast
    <3>2. Recorded(history)' = Recorded(history) \ {u}
      BY <2>3 DEF RemovesRow, Recorded, IsRecorded
    <3>3. net' = [net EXCEPT ![u] = 0]
      BY <2>3, <3>1
      DEF RemovesRow, SchemaMatchesHistory, Recorded, IsRecorded
    <3> QED
      BY <3>1, <3>2, <3>3 DEF Log!Revert
  <2> QED
    BY <2>1, <2>2, <2>3, OperatorEffects DEF OneOperator, NoOverlap, Log!Next
<1>4. Inv /\ [Next]_vars => SchemaMatchesHistory'
  BY OperatorSchemaStep
<1> QED
  BY <1>1, <1>2, <1>3, <1>4, OperatorInvariant, PTL
  DEF Spec, ImplementsLog, Log!Spec

-----------------------------------------------------------------------------
(* Who writes the history: ups that may race, or commands that do not.     *)
Orderly == UpOnly \/ OneOperator

LEMMA OrderlyPrefix ==
  ASSUME Orderly
  PROVE  Spec => []PrefixInv
<1>1. OperatorInv => PrefixInv
  BY DEF OperatorInv
<1>2. CASE UpOnly
  BY <1>2, PrefixInvariant
<1>3. CASE OneOperator
  BY <1>1, <1>3, OperatorInvariant, PTL
<1> QED
  BY <1>2, <1>3 DEF Orderly

(* A history without holes leaves no room for a pending migration below an *)
(* applied one, ...                                                        *)
LEMMA NothingOutOfOrder ==
  ASSUME PrefixInv, NEW d, ValidateSequence(d)
  PROVE  OutOfOrder(d, history) = {}
BY MigrationAssumption
DEF PrefixInv, HistoryPrefix, ValidateSequence, OutOfOrder, PlanUp, Recorded,
    Files

(* ... which is the only check of up that validate does not make.          *)
THEOREM ValidateForetellsUp ==
  ASSUME Orderly
  PROVE  Spec => []CleanValidateMeansUpRuns
<1>1. PrefixInv => CleanValidateMeansUpRuns
  <2> SUFFICES ASSUME PrefixInv, Loads(disk),
                      ~HasValidationErrors(Validate(disk, history))
               PROVE  UpAccepts(disk, history)
    BY DEF CleanValidateMeansUpRuns
  <2> DEFINE issues == Validate(disk, history)
  <2>1. ASSUME NEW S, NEW v \in S, Issue("error", S) \subseteq issues
        PROVE  FALSE
    <3>1. [severity |-> "error", version |-> v] \in issues
      BY <2>1 DEF Issue
    <3> QED
      BY <3>1 DEF HasValidationErrors
  <2>2. /\ Issue("error", {v \in {0} : ~ValidateSequence(disk)})
              \subseteq issues
        /\ Issue("error", Missing(disk, history)
                            \cup Mismatched(disk, history)) \subseteq issues
    BY DEF Validate
  <2>3. ValidateSequence(disk)
    BY <2>1, <2>2
  <2>4. Missing(disk, history) = {} /\ Mismatched(disk, history) = {}
    BY <2>1, <2>2
  <2> QED
    BY <2>3, <2>4, NothingOutOfOrder DEF UpAccepts
<1> QED
  BY <1>1, OrderlyPrefix, PTL

(* status, whatever it has read in the meantime, shows the rows as a       *)
(* prefix.                                                                 *)
THEOREM StatusIsInOrder ==
  ASSUME Orderly
  PROVE  Spec => []StatusShowsHistory
<1>1. PrefixInv => StatusShowsHistory
  <2> SUFFICES ASSUME PrefixInv, NEW p \in Procs
               PROVE  LET shown == Status(loaded[p], history)
                          applied == {i.version : i \in {j \in shown :
                                                     j.state = "applied"}}
                      IN  /\ applied = Recorded(history)
                          /\ \A i \in shown, v \in applied :
                                i.state = "pending" /\ 0 < i.version
                                    => v < i.version
    BY DEF StatusShowsHistory
  <2> DEFINE shown == Status(loaded[p], history)
             applied == {i.version : i \in {j \in shown :
                                               j.state = "applied"}}
  <2>1. applied = Recorded(history)
    <3>1. \A v \in Recorded(history) :
            [version |-> v, state |-> "applied"] \in shown
      BY DEF Status
    <3>2. \A j \in shown : j.state = "applied" => j.version \in Recorded(history)
      BY DEF Status
    <3>3. applied \subseteq Recorded(history)
      BY <3>2
    <3>4. ASSUME NEW v \in Recorded(history) PROVE v \in applied
      <4> DEFINE i == [version |-> v, state |-> "applied"]
      <4>1. i \in {j \in shown : j.state = "applied"} /\ i.version = v
        BY <3>1
      <4> HIDE DEF i
      <4> QED
        BY <4>1
    <3> QED
      BY <3>3, <3>4
  <2>2. ASSUME NEW i \in shown, i.state = "pending"
        PROVE  i.version \in Versions \ Recorded(history)
    BY <2>2 DEF Status, Files, Recorded
  <2>3. ASSUME NEW i \in shown, NEW v \in Recorded(history),
               i.state = "pending", 0 < i.version
        PROVE  v < i.version
    <3>1. i.version \in Versions \ Recorded(history)
      BY <2>2, <2>3
    <3>2. ~(i.version < v)
      BY <2>3, <3>1 DEF PrefixInv, HistoryPrefix
    <3>3. v \in Nat /\ i.version \in Nat /\ v # i.version
      BY <3>1, MigrationAssumption DEF Recorded
    <3> QED
      BY <3>2, <3>3
  <2> QED
    BY <2>1, <2>3
<1> QED
  BY <1>1, OrderlyPrefix, PTL

(* Files that match every row and have no gap are taken up again: only a   *)
(* changed or missing file, or a gap, makes up refuse.                     *)
THEOREM MatchingFilesAreAccepted ==
  ASSUME Orderly
  PROVE  Spec => MatchingHistoryIsAccepted
<1>1. PrefixInv => \A p \in Procs :
        RefuseUp(p) =>
          \/ Missing(loaded[p], history) # {}
          \/ Mismatched(loaded[p], history) # {}
          \/ ~ValidateSequence(loaded[p])
  BY NothingOutOfOrder DEF RefuseUp, UpAccepts
<1> QED
  BY <1>1, OrderlyPrefix, PTL DEF Spec, MatchingHistoryIsAccepted

-----------------------------------------------------------------------------
(* up --dry-run, whatever else runs at the same time, writes nothing and   *)
(* does not even create the history table.  Only down ignores the flag.    *)
THEOREM DryRunsChangeNothing ==
  ASSUME Downers = {}
  PROVE  Spec => DryRunChangesNothing
<1>1. ControlInv /\ [Next]_vars =>
        \A p \in Procs :
          cmd[p] \in {"up-dry", "down-dry"} /\ pc'[p] # pc[p]
            => UNCHANGED database
  <2> SUFFICES ASSUME ControlInv, StepKinds, NEW q \in Procs,
                      cmd[q] \in {"up-dry", "down-dry"}, pc'[q] # pc[q]
               PROVE  UNCHANGED database
    BY NextKinds
  <2> USE DEF ControlInv, TypeInv, TypeOK
  <2>1. cmd[q] = "up-dry" /\ pc[q] \in {"load", "check"}
    BY DEF ControlOK, Reverting
  <2>2. ASSUME NEW p \in Procs,
               \/ Finish(p) \/ AcquireUpLock(p) \/ LoadDir(p) \/ CheckUp(p)
               \/ CheckDown(p) \/ CheckBaseline(p)
        PROVE  UNCHANGED database
    BY <2>2 DEF Finish, AcquireUpLock, LoadDir, CheckUp, CheckDown,
                CheckBaseline
  <2>3. ASSUME NEW p \in Procs, NEW c \in Commands, Start(p, c)
        PROVE  UNCHANGED database
    BY <2>3 DEF Start
  <2>4. ASSUME NEW p \in Procs, CreateHistoryTable(p) PROVE FALSE
    BY <2>1, <2>4 DEF CreateHistoryTable, Goto
  <2>5. ASSUME NEW p \in Procs, NEW v \in Versions,
               Exec(p, v) \/ ExecCut(p, v) \/ Insert(p, v) \/ Delete(p, v)
        PROVE  FALSE
    BY <2>1, <2>5 DEF Exec, ExecCut, Insert, Delete, End, Goto
  <2>6. ASSUME NEW p \in Procs, NEW v \in Versions,
               CommitUp(p, v) \/ CommitDown(p, v) \/ CommitBaseline(p, v)
        PROVE  FALSE
    BY <2>1, <2>6 DEF CommitUp, CommitDown, CommitBaseline, End, Goto
  <2>7. CASE UNCHANGED pc
    BY <2>7
  <2> QED
    BY <2>2, <2>3, <2>4, <2>5, <2>6, <2>7
    DEF StepKinds, Repair, LoseSession, DevWrites, vars
<1> QED
  BY <1>1, ControlInvariant, PTL DEF Spec, DryRunChangesNothing

=============================================================================
