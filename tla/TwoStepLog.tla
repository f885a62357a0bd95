----------------------------- MODULE TwoStepLog -----------------------------
(***************************************************************************)
(* What is left of the promise of MigrationLog where a server commits a    *)
(* statement of its own accord: the next migration may be run in one step  *)
(* and recorded in a later one, or be run again before it is recorded, or  *)
(* never be recorded, if the commands that run it die.  Until it is, no    *)
(* other migration is run.                                                 *)
(***************************************************************************)
EXTENDS MigrationLog

CONSTANT Again  \* whether a migration may be run after it has been recorded

IsNext(v) == v > 0 /\ applied = {w \in Versions : 0 < w /\ w < v}

Run(v) ==
    /\ IsNext(v) \/ (Again /\ v \in applied)
    /\ schema' = [schema EXCEPT ![v] = @ + 1]
    /\ UNCHANGED applied

Record(v) ==
    /\ IsNext(v)
    /\ schema[v] > 0
    /\ applied' = applied \cup {v}
    /\ UNCHANGED schema

RunAndRecord(v) ==
    /\ IsNext(v)
    /\ schema' = [schema EXCEPT ![v] = @ + 1]
    /\ applied' = applied \cup {v}

TwoStepNext == \E v \in Versions : Run(v) \/ Record(v) \/ RunAndRecord(v)

TwoStepSpec == Init /\ [][TwoStepNext]_<<applied, schema>>

=============================================================================
