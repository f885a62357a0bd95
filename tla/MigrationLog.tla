---------------------------- MODULE MigrationLog ----------------------------
(***************************************************************************)
(* What a migration runner promises: the applied migrations are the first  *)
(* ones, each has taken effect exactly once, and one step applies the next *)
(* or reverts the last, schema and history together.                       *)
(***************************************************************************)
EXTENDS Integers

CONSTANT Versions

VARIABLES
    applied,    \* the versions in the history
    schema      \* how often each version is in effect

Init ==
    /\ applied = {}
    /\ schema = [v \in Versions |-> 0]

Apply(v) ==
    /\ v > 0
    /\ applied = {w \in Versions : 0 < w /\ w < v}
    /\ applied' = applied \cup {v}
    /\ schema' = [schema EXCEPT ![v] = 1]

Revert(v) ==
    /\ v \in applied
    /\ \A w \in applied : w <= v
    /\ applied' = applied \ {v}
    /\ schema' = [schema EXCEPT ![v] = 0]

Next == \E v \in Versions : Apply(v) \/ Revert(v)

Spec == Init /\ [][Next]_<<applied, schema>>

=============================================================================
