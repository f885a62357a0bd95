------------------------------ MODULE MCRunner ------------------------------
(***************************************************************************)
(* Values for the constants of Runner that a configuration cannot write.   *)
(* Contents are strings: "i" cannot be reverted, the others can.           *)
(***************************************************************************)
EXTENDS RunnerInv, TLC

(* A text creates the object of its own name, if there is one. *)
CreatesNamesake == [c \in Contents |-> {c} \cap Objects]

(* Every version has a file. *)
AllFiles == {[v \in Versions |-> "a"]}

(* The last version, or the one before it, has no file yet; an edit may    *)
(* create it, or the file of version 0, or remove another.                 *)
SomeFiles ==
    {[v \in Versions |-> IF v \in {0, m} THEN NoFile ELSE "a"] :
        m \in {w \in Versions : \A u \in Versions : u <= w + 1}}

(* The last migration has no down section. *)
LastIrreversible ==
    {[v \in Versions |-> IF \E w \in Versions : v < w THEN "a" ELSE "i"]}

(* A migration that creates a table, one with DDL that can be run again,   *)
(* and one that inserts rows.                                              *)
OneOfEachKind ==
    {[v \in Versions |-> CASE v = 1 -> "a" [] v = 2 -> "b" [] OTHER -> "d"]}

SymmetricProcs == Permutations(Procs)

=============================================================================
