------------------------------ MODULE Migration ------------------------------
(***************************************************************************)
(* The pure part of internal/migration: what LoadDir, ValidateSequence,    *)
(* PlanUp and Validate compute from a migrations directory and the history *)
(* table.  A directory maps each version to the content of its file; the   *)
(* history table maps each version to the checksum of its row.  SHA-256 is *)
(* taken to be free of collisions, so a content stands for its checksum.   *)
(***************************************************************************)
EXTENDS Naturals

CONSTANTS
    Versions,       \* version numbers a file name can carry (0 is one of them)
    Contents,       \* contents of loadable files, each also its own checksum
    Irreversible,   \* the contents whose down section is empty
    NoFile,         \* a version without a file
    Broken,         \* a version LoadDir fails on: no up marker, an empty up
                    \* section, or two files with one version number
    NoRow           \* a version without a history row

ASSUME MigrationAssumption ==
    /\ Versions \subseteq Nat
    /\ Irreversible \subseteq Contents
    /\ {NoFile, Broken, NoRow} \cap Contents = {}
    /\ NoFile # Broken

Disks == [Versions -> Contents \cup {NoFile, Broken}]

Histories == [Versions -> Contents \cup {NoRow}]

NoFiles == [v \in Versions |-> NoFile]

NoRows == [v \in Versions |-> NoRow]

Files(d) == {v \in Versions : d[v] # NoFile}

Recorded(h) == {v \in Versions : h[v] # NoRow}

-----------------------------------------------------------------------------
(* LoadDir parses every file and gives up on the first one it cannot use. *)
Loads(d) == \A v \in Versions : d[v] # Broken

(* Mutants of ValidateSequence: any first version will do; no check. *)
SequenceFromAnywhere(d) ==
    \A v, w \in Files(d) : v < w => v..w \subseteq Files(d)
SequenceUnchecked(d) == 0 \notin Files(d)

(* The loaded versions are 1, 2, ..., n. *)
ValidateSequence(d) == \A v \in Files(d) : v > 0 /\ 1..v \subseteq Files(d)

(* The pending migrations; the runner takes them in increasing order. *)
PlanUp(d, h) == Files(d) \ Recorded(h)

Missing(d, h) == Recorded(h) \ Files(d)

Mismatched(d, h) == {v \in Recorded(h) \cap Files(d) : d[v] # h[v]}

(* Mutant of OutOfOrder: the applied migrations are not left out. *)
OutOfOrderEver(d, h) == {v \in Files(d) : \E w \in Recorded(h) : v < w}

(* A pending migration below an applied one is never run. *)
OutOfOrder(d, h) ==
    {v \in PlanUp(d, h) : \E w \in Recorded(h) : v < w}

(* What UpWithVerbose requires before it runs anything. *)
UpAccepts(d, h) ==
    /\ Missing(d, h) = {}
    /\ Mismatched(d, h) = {}
    /\ ValidateSequence(d)
    /\ OutOfOrder(d, h) = {}

(* Mutant of IsLast: the first row instead. *)
IsFirst(h, v) == v \in Recorded(h) /\ \A w \in Recorded(h) : v <= w

(* The last row of GetApplied, which is ordered by version. *)
IsLast(h, v) == v \in Recorded(h) /\ \A w \in Recorded(h) : w <= v

(* Down reverts v if its file is there and has a down section.  The        *)
(* checksum of the file is not compared with the row.                      *)
Revertible(d, v) == d[v] \in Contents \ Irreversible

-----------------------------------------------------------------------------
Issue(severity, S) == {[severity |-> severity, version |-> v] : v \in S}

(* Mutant of Validate: rows without a file are passed over. *)
ValidateFilesOnly(d, h) ==
    Issue("error", {v \in {0} : ~ValidateSequence(d)})
        \cup Issue("error", Mismatched(d, h))
        \cup Issue("warning", {v \in Files(d) : d[v] \in Irreversible})

(* Version 0 stands for the one issue about the sequence as a whole. *)
Validate(d, h) ==
    Issue("error", {v \in {0} : ~ValidateSequence(d)})
        \cup Issue("error", Missing(d, h) \cup Mismatched(d, h))
        \cup Issue("warning", {v \in Files(d) : d[v] \in Irreversible})

(* Mutant of Status: it lists the files and nothing else. *)
StatusOfFiles(d, h) ==
    {[version |-> v, state |-> IF v \in Recorded(h) THEN "applied"
                               ELSE "pending"] : v \in Files(d)}

(* An entry per version, also for a row without a file; the runner sorts   *)
(* them.                                                                   *)
Status(d, h) ==
    {[version |-> v, state |-> IF v \in Recorded(h) THEN "applied"
                               ELSE "pending"] : v \in Files(d) \cup Recorded(h)}

HasValidationErrors(issues) == \E i \in issues : i.severity = "error"

=============================================================================
