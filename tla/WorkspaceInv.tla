---------------------------- MODULE WorkspaceInv ----------------------------
(***************************************************************************)
(* The inductive invariant of Workspace: what each command may rely on     *)
(* between two of its steps, whatever the others do.                       *)
(***************************************************************************)
EXTENDS Workspace

(* A create that has chosen a number and has not written its file. *)
Creating(p) ==
    proc[p].cmd = "create" /\ proc[p].pc \in {"stat", "truncate", "write"}

(* An init that has made the directory. *)
Preparing(p) ==
    proc[p].cmd = "init" /\ proc[p].pc \in {"stat", "truncate", "write"}

(* The directory of a command is there once the command has got past it,   *)
(* and a create then has a file to write.                                  *)
DirectoryMade(p) ==
    /\ Creating(p) \/ Preparing(p) \/ At(p, "create", "list")
           \/ proc[p].pc = "parse"
       => Dir(p) \in existing
    /\ Creating(p) => Target(p).name # ""
    /\ proc[p].pc \in {"open", "parse"} => proc[p].cmd = "load"

(* What stands where a command is about to write came after its look. *)
LookedBefore(p) ==
    /\ At(p, "create", "truncate") /\ files[Dir(p)][Target(p)] # NoFile
       => <<Dir(p), Target(p)>> \in changed[p]
    /\ At(p, "init", "truncate") /\ config # Absent
       => <<"config">> \in changed[p]

(* A file that is now as it was when p read the directory; p itself writes *)
(* its target.                                                             *)
Seen(p, f) ==
    /\ Untouched(p, f)
    /\ proc[p].pc # "stat" => f # Target(p)

(* The number of a create is one more than the largest of those it read. *)
NumberIsNext(p) ==
    Creating(p) /\ Target(p).version # Unnumbered
    => /\ Target(p).version > 0
       /\ \A f \in Listed(Dir(p)) :
            Seen(p, f) => f.version \in 0..(Target(p).version - 1)
       /\ \/ Target(p).version = 1
          \/ \E f \in Paths :
                /\ f.version = Target(p).version - 1
                /\ Seen(p, f) => f \in Listed(Dir(p))

(* The files that p has read and nobody has touched. *)
Read(p) ==
    {f \in Listed(Dir(p)) : Untouched(p, f) /\ f \notin proc[p].listing}

(* A command that loads a directory has the contents of the files it has   *)
(* read, no two of them share a number, and what else it has comes from a  *)
(* file that somebody has touched.                                         *)
ReadAsTheyAre(p) ==
    /\ proc[p].pc # "parse" => \A v \in Versions : proc[p].loaded[v] = NoFile
    /\ proc[p].pc = "parse" =>
        /\ \A f \in proc[p].listing : Untouched(p, f) => f \in Listed(Dir(p))
        /\ \A f \in Read(p) :
            /\ f.version # Unnumbered
            /\ Splits(files[Dir(p)][f])
            /\ proc[p].loaded[f.version] = files[Dir(p)][f]
            /\ \A g \in Read(p) : f.version = g.version => f = g
        /\ \A v \in Versions : proc[p].loaded[v] # NoFile =>
            \E f \in Paths : f.version = v /\ (Untouched(p, f) => f \in Read(p))

WorkspaceIInv ==
    /\ TypeOK
    /\ InitPreparesDirectory
    /\ \A p \in Procs :
        /\ DirectoryMade(p)
        /\ LookedBefore(p)
        /\ NumberIsNext(p)
        /\ ReadAsTheyAre(p)

=============================================================================
