-------------------------- MODULE WorkspaceProofs --------------------------
(***************************************************************************)
(* Theorems about Workspace for every set of commands, every text of the   *)
(* files, every environment and every interleaving.                        *)
(***************************************************************************)
EXTENDS WorkspaceInv, FileProofs

(* The steps by what they change: the ways a command can end without       *)
(* writing are one case.                                                   *)
StepKinds ==
    \/ \E p \in Procs : Finish(p)
    \/ \E p \in Procs, c \in Commands : Start(p, c)
    \/ \E p \in Procs : LoadConfig(p)
    \/ \E p \in Procs : OpenRunner(p)
    \/ \E p \in Procs : MakeDir(p)
    \/ \E p \in Procs : ChooseVersion(p)
    \/ \E p \in Procs : NextSuffix(p)
    \/ \E p \in Procs : NameIsFree(p)
    \/ \E p \in Procs : TruncateMigration(p)
    \/ \E p \in Procs : WriteMigration(p)
    \/ \E p \in Procs : ConfigIsMissing(p)
    \/ \E p \in Procs : TruncateConfig(p)
    \/ \E p \in Procs : WriteConfig(p)
    \/ \E p \in Procs : ListDir(p)
    \/ \E p \in Procs : \E f \in proc[p].listing : ParseFile(p, f)
    \/ \E x \in EditPlaces, t \in EditTexts \cup {NoFile} :
        DevWrites(x[1], x[2], t)
    \/ \E c \in InitialConfigs : DevConfigures(c)
    \/ UNCHANGED vars

LEMMA WorkspaceStepKinds == [Next]_vars => StepKinds
<1> SUFFICES ASSUME Next PROVE StepKinds
  BY DEF StepKinds
<1>1. CASE Quiescent
  BY <1>1 DEF Quiescent, StepKinds
<1>2. CASE \/ \E x \in EditPlaces, t \in EditTexts \cup {NoFile} :
                DevWrites(x[1], x[2], t)
           \/ \E c \in InitialConfigs : DevConfigures(c)
  BY <1>2 DEF StepKinds
<1>3. ASSUME NEW p \in Procs,
             (\E c \in Commands : Start(p, c)) \/ Fails(p)
      PROVE  StepKinds
  BY <1>3 DEF StepKinds, Fails
<1>4. ASSUME NEW p \in Procs, InitStep(p)
      PROVE  StepKinds
  BY <1>4 DEF StepKinds, InitStep, ConfigExists
<1>5. ASSUME NEW p \in Procs, CreateStep(p)
      PROVE  StepKinds
  BY <1>5 DEF StepKinds, CreateStep, ChooseVersionFails
<1>6. ASSUME NEW p \in Procs, LoadStep(p)
      PROVE  StepKinds
  BY <1>6 DEF StepKinds, LoadStep, OpenRunnerFails, ListDirFails,
              ParseFileFails, DirIsLoaded
<1>7. ASSUME NEW p \in Procs,
             \/ LoadConfig(p) \/ LoadConfigFails(p)
             \/ MakeDir(p) \/ MakeDirFails(p)
      PROVE  StepKinds
  BY <1>7 DEF StepKinds, LoadConfigFails, MakeDirFails
<1> QED
  BY <1>1, <1>2, <1>3, <1>4, <1>5, <1>6, <1>7 DEF Next, Step

-----------------------------------------------------------------------------
(* config.Load gives settings. *)
LEMMA LoadType ==
  ASSUME NEW flags \in Settings, NEW e \in Environments,
         NEW file \in FileSettings \cup {Absent, Malformed},
         LoadSucceeds(flags, e, file)
  PROVE  Load(flags, e, file) \in Settings
<1>1. file \in FileSettings \cup {Absent}
  BY DEF LoadSucceeds
<1>2. e.plain \in Settings /\ e.shift \in Settings
  BY DEF Environments
<1>3. Value(flags, e, file, "database_url") \in URLs \cup {""}
  BY <1>1, <1>2, ConfigAssumption
     DEF Value, EnvValue, FileValue, Defaults, Settings, FileSettings
<1>4. Value(flags, e, file, "migrations_dir") \in Dirs \cup {""}
  BY <1>1, <1>2, ConfigAssumption
     DEF Value, EnvValue, FileValue, Defaults, Settings, FileSettings
<1>5. Value(flags, e, file, "table_name") \in Tables \cup {""}
  BY <1>1, <1>2, ConfigAssumption
     DEF Value, EnvValue, FileValue, Defaults, Settings, FileSettings
<1> QED
  BY <1>3, <1>4, <1>5 DEF Load, Settings, Keys

LEMMA MaxVersionIsNat == MaxVersion \in Nat
BY WorkspaceAssumption, Zenon

(* nextMigrationVersion finds a number. *)
LEMMA NextVersionExists ==
  ASSUME NEW d \in Dirs, files \in [Dirs -> Directories],
         \A f \in Listed(d) : f.version # Unnumbered
  PROVE  /\ NextVersion(d) \in 1..(MaxVersion + 1)
         /\ \A f \in Listed(d) : f.version < NextVersion(d)
         /\ NextVersion(d) = 1
              \/ \E f \in Listed(d) : f.version = NextVersion(d) - 1
<1> DEFINE Numbers == {f.version + 1 : f \in Listed(d)}
           IsNext(n) == /\ \A f \in Listed(d) : f.version < n
                        /\ n = 1 \/ \E f \in Listed(d) : f.version = n - 1
<1>1. \A f \in Listed(d) : f.version \in 0..MaxVersion
  BY DEF Listed, Paths
<1>2. Numbers \subseteq 1..(MaxVersion + 1) /\ MaxVersion + 1 \in Nat
  <2>1. MaxVersion \in Nat
    BY MaxVersionIsNat
  <2>2. ASSUME NEW f \in Listed(d)
        PROVE  f.version + 1 \in 1..(MaxVersion + 1)
    BY <1>1, <2>1
  <2> QED
    BY <2>1, <2>2
<1>3. \E n \in 1..(MaxVersion + 1) : IsNext(n)
  <2>1. CASE Numbers = {}
    <3>1. Listed(d) = {}
      BY <2>1
    <3>2. 1 \in 1..(MaxVersion + 1)
      BY MaxVersionIsNat
    <3>3. IsNext(1)
      BY <3>1
    <3> QED
      BY <3>2, <3>3
  <2>2. CASE Numbers # {}
    <3>1. PICK n \in Numbers : \A m \in Numbers : m <= n
      <4> HIDE DEF Numbers
      <4> QED
        BY <1>2, <2>2, Largest
    <3>2. ASSUME NEW f \in Listed(d) PROVE f.version < n
      <4>1. f.version + 1 \in Numbers
        OBVIOUS
      <4>2. f.version + 1 <= n
        BY <3>1, <4>1
      <4> QED
        BY <1>1, <1>2, <4>2
    <3>3. PICK g \in Listed(d) : n = g.version + 1
      BY <3>1
    <3>4. g.version = n - 1
      BY <1>1, <3>3
    <3> QED
      BY <1>2, <3>1, <3>2, <3>4
  <2> QED
    BY <2>1, <2>2
<1>4. NextVersion(d) = CHOOSE n \in 1..(MaxVersion + 1) : IsNext(n)
  BY DEF NextVersion
<1> QED
  BY <1>3, <1>4

-----------------------------------------------------------------------------
(* The fields of a process, one by one. *)
LEMMA ProcFields ==
  ASSUME NEW r \in ProcStates
  PROVE  /\ r.pc \in Steps \cup {"idle"}
         /\ r.cmd \in Commands \cup {"none"}
         /\ r.flags \in Settings
         /\ r.cfg \in Settings
         /\ r.cfg.migrations_dir \in Dirs \cup {""}
         /\ r.target.version \in 0..MaxVersion \cup {Unnumbered}
         /\ r.target.name \in Names \cup {""}
         /\ r.target.suffix \in 1..MaxSuffix
         /\ r.target.name # "" => r.target \in Paths
         /\ r.listing \subseteq Paths
         /\ r.loaded \in [Versions -> AllTexts \cup {NoFile}]
         /\ r.gone \in BOOLEAN
BY DEF ProcStates, Settings, Paths

LEMMA IdleType == Idle \in ProcStates
<1>1. NoSettings \in Settings
  BY DEF NoSettings, Settings, Keys
<1>2. 0 \in 0..MaxVersion /\ 1 \in 1..MaxSuffix
  <2>1. MaxSuffix \in Nat \ {0}
    BY WorkspaceAssumption, Zenon
  <2> QED
    BY <2>1, MaxVersionIsNat
<1> QED
  BY <1>1, <1>2 DEF Idle, ProcStates

LEMMA TypeInit == Init => TypeOK
<1> SUFFICES ASSUME Init PROVE TypeOK
  OBVIOUS
<1>1. config \in FileSettings \cup {Absent, Malformed}
  BY WorkspaceAssumption, Zenon DEF Init
<1>2. files \in [Dirs -> Directories] /\ existing \subseteq Dirs
  <2>1. PICK initial \in InitialFiles :
          /\ files = [d \in Dirs |->
                        IF d = DefaultDir THEN initial ELSE EmptyDir]
          /\ existing = IF initial = EmptyDir THEN {} ELSE {DefaultDir}
    BY DEF Init
  <2>2. initial \in Directories
    BY WorkspaceAssumption, Zenon
  <2>3. EmptyDir \in Directories
    BY DEF EmptyDir, Directories
  <2>4. DefaultDir \in Dirs
    BY ConfigAssumption, Zenon
  <2> QED
    BY <2>1, <2>2, <2>3, <2>4
<1>3. env \in Environments
  BY WorkspaceAssumption, Zenon DEF Init
<1>4. proc \in [Procs -> ProcStates] /\ changed \in [Procs -> SUBSET Places]
  BY IdleType DEF Init
<1>5. calls \in 0..MaxCalls /\ edits \in 0..MaxEdits
  <2>1. MaxCalls \in Nat /\ MaxEdits \in Nat
    BY WorkspaceAssumption, Zenon
  <2> QED
    BY <2>1 DEF Init
<1> QED
  BY <1>1, <1>2, <1>3, <1>4, <1>5 DEF TypeOK

(* A step that sets the state of one process. *)
LEMMA OneProcess ==
  ASSUME TypeOK, NEW p \in Procs, NEW r \in ProcStates,
         proc' = [proc EXCEPT ![p] = r]
  PROVE  proc' \in [Procs -> ProcStates]
BY DEF TypeOK

LEMMA LookType ==
  ASSUME TypeOK, NEW p \in Procs, NEW x, Look(p, x)
  PROVE  changed' \in [Procs -> SUBSET Places]
BY DEF TypeOK, Look

LEMMA TouchType ==
  ASSUME TypeOK, NEW p \in Procs, NEW x \in Places, Touch(p, x)
  PROVE  changed' \in [Procs -> SUBSET Places]
BY DEF TypeOK, Touch

LEMMA EditType ==
  ASSUME TypeOK, NEW x \in Places, NEW deleted, Edit(x, deleted)
  PROVE  /\ proc' \in [Procs -> ProcStates]
         /\ changed' \in [Procs -> SUBSET Places]
         /\ edits' \in 0..MaxEdits
<1>1. changed' \in [Procs -> SUBSET Places]
  BY DEF TypeOK, Edit
<1>2. \A q \in Procs : [proc[q] EXCEPT !.gone = TRUE] \in ProcStates
  BY DEF TypeOK, ProcStates
<1>3. proc' \in [Procs -> ProcStates]
  BY <1>2 DEF TypeOK, Edit
<1>4. edits' \in 0..MaxEdits
  <2>1. MaxEdits \in Nat
    BY WorkspaceAssumption, Zenon
  <2> QED
    BY <2>1 DEF TypeOK, Edit
<1> QED
  BY <1>1, <1>3, <1>4

(* What is left alone by a step that only moves a process. *)
LEMMA WorkspaceTypeKept ==
  ASSUME TypeOK, UNCHANGED workspace, UNCHANGED bounds,
         proc' \in [Procs -> ProcStates],
         changed' \in [Procs -> SUBSET Places]
  PROVE  TypeOK'
BY DEF TypeOK, workspace, bounds

LEMMA TypeFinish ==
  ASSUME TypeOK, NEW p \in Procs, Finish(p) PROVE TypeOK'
<1>1. proc' \in [Procs -> ProcStates]
  BY IdleType, OneProcess DEF Finish, End
<1>2. changed' \in [Procs -> SUBSET Places]
  BY LookType DEF Finish
<1> QED
  BY <1>1, <1>2, WorkspaceTypeKept DEF Finish

LEMMA TypeStart ==
  ASSUME TypeOK, NEW p \in Procs, NEW c \in Commands, Start(p, c) PROVE TypeOK'
<1>1. PICK given \in Flags, a \in Arguments :
        proc' = [proc EXCEPT ![p].pc = "config", ![p].cmd = c,
                    ![p].flags = given,
                    ![p].target.name = IF c = "create" THEN Sanitized[a]
                                       ELSE ""]
  BY DEF Start
<1> DEFINE name == IF c = "create" THEN Sanitized[a] ELSE ""
           r == [proc[p] EXCEPT !.pc = "config", !.cmd = c, !.flags = given,
                                !.target.name = name]
<1>2. name \in Names \cup {""} /\ given \in Settings
  <2>1. Sanitized \in [Arguments -> Names \cup {""}] /\ Flags \subseteq Settings
    BY WorkspaceAssumption, Zenon
  <2> QED
    BY <2>1
<1>3. r \in ProcStates
  <2>1. proc[p] \in ProcStates
    BY DEF TypeOK
  <2> HIDE DEF name
  <2> QED
    BY <1>2, <2>1 DEF ProcStates, Steps
<1>4. proc' = [proc EXCEPT ![p] = r]
  BY <1>1
<1>5. proc' \in [Procs -> ProcStates]
  BY <1>3, <1>4, OneProcess
<1>6. calls' \in 0..MaxCalls
  <2>1. MaxCalls \in Nat
    BY WorkspaceAssumption, Zenon
  <2>2. calls < MaxCalls /\ calls' = calls + 1
    BY DEF Start
  <2> QED
    BY <2>1, <2>2 DEF TypeOK
<1> QED
  BY <1>5, <1>6 DEF TypeOK, Start, workspace

LEMMA TypeLoadConfig ==
  ASSUME TypeOK, NEW p \in Procs, LoadConfig(p) PROVE TypeOK'
<1> DEFINE loaded == Load(proc[p].flags, env, config)
           next == IF proc[p].cmd = "load" THEN "open" ELSE "mkdir"
           r == [proc[p] EXCEPT !.cfg = loaded, !.pc = next]
<1>1. proc[p] \in ProcStates
  BY DEF TypeOK
<1>2. loaded \in Settings
  BY <1>1, LoadType, ProcFields DEF LoadConfig, TypeOK
<1>3. r \in ProcStates
  <2> HIDE DEF loaded
  <2> QED
    BY <1>1, <1>2 DEF ProcStates, Steps
<1>4. proc' = [proc EXCEPT ![p] = r]
  BY DEF LoadConfig
<1> QED
  BY <1>3, <1>4, OneProcess, WorkspaceTypeKept DEF LoadConfig, TypeOK

LEMMA TypeOpenRunner ==
  ASSUME TypeOK, NEW p \in Procs, OpenRunner(p) PROVE TypeOK'
<1> DEFINE r == [proc[p] EXCEPT !.pc = "list"]
<1>1. r \in ProcStates
  BY DEF TypeOK, ProcStates, Steps
<1>2. proc' = [proc EXCEPT ![p] = r]
  BY DEF OpenRunner
<1> QED
  BY <1>1, <1>2, OneProcess, WorkspaceTypeKept DEF OpenRunner, TypeOK

LEMMA TypeMakeDir ==
  ASSUME TypeOK, NEW p \in Procs, MakeDir(p) PROVE TypeOK'
<1> DEFINE next == IF proc[p].cmd = "init" THEN "stat" ELSE "list"
           r == [proc[p] EXCEPT !.pc = next]
<1>1. r \in ProcStates
  BY DEF TypeOK, ProcStates, Steps
<1>2. proc' = [proc EXCEPT ![p] = r]
  BY DEF MakeDir
<1>3. proc' \in [Procs -> ProcStates]
  BY <1>1, <1>2, OneProcess
<1>4. Dir(p) \in Dirs
  <2>1. proc[p] \in ProcStates
    BY DEF TypeOK
  <2> QED
    BY <2>1, ProcFields DEF MakeDir, Given, Dir
<1>5. existing' \subseteq Dirs
  BY <1>4 DEF MakeDir, MkdirAll, TypeOK
<1> QED
  BY <1>3, <1>5 DEF MakeDir, TypeOK, bounds

LEMMA TypeChooseVersion ==
  ASSUME TypeOK, NEW p \in Procs, DirectoryMade(p), ChooseVersion(p)
  PROVE  TypeOK'
<1> DEFINE n == Numbered(NextVersion(Dir(p)))
           r == [proc[p] EXCEPT !.target.version = n, !.pc = "stat"]
<1>1. Dir(p) \in Dirs
  BY DEF ChooseVersion, DirectoryMade, TypeOK
<1>2. NextVersion(Dir(p)) \in 1..(MaxVersion + 1)
  BY <1>1, NextVersionExists DEF ChooseVersion, TypeOK
<1>3. n \in 0..MaxVersion \cup {Unnumbered}
  BY <1>2, MaxVersionIsNat DEF Numbered
<1>4. proc[p] \in ProcStates
  BY DEF TypeOK
<1>5. r \in ProcStates
  <2> HIDE DEF n
  <2> QED
    BY <1>3, <1>4 DEF ProcStates, Steps
<1>6. proc' = [proc EXCEPT ![p] = r]
  BY DEF ChooseVersion
<1>7. changed' \in [Procs -> SUBSET Places]
  BY LookType DEF ChooseVersion
<1> QED
  BY <1>5, <1>6, <1>7, OneProcess, WorkspaceTypeKept DEF ChooseVersion

LEMMA TypeNextSuffix ==
  ASSUME TypeOK, NEW p \in Procs, NextSuffix(p) PROVE TypeOK'
<1> DEFINE n == proc[p].target.suffix + 1
           r == [proc[p] EXCEPT !.target.suffix = n]
<1>1. proc[p] \in ProcStates
  BY DEF TypeOK
<1>2. n \in 1..MaxSuffix
  <2>1. MaxSuffix \in Nat
    BY WorkspaceAssumption, Zenon
  <2>2. proc[p].target.suffix \in 1..MaxSuffix
    BY <1>1, ProcFields
  <2> QED
    BY <2>1, <2>2 DEF NextSuffix, Target
<1>3. r \in ProcStates
  <2> HIDE DEF n
  <2> QED
    BY <1>1, <1>2 DEF ProcStates
<1>4. proc' = [proc EXCEPT ![p] = r]
  BY DEF NextSuffix
<1> QED
  BY <1>3, <1>4, OneProcess, WorkspaceTypeKept DEF NextSuffix, TypeOK

LEMMA TypeNameIsFree ==
  ASSUME TypeOK, NEW p \in Procs, NameIsFree(p) PROVE TypeOK'
<1> DEFINE r == [proc[p] EXCEPT !.pc = "truncate"]
<1>1. r \in ProcStates
  BY DEF TypeOK, ProcStates, Steps
<1>2. proc' = [proc EXCEPT ![p] = r]
  BY DEF NameIsFree
<1>3. changed' \in [Procs -> SUBSET Places]
  BY LookType DEF NameIsFree
<1> QED
  BY <1>1, <1>2, <1>3, OneProcess, WorkspaceTypeKept DEF NameIsFree

(* A directory stays one when one of its files gets a text. *)
LEMMA FilesType ==
  ASSUME TypeOK, NEW d \in Dirs, NEW f \in Paths,
         NEW t \in AllTexts \cup {NoFile},
         files' = [files EXCEPT ![d][f] = t]
  PROVE  files' \in [Dirs -> Directories]
BY DEF TypeOK, Directories

(* The file of a create is one of a directory. *)
LEMMA CreatingPlace ==
  ASSUME TypeOK, NEW p \in Procs, DirectoryMade(p), Creating(p)
  PROVE  Dir(p) \in Dirs /\ Target(p) \in Paths
<1>1. proc[p] \in ProcStates
  BY DEF TypeOK
<1>2. Dir(p) \in existing /\ Target(p).name # ""
  BY DEF DirectoryMade
<1> QED
  BY <1>1, <1>2, ProcFields DEF TypeOK, Target

LEMMA TypeTruncateMigration ==
  ASSUME TypeOK, NEW p \in Procs, DirectoryMade(p), TruncateMigration(p)
  PROVE  TypeOK'
<1> DEFINE r == [proc[p] EXCEPT !.pc = "write"]
<1>1. r \in ProcStates
  BY DEF TypeOK, ProcStates, Steps
<1>2. proc' = [proc EXCEPT ![p] = r]
  BY DEF TruncateMigration
<1>3. Dir(p) \in Dirs /\ Target(p) \in Paths
  BY CreatingPlace DEF TruncateMigration, Creating, At
<1>4. files' \in [Dirs -> Directories]
  <2>1. <<>> \in AllTexts
    BY DEF AllTexts
  <2> QED
    BY <1>3, <2>1, FilesType DEF TruncateMigration
<1>5. changed' \in [Procs -> SUBSET Places]
  BY <1>3, TouchType DEF TruncateMigration, Places
<1>6. proc' \in [Procs -> ProcStates]
  BY <1>1, <1>2, OneProcess
<1> QED
  BY <1>4, <1>5, <1>6 DEF TruncateMigration, TypeOK, bounds

LEMMA TypeWriteMigration ==
  ASSUME TypeOK, NEW p \in Procs, DirectoryMade(p), WriteMigration(p)
  PROVE  TypeOK'
<1>1. Dir(p) \in Dirs /\ Target(p) \in Paths
  BY CreatingPlace DEF WriteMigration, Creating, At
<1>2. files' \in [Dirs -> Directories]
  <2>1. Template \in AllTexts
    BY DEF AllTexts
  <2> QED
    BY <1>1, <2>1, FilesType DEF WriteMigration, TypeOK
<1>3. changed' \in [Procs -> SUBSET Places]
  BY <1>1, TouchType DEF WriteMigration, Places
<1>4. proc' \in [Procs -> ProcStates]
  BY IdleType, OneProcess DEF WriteMigration, End
<1> QED
  BY <1>2, <1>3, <1>4 DEF WriteMigration, TypeOK, bounds

LEMMA TypeConfigIsMissing ==
  ASSUME TypeOK, NEW p \in Procs, ConfigIsMissing(p) PROVE TypeOK'
<1> DEFINE r == [proc[p] EXCEPT !.pc = "truncate"]
<1>1. r \in ProcStates
  BY DEF TypeOK, ProcStates, Steps
<1>2. proc' = [proc EXCEPT ![p] = r]
  BY DEF ConfigIsMissing
<1>3. changed' \in [Procs -> SUBSET Places]
  BY LookType DEF ConfigIsMissing
<1> QED
  BY <1>1, <1>2, <1>3, OneProcess, WorkspaceTypeKept DEF ConfigIsMissing

LEMMA TypeTruncateConfig ==
  ASSUME TypeOK, NEW p \in Procs, TruncateConfig(p) PROVE TypeOK'
<1> DEFINE r == [proc[p] EXCEPT !.pc = "write"]
<1>1. r \in ProcStates
  BY DEF TypeOK, ProcStates, Steps
<1>2. proc' = [proc EXCEPT ![p] = r]
  BY DEF TruncateConfig
<1>3. changed' \in [Procs -> SUBSET Places]
  BY TouchType DEF TruncateConfig, Places
<1>4. config' \in FileSettings
  BY DEF TruncateConfig, EmptyFile, FileSettings, Keys
<1>5. proc' \in [Procs -> ProcStates]
  BY <1>1, <1>2, OneProcess
<1> QED
  BY <1>3, <1>4, <1>5 DEF TruncateConfig, TypeOK, bounds

(* What init writes. *)
LEMMA ConfigOfType ==
  ASSUME TypeOK, NEW p \in Procs
  PROVE  /\ ConfigOf(p) \in FileSettings
         /\ ConfigOf(p).migrations_dir = Dir(p)
<1>1. proc[p].cfg \in Settings
  BY ProcFields DEF TypeOK
<1> QED
  BY <1>1 DEF ConfigOf, Settings, FileSettings, Dir

LEMMA TypeWriteConfig ==
  ASSUME TypeOK, NEW p \in Procs, WriteConfig(p) PROVE TypeOK'
<1>1. config' \in FileSettings \cup {Absent, Malformed}
  BY ConfigOfType DEF WriteConfig, TypeOK
<1>2. changed' \in [Procs -> SUBSET Places]
  BY TouchType DEF WriteConfig, Places
<1>3. proc' \in [Procs -> ProcStates]
  BY IdleType, OneProcess DEF WriteConfig, End
<1> QED
  BY <1>1, <1>2, <1>3 DEF WriteConfig, TypeOK, bounds

LEMMA TypeListDir ==
  ASSUME TypeOK, NEW p \in Procs, ListDir(p) PROVE TypeOK'
<1> DEFINE listed == Listed(Dir(p))
           r == [proc[p] EXCEPT !.listing = listed, !.pc = "parse"]
<1>1. listed \subseteq Paths
  BY DEF Listed
<1>2. r \in ProcStates
  <2>1. proc[p] \in ProcStates
    BY DEF TypeOK
  <2> HIDE DEF listed
  <2> QED
    BY <1>1, <2>1 DEF ProcStates, Steps
<1>3. proc' = [proc EXCEPT ![p] = r]
  BY DEF ListDir
<1>4. changed' \in [Procs -> SUBSET Places]
  BY LookType DEF ListDir
<1> QED
  BY <1>2, <1>3, <1>4, OneProcess, WorkspaceTypeKept DEF ListDir

LEMMA TypeParseFile ==
  ASSUME TypeOK, NEW p \in Procs, DirectoryMade(p),
         NEW f \in proc[p].listing, ParseFile(p, f)
  PROVE  TypeOK'
<1> DEFINE text == files[Dir(p)][f]
           loaded == [proc[p].loaded EXCEPT ![f.version] = text]
           rest == proc[p].listing \ {f}
           r == [proc[p] EXCEPT !.loaded = loaded, !.listing = rest]
<1>1. proc[p] \in ProcStates
  BY DEF TypeOK
<1>2. f \in Paths /\ rest \subseteq Paths
  BY <1>1, ProcFields
<1>3. Dir(p) \in Dirs
  BY DEF ParseFile, DirectoryMade, TypeOK
<1>4. text \in AllTexts \cup {NoFile}
  BY <1>2, <1>3 DEF TypeOK, Directories
<1>5. loaded \in [Versions -> AllTexts \cup {NoFile}]
  <2> HIDE DEF text
  <2> QED
    BY <1>1, <1>4, ProcFields
<1>6. r \in ProcStates
  <2> HIDE DEF loaded, rest
  <2> QED
    BY <1>1, <1>2, <1>5 DEF ProcStates
<1>7. proc' = [proc EXCEPT ![p] = r]
  BY DEF ParseFile
<1> QED
  BY <1>6, <1>7, OneProcess, WorkspaceTypeKept DEF ParseFile, TypeOK

LEMMA TypeDevWrites ==
  ASSUME TypeOK, NEW x \in EditPlaces, NEW t \in EditTexts \cup {NoFile},
         DevWrites(x[1], x[2], t)
  PROVE  TypeOK'
<1>1. x[1] \in Dirs /\ x[2] \in Paths
  <2>1. EditPlaces \subseteq Dirs \X Paths
    BY WorkspaceAssumption, Zenon
  <2> QED
    BY <2>1
<1>2. t \in AllTexts \cup {NoFile}
  BY DEF AllTexts
<1>3. files' \in [Dirs -> Directories]
  BY <1>1, <1>2, FilesType DEF DevWrites
<1>4. <<x[1], x[2]>> \in Places /\ Edit(<<x[1], x[2]>>, t = NoFile)
  BY <1>1 DEF DevWrites, Places
<1>5. /\ proc' \in [Procs -> ProcStates]
      /\ changed' \in [Procs -> SUBSET Places]
      /\ edits' \in 0..MaxEdits
  BY <1>4, EditType
<1>6. config' = config /\ UNCHANGED <<existing, env, calls>>
  BY DEF DevWrites, Edit
<1> QED
  BY <1>3, <1>5, <1>6 DEF TypeOK

LEMMA TypeDevConfigures ==
  ASSUME TypeOK, NEW c \in InitialConfigs, DevConfigures(c)
  PROVE  TypeOK'
<1>1. config' \in FileSettings \cup {Absent, Malformed}
  <2>1. InitialConfigs \subseteq FileSettings \cup {Absent, Malformed}
    BY WorkspaceAssumption, Zenon
  <2> QED
    BY <2>1 DEF DevConfigures
<1>2. <<"config">> \in Places /\ Edit(<<"config">>, c = Absent)
  BY DEF DevConfigures, Places
<1>3. /\ proc' \in [Procs -> ProcStates]
      /\ changed' \in [Procs -> SUBSET Places]
      /\ edits' \in 0..MaxEdits
  BY <1>2, EditType
<1>4. files' = files /\ UNCHANGED <<existing, env, calls>>
  BY DEF DevConfigures, Edit
<1> QED
  BY <1>1, <1>3, <1>4 DEF TypeOK

-----------------------------------------------------------------------------
(* What a step of another process or of a developer leaves of q: it stays  *)
(* where it is, and what has changed under it is noted.                    *)
LeavesAlone(q) ==
    /\ proc'[q].pc = proc[q].pc /\ proc'[q].cmd = proc[q].cmd
    /\ proc'[q].cfg = proc[q].cfg /\ proc'[q].target = proc[q].target
    /\ proc'[q].listing = proc[q].listing /\ proc'[q].loaded = proc[q].loaded
    /\ changed[q] \subseteq changed'[q]
    /\ existing \subseteq existing'
    /\ Busy(q) =>
        /\ \A d \in Dirs, f \in Paths :
            files'[d][f] # files[d][f] => <<d, f>> \in changed'[q]
        /\ config' # config => <<"config">> \in changed'[q]

LEMMA OnlyOneMoves ==
  ASSUME TypeOK, NEW p \in Procs, NEW q \in Procs, q # p, NEW r,
         proc' = [proc EXCEPT ![p] = r],
         changed[q] \subseteq changed'[q], existing \subseteq existing',
         files' = files, config' = config
  PROVE  LeavesAlone(q)
BY DEF TypeOK, LeavesAlone

LEMMA LookKeepsOthers ==
  ASSUME TypeOK, NEW p \in Procs, NEW q \in Procs, q # p, NEW x, Look(p, x)
  PROVE  changed[q] \subseteq changed'[q]
BY DEF TypeOK, Look

LEMMA TouchIsSeen ==
  ASSUME TypeOK, NEW p \in Procs, NEW q \in Procs, q # p, NEW x, Touch(p, x)
  PROVE  /\ changed[q] \subseteq changed'[q]
         /\ Busy(q) => x \in changed'[q]
BY DEF TypeOK, Touch

(* A write to one file is noted by the others. *)
LEMMA WriteIsSeen ==
  ASSUME TypeOK, NEW p \in Procs, NEW q \in Procs, q # p, NEW r,
         proc' = [proc EXCEPT ![p] = r],
         existing' = existing, config' = config,
         NEW e \in Dirs, NEW g \in Paths, NEW t,
         files' = [files EXCEPT ![e][g] = t] \/ files' = files,
         Touch(p, <<e, g>>)
  PROVE  LeavesAlone(q)
<1>1. /\ changed[q] \subseteq changed'[q]
      /\ Busy(q) => <<e, g>> \in changed'[q]
  BY TouchIsSeen
<1>2. ASSUME NEW d \in Dirs, NEW f \in Paths, files'[d][f] # files[d][f]
      PROVE  <<d, f>> = <<e, g>>
  BY <1>2 DEF TypeOK, Directories
<1>3. proc'[q] = proc[q]
  BY DEF TypeOK
<1> QED
  BY <1>1, <1>2, <1>3 DEF LeavesAlone

LEMMA WriteConfigIsSeen ==
  ASSUME TypeOK, NEW p \in Procs, NEW q \in Procs, q # p, NEW r,
         proc' = [proc EXCEPT ![p] = r],
         existing' = existing, files' = files, Touch(p, <<"config">>)
  PROVE  LeavesAlone(q)
<1>1. /\ changed[q] \subseteq changed'[q]
      /\ Busy(q) => <<"config">> \in changed'[q]
  BY TouchIsSeen
<1>2. proc'[q] = proc[q]
  BY DEF TypeOK
<1> QED
  BY <1>1, <1>2 DEF LeavesAlone

LEMMA EditLeavesAlone ==
  ASSUME TypeOK, NEW q \in Procs, NEW x, NEW deleted, Edit(x, deleted),
         \A d \in Dirs, f \in Paths :
            files'[d][f] # files[d][f] => <<d, f>> = x,
         config' # config => <<"config">> = x
  PROVE  LeavesAlone(q)
<1>1. /\ changed[q] \subseteq changed'[q]
      /\ Busy(q) => x \in changed'[q]
      /\ existing' = existing
  BY DEF TypeOK, Edit
<1>2. proc'[q] = proc[q] \/ proc'[q] = [proc[q] EXCEPT !.gone = TRUE]
  BY DEF Edit
<1>3. /\ proc'[q].pc = proc[q].pc /\ proc'[q].cmd = proc[q].cmd
      /\ proc'[q].cfg = proc[q].cfg /\ proc'[q].target = proc[q].target
      /\ proc'[q].listing = proc[q].listing
      /\ proc'[q].loaded = proc[q].loaded
  BY <1>2 DEF TypeOK, ProcStates
<1> QED
  BY <1>1, <1>3 DEF LeavesAlone

(* What q relies on survives such a step. *)
LEMMA Survives ==
  ASSUME TypeOK, TypeOK', NEW q \in Procs, LeavesAlone(q),
         DirectoryMade(q), LookedBefore(q), NumberIsNext(q), ReadAsTheyAre(q)
  PROVE  /\ DirectoryMade(q)' /\ LookedBefore(q)'
         /\ NumberIsNext(q)' /\ ReadAsTheyAre(q)'
<1>1. /\ Dir(q)' = Dir(q) /\ Target(q)' = Target(q)
      /\ Creating(q)' = Creating(q) /\ Preparing(q)' = Preparing(q)
      /\ proc'[q].pc = proc[q].pc /\ proc'[q].cmd = proc[q].cmd
      /\ proc'[q].listing = proc[q].listing
      /\ proc'[q].loaded = proc[q].loaded
      /\ \A c, s : At(q, c, s)' = At(q, c, s)
  BY DEF LeavesAlone, Dir, Target, Creating, Preparing, At
<1>2. DirectoryMade(q)'
  BY <1>1 DEF DirectoryMade, LeavesAlone
<1>3. Creating(q) \/ proc[q].pc = "parse" => Dir(q) \in Dirs
  BY DEF DirectoryMade, TypeOK
<1>4. Creating(q) => Target(q) \in Paths
  BY CreatingPlace
<1>5. Creating(q) \/ Preparing(q) \/ proc[q].pc = "parse" => Busy(q)
  BY DEF Creating, Preparing, Busy
<1>6. LookedBefore(q)'
  <2>1. At(q, "create", "truncate") => Creating(q)
    BY DEF At, Creating
  <2>2. At(q, "init", "truncate") => Preparing(q)
    BY DEF At, Preparing
  <2> QED
    BY <1>1, <1>3, <1>4, <1>5, <2>1, <2>2 DEF LookedBefore, LeavesAlone
<1>7. ASSUME NEW f \in Paths, Creating(q), Seen(q, f)'
      PROVE  Seen(q, f) /\ files'[Dir(q)][f] = files[Dir(q)][f]
  BY <1>1, <1>3, <1>5, <1>7 DEF Seen, Untouched, LeavesAlone
<1>8. NumberIsNext(q)'
  <2> SUFFICES ASSUME Creating(q), Target(q).version # Unnumbered
               PROVE  /\ Target(q).version > 0
                      /\ \A f \in Listed(Dir(q))' :
                            Seen(q, f)' => f.version
                                             \in 0..(Target(q).version - 1)
                      /\ \/ Target(q).version = 1
                         \/ \E f \in Paths :
                               /\ f.version = Target(q).version - 1
                               /\ Seen(q, f)' => f \in Listed(Dir(q))'
    BY <1>1 DEF NumberIsNext
  <2>1. \A f \in Paths : Seen(q, f)' =>
            Seen(q, f) /\ (f \in Listed(Dir(q))' <=> f \in Listed(Dir(q)))
    BY <1>1, <1>7 DEF Listed
  <2>2. Listed(Dir(q))' \subseteq Paths
    BY DEF Listed
  <2> QED
    BY <2>1, <2>2 DEF NumberIsNext
<1>9. ReadAsTheyAre(q)'
  <2>1. CASE proc[q].pc # "parse"
    BY <1>1, <2>1 DEF ReadAsTheyAre
  <2>2. CASE proc[q].pc = "parse"
    <3>1. ASSUME NEW f \in Paths, Untouched(q, f)'
          PROVE  Untouched(q, f) /\ files'[Dir(q)][f] = files[Dir(q)][f]
      BY <1>1, <1>3, <1>5, <2>2, <3>1 DEF Untouched, LeavesAlone
    <3>2. \A f \in Paths : Untouched(q, f)' =>
            /\ f \in Listed(Dir(q))' <=> f \in Listed(Dir(q))
            /\ f \in Read(q)' <=> f \in Read(q)
      BY <1>1, <3>1 DEF Listed, Read
    <3>3. Read(q)' \subseteq Read(q)
      <4>1. \A f \in Read(q)' : f \in Paths /\ Untouched(q, f)'
        BY DEF Read, Listed
      <4> QED
        BY <3>2, <4>1
    <3>4. /\ \A f \in Read(q)' : f \in Paths /\ Untouched(q, f)'
          /\ proc[q].listing \subseteq Paths
      BY ProcFields DEF Read, Listed, TypeOK
    <3>5. \A f \in proc[q].listing : Untouched(q, f)' => f \in Listed(Dir(q))'
      BY <2>2, <3>1, <3>2, <3>4 DEF ReadAsTheyAre
    <3>6. \A f \in Read(q)' :
            /\ f.version # Unnumbered
            /\ Splits(files'[Dir(q)][f])
            /\ proc[q].loaded[f.version] = files'[Dir(q)][f]
            /\ \A g \in Read(q)' : f.version = g.version => f = g
      BY <2>2, <3>1, <3>3, <3>4 DEF ReadAsTheyAre
    <3>7. \A v \in Versions : proc[q].loaded[v] # NoFile =>
            \E f \in Paths : f.version = v
                             /\ (Untouched(q, f)' => f \in Read(q)')
      BY <2>2, <3>1, <3>2 DEF ReadAsTheyAre
    <3> QED
      BY <1>1, <3>5, <3>6, <3>7 DEF ReadAsTheyAre
  <2> QED
    BY <2>1, <2>2
<1> QED
  BY <1>2, <1>6, <1>8, <1>9

-----------------------------------------------------------------------------
(* What a process relies on after its own steps. *)
Relies(p) ==
    DirectoryMade(p) /\ LookedBefore(p) /\ NumberIsNext(p) /\ ReadAsTheyAre(p)

(* Nothing is asked of a process that creates no file and reads none. *)
LEMMA NothingAsked ==
  ASSUME NEW p \in Procs,
         proc'[p].pc \in {"idle", "config", "mkdir", "list", "open"},
         proc'[p].pc = "open" => proc'[p].cmd = "load",
         proc'[p].pc = "list" /\ proc'[p].cmd = "create"
            => Dir(p)' \in existing',
         \A v \in Versions : proc'[p].loaded[v] = NoFile
  PROVE  Relies(p)'
BY DEF Relies, DirectoryMade, LookedBefore, NumberIsNext, ReadAsTheyAre,
       Creating, Preparing, At

LEMMA IdleFields ==
  Idle.pc = "idle" /\ \A v \in Versions : Idle.loaded[v] = NoFile
<1>1. Idle.loaded = [v \in Versions |-> NoFile]
  BY DEF Idle
<1> QED
  BY <1>1 DEF Idle

LEMMA EndRelies ==
  ASSUME TypeOK, NEW p \in Procs, End(p) PROVE Relies(p)'
<1>1. proc'[p] = Idle
  BY DEF TypeOK, End
<1> QED
  BY <1>1, IdleFields, NothingAsked

LEMMA StartRelies ==
  ASSUME TypeOK, NEW p \in Procs, NEW c \in Commands, Start(p, c), Relies(p)
  PROVE  Relies(p)'
<1>1. proc'[p].pc = "config" /\ proc'[p].loaded = proc[p].loaded
  <2>1. PICK given \in Flags, a \in Arguments :
          proc' = [proc EXCEPT ![p].pc = "config", ![p].cmd = c,
                      ![p].flags = given,
                      ![p].target.name = IF c = "create" THEN Sanitized[a]
                                         ELSE ""]
    BY DEF Start
  <2> DEFINE name == IF c = "create" THEN Sanitized[a] ELSE ""
  <2>2. proc' = [proc EXCEPT ![p] =
                    [proc[p] EXCEPT !.pc = "config", !.cmd = c,
                                    !.flags = given, !.target.name = name]]
    BY <2>1
  <2> HIDE DEF name
  <2>3. proc'[p] = [proc[p] EXCEPT !.pc = "config", !.cmd = c,
                                   !.flags = given, !.target.name = name]
    BY <2>2 DEF TypeOK
  <2>4. proc[p] \in ProcStates
    BY DEF TypeOK
  <2> QED
    BY <2>3, <2>4 DEF ProcStates
<1>2. proc[p].pc = "idle"
  BY DEF Start, Busy
<1>3. \A v \in Versions : proc'[p].loaded[v] = NoFile
  BY <1>1, <1>2 DEF Relies, ReadAsTheyAre
<1> QED
  BY <1>1, <1>3, NothingAsked

LEMMA LoadConfigRelies ==
  ASSUME TypeOK, NEW p \in Procs, LoadConfig(p), Relies(p)
  PROVE  Relies(p)'
<1>1. /\ proc'[p].pc = IF proc[p].cmd = "load" THEN "open" ELSE "mkdir"
      /\ proc'[p].cmd = proc[p].cmd
      /\ proc'[p].loaded = proc[p].loaded
  BY DEF TypeOK, ProcStates, LoadConfig
<1>2. proc[p].pc = "config"
  BY DEF LoadConfig
<1>3. \A v \in Versions : proc'[p].loaded[v] = NoFile
  BY <1>1, <1>2 DEF Relies, ReadAsTheyAre
<1> QED
  BY <1>1, <1>3, NothingAsked

LEMMA OpenRunnerRelies ==
  ASSUME TypeOK, NEW p \in Procs, OpenRunner(p), Relies(p)
  PROVE  Relies(p)'
<1>1. /\ proc'[p].pc = "list"
      /\ proc'[p].cmd = proc[p].cmd
      /\ proc'[p].loaded = proc[p].loaded
  BY DEF TypeOK, ProcStates, OpenRunner
<1>2. proc[p].pc = "open" /\ proc[p].cmd = "load"
  BY DEF OpenRunner, Relies, DirectoryMade
<1>3. \A v \in Versions : proc'[p].loaded[v] = NoFile
  BY <1>1, <1>2 DEF Relies, ReadAsTheyAre
<1> QED
  BY <1>1, <1>2, <1>3, NothingAsked

LEMMA MakeDirRelies ==
  ASSUME TypeOK, NEW p \in Procs, MakeDir(p), Relies(p)
  PROVE  Relies(p)'
<1>1. /\ proc'[p].pc = IF proc[p].cmd = "init" THEN "stat" ELSE "list"
      /\ proc'[p].cmd = proc[p].cmd
      /\ proc'[p].cfg = proc[p].cfg
      /\ proc'[p].loaded = proc[p].loaded
  BY DEF TypeOK, ProcStates, MakeDir
<1>2. proc[p].pc = "mkdir" /\ Dir(p) \in existing'
  BY DEF MakeDir, MkdirAll
<1>3. \A v \in Versions : proc'[p].loaded[v] = NoFile
  BY <1>1, <1>2 DEF Relies, ReadAsTheyAre
<1>4. Dir(p)' = Dir(p)
  BY <1>1 DEF Dir
<1>5. CASE proc[p].cmd = "init"
  BY <1>1, <1>2, <1>3, <1>4, <1>5
     DEF Relies, DirectoryMade, LookedBefore, NumberIsNext, ReadAsTheyAre,
         Creating, Preparing, At
<1>6. CASE proc[p].cmd # "init"
  BY <1>1, <1>2, <1>3, <1>4, <1>6, NothingAsked
<1> QED
  BY <1>5, <1>6

LEMMA ChooseVersionRelies ==
  ASSUME TypeOK, NEW p \in Procs, ChooseVersion(p), Relies(p)
  PROVE  Relies(p)'
<1> DEFINE n == NextVersion(Dir(p))
<1>1. /\ proc'[p].pc = "stat" /\ proc'[p].cmd = proc[p].cmd
      /\ proc'[p].cfg = proc[p].cfg /\ proc'[p].loaded = proc[p].loaded
      /\ proc'[p].target.version = Numbered(n)
      /\ proc'[p].target.name = proc[p].target.name
      /\ proc'[p].listing = proc[p].listing
  <2>1. proc' = [proc EXCEPT ![p].target.version = Numbered(n),
                             ![p].pc = "stat"]
    BY DEF ChooseVersion
  <2> DEFINE m == Numbered(n)
  <2>2. proc' = [proc EXCEPT ![p] =
                    [proc[p] EXCEPT !.target.version = m, !.pc = "stat"]]
    BY <2>1
  <2> HIDE DEF m
  <2>3. proc[p] \in ProcStates
    BY DEF TypeOK
  <2>4. proc'[p] = [proc[p] EXCEPT !.target.version = m, !.pc = "stat"]
    BY <2>2 DEF TypeOK
  <2>5. /\ proc'[p].pc = "stat" /\ proc'[p].cmd = proc[p].cmd
        /\ proc'[p].cfg = proc[p].cfg /\ proc'[p].loaded = proc[p].loaded
        /\ proc'[p].target = [proc[p].target EXCEPT !.version = m]
        /\ proc'[p].listing = proc[p].listing
    BY <2>3, <2>4 DEF ProcStates
  <2>6. /\ proc'[p].target.version = m
        /\ proc'[p].target.name = proc[p].target.name
    BY <2>3, <2>5 DEF ProcStates
  <2> QED
    BY <2>5, <2>6 DEF m
<1>2. /\ proc[p].pc = "list" /\ proc[p].cmd = "create"
      /\ Target(p).name # "" /\ existing' = existing /\ files' = files
      /\ Look(p, Places)
  BY DEF ChooseVersion, At, Given, workspace
<1>3. Dir(p) \in existing /\ Dir(p) \in Dirs
  BY <1>2 DEF Relies, DirectoryMade, TypeOK, At
<1>4. Dir(p)' = Dir(p) /\ Listed(Dir(p))' = Listed(Dir(p))
  BY <1>1, <1>2 DEF Dir, Listed
<1>5. \A f \in Paths : Seen(p, f)'
  <2>1. changed'[p] \cap Places = {}
    BY <1>2 DEF Look, TypeOK
  <2> QED
    BY <1>1, <1>3, <1>4, <2>1 DEF Seen, Untouched, Places
<1>6. /\ n \in 1..(MaxVersion + 1)
      /\ \A f \in Listed(Dir(p)) : f.version < n
      /\ n = 1 \/ \E f \in Listed(Dir(p)) : f.version = n - 1
  BY <1>3, NextVersionExists DEF ChooseVersion, TypeOK
<1>7. \A f \in Listed(Dir(p)) : f \in Paths /\ f.version \in 0..MaxVersion
  BY DEF ChooseVersion, Listed, Paths
<1>8. NumberIsNext(p)'
  <2> SUFFICES ASSUME Numbered(n) # Unnumbered
               PROVE  /\ Numbered(n) > 0
                      /\ \A f \in Listed(Dir(p)) :
                            f.version \in 0..(Numbered(n) - 1)
                      /\ \/ Numbered(n) = 1
                         \/ \E f \in Paths :
                               /\ f.version = Numbered(n) - 1
                               /\ f \in Listed(Dir(p))
    BY <1>1, <1>4 DEF NumberIsNext, Target
  <2> HIDE DEF n
  <2>1. Numbered(n) = n
    BY DEF Numbered
  <2> QED
    BY <1>6, <1>7, <2>1
<1>9. DirectoryMade(p)'
  BY <1>1, <1>2, <1>3, <1>4 DEF DirectoryMade, Target
<1>10. LookedBefore(p)' /\ ReadAsTheyAre(p)'
  BY <1>1, <1>2 DEF LookedBefore, ReadAsTheyAre, Relies, At
<1> QED
  BY <1>8, <1>9, <1>10 DEF Relies

LEMMA NextSuffixRelies ==
  ASSUME TypeOK, NEW p \in Procs, NextSuffix(p), Relies(p)
  PROVE  Relies(p)'
<1>1. /\ proc'[p].pc = "stat" /\ proc'[p].cmd = proc[p].cmd
      /\ proc'[p].cfg = proc[p].cfg /\ proc'[p].loaded = proc[p].loaded
      /\ proc'[p].target.version = proc[p].target.version
      /\ proc'[p].target.name = proc[p].target.name
  BY DEF TypeOK, ProcStates, NextSuffix, At
<1>2. /\ proc[p].pc = "stat" /\ proc[p].cmd = "create"
      /\ existing' = existing /\ files' = files /\ changed' = changed
  BY DEF NextSuffix, At, workspace
<1>3. /\ Dir(p)' = Dir(p) /\ Listed(Dir(p))' = Listed(Dir(p))
      /\ \A f : Seen(p, f)' = Seen(p, f)
      /\ Target(p)'.version = Target(p).version
      /\ Target(p)'.name = Target(p).name
      /\ Creating(p)' = Creating(p)
  BY <1>1, <1>2 DEF Dir, Listed, Seen, Untouched, Target, Creating
<1>4. NumberIsNext(p)'
  BY <1>3 DEF NumberIsNext, Relies
<1>5. DirectoryMade(p)' /\ LookedBefore(p)' /\ ReadAsTheyAre(p)'
  BY <1>1, <1>2, <1>3
     DEF DirectoryMade, LookedBefore, ReadAsTheyAre, Relies, At, Creating
<1> QED
  BY <1>4, <1>5 DEF Relies

LEMMA NameIsFreeRelies ==
  ASSUME TypeOK, NEW p \in Procs, NameIsFree(p), Relies(p)
  PROVE  Relies(p)'
<1>1. /\ proc'[p].pc = "truncate" /\ proc'[p].cmd = proc[p].cmd
      /\ proc'[p].cfg = proc[p].cfg /\ proc'[p].loaded = proc[p].loaded
      /\ proc'[p].target = proc[p].target
  BY DEF TypeOK, ProcStates, NameIsFree
<1>2. /\ proc[p].pc = "stat" /\ proc[p].cmd = "create"
      /\ existing' = existing /\ files' = files
      /\ files[Dir(p)][Target(p)] = NoFile
      /\ changed'[p] = changed[p] \ {<<Dir(p), Target(p)>>}
  BY DEF NameIsFree, At, workspace, FileExists, Look, TypeOK
<1>3. /\ Dir(p)' = Dir(p) /\ Listed(Dir(p))' = Listed(Dir(p))
      /\ Target(p)' = Target(p) /\ Creating(p)' /\ Creating(p)
  BY <1>1, <1>2 DEF Dir, Listed, Target, Creating
<1>4. \A f : Seen(p, f)' => Seen(p, f)
  BY <1>1, <1>2, <1>3 DEF Seen, Untouched
<1>5. NumberIsNext(p)'
  BY <1>3, <1>4 DEF NumberIsNext, Relies
<1>6. LookedBefore(p)'
  BY <1>1, <1>2, <1>3 DEF LookedBefore, At
<1>7. DirectoryMade(p)' /\ ReadAsTheyAre(p)'
  BY <1>1, <1>2, <1>3
     DEF DirectoryMade, ReadAsTheyAre, Relies, Creating
<1> QED
  BY <1>5, <1>6, <1>7 DEF Relies

LEMMA TruncateMigrationRelies ==
  ASSUME TypeOK, NEW p \in Procs, TruncateMigration(p), Relies(p)
  PROVE  Relies(p)'
<1>1. /\ proc'[p].pc = "write" /\ proc'[p].cmd = proc[p].cmd
      /\ proc'[p].cfg = proc[p].cfg /\ proc'[p].loaded = proc[p].loaded
      /\ proc'[p].target = proc[p].target
  BY DEF TypeOK, ProcStates, TruncateMigration
<1>2. /\ proc[p].pc = "truncate" /\ proc[p].cmd = "create"
      /\ existing' = existing
      /\ files' = [files EXCEPT ![Dir(p)][Target(p)] = <<>>]
      /\ changed'[p] = changed[p]
  BY DEF TruncateMigration, At, Touch, TypeOK
<1>3. /\ Dir(p)' = Dir(p) /\ Target(p)' = Target(p)
      /\ Creating(p)' /\ Creating(p)
      /\ \A f : Seen(p, f)' = Seen(p, f)
  BY <1>1, <1>2 DEF Dir, Target, Creating, Seen, Untouched
<1>4. Dir(p) \in Dirs
  BY <1>3, CreatingPlace DEF Relies
<1>5. \A f \in Paths : f # Target(p) => files'[Dir(p)][f] = files[Dir(p)][f]
  BY <1>2, <1>4 DEF TypeOK, Directories
<1>6. \A f \in Paths :
        Seen(p, f) => (f \in Listed(Dir(p))' <=> f \in Listed(Dir(p)))
  BY <1>2, <1>3, <1>5 DEF Seen, Listed
<1>7. Listed(Dir(p))' \subseteq Paths
  BY DEF Listed
<1>8. NumberIsNext(p)'
  BY <1>3, <1>6, <1>7 DEF NumberIsNext, Relies
<1>9. DirectoryMade(p)' /\ LookedBefore(p)' /\ ReadAsTheyAre(p)'
  BY <1>1, <1>2, <1>3
     DEF DirectoryMade, LookedBefore, ReadAsTheyAre, Relies, At, Creating
<1> QED
  BY <1>8, <1>9 DEF Relies

LEMMA ConfigIsMissingRelies ==
  ASSUME TypeOK, NEW p \in Procs, ConfigIsMissing(p), Relies(p)
  PROVE  Relies(p)'
<1>1. /\ proc'[p].pc = "truncate" /\ proc'[p].cmd = proc[p].cmd
      /\ proc'[p].cfg = proc[p].cfg /\ proc'[p].loaded = proc[p].loaded
  BY DEF TypeOK, ProcStates, ConfigIsMissing
<1>2. /\ proc[p].pc = "stat" /\ proc[p].cmd = "init"
      /\ existing' = existing /\ config' = Absent
  BY DEF ConfigIsMissing, At, workspace
<1>3. Dir(p)' = Dir(p)
  BY <1>1 DEF Dir
<1> QED
  BY <1>1, <1>2, <1>3
     DEF Relies, DirectoryMade, LookedBefore, NumberIsNext, ReadAsTheyAre,
         Creating, Preparing, At

LEMMA TruncateConfigRelies ==
  ASSUME TypeOK, NEW p \in Procs, TruncateConfig(p), Relies(p)
  PROVE  Relies(p)'
<1>1. /\ proc'[p].pc = "write" /\ proc'[p].cmd = proc[p].cmd
      /\ proc'[p].cfg = proc[p].cfg /\ proc'[p].loaded = proc[p].loaded
  BY DEF TypeOK, ProcStates, TruncateConfig
<1>2. /\ proc[p].pc = "truncate" /\ proc[p].cmd = "init"
      /\ existing' = existing
  BY DEF TruncateConfig, At
<1>3. Dir(p)' = Dir(p)
  BY <1>1 DEF Dir
<1> QED
  BY <1>1, <1>2, <1>3
     DEF Relies, DirectoryMade, LookedBefore, NumberIsNext, ReadAsTheyAre,
         Creating, Preparing, At

LEMMA ListDirRelies ==
  ASSUME TypeOK, NEW p \in Procs, ListDir(p), Relies(p)
  PROVE  Relies(p)'
<1>1. /\ proc'[p].pc = "parse" /\ proc'[p].cmd = proc[p].cmd
      /\ proc'[p].cfg = proc[p].cfg /\ proc'[p].loaded = proc[p].loaded
      /\ proc'[p].listing = Listed(Dir(p))
  BY DEF TypeOK, ProcStates, ListDir
<1>2. /\ proc[p].pc = "list" /\ proc[p].cmd = "load"
      /\ existing' = existing /\ files' = files /\ Dir(p) \in existing
  BY DEF ListDir, At, workspace
<1>3. Dir(p)' = Dir(p) /\ Listed(Dir(p))' = Listed(Dir(p)) /\ Read(p)' = {}
  BY <1>1, <1>2 DEF Dir, Listed, Read
<1>4. \A v \in Versions : proc[p].loaded[v] = NoFile
  BY <1>2 DEF Relies, ReadAsTheyAre
<1> QED
  BY <1>1, <1>2, <1>3, <1>4
     DEF Relies, DirectoryMade, LookedBefore, NumberIsNext, ReadAsTheyAre,
         Creating, Preparing, At

LEMMA ParseFileRelies ==
  ASSUME TypeOK, NEW p \in Procs, NEW f \in proc[p].listing, ParseFile(p, f),
         Relies(p)
  PROVE  Relies(p)'
<1> DEFINE text == files[Dir(p)][f]
<1>1. /\ proc'[p].pc = proc[p].pc /\ proc'[p].cmd = proc[p].cmd
      /\ proc'[p].cfg = proc[p].cfg
      /\ proc'[p].loaded = [proc[p].loaded EXCEPT ![f.version] = text]
      /\ proc'[p].listing = proc[p].listing \ {f}
  BY DEF TypeOK, ProcStates, ParseFile
<1>2. /\ proc[p].pc = "parse" /\ existing' = existing /\ files' = files
      /\ changed' = changed
      /\ f.version # Unnumbered /\ text # NoFile /\ Splits(text)
      /\ proc[p].loaded[f.version] = NoFile
  BY DEF ParseFile, Usable, workspace
<1>3. f \in Paths /\ proc[p].loaded \in [Versions -> AllTexts \cup {NoFile}]
  <2>1. proc[p] \in ProcStates
    BY DEF TypeOK
  <2> QED
    BY <2>1, ProcFields
<1>4. f.version \in Versions
  BY <1>2, <1>3 DEF Paths, Versions
<1>5. /\ Dir(p)' = Dir(p) /\ Listed(Dir(p))' = Listed(Dir(p))
      /\ \A g : Untouched(p, g)' = Untouched(p, g)
  BY <1>1, <1>2 DEF Dir, Listed, Untouched
<1>6. /\ Untouched(p, f) => Read(p)' = Read(p) \cup {f}
      /\ ~Untouched(p, f) => Read(p)' = Read(p)
      /\ f \notin Read(p) /\ f \in Listed(Dir(p))
  BY <1>1, <1>2, <1>3, <1>5 DEF Read, Listed
<1>7. \A v \in Versions :
        proc'[p].loaded[v] = IF v = f.version THEN text ELSE proc[p].loaded[v]
  BY <1>1, <1>3
<1> HIDE DEF text
<1>8. /\ \A g \in proc[p].listing : Untouched(p, g) => g \in Listed(Dir(p))
      /\ \A g \in Read(p) :
            /\ g.version # Unnumbered
            /\ Splits(files[Dir(p)][g])
            /\ proc[p].loaded[g.version] = files[Dir(p)][g]
            /\ \A h \in Read(p) : g.version = h.version => g = h
      /\ \A v \in Versions : proc[p].loaded[v] # NoFile =>
            \E g \in Paths : g.version = v
                             /\ (Untouched(p, g) => g \in Read(p))
  BY <1>2 DEF ReadAsTheyAre, Relies
<1>9. ASSUME NEW g \in Read(p)
      PROVE  g.version # f.version /\ g.version \in Versions
  <2>1. g \in Paths /\ files[Dir(p)][g] # NoFile
    BY DEF Read, Listed
  <2> QED
    BY <1>2, <1>8, <2>1 DEF Paths, Versions
<1>10. \A g \in Read(p)' :
          /\ g.version # Unnumbered
          /\ Splits(files[Dir(p)][g])
          /\ proc'[p].loaded[g.version] = files[Dir(p)][g]
          /\ \A h \in Read(p)' : g.version = h.version => g = h
  <2>1. \A g \in Read(p) : proc'[p].loaded[g.version] = files[Dir(p)][g]
    BY <1>7, <1>8, <1>9
  <2>2. proc'[p].loaded[f.version] = files[Dir(p)][f]
    BY <1>4, <1>7 DEF text
  <2>3. Splits(files[Dir(p)][f])
    BY <1>2 DEF text
  <2> QED
    BY <1>2, <1>6, <1>8, <1>9, <2>1, <2>2, <2>3
<1>11. \A v \in Versions : proc'[p].loaded[v] # NoFile =>
          \E g \in Paths : g.version = v
                           /\ (Untouched(p, g) => g \in Read(p)')
  BY <1>3, <1>6, <1>7, <1>8
<1>12. ReadAsTheyAre(p)'
  BY <1>1, <1>2, <1>5, <1>8, <1>10, <1>11 DEF ReadAsTheyAre
<1>13. DirectoryMade(p)' /\ LookedBefore(p)' /\ NumberIsNext(p)'
  BY <1>1, <1>2, <1>5
     DEF Relies, DirectoryMade, LookedBefore, NumberIsNext, Creating,
         Preparing, At
<1> QED
  BY <1>12, <1>13 DEF Relies

-----------------------------------------------------------------------------
LEMMA IInvInit == Init => WorkspaceIInv
<1> SUFFICES ASSUME Init PROVE WorkspaceIInv
  OBVIOUS
<1>1. TypeOK
  BY TypeInit
<1>2. InitPreparesDirectory
  <2>1. \A c \in InitialConfigs : ~WrittenByInit(c)
    BY WorkspaceAssumption, Zenon
  <2> QED
    BY <2>1 DEF Init, InitPreparesDirectory
<1>3. ASSUME NEW p \in Procs
      PROVE  /\ DirectoryMade(p) /\ LookedBefore(p)
             /\ NumberIsNext(p) /\ ReadAsTheyAre(p)
  <2>1. proc[p] = Idle
    BY DEF Init
  <2>2. proc[p].pc = "idle" /\ \A v \in Versions : proc[p].loaded[v] = NoFile
    BY <2>1, IdleFields
  <2> QED
    BY <2>2 DEF DirectoryMade, LookedBefore, NumberIsNext, ReadAsTheyAre,
                Creating, Preparing, At
<1> QED
  BY <1>1, <1>2, <1>3 DEF WorkspaceIInv

(* What a step of process p must show. *)
LEMMA StepOfOne ==
  ASSUME WorkspaceIInv, TypeOK', InitPreparesDirectory',
         NEW p \in Procs, Relies(p)',
         \A q \in Procs : q # p => LeavesAlone(q)
  PROVE  WorkspaceIInv'
<1>1. ASSUME NEW q \in Procs, q # p
      PROVE  /\ DirectoryMade(q)' /\ LookedBefore(q)'
             /\ NumberIsNext(q)' /\ ReadAsTheyAre(q)'
  BY <1>1, Survives DEF WorkspaceIInv
<1>2. ASSUME NEW q \in Procs
      PROVE  /\ DirectoryMade(q)' /\ LookedBefore(q)'
             /\ NumberIsNext(q)' /\ ReadAsTheyAre(q)'
  <2>1. CASE q = p
    BY <2>1 DEF Relies
  <2>2. CASE q # p
    BY <2>2, <1>1
  <2> QED
    BY <2>1, <2>2
<1> QED
  BY <1>2 DEF WorkspaceIInv

(* ... when it leaves files and config file alone, ... *)
LEMMA StepInside ==
  ASSUME WorkspaceIInv, TypeOK', NEW p \in Procs, Relies(p)', NEW r,
         proc' = [proc EXCEPT ![p] = r],
         UNCHANGED workspace,
         (\E x : Look(p, x)) \/ changed' = changed
  PROVE  WorkspaceIInv'
<1>1. InitPreparesDirectory'
  BY DEF WorkspaceIInv, InitPreparesDirectory, workspace
<1>2. TypeOK
  BY DEF WorkspaceIInv
<1>3. ASSUME NEW q \in Procs, q # p
      PROVE  LeavesAlone(q)
  <2>1. changed[q] \subseteq changed'[q]
    BY <1>2, <1>3, LookKeepsOthers
  <2>2. existing \subseteq existing' /\ files' = files /\ config' = config
    BY DEF workspace
  <2> QED
    BY <1>2, <1>3, <2>1, <2>2, OnlyOneMoves
<1> QED
  BY <1>1, <1>3, StepOfOne

(* ... and when an edit leaves all processes where they are. *)
LEMMA StepOfNone ==
  ASSUME WorkspaceIInv, TypeOK', InitPreparesDirectory',
         \A q \in Procs : LeavesAlone(q)
  PROVE  WorkspaceIInv'
<1>1. ASSUME NEW q \in Procs
      PROVE  /\ DirectoryMade(q)' /\ LookedBefore(q)'
             /\ NumberIsNext(q)' /\ ReadAsTheyAre(q)'
  BY <1>1, Survives DEF WorkspaceIInv
<1> QED
  BY <1>1 DEF WorkspaceIInv

LEMMA IInvNext == WorkspaceIInv /\ [Next]_vars => WorkspaceIInv'
<1> SUFFICES ASSUME WorkspaceIInv, StepKinds PROVE WorkspaceIInv'
  BY WorkspaceStepKinds
<1> USE DEF WorkspaceIInv
<1>0. TypeOK /\ InitPreparesDirectory /\ \A p \in Procs : Relies(p)
  BY DEF Relies
<1>1. ASSUME NEW p \in Procs, Finish(p) PROVE WorkspaceIInv'
  <2>1. TypeOK' /\ Relies(p)'
    BY <1>0, <1>1, TypeFinish, EndRelies DEF Finish
  <2> QED
    BY <1>1, <2>1, StepInside DEF Finish, End
<1>2. ASSUME NEW p \in Procs, NEW c \in Commands, Start(p, c)
      PROVE  WorkspaceIInv'
  <2>1. TypeOK' /\ Relies(p)'
    BY <1>0, <1>2, TypeStart, StartRelies
  <2>2. \E r : proc' = [proc EXCEPT ![p] = r]
    <3>1. PICK given \in Flags, a \in Arguments :
            proc' = [proc EXCEPT ![p].pc = "config", ![p].cmd = c,
                        ![p].flags = given,
                        ![p].target.name = IF c = "create" THEN Sanitized[a]
                                           ELSE ""]
      BY <1>2 DEF Start
    <3> DEFINE name == IF c = "create" THEN Sanitized[a] ELSE ""
    <3>2. proc' = [proc EXCEPT ![p] =
                      [proc[p] EXCEPT !.pc = "config", !.cmd = c,
                                      !.flags = given, !.target.name = name]]
      BY <3>1
    <3> QED
      BY <3>2
  <2>3. UNCHANGED workspace /\ changed' = changed
    BY <1>2 DEF Start
  <2> QED
    BY <2>1, <2>2, <2>3, StepInside
<1>3. ASSUME NEW p \in Procs, LoadConfig(p) PROVE WorkspaceIInv'
  <2>1. TypeOK' /\ Relies(p)'
    BY <1>0, <1>3, TypeLoadConfig, LoadConfigRelies
  <2>2. \E r : proc' = [proc EXCEPT ![p] = r]
    <3>1. proc' = [proc EXCEPT ![p] =
             [proc[p] EXCEPT !.cfg = Load(proc[p].flags, env, config),
                !.pc = IF proc[p].cmd = "load" THEN "open" ELSE "mkdir"]]
      BY <1>3 DEF LoadConfig
    <3> QED
      BY <3>1
  <2> QED
    BY <1>3, <2>1, <2>2, StepInside DEF LoadConfig
<1>4. ASSUME NEW p \in Procs, OpenRunner(p) PROVE WorkspaceIInv'
  <2>1. TypeOK' /\ Relies(p)'
    BY <1>0, <1>4, TypeOpenRunner, OpenRunnerRelies
  <2>2. proc' = [proc EXCEPT ![p] = [proc[p] EXCEPT !.pc = "list"]]
    BY <1>4 DEF OpenRunner
  <2> QED
    BY <1>4, <2>1, <2>2, StepInside DEF OpenRunner
<1>5. ASSUME NEW p \in Procs, MakeDir(p) PROVE WorkspaceIInv'
  <2>1. TypeOK' /\ Relies(p)'
    BY <1>0, <1>5, TypeMakeDir, MakeDirRelies
  <2>2. proc' = [proc EXCEPT ![p] = [proc[p] EXCEPT
                   !.pc = IF proc[p].cmd = "init" THEN "stat" ELSE "list"]]
    BY <1>5 DEF MakeDir
  <2>3. /\ existing \subseteq existing' /\ files' = files
        /\ config' = config /\ changed' = changed
    BY <1>5 DEF MakeDir, MkdirAll
  <2>4. InitPreparesDirectory'
    BY <1>0, <2>3 DEF InitPreparesDirectory
  <2>5. \A q \in Procs : q # p => LeavesAlone(q)
    BY <1>0, <2>2, <2>3, OnlyOneMoves
  <2> QED
    BY <2>1, <2>4, <2>5, StepOfOne
<1>6. ASSUME NEW p \in Procs, ChooseVersion(p) PROVE WorkspaceIInv'
  <2>1. TypeOK' /\ Relies(p)'
    BY <1>0, <1>6, TypeChooseVersion, ChooseVersionRelies DEF Relies
  <2>2. \E r : proc' = [proc EXCEPT ![p] = r]
    <3>1. proc' = [proc EXCEPT ![p] =
             [proc[p] EXCEPT !.target.version = Numbered(NextVersion(Dir(p))),
                             !.pc = "stat"]]
      BY <1>6 DEF ChooseVersion
    <3> QED
      BY <3>1
  <2> QED
    BY <1>6, <2>1, <2>2, StepInside DEF ChooseVersion
<1>7. ASSUME NEW p \in Procs, NextSuffix(p) PROVE WorkspaceIInv'
  <2>1. TypeOK' /\ Relies(p)'
    BY <1>0, <1>7, TypeNextSuffix, NextSuffixRelies
  <2>2. proc' = [proc EXCEPT ![p] = [proc[p] EXCEPT !.target.suffix = @ + 1]]
    BY <1>7 DEF NextSuffix
  <2> QED
    BY <1>7, <2>1, <2>2, StepInside DEF NextSuffix
<1>8. ASSUME NEW p \in Procs, NameIsFree(p) PROVE WorkspaceIInv'
  <2>1. TypeOK' /\ Relies(p)'
    BY <1>0, <1>8, TypeNameIsFree, NameIsFreeRelies
  <2>2. proc' = [proc EXCEPT ![p] = [proc[p] EXCEPT !.pc = "truncate"]]
    BY <1>8 DEF NameIsFree
  <2> QED
    BY <1>8, <2>1, <2>2, StepInside DEF NameIsFree
<1>9. ASSUME NEW p \in Procs, TruncateMigration(p) PROVE WorkspaceIInv'
  <2>1. TypeOK' /\ Relies(p)'
    BY <1>0, <1>9, TypeTruncateMigration, TruncateMigrationRelies DEF Relies
  <2>2. proc' = [proc EXCEPT ![p] = [proc[p] EXCEPT !.pc = "write"]]
    BY <1>9 DEF TruncateMigration
  <2>3. Dir(p) \in Dirs /\ Target(p) \in Paths
    BY <1>0, <1>9, CreatingPlace DEF TruncateMigration, Creating, At, Relies
  <2>4. /\ files' = [files EXCEPT ![Dir(p)][Target(p)] = <<>>]
        /\ Touch(p, <<Dir(p), Target(p)>>)
        /\ existing' = existing /\ config' = config
    BY <1>9 DEF TruncateMigration
  <2>5. InitPreparesDirectory'
    BY <1>0, <2>4 DEF InitPreparesDirectory
  <2>6. \A q \in Procs : q # p => LeavesAlone(q)
    BY <1>0, <2>2, <2>3, <2>4, WriteIsSeen
  <2> QED
    BY <2>1, <2>5, <2>6, StepOfOne
<1>10. ASSUME NEW p \in Procs, WriteMigration(p) PROVE WorkspaceIInv'
  <2>1. TypeOK' /\ Relies(p)'
    BY <1>0, <1>10, TypeWriteMigration, EndRelies DEF Relies, WriteMigration
  <2>2. proc' = [proc EXCEPT ![p] = Idle]
    BY <1>10 DEF WriteMigration, End
  <2>3. Dir(p) \in Dirs /\ Target(p) \in Paths
    BY <1>0, <1>10, CreatingPlace DEF WriteMigration, Creating, At, Relies
  <2>4. /\ \/ files' = [files EXCEPT ![Dir(p)][Target(p)] = Template]
           \/ files' = files
        /\ Touch(p, <<Dir(p), Target(p)>>)
        /\ existing' = existing /\ config' = config
    BY <1>10 DEF WriteMigration
  <2>5. InitPreparesDirectory'
    BY <1>0, <2>4 DEF InitPreparesDirectory
  <2>6. \A q \in Procs : q # p => LeavesAlone(q)
    BY <1>0, <2>2, <2>3, <2>4, WriteIsSeen
  <2> QED
    BY <2>1, <2>5, <2>6, StepOfOne
<1>11. ASSUME NEW p \in Procs, ConfigIsMissing(p) PROVE WorkspaceIInv'
  <2>1. TypeOK' /\ Relies(p)'
    BY <1>0, <1>11, TypeConfigIsMissing, ConfigIsMissingRelies
  <2>2. proc' = [proc EXCEPT ![p] = [proc[p] EXCEPT !.pc = "truncate"]]
    BY <1>11 DEF ConfigIsMissing
  <2> QED
    BY <1>11, <2>1, <2>2, StepInside DEF ConfigIsMissing
<1>12. ASSUME NEW p \in Procs, TruncateConfig(p) PROVE WorkspaceIInv'
  <2>1. TypeOK' /\ Relies(p)'
    BY <1>0, <1>12, TypeTruncateConfig, TruncateConfigRelies
  <2>2. proc' = [proc EXCEPT ![p] = [proc[p] EXCEPT !.pc = "write"]]
    BY <1>12 DEF TruncateConfig
  <2>3. InitPreparesDirectory'
    <3>1. ~WrittenByInit(EmptyFile)
      BY DEF WrittenByInit, EmptyFile, Keys
    <3> QED
      BY <1>12, <3>1 DEF TruncateConfig, InitPreparesDirectory
  <2>4. \A q \in Procs : q # p => LeavesAlone(q)
    BY <1>0, <1>12, <2>2, WriteConfigIsSeen DEF TruncateConfig
  <2> QED
    BY <2>1, <2>3, <2>4, StepOfOne
<1>13. ASSUME NEW p \in Procs, WriteConfig(p) PROVE WorkspaceIInv'
  <2>1. TypeOK' /\ Relies(p)'
    BY <1>0, <1>13, TypeWriteConfig, EndRelies DEF WriteConfig
  <2>2. proc' = [proc EXCEPT ![p] = Idle]
    BY <1>13 DEF WriteConfig, End
  <2>3. InitPreparesDirectory'
    <3>1. Dir(p) \in existing /\ existing' = existing
      BY <1>13 DEF WriteConfig, DirectoryMade, Preparing, At
    <3>2. ConfigOf(p).migrations_dir = Dir(p)
      BY <1>0, ConfigOfType
    <3>3. ~WrittenByInit(Malformed)
      BY ConfigAssumption DEF WrittenByInit
    <3>4. config' \in {ConfigOf(p), Malformed, config}
      BY <1>13 DEF WriteConfig
    <3> QED
      BY <1>0, <3>1, <3>2, <3>3, <3>4 DEF InitPreparesDirectory
  <2>4. \A q \in Procs : q # p => LeavesAlone(q)
    BY <1>0, <1>13, <2>2, WriteConfigIsSeen DEF WriteConfig
  <2> QED
    BY <2>1, <2>3, <2>4, StepOfOne
<1>14. ASSUME NEW p \in Procs, ListDir(p) PROVE WorkspaceIInv'
  <2>1. TypeOK' /\ Relies(p)'
    BY <1>0, <1>14, TypeListDir, ListDirRelies
  <2>2. proc' = [proc EXCEPT ![p] =
           [proc[p] EXCEPT !.listing = Listed(Dir(p)), !.pc = "parse"]]
    BY <1>14 DEF ListDir
  <2> QED
    BY <1>14, <2>1, <2>2, StepInside DEF ListDir
<1>15. ASSUME NEW p \in Procs, NEW f \in proc[p].listing, ParseFile(p, f)
       PROVE  WorkspaceIInv'
  <2>1. TypeOK' /\ Relies(p)'
    BY <1>0, <1>15, TypeParseFile, ParseFileRelies DEF Relies
  <2>2. proc' = [proc EXCEPT ![p] =
           [proc[p] EXCEPT !.loaded[f.version] = files[Dir(p)][f],
                           !.listing = @ \ {f}]]
    BY <1>15 DEF ParseFile
  <2> QED
    BY <1>15, <2>1, <2>2, StepInside DEF ParseFile
<1>16. ASSUME NEW x \in EditPlaces, NEW t \in EditTexts \cup {NoFile},
              DevWrites(x[1], x[2], t)
       PROVE  WorkspaceIInv'
  <2>1. TypeOK'
    BY <1>0, <1>16, TypeDevWrites
  <2>2. /\ files' = [files EXCEPT ![x[1]][x[2]] = t]
        /\ config' = config /\ existing' = existing
        /\ Edit(<<x[1], x[2]>>, t = NoFile)
    BY <1>16 DEF DevWrites, Edit
  <2>3. InitPreparesDirectory'
    BY <1>0, <2>2 DEF InitPreparesDirectory
  <2>4. ASSUME NEW d \in Dirs, NEW f \in Paths, files'[d][f] # files[d][f]
        PROVE  <<d, f>> = <<x[1], x[2]>>
    <3>1. x[1] \in Dirs /\ x[2] \in Paths
      <4>1. EditPlaces \subseteq Dirs \X Paths
        BY WorkspaceAssumption, Zenon
      <4> QED
        BY <4>1
    <3> QED
      BY <1>0, <2>2, <2>4, <3>1 DEF TypeOK, Directories
  <2>5. \A q \in Procs : LeavesAlone(q)
    BY <1>0, <2>2, <2>4, EditLeavesAlone
  <2> QED
    BY <2>1, <2>3, <2>5, StepOfNone
<1>17. ASSUME NEW c \in InitialConfigs, DevConfigures(c)
       PROVE  WorkspaceIInv'
  <2>1. TypeOK'
    BY <1>0, <1>17, TypeDevConfigures
  <2>2. /\ config' = c /\ files' = files /\ existing' = existing
        /\ Edit(<<"config">>, c = Absent)
    BY <1>17 DEF DevConfigures, Edit
  <2>3. InitPreparesDirectory'
    <3>1. ~WrittenByInit(c)
      BY WorkspaceAssumption, Zenon
    <3> QED
      BY <2>2, <3>1 DEF InitPreparesDirectory
  <2>4. \A q \in Procs : LeavesAlone(q)
    BY <1>0, <2>2, EditLeavesAlone
  <2> QED
    BY <2>1, <2>3, <2>4, StepOfNone
<1>18. CASE UNCHANGED vars
  <2>1. TypeOK'
    BY <1>0, <1>18 DEF TypeOK, vars, workspace, bounds
  <2>2. InitPreparesDirectory'
    BY <1>0, <1>18 DEF InitPreparesDirectory, vars, workspace
  <2>3. \A q \in Procs : LeavesAlone(q)
    BY <1>18 DEF LeavesAlone, vars, workspace
  <2> QED
    BY <2>1, <2>2, <2>3, StepOfNone
<1> QED
  BY <1>1, <1>2, <1>3, <1>4, <1>5, <1>6, <1>7, <1>8, <1>9, <1>10, <1>11,
     <1>12, <1>13, <1>14, <1>15, <1>16, <1>17, <1>18 DEF StepKinds

THEOREM WorkspaceInvariant == Spec => []WorkspaceIInv
BY IInvInit, IInvNext, PTL DEF Spec

(* The types, and with them that every number create chooses is one a file *)
(* name can carry, or none.                                                *)
THEOREM WorkspaceTypes == Spec => []TypeOK
<1>1. WorkspaceIInv => TypeOK
  BY DEF WorkspaceIInv
<1> QED
  BY <1>1, WorkspaceInvariant, PTL

(* What create writes is a text. *)
LEMMA TemplateIsText == Template \in Seq(Tokens)
BY DEF Template, Tokens

(* Every file there is at any moment, and each text that a directory can   *)
(* start with, is cut as its markers say.                                  *)
THEOREM SectionsAlwaysFollowMarkers == Spec => []SectionsFollowMarkers
<1>1. AllTexts \subseteq Seq(Tokens)
  <2>1. Texts \cup EditTexts \subseteq Seq(Tokens)
    BY WorkspaceAssumption, Zenon
  <2>2. <<>> \in Seq(Tokens)
    OBVIOUS
  <2> QED
    BY <2>1, <2>2, TemplateIsText, Zenon DEF AllTexts
<1>2. WorkspaceIInv => SectionsFollowMarkers
  <2> SUFFICES ASSUME WorkspaceIInv
               PROVE  SectionsFollowMarkers
    OBVIOUS
  <2>1. ASSUME NEW d \in Dirs, NEW f \in Listed(d)
        PROVE  FollowsMarkers(files[d][f])
    <3>1. files[d][f] \in AllTexts
      BY DEF WorkspaceIInv, TypeOK, Listed, Directories
    <3>2. files[d][f] \in Seq(Tokens)
      BY <1>1, <3>1, Zenon
    <3> QED
      BY <3>2, EveryTextFollowsMarkers
  <2>2. ASSUME NEW text \in Texts
        PROVE  FollowsMarkers(text)
    <3>1. text \in Seq(Tokens)
      BY <1>1, Zenon DEF AllTexts
    <3> QED
      BY <3>1, EveryTextFollowsMarkers
  <2> QED
    BY <2>1, <2>2 DEF SectionsFollowMarkers
<1> QED
  BY <1>2, WorkspaceInvariant, PTL

(* However many inits, with whatever flags and variables, run side by      *)
(* side: the directory that the config file of one of them names exists.   *)
THEOREM InitsPrepareTheirDirectory == Spec => []InitPreparesDirectory
<1>1. WorkspaceIInv => InitPreparesDirectory
  BY DEF WorkspaceIInv
<1> QED
  BY <1>1, WorkspaceInvariant, PTL

(* What an int-sized sequence is to ValidateSequence. *)
LEMMA SequenceOfNumbers ==
  ASSUME NEW F
  PROVE  Disk!ValidateSequence(NumbersOf(F))
           <=> \A v \in Versions : (\E f \in F : f.version = v)
                 => /\ v > 0
                    /\ \A w \in 1..v : w \in Versions
                                       /\ \E f \in F : f.version = w
<1>1. Template # NoFile
  <2>1. NoFile \notin AllTexts
    BY WorkspaceAssumption, Zenon
  <2> QED
    BY <2>1 DEF AllTexts
<1>2. Disk!Files(NumbersOf(F)) =
        {v \in Versions : \E f \in F : f.version = v}
  BY <1>1 DEF Disk!Files, NumbersOf
<1> QED
  BY <1>2 DEF Disk!ValidateSequence

(* A create that nobody disturbs does not reuse a number and leaves no     *)
(* gap, whatever the other numbers are.                                    *)
THEOREM CreatesNumberNext == Spec => []CreateNumbersNext
<1>1. WorkspaceIInv => CreateNumbersNext
  <2> SUFFICES ASSUME WorkspaceIInv, NEW p \in Procs,
                      At(p, "create", "truncate") \/ At(p, "create", "write"),
                      Undisturbed(p), Target(p).version # Unnumbered
               PROVE  LET others == Listed(Dir(p)) \ {Target(p)}
                      IN  /\ \A f \in others : f.version # Target(p).version
                          /\ Disk!ValidateSequence(NumbersOf(others))
                             => Disk!ValidateSequence(
                                    NumbersOf(others \cup {Target(p)}))
    BY DEF CreateNumbersNext
  <2> DEFINE others == Listed(Dir(p)) \ {Target(p)}
             n == Target(p).version
  <2>1. Creating(p) /\ proc[p].pc # "stat"
    BY DEF At, Creating
  <2>2. DirectoryMade(p) /\ NumberIsNext(p) /\ TypeOK
    BY DEF WorkspaceIInv
  <2>3. Target(p) \in Paths
    BY <2>1, <2>2, CreatingPlace
  <2>4. n \in Versions /\ n > 0
    BY <2>1, <2>2, <2>3 DEF NumberIsNext, Paths, Versions
  <2>5. \A f \in Paths : f # Target(p) => Seen(p, f)
    BY DEF Seen, Untouched, Undisturbed
  <2>6. \A f \in others : f.version \in 0..(n - 1)
    BY <2>1, <2>2, <2>5 DEF NumberIsNext, Listed
  <2>7. n = 1 \/ \E f \in others : f.version = n - 1
    <3> SUFFICES ASSUME n # 1
                 PROVE  \E f \in others : f.version = n - 1
      OBVIOUS
    <3>1. PICK f \in Paths : /\ f.version = n - 1
                             /\ Seen(p, f) => f \in Listed(Dir(p))
      BY <2>1, <2>2 DEF NumberIsNext
    <3>2. n \in Int /\ n - 1 # n
      BY <2>4, MaxVersionIsNat DEF Versions
    <3>3. f # Target(p)
      BY <3>1, <3>2
    <3> QED
      BY <2>5, <3>1, <3>3
  <2>8. \A f \in others : f.version # n
    BY <2>4, <2>6, MaxVersionIsNat DEF Versions
  <2> HIDE DEF n
  <2>9. ASSUME Disk!ValidateSequence(NumbersOf(others))
        PROVE  Disk!ValidateSequence(NumbersOf(others \cup {Target(p)}))
    <3> DEFINE all == others \cup {Target(p)}
    <3>1. \A v \in Versions : (\E f \in others : f.version = v)
            => /\ v > 0
               /\ \A w \in 1..v : w \in Versions
                                  /\ \E f \in others : f.version = w
      BY <2>9, SequenceOfNumbers
    <3>2. \A w \in 1..(n - 1) : w \in Versions
                                /\ \E f \in others : f.version = w
      <4>1. CASE n = 1
        BY <4>1
      <4>2. CASE n # 1
        <5>1. n - 1 \in Versions
          BY <2>4, MaxVersionIsNat DEF Versions
        <5> HIDE DEF others
        <5> QED
          BY <2>7, <3>1, <4>2, <5>1
      <4> QED
        BY <4>1, <4>2
    <3>3. Target(p).version = n
      BY DEF n
    <3> HIDE DEF others
    <3>4. \A w \in 1..n : w \in Versions /\ \E f \in all : f.version = w
      <4>1. n \in Nat
        BY <2>4, MaxVersionIsNat DEF Versions
      <4>2. \A w \in 1..n : w = n \/ w \in 1..(n - 1)
        BY <4>1
      <4> QED
        BY <2>4, <3>2, <3>3, <4>2
    <3>5. \A v \in Versions : (\E f \in all : f.version = v)
            => /\ v > 0
               /\ \A w \in 1..v : w \in Versions
                                  /\ \E f \in all : f.version = w
      <4> SUFFICES ASSUME NEW v \in Versions, NEW f \in all, f.version = v
                   PROVE  /\ v > 0
                          /\ \A w \in 1..v :
                                w \in Versions /\ \E g \in all : g.version = w
        OBVIOUS
      <4>1. CASE f \in others
        BY <3>1, <4>1
      <4>2. CASE f = Target(p)
        BY <2>4, <3>3, <3>4, <4>2
      <4> QED
        BY <4>1, <4>2
    <3> HIDE DEF all
    <3>6. Disk!ValidateSequence(NumbersOf(all))
      BY <3>5, SequenceOfNumbers
    <3> QED
      BY <3>6 DEF all
  <2> QED
    BY <2>8, <2>9 DEF n
<1> QED
  BY <1>1, WorkspaceInvariant, PTL

(* Neither create nor init ever empties a file that was there when it      *)
(* looked.                                                                 *)
THEOREM NothingIsOverwritten == Spec => NothingOverwritten
<1> DEFINE Kept ==
      \A p \in Procs :
        /\ TruncateMigration(p) /\ files[Dir(p)][Target(p)] # NoFile
               => <<Dir(p), Target(p)>> \in changed[p]
        /\ TruncateConfig(p) /\ config # Absent
               => <<"config">> \in changed[p]
<1>1. WorkspaceIInv /\ [Next]_vars => [Kept]_vars
  <2>1. WorkspaceIInv => Kept
    BY DEF WorkspaceIInv, LookedBefore, TruncateMigration, TruncateConfig
  <2> QED
    BY <2>1
<1> QED
  BY <1>1, WorkspaceInvariant, PTL DEF Spec, NothingOverwritten

-----------------------------------------------------------------------------
(* What the one step of Runner sees of a version, by the files that carry  *)
(* its number.                                                             *)
LEMMA DiskVersion ==
  ASSUME NEW d, NEW v \in Versions, NEW f \in Listed(d), f.version = v,
         Splits(files[d][f]),
         \A g \in Listed(d) : g.version # Unnumbered,
         \A g \in Listed(d) : g.version = v => g = f
  PROVE  DiskOf(d)[v] = files[d][f]
<1> DEFINE here == {g \in Listed(d) : g.version = v}
<1>1. here = {f}
  OBVIOUS
<1>2. DiskOf(d)[v] = files[d][CHOOSE g \in here : TRUE]
  BY <1>1 DEF DiskOf
<1>3. (CHOOSE g \in here : TRUE) = f
  BY <1>1
<1> QED
  BY <1>2, <1>3

LEMMA NoVersion ==
  ASSUME NEW d, NEW v \in Versions,
         \A g \in Listed(d) : g.version # Unnumbered /\ g.version # v
  PROVE  DiskOf(d)[v] = NoFile
<1>1. {g \in Listed(d) : g.version = v} = {}
  OBVIOUS
<1> QED
  BY <1>1 DEF DiskOf

LEMMA BrokenVersion ==
  ASSUME NEW d, NEW f \in Listed(d), f.version \in Versions,
         \/ ~Splits(files[d][f])
         \/ \E g \in Listed(d) : g # f /\ g.version = f.version
  PROVE  DiskOf(d)[f.version] = Broken
<1> DEFINE here == {g \in Listed(d) : g.version = f.version}
<1>1. f \in here
  OBVIOUS
<1>2. ~ \E g \in here : here = {g} /\ Splits(files[d][g])
  OBVIOUS
<1> QED
  BY <1>1, <1>2 DEF DiskOf

LEMMA UnnumberedIsBroken ==
  ASSUME NEW d, NEW f \in Listed(d), f.version = Unnumbered
  PROVE  0 \in Versions /\ DiskOf(d)[0] = Broken
<1>1. 0 \in Versions
  BY MaxVersionIsNat DEF Versions
<1> QED
  BY <1>1 DEF DiskOf

(* When LoadDir gets through it has every file that was left alone; when   *)
(* nobody disturbed it, what Runner takes in one step; and when it then    *)
(* stops Runner's step stops as well.                                      *)
THEOREM LoadDirIsOneStep == Spec => DirectoryLoaded
<1> DEFINE Loaded ==
      \A p \in Procs :
        /\ DirIsLoaded(p) =>
               \A f \in Listed(Dir(p)) : Untouched(p, f)
                   => /\ f.version \in Versions
                      /\ proc[p].loaded[f.version] = files[Dir(p)][f]
        /\ DirIsLoaded(p) /\ Undisturbed(p)
               => proc[p].loaded = DiskOf(Dir(p))
        /\ (\E f \in proc[p].listing : ParseFileFails(p, f)) /\ Undisturbed(p)
               => ~Disk!Loads(DiskOf(Dir(p)))
<1>1. ASSUME WorkspaceIInv, NEW p \in Procs, DirIsLoaded(p)
      PROVE  /\ \A f \in Listed(Dir(p)) : Untouched(p, f) <=> f \in Read(p)
             /\ \A f \in Read(p) :
                  /\ f \in Listed(Dir(p)) /\ f.version \in Versions
                  /\ Splits(files[Dir(p)][f])
                  /\ proc[p].loaded[f.version] = files[Dir(p)][f]
                  /\ \A g \in Read(p) : f.version = g.version => f = g
             /\ \A v \in Versions : proc[p].loaded[v] # NoFile =>
                  \E f \in Paths : f.version = v
                                   /\ (Untouched(p, f) => f \in Read(p))
  <2>1. proc[p].pc = "parse" /\ proc[p].listing = {} /\ ReadAsTheyAre(p)
    BY <1>1 DEF DirIsLoaded, WorkspaceIInv
  <2>2. \A f \in Read(p) :
          /\ f \in Paths /\ f \in Listed(Dir(p)) /\ f.version # Unnumbered
          /\ Splits(files[Dir(p)][f])
          /\ proc[p].loaded[f.version] = files[Dir(p)][f]
          /\ \A g \in Read(p) : f.version = g.version => f = g
    BY <2>1 DEF ReadAsTheyAre, Read, Listed
  <2>3. \A f \in Read(p) : f.version \in Versions
    BY <2>2 DEF Paths, Versions
  <2>4. \A f \in Listed(Dir(p)) : Untouched(p, f) <=> f \in Read(p)
    BY <2>1 DEF Read
  <2>5. \A v \in Versions : proc[p].loaded[v] # NoFile =>
          \E f \in Paths : f.version = v
                           /\ (Untouched(p, f) => f \in Read(p))
    BY <2>1 DEF ReadAsTheyAre
  <2> QED
    BY <2>2, <2>3, <2>4, <2>5
<1>2. ASSUME WorkspaceIInv, NEW p \in Procs, DirIsLoaded(p), Undisturbed(p)
      PROVE  proc[p].loaded = DiskOf(Dir(p))
  <2> DEFINE d == Dir(p)
  <2>1. \A f \in Paths : Untouched(p, f)
    BY <1>2 DEF Undisturbed, Untouched
  <2>2. Read(p) = Listed(d)
    <3>1. Listed(d) \subseteq Paths /\ Read(p) \subseteq Listed(d)
      BY DEF Listed, Read
    <3> QED
      BY <1>1, <1>2, <2>1, <3>1
  <2>3. /\ \A f \in Listed(d) :
              /\ f.version \in Versions
              /\ Splits(files[d][f])
              /\ proc[p].loaded[f.version] = files[d][f]
              /\ \A g \in Listed(d) : f.version = g.version => f = g
        /\ \A v \in Versions :
              proc[p].loaded[v] # NoFile => \E f \in Listed(d) : f.version = v
    BY <1>1, <1>2, <2>1, <2>2
  <2> HIDE DEF d
  <2>4. \A f \in Listed(d) : f.version # Unnumbered
    BY <2>3, MaxVersionIsNat DEF Versions, Unnumbered
  <2>5. ASSUME NEW v \in Versions PROVE proc[p].loaded[v] = DiskOf(d)[v]
    <3>1. CASE \E f \in Listed(d) : f.version = v
      <4>1. PICK f \in Listed(d) : f.version = v
        BY <3>1
      <4>2. DiskOf(d)[v] = files[d][f]
        BY <2>3, <2>4, <4>1, DiskVersion
      <4> QED
        BY <2>3, <4>1, <4>2
    <3>2. CASE ~ \E f \in Listed(d) : f.version = v
      <4>1. DiskOf(d)[v] = NoFile
        BY <2>4, <3>2, NoVersion
      <4> QED
        BY <2>3, <3>2, <4>1
    <3> QED
      BY <3>1, <3>2
  <2>6. proc[p].loaded \in [Versions -> AllTexts \cup {NoFile}]
    BY <1>2, ProcFields DEF WorkspaceIInv, TypeOK
  <2>7. /\ DOMAIN proc[p].loaded = Versions
        /\ proc[p].loaded = [v \in Versions |-> proc[p].loaded[v]]
    BY <2>6
  <2>8. /\ DOMAIN DiskOf(d) = Versions
        /\ DiskOf(d) = [v \in Versions |-> DiskOf(d)[v]]
    BY DEF DiskOf
  <2> QED
    BY <2>5, <2>7, <2>8, Zenon DEF d
<1>3. ASSUME WorkspaceIInv, NEW p \in Procs, NEW f \in proc[p].listing,
             ParseFileFails(p, f), Undisturbed(p)
      PROVE  ~Disk!Loads(DiskOf(Dir(p)))
  <2> DEFINE d == Dir(p)
  <2>1. /\ proc[p].pc = "parse" /\ ~Usable(p, f)
        /\ ReadAsTheyAre(p)
    BY <1>3 DEF ParseFileFails, WorkspaceIInv
  <2>2. \A g \in Paths : Untouched(p, g)
    BY <1>3 DEF Undisturbed, Untouched
  <2>3. f \in Paths /\ f \in Listed(d) /\ f \notin Read(p)
        /\ files[d][f] # NoFile
    <3>1. f \in Paths
      BY <1>3, ProcFields DEF WorkspaceIInv, TypeOK
    <3>2. f \in Listed(d)
      BY <1>3, <2>1, <2>2, <3>1 DEF ReadAsTheyAre
    <3> QED
      BY <1>3, <3>1, <3>2 DEF Read, Listed
  <2>4. CASE f.version = Unnumbered
    BY <2>3, <2>4, UnnumberedIsBroken DEF Disk!Loads
  <2>5. CASE f.version # Unnumbered
    <3>1. f.version \in Versions
      BY <2>3, <2>5 DEF Paths, Versions
    <3>2. \/ ~Splits(files[d][f])
          \/ proc[p].loaded[f.version] # NoFile
      BY <2>1, <2>3, <2>5 DEF Usable
    <3>3. CASE ~Splits(files[d][f])
      BY <2>3, <3>1, <3>3, BrokenVersion DEF Disk!Loads
    <3>4. CASE proc[p].loaded[f.version] # NoFile
      <4>1. PICK g \in Paths : g.version = f.version
                               /\ (Untouched(p, g) => g \in Read(p))
        BY <2>1, <3>1, <3>4 DEF ReadAsTheyAre
      <4>2. g # f /\ g \in Listed(d)
        BY <2>2, <2>3, <4>1 DEF Read
      <4> QED
        BY <2>3, <3>1, <4>1, <4>2, BrokenVersion DEF Disk!Loads
    <3> QED
      BY <3>2, <3>3, <3>4
  <2> QED
    BY <2>4, <2>5
<1>4. WorkspaceIInv /\ [Next]_vars => [Loaded]_vars
  BY <1>1, <1>2, <1>3
<1> QED
  BY <1>4, WorkspaceInvariant, PTL DEF Spec, DirectoryLoaded

=============================================================================
