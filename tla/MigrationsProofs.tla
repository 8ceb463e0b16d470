-------------------------- MODULE MigrationsProofs --------------------------
(***************************************************************************)
(* What holds of startup for every directory of migrations, every sequence *)
(* of releases, any number of processes and of crashes.                    *)
(***************************************************************************)
EXTENDS Migrations, TLAPS

\* How far a process has come, as the tables show it.
Progress(p) ==
  /\ at[p] \in {"down", "check", "migrated", "serving"} => line[p] = 0
  /\ At(p, "exec") => \A f \in Files : Current(p, f) =>
       /\ line[p] < Statements[f]
       /\ \A n \in 1 .. line[p] : <<f, n>> \in effect
  /\ At(p, "record") => \A f \in Files : Current(p, f) =>
       line[p] = Statements[f] /\ InEffect(f)
  /\ at[p] \in {"down", "migrated", "serving"} => todo[p] = {}
  /\ files[p] \in Images \cup {{}}
  /\ todo[p] \subseteq files[p]
  /\ files[p] \ todo[p] \subseteq recorded \/ At(p, "down")

MigInv == TypeOK /\ RecordedInEffect /\ \A p \in Processes : Progress(p)

-----------------------------------------------------------------------------
\* Two files of one process are never both its current one.
LEMMA CurrentUnique ==
  ASSUME MigrationsAssumption, TypeOK, NEW p \in Processes,
         NEW f \in Files, NEW g \in Files, Current(p, f), Current(p, g)
  PROVE  f = g
  BY DEF MigrationsAssumption, TypeOK, Current, Earlier

\* Statements stay in effect.
LEMMA EffectGrows == ASSUME Next PROVE effect \subseteq effect'
  BY DEF Next, Work, Boot, Check, Exec, ExecRefused, Record, RecordRefused,
         Migrated, Serve, Stop, Crash, Deploy, Exit, Goto, schema, vars

LEMMA InitType == ASSUME MigrationsAssumption, Init PROVE TypeOK
  BY DEF MigrationsAssumption, Init, TypeOK, Steps

LEMMA InitInv == ASSUME MigrationsAssumption, Init PROVE MigInv
<1>1. TypeOK
  BY InitType
<1>2. RecordedInEffect
  BY DEF Init, RecordedInEffect
<1>3. ASSUME NEW p \in Processes PROVE Progress(p)
  BY DEF Init, Progress, At
<1> QED  BY <1>1, <1>2, <1>3 DEF MigInv

-----------------------------------------------------------------------------
\* Types.

\* What a step that executes nothing has to keep.
Control ==
  /\ image \in Images
  /\ recorded \subseteq Files
  /\ at \in [Processes -> Steps]
  /\ files \in [Processes -> SUBSET Files]
  /\ todo \in [Processes -> SUBSET Files]
  /\ line \in [Processes -> Nat]
  /\ crashes \in 0 .. MaxCrashes

LEMMA ExceptType ==
  ASSUME NEW S, NEW R, NEW f \in [S -> R], NEW p, NEW x \in R
  PROVE  [f EXCEPT ![p] = x] \in [S -> R]
  OBVIOUS

\* Only Boot writes files, only three kinds of step write todo.
LEMMA StepFiles ==
  ASSUME MigrationsAssumption, Control, Next
  PROVE  /\ files' \in [Processes -> SUBSET Files]
         /\ todo' \in [Processes -> SUBSET Files]
<1>0. /\ files \in [Processes -> SUBSET Files]
      /\ todo \in [Processes -> SUBSET Files]
      /\ image \in SUBSET Files
  BY DEF MigrationsAssumption, Control
<1>1. CASE UNCHANGED <<files, todo>>
  BY <1>0, <1>1
<1>2. ASSUME NEW p \in Processes, Exit(p)
      PROVE  UNCHANGED files /\ todo' \in [Processes -> SUBSET Files]
  <2>1. {} \in SUBSET Files
    OBVIOUS
  <2> QED  BY <1>0, <1>2, <2>1, ExceptType DEF Exit
<1>3. ASSUME NEW p \in Processes, NEW f \in Files,
             UNCHANGED files, todo' = [todo EXCEPT ![p] = @ \ {f}]
      PROVE  todo' \in [Processes -> SUBSET Files]
  <2>1. todo[p] \ {f} \in SUBSET Files
    BY <1>0
  <2> QED  BY <1>0, <1>3, <2>1, ExceptType
<1>4. ASSUME NEW p \in Processes, Boot(p)
      PROVE  /\ files' \in [Processes -> SUBSET Files]
             /\ todo' \in [Processes -> SUBSET Files]
  BY <1>0, <1>4, ExceptType DEF Boot
<1>5. \/ UNCHANGED <<files, todo>>
      \/ \E p \in Processes : Boot(p) \/ Exit(p)
      \/ UNCHANGED files /\ \E p \in Processes, f \in Files :
           todo' = [todo EXCEPT ![p] = @ \ {f}]
  BY DEF Next, Work, Check, Exec, ExecRefused, Record, RecordRefused,
         Migrated, Serve, Stop, Crash, Deploy
<1> QED  BY <1>0, <1>1, <1>2, <1>3, <1>4, <1>5

LEMMA StepProcess ==
  ASSUME Control, Next
  PROVE  at' \in [Processes -> Steps] /\ line' \in [Processes -> Nat]
<1>0. at \in [Processes -> Steps] /\ line \in [Processes -> Nat]
  BY DEF Control
<1>1. ASSUME NEW p \in Processes, NEW step \in Steps, Goto(p, step)
      PROVE  at' \in [Processes -> Steps]
  BY <1>0, <1>1, ExceptType DEF Goto
<1>2. ASSUME NEW p \in Processes, line' = [line EXCEPT ![p] = 0]
      PROVE  line' \in [Processes -> Nat]
  BY <1>0, <1>2
<1>3. ASSUME NEW p \in Processes, line' = [line EXCEPT ![p] = @ + 1]
      PROVE  line' \in [Processes -> Nat]
  BY <1>0, <1>3
<1>4. UNCHANGED at \/ \E p \in Processes, step \in Steps : Goto(p, step)
  BY DEF Next, Work, Boot, Check, Exec, ExecRefused, Record, RecordRefused,
         Migrated, Serve, Stop, Crash, Deploy, Exit, Steps
<1>5. \/ UNCHANGED line
      \/ \E p \in Processes : line' = [line EXCEPT ![p] = 0]
      \/ \E p \in Processes : line' = [line EXCEPT ![p] = @ + 1]
  BY DEF Next, Work, Boot, Check, Exec, ExecRefused, Record, RecordRefused,
         Migrated, Serve, Stop, Crash, Deploy, Exit
<1>6. at' \in [Processes -> Steps]
  BY <1>0, <1>1, <1>4
<1>7. line' \in [Processes -> Nat]
  BY <1>0, <1>2, <1>3, <1>5
<1> QED  BY <1>6, <1>7

LEMMA StepControl ==
  ASSUME MigrationsAssumption, Control, Next PROVE Control'
<1>1. /\ image' \in Images
      /\ recorded' \subseteq Files
  BY DEF Control, Next, Work, Boot, Check, Exec, ExecRefused, Record,
         RecordRefused, Migrated, Serve, Stop, Crash, Deploy, schema
<1>2. crashes' \in 0 .. MaxCrashes
  <2>1. crashes' = crashes \/ (crashes < MaxCrashes /\ crashes' = crashes + 1)
    BY DEF Next, Work, Boot, Check, Exec, ExecRefused, Record,
           RecordRefused, Migrated, Serve, Stop, Crash, Deploy
  <2>2. MaxCrashes \in Nat
    BY DEF MigrationsAssumption
  <2> QED  BY <2>1, <2>2 DEF Control
<1> QED  BY <1>1, <1>2, StepFiles, StepProcess DEF Control

LEMMA StepType ==
  ASSUME MigrationsAssumption, MigInv, Next PROVE TypeOK'
<1>1. TypeOK /\ Control'
  <2>1. Control /\ TypeOK
    BY DEF MigInv, TypeOK, Control
  <2> QED  BY <2>1, StepControl
<1>2. ASSUME NEW p \in Processes, NEW f \in Files, Exec(p, f),
             NEW s \in effect'
      PROVE  s[1] \in Files /\ s[2] \in 1 .. Statements[s[1]]
  <2>1. line[p] + 1 \in 1 .. Statements[f]
    BY <1>1, <1>2 DEF MigrationsAssumption, TypeOK, Exec, At, MigInv, Progress
  <2>2. s \in effect \/ s = <<f, line[p] + 1>>
    BY <1>2 DEF Exec
  <2> QED  BY <1>1, <2>1, <2>2 DEF TypeOK
<1>3. CASE effect' = effect
  BY <1>1, <1>3 DEF TypeOK, Control
<1>4. CASE effect' # effect
  <2>1. PICK p \in Processes, f \in Files : Exec(p, f)
    BY <1>4 DEF Next, Work, Boot, Check, ExecRefused, Record, RecordRefused,
         Migrated, Serve, Stop, Crash, Deploy, schema
  <2> QED  BY <1>1, <1>2, <2>1 DEF TypeOK, Control
<1> QED  BY <1>3, <1>4

-----------------------------------------------------------------------------
\* A process that is not part of a step only sees the tables grow.
LEMMA OthersProgress ==
  ASSUME MigInv, NEW q \in Processes,
         effect \subseteq effect', recorded \subseteq recorded',
         at'[q] = at[q], files'[q] = files[q], todo'[q] = todo[q],
         line'[q] = line[q]
  PROVE  Progress(q)'
  BY DEF MigInv, Progress, At, Current, InEffect, Earlier

LEMMA ExitProgress ==
  ASSUME MigrationsAssumption, MigInv, NEW p \in Processes, Exit(p)
  PROVE  Progress(p)'
  BY DEF MigInv, TypeOK, Progress, Exit, Goto, At

LEMMA BootProgress ==
  ASSUME MigInv, NEW p \in Processes, Boot(p) PROVE Progress(p)'
  BY DEF MigInv, TypeOK, Progress, Boot, Goto, At

\* CheckProgress and RecordProgress: what leaves todo is recorded.
LEMMA CheckProgress ==
  ASSUME MigrationsAssumption, MigInv, NEW p \in Processes, NEW f \in Files,
         Check(p, f)
  PROVE  Progress(p)'
<1>1. TypeOK /\ Progress(p) /\ line[p] = 0
  BY DEF MigInv, Progress, Check, At
<1>2. CASE f \in recorded
  <2>1. /\ at'[p] = "check" /\ line'[p] = 0 /\ files'[p] = files[p]
        /\ todo'[p] = todo[p] \ {f} /\ recorded' = recorded
    BY <1>1, <1>2 DEF TypeOK, Check, At, schema
  <2> QED  BY <1>1, <1>2, <2>1 DEF Progress, At, Check
<1>3. CASE f \notin recorded
  <2>1. /\ at'[p] = "exec" /\ line'[p] = 0 /\ files'[p] = files[p]
        /\ todo' = todo /\ recorded' = recorded
    BY <1>1, <1>3 DEF TypeOK, Check, Goto, At, schema
  <2>2. \A g \in Files : 0 < Statements[g]
    BY DEF MigrationsAssumption
  <2> QED  BY <1>1, <2>1, <2>2 DEF Progress, At, Check
<1> QED  BY <1>2, <1>3

LEMMA ExecProgress ==
  ASSUME MigrationsAssumption, MigInv, NEW p \in Processes, NEW f \in Files,
         Exec(p, f)
  PROVE  Progress(p)'
<1>1. TypeOK /\ Progress(p) /\ At(p, "exec") /\ Current(p, f)
  BY DEF MigInv, Exec
<1>2. /\ line[p] \in Nat /\ Statements[f] \in Nat
      /\ line[p] < Statements[f]
      /\ \A n \in 1 .. line[p] : <<f, n>> \in effect
  BY <1>1 DEF MigrationsAssumption, TypeOK, Progress
<1>3. \A g \in Files : Current(p, g)' => g = f
  BY <1>1, CurrentUnique DEF Exec, Current, Earlier
<1>4. /\ line'[p] = line[p] + 1
      /\ \A n \in 1 .. line'[p] : <<f, n>> \in effect'
  BY <1>1, <1>2 DEF TypeOK, Exec
<1>5. CASE line[p] + 1 = Statements[f]
  <2>1. at'[p] = "record" /\ InEffect(f)'
    BY <1>1, <1>4, <1>5 DEF TypeOK, Exec, Goto, InEffect
  <2> QED  BY <1>1, <1>3, <1>4, <1>5, <2>1 DEF Progress, Exec, At
<1>6. CASE line[p] + 1 # Statements[f]
  <2>1. at'[p] = "exec" /\ line'[p] < Statements[f]
    BY <1>1, <1>2, <1>4, <1>6 DEF Exec, At
  <2> QED  BY <1>1, <1>3, <1>4, <2>1 DEF Progress, Exec, At
<1> QED  BY <1>5, <1>6

LEMMA RecordProgress ==
  ASSUME MigrationsAssumption, MigInv, NEW p \in Processes, NEW f \in Files,
         Record(p, f)
  PROVE  Progress(p)'
<1>1. TypeOK /\ Progress(p) /\ At(p, "record")
  BY DEF MigInv, Record
<1>2. /\ at'[p] = "check" /\ line'[p] = 0 /\ files'[p] = files[p]
      /\ todo'[p] = todo[p] \ {f} /\ recorded' = recorded \cup {f}
  BY <1>1 DEF TypeOK, Record, Goto
<1> QED  BY <1>1, <1>2 DEF Progress, At

LEMMA RestProgress ==
  ASSUME MigInv, NEW p \in Processes, Migrated(p) \/ Serve(p)
  PROVE  Progress(p)'
<1>1. TypeOK /\ Progress(p) /\ todo[p] = {} /\ line[p] = 0
  BY DEF MigInv, Progress, Migrated, Serve, At
<1>2. /\ at'[p] \in {"migrated", "serving"}
      /\ UNCHANGED <<files, todo, line, recorded>>
  BY <1>1 DEF TypeOK, Migrated, Serve, Goto, schema
<1> QED  BY <1>1, <1>2 DEF Progress, At, Migrated, Serve

LEMMA StepRecorded ==
  ASSUME MigrationsAssumption, MigInv, Next PROVE RecordedInEffect'
<1>1. ASSUME NEW p \in Processes, NEW f \in Files, Record(p, f)
      PROVE  RecordedInEffect'
  <2>1. InEffect(f)
    BY <1>1 DEF MigInv, Progress, Record
  <2> QED  BY <1>1, <2>1 DEF MigInv, RecordedInEffect, Record, InEffect
<1>2. CASE ~\E p \in Processes, f \in Files : Record(p, f)
  <2>1. recorded' = recorded
    BY <1>2 DEF Next, Work, Boot, Check, Exec, ExecRefused, Record,
             RecordRefused, Migrated, Serve, Stop, Crash, Deploy, schema
  <2> QED  BY <2>1, EffectGrows DEF MigInv, RecordedInEffect, InEffect
<1> QED  BY <1>1, <1>2

LEMMA RecordedGrows == ASSUME Next PROVE recorded \subseteq recorded'
  BY DEF Next, Work, Boot, Check, Exec, ExecRefused, Record,
         RecordRefused, Migrated, Serve, Stop, Crash, Deploy, schema

\* What a step of p leaves alone of q.
LEMMA StepsOfOne ==
  ASSUME TypeOK, NEW p \in Processes, Work(p) \/ Stop(p) \/ Crash(p),
         NEW q \in Processes, q # p
  PROVE  /\ at'[q] = at[q] /\ files'[q] = files[q]
         /\ todo'[q] = todo[q] /\ line'[q] = line[q]
<1> USE DEF TypeOK, Goto, Exit
<1>1. ASSUME NEW f \in Files,
             Check(p, f) \/ Exec(p, f) \/ ExecRefused(p, f)
               \/ Record(p, f) \/ RecordRefused(p, f)
      PROVE  /\ at'[q] = at[q] /\ files'[q] = files[q]
             /\ todo'[q] = todo[q] /\ line'[q] = line[q]
  BY <1>1 DEF Check, Exec, ExecRefused, Record, RecordRefused
<1>2. CASE Boot(p) \/ Migrated(p) \/ Serve(p) \/ Stop(p) \/ Crash(p)
  BY <1>2 DEF Boot, Migrated, Serve, Stop, Crash
<1> QED  BY <1>1, <1>2 DEF Work

LEMMA StepInv == ASSUME MigrationsAssumption, MigInv, Next PROVE MigInv'
<1>1. TypeOK' /\ RecordedInEffect'
  BY StepType, StepRecorded
<1>2. ASSUME NEW p \in Processes, Work(p) \/ Stop(p) \/ Crash(p),
             NEW q \in Processes
      PROVE  Progress(q)'
  <2>1. CASE q # p
    BY <1>2, <2>1, StepsOfOne, OthersProgress, EffectGrows, RecordedGrows
       DEF MigInv
  <2>2. ASSUME NEW f \in Files,
               Check(p, f) \/ Exec(p, f) \/ ExecRefused(p, f)
                 \/ Record(p, f) \/ RecordRefused(p, f)
        PROVE  Progress(p)'
    BY <2>2, CheckProgress, ExecProgress, RecordProgress, ExitProgress
       DEF ExecRefused, RecordRefused
  <2>3. CASE Boot(p) \/ Migrated(p) \/ Serve(p) \/ Stop(p) \/ Crash(p)
    <3>1. Progress(p)'
      BY <2>3, BootProgress, RestProgress, ExitProgress DEF Stop, Crash
    <3> QED  BY <2>1, <3>1
  <2> QED  BY <1>2, <2>1, <2>2, <2>3 DEF Work
<1>3. ASSUME NEW release \in Images, Deploy(release), NEW q \in Processes
      PROVE  Progress(q)'
  BY <1>3, OthersProgress DEF Deploy, schema
<1> QED  BY <1>1, <1>2, <1>3 DEF Next, MigInv

LEMMA StutterInv == ASSUME MigInv, UNCHANGED vars PROVE MigInv'
<1>1. TypeOK' /\ RecordedInEffect'
  BY DEF MigInv, vars, TypeOK, RecordedInEffect, InEffect
<1>2. ASSUME NEW q \in Processes PROVE Progress(q)'
  BY OthersProgress DEF vars
<1> QED  BY <1>1, <1>2 DEF MigInv

LEMMA Invariance == ASSUME MigrationsAssumption PROVE Spec => []MigInv
<1>1. Init => MigInv
  BY InitInv
<1>2. MigInv /\ [Next]_vars => MigInv'
  BY StepInv, StutterInv
<1> QED  BY <1>1, <1>2, PTL DEF Spec

-----------------------------------------------------------------------------
\* Tables and processes keep their types: no statement past the end of a
\* file is ever executed.
THEOREM StartupTypeCorrect == ASSUME MigrationsAssumption PROVE Spec => []TypeOK
<1>1. MigInv => TypeOK
  BY DEF MigInv
<1> QED  BY <1>1, Invariance, PTL

\* schema_migrations never lists a file of which a statement is not in effect.
THEOREM RecordsAreTrue ==
  ASSUME MigrationsAssumption PROVE Spec => []RecordedInEffect
<1>1. MigInv => RecordedInEffect
  BY DEF MigInv
<1> QED  BY <1>1, Invariance, PTL

\* A process that has passed runMigrations serves with all its files.
THEOREM ServedSchemaIsWhole ==
  ASSUME MigrationsAssumption PROVE Spec => []ServesWholeSchema
<1>1. MigInv => ServesWholeSchema
  BY DEF MigInv, RecordedInEffect, ServesWholeSchema, Progress, At
<1> QED  BY <1>1, Invariance, PTL

\* Taking the files by name is order enough.
THEOREM OrderSuffices == ASSUME MigrationsAssumption PROVE Spec => []NeedsInEffect
<1>1. ASSUME MigInv PROVE NeedsInEffect
  <2>1. SUFFICES ASSUME NEW p \in Processes, NEW f \in Files, At(p, "exec"),
                        Current(p, f), NEW g \in Needs[f]
                 PROVE  InEffect(g)
    BY DEF NeedsInEffect
  <2>2. f \in files[p] /\ files[p] \in Images
    BY <1>1, <2>1 DEF MigInv, Progress, Current
  <2>3. g \in files[p] /\ g < f /\ g \in Files /\ g \in Int /\ f \in Int
    BY <2>2 DEF MigrationsAssumption
  <2>4. g \notin todo[p]
    BY <2>1, <2>3 DEF Current, Earlier
  <2>5. g \in recorded
    BY <1>1, <2>1, <2>3, <2>4 DEF MigInv, Progress, At
  <2> QED  BY <1>1, <2>5 DEF MigInv, RecordedInEffect
<1> QED  BY <1>1, Invariance, PTL

-----------------------------------------------------------------------------
\* Why starting processes alone never leave a file cut.  A file that must not
\* be executed twice is in the hands of at most one process (Solo) from its
\* first statement to its row, and a process lets go of it unrecorded only
\* when it crashes (InHand).
Busy(p, f) == Current(p, f) /\ line[p] > 0
Fragile == Files \ Rerunnable

Prefix == \A f \in Files, n \in Nat : <<f, n>> \in effect => <<f, 1>> \in effect

Solo ==
  \A f \in Fragile, p \in Processes : f \notin recorded /\ Busy(p, f) =>
    /\ \A n \in Nat : <<f, n>> \in effect => n <= line[p]
    /\ \A q \in Processes : Busy(q, f) => q = p

InHand ==
  crashes = 0 => \A f \in Fragile : f \notin recorded /\ <<f, 1>> \in effect =>
    \E p \in Processes : Busy(p, f)

CutInv == MigInv /\ Prefix /\ Solo /\ InHand

LEMMA BusyStep ==
  ASSUME MigInv, NEW p \in Processes, NEW f \in Files, Busy(p, f)
  PROVE  /\ At(p, "exec") \/ (At(p, "record") /\ InEffect(f))
         /\ line[p] \in Nat /\ <<f, 1>> \in effect
         /\ At(p, "exec") => /\ \A n \in 1 .. line[p] : <<f, n>> \in effect
                             /\ line[p] < Statements[f]
<1>1. TypeOK /\ Progress(p) /\ line[p] \in Nat /\ line[p] > 0 /\ Current(p, f)
  BY DEF MigInv, Busy, TypeOK
<1>2. At(p, "exec") \/ At(p, "record")
  <2>1. at[p] \in Steps
    BY <1>1 DEF TypeOK
  <2> QED  BY <1>1, <2>1 DEF Progress, At, Steps
<1>3. CASE At(p, "exec")
  BY <1>1, <1>3 DEF Progress, At
<1>4. CASE At(p, "record")
  BY <1>1, <1>4 DEF Progress, At, InEffect
<1> QED  BY <1>1, <1>2, <1>3, <1>4

\* ExecRefused never takes a fragile file out of the hand of a process.
LEMMA NotRefused ==
  ASSUME MigrationsAssumption, CutInv, NEW p \in Processes, NEW f \in Fragile,
         f \notin recorded, Busy(p, f), At(p, "exec")
  PROVE  Executable(f, line[p] + 1)
<1>1. f \in Files /\ Current(p, f) /\ line[p] \in Nat
  BY DEF Fragile, Busy, CutInv, MigInv, TypeOK
<1>2. <<f, line[p] + 1>> \notin effect
  BY <1>1 DEF CutInv, Solo
<1>3. \A g \in Needs[f] : InEffect(g)
  <2>1. TAKE g \in Needs[f]
  <2>2. f \in files[p] /\ files[p] \in Images
    BY <1>1 DEF CutInv, MigInv, Progress, Current
  <2>3. g \in files[p] /\ g < f /\ g \in Files /\ g \in Int /\ f \in Int
    BY <2>2 DEF MigrationsAssumption
  <2>4. g \notin todo[p]
    BY <1>1, <2>3 DEF Current, Earlier
  <2>5. g \in recorded
    BY <2>3, <2>4 DEF CutInv, MigInv, Progress, At
  <2> QED  BY <2>5 DEF CutInv, MigInv, RecordedInEffect
<1> QED  BY <1>2, <1>3 DEF Executable

\* A step either executes a statement, or leaves every file in the hands it is
\* in, unless it records it or crashes.
LEMMA HandsOff ==
  ASSUME MigrationsAssumption, CutInv, Next,
         ~\E p \in Processes, f \in Files : Exec(p, f)
  PROVE  /\ effect' = effect
         /\ \A q \in Processes, g \in Files : Busy(q, g)' => Busy(q, g) /\ line'[q] = line[q]
         /\ \A q \in Processes, g \in Fragile :
              Busy(q, g) /\ g \notin recorded' /\ crashes' = 0 => Busy(q, g)'
<1>1. effect' = effect
  BY DEF Next, Work, Boot, Check, ExecRefused, Record, RecordRefused,
         Migrated, Serve, Stop, Crash, Deploy, schema
<1>2. ASSUME NEW p \in Processes, Work(p) \/ Stop(p) \/ Crash(p),
             NEW q \in Processes, q # p, NEW g \in Files
      PROVE  Busy(q, g)' <=> Busy(q, g)
  BY <1>2, StepsOfOne DEF CutInv, MigInv, Busy, Current, Earlier
<1>3. ASSUME NEW p \in Processes, Work(p) \/ Stop(p) \/ Crash(p),
             NEW g \in Files, Busy(p, g)'
      PROVE  FALSE
  <2>1. TypeOK /\ Progress(p) /\ line[p] \in Nat
    BY DEF CutInv, MigInv, TypeOK
  <2>2. line'[p] = 0
    BY <1>3, <2>1
       DEF TypeOK, Work, Boot, Check, ExecRefused, Record, RecordRefused,
           Migrated, Serve, Stop, Crash, Exit, Progress, At
  <2> QED  BY <1>3, <2>2 DEF Busy
<1>4. ASSUME NEW p \in Processes, Work(p) \/ Stop(p) \/ Crash(p),
             NEW g \in Fragile, Busy(p, g), g \notin recorded', crashes' = 0
      PROVE  FALSE
  <2>1. g \in Files /\ MigInv /\ Current(p, g) /\ TypeOK
    BY <1>4 DEF Fragile, CutInv, MigInv, Busy
  <2>2. At(p, "exec") \/ At(p, "record")
    BY <1>4, <2>1, BusyStep
  <2>3. g \notin recorded
    BY <1>4, RecordedGrows
  <2>4. ASSUME NEW f \in Files,
               Check(p, f) \/ ExecRefused(p, f) \/ Record(p, f)
                 \/ RecordRefused(p, f)
        PROVE  FALSE
    <3>1. f = g
      BY <2>1, <2>4, CurrentUnique
         DEF Check, ExecRefused, Record, RecordRefused
    <3>2. ~ExecRefused(p, f)
      BY <1>4, <2>3, <3>1, NotRefused DEF ExecRefused
    <3> QED  BY <1>4, <2>2, <2>3, <2>4, <3>1, <3>2
             DEF Check, Record, RecordRefused, At
  <2>5. ~(Boot(p) \/ Migrated(p) \/ Serve(p) \/ Stop(p))
    BY <2>2 DEF Boot, Migrated, Serve, Stop, At
  <2>6. ~Crash(p)
    BY <1>4, <2>1 DEF Crash, TypeOK
  <2> QED  BY <1>4, <2>4, <2>5, <2>6 DEF Work
<1>5. ASSUME NEW release \in Images, Deploy(release), NEW q \in Processes,
             NEW g \in Files
      PROVE  (Busy(q, g)' <=> Busy(q, g)) /\ line'[q] = line[q]
  BY <1>5 DEF Deploy, Busy, Current, Earlier
<1>6. ASSUME NEW q \in Processes, NEW g \in Files, Busy(q, g)'
      PROVE  Busy(q, g) /\ line'[q] = line[q]
  BY <1>2, <1>3, <1>5, <1>6, StepsOfOne DEF Next, CutInv, MigInv
<1>7. ASSUME NEW q \in Processes, NEW g \in Fragile, Busy(q, g),
             g \notin recorded', crashes' = 0
      PROVE  Busy(q, g)'
  BY <1>2, <1>4, <1>5, <1>7 DEF Next, Fragile
<1> QED  BY <1>1, <1>6, <1>7

\* What executing a statement does to the hands.
LEMMA HandsOn ==
  ASSUME MigrationsAssumption, CutInv, NEW p \in Processes, NEW f \in Files,
         Exec(p, f)
  PROVE  /\ Busy(p, f)' /\ Current(p, f) /\ line'[p] = line[p] + 1
         /\ line[p] \in Nat
         /\ effect' = effect \cup {<<f, line[p] + 1>>} /\ recorded' = recorded
         /\ crashes' = crashes
         /\ \A q \in Processes, g \in Files :
              q # p \/ g # f => /\ Busy(q, g)' <=> Busy(q, g)
                                /\ q # p => line'[q] = line[q]
<1>1. TypeOK /\ Current(p, f) /\ line[p] \in Nat /\ todo' = todo
  BY DEF CutInv, MigInv, TypeOK, Exec
<1>2. line'[p] = line[p] + 1 /\ \A q \in Processes : q # p => line'[q] = line[q]
  BY <1>1 DEF Exec, TypeOK
<1>3. \A q \in Processes, g \in Files : Current(q, g)' <=> Current(q, g)
  BY <1>1 DEF Current, Earlier
<1>4. \A g \in Files : g # f => ~Current(p, g)
  BY <1>1, CurrentUnique
<1> QED  BY <1>1, <1>2, <1>3, <1>4 DEF Busy, Exec

LEMMA StepCut == ASSUME MigrationsAssumption, CutInv, Next PROVE CutInv'
<1>0. MigInv'
  BY StepInv DEF CutInv
<1>1. ASSUME NEW p \in Processes, NEW f \in Files, Exec(p, f)
      PROVE  Prefix' /\ Solo' /\ InHand'
  <2>0. /\ MigInv /\ At(p, "exec") /\ Executable(f, line[p] + 1)
        /\ Prefix /\ Solo /\ InHand
    BY <1>1 DEF CutInv, Exec
  <2>1. /\ Busy(p, f)' /\ Current(p, f) /\ line'[p] = line[p] + 1
        /\ line[p] \in Nat
        /\ effect' = effect \cup {<<f, line[p] + 1>>} /\ recorded' = recorded
        /\ crashes' = crashes
        /\ \A q \in Processes, g \in Files :
             q # p \/ g # f => /\ Busy(q, g)' <=> Busy(q, g)
                               /\ q # p => line'[q] = line[q]
    BY <1>1, HandsOn
  <2>2. line[p] > 0 => <<f, 1>> \in effect
    BY <2>0, <2>1, BusyStep DEF Busy
  <2>3. Prefix'
    BY <2>0, <2>1, <2>2 DEF Prefix
  <2>4. ASSUME f \in Fragile, NEW q \in Processes, q # p, Busy(q, f),
               f \notin recorded
        PROVE  FALSE
    <3>1. <<f, 1>> \in effect
      BY <2>0, <2>4, BusyStep
    <3>2. line[p] > 0
      BY <2>0, <2>1, <2>4, <3>1 DEF Executable, Fragile
    <3> QED  BY <2>0, <2>1, <2>4, <3>2 DEF Solo, Busy
  <2>5. ASSUME f \in Fragile, f \notin recorded, NEW n \in Nat, <<f, n>> \in effect
        PROVE  n <= line[p]
    <3>1. <<f, 1>> \in effect
      BY <2>0, <2>5 DEF Prefix
    <3>2. line[p] > 0
      BY <2>0, <2>1, <2>5, <3>1 DEF Executable, Fragile
    <3> QED  BY <2>0, <2>1, <2>5, <3>2 DEF Solo, Busy
  <2>6. Solo'
    <3>1. SUFFICES ASSUME NEW g \in Fragile, NEW q \in Processes,
                          g \notin recorded, Busy(q, g)'
                   PROVE  /\ \A n \in Nat : <<g, n>> \in effect' => n <= line'[q]
                          /\ \A r \in Processes : Busy(r, g)' => r = q
      BY <2>1 DEF Solo
    <3>2. CASE g = f
      <4>1. q = p
        BY <2>1, <2>4, <3>1, <3>2 DEF Fragile
      <4>2. \A n \in Nat : <<f, n>> \in effect' => n <= line'[p]
        BY <2>1, <2>5, <3>1, <3>2
      <4>3. \A r \in Processes : Busy(r, f)' => r = p
        BY <2>1, <2>4, <3>1, <3>2 DEF Fragile
      <4> QED  BY <3>2, <4>1, <4>2, <4>3
    <3>3. CASE g # f
      <4>1. Busy(q, g) /\ \A r \in Processes : Busy(r, g)' => Busy(r, g)
        BY <2>1, <3>1, <3>3 DEF Fragile
      <4>2. q # p
        BY <2>0, <2>1, <3>1, <3>3, <4>1, CurrentUnique DEF Busy, Fragile, MigInv
      <4>3. \A n \in Nat : <<g, n>> \in effect' => <<g, n>> \in effect
        BY <2>1, <3>3
      <4> QED  BY <2>0, <2>1, <3>1, <4>1, <4>2, <4>3 DEF Solo, Fragile
    <3> QED  BY <3>2, <3>3
  <2>7. InHand'
    <3>1. SUFFICES ASSUME NEW g \in Fragile, g \notin recorded, crashes = 0,
                          <<g, 1>> \in effect'
                   PROVE  \E q \in Processes : Busy(q, g)'
      BY <2>1 DEF InHand
    <3>2. CASE g = f
      BY <2>1, <3>2
    <3>3. CASE g # f
      <4>1. PICK q \in Processes : Busy(q, g)
        BY <2>0, <2>1, <3>1, <3>3 DEF InHand
      <4> QED  BY <2>1, <3>3, <4>1 DEF Fragile
    <3> QED  BY <3>2, <3>3
  <2> QED  BY <2>3, <2>6, <2>7
<1>2. CASE ~\E p \in Processes, f \in Files : Exec(p, f)
  <2>0. Prefix /\ Solo /\ InHand /\ TypeOK
    BY DEF CutInv, MigInv
  <2>1. /\ effect' = effect
        /\ \A q \in Processes, g \in Files :
             Busy(q, g)' => Busy(q, g) /\ line'[q] = line[q]
        /\ \A q \in Processes, g \in Fragile :
             Busy(q, g) /\ g \notin recorded' /\ crashes' = 0 => Busy(q, g)'
    BY <1>2, HandsOff
  <2>2. recorded \subseteq recorded'
    BY RecordedGrows
  <2>3. crashes' = 0 => crashes = 0
    BY <2>0 DEF TypeOK, Next, Work, Boot, Check, Exec, ExecRefused, Record,
           RecordRefused, Migrated, Serve, Stop, Crash, Deploy
  <2>4. Prefix'
    BY <2>0, <2>1 DEF Prefix
  <2>5. Solo'
    BY <2>0, <2>1, <2>2 DEF Solo, Fragile
  <2>6. InHand'
    <3>1. SUFFICES ASSUME NEW g \in Fragile, g \notin recorded', crashes' = 0,
                          <<g, 1>> \in effect'
                   PROVE  \E q \in Processes : Busy(q, g)'
      BY DEF InHand
    <3>2. PICK q \in Processes : Busy(q, g)
      BY <2>0, <2>1, <2>2, <2>3, <3>1 DEF InHand
    <3> QED  BY <2>1, <3>1, <3>2
  <2> QED  BY <1>0, <2>4, <2>5, <2>6 DEF CutInv
<1> QED  BY <1>0, <1>1, <1>2 DEF CutInv

LEMMA CutInvariance == ASSUME MigrationsAssumption PROVE Spec => []CutInv
<1>1. ASSUME Init PROVE CutInv
  <2>1. Prefix /\ Solo /\ InHand
    BY <1>1 DEF Init, Prefix, Solo, InHand, Busy
  <2> QED  BY <1>1, <2>1, InitInv DEF CutInv
<1>2. ASSUME CutInv, UNCHANGED vars PROVE CutInv'
  <2>1. Prefix' /\ Solo' /\ InHand'
    BY <1>2 DEF CutInv, vars, Prefix, Solo, InHand, Busy, Current, Earlier
  <2> QED  BY <1>2, <2>1, StutterInv DEF CutInv
<1>3. CutInv /\ [Next]_vars => CutInv'
  BY <1>2, StepCut
<1> QED  BY <1>1, <1>3, PTL DEF Spec

\* Without a crash no file is ever cut, however many processes start at once.
THEOREM StartsAloneCutNothing ==
  ASSUME MigrationsAssumption PROVE Spec => []CutOnlyByCrash
<1>1. ASSUME CutInv PROVE CutOnlyByCrash
  <2>1. SUFFICES ASSUME NEW f \in Files, Cut(f), crashes = 0 PROVE FALSE
    BY <1>1 DEF CutOnlyByCrash, Wedged, CutInv, MigInv, TypeOK
  <2>2. f \in Fragile /\ f \notin recorded /\ <<f, 1>> \in effect
    <3>1. Statements[f] \in Nat
      BY DEF MigrationsAssumption
    <3> QED  BY <1>1, <2>1, <3>1 DEF Cut, Fragile, CutInv, Prefix
  <2> QED  BY <1>1, <2>1, <2>2 DEF CutInv, InHand, Busy, Cut
<1> QED  BY <1>1, CutInvariance, PTL

\* A cut file is never executed or recorded again, whatever is started.
THEOREM CutFilesStayCut == ASSUME MigrationsAssumption PROVE Spec => CutForGood
<1>1. ASSUME CutInv, [Next]_vars, NEW f \in Files, Cut(f) PROVE Cut(f)'
  <2>1. f \in Fragile /\ f \notin recorded /\ <<f, 1>> \in effect
    <3>1. Statements[f] \in Nat
      BY DEF MigrationsAssumption
    <3> QED  BY <1>1, <3>1 DEF Cut, Fragile, CutInv, Prefix
  <2>2. ASSUME NEW p \in Processes PROVE ~Busy(p, f)
    BY <1>1, <2>2 DEF Cut, Busy
  <2>3. ASSUME NEW p \in Processes, Exec(p, f) PROVE FALSE
    BY <1>1, <2>1, <2>3 DEF Exec, Executable, Cut, Fragile
  <2>4. ASSUME NEW p \in Processes, Record(p, f) PROVE FALSE
    BY <1>1, <2>4 DEF CutInv, MigInv, Progress, Record, Cut, At, MigrationsAssumption
  <2>5. CASE UNCHANGED vars
    BY <1>1, <2>5 DEF vars, Cut, Current, Earlier
  <2>6. CASE Next
    <3>1. f \notin recorded'
      BY <2>1, <2>4, <2>6
         DEF Next, Work, Boot, Check, Exec, ExecRefused, Record,
             RecordRefused, Migrated, Serve, Stop, Crash, Deploy, schema
    <3>2. effect \subseteq effect'
      BY <2>6, EffectGrows
    <3>3. ASSUME NEW q \in Processes, Busy(q, f)' PROVE FALSE
      <4>1. CASE ~\E p \in Processes, g \in Files : Exec(p, g)
        BY <1>1, <2>2, <2>6, <3>3, <4>1, HandsOff
      <4>2. ASSUME NEW p \in Processes, NEW g \in Files, Exec(p, g) PROVE FALSE
        <5>1. g # f
          BY <2>3, <4>2
        <5> QED  BY <1>1, <2>2, <3>3, <4>2, <5>1, HandsOn
      <4> QED  BY <4>1, <4>2
    <3>4. TypeOK'
      BY <1>1, <2>6, StepType DEF CutInv
    <3> QED  BY <1>1, <3>1, <3>2, <3>3, <3>4 DEF Cut, Busy, TypeOK
  <2> QED  BY <1>1, <2>5, <2>6
<1>2. CutInv /\ [Next]_vars => \A f \in Files : Cut(f) => Cut(f)'
  BY <1>1
<1> QED  BY <1>2, CutInvariance, PTL DEF Spec, CutForGood

=============================================================================
