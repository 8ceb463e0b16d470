----------------------------- MODULE Migrations -----------------------------
(***************************************************************************)
(* Startup: runMigrations of cmd/server, and what main does around it.     *)
(*                                                                         *)
(* A file of the directory migrations is executed statement by statement   *)
(* and recorded in schema_migrations afterwards, in no transaction: a      *)
(* process can die between any two of these steps, and nothing keeps a     *)
(* second process (the next release, started while the first one is still *)
(* starting) from doing the same on the same database file.                *)
(***************************************************************************)
EXTENDS Integers, FiniteSets

CONSTANTS
  Files,       \* the migrations ever written; their order is that of names
  Statements,  \* how many statements a file has
  Rerunnable,  \* files of CREATE ... IF NOT EXISTS and INSERT OR IGNORE only
  Needs,       \* the files whose tables or columns a file refers to
  Images,      \* the releases: the files in the directory of each
  Processes,   \* server processes that may run on the database
  MaxCrashes   \* bound: processes that die or meet an error by chance

ASSUME MigrationsAssumption ==
  /\ IsFiniteSet(Files) /\ Files \subseteq Int
  /\ Statements \in [Files -> Nat \ {0}]
  /\ Rerunnable \subseteq Files
  /\ Needs \in [Files -> SUBSET Files]
  /\ Images \subseteq SUBSET Files
  /\ \A release \in Images : \A f \in release :
       \A g \in Needs[f] : g \in release /\ g < f
  /\ MaxCrashes \in Nat

VARIABLES
  image,     \* the release whose files a process finds when it starts
  effect,    \* the statements in effect: set of <<file, number>>
  recorded,  \* the table schema_migrations
  at,        \* what each process does next
  files,     \* the files it found when it started
  todo,      \* those of them it has yet to go through
  line,      \* the statements of the first of them it has executed
  crashes    \* how often a process died or met an error by chance

vars == <<image, effect, recorded, at, files, todo, line, crashes>>
schema == <<effect, recorded>>

Steps == {"down", "check", "exec", "record", "migrated", "serving"}

TypeOK ==
  /\ image \in Images
  /\ \A s \in effect : s[1] \in Files /\ s[2] \in 1 .. Statements[s[1]]
  /\ recorded \subseteq Files
  /\ at \in [Processes -> Steps]
  /\ files \in [Processes -> SUBSET Files]
  /\ todo \in [Processes -> SUBSET Files]
  /\ line \in [Processes -> Nat]
  /\ crashes \in 0 .. MaxCrashes

-----------------------------------------------------------------------------
At(p, step) == at[p] = step

\* sort.Strings(files): a smaller name first.
Earlier(f, g) == f < g

\* The file the loop is at.
Current(p, f) ==
  /\ f \in todo[p]
  /\ \A g \in todo[p] \ {f} : ~Earlier(g, f)

InEffect(f) == \A n \in 1 .. Statements[f] : <<f, n>> \in effect

\* Mutant: ADD COLUMN minds no column that is there.
ExecutableAgain(f, n) == \A g \in Needs[f] : InEffect(g)

\* What SQLite says of the next statement of f: an ALTER TABLE that adds a
\* column a second time is an error, and so is a table that is not there.
Executable(f, n) ==
  /\ f \in Rerunnable \/ <<f, n>> \notin effect
  /\ \A g \in Needs[f] : InEffect(g)

\* The process goes on; log.Fatalf ends it.
Goto(p, step) == at' = [at EXCEPT ![p] = step]
Exit(p) ==
  /\ Goto(p, "down")
  /\ todo' = [todo EXCEPT ![p] = {}]
  /\ line' = [line EXCEPT ![p] = 0]
  /\ UNCHANGED files

-----------------------------------------------------------------------------
(* runMigrations.                                                          *)

\* The process starts, or is started again: CREATE TABLE IF NOT EXISTS
\* schema_migrations, and the directory is read.
Boot(p) ==
  /\ At(p, "down")
  /\ Goto(p, "check")
  /\ files' = [files EXCEPT ![p] = image]
  /\ todo' = [todo EXCEPT ![p] = image]
  /\ UNCHANGED <<image, schema, line, crashes>>

\* Mutant: a file counts as applied when its first statement is in effect.
CheckEffect(p, f) ==
  /\ At(p, "check")
  /\ Current(p, f)
  /\ IF <<f, 1>> \in effect
       THEN todo' = [todo EXCEPT ![p] = @ \ {f}] /\ UNCHANGED at
       ELSE Goto(p, "exec") /\ UNCHANGED todo
  /\ UNCHANGED <<image, schema, files, line, crashes>>

\* SELECT COUNT(*) FROM schema_migrations WHERE filename.
Check(p, f) ==
  /\ At(p, "check")
  /\ Current(p, f)
  /\ IF f \in recorded
       THEN todo' = [todo EXCEPT ![p] = @ \ {f}] /\ UNCHANGED at
       ELSE Goto(p, "exec") /\ UNCHANGED todo
  /\ UNCHANGED <<image, schema, files, line, crashes>>

\* Mutant: the driver stops at the first semicolon.
ExecFirstOnly(p, f) ==
  /\ At(p, "exec")
  /\ Current(p, f)
  /\ Executable(f, 1)
  /\ effect' = effect \cup {<<f, 1>>}
  /\ line' = [line EXCEPT ![p] = 1]
  /\ Goto(p, "record")
  /\ UNCHANGED <<image, recorded, files, todo, crashes>>

\* Mutant: one statement too many.
ExecPastEnd(p, f) ==
  /\ At(p, "exec")
  /\ Current(p, f)
  /\ Executable(f, line[p] + 1)
  /\ effect' = effect \cup {<<f, line[p] + 1>>}
  /\ line' = [line EXCEPT ![p] = @ + 1]
  /\ IF line[p] = Statements[f] THEN Goto(p, "record") ELSE UNCHANGED at
  /\ UNCHANGED <<image, recorded, files, todo, crashes>>

\* Exec of the whole file, of which every statement commits by itself.
Exec(p, f) ==
  /\ At(p, "exec")
  /\ Current(p, f)
  /\ Executable(f, line[p] + 1)
  /\ effect' = effect \cup {<<f, line[p] + 1>>}
  /\ line' = [line EXCEPT ![p] = @ + 1]
  /\ IF line[p] + 1 = Statements[f] THEN Goto(p, "record") ELSE UNCHANGED at
  /\ UNCHANGED <<image, recorded, files, todo, crashes>>

ExecRefused(p, f) ==
  /\ At(p, "exec")
  /\ Current(p, f)
  /\ ~Executable(f, line[p] + 1)
  /\ Exit(p)
  /\ UNCHANGED <<image, schema, crashes>>

\* INSERT INTO schema_migrations, whose key is the name.
Record(p, f) ==
  /\ At(p, "record")
  /\ Current(p, f)
  /\ f \notin recorded
  /\ recorded' = recorded \cup {f}
  /\ Goto(p, "check")
  /\ todo' = [todo EXCEPT ![p] = @ \ {f}]
  /\ line' = [line EXCEPT ![p] = 0]
  /\ UNCHANGED <<image, effect, files, crashes>>

\* Mutant: the insertion is tried until it succeeds.
RecordRetried(p, f) ==
  /\ At(p, "record")
  /\ Current(p, f)
  /\ f \in recorded
  /\ UNCHANGED vars

RecordRefused(p, f) ==
  /\ At(p, "record")
  /\ Current(p, f)
  /\ f \in recorded
  /\ Exit(p)
  /\ UNCHANGED <<image, schema, crashes>>

Migrated(p) ==
  /\ At(p, "check")
  /\ todo[p] = {}
  /\ Goto(p, "migrated")
  /\ UNCHANGED <<image, schema, files, todo, line, crashes>>

-----------------------------------------------------------------------------
(* main, after the migrations.                                             *)

\* The e-mail job is started, the routes are set up, the port is opened.
Serve(p) ==
  /\ At(p, "migrated")
  /\ Goto(p, "serving")
  /\ UNCHANGED <<image, schema, files, todo, line, crashes>>

\* Mutant: the signal ends a process that is still starting.
StopAnywhere(p) ==
  /\ at[p] # "down"
  /\ Exit(p)
  /\ UNCHANGED <<image, schema, crashes>>

\* SIGTERM: Shutdown, or log.Fatal after ten seconds.
Stop(p) ==
  /\ At(p, "serving")
  /\ Exit(p)
  /\ UNCHANGED <<image, schema, crashes>>

\* The process is killed, or a statement fails because the disk is full or
\* the database stays locked: log.Fatalf ends it too.
Crash(p) ==
  /\ at[p] # "down"
  /\ crashes < MaxCrashes
  /\ crashes' = crashes + 1
  /\ Exit(p)
  /\ UNCHANGED <<image, schema>>

\* Another release is deployed: a process that starts finds its files.
Deploy(release) ==
  /\ release # image
  /\ image' = release
  /\ UNCHANGED <<schema, at, files, todo, line, crashes>>

Work(p) ==
  \/ Boot(p)
  \/ \E f \in Files : Check(p, f) \/ Exec(p, f) \/ ExecRefused(p, f)
                      \/ Record(p, f) \/ RecordRefused(p, f)
  \/ Migrated(p)
  \/ Serve(p)

Init ==
  /\ image \in Images
  /\ effect = {}
  /\ recorded = {}
  /\ at = [p \in Processes |-> "down"]
  /\ files = [p \in Processes |-> {}]
  /\ todo = [p \in Processes |-> {}]
  /\ line = [p \in Processes |-> 0]
  /\ crashes = 0

Next ==
  \/ \E p \in Processes : Work(p) \/ Stop(p) \/ Crash(p)
  \/ \E release \in Images : Deploy(release)

Spec == Init /\ [][Next]_vars

\* A process that ended is started again (restart: unless-stopped).
FairSpec == Spec /\ \A p \in Processes : WF_vars(Work(p))

-----------------------------------------------------------------------------
(* Properties.                                                             *)

\* A row of schema_migrations never lies: every statement of a recorded file
\* is in effect, however often processes died in the middle of it or raced
\* each other through it.
RecordedInEffect == \A f \in recorded : InEffect(f)

\* The e-mail job and the requests only ever meet a schema that has every
\* file their process found when it started.
ServesWholeSchema ==
  \A p \in Processes :
    at[p] \in {"migrated", "serving"} => \A f \in files[p] : InEffect(f)

\* The order of the names is an order in which the files can be executed: no
\* statement is refused for want of a table or a column of another file.
NeedsInEffect ==
  \A p \in Processes, f \in Files :
    At(p, "exec") /\ Current(p, f) => \A g \in Needs[f] : InEffect(g)

\* An ALTER TABLE is in effect, its file is not recorded, and no process is
\* on the way to record it.
Cut(f) ==
  /\ f \notin Rerunnable \cup recorded
  /\ \E n \in 1 .. Statements[f] : <<f, n>> \in effect
  /\ \A p \in Processes : Current(p, f) => line[p] = 0
Wedged == \E f \in Files : Cut(f)

\* Processes that start at the same time make each other fail, but never
\* leave a file cut: that takes a crash between execution and record.
CutOnlyByCrash == Wedged => crashes > 0

\* A file that was cut stays cut: no later start gets past it.
CutForGood == [][\A f \in Files : Cut(f) => Cut(f)']_vars

\* Whatever crashes, releases and other processes do, a process that starts
\* is serving in the end, after restarts perhaps, unless a file was cut.
StartsUnlessWedged ==
  \A p \in Processes : At(p, "check") ~> At(p, "serving") \/ Wedged

=============================================================================
