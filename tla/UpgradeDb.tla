----------------------------- MODULE UpgradeDb -----------------------------
(***************************************************************************)
(* How a process of the DbServer brings the database up to date before it  *)
(* serves: UpgradeManager.instance, upgrade and _upgrade.                   *)
(*                                                                         *)
(* The connection is in autocommit mode (isolation_level=None): each       *)
(* statement is a transaction of its own, commit and rollback do nothing.  *)
(* The process may be killed between two statements, and another one may   *)
(* upgrade the same file at the same time.                                  *)
(***************************************************************************)
EXTENDS Integers, Sequences, FiniteSets, SequencesExt

CONSTANTS
  Server,   \* the processes that execute run_server
  Object,   \* the tables, columns and indices
  Scripts   \* the upgrade scripts, in order, each a sequence of statements

Version == 1..Len(Scripts)   \* the first is the base script

\* A statement [creates, job_sql] creates objects (tables, columns, indices), and
\* fails if one is there, or gives the job table another definition, named by the
\* version, or both.
NoDef == 0

Statement == [creates : SUBSET Object, job_sql : Nat]

ASSUME ScriptsAssumption ==
  /\ Scripts \in Seq(Seq(Statement) \ {<< >>}) \ {<< >>}
  /\ \A v \in Version : \A i \in DOMAIN Scripts[v] : Scripts[v][i].job_sql \in {NoDef, v}

VARIABLES
  objects,    \* what is in the schema of the database
  job_sql,    \* which definition the job table has
  installed,  \* the versioning table exists
  versions,   \* its rows
  spc,        \* what each server does next
  todo,       \* the scripts the server has to apply, the least version first
  stmt        \* the next statement of the current one

db    == <<objects, job_sql, installed, versions>>
local == <<todo, stmt>>
uvars == <<db, spc, local>>

ServerLabel == {"off", "started", "instance", "init", "versioning", "base", "read",
                "apply", "record", "reset", "bind", "serving", "failed", "dead"}

\* The objects and the definition of the job table after the scripts in V
ObjectsOf(v)  == UNION {Scripts[v][i].creates : i \in DOMAIN Scripts[v]}
JobSqls(v)    == {Scripts[v][i].job_sql : i \in DOMAIN Scripts[v]} \ {NoDef}
SchemaOf(V)   == UNION {ObjectsOf(v) : v \in V}
JobSqlOf(V)   == Max({NoDef} \cup UNION {JobSqls(v) : v \in V})

UpgradeTypeOK ==
  /\ objects \subseteq SchemaOf(Version)
  /\ job_sql \in {NoDef} \cup UNION {JobSqls(v) : v \in Version}
  /\ installed \in BOOLEAN
  /\ versions \subseteq Version
  /\ spc \in [Server -> ServerLabel]
  /\ todo \in [Server -> SUBSET Version]
  /\ stmt \in [Server -> Nat \ {0}]

\* The file is new, or was left by an older release at some version.
UpgradeInit ==
  /\ \E n \in 0..Len(Scripts) :
       /\ versions = 1..n
       /\ installed = (n > 0)
       /\ objects = SchemaOf(1..n)
       /\ job_sql = JobSqlOf(1..n)
  /\ spc = [s \in Server |-> "off"]
  /\ todo = [s \in Server |-> {}]
  /\ stmt = [s \in Server |-> 1]

-----------------------------------------------------------------------------
SGoto(s, label) == spc' = [spc EXCEPT ![s] = label]

\* Begin the scripts in V, or go on to the end of the upgrade.
Apply(s, V, label) ==
  /\ todo' = [todo EXCEPT ![s] = V]
  /\ stmt' = [stmt EXCEPT ![s] = 1]
  /\ SGoto(s, IF V = {} THEN "reset" ELSE label)

\* Mutants: a definition named X_Y is X with the bug Y, for the checks that a
\* property is able to fail.
Instance_Installed(s) ==
  /\ spc[s] = "instance"
  /\ IF installed THEN SGoto(s, "reset") /\ UNCHANGED local
                  ELSE Apply(s, {1}, "init")
  /\ UNCHANGED db

\* UpgradeManager.instance: only the versioning table is looked for.
Instance(s) ==
  /\ spc[s] = "instance"
  /\ IF installed THEN SGoto(s, "read") /\ UNCHANGED local
                  ELSE Apply(s, {1}, "init")
  /\ UNCHANGED db

AfterStatement_NoLast(s, n) ==
  IF stmt[s] + 1 < n
  THEN stmt' = [stmt EXCEPT ![s] = @ + 1] /\ spc' = spc
  ELSE stmt' = stmt /\ SGoto(s, IF spc[s] = "init" THEN "versioning" ELSE "record")

AfterStatement(s, n) ==
  IF stmt[s] < n
  THEN stmt' = [stmt EXCEPT ![s] = @ + 1] /\ spc' = spc
  ELSE stmt' = stmt /\ SGoto(s, IF spc[s] = "init" THEN "versioning" ELSE "record")

\* One query of apply_sql_script, or of the upgrade function of a script in
\* Python.
Execute(s) ==
  /\ spc[s] \in {"init", "apply"}
  /\ LET script == Scripts[Min(todo[s])]
         x == script[stmt[s]]
     IN  IF x.creates \cap objects # {}
         THEN SGoto(s, "failed") /\ UNCHANGED <<objects, job_sql, stmt>>
         ELSE /\ objects' = objects \cup x.creates
              /\ job_sql' = IF x.job_sql = NoDef THEN job_sql ELSE x.job_sql
              /\ AfterStatement(s, Len(script))
  /\ UNCHANGED <<installed, versions, todo>>

\* install_versioning, after the base script
CreateVersioning(s) ==
  /\ spc[s] = "versioning"
  /\ installed' = TRUE
  /\ SGoto(s, IF installed THEN "failed" ELSE "base")
  /\ UNCHANGED <<objects, job_sql, versions, local>>

\* _insert_script: the version is the primary key.
InsertScript(s) ==
  /\ spc[s] \in {"base", "record"}
  /\ LET v == Min(todo[s])
     IN  /\ versions' = versions \cup {v}
         /\ IF v \in versions THEN SGoto(s, "failed") /\ UNCHANGED local
            ELSE IF spc[s] = "base" THEN SGoto(s, "read") /\ UNCHANGED local
            ELSE Apply(s, todo[s] \ {v}, "apply")
  /\ UNCHANGED <<objects, job_sql, installed>>

ReadVersions_All(s) ==
  /\ spc[s] = "read"
  /\ IF versions = {} THEN SGoto(s, "failed") /\ UNCHANGED local
     ELSE Apply(s, Version, "apply")
  /\ UNCHANGED db

\* upgrade: the maximum of no version at all is a ValueError; read_scripts leaves
\* out the versions in the table and sorts the others.
ReadVersions(s) ==
  /\ spc[s] = "read"
  /\ IF versions = {} THEN SGoto(s, "failed") /\ UNCHANGED local
     ELSE Apply(s, Version \ versions, "apply")
  /\ UNCHANGED db

\* The process is killed, or another user makes the statement fail.
Crash(s) ==
  /\ spc[s] \notin {"off", "failed", "dead", "serving"}
  /\ SGoto(s, "dead")
  /\ UNCHANGED <<db, local>>

Upgrade(s) == \/ Instance(s) \/ Execute(s) \/ CreateVersioning(s)
              \/ InsertScript(s) \/ ReadVersions(s)

-----------------------------------------------------------------------------
(* Properties *)

\* A version is in the versioning table only if the script was applied to its
\* end, and those before it too, whichever processes were killed or failed
\* before and whichever upgrade the file at the same time.
RecordedIsApplied ==
  \A v \in versions : 1..v \subseteq versions /\ ObjectsOf(v) \subseteq objects
=============================================================================
