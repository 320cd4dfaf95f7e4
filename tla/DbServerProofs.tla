--------------------------- MODULE DbServerProofs ---------------------------
(***************************************************************************)
(* Theorems about UpgradeDb and DbServer, for any number of clients, of      *)
(* servers and of threads, any upgrade scripts and any faults.               *)
(***************************************************************************)
EXTENDS DbServer, DataLemmas, TLAPS

Current(s) == Min(todo[s])   \* the version that the server s applies

\* A server that has scripts to apply
Applying(s) == spc[s] \in {"init", "versioning", "base", "apply", "record"}

\* The versions that a server has not to apply are in the table.
StmtInv ==
  \A s \in Server :
    /\ Applying(s) => todo[s] # {}
    /\ spc[s] \in {"init", "versioning", "base"} => todo[s] = {1}
    /\ spc[s] \in {"init", "apply"} => stmt[s] <= Len(Scripts[Current(s)])
    /\ spc[s] \in {"apply", "record"} => Version \ todo[s] \subseteq versions
    /\ spc[s] \in {"reset", "bind", "serving"} => versions = Version

\* The statements of the current script that s has executed
Executed(s) == IF spc[s] \in {"init", "apply"} THEN 1..(stmt[s] - 1)
                                               ELSE 1..Len(Scripts[Current(s)])

DoneInv ==
  \A s \in Server : Applying(s) =>
    \A i \in Executed(s) : Scripts[Current(s)][i].creates \subseteq objects

UpgradeInv == UpgradeTypeOK /\ StmtInv /\ DoneInv /\ RecordedIsApplied

\* As long as no two servers raced, one starts at a time.
Begun(s) == spc[s] \notin {"off", "failed", "dead", "serving"}

OneStarts == \A s, r \in Server : Begun(s) /\ Begun(r) => s = r

\* It applies versions that are not in the table.
FreshInv ==
  /\ ~installed => versions = {}
  /\ \A s \in Server : /\ spc[s] \in {"init", "versioning"} => ~installed
                       /\ spc[s] \in {"base", "read", "apply", "record"} => installed
                       /\ Applying(s) => todo[s] \cap versions = {}

\* The job table has no older definition than the one of an applied statement.
SqlInv ==
  /\ \A v \in versions : \A i \in DOMAIN Scripts[v] : Scripts[v][i].job_sql <= job_sql
  /\ \A s \in Server : Applying(s) =>
       \A i \in Executed(s) : Scripts[Current(s)][i].job_sql <= job_sql

OneByOne == OneStarts /\ FreshInv /\ SqlInv
-----------------------------------------------------------------------------
(* What is where: a command is in one place until it is answered or lost. *)

InBox(t) == {inbox[t][i] : i \in DOMAIN inbox[t]}

OnePlace ==
  /\ net \cap front = {}
  /\ \A t \in Thread : InBox(t) \cap (net \cup front) = {}
  /\ \A t, u \in Thread : \A i \in DOMAIN inbox[t], j \in DOMAIN inbox[u] :
       inbox[t][i] = inbox[u][j] => t = u /\ i = j
  /\ \A t, u \in Thread : cur[t] = cur[u] /\ cur[t] # NoClient => t = u

\* A command that is not yet executed waits with its client.
WaitingInv ==
  /\ \A c \in net \cup front : cpc[c] = "sent" /\ executed[c] = 0
  /\ \A t \in Thread : \A c \in InBox(t) : cpc[c] = "sent" /\ executed[c] = 0
  /\ \A t \in Thread : cur[t] # NoClient => cpc[cur[t]] = "sent" /\ executed[cur[t]] = 1

CountInv ==
  \A c \in Client : /\ executed[c] \in {0, 1}
                    /\ cpc[c] = "answered" => executed[c] = 1
                    /\ executed[c] = 1 => cpc[c] \in {"sent", "answered"}

CommandInv == TypeOK /\ OnePlace /\ WaitingInv /\ CountInv

-----------------------------------------------------------------------------
LEMMA ScriptFacts ==
  /\ Len(Scripts) \in Nat \ {0}
  /\ Version = 1..Len(Scripts)
  /\ \A v \in Version :
       /\ Len(Scripts[v]) \in Nat \ {0}
       /\ DOMAIN Scripts[v] = 1..Len(Scripts[v])
       /\ \A i \in DOMAIN Scripts[v] : Scripts[v][i] \in Statement /\ Scripts[v][i].job_sql \in {NoDef, v}
  <1> DEFINE S == Seq(Statement) \ {<< >>}
  <1>1. Scripts \in Seq(S) /\ Scripts # << >>
    BY ScriptsAssumption
  <1>2. Len(Scripts) \in Nat \ {0} /\ \A v \in Version : Scripts[v] \in S
    <2> HIDE DEF S
    <2> QED BY <1>1 DEF Version
  <1>3. ASSUME NEW v \in Version
        PROVE  /\ Len(Scripts[v]) \in Nat \ {0} /\ DOMAIN Scripts[v] = 1..Len(Scripts[v])
               /\ \A i \in DOMAIN Scripts[v] : Scripts[v][i] \in Statement
    <2>1. Scripts[v] \in Seq(Statement) /\ Scripts[v] # << >>
      BY <1>2
    <2> HIDE DEF S
    <2> QED BY <2>1
  <1> QED BY <1>2, <1>3, ScriptsAssumption DEF Version

LEMMA CurrentFacts ==
  ASSUME UpgradeTypeOK, NEW s \in Server, todo[s] # {}
  PROVE  Current(s) \in todo[s] /\ Current(s) \in Version /\ \A v \in todo[s] : Current(s) <= v
  <1>1. todo[s] \in SUBSET Version /\ todo[s] \in SUBSET Nat
    BY ScriptFacts DEF UpgradeTypeOK
  <1>2. Min(todo[s]) \in todo[s] /\ \A v \in todo[s] : Min(todo[s]) <= v
    BY <1>1, MinOf
  <1> QED BY <1>1, <1>2 DEF Current

LEMMA SchemaFacts ==
  ASSUME NEW v \in Version, NEW i \in DOMAIN Scripts[v]
  PROVE  /\ Scripts[v][i].creates \subseteq ObjectsOf(v)
         /\ Scripts[v][i].creates \subseteq SchemaOf(Version)
         /\ Scripts[v][i].job_sql \in {NoDef} \cup UNION {JobSqls(u) : u \in Version}
  BY DEF SchemaOf, ObjectsOf, JobSqls

\* The parts of UpgradeInit that the proofs need
LEMMA InitUpgrade == UpgradeInit => UpgradeInv /\ OneByOne
  <1> SUFFICES ASSUME UpgradeInit PROVE UpgradeInv /\ OneByOne
    OBVIOUS
  <1>1. PICK n \in 0..Len(Scripts) : /\ versions = 1..n /\ installed = (n > 0)
                                    /\ objects = SchemaOf(1..n) /\ job_sql = JobSqlOf(1..n)
    BY DEF UpgradeInit
  <1>2. \A s \in Server : spc[s] = "off" /\ todo[s] = {}
    BY DEF UpgradeInit
  <1>3. n \in Nat /\ 1..n \subseteq Version
    BY ScriptFacts
  <1> DEFINE S == {NoDef} \cup UNION {JobSqls(v) : v \in 1..n}
  <1>4. S \in SUBSET Nat /\ S # {} /\ n \in Nat /\ \A x \in S : x <= n
    <2>1. ASSUME NEW v \in 1..n, NEW x \in JobSqls(v) PROVE x \in Nat /\ x <= n
      BY <1>3, ScriptFacts DEF JobSqls, NoDef
    <2> QED BY <2>1, <1>3 DEF NoDef
  <1>5. job_sql \in S /\ \A x \in S : job_sql >= x
    <2>1. job_sql = Max(S)
      BY <1>1 DEF JobSqlOf
    <2> HIDE DEF S
    <2> QED BY <2>1, <1>4, MaxOf
  <1>6. UpgradeTypeOK
    <2>1. job_sql \in {NoDef} \cup UNION {JobSqls(v) : v \in Version}
      BY <1>3, <1>5
    <2>2. objects \subseteq SchemaOf(Version)
      BY <1>1, <1>3 DEF SchemaOf
    <2>3. installed \in BOOLEAN
      BY <1>1
    <2> QED BY <1>1, <1>3, <2>1, <2>2, <2>3 DEF UpgradeInit, UpgradeTypeOK, ServerLabel
  <1>7. RecordedIsApplied
    BY <1>1, <1>3 DEF RecordedIsApplied, SchemaOf
  <1>8. StmtInv /\ DoneInv /\ OneStarts
    BY <1>2 DEF StmtInv, DoneInv, Applying, OneStarts, Begun
  <1>9. FreshInv
    <2>1. ~installed => versions = {}
      <3>1. n > 0 \/ 1..n = {}
        BY <1>3
      <3> QED BY <3>1, <1>1
    <2> QED BY <2>1, <1>2 DEF FreshInv, Applying
  <1>10. SqlInv
    <2>1. ASSUME NEW v \in versions, NEW i \in DOMAIN Scripts[v] PROVE Scripts[v][i].job_sql <= job_sql
      <3>1. Scripts[v][i].job_sql \in S
        BY <2>1, <1>1 DEF JobSqls
      <3> HIDE DEF S
      <3> QED BY <3>1, <1>4, <1>5
    <2> QED BY <2>1, <1>2 DEF SqlInv, Applying
  <1> QED BY <1>6, <1>7, <1>8, <1>9, <1>10 DEF UpgradeInv, OneByOne

-----------------------------------------------------------------------------
(* Each step of a server keeps the invariants of the upgrade. *)

\* A server starts, ends, or goes on without a change of the database
Moves(s) ==
  /\ UNCHANGED <<db, local>>
  /\ \E l \in {"started", "instance", "bind", "serving", "failed", "dead"} : SGoto(s, l)
  /\ spc'[s] = "started" => spc[s] = "off"
  /\ spc'[s] = "instance" => spc[s] = "started"
  /\ spc'[s] \in {"bind", "serving"} => spc[s] \in {"reset", "bind"}

LEMMA MoveStep ==
  ASSUME UpgradeInv, NEW s \in Server, Moves(s)
  PROVE  UpgradeInv'
  <1>1. UpgradeTypeOK'
    BY DEF UpgradeInv, UpgradeTypeOK, Moves, SGoto, db, local, ServerLabel
  <1>2. StmtInv'
    BY DEF UpgradeInv, UpgradeTypeOK, StmtInv, Applying, Current, Moves, SGoto, db, local
  <1>3. DoneInv'
    BY DEF UpgradeInv, UpgradeTypeOK, DoneInv, Applying, Executed, Current, Moves, SGoto, db, local
  <1>4. RecordedIsApplied'
    BY DEF UpgradeInv, RecordedIsApplied, Moves, db
  <1> QED BY <1>1, <1>2, <1>3, <1>4 DEF UpgradeInv

LEMMA InstanceStep ==
  ASSUME UpgradeInv, NEW s \in Server, Instance(s)
  PROVE  UpgradeInv'
  <1>1. UpgradeTypeOK'
    <2>1. {1} \in SUBSET Version /\ {1} # {} /\ {"read", "init"} \subseteq ServerLabel
      BY ScriptFacts DEF ServerLabel
    <2>2. /\ spc' \in [Server -> ServerLabel] /\ todo' \in [Server -> SUBSET Version]
          /\ stmt' \in [Server -> Nat \ {0}]
      BY <2>1 DEF UpgradeInv, UpgradeTypeOK, Instance, Apply, SGoto, local
    <2> QED BY <2>2 DEF UpgradeInv, UpgradeTypeOK, Instance, db
  <1>2. StmtInv'
    <2>1. 1 <= Len(Scripts[Min({1})])
      <3>1. Min({1}) = 1
        BY MinOf
      <3> QED BY <3>1, ScriptFacts
    <2>2. \A r \in Server : r # s => spc'[r] = spc[r] /\ todo'[r] = todo[r] /\ stmt'[r] = stmt[r]
      BY DEF UpgradeInv, UpgradeTypeOK, Instance, Apply, SGoto, local
    <2>3. /\ spc'[s] \in {"read", "init"}
          /\ spc'[s] = "init" => todo'[s] = {1} /\ stmt'[s] = 1
      BY DEF UpgradeInv, UpgradeTypeOK, Instance, Apply, SGoto, local
    <2> QED BY <2>1, <2>2, <2>3 DEF UpgradeInv, StmtInv, Applying, Current, Instance, db
  <1>3. DoneInv'
    BY DEF UpgradeInv, UpgradeTypeOK, DoneInv, Applying, Executed, Current, Instance, Apply, SGoto, db, local
  <1>4. RecordedIsApplied'
    BY DEF UpgradeInv, RecordedIsApplied, Instance, db
  <1> QED BY <1>1, <1>2, <1>3, <1>4 DEF UpgradeInv

LEMMA CreateVersioningStep ==
  ASSUME UpgradeInv, NEW s \in Server, CreateVersioning(s)
  PROVE  UpgradeInv'
  <1>1. UpgradeTypeOK'
    BY DEF UpgradeInv, UpgradeTypeOK, CreateVersioning, SGoto, local, ServerLabel
  <1>2. StmtInv'
    BY DEF UpgradeInv, UpgradeTypeOK, StmtInv, Applying, Current, CreateVersioning, SGoto, local
  <1>3. DoneInv'
    BY DEF UpgradeInv, UpgradeTypeOK, DoneInv, Applying, Executed, Current, CreateVersioning, SGoto, local
  <1>4. RecordedIsApplied'
    BY DEF UpgradeInv, RecordedIsApplied, CreateVersioning
  <1> QED BY <1>1, <1>2, <1>3, <1>4 DEF UpgradeInv

LEMMA ExecuteStep ==
  ASSUME UpgradeInv, NEW s \in Server, Execute(s)
  PROVE  UpgradeInv'
  <1>1. PICK v \in Version : v = Current(s)
    BY CurrentFacts DEF UpgradeInv, StmtInv, Applying, Execute
  <1>2. PICK x \in Statement : x = Scripts[v][stmt[s]] /\ stmt[s] \in DOMAIN Scripts[v]
    <2>1. stmt[s] \in 1..Len(Scripts[v])
      BY <1>1, ScriptFacts DEF UpgradeInv, UpgradeTypeOK, StmtInv, Execute
    <2> QED BY <2>1, ScriptFacts
  <1>3. /\ spc[s] \in {"init", "apply"} /\ UNCHANGED <<installed, versions, todo>>
        /\ \/ SGoto(s, "failed") /\ UNCHANGED <<objects, job_sql, stmt>>
           \/ /\ objects' = objects \cup x.creates
              /\ job_sql' = IF x.job_sql = NoDef THEN job_sql ELSE x.job_sql
              /\ AfterStatement(s, Len(Scripts[v]))
    BY <1>1, <1>2 DEF Execute, Current
  <1>4. objects \subseteq objects'
    BY <1>3
  <1>5. UpgradeTypeOK'
    <2>1. objects' \subseteq SchemaOf(Version)
      BY <1>2, <1>3, SchemaFacts DEF UpgradeInv, UpgradeTypeOK
    <2>2. job_sql' \in {NoDef} \cup UNION {JobSqls(u) : u \in Version}
      BY <1>2, <1>3, SchemaFacts DEF UpgradeInv, UpgradeTypeOK
    <2> QED BY <1>3, <2>1, <2>2 DEF UpgradeInv, UpgradeTypeOK, AfterStatement, SGoto, ServerLabel
  <1>6. \A r \in Server : r # s => spc'[r] = spc[r] /\ stmt'[r] = stmt[r]
    BY <1>3 DEF UpgradeInv, UpgradeTypeOK, AfterStatement, SGoto
  <1>7. \/ spc'[s] = "failed"
        \/ spc'[s] = spc[s] /\ stmt[s] < Len(Scripts[v]) /\ stmt'[s] = stmt[s] + 1
        \/ /\ spc'[s] = IF spc[s] = "init" THEN "versioning" ELSE "record"
           /\ stmt'[s] = stmt[s] /\ ~(stmt[s] < Len(Scripts[v]))
    BY <1>3 DEF UpgradeInv, UpgradeTypeOK, AfterStatement, SGoto
  <1>8. \A r \in Server : Current(r)' = Current(r)
    BY <1>3 DEF Current
  <1>9. StmtInv'
    <2> SUFFICES ASSUME NEW r \in Server
                 PROVE  /\ Applying(r)' => todo'[r] # {}
                        /\ spc'[r] \in {"init", "versioning", "base"} => todo'[r] = {1}
                        /\ spc'[r] \in {"init", "apply"} => stmt'[r] <= Len(Scripts[Current(r)'])
                        /\ spc'[r] \in {"apply", "record"} => Version \ todo'[r] \subseteq versions'
                        /\ spc'[r] \in {"reset", "bind", "serving"} => versions' = Version
      BY DEF StmtInv
    <2>1. CASE r # s
      BY <2>1, <1>3, <1>6, <1>8 DEF UpgradeInv, StmtInv, Applying
    <2>2. CASE r = s
      <3>1. stmt[s] \in Nat /\ Len(Scripts[v]) \in Nat
        BY ScriptFacts DEF UpgradeInv, UpgradeTypeOK
      <3> QED BY <2>2, <3>1, <1>1, <1>3, <1>7, <1>8 DEF UpgradeInv, StmtInv, Applying
    <2> QED BY <2>1, <2>2
  <1>10. DoneInv'
    <2> SUFFICES ASSUME NEW r \in Server, Applying(r)', NEW i \in Executed(r)'
                 PROVE  Scripts[Current(r)][i].creates \subseteq objects'
      BY <1>8 DEF DoneInv
    <2>1. CASE r # s
      BY <2>1, <1>3, <1>4, <1>6, <1>8 DEF UpgradeInv, DoneInv, Applying, Executed
    <2>2. CASE r = s
      <3>1. i \in Executed(s) \/ i = stmt[s]
        <4>1. stmt[s] \in Nat \ {0} /\ Len(Scripts[v]) \in Nat
          BY ScriptFacts DEF UpgradeInv, UpgradeTypeOK
        <4>2. (i \in 1..Len(Scripts[v]) /\ stmt[s] >= Len(Scripts[v])) \/ i \in 1..stmt[s]
          BY <2>2, <4>1, <1>1, <1>3, <1>7, <1>8 DEF Executed, Applying
        <4>3. i \in 1..stmt[s]
          BY <4>1, <4>2
        <4> QED BY <4>1, <4>3, <1>3 DEF Executed
      <3>2. CASE i \in Executed(s)
        BY <2>2, <3>2, <1>3, <1>4 DEF UpgradeInv, DoneInv, Applying
      <3>3. CASE i = stmt[s]
        BY <2>2, <3>3, <1>1, <1>2, <1>3 DEF Applying, AfterStatement, SGoto, UpgradeInv, UpgradeTypeOK
      <3> QED BY <3>1, <3>2, <3>3
    <2> QED BY <2>1, <2>2
  <1>11. RecordedIsApplied'
    BY <1>3, <1>4 DEF UpgradeInv, RecordedIsApplied
  <1> QED BY <1>5, <1>9, <1>10, <1>11 DEF UpgradeInv

LEMMA InsertScriptStep ==
  ASSUME UpgradeInv, NEW s \in Server, InsertScript(s)
  PROVE  UpgradeInv'
  <1>1. PICK v \in Version : v = Current(s) /\ v \in todo[s] /\ \A u \in todo[s] : v <= u
    BY CurrentFacts DEF UpgradeInv, StmtInv, Applying, InsertScript
  <1>2. /\ spc[s] \in {"base", "record"} /\ UNCHANGED <<objects, job_sql, installed>>
        /\ versions' = versions \cup {v}
    BY <1>1 DEF InsertScript, Current
  <1>3. \/ spc'[s] \in {"failed", "read"} /\ todo'[s] = todo[s] /\ stmt'[s] = stmt[s]
        \/ /\ spc[s] = "record" /\ todo'[s] = todo[s] \ {v} /\ stmt'[s] = 1
           /\ spc'[s] = IF todo'[s] = {} THEN "reset" ELSE "apply"
    BY <1>1 DEF UpgradeInv, UpgradeTypeOK, InsertScript, Current, Apply, SGoto, local
  <1>4. \A r \in Server : r # s => spc'[r] = spc[r] /\ stmt'[r] = stmt[r] /\ todo'[r] = todo[r]
    BY DEF UpgradeInv, UpgradeTypeOK, InsertScript, Apply, SGoto, local
  <1>5. UpgradeTypeOK'
    BY <1>1, <1>2 DEF UpgradeInv, UpgradeTypeOK, InsertScript, Current, Apply, SGoto, local, ServerLabel
  <1>6. todo'[s] # {} => Current(s)' \in Version
    BY <1>5, MinOf, ScriptFacts DEF Current, UpgradeTypeOK
  <1>7. StmtInv'
    <2> SUFFICES ASSUME NEW r \in Server
                 PROVE  /\ Applying(r)' => todo'[r] # {}
                        /\ spc'[r] \in {"init", "versioning", "base"} => todo'[r] = {1}
                        /\ spc'[r] \in {"init", "apply"} => stmt'[r] <= Len(Scripts[Current(r)'])
                        /\ spc'[r] \in {"apply", "record"} => Version \ todo'[r] \subseteq versions'
                        /\ spc'[r] \in {"reset", "bind", "serving"} => versions' = Version
      BY DEF StmtInv
    <2>1. CASE r # s
      <3>1. Current(r)' = Current(r)
        BY <2>1, <1>4 DEF Current
      <3>2. versions' \subseteq Version
        BY <1>5 DEF UpgradeTypeOK
      <3> QED BY <2>1, <3>1, <3>2, <1>2, <1>4 DEF UpgradeInv, StmtInv, Applying
    <2>2. CASE r = s
      <3>1. todo'[s] # {} => 1 <= Len(Scripts[Current(s)'])
        BY <1>6, ScriptFacts
      <3>2. versions' \subseteq Version
        BY <1>5 DEF UpgradeTypeOK
      <3> QED BY <2>2, <3>1, <3>2, <1>2, <1>3 DEF UpgradeInv, StmtInv, Applying
    <2> QED BY <2>1, <2>2
  <1>8. DoneInv'
    <2> SUFFICES ASSUME NEW r \in Server, Applying(r)', NEW i \in Executed(r)'
                 PROVE  Scripts[Current(r)'][i].creates \subseteq objects'
      BY DEF DoneInv
    <2>1. CASE r # s
      <3>1. Current(r)' = Current(r)
        BY <2>1, <1>4 DEF Current
      <3> QED BY <2>1, <3>1, <1>2, <1>4 DEF UpgradeInv, DoneInv, Applying, Executed
    <2>2. CASE r = s
      <3>1. spc'[s] = "apply" /\ stmt'[s] = 1
        BY <2>2, <1>2, <1>3 DEF Applying
      <3> QED BY <2>2, <3>1 DEF Executed
    <2> QED BY <2>1, <2>2
  <1>9. RecordedIsApplied'
    <2>1. ObjectsOf(v) \subseteq objects
      <3>1. \A i \in 1..Len(Scripts[v]) : Scripts[v][i].creates \subseteq objects
        BY <1>1, <1>2 DEF UpgradeInv, DoneInv, Applying, Executed
      <3>2. DOMAIN Scripts[v] = 1..Len(Scripts[v])
        BY ScriptFacts
      <3> QED BY <3>1, <3>2 DEF ObjectsOf
    <2>2. 1..v \subseteq versions'
      <3>1. CASE spc[s] = "base"
        <4>1. v = 1
          BY <3>1, <1>1 DEF UpgradeInv, StmtInv
        <4> QED BY <4>1, <1>2
      <3>2. CASE spc[s] = "record"
        <4>1. Version \ todo[s] \subseteq versions
          BY <3>2 DEF UpgradeInv, StmtInv
        <4>2. \A u \in 1..v : u \in Version /\ (u = v \/ u \notin todo[s])
          BY <1>1, ScriptFacts
        <4> QED BY <4>1, <4>2, <1>2
      <3> QED BY <3>1, <3>2, <1>2
    <2> QED BY <2>1, <2>2, <1>2 DEF UpgradeInv, RecordedIsApplied
  <1> QED BY <1>5, <1>7, <1>8, <1>9 DEF UpgradeInv

LEMMA ReadVersionsStep ==
  ASSUME UpgradeInv, NEW s \in Server, ReadVersions(s)
  PROVE  UpgradeInv'
  <1>1. UpgradeTypeOK'
    BY DEF UpgradeInv, UpgradeTypeOK, ReadVersions, Apply, SGoto, local, db, ServerLabel
  <1>2. \/ spc'[s] = "failed"
        \/ /\ todo'[s] = Version \ versions /\ stmt'[s] = 1
           /\ spc'[s] = IF todo'[s] = {} THEN "reset" ELSE "apply"
    BY DEF UpgradeInv, UpgradeTypeOK, ReadVersions, Apply, SGoto
  <1>3. \A r \in Server : r # s => spc'[r] = spc[r] /\ stmt'[r] = stmt[r] /\ todo'[r] = todo[r]
    BY DEF UpgradeInv, UpgradeTypeOK, ReadVersions, Apply, SGoto, local
  <1>4. UNCHANGED db
    BY DEF ReadVersions
  <1>5. StmtInv'
    <2>1. todo'[s] # {} => 1 <= Len(Scripts[Min(todo'[s])])
      <3>1. todo'[s] # {} => Min(todo'[s]) \in Version
        BY <1>1, MinOf, ScriptFacts DEF UpgradeTypeOK
      <3> QED BY <3>1, ScriptFacts
    <2> QED BY <2>1, <1>2, <1>3, <1>4 DEF UpgradeInv, UpgradeTypeOK, StmtInv, Applying, Current, db
  <1>6. DoneInv'
    <2>1. \A r \in Server : r # s => (Applying(r)' <=> Applying(r)) /\ Executed(r)' = Executed(r)
      BY <1>3 DEF Applying, Executed, Current
    <2>2. Applying(s)' => Executed(s)' = {}
      BY <1>2 DEF Applying, Executed
    <2> QED BY <2>1, <2>2, <1>3, <1>4 DEF UpgradeInv, DoneInv, Current, db
  <1>7. RecordedIsApplied'
    BY <1>4 DEF UpgradeInv, RecordedIsApplied, db
  <1> QED BY <1>1, <1>5, <1>6, <1>7 DEF UpgradeInv

-----------------------------------------------------------------------------
(* One server at a time: each step keeps the order of the versions. *)

LEMMA AloneMove ==
  ASSUME UpgradeInv, OneByOne, NEW s \in Server, Moves(s),
         spc'[s] = "started" => \A r \in Server : ~Begun(r)
  PROVE  OneByOne'
  <1>1. spc \in [Server -> ServerLabel] /\ UNCHANGED <<db, local>>
    BY DEF UpgradeInv, UpgradeTypeOK, Moves
  <1>2. /\ \A r \in Server : r # s => spc'[r] = spc[r]
        /\ spc'[s] \in {"started", "instance", "bind", "serving", "failed", "dead"}
        /\ spc[s] \in {"off", "failed", "dead", "serving"} => spc'[s] \in {"started", "failed", "dead"}
    BY <1>1 DEF Moves, SGoto
  <1>3. OneStarts'
    BY <1>2 DEF OneByOne, OneStarts, Begun, Moves
  <1>4. FreshInv'
    BY <1>1, <1>2 DEF OneByOne, FreshInv, Applying, Begun, db, local
  <1>5. SqlInv'
    BY <1>1, <1>2 DEF OneByOne, SqlInv, Applying, Executed, Current, db, local
  <1> QED BY <1>3, <1>4, <1>5 DEF OneByOne

\* The other servers are not applying anything.
LEMMA Alone ==
  ASSUME OneByOne, NEW s \in Server, Begun(s), NEW r \in Server, r # s
  PROVE  ~Begun(r) /\ ~Applying(r)
  BY DEF OneByOne, OneStarts, Begun, Applying

\* A step of the server s to a label where it has begun
LEMMA OneGoesOn ==
  ASSUME OneByOne, NEW s \in Server, Begun(s), \A r \in Server : r # s => spc'[r] = spc[r]
  PROVE  OneStarts'
  BY DEF OneByOne, OneStarts, Begun

LEMMA AloneInstance ==
  ASSUME UpgradeInv, OneByOne, NEW s \in Server, Instance(s)
  PROVE  OneByOne'
  <1>1. \A r \in Server : r # s => spc'[r] = spc[r] /\ todo'[r] = todo[r] /\ stmt'[r] = stmt[r]
    BY DEF UpgradeInv, UpgradeTypeOK, Instance, Apply, SGoto, local
  <1>2. /\ Begun(s) /\ UNCHANGED db
        /\ \/ spc'[s] = "read" /\ installed
           \/ spc'[s] = "init" /\ todo'[s] = {1} /\ stmt'[s] = 1 /\ ~installed
    BY DEF UpgradeInv, UpgradeTypeOK, Instance, Apply, SGoto, local, Begun
  <1>3. \A r \in Server : r # s => ~Applying(r) /\ ~Applying(r)' /\ ~Begun(r)'
    BY <1>1, <1>2, Alone DEF Applying, Begun
  <1>4. OneStarts'
    BY <1>1, <1>2, OneGoesOn
  <1>5. FreshInv'
    BY <1>1, <1>2, <1>3 DEF OneByOne, FreshInv, Applying, Begun, db
  <1>6. SqlInv'
    BY <1>2, <1>3 DEF OneByOne, SqlInv, Applying, Executed, db
  <1> QED BY <1>4, <1>5, <1>6 DEF OneByOne

LEMMA AloneVersioning ==
  ASSUME UpgradeInv, OneByOne, NEW s \in Server, CreateVersioning(s)
  PROVE  OneByOne'
  <1>1. \A r \in Server : r # s => spc'[r] = spc[r]
    BY DEF UpgradeInv, UpgradeTypeOK, CreateVersioning, SGoto
  <1>2. /\ Begun(s) /\ Applying(s) /\ UNCHANGED <<objects, job_sql, versions, local>>
        /\ spc[s] = "versioning" /\ spc'[s] \in {"failed", "base"} /\ installed'
    BY DEF UpgradeInv, UpgradeTypeOK, CreateVersioning, SGoto, Begun, Applying
  <1>3. \A r \in Server : r # s => ~Applying(r) /\ ~Applying(r)' /\ ~Begun(r)'
    BY <1>1, <1>2, Alone DEF Applying, Begun
  <1>4. OneStarts'
    BY <1>1, <1>2, OneGoesOn
  <1>5. FreshInv'
    BY <1>2, <1>3 DEF OneByOne, FreshInv, Applying, Begun, local
  <1>6. SqlInv'
    BY <1>2, <1>3 DEF OneByOne, SqlInv, Applying, Executed, Current, local
  <1> QED BY <1>4, <1>5, <1>6 DEF OneByOne

LEMMA AloneExecute ==
  ASSUME UpgradeInv, OneByOne, NEW s \in Server, Execute(s)
  PROVE  OneByOne'
  <1>1. PICK v \in Version : v = Current(s) /\ v \in todo[s]
    BY CurrentFacts DEF UpgradeInv, StmtInv, Applying, Execute
  <1>2. PICK x \in Statement : /\ x = Scripts[v][stmt[s]] /\ stmt[s] \in DOMAIN Scripts[v]
                               /\ x.job_sql \in {NoDef, v}
    <2>1. stmt[s] \in 1..Len(Scripts[v])
      BY <1>1, ScriptFacts DEF UpgradeInv, UpgradeTypeOK, StmtInv, Execute
    <2> QED BY <2>1, ScriptFacts
  <1>3. /\ spc[s] \in {"init", "apply"} /\ UNCHANGED <<installed, versions, todo>>
        /\ \/ SGoto(s, "failed") /\ UNCHANGED <<objects, job_sql, stmt>>
           \/ /\ job_sql' = IF x.job_sql = NoDef THEN job_sql ELSE x.job_sql
              /\ AfterStatement(s, Len(Scripts[v]))
    BY <1>1, <1>2 DEF Execute, Current
  <1>4. \A r \in Server : r # s => spc'[r] = spc[r] /\ stmt'[r] = stmt[r]
    BY <1>3 DEF UpgradeInv, UpgradeTypeOK, AfterStatement, SGoto
  <1>5. \/ spc'[s] = "failed" /\ job_sql' = job_sql
        \/ /\ job_sql' = IF x.job_sql = NoDef THEN job_sql ELSE x.job_sql
           /\ spc'[s] = spc[s] /\ stmt[s] < Len(Scripts[v]) /\ stmt'[s] = stmt[s] + 1
        \/ /\ job_sql' = IF x.job_sql = NoDef THEN job_sql ELSE x.job_sql
           /\ spc'[s] = IF spc[s] = "init" THEN "versioning" ELSE "record"
           /\ stmt'[s] = stmt[s] /\ ~(stmt[s] < Len(Scripts[v]))
    BY <1>3 DEF UpgradeInv, UpgradeTypeOK, AfterStatement, SGoto
  <1>6. Begun(s) /\ Applying(s)
    BY <1>3 DEF Begun, Applying
  <1>7. \A r \in Server : r # s => ~Applying(r) /\ ~Applying(r)' /\ ~Begun(r)'
    BY <1>4, <1>6, Alone DEF Applying, Begun
  <1>8. OneStarts'
    BY <1>4, <1>6, OneGoesOn
  <1>9. FreshInv'
    BY <1>3, <1>5, <1>6, <1>7 DEF OneByOne, FreshInv, Applying, Begun
  <1>10. job_sql \in Nat /\ v \in Nat /\ Len(Scripts[v]) \in Nat /\ stmt[s] \in Nat \ {0}
    BY ScriptFacts DEF UpgradeInv, UpgradeTypeOK, JobSqls, NoDef
  \* The versions in the table are before the current one.
  <1>11. \A u \in versions : u \in Version /\ u < v
    <2> SUFFICES ASSUME NEW u \in versions PROVE u \in Version /\ u < v
      OBVIOUS
    <2>1. u \in Version /\ u \in Nat
      BY ScriptFacts DEF UpgradeInv, UpgradeTypeOK
    <2>2. 1..u \subseteq versions /\ v \notin versions
      BY <1>1, <1>6 DEF UpgradeInv, RecordedIsApplied, OneByOne, FreshInv
    <2>3. v \in 1..u \/ u < v
      BY <2>1, <1>10, ScriptFacts
    <2> QED BY <2>1, <2>2, <2>3
  <1>12. job_sql' = job_sql \/ job_sql' = v
    BY <1>2, <1>5
  <1>13. SqlInv'
    <2>1. ASSUME NEW u \in versions, NEW i \in DOMAIN Scripts[u] PROVE Scripts[u][i].job_sql <= job_sql'
      <3>1. Scripts[u][i].job_sql \in {0, u} /\ u < v /\ u \in Nat
        BY <2>1, <1>11, ScriptFacts DEF NoDef
      <3>2. Scripts[u][i].job_sql <= job_sql
        BY <2>1 DEF OneByOne, SqlInv
      <3> QED BY <3>1, <3>2, <1>10, <1>12
    <2>2. ASSUME Applying(s)', NEW i \in Executed(s)'
          PROVE  Scripts[v][i].job_sql <= job_sql'
      <3>1. Current(s)' = v
        BY <1>1, <1>3 DEF Current
      <3>2. i \in 1..Len(Scripts[v])
        BY <2>2, <3>1, <1>1, <1>3, <1>5, <1>10 DEF Executed, Applying
      <3>3. Scripts[v][i].job_sql \in {0, v}
        BY <3>2, ScriptFacts DEF NoDef
      <3>4. CASE i = stmt[s]
        BY <2>2, <3>3, <3>4, <1>2, <1>5, <1>10 DEF Applying, NoDef
      <3>5. CASE i # stmt[s]
        <4>1. i \in Executed(s)
          BY <2>2, <3>1, <3>2, <3>5, <1>1, <1>3, <1>5, <1>10 DEF Executed, Applying
        <4>2. Scripts[v][i].job_sql <= job_sql
          BY <4>1, <1>1, <1>6 DEF OneByOne, SqlInv
        <4> QED BY <4>2, <3>3, <1>10, <1>12
      <3> QED BY <3>4, <3>5
    <2>3. Current(s)' = v /\ versions' = versions
      BY <1>1, <1>3 DEF Current
    <2> QED BY <2>1, <2>2, <2>3, <1>7 DEF SqlInv
  <1> QED BY <1>8, <1>9, <1>13 DEF OneByOne

LEMMA AloneInsert ==
  ASSUME UpgradeInv, OneByOne, NEW s \in Server, InsertScript(s)
  PROVE  OneByOne'
  <1>1. PICK v \in Version : v = Current(s) /\ v \in todo[s]
    BY CurrentFacts DEF UpgradeInv, StmtInv, Applying, InsertScript
  <1>2. /\ spc[s] \in {"base", "record"} /\ UNCHANGED <<objects, job_sql, installed>>
        /\ versions' = versions \cup {v}
    BY <1>1 DEF InsertScript, Current
  <1>3. \/ spc'[s] \in {"failed", "read"}
        \/ todo'[s] = todo[s] \ {v} /\ stmt'[s] = 1 /\ spc'[s] \in {"reset", "apply"}
    BY <1>1 DEF UpgradeInv, UpgradeTypeOK, InsertScript, Current, Apply, SGoto, local
  <1>4. \A r \in Server : r # s => spc'[r] = spc[r]
    BY DEF UpgradeInv, UpgradeTypeOK, InsertScript, Apply, SGoto
  <1>5. Begun(s) /\ Applying(s)
    BY <1>2 DEF Begun, Applying
  <1>6. \A r \in Server : r # s => ~Applying(r)' /\ ~Begun(r)'
    BY <1>4, <1>5, Alone DEF Applying, Begun
  <1>7. OneStarts'
    BY <1>4, <1>5, OneGoesOn
  <1>8. FreshInv'
    <2>1. installed
      BY <1>2, <1>5 DEF OneByOne, FreshInv, UpgradeInv
    <2> QED BY <2>1, <1>2, <1>3, <1>5, <1>6 DEF OneByOne, FreshInv, Applying, Begun
  <1>9. SqlInv'
    <2>1. \A i \in DOMAIN Scripts[v] : Scripts[v][i].job_sql <= job_sql
      BY <1>1, <1>2, <1>5, ScriptFacts DEF OneByOne, SqlInv, Executed
    <2>2. Applying(s)' => Executed(s)' = {}
      BY <1>3 DEF Applying, Executed
    <2> QED BY <2>1, <2>2, <1>2, <1>6 DEF OneByOne, SqlInv
  <1> QED BY <1>7, <1>8, <1>9 DEF OneByOne

LEMMA AloneRead ==
  ASSUME UpgradeInv, OneByOne, NEW s \in Server, ReadVersions(s)
  PROVE  OneByOne'
  <1>1. \/ spc'[s] \in {"failed", "reset"}
        \/ todo'[s] = Version \ versions /\ stmt'[s] = 1 /\ spc'[s] = "apply"
    BY DEF UpgradeInv, UpgradeTypeOK, ReadVersions, Apply, SGoto
  <1>2. \A r \in Server : r # s => spc'[r] = spc[r]
    BY DEF UpgradeInv, UpgradeTypeOK, ReadVersions, Apply, SGoto
  <1>3. Begun(s) /\ spc[s] = "read" /\ UNCHANGED db
    BY DEF Begun, ReadVersions
  <1>4. \A r \in Server : r # s => ~Applying(r)' /\ ~Begun(r)'
    BY <1>2, <1>3, Alone DEF Applying, Begun
  <1>5. OneStarts'
    BY <1>2, <1>3, OneGoesOn
  <1>6. FreshInv'
    BY <1>1, <1>3, <1>4 DEF OneByOne, FreshInv, Applying, Begun, db
  <1>7. SqlInv'
    <2>1. Applying(s)' => Executed(s)' = {}
      BY <1>1 DEF Applying, Executed
    <2> QED BY <2>1, <1>3, <1>4 DEF OneByOne, SqlInv, db
  <1> QED BY <1>5, <1>6, <1>7 DEF OneByOne

-----------------------------------------------------------------------------
(* The steps of DbServer *)


LEMMA OtherStep ==
  ASSUME UNCHANGED uvars
  PROVE  /\ UpgradeInv => UpgradeInv'
         /\ OneByOne => OneByOne'
  <1>1. UpgradeInv => UpgradeInv'
    BY DEF uvars, db, local, UpgradeInv, UpgradeTypeOK, StmtInv, DoneInv, Applying, Executed, Current, RecordedIsApplied
  <1>2. OneByOne => OneByOne'
    BY DEF uvars, db, local, OneByOne, OneStarts, Begun, FreshInv, SqlInv, Applying, Executed, Current
  <1> QED BY <1>1, <1>2

\* Each step is one of the clients and of the threads, one that moves a server
\* or one of its upgrade.
LEMMA StepsOfServers ==
  ASSUME UpgradeInv, [Next]_vars
  PROVE  \/ UNCHANGED <<uvars, raced>>
         \/ \E s \in Server : /\ Moves(s)
                              /\ IF spc'[s] = "started" THEN raced' = (raced \/ Starting)
                                                         ELSE raced' = raced
         \/ \E s \in Server : Upgrade(s) /\ UNCHANGED raced
  <1>0. spc \in [Server -> ServerLabel]
    BY DEF UpgradeInv, UpgradeTypeOK
  <1>1. ASSUME NEW c \in Client, ClientStep(c) \/ GiveUp(c) PROVE UNCHANGED <<uvars, raced>>
    BY <1>1 DEF ClientStep, FindServer, SendCommand, Receive, Deal, GiveUp
  <1>2. ASSUME NEW t \in Thread, ThreadStep(t) PROVE UNCHANGED <<uvars, raced>>
    BY <1>2 DEF ThreadStep, ExecuteCommand, CommandRaises, Reply
  <1>3. ASSUME NEW c \in Client, NEW s \in Server, StartServer(c, s)
        PROVE  Moves(s) /\ spc'[s] = "started" /\ raced' = (raced \/ Starting)
    BY <1>0, <1>3 DEF StartServer, Moves, SGoto
  <1>4. ASSUME NEW s \in Server, CheckStatus(s) \/ ResetIsRunning(s) \/ CrashServer(s)
        PROVE  Moves(s) /\ spc'[s] # "started" /\ UNCHANGED raced
    BY <1>0, <1>4 DEF CheckStatus, ResetIsRunning, CrashServer, Crash, Moves, SGoto
  <1>5. ASSUME NEW s \in Server, Bind(s) \/ StopServer(s)
        PROVE  Moves(s) /\ spc'[s] # "started" /\ UNCHANGED raced
    BY <1>0, <1>5 DEF Bind, StopServer, Moves, SGoto
  <1>6. UNCHANGED vars => UNCHANGED <<uvars, raced>>
    BY DEF vars
  <1> QED BY <1>1, <1>2, <1>3, <1>4, <1>5, <1>6 DEF Next, ServerStep

LEMMA UpgradeNext ==
  ASSUME UpgradeInv, [Next]_vars
  PROVE  UpgradeInv'
  BY StepsOfServers, OtherStep, MoveStep, InstanceStep, CreateVersioningStep, ExecuteStep,
     InsertScriptStep, ReadVersionsStep DEF Upgrade

LEMMA AloneNext ==
  ASSUME UpgradeInv, ~raced => OneByOne, [Next]_vars
  PROVE  ~raced' => OneByOne'
  <1> SUFFICES ASSUME ~raced' PROVE OneByOne'
    OBVIOUS
  <1>1. CASE UNCHANGED <<uvars, raced>>
    BY <1>1, OtherStep
  <1>2. ASSUME NEW s \in Server, Moves(s),
               IF spc'[s] = "started" THEN raced' = (raced \/ Starting) ELSE raced' = raced
        PROVE  OneByOne'
    <2>1. ~raced /\ (spc'[s] = "started" => ~Starting)
      BY <1>2
    <2> QED BY <2>1, <1>2, AloneMove DEF Starting, Begun
  <1>3. ASSUME NEW s \in Server, Upgrade(s), UNCHANGED raced PROVE OneByOne'
    BY <1>3, AloneInstance, AloneVersioning, AloneExecute, AloneInsert, AloneRead DEF Upgrade
  <1> QED BY <1>1, <1>2, <1>3, StepsOfServers

\* The versions that a server has not to apply are in the table, and the
\* statements it has executed are in the schema.
THEOREM UpgradeInvariant == Spec => []UpgradeInv
  <1>1. Init => UpgradeInv
    BY InitUpgrade DEF Init
  <1>2. UpgradeInv /\ [Next]_vars => UpgradeInv'
    BY UpgradeNext
  <1> QED BY <1>1, <1>2, PTL DEF Spec

\* _upgrade: whatever was killed and whichever servers upgraded at the same
\* time, the versions in the table are those applied to their end.
THEOREM VersionsAreApplied == Spec => []RecordedIsApplied
  <1>1. UpgradeInv => RecordedIsApplied
    BY DEF UpgradeInv
  <1> QED BY <1>1, UpgradeInvariant, PTL

\* One server upgrades at a time, and the definition of the job table is not
\* older than those of the versions in the table.
THEOREM OneByOneInvariant == Spec => [](UpgradeInv /\ (~raced => OneByOne))
  <1>1. Init => UpgradeInv /\ (~raced => OneByOne)
    BY InitUpgrade DEF Init
  <1>2. (UpgradeInv /\ (~raced => OneByOne)) /\ [Next]_vars
          => (UpgradeInv /\ (~raced => OneByOne))'
    BY UpgradeNext, AloneNext
  <1> QED BY <1>1, <1>2, PTL DEF Spec

\* run_server: a server that goes on after the upgrade has the whole schema of
\* its code, and the last definition of the job table.
THEOREM ServersAreUpToDate == Spec => []UpToDate
  <1>1. ASSUME UpgradeInv, OneByOne, versions = Version
        PROVE  objects = SchemaOf(Version) /\ job_sql = JobSqlOf(Version)
    <2>1. objects = SchemaOf(Version)
      BY <1>1 DEF UpgradeInv, UpgradeTypeOK, RecordedIsApplied, SchemaOf
    <2> DEFINE S == {NoDef} \cup UNION {JobSqls(v) : v \in Version}
    <2>2. job_sql \in S /\ S \in SUBSET Nat /\ S # {}
      BY <1>1, ScriptFacts DEF UpgradeInv, UpgradeTypeOK, JobSqls, NoDef
    <2>3. \A x \in S : x <= job_sql
      BY <1>1, <2>2 DEF OneByOne, SqlInv, JobSqls, NoDef
    <2>4. JobSqlOf(Version) = Max(S)
      BY DEF JobSqlOf
    <2>5. Max(S) \in S /\ Max(S) >= job_sql
      <3> HIDE DEF S
      <3>1. job_sql \in Nat
        BY <2>2
      <3> QED BY <2>2, <2>3, <3>1, MaxOf
    <2>6. Max(S) = job_sql
      <3> HIDE DEF S
      <3>1. Max(S) \in Nat /\ job_sql \in Nat /\ Max(S) <= job_sql
        BY <2>2, <2>3, <2>5
      <3> QED BY <3>1, <2>5
    <2> QED BY <2>1, <2>4, <2>6
  <1>2. UpgradeInv /\ (~raced => OneByOne) => UpToDate
    BY <1>1 DEF UpToDate, UpgradeInv, StmtInv
  <1> QED BY <1>2, OneByOneInvariant, PTL

-----------------------------------------------------------------------------
(* Sequences of commands *)

LEMMA RingIsSeq == SetToSeq(Thread) \in Seq(Thread)
  <1> DEFINE n == Cardinality(Thread)
  <1>1. n \in Nat /\ \E f \in [1..n -> Thread] : IsInjective(f)
    BY FS_CardinalityType, DbServerAssumption DEF ExistsBijection, Bijection, Injection, Surjection, IsInjective
  <1>2. SetToSeq(Thread) \in [1..n -> Thread]
    BY <1>1 DEF SetToSeq
  <1> QED BY <1>1, <1>2

LEMMA RemovedIsSeq ==
  ASSUME NEW S, NEW q \in Seq(S), NEW i \in DOMAIN q
  PROVE  RemoveAt(q, i) \in Seq(S)
  BY DEF RemoveAt

LEMMA AppendFacts ==
  ASSUME NEW S, NEW q \in Seq(S), NEW x \in S
  PROVE  /\ Append(q, x) \in Seq(S)
         /\ DOMAIN Append(q, x) = 1..(Len(q) + 1)
         /\ \A i \in DOMAIN q : Append(q, x)[i] = q[i]
         /\ Append(q, x)[Len(q) + 1] = x
         /\ DOMAIN q = 1..Len(q) /\ Len(q) \in Nat
  OBVIOUS

LEMMA TailFacts ==
  ASSUME NEW S, NEW q \in Seq(S), q # << >>
  PROVE  /\ Tail(q) \in Seq(S) /\ Head(q) \in S
         /\ 1 \in DOMAIN q /\ Head(q) = q[1]
         /\ \A i \in DOMAIN Tail(q) : i + 1 \in DOMAIN q /\ Tail(q)[i] = q[i + 1] /\ i \in Nat \ {0}
  OBVIOUS

LEMMA RotatedIsSeq ==
  ASSUME NEW S, NEW q \in Seq(S), q # << >>
  PROVE  Append(Tail(q), Head(q)) \in Seq(S)
  OBVIOUS

-----------------------------------------------------------------------------
(* Each step keeps each command in one place. *)

QueueTypeOK ==
  /\ cpc \in [Client -> {"new", "wait", "ready", "sent", "answered", "exit"}]
  /\ net \subseteq Client
  /\ front \subseteq Client
  /\ inbox \in [Thread -> Seq(Client)]
  /\ ring \in Seq(Thread)
  /\ cur \in [Thread -> Client \cup {NoClient}]
  /\ executed \in [Client -> Nat]

LEMMA SplitType == TypeOK <=> UpgradeTypeOK /\ QueueTypeOK /\ raced \in BOOLEAN
  BY DEF TypeOK, QueueTypeOK

CommandParts == QueueTypeOK /\ OnePlace /\ WaitingInv /\ CountInv

\* A client changes, and was not waiting for an answer.
LEMMA ClientMoves ==
  ASSUME CommandParts, NEW c \in Client, cpc[c] \notin {"sent", "answered"},
         NEW l \in {"wait", "ready", "exit"}, CGoto(c, l), UNCHANGED <<queues, executed>>
  PROVE  CommandParts'
  <1>1. QueueTypeOK'
    BY DEF CommandParts, QueueTypeOK, CGoto, queues
  <1>2. OnePlace'
    BY DEF CommandParts, OnePlace, InBox, queues
  <1>3. WaitingInv'
    BY DEF CommandParts, QueueTypeOK, WaitingInv, InBox, CGoto, queues
  <1>4. CountInv'
    BY DEF CommandParts, QueueTypeOK, CountInv, CGoto
  <1> QED BY <1>1, <1>2, <1>3, <1>4 DEF CommandParts

LEMMA SendStep ==
  ASSUME CommandParts, NEW c \in Client, SendCommand(c)
  PROVE  CommandParts'
  <1>1. QueueTypeOK'
    BY DEF CommandParts, QueueTypeOK, SendCommand, CGoto
  <1>2. c \notin net \cup front /\ \A t \in Thread : c \notin InBox(t)
    BY DEF CommandParts, WaitingInv, SendCommand
  <1>3. OnePlace'
    BY <1>2 DEF CommandParts, OnePlace, InBox, SendCommand
  <1>4. executed[c] = 0
    BY DEF CommandParts, CountInv, SendCommand
  <1>5. WaitingInv'
    BY <1>2, <1>4 DEF CommandParts, QueueTypeOK, WaitingInv, InBox, SendCommand, CGoto
  <1>6. CountInv'
    BY <1>4 DEF CommandParts, QueueTypeOK, CountInv, SendCommand, CGoto
  <1> QED BY <1>1, <1>3, <1>5, <1>6 DEF CommandParts

LEMMA ReceiveStep ==
  ASSUME CommandParts, NEW c \in Client, Receive(c)
  PROVE  CommandParts'
  <1>1. QueueTypeOK'
    BY DEF CommandParts, QueueTypeOK, Receive
  <1>2. OnePlace'
    BY DEF CommandParts, OnePlace, InBox, Receive
  <1>3. WaitingInv'
    BY DEF CommandParts, WaitingInv, InBox, Receive
  <1>4. CountInv'
    BY DEF CommandParts, CountInv, Receive
  <1> QED BY <1>1, <1>2, <1>3, <1>4 DEF CommandParts

LEMMA DealStep ==
  ASSUME CommandParts, NEW c \in Client, Deal(c)
  PROVE  CommandParts'
  <1>1. PICK h \in Thread : h = Head(ring)
    BY TailFacts DEF CommandParts, QueueTypeOK, Deal
  <1>2. /\ c \in front /\ front' = front \ {c}
        /\ inbox' = [inbox EXCEPT ![h] = Append(inbox[h], c)]
        /\ UNCHANGED <<cpc, net, cur, executed>>
    BY <1>1 DEF Deal
  <1>3. inbox[h] \in Seq(Client)
    BY DEF CommandParts, QueueTypeOK
  <1>4. ring' \in Seq(Thread)
    BY RotatedIsSeq DEF CommandParts, QueueTypeOK, Deal
  <1>5. QueueTypeOK'
    BY <1>2, <1>3, <1>4, AppendFacts DEF CommandParts, QueueTypeOK
  <1>6. \A t \in Thread : t # h => inbox'[t] = inbox[t]
    BY <1>2 DEF CommandParts, QueueTypeOK
  <1>7. /\ DOMAIN inbox'[h] = 1..(Len(inbox[h]) + 1)
        /\ \A i \in DOMAIN inbox[h] : inbox'[h][i] = inbox[h][i]
        /\ inbox'[h][Len(inbox[h]) + 1] = c
        /\ DOMAIN inbox[h] = 1..Len(inbox[h]) /\ Len(inbox[h]) \in Nat
    BY <1>2, <1>3, AppendFacts DEF CommandParts, QueueTypeOK
  <1>8. \A i \in DOMAIN inbox'[h] : i \in DOMAIN inbox[h] \/ i = Len(inbox[h]) + 1
    BY <1>7
  <1>9. \A t \in Thread : InBox(t)' \subseteq InBox(t) \cup {c}
    BY <1>6, <1>7, <1>8 DEF InBox
  <1>10. \A t \in Thread : \A i \in DOMAIN inbox[t] : inbox[t][i] # c
    BY <1>2 DEF CommandParts, OnePlace, InBox
  <1>11. OnePlace'
    <2>1. net' \cap front' = {} /\ \A t \in Thread : InBox(t)' \cap (net' \cup front') = {}
      BY <1>2, <1>9 DEF CommandParts, OnePlace
    <2>2. ASSUME NEW t \in Thread, NEW u \in Thread, NEW i \in DOMAIN inbox'[t], NEW j \in DOMAIN inbox'[u],
                 inbox'[t][i] = inbox'[u][j]
          PROVE  t = u /\ i = j
      <3>1. CASE inbox'[t][i] = c
        <4>1. t = h /\ i = Len(inbox[h]) + 1
          BY <2>2, <3>1, <1>6, <1>7, <1>8, <1>10
        <4>2. u = h /\ j = Len(inbox[h]) + 1
          BY <2>2, <3>1, <1>6, <1>7, <1>8, <1>10
        <4> QED BY <4>1, <4>2
      <3>2. CASE inbox'[t][i] # c
        <4>1. i \in DOMAIN inbox[t] /\ inbox'[t][i] = inbox[t][i]
          BY <3>2, <1>6, <1>7, <1>8
        <4>2. j \in DOMAIN inbox[u] /\ inbox'[u][j] = inbox[u][j]
          BY <2>2, <3>2, <1>6, <1>7, <1>8
        <4>3. \A x \in DOMAIN inbox[t], y \in DOMAIN inbox[u] : inbox[t][x] = inbox[u][y] => t = u /\ x = y
          BY DEF CommandParts, OnePlace
        <4> QED BY <2>2, <4>1, <4>2, <4>3
      <3> QED BY <3>1, <3>2
    <2> QED BY <2>1, <2>2, <1>2 DEF CommandParts, OnePlace
  <1>12. WaitingInv'
    BY <1>2, <1>9 DEF CommandParts, WaitingInv
  <1>13. CountInv'
    BY <1>2 DEF CommandParts, CountInv
  <1> QED BY <1>5, <1>11, <1>12, <1>13 DEF CommandParts

LEMMA ExecuteCommandStep ==
  ASSUME CommandParts, NEW t \in Thread, ExecuteCommand(t)
  PROVE  CommandParts'
  <1>1. inbox[t] \in Seq(Client) /\ inbox[t] # << >>
    BY DEF CommandParts, QueueTypeOK, ExecuteCommand, Ready
  <1>2. PICK c \in Client : c = Head(inbox[t]) /\ 1 \in DOMAIN inbox[t] /\ c = inbox[t][1]
    BY <1>1, TailFacts
  <1>3. /\ cur' = [cur EXCEPT ![t] = c]
        /\ inbox' = [inbox EXCEPT ![t] = Tail(inbox[t])]
        /\ executed' = [executed EXCEPT ![c] = @ + 1]
        /\ UNCHANGED <<cpc, net, front, ring>> /\ cur[t] = NoClient
    BY <1>2 DEF ExecuteCommand, Ready
  <1>4. c \in InBox(t) /\ cpc[c] = "sent" /\ executed[c] = 0
    BY <1>2 DEF InBox, CommandParts, WaitingInv
  <1>5. QueueTypeOK'
    BY <1>1, <1>3, <1>4, TailFacts DEF CommandParts, QueueTypeOK
  <1>6. /\ \A u \in Thread : u # t => inbox'[u] = inbox[u]
        /\ \A i \in DOMAIN inbox'[t] : i + 1 \in DOMAIN inbox[t] /\ inbox'[t][i] = inbox[t][i + 1] /\ i \in Nat \ {0}
    BY <1>1, <1>3, TailFacts DEF CommandParts, QueueTypeOK
  <1>7. \A u \in Thread : InBox(u)' \subseteq InBox(u) \ {c}
    <2>1. ASSUME NEW u \in Thread, u # t PROVE InBox(u)' = InBox(u) /\ c \notin InBox(u)
      BY <2>1, <1>2, <1>6 DEF InBox, CommandParts, OnePlace
    <2>2. ASSUME NEW i \in DOMAIN inbox'[t] PROVE inbox'[t][i] \in InBox(t) \ {c}
      <3>1. i + 1 \in DOMAIN inbox[t] /\ inbox'[t][i] = inbox[t][i + 1] /\ i + 1 # 1
        BY <2>2, <1>6
      <3> QED BY <3>1, <1>2 DEF InBox, CommandParts, OnePlace
    <2> QED BY <2>1, <2>2 DEF InBox
  <1>8. \A u \in Thread : cur[u] # c
    BY <1>2, <1>4, DbServerAssumption DEF CommandParts, WaitingInv
  <1>9. OnePlace'
    <2>1. net' \cap front' = {} /\ \A u \in Thread : InBox(u)' \cap (net' \cup front') = {}
      BY <1>3, <1>7 DEF CommandParts, OnePlace
    <2>2. ASSUME NEW u \in Thread, NEW v \in Thread, NEW i \in DOMAIN inbox'[u], NEW j \in DOMAIN inbox'[v],
                 inbox'[u][i] = inbox'[v][j]
          PROVE  u = v /\ i = j
      <3>1. PICK k \in DOMAIN inbox[u] : inbox'[u][i] = inbox[u][k] /\ k = IF u = t THEN i + 1 ELSE i
        BY <1>6
      <3>2. PICK l \in DOMAIN inbox[v] : inbox'[v][j] = inbox[v][l] /\ l = IF v = t THEN j + 1 ELSE j
        BY <1>6
      <3>3. u = v /\ k = l
        <4>1. \A x \in DOMAIN inbox[u], y \in DOMAIN inbox[v] : inbox[u][x] = inbox[v][y] => u = v /\ x = y
          BY DEF CommandParts, OnePlace
        <4> QED BY <2>2, <3>1, <3>2, <4>1
      <3> QED BY <3>1, <3>2, <3>3, <1>6
    <2>3. ASSUME NEW u \in Thread, NEW v \in Thread, cur'[u] = cur'[v], cur'[u] # NoClient
          PROVE  u = v
      BY <2>3, <1>3, <1>8 DEF CommandParts, QueueTypeOK, OnePlace
    <2> QED BY <2>1, <2>2, <2>3 DEF OnePlace
  <1>10. WaitingInv'
    <2>1. c \notin net \cup front
      BY <1>4 DEF CommandParts, OnePlace
    <2>2. executed'[c] = 1 /\ \A d \in Client : d # c => executed'[d] = executed[d]
      BY <1>3, <1>4 DEF CommandParts, QueueTypeOK
    <2>3. \A u \in Thread : u # t => cur'[u] = cur[u]
      BY <1>3 DEF CommandParts, QueueTypeOK
    <2>4. \A d \in net' \cup front' : cpc'[d] = "sent" /\ executed'[d] = 0
      BY <2>1, <2>2, <1>3 DEF CommandParts, QueueTypeOK, WaitingInv
    <2>5. ASSUME NEW u \in Thread, NEW d \in InBox(u)' PROVE cpc'[d] = "sent" /\ executed'[d] = 0
      <3>1. d \in InBox(u) /\ d # c
        BY <2>5, <1>7
      <3>2. d \in Client
        BY <3>1 DEF InBox, CommandParts, QueueTypeOK
      <3> QED BY <3>1, <3>2, <2>2, <1>3 DEF CommandParts, WaitingInv
    <2>6. ASSUME NEW u \in Thread, cur'[u] # NoClient PROVE cpc'[cur'[u]] = "sent" /\ executed'[cur'[u]] = 1
      <3>1. CASE u = t
        BY <3>1, <2>2, <1>3, <1>4 DEF CommandParts, QueueTypeOK
      <3>2. CASE u # t
        BY <2>6, <3>2, <2>2, <2>3, <1>3, <1>8 DEF CommandParts, QueueTypeOK, WaitingInv
      <3> QED BY <3>1, <3>2
    <2> QED BY <2>4, <2>5, <2>6 DEF WaitingInv
  <1>11. CountInv'
    BY <1>3, <1>4 DEF CommandParts, QueueTypeOK, CountInv
  <1> QED BY <1>5, <1>9, <1>10, <1>11 DEF CommandParts

\* Commands may be lost at any time.
LEMMA LessIsFine ==
  ASSUME CommandParts, QueueTypeOK', UNCHANGED <<cpc, net, executed>>, front' \subseteq front,
         \A t \in Thread : inbox'[t] = inbox[t] \/ inbox'[t] = << >>,
         \A t \in Thread : cur'[t] = cur[t] \/ cur'[t] = NoClient
  PROVE  CommandParts'
  <1>1. \A t \in Thread : InBox(t)' \subseteq InBox(t)
    BY DEF InBox
  <1>2. OnePlace'
    <2>1. net' \cap front' = {} /\ \A t \in Thread : InBox(t)' \cap (net' \cup front') = {}
      BY <1>1 DEF CommandParts, OnePlace
    <2>2. ASSUME NEW t \in Thread, NEW u \in Thread, NEW i \in DOMAIN inbox'[t], NEW j \in DOMAIN inbox'[u],
                 inbox'[t][i] = inbox'[u][j]
          PROVE  t = u /\ i = j
      <3>1. inbox'[t] = inbox[t] /\ inbox'[u] = inbox[u]
        BY <2>2
      <3>2. \A x \in DOMAIN inbox[t], y \in DOMAIN inbox[u] : inbox[t][x] = inbox[u][y] => t = u /\ x = y
        BY DEF CommandParts, OnePlace
      <3> QED BY <2>2, <3>1, <3>2
    <2>3. \A t, u \in Thread : cur'[t] = cur'[u] /\ cur'[t] # NoClient => t = u
      BY DEF CommandParts, OnePlace
    <2> QED BY <2>1, <2>2, <2>3 DEF OnePlace
  <1>3. WaitingInv'
    BY <1>1 DEF CommandParts, WaitingInv
  <1>4. CountInv'
    BY DEF CommandParts, CountInv
  <1> QED BY <1>2, <1>3, <1>4 DEF CommandParts


LEMMA RaiseStep ==
  ASSUME CommandParts, NEW t \in Thread, CommandRaises(t)
  PROVE  CommandParts'
  <1>1. /\ inbox' = [inbox EXCEPT ![t] = << >>]
        /\ UNCHANGED <<cpc, net, front, cur, executed>>
        /\ ring' \in Seq(Thread)
    BY RemovedIsSeq DEF CommandRaises, CommandParts, QueueTypeOK
  <1>2. QueueTypeOK'
    BY <1>1 DEF CommandParts, QueueTypeOK
  <1>3. \A u \in Thread : inbox'[u] = inbox[u] \/ inbox'[u] = << >>
    BY <1>1 DEF CommandParts, QueueTypeOK
  <1> QED BY <1>1, <1>2, <1>3, LessIsFine

LEMMA ReplyStep ==
  ASSUME CommandParts, NEW t \in Thread, Reply(t)
  PROVE  CommandParts'
  <1>1. PICK c \in Client : c = cur[t]
    BY DEF CommandParts, QueueTypeOK, Reply
  <1>2. /\ cpc' = [cpc EXCEPT ![c] = "answered"] /\ cur' = [cur EXCEPT ![t] = NoClient]
        /\ UNCHANGED <<net, front, inbox, ring, executed>>
    BY <1>1 DEF Reply, CGoto
  <1>3. c # NoClient /\ executed[c] = 1
    BY <1>1, DbServerAssumption DEF CommandParts, WaitingInv
  <1>4. QueueTypeOK'
    BY <1>2 DEF CommandParts, QueueTypeOK
  <1>5. OnePlace'
    BY <1>2 DEF CommandParts, QueueTypeOK, OnePlace, InBox
  <1>6. WaitingInv'
    <2>1. \A u \in Thread : u # t => cur[u] # c /\ cur'[u] = cur[u]
      BY <1>1, <1>2, <1>3 DEF CommandParts, QueueTypeOK, OnePlace
    <2>2. \A d : d # c => cpc'[d] = cpc[d]
      BY <1>2 DEF CommandParts, QueueTypeOK
    <2>3. cur'[t] = NoClient
      BY <1>2 DEF CommandParts, QueueTypeOK
    <2>4. \A u \in Thread : c \notin InBox(u)
      BY <1>3 DEF CommandParts, WaitingInv
    <2>5. c \notin net \cup front
      BY <1>3 DEF CommandParts, WaitingInv
    <2>6. \A u \in Thread : InBox(u)' = InBox(u)
      BY <1>2 DEF InBox
    <2> QED BY <2>1, <2>2, <2>3, <2>4, <2>5, <2>6, <1>2 DEF CommandParts, WaitingInv
  <1>7. CountInv'
    BY <1>2, <1>3 DEF CommandParts, QueueTypeOK, CountInv
  <1> QED BY <1>4, <1>5, <1>6, <1>7 DEF CommandParts

LEMMA StopStep ==
  ASSUME CommandParts, NEW s \in Server, StopServer(s) \/ Bind(s)
  PROVE  CommandParts'
  <1>1. /\ UNCHANGED <<cpc, net, executed>> /\ front' \subseteq front
        /\ \/ UNCHANGED <<ring, inbox, cur>>
           \/ /\ ring' \in {<< >>, SetToSeq(Thread)}
              /\ inbox' = [t \in Thread |-> << >>]
              /\ cur' = [t \in Thread |-> NoClient]
    BY DEF StopServer, Bind
  <1>2. QueueTypeOK'
    <2>1. CASE UNCHANGED <<ring, inbox, cur>>
      BY <1>1, <2>1 DEF CommandParts, QueueTypeOK
    <2>2. CASE ~ UNCHANGED <<ring, inbox, cur>>
      <3>1. << >> \in Seq(Thread) /\ << >> \in Seq(Client)
        OBVIOUS
      <3>2. ring' \in Seq(Thread)
        BY <1>1, <2>2, <3>1, RingIsSeq
      <3>3. inbox' \in [Thread -> Seq(Client)] /\ cur' \in [Thread -> Client \cup {NoClient}]
        BY <1>1, <2>2, <3>1
      <3> QED BY <1>1, <3>2, <3>3 DEF CommandParts, QueueTypeOK
    <2> QED BY <2>1, <2>2
  <1> QED BY <1>1, <1>2, LessIsFine

LEMMA InitCommands == Init => CommandInv
  <1> SUFFICES ASSUME Init PROVE CommandInv
    OBVIOUS
  <1>1. QueueTypeOK
    BY DEF Init, QueueTypeOK
  <1>2. OnePlace /\ WaitingInv /\ CountInv
    BY DEF Init, OnePlace, InBox, WaitingInv, CountInv
  <1> QED BY <1>1, <1>2, InitUpgrade, SplitType DEF Init, UpgradeInv, CommandInv

LEMMA CommandsNext ==
  ASSUME CommandParts, [Next]_vars
  PROVE  CommandParts'
  <1>1. ASSUME NEW c \in Client, FindServer(c) \/ GiveUp(c) PROVE CommandParts'
    <2>1. \E l \in {"ready", "exit"} : CGoto(c, l) /\ UNCHANGED <<queues, executed>>
      BY <1>1 DEF FindServer, GiveUp
    <2>2. cpc[c] \notin {"sent", "answered"}
      BY <1>1 DEF FindServer, GiveUp
    <2> QED BY <2>1, <2>2, ClientMoves
  <1>2. ASSUME NEW c \in Client, NEW s \in Server, StartServer(c, s) PROVE CommandParts'
    BY <1>2, ClientMoves DEF StartServer
  <1>3. ASSUME NEW c \in Client, SendCommand(c) \/ Receive(c) \/ Deal(c) PROVE CommandParts'
    BY <1>3, SendStep, ReceiveStep, DealStep
  <1>4. ASSUME NEW t \in Thread, ThreadStep(t) PROVE CommandParts'
    BY <1>4, ExecuteCommandStep, RaiseStep, ReplyStep DEF ThreadStep
  <1>5. ASSUME UNCHANGED <<cpc, queues, executed>> PROVE CommandParts'
    BY <1>5 DEF CommandParts, QueueTypeOK, OnePlace, WaitingInv, CountInv, InBox, queues
  <1>6. ASSUME NEW s \in Server, ServerStep(s) \/ CrashServer(s) \/ StopServer(s) PROVE CommandParts'
    BY <1>5, <1>6, StopStep DEF ServerStep, CheckStatus, ResetIsRunning, CrashServer
  <1>7. CASE UNCHANGED vars
    BY <1>5, <1>7 DEF vars
  <1> QED BY <1>1, <1>2, <1>3, <1>4, <1>6, <1>7 DEF Next, ClientStep

-----------------------------------------------------------------------------
(* The refinement *)

StateOf(c) == IF cpc[c] = "answered" THEN "answered"
              ELSE IF executed[c] > 0 THEN "executed"
              ELSE IF cpc[c] = "sent" THEN "asked" ELSE "none"

State == [c \in Client |-> StateOf(c)]

\* When one command changes, the others do not.
LEMMA Becomes ==
  ASSUME NEW c \in Client, NEW from, NEW to, StateOf(c) = from, StateOf(c)' = to,
         \A d \in Client : d # c => StateOf(d)' = StateOf(d)
  PROVE  State[c] = from /\ State' = [State EXCEPT ![c] = to]
  BY DEF State

LEMMA StateOfClients ==
  ASSUME \A d \in Client : StateOf(d)' = StateOf(d)
  PROVE  State' = State
  BY DEF State

\* A step of DbServer is one of Commands or changes no command.
LEMMA StepsOfCommands ==
  ASSUME CommandParts, [Next]_vars
  PROVE  \/ \E c \in Client :
              \/ State[c] = "none" /\ State' = [State EXCEPT ![c] = "asked"]
              \/ State[c] = "asked" /\ State' = [State EXCEPT ![c] = "executed"]
              \/ State[c] = "executed" /\ State' = [State EXCEPT ![c] = "answered"]
         \/ State' = State
  <1>1. ASSUME NEW c \in Client, FindServer(c) \/ GiveUp(c) \/ \E s \in Server : StartServer(c, s)
        PROVE  State' = State
    <2>1. executed' = executed /\ \A d \in Client : d # c => cpc'[d] = cpc[d]
      BY <1>1 DEF FindServer, GiveUp, StartServer, CGoto, CommandParts, QueueTypeOK
    <2>2. cpc[c] \notin {"sent", "answered"} /\ cpc'[c] \notin {"sent", "answered"}
      BY <1>1 DEF FindServer, GiveUp, StartServer, CGoto, CommandParts, QueueTypeOK
    <2>3. \A d \in Client : StateOf(d)' = StateOf(d)
      BY <2>1, <2>2 DEF StateOf
    <2> QED BY <2>3, StateOfClients
  <1>2. ASSUME NEW c \in Client, SendCommand(c)
        PROVE  State[c] = "none" /\ State' = [State EXCEPT ![c] = "asked"]
    <2>1. executed' = executed /\ \A d \in Client : d # c => cpc'[d] = cpc[d]
      BY <1>2 DEF SendCommand, CGoto, CommandParts, QueueTypeOK
    <2>2. cpc[c] = "ready" /\ cpc'[c] = "sent" /\ executed[c] = 0
      BY <1>2 DEF SendCommand, CGoto, CommandParts, QueueTypeOK, CountInv
    <2>3. StateOf(c) = "none" /\ StateOf(c)' = "asked"
      BY <2>1, <2>2 DEF StateOf
    <2>4. \A d \in Client : d # c => StateOf(d)' = StateOf(d)
      BY <2>1 DEF StateOf
    <2> QED BY <2>3, <2>4, Becomes
  <1>3. ASSUME UNCHANGED <<cpc, executed>> PROVE State' = State
    BY <1>3 DEF State, StateOf
  <1>4. ASSUME NEW t \in Thread, ExecuteCommand(t)
        PROVE  \E c \in Client : State[c] = "asked" /\ State' = [State EXCEPT ![c] = "executed"]
    <2>1. PICK c \in Client : c = Head(inbox[t]) /\ 1 \in DOMAIN inbox[t] /\ c = inbox[t][1]
      BY <1>4, TailFacts DEF CommandParts, QueueTypeOK, ExecuteCommand, Ready
    <2>2. cpc' = cpc /\ executed' = [executed EXCEPT ![c] = @ + 1]
      BY <1>4, <2>1 DEF ExecuteCommand
    <2>3. cpc[c] = "sent" /\ executed[c] = 0
      BY <2>1 DEF CommandParts, WaitingInv, InBox
    <2>4. executed'[c] = 1 /\ \A d \in Client : d # c => executed'[d] = executed[d]
      BY <2>2, <2>3 DEF CommandParts, QueueTypeOK
    <2>5. StateOf(c) = "asked" /\ StateOf(c)' = "executed"
      <3>1. cpc'[c] = "sent"
        BY <2>2, <2>3
      <3> QED BY <2>3, <2>4, <3>1 DEF StateOf
    <2>6. \A d \in Client : d # c => StateOf(d)' = StateOf(d)
      BY <2>2, <2>4 DEF StateOf
    <2> QED BY <2>5, <2>6, Becomes
  <1>5. ASSUME NEW t \in Thread, Reply(t)
        PROVE  \E c \in Client : State[c] = "executed" /\ State' = [State EXCEPT ![c] = "answered"]
    <2>1. PICK c \in Client : c = cur[t] /\ c # NoClient
      BY <1>5 DEF Reply, CommandParts, QueueTypeOK
    <2>2. executed' = executed /\ cpc' = [cpc EXCEPT ![c] = "answered"]
      BY <1>5, <2>1 DEF Reply, CGoto
    <2>3. cpc[c] = "sent" /\ executed[c] = 1
      BY <2>1 DEF CommandParts, WaitingInv
    <2>4. cpc'[c] = "answered" /\ \A d \in Client : d # c => cpc'[d] = cpc[d]
      BY <2>2 DEF CommandParts, QueueTypeOK
    <2>5. StateOf(c) = "executed" /\ StateOf(c)' = "answered"
      BY <2>3, <2>4 DEF StateOf
    <2>6. \A d \in Client : d # c => StateOf(d)' = StateOf(d)
      BY <2>2, <2>4 DEF StateOf
    <2> QED BY <2>5, <2>6, Becomes
  <1>6. ASSUME NEW c \in Client, Receive(c) \/ Deal(c) PROVE State' = State
    BY <1>3, <1>6 DEF Receive, Deal
  <1>7. ASSUME NEW t \in Thread, CommandRaises(t) PROVE State' = State
    BY <1>3, <1>7 DEF CommandRaises
  <1>8. ASSUME NEW s \in Server, ServerStep(s) \/ CrashServer(s) \/ StopServer(s) PROVE State' = State
    BY <1>3, <1>8 DEF ServerStep, CheckStatus, ResetIsRunning, Bind, CrashServer, StopServer
  <1>9. CASE UNCHANGED vars
    BY <1>3, <1>9 DEF vars
  <1> QED BY <1>1, <1>2, <1>4, <1>5, <1>6, <1>7, <1>8, <1>9 DEF Next, ClientStep, ThreadStep

\* Each command is in one place: its client's, the queues' or a thread's.
THEOREM CommandInvariant == Spec => [](CommandInv /\ UpgradeInv)
  <1>1. Init => CommandInv /\ UpgradeInv
    BY InitCommands, InitUpgrade DEF Init
  <1>2. (CommandInv /\ UpgradeInv) /\ [Next]_vars => (CommandInv /\ UpgradeInv)'
    <2> SUFFICES ASSUME CommandInv, UpgradeInv, [Next]_vars PROVE (CommandInv /\ UpgradeInv)'
      OBVIOUS
    <2>1. CommandParts'
      BY SplitType, CommandsNext DEF CommandInv, CommandParts
    <2>2. UpgradeInv'
      BY UpgradeNext
    <2>3. raced' \in BOOLEAN
      BY StepsOfServers DEF CommandInv, TypeOK, Starting
    <2>4. TypeOK'
      BY <2>1, <2>2, <2>3 DEF CommandParts, QueueTypeOK, UpgradeInv, TypeOK
    <2> QED BY <2>1, <2>2, <2>4 DEF CommandInv, CommandParts
  <1> QED BY <1>1, <1>2, PTL DEF Spec

\* dbcmd and dworker: a command is executed at most once and answered after
\* that, to its client, whatever raises, is stopped or is started again.
THEOREM ServerImplementsCommands == Spec => ImplementsCommands
  <1>1. Init => C!Init
    BY DEF Init, C!Init
  <1>2. CommandInv /\ [Next]_vars => [C!Next]_State
    <2> SUFFICES ASSUME CommandInv, [Next]_vars PROVE [C!Next]_State
      OBVIOUS
    <2>1. CommandParts
      BY SplitType DEF CommandInv, CommandParts
    <2> QED BY <2>1, StepsOfCommands DEF C!Next, C!Ask, C!Execute, C!Answer, C!Become, State, StateOf
  <1>3. Spec => C!Spec
    BY <1>1, <1>2, CommandInvariant, PTL DEF Spec, C!Spec, State, StateOf
  <1>4. Spec => []TypeOK
    <2>1. CommandInv => TypeOK
      BY DEF CommandInv
    <2> QED BY <2>1, CommandInvariant, PTL
  <1>5. ASSUME NEW c \in Client PROVE Spec => [](executed[c] <= 1)
    <2>1. CommandInv => executed[c] <= 1
      BY DEF CommandInv, CountInv
    <2> QED BY <2>1, CommandInvariant, PTL
  <1> QED BY <1>3, <1>4, <1>5 DEF ImplementsCommands

=============================================================================
