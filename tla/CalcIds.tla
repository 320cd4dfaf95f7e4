------------------------------ MODULE CalcIds ------------------------------
(***************************************************************************)
(* How calculations get their ID and their datastore calc_<id>.hdf5.       *)
(*                                                                         *)
(* A job of the engine asks the DbServer, which looks at the files and at  *)
(* the last ID given and then inserts a row; a calculation without a job   *)
(* (oq run, logs.init with nojob) and hdf5new look at the files only; an   *)
(* imported calculation keeps the ID it had elsewhere.  The users remove   *)
(* datastores meanwhile.  Nothing is locked between two of these steps.     *)
(***************************************************************************)
EXTENDS Integers, FiniteSets, FiniteSetsExt

CONSTANTS
  Calc,     \* the calculations
  NoCalc,   \* none of them
  Kinds,    \* how each gets its ID: the choices of this instance
  MaxId     \* bound: IDs

KindOfId == {"job", "nojob", "hdf5new", "import"}

ASSUME ConstantsAssumption ==
  /\ NoCalc \notin Calc
  /\ Kinds \subseteq [Calc -> KindOfId]
  /\ MaxId \in Nat \ {0}

Id == 1..MaxId

VARIABLES
  kind,   \* how each calculation gets its ID, never changed
  file,   \* whose data are in each calc_<id>.hdf5
  rows,   \* the IDs in the job table
  seq,    \* sqlite_sequence.seq of the job table
  pc,     \* what each calculation does next
  id,     \* the calculation ID, once known
  found,  \* whose data were in the datastore when the calculation opened it
  snap    \* the rows and the ended calculations when it began to look

disk == <<kind, file, rows, seq>>
vars == <<disk, pc, id, found, snap>>

Label == {"new", "listed", "numbered", "created", "checked", "open_w", "open_r+",
          "dump", "expose", "insert", "running", "refused", "ended"}

TypeOK ==
  /\ kind \in Kinds
  /\ file \in [Id -> Calc \cup {NoCalc}]
  /\ rows \subseteq Id
  /\ seq \in 0..MaxId
  /\ pc \in [Calc -> Label]
  /\ id \in [Calc -> 0..MaxId]
  /\ found \in [Calc -> Calc \cup {NoCalc}]
  /\ snap \in [Calc -> [rows : SUBSET Id, ended : SUBSET Calc]]

Init ==
  /\ kind \in Kinds
  /\ file = [i \in Id |-> NoCalc]
  /\ rows = {}
  /\ seq = 0
  /\ pc = [c \in Calc |-> "new"]
  /\ id = [c \in Calc |-> 0]
  /\ found = [c \in Calc |-> NoCalc]
  /\ snap = [c \in Calc |-> [rows |-> {}, ended |-> {}]]

-----------------------------------------------------------------------------
get_calc_ids == {i \in Id : file[i] # NoCalc}

\* Mutants: a definition named X_Y is X with the bug Y, for the checks that a
\* property is able to fail.
get_last_calc_id_Count == Cardinality(get_calc_ids)

get_last_calc_id == Max({0} \cup get_calc_ids)

Goto(c, label) == pc' = [pc EXCEPT ![c] = label]

\* What the calculation c may know of the others, for the properties.
Look(c) == snap' = [snap EXCEPT ![c] =
                      [rows |-> rows, ended |-> {d \in Calc : pc[d] = "ended"}]]

\* The insertion fails if the ID is taken; else it moves the sequence.
InsertRow(i) ==
  IF i \notin rows
  THEN rows' = rows \cup {i} /\ seq' = Max({seq, i})
  ELSE UNCHANGED <<rows, seq>>

-----------------------------------------------------------------------------
(* create_job, executed by one of the database workers *)

ListFiles(c) ==
  /\ pc[c] = "new" /\ kind[c] = "job"
  /\ id' = [id EXCEPT ![c] = get_last_calc_id]
  /\ Look(c)
  /\ Goto(c, "listed")
  /\ UNCHANGED <<disk, found>>

ReadSeq_FilesOnly(c) ==
  /\ pc[c] = "listed" /\ id[c] < MaxId
  /\ id' = [id EXCEPT ![c] = id[c] + 1]
  /\ Goto(c, "numbered")
  /\ UNCHANGED <<disk, found, snap>>

ReadSeq(c) ==
  /\ pc[c] = "listed" /\ Max({id[c], seq}) < MaxId
  /\ id' = [id EXCEPT ![c] = Max({id[c], seq}) + 1]
  /\ Goto(c, "numbered")
  /\ UNCHANGED <<disk, found, snap>>

Insert_Replaces(c) ==
  /\ pc[c] = "numbered"
  /\ rows' = rows \cup {id[c]} /\ seq' = Max({seq, id[c]})
  /\ Goto(c, "created")
  /\ UNCHANGED <<kind, file, id, found, snap>>

Insert(c) ==
  /\ pc[c] = "numbered"
  /\ InsertRow(id[c])
  /\ Goto(c, IF id[c] \notin rows THEN "created" ELSE "refused")
  /\ UNCHANGED <<kind, file, id, found, snap>>

-----------------------------------------------------------------------------
(* The datastore *)

\* run_calc gives the ID of the job to logs.init, which raises if it is used.
InitLogs(c) ==
  /\ pc[c] = "created"
  /\ Goto(c, IF file[id[c]] = NoCalc THEN "checked" ELSE "refused")
  /\ UNCHANGED <<disk, id, found, snap>>

\* logs.init with nojob, and the first half of hdf5new
TakeNextId(c) ==
  /\ pc[c] = "new" /\ kind[c] \in {"nojob", "hdf5new"}
  /\ get_last_calc_id < MaxId
  /\ id' = [id EXCEPT ![c] = get_last_calc_id + 1]
  /\ Look(c)
  /\ Goto(c, IF kind[c] = "nojob" THEN "checked" ELSE "open_w")
  /\ UNCHANGED <<disk, found>>

\* DataStore.__init__ looks at the file, then opens it.
ChooseMode(c) ==
  /\ pc[c] = "checked"
  /\ Goto(c, IF file[id[c]] = NoCalc THEN "open_w" ELSE "open_r+")
  /\ UNCHANGED <<disk, id, found, snap>>

\* HDF5 refuses a file that is not there in mode r+, and may refuse one that
\* another process has open.
OpenRefused(c) ==
  /\ LET owner == file[id[c]]
     IN  \/ pc[c] = "open_r+" /\ owner = NoCalc
         \/ pc[c] \in {"open_w", "open_r+"} /\ owner # NoCalc /\ pc[owner] = "running"
  /\ Goto(c, "refused")
  /\ UNCHANGED <<disk, id, found, snap>>

Open(c) ==
  /\ \/ pc[c] = "open_w"
     \/ pc[c] = "open_r+" /\ file[id[c]] # NoCalc
  /\ found' = [found EXCEPT ![c] = file[id[c]]]
  /\ file' = [file EXCEPT ![id[c]] = c]
  /\ Goto(c, "running")
  /\ UNCHANGED <<kind, rows, seq, id, snap>>

\* A calculation ends, or dies; one that dies before it has a datastore is one
\* that takes no more steps.
End(c) ==
  /\ pc[c] = "running"
  /\ Goto(c, "ended")
  /\ UNCHANGED <<disk, id, found, snap>>

-----------------------------------------------------------------------------
(* Users *)

\* importcalc: the job must not be in the database, the datastore is not
\* looked for.
ImportCheck(c, i) ==
  /\ pc[c] = "new" /\ kind[c] = "import"
  /\ i \notin rows
  /\ id' = [id EXCEPT ![c] = i]
  /\ Look(c)
  /\ Goto(c, "dump")
  /\ UNCHANGED <<disk, found>>

Dump(c) ==
  /\ pc[c] = "dump"
  /\ found' = [found EXCEPT ![c] = file[id[c]]]
  /\ file' = [file EXCEPT ![id[c]] = c]
  /\ Goto(c, "expose")
  /\ UNCHANGED <<kind, rows, seq, id, snap>>

\* expose_outputs asks for the job again before it inserts one.
Expose(c) ==
  /\ pc[c] = "expose"
  /\ Goto(c, IF id[c] \notin rows THEN "insert" ELSE "running")
  /\ UNCHANGED <<disk, id, found, snap>>

ImportJob(c) ==
  /\ pc[c] = "insert"
  /\ InsertRow(id[c])
  /\ Goto(c, IF id[c] \notin rows THEN "running" ELSE "refused")
  /\ UNCHANGED <<kind, file, id, found, snap>>

\* oq purge and del_calc: the row stays, as deleted; the file goes.
Purge(i) ==
  /\ file[i] # NoCalc
  /\ file' = [file EXCEPT ![i] = NoCalc]
  /\ UNCHANGED <<kind, rows, seq, pc, id, found, snap>>

Step(c) == \/ ListFiles(c) \/ ReadSeq(c) \/ Insert(c) \/ InitLogs(c)
           \/ TakeNextId(c) \/ ChooseMode(c) \/ OpenRefused(c) \/ Open(c)
           \/ Dump(c) \/ Expose(c) \/ ImportJob(c) \/ End(c)
           \/ \E i \in Id : ImportCheck(c, i)

Next == \/ \E c \in Calc : Step(c)
        \/ \E i \in Id : Purge(i)

Spec == Init /\ [][Next]_vars

-----------------------------------------------------------------------------
(* Properties *)

\* An ID given by create_job belongs to one job for ever: two jobs that were
\* given an ID never open each other's datastore, neither after one of them was
\* purged, nor when two database workers computed the same ID, nor with
\* calculations that do not ask the DbServer.
JobsOwnTheirData ==
  /\ TypeOK
  /\ \A c, d \in Calc : kind[c] = "job" /\ kind[d] = "job" /\ c # d => found[c] # d

\* create_job is refused only if somebody else inserted the same ID after it
\* began: an ID it computes was not in the table then, whatever was purged,
\* imported or calculated without a job.
RefusedOnlyByARace ==
  \A c \in Calc : pc[c] = "numbered" => id[c] \notin snap[c].rows

\* The data of a calculation that was over when another began to look for its
\* ID are never mixed with those of the other; only an import replaces them.
OldDataAreSafe ==
  \A c \in Calc : kind[c] # "import" => found[c] \notin snap[c].ended
=============================================================================
