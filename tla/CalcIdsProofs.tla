---------------------------- MODULE CalcIdsProofs ----------------------------
(***************************************************************************)
(* Theorems about CalcIds, for any number of calculations of any kinds, any *)
(* number of IDs and any interleaving of their steps with purges.            *)
(***************************************************************************)
EXTENDS CalcIds, DataLemmas, TLAPS

\* Where a calculation of each kind may be
LabelsOf(k) ==
  CASE k = "job"    -> {"new", "listed", "numbered", "created", "checked", "open_w", "open_r+",
                        "running", "refused", "ended"}
    [] k = "import" -> {"new", "dump", "expose", "insert", "running", "refused", "ended"}
    [] OTHER        -> {"new", "checked", "open_w", "open_r+", "running", "refused", "ended"}

LabelInv == \A c \in Calc : pc[c] \in LabelsOf(kind[c])

\* A calculation that knows its ID has one from 1.
IdInv == \A c \in Calc : pc[c] \notin {"new", "listed"} => id[c] \in Id

\* The sequence is not less than any ID of the table.
SeqInv == rows \subseteq 1..seq

\* The jobs whose row was inserted
Created(c) == /\ kind[c] = "job"
              /\ pc[c] \in {"created", "checked", "open_w", "open_r+", "running", "ended"}

\* Each ID of the table was given to one job.
RowInv == /\ \A c \in Calc : Created(c) => id[c] \in rows
          /\ \A c, d \in Calc : Created(c) /\ Created(d) /\ id[c] = id[d] => c = d

\* Whose data a datastore has: of a calculation with that ID that opened it
Wrote(d) == \/ pc[d] \in {"running", "ended"}
            \/ kind[d] = "import" /\ pc[d] \in {"expose", "insert", "refused"}

FileInv == \A i \in Id : file[i] # NoCalc => id[file[i]] = i /\ Wrote(file[i])

\* The rows that a job saw when it began are still there.
SnapInv ==
  \A c \in Calc : /\ pc[c] \in {"listed", "numbered"} => snap[c].rows \subseteq rows
                  /\ pc[c] = "numbered" => id[c] \notin snap[c].rows

\* The calculations that were over when c began to look have ended, and their
\* datastores have lesser IDs.
OldInv ==
  \A c \in Calc : kind[c] # "import" /\ pc[c] # "new" =>
    /\ found[c] \notin snap[c].ended
    /\ \A d \in snap[c].ended : pc[d] = "ended"
    /\ \A i \in Id : file[i] \in snap[c].ended => IF pc[c] = "listed" THEN i <= id[c] ELSE i < id[c]

\* Before it began to look a calculation has found nothing.
NewInv == \A c \in Calc : pc[c] = "new" => snap[c].ended = {} /\ found[c] = NoCalc

OwnInv == \A c, d \in Calc : kind[c] = "job" /\ kind[d] = "job" /\ c # d => found[c] # d

Inv == TypeOK /\ LabelInv /\ IdInv /\ SeqInv /\ RowInv /\ FileInv /\ SnapInv /\ NewInv /\ OldInv /\ OwnInv

-----------------------------------------------------------------------------
LEMMA MaxOfTwo ==
  ASSUME NEW a \in Nat, NEW b \in Nat
  PROVE  Max({a, b}) \in Nat /\ Max({a, b}) \in {a, b} /\ Max({a, b}) >= a /\ Max({a, b}) >= b
  <1>1. {a, b} \in SUBSET Nat /\ {a, b} # {} /\ a + b \in Nat /\ \A n \in {a, b} : n <= a + b
    OBVIOUS
  <1>2. Max({a, b}) \in {a, b} /\ \A n \in {a, b} : Max({a, b}) >= n
    <2> HIDE DEF Max
    <2> QED BY <1>1, MaxOf
  <1> QED BY <1>2

\* No datastore has a greater ID than the last one.
LEMMA LastOfFiles ==
  ASSUME TypeOK
  PROVE  /\ get_last_calc_id \in 0..MaxId
         /\ \A i \in Id : file[i] # NoCalc => i <= get_last_calc_id
  <1> DEFINE S == {0} \cup get_calc_ids
  <1>1. S \in SUBSET Nat /\ S # {} /\ MaxId \in Nat /\ \A n \in S : n <= MaxId
    BY ConstantsAssumption DEF get_calc_ids, Id
  <1>2. Max(S) \in S /\ \A n \in S : Max(S) >= n
    <2> HIDE DEF S
    <2> QED BY <1>1, MaxOf
  <1>3. get_last_calc_id = Max(S)
    BY DEF get_last_calc_id
  <1>4. \A n \in S : n \in 0..MaxId
    BY ConstantsAssumption DEF get_calc_ids, Id
  <1>5. \A i \in Id : file[i] # NoCalc => i \in S
    BY DEF get_calc_ids
  <1> HIDE DEF S
  <1>6. \A i \in Id : file[i] # NoCalc => i <= get_last_calc_id
    <2> SUFFICES ASSUME NEW i \in Id, file[i] # NoCalc PROVE i <= get_last_calc_id
      OBVIOUS
    <2>1. i \in S /\ i \in Int /\ Max(S) \in Int /\ Max(S) >= i
      BY <1>2, <1>4, <1>5
    <2> QED BY <2>1, <1>3
  <1> QED BY <1>2, <1>3, <1>4, <1>6

LEMMA InitInv == Init => Inv
  <1> SUFFICES ASSUME Init PROVE Inv
    OBVIOUS
  <1>1. kind \in [Calc -> KindOfId]
    BY ConstantsAssumption DEF Init
  <1>2. TypeOK
    BY ConstantsAssumption DEF Init, TypeOK, Label
  <1>3. LabelInv
    BY <1>1 DEF Init, LabelInv, LabelsOf
  <1>4. IdInv /\ SeqInv /\ RowInv /\ SnapInv /\ NewInv /\ OldInv
    BY DEF Init, IdInv, SeqInv, RowInv, Created, SnapInv, NewInv, OldInv
  <1>5. FileInv /\ OwnInv
    BY ConstantsAssumption DEF Init, FileInv, OwnInv
  <1> QED BY <1>2, <1>3, <1>4, <1>5 DEF Inv

LEMMA ListFilesStep ==
  ASSUME Inv, NEW c \in Calc, ListFiles(c)
  PROVE  Inv'
  <1>0. kind \in [Calc -> KindOfId] /\ kind' = kind
    BY ConstantsAssumption DEF Inv, TypeOK, ListFiles, disk
  <1>a. /\ get_last_calc_id \in 0..MaxId
        /\ \A i \in Id : file[i] # NoCalc => i <= get_last_calc_id
    BY LastOfFiles DEF Inv
  <1>1. TypeOK'
    BY <1>0, <1>a DEF Inv, TypeOK, Label, ListFiles, Goto, disk, Look
  <1>2. LabelInv'
    BY <1>0 DEF Inv, LabelInv, LabelsOf, ListFiles, Goto
  <1>3. IdInv'
    BY <1>0 DEF Inv, IdInv, ListFiles, Goto
  <1>4. SeqInv'
    BY <1>0 DEF Inv, SeqInv, ListFiles, disk
  <1>5. RowInv'
    BY <1>0 DEF Inv, RowInv, Created, ListFiles, Goto, disk
  <1>6. FileInv'
    BY <1>0 DEF Inv, FileInv, Wrote, ListFiles, Goto, disk
  <1>7. SnapInv'
    BY <1>0 DEF Inv, TypeOK, SnapInv, ListFiles, Goto, disk, Look
  <1>8. NewInv'
    BY <1>0 DEF Inv, TypeOK, NewInv, ListFiles, Goto, Look
  <1>9. OldInv'
    <2> SUFFICES ASSUME NEW d \in Calc, kind[d] # "import", pc'[d] # "new"
                 PROVE  /\ found'[d] \notin snap'[d].ended
                        /\ \A e \in snap'[d].ended : pc'[e] = "ended"
                        /\ \A i \in Id : file'[i] \in snap'[d].ended =>
                             IF pc'[d] = "listed" THEN i <= id'[d] ELSE i < id'[d]
      BY <1>0 DEF OldInv
    <2>1. CASE d # c
      BY <2>1, <1>0 DEF Inv, OldInv, ListFiles, Goto, disk, Look
    <2>2. CASE d = c
      <3>1. /\ pc[c] = "new" /\ found'[c] = NoCalc /\ file' = file
            /\ snap'[c].ended = {e \in Calc : pc[e] = "ended"}
        BY DEF Inv, TypeOK, NewInv, ListFiles, disk, Look
      <3>2. \A e \in snap'[c].ended : e # NoCalc /\ pc'[e] = "ended"
        BY <3>1, ConstantsAssumption DEF ListFiles, Goto
      <3>3. ASSUME NEW i \in Id, file'[i] \in snap'[c].ended
            PROVE  IF pc'[c] = "listed" THEN i <= id'[c] ELSE i < id'[c]
        <4>1. i <= get_last_calc_id
          BY <1>a, <3>1, <3>2, <3>3
        <4> QED BY <4>1, <1>a, ConstantsAssumption DEF Inv, TypeOK, Id, ListFiles, Goto
      <3> QED BY <2>2, <3>1, <3>2, <3>3
    <2> QED BY <2>1, <2>2
  <1>10. OwnInv'
    BY <1>0 DEF Inv, OwnInv, ListFiles
  <1> QED BY <1>1, <1>2, <1>3, <1>4, <1>5, <1>6, <1>7, <1>8, <1>9, <1>10 DEF Inv

LEMMA ReadSeqStep ==
  ASSUME Inv, NEW c \in Calc, ReadSeq(c)
  PROVE  Inv'
  <1>0. kind \in [Calc -> KindOfId] /\ kind' = kind
    BY ConstantsAssumption DEF Inv, TypeOK, ReadSeq, disk
  <1> DEFINE m == Max({id[c], seq})
  <1>a. m \in Nat /\ m >= id[c] /\ m >= seq /\ id[c] \in Nat
    <2>1. id[c] \in Nat /\ seq \in Nat
      BY DEF Inv, TypeOK
    <2> QED BY <2>1, MaxOfTwo
  <1>b. pc[c] = "listed" /\ m < MaxId /\ id' = [id EXCEPT ![c] = m + 1] /\ pc' = [pc EXCEPT ![c] = "numbered"] /\ UNCHANGED <<disk, found, snap>>
    BY DEF ReadSeq, Goto
  <1> HIDE DEF m
  <1>1. TypeOK'
    BY <1>0, <1>a, <1>b, ConstantsAssumption DEF Inv, TypeOK, Label, TypeOK, disk
  <1>2. LabelInv'
    BY <1>0 DEF Inv, LabelInv, LabelsOf, ReadSeq, Goto
  <1>3. IdInv'
    BY <1>0, <1>a, <1>b, ConstantsAssumption DEF Inv, TypeOK, IdInv, Id, IdInv
  <1>4. SeqInv'
    BY <1>0 DEF Inv, SeqInv, ReadSeq, disk
  <1>5. RowInv'
    BY <1>0 DEF Inv, RowInv, Created, ReadSeq, Goto, disk
  <1>6. FileInv'
    BY <1>0 DEF Inv, FileInv, Wrote, ReadSeq, Goto, disk
  <1>7. SnapInv'
    BY <1>0, <1>a, <1>b DEF Inv, TypeOK, SnapInv, disk, SeqInv
  <1>8. NewInv'
    BY <1>0 DEF Inv, NewInv, ReadSeq, Goto
  <1>9. OldInv'
    BY <1>0, <1>a, <1>b DEF Inv, TypeOK, OldInv, disk, SeqInv
  <1>10. OwnInv'
    BY <1>0 DEF Inv, OwnInv, ReadSeq
  <1> QED BY <1>1, <1>2, <1>3, <1>4, <1>5, <1>6, <1>7, <1>8, <1>9, <1>10 DEF Inv

LEMMA InsertStep ==
  ASSUME Inv, NEW c \in Calc, Insert(c)
  PROVE  Inv'
  <1>0. kind \in [Calc -> KindOfId] /\ kind' = kind
    BY ConstantsAssumption DEF Inv, TypeOK, Insert, disk
  <1>a. /\ seq' \in 0..MaxId /\ rows' \subseteq 1..seq'
        /\ rows' = rows \cup {id[c]}
    <2>0. pc[c] \notin {"new", "listed"}
      BY DEF Insert
    <2>1. id[c] \in 1..MaxId /\ seq \in 0..MaxId /\ MaxId \in Nat /\ rows \subseteq 1..seq
      BY <2>0, ConstantsAssumption DEF Inv, TypeOK, IdInv, Id, SeqInv
    <2> DEFINE m == Max({seq, id[c]})
    <2>2. m \in {seq, id[c]} /\ m >= seq /\ m >= id[c] /\ m \in Nat
      BY <2>1, MaxOfTwo
    <2>3. CASE id[c] \notin rows
      <3>1. rows' = rows \cup {id[c]} /\ seq' = m
        BY <2>3 DEF Insert, InsertRow
      <3> HIDE DEF m
      <3>2. m \in 0..MaxId /\ id[c] \in 1..m /\ \A i \in 1..seq : i \in 1..m
        BY <2>1, <2>2
      <3> QED BY <2>1, <3>1, <3>2
    <2>4. CASE id[c] \in rows
      BY <2>4, <2>1 DEF Insert, InsertRow
    <2> QED BY <2>3, <2>4
  <1>1. TypeOK'
    BY <1>0, <1>a DEF Inv, TypeOK, Label, Id, Insert, Goto
  <1>2. LabelInv'
    BY <1>0 DEF Inv, LabelInv, LabelsOf, Insert, Goto
  <1>3. IdInv'
    BY <1>0 DEF Inv, IdInv, Insert, Goto
  <1>4. SeqInv'
    BY <1>a DEF SeqInv
  <1>5. RowInv'
    BY <1>0 DEF Inv, RowInv, Created, Insert, Goto, InsertRow
  <1>6. FileInv'
    BY <1>0 DEF Inv, FileInv, Wrote, Insert, Goto
  <1>7. SnapInv'
    BY <1>0 DEF Inv, SnapInv, Insert, Goto, InsertRow
  <1>8. NewInv'
    BY <1>0 DEF Inv, NewInv, Insert, Goto
  <1>9. OldInv'
    BY <1>0 DEF Inv, OldInv, Insert, Goto
  <1>10. OwnInv'
    BY <1>0 DEF Inv, OwnInv, Insert
  <1> QED BY <1>1, <1>2, <1>3, <1>4, <1>5, <1>6, <1>7, <1>8, <1>9, <1>10 DEF Inv

LEMMA InitLogsStep ==
  ASSUME Inv, NEW c \in Calc, InitLogs(c)
  PROVE  Inv'
  <1>0. kind \in [Calc -> KindOfId] /\ kind' = kind
    BY ConstantsAssumption DEF Inv, TypeOK, InitLogs, disk
  <1>1. TypeOK'
    BY <1>0 DEF Inv, TypeOK, Label, InitLogs, Goto, disk
  <1>2. LabelInv'
    BY <1>0 DEF Inv, LabelInv, LabelsOf, InitLogs, Goto
  <1>3. IdInv'
    BY <1>0 DEF Inv, IdInv, InitLogs, Goto
  <1>4. SeqInv'
    BY <1>0 DEF Inv, SeqInv, InitLogs, disk
  <1>5. RowInv'
    BY <1>0 DEF Inv, RowInv, Created, InitLogs, Goto, disk
  <1>6. FileInv'
    BY <1>0 DEF Inv, FileInv, Wrote, InitLogs, Goto, disk
  <1>7. SnapInv'
    BY <1>0 DEF Inv, SnapInv, InitLogs, Goto, disk
  <1>8. NewInv'
    BY <1>0 DEF Inv, NewInv, InitLogs, Goto
  <1>9. OldInv'
    BY <1>0 DEF Inv, OldInv, InitLogs, Goto, disk
  <1>10. OwnInv'
    BY <1>0 DEF Inv, OwnInv, InitLogs
  <1> QED BY <1>1, <1>2, <1>3, <1>4, <1>5, <1>6, <1>7, <1>8, <1>9, <1>10 DEF Inv

LEMMA TakeNextIdStep ==
  ASSUME Inv, NEW c \in Calc, TakeNextId(c)
  PROVE  Inv'
  <1>0. kind \in [Calc -> KindOfId] /\ kind' = kind
    BY ConstantsAssumption DEF Inv, TypeOK, TakeNextId, disk
  <1>a. /\ get_last_calc_id \in 0..MaxId
        /\ \A i \in Id : file[i] # NoCalc => i <= get_last_calc_id
    BY LastOfFiles DEF Inv
  <1>1. TypeOK'
    BY <1>0, <1>a, ConstantsAssumption DEF Inv, TypeOK, Label, TakeNextId, Goto, disk, Look
  <1>2. LabelInv'
    BY <1>0 DEF Inv, LabelInv, LabelsOf, TakeNextId, Goto
  <1>3. IdInv'
    BY <1>0, <1>a, ConstantsAssumption DEF Inv, TypeOK, IdInv, Id, TakeNextId, Goto
  <1>4. SeqInv'
    BY <1>0 DEF Inv, SeqInv, TakeNextId, disk
  <1>5. RowInv'
    BY <1>0 DEF Inv, RowInv, Created, TakeNextId, Goto, disk
  <1>6. FileInv'
    BY <1>0 DEF Inv, FileInv, Wrote, TakeNextId, Goto, disk
  <1>7. SnapInv'
    BY <1>0 DEF Inv, SnapInv, TakeNextId, Goto, disk, Look
  <1>8. NewInv'
    BY <1>0 DEF Inv, TypeOK, NewInv, TakeNextId, Goto, Look
  <1>9. OldInv'
    <2> SUFFICES ASSUME NEW d \in Calc, kind[d] # "import", pc'[d] # "new"
                 PROVE  /\ found'[d] \notin snap'[d].ended
                        /\ \A e \in snap'[d].ended : pc'[e] = "ended"
                        /\ \A i \in Id : file'[i] \in snap'[d].ended =>
                             IF pc'[d] = "listed" THEN i <= id'[d] ELSE i < id'[d]
      BY <1>0 DEF OldInv
    <2>1. CASE d # c
      BY <2>1, <1>0 DEF Inv, OldInv, TakeNextId, Goto, disk, Look
    <2>2. CASE d = c
      <3>1. /\ pc[c] = "new" /\ found'[c] = NoCalc /\ file' = file
            /\ snap'[c].ended = {e \in Calc : pc[e] = "ended"}
        BY DEF Inv, TypeOK, NewInv, TakeNextId, disk, Look
      <3>2. \A e \in snap'[c].ended : e # NoCalc /\ pc'[e] = "ended"
        BY <3>1, ConstantsAssumption DEF TakeNextId, Goto
      <3>3. ASSUME NEW i \in Id, file'[i] \in snap'[c].ended
            PROVE  IF pc'[c] = "listed" THEN i <= id'[c] ELSE i < id'[c]
        <4>1. i <= get_last_calc_id
          BY <1>a, <3>1, <3>2, <3>3
        <4> QED BY <4>1, <1>a, ConstantsAssumption DEF Inv, TypeOK, Id, TakeNextId, Goto
      <3> QED BY <2>2, <3>1, <3>2, <3>3
    <2> QED BY <2>1, <2>2
  <1>10. OwnInv'
    BY <1>0 DEF Inv, OwnInv, TakeNextId
  <1> QED BY <1>1, <1>2, <1>3, <1>4, <1>5, <1>6, <1>7, <1>8, <1>9, <1>10 DEF Inv

LEMMA ChooseModeStep ==
  ASSUME Inv, NEW c \in Calc, ChooseMode(c)
  PROVE  Inv'
  <1>0. kind \in [Calc -> KindOfId] /\ kind' = kind
    BY ConstantsAssumption DEF Inv, TypeOK, ChooseMode, disk
  <1>1. TypeOK'
    BY <1>0 DEF Inv, TypeOK, Label, ChooseMode, Goto, disk
  <1>2. LabelInv'
    BY <1>0 DEF Inv, LabelInv, LabelsOf, ChooseMode, Goto
  <1>3. IdInv'
    BY <1>0 DEF Inv, IdInv, ChooseMode, Goto
  <1>4. SeqInv'
    BY <1>0 DEF Inv, SeqInv, ChooseMode, disk
  <1>5. RowInv'
    BY <1>0 DEF Inv, RowInv, Created, ChooseMode, Goto, disk
  <1>6. FileInv'
    BY <1>0 DEF Inv, FileInv, Wrote, ChooseMode, Goto, disk
  <1>7. SnapInv'
    BY <1>0 DEF Inv, SnapInv, ChooseMode, Goto, disk
  <1>8. NewInv'
    BY <1>0 DEF Inv, NewInv, ChooseMode, Goto
  <1>9. OldInv'
    BY <1>0 DEF Inv, OldInv, ChooseMode, Goto, disk
  <1>10. OwnInv'
    BY <1>0 DEF Inv, OwnInv, ChooseMode
  <1> QED BY <1>1, <1>2, <1>3, <1>4, <1>5, <1>6, <1>7, <1>8, <1>9, <1>10 DEF Inv

LEMMA OpenRefusedStep ==
  ASSUME Inv, NEW c \in Calc, OpenRefused(c)
  PROVE  Inv'
  <1>0. kind \in [Calc -> KindOfId] /\ kind' = kind
    BY ConstantsAssumption DEF Inv, TypeOK, OpenRefused, disk
  <1>1. TypeOK'
    BY <1>0 DEF Inv, TypeOK, Label, OpenRefused, Goto, disk
  <1>2. LabelInv'
    BY <1>0 DEF Inv, LabelInv, LabelsOf, OpenRefused, Goto
  <1>3. IdInv'
    BY <1>0 DEF Inv, IdInv, OpenRefused, Goto
  <1>4. SeqInv'
    BY <1>0 DEF Inv, SeqInv, OpenRefused, disk
  <1>5. RowInv'
    BY <1>0 DEF Inv, RowInv, Created, OpenRefused, Goto, disk
  <1>6. FileInv'
    BY <1>0 DEF Inv, FileInv, Wrote, OpenRefused, Goto, disk
  <1>7. SnapInv'
    BY <1>0 DEF Inv, SnapInv, OpenRefused, Goto, disk
  <1>8. NewInv'
    BY <1>0 DEF Inv, NewInv, OpenRefused, Goto
  <1>9. OldInv'
    BY <1>0 DEF Inv, OldInv, OpenRefused, Goto, disk
  <1>10. OwnInv'
    BY <1>0 DEF Inv, OwnInv, OpenRefused
  <1> QED BY <1>1, <1>2, <1>3, <1>4, <1>5, <1>6, <1>7, <1>8, <1>9, <1>10 DEF Inv

LEMMA OpenStep ==
  ASSUME Inv, NEW c \in Calc, Open(c)
  PROVE  Inv'
  <1>0. kind \in [Calc -> KindOfId] /\ kind' = kind
    BY ConstantsAssumption DEF Inv, TypeOK, Open, disk
  <1>1. TypeOK'
    BY <1>0 DEF Inv, TypeOK, IdInv, Label, Open, Goto
  <1>2. LabelInv'
    BY <1>0 DEF Inv, LabelInv, LabelsOf, Open, Goto
  <1>3. IdInv'
    BY <1>0 DEF Inv, IdInv, Open, Goto
  <1>4. SeqInv'
    BY <1>0 DEF Inv, SeqInv, Open
  <1>5. RowInv'
    BY <1>0 DEF Inv, RowInv, Created, Open, Goto
  <1>6. FileInv'
    BY <1>0 DEF Inv, TypeOK, FileInv, Wrote, Open, Goto
  <1>7. SnapInv'
    BY <1>0 DEF Inv, SnapInv, Open, Goto
  <1>8. NewInv'
    BY <1>0 DEF Inv, NewInv, Open, Goto
  <1>9. OldInv'
    BY <1>0 DEF Inv, TypeOK, IdInv, OldInv, Open, Goto
  <1>10. OwnInv'
    <2>1. ASSUME kind[c] = "job", NEW d \in Calc, kind[d] = "job", file[id[c]] = d PROVE d = c
      <3>1. Created(c) /\ id[c] \in Id
        BY <2>1 DEF Inv, IdInv, Created, Open
      <3>2. id[d] = id[c] /\ Created(d)
        BY <2>1, <3>1, ConstantsAssumption DEF Inv, FileInv, Wrote, Created
      <3> QED BY <3>1, <3>2 DEF Inv, RowInv
    <2> QED BY <1>0, <2>1 DEF Inv, TypeOK, OwnInv, Open
  <1> QED BY <1>1, <1>2, <1>3, <1>4, <1>5, <1>6, <1>7, <1>8, <1>9, <1>10 DEF Inv

LEMMA EndStep ==
  ASSUME Inv, NEW c \in Calc, End(c)
  PROVE  Inv'
  <1>0. kind \in [Calc -> KindOfId] /\ kind' = kind
    BY ConstantsAssumption DEF Inv, TypeOK, End, disk
  <1>1. TypeOK'
    BY <1>0 DEF Inv, TypeOK, Label, End, Goto, disk
  <1>2. LabelInv'
    BY <1>0 DEF Inv, LabelInv, LabelsOf, End, Goto
  <1>3. IdInv'
    BY <1>0 DEF Inv, IdInv, End, Goto
  <1>4. SeqInv'
    BY <1>0 DEF Inv, SeqInv, End, disk
  <1>5. RowInv'
    BY <1>0 DEF Inv, RowInv, Created, End, Goto, disk
  <1>6. FileInv'
    BY <1>0 DEF Inv, FileInv, Wrote, End, Goto, disk
  <1>7. SnapInv'
    BY <1>0 DEF Inv, SnapInv, End, Goto, disk
  <1>8. NewInv'
    BY <1>0 DEF Inv, NewInv, End, Goto
  <1>9. OldInv'
    BY <1>0 DEF Inv, OldInv, End, Goto, disk
  <1>10. OwnInv'
    BY <1>0 DEF Inv, OwnInv, End
  <1> QED BY <1>1, <1>2, <1>3, <1>4, <1>5, <1>6, <1>7, <1>8, <1>9, <1>10 DEF Inv

LEMMA DumpStep ==
  ASSUME Inv, NEW c \in Calc, Dump(c)
  PROVE  Inv'
  <1>0. kind \in [Calc -> KindOfId] /\ kind' = kind
    BY ConstantsAssumption DEF Inv, TypeOK, Dump, disk
  <1>1. TypeOK'
    BY <1>0 DEF Inv, TypeOK, IdInv, Label, Dump, Goto
  <1>2. LabelInv'
    BY <1>0 DEF Inv, LabelInv, LabelsOf, Dump, Goto
  <1>3. IdInv'
    BY <1>0 DEF Inv, IdInv, Dump, Goto
  <1>4. SeqInv'
    BY <1>0 DEF Inv, SeqInv, Dump
  <1>5. RowInv'
    BY <1>0 DEF Inv, RowInv, Created, Dump, Goto
  <1>6. FileInv'
    BY <1>0 DEF Inv, TypeOK, LabelInv, LabelsOf, FileInv, Wrote, Dump, Goto
  <1>7. SnapInv'
    BY <1>0 DEF Inv, SnapInv, Dump, Goto
  <1>8. NewInv'
    BY <1>0 DEF Inv, NewInv, Dump, Goto
  <1>9. OldInv'
    BY <1>0 DEF Inv, LabelInv, LabelsOf, OldInv, Dump, Goto
  <1>10. OwnInv'
    BY <1>0 DEF Inv, LabelInv, LabelsOf, OwnInv, Dump
  <1> QED BY <1>1, <1>2, <1>3, <1>4, <1>5, <1>6, <1>7, <1>8, <1>9, <1>10 DEF Inv

LEMMA ExposeStep ==
  ASSUME Inv, NEW c \in Calc, Expose(c)
  PROVE  Inv'
  <1>0. kind \in [Calc -> KindOfId] /\ kind' = kind
    BY ConstantsAssumption DEF Inv, TypeOK, Expose, disk
  <1>1. TypeOK'
    BY <1>0 DEF Inv, TypeOK, Label, Expose, Goto, disk
  <1>2. LabelInv'
    BY <1>0 DEF Inv, LabelInv, LabelsOf, Expose, Goto
  <1>3. IdInv'
    BY <1>0 DEF Inv, IdInv, Expose, Goto
  <1>4. SeqInv'
    BY <1>0 DEF Inv, SeqInv, Expose, disk
  <1>5. RowInv'
    BY <1>0 DEF Inv, LabelInv, LabelsOf, RowInv, Created, Expose, Goto, disk
  <1>6. FileInv'
    BY <1>0 DEF Inv, FileInv, Wrote, Expose, Goto, disk
  <1>7. SnapInv'
    BY <1>0 DEF Inv, SnapInv, Expose, Goto, disk
  <1>8. NewInv'
    BY <1>0 DEF Inv, NewInv, Expose, Goto
  <1>9. OldInv'
    BY <1>0 DEF Inv, OldInv, Expose, Goto, disk
  <1>10. OwnInv'
    BY <1>0 DEF Inv, OwnInv, Expose
  <1> QED BY <1>1, <1>2, <1>3, <1>4, <1>5, <1>6, <1>7, <1>8, <1>9, <1>10 DEF Inv

LEMMA ImportJobStep ==
  ASSUME Inv, NEW c \in Calc, ImportJob(c)
  PROVE  Inv'
  <1>0. kind \in [Calc -> KindOfId] /\ kind' = kind
    BY ConstantsAssumption DEF Inv, TypeOK, ImportJob, disk
  <1>a. /\ seq' \in 0..MaxId /\ rows' \subseteq 1..seq'
        /\ rows' = rows \cup {id[c]}
    <2>0. pc[c] \notin {"new", "listed"}
      BY DEF ImportJob
    <2>1. id[c] \in 1..MaxId /\ seq \in 0..MaxId /\ MaxId \in Nat /\ rows \subseteq 1..seq
      BY <2>0, ConstantsAssumption DEF Inv, TypeOK, IdInv, Id, SeqInv
    <2> DEFINE m == Max({seq, id[c]})
    <2>2. m \in {seq, id[c]} /\ m >= seq /\ m >= id[c] /\ m \in Nat
      BY <2>1, MaxOfTwo
    <2>3. CASE id[c] \notin rows
      <3>1. rows' = rows \cup {id[c]} /\ seq' = m
        BY <2>3 DEF ImportJob, InsertRow
      <3> HIDE DEF m
      <3>2. m \in 0..MaxId /\ id[c] \in 1..m /\ \A i \in 1..seq : i \in 1..m
        BY <2>1, <2>2
      <3> QED BY <2>1, <3>1, <3>2
    <2>4. CASE id[c] \in rows
      BY <2>4, <2>1 DEF ImportJob, InsertRow
    <2> QED BY <2>3, <2>4
  <1>1. TypeOK'
    BY <1>0, <1>a DEF Inv, TypeOK, Label, Id, ImportJob, Goto
  <1>2. LabelInv'
    BY <1>0 DEF Inv, LabelInv, LabelsOf, ImportJob, Goto
  <1>3. IdInv'
    BY <1>0 DEF Inv, IdInv, ImportJob, Goto
  <1>4. SeqInv'
    BY <1>a DEF SeqInv
  <1>5. RowInv'
    BY <1>0 DEF Inv, RowInv, Created, ImportJob, Goto, InsertRow
  <1>6. FileInv'
    BY <1>0 DEF Inv, FileInv, Wrote, ImportJob, Goto
  <1>7. SnapInv'
    BY <1>0 DEF Inv, SnapInv, ImportJob, Goto, InsertRow
  <1>8. NewInv'
    BY <1>0 DEF Inv, NewInv, ImportJob, Goto
  <1>9. OldInv'
    BY <1>0 DEF Inv, OldInv, ImportJob, Goto
  <1>10. OwnInv'
    BY <1>0 DEF Inv, OwnInv, ImportJob
  <1> QED BY <1>1, <1>2, <1>3, <1>4, <1>5, <1>6, <1>7, <1>8, <1>9, <1>10 DEF Inv

LEMMA ImportCheckStep ==
  ASSUME Inv, NEW c \in Calc, NEW i \in Id, ImportCheck(c, i)
  PROVE  Inv'
  <1>0. kind \in [Calc -> KindOfId] /\ kind' = kind
    BY ConstantsAssumption DEF Inv, TypeOK, ImportCheck, disk
  <1>1. TypeOK'
    BY <1>0 DEF Inv, TypeOK, Label, Id, ImportCheck, Goto, disk, Look
  <1>2. LabelInv'
    BY <1>0 DEF Inv, LabelInv, LabelsOf, ImportCheck, Goto
  <1>3. IdInv'
    BY <1>0 DEF Inv, TypeOK, IdInv, ImportCheck, Goto
  <1>4. SeqInv'
    BY <1>0 DEF Inv, SeqInv, ImportCheck, disk
  <1>5. RowInv'
    BY <1>0 DEF Inv, RowInv, Created, ImportCheck, Goto, disk
  <1>6. FileInv'
    BY <1>0 DEF Inv, FileInv, Wrote, ImportCheck, Goto, disk
  <1>7. SnapInv'
    BY <1>0 DEF Inv, SnapInv, ImportCheck, Goto, disk, Look
  <1>8. NewInv'
    BY <1>0 DEF Inv, TypeOK, NewInv, ImportCheck, Goto, Look
  <1>9. OldInv'
    BY <1>0 DEF Inv, OldInv, ImportCheck, Goto, disk, Look
  <1>10. OwnInv'
    BY <1>0 DEF Inv, OwnInv, ImportCheck
  <1> QED BY <1>1, <1>2, <1>3, <1>4, <1>5, <1>6, <1>7, <1>8, <1>9, <1>10 DEF Inv

LEMMA PurgeStep ==
  ASSUME Inv, NEW i \in Id, Purge(i)
  PROVE  Inv'
  <1>0. kind \in [Calc -> KindOfId] /\ kind' = kind
    BY ConstantsAssumption DEF Inv, TypeOK, Purge, disk
  <1>1. TypeOK'
    BY <1>0 DEF Inv, TypeOK, Purge
  <1>2. LabelInv'
    BY <1>0 DEF Inv, LabelInv, Purge
  <1>3. IdInv'
    BY <1>0 DEF Inv, IdInv, Purge
  <1>4. SeqInv'
    BY <1>0 DEF Inv, SeqInv, Purge
  <1>5. RowInv'
    BY <1>0 DEF Inv, RowInv, Created, Purge
  <1>6. FileInv'
    BY <1>0 DEF Inv, FileInv, Wrote, Purge
  <1>7. SnapInv'
    BY <1>0 DEF Inv, SnapInv, Purge
  <1>8. NewInv'
    BY <1>0 DEF Inv, NewInv, Purge
  <1>9. OldInv'
    BY <1>0, ConstantsAssumption DEF Inv, TypeOK, OldInv, Purge
  <1>10. OwnInv'
    BY <1>0 DEF Inv, OwnInv, Purge
  <1> QED BY <1>1, <1>2, <1>3, <1>4, <1>5, <1>6, <1>7, <1>8, <1>9, <1>10 DEF Inv

LEMMA StutterStep ==
  ASSUME Inv, UNCHANGED vars
  PROVE  Inv'
  <1>0. kind \in [Calc -> KindOfId] /\ kind' = kind
    BY ConstantsAssumption DEF Inv, TypeOK, vars, disk
  <1>1. TypeOK'
    BY <1>0 DEF Inv, TypeOK, vars, disk
  <1>2. LabelInv'
    BY <1>0 DEF Inv, LabelInv, vars
  <1>3. IdInv'
    BY <1>0 DEF Inv, IdInv, vars
  <1>4. SeqInv'
    BY <1>0 DEF Inv, SeqInv, vars, disk
  <1>5. RowInv'
    BY <1>0 DEF Inv, RowInv, Created, vars, disk
  <1>6. FileInv'
    BY <1>0 DEF Inv, FileInv, Wrote, vars, disk
  <1>7. SnapInv'
    BY <1>0 DEF Inv, SnapInv, vars, disk
  <1>8. NewInv'
    BY <1>0 DEF Inv, NewInv, vars
  <1>9. OldInv'
    BY <1>0 DEF Inv, OldInv, vars, disk
  <1>10. OwnInv'
    BY <1>0 DEF Inv, OwnInv, vars
  <1> QED BY <1>1, <1>2, <1>3, <1>4, <1>5, <1>6, <1>7, <1>8, <1>9, <1>10 DEF Inv

LEMMA NextInv == Inv /\ [Next]_vars => Inv'
  <1> SUFFICES ASSUME Inv, [Next]_vars PROVE Inv'
    OBVIOUS
  <1>1. CASE \E c \in Calc : Step(c)
    <2> SUFFICES ASSUME NEW c \in Calc, Step(c) PROVE Inv'
      BY <1>1
    <2>1. CASE \E i \in Id : ImportCheck(c, i)
      BY <2>1, ImportCheckStep
    <2>2. CASE ListFiles(c) \/ ReadSeq(c) \/ Insert(c)
      BY <2>2, ListFilesStep, ReadSeqStep, InsertStep
    <2>3. CASE InitLogs(c) \/ TakeNextId(c) \/ ChooseMode(c) \/ OpenRefused(c) \/ Open(c) \/ End(c)
      BY <2>3, InitLogsStep, TakeNextIdStep, ChooseModeStep, OpenRefusedStep, OpenStep, EndStep
    <2>4. CASE Dump(c) \/ Expose(c) \/ ImportJob(c)
      BY <2>4, DumpStep, ExposeStep, ImportJobStep
    <2> QED BY <2>1, <2>2, <2>3, <2>4 DEF Step
  <1>2. CASE \E i \in Id : Purge(i)
    BY <1>2, PurgeStep
  <1>3. CASE UNCHANGED vars
    BY <1>3, StutterStep
  <1> QED BY <1>1, <1>2, <1>3 DEF Next

\* The inductive invariant: which step a calculation of each kind may be at,
\* whose data each datastore has, and what holds of the IDs of the table.
THEOREM InvHolds == Spec => []Inv
  <1> QED BY InitInv, NextInv, PTL DEF Spec

\* create_job and DataStore: a job never opens the datastore of another job.
THEOREM DataOfJobs == Spec => []JobsOwnTheirData
  <1>1. Inv => JobsOwnTheirData
    BY DEF Inv, JobsOwnTheirData, OwnInv
  <1> QED BY <1>1, InvHolds, PTL

\* create_job: the ID computed was not in the table when the worker began, so
\* that the insertion is refused only because of another one.
THEOREM RefusedByARace == Spec => []RefusedOnlyByARace
  <1>1. Inv => RefusedOnlyByARace
    BY DEF Inv, RefusedOnlyByARace, SnapInv
  <1> QED BY <1>1, InvHolds, PTL

\* get_last_calc_id and DataStore: the data of a calculation that was over are
\* opened by no later calculation, unless a user imports one with the same ID.
THEOREM OldDataStay == Spec => []OldDataAreSafe
  <1>1. Inv => OldDataAreSafe
    BY DEF Inv, OldDataAreSafe, NewInv, OldInv
  <1> QED BY <1>1, InvHolds, PTL

=============================================================================
