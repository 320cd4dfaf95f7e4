--------------------------- MODULE JobQueueProofs ---------------------------
(***************************************************************************)
(* Theorems about JobQueue, for any number of processes and jobs, any      *)
(* serialize_jobs, any number of requests and all the faults.               *)
(***************************************************************************)
EXTENDS JobQueue, DataLemmas, TLAPS

Has(p, j) == \E i \in 1..Len(jobs[p]) : jobs[p][i] = j

Final == {"complete", "failed", "aborted"}

\* The IDs that were given, each to one job of one process
JobsInv ==
  /\ \A p \in Proc : \A i \in 1..Len(jobs[p]) : jobs[p][i] \in 1..last
  /\ \A p, q \in Proc : \A i \in 1..Len(jobs[p]), k \in 1..Len(jobs[q]) :
       jobs[p][i] = jobs[q][k] => p = q /\ i = k

\* A process looks at one of its jobs.
PosInv ==
  \A p \in Proc : /\ pc[p] = "create" => pos[p] = 1
                  /\ pc[p] \notin {"create", "ended"} => pos[p] \in 1..Len(jobs[p])

\* A row that may be in the table
RowIsGood(j) ==
  /\ row[j].status = "none" => ~row[j].is_running
  /\ \A p \in Proc : Has(p, j) => row[j].status # "none" /\ row[j].pid \in {NoProc, p}
  /\ row[j].status # "none" =>
       /\ \E p \in Proc : Has(p, j)
       /\ row[j].status \in Active => row[j].pid # NoProc
       /\ row[j].status \in Final => ~row[j].is_running

RowsInv == \A j \in Job : RowIsGood(j)

\* The rows a process has read had a pid, and have it still.
SeenInv ==
  \A p \in Proc : /\ \A j \in seen[p] : row[j].status # "none" /\ row[j].pid # NoProc
                  /\ pc[p] = "clean" => seen[p] # {}

ReqInv ==
  /\ req.kind # "none" => row[req.job].status # "none"
  /\ req.kind = "kill" => row[req.job].pid # NoProc

Base == TypeOK /\ JobsInv /\ PosInv /\ RowsInv /\ SeenInv /\ ReqInv

-----------------------------------------------------------------------------
(* Processes and what is declared failed *)

\* A process that has a job and did not end exists.
ExistsInv == \A p \in Proc : jobs[p] # << >> /\ pc[p] # "ended" => exists[p]

\* A job that is about to be declared failed is of a process that ended.
DeadInv == \A p, q \in Proc : \A j \in seen[p] :
             pc[p] = "clean" /\ Has(q, j) => pc[q] = "ended"

CleanInv == ExistsInv /\ DeadInv

-----------------------------------------------------------------------------
(* When no other request than an abort of the WebUI is made *)

WebOnly == Requests \subseteq {"web_abort"}

\* Only processes that were told to stop are written as aborted by a request.
AbortInv == /\ req.kind \in {"none", "kill", "aborted"}
            /\ req.kind = "aborted" => \A p \in Proc : Has(p, req.job) => Over(p)

\* The first of the jobs that p has still to calculate
FirstLeft(p) == CASE pc[p] \in {"begin", "run"} -> pos[p]
                  [] pc[p] = "close"            -> pos[p] + 1
                  [] OTHER                      -> 1

\* A row of a job that is still to be calculated
Alive(j) == row[j].is_running /\ row[j].status \in {"created"} \cup Active

\* Whether p has claimed its i-th job
Claimed(p, i) == \/ pc[p] \in {"begin", "run", "close"}
                 \/ pc[p] = "mark" /\ i < pos[p]
                 \/ pc[p] \in {"poll", "polled", "clean", "mark"} /\ ~first_time[p] /\ i = Len(jobs[p])

LiveOf(p) ==
  \A i \in FirstLeft(p)..Len(jobs[p]) :
    Alive(jobs[p][i]) /\ (Claimed(p, i) => row[jobs[p][i]].status \in Active)

LiveInv == \A p \in Proc : Over(p) \/ LiveOf(p)

\* The loops over the jobs start at the first of them, and poll_queue has not
\* said yet that it is waiting.
LoopInv == \A p \in Proc : /\ pc[p] \in {"create", "describe"} => first_time[p]
                           /\ pc[p] \in {"poll", "polled", "clean"} => pos[p] = 1

WebInv == LoopInv /\ AbortInv /\ LiveInv

-----------------------------------------------------------------------------
(* When also each process is started after those before it are visible *)

Asking(p) == jobs[p] # << >> /\ ~Over(p)

OrderInv ==
  \A p, q \in Proc : Asking(p) /\ jobs[q] # << >> /\ Me(p) < Me(q) => Visible(p)

PolledInv ==
  \A p, q \in Proc : Asking(p) /\ pc[q] = "polled" /\ Me(p) < Me(q) => Me(p) \in seen[q]

EnteredInv ==
  \A p, q \in Proc : Asking(p) /\ q \in Holders /\ Me(p) < Me(q) =>
    Me(p) >= Me(q) - (SerializeJobs - 1)

PatientInv == OrderInv /\ PolledInv /\ EnteredInv

-----------------------------------------------------------------------------
(* The commands of the DbServer *)

LEMMA RequestType ==
  ASSUME TypeOK
  PROVE  /\ req.kind \in {"none", "kill", "scan", "aborted", "failed"}
         /\ req.kind = "none" <=> req = NoReq
         /\ req.kind # "none" => req.job \in Job
  BY DEF TypeOK, Request, NoReq

\* The rows after a command wrote a status into the row j
Writes(j, status, is_running, pid) ==
  /\ row' \in [Job -> Row]
  /\ \A k \in Job : k # j => row'[k] = row[k]
  /\ row'[j].status = status
  /\ row'[j].is_running = is_running
  /\ row'[j].pid = pid

\* One field of a row after another
LEMMA RowFields ==
  ASSUME NEW r \in Row
  PROVE  /\ \A s \in Status : /\ [r EXCEPT !.status = s] \in Row
                              /\ [r EXCEPT !.status = s].status = s
                              /\ [r EXCEPT !.status = s].is_running = r.is_running
                              /\ [r EXCEPT !.status = s].pid = r.pid
         /\ \A b \in BOOLEAN : /\ [r EXCEPT !.is_running = b] \in Row
                               /\ [r EXCEPT !.is_running = b].status = r.status
                               /\ [r EXCEPT !.is_running = b].is_running = b
                               /\ [r EXCEPT !.is_running = b].pid = r.pid
         /\ \A p \in Proc : /\ [r EXCEPT !.pid = p] \in Row
                            /\ [r EXCEPT !.pid = p].status = r.status
                            /\ [r EXCEPT !.pid = p].is_running = r.is_running
                            /\ [r EXCEPT !.pid = p].pid = p
  BY DEF Row

LEMMA PutRow ==
  ASSUME TypeOK, NEW j \in Job, NEW r \in Row, row' = [row EXCEPT ![j] = r]
  PROVE  Writes(j, r.status, r.is_running, r.pid)
  BY DEF TypeOK, Writes

LEMMA FinishWrites ==
  ASSUME TypeOK, NEW j \in Job, NEW status \in Status, finish(j, status)
  PROVE  Writes(j, status, FALSE, row[j].pid)
  <1>1. PICK r : r = [row[j] EXCEPT !.status = status]
    OBVIOUS
  <1>2. PICK s : s = [r EXCEPT !.is_running = FALSE]
    OBVIOUS
  <1>3. row' = [row EXCEPT ![j] = s]
    BY <1>1, <1>2, Zenon DEF finish
  <1>4. row[j] \in Row
    BY DEF TypeOK
  <1> HIDE DEF Row
  <1>5. r \in Row /\ r.status = status /\ r.pid = row[j].pid
    BY <1>1, <1>4, RowFields
  <1>6. s \in Row /\ s.status = status /\ s.pid = row[j].pid /\ s.is_running = FALSE
    BY <1>2, <1>5, RowFields
  <1> QED BY <1>3, <1>6, PutRow

LEMMA SetStatusWrites ==
  ASSUME TypeOK, NEW j \in Job, NEW status \in Status, set_status(j, status)
  PROVE  Writes(j, status, status \in Active, row[j].pid)
  <1> DEFINE b == status \in Active
  <1>1. PICK r : r = [row[j] EXCEPT !.status = status]
    OBVIOUS
  <1>2. PICK s : s = [r EXCEPT !.is_running = b]
    OBVIOUS
  <1>3. row' = [row EXCEPT ![j] = s]
    BY <1>1, <1>2, Zenon DEF set_status
  <1>4. row[j] \in Row
    BY DEF TypeOK
  <1>5. b \in BOOLEAN
    OBVIOUS
  <1> HIDE DEF Row, b
  <1>6. r \in Row /\ r.status = status /\ r.pid = row[j].pid
    BY <1>1, <1>4, RowFields
  <1>7. s \in Row /\ s.status = status /\ s.pid = row[j].pid /\ s.is_running = b
    BY <1>2, <1>5, <1>6, RowFields
  <1>8. Writes(j, s.status, s.is_running, s.pid)
    BY <1>3, <1>7, PutRow
  <1> QED BY <1>7, <1>8 DEF b

LEMMA ClaimWrites ==
  ASSUME TypeOK, NEW j \in Job, NEW status \in Status, NEW p \in Proc, claim(j, status, p)
  PROVE  Writes(j, status, row[j].is_running, p)
  <1>1. PICK r : r = [row[j] EXCEPT !.status = status]
    OBVIOUS
  <1>2. PICK s : s = [r EXCEPT !.pid = p]
    OBVIOUS
  <1>3. row' = [row EXCEPT ![j] = s]
    BY <1>1, <1>2, Zenon DEF claim
  <1>4. row[j] \in Row
    BY DEF TypeOK
  <1> HIDE DEF Row
  <1>5. r \in Row /\ r.status = status /\ r.is_running = row[j].is_running
    BY <1>1, <1>4, RowFields
  <1>6. s \in Row /\ s.status = status /\ s.is_running = row[j].is_running /\ s.pid = p
    BY <1>2, <1>5, RowFields
  <1> QED BY <1>3, <1>6, PutRow

LEMMA DescribeWrites ==
  ASSUME TypeOK, NEW j \in Job, NEW k \in {0} \cup Job,
         row' = [row EXCEPT ![j].parent = k]
  PROVE  Writes(j, row[j].status, row[j].is_running, row[j].pid)
  <1>1. PICK r : r = [row[j] EXCEPT !.parent = k]
    OBVIOUS
  <1>2. row' = [row EXCEPT ![j] = r]
    BY <1>1, Zenon
  <1>3. row[j] \in Row
    BY DEF TypeOK
  <1>4. r \in Row /\ r.status = row[j].status /\ r.is_running = row[j].is_running
                 /\ r.pid = row[j].pid
    BY <1>1, <1>3 DEF Row
  <1> QED BY <1>2, <1>4, PutRow

LEMMA DeleteWrites ==
  ASSUME TypeOK, NEW j \in Job, row' = [row EXCEPT ![j].status = "deleted"]
  PROVE  Writes(j, "deleted", row[j].is_running, row[j].pid)
  <1>1. PICK r : r = [row[j] EXCEPT !.status = "deleted"]
    OBVIOUS
  <1>2. row' = [row EXCEPT ![j] = r]
    BY <1>1, Zenon
  <1>3. row[j] \in Row /\ "deleted" \in Status
    BY DEF TypeOK, Status
  <1>4. r \in Row /\ r.status = "deleted" /\ r.is_running = row[j].is_running
                 /\ r.pid = row[j].pid
    BY <1>1, <1>3, RowFields
  <1> QED BY <1>2, <1>4, PutRow

\* A row after a command that is not create_job
Better(j) ==
  /\ \E p \in Proc : Has(p, j)
  /\ row'[j].status # "none"
  /\ row'[j].pid = row[j].pid \/ (row'[j].pid \in Proc /\ Has(row'[j].pid, j))
  /\ row'[j].status \in Active => row'[j].pid # NoProc
  /\ row'[j].status \in Final => ~row'[j].is_running

\* Such commands keep the rows good, and what was read of them true.
LEMMA KeepRows ==
  ASSUME TypeOK, JobsInv, RowsInv, jobs' = jobs,
         \A j \in Job : row'[j] = row[j] \/ Better(j)
  PROVE  /\ RowsInv'
         /\ \A j \in Job : row[j].status # "none" => row'[j].status # "none"
         /\ \A j \in Job : row[j].pid # NoProc => row'[j].pid # NoProc
  <1>1. NoProc \notin Proc
    BY ConstantsAssumption
  <1>2. \A p \in Proc : \A j \in Job : Has(p, j)' <=> Has(p, j)
    BY DEF Has
  <1>3. ASSUME NEW j \in Job PROVE RowIsGood(j)'
    <2>1. CASE row'[j] = row[j]
      BY <1>2, <2>1 DEF RowsInv, RowIsGood
    <2>2. CASE Better(j)
      <3>1. ASSUME NEW p \in Proc, Has(p, j) PROVE row'[j].pid \in {NoProc, p}
        <4>1. CASE row'[j].pid = row[j].pid
          BY <3>1, <4>1 DEF RowsInv, RowIsGood
        <4>2. CASE row'[j].pid \in Proc /\ Has(row'[j].pid, j)
          BY <3>1, <4>2 DEF JobsInv, Has
        <4> QED BY <2>2, <4>1, <4>2 DEF Better
      <3> QED BY <1>2, <2>2, <3>1 DEF RowIsGood, Better
    <2> QED BY <2>1, <2>2
  <1> QED BY <1>1, <1>3 DEF RowsInv, Better

-----------------------------------------------------------------------------
(* The job a process looks at *)

LEMMA CurrentJob ==
  ASSUME TypeOK, PosInv, NEW p \in Proc, pc[p] \notin {"create", "ended"}
  PROVE  /\ Len(jobs[p]) \in Nat \ {0} /\ jobs[p] # << >>
         /\ pos[p] \in 1..Len(jobs[p])
         /\ Current(p) \in Job /\ Has(p, Current(p))
         /\ Me(p) \in Job /\ Has(p, Me(p))
  <1>1. jobs[p] \in Seq(Job) /\ pos[p] \in 1..Len(jobs[p])
    BY DEF TypeOK, PosInv
  <1> QED BY <1>1 DEF Current, Me, Has

LEMMA Initially == Init => Base
  <1> SUFFICES ASSUME Init PROVE Base
    OBVIOUS
  <1>1. TypeOK
    BY ConstantsAssumption DEF Init, TypeOK, Row, Status, Label, Request
  <1>2. \A p \in Proc : Len(jobs[p]) = 0
    BY DEF Init
  <1> QED
    BY <1>1, <1>2, ConstantsAssumption
    DEF Init, Base, JobsInv, PosInv, RowsInv, RowIsGood, SeenInv, ReqInv, Has, NoReq, Active, Final

\* What every action but CreateJob leaves of the invariant to be shown
LEMMA RowsStep ==
  ASSUME Base, TypeOK', PosInv', jobs' = jobs, last' = last,
         \A j \in Job : row'[j] = row[j] \/ Better(j),
         \A p \in Proc : \/ seen'[p] \subseteq seen[p]
                          \/ seen'[p] \subseteq GetJobs,
         \A p \in Proc : pc'[p] = "clean" => seen'[p] # {},
         req'.kind # "none" => row[req'.job].status # "none",
         req'.kind = "kill" => row[req'.job].pid # NoProc
  PROVE  Base'
  <1>1. /\ RowsInv'
        /\ \A j \in Job : row[j].status # "none" => row'[j].status # "none"
        /\ \A j \in Job : row[j].pid # NoProc => row'[j].pid # NoProc
    BY KeepRows DEF Base
  <1>2. JobsInv'
    BY DEF Base, JobsInv
  <1>3. SeenInv'
    <2> SUFFICES ASSUME NEW p \in Proc, NEW j \in seen'[p]
                 PROVE  row'[j].status # "none" /\ row'[j].pid # NoProc
      BY DEF SeenInv
    <2>1. j \in Job
      BY DEF TypeOK
    <2>2. row[j].status # "none" /\ row[j].pid # NoProc
      BY DEF Base, SeenInv, GetJobs, Active
    <2> QED BY <1>1, <2>1, <2>2
  <1>4. ReqInv'
    BY <1>1, RequestType DEF ReqInv, TypeOK, Request, NoReq
  <1> QED BY <1>1, <1>2, <1>3, <1>4 DEF Base

-----------------------------------------------------------------------------
(* The steps of a process *)

LEMMA CreateJobKeeps == ASSUME Base, NEW p \in Proc, CreateJob(p) PROVE Base'
  <1> USE DEF CreateJob, Goto, Base
  <1>0. PICK new \in Job : new = last + 1
    BY ConstantsAssumption DEF TypeOK, Job
  <1>1. new \notin 1..last /\ last' = new
    BY <1>0 DEF TypeOK, Job
  <1>2. /\ jobs[p] \in Seq(Job) /\ jobs' = [jobs EXCEPT ![p] = Append(@, new)]
        /\ Len(jobs'[p]) = Len(jobs[p]) + 1 /\ jobs'[p][Len(jobs[p]) + 1] = new
        /\ \A i \in 1..Len(jobs[p]) : jobs'[p][i] = jobs[p][i]
        /\ \A q \in Proc \ {p} : jobs'[q] = jobs[q]
    BY <1>0, <1>1 DEF TypeOK
  <1>3. TypeOK'
    BY <1>0, <1>1, <1>2, ConstantsAssumption DEF TypeOK, Row, Status, Label, users
  <1>4. \A q \in Proc, j \in Job : Has(q, j)' <=> Has(q, j) \/ (q = p /\ j = new)
    BY <1>0, <1>1, <1>2 DEF Has
  <1>5. JobsInv'
    <2>1. ASSUME NEW q \in Proc, NEW i \in 1..Len(jobs'[q])
          PROVE  \/ i \in 1..Len(jobs[q]) /\ jobs'[q][i] = jobs[q][i] /\ jobs'[q][i] \in 1..last
                 \/ q = p /\ i = Len(jobs[p]) + 1 /\ jobs'[q][i] = new
      BY <1>2, <2>1 DEF JobsInv
    <2>2. 1..last \subseteq 1..new /\ new \in 1..new /\ JobsInv
      BY <1>0 DEF TypeOK, Job
    <2> HIDE DEF CreateJob, Base
    <2>3. \A q \in Proc : \A i \in 1..Len(jobs'[q]) : jobs'[q][i] \in 1..last'
      BY <1>1, <2>1, <2>2
    <2>4. ASSUME NEW q \in Proc, NEW r \in Proc, NEW i \in 1..Len(jobs'[q]),
                 NEW k \in 1..Len(jobs'[r]), jobs'[q][i] = jobs'[r][k]
          PROVE  q = r /\ i = k
      <3>1. CASE jobs'[q][i] = new
        BY <1>1, <2>1, <2>4, <3>1
      <3>2. CASE jobs'[q][i] # new
        <4>1. i \in 1..Len(jobs[q]) /\ jobs[q][i] = jobs'[q][i]
          BY <2>1, <3>2
        <4>2. k \in 1..Len(jobs[r]) /\ jobs[r][k] = jobs'[r][k]
          BY <2>1, <2>4, <3>2
        <4> QED BY <2>2, <2>4, <4>1, <4>2 DEF JobsInv
      <3> QED BY <3>1, <3>2
    <2> QED BY <2>3, <2>4 DEF JobsInv
  <1>6. PosInv'
    BY <1>2 DEF PosInv, TypeOK
  <1>7. \A j \in Job \ {new} : row'[j] = row[j]
    BY <1>0, <1>1 DEF TypeOK
  <1>8. \A q \in Proc : ~Has(q, new)
    BY <1>0, <1>1 DEF Has, JobsInv
  <1>9. row[new].status = "none"
    BY <1>0, <1>1, <1>8 DEF RowsInv, RowIsGood
  <1>10. RowsInv'
    <2>1. row'[new].status = "created" /\ row'[new].pid = NoProc
      BY <1>0, <1>1 DEF TypeOK
    <2>2. Has(p, new)'
      BY <1>0, <1>1, <1>4
    <2>3. RowIsGood(new)'
      BY <2>1, <2>2 DEF RowIsGood, Active, Final
    <2>4. ASSUME NEW j \in Job \ {new} PROVE RowIsGood(j)'
      BY <1>4, <1>7 DEF RowsInv, RowIsGood
    <2> QED BY <2>3, <2>4 DEF RowsInv
  <1>11. SeenInv'
    BY <1>7, <1>9 DEF SeenInv, TypeOK
  <1>12. ReqInv'
    BY <1>7, <1>9, RequestType DEF ReqInv, users
  <1> QED BY <1>3, <1>5, <1>6, <1>10, <1>11, <1>12

\* A step that changes nothing but where p is
LEMMA QuietKeeps ==
  ASSUME Base, TypeOK', PosInv', UNCHANGED <<table, jobs, users>>,
         \A q \in Proc : \/ seen'[q] \subseteq seen[q]
                          \/ seen'[q] \subseteq GetJobs,
         \A q \in Proc : pc'[q] = "clean" => seen'[q] # {}
  PROVE  Base'
  <1>1. /\ req'.kind # "none" => row[req'.job].status # "none"
        /\ req'.kind = "kill" => row[req'.job].pid # NoProc
    BY DEF Base, ReqInv, users
  <1> QED BY <1>1, RowsStep DEF table

LEMMA PosStep ==
  ASSUME TypeOK, PosInv, NEW p \in Proc, jobs' = jobs,
         pc[p] \notin {"create", "ended"}, pc'[p] # "create", pos'[p] \in 1..Len(jobs[p]),
         \A q \in Proc \ {p} : pc'[q] = pc[q] /\ pos'[q] = pos[q]
  PROVE  PosInv'
  BY DEF PosInv

\* A step of p that writes nothing but its own label and variables
LEMMA OwnStep ==
  ASSUME Base, TypeOK', NEW p \in Proc, UNCHANGED <<table, jobs, users>>,
         pc[p] \notin {"create", "ended"},
         pc'[p] \in Label \ {"create", "clean"}, pos'[p] \in 1..Len(jobs[p]),
         \A q \in Proc \ {p} : pc'[q] = pc[q] /\ pos'[q] = pos[q],
         seen' = seen
  PROVE  Base'
  <1>1. PosInv'
    BY PosStep DEF Base
  <1>2. \A q \in Proc : pc'[q] = "clean" => seen'[q] # {}
    BY DEF Base, SeenInv
  <1> QED BY <1>1, <1>2, QuietKeeps

\* A step of p that writes into the row of one of its jobs
LEMMA WriteStep ==
  ASSUME Base, TypeOK', NEW p \in Proc, UNCHANGED <<last, jobs, users, seen>>,
         pc[p] \notin {"create", "ended"},
         pc'[p] \in Label \ {"create", "clean"}, pos'[p] \in 1..Len(jobs[p]),
         \A q \in Proc \ {p} : pc'[q] = pc[q] /\ pos'[q] = pos[q],
         \A j \in Job : row'[j] = row[j] \/ Better(j)
  PROVE  Base'
  <1>1. PosInv'
    BY PosStep DEF Base
  <1>2. \A q \in Proc : pc'[q] = "clean" => seen'[q] # {}
    BY DEF Base, SeenInv
  <1>3. /\ req'.kind # "none" => row[req'.job].status # "none"
        /\ req'.kind = "kill" => row[req'.job].pid # NoProc
    BY DEF Base, ReqInv, users
  <1> QED BY <1>1, <1>2, <1>3, RowsStep

\* Where p goes in its loop over its jobs
LEMMA NextJobMoves ==
  ASSUME TypeOK, PosInv, NEW p \in Proc, NEW label \in Label, pc[p] \notin {"create", "ended"},
         NextJob(p, label)
  PROVE  /\ pos' \in [Proc -> Nat \ {0}] /\ pos'[p] \in 1..Len(jobs[p])
         /\ pc' \in [Proc -> Label] /\ pc'[p] \in {pc[p], label}
         /\ \A q \in Proc \ {p} : pc'[q] = pc[q] /\ pos'[q] = pos[q]
         /\ pos[p] < Len(jobs[p]) => pc' = pc /\ pos'[p] = pos[p] + 1
         /\ pos[p] >= Len(jobs[p]) => pc'[p] = label /\ pos'[p] = 1
  <1>1. /\ pos[p] \in 1..Len(jobs[p]) /\ Len(jobs[p]) \in Nat
        /\ pos \in [Proc -> Nat \ {0}] /\ pc \in [Proc -> Label]
    BY CurrentJob DEF TypeOK
  <1>2. CASE pos[p] < Len(jobs[p])
    BY <1>1, <1>2 DEF NextJob
  <1>3. CASE ~(pos[p] < Len(jobs[p]))
    BY <1>1, <1>3 DEF NextJob, Goto
  <1> QED BY <1>2, <1>3

LEMMA DescribeJobKeeps == ASSUME Base, NEW p \in Proc, DescribeJob(p) PROVE Base'
  <1>1. /\ Current(p) \in Job /\ Has(p, Current(p)) /\ jobs[p][1] \in Job
        /\ pc[p] = "describe"
    <2>1. Len(jobs[p]) \in Nat \ {0} /\ jobs[p] \in Seq(Job)
      BY CurrentJob DEF DescribeJob, Base, TypeOK
    <2> QED BY <2>1, CurrentJob DEF DescribeJob, Base
  <1>2. Writes(Current(p), row[Current(p)].status, row[Current(p)].is_running, row[Current(p)].pid)
    BY <1>1, DescribeWrites DEF DescribeJob, Base
  <1>3. PICK label \in {"poll", "mark"} : NextJob(p, label)
    BY DEF DescribeJob
  <1>4. /\ pos' \in [Proc -> Nat \ {0}] /\ pos'[p] \in 1..Len(jobs[p])
        /\ pc' \in [Proc -> Label] /\ pc'[p] \in {"describe", "poll", "mark"}
        /\ \A q \in Proc \ {p} : pc'[q] = pc[q] /\ pos'[q] = pos[q]
    BY <1>1, <1>3, NextJobMoves DEF Base, Label
  <1>5. TypeOK'
    BY <1>2, <1>4 DEF DescribeJob, Base, TypeOK, Writes, users
  <1>6. \A j \in Job : row'[j] = row[j] \/ Better(j)
    <2>1. RowIsGood(Current(p)) /\ row[Current(p)].status # "none"
      BY <1>1 DEF Base, RowsInv, RowIsGood
    <2>2. Better(Current(p))
      BY <1>1, <1>2, <2>1 DEF RowIsGood, Better, Writes
    <2> QED BY <1>2, <2>2 DEF Writes
  <1> QED BY <1>1, <1>4, <1>5, <1>6, WriteStep DEF DescribeJob, users, Label

LEMMA WritesBetter ==
  ASSUME NEW j \in Job, NEW status, NEW is_running, NEW pid, Writes(j, status, is_running, pid),
         \E p \in Proc : Has(p, j),
         pid = row[j].pid \/ (pid \in Proc /\ Has(pid, j)),
         status # "none", status \in Active => pid # NoProc, status \in Final => ~is_running
  PROVE  row' \in [Job -> Row] /\ \A k \in Job : row'[k] = row[k] \/ Better(k)
  <1>1. Better(j)
    BY DEF Writes, Better
  <1> QED BY <1>1 DEF Writes

LEMMA ReadQueueKeeps == ASSUME Base, NEW p \in Proc, ReadQueue(p) PROVE Base'
  <1>1. TypeOK'
    BY DEF ReadQueue, Goto, Base, TypeOK, Label, GetJobs, table, users
  <1>2. PosInv'
    <2>1. pos[p] \in 1..Len(jobs[p]) /\ jobs' = jobs /\ pos' = pos
      BY CurrentJob DEF ReadQueue, Base
    <2> QED BY <2>1, PosStep DEF ReadQueue, Goto, Base, TypeOK
  <1>3. \A q \in Proc : seen'[q] = seen[q] \/ seen'[q] = GetJobs
    BY DEF ReadQueue, Base, TypeOK
  <1>4. \A q \in Proc : pc'[q] = "clean" => seen'[q] # {}
    BY DEF ReadQueue, Goto, Base, SeenInv, TypeOK
  <1> QED BY <1>1, <1>2, <1>3, <1>4, QuietKeeps DEF ReadQueue

LEMMA FindDeadKeeps == ASSUME Base, NEW p \in Proc, FindDead(p) PROVE Base'
  <1>1. TypeOK'
    BY DEF FindDead, Dead, Goto, Base, TypeOK, Label, table, users
  <1>2. PosInv'
    <2>1. pos[p] \in 1..Len(jobs[p]) /\ jobs' = jobs /\ pos' = pos
      BY CurrentJob DEF FindDead, Base
    <2> QED BY <2>1, PosStep DEF FindDead, Goto, Base, TypeOK
  <1>3. \A q \in Proc : seen'[q] \subseteq seen[q]
    BY DEF FindDead, Dead, Base, TypeOK
  <1>4. \A q \in Proc : pc'[q] = "clean" => seen'[q] # {}
    BY DEF FindDead, Goto, Base, SeenInv, TypeOK
  <1> QED BY <1>1, <1>2, <1>3, <1>4, QuietKeeps DEF FindDead

\* The job that DeclareFailed takes is the least of those left.
LEMMA LeastDead ==
  ASSUME Base, NEW p \in Proc, pc[p] = "clean"
  PROVE  Min(seen[p]) \in seen[p] /\ Min(seen[p]) \in Job
  <1>1. seen[p] \in SUBSET Nat /\ seen[p] # {} /\ seen[p] \subseteq Job
    BY DEF Base, SeenInv, TypeOK, Job
  <1> QED BY <1>1, MinOf

LEMMA DeclareFailedKeeps == ASSUME Base, NEW p \in Proc, DeclareFailed(p) PROVE Base'
  <1>1. PICK j \in Job : j = Min(seen[p]) /\ j \in seen[p]
    BY LeastDead DEF DeclareFailed
  <1>2. Writes(j, "failed", FALSE, row[j].pid)
    BY <1>1, FinishWrites DEF DeclareFailed, Base, Status
  <1>3. \E q \in Proc : Has(q, j)
    BY <1>1 DEF Base, SeenInv, RowsInv, RowIsGood
  <1>4. row' \in [Job -> Row] /\ \A k \in Job : row'[k] = row[k] \/ Better(k)
    BY <1>2, <1>3, WritesBetter DEF Active
  <1>5. TypeOK'
    BY <1>4 DEF DeclareFailed, Goto, Base, TypeOK, Label, users
  <1>6. PosInv'
    <2>1. pos[p] \in 1..Len(jobs[p]) /\ jobs' = jobs /\ pos' = pos
      BY CurrentJob DEF DeclareFailed, Base
    <2> QED BY <2>1, PosStep DEF DeclareFailed, Goto, Base, TypeOK
  <1>7. \A q \in Proc : seen'[q] \subseteq seen[q]
    BY DEF DeclareFailed, Base, TypeOK
  <1>8. \A q \in Proc : pc'[q] = "clean" => seen'[q] # {}
    BY <1>1 DEF DeclareFailed, Goto, Base, SeenInv, TypeOK
  <1>9. /\ req'.kind # "none" => row[req'.job].status # "none"
        /\ req'.kind = "kill" => row[req'.job].pid # NoProc
    BY DEF DeclareFailed, Base, ReqInv, users
  <1> QED BY <1>4, <1>5, <1>6, <1>7, <1>8, <1>9, RowsStep DEF DeclareFailed

LEMMA WaitKeeps == ASSUME Base, NEW p \in Proc, Wait(p) PROVE Base'
  <1>1. /\ pc[p] \notin {"create", "ended"} /\ pos'[p] \in 1..Len(jobs[p])
        /\ Me(p) \in Job /\ Has(p, Me(p))
    BY CurrentJob DEF Wait, Base
  <1>2. row' \in [Job -> Row] /\ \A k \in Job : row'[k] = row[k] \/ Better(k)
    <2>1. CASE first_time[p]
      <3>1. Writes(Me(p), "submitted", row[Me(p)].is_running, p)
        BY <1>1, <2>1, ClaimWrites DEF Wait, Base, Status
      <3> QED BY <1>1, <3>1, WritesBetter, ConstantsAssumption DEF Active, Final
    <2>2. CASE ~first_time[p]
      BY <2>2 DEF Wait, Base, TypeOK
    <2> QED BY <2>1, <2>2
  <1>3. TypeOK'
    BY <1>2 DEF Wait, Goto, Base, TypeOK, Label, users
  <1> QED BY <1>1, <1>2, <1>3, WriteStep DEF Wait, Goto, Base, TypeOK, Label

LEMMA LeaveQueueKeeps == ASSUME Base, NEW p \in Proc, LeaveQueue(p) PROVE Base'
  <1>1. pc[p] \notin {"create", "ended"} /\ pos'[p] \in 1..Len(jobs[p])
    BY CurrentJob DEF LeaveQueue, Base, local
  <1>2. TypeOK'
    BY DEF LeaveQueue, Goto, Base, TypeOK, Label, table, local, users
  <1> QED BY <1>1, <1>2, OwnStep DEF LeaveQueue, Goto, Base, TypeOK, Label, local

LEMMA ExitMoves ==
  ASSUME TypeOK, NEW p \in Proc, Exit(p)
  PROVE  /\ pc' \in [Proc -> Label] /\ pc'[p] = "ended"
         /\ exists' \in [Proc -> BOOLEAN]
         /\ \A q \in Proc \ {p} : pc'[q] = pc[q] /\ exists'[q] = exists[q]
  <1>1. (p \in FromWeb) \in BOOLEAN
    OBVIOUS
  <1>2. PICK b \in BOOLEAN : exists' = [exists EXCEPT ![p] = b]
    BY <1>1, Zenon DEF Exit
  <1> QED BY <1>2 DEF Exit, Goto, TypeOK, Label

LEMMA AbortJobKeeps == ASSUME Base, NEW p \in Proc, AbortJob(p) PROVE Base'
  <1>1. /\ pc[p] = "abort_all" /\ pos[p] \in 1..Len(jobs[p]) /\ Len(jobs[p]) \in Nat
        /\ Current(p) \in Job /\ Has(p, Current(p))
    BY CurrentJob DEF AbortJob, Base
  <1>2. Writes(Current(p), "aborted", FALSE, row[Current(p)].pid)
    BY <1>1, FinishWrites DEF AbortJob, Base, Status
  <1>3. row' \in [Job -> Row] /\ \A k \in Job : row'[k] = row[k] \/ Better(k)
    BY <1>1, <1>2, WritesBetter DEF Active
  <1>4. /\ pos' \in [Proc -> Nat \ {0}] /\ pos'[p] \in 1..Len(jobs[p])
        /\ pc' \in [Proc -> Label] /\ pc'[p] \in {"abort_all", "ended"}
        /\ exists' \in [Proc -> BOOLEAN]
        /\ \A q \in Proc \ {p} : pc'[q] = pc[q] /\ pos'[q] = pos[q]
    <2> DEFINE n == Len(jobs[p])
    <2>1. /\ pos \in [Proc -> Nat \ {0}] /\ pc \in [Proc -> Label] /\ exists \in [Proc -> BOOLEAN]
          /\ pos[p] \in 1..n /\ n \in Nat /\ pc[p] = "abort_all"
          /\ IF pos[p] < n THEN pos' = [pos EXCEPT ![p] = @ + 1] /\ UNCHANGED <<pc, exists>>
                           ELSE pos' = pos /\ Exit(p)
      BY <1>1 DEF AbortJob, Base, TypeOK
    <2>2. CASE pos[p] < n
      BY <2>1, <2>2
    <2>3. CASE ~(pos[p] < n)
      BY <1>1, <2>1, <2>3, ExitMoves DEF Base
    <2> QED BY <2>2, <2>3 DEF n
  <1>5. TypeOK'
    BY <1>3, <1>4 DEF AbortJob, Base, TypeOK, users
  <1> QED BY <1>1, <1>3, <1>4, <1>5, WriteStep DEF AbortJob, Label

LEMMA MarkExecutingKeeps == ASSUME Base, NEW p \in Proc, MarkExecuting(p) PROVE Base'
  <1>1. pc[p] = "mark" /\ Current(p) \in Job /\ Has(p, Current(p))
    BY CurrentJob DEF MarkExecuting, Base
  <1>2. Writes(Current(p), "executing", row[Current(p)].is_running, p)
    BY <1>1, ClaimWrites DEF MarkExecuting, Base, Status
  <1>3. row' \in [Job -> Row] /\ \A k \in Job : row'[k] = row[k] \/ Better(k)
    BY <1>1, <1>2, WritesBetter, ConstantsAssumption DEF Active, Final
  <1>4. /\ pos' \in [Proc -> Nat \ {0}] /\ pos'[p] \in 1..Len(jobs[p])
        /\ pc' \in [Proc -> Label] /\ pc'[p] \in {"mark", "begin"}
        /\ \A q \in Proc \ {p} : pc'[q] = pc[q] /\ pos'[q] = pos[q]
    BY <1>1, NextJobMoves DEF MarkExecuting, Base, Label
  <1>5. TypeOK'
    BY <1>3, <1>4 DEF MarkExecuting, Base, TypeOK, users
  <1> QED BY <1>1, <1>3, <1>4, <1>5, WriteStep DEF MarkExecuting, Label

LEMMA BeginCalcKeeps == ASSUME Base, NEW p \in Proc, BeginCalc(p) PROVE Base'
  <1>1. pc[p] \notin {"create", "ended"} /\ pos'[p] \in 1..Len(jobs[p]) /\ Current(p) \in Job
    BY CurrentJob DEF BeginCalc, Base
  <1>2. TypeOK'
    BY <1>1 DEF BeginCalc, Goto, Base, TypeOK, Label, table, users
  <1> QED BY <1>1, <1>2, OwnStep DEF BeginCalc, Goto, Base, TypeOK, Label

LEMMA CompleteCalcKeeps == ASSUME Base, NEW p \in Proc, CompleteCalc(p) PROVE Base'
  <1>1. /\ pc[p] = "run" /\ Current(p) \in Job /\ Has(p, Current(p))
        /\ pos'[p] \in 1..Len(jobs[p])
    BY CurrentJob DEF CompleteCalc, Base, local
  <1>2. Writes(Current(p), "complete", FALSE, row[Current(p)].pid)
    BY <1>1, FinishWrites DEF CompleteCalc, Base, Status
  <1>3. row' \in [Job -> Row] /\ \A k \in Job : row'[k] = row[k] \/ Better(k)
    BY <1>1, <1>2, WritesBetter DEF Active
  <1>4. TypeOK'
    BY <1>3 DEF CompleteCalc, Goto, Base, TypeOK, Label, local, users
  <1> QED BY <1>1, <1>3, <1>4, WriteStep DEF CompleteCalc, Goto, Base, TypeOK, Label, local

LEMMA EndCalcKeeps == ASSUME Base, NEW p \in Proc, EndCalc(p) PROVE Base'
  <1>1. pc[p] = "close" /\ pos[p] \in 1..Len(jobs[p]) /\ Len(jobs[p]) \in Nat
    BY CurrentJob DEF EndCalc, Base
  <1>2. /\ pos' \in [Proc -> Nat \ {0}] /\ pos'[p] \in 1..Len(jobs[p])
        /\ pc' \in [Proc -> Label] /\ pc'[p] \in {"begin", "ended"}
        /\ exists' \in [Proc -> BOOLEAN]
        /\ \A q \in Proc \ {p} : pc'[q] = pc[q] /\ pos'[q] = pos[q]
    <2> DEFINE n == Len(jobs[p])
    <2>1. /\ pos \in [Proc -> Nat \ {0}] /\ pc \in [Proc -> Label] /\ exists \in [Proc -> BOOLEAN]
          /\ pos[p] \in 1..n /\ n \in Nat
          /\ IF pos[p] < n
             THEN pos' = [pos EXCEPT ![p] = @ + 1] /\ Goto(p, "begin") /\ exists' = exists
             ELSE pos' = pos /\ Exit(p)
      BY <1>1 DEF EndCalc, Base, TypeOK
    <2>2. CASE pos[p] < n
      BY <1>1, <2>1, <2>2 DEF Goto, Label
    <2>3. CASE ~(pos[p] < n)
      BY <1>1, <2>1, <2>3, ExitMoves DEF Base
    <2> QED BY <2>2, <2>3 DEF n
  <1>3. TypeOK'
    BY <1>2 DEF EndCalc, Base, TypeOK, table, users
  <1> QED BY <1>1, <1>2, <1>3, OwnStep DEF EndCalc, Label

LEMMA CalcRaisesKeeps == ASSUME Base, NEW p \in Proc, CalcRaises(p) PROVE Base'
  <1>1. pc[p] \notin {"create", "ended"} /\ pos'[p] \in 1..Len(jobs[p])
    BY CurrentJob DEF CalcRaises, Base, local
  <1>2. TypeOK'
    BY DEF CalcRaises, Goto, Base, TypeOK, Label, table, local, users
  <1> QED BY <1>1, <1>2, OwnStep DEF CalcRaises, Goto, Base, TypeOK, Label, local

LEMMA FinishCalcKeeps == ASSUME Base, NEW p \in Proc, FinishCalc(p) PROVE Base'
  <1>1. /\ pc[p] \in {"failing", "aborting"} /\ Current(p) \in Job /\ Has(p, Current(p))
        /\ pos'[p] \in 1..Len(jobs[p])
    BY CurrentJob DEF FinishCalc, Base, local
  <1>2. row' \in [Job -> Row] /\ \A k \in Job : row'[k] = row[k] \/ Better(k)
    <2>1. ASSUME NEW s \in {"failed", "aborted"}, finish(Current(p), s)
          PROVE  row' \in [Job -> Row] /\ \A k \in Job : row'[k] = row[k] \/ Better(k)
      <3>1. Writes(Current(p), s, FALSE, row[Current(p)].pid)
        BY <1>1, <2>1, FinishWrites DEF Base, Status
      <3> QED BY <1>1, <3>1, WritesBetter DEF Active
    <2>2. CASE row' = row
      BY <2>2 DEF Base, TypeOK
    <2> QED BY <2>1, <2>2 DEF FinishCalc
  <1>3. Exit(p)
    BY DEF FinishCalc
  <1>4. TypeOK'
    BY <1>2, <1>3, ExitMoves DEF FinishCalc, Base, TypeOK, local, users
  <1> QED BY <1>1, <1>2, <1>3, <1>4, ExitMoves, WriteStep DEF FinishCalc, Base, Label, local

\* A step that ends p wherever it is
LEMMA EndKeeps ==
  ASSUME Base, TypeOK', NEW p \in Proc, UNCHANGED <<table, jobs, pos, seen, users>>,
         pc'[p] \in Label \ {"create", "clean"}, pc[p] # "create" \/ pc'[p] = "ended",
         pc[p] # "ended", \A q \in Proc \ {p} : pc'[q] = pc[q]
  PROVE  Base'
  <1>1. PosInv'
    BY DEF Base, PosInv
  <1>2. \A q \in Proc : pc'[q] = "clean" => seen'[q] # {}
    BY DEF Base, SeenInv
  <1> QED BY <1>1, <1>2, QuietKeeps

LEMMA InterruptMoves ==
  ASSUME TypeOK, NEW p \in Proc, Interrupt(p)
  PROVE  /\ pc' \in [Proc -> Label] /\ exists' \in [Proc -> BOOLEAN] /\ sig' \in [Proc -> BOOLEAN]
         /\ pc[p] \notin {"create", "describe", "ended"}
         /\ pc'[p] \in {"abort_all", "aborting", "ended"}
         /\ sig[p] /\ ~sig'[p]
         /\ \A q \in Proc \ {p} : pc'[q] = pc[q] /\ exists'[q] = exists[q] /\ sig'[q] = sig[q]
         /\ pc'[p] # "ended" => exists' = exists
  <1>1. sig' \in [Proc -> BOOLEAN] /\ sig[p] /\ ~sig'[p] /\ \A q \in Proc \ {p} : sig'[q] = sig[q]
    BY DEF Interrupt, TypeOK
  <1>2. CASE Exit(p) /\ pc[p] \in {"abort_all", "mark", "begin", "run", "close", "failing", "aborting"}
    BY <1>1, <1>2, ExitMoves
  <1>3. CASE /\ pc[p] \in {"poll", "polled", "clean"}
             /\ Goto(p, "abort_all") /\ exists' = exists
    BY <1>1, <1>3 DEF Goto, TypeOK, Label
  <1>4. CASE /\ pc[p] \in {"run", "close"}
             /\ Goto(p, "aborting") /\ exists' = exists
    BY <1>1, <1>4 DEF Goto, TypeOK, Label
  <1> QED BY <1>2, <1>3, <1>4 DEF Interrupt

LEMMA InterruptKeeps == ASSUME Base, NEW p \in Proc, Interrupt(p) PROVE Base'
  <1>1. TypeOK'
    BY InterruptMoves DEF Interrupt, Base, TypeOK, table, local, users
  <1> QED BY <1>1, InterruptMoves, EndKeeps DEF Interrupt, Base, local, Label

LEMMA DieKeeps == ASSUME Base, NEW p \in Proc, Die(p) PROVE Base'
  <1>1. TypeOK'
    BY ExitMoves DEF Die, Base, TypeOK, table, local, users
  <1> QED BY <1>1, ExitMoves, EndKeeps DEF Die, Base, local, Label

-----------------------------------------------------------------------------
(* The steps of the users *)

LEMMA UserStep ==
  ASSUME Base, row' \in [Job -> Row], req' \in Request, requests' \in 0..MaxRequests,
         sig' \in [Proc -> BOOLEAN],
         UNCHANGED <<last, pc, local, exists>>,
         \A j \in Job : row'[j] = row[j] \/ Better(j),
         req'.kind # "none" => row[req'.job].status # "none",
         req'.kind = "kill" => row[req'.job].pid # NoProc
  PROVE  Base'
  <1>1. TypeOK'
    BY DEF Base, TypeOK, local
  <1>2. PosInv'
    BY DEF Base, PosInv, local
  <1>3. \A q \in Proc : pc'[q] = "clean" => seen'[q] # {}
    BY DEF Base, SeenInv, local
  <1> QED BY <1>1, <1>2, <1>3, RowsStep DEF local

LEMMA AskCounts == ASSUME TypeOK, NEW kind, Ask(kind) PROVE requests' \in 0..MaxRequests
  BY ConstantsAssumption DEF Ask, TypeOK

LEMMA WebAbortKeeps == ASSUME Base, NEW j \in Job, WebAbort(j) PROVE Base'
  <1>1. req' \in Request /\ req'.job = j
    BY DEF WebAbort, Request
  <1> QED BY <1>1, AskCounts, UserStep DEF WebAbort, Base, TypeOK, table, Active

LEMMA CliAbortKeeps == ASSUME Base, NEW j \in Job, CliAbort(j) PROVE Base'
  <1>1. req' \in Request /\ req'.job = j /\ req'.kind = "scan"
    BY DEF CliAbort, Request
  <1> QED BY <1>1, AskCounts, UserStep DEF CliAbort, Base, TypeOK, table

\* A kill goes on to the status, or the request ends.
LEMMA KillMoves ==
  ASSUME TypeOK, NEW p \in Proc, Kill(p), req.kind \in {"kill", "scan"}
  PROVE  /\ sig' \in [Proc -> BOOLEAN] /\ req' \in Request
         /\ \/ req' = NoReq /\ sig' = sig
            \/ /\ req'.kind = "aborted" /\ req'.job = req.job
               /\ exists[p] /\ (pc[p] # "ended" => sig'[p])
         /\ \A q \in Proc : sig[q] => sig'[q]
  <1>1. CASE exists[p]
    <2>1. (sig[p] \/ pc[p] # "ended") \in BOOLEAN
      OBVIOUS
    <2>2. PICK b \in BOOLEAN : /\ sig' = [sig EXCEPT ![p] = b]
                               /\ b = (sig[p] \/ pc[p] # "ended")
      BY <1>1, <2>1, Zenon DEF Kill
    <2>3. req \in [kind : {"kill", "scan", "aborted", "failed"}, job : Job]
      BY DEF TypeOK, Request, NoReq
    <2>4. req' = [req EXCEPT !.kind = "aborted"]
      BY <1>1, Zenon DEF Kill
    <2>5. req' \in Request /\ req'.kind = "aborted" /\ req'.job = req.job
      BY <2>3, <2>4 DEF Request
    <2>6. sig' \in [Proc -> BOOLEAN] /\ (pc[p] # "ended" => sig'[p]) /\ \A q \in Proc : sig[q] => sig'[q]
      BY <2>2 DEF TypeOK
    <2> QED BY <1>1, <2>5, <2>6
  <1>2. CASE ~exists[p]
    BY <1>2, Zenon DEF Kill, TypeOK, Request
  <1> QED BY <1>1, <1>2

LEMMA WebKillKeeps == ASSUME Base, WebKill PROVE Base'
  <1>1. PICK p \in Proc : p = row[req.job].pid /\ Kill(p)
    <2>1. row[req.job].pid # NoProc /\ req.job \in Job
      BY RequestType DEF WebKill, Base, ReqInv
    <2> QED BY <2>1 DEF WebKill, Base, TypeOK, Row
  <1>2. row[req.job].status # "none"
    BY DEF WebKill, Base, ReqInv
  <1> QED BY <1>1, <1>2, KillMoves, UserStep DEF WebKill, Base, TypeOK, table, NoReq

LEMMA CliScanKeeps == ASSUME Base, CliScan PROVE Base'
  <1>1. row[req.job].status # "none" /\ req.job \in Job /\ req.kind = "scan"
    BY RequestType DEF CliScan, Base, ReqInv
  <1>2. /\ req' \in Request /\ sig' \in [Proc -> BOOLEAN]
        /\ req' = NoReq \/ (req'.kind \in {"aborted", "failed"} /\ req'.job = req.job)
    <2>1. CASE \E p \in Proc : Kill(p)
      BY <1>1, <2>1, KillMoves DEF Base
    <2>2. CASE req' = [req EXCEPT !.kind = "failed"] /\ sig' = sig
      <3>1. req \in [kind : {"kill", "scan", "aborted", "failed"}, job : Job]
        BY <1>1 DEF Base, TypeOK, Request, NoReq
      <3> QED BY <2>2, <3>1 DEF Base, TypeOK, Request
    <2> QED BY <2>1, <2>2 DEF CliScan
  <1> QED BY <1>1, <1>2, UserStep DEF CliScan, Base, TypeOK, table, NoReq

LEMMA SetStatusKeeps == ASSUME Base, SetStatus PROVE Base'
  <1>1. PICK j \in Job, s \in {"aborted", "failed"} :
          set_status(j, s) /\ j = req.job /\ row[j].status # "none"
    BY RequestType DEF SetStatus, Base, ReqInv
  <1>2. Writes(j, s, FALSE, row[j].pid)
    <2>1. Writes(j, s, s \in Active, row[j].pid)
      BY <1>1, SetStatusWrites DEF Base, Status
    <2>2. (s \in Active) = FALSE
      BY DEF Active
    <2> QED BY <2>1, <2>2, Zenon
  <1>3. row' \in [Job -> Row] /\ \A k \in Job : row'[k] = row[k] \/ Better(k)
    <2>1. \E p \in Proc : Has(p, j)
      BY <1>1 DEF Base, RowsInv, RowIsGood
    <2> QED BY <1>2, <2>1, WritesBetter DEF Active
  <1> QED BY <1>3, UserStep DEF SetStatus, Base, TypeOK, Request, NoReq

LEMMA DelCalcKeeps == ASSUME Base, NEW j \in Job, DelCalc(j) PROVE Base'
  <1>1. Writes(j, "deleted", row[j].is_running, row[j].pid) /\ row[j].status # "none"
    BY DeleteWrites DEF DelCalc, Base
  <1>2. \E p \in Proc : Has(p, j)
    BY <1>1 DEF Base, RowsInv, RowIsGood
  <1>3. row' \in [Job -> Row] /\ \A k \in Job : row'[k] = row[k] \/ Better(k)
    BY <1>1, <1>2, WritesBetter DEF Active, Final
  <1> QED BY <1>3, AskCounts, UserStep DEF DelCalc, Base, TypeOK, ReqInv

LEMMA DeleteUncompletedKeeps == ASSUME Base, DeleteUncompleted PROVE Base'
  <1>1. ASSUME NEW j \in Job
        PROVE  row'[j] \in Row /\ (row'[j] = row[j] \/ Better(j))
    <2>1. row[j] \in Row
      BY DEF Base, TypeOK
    <2>2. CASE row[j].status \in {"none", "complete"}
      BY <2>1, <2>2 DEF DeleteUncompleted
    <2>3. CASE row[j].status \notin {"none", "complete"}
      <3>1. row'[j] = [row[j] EXCEPT !.status = "deleted"]
        BY <2>3 DEF DeleteUncompleted
      <3>2. "deleted" \in Status /\ \E p \in Proc : Has(p, j)
        BY <2>3 DEF Status, Base, RowsInv, RowIsGood
      <3>3. /\ row'[j] \in Row /\ row'[j].status = "deleted" /\ row'[j].pid = row[j].pid
            /\ row'[j].is_running = row[j].is_running
        BY <2>1, <3>1, <3>2, RowFields
      <3> QED BY <3>2, <3>3 DEF Better, Active, Final
    <2> QED BY <2>2, <2>3
  <1>2. row' \in [Job -> Row]
    BY <1>1 DEF DeleteUncompleted
  <1> QED BY <1>1, <1>2, AskCounts, UserStep DEF DeleteUncompleted, Base, TypeOK, ReqInv

LEMMA ResetIsRunningKeeps == ASSUME Base, ResetIsRunning PROVE Base'
  <1>1. ASSUME NEW j \in Job
        PROVE  row'[j] \in Row /\ (row'[j] = row[j] \/ Better(j))
    <2>1. row[j] \in Row
      BY DEF Base, TypeOK
    <2>2. CASE ~(row[j].is_running \/ row[j].status = "executing")
      BY <2>1, <2>2 DEF ResetIsRunning
    <2>3. CASE row[j].is_running \/ row[j].status = "executing"
      <3>1. PICK r : r = [row[j] EXCEPT !.status = "failed"]
        OBVIOUS
      <3>2. PICK s : s = [r EXCEPT !.is_running = FALSE]
        OBVIOUS
      <3>3. row'[j] = s
        BY <2>3, <3>1, <3>2, Zenon DEF ResetIsRunning
      <3>4. "failed" \in Status /\ \E p \in Proc : Has(p, j)
        BY <2>3 DEF Status, Base, RowsInv, RowIsGood
      <3>5. r \in Row /\ r.status = "failed" /\ r.pid = row[j].pid
        BY <2>1, <3>1, <3>4, RowFields
      <3>6. s \in Row /\ s.status = "failed" /\ s.pid = row[j].pid /\ ~s.is_running
        BY <3>2, <3>5, RowFields
      <3> QED BY <3>3, <3>4, <3>6 DEF Better, Active, Final
    <2> QED BY <2>2, <2>3
  <1>2. row' \in [Job -> Row]
    BY <1>1 DEF ResetIsRunning
  <1> QED BY <1>1, <1>2, AskCounts, UserStep DEF ResetIsRunning, Base, TypeOK, ReqInv

-----------------------------------------------------------------------------

LEMMA NextKeeps == ASSUME Base, [Next]_vars PROVE Base'
  <1>1. CASE UNCHANGED vars
    <2>1. UNCHANGED <<table, jobs, users, pos, pc, seen>> /\ UNCHANGED <<row, last, pc, jobs, pos, first_time, seen, title, sig, exists, req, requests>>
      BY <1>1 DEF vars, local, table, users
    <2>2. TypeOK' /\ PosInv' /\ \A q \in Proc : pc'[q] = "clean" => seen'[q] # {}
      BY <2>1 DEF Base, TypeOK, PosInv, SeenInv
    <2> QED BY <2>1, <2>2, QuietKeeps
  <1>2. ASSUME NEW p \in Proc, CreateJob(p) \/ Step(p) \/ CalcRaises(p) \/ Interrupt(p) \/ Die(p)
        PROVE  Base'
    BY <1>2, CreateJobKeeps, DescribeJobKeeps, ReadQueueKeeps, FindDeadKeeps, DeclareFailedKeeps,
       WaitKeeps, LeaveQueueKeeps, AbortJobKeeps, MarkExecutingKeeps, BeginCalcKeeps,
       CompleteCalcKeeps, EndCalcKeeps, FinishCalcKeeps, CalcRaisesKeeps, InterruptKeeps, DieKeeps
    DEF Step
  <1>3. CASE User
    BY <1>3, WebKillKeeps, CliScanKeeps, SetStatusKeeps, DeleteUncompletedKeeps,
       ResetIsRunningKeeps, WebAbortKeeps, CliAbortKeeps, DelCalcKeeps DEF User
  <1>4. CASE Terminated
    BY <1>1, <1>4 DEF Terminated
  <1> QED BY <1>1, <1>2, <1>3, <1>4 DEF Next

\* The jobs of the processes, their rows, what was read of them and the request
\* that is being made agree, whatever users ask for and whatever fails.
THEOREM BaseInvariant == Spec => []Base
  <1>1. Init => Base
    BY Initially
  <1>2. Base /\ [Next]_vars => Base'
    BY NextKeeps
  <1> QED BY <1>1, <1>2, PTL DEF Spec

\* The owner of a job is the process that has it in its list.
LEMMA OwnerIs ==
  ASSUME JobsInv, NEW p \in Proc, NEW j, Has(p, j)
  PROVE  Owner(j) = p
  BY DEF JobsInv, Has, Owner

\* The commands of the DbServer keep the rows of the job table consistent with
\* one another and with the processes that own the jobs: no order of commands
\* leaves a finished job running, or an active one without its pid.
THEOREM RowsConsistent == Spec => []RowsAreConsistent
  <1>1. ASSUME Base PROVE RowsAreConsistent
    <2>1. ASSUME NEW j \in Job, row[j].status # "none"
          PROVE  /\ j \in 1..last
                 /\ \E p \in Proc : \E i \in 1..Len(jobs[p]) : jobs[p][i] = j
                 /\ row[j].pid \in {NoProc, Owner(j)}
                 /\ row[j].status \in Active => row[j].pid # NoProc
                 /\ row[j].status \in {"complete", "failed", "aborted"} => ~row[j].is_running
      <3>1. PICK p \in Proc : Has(p, j)
        BY <1>1, <2>1 DEF Base, RowsInv, RowIsGood
      <3>2. Owner(j) = p
        BY <1>1, <3>1, OwnerIs DEF Base
      <3> QED BY <1>1, <2>1, <3>1, <3>2 DEF Base, JobsInv, RowsInv, RowIsGood, Has, Final
    <2> QED BY <1>1, <2>1 DEF Base, RowsAreConsistent
  <1> QED BY <1>1, BaseInvariant, PTL

-----------------------------------------------------------------------------
(* The steps of p leave the other processes where they are. *)

ProcStep(p) == CreateJob(p) \/ Step(p) \/ CalcRaises(p) \/ Interrupt(p) \/ Die(p)

Same(q) == /\ pc'[q] = pc[q] /\ pos'[q] = pos[q] /\ jobs'[q] = jobs[q]
           /\ first_time'[q] = first_time[q] /\ sig'[q] = sig[q]

LEMMA OthersStay ==
  ASSUME Base, NEW p \in Proc, NEW q \in Proc \ {p}, ProcStep(p)
  PROVE  Same(q)
  <1> USE DEF Base, TypeOK, Same
  <1>1. CASE CreateJob(p)
    BY <1>1 DEF CreateJob, Goto
  <1>2. CASE DescribeJob(p)
    BY <1>2 DEF DescribeJob, NextJob, Goto
  <1>3. CASE ReadQueue(p)
    BY <1>3 DEF ReadQueue, Goto
  <1>4. CASE FindDead(p)
    BY <1>4 DEF FindDead, Goto
  <1>5. CASE DeclareFailed(p)
    BY <1>5 DEF DeclareFailed, Goto
  <1>6. CASE Wait(p)
    BY <1>6 DEF Wait, Goto
  <1>7. CASE LeaveQueue(p)
    BY <1>7 DEF LeaveQueue, Goto, local
  <1>8. CASE AbortJob(p)
    BY <1>8 DEF AbortJob, Exit, Goto
  <1>9. CASE MarkExecuting(p)
    BY <1>9 DEF MarkExecuting, NextJob, Goto
  <1>10. CASE BeginCalc(p)
    BY <1>10 DEF BeginCalc, Goto
  <1>11. CASE CompleteCalc(p)
    BY <1>11 DEF CompleteCalc, Goto, local
  <1>12. CASE EndCalc(p)
    BY <1>12 DEF EndCalc, Exit, Goto
  <1>13. CASE FinishCalc(p)
    BY <1>13 DEF FinishCalc, Exit, Goto, local
  <1>14. CASE CalcRaises(p)
    BY <1>14 DEF CalcRaises, Goto, local
  <1>15. CASE Interrupt(p)
    BY <1>15, InterruptMoves DEF Interrupt, local
  <1>16. CASE Die(p)
    BY <1>16 DEF Die, Exit, Goto, local
  <1> QED BY <1>1, <1>2, <1>3, <1>4, <1>5, <1>6, <1>7, <1>8, <1>9, <1>10, <1>11, <1>12, <1>13,
             <1>14, <1>15, <1>16 DEF ProcStep, Step

\* Where p itself goes
LEMMA LabelsOf ==
  ASSUME Base, NEW p \in Proc, ProcStep(p)
  PROVE  /\ pc[p] # "ended"
         /\ pc[p] \in {"failing", "aborting"} => pc'[p] = "ended"
         /\ pc[p] = "abort_all" => pc'[p] \in {"abort_all", "ended"}
         /\ pc[p] = "close" /\ pos[p] = Len(jobs[p]) => pc'[p] \in {"failing", "aborting", "ended"}
         /\ sig'[p] = sig[p] \/ pc'[p] \in {"abort_all", "aborting", "ended"}
  <1> USE DEF Base, TypeOK
  <1>1. CASE CreateJob(p)
    BY <1>1 DEF CreateJob
  <1>2. CASE DescribeJob(p)
    BY <1>2 DEF DescribeJob
  <1>3. CASE ReadQueue(p)
    BY <1>3 DEF ReadQueue
  <1>4. CASE FindDead(p)
    BY <1>4 DEF FindDead
  <1>5. CASE DeclareFailed(p)
    BY <1>5 DEF DeclareFailed
  <1>6. CASE Wait(p)
    BY <1>6 DEF Wait
  <1>7. CASE LeaveQueue(p)
    BY <1>7 DEF LeaveQueue
  <1>8. CASE AbortJob(p)
    BY <1>8 DEF AbortJob, Exit, Goto
  <1>9. CASE MarkExecuting(p)
    BY <1>9 DEF MarkExecuting
  <1>10. CASE BeginCalc(p)
    BY <1>10 DEF BeginCalc
  <1>11. CASE CompleteCalc(p)
    BY <1>11 DEF CompleteCalc
  <1>12. CASE EndCalc(p)
    BY <1>12 DEF EndCalc, Exit, Goto
  <1>13. CASE FinishCalc(p)
    BY <1>13 DEF FinishCalc, Exit, Goto
  <1>14. CASE CalcRaises(p)
    BY <1>14 DEF CalcRaises, Goto
  <1>15. CASE Interrupt(p)
    <2>1. pc[p] \in {"failing", "aborting", "abort_all"} => pc'[p] = "ended"
      BY <1>15 DEF Interrupt, Exit, Goto
    <2>2. pc[p] = "close" => pc'[p] \in {"aborting", "ended"}
      BY <1>15 DEF Interrupt, Exit, Goto
    <2> QED BY <1>15, <2>1, <2>2, InterruptMoves
  <1>16. CASE Die(p)
    BY <1>16 DEF Die, Exit, Goto
  <1> QED BY <1>1, <1>2, <1>3, <1>4, <1>5, <1>6, <1>7, <1>8, <1>9, <1>10, <1>11, <1>12, <1>13,
             <1>14, <1>15, <1>16 DEF ProcStep, Step

\* Users only send signals.
LEMMA UsersStay ==
  ASSUME Base, User
  PROVE  /\ UNCHANGED <<last, pc, local, exists>>
         /\ \A q \in Proc : sig[q] => sig'[q]
  <1>1. UNCHANGED <<last, pc, local, exists>>
    BY DEF User, WebKill, CliScan, SetStatus, DeleteUncompleted, ResetIsRunning, WebAbort,
           CliAbort, DelCalc, table
  <1>2. CASE WebKill
    <2>1. PICK p \in Proc : p = row[req.job].pid /\ Kill(p)
      <3>1. row[req.job].pid # NoProc /\ req.job \in Job
        BY <1>2, RequestType DEF WebKill, Base, ReqInv
      <3> QED BY <1>2, <3>1 DEF WebKill, Base, TypeOK, Row
    <2> QED BY <1>1, <1>2, <2>1, KillMoves DEF WebKill, Base
  <1>3. CASE CliScan
    BY <1>1, <1>3, KillMoves DEF CliScan, Base
  <1>4. CASE sig' = sig
    BY <1>1, <1>4
  <1> QED BY <1>2, <1>3, <1>4 DEF User, SetStatus, DeleteUncompleted, ResetIsRunning, WebAbort,
           CliAbort, DelCalc

LEMMA OverStays == ASSUME Base, Next, NEW p \in Proc, Over(p) PROVE Over(p)'
  <1>1. CASE ProcStep(p)
    BY <1>1, LabelsOf DEF Over
  <1>2. ASSUME NEW q \in Proc \ {p}, ProcStep(q) PROVE Over(p)'
    BY <1>2, OthersStay DEF Over, Same
  <1>3. CASE User
    BY <1>3, UsersStay DEF Over, local
  <1>4. CASE Terminated
    BY <1>4 DEF Terminated, vars, local, Over
  <1> QED BY <1>1, <1>2, <1>3, <1>4 DEF Next, ProcStep

-----------------------------------------------------------------------------
(* What is declared failed is of processes that ended. *)

LEMMA EndedStays ==
  ASSUME Base, Next, NEW q \in Proc, pc[q] = "ended"
  PROVE  pc'[q] = "ended"
  <1>1. ASSUME NEW p \in Proc, ProcStep(p) PROVE pc'[q] = "ended"
    BY <1>1, LabelsOf, OthersStay DEF Same
  <1> QED BY <1>1, UsersStay DEF Next, ProcStep, Terminated, vars

LEMMA ExistsMoves ==
  ASSUME Base, NEW p \in Proc, ProcStep(p), ~CreateJob(p)
  PROVE  /\ jobs' = jobs
         /\ pc'[p] = "ended" \/ exists'[p] = exists[p]
         /\ \A q \in Proc \ {p} : exists'[q] = exists[q]
  <1> USE DEF Base
  <1>1. CASE Exit(p)
    <2>1. jobs' = jobs
      BY <1>1 DEF ProcStep, Step, DescribeJob, ReadQueue, FindDead, DeclareFailed, Wait, LeaveQueue,
         AbortJob, MarkExecuting, BeginCalc, CompleteCalc, EndCalc, FinishCalc, CalcRaises,
         Interrupt, Die, local
    <2> QED BY <1>1, <2>1, ExitMoves
  <1>2. CASE ~Exit(p)
    BY <1>2 DEF ProcStep, Step, DescribeJob, ReadQueue, FindDead, DeclareFailed, Wait, LeaveQueue,
       AbortJob, MarkExecuting, BeginCalc, CompleteCalc, EndCalc, FinishCalc, CalcRaises,
       Interrupt, Die, local
  <1> QED BY <1>1, <1>2

LEMMA SeenMoves ==
  ASSUME Base, NEW p \in Proc, ProcStep(p), NEW r \in Proc, pc'[r] = "clean"
  PROVE  \/ r = p /\ FindDead(p)
         \/ pc[r] = "clean" /\ seen'[r] \subseteq seen[r]
  <1> USE DEF Base
  <1>1. ASSUME seen' = seen, pc'[p] # "clean"
        PROVE  pc[r] = "clean" /\ seen'[r] \subseteq seen[r]
    BY <1>1, OthersStay DEF Same
  <1>2. CASE ReadQueue(p)
    BY <1>2, OthersStay DEF ReadQueue, Goto, TypeOK, Same
  <1>3. CASE DeclareFailed(p)
    BY <1>3, OthersStay DEF DeclareFailed, Goto, TypeOK, Same
  <1>4. CASE FindDead(p)
    BY <1>4, OthersStay DEF FindDead, Goto, TypeOK, Same
  <1>5. CASE CreateJob(p)
    BY <1>1, <1>5 DEF CreateJob, Goto, TypeOK
  <1>6. CASE DescribeJob(p)
    BY <1>1, <1>6 DEF DescribeJob, NextJob, Goto, TypeOK
  <1>7. CASE Wait(p) \/ LeaveQueue(p) \/ BeginCalc(p) \/ CompleteCalc(p) \/ CalcRaises(p)
    BY <1>1, <1>7 DEF Wait, LeaveQueue, BeginCalc, CompleteCalc, CalcRaises, Goto, TypeOK, local
  <1>8. CASE AbortJob(p) \/ EndCalc(p) \/ FinishCalc(p) \/ Die(p)
    BY <1>1, <1>8 DEF AbortJob, EndCalc, FinishCalc, Die, Exit, Goto, TypeOK, local
  <1>9. CASE MarkExecuting(p)
    BY <1>1, <1>9 DEF MarkExecuting, NextJob, Goto, TypeOK
  <1>10. CASE Interrupt(p)
    BY <1>1, <1>10, InterruptMoves DEF Interrupt, local
  <1> QED BY <1>2, <1>3, <1>4, <1>5, <1>6, <1>7, <1>8, <1>9, <1>10 DEF ProcStep, Step

LEMMA CleanKeeps == ASSUME Base, CleanInv, [Next]_vars PROVE CleanInv'
  <1>1. ASSUME NEW p \in Proc, ProcStep(p) PROVE CleanInv'
    <2>1. ExistsInv'
      <3>1. CASE CreateJob(p)
        <4>1. ASSUME NEW q \in Proc PROVE exists'[q] <=> q = p \/ (exists[q] /\ ~(p \in FromWeb /\ pc[q] = "ended"))
          BY <3>1, Zenon DEF CreateJob
        <4>2. ASSUME NEW q \in Proc \ {p} PROVE pc'[q] = pc[q] /\ jobs'[q] = jobs[q]
          BY <1>1, OthersStay DEF Same
        <4> QED BY <4>1, <4>2 DEF CleanInv, ExistsInv
      <3>2. CASE ~CreateJob(p)
        BY <1>1, <3>2, ExistsMoves, OthersStay, LabelsOf DEF CleanInv, ExistsInv, Same
      <3> QED BY <3>1, <3>2
    <2>2. ASSUME NEW r \in Proc, NEW q \in Proc, NEW j \in seen'[r], pc'[r] = "clean", Has(q, j)'
          PROVE  pc'[q] = "ended"
      <3>1. CASE FindDead(p) /\ r = p
        <4>1. j \in seen[p] /\ j \in Job /\ ~exists[row[j].pid] /\ pc[p] = "polled" /\ jobs' = jobs
          BY <3>1 DEF FindDead, Dead, Base, TypeOK
        <4>2. Has(q, j) /\ row[j].pid # NoProc
          BY <2>2, <4>1 DEF Has, Base, SeenInv
        <4>3. row[j].pid = q
          BY <4>1, <4>2 DEF Base, RowsInv, RowIsGood
        <4>4. jobs[q] # << >>
          BY <4>2 DEF Has
        <4>5. pc[q] = "ended"
          BY <4>1, <4>3, <4>4 DEF CleanInv, ExistsInv
        <4> QED BY <1>1, <4>5, EndedStays DEF Next, ProcStep
      <3>2. CASE ~(FindDead(p) /\ r = p)
        <4>1. pc[r] = "clean" /\ j \in seen[r] /\ j \in Job
          BY <1>1, <2>2, <3>2, SeenMoves DEF Base, TypeOK
        <4>2. Has(q, j)
          <5>1. CASE CreateJob(p)
            <6>1. row[last + 1].status = "none" /\ last + 1 \in Job
              <7>1. last + 1 \in Job /\ last + 1 \notin 1..last
                BY <5>1, ConstantsAssumption DEF CreateJob, Base, TypeOK, Job
              <7> QED BY <7>1 DEF Base, JobsInv, RowsInv, RowIsGood, Has
            <6>2. j # last + 1
              BY <4>1, <6>1 DEF Base, SeenInv
            <6>3. CASE q = p
              <7>1. jobs[p] \in Seq(Job) /\ jobs'[p] = Append(jobs[p], last + 1)
                BY <5>1 DEF CreateJob, Base, TypeOK
              <7> QED BY <2>2, <6>1, <6>2, <6>3, <7>1 DEF Has
            <6>4. CASE q # p
              BY <1>1, <2>2, <6>4, OthersStay DEF Has, Same
            <6> QED BY <6>3, <6>4
          <5>2. CASE ~CreateJob(p)
            BY <1>1, <2>2, <5>2, ExistsMoves DEF Has
          <5> QED BY <5>1, <5>2
        <4> QED BY <1>1, <4>1, <4>2, EndedStays DEF CleanInv, DeadInv, Next, ProcStep
      <3> QED BY <3>1, <3>2
    <2> QED BY <2>1, <2>2 DEF CleanInv, DeadInv
  <1>2. CASE UNCHANGED <<pc, local, exists>>
    BY <1>2 DEF CleanInv, ExistsInv, DeadInv, Has, local
  <1> QED BY <1>1, <1>2, UsersStay DEF Next, ProcStep, Terminated, vars

LEMMA InitiallyClean == Init => CleanInv
  BY DEF Init, CleanInv, ExistsInv, DeadInv

\* A process that did not end exists for psutil, and what poll_queue is about to
\* declare failed belongs to processes that ended.
THEOREM CleanInvariant == Spec => [](Base /\ CleanInv)
  <1>1. Init => Base /\ CleanInv
    BY Initially, InitiallyClean
  <1>2. Base /\ CleanInv /\ [Next]_vars => (Base /\ CleanInv)'
    BY NextKeeps, CleanKeeps
  <1> QED BY <1>1, <1>2, PTL DEF Spec

-----------------------------------------------------------------------------
(* What the steps of p write *)

LEMMA RowMoves ==
  ASSUME Base, NEW p \in Proc, ProcStep(p), row' # row, ~CreateJob(p)
  PROVE  \/ pc[p] = "clean" /\ \E j \in seen[p] : Writes(j, "failed", FALSE, row[j].pid)
         \/ pc[p] = "polled" /\ Writes(Me(p), "submitted", row[Me(p)].is_running, p)
         \/ /\ pc[p] \in {"describe", "abort_all", "mark", "run", "failing", "aborting"}
            /\ \E status \in Status, is_running \in BOOLEAN, pid \in Proc \cup {NoProc} :
                 /\ Writes(Current(p), status, is_running, pid)
                 /\ pc[p] = "describe" => status = row[Current(p)].status
                                          /\ is_running = row[Current(p)].is_running
                 /\ pc[p] = "mark" => status = "executing" /\ is_running = row[Current(p)].is_running
                 /\ pc[p] # "describe" => status # "created"
                 /\ pc[p] \notin {"describe", "failing"} => status # "failed"
  <1> USE DEF Base
  <1>1. \A j \in Job : row[j].pid \in Proc \cup {NoProc} /\ row[j].status \in Status
                       /\ row[j].is_running \in BOOLEAN
    BY DEF TypeOK, Row
  <1>2. pc[p] \notin {"create", "ended"} => Current(p) \in Job /\ Me(p) \in Job
    BY CurrentJob
  <1>3. CASE DescribeJob(p)
    <2>1. jobs[p][1] \in Job /\ pc[p] = "describe"
      <3>1. Len(jobs[p]) \in Nat \ {0} /\ jobs[p] \in Seq(Job)
        BY <1>3, CurrentJob DEF DescribeJob, TypeOK
      <3> QED BY <1>3, <3>1 DEF DescribeJob
    <2>2. Writes(Current(p), row[Current(p)].status, row[Current(p)].is_running, row[Current(p)].pid)
      BY <1>2, <1>3, <2>1, DescribeWrites DEF DescribeJob
    <2> QED BY <1>1, <1>2, <2>1, <2>2
  <1>4. CASE DeclareFailed(p)
    BY <1>4, LeastDead, FinishWrites DEF DeclareFailed, Status
  <1>5. CASE Wait(p)
    <2>1. pc[p] = "polled" /\ claim(Me(p), "submitted", p)
      BY <1>5 DEF Wait
    <2> QED BY <1>2, <2>1, ClaimWrites DEF Status
  <1>6. CASE AbortJob(p)
    <2>1. pc[p] = "abort_all" /\ Writes(Current(p), "aborted", FALSE, row[Current(p)].pid)
      BY <1>2, <1>6, FinishWrites DEF AbortJob, Status
    <2> QED BY <1>1, <1>2, <2>1 DEF Status
  <1>7. CASE MarkExecuting(p)
    <2>1. pc[p] = "mark" /\ Writes(Current(p), "executing", row[Current(p)].is_running, p)
      BY <1>2, <1>7, ClaimWrites DEF MarkExecuting, Status
    <2> QED BY <1>1, <1>2, <2>1 DEF Status
  <1>8. CASE CompleteCalc(p)
    <2>1. pc[p] = "run" /\ Writes(Current(p), "complete", FALSE, row[Current(p)].pid)
      BY <1>2, <1>8, FinishWrites DEF CompleteCalc, Status
    <2> QED BY <1>1, <1>2, <2>1 DEF Status
  <1>9. CASE FinishCalc(p)
    <2>1. CASE pc[p] = "failing"
      <3>1. Writes(Current(p), "failed", FALSE, row[Current(p)].pid)
        BY <1>2, <1>9, <2>1, FinishWrites DEF FinishCalc, Status
      <3> QED BY <1>1, <1>2, <2>1, <3>1 DEF Status
    <2>2. CASE pc[p] = "aborting"
      <3>1. Writes(Current(p), "aborted", FALSE, row[Current(p)].pid)
        BY <1>2, <1>9, <2>2, FinishWrites DEF FinishCalc, Status
      <3> QED BY <1>1, <1>2, <2>2, <3>1 DEF Status
    <2> QED BY <1>9, <2>1, <2>2 DEF FinishCalc
  <1>10. CASE ReadQueue(p) \/ FindDead(p) \/ LeaveQueue(p) \/ BeginCalc(p) \/ EndCalc(p)
              \/ CalcRaises(p) \/ Interrupt(p) \/ Die(p)
    BY <1>10 DEF ReadQueue, FindDead, LeaveQueue, BeginCalc, EndCalc, CalcRaises, Interrupt, Die, table
  <1> QED BY <1>3, <1>4, <1>5, <1>6, <1>7, <1>8, <1>9, <1>10 DEF ProcStep, Step

LEMMA CreateWrites ==
  ASSUME Base, NEW p \in Proc, CreateJob(p)
  PROVE  /\ last + 1 \in Job /\ last' = last + 1
         /\ \A j \in Job : row[j].status # "none" => j # last + 1 /\ row'[j] = row[j]
         /\ row'[last + 1].status = "created" /\ row'[last + 1].is_running
         /\ Len(jobs[p]) \in Nat
         /\ Len(jobs'[p]) = Len(jobs[p]) + 1
         /\ jobs'[p][Len(jobs[p]) + 1] = last + 1
         /\ \A i \in 1..Len(jobs[p]) : jobs'[p][i] = jobs[p][i]
  <1>1. last + 1 \in Job /\ last + 1 \notin 1..last
    BY ConstantsAssumption DEF CreateJob, Base, TypeOK, Job
  <1>2. row[last + 1].status = "none"
    BY <1>1 DEF Base, JobsInv, RowsInv, RowIsGood, Has
  <1>3. /\ row \in [Job -> Row] /\ last' = last + 1
        /\ row' = [row EXCEPT ![last + 1] = [status |-> "created", is_running |-> TRUE,
                                             pid |-> NoProc, parent |-> 0]]
    BY DEF CreateJob, Base, TypeOK
  <1>4. /\ \A j \in Job : row[j].status # "none" => j # last + 1 /\ row'[j] = row[j]
        /\ row'[last + 1].status = "created" /\ row'[last + 1].is_running
    BY <1>1, <1>2, <1>3
  <1>5. jobs[p] \in Seq(Job) /\ jobs'[p] = Append(jobs[p], last + 1)
    BY DEF CreateJob, Base, TypeOK
  <1> QED BY <1>1, <1>3, <1>4, <1>5

\* Only the processes that declare jobs failed write into rows of others.
LEMMA OthersRows ==
  ASSUME Base, NEW p \in Proc, ProcStep(p), pc[p] # "clean",
         NEW j \in Job, row[j].status # "none", ~Has(p, j)
  PROVE  row'[j] = row[j]
  <1>1. CASE CreateJob(p)
    BY <1>1, CreateWrites
  <1>2. CASE ~CreateJob(p) /\ row' # row
    <2>1. Has(p, Current(p)) /\ Has(p, Me(p)) /\ Current(p) \in Job /\ Me(p) \in Job
      <3>1. pc[p] # "create"
        BY <1>2, RowMoves
      <3> QED BY <3>1, LabelsOf, CurrentJob DEF Base
    <2> QED BY <1>2, <2>1, RowMoves DEF Writes
  <1> QED BY <1>1, <1>2

-----------------------------------------------------------------------------
(* Who writes failed *)

FailsOnly == Requests \cap {"cli_abort", "restart"} = {}

NotFailing == req.kind \notin {"scan", "failed"}

LEMMA NotFailingKeeps ==
  ASSUME FailsOnly, Base, NotFailing, [Next]_vars
  PROVE  NotFailing'
  <1>1. CASE WebKill
    <2>1. PICK p \in Proc : p = row[req.job].pid /\ Kill(p)
      <3>1. row[req.job].pid # NoProc /\ req.job \in Job
        BY <1>1, RequestType DEF WebKill, Base, ReqInv
      <3> QED BY <1>1, <3>1 DEF WebKill, Base, TypeOK, Row
    <2> QED BY <1>1, <2>1, KillMoves DEF WebKill, Base, NotFailing, NoReq
  <1>2. CASE \E j \in Job : WebAbort(j)
    BY <1>2 DEF WebAbort, NotFailing
  <1>3. CASE SetStatus
    BY <1>3 DEF SetStatus, NotFailing, NoReq
  <1>4. CASE req' = req
    BY <1>4 DEF NotFailing
  <1>5. CASE CliScan \/ \E j \in Job : CliAbort(j)
    BY <1>5 DEF CliScan, CliAbort, Ask, NotFailing, FailsOnly
  <1>6. ASSUME NEW p \in Proc, ProcStep(p) PROVE req' = req
    BY <1>6 DEF ProcStep, Step, CreateJob, DescribeJob, ReadQueue, FindDead, DeclareFailed, Wait,
       LeaveQueue, AbortJob, MarkExecuting, BeginCalc, CompleteCalc, EndCalc, FinishCalc,
       CalcRaises, Interrupt, Die, users
  <1>7. CASE DeleteUncompleted \/ ResetIsRunning \/ \E j \in Job : DelCalc(j)
    BY <1>4, <1>7 DEF DeleteUncompleted, ResetIsRunning, DelCalc
  <1>8. CASE UNCHANGED vars
    BY <1>4, <1>8 DEF vars, users
  <1> QED BY <1>1, <1>2, <1>3, <1>4, <1>5, <1>6, <1>7, <1>8 DEF Next, User, ProcStep, Terminated

LEMMA WhoFails ==
  ASSUME FailsOnly, Base, CleanInv, NotFailing, Next, NEW j \in Job,
         row'[j].status = "failed", row[j].status # "failed"
  PROVE  pc[Owner(j)] \in {"failing", "ended"}
  <1>1. ASSUME NEW p \in Proc, ProcStep(p) PROVE pc[Owner(j)] \in {"failing", "ended"}
    <2>1. ~CreateJob(p)
      <3> SUFFICES ASSUME CreateJob(p) PROVE FALSE
        OBVIOUS
      <3>1. row' = [row EXCEPT ![last + 1] = [status |-> "created", is_running |-> TRUE,
                                              pid |-> NoProc, parent |-> 0]]
        BY DEF CreateJob
      <3> QED BY <3>1 DEF Base, TypeOK
    <2>2. CASE pc[p] = "clean"
      <3>1. j \in seen[p]
        BY <1>1, <2>1, <2>2, RowMoves DEF Writes
      <3>2. PICK q \in Proc : Has(q, j)
        BY <3>1 DEF Base, SeenInv, RowsInv, RowIsGood
      <3>3. Owner(j) = q /\ pc[q] = "ended"
        BY <2>2, <3>1, <3>2, OwnerIs DEF CleanInv, DeadInv, Base
      <3> QED BY <3>3
    <2>3. CASE pc[p] # "clean"
      <3>1. pc[p] \notin {"create", "ended"}
        BY <1>1, <2>1, <2>3, RowMoves, LabelsOf
      <3>2. Current(p) \in Job /\ Me(p) \in Job /\ Has(p, Current(p))
        BY <3>1, CurrentJob DEF Base
      <3>3. pc[p] = "failing" /\ j = Current(p)
        BY <1>1, <2>1, <2>3, <3>2, RowMoves DEF Writes
      <3>4. Owner(j) = p
        BY <3>2, <3>3, OwnerIs DEF Base
      <3> QED BY <3>3, <3>4
    <2> QED BY <2>2, <2>3
  <1>2. CASE SetStatus
    <2>1. req.kind = "aborted" /\ set_status(req.job, "aborted") /\ req.job \in Job
      BY <1>2, RequestType DEF SetStatus, NotFailing, Base
    <2>2. PICK b : Writes(req.job, "aborted", b, row[req.job].pid)
      BY <2>1, SetStatusWrites DEF Base, Status
    <2> QED BY <2>1, <2>2 DEF Writes
  <1>3. ASSUME NEW k \in Job, DelCalc(k) PROVE FALSE
    <2>1. Writes(k, "deleted", row[k].is_running, row[k].pid)
      BY <1>3, DeleteWrites DEF DelCalc, Base
    <2> QED BY <2>1 DEF Writes
  <1>4. CASE DeleteUncompleted
    <2>1. row[j] \in Row
      BY DEF Base, TypeOK
    <2>2. row'[j] = row[j] \/ row'[j] = [row[j] EXCEPT !.status = "deleted"]
      BY <1>4 DEF DeleteUncompleted
    <2>3. "deleted" \in Status
      BY DEF Status
    <2>4. [row[j] EXCEPT !.status = "deleted"].status = "deleted"
      BY <2>1, <2>3, RowFields
    <2> QED BY <2>2, <2>4
  <1>5. CASE ResetIsRunning
    BY <1>5 DEF ResetIsRunning, Ask, FailsOnly
  <1>6. CASE row' = row
    BY <1>6
  <1> QED BY <1>1, <1>2, <1>3, <1>4, <1>5, <1>6
          DEF Next, ProcStep, User, Terminated, vars, table, WebKill, CliScan, WebAbort, CliAbort

\* However old the list of jobs that a process looks at is, poll_queue declares
\* failed no job of a process that goes on, unless users may declare it (oq
\* abort) or the DbServer is restarted.
THEOREM FailsIfOver == Requests \cap {"cli_abort", "restart"} = {} => (Spec => FailedOnlyIfOver)
  <1> SUFFICES ASSUME FailsOnly PROVE Spec => FailedOnlyIfOver
    BY DEF FailsOnly
  <1>1. Init => Base /\ CleanInv /\ NotFailing
    BY Initially, InitiallyClean DEF Init, NotFailing, NoReq
  <1>2. Base /\ CleanInv /\ NotFailing /\ [Next]_vars => (Base /\ CleanInv /\ NotFailing)'
    BY NextKeeps, CleanKeeps, NotFailingKeeps
  <1>3. Base /\ CleanInv /\ NotFailing /\ [Next]_vars =>
          [\A j \in Job : row'[j].status = "failed" /\ row[j].status # "failed" =>
             pc[Owner(j)] \in {"failing", "ended"}]_vars
    BY WhoFails
  <1> QED BY <1>1, <1>2, <1>3, PTL DEF Spec, FailedOnlyIfOver

-----------------------------------------------------------------------------
(* The jobs still to be calculated stay alive. *)

\* The range of the jobs still to be calculated
LEMMA LeftRange ==
  ASSUME TypeOK, NEW p \in Proc
  PROVE  /\ FirstLeft(p) \in Nat \ {0} /\ Len(jobs[p]) \in Nat
         /\ \A i \in FirstLeft(p)..Len(jobs[p]) : i \in 1..Len(jobs[p]) /\ jobs[p][i] \in Job
  <1>1. pos[p] \in Nat \ {0} /\ jobs[p] \in Seq(Job)
    BY DEF TypeOK
  <1>2. FirstLeft(p) \in Nat \ {0}
    BY <1>1 DEF FirstLeft
  <1> QED BY <1>1, <1>2

\* Nothing that LiveOf looks at changed.
LEMMA LiveFrame ==
  ASSUME TypeOK, NEW q \in Proc, Same(q), LiveOf(q),
         \A i \in 1..Len(jobs[q]) : row'[jobs[q][i]] = row[jobs[q][i]]
  PROVE  LiveOf(q)'
  <1>1. FirstLeft(q)' = FirstLeft(q) /\ Len(jobs'[q]) = Len(jobs[q])
    BY DEF FirstLeft, Same
  <1>2. \A i \in FirstLeft(q)..Len(jobs[q]) : /\ jobs'[q][i] = jobs[q][i]
                                              /\ row'[jobs'[q][i]] = row[jobs[q][i]]
                                              /\ Claimed(q, i)' <=> Claimed(q, i)
    BY LeftRange DEF Claimed, Same
  <1> QED BY <1>1, <1>2 DEF LiveOf, Alive

LEMMA OthersLive ==
  ASSUME Base, CleanInv, LiveInv, NEW p \in Proc, NEW q \in Proc \ {p}, ProcStep(p)
  PROVE  Over(q)' \/ LiveOf(q)'
  <1>1. CASE Over(q)
    BY <1>1, OverStays DEF Next, ProcStep
  <1>2. CASE ~Over(q)
    <2>1. Same(q) /\ LiveOf(q)
      BY <1>2, OthersStay DEF LiveInv
    <2>2. ASSUME NEW i \in 1..Len(jobs[q]) PROVE row'[jobs[q][i]] = row[jobs[q][i]]
      <3>1. jobs[q][i] \in Job /\ Has(q, jobs[q][i])
        BY DEF Base, TypeOK, Has
      <3>2. row[jobs[q][i]].status # "none"
        BY <3>1 DEF Base, RowsInv, RowIsGood
      <3>3. ~Has(p, jobs[q][i])
        BY DEF Base, JobsInv, Has
      <3>4. CASE pc[p] = "clean"
        <4>1. pc[q] # "ended"
          BY <1>2 DEF Over
        <4>2. jobs[q][i] \notin seen[p]
          BY <3>1, <3>4, <4>1 DEF CleanInv, DeadInv
        <4>3. ~CreateJob(p)
          BY <3>4 DEF CreateJob
        <4> QED BY <3>1, <3>4, <4>2, <4>3, RowMoves DEF Writes
      <3>5. CASE pc[p] # "clean"
        BY <3>1, <3>2, <3>3, <3>5, OthersRows
      <3> QED BY <3>4, <3>5
    <2> QED BY <2>1, <2>2, LiveFrame DEF Base
  <1> QED BY <1>1, <1>2

\* The rows of the jobs of p that are left did not become worse.
LEMMA LiveStep ==
  ASSUME TypeOK, NEW p \in Proc, LiveOf(p), jobs' = jobs,
         FirstLeft(p)' \in Nat, FirstLeft(p)' >= FirstLeft(p),
         \A i \in FirstLeft(p)'..Len(jobs[p]) :
           /\ row'[jobs[p][i]].is_running = row[jobs[p][i]].is_running
           /\ row'[jobs[p][i]].status \in Active \cup {row[jobs[p][i]].status}
           /\ Claimed(p, i)' => Claimed(p, i) \/ row'[jobs[p][i]].status \in Active
  PROVE  LiveOf(p)'
  <1>1. ASSUME NEW i \in FirstLeft(p)'..Len(jobs[p])
        PROVE  Alive(jobs[p][i])' /\ (Claimed(p, i)' => row'[jobs[p][i]].status \in Active)
    <2>1. i \in FirstLeft(p)..Len(jobs[p])
      BY LeftRange
    <2>2. Alive(jobs[p][i]) /\ (Claimed(p, i) => row[jobs[p][i]].status \in Active)
      BY <2>1 DEF LiveOf
    <2>3. \/ row'[jobs[p][i]].status \in Active
          \/ row'[jobs[p][i]].status = row[jobs[p][i]].status /\ ~(Claimed(p, i)' /\ ~Claimed(p, i))
      OBVIOUS
    <2> QED BY <2>2, <2>3 DEF Alive
  <1> QED BY <1>1 DEF LiveOf

LEMMA CreateLives ==
  ASSUME Base, NEW p \in Proc, LiveOf(p), CreateJob(p)
  PROVE  LiveOf(p)'
  <1>1. /\ pc[p] = "create" /\ pc'[p] \in {"create", "describe"}
    BY DEF CreateJob, Goto, Base, TypeOK
  <1>2. FirstLeft(p) = 1 /\ FirstLeft(p)' = 1 /\ \A i : ~Claimed(p, i)'
    BY <1>1 DEF FirstLeft, Claimed
  <1>3. ASSUME NEW i \in 1..Len(jobs'[p]) PROVE Alive(jobs[p][i])'
    <2>1. CASE i \in 1..Len(jobs[p])
      <3>1. jobs'[p][i] = jobs[p][i] /\ Alive(jobs[p][i]) /\ jobs[p][i] \in Job
        BY <1>2, <2>1, CreateWrites, LeftRange DEF LiveOf, Base
      <3>2. row[jobs[p][i]].status # "none"
        BY <3>1 DEF Alive, Active
      <3> QED BY <3>1, <3>2, CreateWrites DEF Alive
    <2>2. CASE i = Len(jobs[p]) + 1
      BY <2>2, CreateWrites DEF Alive
    <2> QED BY <2>1, <2>2, CreateWrites
  <1> QED BY <1>2, <1>3 DEF LiveOf

LEMMA DescribeLives ==
  ASSUME Base, LoopInv, NEW p \in Proc, LiveOf(p), DescribeJob(p)
  PROVE  LiveOf(p)'
  <1>1. pc[p] = "describe" /\ first_time[p] /\ first_time' = first_time /\ jobs' = jobs
    BY DEF DescribeJob, LoopInv
  <1>2. PICK label \in {"poll", "mark"} : NextJob(p, label)
    BY DEF DescribeJob
  <1>3. \/ pc'[p] = "describe"
        \/ pc'[p] \in {"poll", "mark"} /\ pos'[p] = 1
    <2>1. pos[p] \in Nat /\ Len(jobs[p]) \in Nat
      BY LeftRange DEF Base, TypeOK
    <2> QED BY <1>1, <1>2, <2>1, NextJobMoves DEF Base, Label
  <1>4. FirstLeft(p) = 1 /\ FirstLeft(p)' = 1 /\ \A i \in 1..Len(jobs[p]) : ~Claimed(p, i)'
    BY <1>1, <1>3 DEF FirstLeft, Claimed
  <1>5. \A j \in Job : row'[j].status = row[j].status /\ row'[j].is_running = row[j].is_running
    <2>1. Current(p) \in Job /\ jobs[p][1] \in Job
      <3>1. Len(jobs[p]) \in Nat \ {0} /\ jobs[p] \in Seq(Job)
        BY <1>1, CurrentJob DEF Base, TypeOK
      <3> QED BY <1>1, <3>1, CurrentJob DEF Base
    <2>2. Writes(Current(p), row[Current(p)].status, row[Current(p)].is_running, row[Current(p)].pid)
      BY <2>1, DescribeWrites DEF DescribeJob, Base
    <2> QED BY <2>2 DEF Writes
  <1> QED BY <1>1, <1>4, <1>5, LeftRange, LiveStep DEF Base

LEMMA WaitLives ==
  ASSUME Base, NEW p \in Proc, LiveOf(p), Wait(p)
  PROVE  LiveOf(p)'
  <1>1. pc[p] = "polled" /\ pc'[p] = "poll" /\ ~first_time'[p] /\ jobs' = jobs
    BY DEF Wait, Goto, Base, TypeOK
  <1>2. Me(p) \in Job /\ Me(p) = jobs[p][Len(jobs[p])]
    BY <1>1, CurrentJob DEF Base, Me
  <1>3. FirstLeft(p) = 1 /\ FirstLeft(p)' = 1
        /\ \A i \in 1..Len(jobs[p]) : Claimed(p, i)' => i = Len(jobs[p])
    BY <1>1 DEF FirstLeft, Claimed
  <1>4. CASE first_time[p]
    <2>1. Writes(Me(p), "submitted", row[Me(p)].is_running, p)
      BY <1>2, <1>4, ClaimWrites DEF Wait, Base, Status
    <2>2. /\ row'[Me(p)].status \in Active /\ row'[Me(p)].is_running = row[Me(p)].is_running
          /\ \A j \in Job : j # Me(p) => row'[j] = row[j]
      BY <2>1 DEF Writes, Active
    <2> QED BY <1>1, <1>2, <1>3, <2>2, LeftRange, LiveStep DEF Base
  <1>5. CASE ~first_time[p]
    <2>1. row' = row /\ \A i \in 1..Len(jobs[p]) : Claimed(p, i)' => Claimed(p, i)
      BY <1>1, <1>3, <1>5 DEF Wait, Claimed
    <2> QED BY <1>1, <1>3, <2>1, LeftRange, LiveStep DEF Base
  <1> QED BY <1>4, <1>5

LEMMA MarkLives ==
  ASSUME Base, NEW p \in Proc, LiveOf(p), MarkExecuting(p)
  PROVE  LiveOf(p)'
  <1>1. /\ pc[p] = "mark" /\ jobs' = jobs /\ pos[p] \in 1..Len(jobs[p]) /\ Len(jobs[p]) \in Nat
        /\ Current(p) \in Job /\ Current(p) = jobs[p][pos[p]]
        /\ NextJob(p, "begin") /\ first_time' = first_time
    BY CurrentJob DEF MarkExecuting, Base, Current
  <1>2. /\ FirstLeft(p) = 1 /\ FirstLeft(p)' = 1
        /\ \A i \in 1..Len(jobs[p]) : Claimed(p, i)' => Claimed(p, i) \/ i = pos[p]
    <2>1. \/ pos[p] < Len(jobs[p]) /\ pc'[p] = "mark" /\ pos'[p] = pos[p] + 1
          \/ pos[p] = Len(jobs[p]) /\ pc'[p] = "begin" /\ pos'[p] = 1
      BY <1>1, NextJobMoves DEF Base, Label
    <2> QED BY <1>1, <2>1 DEF FirstLeft, Claimed
  <1>3. Writes(Current(p), "executing", row[Current(p)].is_running, p)
    BY <1>1, ClaimWrites DEF MarkExecuting, Base, Status
  <1>4. /\ row'[Current(p)].status \in Active /\ row'[Current(p)].is_running = row[Current(p)].is_running
        /\ \A j \in Job : j # Current(p) => row'[j] = row[j]
    BY <1>3 DEF Writes, Active
  <1> QED BY <1>1, <1>2, <1>4, LeftRange, LiveStep DEF Base

LEMMA CompleteLives ==
  ASSUME Base, NEW p \in Proc, LiveOf(p), CompleteCalc(p)
  PROVE  LiveOf(p)'
  <1>1. /\ pc[p] = "run" /\ pc'[p] = "close" /\ jobs' = jobs /\ pos' = pos
        /\ pos[p] \in 1..Len(jobs[p]) /\ Current(p) \in Job /\ Current(p) = jobs[p][pos[p]]
    BY CurrentJob DEF CompleteCalc, Goto, Base, TypeOK, Current, local
  <1>2. /\ FirstLeft(p) = pos[p] /\ FirstLeft(p)' = pos[p] + 1
        /\ \A i : Claimed(p, i)' => Claimed(p, i)
    BY <1>1 DEF FirstLeft, Claimed
  <1>3. \A j \in Job : j # Current(p) => row'[j] = row[j]
    BY <1>1, FinishWrites DEF CompleteCalc, Base, Status, Writes
  <1>4. ASSUME NEW i \in (pos[p] + 1)..Len(jobs[p]) PROVE row'[jobs[p][i]] = row[jobs[p][i]]
    <2>1. i \in 1..Len(jobs[p]) /\ i # pos[p] /\ jobs[p][i] \in Job
      BY <1>1, <1>2, LeftRange DEF Base
    <2>2. jobs[p][i] # Current(p)
      BY <1>1, <2>1 DEF Base, JobsInv
    <2> QED BY <1>3, <2>1, <2>2
  <1> QED BY <1>1, <1>2, <1>4, LiveStep DEF Base

LEMMA QuietLives ==
  ASSUME Base, CleanInv, LoopInv, NEW p \in Proc, LiveOf(p),
         \/ ReadQueue(p) \/ FindDead(p) \/ DeclareFailed(p) \/ LeaveQueue(p)
         \/ BeginCalc(p) \/ EndCalc(p)
  PROVE  Over(p)' \/ LiveOf(p)'
  <1>1. ASSUME NEW i \in 1..Len(jobs[p]), ~EndCalc(p), ~BeginCalc(p), ~ReadQueue(p),
               ~FindDead(p), ~LeaveQueue(p)
        PROVE  row'[jobs[p][i]] = row[jobs[p][i]]
    <2>1. jobs[p][i] \in Job /\ Has(p, jobs[p][i]) /\ pc[p] = "clean"
      BY <1>1 DEF Base, TypeOK, Has, DeclareFailed
    <2>2. jobs[p][i] \notin seen[p]
      BY <2>1 DEF CleanInv, DeadInv
    <2>3. PICK j \in Job : j \in seen[p] /\ finish(j, "failed")
      BY <1>1, LeastDead DEF DeclareFailed
    <2>4. Writes(j, "failed", FALSE, row[j].pid)
      BY <2>3, FinishWrites DEF Base, Status
    <2> QED BY <2>1, <2>2, <2>3, <2>4 DEF Writes
  <1>2. jobs' = jobs /\ first_time' = first_time
    BY DEF ReadQueue, FindDead, DeclareFailed, LeaveQueue, BeginCalc, EndCalc, local
  <1>3. ASSUME NEW i \in 1..Len(jobs[p]) PROVE row'[jobs[p][i]] = row[jobs[p][i]]
    BY <1>1, <1>3 DEF ReadQueue, FindDead, LeaveQueue, BeginCalc, EndCalc, table
  <1>4. CASE ReadQueue(p) \/ FindDead(p) \/ DeclareFailed(p)
    <2>1. /\ pc[p] \in {"poll", "polled", "clean"} /\ pc'[p] \in {"poll", "polled", "clean"}
          /\ pos' = pos
      BY <1>4 DEF ReadQueue, FindDead, DeclareFailed, Goto, Base, TypeOK
    <2>2. FirstLeft(p) = 1 /\ FirstLeft(p)' = 1 /\ \A i \in 1..Len(jobs[p]) : Claimed(p, i)' => Claimed(p, i)
      BY <1>2, <2>1 DEF FirstLeft, Claimed
    <2> QED BY <1>2, <1>3, <2>2, LeftRange, LiveStep DEF Base
  <1>5. CASE LeaveQueue(p)
    <2>1. pc[p] = "polled" /\ pc'[p] = "mark" /\ pos' = pos /\ pos[p] = 1
      BY <1>5 DEF LeaveQueue, Goto, Base, TypeOK, LoopInv, local
    <2>2. FirstLeft(p) = 1 /\ FirstLeft(p)' = 1 /\ \A i \in 1..Len(jobs[p]) : Claimed(p, i)' => Claimed(p, i)
      BY <1>2, <2>1 DEF FirstLeft, Claimed
    <2> QED BY <1>2, <1>3, <2>2, LeftRange, LiveStep DEF Base
  <1>6. CASE BeginCalc(p)
    <2>1. pc[p] = "begin" /\ pc'[p] = "run" /\ pos' = pos /\ pos[p] \in Nat
      BY <1>6 DEF BeginCalc, Goto, Base, TypeOK
    <2>2. FirstLeft(p) = pos[p] /\ FirstLeft(p)' = pos[p] /\ \A i \in 1..Len(jobs[p]) : Claimed(p, i)' => Claimed(p, i)
      BY <1>2, <2>1 DEF FirstLeft, Claimed
    <2> QED BY <1>2, <1>3, <2>1, <2>2, LeftRange, LiveStep DEF Base
  <1>7. CASE EndCalc(p)
    <2>1. pc[p] = "close" /\ pos[p] \in Nat \ {0} /\ Len(jobs[p]) \in Nat
      BY <1>7, LeftRange DEF EndCalc, Base, TypeOK
    <2>2. CASE pos[p] < Len(jobs[p])
      <3>1. pc'[p] = "begin" /\ pos'[p] = pos[p] + 1
        BY <1>7, <2>1, <2>2 DEF EndCalc, Goto, Base, TypeOK
      <3>2. /\ FirstLeft(p) = pos[p] + 1 /\ FirstLeft(p)' = pos[p] + 1
            /\ \A i \in 1..Len(jobs[p]) : Claimed(p, i)' => Claimed(p, i)
        BY <1>2, <2>1, <3>1 DEF FirstLeft, Claimed
      <3> QED BY <1>2, <1>3, <2>1, <3>2, LeftRange, LiveStep DEF Base
    <2>3. CASE ~(pos[p] < Len(jobs[p]))
      <3>1. pc'[p] = "ended"
        BY <1>7, <2>3, ExitMoves DEF EndCalc, Base
      <3> QED BY <3>1 DEF Over
    <2> QED BY <2>2, <2>3
  <1> QED BY <1>4, <1>5, <1>6, <1>7

LEMMA OwnLive ==
  ASSUME Base, CleanInv, LoopInv, LiveInv, NEW p \in Proc, ProcStep(p)
  PROVE  Over(p)' \/ LiveOf(p)'
  <1>1. CASE Over(p)
    BY <1>1, OverStays DEF Next, ProcStep
  <1>2. CASE ~Over(p)
    <2>1. LiveOf(p) /\ ~AbortJob(p) /\ ~FinishCalc(p) /\ ~Interrupt(p)
      BY <1>2 DEF LiveInv, Over, AbortJob, FinishCalc, Interrupt
    <2>2. CASE CalcRaises(p) \/ Die(p)
      BY <2>2 DEF CalcRaises, Die, Exit, Goto, Over, Base, TypeOK
    <2> QED BY <1>2, <2>1, <2>2, CreateLives, DescribeLives, WaitLives, MarkLives, CompleteLives,
               QuietLives DEF ProcStep, Step
  <1> QED BY <1>1, <1>2

LEMMA LoopKeeps == ASSUME Base, LoopInv, [Next]_vars PROVE LoopInv'
  <1>1. ASSUME NEW p \in Proc, ProcStep(p) PROVE LoopInv'
    <2>1. \A q \in Proc \ {p} : Same(q)
      BY <1>1, OthersStay
    <2>2. /\ pc'[p] \in {"create", "describe"} => first_time'[p]
          /\ pc'[p] \in {"poll", "polled", "clean"} => pos'[p] = 1
      <3> USE DEF Base, TypeOK
      <3>1. CASE CreateJob(p)
        BY <3>1 DEF CreateJob, Goto, LoopInv
      <3>2. CASE DescribeJob(p)
        <4>1. PICK label \in {"poll", "mark"} : NextJob(p, label)
          BY <3>2 DEF DescribeJob
        <4>2. pos[p] \in Nat /\ Len(jobs[p]) \in Nat /\ pc[p] = "describe" /\ first_time' = first_time
          BY <3>2, LeftRange DEF DescribeJob
        <4>3. pc'[p] = "describe" \/ pos'[p] = 1
          <5> HIDE DEF TypeOK
          <5> QED BY <4>1, <4>2, NextJobMoves DEF Label
        <4> QED BY <4>2, <4>3 DEF LoopInv
      <3>3. CASE ReadQueue(p) \/ FindDead(p) \/ DeclareFailed(p) \/ Wait(p) \/ LeaveQueue(p)
        BY <3>3 DEF ReadQueue, FindDead, DeclareFailed, Wait, LeaveQueue, Goto, LoopInv, local
      <3>4. CASE AbortJob(p) \/ EndCalc(p) \/ FinishCalc(p) \/ Die(p)
        BY <3>4 DEF AbortJob, EndCalc, FinishCalc, Die, Exit, Goto, LoopInv, local
      <3>5. CASE MarkExecuting(p)
        BY <3>5 DEF MarkExecuting, NextJob, Goto
      <3>6. CASE BeginCalc(p) \/ CompleteCalc(p) \/ CalcRaises(p)
        BY <3>6 DEF BeginCalc, CompleteCalc, CalcRaises, Goto
      <3>7. CASE Interrupt(p)
        BY <3>7, InterruptMoves
      <3> QED BY <1>1, <3>1, <3>2, <3>3, <3>4, <3>5, <3>6, <3>7 DEF ProcStep, Step
    <2> QED BY <2>1, <2>2 DEF LoopInv, Same
  <1>2. CASE UNCHANGED <<pc, local>>
    BY <1>2 DEF LoopInv, local
  <1> QED BY <1>1, <1>2, UsersStay DEF Next, ProcStep, Terminated, vars

\* The users that can only abort jobs through the WebUI write nothing into rows
\* of jobs that are still to be calculated.
LEMMA UsersLive ==
  ASSUME WebOnly, Base, WebInv, User
  PROVE  LiveInv'
  <1>1. CASE row' = row
    <2> SUFFICES ASSUME NEW q \in Proc, ~Over(q)' PROVE LiveOf(q)'
      BY DEF LiveInv
    <2>1. UNCHANGED <<pc, local>> /\ ~sig'[q] /\ ~sig[q] /\ ~Over(q)
      BY UsersStay DEF Over, local
    <2>2. sig'[q] = sig[q]
      BY <2>1, NextKeeps DEF Next, Base, TypeOK
    <2>3. Same(q) /\ LiveOf(q)
      BY <2>1, <2>2 DEF Same, WebInv, LiveInv, local, Base, TypeOK
    <2> QED BY <1>1, <2>3, LiveFrame DEF Base
  <1>2. CASE SetStatus
    <2>1. /\ req.kind = "aborted" /\ set_status(req.job, "aborted") /\ req.job \in Job
          /\ \A p \in Proc : Has(p, req.job) => Over(p)
      BY <1>2, RequestType DEF SetStatus, WebInv, AbortInv, Base
    <2>2. PICK b : Writes(req.job, "aborted", b, row[req.job].pid)
      BY <2>1, SetStatusWrites DEF Base, Status
    <2> SUFFICES ASSUME NEW q \in Proc, ~Over(q)' PROVE LiveOf(q)'
      BY DEF LiveInv
    <2>3. Same(q) /\ LiveOf(q) /\ ~Over(q)
      BY <1>2, UsersStay DEF SetStatus, Same, WebInv, LiveInv, Over, local
    <2>4. ASSUME NEW i \in 1..Len(jobs[q]) PROVE row'[jobs[q][i]] = row[jobs[q][i]]
      <3>1. jobs[q][i] \in Job /\ Has(q, jobs[q][i])
        BY DEF Base, TypeOK, Has
      <3> QED BY <2>1, <2>2, <2>3, <3>1 DEF Writes
    <2> QED BY <2>3, <2>4, LiveFrame DEF Base
  <1> QED BY <1>1, <1>2 DEF User, WebOnly, WebKill, CliScan, DeleteUncompleted, ResetIsRunning,
             WebAbort, CliAbort, DelCalc, Ask, table

LEMMA AbortKeeps ==
  ASSUME WebOnly, Base, AbortInv, [Next]_vars
  PROVE  AbortInv'
  <1>1. CASE WebKill
    <2>1. PICK p \in Proc : p = row[req.job].pid /\ Kill(p) /\ req.job \in Job
      <3>1. row[req.job].pid # NoProc /\ req.job \in Job
        BY <1>1, RequestType DEF WebKill, Base, ReqInv
      <3> QED BY <1>1, <3>1 DEF WebKill, Base, TypeOK, Row
    <2>2. ASSUME NEW q \in Proc, Has(q, req.job) PROVE q = p
      BY <2>1, <2>2, ConstantsAssumption DEF Base, RowsInv, RowIsGood
    <2>3. pc' = pc /\ jobs' = jobs
      BY <1>1 DEF WebKill, local
    <2>4. CASE req' = NoReq
      BY <2>4 DEF AbortInv, NoReq
    <2>5. CASE /\ req'.kind = "aborted" /\ req'.job = req.job
               /\ exists[p] /\ (pc[p] # "ended" => sig'[p])
      BY <2>2, <2>3, <2>5 DEF AbortInv, Has, Over
    <2> QED BY <1>1, <2>1, <2>4, <2>5, KillMoves DEF WebKill, Base
  <1>2. CASE \E j \in Job : WebAbort(j)
    BY <1>2 DEF WebAbort, AbortInv
  <1>3. CASE SetStatus
    BY <1>3 DEF SetStatus, AbortInv, NoReq
  <1>4. ASSUME NEW p \in Proc, ProcStep(p) PROVE AbortInv'
    <2>1. req' = req
      BY <1>4 DEF ProcStep, Step, CreateJob, DescribeJob, ReadQueue, FindDead, DeclareFailed, Wait,
         LeaveQueue, AbortJob, MarkExecuting, BeginCalc, CompleteCalc, EndCalc, FinishCalc,
         CalcRaises, Interrupt, Die, users
    <2> SUFFICES ASSUME NEW q \in Proc, req.kind = "aborted", Has(q, req.job)' PROVE Over(q)'
      BY <2>1 DEF AbortInv
    <2>2. Has(q, req.job)
      <3>1. CASE CreateJob(p)
        <4>1. req.job # last + 1
          BY <3>1, RequestType, CreateWrites DEF Base, ReqInv
        <4>2. CASE q = p
          BY <2>1, <3>1, <4>1, <4>2, CreateWrites DEF Has
        <4>3. CASE q # p
          BY <1>4, <2>1, <4>3, OthersStay DEF Has, Same
        <4> QED BY <4>2, <4>3
      <3>2. CASE ~CreateJob(p)
        BY <1>4, <2>1, <3>2, ExistsMoves DEF Has
      <3> QED BY <3>1, <3>2
    <2> QED BY <1>4, <2>2, OverStays DEF AbortInv, Next, ProcStep
  <1>5. CASE UNCHANGED vars
    BY <1>5 DEF vars, users, local, AbortInv, Has, Over
  <1> QED BY <1>1, <1>2, <1>3, <1>4, <1>5 DEF Next, ProcStep, User, Terminated, WebOnly, CliScan,
             DeleteUncompleted, ResetIsRunning, CliAbort, DelCalc, Ask, AbortInv

LEMMA WebKeeps ==
  ASSUME WebOnly, Base, CleanInv, WebInv, [Next]_vars
  PROVE  WebInv'
  <1>1. LoopInv' /\ AbortInv'
    BY LoopKeeps, AbortKeeps DEF WebInv
  <1>2. LiveInv'
    <2>1. ASSUME NEW p \in Proc, ProcStep(p) PROVE LiveInv'
      BY <2>1, OwnLive, OthersLive DEF LiveInv, WebInv
    <2>2. CASE UNCHANGED vars
      <3>1. UNCHANGED <<row, pc, jobs, pos, first_time, sig>>
        BY <2>2 DEF vars, table, local
      <3>2. \A q \in Proc : Same(q)
        BY <3>1 DEF Same
      <3> QED BY <3>1, <3>2, LiveFrame DEF WebInv, LiveInv, Over, Base
    <2> QED BY <2>1, <2>2, UsersLive DEF Next, ProcStep, Terminated
  <1> QED BY <1>1, <1>2 DEF WebInv

LEMMA InitiallyWeb == Init => WebInv
  <1> SUFFICES ASSUME Init PROVE WebInv
    OBVIOUS
  <1>1. \A p \in Proc : Len(jobs[p]) = 0 /\ FirstLeft(p) = 1
    BY DEF Init, FirstLeft
  <1> QED BY <1>1 DEF Init, WebInv, LoopInv, AbortInv, LiveInv, LiveOf, NoReq

\* If users only abort jobs in the WebUI, the rows of the jobs that a process has
\* still to calculate stay running.
THEOREM WebInvariant == WebOnly => (Spec => [](Base /\ CleanInv /\ WebInv))
  <1> SUFFICES ASSUME WebOnly PROVE Spec => [](Base /\ CleanInv /\ WebInv)
    OBVIOUS
  <1>1. Init => Base /\ CleanInv /\ WebInv
    BY Initially, InitiallyClean, InitiallyWeb
  <1>2. Base /\ CleanInv /\ WebInv /\ [Next]_vars => (Base /\ CleanInv /\ WebInv)'
    BY NextKeeps, CleanKeeps, WebKeeps
  <1> QED BY <1>1, <1>2, PTL DEF Spec

\* While a process runs its calculations the processes that poll see them, if
\* users ask for nothing but the aborts of the WebUI: no other process, request
\* or declaration of failure ever hides them.
THEOREM CalculationsAreVisible ==
  Requests \subseteq {"web_abort"} => (Spec => []VisibleWhileComputing)
  <1> SUFFICES ASSUME WebOnly PROVE Spec => []VisibleWhileComputing
    BY DEF WebOnly
  <1>1. ASSUME Base, WebInv PROVE VisibleWhileComputing
    <2> SUFFICES ASSUME NEW p \in Proc, pc[p] \in {"begin", "run"}, ~sig[p],
                        NEW i \in pos[p]..Len(jobs[p])
                 PROVE  jobs[p][i] \in GetJobs
      BY DEF VisibleWhileComputing
    <2>1. FirstLeft(p) = pos[p] /\ Claimed(p, i) /\ ~Over(p)
      BY DEF FirstLeft, Claimed, Over
    <2>2. jobs[p][i] \in Job
      BY <1>1, <2>1, LeftRange DEF Base
    <2>3. row[jobs[p][i]].is_running /\ row[jobs[p][i]].status \in Active
      BY <1>1, <2>1 DEF WebInv, LiveInv, LiveOf, Alive
    <2>4. row[jobs[p][i]].pid # NoProc
      BY <1>1, <2>2, <2>3 DEF Base, RowsInv, RowIsGood, Active
    <2> QED BY <2>2, <2>3, <2>4 DEF GetJobs
  <1> QED BY <1>1, WebInvariant, PTL

-----------------------------------------------------------------------------
(* Processes started one after the other: the slots *)

Ordered == Patient /\ SerializeJobs > 0 /\ WebOnly

Holding == {"mark", "begin", "run", "close"}

LEMMA HolderMoves ==
  ASSUME Base, SerializeJobs > 0, NEW p \in Proc, ProcStep(p)
  PROVE  /\ pc[p] \in Holding => pc'[p] \in Holding \cup {"failing", "aborting", "ended"}
         /\ pc[p] \notin Holding /\ pc'[p] \in Holding => LeaveQueue(p)
         /\ pc'[p] = "polled" => ReadQueue(p)
  <1> USE DEF Holding
  <1>1. CASE CreateJob(p) \/ ReadQueue(p) \/ FindDead(p) \/ DeclareFailed(p) \/ Wait(p)
             \/ LeaveQueue(p) \/ BeginCalc(p) \/ CompleteCalc(p) \/ CalcRaises(p)
    BY <1>1 DEF CreateJob, ReadQueue, FindDead, DeclareFailed, Wait, LeaveQueue, BeginCalc,
       CompleteCalc, CalcRaises, Goto, Base, TypeOK
  <1>2. CASE DescribeJob(p)
    <2>1. NextJob(p, "poll") /\ pc[p] = "describe"
      BY <1>2, ConstantsAssumption DEF DescribeJob
    <2> QED BY <2>1, NextJobMoves DEF Base, Label
  <1>3. CASE AbortJob(p)
    BY <1>3, LabelsOf DEF AbortJob
  <1>4. CASE MarkExecuting(p)
    BY <1>4, NextJobMoves DEF MarkExecuting, Base, Label
  <1>5. CASE EndCalc(p) \/ FinishCalc(p) \/ Die(p)
    BY <1>5 DEF EndCalc, FinishCalc, Die, Exit, Goto, Base, TypeOK
  <1>6. CASE Interrupt(p)
    <2>1. pc[p] \in Holding => pc'[p] \in {"aborting", "ended"}
      <3>1. CASE Exit(p)
        BY <3>1, ExitMoves DEF Base
      <3>2. CASE ~Exit(p)
        BY <1>6, <3>2 DEF Interrupt, Goto, Base, TypeOK
      <3> QED BY <3>1, <3>2
    <2> QED BY <1>6, <2>1, InterruptMoves DEF Base
  <1> QED BY <1>1, <1>2, <1>3, <1>4, <1>5, <1>6 DEF ProcStep, Step

LEMMA MeIs ==
  ASSUME TypeOK, NEW p \in Proc, jobs[p] # << >>
  PROVE  /\ Len(jobs[p]) \in Nat \ {0} /\ Me(p) \in Job /\ Me(p) \in Nat \ {0}
         /\ Has(p, Me(p)) /\ Me(p) = jobs[p][Len(jobs[p])]
  <1>1. jobs[p] \in Seq(Job) /\ Len(jobs[p]) \in Nat \ {0}
    BY DEF TypeOK
  <1>2. Len(jobs[p]) \in 1..Len(jobs[p]) /\ jobs[p][Len(jobs[p])] \in Job
    BY <1>1
  <1>3. Me(p) \in Job /\ Has(p, Me(p))
    BY <1>2 DEF Me, Has
  <1>4. Me(p) \in Nat \ {0}
    BY <1>3, ConstantsAssumption DEF Job
  <1> QED BY <1>1, <1>3, <1>4 DEF Me

LEMMA VisibleStays ==
  ASSUME WebOnly, Base, WebInv', Base', Next, NEW p \in Proc, Visible(p), jobs'[p] = jobs[p], ~Over(p)'
  PROVE  Visible(p)'
  <1>1. /\ jobs[p] # << >> /\ Me(p) \in Job /\ Me(p) = jobs[p][Len(jobs[p])]
        /\ row[Me(p)].status \in Active /\ Me(p)' = Me(p)
    BY MeIs DEF Visible, GetJobs, Base, Me
  <1>2. Len(jobs'[p]) \in FirstLeft(p)'..Len(jobs'[p])
    <2>1. Len(jobs[p]) \in Nat \ {0} /\ pos'[p] \in Nat
      BY <1>1, MeIs DEF Base, TypeOK
    <2>2. pc'[p] \in {"begin", "run", "close"} => pos'[p] \in 1..Len(jobs[p])
      BY DEF Base, PosInv
    <2>3. pc'[p] = "close" => pos'[p] < Len(jobs[p])
      BY <2>1, <2>2 DEF Over
    <2> QED BY <2>1, <2>2, <2>3 DEF FirstLeft
  <1>3. row'[Me(p)].is_running /\ row'[Me(p)].status \in {"created"} \cup Active
    BY <1>1, <1>2 DEF WebInv, LiveInv, LiveOf, Alive
  <1>4. row'[Me(p)].status # "created"
    <2>1. ASSUME NEW q \in Proc, ProcStep(q) PROVE row'[Me(p)].status # "created"
      <3>1. CASE CreateJob(q)
        BY <1>1, <3>1, CreateWrites DEF Active
      <3>2. CASE ~CreateJob(q) /\ row' # row
        BY <1>1, <2>1, <3>2, RowMoves DEF Writes, Active
      <3> QED BY <1>1, <3>1, <3>2 DEF Active
    <2>2. CASE User \/ Terminated
      <3>1. CASE SetStatus
        <4>1. PICK s \in {"aborted", "failed"} :
                 req.job \in Job /\ Writes(req.job, s, s \in Active, row[req.job].pid)
          BY <3>1, RequestType, SetStatusWrites DEF SetStatus, Base, Status
        <4> QED BY <1>1, <4>1 DEF Writes, Active
      <3>2. CASE row' = row
        BY <1>1, <3>2 DEF Active
      <3> QED BY <2>2, <3>1, <3>2 DEF User, WebKill, CliScan, WebAbort, CliAbort, DelCalc,
                 DeleteUncompleted, ResetIsRunning, Ask, WebOnly, Terminated, vars, table
    <2> QED BY <2>1, <2>2 DEF Next, ProcStep
  <1>5. row'[Me(p)].pid # NoProc
    BY <1>1, <1>3, <1>4 DEF Base, RowsInv, RowIsGood, Active
  <1> QED BY <1>1, <1>3, <1>4, <1>5 DEF Visible, GetJobs

\* Who has jobs had them before, unless it creates one now.
LEMMA AskingMoves ==
  ASSUME Base, Next, NEW p \in Proc
  PROVE  CreateJob(p) \/ (/\ jobs'[p] = jobs[p] /\ Me(p)' = Me(p)
                          /\ Asking(p)' => Asking(p))
  <1>1. ASSUME NEW q \in Proc, ProcStep(q), ~(q = p /\ CreateJob(p)) PROVE jobs'[p] = jobs[p]
    BY <1>1, OthersStay, ExistsMoves DEF Same
  <1>2. CreateJob(p) \/ jobs'[p] = jobs[p]
    BY <1>1, UsersStay DEF Next, ProcStep, Terminated, vars, local
  <1> QED BY <1>2, OverStays DEF Asking, Me

LEMMA OrderKeeps ==
  ASSUME Ordered, Base, Base', WebInv', OrderInv, Next
  PROVE  OrderInv'
  <1> SUFFICES ASSUME NEW p \in Proc, NEW q \in Proc, Asking(p)', jobs'[q] # << >>, Me(p)' < Me(q)'
               PROVE  Visible(p)'
    BY DEF OrderInv
  <1>1. CASE CreateJob(p)
    <2>1. Me(p)' = last + 1 /\ last' = last + 1
      BY <1>1, CreateWrites DEF Me
    <2>2. Me(q)' \in 1..last'
      <3>1. Len(jobs'[q]) \in 1..Len(jobs'[q]) /\ Me(q)' = jobs'[q][Len(jobs'[q])]
        BY MeIs DEF Base, TypeOK, Me
      <3> QED BY <3>1 DEF Base, JobsInv
    <2> QED BY <2>1, <2>2 DEF Base, TypeOK
  <1>2. CASE ~CreateJob(p)
    <2>1. jobs'[p] = jobs[p] /\ Me(p)' = Me(p) /\ Asking(p)
      BY <1>2, AskingMoves
    <2>2. CASE CreateJob(q)
      <3>1. Visible(p)
        BY <1>2, <2>1, <2>2 DEF CreateJob, Ordered, Asking, Over
      <3> QED BY <2>1, <3>1, VisibleStays DEF Asking, Ordered
    <2>3. CASE ~CreateJob(q)
      <3>1. jobs[q] # << >> /\ Me(p) < Me(q)
        BY <2>1, <2>3, AskingMoves
      <3> QED BY <2>1, <3>1, VisibleStays DEF Asking, OrderInv, Ordered
    <2> QED BY <2>2, <2>3
  <1> QED BY <1>1, <1>2

LEMMA PolledKeeps ==
  ASSUME Ordered, Base, OrderInv, PolledInv, Next
  PROVE  PolledInv'
  <1> SUFFICES ASSUME NEW p \in Proc, NEW q \in Proc, Asking(p)', pc'[q] = "polled",
                      Me(p)' < Me(q)'
               PROVE  Me(p)' \in seen'[q]
    BY DEF PolledInv
  <1>1. CASE ReadQueue(q)
    <2>1. /\ jobs' = jobs /\ Me(p)' = Me(p) /\ Me(q)' = Me(q) /\ pc[q] = "poll"
          /\ seen'[q] = GetJobs
      BY <1>1 DEF ReadQueue, Me, Base, TypeOK
    <2>2. jobs[q] # << >> /\ Asking(p)
      <3>1. jobs[q] # << >>
        BY <2>1, CurrentJob DEF Base
      <3> QED BY <2>1, <3>1, OverStays DEF Asking
    <2> QED BY <2>1, <2>2 DEF OrderInv, Visible
  <1>2. CASE ~ReadQueue(q)
    <2>1. pc[q] = "polled" /\ seen'[q] = seen[q] /\ jobs'[q] = jobs[q]
      <3>1. ASSUME NEW r \in Proc \ {q}, ProcStep(r)
            PROVE  pc'[q] = pc[q] /\ seen'[q] = seen[q] /\ jobs'[q] = jobs[q]
        <4>1. Same(q)
          BY <3>1, OthersStay
        <4>2. seen'[q] = seen[q]
          BY <3>1 DEF Base, TypeOK, ProcStep, Step, CreateJob, DescribeJob, ReadQueue, FindDead,
             DeclareFailed, Wait, LeaveQueue, AbortJob, MarkExecuting, BeginCalc, CompleteCalc,
             EndCalc, FinishCalc, CalcRaises, Interrupt, Die, local
        <4> QED BY <4>1, <4>2 DEF Same
      <3>2. ~ProcStep(q)
        BY <1>2, HolderMoves, ConstantsAssumption DEF Ordered
      <3>3. CASE User \/ Terminated
        BY <3>3, UsersStay DEF Terminated, vars, local
      <3> QED BY <3>1, <3>2, <3>3 DEF Next, ProcStep
    <2>2. jobs[q] # << >> /\ Me(q)' = Me(q) /\ ~CreateJob(q)
      <3>1. jobs[q] # << >> /\ ~CreateJob(q)
        BY <2>1, CurrentJob DEF Base, CreateJob
      <3> QED BY <2>1, <3>1 DEF Me
    <2>3. CASE CreateJob(p)
      <3>1. Me(p)' = last + 1
        BY <2>3, CreateWrites DEF Me
      <3>2. Me(q) \in 1..last
        BY <2>2, MeIs DEF Base, JobsInv
      <3> QED BY <2>2, <3>1, <3>2 DEF Base, TypeOK
    <2>4. CASE ~CreateJob(p)
      BY <2>1, <2>2, <2>4, AskingMoves DEF PolledInv
    <2> QED BY <2>3, <2>4
  <1> QED BY <1>1, <1>2

\* A process that holds a slot, held it or leaves the queue.
LEMMA HoldersMove ==
  ASSUME Ordered, Base, Next, NEW q \in Proc, q \in Holders'
  PROVE  /\ q \in Holders \/ (LeaveQueue(q) /\ q \notin Holders)
         /\ jobs[q] # << >> /\ jobs'[q] = jobs[q] /\ Me(q)' = Me(q)
  <1>1. pc'[q] \in Holding /\ ~Over(q)' /\ ~Over(q)
    BY OverStays DEF Holders, Holding
  <1>2. pc[q] \in Holding \/ LeaveQueue(q)
    <2>1. ASSUME NEW r \in Proc, ProcStep(r) PROVE pc[q] \in Holding \/ LeaveQueue(q)
      BY <1>1, <2>1, HolderMoves, OthersStay DEF Same, Ordered
    <2>2. CASE User \/ Terminated
      BY <1>1, <2>2, UsersStay DEF Terminated, vars
    <2> QED BY <2>1, <2>2 DEF Next, ProcStep
  <1>3. jobs[q] # << >> /\ ~CreateJob(q)
    <2>1. pc[q] \notin {"create", "ended"}
      BY <1>2 DEF Holding, LeaveQueue
    <2> QED BY <2>1, CurrentJob DEF Base, CreateJob
  <1>4. jobs'[q] = jobs[q] /\ Me(q)' = Me(q)
    BY <1>3, AskingMoves
  <1>5. LeaveQueue(q) => q \notin Holders
    BY DEF LeaveQueue, Holders
  <1> QED BY <1>1, <1>2, <1>3, <1>4, <1>5 DEF Holders, Holding

LEMMA EnteredKeeps ==
  ASSUME Ordered, Base, PolledInv, EnteredInv, Next
  PROVE  EnteredInv'
  <1> SUFFICES ASSUME NEW p \in Proc, NEW q \in Proc, Asking(p)', q \in Holders', Me(p)' < Me(q)'
               PROVE  Me(p)' >= Me(q)' - (SerializeJobs - 1)
    BY DEF EnteredInv
  <1>1. /\ q \in Holders \/ LeaveQueue(q)
        /\ jobs[q] # << >> /\ Me(q)' = Me(q)
    BY HoldersMove
  <1>2. CASE CreateJob(p)
    <2>1. Me(p)' = last + 1
      BY <1>2, CreateWrites DEF Me
    <2>2. Me(q) \in 1..last
      BY <1>1, MeIs DEF Base, JobsInv
    <2> QED BY <1>1, <2>1, <2>2 DEF Base, TypeOK
  <1>3. CASE ~CreateJob(p)
    <2>1. Me(p)' = Me(p) /\ Asking(p)
      BY <1>3, AskingMoves
    <2>2. CASE q \in Holders
      BY <1>1, <2>1, <2>2 DEF EnteredInv
    <2>3. CASE LeaveQueue(q)
      <3>1. pc[q] = "polled" /\ Older(q) = {}
        BY <2>3 DEF LeaveQueue
      <3>2. Me(p) \in seen[q]
        BY <1>1, <2>1, <3>1 DEF PolledInv
      <3>3. ~(Me(p) < Me(q) - (SerializeJobs - 1))
        BY <3>1, <3>2 DEF Older
      <3>4. Me(p) \in Nat /\ Me(q) \in Nat /\ SerializeJobs \in Nat
        BY <1>1, <2>1, MeIs, ConstantsAssumption DEF Base, Asking
      <3> QED BY <1>1, <2>1, <3>3, <3>4
    <2> QED BY <1>1, <2>2, <2>3
  <1> QED BY <1>2, <1>3

LEMMA PatientKeeps ==
  ASSUME Ordered, Base, Base', WebInv', PatientInv, [Next]_vars
  PROVE  PatientInv'
  <1>1. CASE Next
    BY <1>1, OrderKeeps, PolledKeeps, EnteredKeeps DEF PatientInv
  <1>2. CASE UNCHANGED vars
    BY <1>2 DEF vars, table, local, PatientInv, OrderInv, PolledInv, EnteredInv, Asking, Over, Me,
       Visible, GetJobs, Holders
  <1> QED BY <1>1, <1>2

\* The last jobs of the processes that hold a slot are different numbers among
\* the serialize_jobs numbers that end with the greatest of them.
LEMMA HoldersCounted ==
  ASSUME Base, EnteredInv, SerializeJobs > 0
  PROVE  IsFiniteSet(Holders) /\ Cardinality(Holders) <= SerializeJobs
  <1>1. IsFiniteSet(Holders)
    BY FS_Subset, ConstantsAssumption DEF Holders
  <1>2. ASSUME NEW p \in Holders
        PROVE  p \in Proc /\ Asking(p) /\ Me(p) \in Job /\ Me(p) \in Nat /\ Has(p, Me(p)) /\ Me(p) <= MaxJob
    <2>1. p \in Proc /\ ~Over(p) /\ pc[p] \notin {"create", "ended"}
      BY DEF Holders
    <2>2. jobs[p] # << >>
      BY <2>1, CurrentJob DEF Base
    <2> QED BY <2>1, <2>2, MeIs, ConstantsAssumption DEF Base, Asking, Job
  <1>3. CASE Holders = {}
    BY <1>3, FS_EmptySet, ConstantsAssumption
  <1>4. CASE Holders # {}
    <2> DEFINE T == {Me(p) : p \in Holders}
               f == [p \in Holders |-> Me(p)]
    <2>1. PICK m \in T : \A n \in T : n <= m
      <3>1. T \in SUBSET Nat /\ T # {} /\ MaxJob \in Nat /\ \A n \in T : n <= MaxJob
        BY <1>2, <1>4, ConstantsAssumption
      <3> HIDE DEF T
      <3> QED BY <3>1, NatMax
    <2>2. m \in Nat /\ SerializeJobs \in Nat
      BY <1>2, ConstantsAssumption
    <2>3. PICK q \in Holders : m = Me(q)
      OBVIOUS
    <2> DEFINE R == (m - (SerializeJobs - 1)) .. m
    <2>4. ASSUME NEW p \in Holders PROVE Me(p) \in R
      <3>1. Me(p) <= m
        BY <2>1
      <3>2. CASE Me(p) = m
        BY <2>2, <3>2
      <3>3. CASE Me(p) # m
        <4>1. Me(p) >= m - (SerializeJobs - 1)
          BY <1>2, <2>2, <2>3, <3>1, <3>3 DEF EnteredInv
        <4> QED BY <1>2, <2>2, <3>1, <4>1
      <3> QED BY <3>2, <3>3
    <2>5. f \in [Holders -> R]
      BY <2>4
    <2>6. \A p, r \in Holders : f[p] = f[r] => p = r
      <3> SUFFICES ASSUME NEW p \in Holders, NEW r \in Holders, f[p] = f[r] PROVE p = r
        OBVIOUS
      <3>1. p \in Proc /\ r \in Proc /\ Has(p, Me(p)) /\ Has(r, Me(r)) /\ Me(p) = Me(r)
        BY <1>2
      <3>2. Has(r, Me(p))
        BY <3>1
      <3> QED BY <3>1, <3>2 DEF Base, JobsInv, Has
    <2>7. IsFiniteSet(R) /\ Cardinality(R) = SerializeJobs
      <3>1. m - (SerializeJobs - 1) \in Int /\ m \in Int /\ ~(m - (SerializeJobs - 1) > m)
        BY <2>2
      <3>2. IsFiniteSet(R) /\ Cardinality(R) = m - (m - (SerializeJobs - 1)) + 1
        BY <3>1, FS_Interval
      <3> QED BY <2>2, <3>2
    <2>8. ~(Cardinality(R) < Cardinality(Holders))
      <3> HIDE DEF f, R
      <3> QED BY <1>1, <2>5, <2>6, <2>7, FS_PigeonHole
    <2>9. Cardinality(Holders) \in Nat
      BY <1>1, FS_CardinalityType
    <2> QED BY <1>1, <2>2, <2>7, <2>8, <2>9
  <1> QED BY <1>1, <1>3, <1>4

LEMMA InitiallyPatient == Init => PatientInv
  BY DEF Init, PatientInv, OrderInv, PolledInv, EnteredInv, Asking, Holders

\* If moreover the processes are started one after the other, each sees those
\* that came before it when it polls and when it leaves the queue.
THEOREM PatientInvariant == Ordered => (Spec => [](Base /\ CleanInv /\ WebInv /\ PatientInv))
  <1> SUFFICES ASSUME Ordered PROVE Spec => [](Base /\ CleanInv /\ WebInv /\ PatientInv)
    OBVIOUS
  <1>1. Init => Base /\ CleanInv /\ WebInv /\ PatientInv
    BY Initially, InitiallyClean, InitiallyWeb, InitiallyPatient
  <1>2. Base /\ CleanInv /\ WebInv /\ PatientInv /\ [Next]_vars
          => (Base /\ CleanInv /\ WebInv /\ PatientInv)'
    BY NextKeeps, CleanKeeps, WebKeeps, PatientKeeps DEF Ordered
  <1> QED BY <1>1, <1>2, PTL DEF Spec

\* When the processes are started one after the other and abort requests are
\* all that users ask for, serialize_jobs bounds the processes that calculate.
THEOREM SlotsAreBounded ==
  Patient /\ SerializeJobs > 0 /\ Requests \subseteq {"web_abort"} => (Spec => []AtMostSerialized)
  <1> SUFFICES ASSUME Ordered PROVE Spec => []AtMostSerialized
    BY DEF Ordered, WebOnly
  <1>1. ASSUME Base, PatientInv PROVE AtMostSerialized
    BY <1>1, HoldersCounted DEF AtMostSerialized, PatientInv
  <1> QED BY <1>1, PatientInvariant, PTL

\* A step is a step of the slots: a process leaves the queue and enters a slot,
\* or it is over, or neither.
LEMMA StepOfSlots ==
  ASSUME Ordered, Base, AbortInv, AtMostSerialized', Next
  PROVE  S!Next \/ UNCHANGED S!svars
  <1> DEFINE gone == {p \in Proc : Over(p)}
  <1>1. gone \subseteq gone'
    BY OverStays
  <1>2. \A p \in Proc : p \in Holders => p \notin gone
    BY DEF Holders
  <1>3. CASE \E p \in Proc : p \in gone' /\ p \notin gone
    <2>1. PICK p \in Proc : p \in gone' /\ p \notin gone
      BY <1>3
    <2>2. \A q \in Proc \ {p} : (Over(q)' <=> Over(q)) /\ (q \in Holders' <=> q \in Holders)
      <3>1. ASSUME NEW r \in Proc, ProcStep(r)
            PROVE  \A q \in Proc \ {p} : (Over(q)' <=> Over(q)) /\ (q \in Holders' <=> q \in Holders)
        <4>1. r = p
          BY <2>1, <3>1, OthersStay DEF Same, Over
        <4> QED BY <3>1, <4>1, OthersStay DEF Same, Over, Holders
      <3>2. CASE WebKill
        <4>1. UNCHANGED <<pc, local>>
          BY <3>2 DEF WebKill
        <4>2. PICK r : Kill(r)
          BY <3>2 DEF WebKill
        <4>3. \A q \in Proc : q # r => sig'[q] = sig[q]
          BY <4>2 DEF Kill, Base, TypeOK
        <4> QED BY <2>1, <4>1, <4>3 DEF Over, Holders, local
      <3>3. CASE UNCHANGED <<pc, local, sig>>
        BY <2>1, <3>3 DEF Over, Holders, local
      <3> QED BY <3>1, <3>2, <3>3 DEF Next, ProcStep, User, SetStatus, WebAbort, WebOnly, Ordered,
                 CliScan, DeleteUncompleted, ResetIsRunning, CliAbort, DelCalc, Terminated, vars, Ask,
                 AbortInv
    <2>3. gone' = gone \cup {p}
      BY <2>1, <2>2
    <2>4. Holders' = Holders \ {p}
      BY <2>1, <2>2 DEF Holders
    <2> QED BY <2>1, <2>3, <2>4 DEF S!Next, S!Leave
  <1>4. CASE gone' = gone
    <2>1. \A p \in Proc : p \in Holders => p \in Holders'
      <3> SUFFICES ASSUME NEW p \in Holders PROVE p \in Holders'
        OBVIOUS
      <3>1. p \in Proc /\ pc[p] \in Holding /\ ~Over(p)'
        BY <1>4 DEF Holders, Holding
      <3>2. pc'[p] \in Holding
        <4>1. ASSUME NEW r \in Proc, ProcStep(r) PROVE pc'[p] \in Holding
          BY <3>1, <4>1, HolderMoves, OthersStay DEF Same, Ordered, Over
        <4>2. CASE User \/ Terminated
          BY <3>1, <4>2, UsersStay DEF Terminated, vars
        <4> QED BY <4>1, <4>2 DEF Next, ProcStep
      <3> QED BY <3>1, <3>2 DEF Holders, Holding
    <2>2. CASE \E p \in Proc : LeaveQueue(p)
      <3>1. PICK p \in Proc : LeaveQueue(p)
        BY <2>2
      <3>2. CASE p \in gone
        <4>1. Holders' = Holders
          BY <1>4, <2>1, <3>1, <3>2, HoldersMove, OthersStay DEF ProcStep, Step, Same, Holders
        <4> QED BY <1>4, <4>1 DEF S!svars
      <3>3. CASE p \notin gone
        <4>1. p \notin Holders /\ pc'[p] = "mark"
          BY <3>1 DEF LeaveQueue, Holders, Goto, Base, TypeOK
        <4>2. p \in Holders'
          BY <1>4, <3>3, <4>1 DEF Holders
        <4>3. \A q \in Proc \ {p} : q \in Holders' => q \in Holders
          BY <3>1, OthersStay DEF ProcStep, Step, Same, Holders, Over
        <4>4. Holders' = Holders \cup {p}
          BY <2>1, <4>2, <4>3 DEF Holders
        <4>5. IsFiniteSet(Holders) /\ Cardinality(Holders') <= SerializeJobs
          BY FS_Subset, ConstantsAssumption DEF Holders, AtMostSerialized, Ordered
        <4>6. Cardinality(Holders') = Cardinality(Holders) + 1
          BY <4>1, <4>4, <4>5, FS_AddElement
        <4>7. Cardinality(Holders) < SerializeJobs
          BY <4>5, <4>6, FS_CardinalityType, ConstantsAssumption
        <4>8. S!Cardinality(Holders) = Cardinality(Holders)
          BY DEF S!Cardinality, Cardinality
        <4>9. S!Enter(p)
          BY <1>4, <3>3, <4>1, <4>4, <4>7, <4>8, Zenon DEF S!Enter
        <4> QED BY <4>9 DEF S!Next
      <3> QED BY <3>2, <3>3
    <2>3. CASE ~\E p \in Proc : LeaveQueue(p)
      <3>1. Holders' = Holders
        <4>1. \A q \in Proc : q \in Holders' => q \in Holders
          BY <2>3, HoldersMove
        <4> QED BY <2>1, <4>1 DEF Holders
      <3> QED BY <1>4, <3>1 DEF S!svars
    <2> QED BY <2>2, <2>3
  <1> QED BY <1>1, <1>3, <1>4

\* poll_queue and the table of jobs implement the slots: a process that may
\* calculate took one of serialize_jobs slots, and it gives its slot up when it
\* ends or is told to stop, never before, and it does not come back.
THEOREM QueueImplementsSlots ==
  Patient /\ SerializeJobs > 0 /\ Requests \subseteq {"web_abort"} => (Spec => ImplementsSlots)
  <1> SUFFICES ASSUME Ordered PROVE Spec => S!Spec
    BY DEF Ordered, WebOnly, ImplementsSlots
  <1>1. Init => S!Init
    BY DEF Init, S!Init, Holders, Over
  <1>2. ASSUME Base, WebInv, AtMostSerialized', [Next]_vars
        PROVE  [S!Next]_(S!svars)
    <2>1. CASE Next
      BY <1>2, <2>1, StepOfSlots DEF WebInv
    <2>2. CASE UNCHANGED vars
      BY <2>2 DEF vars, local, S!svars, Holders, Over
    <2> QED BY <1>2, <2>1, <2>2
  <1>3. Spec => []AtMostSerialized
    BY SlotsAreBounded DEF Ordered, WebOnly
  <1> QED BY <1>1, <1>2, <1>3, PatientInvariant, PTL DEF Spec, S!Spec

=============================================================================
