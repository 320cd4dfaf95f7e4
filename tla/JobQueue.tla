------------------------------ MODULE JobQueue ------------------------------
(***************************************************************************)
(* The queue of calculations: the processes that execute engine.run_jobs,  *)
(* the job table of the DbServer through which they see each other, and    *)
(* the users that abort and delete jobs while the processes run.           *)
(*                                                                         *)
(* A process creates its jobs, polls the table until no older job is       *)
(* executing or submitted, marks all its jobs as executing and runs them   *)
(* one after the other.  Each command of the DbServer is one step; what a  *)
(* process does between two commands may happen at any time.               *)
(***************************************************************************)
EXTENDS Integers, Sequences, FiniteSets, FiniteSetsExt

CONSTANTS
  Proc,           \* the processes that call run_jobs
  NoProc,         \* the pid 0 of a job that was not submitted yet
  NumJobs,        \* how many job files each process is given
  MaxJob,         \* bound: job IDs
  SerializeJobs,  \* serialize_jobs of openquake.cfg
  FromWeb,        \* processes started by submit_job of the WebUI
  Patient,        \* a process is started when those before it are visible
  Requests,       \* what users do in this instance
  MaxRequests,    \* bound: number of requests
  Faults          \* what may go wrong in this instance

Job == 1..MaxJob

RequestKinds == {"web_abort", "cli_abort", "delete", "delete_uncompleted", "restart"}

FaultKinds == {"calc_error",  \* a calculation raises
               "db_error",    \* the command finish fails
               "kill"}        \* a process dies, or raises outside any try

ASSUME ConstantsAssumption ==
  /\ IsFiniteSet(Proc)
  /\ NoProc \notin Proc
  /\ NumJobs \in [Proc -> Nat \ {0}]
  /\ MaxJob \in Nat
  /\ SerializeJobs \in Nat
  /\ FromWeb \subseteq Proc
  /\ Patient \in BOOLEAN
  /\ Requests \subseteq RequestKinds
  /\ MaxRequests \in Nat
  /\ Faults \subseteq FaultKinds

VARIABLES
  row,         \* the job table
  last,        \* the last ID given, sqlite_sequence.seq
  pc,          \* where each process is in run_jobs, poll_queue or run_calc
  jobs,        \* the IDs of the jobs of each process
  pos,         \* which of them the process is at
  first_time,  \* the process has not said yet that it is waiting
  seen,        \* the answer to GET_JOBS, then those to declare failed
  title,       \* the job in the title of the process, 0 for none
  sig,         \* a SIGINT was sent and not handled yet
  exists,      \* psutil.pid_exists
  req,         \* the request a user is making
  requests     \* number of requests made

table == <<row, last>>
local == <<jobs, pos, first_time, seen, title>>
users == <<req, requests>>
vars  == <<table, pc, local, sig, exists, users>>

Status == {"none", "created", "submitted", "executing", "complete", "failed",
           "aborted", "deleted"}

Row == [status : Status, is_running : BOOLEAN, pid : Proc \cup {NoProc},
        parent : {0} \cup Job]

NoReq == [kind |-> "none"]

Request == {NoReq} \cup [kind : {"kill", "scan", "aborted", "failed"}, job : Job]

Label == {"create", "describe", "poll", "polled", "clean", "abort_all", "mark",
          "begin", "run", "close", "failing", "aborting", "ended"}

TypeOK ==
  /\ row \in [Job -> Row]
  /\ last \in 0..MaxJob
  /\ pc \in [Proc -> Label]
  /\ jobs \in [Proc -> Seq(Job)]
  /\ pos \in [Proc -> Nat \ {0}]
  /\ first_time \in [Proc -> BOOLEAN]
  /\ seen \in [Proc -> SUBSET Job]
  /\ title \in [Proc -> {0} \cup Job]
  /\ sig \in [Proc -> BOOLEAN]
  /\ exists \in [Proc -> BOOLEAN]
  /\ req \in Request
  /\ requests \in 0..MaxRequests

Init ==
  /\ row = [j \in Job |-> [status |-> "none", is_running |-> FALSE,
                           pid |-> NoProc, parent |-> 0]]
  /\ last = 0
  /\ pc = [p \in Proc |-> "create"]
  /\ jobs = [p \in Proc |-> << >>]
  /\ pos = [p \in Proc |-> 1]
  /\ first_time = [p \in Proc |-> TRUE]
  /\ seen = [p \in Proc |-> {}]
  /\ title = [p \in Proc |-> 0]
  /\ sig = [p \in Proc |-> FALSE]
  /\ exists = [p \in Proc |-> FALSE]
  /\ req = NoReq
  /\ requests = 0

-----------------------------------------------------------------------------
(* Commands of the DbServer *)

Active == {"executing", "submitted"}

\* GET_JOBS
GetJobs == {j \in Job : /\ row[j].status \in Active
                        /\ row[j].is_running
                        /\ row[j].pid # NoProc}

\* Mutants: a definition named X_Y is X with the bug Y, for the checks that a
\* property is able to fail.
finish_StillRunning(j, status) ==
  row' = [row EXCEPT ![j].status = status]

finish(j, status) ==
  row' = [row EXCEPT ![j] = [@ EXCEPT !.status = status, !.is_running = FALSE]]

set_status(j, status) ==
  row' = [row EXCEPT ![j] = [@ EXCEPT !.status = status, !.is_running = status \in Active]]

\* update_job with a status and the pid of the process
claim(j, status, p) ==
  row' = [row EXCEPT ![j] = [@ EXCEPT !.status = status, !.pid = p]]

-----------------------------------------------------------------------------
(* A process of the engine *)

Goto(p, label) == pc' = [pc EXCEPT ![p] = label]

Current(p) == jobs[p][pos[p]]
Me(p)      == jobs[p][Len(jobs[p])]

\* One more job of the loop of p is done; after the last one p goes to label.
NextJob(p, label) ==
  IF pos[p] < Len(jobs[p])
  THEN pos' = [pos EXCEPT ![p] = @ + 1] /\ pc' = pc
  ELSE pos' = [pos EXCEPT ![p] = 1] /\ Goto(p, label)

\* The child of a WebUI that ended is a zombie until the WebUI starts another.
Exit(p) == /\ Goto(p, "ended")
           /\ exists' = [exists EXCEPT ![p] = p \in FromWeb]

\* The table shows that p is waiting or executing.
Visible(p) == jobs[p] # << >> /\ Me(p) \in GetJobs

\* create_jobs; a job of the WebUI is created by submit_job, which then starts
\* the process.
CreateJob(p) ==
  /\ pc[p] = "create"
  /\ last < MaxJob
  /\ Patient => \A q \in Proc \ {p} : jobs[q] = << >> \/ pc[q] = "ended" \/ Visible(q)
  /\ last' = last + 1
  /\ row' = [row EXCEPT ![last + 1] = [status |-> "created", is_running |-> TRUE,
                                       pid |-> NoProc, parent |-> 0]]
  /\ jobs' = [jobs EXCEPT ![p] = Append(@, last + 1)]
  /\ Goto(p, IF Len(jobs[p]) + 1 < NumJobs[p] THEN "create" ELSE "describe")
  /\ exists' = [q \in Proc |-> \/ q = p
                               \/ /\ exists[q]
                                  /\ ~(p \in FromWeb /\ pc[q] = "ended")]
  /\ UNCHANGED <<pos, first_time, seen, title, sig, users>>

\* The first loop of run_jobs: the first job is the parent of the others.
DescribeJob(p) ==
  /\ pc[p] = "describe"
  /\ row' = [row EXCEPT ![Current(p)].parent =
                          IF pos[p] = 1 THEN 0 ELSE jobs[p][1]]
  /\ NextJob(p, IF SerializeJobs > 0 THEN "poll" ELSE "mark")
  /\ UNCHANGED <<last, jobs, first_time, seen, title, sig, exists, users>>

\* poll_queue: read the table ...
ReadQueue(p) ==
  /\ pc[p] = "poll"
  /\ seen' = [seen EXCEPT ![p] = GetJobs]
  /\ Goto(p, "polled")
  /\ UNCHANGED <<table, jobs, pos, first_time, title, sig, exists, users>>

Dead_NoPid(p) == {j \in seen[p] : row[j].pid = NoProc}
Dead_Inverted(p) == {j \in seen[p] : exists[row[j].pid]}
Dead(p)  == {j \in seen[p] : ~exists[row[j].pid]}
Older_OffByOne(p) == {j \in seen[p] : j < Me(p) - SerializeJobs}
Older(p) == {j \in seen[p] : j < Me(p) - (SerializeJobs - 1)}

\* ... and declare failed the jobs whose process does not exist,
FindDead(p) ==
  /\ pc[p] = "polled"
  /\ Dead(p) # {}
  /\ seen' = [seen EXCEPT ![p] = Dead(p)]
  /\ Goto(p, "clean")
  /\ UNCHANGED <<table, jobs, pos, first_time, title, sig, exists, users>>

DeclareFailed(p) ==
  /\ pc[p] = "clean"
  /\ LET j == Min(seen[p])
     IN  /\ finish(j, "failed")
         /\ seen' = [seen EXCEPT ![p] = @ \ {j}]
         /\ Goto(p, IF seen[p] = {j} THEN "poll" ELSE "clean")
  /\ UNCHANGED <<last, jobs, pos, first_time, title, sig, exists, users>>

\* or wait, as submitted, for the older jobs,
Wait(p) ==
  /\ pc[p] = "polled"
  /\ Dead(p) = {} /\ Older(p) # {}
  /\ IF first_time[p] THEN claim(Me(p), "submitted", p) ELSE row' = row
  /\ first_time' = [first_time EXCEPT ![p] = FALSE]
  /\ Goto(p, "poll")
  /\ UNCHANGED <<last, jobs, pos, seen, title, sig, exists, users>>

\* or go on.
LeaveQueue(p) ==
  /\ pc[p] = "polled"
  /\ Dead(p) = {} /\ Older(p) = {}
  /\ Goto(p, "mark")
  /\ UNCHANGED <<table, local, sig, exists, users>>

\* An exception in poll_queue: every job of the process is aborted.
AbortJob(p) ==
  /\ pc[p] = "abort_all"
  /\ finish(Current(p), "aborted")
  /\ IF pos[p] < Len(jobs[p])
     THEN pos' = [pos EXCEPT ![p] = @ + 1] /\ UNCHANGED <<pc, exists>>
     ELSE pos' = pos /\ Exit(p)
  /\ UNCHANGED <<last, jobs, first_time, seen, title, sig, users>>

MarkExecuting_TheFirst(p) ==
  /\ pc[p] = "mark"
  /\ claim(Current(p), "executing", p)
  /\ Goto(p, "begin")
  /\ UNCHANGED <<last, jobs, pos, first_time, seen, title, sig, exists, users>>

MarkExecuting(p) ==
  /\ pc[p] = "mark"
  /\ claim(Current(p), "executing", p)
  /\ NextJob(p, "begin")
  /\ UNCHANGED <<last, jobs, first_time, seen, title, sig, exists, users>>

\* run_calc before its try
BeginCalc(p) ==
  /\ pc[p] = "begin"
  /\ title' = [title EXCEPT ![p] = Current(p)]
  /\ Goto(p, "run")
  /\ UNCHANGED <<table, jobs, pos, first_time, seen, sig, exists, users>>

CompleteCalc(p) ==
  /\ pc[p] = "run"
  /\ finish(Current(p), "complete")
  /\ Goto(p, "close")
  /\ UNCHANGED <<last, local, sig, exists, users>>

\* The datastore is closed and the outputs are listed.
EndCalc(p) ==
  /\ pc[p] = "close"
  /\ IF pos[p] < Len(jobs[p])
     THEN /\ pos' = [pos EXCEPT ![p] = @ + 1]
          /\ Goto(p, "begin") /\ exists' = exists
     ELSE pos' = pos /\ Exit(p)
  /\ UNCHANGED <<table, jobs, first_time, seen, title, sig, users>>

CalcRaises(p) ==
  /\ "calc_error" \in Faults
  /\ pc[p] \in {"run", "close"}
  /\ Goto(p, "failing")
  /\ UNCHANGED <<table, local, sig, exists, users>>

\* The except clause of run_calc; the exception then ends the process, with
\* the jobs that follow still to run.
FinishCalc(p) ==
  /\ pc[p] \in {"failing", "aborting"}
  /\ \/ finish(Current(p), IF pc[p] = "failing" THEN "failed" ELSE "aborted")
     \/ "db_error" \in Faults /\ row' = row
  /\ Exit(p)
  /\ UNCHANGED <<last, local, sig, users>>

\* The SIGINT is a KeyboardInterrupt before run_calc, and then MasterKilled.  It
\* is trapped in poll_queue and in the try of run_calc only; around the latter
\* and while the job is being finished it ends the process.
Interrupt(p) ==
  /\ sig[p] /\ pc[p] # "ended"
  /\ sig' = [sig EXCEPT ![p] = FALSE]
  /\ \/ /\ pc[p] \in {"poll", "polled", "clean"}
        /\ Goto(p, "abort_all") /\ exists' = exists
     \/ /\ pc[p] \in {"run", "close"}
        /\ Goto(p, "aborting") /\ exists' = exists
     \/ /\ pc[p] \in {"abort_all", "mark", "begin", "run", "close", "failing", "aborting"}
        /\ Exit(p)
  /\ UNCHANGED <<table, local, users>>

Die(p) ==
  /\ "kill" \in Faults
  /\ exists[p] /\ pc[p] # "ended"
  /\ Exit(p)
  /\ UNCHANGED <<table, local, sig, users>>

\* What the code of the process does by itself
Step(p) == \/ DescribeJob(p) \/ ReadQueue(p) \/ FindDead(p) \/ DeclareFailed(p)
           \/ Wait(p) \/ LeaveQueue(p) \/ AbortJob(p) \/ MarkExecuting(p)
           \/ BeginCalc(p) \/ CompleteCalc(p) \/ EndCalc(p) \/ FinishCalc(p)

-----------------------------------------------------------------------------
(* Users *)

Ask(kind) == /\ req = NoReq
             /\ kind \in Requests
             /\ requests < MaxRequests
             /\ requests' = requests + 1

\* calc_abort of the WebUI reads the job, kills its pid and sets the status.
WebAbort(j) ==
  /\ Ask("web_abort")
  /\ row[j].status \in Active /\ row[j].pid # NoProc
  /\ req' = [kind |-> "kill", job |-> j]
  /\ UNCHANGED <<table, pc, local, sig, exists>>

\* os.kill reaches zombies too.
Kill(p) ==
  IF exists[p]
  THEN /\ sig' = [sig EXCEPT ![p] = @ \/ pc[p] # "ended"]
       /\ req' = [req EXCEPT !.kind = "aborted"]
  ELSE req' = NoReq /\ sig' = sig

WebKill ==
  /\ req.kind = "kill"
  /\ Kill(row[req.job].pid)
  /\ UNCHANGED <<table, pc, local, exists, requests>>

\* oq abort looks for a process with the title of the job.
CliAbort(j) ==
  /\ Ask("cli_abort")
  /\ row[j].status \notin {"none", "complete", "failed", "aborted"}
  /\ req' = [kind |-> "scan", job |-> j]
  /\ UNCHANGED <<table, pc, local, sig, exists>>

CliScan ==
  /\ req.kind = "scan"
  /\ LET Titled == {p \in Proc : exists[p] /\ title[p] = req.job}
     IN  \/ \E p \in Titled : Kill(p)
         \/ /\ Titled = {}
            /\ req' = [req EXCEPT !.kind = "failed"]
            /\ sig' = sig
  /\ UNCHANGED <<table, pc, local, exists, requests>>

SetStatus ==
  /\ req.kind \in {"aborted", "failed"}
  /\ set_status(req.job, req.kind)
  /\ req' = NoReq
  /\ UNCHANGED <<last, pc, local, sig, exists, requests>>

DelCalc(j) ==
  /\ Ask("delete")
  /\ row[j].status # "none"
  /\ \A k \in Job : row[k].parent = j => row[k].status = "deleted"
  /\ row' = [row EXCEPT ![j].status = "deleted"]
  /\ UNCHANGED <<last, pc, local, sig, exists, req>>

DeleteUncompleted ==
  /\ Ask("delete_uncompleted")
  /\ row' = [j \in Job |-> IF row[j].status \in {"none", "complete"} THEN row[j]
                           ELSE [row[j] EXCEPT !.status = "deleted"]]
  /\ UNCHANGED <<last, pc, local, sig, exists, req>>

\* reset_is_running, when the DbServer is restarted
ResetIsRunning ==
  /\ Ask("restart")
  /\ row' = [j \in Job |->
               IF row[j].is_running \/ row[j].status = "executing"
               THEN [row[j] EXCEPT !.status = "failed", !.is_running = FALSE]
               ELSE row[j]]
  /\ UNCHANGED <<last, pc, local, sig, exists, req>>

User == \/ WebKill \/ CliScan \/ SetStatus \/ DeleteUncompleted \/ ResetIsRunning
        \/ \E j \in Job : WebAbort(j) \/ CliAbort(j) \/ DelCalc(j)

Terminated == /\ \A p \in Proc : pc[p] = "ended"
              /\ req = NoReq
              /\ UNCHANGED vars

Next == \/ \E p \in Proc : CreateJob(p) \/ Step(p) \/ CalcRaises(p)
                           \/ Interrupt(p) \/ Die(p)
        \/ User
        \/ Terminated

Spec == Init /\ [][Next]_vars

\* Every process goes on, its calculations end and it handles its signals.
FairSpec == /\ Spec
            /\ \A p \in Proc : WF_vars(Step(p)) /\ WF_vars(Interrupt(p))

-----------------------------------------------------------------------------
(* Properties *)

Owner(j) == CHOOSE p \in Proc : \E i \in 1..Len(jobs[p]) : jobs[p][i] = j

\* Nobody writes a final status without clearing is_running, and a row that the
\* queue or the users look at carries the pid of the process that owns the job,
\* whichever of finish, set_status, update_job, del_calc and reset_is_running
\* wrote it last.
RowsAreConsistent ==
  /\ TypeOK
  /\ \A j \in Job : row[j].status # "none" =>
       /\ j \in 1..last
       /\ \E p \in Proc : \E i \in 1..Len(jobs[p]) : jobs[p][i] = j
       /\ row[j].pid \in {NoProc, Owner(j)}
       /\ row[j].status \in Active => row[j].pid # NoProc
       /\ row[j].status \in {"complete", "failed", "aborted"} => ~row[j].is_running

\* While a process runs its calculations, GET_JOBS shows them to the processes
\* that poll: the current one and those that follow it.
VisibleWhileComputing ==
  \A p \in Proc : pc[p] \in {"begin", "run"} /\ ~sig[p] =>
    \A i \in pos[p]..Len(jobs[p]) : jobs[p][i] \in GetJobs

\* p has calculated all it ever will, or was told to stop.
Over(p) == \/ sig[p]
           \/ pc[p] \in {"failing", "aborting", "abort_all", "ended"}
           \/ pc[p] = "close" /\ pos[p] = Len(jobs[p])

Holders == {p \in Proc : pc[p] \in {"mark", "begin", "run", "close"} /\ ~Over(p)}

S == INSTANCE Slots WITH K <- SerializeJobs,
                         holders <- Holders,
                         gone <- {p \in Proc : Over(p)}

\* serialize_jobs bounds the processes that calculate at a time, also when jobs
\* fail, die or are aborted: poll_queue with the table implements the slots.
ImplementsSlots == S!Spec

\* poll_queue and the except clause of run_calc are the only ones to write
\* failed: a job becomes failed only when its process is failing or does not
\* exist any more, however old the list of jobs the poller looks at.
FailedOnlyIfOver ==
  [][\A j \in Job : row'[j].status = "failed" /\ row[j].status # "failed" =>
       pc[Owner(j)] \in {"failing", "ended"}]_vars

\* No process waits in poll_queue for ever, whatever users do, processes die of
\* or the table says: it waits for older jobs only, and those of a process that
\* does not exist are declared failed.
QueueDrains == \A p \in Proc : pc[p] = "poll" ~> pc[p] = "ended"

\* The docstring of poll_queue: it exits when there is a free slot, and not
\* before.
AtMostSerialized ==
  SerializeJobs > 0 => Cardinality(Holders) <= SerializeJobs
=============================================================================
