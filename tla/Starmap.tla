------------------------------ MODULE Starmap ------------------------------
(***************************************************************************)
(* One parallel computation: openquake.baselib.parallel.Starmap in the     *)
(* process of the job (the master), safely_call in the workers, and the    *)
(* ZeroMQ PUSH/PULL sockets between them.                                   *)
(*                                                                         *)
(* The master submits the first num_cores tasks of its queue, then reads   *)
(* one message at a time.  Each task sends any number of partial results   *)
(* and of subtasks and then TASK_ENDED; the master counts in todo the      *)
(* tasks whose TASK_ENDED it has not read and stops reading at zero.       *)
(*                                                                         *)
(* sent[t] is everything task t has handed to its PUSH socket, of which    *)
(* the master has read the first rcvd[t] messages: ZeroMQ keeps the order  *)
(* of one sender and interleaves the senders as it likes.                  *)
(***************************************************************************)
EXTENDS Integers, Sequences, FiniteSets

CONSTANTS
  Task,          \* the tasks that may exist: arguments and subtasks
  Args,          \* the tasks of task_args, in order
  Queued,        \* task_args has a length (FALSE: a generator, or .submit calls)
  NumCores,      \* num_cores
  Distribute,    \* oq_distribute: "no", "processpool" or "zmq"
  OQ_TASK_NO,    \* the environment variable, -1 when it is not set
  Capacity,      \* messages a sender can leave unread (the high water marks)
  MaxSend,       \* bound: results and subtasks sent by one task
  MaxStale,      \* bound: messages of another calculation on the same port
  Faults         \* what may go wrong in this instance

FaultKinds == {"exception",    \* a task raises
               "overflow",     \* send fails, as for objects bigger than 4 GB
               "soft_memory",  \* check_mem_usage warns in the worker
               "unwind",       \* an exception leaves safely_call
               "kill",         \* a worker process is killed
               "version",      \* the worker runs another engine version
               "master"}       \* signal or MemoryError in the master

ASSUME ConstantsAssumption ==
  /\ IsFiniteSet(Task)
  /\ Args \in Seq(Task)
  /\ \A i, j \in 1..Len(Args) : Args[i] = Args[j] => i = j
  /\ Queued \in BOOLEAN
  /\ NumCores \in Nat \ {0}
  /\ Distribute \in {"no", "processpool", "zmq"}
  /\ OQ_TASK_NO \in Int
  /\ Capacity \in Nat \ {0}
  /\ MaxSend \in Nat
  /\ MaxStale \in Nat
  /\ Faults \subseteq FaultKinds

VARIABLES
  pc,          \* the master: "submit", "loop", then "closed" or "raised"
  pool,        \* "open", or "terminated" by Starmap.shutdown
  first_args,  \* arguments to submit before the loop starts
  task_queue,  \* tasks waiting to be submitted
  task_no,     \* number of calls to submit
  tasks,       \* len(self.tasks)
  todo,        \* submitted tasks that have not ended, as the master counts
  wstate,      \* the life of each task
  sent,        \* messages sent by each task
  rcvd,        \* how many of them the master has read
  yielded,     \* messages whose value was handed to the reduction
  stale        \* unread messages of another calculation

mvars == <<pc, pool, first_args, task_queue, task_no, tasks, todo>>
vars  == <<mvars, wstate, sent, rcvd, yielded, stale>>

Message == [kind : {"out", "warn", "exc", "end"}] \cup
           [kind : {"sub"}, task : Task]

\* "unused": no such task yet; "made": in a subtask message the master has not
\* read; "queued": in first_args or task_queue; "skipped": not the task
\* OQ_TASK_NO asks for; "pooled": submitted; "running"; "failed": its function
\* raised; "mismatched": running another version; "done": TASK_ENDED sent;
\* "lost": its process died or safely_call was left by an exception.
WState == {"unused", "made", "queued", "skipped", "pooled", "running",
           "failed", "mismatched", "done", "lost"}

Busy == {"pooled", "running", "failed", "mismatched", "lost"}

TypeOK ==
  /\ pc \in {"submit", "loop", "closed", "raised"}
  /\ pool \in {"open", "terminated"}
  /\ first_args \in Seq(Task)
  /\ task_queue \in Seq(Task)
  /\ task_no \in Nat
  /\ tasks \in Nat
  /\ todo \in Int
  /\ wstate \in [Task -> WState]
  /\ sent \in [Task -> Seq(Message)]
  /\ rcvd \in [Task -> Nat]
  /\ yielded \subseteq Task \X Nat
  /\ stale \in Nat

-----------------------------------------------------------------------------
NumFirst == IF ~Queued \/ Len(Args) < NumCores THEN Len(Args) ELSE NumCores

\* num_tasks is 1, or distribution is off: safely_call runs inside submit
Sync == \/ Distribute = "no"
        \/ Queued /\ Len(Args) = 1
        \/ OQ_TASK_NO # -1

Init ==
  /\ pc = "submit"
  /\ pool = "open"
  /\ first_args = SubSeq(Args, 1, NumFirst)
  /\ task_queue = SubSeq(Args, NumFirst + 1, Len(Args))
  /\ task_no = 0
  /\ tasks = 0
  /\ todo = 0
  /\ wstate = [t \in Task |->
                 IF \E i \in 1..Len(Args) : Args[i] = t THEN "queued" ELSE "unused"]
  /\ sent = [t \in Task |-> << >>]
  /\ rcvd = [t \in Task |-> 0]
  /\ yielded = {}
  /\ stale \in 0..MaxStale

\* The master is not inside a task it runs itself.
MasterFree == Sync => \A t \in Task : wstate[t] \notin Busy

Skipped == OQ_TASK_NO # -1 /\ task_no # OQ_TASK_NO

\* Starmap.submit on top of the task states ws
SubmitFrom(ws, t) ==
  /\ task_no' = task_no + 1
  /\ tasks' = IF Skipped THEN tasks ELSE tasks + 1
  /\ wstate' = [ws EXCEPT ![t] = IF Skipped THEN "skipped" ELSE "pooled"]

\* Mutants: a definition named X_Y is X with the bug Y, for the checks that a
\* property is able to fail.
SubmitMany_Uncounted(q, ws, n) ==
  IF q = << >> THEN task_queue' = q /\ todo' = n /\ wstate' = ws
                    /\ UNCHANGED <<task_no, tasks>>
  ELSE SubmitFrom(ws, Head(q)) /\ task_queue' = Tail(q) /\ todo' = n

SubmitMany_NotRemoved(q, ws, n) ==
  IF q = << >> THEN task_queue' = q /\ todo' = n /\ wstate' = ws
                    /\ UNCHANGED <<task_no, tasks>>
  ELSE SubmitFrom(ws, Head(q)) /\ task_queue' = q /\ todo' = n + 1

SubmitMany_CountsNothing(q, ws, n) ==
  IF q = << >> THEN task_queue' = q /\ todo' = n + 1 /\ wstate' = ws
                    /\ UNCHANGED <<task_no, tasks>>
  ELSE SubmitFrom(ws, Head(q)) /\ task_queue' = Tail(q) /\ todo' = n + 1

\* Starmap._submit_many(1), with the queue q and the task states ws, when the
\* count of tasks to do is n
SubmitMany(q, ws, n) ==
  \/ /\ q = << >>
     /\ task_queue' = q
     /\ todo' = n
     /\ wstate' = ws
     /\ UNCHANGED <<task_no, tasks>>
  \/ /\ q # << >>
     /\ SubmitFrom(ws, Head(q))
     /\ task_queue' = Tail(q)
     /\ todo' = n + 1

-----------------------------------------------------------------------------
(* The master *)

SubmitFirst ==
  /\ pc = "submit" /\ MasterFree
  /\ first_args # << >>
  /\ SubmitFrom(wstate, Head(first_args))
  /\ first_args' = Tail(first_args)
  /\ UNCHANGED <<pc, pool, task_queue, todo, sent, rcvd, yielded, stale>>

\* The start of _loop once the first tasks are submitted; it returns at once
\* when no submit was ever made.
EnterLoop ==
  /\ pc = "submit" /\ MasterFree
  /\ first_args = << >>
  /\ pc' = IF task_no = 0 THEN "closed" ELSE "loop"
  /\ todo' = tasks
  /\ UNCHANGED <<pool, first_args, task_queue, task_no, tasks,
                 wstate, sent, rcvd, yielded, stale>>

Reading == pc = "loop" /\ MasterFree /\ todo # 0

\* The next message of t the master reads, when it reads from t
NextIs(t, kinds) == /\ rcvd[t] < Len(sent[t])
                    /\ sent[t][rcvd[t] + 1].kind \in kinds

Read(t) == rcvd' = [rcvd EXCEPT ![t] = @ + 1]

RecvStale_NotDiscarded ==
  /\ Reading
  /\ stale > 0
  /\ stale' = stale - 1
  /\ SubmitMany(task_queue, wstate, todo - 1)
  /\ UNCHANGED <<pc, pool, first_args, sent, rcvd, yielded>>

\* calc_id differs: the result is discarded.
RecvStale ==
  /\ Reading
  /\ stale > 0
  /\ stale' = stale - 1
  /\ UNCHANGED <<mvars, wstate, sent, rcvd, yielded>>

RecvEnd_NoNextTask(t) ==
  /\ Reading
  /\ NextIs(t, {"end"})
  /\ Read(t)
  /\ todo' = todo - 1
  /\ UNCHANGED <<pc, pool, first_args, task_queue, task_no, tasks,
                 wstate, sent, yielded, stale>>

RecvEnd(t) ==
  /\ Reading
  /\ NextIs(t, {"end"})
  /\ Read(t)
  /\ SubmitMany(task_queue, wstate, todo - 1)
  /\ UNCHANGED <<pc, pool, first_args, sent, yielded, stale>>

RecvSub(t) ==
  /\ Reading
  /\ NextIs(t, {"sub"})
  /\ Read(t)
  /\ LET u == sent[t][rcvd[t] + 1].task
     IN  SubmitMany(Append(task_queue, u),
                    [wstate EXCEPT ![u] = "queued"], todo)
  /\ UNCHANGED <<pc, pool, first_args, sent, yielded, stale>>

RecvOut_NotAtTheLast(t) ==
  /\ Reading
  /\ NextIs(t, {"out", "warn"})
  /\ Read(t)
  /\ yielded' = IF todo = 1 THEN yielded ELSE yielded \cup {<<t, rcvd[t] + 1>>}
  /\ UNCHANGED <<mvars, wstate, sent, stale>>

\* IterResult._iter: a value, the None of a memory warning included, is
\* yielded to the reduction.
RecvOut(t) ==
  /\ Reading
  /\ NextIs(t, {"out", "warn"})
  /\ Read(t)
  /\ yielded' = yielded \cup {<<t, rcvd[t] + 1>>}
  /\ UNCHANGED <<mvars, wstate, sent, stale>>

RecvExc_Logged(t) ==
  /\ Reading
  /\ NextIs(t, {"exc"})
  /\ Read(t)
  /\ UNCHANGED <<mvars, wstate, sent, yielded, stale>>

\* result.get() raises the exception of the task; the loop is abandoned.
RecvExc(t) ==
  /\ Reading
  /\ NextIs(t, {"exc"})
  /\ Read(t)
  /\ pc' = "raised"
  /\ UNCHANGED <<pool, first_args, task_queue, task_no, tasks, todo,
                 wstate, sent, yielded, stale>>

\* check_mem_usage raises in the master after a value was read.
RecvOutOfMemory(t) ==
  /\ "master" \in Faults
  /\ Reading
  /\ NextIs(t, {"out", "warn"})
  /\ Read(t)
  /\ pc' = "raised"
  /\ UNCHANGED <<pool, first_args, task_queue, task_no, tasks, todo,
                 wstate, sent, yielded, stale>>

\* A signal (MasterKilled, or the ZMQError it causes) in the master.
MasterFails ==
  /\ "master" \in Faults
  /\ pc \in {"submit", "loop"}
  /\ pc' = "raised"
  /\ UNCHANGED <<pool, first_args, task_queue, task_no, tasks, todo,
                 wstate, sent, rcvd, yielded, stale>>

CloseLoop_OneTooEarly ==
  /\ pc = "loop" /\ MasterFree /\ todo <= 1
  /\ pc' = "closed"
  /\ tasks' = 0
  /\ UNCHANGED <<pool, first_args, task_queue, task_no, todo,
                 wstate, sent, rcvd, yielded, stale>>

\* The end of _loop; its last log_percent divides by submitted + queued.
CloseLoop ==
  /\ pc = "loop" /\ MasterFree /\ todo = 0
  /\ pc' = IF tasks + Len(task_queue) > 0 THEN "closed" ELSE "raised"
  /\ tasks' = 0
  /\ UNCHANGED <<pool, first_args, task_queue, task_no, todo,
                 wstate, sent, rcvd, yielded, stale>>

\* Starmap.shutdown terminates the pool; workers of zmq are not its children.
Shutdown ==
  /\ pc \in {"closed", "raised"}
  /\ pool = "open"
  /\ pool' = "terminated"
  /\ wstate' = IF Distribute = "zmq" THEN wstate
               ELSE [t \in Task |-> IF wstate[t] \in Busy THEN "lost"
                                                          ELSE wstate[t]]
  /\ UNCHANGED <<pc, first_args, task_queue, task_no, tasks, todo,
                 sent, rcvd, yielded, stale>>

Master == \/ SubmitFirst \/ EnterLoop \/ RecvStale
          \/ \E t \in Task : RecvEnd(t) \/ RecvSub(t) \/ RecvOut(t) \/ RecvExc(t)
          \/ CloseLoop \/ Shutdown

-----------------------------------------------------------------------------
(* safely_call in the worker that runs t *)

\* A process outlives the master only when it is a zmq worker, and a task the
\* master runs itself ends with it.
Alive == pc \in {"submit", "loop"} \/ ~Sync

\* zsocket.send blocks while the high water marks are reached.
Room(t) == Len(sent[t]) - rcvd[t] < Capacity

Send(t, m) == /\ Room(t)
              /\ sent' = [sent EXCEPT ![t] = Append(@, m)]

Become(t, s) == wstate' = [wstate EXCEPT ![t] = s]

Runs(t) == Alive /\ wstate[t] = "running"

Start(t) ==
  /\ Alive /\ wstate[t] = "pooled"
  /\ \/ /\ Become(t, "running")
        /\ sent' = sent
     \/ /\ "soft_memory" \in Faults
        /\ Become(t, "running")
        /\ Send(t, [kind |-> "warn"])
     \/ /\ "version" \in Faults /\ ~Sync
        /\ Become(t, "mismatched")
        /\ sent' = sent
  /\ UNCHANGED <<mvars, rcvd, yielded, stale>>

SendOutput(t) ==
  /\ Runs(t)
  /\ Len(sent[t]) < MaxSend
  /\ Send(t, [kind |-> "out"])
  /\ UNCHANGED <<mvars, wstate, rcvd, yielded, stale>>

SendSubtask(t, u) ==
  /\ Runs(t)
  /\ Len(sent[t]) < MaxSend
  /\ wstate[u] = "unused"
  /\ Send(t, [kind |-> "sub", task |-> u])
  /\ Become(u, "made")
  /\ UNCHANGED <<mvars, rcvd, yielded, stale>>

\* A generator that raised is exhausted: only TASK_ENDED follows.
TaskRaises(t) ==
  /\ "exception" \in Faults
  /\ Runs(t)
  /\ Send(t, [kind |-> "exc"])
  /\ Become(t, "failed")
  /\ UNCHANGED <<mvars, rcvd, yielded, stale>>

\* The exception of a failed send is sent in the place of the result.
SendFails(t) ==
  /\ "overflow" \in Faults
  /\ Runs(t)
  /\ Len(sent[t]) < MaxSend
  /\ Send(t, [kind |-> "exc"])
  /\ UNCHANGED <<mvars, wstate, rcvd, yielded, stale>>

\* Result.new checks the version before it advances the task: every turn of
\* the loop sends the same error.
SendMismatch(t) ==
  /\ Alive /\ wstate[t] = "mismatched"
  /\ Send(t, [kind |-> "exc"])
  /\ UNCHANGED <<mvars, wstate, rcvd, yielded, stale>>

EndTask(t) ==
  /\ Alive /\ wstate[t] \in {"running", "failed"}
  /\ Send(t, [kind |-> "end"])
  /\ Become(t, "done")
  /\ UNCHANGED <<mvars, rcvd, yielded, stale>>

\* check_mem_usage over the hard limit, or a result that cannot be pickled:
\* both are outside the try of Result.new.  In a task the master runs itself
\* the exception reaches the master.
Unwind(t) ==
  /\ "unwind" \in Faults
  /\ Alive /\ wstate[t] \in {"pooled", "running"}
  /\ Become(t, "lost")
  /\ pc' = IF Sync THEN "raised" ELSE pc
  /\ UNCHANGED <<pool, first_args, task_queue, task_no, tasks, todo,
                 sent, rcvd, yielded, stale>>

\* The process of the worker is killed; messages still in its buffers go too.
Kill(t) ==
  /\ "kill" \in Faults /\ ~Sync
  /\ wstate[t] \in {"running", "failed", "mismatched"}
  /\ Become(t, "lost")
  /\ \E n \in rcvd[t]..Len(sent[t]) : sent' = [sent EXCEPT ![t] = SubSeq(@, 1, n)]
  /\ UNCHANGED <<mvars, rcvd, yielded, stale>>

\* What the code of the worker does, its death excepted
Worker(t) == \/ Start(t) \/ SendOutput(t) \/ TaskRaises(t) \/ SendFails(t)
             \/ SendMismatch(t) \/ EndTask(t)
             \/ \E u \in Task : SendSubtask(t, u)

Death(t) == Unwind(t) \/ Kill(t)

Next == \/ Master \/ MasterFails
        \/ \E t \in Task : Worker(t) \/ Death(t) \/ RecvOutOfMemory(t)
        \/ pool = "terminated" /\ UNCHANGED vars

Spec == Init /\ [][Next]_vars

\* The scheduler runs every process and ZeroMQ delivers what it was given.
FairSpec == /\ Spec
            /\ WF_vars(Master)
            /\ \A t \in Task : WF_vars(Worker(t))

-----------------------------------------------------------------------------
(* Properties *)

\* The tasks whose TASK_ENDED the master has still to read
Pending == {t \in Task : \/ wstate[t] \in Busy
                         \/ /\ wstate[t] = "done"
                            /\ rcvd[t] < Len(sent[t])}

\* The values computed by t, as positions in what it sent
Outputs(t) == {<<t, i>> : i \in {j \in 1..Len(sent[t]) : sent[t][j].kind = "out"}}

\* The counter the loop of the master stops on (_loop, submit, _submit_many)
\* is the number of submitted tasks whose end it has not read, whatever the
\* order in which ends, subtasks and results of different tasks arrive.
TodoCounts == pc = "loop" /\ OQ_TASK_NO = -1 => todo = Cardinality(Pending)

\* _submit_many replaces each task that ends by a queued one: as long as tasks
\* wait in the queue, at least num_cores of them are submitted and not ended.
KeepsCoresBusy ==
  pc = "loop" /\ task_queue # << >> /\ OQ_TASK_NO = -1 => todo >= NumCores

\* When _loop closes its socket every task that was given or spawned has run
\* to its end and no message of this calculation is unread: the next Starmap
\* of the same calculation, which accepts any message with its calc_id, cannot
\* receive a result of this one.
NothingLeft ==
  pc = "closed" /\ OQ_TASK_NO = -1 =>
    \A t \in Task : /\ wstate[t] \in {"unused", "done"}
                    /\ rcvd[t] = Len(sent[t])

\* When the computation ends normally every value a task computed has reached
\* the reduction and no task reported an exception (IterResult._iter).
AllReduced ==
  pc = "closed" /\ OQ_TASK_NO = -1 =>
    \A t \in Task : /\ Outputs(t) \subseteq yielded
                    /\ \A i \in 1..Len(sent[t]) : sent[t][i].kind # "exc"

\* The inductive invariant behind TodoCounts, NothingLeft and AllReduced.  The
\* counter is only right because every argument and every subtask is in one
\* place: its parent's unread messages, the queue, or the pool.

\* The queues f and q hold the tasks that ws calls queued, each once.
QueuesHold(f, q, ws) ==
  /\ \A i \in 1..Len(f) : ws[f[i]] = "queued"
  /\ \A i \in 1..Len(q) : ws[q[i]] = "queued"
  /\ \A i, j \in 1..Len(f) : f[i] = f[j] => i = j
  /\ \A i, j \in 1..Len(q) : q[i] = q[j] => i = j
  /\ \A i \in 1..Len(f), j \in 1..Len(q) : f[i] # q[j]
  /\ \A t \in Task : ws[t] = "queued" => \/ \E i \in 1..Len(f) : f[i] = t
                                         \/ \E i \in 1..Len(q) : q[i] = t

QueueInv == QueuesHold(first_args, task_queue, wstate)

\* The master has still to read that t starts the subtask u.
Unread(t) == {i \in 1..Len(sent[t]) : i > rcvd[t]}
Announces(t, i, u) == /\ i \in Unread(t)
                      /\ sent[t][i] = [kind |-> "sub", task |-> u]

\* A subtask in an unread message is known to nobody else.
SubInv ==
  /\ \A t, u \in Task : \A i \in Unread(t) : Announces(t, i, u) => wstate[u] = "made"
  /\ \A t, v, u \in Task : \A i \in Unread(t), j \in Unread(v) :
        Announces(t, i, u) /\ Announces(v, j, u) => t = v /\ i = j
  /\ \A u \in Task : wstate[u] = "made" =>
        \E t \in Task : wstate[t] = "lost" \/ \E i \in Unread(t) : Announces(t, i, u)

\* TASK_ENDED is the last message of a task, and only of a task that is done;
\* a task that has not started has sent nothing.
EndsWell(t) ==
  /\ rcvd[t] <= Len(sent[t])
  /\ \A i \in 1..Len(sent[t]) :
       sent[t][i].kind = "end" => wstate[t] = "done" /\ i = Len(sent[t])
  /\ wstate[t] = "done" => Len(sent[t]) > 0 /\ sent[t][Len(sent[t])].kind = "end"
  /\ wstate[t] \in {"unused", "made", "queued", "pooled"} => sent[t] = << >>
  /\ wstate[t] # "skipped"

EndInv == \A t \in Task : EndsWell(t)

CountInv ==
  /\ pc = "submit" => /\ tasks = Cardinality(Pending)
                      /\ tasks = task_no
                      /\ task_queue # << >> => tasks + Len(first_args) >= NumCores
                      /\ \A t \in Task : rcvd[t] = 0
  /\ pc = "loop" => /\ todo = Cardinality(Pending)
                    /\ first_args = << >>
                    /\ task_queue # << >> => todo >= NumCores
  /\ pc = "closed" => /\ Pending = {}
                      /\ first_args = << >>
                      /\ task_queue = << >>

\* What was read reached the reduction, or the loop was abandoned.
ReadInv ==
  \A t \in Task : \A i \in 1..rcvd[t] :
    pc # "raised" => /\ sent[t][i].kind = "out" => <<t, i>> \in yielded
                     /\ sent[t][i].kind # "exc"

Inv == /\ TypeOK
       /\ OQ_TASK_NO = -1 => QueueInv /\ SubInv /\ EndInv /\ CountInv /\ ReadInv

\* The computation implements ParallelMap.
life == [t \in Task |-> CASE wstate[t] = "unused" -> "unknown"
                          [] wstate[t] = "done"   -> "finished"
                          [] wstate[t] = "lost"   -> "crashed"
                          [] OTHER                -> "open"]

computed == UNION {Outputs(t) : t \in Task}

status == CASE pc = "closed" -> "done"
            [] pc = "raised" -> "failed"
            [] OTHER         -> "running"

PM == INSTANCE ParallelMap WITH Given <- {Args[i] : i \in 1..Len(Args)},
                                Index <- 1..MaxSend, reduced <- yielded

\* Every step of master, workers and sockets is a step of the abstract
\* computation or changes nothing in it: no value is reduced twice or before
\* it is computed, and _loop ends normally only when all is computed and reduced.
ImplementsParallelMap == PM!Spec

\* No order of messages makes the master wait for ever: the loop ends, and the
\* pool is then terminated, unless a task in another process was lost.
Terminates == <>(\/ pool = "terminated"
                 \/ ~Sync /\ \E t \in Task : wstate[t] = "lost")

\* Every task that was submitted is over some day, also when the master fails;
\* only a worker of zmq, which shutdown does not terminate, may be left sending
\* to a master that has failed.
TasksEnd ==
  \A t \in Task : wstate[t] = "pooled" ~>
    \/ wstate[t] \in {"done", "lost"}
    \/ Distribute = "zmq" /\ pc = "raised" /\ ~Room(t)
=============================================================================
