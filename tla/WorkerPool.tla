---------------------------- MODULE WorkerPool ----------------------------
(***************************************************************************)
(* The worker pools of a zmq cluster: WorkerMaster in the DbServer, one    *)
(* WorkerPool process for each start on each host, and the processes of    *)
(* the engine, which start the pools before their calculations and stop    *)
(* them afterwards (run_jobs).                                              *)
(*                                                                         *)
(* The master knows of a pool only by the control port of its host, which  *)
(* answers from the bind to the exit; a pool starts its workers before it  *)
(* binds.  The commands are executed by different threads of the DbServer, *)
(* one step for each host, and nothing keeps two of them apart: a job      *)
(* leaves its slot before it stops the pools, and users may start, stop    *)
(* and restart the workers at any time.                                     *)
(***************************************************************************)
EXTENDS Integers, FiniteSets

CONSTANTS
  Proc,      \* processes that send commands about the workers
  Job,       \* those that execute run_jobs; the others are oq workers
  Host,      \* host_cores
  NoHost,
  Local,     \* the host 127.0.0.1: its pool is the process of the Popen
  Pool,      \* bound: pool processes
  NoPool,
  Faults     \* what may happen in this instance

ASSUME ConstantsAssumption ==
  /\ Job \subseteq Proc
  /\ NoHost \notin Host /\ Local \subseteq Host
  /\ NoPool \notin Pool
  /\ Faults \subseteq {"abort",  \* a job raises, or is aborted, at work
                       "early",  \* and while its pools are starting
                       "slow",   \* a pool is not up after 30 seconds
                       "stop"}   \* oq workers stop or restart

VARIABLES
  pc,        \* where each process is in run_jobs
  slot,      \* the jobs that are executing in the job table
  starting,  \* the hosts its zmq_start has still to look at
  popen,     \* the host its zmq_start is about to start a pool on
  left,      \* the hosts it has still to ask (get_num_workers, zmq_stop)
  asked,     \* the pool it waits an answer from
  on,        \* the pool whose worker executes its task
  popens,    \* the Popen objects of the master
  host,      \* where each pool is
  st,        \* how far each pool is
  work,      \* its workers
  \* What happened, for the properties:
  clear,     \* processes at work that no stop of another has disturbed
  up,        \* the pools that were bound when each process began its stop
  misled     \* the hosts where a start met another start, or a stop

procs == <<pc, slot, starting, popen, left, asked, on>>
pools == <<host, st, work>>
notes == <<clear, up, misled>>
vars  == <<procs, popens, pools, notes>>

Label == {"queue", "start", "wait", "ask", "compute", "finished", "stop", "reap",
          "ended", "hung"}

State == {"none", "spawned", "working", "bound", "closing", "stuck", "gone"}

TypeOK ==
  /\ pc \in [Proc -> Label]
  /\ slot \subseteq Job
  /\ starting \in [Proc -> SUBSET Host]
  /\ popen \in [Proc -> Host \cup {NoHost}]
  /\ left \in [Proc -> SUBSET Host]
  /\ asked \in [Proc -> Pool \cup {NoPool}]
  /\ on \in [Proc -> Pool \cup {NoPool}]
  /\ popens \subseteq Pool
  /\ host \in [Pool -> Host \cup {NoHost}]
  /\ st \in [Pool -> State]
  /\ work \in [Pool -> {"none", "alive", "dead"}]
  /\ clear \subseteq Proc
  /\ up \in [Proc -> SUBSET Pool]
  /\ misled \subseteq Host

Init ==
  /\ pc = [p \in Proc |-> "queue"]
  /\ slot = {}
  /\ starting = [p \in Proc |-> {}]
  /\ popen = [p \in Proc |-> NoHost]
  /\ left = [p \in Proc |-> {}]
  /\ asked = [p \in Proc |-> NoPool]
  /\ on = [p \in Proc |-> NoPool]
  /\ popens = {}
  /\ host = [q \in Pool |-> NoHost]
  /\ st = [q \in Pool |-> "none"]
  /\ work = [q \in Pool |-> "none"]
  /\ clear = {} /\ up = [p \in Proc |-> {}] /\ misled = {}

-----------------------------------------------------------------------------
At(h)      == {q \in Pool : host[q] = h}
Bound(h)   == {q \in At(h) : st[q] \in {"bound", "closing"}}
Answers(h) == Bound(h) # {}

\* A pool of h that will answer, if nobody kills it
Coming(h)  == \E q \in At(h) : st[q] \in {"spawned", "working"}

Goto(p, label) == pc' = [pc EXCEPT ![p] = label]

Stopping(p) == pc[p] \in {"stop", "reap"}

\* No stop of another process is under way, and all that were told have gone.
Undisturbed(p) == /\ \A o \in Proc \ {p} : ~Stopping(o)
                  /\ \A q \in Pool : st[q] # "closing"

ZmqStart(p) ==
  /\ Goto(p, "start")
  /\ starting' = [starting EXCEPT ![p] = Host]
  /\ clear' = IF Undisturbed(p) THEN clear \cup {p} ELSE clear \ {p}

-----------------------------------------------------------------------------
(* zmq_start and zmq_wait *)

\* The jobs come out of poll_queue one at a time: serialize_jobs is 1.
Begin(p) ==
  /\ pc[p] = "queue"
  /\ p \in Job => slot = {}
  /\ slot' = slot \cup (Job \cap {p})
  /\ ZmqStart(p)
  /\ UNCHANGED <<popen, left, asked, on, popens, pools, up, misled>>

\* A start that finds no pool is misled when one is on its way, or when a stop
\* that may have passed here already would not see the new one.
Misleads(h) == \/ Coming(h)
               \/ \E o \in Proc : popen[o] = h \/ Stopping(o)

\* Mutants: a definition named X_Y is X with the bug Y, for the checks that a
\* property is able to fail.
CheckHost_Returns(p, h) ==
  /\ h \in starting[p] /\ popen[p] = NoHost
  /\ starting' = [starting EXCEPT ![p] = {}]
  /\ popen' = [popen EXCEPT ![p] = IF Answers(h) THEN NoHost ELSE h]
  /\ misled' = misled \cup {i \in {h} : ~Answers(h) /\ Misleads(h)}
  /\ UNCHANGED <<pc, slot, left, asked, on, popens, pools, clear, up>>

CheckHost(p, h) ==
  /\ h \in starting[p] /\ popen[p] = NoHost
  /\ starting' = [starting EXCEPT ![p] = @ \ {h}]
  /\ popen' = [popen EXCEPT ![p] = IF Answers(h) THEN NoHost ELSE h]
  /\ misled' = misled \cup {i \in {h} : ~Answers(h) /\ Misleads(h)}
  /\ UNCHANGED <<pc, slot, left, asked, on, popens, pools, clear, up>>

\* Which of the pools that were never started it is does not matter.
Popen(p) ==
  /\ popen[p] # NoHost
  /\ \E q \in Pool : st[q] = "none"
  /\ LET q == CHOOSE q \in Pool : st[q] = "none"
     IN  /\ host' = [host EXCEPT ![q] = popen[p]]
         /\ st' = [st EXCEPT ![q] = "spawned"]
         /\ popens' = popens \cup {q}
  /\ popen' = [popen EXCEPT ![p] = NoHost]
  /\ UNCHANGED <<pc, slot, starting, left, asked, on, work, notes>>

StartDone(p) ==
  /\ pc[p] = "start" /\ starting[p] = {} /\ popen[p] = NoHost
  /\ Goto(p, IF p \in Job THEN "wait" ELSE "ended")
  /\ clear' = clear \ ({p} \ Job)
  /\ UNCHANGED <<slot, starting, popen, left, asked, on, popens, pools, up, misled>>

WaitDone_Any(p) ==
  /\ pc[p] = "wait"
  /\ \E h \in Host : Answers(h)
  /\ Goto(p, "ask")
  /\ left' = [left EXCEPT ![p] = Host]
  /\ UNCHANGED <<slot, starting, popen, asked, on, popens, pools, notes>>

WaitDone(p) ==
  /\ pc[p] = "wait"
  /\ \A h \in Host : Answers(h)
  /\ Goto(p, "ask")
  /\ left' = [left EXCEPT ![p] = Host]
  /\ UNCHANGED <<slot, starting, popen, asked, on, popens, pools, notes>>

\* The TimeoutError ends the thread of the DbServer: the process waits for ever.
WaitRaises(p) ==
  /\ pc[p] = "wait"
  /\ \E h \in Host : ~Answers(h) /\ ("slow" \in Faults \/ ~Coming(h))
  /\ Goto(p, "hung")
  /\ UNCHANGED <<slot, starting, popen, left, asked, on, popens, pools, notes>>

-----------------------------------------------------------------------------
(* The calculation *)

\* set_concurrent_tasks_default asks the pools that answer for their number of
\* workers; zmq_stop tells them to stop.
AskHost(p, h) ==
  /\ pc[p] \in {"ask", "stop"}
  /\ h \in left[p] /\ asked[p] = NoPool
  /\ left' = [left EXCEPT ![p] = @ \ {h}]
  /\ IF Answers(h) THEN \E q \in Bound(h) : asked' = [asked EXCEPT ![p] = q]
     ELSE asked' = asked
  /\ misled' = misled \cup {i \in {h} : pc[p] = "stop" /\ (Coming(h) \/ \E o \in Proc : popen[o] = h)}
  /\ UNCHANGED <<pc, slot, starting, popen, on, popens, pools, clear, up>>

Compute(p) ==
  /\ pc[p] = "ask" /\ left[p] = {} /\ asked[p] = NoPool
  /\ Goto(p, "compute")
  /\ UNCHANGED <<slot, starting, popen, left, asked, on, popens, pools, notes>>

\* The streamer gives the task to any worker that is connected.
PullTask(p, q) ==
  /\ pc[p] = "compute" /\ on[p] = NoPool
  /\ work[q] = "alive"
  /\ on' = [on EXCEPT ![p] = q]
  /\ UNCHANGED <<pc, slot, starting, popen, left, asked, popens, pools, notes>>

\* The job is finished in the job table and leaves its slot.
FinishCalc(p) ==
  /\ pc[p] = "compute"
  /\ \/ on[p] # NoPool /\ work[on[p]] = "alive"
     \/ "abort" \in Faults
  /\ Goto(p, "finished")
  /\ slot' = slot \ {p}
  /\ on' = [on EXCEPT ![p] = NoPool]
  /\ UNCHANGED <<starting, popen, left, asked, popens, pools, notes>>

\* A signal while dbcmd waits.  Before run_calc the job is not finished in the
\* table, and the thread of zmq_start goes on.
Interrupt(p) ==
  /\ p \in Job
  /\ \/ "abort" \in Faults /\ pc[p] = "ask"
     \/ "early" \in Faults /\ pc[p] \in {"start", "wait", "hung"}
  /\ Goto(p, "finished")
  /\ slot' = IF pc[p] = "ask" THEN slot \ {p} ELSE slot
  /\ left' = [left EXCEPT ![p] = {}]
  /\ asked' = [asked EXCEPT ![p] = NoPool]
  /\ UNCHANGED <<starting, popen, on, popens, pools, notes>>

-----------------------------------------------------------------------------
(* zmq_stop, in the finally clause of run_jobs or of a user *)

UserStops(p) ==
  /\ "stop" \in Faults
  /\ p \notin Job /\ pc[p] = "queue"
  /\ Goto(p, "finished")
  /\ clear' = IF Undisturbed(p) THEN clear \cup {p} ELSE clear
  /\ UNCHANGED <<slot, starting, popen, left, asked, on, popens, pools, up, misled>>

BeginStop_PopensOnly(p) ==
  /\ pc[p] = "finished"
  /\ Goto(p, "stop")
  /\ clear' = clear \cap {p}
  /\ up' = [up EXCEPT ![p] = {q \in Pool : st[q] = "bound"}]
  /\ UNCHANGED <<slot, starting, popen, left, asked, on, popens, pools, misled>>

BeginStop(p) ==
  /\ pc[p] = "finished"
  /\ Goto(p, "stop")
  /\ left' = [left EXCEPT ![p] = Host]
  /\ clear' = clear \cap {p}
  /\ up' = [up EXCEPT ![p] = {q \in Pool : st[q] = "bound"}]
  /\ UNCHANGED <<slot, starting, popen, asked, on, popens, pools, misled>>

\* SIGTERM to the processes of the master.  Their workers are not told; an ssh
\* that ends does not end the pool of the other host.
Terminate(p) ==
  /\ pc[p] = "stop" /\ left[p] = {} /\ asked[p] = NoPool
  /\ Goto(p, "reap")
  /\ st' = [q \in Pool |-> IF q \in popens /\ host[q] \in Local THEN "gone" ELSE st[q]]
  /\ UNCHANGED <<slot, starting, popen, left, asked, on, popens, host, work, notes>>

\* The process of a job ends, and with it its slot.
Reap(p) ==
  /\ pc[p] = "reap"
  /\ popens' = {}
  /\ Goto(p, "ended")
  /\ slot' = slot \ {p}
  /\ clear' = clear \ {p} /\ up' = [up EXCEPT ![p] = {}]
  /\ UNCHANGED <<starting, popen, left, asked, on, pools, misled>>

\* restart: the same thread starts the pools again.
Restart(p) ==
  /\ pc[p] = "reap" /\ p \notin Job
  /\ popens' = {}
  /\ ZmqStart(p)
  /\ up' = [up EXCEPT ![p] = {}]
  /\ UNCHANGED <<slot, popen, left, asked, on, pools, misled>>

-----------------------------------------------------------------------------
(* A pool *)

StartWorkers(q) ==
  /\ st[q] = "spawned"
  /\ st' = [st EXCEPT ![q] = "working"]
  /\ work' = [work EXCEPT ![q] = "alive"]
  /\ UNCHANGED <<procs, popens, host, notes>>

\* A pool that finds its port taken raises; its process then waits for its
\* workers, which do not end.
Bind(q) ==
  /\ st[q] = "working"
  /\ st' = [st EXCEPT ![q] = IF Answers(host[q]) THEN "stuck" ELSE "bound"]
  /\ UNCHANGED <<procs, popens, host, work, notes>>

Answer_BreakFirst(q, p) ==
  /\ st[q] = "bound" /\ asked[p] = q
  /\ IF pc[p] = "stop"
     THEN /\ st' = [st EXCEPT ![q] = "closing"]
          /\ work' = [work EXCEPT ![q] = "dead"]
          /\ asked' = asked
     ELSE /\ asked' = [asked EXCEPT ![p] = NoPool]
          /\ UNCHANGED <<st, work>>
  /\ UNCHANGED <<pc, slot, starting, popen, left, on, popens, host, notes>>

Answer_NoSigterm(q, p) ==
  /\ st[q] = "bound" /\ asked[p] = q
  /\ asked' = [asked EXCEPT ![p] = NoPool]
  /\ IF pc[p] = "stop" THEN st' = [st EXCEPT ![q] = "closing"] ELSE st' = st
  /\ UNCHANGED <<pc, slot, starting, popen, left, on, popens, host, work, notes>>

\* The control loop: stop kills the workers and waits for them.
Answer(q, p) ==
  /\ st[q] = "bound" /\ asked[p] = q
  /\ asked' = [asked EXCEPT ![p] = NoPool]
  /\ IF pc[p] = "stop"
     THEN /\ st' = [st EXCEPT ![q] = "closing"]
          /\ work' = [work EXCEPT ![q] = "dead"]
     ELSE UNCHANGED <<st, work>>
  /\ UNCHANGED <<pc, slot, starting, popen, left, on, popens, host, notes>>

Exit(q) ==
  /\ st[q] = "closing"
  /\ st' = [st EXCEPT ![q] = "gone"]
  /\ UNCHANGED <<procs, popens, host, work, notes>>

ProcStep(p) ==
  \/ Popen(p) \/ StartDone(p) \/ WaitDone(p) \/ Compute(p) \/ FinishCalc(p)
  \/ BeginStop(p) \/ Terminate(p) \/ Reap(p) \/ Restart(p)
  \/ \E h \in Host : CheckHost(p, h) \/ AskHost(p, h)
  \/ \E q \in Pool : PullTask(p, q)

PoolStep(q) == \/ StartWorkers(q) \/ Bind(q) \/ Exit(q)
               \/ \E p \in Proc : Answer(q, p)

Next == \/ \E p \in Proc : \/ Begin(p) \/ UserStops(p) \/ ProcStep(p)
                            \/ WaitRaises(p) \/ Interrupt(p)
        \/ \E q \in Pool : PoolStep(q)

Spec == Init /\ [][Next]_vars

\* Processes, threads and pools go on; users need not start anything.
FairSpec == /\ Spec
            /\ \A p \in Proc : WF_vars(ProcStep(p))
            /\ \A q \in Pool : WF_vars(PoolStep(q))

-----------------------------------------------------------------------------
(* Properties *)

\* While a job computes, every host has a pool that answers and has workers.
\* The job is finished, and the next one starts, before it stops the pools that
\* both use.
PoolsStay ==
  \A p \in Proc : pc[p] \in {"ask", "compute"} =>
    \A h \in Host : \E q \in At(h) : st[q] = "bound" /\ work[q] = "alive"

\* It has them as long as no stop of another process was under way when it
\* started and none began since, whoever else starts pools, is interrupted or
\* left pools behind: nothing but a stop takes the pools it found or started.
AtWork ==
  \A p \in clear : pc[p] \in {"ask", "compute"} =>
    \A h \in Host : \E q \in At(h) : st[q] = "bound" /\ work[q] = "alive"

\* The workers that live on a host are those of one pool that will obey a stop,
\* unless a start or a stop there met a start under way: a host is not spoilt
\* by stops that meet, by aborts, or by what happens on other hosts.
WorkersAreManaged ==
  /\ TypeOK
  /\ \A q \in Pool : work[q] = "alive" /\ host[q] \notin misled =>
       /\ st[q] \in {"working", "bound"}
       /\ \A r \in At(host[q]) \ {q} : work[r] # "alive"

\* A stop that no other one meets has killed the workers of every pool that was
\* bound when it began, whoever started it.
NoneLeftBehind ==
  \A p \in clear : pc[p] = "reap" => \A q \in up[p] : work[q] = "dead"

\* zmq_wait polls for pools that are there or will be: while no stop disturbs
\* it, it cannot fail but for the time they take.
WaitsForSomeone ==
  \A p \in clear : pc[p] = "wait" => \A h \in Host : Answers(h) \/ Coming(h)

\* A job that starts the workers gets to the end of its zmq_stop, waits for
\* ever on a thread of the DbServer whose zmq_wait raised, or meets a stop.
JobsEnd ==
  \A p \in Job : pc[p] = "start" ~> pc[p] \in {"ended", "hung"} \/ p \notin clear
=============================================================================
