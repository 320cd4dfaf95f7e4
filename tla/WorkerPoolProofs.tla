-------------------------- MODULE WorkerPoolProofs --------------------------
(***************************************************************************)
(* Theorems about WorkerPool, for any number of hosts, of jobs and of       *)
(* commands about the workers, in any order and with any of the Faults.     *)
(***************************************************************************)
EXTENDS WorkerPool, TLAPS

\* A pool that has its port, or will ask for it
Live(q) == st[q] \in {"spawned", "working", "bound", "closing"}

Up(h) == \E q \in At(h) : st[q] \in {"spawned", "working", "bound"}

\* How far a pool is, where it is and what its workers do; a port has one pool.
PoolInv ==
  /\ \A q \in Pool :
       /\ st[q] = "none" <=> host[q] = NoHost
       /\ st[q] \in {"working", "bound"} => work[q] = "alive"
       /\ st[q] \in {"none", "spawned"} => work[q] = "none"
  /\ \A q, r \in Pool : /\ {st[q], st[r]} \subseteq {"bound", "closing"}
                        /\ host[q] = host[r]
                        => q = r

\* A host where no start met another one, or a stop, has one pool at most, or
\* a Popen that is about to make it; a stop that has asked the host, and is not
\* over, left none but the one it waits an answer from.
HostAt(h) ==
  /\ \A q \in At(h) : work[q] = "alive" => st[q] \in {"working", "bound"}
  /\ \A q, r \in At(h) : Live(q) /\ Live(r) => q = r
  /\ \A p \in Proc : popen[p] = h => \A q \in At(h) : ~Live(q)
  /\ \A p, o \in Proc : popen[p] = h /\ popen[o] = h => p = o
  /\ \A p \in Proc : Stopping(p) /\ h \notin left[p] =>
       /\ \A o \in Proc : popen[o] # h
       /\ \A q \in At(h) : /\ st[q] \notin {"spawned", "working"}
                           /\ st[q] = "bound" => asked[p] = q

HostInv == \A h \in Host \ misled : HostAt(h)

\* What each process keeps is about the step it is at.
LocalInv ==
  \A p \in Proc :
    /\ pc[p] \in {"wait", "ask", "compute"} => starting[p] = {} /\ popen[p] = NoHost
    /\ pc[p] = "reap" => left[p] = {} /\ asked[p] = NoPool

\* A process is clear until the stop of another one begins.
ClearInv ==
  \A p \in clear :
    /\ pc[p] \notin {"queue", "ended"}
    /\ \A o \in Proc \ {p} : ~Stopping(o)
    /\ ~Stopping(p) => \A q \in Pool : st[q] # "closing"

\* zmq_start: the hosts a clear process has looked at have a pool or its Popen;
\* while it computes they have one that is bound.
StartInv ==
  \A p \in clear :
    /\ pc[p] \in {"start", "wait"} =>
         \A h \in Host \ starting[p] : popen[p] = h \/ Up(h)
    /\ pc[p] \in {"ask", "compute"} =>
         \A h \in Host : \E q \in At(h) : st[q] = "bound"

\* zmq_stop: a pool that was bound is stopped, was asked or is still to be.
StopInv ==
  \A p \in clear : Stopping(p) =>
    \A q \in up[p] : \/ work[q] = "dead"
                     \/ st[q] = "bound" /\ (host[q] \in left[p] \/ asked[p] = q)

Inv == /\ TypeOK
       /\ PoolInv /\ HostInv /\ LocalInv
       /\ ClearInv /\ StartInv /\ StopInv

-----------------------------------------------------------------------------
LEMMA TypeNext ==
  ASSUME TypeOK, [Next]_vars
  PROVE  TypeOK'
  <1>1. ASSUME NEW p \in Proc, Begin(p) PROVE TypeOK'
    BY <1>1 DEF TypeOK, Label, State, Begin, ZmqStart, Goto, pools
  <1>2. ASSUME NEW p \in Proc, UserStops(p) PROVE TypeOK'
    BY <1>2 DEF TypeOK, Label, State, UserStops, Goto, pools
  <1>3. ASSUME NEW p \in Proc, NEW h \in Host, CheckHost(p, h) PROVE TypeOK'
    BY <1>3 DEF TypeOK, Label, State, CheckHost, pools
  <1>4. ASSUME NEW p \in Proc, Popen(p) PROVE TypeOK'
    BY <1>4 DEF TypeOK, Label, State, Popen, notes
  <1>5. ASSUME NEW p \in Proc, StartDone(p) PROVE TypeOK'
    BY <1>5 DEF TypeOK, Label, State, StartDone, Goto, pools
  <1>6. ASSUME NEW p \in Proc, WaitDone(p) PROVE TypeOK'
    BY <1>6 DEF TypeOK, Label, State, WaitDone, Goto, pools, notes
  <1>7. ASSUME NEW p \in Proc, WaitRaises(p) PROVE TypeOK'
    BY <1>7 DEF TypeOK, Label, State, WaitRaises, Goto, pools, notes
  <1>8. ASSUME NEW p \in Proc, NEW h \in Host, AskHost(p, h) PROVE TypeOK'
    BY <1>8 DEF TypeOK, Label, State, AskHost, At, Bound, pools
  <1>9. ASSUME NEW p \in Proc, Compute(p) PROVE TypeOK'
    BY <1>9 DEF TypeOK, Label, State, Compute, Goto, pools, notes
  <1>10. ASSUME NEW p \in Proc, NEW q \in Pool, PullTask(p, q) PROVE TypeOK'
    BY <1>10 DEF TypeOK, Label, State, PullTask, pools, notes
  <1>11. ASSUME NEW p \in Proc, FinishCalc(p) PROVE TypeOK'
    BY <1>11 DEF TypeOK, Label, State, FinishCalc, Goto, pools, notes
  <1>12. ASSUME NEW p \in Proc, Interrupt(p) PROVE TypeOK'
    BY <1>12 DEF TypeOK, Label, State, Interrupt, Goto, pools, notes
  <1>13. ASSUME NEW p \in Proc, BeginStop(p) PROVE TypeOK'
    BY <1>13 DEF TypeOK, Label, State, BeginStop, Goto, pools
  <1>14. ASSUME NEW p \in Proc, Terminate(p) PROVE TypeOK'
    BY <1>14 DEF TypeOK, Label, State, Terminate, Goto, notes
  <1>15. ASSUME NEW p \in Proc, Reap(p) PROVE TypeOK'
    BY <1>15 DEF TypeOK, Label, State, Reap, Goto, pools
  <1>16. ASSUME NEW p \in Proc, Restart(p) PROVE TypeOK'
    BY <1>16 DEF TypeOK, Label, State, Restart, ZmqStart, Goto, pools
  <1>17. ASSUME NEW q \in Pool, StartWorkers(q) PROVE TypeOK'
    BY <1>17 DEF TypeOK, Label, State, StartWorkers, procs, notes
  <1>18. ASSUME NEW q \in Pool, Bind(q) PROVE TypeOK'
    BY <1>18 DEF TypeOK, Label, State, Bind, procs, notes
  <1>19. ASSUME NEW q \in Pool, NEW p \in Proc, Answer(q, p) PROVE TypeOK'
    BY <1>19 DEF TypeOK, Label, State, Answer, notes
  <1>20. ASSUME NEW q \in Pool, Exit(q) PROVE TypeOK'
    BY <1>20 DEF TypeOK, Label, State, Exit, procs, notes
  <1>21. CASE UNCHANGED vars
    BY <1>21 DEF TypeOK, vars, procs, pools, notes
  <1> QED BY <1>1, <1>2, <1>3, <1>4, <1>5, <1>6, <1>7, <1>8, <1>9, <1>10, <1>11, <1>12,
     <1>13, <1>14, <1>15, <1>16, <1>17, <1>18, <1>19, <1>20, <1>21 DEF Next, ProcStep, PoolStep

\* A pool binds its port only if no other one has it, and workers are started
\* before and killed with the control loop.
LEMMA PoolNext ==
  ASSUME TypeOK, PoolInv, [Next]_vars
  PROVE  PoolInv'
  <1>1. ASSUME NEW p \in Proc, Begin(p) PROVE PoolInv'
    BY <1>1 DEF PoolInv, Begin, ZmqStart, pools
  <1>2. ASSUME NEW p \in Proc, UserStops(p) PROVE PoolInv'
    BY <1>2 DEF PoolInv, UserStops, pools
  <1>3. ASSUME NEW p \in Proc, NEW h \in Host, CheckHost(p, h) PROVE PoolInv'
    BY <1>3 DEF PoolInv, CheckHost, pools
  <1>4. ASSUME NEW p \in Proc, Popen(p) PROVE PoolInv'
    BY <1>4, ConstantsAssumption DEF TypeOK, PoolInv, Popen
  <1>5. ASSUME NEW p \in Proc, StartDone(p) PROVE PoolInv'
    BY <1>5 DEF PoolInv, StartDone, pools
  <1>6. ASSUME NEW p \in Proc, WaitDone(p) PROVE PoolInv'
    BY <1>6 DEF PoolInv, WaitDone, pools
  <1>7. ASSUME NEW p \in Proc, WaitRaises(p) PROVE PoolInv'
    BY <1>7 DEF PoolInv, WaitRaises, pools
  <1>8. ASSUME NEW p \in Proc, NEW h \in Host, AskHost(p, h) PROVE PoolInv'
    BY <1>8 DEF PoolInv, AskHost, pools
  <1>9. ASSUME NEW p \in Proc, Compute(p) PROVE PoolInv'
    BY <1>9 DEF PoolInv, Compute, pools
  <1>10. ASSUME NEW p \in Proc, NEW q \in Pool, PullTask(p, q) PROVE PoolInv'
    BY <1>10 DEF PoolInv, PullTask, pools
  <1>11. ASSUME NEW p \in Proc, FinishCalc(p) PROVE PoolInv'
    BY <1>11 DEF PoolInv, FinishCalc, pools
  <1>12. ASSUME NEW p \in Proc, Interrupt(p) PROVE PoolInv'
    BY <1>12 DEF PoolInv, Interrupt, pools
  <1>13. ASSUME NEW p \in Proc, BeginStop(p) PROVE PoolInv'
    BY <1>13 DEF PoolInv, BeginStop, pools
  <1>14. ASSUME NEW p \in Proc, Terminate(p) PROVE PoolInv'
    BY <1>14, ConstantsAssumption DEF PoolInv, Terminate, Goto, notes
  <1>15. ASSUME NEW p \in Proc, Reap(p) PROVE PoolInv'
    BY <1>15 DEF PoolInv, Reap, pools
  <1>16. ASSUME NEW p \in Proc, Restart(p) PROVE PoolInv'
    BY <1>16 DEF PoolInv, Restart, ZmqStart, pools
  <1>17. ASSUME NEW q \in Pool, StartWorkers(q) PROVE PoolInv'
    BY <1>17 DEF TypeOK, PoolInv, StartWorkers
  <1>18. ASSUME NEW q \in Pool, Bind(q) PROVE PoolInv'
    BY <1>18, ConstantsAssumption DEF PoolInv, Bind, Answers, Bound, At
  <1>19. ASSUME NEW q \in Pool, NEW p \in Proc, Answer(q, p) PROVE PoolInv'
    BY <1>19 DEF TypeOK, PoolInv, Answer
  <1>20. ASSUME NEW q \in Pool, Exit(q) PROVE PoolInv'
    BY <1>20 DEF PoolInv, Exit
  <1>21. CASE UNCHANGED vars
    BY <1>21 DEF PoolInv, vars, procs, pools, notes
  <1> QED BY <1>1, <1>2, <1>3, <1>4, <1>5, <1>6, <1>7, <1>8, <1>9, <1>10, <1>11, <1>12,
     <1>13, <1>14, <1>15, <1>16, <1>17, <1>18, <1>19, <1>20, <1>21 DEF Next, ProcStep, PoolStep

\* A process waits and computes after its own starts, and ends after its own
\* requests.
LEMMA LocalNext ==
  ASSUME TypeOK, LocalInv, [Next]_vars
  PROVE  LocalInv'
  <1>1. ASSUME NEW p \in Proc, Begin(p) PROVE LocalInv'
    BY <1>1 DEF LocalInv, Begin, ZmqStart, Goto
  <1>2. ASSUME NEW p \in Proc, UserStops(p) PROVE LocalInv'
    BY <1>2 DEF LocalInv, UserStops, Goto
  <1>3. ASSUME NEW p \in Proc, NEW h \in Host, CheckHost(p, h) PROVE LocalInv'
    BY <1>3 DEF LocalInv, CheckHost
  <1>4. ASSUME NEW p \in Proc, Popen(p) PROVE LocalInv'
    BY <1>4 DEF LocalInv, Popen
  <1>5. ASSUME NEW p \in Proc, StartDone(p) PROVE LocalInv'
    BY <1>5 DEF LocalInv, StartDone, Goto
  <1>6. ASSUME NEW p \in Proc, WaitDone(p) PROVE LocalInv'
    BY <1>6 DEF LocalInv, WaitDone, Goto
  <1>7. ASSUME NEW p \in Proc, WaitRaises(p) PROVE LocalInv'
    BY <1>7 DEF LocalInv, WaitRaises, Goto
  <1>8. ASSUME NEW p \in Proc, NEW h \in Host, AskHost(p, h) PROVE LocalInv'
    BY <1>8 DEF TypeOK, LocalInv, AskHost
  <1>9. ASSUME NEW p \in Proc, Compute(p) PROVE LocalInv'
    BY <1>9 DEF LocalInv, Compute, Goto
  <1>10. ASSUME NEW p \in Proc, NEW q \in Pool, PullTask(p, q) PROVE LocalInv'
    BY <1>10 DEF LocalInv, PullTask
  <1>11. ASSUME NEW p \in Proc, FinishCalc(p) PROVE LocalInv'
    BY <1>11 DEF LocalInv, FinishCalc, Goto
  <1>12. ASSUME NEW p \in Proc, Interrupt(p) PROVE LocalInv'
    BY <1>12 DEF LocalInv, Interrupt, Goto
  <1>13. ASSUME NEW p \in Proc, BeginStop(p) PROVE LocalInv'
    BY <1>13 DEF LocalInv, BeginStop, Goto
  <1>14. ASSUME NEW p \in Proc, Terminate(p) PROVE LocalInv'
    BY <1>14 DEF LocalInv, Terminate, Goto
  <1>15. ASSUME NEW p \in Proc, Reap(p) PROVE LocalInv'
    BY <1>15 DEF LocalInv, Reap, Goto
  <1>16. ASSUME NEW p \in Proc, Restart(p) PROVE LocalInv'
    BY <1>16 DEF LocalInv, Restart, ZmqStart, Goto
  <1>17. ASSUME NEW q \in Pool, StartWorkers(q) PROVE LocalInv'
    BY <1>17 DEF LocalInv, StartWorkers, procs
  <1>18. ASSUME NEW q \in Pool, Bind(q) PROVE LocalInv'
    BY <1>18 DEF LocalInv, Bind, procs
  <1>19. ASSUME NEW q \in Pool, NEW p \in Proc, Answer(q, p) PROVE LocalInv'
    BY <1>19 DEF LocalInv, Answer
  <1>20. ASSUME NEW q \in Pool, Exit(q) PROVE LocalInv'
    BY <1>20 DEF LocalInv, Exit, procs
  <1>21. CASE UNCHANGED vars
    BY <1>21 DEF LocalInv, vars, procs, pools, notes
  <1> QED BY <1>1, <1>2, <1>3, <1>4, <1>5, <1>6, <1>7, <1>8, <1>9, <1>10, <1>11, <1>12,
     <1>13, <1>14, <1>15, <1>16, <1>17, <1>18, <1>19, <1>20, <1>21 DEF Next, ProcStep, PoolStep

\* BeginStop leaves only the process itself clear, and only the answer to a stop
\* makes a pool close.
LEMMA ClearNext ==
  ASSUME TypeOK, LocalInv, ClearInv, [Next]_vars
  PROVE  ClearInv'
  <1>1. ASSUME NEW p \in Proc, Begin(p) PROVE ClearInv'
    BY <1>1 DEF TypeOK, ClearInv, Stopping, Begin, ZmqStart, Undisturbed, Goto, pools
  <1>2. ASSUME NEW p \in Proc, UserStops(p) PROVE ClearInv'
    BY <1>2 DEF TypeOK, ClearInv, Stopping, UserStops, Undisturbed, Goto, pools
  <1>3. ASSUME NEW p \in Proc, NEW h \in Host, CheckHost(p, h) PROVE ClearInv'
    BY <1>3 DEF ClearInv, Stopping, CheckHost, pools
  <1>4. ASSUME NEW p \in Proc, Popen(p) PROVE ClearInv'
    BY <1>4 DEF ClearInv, Stopping, Popen, notes
  <1>5. ASSUME NEW p \in Proc, StartDone(p) PROVE ClearInv'
    BY <1>5 DEF ClearInv, Stopping, StartDone, Goto, pools
  <1>6. ASSUME NEW p \in Proc, WaitDone(p) PROVE ClearInv'
    BY <1>6 DEF ClearInv, Stopping, WaitDone, Goto, pools, notes
  <1>7. ASSUME NEW p \in Proc, WaitRaises(p) PROVE ClearInv'
    BY <1>7 DEF ClearInv, Stopping, WaitRaises, Goto, pools, notes
  <1>8. ASSUME NEW p \in Proc, NEW h \in Host, AskHost(p, h) PROVE ClearInv'
    BY <1>8 DEF ClearInv, Stopping, AskHost, pools
  <1>9. ASSUME NEW p \in Proc, Compute(p) PROVE ClearInv'
    BY <1>9 DEF ClearInv, Stopping, Compute, Goto, pools, notes
  <1>10. ASSUME NEW p \in Proc, NEW q \in Pool, PullTask(p, q) PROVE ClearInv'
    BY <1>10 DEF ClearInv, Stopping, PullTask, pools, notes
  <1>11. ASSUME NEW p \in Proc, FinishCalc(p) PROVE ClearInv'
    BY <1>11 DEF ClearInv, Stopping, FinishCalc, Goto, pools, notes
  <1>12. ASSUME NEW p \in Proc, Interrupt(p) PROVE ClearInv'
    BY <1>12 DEF ClearInv, Stopping, Interrupt, Goto, pools, notes
  <1>13. ASSUME NEW p \in Proc, BeginStop(p) PROVE ClearInv'
    BY <1>13 DEF ClearInv, Stopping, BeginStop, Goto, pools
  <1>14. ASSUME NEW p \in Proc, Terminate(p) PROVE ClearInv'
    BY <1>14 DEF ClearInv, Stopping, Terminate, Goto, notes
  <1>15. ASSUME NEW p \in Proc, Reap(p) PROVE ClearInv'
    BY <1>15 DEF ClearInv, Stopping, Reap, Goto, pools
  <1>16. ASSUME NEW p \in Proc, Restart(p) PROVE ClearInv'
    BY <1>16 DEF ClearInv, Stopping, Restart, ZmqStart, Undisturbed, Goto, pools
  <1>17. ASSUME NEW q \in Pool, StartWorkers(q) PROVE ClearInv'
    BY <1>17 DEF ClearInv, Stopping, StartWorkers, procs, notes
  <1>18. ASSUME NEW q \in Pool, Bind(q) PROVE ClearInv'
    BY <1>18 DEF ClearInv, Stopping, Bind, procs, notes
  <1>19. ASSUME NEW q \in Pool, NEW p \in Proc, Answer(q, p) PROVE ClearInv'
    BY <1>19 DEF ClearInv, Stopping, Answer, notes
  <1>20. ASSUME NEW q \in Pool, Exit(q) PROVE ClearInv'
    BY <1>20 DEF ClearInv, Stopping, Exit, procs, notes
  <1>21. CASE UNCHANGED vars
    BY <1>21 DEF ClearInv, Stopping, vars, procs, pools, notes
  <1> QED BY <1>1, <1>2, <1>3, <1>4, <1>5, <1>6, <1>7, <1>8, <1>9, <1>10, <1>11, <1>12,
     <1>13, <1>14, <1>15, <1>16, <1>17, <1>18, <1>19, <1>20, <1>21 DEF Next, ProcStep, PoolStep

\* Without an overlap the host has no pool when a start finds that none answers,
\* and gets none between the request of a stop and its end.
LEMMA HostNext ==
  ASSUME TypeOK, PoolInv, HostInv, LocalInv, [Next]_vars
  PROVE  HostInv'
  <1>1. ASSUME NEW p \in Proc, Begin(p) PROVE HostInv'
    BY <1>1 DEF HostInv, HostAt, Live, Stopping, At, Begin, ZmqStart, Goto, pools
  <1>2. ASSUME NEW p \in Proc, UserStops(p) PROVE HostInv'
    BY <1>2 DEF HostInv, HostAt, Live, Stopping, At, UserStops, Goto, pools
  <1>3. ASSUME NEW p \in Proc, NEW h \in Host, CheckHost(p, h) PROVE HostInv'
    BY <1>3 DEF HostInv, HostAt, Live, Stopping, At, CheckHost, Misleads, Coming, Answers,
       Bound, pools
  <1>4. ASSUME NEW p \in Proc, Popen(p) PROVE HostInv'
    <2> DEFINE new == CHOOSE q \in Pool : st[q] = "none"
    <2>1. new \in Pool /\ st[new] = "none" /\ popen[p] \in Host
      BY <1>4 DEF Popen, TypeOK
    <2>2. /\ host' = [host EXCEPT ![new] = popen[p]]
          /\ st' = [st EXCEPT ![new] = "spawned"]
          /\ popen' = [popen EXCEPT ![p] = NoHost]
          /\ UNCHANGED <<pc, left, asked, work, misled>>
      BY <1>4 DEF Popen, notes
    <2> HIDE DEF new
    <2>3. work[new] = "none" /\ \A h \in Host : new \notin At(h)
      BY <2>1, ConstantsAssumption DEF PoolInv, At
    <2> SUFFICES ASSUME NEW h \in Host \ misled PROVE HostAt(h)'
      BY <2>2 DEF HostInv
    <2>4. CASE h # popen[p]
      BY <2>1, <2>2, <2>3, <2>4, ConstantsAssumption DEF HostInv, HostAt, At, Live, Stopping
    <2>5. CASE h = popen[p]
      BY <2>1, <2>2, <2>3, <2>5, ConstantsAssumption DEF HostInv, HostAt, At, Live,
         Stopping, TypeOK
    <2> QED BY <2>4, <2>5
  <1>5. ASSUME NEW p \in Proc, StartDone(p) PROVE HostInv'
    BY <1>5 DEF HostInv, HostAt, Live, Stopping, At, StartDone, Goto, pools
  <1>6. ASSUME NEW p \in Proc, WaitDone(p) PROVE HostInv'
    BY <1>6 DEF HostInv, HostAt, Live, Stopping, At, WaitDone, Goto, pools, notes
  <1>7. ASSUME NEW p \in Proc, WaitRaises(p) PROVE HostInv'
    BY <1>7 DEF HostInv, HostAt, Live, Stopping, At, WaitRaises, Goto, pools, notes
  <1>8. ASSUME NEW p \in Proc, NEW h \in Host, AskHost(p, h) PROVE HostInv'
    BY <1>8, ConstantsAssumption DEF TypeOK, HostInv, HostAt, Live, Stopping, At, AskHost,
       Coming, Answers, Bound, pools
  <1>9. ASSUME NEW p \in Proc, Compute(p) PROVE HostInv'
    BY <1>9 DEF HostInv, HostAt, Live, Stopping, At, Compute, Goto, pools, notes
  <1>10. ASSUME NEW p \in Proc, NEW q \in Pool, PullTask(p, q) PROVE HostInv'
    BY <1>10 DEF HostInv, HostAt, Live, Stopping, At, PullTask, pools, notes
  <1>11. ASSUME NEW p \in Proc, FinishCalc(p) PROVE HostInv'
    BY <1>11 DEF HostInv, HostAt, Live, Stopping, At, FinishCalc, Goto, pools, notes
  <1>12. ASSUME NEW p \in Proc, Interrupt(p) PROVE HostInv'
    BY <1>12 DEF HostInv, HostAt, Live, Stopping, At, Interrupt, Goto, pools, notes
  <1>13. ASSUME NEW p \in Proc, BeginStop(p) PROVE HostInv'
    BY <1>13 DEF TypeOK, HostInv, HostAt, Live, Stopping, At, BeginStop, Goto, pools
  <1>14. ASSUME NEW p \in Proc, Terminate(p) PROVE HostInv'
    BY <1>14, ConstantsAssumption DEF HostInv, HostAt, Live, Stopping, At, Terminate, Goto,
       notes
  <1>15. ASSUME NEW p \in Proc, Reap(p) PROVE HostInv'
    BY <1>15 DEF HostInv, HostAt, Live, Stopping, At, Reap, Goto, pools
  <1>16. ASSUME NEW p \in Proc, Restart(p) PROVE HostInv'
    BY <1>16 DEF HostInv, HostAt, Live, Stopping, At, Restart, ZmqStart, Goto, pools
  <1>17. ASSUME NEW q \in Pool, StartWorkers(q) PROVE HostInv'
    BY <1>17 DEF TypeOK, HostInv, HostAt, Live, Stopping, At, StartWorkers, procs, notes
  <1>18. ASSUME NEW q \in Pool, Bind(q) PROVE HostInv'
    BY <1>18 DEF HostInv, HostAt, Live, Stopping, At, Bind, Answers, Bound, procs, notes
  <1>19. ASSUME NEW q \in Pool, NEW p \in Proc, Answer(q, p) PROVE HostInv'
    BY <1>19 DEF TypeOK, HostInv, HostAt, LocalInv, Live, Stopping, At, Answer, notes
  <1>20. ASSUME NEW q \in Pool, Exit(q) PROVE HostInv'
    BY <1>20 DEF HostInv, HostAt, Live, Stopping, At, Exit, procs, notes
  <1>21. CASE UNCHANGED vars
    BY <1>21 DEF HostInv, HostAt, At, Live, Stopping, vars, procs, pools, notes
  <1> QED BY <1>1, <1>2, <1>3, <1>4, <1>5, <1>6, <1>7, <1>8, <1>9, <1>10, <1>11, <1>12,
     <1>13, <1>14, <1>15, <1>16, <1>17, <1>18, <1>19, <1>20, <1>21 DEF Next, ProcStep, PoolStep

\* Only a stop takes a pool away from a clear process: a pool on its way binds,
\* or finds one that did.
LEMMA StartNext ==
  ASSUME TypeOK, PoolInv, LocalInv, ClearInv, StartInv, [Next]_vars
  PROVE  StartInv'
  <1>1. ASSUME NEW p \in Proc, Begin(p) PROVE StartInv'
    BY <1>1 DEF TypeOK, StartInv, Up, At, Begin, ZmqStart, Goto, pools
  <1>2. ASSUME NEW p \in Proc, UserStops(p) PROVE StartInv'
    BY <1>2 DEF StartInv, Up, At, UserStops, Goto, pools
  <1>3. ASSUME NEW p \in Proc, NEW h \in Host, CheckHost(p, h) PROVE StartInv'
    BY <1>3, ConstantsAssumption DEF TypeOK, ClearInv, StartInv, Up, Stopping, At,
       CheckHost, Answers, Bound, pools
  <1>4. ASSUME NEW p \in Proc, Popen(p) PROVE StartInv'
    BY <1>4, ConstantsAssumption DEF TypeOK, StartInv, Up, At, Popen, notes
  <1>5. ASSUME NEW p \in Proc, StartDone(p) PROVE StartInv'
    BY <1>5 DEF StartInv, Up, At, StartDone, Goto, pools
  <1>6. ASSUME NEW p \in Proc, WaitDone(p) PROVE StartInv'
    BY <1>6 DEF TypeOK, PoolInv, LocalInv, ClearInv, StartInv, Up, Stopping, At, WaitDone,
       Answers, Bound, Goto, pools, notes
  <1>7. ASSUME NEW p \in Proc, WaitRaises(p) PROVE StartInv'
    BY <1>7 DEF StartInv, Up, At, WaitRaises, Goto, pools, notes
  <1>8. ASSUME NEW p \in Proc, NEW h \in Host, AskHost(p, h) PROVE StartInv'
    BY <1>8 DEF StartInv, Up, At, AskHost, Answers, Bound, pools
  <1>9. ASSUME NEW p \in Proc, Compute(p) PROVE StartInv'
    BY <1>9 DEF StartInv, Up, At, Compute, Goto, pools, notes
  <1>10. ASSUME NEW p \in Proc, NEW q \in Pool, PullTask(p, q) PROVE StartInv'
    BY <1>10 DEF StartInv, Up, At, PullTask, pools, notes
  <1>11. ASSUME NEW p \in Proc, FinishCalc(p) PROVE StartInv'
    BY <1>11 DEF StartInv, Up, At, FinishCalc, Goto, pools, notes
  <1>12. ASSUME NEW p \in Proc, Interrupt(p) PROVE StartInv'
    BY <1>12 DEF StartInv, Up, At, Interrupt, Goto, pools, notes
  <1>13. ASSUME NEW p \in Proc, BeginStop(p) PROVE StartInv'
    BY <1>13 DEF StartInv, BeginStop, Goto, pools
  <1>14. ASSUME NEW p \in Proc, Terminate(p) PROVE StartInv'
    BY <1>14 DEF ClearInv, StartInv, Stopping, Terminate, Goto, notes
  <1>15. ASSUME NEW p \in Proc, Reap(p) PROVE StartInv'
    BY <1>15 DEF StartInv, Up, At, Reap, Goto, pools
  <1>16. ASSUME NEW p \in Proc, Restart(p) PROVE StartInv'
    BY <1>16 DEF TypeOK, StartInv, Up, At, Restart, ZmqStart, Goto, pools
  <1>17. ASSUME NEW q \in Pool, StartWorkers(q) PROVE StartInv'
    BY <1>17 DEF StartInv, Up, At, StartWorkers, procs, notes
  <1>18. ASSUME NEW q \in Pool, Bind(q) PROVE StartInv'
    BY <1>18 DEF ClearInv, StartInv, Up, Stopping, At, Bind, Answers, Bound, procs, notes
  <1>19. ASSUME NEW q \in Pool, NEW p \in Proc, Answer(q, p) PROVE StartInv'
    BY <1>19 DEF ClearInv, StartInv, Up, Stopping, At, Answer, notes
  <1>20. ASSUME NEW q \in Pool, Exit(q) PROVE StartInv'
    BY <1>20 DEF StartInv, Up, At, Exit, procs, notes
  <1>21. CASE UNCHANGED vars
    BY <1>21 DEF StartInv, Up, At, vars, procs, pools, notes
  <1> QED BY <1>1, <1>2, <1>3, <1>4, <1>5, <1>6, <1>7, <1>8, <1>9, <1>10, <1>11, <1>12,
     <1>13, <1>14, <1>15, <1>16, <1>17, <1>18, <1>19, <1>20, <1>21 DEF Next, ProcStep, PoolStep

\* A bound pool of a host answers the request that its host gets, and nothing
\* else than that answer ends its control loop.
LEMMA StopNext ==
  ASSUME TypeOK, PoolInv, LocalInv, ClearInv, StopInv, [Next]_vars
  PROVE  StopInv'
  <1>1. ASSUME NEW p \in Proc, Begin(p) PROVE StopInv'
    BY <1>1 DEF StopInv, Stopping, Begin, ZmqStart, Goto, pools
  <1>2. ASSUME NEW p \in Proc, UserStops(p) PROVE StopInv'
    BY <1>2 DEF StopInv, Stopping, UserStops, Goto, pools
  <1>3. ASSUME NEW p \in Proc, NEW h \in Host, CheckHost(p, h) PROVE StopInv'
    BY <1>3 DEF StopInv, Stopping, CheckHost, pools
  <1>4. ASSUME NEW p \in Proc, Popen(p) PROVE StopInv'
    BY <1>4 DEF StopInv, Stopping, Popen, notes
  <1>5. ASSUME NEW p \in Proc, StartDone(p) PROVE StopInv'
    BY <1>5 DEF StopInv, Stopping, StartDone, Goto, pools
  <1>6. ASSUME NEW p \in Proc, WaitDone(p) PROVE StopInv'
    BY <1>6 DEF StopInv, Stopping, WaitDone, Goto, pools, notes
  <1>7. ASSUME NEW p \in Proc, WaitRaises(p) PROVE StopInv'
    BY <1>7 DEF StopInv, Stopping, WaitRaises, Goto, pools, notes
  <1>8. ASSUME NEW p \in Proc, NEW h \in Host, AskHost(p, h) PROVE StopInv'
    BY <1>8, ConstantsAssumption DEF TypeOK, PoolInv, StopInv, Stopping, AskHost, At,
       Answers, Bound, pools
  <1>9. ASSUME NEW p \in Proc, Compute(p) PROVE StopInv'
    BY <1>9 DEF StopInv, Stopping, Compute, Goto, pools, notes
  <1>10. ASSUME NEW p \in Proc, NEW q \in Pool, PullTask(p, q) PROVE StopInv'
    BY <1>10 DEF StopInv, Stopping, PullTask, pools, notes
  <1>11. ASSUME NEW p \in Proc, FinishCalc(p) PROVE StopInv'
    BY <1>11 DEF StopInv, Stopping, FinishCalc, Goto, pools, notes
  <1>12. ASSUME NEW p \in Proc, Interrupt(p) PROVE StopInv'
    BY <1>12 DEF StopInv, Stopping, Interrupt, Goto, pools, notes
  <1>13. ASSUME NEW p \in Proc, BeginStop(p) PROVE StopInv'
    BY <1>13 DEF TypeOK, PoolInv, StopInv, BeginStop, Goto, pools
  <1>14. ASSUME NEW p \in Proc, Terminate(p) PROVE StopInv'
    BY <1>14, ConstantsAssumption DEF TypeOK, ClearInv, StopInv, Stopping, Terminate, Goto,
       notes
  <1>15. ASSUME NEW p \in Proc, Reap(p) PROVE StopInv'
    BY <1>15 DEF StopInv, Stopping, Reap, Goto, pools
  <1>16. ASSUME NEW p \in Proc, Restart(p) PROVE StopInv'
    BY <1>16 DEF TypeOK, StopInv, Stopping, Restart, ZmqStart, Goto, pools
  <1>17. ASSUME NEW q \in Pool, StartWorkers(q) PROVE StopInv'
    BY <1>17 DEF PoolInv, StopInv, Stopping, StartWorkers, procs, notes
  <1>18. ASSUME NEW q \in Pool, Bind(q) PROVE StopInv'
    BY <1>18 DEF StopInv, Stopping, Bind, procs, notes
  <1>19. ASSUME NEW q \in Pool, NEW p \in Proc, Answer(q, p) PROVE StopInv'
    BY <1>19 DEF TypeOK, LocalInv, StopInv, Stopping, Answer, notes
  <1>20. ASSUME NEW q \in Pool, Exit(q) PROVE StopInv'
    BY <1>20 DEF StopInv, Stopping, Exit, procs, notes
  <1>21. CASE UNCHANGED vars
    BY <1>21 DEF StopInv, Stopping, vars, procs, pools, notes
  <1> QED BY <1>1, <1>2, <1>3, <1>4, <1>5, <1>6, <1>7, <1>8, <1>9, <1>10, <1>11, <1>12,
     <1>13, <1>14, <1>15, <1>16, <1>17, <1>18, <1>19, <1>20, <1>21 DEF Next, ProcStep, PoolStep

-----------------------------------------------------------------------------
\* The invariant of the specification
LEMMA Invariant == Spec => []Inv
  <1>1. Init => Inv
    BY ConstantsAssumption
    DEF Init, Inv, TypeOK, Label, State, PoolInv, HostInv, HostAt, At, Live, Stopping, LocalInv,
        ClearInv, StartInv, StopInv
  <1>2. Inv /\ [Next]_vars => Inv'
    BY TypeNext, PoolNext, LocalNext, ClearNext, HostNext, StartNext, StopNext DEF Inv
  <1> QED BY <1>1, <1>2, PTL DEF Spec

\* The types of the variables, for all the states of the model of WorkerMaster,
\* WorkerPool and run_jobs.
THEOREM TypeCorrect == Spec => []TypeOK
  <1>1. Inv => TypeOK
    BY DEF Inv
  <1> QED BY <1>1, Invariant, PTL

\* A job keeps the pools that zmq_start and zmq_wait gave it until the zmq_stop of
\* another process: starts, interrupts, slow and stuck pools do not take them.
THEOREM PoolsAreAtWork == Spec => []AtWork
  <1>1. Inv => AtWork
    BY DEF Inv, AtWork, StartInv, PoolInv, At
  <1> QED BY <1>1, Invariant, PTL

\* The workers of a host on which no start overlapped another start or a stop have
\* one pool, in its control loop or on its way to it.
THEOREM WorkersHaveAPool == Spec => []WorkersAreManaged
  <1>1. Inv => WorkersAreManaged
    <2> SUFFICES ASSUME Inv, NEW q \in Pool, work[q] = "alive", host[q] \notin misled
                 PROVE  /\ st[q] \in {"working", "bound"}
                        /\ \A r \in At(host[q]) \ {q} : work[r] # "alive"
      BY DEF Inv, WorkersAreManaged
    <2>1. host[q] \in Host /\ q \in At(host[q])
      BY DEF Inv, TypeOK, PoolInv, At
    <2>2. HostAt(host[q])
      BY <2>1 DEF Inv, HostInv
    <2> QED BY <2>1, <2>2 DEF HostAt, At, Live
  <1> QED BY <1>1, Invariant, PTL

\* zmq_wait waits for pools that answer or will, as long as nobody stops them.
THEOREM WaitIsNotInVain == Spec => []WaitsForSomeone
  <1>1. Inv => WaitsForSomeone
    <2> SUFFICES ASSUME Inv, NEW p \in clear, pc[p] = "wait", NEW h \in Host
                 PROVE  Answers(h) \/ Coming(h)
      BY DEF WaitsForSomeone
    <2>1. starting[p] = {} /\ popen[p] = NoHost
      BY DEF Inv, LocalInv, TypeOK
    <2>2. Up(h)
      BY <2>1, ConstantsAssumption DEF Inv, StartInv
    <2> QED BY <2>2 DEF Up, Answers, Bound, Coming, At
  <1> QED BY <1>1, Invariant, PTL

\* A zmq_stop that meets no other one kills the workers of all the pools that were
\* in their control loop when it began.
THEOREM NothingIsLeft == Spec => []NoneLeftBehind
  <1>1. Inv => NoneLeftBehind
    <2> SUFFICES ASSUME Inv, NEW p \in clear, pc[p] = "reap", NEW q \in up[p]
                 PROVE  work[q] = "dead"
      BY DEF NoneLeftBehind
    <2>1. q \in Pool /\ left[p] = {} /\ asked[p] = NoPool
      BY DEF Inv, TypeOK, LocalInv
    <2> QED BY <2>1, ConstantsAssumption DEF Inv, StopInv, Stopping
  <1> QED BY <1>1, Invariant, PTL
=============================================================================
