--------------------------- MODULE StarmapProofs ---------------------------
(***************************************************************************)
(* Theorems about Starmap, for every value of its constants: any number of *)
(* tasks, cores, messages, and any capacity of the sockets.                *)
(***************************************************************************)
EXTENDS Starmap, FiniteSetTheorems, TLAPS

USE DEF mvars, WState, Busy

\* The queue after its first element was taken (_submit_many).
LEMMA PopSeq ==
  ASSUME NEW S, NEW q \in Seq(S), q # << >>
  PROVE  /\ Head(q) \in S /\ Head(q) = q[1]
         /\ Tail(q) \in Seq(S)
         /\ Len(q) \in Nat \ {0}
         /\ Len(Tail(q)) = Len(q) - 1
         /\ \A i \in 1..Len(Tail(q)) : Tail(q)[i] = q[i + 1]
  OBVIOUS

\* A channel or a queue after a message or a task was added at its end.
LEMMA PushSeq ==
  ASSUME NEW S, NEW q \in Seq(S), NEW e \in S
  PROVE  /\ Append(q, e) \in Seq(S)
         /\ Append(q, e) # << >>
         /\ Len(Append(q, e)) = Len(q) + 1
         /\ Append(q, e)[Len(q) + 1] = e
         /\ \A i \in 1..Len(q) : Append(q, e)[i] = q[i]
  OBVIOUS

\* A channel whose last messages were lost with the process of the sender.
LEMMA CutSeq ==
  ASSUME NEW S, NEW q \in Seq(S), NEW n \in 0..Len(q)
  PROVE  /\ SubSeq(q, 1, n) \in Seq(S)
         /\ Len(SubSeq(q, 1, n)) = n
         /\ \A i \in 1..n : SubSeq(q, 1, n)[i] = q[i]
  OBVIOUS

\* The next unread message is one of those that were sent.
LEMMA NextMessage ==
  ASSUME TypeOK, NEW t \in Task, NEW kinds, NextIs(t, kinds)
  PROVE  /\ rcvd[t] + 1 \in 1..Len(sent[t])
         /\ sent[t][rcvd[t] + 1] \in Message
  <1>1. rcvd[t] \in Nat /\ sent[t] \in Seq(Message) /\ rcvd[t] < Len(sent[t])
    BY DEF TypeOK, NextIs
  <1> QED BY <1>1

\* A subtask message carries a task.
LEMMA SubTask ==
  ASSUME NEW m \in Message, m.kind = "sub"
  PROVE  /\ m.task \in Task
         /\ m = [kind |-> "sub", task |-> m.task]
  BY DEF Message

LEMMA SubmitManyType ==
  ASSUME NEW q \in Seq(Task), NEW ws \in [Task -> WState], NEW n \in Int, 
         task_no \in Nat, tasks \in Nat, SubmitMany(q, ws, n)
  PROVE  /\ task_queue' \in Seq(Task) /\ todo' \in Int
         /\ task_no' \in Nat /\ tasks' \in Nat
         /\ wstate' \in [Task -> WState]
  <1>1. CASE q = << >>
    BY <1>1 DEF SubmitMany
  <1>2. CASE q # << >>
    <2>1. Head(q) \in Task /\ Tail(q) \in Seq(Task)
      BY <1>2, PopSeq
    <2>2. "skipped" \in WState /\ "pooled" \in WState
      OBVIOUS
    <2>3. SubmitFrom(ws, Head(q)) /\ task_queue' = Tail(q) /\ todo' = n + 1
      BY <1>2 DEF SubmitMany
    <2> HIDE DEF WState
    <2>4. wstate' \in [Task -> WState]
      BY <2>1, <2>2, <2>3 DEF SubmitFrom
    <2> QED BY <2>1, <2>3, <2>4 DEF SubmitFrom
  <1> QED BY <1>1, <1>2

LEMMA SendType ==
  ASSUME TypeOK, NEW t \in Task, NEW m \in Message, Send(t, m)
  PROVE  sent' \in [Task -> Seq(Message)]
  <1>1. Append(sent[t], m) \in Seq(Message)
    BY DEF TypeOK
  <1> QED BY <1>1 DEF Send, TypeOK

LEMMA InitType == Init => TypeOK
  <1> SUFFICES ASSUME Init PROVE TypeOK
    OBVIOUS
  <1>1. Args \in Seq(Task) /\ NumCores \in Nat \ {0} /\ MaxStale \in Nat
    BY ConstantsAssumption
  <1>2. NumFirst \in 0..Len(Args)
    BY <1>1 DEF NumFirst
  <1>3. SubSeq(Args, 1, NumFirst) \in Seq(Task) /\ SubSeq(Args, NumFirst + 1, Len(Args)) \in Seq(Task)
    BY <1>1, <1>2
  <1>4. [t \in Task |-> << >>] \in [Task -> Seq(Message)]
    OBVIOUS
  <1> QED BY <1>1, <1>3, <1>4 DEF Init, TypeOK

LEMMA NextType == TypeOK /\ [Next]_vars => TypeOK'
  <1> SUFFICES ASSUME TypeOK, [Next]_vars PROVE TypeOK'
    OBVIOUS
  <1> USE DEF TypeOK
  <1>1. CASE SubmitFirst
    <2>1. Head(first_args) \in Task /\ Tail(first_args) \in Seq(Task)
      BY <1>1, PopSeq DEF SubmitFirst
    <2> QED BY <1>1, <2>1 DEF SubmitFirst, SubmitFrom
  <1>2. CASE EnterLoop
    BY <1>2 DEF EnterLoop
  <1>3. CASE RecvStale
    BY <1>3 DEF RecvStale
  <1>4. ASSUME NEW t \in Task, RecvEnd(t) PROVE TypeOK'
    <2>1. rcvd' \in [Task -> Nat]
      BY <1>4 DEF RecvEnd, Read
    <2>2. todo - 1 \in Int
      OBVIOUS
    <2> QED BY <1>4, <2>1, <2>2, SubmitManyType DEF RecvEnd
  <1>5. ASSUME NEW t \in Task, RecvSub(t) PROVE TypeOK'
    <2> DEFINE u == sent[t][rcvd[t] + 1].task
    <2>1. u \in Task
      <3>1. sent[t][rcvd[t] + 1] \in Message
        BY <1>5, NextMessage DEF RecvSub
      <3>2. sent[t][rcvd[t] + 1].kind = "sub"
        BY <1>5 DEF RecvSub, NextIs
      <3> QED BY <3>1, <3>2, SubTask
    <2>2. Append(task_queue, u) \in Seq(Task) /\ [wstate EXCEPT ![u] = "queued"] \in [Task -> WState]
      BY <2>1
    <2>3. rcvd' \in [Task -> Nat]
      BY <1>5 DEF RecvSub, Read
    <2>4. SubmitMany(Append(task_queue, u), [wstate EXCEPT ![u] = "queued"], todo)
      BY <1>5 DEF RecvSub
    <2> HIDE DEF u
    <2> QED BY <1>5, <2>2, <2>3, <2>4, SubmitManyType DEF RecvSub
  <1>6. ASSUME NEW t \in Task, RecvOut(t) PROVE TypeOK'
    <2>1. rcvd' \in [Task -> Nat]
      BY <1>6 DEF RecvOut, Read
    <2>2. yielded' \subseteq Task \X Nat
      BY <1>6 DEF RecvOut
    <2> QED BY <1>6, <2>1, <2>2 DEF RecvOut
  <1>7. ASSUME NEW t \in Task, RecvExc(t) \/ RecvOutOfMemory(t) PROVE TypeOK'
    <2>1. Read(t) /\ pc' = "raised"
      BY <1>7 DEF RecvExc, RecvOutOfMemory
    <2>2. UNCHANGED <<pool, first_args, task_queue, task_no, tasks, todo,
                      wstate, sent, yielded, stale>>
      BY <1>7 DEF RecvExc, RecvOutOfMemory
    <2>3. rcvd' \in [Task -> Nat]
      BY <2>1 DEF Read
    <2> QED BY <2>1, <2>2, <2>3
  <1>8. CASE MasterFails
    BY <1>8 DEF MasterFails
  <1>9. CASE CloseLoop
    BY <1>9 DEF CloseLoop
  <1>10. CASE Shutdown
    BY <1>10 DEF Shutdown
  <1>11. ASSUME NEW t \in Task, Worker(t) PROVE TypeOK'
    <2>1. CASE Start(t)
      <3>1. [kind |-> "warn"] \in Message
        BY DEF Message
      <3>2. sent' \in [Task -> Seq(Message)]
        BY <2>1, <3>1, SendType DEF Start
      <3> QED BY <2>1, <3>2 DEF Start, Become
    <2>2. CASE SendOutput(t)
      <3>1. [kind |-> "out"] \in Message
        BY DEF Message
      <3>2. sent' \in [Task -> Seq(Message)]
        BY <2>2, <3>1, SendType DEF SendOutput
      <3> QED BY <2>2, <3>2 DEF SendOutput
    <2>3. CASE TaskRaises(t) \/ SendFails(t) \/ SendMismatch(t)
      <3>1. [kind |-> "exc"] \in Message
        BY DEF Message
      <3>2. sent' \in [Task -> Seq(Message)]
        BY <2>3, <3>1, SendType DEF TaskRaises, SendFails, SendMismatch
      <3> QED BY <2>3, <3>2 DEF TaskRaises, SendFails, SendMismatch, Become
    <2>4. CASE EndTask(t)
      <3>1. [kind |-> "end"] \in Message
        BY DEF Message
      <3>2. sent' \in [Task -> Seq(Message)]
        BY <2>4, <3>1, SendType DEF EndTask
      <3> QED BY <2>4, <3>2 DEF EndTask, Become
    <2>5. ASSUME NEW u \in Task, SendSubtask(t, u) PROVE TypeOK'
      <3>1. [kind |-> "sub", task |-> u] \in Message
        BY DEF Message
      <3>2. sent' \in [Task -> Seq(Message)]
        BY <2>5, <3>1, SendType DEF SendSubtask
      <3> QED BY <2>5, <3>2 DEF SendSubtask, Become
    <2> QED BY <1>11, <2>1, <2>2, <2>3, <2>4, <2>5 DEF Worker
  <1>12. ASSUME NEW t \in Task, Death(t) PROVE TypeOK'
    <2>1. CASE Unwind(t)
      BY <2>1 DEF Unwind, Become
    <2>2. CASE Kill(t)
      <3>1. PICK n \in rcvd[t]..Len(sent[t]) : sent' = [sent EXCEPT ![t] = SubSeq(@, 1, n)]
        BY <2>2 DEF Kill
      <3>2. sent[t] \in Seq(Message) /\ n \in 0..Len(sent[t])
        BY <3>1
      <3>3. SubSeq(sent[t], 1, n) \in Seq(Message)
        BY <3>2, CutSeq
      <3> QED BY <2>2, <3>1, <3>3 DEF Kill, Become
    <2> QED BY <1>12, <2>1, <2>2 DEF Death
  <1>13. CASE UNCHANGED vars
    BY <1>13 DEF vars
  <1> QED
    BY <1>1, <1>2, <1>3, <1>4, <1>5, <1>6, <1>7, <1>8, <1>9, <1>10, <1>11, <1>12, <1>13
    DEF Next, Master

\* Every variable keeps its type, whatever goes wrong.
THEOREM TypeCorrect == Spec => []TypeOK
  BY InitType, NextType, PTL DEF Spec

-----------------------------------------------------------------------------
(* The queues *)

LEMMA PopFirst ==
  ASSUME NEW f \in Seq(Task), NEW q \in Seq(Task), NEW ws \in [Task -> WState],
         QueuesHold(f, q, ws), f # << >>
  PROVE  /\ Head(f) \in Task /\ ws[Head(f)] = "queued"
         /\ QueuesHold(Tail(f), q, [ws EXCEPT ![Head(f)] = "pooled"])
  <1>1. /\ Head(f) \in Task /\ Head(f) = f[1] /\ Tail(f) \in Seq(Task)
        /\ Len(f) \in Nat \ {0} /\ Len(Tail(f)) = Len(f) - 1
        /\ \A i \in 1..Len(Tail(f)) : Tail(f)[i] = f[i + 1]
    BY PopSeq
  <1>2. ws[Head(f)] = "queued"
    BY <1>1 DEF QueuesHold
  <1> DEFINE g == Tail(f)
             vs == [ws EXCEPT ![Head(f)] = "pooled"]
  <1>3. \A i \in 1..Len(g) : i + 1 \in 1..Len(f) /\ g[i] = f[i + 1] /\ f[i + 1] \in Task
    BY <1>1
  <1>4. \A t \in Task : t # Head(f) => vs[t] = ws[t]
    OBVIOUS
  <1>5. \A i \in 1..Len(g) : vs[g[i]] = "queued"
    <2> TAKE i \in 1..Len(g)
    <2>1. g[i] = f[i + 1] /\ i + 1 \in 1..Len(f) /\ 1 \in 1..Len(f) /\ i + 1 # 1
      BY <1>1, <1>3
    <2>2. f[i + 1] # f[1]
      BY <2>1 DEF QueuesHold
    <2> QED BY <1>1, <1>3, <1>4, <2>1, <2>2 DEF QueuesHold
  <1>6. \A i \in 1..Len(q) : vs[q[i]] = "queued"
    <2> TAKE i \in 1..Len(q)
    <2>1. q[i] # f[1] /\ q[i] \in Task
      BY <1>1 DEF QueuesHold
    <2> QED BY <1>1, <1>4, <2>1 DEF QueuesHold
  <1>7. \A i, j \in 1..Len(g) : g[i] = g[j] => i = j
    BY <1>3 DEF QueuesHold
  <1>8. \A i \in 1..Len(g), j \in 1..Len(q) : g[i] # q[j]
    BY <1>3 DEF QueuesHold
  <1>9. ASSUME NEW t \in Task, vs[t] = "queued"
        PROVE  \/ \E i \in 1..Len(g) : g[i] = t
               \/ \E i \in 1..Len(q) : q[i] = t
    <2>1. t # Head(f) /\ ws[t] = "queued"
      BY <1>9, <1>1
    <2>2. CASE \E i \in 1..Len(f) : f[i] = t
      <3>1. PICK i \in 1..Len(f) : f[i] = t
        BY <2>2
      <3>2. i # 1
        BY <2>1, <3>1, <1>1
      <3>3. i - 1 \in 1..Len(g) /\ g[i - 1] = f[(i - 1) + 1] /\ (i - 1) + 1 = i
        BY <3>2, <1>1, <1>3
      <3> QED BY <3>1, <3>3
    <2> QED BY <2>1, <2>2 DEF QueuesHold
  <1>10. \A i, j \in 1..Len(q) : q[i] = q[j] => i = j
    BY DEF QueuesHold
  <1> QED
    <2> HIDE DEF g, vs
    <2>1. QueuesHold(g, q, vs)
      BY <1>5, <1>6, <1>7, <1>8, <1>9, <1>10 DEF QueuesHold
    <2> QED BY <1>1, <1>2, <2>1 DEF g, vs

\* The two queues play the same part.
LEMMA SwapQueues ==
  ASSUME NEW f, NEW q, NEW ws, QueuesHold(f, q, ws)
  PROVE  QueuesHold(q, f, ws)
  BY DEF QueuesHold

LEMMA PopQueue ==
  ASSUME NEW f \in Seq(Task), NEW q \in Seq(Task), NEW ws \in [Task -> WState],
         QueuesHold(f, q, ws), q # << >>
  PROVE  /\ Head(q) \in Task /\ ws[Head(q)] = "queued"
         /\ QueuesHold(f, Tail(q), [ws EXCEPT ![Head(q)] = "pooled"])
  BY SwapQueues, PopFirst

LEMMA PushQueue ==
  ASSUME NEW f \in Seq(Task), NEW q \in Seq(Task), NEW ws \in [Task -> WState],
         NEW u \in Task, QueuesHold(f, q, ws), ws[u] # "queued"
  PROVE  QueuesHold(f, Append(q, u), [ws EXCEPT ![u] = "queued"])
  <1> DEFINE r == Append(q, u)
             vs == [ws EXCEPT ![u] = "queued"]
  <1>1. /\ Len(r) = Len(q) + 1 /\ Len(q) \in Nat /\ r[Len(q) + 1] = u
        /\ \A i \in 1..Len(q) : r[i] = q[i]
    BY PushSeq
  <1>2. \A i \in 1..Len(r) : i \in 1..Len(q) \/ i = Len(q) + 1
    BY <1>1
  <1>3. \A t \in Task : t # u => vs[t] = ws[t]
    OBVIOUS
  <1>4. vs[u] = "queued"
    OBVIOUS
  <1>5. \A i \in 1..Len(f) : f[i] \in Task /\ f[i] # u
    BY DEF QueuesHold
  <1>6. \A i \in 1..Len(q) : q[i] \in Task /\ q[i] # u
    BY DEF QueuesHold
  <1> HIDE DEF r, vs
  <1>7. \A i \in 1..Len(f) : vs[f[i]] = "queued"
    BY <1>3, <1>5 DEF QueuesHold
  <1>8. \A i \in 1..Len(r) : vs[r[i]] = "queued"
    BY <1>1, <1>2, <1>3, <1>4, <1>6 DEF QueuesHold
  <1>9. \A i, j \in 1..Len(r) : r[i] = r[j] => i = j
    BY <1>1, <1>2, <1>6 DEF QueuesHold
  <1>10. \A i \in 1..Len(f), j \in 1..Len(r) : f[i] # r[j]
    BY <1>1, <1>2, <1>5 DEF QueuesHold
  <1>11. ASSUME NEW t \in Task, vs[t] = "queued"
         PROVE  \/ \E i \in 1..Len(f) : f[i] = t
                \/ \E i \in 1..Len(r) : r[i] = t
    <2>1. CASE t = u
      <3>1. Len(q) + 1 \in 1..Len(r)
        BY <1>1
      <3> QED BY <2>1, <3>1, <1>1
    <2>2. CASE t # u
      <3>1. ws[t] = "queued"
        BY <2>2, <1>3, <1>11
      <3>2. \A i \in 1..Len(q) : i \in 1..Len(r)
        BY <1>1
      <3> QED BY <3>1, <3>2, <1>1 DEF QueuesHold
    <2> QED BY <2>1, <2>2
  <1> QED
    <2>1. QueuesHold(f, r, vs)
      BY <1>7, <1>8, <1>9, <1>10, <1>11 DEF QueuesHold
    <2> QED BY <2>1 DEF r, vs

\* Steps of the workers leave the queued tasks alone.
LEMMA KeepQueues ==
  ASSUME NEW f \in Seq(Task), NEW q \in Seq(Task), NEW ws, NEW vs,
         QueuesHold(f, q, ws),
         \A t \in Task : vs[t] = "queued" <=> ws[t] = "queued"
  PROVE  QueuesHold(f, q, vs)
  <1>1. (\A i \in 1..Len(f) : f[i] \in Task) /\ (\A i \in 1..Len(q) : q[i] \in Task)
    OBVIOUS
  <1> QED BY <1>1 DEF QueuesHold

LEMMA SubmitManyEffect ==
  ASSUME OQ_TASK_NO = -1, NEW q, NEW ws, NEW n, SubmitMany(q, ws, n)
  PROVE  \/ /\ q = << >> /\ task_queue' = q /\ todo' = n /\ wstate' = ws
         \/ /\ q # << >> /\ task_queue' = Tail(q) /\ todo' = n + 1
            /\ wstate' = [ws EXCEPT ![Head(q)] = "pooled"]
  BY DEF SubmitMany, SubmitFrom, Skipped

LEMMA SubmitFirstEffect ==
  ASSUME OQ_TASK_NO = -1, SubmitFirst
  PROVE  /\ wstate' = [wstate EXCEPT ![Head(first_args)] = "pooled"]
         /\ tasks' = tasks + 1 /\ task_no' = task_no + 1
  BY DEF SubmitFirst, SubmitFrom, Skipped

\* What the master reads in RecvSub: the next unread message of t announces u.
LEMMA SubMessage ==
  ASSUME TypeOK, SubInv, NEW t \in Task, RecvSub(t)
  PROVE  LET u == sent[t][rcvd[t] + 1].task
         IN  /\ u \in Task
             /\ Announces(t, rcvd[t] + 1, u)
             /\ wstate[u] = "made"
             /\ wstate[u] \in WState
             /\ SubmitMany(Append(task_queue, u), [wstate EXCEPT ![u] = "queued"], todo)
  <1> DEFINE k == rcvd[t] + 1
             u == sent[t][k].task
  <1>1. NextIs(t, {"sub"})
    BY DEF RecvSub
  <1>2. k \in 1..Len(sent[t]) /\ sent[t][k] \in Message /\ rcvd[t] \in Nat
    BY <1>1, NextMessage DEF TypeOK
  <1>3. sent[t][k].kind = "sub"
    BY <1>1 DEF NextIs
  <1>4. u \in Task /\ sent[t][k] = [kind |-> "sub", task |-> u]
    BY <1>2, <1>3, SubTask
  <1>5. k \in Unread(t)
    BY <1>2 DEF Unread
  <1>6. Announces(t, k, u)
    BY <1>4, <1>5 DEF Announces
  <1>7. wstate[u] = "made"
    BY <1>4, <1>5, <1>6 DEF SubInv
  <1>8. SubmitMany(Append(task_queue, u), [wstate EXCEPT ![u] = "queued"], todo)
    BY DEF RecvSub
  <1> QED BY <1>4, <1>6, <1>7, <1>8

\* In the steps of a worker, and when the pool is terminated, no task enters or
\* leaves the queues.
LEMMA WorkerKeepsQueued ==
  ASSUME TypeOK, NEW t \in Task, Worker(t) \/ Death(t)
  PROVE  /\ \A u \in Task : wstate'[u] = "queued" <=> wstate[u] = "queued"
         /\ first_args' = first_args /\ task_queue' = task_queue
  <1>1. CASE \E u \in Task : SendSubtask(t, u)
    BY <1>1 DEF SendSubtask, Become, TypeOK
  <1>2. CASE Start(t)
    BY <1>2 DEF Start, Become, TypeOK
  <1>3. CASE SendOutput(t) \/ SendFails(t) \/ SendMismatch(t)
    BY <1>3 DEF SendOutput, SendFails, SendMismatch
  <1>4. CASE TaskRaises(t)
    BY <1>4 DEF TaskRaises, Runs, Become, TypeOK
  <1>5. CASE EndTask(t)
    BY <1>5 DEF EndTask, Become, TypeOK
  <1>6. CASE Unwind(t)
    BY <1>6 DEF Unwind, Become, TypeOK
  <1>7. CASE Kill(t)
    BY <1>7 DEF Kill, Become, TypeOK
  <1> QED BY <1>1, <1>2, <1>3, <1>4, <1>5, <1>6, <1>7 DEF Worker, Death

LEMMA NextQueue ==
  ASSUME OQ_TASK_NO = -1, TypeOK, QueueInv, SubInv, [Next]_vars
  PROVE  QueueInv'
  <1> USE DEF QueueInv
  <1>0. /\ first_args \in Seq(Task) /\ task_queue \in Seq(Task)
        /\ wstate \in [Task -> WState]
    BY DEF TypeOK
  <1>1. CASE SubmitFirst
    <2>1. first_args # << >> /\ first_args' = Tail(first_args) /\ task_queue' = task_queue
      BY <1>1 DEF SubmitFirst
    <2> QED BY <1>0, <1>1, <2>1, PopFirst, SubmitFirstEffect
  <1>2. CASE UNCHANGED <<first_args, task_queue, wstate>>
    BY <1>2 DEF QueuesHold
  <1>3. ASSUME NEW t \in Task, RecvEnd(t) PROVE QueueInv'
    <2>1. SubmitMany(task_queue, wstate, todo - 1) /\ first_args' = first_args
      BY <1>3 DEF RecvEnd
    <2>2. CASE task_queue = << >>
      BY <2>1, <2>2, SubmitManyEffect
    <2>3. CASE task_queue # << >>
      <3>1. /\ task_queue' = Tail(task_queue)
            /\ wstate' = [wstate EXCEPT ![Head(task_queue)] = "pooled"]
        BY <2>1, <2>3, SubmitManyEffect
      <3>2. QueuesHold(first_args, Tail(task_queue),
                       [wstate EXCEPT ![Head(task_queue)] = "pooled"])
        BY <1>0, <2>3, PopQueue
      <3> QED BY <2>1, <3>1, <3>2
    <2> QED BY <2>2, <2>3
  <1>4. ASSUME NEW t \in Task, RecvSub(t) PROVE QueueInv'
    <2> DEFINE u == sent[t][rcvd[t] + 1].task
               q == Append(task_queue, u)
               ws == [wstate EXCEPT ![u] = "queued"]
    <2>1. u \in Task /\ wstate[u] # "queued" /\ SubmitMany(q, ws, todo)
      BY <1>4, SubMessage
    <2>2. first_args' = first_args
      BY <1>4 DEF RecvSub
    <2> HIDE DEF u
    <2>3. q \in Seq(Task) /\ q # << >> /\ ws \in [Task -> WState]
      BY <1>0, <2>1, PushSeq
    <2>4. QueuesHold(first_args, q, ws)
      BY <1>0, <2>1, PushQueue
    <2> HIDE DEF q, ws
    <2>5. task_queue' = Tail(q) /\ wstate' = [ws EXCEPT ![Head(q)] = "pooled"]
      BY <2>1, <2>3, SubmitManyEffect
    <2> QED BY <1>0, <2>2, <2>3, <2>4, <2>5, PopQueue
  <1>5. CASE Shutdown
    <2>1. \A u \in Task : wstate'[u] = "queued" <=> wstate[u] = "queued"
      BY <1>5 DEF Shutdown, TypeOK
    <2>2. first_args' = first_args /\ task_queue' = task_queue
      BY <1>5 DEF Shutdown
    <2> QED BY <1>0, <2>1, <2>2, KeepQueues
  <1>6. ASSUME NEW t \in Task, Worker(t) \/ Death(t) PROVE QueueInv'
    BY <1>0, <1>6, WorkerKeepsQueued, KeepQueues
  <1>7. CASE EnterLoop \/ RecvStale \/ MasterFails \/ CloseLoop
    BY <1>2, <1>7 DEF EnterLoop, RecvStale, MasterFails, CloseLoop
  <1>8. ASSUME NEW t \in Task, RecvOut(t) \/ RecvExc(t) \/ RecvOutOfMemory(t) PROVE QueueInv'
    BY <1>2, <1>8 DEF RecvOut, RecvExc, RecvOutOfMemory
  <1>9. CASE UNCHANGED vars
    BY <1>2, <1>9 DEF vars
  <1> QED BY <1>1, <1>3, <1>4, <1>5, <1>6, <1>7, <1>8, <1>9 DEF Next, Master

-----------------------------------------------------------------------------
(* Subtasks in unread messages *)

\* A step that neither sends nor reads a subtask message, and loses such
\* messages only with the process of their sender.
LEMMA KeepSub ==
  ASSUME SubInv,
         \A t, u \in Task : \A i : Announces(t, i, u)' => Announces(t, i, u),
         \A t, u \in Task : \A i :
           Announces(t, i, u) => wstate'[t] = "lost" \/ Announces(t, i, u)',
         \A u \in Task : wstate'[u] = "made" <=> wstate[u] = "made",
         \A u \in Task : wstate[u] = "lost" => wstate'[u] = "lost"
  PROVE  SubInv'
  <1>1. \A t, u \in Task : \A i : Announces(t, i, u) => i \in Unread(t)
    BY DEF Announces
  <1>2. \A t, u \in Task : \A i : Announces(t, i, u)' => i \in Unread(t)'
    BY DEF Announces
  <1>3. \A t, u \in Task : \A i \in Unread(t)' : Announces(t, i, u)' => wstate'[u] = "made"
    BY <1>1 DEF SubInv
  <1>4. \A t, v, u \in Task : \A i \in Unread(t)', j \in Unread(v)' :
          Announces(t, i, u)' /\ Announces(v, j, u)' => t = v /\ i = j
    BY <1>1 DEF SubInv
  <1>5. ASSUME NEW u \in Task, wstate'[u] = "made"
        PROVE  \E t \in Task : \/ wstate'[t] = "lost"
                               \/ \E i \in Unread(t)' : Announces(t, i, u)'
    <2>1. PICK t \in Task : wstate[t] = "lost" \/ \E i \in Unread(t) : Announces(t, i, u)
      BY <1>5 DEF SubInv
    <2>2. CASE wstate[t] = "lost"
      BY <2>2
    <2>3. CASE \E i \in Unread(t) : Announces(t, i, u)
      <3>1. PICK i \in Unread(t) : Announces(t, i, u)
        BY <2>3
      <3>2. wstate'[t] = "lost" \/ Announces(t, i, u)'
        BY <3>1
      <3> QED BY <3>2, <1>2
    <2> QED BY <2>1, <2>2, <2>3
  <1> QED BY <1>3, <1>4, <1>5 DEF SubInv

\* Reading a message that is not a subtask leaves the announced ones.
LEMMA ReadOther ==
  ASSUME TypeOK, NEW t \in Task, NEW kinds, NextIs(t, kinds), "sub" \notin kinds,
         Read(t), sent' = sent
  PROVE  \A v, u \in Task : \A i : Announces(v, i, u)' <=> Announces(v, i, u)
  <1> SUFFICES ASSUME NEW v \in Task, NEW u \in Task, NEW i
               PROVE  Announces(v, i, u)' <=> Announces(v, i, u)
    OBVIOUS
  <1>1. /\ rcvd \in [Task -> Nat] /\ sent[v] \in Seq(Message)
        /\ rcvd' = [rcvd EXCEPT ![t] = rcvd[t] + 1]
        /\ sent[t][rcvd[t] + 1].kind \in kinds
    BY DEF TypeOK, Read, NextIs
  <1>2. CASE v # t
    <2>1. rcvd'[v] = rcvd[v]
      BY <1>1, <1>2
    <2> QED BY <2>1 DEF Announces, Unread
  <1>3. CASE v = t
    <2>1. rcvd'[t] = rcvd[t] + 1 /\ rcvd[t] \in Nat
      BY <1>1
    <2>2. ASSUME Announces(t, i, u) PROVE i # rcvd[t] + 1
      <3>1. sent[t][i].kind = "sub"
        BY <2>2 DEF Announces
      <3> QED BY <1>1, <3>1
    <2>3. i \in Unread(t)' <=> i \in Unread(t) /\ i # rcvd[t] + 1
      BY <2>1, <1>1, <1>3 DEF Unread
    <2> QED BY <2>2, <2>3, <1>3 DEF Announces
  <1> QED BY <1>2, <1>3

\* Neither does sending such a message add one.
LEMMA SendOther ==
  ASSUME TypeOK, NEW t \in Task, NEW m \in Message, m.kind # "sub",
         Send(t, m), rcvd' = rcvd
  PROVE  \A v, u \in Task : \A i : Announces(v, i, u)' <=> Announces(v, i, u)
  <1> SUFFICES ASSUME NEW v \in Task, NEW u \in Task, NEW i
               PROVE  Announces(v, i, u)' <=> Announces(v, i, u)
    OBVIOUS
  <1>1. /\ rcvd \in [Task -> Nat] /\ sent \in [Task -> Seq(Message)]
        /\ sent' = [sent EXCEPT ![t] = Append(sent[t], m)]
    BY DEF TypeOK, Send
  <1>2. CASE v # t
    <2>1. sent'[v] = sent[v]
      BY <1>1, <1>2
    <2> QED BY <2>1 DEF Announces, Unread
  <1>3. CASE v = t
    <2>1. sent[t] \in Seq(Message) /\ sent'[t] = Append(sent[t], m) /\ rcvd[t] \in Nat
      BY <1>1
    <2>2. /\ Len(sent'[t]) = Len(sent[t]) + 1 /\ Len(sent[t]) \in Nat
          /\ sent'[t][Len(sent[t]) + 1] = m
          /\ \A k \in 1..Len(sent[t]) : sent'[t][k] = sent[t][k]
      BY <2>1, PushSeq
    <2>3. m # [kind |-> "sub", task |-> u]
      <3>1. [kind |-> "sub", task |-> u].kind = "sub"
        OBVIOUS
      <3> QED BY <3>1
    <2>4. i \in Unread(t)' <=> \/ i \in Unread(t)
                               \/ i = Len(sent[t]) + 1 /\ i > rcvd[t]
      BY <2>1, <2>2 DEF Unread
    <2>5. i \in Unread(t) => sent'[t][i] = sent[t][i] /\ i # Len(sent[t]) + 1
      BY <2>2 DEF Unread
    <2>6. CASE i \in Unread(t)
      <3>1. sent'[v][i] = sent[v][i] /\ i \in Unread(v)' /\ i \in Unread(v)
        BY <1>3, <2>4, <2>5, <2>6
      <3> QED BY <3>1 DEF Announces
    <2>7. CASE i \notin Unread(t)
      <3>1. i \in Unread(v)' => sent'[v][i] = m
        BY <1>3, <2>2, <2>4, <2>7
      <3>2. i \notin Unread(v)
        BY <1>3, <2>7
      <3> QED BY <2>3, <3>1, <3>2 DEF Announces
    <2> QED BY <2>6, <2>7
  <1> QED BY <1>2, <1>3

\* A killed process takes some of its unread messages with it.
LEMMA CutOther ==
  ASSUME TypeOK, NEW t \in Task, NEW n \in rcvd[t]..Len(sent[t]),
         sent' = [sent EXCEPT ![t] = SubSeq(sent[t], 1, n)], rcvd' = rcvd
  PROVE  \A v, u \in Task : \A i : /\ Announces(v, i, u)' => Announces(v, i, u)
                                   /\ Announces(v, i, u) => v = t \/ Announces(v, i, u)'
  <1> SUFFICES ASSUME NEW v \in Task, NEW u \in Task, NEW i
               PROVE  /\ Announces(v, i, u)' => Announces(v, i, u)
                      /\ Announces(v, i, u) => v = t \/ Announces(v, i, u)'
    OBVIOUS
  <1>1. rcvd \in [Task -> Nat] /\ sent \in [Task -> Seq(Message)]
    BY DEF TypeOK
  <1>2. CASE v # t
    <2>1. sent'[v] = sent[v]
      BY <1>1, <1>2
    <2> QED BY <2>1 DEF Announces, Unread
  <1>3. CASE v = t
    <2>1. sent[t] \in Seq(Message) /\ sent'[t] = SubSeq(sent[t], 1, n) /\ n \in 0..Len(sent[t])
      BY <1>1
    <2>2. Len(sent'[t]) = n /\ \A k \in 1..n : sent'[t][k] = sent[t][k]
      BY <2>1, CutSeq
    <2>3. i \in Unread(t)' => i \in Unread(t) /\ sent'[t][i] = sent[t][i]
      BY <2>1, <2>2 DEF Unread
    <2> QED BY <1>3, <2>3 DEF Announces
  <1> QED BY <1>2, <1>3

LEMMA WorkerSub ==
  ASSUME TypeOK, SubInv, EndInv, NEW t \in Task, Worker(t) \/ Death(t)
  PROVE  SubInv'
  <1>0. wstate \in [Task -> WState] /\ sent \in [Task -> Seq(Message)]
    BY DEF TypeOK
  <1>1. ASSUME NEW u \in Task, SendSubtask(t, u) PROVE SubInv'
    <2> DEFINE m == [kind |-> "sub", task |-> u]
    <2>1. /\ wstate[t] = "running" /\ wstate[u] = "unused"
          /\ wstate' = [wstate EXCEPT ![u] = "made"]
          /\ sent' = [sent EXCEPT ![t] = Append(sent[t], m)]
          /\ rcvd' = rcvd
      BY <1>1 DEF SendSubtask, Runs, Send, Become
    <2>2. m \in Message
      BY DEF Message
    <2>3. /\ sent[t] \in Seq(Message) /\ rcvd[t] \in Nat /\ rcvd[t] <= Len(sent[t])
          /\ sent'[t] = Append(sent[t], m)
      BY <1>0, <2>1 DEF TypeOK, EndInv, EndsWell
    <2>k. PICK k \in Nat : k = Len(sent[t]) + 1
      BY <2>3
    <2>4. /\ Len(sent'[t]) = k /\ Len(sent[t]) \in Nat /\ sent'[t][k] = m
          /\ \A j \in 1..Len(sent[t]) : sent'[t][j] = sent[t][j]
      BY <2>2, <2>3, <2>k, PushSeq
    <2>5. Unread(t)' = Unread(t) \cup {k} /\ k \notin Unread(t)
      BY <2>1, <2>3, <2>4, <2>k DEF Unread
    \* Only u is announced anew.
    <2>6. \A v, w \in Task : \A i :
            Announces(v, i, w)' <=> \/ Announces(v, i, w)
                                    \/ v = t /\ i = k /\ w = u
      <3> SUFFICES ASSUME NEW v \in Task, NEW w \in Task, NEW i
                   PROVE  Announces(v, i, w)' <=> \/ Announces(v, i, w)
                                                  \/ v = t /\ i = k /\ w = u
        OBVIOUS
      <3>1. CASE v # t
        <4>1. sent'[v] = sent[v]
          BY <1>0, <2>1, <3>1
        <4>2. Announces(v, i, w)' <=> Announces(v, i, w)
          BY <2>1, <4>1 DEF Announces, Unread
        <4> QED BY <3>1, <4>2
      <3>2. CASE v = t /\ i = k
        <4>1. [kind |-> "sub", task |-> u] = [kind |-> "sub", task |-> w] => u = w
          <5>1. [kind |-> "sub", task |-> u].task = u /\ [kind |-> "sub", task |-> w].task = w
            OBVIOUS
          <5> QED BY <5>1
        <4> QED BY <2>4, <2>5, <3>2, <4>1 DEF Announces
      <3>3. CASE v = t /\ i # k
        <4>1. i \in Unread(t) => sent'[t][i] = sent[t][i]
          BY <2>4 DEF Unread
        <4>2. i \in Unread(v)' <=> i \in Unread(v)
          BY <2>5, <3>3
        <4>3. i \in Unread(v) => sent'[v][i] = sent[v][i]
          BY <3>3, <4>1
        <4>4. Announces(v, i, w)' <=> Announces(v, i, w)
          BY <4>2, <4>3 DEF Announces
        <4> QED BY <3>3, <4>4
      <3> QED BY <3>1, <3>2, <3>3
    <2>7. \A v, w \in Task : \A i : Announces(v, i, w) => i \in Unread(v) /\ wstate[w] = "made"
      BY DEF Announces, SubInv
    <2>8. \A v, w \in Task : \A i : Announces(v, i, w)' => i \in Unread(v)'
      BY DEF Announces
    <2>9. wstate'[u] = "made" /\ \A w \in Task : w # u => wstate'[w] = wstate[w]
      BY <1>0, <2>1 DEF WState
    <2>10. \A v, w \in Task : \A i \in Unread(v)' : Announces(v, i, w)' => wstate'[w] = "made"
      BY <2>6, <2>7, <2>9
    <2>11. \A v, x, w \in Task : \A i \in Unread(v)', j \in Unread(x)' :
             Announces(v, i, w)' /\ Announces(x, j, w)' => v = x /\ i = j
      BY <2>1, <2>6, <2>7 DEF SubInv
    <2>12. ASSUME NEW w \in Task, wstate'[w] = "made"
           PROVE  \E v \in Task : \/ wstate'[v] = "lost"
                                  \/ \E i \in Unread(v)' : Announces(v, i, w)'
      <3>1. CASE w = u
        <4>1. Announces(t, k, u)'
          BY <2>6
        <4> QED BY <2>8, <3>1, <4>1
      <3>2. CASE w # u
        <4>1. PICK v \in Task : wstate[v] = "lost" \/ \E i \in Unread(v) : Announces(v, i, w)
          BY <2>9, <2>12, <3>2 DEF SubInv
        <4>2. CASE wstate[v] = "lost"
          BY <2>1, <2>9, <4>2
        <4>3. CASE \E i \in Unread(v) : Announces(v, i, w)
          BY <2>6, <2>8, <4>3
        <4> QED BY <4>1, <4>2, <4>3
      <3> QED BY <3>1, <3>2
    <2> QED BY <2>10, <2>11, <2>12 DEF SubInv
  <1>2. ASSUME NEW m \in Message, m.kind # "sub", Send(t, m), rcvd' = rcvd,
               \A u \in Task : wstate'[u] = "made" <=> wstate[u] = "made",
               \A u \in Task : wstate[u] = "lost" => wstate'[u] = "lost"
        PROVE  SubInv'
    BY <1>2, SendOther, KeepSub
  <1>3. ASSUME sent' = sent, rcvd' = rcvd,
               \A u \in Task : wstate'[u] = "made" <=> wstate[u] = "made",
               \A u \in Task : wstate[u] = "lost" => wstate'[u] = "lost"
        PROVE  SubInv'
    <2>1. \A v, u \in Task : \A i : Announces(v, i, u)' <=> Announces(v, i, u)
      BY <1>3 DEF Announces, Unread
    <2> QED BY <1>3, <2>1, KeepSub
  <1>4. \A k \in {"out", "warn", "exc", "end"} : [kind |-> k] \in Message /\ [kind |-> k].kind # "sub"
    BY DEF Message
  <1>5. CASE Start(t)
    <2>1. /\ rcvd' = rcvd
          /\ \A u \in Task : wstate'[u] = "made" <=> wstate[u] = "made"
          /\ \A u \in Task : wstate[u] = "lost" => wstate'[u] = "lost"
          /\ sent' = sent \/ Send(t, [kind |-> "warn"])
      BY <1>0, <1>5 DEF Start, Become
    <2> QED BY <1>2, <1>3, <1>4, <2>1
  <1>6. CASE SendOutput(t)
    BY <1>2, <1>4, <1>6 DEF SendOutput
  <1>7. CASE SendFails(t) \/ SendMismatch(t)
    BY <1>2, <1>4, <1>7 DEF SendFails, SendMismatch
  <1>8. CASE TaskRaises(t) \/ EndTask(t)
    <2>1. /\ rcvd' = rcvd
          /\ \A u \in Task : wstate'[u] = "made" <=> wstate[u] = "made"
          /\ \A u \in Task : wstate[u] = "lost" => wstate'[u] = "lost"
          /\ Send(t, [kind |-> "exc"]) \/ Send(t, [kind |-> "end"])
      BY <1>0, <1>8 DEF TaskRaises, EndTask, Runs, Become
    <2> QED BY <1>2, <1>4, <2>1
  <1>9. CASE Unwind(t)
    <2>1. /\ rcvd' = rcvd /\ sent' = sent
          /\ \A u \in Task : wstate'[u] = "made" <=> wstate[u] = "made"
          /\ \A u \in Task : wstate[u] = "lost" => wstate'[u] = "lost"
      BY <1>0, <1>9 DEF Unwind, Become
    <2> QED BY <1>3, <2>1
  <1>10. CASE Kill(t)
    <2>1. /\ rcvd' = rcvd /\ wstate'[t] = "lost"
          /\ \A u \in Task : wstate'[u] = "made" <=> wstate[u] = "made"
          /\ \A u \in Task : wstate[u] = "lost" => wstate'[u] = "lost"
      BY <1>0, <1>10 DEF Kill, Become
    <2>2. PICK n \in rcvd[t]..Len(sent[t]) : sent' = [sent EXCEPT ![t] = SubSeq(sent[t], 1, n)]
      BY <1>10 DEF Kill
    <2>3. \A v, u \in Task : \A i : /\ Announces(v, i, u)' => Announces(v, i, u)
                                    /\ Announces(v, i, u) => v = t \/ Announces(v, i, u)'
      BY <2>1, <2>2, CutOther
    <2> QED BY <2>1, <2>3, KeepSub
  <1> QED BY <1>1, <1>5, <1>6, <1>7, <1>8, <1>9, <1>10 DEF Worker, Death

LEMMA NextSub ==
  ASSUME OQ_TASK_NO = -1, TypeOK, QueueInv, SubInv, EndInv, [Next]_vars
  PROVE  SubInv'
  <1>0. /\ first_args \in Seq(Task) /\ task_queue \in Seq(Task)
        /\ wstate \in [Task -> WState]
    BY DEF TypeOK
  \* Steps that leave the messages alone
  <1>1. ASSUME sent' = sent, rcvd' = rcvd,
               \A u \in Task : wstate'[u] = "made" <=> wstate[u] = "made",
               \A u \in Task : wstate[u] = "lost" => wstate'[u] = "lost"
        PROVE  SubInv'
    <2>1. \A v, u \in Task : \A i : Announces(v, i, u)' <=> Announces(v, i, u)
      BY <1>1 DEF Announces, Unread
    <2> QED BY <1>1, <2>1, KeepSub
  <1>2. CASE UNCHANGED <<sent, rcvd, wstate>>
    BY <1>1, <1>2
  <1>3. CASE SubmitFirst
    <2>1. Head(first_args) \in Task /\ wstate[Head(first_args)] = "queued"
      BY <1>0, <1>3, PopFirst DEF SubmitFirst, QueueInv
    <2>2. wstate' = [wstate EXCEPT ![Head(first_args)] = "pooled"]
      BY <1>3, SubmitFirstEffect
    <2>3. sent' = sent /\ rcvd' = rcvd
      BY <1>3 DEF SubmitFirst
    <2>4. \A u \in Task : /\ wstate'[u] = "made" <=> wstate[u] = "made"
                          /\ wstate[u] = "lost" => wstate'[u] = "lost"
      BY <1>0, <2>1, <2>2
    <2> QED BY <1>1, <2>3, <2>4
  <1>4. CASE EnterLoop \/ RecvStale \/ MasterFails \/ CloseLoop
    BY <1>2, <1>4 DEF EnterLoop, RecvStale, MasterFails, CloseLoop
  <1>5. CASE Shutdown
    <2>1. sent' = sent /\ rcvd' = rcvd
      BY <1>5 DEF Shutdown
    <2>2. \A u \in Task : /\ wstate'[u] = "made" <=> wstate[u] = "made"
                          /\ wstate[u] = "lost" => wstate'[u] = "lost"
      BY <1>0, <1>5 DEF Shutdown
    <2> QED BY <1>1, <2>1, <2>2
  \* Steps that read another message
  <1>6. ASSUME NEW t \in Task, NEW kinds, NextIs(t, kinds), "sub" \notin kinds,
               Read(t), sent' = sent,
               \A u \in Task : wstate'[u] = "made" <=> wstate[u] = "made",
               \A u \in Task : wstate[u] = "lost" => wstate'[u] = "lost"
        PROVE  SubInv'
    BY <1>6, ReadOther, KeepSub
  <1>7. ASSUME NEW t \in Task, RecvEnd(t) PROVE SubInv'
    <2>1. NextIs(t, {"end"}) /\ Read(t) /\ sent' = sent /\ SubmitMany(task_queue, wstate, todo - 1)
      BY <1>7 DEF RecvEnd
    <2>2. CASE task_queue = << >>
      <3>1. wstate' = wstate
        BY <2>1, <2>2, SubmitManyEffect
      <3> QED BY <1>6, <2>1, <3>1
    <2>3. CASE task_queue # << >>
      <3>1. Head(task_queue) \in Task /\ wstate[Head(task_queue)] = "queued"
        BY <1>0, <2>3, PopQueue DEF QueueInv
      <3>2. wstate' = [wstate EXCEPT ![Head(task_queue)] = "pooled"]
        BY <2>1, <2>3, SubmitManyEffect
      <3>3. \A u \in Task : /\ wstate'[u] = "made" <=> wstate[u] = "made"
                            /\ wstate[u] = "lost" => wstate'[u] = "lost"
        BY <1>0, <3>1, <3>2
      <3> QED BY <1>6, <2>1, <3>3
    <2> QED BY <2>2, <2>3
  <1>8. ASSUME NEW t \in Task, RecvOut(t) PROVE SubInv'
    BY <1>6, <1>8 DEF RecvOut
  <1>9. ASSUME NEW t \in Task, RecvExc(t) PROVE SubInv'
    BY <1>6, <1>9 DEF RecvExc
  <1>10. ASSUME NEW t \in Task, RecvOutOfMemory(t) PROVE SubInv'
    BY <1>6, <1>10 DEF RecvOutOfMemory
  \* The subtask u leaves the message for the queue.
  <1>11. ASSUME NEW t \in Task, RecvSub(t) PROVE SubInv'
    <2> DEFINE q == Append(task_queue, sent[t][rcvd[t] + 1].task)
               ws == [wstate EXCEPT ![sent[t][rcvd[t] + 1].task] = "queued"]
    <2>1. PICK k \in Nat, u \in Task :
            /\ k = rcvd[t] + 1 /\ u = sent[t][rcvd[t] + 1].task
            /\ Announces(t, k, u) /\ wstate[u] = "made"
            /\ SubmitMany(q, ws, todo)
      <3>1. rcvd[t] + 1 \in Nat
        BY DEF TypeOK
      <3>2. /\ sent[t][rcvd[t] + 1].task \in Task
            /\ Announces(t, rcvd[t] + 1, sent[t][rcvd[t] + 1].task)
            /\ wstate[sent[t][rcvd[t] + 1].task] = "made"
            /\ SubmitMany(q, ws, todo)
        BY <1>11, SubMessage
      <3> HIDE DEF q, ws
      <3> QED BY <3>1, <3>2
    <2>2. /\ sent' = sent /\ rcvd' = [rcvd EXCEPT ![t] = rcvd[t] + 1]
          /\ rcvd \in [Task -> Nat]
      BY <1>11 DEF RecvSub, Read, TypeOK
    <2>3. q \in Seq(Task) /\ q # << >> /\ ws \in [Task -> WState]
      BY <1>0, <2>1, PushSeq
    <2>4. QueuesHold(first_args, q, ws)
      BY <1>0, <2>1, PushQueue DEF QueueInv
    <2>5. PICK h \in Task : ws[h] = "queued" /\ wstate' = [ws EXCEPT ![h] = "pooled"]
      <3> HIDE DEF q, ws
      <3>1. wstate' = [ws EXCEPT ![Head(q)] = "pooled"]
        BY <2>1, <2>3, SubmitManyEffect
      <3> QED BY <1>0, <2>3, <2>4, <3>1, PopQueue
    <2>6. \A w \in Task : wstate'[w] = "made" <=> wstate[w] = "made" /\ w # u
      BY <1>0, <2>1, <2>5
    <2>7. \A w \in Task : wstate[w] = "lost" => wstate'[w] = "lost"
      BY <1>0, <2>1, <2>5
    <2>8. \A v \in Task : \A i : i \in Unread(v)' <=> i \in Unread(v) /\ ~(v = t /\ i = k)
      BY <2>1, <2>2 DEF Unread
    <2>9. \A v, w \in Task : \A i :
            Announces(v, i, w)' <=> Announces(v, i, w) /\ ~(v = t /\ i = k)
      BY <2>2, <2>8 DEF Announces
    <2>10. \A v, w \in Task : \A i : Announces(v, i, w) => i \in Unread(v)
      BY DEF Announces
    <2>11. \A v \in Task : \A i : Announces(v, i, u) => v = t /\ i = k
      BY <2>1, <2>10 DEF SubInv
    <2>12. \A v, w \in Task : \A i \in Unread(v)' : Announces(v, i, w)' => wstate'[w] = "made"
      BY <2>6, <2>9, <2>10, <2>11 DEF SubInv
    <2>13. \A v, x, w \in Task : \A i \in Unread(v)', j \in Unread(x)' :
             Announces(v, i, w)' /\ Announces(x, j, w)' => v = x /\ i = j
      BY <2>9, <2>10 DEF SubInv
    <2>14. \A v, w \in Task : \A i :
             Announces(v, i, w) /\ w # u => i \in Unread(v)' /\ Announces(v, i, w)'
      <3>1. \A w \in Task : Announces(t, k, w) => w = u
        <4> TAKE w \in Task
        <4>1. [kind |-> "sub", task |-> u].task = u /\ [kind |-> "sub", task |-> w].task = w
          OBVIOUS
        <4> QED BY <2>1, <4>1 DEF Announces
      <3> QED BY <2>8, <2>9, <2>10, <3>1
    <2>15. ASSUME NEW w \in Task, wstate'[w] = "made"
           PROVE  \E v \in Task : \/ wstate'[v] = "lost"
                                  \/ \E i \in Unread(v)' : Announces(v, i, w)'
      <3>1. wstate[w] = "made" /\ w # u
        BY <2>6, <2>15
      <3>2. PICK v \in Task : wstate[v] = "lost" \/ \E i \in Unread(v) : Announces(v, i, w)
        BY <3>1 DEF SubInv
      <3> QED BY <2>7, <2>14, <3>1, <3>2
    <2> QED BY <2>12, <2>13, <2>15 DEF SubInv
  <1>12. ASSUME NEW t \in Task, Worker(t) \/ Death(t) PROVE SubInv'
    BY <1>12, WorkerSub
  <1>13. CASE UNCHANGED vars
    BY <1>2, <1>13 DEF vars
  <1> QED
    BY <1>3, <1>4, <1>5, <1>7, <1>8, <1>9, <1>10, <1>11, <1>12, <1>13 DEF Next, Master

-----------------------------------------------------------------------------
(* The ends of the tasks *)

Idle == {"unused", "made", "queued", "pooled"}

LEMMA KeepEnd ==
  ASSUME NEW v \in Task, EndsWell(v), sent'[v] = sent[v], rcvd'[v] <= Len(sent[v]),
         \/ wstate'[v] = wstate[v]
         \/ /\ wstate[v] # "done" /\ wstate'[v] \notin {"done", "skipped"}
            /\ wstate'[v] \in Idle => wstate[v] \in Idle
  PROVE  EndsWell(v)'
  BY DEF EndsWell, Idle

LEMMA SendEnd ==
  ASSUME TypeOK, NEW t \in Task, NEW m \in Message, EndsWell(t), Send(t, m),
         rcvd' = rcvd, wstate[t] # "done",
         wstate'[t] \in IF m.kind = "end" THEN {"done"}
                       ELSE {"running", "failed", "mismatched"}
  PROVE  EndsWell(t)'
  <1>1. /\ sent[t] \in Seq(Message) /\ sent'[t] = Append(sent[t], m)
        /\ rcvd[t] \in Nat /\ rcvd'[t] = rcvd[t]
    BY DEF TypeOK, Send
  <1> DEFINE n == Len(sent[t])
  <1>2. /\ Len(sent'[t]) = n + 1 /\ n \in Nat /\ sent'[t][n + 1] = m
        /\ \A i \in 1..n : sent'[t][i] = sent[t][i]
    BY <1>1, PushSeq
  <1>3. \A i \in 1..n : sent[t][i].kind # "end"
    BY DEF EndsWell
  <1>4. \A i \in 1..(n + 1) : i \in 1..n \/ i = n + 1
    BY <1>2
  <1>5. \A i \in 1..Len(sent'[t]) : sent'[t][i].kind = "end" => m.kind = "end" /\ i = n + 1
    BY <1>2, <1>3, <1>4
  <1>6. rcvd'[t] <= Len(sent'[t])
    BY <1>1, <1>2 DEF EndsWell
  <1> HIDE DEF n
  <1>7. wstate'[t] = "done" => m.kind = "end"
    OBVIOUS
  <1> QED BY <1>2, <1>5, <1>6, <1>7 DEF EndsWell

LEMMA WorkerEnd ==
  ASSUME TypeOK, EndInv, NEW t \in Task, Worker(t) \/ Death(t)
  PROVE  EndInv'
  <1>0. /\ wstate \in [Task -> WState] /\ sent \in [Task -> Seq(Message)]
        /\ \A v \in Task : EndsWell(v) /\ rcvd[v] <= Len(sent[v])
    BY DEF TypeOK, EndInv, EndsWell
  <1>1. \A k \in {"out", "warn", "exc", "end"} : [kind |-> k] \in Message /\ [kind |-> k].kind = k
    BY DEF Message
  \* The other tasks
  <1>2. ASSUME NEW v \in Task, v # t,
               sent'[v] = sent[v], rcvd' = rcvd,
               wstate'[v] = wstate[v] \/ (wstate[v] = "unused" /\ wstate'[v] = "made")
        PROVE  EndsWell(v)'
    <2>1. rcvd'[v] <= Len(sent[v])
      BY <1>0, <1>2
    <2> QED BY <1>0, <1>2, <2>1, KeepEnd DEF Idle
  <1>3. ASSUME NEW m \in Message, Send(t, m), rcvd' = rcvd, wstate[t] # "done",
               \/ wstate' = wstate /\ wstate[t] \in {"running", "failed", "mismatched"}
               \/ \E s \in {"running", "failed", "mismatched", "done"} : Become(t, s),
               wstate'[t] = "done" <=> m.kind = "end"
        PROVE  EndInv'
    <2>1. wstate'[t] \in {"running", "failed", "mismatched", "done"}
      BY <1>0, <1>3 DEF Become
    <2>2. EndsWell(t)'
      BY <1>0, <1>3, <2>1, SendEnd
    <2>3. \A v \in Task : v # t => sent'[v] = sent[v] /\ wstate'[v] = wstate[v]
      BY <1>0, <1>3 DEF Send, Become
    <2> QED BY <1>2, <1>3, <2>2, <2>3 DEF EndInv
  <1>4. ASSUME sent' = sent, rcvd' = rcvd, wstate[t] # "done",
               NEW s \in {"running", "failed", "mismatched", "lost"}, Become(t, s)
        PROVE  EndInv'
    <2>1. wstate'[t] = s /\ \A v \in Task : v # t => wstate'[v] = wstate[v]
      BY <1>0, <1>4 DEF Become
    <2>2. rcvd'[t] <= Len(sent[t])
      BY <1>0, <1>4
    <2>3. EndsWell(t)'
      BY <1>0, <1>4, <2>1, <2>2, KeepEnd DEF Idle
    <2> QED BY <1>2, <1>4, <2>1, <2>3 DEF EndInv
  <1>5. CASE Start(t)
    <2>1. rcvd' = rcvd /\ wstate[t] = "pooled"
      BY <1>5 DEF Start
    <2>2. CASE sent' = sent
      BY <1>4, <1>5, <2>1, <2>2 DEF Start
    <2>3. CASE Become(t, "running") /\ Send(t, [kind |-> "warn"])
      <3>1. wstate'[t] = "running"
        BY <1>0, <2>3 DEF Become
      <3> QED BY <1>1, <1>3, <2>1, <2>3, <3>1
    <2> QED BY <1>5, <2>2, <2>3 DEF Start
  <1>6. CASE SendOutput(t)
    <2>1. Send(t, [kind |-> "out"]) /\ rcvd' = rcvd /\ wstate' = wstate /\ wstate[t] = "running"
      BY <1>6 DEF SendOutput, Runs
    <2> QED BY <1>1, <1>3, <2>1
  <1>7. CASE SendFails(t) \/ SendMismatch(t)
    <2>1. /\ Send(t, [kind |-> "exc"]) /\ rcvd' = rcvd /\ wstate' = wstate
          /\ wstate[t] \in {"running", "mismatched"}
      BY <1>7 DEF SendFails, SendMismatch, Runs
    <2> QED BY <1>1, <1>3, <2>1
  <1>8. CASE TaskRaises(t)
    <2>1. /\ Send(t, [kind |-> "exc"]) /\ rcvd' = rcvd /\ Become(t, "failed")
          /\ wstate[t] = "running"
      BY <1>8 DEF TaskRaises, Runs
    <2>2. wstate'[t] = "failed"
      BY <1>0, <2>1 DEF Become
    <2> QED BY <1>1, <1>3, <2>1, <2>2
  <1>9. CASE EndTask(t)
    <2>1. /\ Send(t, [kind |-> "end"]) /\ rcvd' = rcvd /\ Become(t, "done")
          /\ wstate[t] # "done"
      BY <1>9 DEF EndTask
    <2>2. wstate'[t] = "done"
      BY <1>0, <2>1 DEF Become
    <2> QED BY <1>1, <1>3, <2>1, <2>2
  <1>10. CASE Unwind(t)
    BY <1>4, <1>10 DEF Unwind
  <1>11. CASE Kill(t)
    <2>1. /\ wstate[t] \in {"running", "failed", "mismatched"} /\ rcvd' = rcvd
          /\ wstate' = [wstate EXCEPT ![t] = "lost"]
      BY <1>11 DEF Kill, Become
    <2>2. PICK n \in rcvd[t]..Len(sent[t]) : sent' = [sent EXCEPT ![t] = SubSeq(sent[t], 1, n)]
      BY <1>11 DEF Kill
    <2>3. rcvd[t] \in Nat /\ sent[t] \in Seq(Message) /\ n \in 0..Len(sent[t]) /\ rcvd[t] <= n
      BY <2>2 DEF TypeOK
    <2>4. /\ sent'[t] = SubSeq(sent[t], 1, n) /\ wstate'[t] = "lost"
          /\ \A v \in Task : v # t => sent'[v] = sent[v] /\ wstate'[v] = wstate[v]
      BY <1>0, <2>1, <2>2
    <2>5. Len(sent'[t]) = n /\ \A i \in 1..n : sent'[t][i] = sent[t][i] /\ i \in 1..Len(sent[t])
      BY <2>3, <2>4, CutSeq
    <2>6. \A i \in 1..Len(sent[t]) : sent[t][i].kind # "end"
      BY <1>0, <2>1 DEF EndsWell
    <2>7. EndsWell(t)'
      BY <2>1, <2>3, <2>4, <2>5, <2>6 DEF EndsWell
    <2> QED BY <1>2, <2>1, <2>4, <2>7 DEF EndInv
  <1>12. ASSUME NEW u \in Task, SendSubtask(t, u) PROVE EndInv'
    <2> DEFINE m == [kind |-> "sub", task |-> u]
    <2>1. /\ Send(t, m) /\ rcvd' = rcvd /\ wstate[t] = "running" /\ wstate[u] = "unused"
          /\ wstate' = [wstate EXCEPT ![u] = "made"]
      BY <1>12 DEF SendSubtask, Runs, Become
    <2>2. m \in Message /\ m.kind = "sub"
      BY DEF Message
    <2> HIDE DEF m
    <2>3. u # t /\ wstate'[t] = "running"
      BY <1>0, <2>1
    <2>4. EndsWell(t)'
      BY <1>0, <2>1, <2>2, <2>3, SendEnd
    <2>5. ASSUME NEW v \in Task, v # t PROVE EndsWell(v)'
      <3>1. sent'[v] = sent[v]
        BY <1>0, <2>1, <2>5 DEF Send
      <3>2. wstate'[v] = wstate[v] \/ (wstate[v] = "unused" /\ wstate'[v] = "made")
        BY <1>0, <2>1
      <3> QED BY <1>2, <2>1, <2>5, <3>1, <3>2
    <2> QED BY <2>4, <2>5 DEF EndInv
  <1> QED BY <1>5, <1>6, <1>7, <1>8, <1>9, <1>10, <1>11, <1>12 DEF Worker, Death

\* When a task ends, the first queued task, if there is one, takes its place.
LEMMA RecvEndEffect ==
  ASSUME OQ_TASK_NO = -1, TypeOK, QueueInv, NEW t \in Task, RecvEnd(t)
  PROVE  /\ Reading /\ NextIs(t, {"end"}) /\ Read(t) /\ sent' = sent
         /\ pc' = pc /\ first_args' = first_args /\ yielded' = yielded
         /\ \/ /\ task_queue' = << >> /\ wstate' = wstate /\ todo' = todo - 1
            \/ /\ task_queue # << >> /\ todo' = todo
               /\ \E h \in Task : /\ wstate[h] = "queued"
                                  /\ wstate' = [wstate EXCEPT ![h] = "pooled"]
  <1>0. /\ first_args \in Seq(Task) /\ task_queue \in Seq(Task)
        /\ wstate \in [Task -> WState] /\ todo \in Int
    BY DEF TypeOK
  <1>1. /\ Reading /\ NextIs(t, {"end"}) /\ Read(t) /\ sent' = sent
        /\ pc' = pc /\ first_args' = first_args /\ yielded' = yielded
        /\ SubmitMany(task_queue, wstate, todo - 1)
    BY DEF RecvEnd
  <1>2. CASE task_queue = << >>
    <2>1. task_queue' = << >> /\ wstate' = wstate /\ todo' = todo - 1
      BY <1>1, <1>2, SubmitManyEffect
    <2> QED BY <1>1, <2>1
  <1>3. CASE task_queue # << >>
    <2>1. wstate' = [wstate EXCEPT ![Head(task_queue)] = "pooled"] /\ todo' = (todo - 1) + 1
      BY <1>1, <1>3, SubmitManyEffect
    <2>2. Head(task_queue) \in Task /\ wstate[Head(task_queue)] = "queued"
      BY <1>0, <1>3, PopQueue DEF QueueInv
    <2>3. todo' = todo
      BY <1>0, <2>1
    <2> QED BY <1>1, <1>3, <2>1, <2>2, <2>3
  <1> QED BY <1>2, <1>3

\* A subtask u joins the queue and the first task h of the queue the pool.
LEMMA RecvSubEffect ==
  ASSUME OQ_TASK_NO = -1, TypeOK, QueueInv, SubInv, NEW t \in Task, RecvSub(t)
  PROVE  /\ Reading /\ NextIs(t, {"sub"}) /\ Read(t) /\ sent' = sent
         /\ pc' = pc /\ first_args' = first_args /\ yielded' = yielded
         /\ todo' = todo + 1
         /\ task_queue' # << >> => task_queue # << >>
         /\ \E u, h \in Task :
              /\ wstate[u] = "made" /\ (h = u \/ wstate[h] = "queued")
              /\ wstate' = [[wstate EXCEPT ![u] = "queued"] EXCEPT ![h] = "pooled"]
  <1>0. /\ first_args \in Seq(Task) /\ task_queue \in Seq(Task)
        /\ wstate \in [Task -> WState] /\ todo \in Int
    BY DEF TypeOK
  <1>1. /\ Reading /\ NextIs(t, {"sub"}) /\ Read(t) /\ sent' = sent
        /\ pc' = pc /\ first_args' = first_args /\ yielded' = yielded
    BY DEF RecvSub
  <1>2. PICK u \in Task :
          /\ wstate[u] = "made"
          /\ SubmitMany(Append(task_queue, u), [wstate EXCEPT ![u] = "queued"], todo)
    BY SubMessage
  <1> DEFINE q == Append(task_queue, u)
             ws == [wstate EXCEPT ![u] = "queued"]
  <1>3. /\ q \in Seq(Task) /\ q # << >> /\ Len(q) = Len(task_queue) + 1
        /\ ws \in [Task -> WState]
    BY <1>0, PushSeq
  <1>4. QueuesHold(first_args, q, ws)
    BY <1>0, <1>2, PushQueue DEF QueueInv
  <1>5. \A h \in Task : ws[h] = "queued" => h = u \/ wstate[h] = "queued"
    BY <1>0
  <1>6. SubmitMany(q, ws, todo)
    BY <1>2
  <1> HIDE DEF q, ws
  <1>7. /\ task_queue' = Tail(q) /\ todo' = todo + 1
        /\ wstate' = [ws EXCEPT ![Head(q)] = "pooled"]
    BY <1>3, <1>6, SubmitManyEffect
  <1>8. Head(q) \in Task /\ ws[Head(q)] = "queued"
    BY <1>0, <1>3, <1>4, PopQueue
  <1>9. task_queue' # << >> => task_queue # << >>
    <2>1. task_queue' \in Seq(Task) /\ Len(task_queue') = Len(task_queue)
      BY <1>0, <1>3, <1>7, PopSeq
    <2> QED BY <1>0, <2>1
  <1>10. /\ Head(q) = u \/ wstate[Head(q)] = "queued"
         /\ wstate' = [[wstate EXCEPT ![u] = "queued"] EXCEPT ![Head(q)] = "pooled"]
    BY <1>5, <1>7, <1>8 DEF ws
  <1> QED BY <1>1, <1>2, <1>7, <1>8, <1>9, <1>10

LEMMA NextEnd ==
  ASSUME OQ_TASK_NO = -1, TypeOK, QueueInv, SubInv, EndInv, [Next]_vars
  PROVE  EndInv'
  <1>0. /\ first_args \in Seq(Task) /\ wstate \in [Task -> WState]
        /\ rcvd \in [Task -> Nat]
        /\ \A v \in Task : EndsWell(v) /\ rcvd[v] <= Len(sent[v])
    BY DEF TypeOK, EndInv, EndsWell
  \* What a step of the master may do to a task
  <1> DEFINE Harmless(v) == \/ wstate'[v] = wstate[v]
                            \/ wstate[v] \in Idle /\ wstate'[v] \in Idle
                            \/ wstate[v] \in Busy /\ wstate'[v] = "lost"
  <1>1. ASSUME sent' = sent, \A v \in Task : rcvd'[v] <= Len(sent[v]),
               \A v \in Task : Harmless(v)
        PROVE  EndInv'
    <2> SUFFICES ASSUME NEW v \in Task PROVE EndsWell(v)'
      BY DEF EndInv
    <2>1. \/ wstate'[v] = wstate[v]
          \/ /\ wstate[v] # "done" /\ wstate'[v] \notin {"done", "skipped"}
             /\ wstate'[v] \in Idle => wstate[v] \in Idle
      BY <1>1 DEF Idle
    <2> QED BY <1>0, <1>1, <2>1, KeepEnd
  <1>2. ASSUME NEW t \in Task, NEW kinds, NextIs(t, kinds), Read(t)
        PROVE  \A v \in Task : rcvd'[v] <= Len(sent[v])
    <2>1. rcvd' = [rcvd EXCEPT ![t] = rcvd[t] + 1] /\ rcvd[t] + 1 <= Len(sent[t])
      BY <1>0, <1>2, NextMessage DEF Read
    <2> QED BY <1>0, <2>1
  <1>3. CASE UNCHANGED <<sent, rcvd, wstate>>
    BY <1>0, <1>1, <1>3
  <1>4. CASE SubmitFirst
    <2>1. Head(first_args) \in Task /\ wstate[Head(first_args)] = "queued"
      BY <1>0, <1>4, PopFirst DEF SubmitFirst, QueueInv, TypeOK
    <2>2. /\ wstate' = [wstate EXCEPT ![Head(first_args)] = "pooled"]
          /\ sent' = sent /\ rcvd' = rcvd
      BY <1>4, SubmitFirstEffect DEF SubmitFirst
    <2>3. \A v \in Task : Harmless(v)
      BY <1>0, <2>1, <2>2 DEF Idle
    <2> QED BY <1>0, <1>1, <2>2, <2>3
  <1>5. CASE EnterLoop \/ RecvStale \/ MasterFails \/ CloseLoop
    BY <1>3, <1>5 DEF EnterLoop, RecvStale, MasterFails, CloseLoop
  <1>6. CASE Shutdown
    <2>1. sent' = sent /\ rcvd' = rcvd
      BY <1>6 DEF Shutdown
    <2>2. \A v \in Task : Harmless(v)
      BY <1>0, <1>6 DEF Shutdown
    <2> QED BY <1>0, <1>1, <2>1, <2>2
  <1>7. ASSUME NEW t \in Task, RecvEnd(t) PROVE EndInv'
    <2>1. \A v \in Task : Harmless(v)
      BY <1>0, <1>7, RecvEndEffect DEF Idle
    <2> QED BY <1>1, <1>2, <1>7, <2>1, RecvEndEffect
  <1>8. ASSUME NEW t \in Task, RecvSub(t) PROVE EndInv'
    <2>1. \A v \in Task : Harmless(v)
      <3>1. PICK u \in Task, h \in Task :
              /\ wstate[u] = "made" /\ (h = u \/ wstate[h] = "queued")
              /\ wstate' = [[wstate EXCEPT ![u] = "queued"] EXCEPT ![h] = "pooled"]
        BY <1>8, RecvSubEffect
      <3> QED BY <1>0, <3>1 DEF Idle
    <2> QED BY <1>1, <1>2, <1>8, <2>1, RecvSubEffect
  <1>9. ASSUME NEW t \in Task, RecvOut(t) \/ RecvExc(t) \/ RecvOutOfMemory(t) PROVE EndInv'
    <2>1. /\ sent' = sent /\ wstate' = wstate /\ Read(t)
          /\ NextIs(t, {"out", "warn"}) \/ NextIs(t, {"exc"})
      BY <1>9 DEF RecvOut, RecvExc, RecvOutOfMemory
    <2> QED BY <1>1, <1>2, <2>1
  <1>10. ASSUME NEW t \in Task, Worker(t) \/ Death(t) PROVE EndInv'
    BY <1>10, WorkerEnd
  <1>11. CASE UNCHANGED vars
    BY <1>3, <1>11 DEF vars
  <1> QED
    BY <1>4, <1>5, <1>6, <1>7, <1>8, <1>9, <1>10, <1>11 DEF Next, Master

-----------------------------------------------------------------------------
(* The counter *)

LEMMA PendingFinite ==
  /\ IsFiniteSet(Pending) /\ Cardinality(Pending) \in Nat
  /\ Pending = {} <=> Cardinality(Pending) = 0
  <1>1. IsFiniteSet(Task) /\ Pending \subseteq Task
    BY ConstantsAssumption DEF Pending
  <1>2. IsFiniteSet(Pending)
    BY <1>1, FS_Subset
  <1> QED BY <1>2, FS_CardinalityType, FS_EmptySet

\* A message that is not TASK_ENDED is not the last one of a task.
LEMMA NotLast ==
  ASSUME TypeOK, NEW t \in Task, EndsWell(t), NEW kinds, NextIs(t, kinds), "end" \notin kinds,
         wstate[t] = "done"
  PROVE  rcvd[t] + 1 < Len(sent[t])
  <1>1. rcvd[t] \in Nat /\ sent[t] \in Seq(Message) /\ Len(sent[t]) \in Nat
    BY DEF TypeOK
  <1>2. rcvd[t] < Len(sent[t]) /\ sent[t][rcvd[t] + 1].kind # "end"
    BY DEF NextIs
  <1>3. rcvd[t] + 1 # Len(sent[t])
    BY <1>2 DEF EndsWell
  <1> QED BY <1>1, <1>2, <1>3

\* TASK_ENDED is the last one.
LEMMA IsLast ==
  ASSUME TypeOK, NEW t \in Task, EndsWell(t), NextIs(t, {"end"})
  PROVE  wstate[t] = "done" /\ rcvd[t] + 1 = Len(sent[t])
  <1>1. rcvd[t] + 1 \in 1..Len(sent[t])
    BY NextMessage
  <1>2. sent[t][rcvd[t] + 1].kind = "end"
    BY DEF NextIs
  <1> QED BY <1>1, <1>2 DEF EndsWell

\* Reading a message other than TASK_ENDED leaves the sender pending.
LEMMA ReadPending ==
  ASSUME TypeOK, NEW t \in Task, EndsWell(t), NEW kinds, NextIs(t, kinds), "end" \notin kinds,
         Read(t), sent' = sent, wstate' = wstate
  PROVE  Pending' = Pending
  <1>1. rcvd' = [rcvd EXCEPT ![t] = rcvd[t] + 1] /\ rcvd \in [Task -> Nat]
    BY DEF Read, TypeOK
  <1>2. wstate[t] = "done" => rcvd[t] + 1 < Len(sent[t]) /\ rcvd[t] < Len(sent[t])
    BY NotLast DEF NextIs
  <1>3. ASSUME NEW v \in Task PROVE v \in Pending' <=> v \in Pending
    <2>1. CASE v = t
      BY <1>1, <1>2, <2>1 DEF Pending
    <2>2. CASE v # t
      BY <1>1, <2>2 DEF Pending
    <2> QED BY <2>1, <2>2
  <1> QED BY <1>3 DEF Pending

\* The steps of a worker neither add nor remove a task to wait for.
LEMMA WorkerPending ==
  ASSUME TypeOK, EndInv, NEW t \in Task, Worker(t) \/ Death(t)
  PROVE  /\ Pending' = Pending
         /\ rcvd' = rcvd /\ UNCHANGED <<first_args, task_queue, tasks, task_no, todo>>
         /\ pc' = pc \/ pc' = "raised"
  <1>0. /\ wstate \in [Task -> WState] /\ sent \in [Task -> Seq(Message)]
        /\ rcvd \in [Task -> Nat]
        /\ \A v \in Task : rcvd[v] <= Len(sent[v])
    BY DEF TypeOK, EndInv, EndsWell
  <1>1. /\ rcvd' = rcvd /\ UNCHANGED <<first_args, task_queue, tasks, task_no, todo>>
        /\ pc' = pc \/ pc' = "raised"
    BY DEF Worker, Death, Start, SendOutput, SendSubtask, TaskRaises, SendFails,
           SendMismatch, EndTask, Unwind, Kill
  <1> DEFINE Same(v) == v \in Pending' <=> v \in Pending
  <1>2. ASSUME NEW v \in Task, wstate[v] \in Busy, wstate'[v] \in Busy PROVE Same(v)
    BY <1>2 DEF Pending
  <1>3. ASSUME NEW v \in Task, wstate'[v] = wstate[v], sent'[v] = sent[v] PROVE Same(v)
    BY <1>1, <1>3 DEF Pending
  <1>4. SUFFICES \A v \in Task : Same(v)
    BY <1>1 DEF Pending
  <1>5. CASE EndTask(t)
    <2>1. /\ wstate[t] \in Busy /\ wstate' = [wstate EXCEPT ![t] = "done"]
          /\ sent' = [sent EXCEPT ![t] = Append(sent[t], [kind |-> "end"])]
      BY <1>5 DEF EndTask, Become, Send
    <2>2. /\ Len(sent'[t]) = Len(sent[t]) + 1 /\ Len(sent[t]) \in Nat
          /\ rcvd[t] \in Nat /\ rcvd'[t] = rcvd[t]
      <3>1. [kind |-> "end"] \in Message
        BY DEF Message
      <3>2. sent[t] \in Seq(Message) /\ sent'[t] = Append(sent[t], [kind |-> "end"])
        BY <1>0, <2>1
      <3> QED BY <1>0, <1>1, <3>1, <3>2, PushSeq
    <2>3. rcvd'[t] < Len(sent'[t])
      BY <1>0, <2>2
    <2>4. t \in Pending' /\ t \in Pending
      BY <1>0, <2>1, <2>3 DEF Pending
    <2>5. \A v \in Task : v # t => Same(v)
      BY <1>0, <1>3, <2>1
    <2> QED BY <2>4, <2>5
  <1>6. CASE Start(t) \/ SendOutput(t) \/ TaskRaises(t) \/ SendFails(t) \/ SendMismatch(t) \/ Death(t)
    <2>1. /\ wstate[t] \in Busy
          /\ \/ wstate' = wstate
             \/ \E s \in Busy : wstate' = [wstate EXCEPT ![t] = s]
      BY <1>6 DEF Start, SendOutput, TaskRaises, SendFails, SendMismatch, Death, Unwind, Kill,
                  Runs, Become
    <2>2. \A v \in Task : v # t => sent'[v] = sent[v]
      BY <1>0, <1>6 DEF Start, SendOutput, TaskRaises, SendFails, SendMismatch, Death, Unwind,
                        Kill, Send
    <2>3. wstate'[t] \in Busy /\ \A v \in Task : v # t => wstate'[v] = wstate[v]
      BY <1>0, <2>1
    <2> QED BY <1>2, <1>3, <2>1, <2>2, <2>3
  <1>7. ASSUME NEW u \in Task, SendSubtask(t, u) PROVE \A v \in Task : Same(v)
    <2>1. /\ wstate[t] = "running" /\ wstate[u] = "unused"
          /\ wstate' = [wstate EXCEPT ![u] = "made"]
          /\ \A v \in Task : v # t => sent'[v] = sent[v]
      BY <1>0, <1>7 DEF SendSubtask, Runs, Become, Send
    <2>2. Same(t)
      BY <1>0, <1>2, <2>1
    <2>3. Same(u)
      BY <1>0, <2>1 DEF Pending
    <2>4. \A v \in Task : v # t /\ v # u => Same(v)
      BY <1>0, <1>3, <2>1
    <2> QED BY <2>2, <2>3, <2>4
  <1> QED BY <1>5, <1>6, <1>7 DEF Worker

LEMMA NextCount ==
  ASSUME OQ_TASK_NO = -1, TypeOK, QueueInv, SubInv, EndInv, CountInv, [Next]_vars
  PROVE  CountInv'
  <1>0. /\ first_args \in Seq(Task) /\ task_queue \in Seq(Task)
        /\ wstate \in [Task -> WState] /\ sent \in [Task -> Seq(Message)]
        /\ rcvd \in [Task -> Nat] /\ todo \in Int /\ tasks \in Nat
        /\ \A v \in Task : EndsWell(v)
        /\ NumCores \in Nat \ {0}
    BY ConstantsAssumption DEF TypeOK, EndInv
  <1>1. CASE pc' = "raised"
    BY <1>1 DEF CountInv
  <1>2. ASSUME NEW h \in Task, h \notin Pending, Pending' = Pending \cup {h}
        PROVE  Cardinality(Pending') = Cardinality(Pending) + 1
    BY <1>2, PendingFinite, FS_AddElement
  \* Steps that change nothing the counter depends on
  <1>3. ASSUME Pending' = Pending, pc' = pc,
               UNCHANGED <<first_args, task_queue, tasks, task_no, todo>>,
               pc = "submit" => rcvd' = rcvd
        PROVE  CountInv'
    BY <1>3 DEF CountInv
  <1>4. ASSUME UNCHANGED <<wstate, sent, rcvd>> PROVE Pending' = Pending
    BY <1>4 DEF Pending
  <1>5. CASE SubmitFirst
    <2> DEFINE h == Head(first_args)
    <2>1. /\ pc = "submit" /\ first_args # << >> /\ first_args' = Tail(first_args)
          /\ UNCHANGED <<pc, task_queue, sent, rcvd>>
          /\ wstate' = [wstate EXCEPT ![h] = "pooled"]
          /\ tasks' = tasks + 1 /\ task_no' = task_no + 1
      BY <1>5, SubmitFirstEffect DEF SubmitFirst
    <2>2. h \in Task /\ wstate[h] = "queued"
      BY <1>0, <2>1, PopFirst DEF QueueInv
    <2>3. Len(first_args') = Len(first_args) - 1 /\ Len(first_args) \in Nat
      BY <1>0, <2>1, PopSeq
    <2> HIDE DEF h
    <2>4. h \notin Pending /\ Pending' = Pending \cup {h}
      BY <1>0, <2>1, <2>2 DEF Pending
    <2>5. Cardinality(Pending') = Cardinality(Pending) + 1
      BY <1>2, <2>2, <2>4
    <2>6. tasks' + Len(first_args') = tasks + Len(first_args)
      BY <1>0, <2>1, <2>3
    <2> QED BY <2>1, <2>5, <2>6 DEF CountInv
  <1>6. CASE EnterLoop
    <2>1. /\ pc = "submit" /\ first_args = << >> /\ Len(first_args) = 0
          /\ pc' = IF task_no = 0 THEN "closed" ELSE "loop"
          /\ todo' = tasks
          /\ UNCHANGED <<first_args, task_queue, tasks, wstate, sent, rcvd>>
      BY <1>6 DEF EnterLoop
    <2>2. Pending' = Pending
      BY <1>4, <2>1
    <2>3. tasks = Cardinality(Pending) /\ tasks = task_no /\ (task_queue # << >> => tasks >= NumCores)
      BY <1>0, <2>1 DEF CountInv
    <2>4. CASE task_no = 0
      <3>1. Pending = {} /\ task_queue = << >>
        BY <1>0, <2>3, <2>4, PendingFinite
      <3> QED BY <2>1, <2>2, <2>4, <3>1 DEF CountInv
    <2>5. CASE task_no # 0
      BY <2>1, <2>2, <2>3, <2>5 DEF CountInv
    <2> QED BY <2>4, <2>5
  <1>7. CASE RecvStale
    BY <1>3, <1>4, <1>7 DEF RecvStale
  <1>8. ASSUME NEW t \in Task, RecvEnd(t) PROVE CountInv'
    <2>1. /\ pc = "loop" /\ pc' = "loop" /\ first_args' = << >>
          /\ todo = Cardinality(Pending)
          /\ task_queue # << >> => todo >= NumCores
      BY <1>8, RecvEndEffect DEF Reading, CountInv
    <2>2. NextIs(t, {"end"}) /\ rcvd' = [rcvd EXCEPT ![t] = rcvd[t] + 1] /\ sent' = sent
      BY <1>8, RecvEndEffect DEF Read
    <2>3. wstate[t] = "done" /\ rcvd'[t] = Len(sent[t]) /\ t \in Pending
      <3>1. wstate[t] = "done" /\ rcvd[t] + 1 = Len(sent[t]) /\ rcvd[t] < Len(sent[t])
        BY <1>0, <2>2, IsLast DEF NextIs
      <3> QED BY <1>0, <2>2, <3>1 DEF Pending
    <2>4. Cardinality(Pending \ {t}) = Cardinality(Pending) - 1
      BY <2>3, PendingFinite, FS_RemoveElement
    <2>5. \A v \in Task : v # t => rcvd'[v] = rcvd[v]
      BY <1>0, <2>2
    <2>6. IsFiniteSet(Pending \ {t})
      BY PendingFinite, FS_RemoveElement
    <2>7. CASE task_queue' = << >> /\ wstate' = wstate /\ todo' = todo - 1
      <3>1. Pending' = Pending \ {t}
        BY <2>2, <2>3, <2>5, <2>7 DEF Pending
      <3> QED BY <2>1, <2>4, <2>7, <3>1 DEF CountInv
    <2>8. ASSUME task_queue # << >>, todo' = todo, NEW h \in Task, wstate[h] = "queued",
                 wstate' = [wstate EXCEPT ![h] = "pooled"]
          PROVE  CountInv'
      <3>1. h # t /\ h \notin Pending
        BY <2>3, <2>8 DEF Pending
      <3>2. Pending' = (Pending \ {t}) \cup {h}
        BY <1>0, <2>2, <2>3, <2>5, <2>8, <3>1 DEF Pending
      <3>3. Cardinality(Pending') = (Cardinality(Pending) - 1) + 1
        BY <2>4, <2>6, <3>1, <3>2, FS_AddElement
      <3> QED BY <2>1, <2>8, <3>3, PendingFinite DEF CountInv
    <2> QED BY <1>8, <2>7, <2>8, RecvEndEffect
  <1>9. ASSUME NEW t \in Task, RecvSub(t) PROVE CountInv'
    <2>1. /\ pc = "loop" /\ pc' = "loop" /\ first_args' = << >>
          /\ todo = Cardinality(Pending) /\ todo' = todo + 1
          /\ task_queue' # << >> => todo >= NumCores
      BY <1>9, RecvSubEffect DEF Reading, CountInv
    <2>2. NextIs(t, {"sub"}) /\ rcvd' = [rcvd EXCEPT ![t] = rcvd[t] + 1] /\ sent' = sent
      BY <1>9, RecvSubEffect DEF Read
    <2>3. PICK u \in Task, h \in Task :
            /\ wstate[u] = "made" /\ (h = u \/ wstate[h] = "queued")
            /\ wstate' = [[wstate EXCEPT ![u] = "queued"] EXCEPT ![h] = "pooled"]
      BY <1>9, RecvSubEffect
    <2>4. wstate[t] = "done" => rcvd[t] + 1 < Len(sent[t]) /\ rcvd[t] < Len(sent[t])
      BY <1>0, <2>2, NotLast DEF NextIs
    <2>5. h \notin Pending /\ wstate'[h] = "pooled"
      BY <1>0, <2>3 DEF Pending
    <2>6. \A v \in Task : v # h => v \in Pending' <=> v \in Pending
      <3> TAKE v \in Task
      <3>1. CASE v = t
        BY <1>0, <2>2, <2>3, <2>4, <3>1 DEF Pending
      <3>2. CASE v # t
        BY <1>0, <2>2, <2>3, <3>2 DEF Pending
      <3> QED BY <3>1, <3>2
    <2>7. Pending' = Pending \cup {h}
      BY <2>5, <2>6 DEF Pending
    <2>8. Cardinality(Pending') = Cardinality(Pending) + 1
      BY <1>2, <2>5, <2>7
    <2>9. task_queue' # << >> => todo' >= NumCores
      BY <1>0, <2>1
    <2> QED BY <2>1, <2>8, <2>9 DEF CountInv
  <1>10. ASSUME NEW t \in Task, RecvOut(t) PROVE CountInv'
    <2>1. Pending' = Pending
      BY <1>0, <1>10, ReadPending DEF RecvOut
    <2> QED BY <1>3, <1>10, <2>1 DEF RecvOut, Reading
  <1>11. ASSUME NEW t \in Task, RecvExc(t) \/ RecvOutOfMemory(t) PROVE CountInv'
    BY <1>1, <1>11 DEF RecvExc, RecvOutOfMemory
  <1>12. CASE MasterFails
    BY <1>1, <1>12 DEF MasterFails
  <1>13. CASE CloseLoop
    <2>1. /\ pc = "loop" /\ todo = 0 /\ pc' \in {"closed", "raised"}
          /\ UNCHANGED <<first_args, task_queue, wstate, sent, rcvd>>
      BY <1>13 DEF CloseLoop
    <2>2. Pending = {} /\ first_args = << >> /\ task_queue = << >>
      BY <1>0, <2>1, PendingFinite DEF CountInv
    <2>3. Pending' = Pending
      BY <1>4, <2>1
    <2> QED BY <2>1, <2>2, <2>3 DEF CountInv
  <1>14. CASE Shutdown
    <2>1. /\ pc \in {"closed", "raised"} /\ pc' = pc
          /\ UNCHANGED <<first_args, task_queue, sent, rcvd>>
      BY <1>14 DEF Shutdown
    <2>2. CASE pc = "closed"
      <3>1. Pending = {}
        BY <2>2 DEF CountInv
      <3>2. \A v \in Task : wstate[v] \notin Busy
        BY <3>1 DEF Pending
      <3>3. wstate' = wstate
        BY <1>0, <1>14, <3>2 DEF Shutdown
      <3>4. Pending' = {}
        BY <1>4, <2>1, <3>1, <3>3
      <3> QED BY <2>1, <2>2, <3>4 DEF CountInv
    <2> QED BY <1>1, <2>1, <2>2
  <1>15. ASSUME NEW t \in Task, Worker(t) \/ Death(t) PROVE CountInv'
    BY <1>1, <1>3, <1>15, WorkerPending
  <1>16. CASE UNCHANGED vars
    BY <1>3, <1>4, <1>16 DEF vars
  <1> QED
    BY <1>5, <1>6, <1>7, <1>8, <1>9, <1>10, <1>11, <1>12, <1>13, <1>14, <1>15, <1>16
    DEF Next, Master

\* What was read has reached the reduction.
LEMMA NextRead ==
  ASSUME OQ_TASK_NO = -1, TypeOK, QueueInv, SubInv, EndInv, ReadInv, [Next]_vars
  PROVE  ReadInv'
  <1>0. /\ sent \in [Task -> Seq(Message)] /\ rcvd \in [Task -> Nat]
        /\ \A v \in Task : rcvd[v] <= Len(sent[v])
    BY DEF TypeOK, EndInv, EndsWell
  <1>1. CASE pc' = "raised"
    BY <1>1 DEF ReadInv
  <1>2. CASE UNCHANGED <<sent, rcvd, yielded>> /\ (pc' # "raised" => pc # "raised")
    BY <1>2 DEF ReadInv
  \* The next message of t is read, and yielded when it is a value.
  <1>3. ASSUME NEW t \in Task, NEW kinds, NextIs(t, kinds), "exc" \notin kinds, Read(t),
               sent' = sent, pc' = pc, yielded \subseteq yielded',
               "out" \in kinds => <<t, rcvd[t] + 1>> \in yielded'
        PROVE  ReadInv'
    <2>1. /\ rcvd' = [rcvd EXCEPT ![t] = rcvd[t] + 1] /\ rcvd[t] \in Nat
          /\ sent[t][rcvd[t] + 1].kind \in kinds
      BY <1>0, <1>3 DEF Read, NextIs
    <2> SUFFICES ASSUME NEW v \in Task, NEW i \in 1..rcvd'[v], pc # "raised"
                 PROVE  /\ sent[v][i].kind = "out" => <<v, i>> \in yielded'
                        /\ sent[v][i].kind # "exc"
      BY <1>3 DEF ReadInv
    <2>2. CASE v = t /\ i = rcvd[t] + 1
      BY <1>3, <2>1, <2>2
    <2>3. CASE ~(v = t /\ i = rcvd[t] + 1)
      <3>1. i \in 1..rcvd[v]
        BY <1>0, <2>1, <2>3
      <3> QED BY <1>3, <3>1 DEF ReadInv
    <2> QED BY <2>2, <2>3
  <1>4. CASE SubmitFirst \/ EnterLoop \/ RecvStale \/ MasterFails \/ CloseLoop \/ Shutdown
    BY <1>2, <1>4 DEF SubmitFirst, EnterLoop, RecvStale, MasterFails, CloseLoop, Shutdown
  <1>5. ASSUME NEW t \in Task, RecvEnd(t) PROVE ReadInv'
    BY <1>3, <1>5 DEF RecvEnd
  <1>6. ASSUME NEW t \in Task, RecvSub(t) PROVE ReadInv'
    BY <1>3, <1>6 DEF RecvSub
  <1>7. ASSUME NEW t \in Task, RecvOut(t) PROVE ReadInv'
    <2>1. /\ NextIs(t, {"out", "warn"}) /\ Read(t) /\ sent' = sent /\ pc' = pc
          /\ yielded' = yielded \cup {<<t, rcvd[t] + 1>>}
      BY <1>7 DEF RecvOut
    <2> QED BY <1>3, <2>1
  <1>8. ASSUME NEW t \in Task, RecvExc(t) \/ RecvOutOfMemory(t) PROVE ReadInv'
    BY <1>1, <1>8 DEF RecvExc, RecvOutOfMemory
  \* Messages are added behind, or cut off behind, those that were read.
  <1>9. ASSUME NEW t \in Task, Worker(t) \/ Death(t) PROVE ReadInv'
    <2>1. rcvd' = rcvd /\ yielded' = yielded /\ (pc' = pc \/ pc' = "raised")
      BY <1>9 DEF Worker, Death, Start, SendOutput, SendSubtask, TaskRaises, SendFails,
                  SendMismatch, EndTask, Unwind, Kill
    <2>2. \A v \in Task : \A i \in 1..rcvd[v] : sent'[v][i] = sent[v][i]
      <3>1. ASSUME NEW m \in Message, sent' = [sent EXCEPT ![t] = Append(sent[t], m)]
            PROVE  \A v \in Task : \A i \in 1..rcvd[v] : sent'[v][i] = sent[v][i]
        <4>1. \A i \in 1..Len(sent[t]) : Append(sent[t], m)[i] = sent[t][i]
          BY <1>0, PushSeq
        <4>2. \A i \in 1..rcvd[t] : i \in 1..Len(sent[t])
          BY <1>0
        <4> QED BY <1>0, <3>1, <4>1, <4>2
      <3>2. /\ \A k \in {"out", "warn", "exc", "end"} : [kind |-> k] \in Message
            /\ \A u \in Task : [kind |-> "sub", task |-> u] \in Message
        BY DEF Message
      <3>3. CASE Worker(t) \/ Unwind(t)
        <4>1. sent' = sent \/ \E m \in Message : sent' = [sent EXCEPT ![t] = Append(sent[t], m)]
          BY <3>2, <3>3 DEF Worker, Start, SendOutput, SendSubtask, TaskRaises, SendFails,
                            SendMismatch, EndTask, Unwind, Send
        <4> QED BY <3>1, <4>1
      <3>4. CASE Kill(t)
        <4>1. PICK n \in rcvd[t]..Len(sent[t]) :
                sent' = [sent EXCEPT ![t] = SubSeq(sent[t], 1, n)]
          BY <3>4 DEF Kill
        <4>2. sent[t] \in Seq(Message) /\ n \in 0..Len(sent[t])
          BY <1>0, <4>1
        <4>3. \A i \in 1..n : SubSeq(sent[t], 1, n)[i] = sent[t][i]
          BY <4>2, CutSeq
        <4>4. \A i \in 1..rcvd[t] : i \in 1..n
          BY <1>0, <4>1
        <4> QED BY <1>0, <4>1, <4>3, <4>4
      <3> QED BY <1>9, <3>3, <3>4 DEF Death
    <2> QED BY <2>1, <2>2 DEF ReadInv
  <1>10. CASE UNCHANGED vars
    BY <1>2, <1>10 DEF vars
  <1> QED
    BY <1>4, <1>5, <1>6, <1>7, <1>8, <1>9, <1>10 DEF Next, Master

-----------------------------------------------------------------------------
(* The theorems *)

LEMMA InitInv == Init => Inv
  <1> SUFFICES ASSUME Init, OQ_TASK_NO = -1
               PROVE  QueueInv /\ SubInv /\ EndInv /\ CountInv /\ ReadInv
    BY InitType DEF Inv
  <1>0. /\ Args \in Seq(Task) /\ NumCores \in Nat \ {0}
        /\ \A i, j \in 1..Len(Args) : Args[i] = Args[j] => i = j
    BY ConstantsAssumption
  <1> DEFINE n == NumFirst
             m == Len(Args)
             f == SubSeq(Args, 1, n)
             q == SubSeq(Args, n + 1, m)
  <1>1. n \in 0..m /\ m \in Nat /\ (n < m => n = NumCores)
    BY <1>0 DEF NumFirst
  <1>2. /\ f \in Seq(Task) /\ Len(f) = n /\ \A i \in 1..n : f[i] = Args[i]
    BY <1>0, <1>1
  <1>3. /\ q \in Seq(Task) /\ Len(q) = m - n
        /\ \A i \in 1..(m - n) : q[i] = Args[n + i]
    BY <1>0, <1>1
  <1>4. /\ first_args = f /\ task_queue = q
        /\ wstate = [t \in Task |->
                       IF \E i \in 1..m : Args[i] = t THEN "queued" ELSE "unused"]
        /\ \A t \in Task : sent[t] = << >> /\ rcvd[t] = 0
        /\ pc = "submit" /\ tasks = 0 /\ task_no = 0
    BY DEF Init
  <1> HIDE DEF n, m, f, q
  <1>5. \A i \in 1..m : Args[i] \in Task /\ wstate[Args[i]] = "queued"
    BY <1>0, <1>4 DEF m
  <1>6. QueueInv
    <2>1. \A i \in 1..Len(f) : f[i] = Args[i] /\ i \in 1..m
      BY <1>1, <1>2
    <2>2. \A i \in 1..Len(q) : q[i] = Args[n + i] /\ n + i \in 1..m
      BY <1>1, <1>3
    <2>3. \A i, j \in 1..m : Args[i] = Args[j] => i = j
      BY <1>0 DEF m
    <2>4. ASSUME NEW t \in Task, wstate[t] = "queued"
          PROVE  \/ \E i \in 1..Len(f) : f[i] = t
                 \/ \E i \in 1..Len(q) : q[i] = t
      <3>1. PICK i \in 1..m : Args[i] = t
        BY <1>4, <2>4
      <3>2. CASE i \in 1..n
        BY <1>2, <3>1, <3>2
      <3>3. CASE i \notin 1..n
        <4>1. i - n \in 1..(m - n) /\ n + (i - n) = i
          BY <1>1, <3>3
        <4> QED BY <1>3, <3>1, <4>1
      <3> QED BY <3>2, <3>3
    <2>5. \A i, j \in 1..Len(q) : q[i] = q[j] => i = j
      <3> TAKE i \in 1..Len(q), j \in 1..Len(q)
      <3>1. q[i] = q[j] => n + i = n + j
        BY <2>2, <2>3
      <3>2. i \in Int /\ j \in Int /\ n \in Int
        BY <1>1, <1>3
      <3> QED BY <3>1, <3>2
    <2>6. \A i \in 1..Len(f), j \in 1..Len(q) : f[i] # q[j]
      <3> TAKE i \in 1..Len(f), j \in 1..Len(q)
      <3>1. i # n + j
        BY <1>1, <1>2, <1>3
      <3> QED BY <2>1, <2>2, <2>3, <3>1
    <2>7. QueuesHold(f, q, wstate)
      BY <1>5, <2>1, <2>2, <2>3, <2>4, <2>5, <2>6 DEF QueuesHold
    <2> QED BY <1>4, <2>7 DEF QueueInv
  <1>7. \A t \in Task : wstate[t] \in {"queued", "unused"}
    BY <1>4
  <1>8. \A t \in Task : Unread(t) = {}
    BY <1>4 DEF Unread
  <1>9. SubInv
    BY <1>7, <1>8 DEF SubInv
  <1>10. EndInv
    BY <1>4, <1>7 DEF EndInv, EndsWell
  <1>11. Pending = {}
    BY <1>7 DEF Pending
  <1>12. CountInv
    <2>1. Cardinality(Pending) = 0
      BY <1>11, FS_EmptySet
    <2>2. task_queue # << >> => n = NumCores
      BY <1>1, <1>3, <1>4
    <2> QED BY <1>0, <1>1, <1>2, <1>4, <2>1, <2>2 DEF CountInv
  <1>13. ReadInv
    BY <1>4 DEF ReadInv
  <1> QED BY <1>6, <1>9, <1>10, <1>12, <1>13

LEMMA NextInv == Inv /\ [Next]_vars => Inv'
  <1> SUFFICES ASSUME Inv, [Next]_vars PROVE Inv'
    OBVIOUS
  <1>1. TypeOK /\ TypeOK'
    BY NextType DEF Inv
  <1>2. CASE OQ_TASK_NO = -1
    <2>1. QueueInv /\ SubInv /\ EndInv /\ CountInv /\ ReadInv
      BY <1>2 DEF Inv
    <2>2. QueueInv' /\ SubInv' /\ EndInv' /\ CountInv' /\ ReadInv'
      BY <1>1, <1>2, <2>1, NextQueue, NextSub, NextEnd, NextCount, NextRead
    <2> QED BY <1>1, <2>2 DEF Inv
  <1>3. CASE OQ_TASK_NO # -1
    BY <1>1, <1>3 DEF Inv
  <1> QED BY <1>2, <1>3

\* The bookkeeping of the master is right in every reachable state: each task is
\* in one place, and the counter and the messages agree about it.
THEOREM Invariance == Spec => []Inv
  BY InitInv, NextInv, PTL DEF Spec

\* The counter of _loop is the number of tasks whose TASK_ENDED is still to be
\* read, with any number of tasks, subtasks, workers, deaths and messages.
THEOREM CounterIsRight == Spec => []TodoCounts
  <1>1. Inv => TodoCounts
    BY DEF Inv, CountInv, TodoCounts
  <1> QED BY <1>1, Invariance, PTL

\* While tasks are queued num_cores tasks are out.
THEOREM CoresAreBusy == Spec => []KeepsCoresBusy
  <1>1. Inv => KeepsCoresBusy
    BY DEF Inv, CountInv, KeepsCoresBusy
  <1> QED BY <1>1, Invariance, PTL

\* When the loop has ended every task is done and every message was read.
LEMMA ClosedIsQuiet ==
  ASSUME Inv, OQ_TASK_NO = -1, pc = "closed", NEW t \in Task
  PROVE  wstate[t] \in {"unused", "done"} /\ rcvd[t] = Len(sent[t])
  <1>0. /\ TypeOK /\ QueueInv /\ SubInv /\ Pending = {}
        /\ first_args = << >> /\ task_queue = << >>
        /\ \A v \in Task : EndsWell(v)
    BY DEF Inv, CountInv, EndInv
  <1>1. \A v \in Task : wstate[v] \in WState /\ rcvd[v] \in Nat /\ sent[v] \in Seq(Message)
    BY <1>0 DEF TypeOK
  <1>2. \A v \in Task : /\ wstate[v] \notin Busy
                        /\ wstate[v] = "done" => ~(rcvd[v] < Len(sent[v]))
    BY <1>0 DEF Pending
  <1>3. \A v \in Task : wstate[v] # "queued"
    BY <1>0 DEF QueueInv, QueuesHold
  <1>4. \A v \in Task : rcvd[v] = Len(sent[v])
    <2> TAKE v \in Task
    <2>1. rcvd[v] <= Len(sent[v]) /\ Len(sent[v]) \in Nat
      BY <1>0, <1>1 DEF EndsWell
    <2>2. CASE wstate[v] = "done"
      BY <1>1, <1>2, <2>1, <2>2
    <2>3. CASE wstate[v] # "done"
      <3>1. sent[v] = << >>
        BY <1>0, <1>1, <1>2, <2>3 DEF EndsWell
      <3> QED BY <1>1, <2>1, <3>1
    <2> QED BY <2>2, <2>3
  <1>5. wstate[t] # "made"
    <2>1. \A v \in Task : Unread(v) = {}
      BY <1>1, <1>4 DEF Unread
    <2> QED BY <1>0, <1>2, <2>1 DEF SubInv
  <1> QED BY <1>0, <1>1, <1>2, <1>3, <1>4, <1>5 DEF EndsWell

\* Nothing of a computation that ended is left for the next Starmap to receive.
THEOREM NothingIsLeft == Spec => []NothingLeft
  <1>1. Inv => NothingLeft
    BY ClosedIsQuiet DEF NothingLeft
  <1> QED BY <1>1, Invariance, PTL

\* A computation that ends normally has reduced every value of every task, and
\* no task has failed.
THEOREM EverythingIsReduced == Spec => []AllReduced
  <1>1. Inv => AllReduced
    <2> SUFFICES ASSUME Inv, OQ_TASK_NO = -1, pc = "closed", NEW t \in Task
                 PROVE  /\ Outputs(t) \subseteq yielded
                        /\ \A i \in 1..Len(sent[t]) : sent[t][i].kind # "exc"
      BY DEF AllReduced
    <2>1. rcvd[t] = Len(sent[t])
      BY ClosedIsQuiet
    <2>2. \A i \in 1..rcvd[t] : /\ sent[t][i].kind = "out" => <<t, i>> \in yielded
                                /\ sent[t][i].kind # "exc"
      BY DEF Inv, ReadInv
    <2> QED BY <2>1, <2>2 DEF Outputs
  <1> QED BY <1>1, Invariance, PTL

-----------------------------------------------------------------------------
(* The abstract computation *)

\* No worker warns about its memory: the None of a warning reaches the reduction
\* although no task computed it.  And submit skips no task (OQ_TASK_NO).
NoWarning == OQ_TASK_NO = -1 /\ "soft_memory" \notin Faults

\* What reaches the reduction was sent by a task as one of its results.
OutInv ==
  /\ \A t \in Task : \A i \in 1..Len(sent[t]) :
       /\ sent[t][i].kind # "warn"
       /\ sent[t][i].kind = "out" => i <= MaxSend
  /\ \A t \in Task, i \in Nat : <<t, i>> \in yielded =>
       i \in 1..rcvd[t] /\ sent[t][i].kind = "out"

\* A worker adds one message to what it sent, or what it sent is cut behind the
\* last message that was read.
LEMMA WorkerSends ==
  ASSUME "soft_memory" \notin Faults, TypeOK, NEW t \in Task, Worker(t) \/ Death(t)
  PROVE  /\ rcvd' = rcvd /\ yielded' = yielded
         /\ \/ sent' = sent
            \/ \E m \in Message : /\ sent' = [sent EXCEPT ![t] = Append(sent[t], m)]
                                  /\ m.kind # "warn"
                                  /\ m.kind = "out" => Len(sent[t]) < MaxSend
            \/ \E n \in rcvd[t]..Len(sent[t]) :
                 sent' = [sent EXCEPT ![t] = SubSeq(sent[t], 1, n)]
  <1>1. /\ \A k \in {"out", "warn", "exc", "end"} : [kind |-> k] \in Message
        /\ \A u \in Task : [kind |-> "sub", task |-> u] \in Message
    BY DEF Message
  <1>2. CASE Start(t) \/ Unwind(t)
    BY <1>2 DEF Start, Unwind
  <1>3. CASE SendOutput(t)
    BY <1>1, <1>3 DEF SendOutput, Send
  <1>4. ASSUME NEW u \in Task, SendSubtask(t, u)
        PROVE  /\ rcvd' = rcvd /\ yielded' = yielded
               /\ sent' = [sent EXCEPT ![t] = Append(sent[t], [kind |-> "sub", task |-> u])]
    BY <1>4 DEF SendSubtask, Send
  <1>5. CASE TaskRaises(t) \/ SendFails(t) \/ SendMismatch(t) \/ EndTask(t)
    <2>1. rcvd' = rcvd /\ yielded' = yielded
      BY <1>5 DEF TaskRaises, SendFails, SendMismatch, EndTask
    <2>2. \E k \in {"exc", "end"} : Send(t, [kind |-> k])
      BY <1>5 DEF TaskRaises, SendFails, SendMismatch, EndTask
    <2>3. PICK k \in {"exc", "end"} : sent' = [sent EXCEPT ![t] = Append(sent[t], [kind |-> k])]
      BY <2>2 DEF Send
    <2> QED BY <1>1, <2>1, <2>3
  <1>6. CASE Kill(t)
    BY <1>6 DEF Kill
  <1>7. CASE \E u \in Task : SendSubtask(t, u)
    <2>1. PICK u \in Task : SendSubtask(t, u)
      BY <1>7
    <2> DEFINE m == [kind |-> "sub", task |-> u]
    <2>2. m \in Message /\ m.kind # "warn" /\ m.kind # "out"
      BY <1>1
    <2>3. /\ rcvd' = rcvd /\ yielded' = yielded
          /\ sent' = [sent EXCEPT ![t] = Append(sent[t], m)]
      BY <1>4, <2>1
    <2> HIDE DEF m
    <2> QED BY <2>2, <2>3
  <1> QED BY <1>2, <1>3, <1>5, <1>6, <1>7 DEF Worker, Death

LEMMA NextOut ==
  ASSUME NoWarning, Inv, OutInv, [Next]_vars
  PROVE  OutInv'
  <1>0. /\ TypeOK /\ TypeOK'
        /\ \A t \in Task : rcvd[t] \in Nat /\ sent[t] \in Seq(Message) /\ rcvd[t] <= Len(sent[t])
        /\ sent \in [Task -> Seq(Message)]
    BY NextType DEF Inv, EndInv, EndsWell, NoWarning, TypeOK
  \* What is yielded stays if no message is dropped or unread.
  <1>1. ASSUME yielded' = yielded, \A t \in Task : rcvd'[t] \in Nat /\ rcvd'[t] >= rcvd[t],
               \A t \in Task : \A i \in 1..rcvd[t] : sent'[t][i] = sent[t][i]
        PROVE  \A t \in Task, i \in Nat : <<t, i>> \in yielded' =>
                 i \in 1..rcvd'[t] /\ sent'[t][i].kind = "out"
    <2> SUFFICES ASSUME NEW t \in Task, NEW i \in Nat, <<t, i>> \in yielded
                 PROVE  i \in 1..rcvd'[t] /\ sent'[t][i].kind = "out"
      BY <1>1
    <2>1. i \in 1..rcvd[t] /\ sent[t][i].kind = "out"
      BY DEF OutInv
    <2>2. i \in 1..rcvd'[t]
      BY <1>0, <1>1, <2>1
    <2> QED BY <1>1, <2>1, <2>2
  <1>2. ASSUME sent' = sent, yielded' = yielded,
               rcvd' = rcvd \/ \E t \in Task : Read(t)
        PROVE  OutInv'
    <2>1. \A t \in Task : rcvd'[t] \in Nat /\ rcvd'[t] >= rcvd[t]
      <3>1. CASE rcvd' = rcvd
        BY <1>0, <3>1
      <3>2. ASSUME NEW t \in Task, Read(t)
            PROVE  \A v \in Task : rcvd'[v] \in Nat /\ rcvd'[v] >= rcvd[v]
        BY <1>0, <3>2 DEF Read, TypeOK
      <3> QED BY <1>2, <3>1, <3>2
    <2> QED BY <1>1, <1>2, <2>1 DEF OutInv
  <1>3. CASE SubmitFirst \/ EnterLoop \/ RecvStale \/ MasterFails \/ CloseLoop \/ Shutdown
    BY <1>2, <1>3 DEF SubmitFirst, EnterLoop, RecvStale, MasterFails, CloseLoop, Shutdown
  <1>4. ASSUME NEW t \in Task, RecvEnd(t) \/ RecvSub(t) \/ RecvExc(t) \/ RecvOutOfMemory(t)
        PROVE  OutInv'
    BY <1>2, <1>4 DEF RecvEnd, RecvSub, RecvExc, RecvOutOfMemory
  <1>5. ASSUME NEW t \in Task, RecvOut(t) PROVE OutInv'
    <2>1. /\ sent' = sent /\ Read(t) /\ NextIs(t, {"out", "warn"})
          /\ yielded' = yielded \cup {<<t, rcvd[t] + 1>>}
      BY <1>5 DEF RecvOut
    <2>2. rcvd[t] + 1 \in 1..Len(sent[t]) /\ sent[t][rcvd[t] + 1].kind = "out"
      BY <1>0, <2>1, NextMessage DEF OutInv, NextIs
    <2>3. \A v \in Task : rcvd'[v] \in Nat /\ rcvd'[v] >= rcvd[v]
      BY <1>0, <2>1 DEF Read, TypeOK
    <2>4. rcvd'[t] = rcvd[t] + 1
      BY <1>0, <2>1 DEF Read, TypeOK
    <2>5. ASSUME NEW v \in Task, NEW i \in Nat, <<v, i>> \in yielded'
          PROVE  i \in 1..rcvd'[v] /\ sent'[v][i].kind = "out"
      <3>1. CASE <<v, i>> \in yielded
        <4>1. i \in 1..rcvd[v] /\ sent[v][i].kind = "out"
          BY <3>1 DEF OutInv
        <4> QED BY <1>0, <2>1, <2>3, <4>1
      <3>2. CASE v = t /\ i = rcvd[t] + 1
        BY <1>0, <2>1, <2>2, <2>4, <3>2
      <3> QED BY <2>1, <2>5, <3>1, <3>2
    <2> QED BY <2>1, <2>5 DEF OutInv
  <1>6. ASSUME NEW t \in Task, Worker(t) \/ Death(t) PROVE OutInv'
    <2>0. rcvd' = rcvd /\ yielded' = yielded
      BY <1>0, <1>6, WorkerSends DEF NoWarning
    <2>1. CASE sent' = sent
      BY <1>2, <2>0, <2>1
    <2>2. ASSUME NEW m \in Message, sent' = [sent EXCEPT ![t] = Append(sent[t], m)],
                 m.kind # "warn", m.kind = "out" => Len(sent[t]) < MaxSend
          PROVE  OutInv'
      <3>1. /\ Len(Append(sent[t], m)) = Len(sent[t]) + 1
            /\ Append(sent[t], m)[Len(sent[t]) + 1] = m
            /\ \A i \in 1..Len(sent[t]) : Append(sent[t], m)[i] = sent[t][i]
        BY <1>0, PushSeq
      <3>2. /\ sent'[t] = Append(sent[t], m)
            /\ \A v \in Task : v # t => sent'[v] = sent[v]
        BY <1>0, <2>2
      <3>3. \A v \in Task : \A i \in 1..rcvd[v] : sent'[v][i] = sent[v][i]
        <4>1. \A i \in 1..rcvd[t] : i \in 1..Len(sent[t])
          BY <1>0
        <4> QED BY <3>1, <3>2, <4>1
      <3>4. ASSUME NEW v \in Task, NEW i \in 1..Len(sent'[v])
            PROVE  /\ sent'[v][i].kind # "warn"
                   /\ sent'[v][i].kind = "out" => i <= MaxSend
        <4>1. CASE v = t /\ i = Len(sent[t]) + 1
          <5>1. sent'[v][i] = m
            BY <3>1, <3>2, <4>1
          <5>2. MaxSend \in Nat /\ Len(sent[t]) \in Nat
            BY <1>0, ConstantsAssumption
          <5> QED BY <2>2, <4>1, <5>1, <5>2
        <4>2. CASE ~(v = t /\ i = Len(sent[t]) + 1)
          <5>1. i \in 1..Len(sent[v]) /\ sent'[v][i] = sent[v][i]
            BY <1>0, <3>1, <3>2, <4>2
          <5> QED BY <5>1 DEF OutInv
        <4> QED BY <4>1, <4>2
      <3>5. \A v \in Task : rcvd'[v] \in Nat /\ rcvd'[v] >= rcvd[v]
        BY <1>0, <2>0
      <3>6. \A v \in Task, i \in Nat : <<v, i>> \in yielded' =>
              i \in 1..rcvd'[v] /\ sent'[v][i].kind = "out"
        BY <1>1, <2>0, <3>3, <3>5
      <3> QED BY <3>4, <3>6 DEF OutInv
    <2>3. ASSUME NEW n \in rcvd[t]..Len(sent[t]),
                 sent' = [sent EXCEPT ![t] = SubSeq(sent[t], 1, n)]
          PROVE  OutInv'
      <3>1. /\ Len(SubSeq(sent[t], 1, n)) = n
            /\ \A i \in 1..n : SubSeq(sent[t], 1, n)[i] = sent[t][i]
            /\ n \in 0..Len(sent[t])
        BY <1>0, CutSeq
      <3>2. /\ sent'[t] = SubSeq(sent[t], 1, n)
            /\ \A v \in Task : v # t => sent'[v] = sent[v]
        BY <1>0, <2>3
      <3>3. \A v \in Task : \A i \in 1..rcvd[v] : sent'[v][i] = sent[v][i]
        <4>1. \A i \in 1..rcvd[t] : i \in 1..n
          BY <1>0
        <4> QED BY <3>1, <3>2, <4>1
      <3>4. ASSUME NEW v \in Task, NEW i \in 1..Len(sent'[v])
            PROVE  /\ sent'[v][i].kind # "warn"
                   /\ sent'[v][i].kind = "out" => i <= MaxSend
        <4>1. i \in 1..Len(sent[v]) /\ sent'[v][i] = sent[v][i]
          <5>1. CASE v = t
            BY <1>0, <3>1, <3>2, <5>1
          <5>2. CASE v # t
            BY <3>2, <5>2
          <5> QED BY <5>1, <5>2
        <4> QED BY <4>1 DEF OutInv
      <3>5. \A v \in Task : rcvd'[v] \in Nat /\ rcvd'[v] >= rcvd[v]
        BY <1>0, <2>0
      <3>6. \A v \in Task, i \in Nat : <<v, i>> \in yielded' =>
              i \in 1..rcvd'[v] /\ sent'[v][i].kind = "out"
        BY <1>1, <2>0, <3>3, <3>5
      <3> QED BY <3>4, <3>6 DEF OutInv
    <2> QED BY <1>0, <1>6, <2>1, <2>2, <2>3, WorkerSends DEF NoWarning
  <1>7. CASE UNCHANGED vars
    BY <1>2, <1>7 DEF vars
  <1> QED BY <1>3, <1>4, <1>5, <1>6, <1>7 DEF Next, Master

\* The values that were reduced are results, read by the master, of a task.
THEOREM OutputsAreCounted == NoWarning => (Spec => []OutInv)
  <1> SUFFICES ASSUME NoWarning PROVE Spec => []OutInv
    OBVIOUS
  <1>1. Init => OutInv
    BY DEF Init, OutInv
  <1>2. Inv /\ OutInv /\ [Next]_vars => OutInv'
    BY NextOut
  <1> QED BY <1>1, <1>2, Invariance, PTL DEF Spec

\* The life of one task in the abstract computation
LEMMA LifeOf ==
  ASSUME TypeOK, NEW t \in Task
  PROVE  /\ life[t] = "unknown"  <=> wstate[t] = "unused"
         /\ life[t] = "finished" <=> wstate[t] = "done"
         /\ life[t] = "crashed"  <=> wstate[t] = "lost"
         /\ life[t] = "open" <=> wstate[t] \notin {"unused", "done", "lost"}
  BY DEF life, TypeOK

\* A task that moves between the queues, the pool and the worker is open all along.
LEMMA LifeKept ==
  ASSUME TypeOK, TypeOK',
         \A t \in Task : \/ wstate'[t] = wstate[t]
                         \/ /\ wstate[t] \notin {"unused", "done", "lost"}
                            /\ wstate'[t] \notin {"unused", "done", "lost"}
  PROVE  life' = life
  <1> SUFFICES ASSUME NEW t \in Task PROVE life'[t] = life[t]
    BY DEF life
  <1>1. wstate[t] \in WState /\ wstate'[t] \in WState
    BY DEF TypeOK
  <1>2. CASE wstate'[t] = wstate[t]
    BY <1>2 DEF life
  <1>3. CASE wstate[t] \notin {"unused", "done", "lost"} /\ wstate'[t] \notin {"unused", "done", "lost"}
    BY <1>3 DEF life
  <1> QED BY <1>2, <1>3

\* One task begins, ends or dies.
LEMMA LifeChanged ==
  ASSUME TypeOK, NEW t \in Task, NEW s \in {"made", "done", "lost"},
         wstate' = [wstate EXCEPT ![t] = s]
  PROVE  life' = [life EXCEPT ![t] = IF s = "made" THEN "open"
                                     ELSE IF s = "done" THEN "finished" ELSE "crashed"]
  <1> DEFINE l == IF s = "made" THEN "open"
                  ELSE IF s = "done" THEN "finished" ELSE "crashed"
  <1>1. wstate'[t] = s /\ \A v \in Task : v # t => wstate'[v] = wstate[v]
    BY DEF TypeOK
  <1>2. life'[t] = l
    BY <1>1 DEF life
  <1>3. \A v \in Task : v # t => life'[v] = life[v]
    BY <1>1 DEF life
  <1>4. life = [v \in Task |-> life[v]] /\ life' = [v \in Task |-> life'[v]]
    BY DEF life
  <1> HIDE DEF l
  <1>5. life' = [life EXCEPT ![t] = l]
    BY <1>2, <1>3, <1>4
  <1> QED BY <1>5 DEF l

\* A value is computed if it is among the messages of a task.
LEMMA ComputedIs ==
  ASSUME NEW o
  PROVE  o \in computed <=> \E t \in Task : \E i \in 1..Len(sent[t]) :
                              o = <<t, i>> /\ sent[t][i].kind = "out"
  BY DEF computed, Outputs

\* The same after a step
LEMMA ComputedNext ==
  ASSUME NEW o
  PROVE  o \in computed' <=> \E t \in Task : \E i \in 1..Len(sent'[t]) :
                               o = <<t, i>> /\ sent'[t][i].kind = "out"
  BY DEF computed, Outputs

LEMMA ComputedKept ==
  ASSUME sent' = sent
  PROVE  computed' = computed
  BY ComputedIs, ComputedNext

\* A message that is a result is a value that is computed, any other is not.
LEMMA ComputedMore ==
  ASSUME TypeOK, NEW t \in Task, NEW m \in Message,
         sent' = [sent EXCEPT ![t] = Append(sent[t], m)]
  PROVE  /\ m.kind = "out" => /\ computed' = computed \cup {<<t, Len(sent[t]) + 1>>}
                              /\ <<t, Len(sent[t]) + 1>> \notin computed
         /\ m.kind # "out" => computed' = computed
  <1> DEFINE k == Len(sent[t]) + 1
  <1>1. /\ sent[t] \in Seq(Message) /\ Len(sent[t]) \in Nat
        /\ sent'[t] = Append(sent[t], m)
        /\ \A v \in Task : v # t => sent'[v] = sent[v]
    BY DEF TypeOK
  <1>2. /\ Len(sent'[t]) = k /\ sent'[t][k] = m
        /\ \A i \in 1..Len(sent[t]) : sent'[t][i] = sent[t][i]
    BY <1>1, PushSeq
  <1>3. <<t, k>> \notin computed
    <2>1. k \notin 1..Len(sent[t])
      BY <1>1
    <2> QED BY <2>1, ComputedIs
  <1>4. \A i \in 1..k : i \in 1..Len(sent[t]) \/ i = k
    BY <1>1
  <1>5. k \in 1..k /\ \A i \in 1..Len(sent[t]) : i \in 1..k
    BY <1>1
  <1>6. ASSUME NEW o
        PROVE  o \in computed' <=> o \in computed \/ (m.kind = "out" /\ o = <<t, k>>)
    <2>1. ASSUME o \in computed'
          PROVE  o \in computed \/ (m.kind = "out" /\ o = <<t, k>>)
      <3>1. PICK v \in Task : \E i \in 1..Len(sent'[v]) : o = <<v, i>> /\ sent'[v][i].kind = "out"
        BY <2>1, ComputedNext
      <3>2. PICK i \in 1..Len(sent'[v]) : o = <<v, i>> /\ sent'[v][i].kind = "out"
        BY <3>1
      <3>3. CASE v # t
        BY <1>1, <3>2, <3>3, ComputedIs
      <3>4. CASE v = t
        BY <1>2, <1>4, <3>2, <3>4, ComputedIs
      <3> QED BY <3>3, <3>4
    <2>2. ASSUME o \in computed PROVE o \in computed'
      <3>1. PICK v \in Task : \E i \in 1..Len(sent[v]) : o = <<v, i>> /\ sent[v][i].kind = "out"
        BY <2>2, ComputedIs
      <3>2. PICK i \in 1..Len(sent[v]) : o = <<v, i>> /\ sent[v][i].kind = "out"
        BY <3>1
      <3>3. i \in 1..Len(sent'[v]) /\ sent'[v][i] = sent[v][i]
        BY <1>1, <1>2, <1>5, <3>2
      <3> QED BY <3>2, <3>3, ComputedNext
    <2>3. ASSUME m.kind = "out", o = <<t, k>> PROVE o \in computed'
      BY <1>2, <1>5, <2>3, ComputedNext
    <2> QED BY <2>1, <2>2, <2>3
  <1> QED BY <1>3, <1>6

\* What is lost with a process had not been read.
LEMMA ComputedLess ==
  ASSUME TypeOK, OutInv, NEW t \in Task, NEW n \in rcvd[t]..Len(sent[t]),
         sent' = [sent EXCEPT ![t] = SubSeq(sent[t], 1, n)]
  PROVE  /\ computed' \subseteq computed
         /\ \A o \in computed \ computed' : o[1] = t /\ o \notin yielded
  <1>1. /\ sent[t] \in Seq(Message) /\ rcvd[t] \in Nat /\ n \in 0..Len(sent[t])
        /\ sent'[t] = SubSeq(sent[t], 1, n)
        /\ \A v \in Task : v # t => sent'[v] = sent[v]
    BY DEF TypeOK
  <1>2. /\ Len(sent'[t]) = n
        /\ \A i \in 1..n : sent'[t][i] = sent[t][i] /\ i \in 1..Len(sent[t])
    BY <1>1, CutSeq
  <1>3. ASSUME NEW o \in computed' PROVE o \in computed
    <2>1. PICK v \in Task : \E i \in 1..Len(sent'[v]) : o = <<v, i>> /\ sent'[v][i].kind = "out"
      BY <1>3, ComputedNext
    <2>2. PICK i \in 1..Len(sent'[v]) : o = <<v, i>> /\ sent'[v][i].kind = "out"
      BY <2>1
    <2>3. i \in 1..Len(sent[v]) /\ sent'[v][i] = sent[v][i]
      BY <1>1, <1>2, <2>2
    <2> QED BY <2>2, <2>3, ComputedIs
  <1>4. ASSUME NEW o \in computed, o \notin computed' PROVE o[1] = t /\ o \notin yielded
    <2>1. PICK v \in Task : \E i \in 1..Len(sent[v]) : o = <<v, i>> /\ sent[v][i].kind = "out"
      BY <1>4, ComputedIs
    <2>2. PICK i \in 1..Len(sent[v]) : o = <<v, i>> /\ sent[v][i].kind = "out"
      BY <2>1
    <2>3. v = t
      BY <1>1, <1>4, <2>2, ComputedNext
    <2>4. i \notin 1..n
      BY <1>2, <1>4, <2>2, <2>3, ComputedNext
    <2>5. i \notin 1..rcvd[t] /\ i \in Nat
      BY <1>1, <2>2, <2>3, <2>4
    <2> QED BY <2>2, <2>3, <2>5 DEF OutInv
  <1> QED BY <1>3, <1>4

\* The steps of the master
LEMMA MasterMaps ==
  ASSUME NoWarning, Inv, OutInv, TypeOK', NothingLeft', AllReduced', OutInv',
         Master \/ MasterFails \/ \E t \in Task : RecvOutOfMemory(t)
  PROVE  PM!Next \/ UNCHANGED PM!pvars
  <1>0. /\ TypeOK /\ OQ_TASK_NO = -1 /\ QueueInv /\ SubInv
        /\ first_args \in Seq(Task) /\ wstate \in [Task -> WState]
        /\ \A t \in Task : rcvd[t] \in Nat /\ sent[t] \in Seq(Message)
    BY DEF Inv, NoWarning, TypeOK
  <1>1. ASSUME sent' = sent, yielded' = yielded, status' = status,
               \A t \in Task : \/ wstate'[t] = wstate[t]
                               \/ /\ wstate[t] \notin {"unused", "done", "lost"}
                                  /\ wstate'[t] \notin {"unused", "done", "lost"}
        PROVE  UNCHANGED PM!pvars
    BY <1>0, <1>1, LifeKept, ComputedKept DEF PM!pvars
  <1>2. ASSUME sent' = sent, yielded' = yielded, wstate' = wstate,
               pc \in {"submit", "loop"}, pc' = "raised"
        PROVE  PM!Fail
    <2>1. life' = life /\ computed' = computed
      BY <1>0, <1>2, LifeKept, ComputedKept
    <2>2. status = "running" /\ status' = "failed"
      BY <1>2 DEF status
    <2> QED BY <1>2, <2>1, <2>2 DEF PM!Fail
  \* The loop closes only when nothing is left to run, to read or to reduce.
  <1>3. ASSUME sent' = sent, yielded' = yielded, wstate' = wstate,
               pc \in {"submit", "loop"}, pc' = "closed"
        PROVE  PM!Complete
    <2>1. life' = life /\ computed' = computed
      BY <1>0, <1>3, LifeKept, ComputedKept
    <2>2. status = "running" /\ status' = "done"
      BY <1>3 DEF status
    <2>3. \A t \in Task : wstate[t] \in {"unused", "done"} /\ rcvd'[t] = Len(sent[t])
      BY <1>0, <1>3 DEF NothingLeft
    <2>4. \A t \in Task : life[t] \in {"unknown", "finished"}
      BY <1>0, <2>3, LifeOf
    <2>5. ASSUME NEW o \in computed PROVE o \in yielded
      <3>1. PICK t \in Task : \E i \in 1..Len(sent[t]) : o = <<t, i>> /\ sent[t][i].kind = "out"
        BY <2>5, ComputedIs
      <3>2. PICK i \in 1..Len(sent[t]) : o = <<t, i>> /\ sent[t][i].kind = "out"
        BY <3>1
      <3>3. <<t, i>> \in Outputs(t)'
        BY <1>3, <3>2 DEF Outputs
      <3> QED BY <1>0, <1>3, <3>2, <3>3 DEF AllReduced
    <2>6. ASSUME NEW o \in yielded PROVE o \in computed
      <3>1. PICK t \in Task, i \in Nat : o = <<t, i>>
        BY <1>0, <2>6 DEF TypeOK
      <3>2. i \in 1..rcvd'[t] /\ sent[t][i].kind = "out"
        BY <1>3, <2>6, <3>1 DEF OutInv
      <3>3. i \in 1..Len(sent[t])
        BY <1>0, <2>3, <3>2
      <3> QED BY <3>1, <3>2, <3>3, ComputedIs
    <2> QED BY <1>3, <2>1, <2>2, <2>4, <2>5, <2>6 DEF PM!Complete
  <1>4. CASE SubmitFirst
    <2>1. /\ sent' = sent /\ yielded' = yielded /\ pc' = pc /\ first_args # << >>
          /\ wstate' = [wstate EXCEPT ![Head(first_args)] = "pooled"]
      BY <1>0, <1>4, SubmitFirstEffect DEF SubmitFirst
    <2>2. Head(first_args) \in Task /\ wstate[Head(first_args)] = "queued"
      BY <1>0, <2>1, PopFirst, PopSeq DEF QueueInv, QueuesHold, TypeOK
    <2>3. \A t \in Task : wstate'[t] = wstate[t] \/ (wstate[t] = "queued" /\ wstate'[t] = "pooled")
      BY <1>0, <2>1, <2>2
    <2>4. status' = status
      BY <2>1 DEF status
    <2> QED BY <1>1, <2>1, <2>3, <2>4
  <1>5. CASE EnterLoop
    <2>1. /\ sent' = sent /\ yielded' = yielded /\ wstate' = wstate /\ pc = "submit"
          /\ pc' = "closed" \/ pc' = "loop"
      BY <1>5 DEF EnterLoop
    <2>2. CASE pc' = "closed"
      BY <1>3, <2>1, <2>2 DEF PM!Next
    <2>3. CASE pc' = "loop"
      BY <1>1, <2>1, <2>3 DEF status
    <2> QED BY <2>1, <2>2, <2>3
  <1>6. CASE RecvStale
    BY <1>1, <1>6 DEF RecvStale, status
  <1>7. ASSUME NEW t \in Task, RecvEnd(t) PROVE UNCHANGED PM!pvars
    <2>1. /\ sent' = sent /\ yielded' = yielded /\ pc' = pc
          /\ \/ wstate' = wstate
             \/ \E h \in Task : /\ wstate[h] = "queued"
                                /\ wstate' = [wstate EXCEPT ![h] = "pooled"]
      BY <1>0, <1>7, RecvEndEffect
    <2>2. \A v \in Task : wstate'[v] = wstate[v] \/ (wstate[v] = "queued" /\ wstate'[v] = "pooled")
      BY <1>0, <2>1
    <2>3. status' = status
      BY <2>1 DEF status
    <2> QED BY <1>1, <2>1, <2>2, <2>3
  <1>8. ASSUME NEW t \in Task, RecvSub(t) PROVE UNCHANGED PM!pvars
    <2>1. /\ sent' = sent /\ yielded' = yielded /\ pc' = pc
          /\ \E u, h \in Task :
               /\ wstate[u] = "made" /\ (h = u \/ wstate[h] = "queued")
               /\ wstate' = [[wstate EXCEPT ![u] = "queued"] EXCEPT ![h] = "pooled"]
      BY <1>0, <1>8, RecvSubEffect
    <2>2. PICK u \in Task, h \in Task :
            /\ wstate[u] = "made" /\ (h = u \/ wstate[h] = "queued")
            /\ wstate' = [[wstate EXCEPT ![u] = "queued"] EXCEPT ![h] = "pooled"]
      BY <2>1
    <2>3. \A v \in Task : \/ wstate'[v] = wstate[v]
                          \/ /\ wstate[v] \in {"made", "queued"}
                             /\ wstate'[v] \in {"queued", "pooled"}
      BY <1>0, <2>2
    <2>4. status' = status
      BY <2>1 DEF status
    <2> QED BY <1>1, <2>1, <2>3, <2>4
  <1>9. ASSUME NEW t \in Task, RecvOut(t) PROVE PM!Next
    <2> DEFINE k == rcvd[t] + 1
    <2>1. /\ sent' = sent /\ wstate' = wstate /\ pc' = pc /\ pc = "loop"
          /\ NextIs(t, {"out", "warn"}) /\ yielded' = yielded \cup {<<t, k>>}
      BY <1>9 DEF RecvOut, Reading
    <2>2. k \in 1..Len(sent[t])
      BY <1>0, <2>1, NextMessage
    <2>3. sent[t][k].kind = "out"
      BY <2>1, <2>2 DEF NextIs, OutInv
    <2>4. k \in 1..MaxSend
      BY <1>0, <2>2, <2>3, ConstantsAssumption DEF OutInv
    <2>5. <<t, k>> \in computed
      BY <2>2, <2>3, ComputedIs
    <2>6. <<t, k>> \notin yielded
      <3>1. k \notin 1..rcvd[t] /\ k \in Nat
        BY <1>0
      <3> QED BY <3>1 DEF OutInv
    <2>7. life' = life /\ computed' = computed
      BY <1>0, <2>1, LifeKept, ComputedKept
    <2>8. status = "running" /\ status' = status
      BY <2>1 DEF status
    <2> HIDE DEF k
    <2>9. PM!Reduce(t, k)
      BY <2>1, <2>5, <2>6, <2>7, <2>8 DEF PM!Reduce
    <2> QED BY <2>4, <2>9 DEF PM!Next
  <1>10. ASSUME NEW t \in Task, RecvExc(t) \/ RecvOutOfMemory(t) PROVE PM!Fail
    BY <1>2, <1>10 DEF RecvExc, RecvOutOfMemory, Reading
  <1>11. CASE MasterFails
    BY <1>2, <1>11 DEF MasterFails, PM!Next
  <1>12. CASE CloseLoop
    <2>1. /\ sent' = sent /\ yielded' = yielded /\ wstate' = wstate /\ pc = "loop"
          /\ pc' = "closed" \/ pc' = "raised"
      BY <1>12 DEF CloseLoop
    <2> QED BY <1>2, <1>3, <2>1 DEF PM!Next
  <1>13. CASE Shutdown
    <2>0. sent' = sent /\ yielded' = yielded /\ pc' = pc
      BY <1>13 DEF Shutdown
    <2>1. status' = status /\ computed' = computed
      BY <2>0, ComputedKept DEF status
    <2> DEFINE S == {t \in Task : wstate[t] \in Busy \ {"lost"}}
    <2>2. CASE wstate' = wstate
      BY <1>1, <2>0, <2>1, <2>2
    <2>3. CASE wstate' = [t \in Task |-> IF wstate[t] \in Busy THEN "lost" ELSE wstate[t]]
      <3>1. \A t \in Task : life'[t] = IF t \in S THEN "crashed" ELSE life[t]
        <4> TAKE t \in Task
        <4>1. wstate'[t] = IF wstate[t] \in Busy THEN "lost" ELSE wstate[t]
          BY <2>3
        <4> QED BY <4>1 DEF life
      <3>2. life' = [t \in Task |-> IF t \in S THEN "crashed" ELSE life[t]]
        BY <3>1 DEF life
      <3>3. \A t \in S : life[t] = "open"
        BY <1>0, LifeOf
      <3>4. CASE S = {}
        <4>1. life' = life
          BY <3>2, <3>4 DEF life
        <4> QED BY <2>0, <2>1, <4>1 DEF PM!pvars
      <3>5. CASE S # {}
        <4>1. status' \in IF status = "running" THEN {"running", "failed"} ELSE {status}
          BY <2>1
        <4>2. S \in SUBSET Task
          OBVIOUS
        <4> HIDE DEF S
        <4>3. PM!Crash(S)
          BY <2>0, <2>1, <3>2, <3>3, <3>5, <4>1 DEF PM!Crash
        <4> QED BY <4>2, <4>3 DEF PM!Next
      <3> QED BY <3>4, <3>5
    <2> QED BY <1>13, <2>2, <2>3 DEF Shutdown
  <1> QED
    BY <1>4, <1>5, <1>6, <1>7, <1>8, <1>9, <1>10, <1>11, <1>12, <1>13 DEF Master, PM!Next

\* The steps of the process that runs t
LEMMA WorkerMaps ==
  ASSUME NoWarning, Inv, OutInv, TypeOK', NEW t \in Task, Worker(t) \/ Death(t)
  PROVE  PM!Next \/ UNCHANGED PM!pvars
  <1>0. /\ TypeOK
        /\ wstate \in [Task -> WState]
        /\ \A v \in Task : rcvd[v] \in Nat /\ sent[v] \in Seq(Message)
    BY DEF Inv, TypeOK
  <1>1. /\ \A k \in {"out", "warn", "exc", "end"} : [kind |-> k] \in Message
        /\ \A u \in Task : [kind |-> "sub", task |-> u] \in Message
    BY DEF Message
  <1>2. CASE Start(t)
    <2>1. /\ sent' = sent /\ yielded' = yielded /\ pc' = pc /\ wstate[t] = "pooled"
          /\ \E s \in {"running", "mismatched"} : wstate' = [wstate EXCEPT ![t] = s]
      BY <1>2 DEF Start, Become, NoWarning
    <2>2. \A v \in Task : \/ wstate'[v] = wstate[v]
                          \/ wstate[v] = "pooled" /\ wstate'[v] \in {"running", "mismatched"}
      BY <1>0, <2>1
    <2>3. life' = life
      BY <1>0, <2>2, LifeKept
    <2> QED BY <2>1, <2>3, ComputedKept DEF PM!pvars, status
  <1>3. CASE SendOutput(t)
    <2> DEFINE k == Len(sent[t]) + 1
    <2>1. /\ wstate' = wstate /\ yielded' = yielded /\ pc' = pc /\ wstate[t] = "running"
          /\ sent' = [sent EXCEPT ![t] = Append(sent[t], [kind |-> "out"])]
          /\ Len(sent[t]) < MaxSend
      BY <1>3 DEF SendOutput, Send, Runs
    <2>2. computed' = computed \cup {<<t, k>>} /\ <<t, k>> \notin computed
      BY <1>0, <1>1, <2>1, ComputedMore
    <2>3. k \in 1..MaxSend
      BY <1>0, <2>1, ConstantsAssumption
    <2>4. life[t] = "open" /\ life' = life
      BY <1>0, <2>1, LifeOf, LifeKept
    <2>5. status' = status
      BY <2>1 DEF status
    <2> HIDE DEF k
    <2>6. PM!Compute(t, k)
      BY <2>1, <2>2, <2>4, <2>5 DEF PM!Compute
    <2> QED BY <2>3, <2>6 DEF PM!Next
  <1>4. ASSUME NEW u \in Task, SendSubtask(t, u) PROVE PM!Next
    <2> DEFINE m == [kind |-> "sub", task |-> u]
    <2>1. /\ yielded' = yielded /\ pc' = pc /\ wstate[t] = "running" /\ wstate[u] = "unused"
          /\ wstate' = [wstate EXCEPT ![u] = "made"]
          /\ sent' = [sent EXCEPT ![t] = Append(sent[t], m)]
      BY <1>4 DEF SendSubtask, Send, Runs, Become
    <2>2. m \in Message /\ m.kind # "out"
      BY <1>1
    <2> HIDE DEF m
    <2>3. computed' = computed
      BY <1>0, <2>1, <2>2, ComputedMore
    <2>4. life[t] = "open" /\ life[u] = "unknown"
      BY <1>0, <2>1, LifeOf
    <2>5. life' = [life EXCEPT ![u] = "open"]
      BY <1>0, <2>1, LifeChanged
    <2>6. status' = status
      BY <2>1 DEF status
    <2>7. PM!Spawn(t, u)
      BY <2>1, <2>3, <2>4, <2>5, <2>6 DEF PM!Spawn
    <2> QED BY <2>7 DEF PM!Next
  <1>5. CASE TaskRaises(t) \/ SendFails(t) \/ SendMismatch(t)
    <2>1. /\ yielded' = yielded /\ pc' = pc
          /\ sent' = [sent EXCEPT ![t] = Append(sent[t], [kind |-> "exc"])]
      BY <1>5 DEF TaskRaises, SendFails, SendMismatch, Send
    <2>2. \/ wstate' = wstate
          \/ wstate[t] = "running" /\ wstate' = [wstate EXCEPT ![t] = "failed"]
      BY <1>5 DEF TaskRaises, SendFails, SendMismatch, Become, Runs
    <2>3. \A v \in Task : wstate'[v] = wstate[v] \/ (wstate[v] = "running" /\ wstate'[v] = "failed")
      BY <1>0, <2>2
    <2>4. life' = life
      BY <1>0, <2>3, LifeKept
    <2>5. computed' = computed
      BY <1>0, <1>1, <2>1, ComputedMore
    <2> QED BY <2>1, <2>4, <2>5 DEF PM!pvars, status
  <1>6. CASE EndTask(t)
    <2>1. /\ yielded' = yielded /\ pc' = pc /\ wstate[t] \in {"running", "failed"}
          /\ wstate' = [wstate EXCEPT ![t] = "done"]
          /\ sent' = [sent EXCEPT ![t] = Append(sent[t], [kind |-> "end"])]
      BY <1>6 DEF EndTask, Send, Become
    <2>2. computed' = computed
      BY <1>0, <1>1, <2>1, ComputedMore
    <2>3. life[t] = "open" /\ life' = [life EXCEPT ![t] = "finished"]
      BY <1>0, <2>1, LifeOf, LifeChanged
    <2>4. PM!Finish(t)
      BY <2>1, <2>2, <2>3 DEF PM!Finish, status
    <2> QED BY <2>4 DEF PM!Next
  \* A process that dies takes along what it had sent and nobody had read.
  <1>7. CASE Death(t)
    <2>1. /\ yielded' = yielded /\ wstate' = [wstate EXCEPT ![t] = "lost"]
          /\ wstate[t] \notin {"unused", "done", "lost"}
          /\ \/ sent' = sent
             \/ \E n \in rcvd[t]..Len(sent[t]) : sent' = [sent EXCEPT ![t] = SubSeq(sent[t], 1, n)]
      BY <1>7 DEF Death, Unwind, Kill, Become
    <2>2. pc' = pc \/ (pc \in {"submit", "loop"} /\ pc' = "raised")
      BY <1>7 DEF Death, Unwind, Kill, Alive
    <2>3. computed' \subseteq computed /\ \A o \in computed \ computed' : o[1] = t /\ o \notin yielded
      BY <1>0, <2>1, ComputedKept, ComputedLess
    <2>4. life[t] = "open" /\ life' = [life EXCEPT ![t] = "crashed"]
      BY <1>0, <2>1, LifeOf, LifeChanged
    <2>5. life' = [v \in Task |-> IF v \in {t} THEN "crashed" ELSE life[v]]
      BY <2>4 DEF life
    <2>6. status' \in IF status = "running" THEN {"running", "failed"} ELSE {status}
      BY <2>2 DEF status
    <2>7. PM!Crash({t})
      BY <2>1, <2>3, <2>4, <2>5, <2>6 DEF PM!Crash
    <2> QED BY <2>7 DEF PM!Next
  <1> QED BY <1>2, <1>3, <1>4, <1>5, <1>6, <1>7 DEF Worker, PM!Next

\* Every step of the master, of a worker or of the sockets is a step of the
\* computation as ParallelMap states it, or changes nothing there: whatever the
\* order of the messages and whoever dies, _loop ends normally only when every
\* task has run and every value was reduced, and no value is reduced twice.
THEOREM ComputationImplementsParallelMap == NoWarning => (Spec => ImplementsParallelMap)
  <1> SUFFICES ASSUME NoWarning PROVE Spec => PM!Spec
    BY DEF ImplementsParallelMap
  <1>1. Init => PM!Init
    <2> SUFFICES ASSUME Init PROVE PM!Init
      OBVIOUS
    <2>1. computed = {}
      <3>1. \A t \in Task : Len(sent[t]) = 0
        BY DEF Init
      <3>2. \A o : o \notin computed
        BY <3>1, ComputedIs
      <3> QED BY <3>2
    <2>2. life = [t \in Task |-> IF t \in {Args[i] : i \in 1..Len(Args)} THEN "open" ELSE "unknown"]
      BY DEF Init, life
    <2>3. status = "running" /\ yielded = {}
      BY DEF Init, status
    <2> QED BY <2>1, <2>2, <2>3 DEF PM!Init
  <1>2. Inv /\ OutInv /\ OutInv' /\ Inv' /\ NothingLeft' /\ AllReduced' /\ [Next]_vars
        => [PM!Next]_(PM!pvars)
    <2> SUFFICES ASSUME Inv, OutInv, OutInv', Inv', NothingLeft', AllReduced', [Next]_vars
                 PROVE  [PM!Next]_(PM!pvars)
      OBVIOUS
    <2>0. TypeOK'
      BY DEF Inv
    <2>1. CASE Master \/ MasterFails \/ \E t \in Task : RecvOutOfMemory(t)
      BY <2>0, <2>1, MasterMaps
    <2>2. ASSUME NEW t \in Task, Worker(t) \/ Death(t) PROVE PM!Next \/ UNCHANGED PM!pvars
      BY <2>0, <2>2, WorkerMaps
    <2>3. CASE UNCHANGED vars
      BY <2>3 DEF vars, PM!pvars, life, computed, Outputs, status
    <2> QED BY <2>1, <2>2, <2>3 DEF Next
  <1>3. Spec => []OutInv
    BY OutputsAreCounted
  <1> QED
    BY <1>1, <1>2, <1>3, Invariance, NothingIsLeft, EverythingIsReduced, PTL DEF Spec, PM!Spec
=============================================================================
