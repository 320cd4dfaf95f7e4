----------------------------- MODULE DbServer -----------------------------
(***************************************************************************)
(* The DbServer and its clients: logs.dbcmd, dbserver.ensure_on, run_server *)
(* with the upgrade of the database, the ZeroMQ proxy and the threads that *)
(* execute the commands.                                                   *)
(*                                                                         *)
(* A client that finds no server starts one and waits; then it sends one   *)
(* command and waits for the answer without a timeout.  The proxy deals    *)
(* the commands round to the threads, also to those that are busy.  An     *)
(* exception in a command of the worker pools (zmq_...) ends the thread    *)
(* and loses what was dealt to it.  A server that is stopped loses all it  *)
(* has received.                                                           *)
(***************************************************************************)
EXTENDS UpgradeDb

CONSTANTS
  Client,    \* the processes that call dbcmd, once each in this instance
  NoClient,
  Thread,    \* num_workers of the server
  ZmqCmd,    \* the clients that send a zmq_ command
  Faults     \* what may go wrong in this instance

ASSUME DbServerAssumption ==
  /\ IsFiniteSet(Thread) /\ Thread # {}
  /\ NoClient \notin Client
  /\ ZmqCmd \subseteq Client
  /\ Faults \subseteq {"raise",  \* a zmq_ command raises
                       "crash",  \* a server dies while it starts
                       "stop"}   \* oq dbserver stop, or a kill

VARIABLES
  cpc,       \* what each client does next
  net,       \* commands sent, not yet received by a server
  front,     \* commands received by the proxy
  inbox,     \* commands dealt to each thread
  ring,      \* the threads the proxy knows of, the next one first
  cur,       \* the command each thread has executed and not yet answered
  executed,  \* how many times each command was executed
  raced      \* for the properties: a server was started while another one was starting

queues == <<net, front, inbox, ring, cur>>
vars   == <<uvars, cpc, queues, executed, raced>>

TypeOK ==
  /\ UpgradeTypeOK
  /\ cpc \in [Client -> {"new", "wait", "ready", "sent", "answered", "exit"}]
  /\ net \subseteq Client
  /\ front \subseteq Client
  /\ inbox \in [Thread -> Seq(Client)]
  /\ ring \in Seq(Thread)
  /\ cur \in [Thread -> Client \cup {NoClient}]
  /\ executed \in [Client -> Nat]
  /\ raced \in BOOLEAN

Init ==
  /\ UpgradeInit
  /\ cpc = [c \in Client |-> "new"]
  /\ net = {} /\ front = {}
  /\ inbox = [t \in Thread |-> << >>]
  /\ ring = << >>
  /\ cur = [t \in Thread |-> NoClient]
  /\ executed = [c \in Client |-> 0]
  /\ raced = FALSE

Running  == \E s \in Server : spc[s] = "serving"
Starting == \E s \in Server : spc[s] \notin {"off", "failed", "dead", "serving"}

CGoto(c, label) == cpc' = [cpc EXCEPT ![c] = label]

-----------------------------------------------------------------------------
(* Clients *)

\* ensure_on, when the server is on
FindServer(c) ==
  /\ cpc[c] \in {"new", "wait"}
  /\ Running
  /\ CGoto(c, "ready")
  /\ UNCHANGED <<uvars, queues, executed, raced>>

\* ensure_on, when it is off
StartServer(c, s) ==
  /\ cpc[c] = "new"
  /\ ~Running
  /\ spc[s] = "off"
  /\ CGoto(c, "wait")
  /\ SGoto(s, "started")
  /\ raced' = (raced \/ Starting)
  /\ UNCHANGED <<db, local, queues, executed>>

\* After 30 seconds ensure_on gives up.
GiveUp(c) ==
  /\ cpc[c] = "wait"
  /\ ~Running
  /\ CGoto(c, "exit")
  /\ UNCHANGED <<uvars, queues, executed, raced>>

\* dbcmd
SendCommand(c) ==
  /\ cpc[c] = "ready"
  /\ CGoto(c, "sent")
  /\ net' = net \cup {c}
  /\ UNCHANGED <<uvars, front, inbox, ring, cur, executed, raced>>

-----------------------------------------------------------------------------
(* The server *)

\* oq dbserver start looks again, then calls run_server.
CheckStatus(s) ==
  /\ spc[s] = "started"
  /\ SGoto(s, IF Running THEN "failed" ELSE "instance")
  /\ UNCHANGED <<db, local, cpc, queues, executed, raced>>

\* reset_is_running writes in the job table only.
ResetIsRunning(s) ==
  /\ spc[s] = "reset"
  /\ SGoto(s, "bind")
  /\ UNCHANGED <<db, local, cpc, queues, executed, raced>>

\* DbServer.start; a server whose port is taken ends.
Bind(s) ==
  /\ spc[s] = "bind"
  /\ IF Running
     THEN SGoto(s, "failed") /\ UNCHANGED <<ring, inbox, cur>>
     ELSE /\ SGoto(s, "serving")
          /\ ring' = SetToSeq(Thread)
          /\ inbox' = [t \in Thread |-> << >>]
          /\ cur' = [t \in Thread |-> NoClient]
  /\ UNCHANGED <<db, local, cpc, net, front, executed, raced>>

\* Mutants: a definition named X_Y is X with the bug Y, for the checks that a
\* property is able to fail.
Receive_Keeps(c) ==
  /\ Running /\ c \in net
  /\ net' = net
  /\ front' = front \cup {c}
  /\ UNCHANGED <<uvars, cpc, inbox, ring, cur, executed, raced>>

Receive(c) ==
  /\ Running /\ c \in net
  /\ net' = net \ {c}
  /\ front' = front \cup {c}
  /\ UNCHANGED <<uvars, cpc, inbox, ring, cur, executed, raced>>

\* The proxy deals round robin and does not know who is busy.
Deal(c) ==
  /\ Running /\ c \in front /\ ring # << >>
  /\ front' = front \ {c}
  /\ inbox' = [inbox EXCEPT ![Head(ring)] = Append(@, c)]
  /\ ring' = Append(Tail(ring), Head(ring))
  /\ UNCHANGED <<uvars, cpc, net, cur, executed, raced>>

Ready(t) == Running /\ cur[t] = NoClient /\ inbox[t] # << >>

\* dworker executes the command; safely_call makes a result of any exception.
ExecuteCommand(t) ==
  /\ Ready(t)
  /\ cur' = [cur EXCEPT ![t] = Head(inbox[t])]
  /\ inbox' = [inbox EXCEPT ![t] = Tail(@)]
  /\ executed' = [executed EXCEPT ![Head(inbox[t])] = @ + 1]
  /\ UNCHANGED <<uvars, cpc, net, front, ring, raced>>

\* zmq_ commands are executed outside safely_call.
CommandRaises(t) ==
  /\ "raise" \in Faults
  /\ Ready(t) /\ Head(inbox[t]) \in ZmqCmd
  /\ inbox' = [inbox EXCEPT ![t] = << >>]
  /\ \E i \in DOMAIN ring : ring[i] = t /\ ring' = RemoveAt(ring, i)
  /\ UNCHANGED <<uvars, cpc, net, front, cur, executed, raced>>

Reply_LeavesLoop(t) ==
  /\ Running /\ cur[t] # NoClient /\ cpc[cur[t]] = "sent"
  /\ CGoto(cur[t], "answered")
  /\ UNCHANGED <<uvars, net, front, inbox, ring, cur, executed, raced>>

Reply(t) ==
  /\ Running /\ cur[t] # NoClient
  /\ CGoto(cur[t], "answered")
  /\ cur' = [cur EXCEPT ![t] = NoClient]
  /\ UNCHANGED <<uvars, net, front, inbox, ring, executed, raced>>

\* What the server received and did not answer is lost.
StopServer(s) ==
  /\ "stop" \in Faults
  /\ spc[s] = "serving"
  /\ SGoto(s, "dead")
  /\ front' = {}
  /\ inbox' = [t \in Thread |-> << >>]
  /\ ring' = << >>
  /\ cur' = [t \in Thread |-> NoClient]
  /\ UNCHANGED <<db, local, cpc, net, executed, raced>>

CrashServer(s) ==
  /\ "crash" \in Faults
  /\ Crash(s)
  /\ UNCHANGED <<cpc, queues, executed, raced>>

ClientStep(c) == FindServer(c) \/ SendCommand(c) \/ Receive(c) \/ Deal(c)

ThreadStep(t) == ExecuteCommand(t) \/ CommandRaises(t) \/ Reply(t)

ServerStep(s) ==
  \/ Upgrade(s) /\ UNCHANGED <<cpc, queues, executed, raced>>
  \/ CheckStatus(s) \/ ResetIsRunning(s) \/ Bind(s)

Next ==
  \/ \E c \in Client : ClientStep(c) \/ GiveUp(c) \/ \E s \in Server : StartServer(c, s)
  \/ \E t \in Thread : ThreadStep(t)
  \/ \E s \in Server : ServerStep(s) \/ CrashServer(s) \/ StopServer(s)

Spec == Init /\ [][Next]_vars

\* Every process and thread goes on, and the network delivers.
FairSpec == /\ Spec
            /\ \A c \in Client : WF_vars(ClientStep(c))
            /\ \A t \in Thread : WF_vars(ThreadStep(t))
            /\ \A s \in Server : WF_vars(ServerStep(s))

-----------------------------------------------------------------------------
(* Properties *)

C == INSTANCE Commands WITH
  state <- [c \in Client |-> IF cpc[c] = "answered" THEN "answered"
                             ELSE IF executed[c] > 0 THEN "executed"
                             ELSE IF cpc[c] = "sent" THEN "asked" ELSE "none"]

\* dbcmd through the proxy, the threads, their exceptions and the restarts of
\* the server implements a command that is executed at most once and answered
\* to the one that asked for it.
ImplementsCommands ==
  C!Spec /\ []TypeOK /\ \A c \in Client : [](executed[c] <= 1)

\* The command is with somebody that will execute or answer it.
Pending(c) == \/ c \in net \cup front
              \/ \E t \in Thread : cur[t] = c \/ c \in {inbox[t][i] : i \in DOMAIN inbox[t]}

\* No command waits behind another one for ever: it is answered, unless it was
\* lost with the thread it was dealt to or with the server, or no thread is
\* left, or no server.
CommandsEnd ==
  \A c \in Client :
    cpc[c] = "sent" ~> cpc[c] = "answered" \/ ~Pending(c) \/ ring = << >>

\* A server that goes on to serve has the schema of the code it executes: all
\* the versions, their objects and the last definition of the job table, as long
\* as no two servers were starting together.
UpToDate ==
  \A s \in Server : spc[s] \in {"reset", "bind", "serving"} /\ ~raced =>
    /\ versions = Version
    /\ objects = SchemaOf(Version)
    /\ job_sql = JobSqlOf(Version)

\* Of the servers that several clients start at once one serves in the end,
\* whatever the state of the database: those that fail in an upgrade, because
\* another one is doing it, or find the port taken leave somebody behind them,
\* unless one of them is killed.
SomebodyServes ==
  \A c \in Client : cpc[c] = "wait" ~> Running \/ \E s \in Server : spc[s] = "dead"
=============================================================================
