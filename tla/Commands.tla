----------------------------- MODULE Commands -----------------------------
(***************************************************************************)
(* What the DbServer promises to those that send it commands: a command is *)
(* executed at most once, and answered only after that.  It may also be    *)
(* lost, with its client waiting: nothing is promised about that.  The      *)
(* modules that use the DbServer (JobQueue, WorkerPool) take each command  *)
(* for one step of it.                                                      *)
(***************************************************************************)
CONSTANT Client
VARIABLE state

Init == state = [c \in Client |-> "none"]

Become(c, from, to) == /\ state[c] = from
                       /\ state' = [state EXCEPT ![c] = to]

Ask(c)     == Become(c, "none", "asked")
Execute(c) == Become(c, "asked", "executed")
Answer(c)  == Become(c, "executed", "answered")

Next == \E c \in Client : Ask(c) \/ Execute(c) \/ Answer(c)

Spec == Init /\ [][Next]_state
=============================================================================
