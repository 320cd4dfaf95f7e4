---------------------------- MODULE ParallelMap ----------------------------
(***************************************************************************)
(* What a parallel computation promises to the code that reduces its       *)
(* results: every task that ever exists runs to its end, every value it    *)
(* computes is handed to the reduction, and only then is the computation   *)
(* done; otherwise it fails.  Nothing is said of queues, messages,         *)
(* counters or processes.                                                   *)
(***************************************************************************)
CONSTANTS
  Task,      \* the tasks that may exist
  Given,     \* those the computation starts with
  Index      \* the numbers of the values of one task

VARIABLES
  life,      \* "unknown", "open", "finished" or "crashed", of each task
  computed,  \* values <<t, i>> computed and not lost
  reduced,   \* values handed to the reduction
  status     \* "running", "done" or "failed"

pvars == <<life, computed, reduced, status>>

Init ==
  /\ life = [t \in Task |-> IF t \in Given THEN "open" ELSE "unknown"]
  /\ computed = {}
  /\ reduced = {}
  /\ status = "running"

Compute(t, i) ==
  /\ life[t] = "open"
  /\ <<t, i>> \notin computed
  /\ computed' = computed \cup {<<t, i>>}
  /\ UNCHANGED <<life, reduced, status>>

\* An open task starts another one.
Spawn(t, u) ==
  /\ life[t] = "open" /\ life[u] = "unknown"
  /\ life' = [life EXCEPT ![u] = "open"]
  /\ UNCHANGED <<computed, reduced, status>>

Finish(t) ==
  /\ life[t] = "open"
  /\ life' = [life EXCEPT ![t] = "finished"]
  /\ UNCHANGED <<computed, reduced, status>>

\* Tasks die; values that were not handed over may go with them.  A task the
\* master runs in its own process takes the computation with it.
Crash(S) ==
  /\ S # {} /\ \A t \in S : life[t] = "open"
  /\ life' = [t \in Task |-> IF t \in S THEN "crashed" ELSE life[t]]
  /\ computed' \subseteq computed
  /\ \A o \in computed \ computed' : o[1] \in S /\ o \notin reduced
  /\ status' \in IF status = "running" THEN {"running", "failed"} ELSE {status}
  /\ reduced' = reduced

Reduce(t, i) ==
  /\ status = "running"
  /\ <<t, i>> \in computed \ reduced
  /\ reduced' = reduced \cup {<<t, i>>}
  /\ UNCHANGED <<life, computed, status>>

Complete ==
  /\ status = "running"
  /\ \A t \in Task : life[t] \in {"unknown", "finished"}
  /\ reduced = computed
  /\ status' = "done"
  /\ UNCHANGED <<life, computed, reduced>>

Fail ==
  /\ status = "running"
  /\ status' = "failed"
  /\ UNCHANGED <<life, computed, reduced>>

Next == \/ \E t \in Task : \/ Finish(t)
                           \/ \E i \in Index : Compute(t, i) \/ Reduce(t, i)
                           \/ \E u \in Task : Spawn(t, u)
        \/ \E S \in SUBSET Task : Crash(S)
        \/ Complete \/ Fail

Spec == Init /\ [][Next]_pvars
=============================================================================
