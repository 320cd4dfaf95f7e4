------------------------------- MODULE Slots -------------------------------
(***************************************************************************)
(* What the queue of jobs promises: K slots, each held by one process of   *)
(* the engine from the moment it may calculate until it ends or is told to *)
(* stop.  Nothing is said of tables, statuses, polling or signals.          *)
(***************************************************************************)
EXTENDS Naturals, FiniteSets

CONSTANTS Proc, K

VARIABLES holders,  \* processes that hold a slot
          gone      \* processes that ended or were told to

svars == <<holders, gone>>

Init == holders = {} /\ gone = {}

Enter(p) == /\ p \notin holders \cup gone
            /\ Cardinality(holders) < K
            /\ holders' = holders \cup {p}
            /\ gone' = gone

\* A process leaves its slot, or gives up waiting for one.
Leave(p) == /\ p \notin gone
            /\ holders' = holders \ {p}
            /\ gone' = gone \cup {p}

Next == \E p \in Proc : Enter(p) \/ Leave(p)

Spec == Init /\ [][Next]_svars
=============================================================================
