--------------------------- MODULE AdmissionLimit ---------------------------
(***************************************************************************)
(* What the concurrency policy promises (FR-0016), without guards, counters *)
(* or threads: at any moment the tasks of a scope that occupy a slot are so *)
(* few that the last one was within its own limit when it entered.  To look *)
(* and to enter is one step.                                                *)
(***************************************************************************)
EXTENDS Naturals, FiniteSets

CONSTANTS Tasks, ScopeOf, Limit

VARIABLE occupied  \* tasks with a slot

Peers(t) == {u \in occupied : ScopeOf[u] = ScopeOf[t]}

Init == occupied = {}

Enter(t) ==
  /\ t \notin occupied
  /\ Cardinality(Peers(t)) < Limit[t]
  /\ occupied' = occupied \cup {t}

Leave(t) ==
  /\ t \in occupied
  /\ occupied' = occupied \ {t}

Next == \E t \in Tasks : Enter(t) \/ Leave(t)

Spec == Init /\ [][Next]_occupied
=============================================================================
