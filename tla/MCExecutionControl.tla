------------------------- MODULE MCExecutionControl -------------------------
(* A small instance of ExecutionControl for TLC. *)
EXTENDS ExecutionControl

CONSTANTS s1, t1, t2

TwoTasks == {t1, t2}
OneScope == {s1}
AllInOne == [t \in Tasks |-> s1]
\* The policies of two tasks in one scope need not agree.
Uneven == [t \in Tasks |-> IF t = t2 THEN 2 ELSE 1]
TwiceEach == [t \in Tasks |-> 2]
TwoResources == {"r1", "r2"}
Singles == {{r} : r \in Resources}
=============================================================================
