--------------------------- MODULE ResourcePool ---------------------------
(***************************************************************************)
(* What the resource ledger promises, without revisions, files, locks or   *)
(* callers (FR-0010): a resource is free or held by one lease, a lease     *)
(* takes its resources all at once and gives them back all at once, and an *)
(* invalid resource is never taken again.                                  *)
(***************************************************************************)
CONSTANTS Resources, Leases, Nobody

VARIABLES
  state,   \* state of each resource
  holder,  \* the lease that holds it, or Nobody
  spent    \* leases that were granted; none is granted twice

vars == <<state, holder, spent>>

Free(r) == state[r] = "AVAILABLE"
HeldBy(l) == {r \in Resources : holder[r] = l}

Init ==
  /\ state = [r \in Resources |-> "ABSENT"]
  /\ holder = [r \in Resources |-> Nobody]
  /\ spent = {}

Add(R) ==
  /\ \A r \in R : state[r] = "ABSENT"
  /\ state' \in [Resources -> {"ABSENT", "AVAILABLE", "IN_USE", "INVALID"}]
  /\ \A r \in R : state'[r] \in {"AVAILABLE", "INVALID"}
  /\ \A r \in Resources \ R : state'[r] = state[r]
  /\ UNCHANGED <<holder, spent>>

Take(l, R) ==
  /\ l \notin spent
  /\ \A r \in R : Free(r)
  /\ state' = [r \in Resources |-> IF r \in R THEN "IN_USE" ELSE state[r]]
  /\ holder' = [r \in Resources |-> IF r \in R THEN l ELSE holder[r]]
  /\ spent' = spent \cup {l}

\* The lease ends; the resources in Bad are invalid from now on.
GiveBack(l, Bad) ==
  /\ Bad \subseteq HeldBy(l)
  /\ state' = [r \in Resources |-> IF r \in Bad THEN "INVALID"
                                   ELSE IF r \in HeldBy(l) THEN "AVAILABLE" ELSE state[r]]
  /\ holder' = [r \in Resources |-> IF r \in HeldBy(l) THEN Nobody ELSE holder[r]]
  /\ UNCHANGED spent

Next ==
  \/ \E R \in SUBSET Resources : Add(R)
  \/ \E l \in Leases : \/ \E R \in SUBSET Resources : Take(l, R)
                       \/ \E Bad \in SUBSET HeldBy(l) : GiveBack(l, Bad)

Spec == Init /\ [][Next]_vars
=============================================================================
