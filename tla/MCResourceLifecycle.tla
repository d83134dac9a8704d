------------------------ MODULE MCResourceLifecycle ------------------------
(* Small instances of ResourceLifecycle for TLC: two callers, two leases.  *)
EXTENDS ResourceLifecycle, TLC

CONSTANTS t1, t2, a1, c1, c2

OneAccount == {1}
TwoAccounts == {1, 2}
OneProxy == {3}
OneAdapter == {a1}
AllManaged == [r \in Accounts |-> a1]
OneTask == {t1}
TwoTasks == {t1, t2}
TwoCallers == {c1, c2}
NoClock == {0}
TwoTimes == {0, 1}
OneReason == {"done"}
AccountFirst == {{"account"}, {"account", "proxy"}}
PairOnly == {{"account", "proxy"}}

\* The second batch may come late, and changes the revision under a caller.
TwoBatches == {[r \in {1, 3} |-> "AVAILABLE"], [r \in {2} |-> "AVAILABLE"]}
OneBatch == {[r \in {1, 3} |-> "AVAILABLE"]}

WriteFaults == {"snapshot_write"}
AllFaults == {"load", "trace_load", "trace_write", "snapshot_write", "rollback", "crash"}

CallerSymmetry == Permutations(TwoCallers)
=============================================================================
