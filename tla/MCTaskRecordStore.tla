--------------------------- MODULE MCTaskRecordStore ---------------------------
(* Two submissions of one id. *)
EXTENDS TaskRecordStore, TLC

CONSTANTS s1, s2, q1, q2, ok, ko, e1, e2

Both == {s1, s2}
\* e1 and e2 are two versions of one entry.
MCEntryId == [x \in {e1, e2} |-> 1]
MCObservability == {{}, {e1}, {e2}}
Symmetry == Permutations(Both) \cup Permutations({q1, q2}) \cup Permutations({e1, e2})
=============================================================================
