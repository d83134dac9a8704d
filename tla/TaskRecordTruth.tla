---------------------------- MODULE TaskRecordTruth ----------------------------
(***************************************************************************)
(* What the durable record of one task promises (FR-0008): it goes from     *)
(* accepted to running to one terminal result, which stays, unless its      *)
(* history is declared invalid, which is for good.  Its writers have no     *)
(* lock: the promise lasts until one of them overwrites what it has not     *)
(* seen, and nothing is promised from then on.                              *)
(***************************************************************************)
CONSTANT Terminals

VARIABLES truth, lost

Truths == {"none", "accepted", "running", "invalid"} \cup Terminals

Init == truth = "none" /\ lost = FALSE

Accept == truth = "none" /\ truth' = "accepted"
Run == truth = "accepted" /\ truth' = "running"
Finish == truth = "running" /\ truth' \in Terminals
Invalidate == truth # "invalid" /\ truth' = "invalid"

Kept == (Accept \/ Run \/ Finish \/ Invalidate) /\ UNCHANGED lost
Lose == lost' = TRUE /\ truth' \in Truths

Next == Kept \/ Lose

Spec == Init /\ [][Next]_<<truth, lost>>
=============================================================================
