------------------------------- MODULE MCBatchRun -------------------------------
(* Two batches that write to one dataset, with a key in common and item ids that *)
(* coincide, and one without a sink.                                          *)
EXTENDS BatchRun

CONSTANTS first, second, loose, k1, k2, k3, i1, i2, i3, dataset

Entry(i, k) == [id |-> i, key |-> k]

MCTarget ==
  [b \in Batches |->
     IF b = first THEN <<Entry(i1, k1), Entry(i2, k2), Entry(i3, k1)>>
     ELSE IF b = second THEN <<Entry(i2, k3), Entry(i3, k2)>>
     ELSE <<Entry(i1, k1), Entry(i2, k1)>>]

MCDatasetOf == [b \in Batches |-> dataset]
=============================================================================
