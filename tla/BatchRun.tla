-------------------------------- MODULE BatchRun --------------------------------
(***************************************************************************)
(* How Core executes a batch (syvert/batch_dataset.py): a target set is     *)
(* processed item by item, each outcome is appended to the batch envelope   *)
(* and each success recorded in a dataset sink that several batches may      *)
(* share.  A run stops early at a limit or after an item that timed out; its *)
(* envelope then carries a resume token, and the caller may come back with  *)
(* it, with an older one, or start all over.                                *)
(*                                                                         *)
(* A sink serves one run at a time, as ReferenceDatasetSink has no lock and  *)
(* nothing in the program shares one between threads.                       *)
(***************************************************************************)
EXTENDS Naturals, Sequences, FiniteSets

CONSTANTS
  Batches, Keys, ItemIds, Datasets,
  Target,     \* the target set of each batch: a sequence of items [id, key]
  SinkBound,  \* the batches whose request names a dataset sink
  DatasetOf,  \* the dataset identity of each batch
  MaxTokens,  \* a bound: the resumable envelopes callers hold at a time
  None

ASSUME BatchAssumption ==
  /\ Target \in [Batches -> Seq([id : ItemIds, key : Keys])]
  /\ \A b \in Batches : Len(Target[b]) > 0
  /\ \A b \in Batches : \A i, j \in DOMAIN Target[b] : Target[b][i].id = Target[b][j].id => i = j
  /\ SinkBound \subseteq Batches
  /\ DatasetOf \in [Batches -> Datasets]
  /\ None \notin Batches

VARIABLES
  sink,     \* ReferenceDatasetSink._records
  run,      \* the run in progress, or none
  issued,   \* the resumable envelopes that callers hold
  promise   \* history: the last envelope of a batch that was never started twice

vars == <<sink, run, issued, promise>>

Positions(b) == DOMAIN Target[b]
Size(b) == Len(Target[b])
Item(b, i) == Target[b][i]
Repeats(b, i) == \E j \in 1..(i - 1) : Item(b, j).key = Item(b, i).key

RecordId(b, i) == <<DatasetOf[b], Item(b, i).id>>
DatasetRecord(b, i) ==
  [id |-> RecordId(b, i), dataset |-> DatasetOf[b], key |-> Item(b, i).key,
   batch |-> b, item |-> Item(b, i).id]

RecordIds == Datasets \X ItemIds
Record == [id : RecordIds, dataset : Datasets, key : Keys, batch : Batches, item : ItemIds]

\* What read_by_dataset returns of the batch.
Stored == {sink[n] : n \in DOMAIN sink}
ReadBack(b) == {r \in Stored : r.dataset = DatasetOf[b] /\ r.batch = b}

Succeeded(ref) == [status |-> "succeeded", ref |-> ref]
Failed == [status |-> "failed", ref |-> None]
DuplicateSkipped == [status |-> "duplicate_skipped", ref |-> None]

Outcome == {Succeeded(ref) : ref \in RecordIds \cup {None}} \cup {Failed, DuplicateSkipped}

\* An envelope that carries a token; its next_item_index is Len(outcomes).
Envelope == [batch : Batches, outcomes : Seq(Outcome)]

\* None stands for a run, or an envelope, that is not there.
ASSUME NoneAssumption == None \notin Envelope

Run == [batch : Batches, outcomes : Seq(Outcome), token : BOOLEAN, start : Nat, stop : Nat,
        seen : SUBSET Keys, sink : BOOLEAN, clean : BOOLEAN]

TypeOK ==
  /\ sink \in Seq(Record)
  /\ run \in Run \cup {None}
  /\ run # None => Len(run.outcomes) <= Size(run.batch) /\ run.stop <= Size(run.batch)
  /\ issued \subseteq Envelope
  /\ \A e \in issued : Len(e.outcomes) < Size(e.batch)
  /\ promise \in [Batches -> issued \cup {None}]

Init ==
  /\ sink = <<>>
  /\ run = None
  /\ issued = {}
  /\ promise = [b \in Batches |-> None]

-----------------------------------------------------------------------------
(* Whether Core takes up a token again *)

\* Mutant: records of other batches count as well.
RuntimePositionOfDataset(e, present) ==
  e.batch \in SinkBound =>
    /\ present
    /\ \A r \in Stored : \A i \in Positions(e.batch) :
         r.dataset = DatasetOf[e.batch] /\ r.item = Item(e.batch, i).id => i <= Len(e.outcomes)

\* Mutant: no look at what the sink already has.
RuntimePositionUnread(e, present) == e.batch \in SinkBound => present

\* _validate_resume_runtime_position: no record of the batch lies ahead.
RuntimePosition(e, present) ==
  e.batch \in SinkBound =>
    /\ present
    /\ \A r \in ReadBack(e.batch) : \A i \in Positions(e.batch) :
         r.item = Item(e.batch, i).id => i <= Len(e.outcomes)

\* Mutant: the prior outcomes are believed.
OutcomePrefixUnread(e) == TRUE

\* _validate_resume_outcome_prefix: the prior outcomes agree with the target set
\* and with the sink.
OutcomePrefix(e) ==
  \A i \in DOMAIN e.outcomes :
    LET b == e.batch
        o == e.outcomes[i]
    IN /\ (o.status = "duplicate_skipped") <=> Repeats(b, i)
       /\ b \notin SinkBound => o.ref = None
       /\ b \in SinkBound /\ o.status # "succeeded" => \A r \in ReadBack(b) : r.item # Item(b, i).id
       /\ b \in SinkBound /\ o.status = "succeeded" =>
            \E r \in ReadBack(b) : r.id = o.ref /\ r.item = Item(b, i).id /\ r.key = Item(b, i).key

\* The position and the prefix of a token for the first item go unchecked.
Accepts(e, present) == Len(e.outcomes) > 0 => RuntimePosition(e, present) /\ OutcomePrefix(e)

-----------------------------------------------------------------------------
(* execute_batch_request *)

KeysBefore(b, n) == {Item(b, i).key : i \in 1..n}

\* Mutant: the deduplication state is not rebuilt for a resumed run.
BeginForgetful(e, token, stop, present, clean) ==
  /\ run' = [batch |-> e.batch, outcomes |-> e.outcomes, token |-> token,
             start |-> Len(e.outcomes), stop |-> stop, seen |-> {}, sink |-> present, clean |-> clean]
  /\ promise' = [promise EXCEPT ![e.batch] = None]
  /\ UNCHANGED <<sink, issued>>

Begin(e, token, stop, present, clean) ==
  /\ run' = [batch |-> e.batch, outcomes |-> e.outcomes, token |-> token,
             start |-> Len(e.outcomes), stop |-> stop,
             seen |-> KeysBefore(e.batch, Len(e.outcomes)), sink |-> present, clean |-> clean]
  /\ promise' = [promise EXCEPT ![e.batch] = None]
  /\ UNCHANGED <<sink, issued>>

\* A request without a token.
Start(b) ==
  /\ run = None
  /\ \E stop \in 0..Size(b), present \in BOOLEAN :
       Begin([batch |-> b, outcomes |-> <<>>], FALSE, stop, present, ReadBack(b) = {})

\* A request with any token a caller holds.
Resume(e) ==
  /\ run = None
  /\ \E stop \in Len(e.outcomes)..Size(e.batch), present \in BOOLEAN :
       Accepts(e, present) /\ Begin(e, TRUE, stop, present, promise[e.batch] = e)

Index == Len(run.outcomes) + 1
MayContinue == run # None /\ Len(run.outcomes) < run.stop

Conclude(outcome, stop) ==
  run' = [run EXCEPT !.outcomes = Append(@, outcome), !.stop = stop,
                     !.seen = @ \cup {Item(run.batch, Index).key}]

IsDuplicate == Item(run.batch, Index).key \in run.seen

SkipDuplicate ==
  /\ MayContinue /\ IsDuplicate
  /\ Conclude(DuplicateSkipped, run.stop)
  /\ UNCHANGED <<sink, issued, promise>>

\* The task of the item failed, its envelope was unsafe, no sink is there or the
\* sink did not take the record; after a timeout or a cancellation the run stops.
ItemFails ==
  /\ MayContinue /\ ~IsDuplicate
  /\ \E stop \in {run.stop, Index} : Conclude(Failed, stop)
  /\ UNCHANGED <<sink, issued, promise>>

SucceedsWithoutSink ==
  /\ MayContinue /\ ~IsDuplicate
  /\ run.batch \notin SinkBound
  /\ Conclude(Succeeded(None), run.stop)
  /\ UNCHANGED <<sink, issued, promise>>

\* ReferenceDatasetSink.write refuses a known record and, first wins, a known key.
Takes(record) ==
  \A r \in Stored : r.id # record.id /\ <<r.dataset, r.key>> # <<record.dataset, record.key>>

SucceedsInSink ==
  /\ MayContinue /\ ~IsDuplicate
  /\ run.batch \in SinkBound /\ run.sink
  /\ LET record == DatasetRecord(run.batch, Index)
     IN /\ Takes(record)
        /\ sink' = Append(sink, record)
        /\ Conclude(Succeeded(record.id), run.stop)
  /\ UNCHANGED <<issued, promise>>

\* Mutant: a timeout of the last item stops the run as well.
InterruptAtEnd ==
  /\ run # None /\ ~MayContinue
  /\ LET e == [batch |-> run.batch, outcomes |-> run.outcomes]
     IN /\ issued' = issued \cup {e} /\ Cardinality(issued') <= MaxTokens
        /\ promise' = [promise EXCEPT ![run.batch] = IF run.clean THEN e ELSE None]
  /\ run' = None
  /\ UNCHANGED sink

\* _resumable_result: stopped with items left.
Interrupt ==
  /\ run # None /\ ~MayContinue
  /\ Len(run.outcomes) < Size(run.batch)
  /\ LET e == [batch |-> run.batch, outcomes |-> run.outcomes]
     IN /\ issued' = issued \cup {e} /\ Cardinality(issued') <= MaxTokens
        /\ promise' = [promise EXCEPT ![run.batch] = IF run.clean THEN e ELSE None]
  /\ run' = None
  /\ UNCHANGED sink

AllDone == run # None /\ Len(run.outcomes) = Size(run.batch)

Finish == AllDone /\ run' = None /\ UNCHANGED <<sink, issued, promise>>

\* An exception leaves the run without an envelope: a task raised, or the
\* stop_reason is refused when the envelope is built.
Abort == run # None /\ run' = None /\ UNCHANGED <<sink, issued, promise>>

\* The process ends, and the records it held in memory with it.
LoseSink ==
  /\ sink # <<>>
  /\ sink' = <<>>
  /\ run' = None
  /\ promise' = [b \in Batches |-> None]
  /\ UNCHANGED issued

Next ==
  \/ \E b \in Batches : Start(b)
  \/ \E e \in issued : Resume(e)
  \/ SkipDuplicate \/ ItemFails \/ SucceedsWithoutSink \/ SucceedsInSink
  \/ Interrupt \/ Finish \/ Abort \/ LoseSink

Spec == Init /\ [][Next]_vars

-----------------------------------------------------------------------------
(* Aggregation *)

WithStatus(outcomes, status) == {i \in DOMAIN outcomes : outcomes[i].status = status}

\* _aggregate_batch_result: duplicates are neutral.
Aggregate(outcomes) ==
  LET succeeded == WithStatus(outcomes, "succeeded")
      failed == WithStatus(outcomes, "failed")
  IN IF succeeded = {} THEN "all_failed" ELSE IF failed = {} THEN "complete" ELSE "partial_success"

-----------------------------------------------------------------------------
(* Properties *)

\* FR-0445, first wins: a dataset has one record for each deduplication key and for each
\* identity, whichever batches and runs wrote it; and within a batch the first item with a
\* key is executed and every later one skipped, across all the runs that an outcome prefix
\* went through, so that a skipped item never becomes a success.
FirstWins ==
  /\ \A m, n \in DOMAIN sink :
       sink[m].id = sink[n].id \/ <<sink[m].dataset, sink[m].key>> = <<sink[n].dataset, sink[n].key>>
         => m = n
  /\ run # None =>
       \A i \in DOMAIN run.outcomes : (run.outcomes[i].status = "duplicate_skipped") <=> Repeats(run.batch, i)

\* In a run in progress, resumed or not, each success is backed by a record of
\* this very item in the sink as it is now, however old the envelope it started
\* from and though the sink may have been lost in between; and when a batch is
\* reported complete there is a record for the key of every item, skipped ones too.
SuccessIsRecorded ==
  run # None /\ run.batch \in SinkBound =>
    /\ \A i \in WithStatus(run.outcomes, "succeeded") :
         \E r \in Stored : r = DatasetRecord(run.batch, i) /\ r.id = run.outcomes[i].ref
    /\ AllDone /\ Aggregate(run.outcomes) = "complete" =>
         \A i \in Positions(run.batch) :
           \E r \in ReadBack(run.batch) : r.key = Item(run.batch, i).key

Waiting == {i \in Positions(run.batch) : i > Len(run.outcomes)}
NoneWaitsRecorded == \A i \in Waiting : \A r \in ReadBack(run.batch) : r.item # Item(run.batch, i).id

\* A run that was resumed behind the first item never dispatches an item that
\* has a record already.
NoSecondDispatch == run # None /\ run.start > 0 /\ run.batch \in SinkBound => NoneWaitsRecorded

\* As long as each run of a batch continued from the last envelope, that envelope
\* is taken up again, whatever other batches did to the sink meanwhile.
PromiseKept == \A b \in Batches : promise[b] # None => Accepts(promise[b], TRUE)

\* A resume token whose position the sink has left behind is refused (FR-0445).
RewindRefused == run # None /\ run.token /\ run.batch \in SinkBound => NoneWaitsRecorded
=============================================================================
