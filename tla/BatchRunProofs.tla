----------------------------- MODULE BatchRunProofs -----------------------------
(***************************************************************************)
(* Proofs about BatchRun, for any batches, target sets, datasets and tokens, *)
(* and any number of runs that share a sink.                                *)
(***************************************************************************)
EXTENDS BatchRun, WellFoundedInduction, TLAPS

-----------------------------------------------------------------------------
(* The inductive invariant *)

\* A token whose every check the sink would pass now, checked or not.
Upheld(e) == RuntimePosition(e, TRUE) /\ OutcomePrefix(e)

\* Records are named after what they were made of, and the first of a kind wins.
SinkHolds ==
  /\ \A r \in Stored : r.id = <<r.dataset, r.item>>
  /\ \A m, n \in DOMAIN sink :
       sink[m].id = sink[n].id \/ <<sink[m].dataset, sink[m].key>> = <<sink[n].dataset, sink[n].key>>
         => m = n

\* The deduplication state of a run, resumed or not, is that of its outcomes.
DedupHolds ==
  run # None =>
    /\ run.seen = KeysBefore(run.batch, Len(run.outcomes))
    /\ \A i \in DOMAIN run.outcomes : (run.outcomes[i].status = "duplicate_skipped") <=> Repeats(run.batch, i)

\* Each success of the run has its record.
BackingHolds ==
  run # None /\ run.batch \in SinkBound =>
    \A i \in DOMAIN run.outcomes : run.outcomes[i].status = "succeeded" =>
      /\ run.outcomes[i].ref = RecordId(run.batch, i)
      /\ DatasetRecord(run.batch, i) \in Stored

\* The last envelope of a batch is upheld for as long as nobody runs the batch;
\* and a run that continues from it, or from nothing, would write one that is.
PromiseHolds ==
  /\ \A b \in Batches, e \in issued : promise[b] = e => e.batch = b /\ Upheld(e)
  /\ run # None =>
       /\ promise[run.batch] = None
       /\ run.clean => Upheld([batch |-> run.batch, outcomes |-> run.outcomes])

IInv ==
  /\ TypeOK
  /\ SinkHolds
  /\ DedupHolds
  /\ BackingHolds
  /\ NoSecondDispatch
  /\ PromiseHolds

-----------------------------------------------------------------------------
(* The operators of the model *)

LEMMA ElementOfSeq ==
  ASSUME NEW S, NEW seq \in Seq(S), NEW i \in DOMAIN seq
  PROVE  seq[i] \in S
OBVIOUS

LEMMA ItemType ==
  ASSUME NEW b \in Batches, NEW i \in Positions(b)
  PROVE  /\ Item(b, i) \in [id : ItemIds, key : Keys]
         /\ DatasetOf[b] \in Datasets
<1>1. Target \in [Batches -> Seq([id : ItemIds, key : Keys])] /\ DatasetOf \in [Batches -> Datasets]
  BY BatchAssumption
<1>2. Target[b] \in Seq([id : ItemIds, key : Keys]) /\ i \in DOMAIN Target[b]
  BY <1>1 DEF Positions
<1>3. Target[b][i] \in [id : ItemIds, key : Keys]
  BY <1>2, ElementOfSeq
<1>4. QED
  BY <1>1, <1>3 DEF Item

LEMMA PositionsOf ==
  ASSUME NEW b \in Batches
  PROVE  Positions(b) = 1..Size(b) /\ Size(b) \in Nat /\ Size(b) > 0
BY BatchAssumption DEF Positions, Size

LEMMA RecordType ==
  ASSUME NEW b \in Batches, NEW i \in Positions(b)
  PROVE  /\ DatasetRecord(b, i) \in Record
         /\ DatasetRecord(b, i).id = RecordId(b, i)
         /\ DatasetRecord(b, i).id = <<DatasetRecord(b, i).dataset, DatasetRecord(b, i).item>>
         /\ DatasetRecord(b, i).dataset = DatasetOf[b] /\ DatasetRecord(b, i).batch = b
         /\ DatasetRecord(b, i).key = Item(b, i).key /\ DatasetRecord(b, i).item = Item(b, i).id
         /\ RecordId(b, i) \in RecordIds
<1>1. Item(b, i) \in [id : ItemIds, key : Keys] /\ DatasetOf[b] \in Datasets
  BY ItemType
<1>2. QED
  BY <1>1 DEF DatasetRecord, Record, RecordId, RecordIds

\* Keys are rebuilt one at a time as outcomes are.
LEMMA KeysGrow ==
  ASSUME NEW b, NEW n \in Nat
  PROVE  KeysBefore(b, n + 1) = KeysBefore(b, n) \cup {Item(b, n + 1).key}
<1>1. 1..(n + 1) = (1..n) \cup {n + 1}
  OBVIOUS
<1>2. QED
  BY <1>1 DEF KeysBefore

\* An item is a duplicate iff its key was seen.
LEMMA RepeatsIsSeen ==
  ASSUME NEW b, NEW n \in Nat
  PROVE  Item(b, n + 1).key \in KeysBefore(b, n) <=> Repeats(b, n + 1)
BY DEF KeysBefore, Repeats

LEMMA OutcomeFields ==
  /\ \A o \in Outcome : o.status \in {"succeeded", "failed", "duplicate_skipped"}
  /\ \A ref \in RecordIds \cup {None} : Succeeded(ref) \in Outcome
  /\ Failed \in Outcome /\ DuplicateSkipped \in Outcome
  /\ Failed.status = "failed" /\ Failed.ref = None
  /\ DuplicateSkipped.status = "duplicate_skipped" /\ DuplicateSkipped.ref = None
  /\ \A ref : Succeeded(ref).status = "succeeded" /\ Succeeded(ref).ref = ref
BY DEF Outcome, Succeeded, Failed, DuplicateSkipped

LEMMA Appending ==
  ASSUME NEW S, NEW seq \in Seq(S), NEW x \in S
  PROVE  /\ Append(seq, x) \in Seq(S)
         /\ Len(Append(seq, x)) = Len(seq) + 1
         /\ DOMAIN seq = 1..Len(seq) /\ Len(seq) \in Nat
         /\ DOMAIN Append(seq, x) = 1..(Len(seq) + 1)
         /\ \A i \in 1..Len(seq) : Append(seq, x)[i] = seq[i]
         /\ Append(seq, x)[Len(seq) + 1] = x
OBVIOUS

\* What a token needs of the sink is what the sink has of its batch.
LEMMA UpheldElsewhere ==
  ASSUME NEW e, Upheld(e), ReadBack(e.batch)' = ReadBack(e.batch)
  PROVE  Upheld(e)'
BY DEF Upheld, RuntimePosition, OutcomePrefix

-----------------------------------------------------------------------------
(* A run begins *)

LEMMA BeginKeepsIInv ==
  ASSUME IInv, run = None, NEW e \in Envelope, NEW token \in BOOLEAN, NEW present \in BOOLEAN,
         NEW clean \in BOOLEAN, NEW stop \in Len(e.outcomes)..Size(e.batch),
         Len(e.outcomes) <= Size(e.batch), Accepts(e, present), clean => Upheld(e),
         Begin(e, token, stop, present, clean)
  PROVE  IInv'
<1> USE DEF IInv
<1>1. e.batch \in Batches /\ e.outcomes \in Seq(Outcome) /\ Len(e.outcomes) \in Nat
      /\ DOMAIN e.outcomes = 1..Len(e.outcomes) /\ Size(e.batch) \in Nat
      /\ Positions(e.batch) = 1..Size(e.batch)
  BY PositionsOf DEF Envelope
<1>2. /\ run' = [batch |-> e.batch, outcomes |-> e.outcomes, token |-> token,
                 start |-> Len(e.outcomes), stop |-> stop,
                 seen |-> KeysBefore(e.batch, Len(e.outcomes)), sink |-> present, clean |-> clean]
      /\ promise' = [promise EXCEPT ![e.batch] = None]
      /\ UNCHANGED <<sink, issued>>
  BY DEF Begin
<1>3. /\ run'.batch = e.batch /\ run'.outcomes = e.outcomes /\ run'.start = Len(e.outcomes)
      /\ run'.stop = stop /\ run'.seen = KeysBefore(e.batch, Len(e.outcomes)) /\ run'.clean = clean
  BY <1>2
<1>4. Stored' = Stored /\ \A b : ReadBack(b)' = ReadBack(b)
  BY <1>2 DEF Stored, ReadBack
<1>5. \A i \in 1..Len(e.outcomes) : i \in Positions(e.batch) /\ Item(e.batch, i).key \in Keys
  BY <1>1, ItemType
<1>6. TypeOK'
  <2>1. KeysBefore(e.batch, Len(e.outcomes)) \in SUBSET Keys
    BY <1>5 DEF KeysBefore
  <2>2. stop \in Nat /\ stop <= Size(e.batch)
    BY <1>1
  <2>3. run' \in Run
    BY <1>1, <1>2, <2>1, <2>2 DEF Run
  <2>4. promise' \in [Batches -> issued \cup {None}]
    BY <1>2 DEF TypeOK
  <2>5. QED
    BY <1>2, <1>3, <2>2, <2>3, <2>4 DEF TypeOK
<1>7. SinkHolds'
  BY <1>2, <1>4 DEF SinkHolds
<1>8. ASSUME NEW i \in 1..Len(e.outcomes)
      PROVE  OutcomePrefix(e) /\ RuntimePosition(e, present)
  BY <1>1, <1>8 DEF Accepts
<1>9. DedupHolds'
  BY <1>1, <1>3, <1>8 DEF DedupHolds, OutcomePrefix
<1>10. BackingHolds'
  <2> SUFFICES ASSUME e.batch \in SinkBound, NEW i \in 1..Len(e.outcomes),
                      e.outcomes[i].status = "succeeded"
               PROVE  /\ e.outcomes[i].ref = RecordId(e.batch, i)
                      /\ DatasetRecord(e.batch, i) \in Stored
    BY <1>1, <1>3, <1>4 DEF BackingHolds
  <2>1. PICK r \in ReadBack(e.batch) :
          r.id = e.outcomes[i].ref /\ r.item = Item(e.batch, i).id /\ r.key = Item(e.batch, i).key
    BY <1>1, <1>8 DEF OutcomePrefix
  <2>2. r \in Stored /\ r.dataset = DatasetOf[e.batch] /\ r.batch = e.batch
    BY DEF ReadBack
  <2>3. r \in Record /\ r.id = <<r.dataset, r.item>>
    BY <2>2, ElementOfSeq DEF Stored, TypeOK, SinkHolds
  <2>4. r.id = RecordId(e.batch, i)
    BY <2>1, <2>2, <2>3 DEF RecordId
  <2>5. r = DatasetRecord(e.batch, i)
    BY <2>1, <2>2, <2>3, <2>4 DEF Record, DatasetRecord
  <2>6. QED
    BY <2>1, <2>2, <2>4, <2>5
<1>11. NoSecondDispatch'
  <2> SUFFICES ASSUME Len(e.outcomes) > 0, e.batch \in SinkBound,
                      NEW i \in Positions(e.batch), i > Len(e.outcomes),
                      NEW r \in ReadBack(e.batch)
               PROVE  r.item # Item(e.batch, i).id
    BY <1>3, <1>4 DEF NoSecondDispatch, NoneWaitsRecorded, Waiting
  <2>1. RuntimePosition(e, present)
    BY DEF Accepts
  <2>2. QED
    BY <1>1, <2>1 DEF RuntimePosition
<1>12. PromiseHolds'
  <2>1. None \notin issued
    BY NoneAssumption DEF TypeOK
  <2>2. \A b \in Batches, f \in issued : promise'[b] = f => promise[b] = f
    BY <1>2, <2>1 DEF TypeOK
  <2>3. \A b \in Batches, f \in issued' : promise'[b] = f => f.batch = b /\ Upheld(f)'
    BY <1>2, <1>4, <2>2, UpheldElsewhere DEF PromiseHolds
  <2>4. promise'[e.batch] = None
    BY <1>1, <1>2 DEF TypeOK
  <2>5. ASSUME clean
        PROVE  Upheld([batch |-> run.batch, outcomes |-> run.outcomes])'
    BY <1>3, <1>4, <2>5 DEF Upheld, RuntimePosition, OutcomePrefix
  <2>6. QED
    BY <1>3, <2>3, <2>4, <2>5 DEF PromiseHolds
<1>13. QED
  BY <1>6, <1>7, <1>9, <1>10, <1>11, <1>12

\* A run without a token starts from nothing, so that no outcome needs a check.
LEMMA StartKeepsIInv ==
  ASSUME IInv, NEW b \in Batches, Start(b)
  PROVE  IInv'
<1> DEFINE e == [batch |-> b, outcomes |-> <<>>]
<1>1. e \in Envelope /\ e.batch = b /\ e.outcomes = <<>> /\ Len(e.outcomes) = 0
  BY DEF Envelope
<1>2. Size(b) \in Nat
  BY PositionsOf
<1>3. PICK stop \in 0..Size(b), present \in BOOLEAN : Begin(e, FALSE, stop, present, ReadBack(b) = {})
  BY DEF Start
<1>4. ReadBack(b) = {} => Upheld(e)
  BY <1>1 DEF Upheld, RuntimePosition, OutcomePrefix
<1>5. Accepts(e, present)
  BY <1>1 DEF Accepts
<1> DEFINE clean == ReadBack(b) = {}
<1>6. clean \in BOOLEAN /\ run = None
  BY DEF Start
<1>7. Begin(e, FALSE, stop, present, clean)
  BY <1>3
<1> HIDE DEF e, clean
<1>8. stop \in Len(e.outcomes)..Size(e.batch) /\ Len(e.outcomes) <= Size(e.batch)
  BY <1>1, <1>2
<1>9. clean => Upheld(e)
  BY <1>4 DEF clean
<1>10. QED
  BY <1>1, <1>5, <1>6, <1>7, <1>8, <1>9, BeginKeepsIInv

\* What a token does not prove the sink does, or the token is refused.
LEMMA ResumeKeepsIInv ==
  ASSUME IInv, NEW e \in issued, Resume(e)
  PROVE  IInv'
<1>1. e \in Envelope /\ Len(e.outcomes) < Size(e.batch) /\ e.batch \in Batches
  BY DEF IInv, TypeOK, Envelope
<1>2. PICK stop \in Len(e.outcomes)..Size(e.batch), present \in BOOLEAN :
        Accepts(e, present) /\ Begin(e, TRUE, stop, present, promise[e.batch] = e)
  BY DEF Resume
<1> DEFINE clean == promise[e.batch] = e
<1>3. clean \in BOOLEAN /\ run = None /\ (clean => Upheld(e))
  BY <1>1 DEF IInv, PromiseHolds, Resume
<1>4. Len(e.outcomes) <= Size(e.batch)
  BY <1>1, PositionsOf DEF Envelope
<1>5. Begin(e, TRUE, stop, present, clean) /\ Accepts(e, present)
  BY <1>2
<1> HIDE DEF clean
<1>6. QED
  BY <1>1, <1>3, <1>4, <1>5, BeginKeepsIInv

-----------------------------------------------------------------------------
(* A run goes on *)

\* What an outcome may do to the sink: nothing, or one record that the sink takes.
Leaves(o) == sink' = sink /\ (o.status = "succeeded" => run.batch \notin SinkBound)
Records(o) ==
  /\ run.batch \in SinkBound
  /\ o = Succeeded(RecordId(run.batch, Index))
  /\ Takes(DatasetRecord(run.batch, Index))
  /\ sink' = Append(sink, DatasetRecord(run.batch, Index))

LEMMA ConcludeKeepsIInv ==
  ASSUME IInv, MayContinue, NEW o \in Outcome, NEW stop \in {run.stop, Index}, Conclude(o, stop),
         (o.status = "duplicate_skipped") <=> IsDuplicate,
         run.batch \notin SinkBound => o.ref = None,
         Leaves(o) \/ Records(o),
         UNCHANGED <<issued, promise>>
  PROVE  IInv'
<1> USE DEF IInv
<1>1. run # None /\ run \in Run /\ Len(run.outcomes) < run.stop /\ run.stop <= Size(run.batch)
  BY DEF MayContinue, TypeOK
<1>2. PICK b \in Batches, outs \in Seq(Outcome), n \in Nat :
        b = run.batch /\ outs = run.outcomes /\ n = Len(outs)
  BY <1>1 DEF Run
<1>3. n + 1 = Index /\ n + 1 \in Positions(b) /\ Positions(b) = 1..Size(b) /\ Size(b) \in Nat /\ n + 1 <= Size(b)
      /\ stop \in Nat /\ n + 1 <= stop /\ stop <= Size(b)
  BY <1>1, <1>2, PositionsOf DEF Index, Run
<1>4. PICK nouts \in Seq(Outcome) : 
        /\ nouts = Append(outs, o)
        /\ Len(nouts) = n + 1 /\ DOMAIN outs = 1..n /\ DOMAIN nouts = 1..(n + 1)
        /\ \A i \in 1..n : nouts[i] = outs[i]
        /\ nouts[n + 1] = o
  <2> DEFINE nouts == Append(outs, o)
  <2>1. /\ nouts \in Seq(Outcome) /\ Len(nouts) = Len(outs) + 1
        /\ DOMAIN outs = 1..Len(outs) /\ DOMAIN nouts = 1..(Len(outs) + 1)
        /\ \A i \in 1..Len(outs) : nouts[i] = outs[i]
        /\ nouts[Len(outs) + 1] = o
    BY Appending
  <2>2. QED
    BY <1>2, <2>1
<1>5. /\ run' \in Run
      /\ run'.batch = b /\ run'.outcomes = nouts /\ run'.stop = stop
      /\ run'.seen = run.seen \cup {Item(b, n + 1).key}
      /\ run'.start = run.start /\ run'.clean = run.clean
  <2>1. Item(b, n + 1).key \in Keys
    BY <1>3, ItemType
  <2>2. run' = [run EXCEPT !.outcomes = nouts, !.stop = stop, !.seen = run.seen \cup {Item(b, n + 1).key}]
    BY <1>2, <1>3, <1>4 DEF Conclude
  <2>3. QED
    BY <1>1, <1>2, <1>3, <2>1, <2>2 DEF Run
<1>6. PICK record \in Record :
        /\ record = DatasetRecord(b, n + 1) /\ record.id = RecordId(b, n + 1)
        /\ record.id = <<record.dataset, record.item>>
        /\ record.dataset = DatasetOf[b] /\ record.batch = b
        /\ record.key = Item(b, n + 1).key /\ record.item = Item(b, n + 1).id
  BY <1>3, RecordType
<1>7. \/ /\ sink' = sink /\ Stored' = Stored /\ (o.status = "succeeded" => b \notin SinkBound)
      \/ /\ b \in SinkBound /\ o = Succeeded(record.id) /\ Takes(record)
         /\ sink' = Append(sink, record) /\ sink' \in Seq(Record)
         /\ Stored' = Stored \cup {record}
  <2>1. CASE Leaves(o)
    BY <2>1, <1>2 DEF Leaves, Stored
  <2>2. CASE Records(o)
    <3>1. b \in SinkBound /\ o = Succeeded(record.id) /\ Takes(record) /\ sink' = Append(sink, record)
      BY <2>2, <1>2, <1>3, <1>6 DEF Records
    <3>2. sink' \in Seq(Record) /\ Stored' = Stored \cup {record}
      <4>1. /\ DOMAIN sink = 1..Len(sink) /\ Len(sink) \in Nat /\ sink' \in Seq(Record)
            /\ DOMAIN sink' = 1..(Len(sink) + 1)
            /\ \A i \in 1..Len(sink) : sink'[i] = sink[i]
            /\ sink'[Len(sink) + 1] = record
        BY <3>1, Appending DEF TypeOK
      <4>2. DOMAIN sink' = DOMAIN sink \cup {Len(sink) + 1}
        BY <4>1
      <4>3. QED
        BY <4>1, <4>2 DEF Stored
    <3>3. QED
      BY <3>1, <3>2
  <2>3. QED
    BY <2>1, <2>2
<1>8. Stored \subseteq Stored' /\ \A r \in Stored' : r \in Stored \/ (r = record /\ b \in SinkBound /\ o.status = "succeeded")
  BY <1>7, OutcomeFields
<1>9. (o.status = "duplicate_skipped") <=> Repeats(b, n + 1)
  BY <1>1, <1>2, <1>3, RepeatsIsSeen DEF IsDuplicate, DedupHolds
<1>10. TypeOK'
  <2>1. sink' \in Seq(Record)
    BY <1>7 DEF TypeOK
  <2>2. Len(run'.outcomes) <= Size(run'.batch) /\ run'.stop <= Size(run'.batch)
    BY <1>3, <1>4, <1>5
  <2>3. QED
    BY <1>5, <2>1, <2>2 DEF TypeOK
<1>11. SinkHolds'
  <2>1. CASE sink' = sink /\ Stored' = Stored
    BY <2>1 DEF SinkHolds
  <2>2. CASE /\ Takes(record) /\ sink' = Append(sink, record) /\ Stored' = Stored \cup {record}
    <3>1. /\ DOMAIN sink = 1..Len(sink) /\ Len(sink) \in Nat
          /\ DOMAIN sink' = 1..(Len(sink) + 1)
          /\ \A i \in 1..Len(sink) : sink'[i] = sink[i]
          /\ sink'[Len(sink) + 1] = record
      BY <2>2, Appending DEF TypeOK
    <3>2. \A m \in DOMAIN sink : /\ sink[m].id # record.id
                               /\ <<sink[m].dataset, sink[m].key>> # <<record.dataset, record.key>>
      BY <2>2 DEF Takes, Stored
    <3>3. ASSUME NEW m \in DOMAIN sink', NEW k \in DOMAIN sink',
                 \/ sink'[m].id = sink'[k].id
                 \/ <<sink'[m].dataset, sink'[m].key>> = <<sink'[k].dataset, sink'[k].key>>
          PROVE  m = k
      <4>1. CASE m \in DOMAIN sink /\ k \in DOMAIN sink
        BY <4>1, <3>1, <3>3 DEF SinkHolds
      <4>2. CASE m = Len(sink) + 1 \/ k = Len(sink) + 1
        BY <4>2, <3>1, <3>2, <3>3
      <4>3. QED
        BY <4>1, <4>2, <3>1
    <3>4. \A r \in Stored' : r.id = <<r.dataset, r.item>>
      BY <2>2, <1>6 DEF SinkHolds
    <3>5. QED
      BY <3>3, <3>4 DEF SinkHolds
  <2>3. QED
    BY <1>7, <2>1, <2>2
<1>12. DedupHolds'
  <2>1. run'.seen = KeysBefore(b, n + 1)
    <3>1. run.seen = KeysBefore(b, n)
      BY <1>1, <1>2 DEF DedupHolds
    <3>2. QED
      BY <1>2, <1>5, <3>1, KeysGrow
  <2>2. \A i \in 1..(n + 1) : (nouts[i].status = "duplicate_skipped") <=> Repeats(b, i)
    <3>1. \A i \in 1..n : (outs[i].status = "duplicate_skipped") <=> Repeats(b, i)
      BY <1>1, <1>2, <1>4 DEF DedupHolds
    <3>2. QED
      BY <3>1, <1>2, <1>4, <1>9
  <2>3. QED
    BY <1>4, <1>5, <2>1, <2>2 DEF DedupHolds
<1>13. BackingHolds'
  <2> SUFFICES ASSUME b \in SinkBound, NEW i \in 1..(n + 1), nouts[i].status = "succeeded"
               PROVE  nouts[i].ref = RecordId(b, i) /\ DatasetRecord(b, i) \in Stored'
    BY <1>4, <1>5 DEF BackingHolds
  <2>1. CASE i \in 1..n
    <3>1. outs[i].ref = RecordId(b, i) /\ DatasetRecord(b, i) \in Stored
      BY <2>1, <1>1, <1>2, <1>4 DEF BackingHolds
    <3>2. QED
      BY <2>1, <3>1, <1>4, <1>8
  <2>2. CASE i = n + 1
    <3>1. o = Succeeded(record.id) /\ record \in Stored'
      BY <2>2, <1>4, <1>7
    <3>2. QED
      BY <2>2, <3>1, <1>4, <1>6, OutcomeFields
  <2>3. QED
    BY <2>1, <2>2, <1>2
\* Items of a batch have ids of their own.
<1>14. \A i, j \in Positions(b) : Item(b, i).id = Item(b, j).id => i = j
  BY BatchAssumption DEF Item, Positions
<1>15. NoSecondDispatch'
  <2> SUFFICES ASSUME run.start > 0, b \in SinkBound, NEW i \in Positions(b), i > n + 1,
                      NEW r \in Stored', r.dataset = DatasetOf[b], r.batch = b
               PROVE  r.item # Item(b, i).id
    BY <1>4, <1>5 DEF NoSecondDispatch, NoneWaitsRecorded, Waiting, ReadBack
  <2>1. CASE r \in Stored
    <3>1. i > n
      BY <1>2, <1>3
    <3>2. QED
      BY <2>1, <3>1, <1>1, <1>2 DEF NoSecondDispatch, NoneWaitsRecorded, Waiting, ReadBack
  <2>2. CASE r = record
    <3>1. i # n + 1
      BY <1>2, <1>3
    <3>2. QED
      BY <2>2, <3>1, <1>3, <1>6, <1>14
  <2>3. QED
    BY <2>1, <2>2, <1>8
<1>16. PromiseHolds'
  <2>1. ASSUME NEW c \in Batches, NEW e \in issued, promise[c] = e
        PROVE  e.batch = c /\ Upheld(e)'
    <3>1. e.batch = c /\ Upheld(e)
      BY <2>1 DEF PromiseHolds
    <3>2. c # b
      BY <1>1, <1>2, <2>1, NoneAssumption DEF PromiseHolds, TypeOK
    <3>3. ReadBack(c)' = ReadBack(c)
      BY <3>2, <1>6, <1>8 DEF ReadBack
    <3>4. QED
      BY <3>1, <3>3, UpheldElsewhere
  <2>2. ASSUME run.clean
        PROVE  Upheld([batch |-> run.batch, outcomes |-> run.outcomes])'
    <3>1. /\ b \in SinkBound => \A r \in ReadBack(b), i \in Positions(b) : r.item = Item(b, i).id => i <= n
          /\ \A i \in 1..n :
               /\ (outs[i].status = "duplicate_skipped") <=> Repeats(b, i)
               /\ b \notin SinkBound => outs[i].ref = None
               /\ b \in SinkBound /\ outs[i].status # "succeeded" => \A r \in ReadBack(b) : r.item # Item(b, i).id
               /\ b \in SinkBound /\ outs[i].status = "succeeded" =>
                    \E r \in ReadBack(b) : r.id = outs[i].ref /\ r.item = Item(b, i).id /\ r.key = Item(b, i).key
      BY <2>2, <1>1, <1>2, <1>4 DEF PromiseHolds, Upheld, RuntimePosition, OutcomePrefix
    <3>2. ReadBack(b) \subseteq ReadBack(b)'
      BY <1>8 DEF ReadBack
    <3>3. ASSUME b \in SinkBound, NEW r \in ReadBack(b)'
          PROVE  r \in ReadBack(b) \/ (r = record /\ o.status = "succeeded")
      BY <1>8, <3>3 DEF ReadBack
    <3>4. ASSUME b \in SinkBound, NEW r \in ReadBack(b)', NEW i \in Positions(b), r.item = Item(b, i).id
          PROVE  i <= n + 1
      BY <3>1, <3>3, <3>4, <1>2, <1>3, <1>6, <1>14
    <3>5. ASSUME NEW i \in 1..(n + 1), b \in SinkBound, nouts[i].status # "succeeded",
                 NEW r \in ReadBack(b)'
          PROVE  r.item # Item(b, i).id
      <4>1. CASE i \in 1..n /\ r \in ReadBack(b)
        BY <4>1, <3>1, <3>5, <1>4
      <4>2. CASE i = n + 1 /\ r \in ReadBack(b)
        BY <4>2, <3>1, <3>5, <1>2, <1>3
      <4>3. CASE r = record /\ o.status = "succeeded"
        <5>1. i # n + 1 /\ i \in Positions(b)
          BY <4>3, <3>5, <1>2, <1>3, <1>4
        <5>2. QED
          BY <4>3, <5>1, <1>3, <1>6, <1>14
      <4>4. QED
        BY <4>1, <4>2, <4>3, <3>3, <3>5, <1>2
    <3>6. ASSUME NEW i \in 1..(n + 1), b \in SinkBound, nouts[i].status = "succeeded"
          PROVE  \E r \in ReadBack(b)' : r.id = nouts[i].ref /\ r.item = Item(b, i).id /\ r.key = Item(b, i).key
      <4>1. CASE i \in 1..n
        BY <4>1, <3>1, <3>2, <3>6, <1>4
      <4>2. CASE i = n + 1
        <5>1. o = Succeeded(record.id) /\ record \in Stored'
          BY <4>2, <3>6, <1>4, <1>7
        <5>2. record \in ReadBack(b)'
          BY <5>1, <1>6 DEF ReadBack
        <5>3. QED
          BY <4>2, <5>1, <5>2, <1>4, <1>6, OutcomeFields
      <4>3. QED
        BY <4>1, <4>2, <1>2
    <3>7. \A i \in 1..(n + 1) :
            /\ (nouts[i].status = "duplicate_skipped") <=> Repeats(b, i)
            /\ b \notin SinkBound => nouts[i].ref = None
      BY <3>1, <1>2, <1>4, <1>9
    <3>8. QED
      BY <3>4, <3>5, <3>6, <3>7, <1>4, <1>5 DEF Upheld, RuntimePosition, OutcomePrefix
  <2>3. promise[b] = None
    BY <1>1, <1>2 DEF PromiseHolds
  <2>4. QED
    BY <2>1, <2>2, <2>3, <1>5 DEF PromiseHolds
<1>17. QED
  BY <1>10, <1>11, <1>12, <1>13, <1>15, <1>16

LEMMA ItemKeepsIInv ==
  ASSUME IInv, SkipDuplicate \/ ItemFails \/ SucceedsWithoutSink \/ SucceedsInSink
  PROVE  IInv'
<1>1. CASE SkipDuplicate
  <2>1. Leaves(DuplicateSkipped)
    BY <1>1, OutcomeFields DEF SkipDuplicate, Leaves
  <2>2. MayContinue /\ IsDuplicate /\ Conclude(DuplicateSkipped, run.stop) /\ UNCHANGED <<issued, promise>>
    BY <1>1 DEF SkipDuplicate
  <2>3. QED
    BY <2>1, <2>2, OutcomeFields, ConcludeKeepsIInv
<1>2. CASE ItemFails
  <2>1. Leaves(Failed)
    BY <1>2, OutcomeFields DEF ItemFails, Leaves
  <2>2. PICK stop \in {run.stop, Index} : Conclude(Failed, stop)
    BY <1>2 DEF ItemFails
  <2>3. MayContinue /\ ~IsDuplicate /\ UNCHANGED <<issued, promise>>
    BY <1>2 DEF ItemFails
  <2>4. QED
    BY <2>1, <2>2, <2>3, OutcomeFields, ConcludeKeepsIInv
<1>3. CASE SucceedsWithoutSink
  <2>1. Leaves(Succeeded(None))
    BY <1>3, OutcomeFields DEF SucceedsWithoutSink, Leaves
  <2>2. MayContinue /\ ~IsDuplicate /\ Conclude(Succeeded(None), run.stop) /\ UNCHANGED <<issued, promise>>
    BY <1>3 DEF SucceedsWithoutSink
  <2>3. Succeeded(None) \in Outcome /\ Succeeded(None).status = "succeeded" /\ Succeeded(None).ref = None
    BY OutcomeFields
  <2>4. QED
    BY <2>1, <2>2, <2>3, ConcludeKeepsIInv
<1>4. CASE SucceedsInSink
  <2> DEFINE ref == RecordId(run.batch, Index)
  <2>1. /\ run.batch \in Batches /\ Index \in Positions(run.batch)
    <3>1. run # None /\ run \in Run /\ Len(run.outcomes) < run.stop /\ run.stop <= Size(run.batch)
      BY <1>4 DEF SucceedsInSink, MayContinue, IInv, TypeOK
    <3>2. QED
      BY <3>1, PositionsOf DEF Run, Index
  <2>2. DatasetRecord(run.batch, Index).id = ref /\ ref \in RecordIds
    BY <2>1, RecordType
  <2>3. Records(Succeeded(ref))
    BY <1>4, <2>2 DEF SucceedsInSink, Records
  <2>4. MayContinue /\ ~IsDuplicate /\ Conclude(Succeeded(ref), run.stop) /\ UNCHANGED <<issued, promise>>
        /\ run.batch \in SinkBound
    BY <1>4, <2>2 DEF SucceedsInSink
  <2>5. Succeeded(ref) \in Outcome /\ Succeeded(ref).status = "succeeded"
    BY <2>2, OutcomeFields
  <2> HIDE DEF ref
  <2>6. QED
    BY <2>3, <2>4, <2>5, ConcludeKeepsIInv
<1>5. QED
  BY <1>1, <1>2, <1>3, <1>4

-----------------------------------------------------------------------------
(* A run ends *)

LEMMA InterruptKeepsIInv ==
  ASSUME IInv, Interrupt
  PROVE  IInv'
<1> USE DEF IInv
<1> DEFINE e == [batch |-> run.batch, outcomes |-> run.outcomes]
<1>1. run # None /\ run \in Run /\ Len(run.outcomes) < Size(run.batch)
  BY DEF Interrupt, TypeOK
<1>2. /\ issued' = issued \cup {e} /\ run' = None /\ sink' = sink
      /\ promise' = [promise EXCEPT ![run.batch] = IF run.clean THEN e ELSE None]
  BY DEF Interrupt
<1>3. e \in Envelope /\ e.batch = run.batch /\ run.batch \in Batches /\ Len(e.outcomes) < Size(e.batch)
  BY <1>1 DEF Run, Envelope
<1>4. Stored' = Stored /\ \A b : ReadBack(b)' = ReadBack(b)
  BY <1>2 DEF Stored, ReadBack
<1>5. run.clean => Upheld(e)
  BY <1>1 DEF PromiseHolds
<1> HIDE DEF e
<1>6. TypeOK'
  BY <1>2, <1>3 DEF TypeOK
<1>7. SinkHolds' /\ DedupHolds' /\ BackingHolds' /\ NoSecondDispatch'
  BY <1>2, <1>4 DEF SinkHolds, DedupHolds, BackingHolds, NoSecondDispatch
<1>8. PromiseHolds'
  <2>1. ASSUME NEW b \in Batches, NEW f \in issued', promise'[b] = f
        PROVE  f.batch = b /\ Upheld(f)
    <3>1. f # None
      BY <1>2, <1>3, NoneAssumption DEF TypeOK
    <3>2. CASE b = run.batch
      BY <2>1, <3>1, <3>2, <1>2, <1>3, <1>5 DEF TypeOK
    <3>3. CASE b # run.batch
      <4>1. promise[b] = f
        BY <2>1, <3>3, <1>2 DEF TypeOK
      <4>2. f \in issued
        BY <4>1, <3>1 DEF TypeOK
      <4>3. QED
        BY <4>1, <4>2 DEF PromiseHolds
    <3>4. QED
      BY <3>2, <3>3
  <2>2. \A f : Upheld(f) => Upheld(f)'
    BY <1>4, UpheldElsewhere
  <2>3. QED
    BY <1>2, <2>1, <2>2 DEF PromiseHolds
<1>9. QED
  BY <1>6, <1>7, <1>8

LEMMA EndKeepsIInv ==
  ASSUME IInv, Finish \/ Abort
  PROVE  IInv'
<1> USE DEF IInv
<1>1. run' = None /\ UNCHANGED <<sink, issued, promise>>
  BY DEF Finish, Abort
<1>2. Stored' = Stored /\ \A b : ReadBack(b)' = ReadBack(b)
  BY <1>1 DEF Stored, ReadBack
<1>3. \A f : Upheld(f) => Upheld(f)'
  BY <1>2, UpheldElsewhere
<1>4. PromiseHolds'
  BY <1>1, <1>3 DEF PromiseHolds
<1>5. QED
  BY <1>1, <1>2, <1>4 DEF TypeOK, SinkHolds, DedupHolds, BackingHolds, NoSecondDispatch

LEMMA LoseSinkKeepsIInv ==
  ASSUME IInv, LoseSink
  PROVE  IInv'
<1> USE DEF IInv
<1>1. sink' = <<>> /\ run' = None /\ promise' = [b \in Batches |-> None] /\ issued' = issued
  BY DEF LoseSink
<1>2. Stored' = {}
  BY <1>1 DEF Stored
<1>3. TypeOK'
  BY <1>1 DEF TypeOK
<1>4. PromiseHolds'
  BY <1>1, NoneAssumption DEF PromiseHolds, TypeOK
<1>5. QED
  BY <1>1, <1>2, <1>3, <1>4 DEF SinkHolds, DedupHolds, BackingHolds, NoSecondDispatch

-----------------------------------------------------------------------------
(* Invariants *)

LEMMA InitIInv == Init => IInv
<1> SUFFICES ASSUME Init PROVE IInv
  OBVIOUS
<1>1. sink = <<>> /\ run = None /\ issued = {} /\ promise = [b \in Batches |-> None]
  BY DEF Init
<1>2. Stored = {}
  BY <1>1 DEF Stored
<1>3. TypeOK
  BY <1>1 DEF TypeOK
<1>4. QED
  BY <1>1, <1>2, <1>3 DEF IInv, SinkHolds, DedupHolds, BackingHolds, NoSecondDispatch, PromiseHolds

LEMMA NextIInv == IInv /\ [Next]_vars => IInv'
<1> SUFFICES ASSUME IInv, [Next]_vars PROVE IInv'
  OBVIOUS
<1>1. CASE \E b \in Batches : Start(b)
  BY <1>1, StartKeepsIInv
<1>2. CASE \E e \in issued : Resume(e)
  BY <1>2, ResumeKeepsIInv
<1>3. CASE SkipDuplicate \/ ItemFails \/ SucceedsWithoutSink \/ SucceedsInSink
  BY <1>3, ItemKeepsIInv
<1>4. CASE Interrupt
  BY <1>4, InterruptKeepsIInv
<1>5. CASE Finish \/ Abort
  BY <1>5, EndKeepsIInv
<1>6. CASE LoseSink
  BY <1>6, LoseSinkKeepsIInv
<1>7. CASE UNCHANGED vars
  BY <1>7 DEF vars, IInv, TypeOK, SinkHolds, DedupHolds, BackingHolds, NoSecondDispatch, NoneWaitsRecorded,
              Waiting, PromiseHolds, Upheld, RuntimePosition, OutcomePrefix, ReadBack, Stored
<1>8. QED
  BY <1>1, <1>2, <1>3, <1>4, <1>5, <1>6, <1>7 DEF Next

\* The inductive invariant holds in every run of batches.
THEOREM Invariance == Spec => []IInv
<1>1. QED
  BY InitIInv, NextIInv, PTL DEF Spec

\* Every variable keeps its type, no outcome is appended beyond the target set, and an
\* envelope with a token has items left.
THEOREM TypeCorrectness == Spec => []TypeOK
<1>1. IInv => TypeOK
  BY DEF IInv
<1>2. QED
  BY <1>1, Invariance, PTL

\* First wins, in the sink and in every run, resumed or not.
THEOREM FirstAlwaysWins == Spec => []FirstWins
<1>1. IInv => FirstWins
  BY DEF IInv, SinkHolds, DedupHolds, FirstWins
<1>2. QED
  BY <1>1, Invariance, PTL

\* A batch that was resumed dispatches no item that the sink has a record of.
THEOREM DispatchesOnce == Spec => []NoSecondDispatch
<1>1. IInv => NoSecondDispatch
  BY DEF IInv
<1>2. QED
  BY <1>1, Invariance, PTL

\* The last envelope of a batch keeps being accepted, whatever other batches do
\* to the sink.
THEOREM PromiseIsKept == Spec => []PromiseKept
<1>1. IInv => PromiseKept
  <2> SUFFICES ASSUME IInv, NEW b \in Batches, promise[b] # None
               PROVE  Accepts(promise[b], TRUE)
    BY DEF PromiseKept
  <2>1. promise[b] \in issued
    BY DEF IInv, TypeOK
  <2>2. Upheld(promise[b])
    BY <2>1 DEF IInv, PromiseHolds
  <2>3. QED
    BY <2>2 DEF Upheld, Accepts
<1>2. QED
  BY <1>1, Invariance, PTL

\* Every item has a first one with its key, which is no repetition.
LEMMA FirstOfKey ==
  ASSUME NEW b \in Batches, NEW i \in Positions(b)
  PROVE  \E j \in Positions(b) : j <= i /\ Item(b, j).key = Item(b, i).key /\ ~Repeats(b, j)
<1> DEFINE Same == {j \in Nat : j \in 1..i /\ Item(b, j).key = Item(b, i).key}
           Less == OpToRel(<, Nat)
<1>1. i \in Nat /\ Positions(b) = 1..Size(b) /\ Size(b) \in Nat /\ i \in Same
  BY PositionsOf
<1>2. IsWellFoundedOn(Less, Nat)
  BY NatLessThanWellFounded
<1> HIDE DEF Same, Less
<1>3. Same \subseteq Nat /\ Same # {}
  BY <1>1 DEF Same
<1>4. PICK j \in Same : \A k \in Same : <<k, j>> \notin Less
  BY <1>2, <1>3, WFMin
<1>5. \A k \in Same : ~(k < j)
  BY <1>3, <1>4 DEF Less, OpToRel
<1>6. j \in Positions(b) /\ j <= i /\ Item(b, j).key = Item(b, i).key
  BY <1>1 DEF Same
<1>7. ~Repeats(b, j)
  BY <1>1, <1>5, <1>6 DEF Repeats, Same
<1>8. QED
  BY <1>6, <1>7

\* Each success of a run has its record in the sink as it is now, and a batch reported
\* complete has one for the key of every item.
THEOREM SuccessAlwaysRecorded == Spec => []SuccessIsRecorded
<1>1. IInv => SuccessIsRecorded
  <2> SUFFICES ASSUME IInv, run # None, run.batch \in SinkBound
               PROVE  /\ \A i \in WithStatus(run.outcomes, "succeeded") :
                           \E r \in Stored : r = DatasetRecord(run.batch, i) /\ r.id = run.outcomes[i].ref
                      /\ AllDone /\ Aggregate(run.outcomes) = "complete" =>
                           \A i \in Positions(run.batch) :
                             \E r \in ReadBack(run.batch) : r.key = Item(run.batch, i).key
    BY DEF SuccessIsRecorded
  <2> USE DEF IInv
  <2>1. /\ run.batch \in Batches /\ run.outcomes \in Seq(Outcome) /\ Len(run.outcomes) \in Nat
        /\ DOMAIN run.outcomes = 1..Len(run.outcomes)
    BY DEF TypeOK, Run
  <2>2. \A i \in DOMAIN run.outcomes : run.outcomes[i].status = "succeeded" =>
          /\ run.outcomes[i].ref = RecordId(run.batch, i)
          /\ DatasetRecord(run.batch, i) \in Stored
    BY DEF BackingHolds
  <2>3. \A i \in WithStatus(run.outcomes, "succeeded") :
          \E r \in Stored : r = DatasetRecord(run.batch, i) /\ r.id = run.outcomes[i].ref
    BY <2>2 DEF WithStatus, DatasetRecord
  <2>4. ASSUME AllDone, Aggregate(run.outcomes) = "complete", NEW i \in Positions(run.batch)
        PROVE  \E r \in ReadBack(run.batch) : r.key = Item(run.batch, i).key
    <3>1. PICK j \in Positions(run.batch) : Item(run.batch, j).key = Item(run.batch, i).key /\ ~Repeats(run.batch, j)
      BY <2>1, FirstOfKey
    <3>2. j \in DOMAIN run.outcomes
      BY <2>1, <2>4, PositionsOf DEF AllDone
    <3>3. run.outcomes[j].status # "duplicate_skipped"
      BY <3>1, <3>2 DEF DedupHolds
    <3>4. run.outcomes[j].status # "failed"
      BY <2>4, <3>2 DEF Aggregate, WithStatus
    <3>5. run.outcomes[j].status = "succeeded"
      BY <2>1, <3>2, <3>3, <3>4, ElementOfSeq, OutcomeFields
    <3>6. DatasetRecord(run.batch, j) \in Stored
      BY <2>2, <3>2, <3>5
    <3>7. DatasetRecord(run.batch, j) \in ReadBack(run.batch)
      BY <2>1, <3>6, RecordType DEF ReadBack
    <3>8. QED
      BY <2>1, <3>1, <3>7, RecordType
  <2>5. QED
    BY <2>3, <2>4
<1>2. QED
  BY <1>1, Invariance, PTL
=============================================================================
