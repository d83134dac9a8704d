-------------------------- MODULE TaskRecordStoreProofs --------------------------
(***************************************************************************)
(* Proofs about TaskRecordStore, for any number of submissions of the task  *)
(* id whose writes overlap in any way, any envelopes, any sets of observed   *)
(* entries and any clock.  What a submission may rely on holds until a       *)
(* write is lost, as TaskRecordStore defines it.                            *)
(***************************************************************************)
EXTENDS TaskRecordStore, TLAPS

-----------------------------------------------------------------------------
(* The inductive invariant *)

\* What every record is that passed validate_task_record.
WellFormed(r) ==
  /\ r \in TaskRecord
  /\ Validates(r)
  /\ IsTerminal(r) => r.result \in Terminals
  /\ r.status = "succeeded" => r.result \in Successes

\* What a load that finds the record r answers.
Told(r) == IF IsTerminal(r) THEN r.result ELSE r.status

HasRecord == file \notin {Absent, Poison}
Invalidated == marker \/ file = Poison

\* Records are well formed wherever they are, and a submission works on its own request.
RecordsHold ==
  /\ HasRecord => WellFormed(file)
  /\ \A s \in Submissions : mine[s] # Absent => WellFormed(mine[s]) /\ mine[s].request = request[s]

\* The stage a submission is about to leave is the stage of its record.
StagesHold ==
  \A s \in Submissions :
    /\ pc[s] \notin {"idle", "done"} => mine[s] # Absent
    /\ At(s, "start") => mine[s].status = "accepted"
    /\ At(s, "execute") => mine[s].status = "running"

\* Unless the history is invalid or a write was lost, a dispatched submission has its
\* request on file.
DispatchHolds ==
  ~lost => \A s \in Submissions : At(s, "execute") =>
    Invalidated \/ (HasRecord /\ file.request = request[s] /\ file.status # "accepted")

\* Who answered success has an envelope of success, and it is on file unless the
\* history is invalid or a write was lost.
SuccessHolds ==
  \A s \in Submissions : reply[s] = "success" =>
    /\ At(s, "done") /\ mine[s] # Absent /\ mine[s].status = "succeeded"
    /\ lost \/ Invalidated \/ (HasRecord /\ IsTerminal(file) /\ file.result = mine[s].result)

\* The history variable has the present truth; and of a load that found no marker,
\* what the file says now, also when a marker has appeared since.
LoadHolds ==
  /\ Truth \in seen
  /\ reader \in {"exists", "read"} /\ HasRecord /\ ~lost => Told(file) \in seen

IInv ==
  /\ TypeOK
  /\ RecordsHold
  /\ StagesHold
  /\ DispatchHolds
  /\ SuccessHolds
  /\ LoadHolds

-----------------------------------------------------------------------------
(* Records *)

\* Neither of the two special files is a record, and each differs from the other.
LEMMA NoRecord ==
  /\ Absent # Poison
  /\ \A r \in TaskRecord : r # Absent /\ r # Poison /\ r.status \in Statuses
BY DEF Absent, Poison, TaskRecord, Statuses

\* create_task_record builds a well-formed record.
LEMMA AcceptedIsWellFormed ==
  ASSUME NEW q \in Requests, NEW t \in Times
  PROVE  WellFormed(Accepted(q, t)) /\ Accepted(q, t).request = q
BY StoreAssumption DEF WellFormed, Accepted, Validates, IsTerminal, TaskRecord, Statuses, Times, Terminals

\* start_task_record does, when its log is in order.
LEMMA StartedIsWellFormed ==
  ASSUME NEW r, WellFormed(r), NEW t \in Times, Validates(Started(r, t))
  PROVE  WellFormed(Started(r, t)) /\ Started(r, t).request = r.request
<1> DEFINE n == Started(r, t)
<1>1. r \in TaskRecord
  BY DEF WellFormed
<1>2. Append(r.times, t) \in Seq(Times)
  BY <1>1 DEF TaskRecord
<1>3. n.status = "running" /\ n.request = r.request
  BY <1>1 DEF Started, TaskRecord
<1>4. n \in TaskRecord
  BY <1>1, <1>2 DEF Started, TaskRecord, Statuses
<1>5. QED
  BY <1>3, <1>4 DEF WellFormed, IsTerminal

\* finish_task_record does, when its log is in order.
LEMMA FinishedIsWellFormed ==
  ASSUME NEW r, WellFormed(r), NEW t \in Times, NEW result \in Terminals, NEW obs \in ObservabilityOf,
         Validates(Finished(r, t, result, obs))
  PROVE  /\ WellFormed(Finished(r, t, result, obs))
         /\ Finished(r, t, result, obs).request = r.request
<1> DEFINE n == Finished(r, t, result, obs)
<1>1. r \in TaskRecord /\ obs \in SUBSET Entries
  BY DEF WellFormed, Entries
<1>2. Append(r.times, t) \in Seq(Times)
  BY <1>1 DEF TaskRecord
<1>3. /\ n.status = IF result \in Successes THEN "succeeded" ELSE "failed"
      /\ n.request = r.request
      /\ n.result = result
  BY <1>1 DEF Finished, TaskRecord
<1>4. n \in TaskRecord
  BY <1>1, <1>2 DEF Finished, TaskRecord, Statuses
<1>5. QED
  BY <1>3, <1>4 DEF WellFormed, IsTerminal

\* What may come after the record existing: one of the same request that says as much
\* or a stage more, and never past a terminal result.
Follows(existing, record) ==
  \/ existing = Absent /\ record.status = "accepted"
  \/ record = existing
  \/ /\ existing # Absent /\ record.request = existing.request
     /\ \/ existing.status = "accepted" /\ record.status \in {"accepted", "running"}
        \/ existing.status = "running" /\ IsTerminal(record)
        \/ /\ IsTerminal(existing)
           /\ record.status = existing.status /\ record.result = existing.result
           /\ existing.obs \subseteq record.obs

\* reconcile_persisted_record never goes back, whether the record on file is kept or
\* the incoming one replaces it.
LEMMA ReconcilesFacts ==
  ASSUME NEW existing, NEW incoming, WellFormed(incoming),
         existing = Absent \/ WellFormed(existing),
         Reconciles(existing, incoming)
  PROVE  /\ Follows(existing, incoming)
         /\ existing # Absent => incoming.request = existing.request
<1>1. incoming \in TaskRecord /\ incoming.status \in Statuses
  BY NoRecord DEF WellFormed
<1>2. CASE existing = Absent
  BY <1>2, <1>1, NoRecord DEF Reconciles, Follows, Resubmits, IsTerminal, Absent
<1>3. CASE existing # Absent /\ WellFormed(existing)
  <2>1. existing \in TaskRecord /\ existing.status \in Statuses
    BY <1>3, NoRecord DEF WellFormed
  <2>2. CASE Resubmits(existing, incoming)
    BY <2>2, <1>3 DEF Resubmits, Follows
  <2>3. CASE existing.status = "accepted" /\ incoming.status = "running" /\ Continues(existing, incoming)
    BY <2>3, <1>3 DEF Follows, Continues
  <2>4. CASE existing.status = "running" /\ incoming = existing
    BY <2>4, <1>3 DEF Follows
  <2>5. CASE existing.status = "running" /\ IsTerminal(incoming) /\ Continues(existing, incoming)
    BY <2>5, <1>3 DEF Follows, Continues
  <2>6. CASE /\ IsTerminal(existing) /\ [incoming EXCEPT !.obs = existing.obs] = existing
             /\ ObservabilityMerges(existing, incoming)
    <3>1. /\ incoming.status = existing.status
          /\ incoming.request = existing.request
          /\ incoming.result = existing.result
      BY <2>6, <2>1, <1>1 DEF TaskRecord
    <3>2. existing.obs \subseteq incoming.obs
      BY <2>6 DEF ObservabilityMerges
    <3>3. QED
      BY <3>1, <3>2, <2>6, <1>3 DEF Follows
  <2>7. QED
    BY <2>2, <2>3, <2>4, <2>5, <2>6, <1>3 DEF Reconciles
<1>4. QED
  BY <1>2, <1>3

-----------------------------------------------------------------------------
(* Steps *)

Truths == {"none", "accepted", "running", "invalid"} \cup Terminals
Points == {"idle", "write", "look", "read", "replace", "start", "execute",
           "mark", "move", "poison", "done"}

\* What Next says of the history variable.
Observes == seen' = (IF reader = "idle" THEN {} ELSE seen) \cup {Truth'}

\* The files stay, or what they said is gone for good.
KeepsOrInvalidates ==
  /\ marker' \in BOOLEAN
  /\ marker => marker'
  /\ file' = file \/ file' = Poison \/ (file' = Absent /\ marker')

LEMMA TruthIsTruth ==
  ASSUME file' \in {Absent, Poison} \/ WellFormed(file')
  PROVE  Truth' \in Truths
BY NoRecord DEF Truth, Truths, WellFormed, IsTerminal, Statuses

LEMMA LoadStep ==
  ASSUME LoadHolds, Observes, 
         lost => lost',
         reader' \in {"exists", "read"} /\ HasRecord' /\ ~lost' =>
           ~marker' \/ (file' = file /\ reader \in {"exists", "read"})
  PROVE  LoadHolds'
<1>1. Truth' \in seen'
  BY DEF Observes
<1>2. ASSUME reader' \in {"exists", "read"}, HasRecord', ~lost'
      PROVE  Told(file') \in seen'
  <2>1. CASE ~marker'
    <3>1. Truth' = Told(file')
      BY <2>1, <1>2 DEF Truth, HasRecord, Told
    <3>2. QED
      BY <3>1, <1>1
  <2>2. CASE file' = file /\ reader \in {"exists", "read"}
    <3>1. Told(file) \in seen
      BY <2>2, <1>2 DEF LoadHolds, HasRecord
    <3>2. QED
      BY <3>1, <2>2 DEF Observes
  <2>3. QED
    BY <1>2, <2>1, <2>2
<1>3. QED
  BY <1>1, <1>2 DEF LoadHolds

\* A step of submission s to the point "to" with the record r that dispatches
\* nothing, reports no success and puts nothing new on file.
Aside(s, to, r) ==
  /\ pc[s] # "done" /\ to \in Points \ {"execute"} /\ GoTo(s, to)
  /\ mine' = [mine EXCEPT ![s] = r]
  /\ r = mine[s] \/ (WellFormed(r) /\ r.request = request[s])
  /\ to \in {"idle", "done"} \/ r # Absent
  /\ to = "start" => r.status = "accepted"
  /\ reply' = reply \/ reply' = [reply EXCEPT ![s] = "failed"]
  /\ KeepsOrInvalidates
  /\ UNCHANGED <<request, query, lost>>

LEMMA StepAside ==
  ASSUME IInv, Observes, NEW s \in Submissions, NEW to, NEW r, Aside(s, to, r)
  PROVE  IInv'
<1> USE DEF IInv, Aside
<1>1. /\ pc' \in [Submissions -> Points] /\ pc'[s] = to
      /\ \A p \in Submissions \ {s} : pc'[p] = pc[p]
  BY DEF TypeOK, GoTo, Points
<1>2. /\ mine' \in [Submissions -> TaskRecord \cup {Absent}] /\ mine'[s] = r
      /\ \A p \in Submissions \ {s} : mine'[p] = mine[p]
  BY DEF TypeOK, WellFormed
<1>3. /\ reply' \in [Submissions -> {None, "success", "failed"}]
      /\ \A p \in Submissions : reply'[p] = "success" => reply[p] = "success"
  BY DEF TypeOK
<1>4. reply[s] # "success"
  BY DEF SuccessHolds, At
<1>5. /\ file' \in TaskRecord \cup {Absent, Poison}
      /\ HasRecord' => HasRecord /\ file' = file
      /\ Invalidated => Invalidated'
      /\ HasRecord => HasRecord' \/ Invalidated'
  BY DEF KeepsOrInvalidates, TypeOK, HasRecord, Invalidated
<1>6. RecordsHold'
  BY <1>2, <1>5 DEF RecordsHold, query
<1>7. TypeOK'
  <2>1. Truth' \in Truths
    BY <1>5, <1>6, TruthIsTruth DEF RecordsHold, HasRecord
  <2>2. seen' \subseteq Truths
    BY <2>1 DEF Observes, TypeOK, Truths
  <2>3. marker' \in BOOLEAN
    BY DEF KeepsOrInvalidates
  <2>4. HasRecord' => \A i, j \in DOMAIN file'.times : i < j => file'.times[i] <= file'.times[j]
    BY <1>6 DEF RecordsHold, WellFormed, Validates
  <2>5. UNCHANGED <<request, reader, answer>>
    BY DEF query
  <2>6. QED
    BY <1>1, <1>2, <1>3, <1>5, <2>2, <2>3, <2>4, <2>5 DEF TypeOK, Points, Truths, HasRecord
<1>8. StagesHold'
  BY <1>1, <1>2 DEF StagesHold, At
<1>9. DispatchHolds'
  BY <1>1, <1>5 DEF DispatchHolds, At
<1>10. SuccessHolds'
  BY <1>1, <1>2, <1>3, <1>4, <1>5 DEF SuccessHolds, At
<1>11. LoadHolds'
  <2>1. HasRecord' => file' = file
    BY <1>5
  <2>2. QED
    BY <2>1, LoadStep DEF query
<1>12. QED
  BY <1>6, <1>7, <1>8, <1>9, <1>10, <1>11

-----------------------------------------------------------------------------
(* A submission *)

LEMMA CreateKeepsIInv ==
  ASSUME IInv, Observes, UNCHANGED lost, NEW s \in Submissions, Create(s)
  PROVE  IInv'
<1>1. PICK t \in Times : mine' = [mine EXCEPT ![s] = Accepted(request[s], t)]
  BY DEF Create
<1>2. request[s] \in Requests
  BY DEF IInv, TypeOK
<1>3. WellFormed(Accepted(request[s], t)) /\ Accepted(request[s], t).request = request[s]
  BY <1>2, AcceptedIsWellFormed
<1>4. Accepted(request[s], t) # Absent
  BY <1>3, NoRecord DEF WellFormed
<1>5. KeepsOrInvalidates
  BY DEF Create, durable, KeepsOrInvalidates, IInv, TypeOK
<1>6. Aside(s, "write", Accepted(request[s], t))
  BY <1>1, <1>3, <1>4, <1>5 DEF Create, At, Points, Aside
<1>7. QED
  BY <1>6, StepAside

\* A write that ends with the record on file: the one that was there, or one put in
\* its place.  Unless it is lost, it follows what was there.
Ends(s, record) ==
  /\ pc[s] \in {"read", "replace"} /\ Stored(s, record) /\ file' = record
  /\ WellFormed(record) /\ record.request = request[s]
  /\ lost' \in BOOLEAN /\ (lost => lost')
  /\ ~lost' => Follows(file, record) /\ (record = file \/ ~Invalidated)
  /\ UNCHANGED <<request, marker, query>>

LEMMA EndsKeepsIInv ==
  ASSUME IInv, Observes, NEW s \in Submissions, NEW record, Ends(s, record)
  PROVE  IInv'
<1> USE DEF IInv
<1>1. pc[s] \in {"read", "replace"} /\ reply[s] # "success"
  BY DEF Ends, SuccessHolds, At
<1>2. file = Absent \/ file = Poison \/ (HasRecord /\ WellFormed(file))
  BY DEF RecordsHold, HasRecord
<1>3. /\ file' = record /\ WellFormed(record) /\ record.request = request[s]
      /\ lost' \in BOOLEAN /\ (lost => lost')
      /\ ~lost' => Follows(file, record) /\ (record = file \/ ~Invalidated)
      /\ marker \in BOOLEAN /\ marker' = marker
      /\ mine' = [mine EXCEPT ![s] = record]
      /\ UNCHANGED <<request, query>>
  BY DEF Ends, Stored, TypeOK
<1>5. record \in TaskRecord /\ record # Absent /\ record # Poison /\ record.status \in Statuses
  BY <1>3, NoRecord DEF WellFormed
<1>6. \/ /\ IsTerminal(record) /\ pc' = [pc EXCEPT ![s] = "done"]
         /\ reply' = [reply EXCEPT ![s] = IF record.status = "succeeded" THEN "success" ELSE "failed"]
      \/ record.status = "accepted" /\ pc' = [pc EXCEPT ![s] = "start"] /\ reply' = reply
      \/ record.status = "running" /\ pc' = [pc EXCEPT ![s] = "execute"] /\ reply' = reply
  <2>1. CASE IsTerminal(record)
    BY <2>1 DEF Ends, Stored, Answer, GoTo
  <2>2. CASE ~IsTerminal(record)
    <3>1. record.status \in {"accepted", "running"}
      BY <2>2, <1>5 DEF IsTerminal, Statuses
    <3>2. pc' = [pc EXCEPT ![s] = NextStage[record.status]] /\ reply' = reply
      BY <2>2 DEF Ends, Stored, GoTo
    <3>3. NextStage["accepted"] = "start" /\ NextStage["running"] = "execute"
      BY DEF NextStage
    <3>4. QED
      BY <3>1, <3>2, <3>3
  <2>3. QED
    BY <2>1, <2>2
<1>7. HasRecord' /\ (Invalidated' <=> marker)
  BY <1>3, <1>5 DEF HasRecord, Invalidated
<1>8. mine'[s] = record /\ \A p \in Submissions \ {s} : mine'[p] = mine[p]
  BY <1>3 DEF TypeOK
<1>9. RecordsHold'
  BY <1>3, <1>8 DEF RecordsHold
<1>10. TypeOK'
  <2>1. Truth' \in Truths
    BY <1>3, TruthIsTruth
  <2>2. seen' \subseteq Truths
    BY <2>1 DEF Observes, TypeOK, Truths
  <2>3. \A i, j \in DOMAIN file'.times : i < j => file'.times[i] <= file'.times[j]
    BY <1>3 DEF WellFormed, Validates
  <2>4. pc' \in [Submissions -> Points] /\ reply' \in [Submissions -> {None, "success", "failed"}]
    BY <1>6 DEF TypeOK, Points
  <2>5. mine' \in [Submissions -> TaskRecord \cup {Absent}]
    BY <1>3, <1>5 DEF TypeOK
  <2>6. QED
    BY <1>3, <1>5, <2>2, <2>3, <2>4, <2>5 DEF TypeOK, Points, Truths, query
<1>11. StagesHold'
  BY <1>5, <1>6, <1>8 DEF StagesHold, At, TypeOK, IsTerminal
<1>12. DispatchHolds'
  <2> SUFFICES ASSUME ~lost', NEW p \in Submissions, At(p, "execute")', ~marker
               PROVE  file'.request = request[p] /\ file'.status # "accepted"
    BY <1>3, <1>7 DEF DispatchHolds
  <2>1. CASE p = s
    BY <2>1, <1>3, <1>6 DEF At, TypeOK, IsTerminal
  <2>2. CASE p # s
    <3>1. At(p, "execute")
      BY <2>2, <1>6 DEF At, TypeOK
    <3>2. ~Invalidated
      BY <1>3, <1>5 DEF Invalidated
    <3>3. HasRecord /\ file.request = request[p] /\ file.status # "accepted"
      BY <3>1, <3>2, <1>3 DEF DispatchHolds
    <3>4. record.request = file.request /\ record.status # "accepted"
      BY <3>3, <1>3 DEF Follows, IsTerminal, HasRecord
    <3>5. QED
      BY <3>3, <3>4, <1>3
  <2>3. QED
    BY <2>1, <2>2
<1>13. SuccessHolds'
  <2> SUFFICES ASSUME NEW p \in Submissions, reply'[p] = "success"
               PROVE  /\ At(p, "done")' /\ mine'[p] # Absent /\ mine'[p].status = "succeeded"
                      /\ lost' \/ marker \/ (IsTerminal(file') /\ file'.result = mine'[p].result)
    BY <1>7 DEF SuccessHolds
  <2>1. CASE p = s
    <3>1. IsTerminal(record) /\ record.status = "succeeded" /\ pc'[s] = "done"
      BY <2>1, <1>1, <1>6 DEF TypeOK, IsTerminal
    <3>2. QED
      BY <2>1, <3>1, <1>3, <1>5, <1>8 DEF At
  <2>2. CASE p # s
    <3>1. reply[p] = "success" /\ pc'[p] = pc[p] /\ mine'[p] = mine[p]
      BY <2>2, <1>6, <1>8 DEF TypeOK
    <3>2. At(p, "done") /\ mine[p] # Absent /\ mine[p].status = "succeeded"
      BY <3>1 DEF SuccessHolds
    <3>3. ASSUME ~lost', ~marker
          PROVE  IsTerminal(file') /\ file'.result = mine'[p].result
      <4>1. ~lost /\ ~Invalidated
        BY <3>3, <1>3, <1>5 DEF Invalidated
      <4>2. HasRecord /\ IsTerminal(file) /\ file.result = mine[p].result
        BY <4>1, <3>1 DEF SuccessHolds
      <4>3. IsTerminal(record) /\ record.result = file.result
        BY <3>3, <4>2, <1>3 DEF Follows, IsTerminal, HasRecord
      <4>4. QED
        BY <4>2, <4>3, <3>1, <1>3
    <3>4. QED
      BY <3>1, <3>2, <3>3 DEF At
  <2>3. QED
    BY <2>1, <2>2
<1>14. LoadHolds'
  <2>1. ~lost' => ~marker' \/ file' = file
    BY <1>3 DEF Invalidated
  <2>2. UNCHANGED reader
    BY <1>3 DEF query
  <2>3. QED
    BY <2>1, <2>2, <1>3, LoadStep
<1>15. QED
  BY <1>9, <1>10, <1>11, <1>12, <1>13, <1>14

\* The steps of a write that do not end it, or end it with a failure.
LEMMA WriteStepsKeepIInv ==
  ASSUME IInv, Observes, UNCHANGED lost, NEW s \in Submissions,
         \/ CheckInvalid(s) \/ LookForExisting(s) \/ ReplaceFails(s)
         \/ ReadExisting(s) /\ mine' = mine /\ GoTo(s, "mark") /\ UNCHANGED reply
         \/ ReadExisting(s) /\ mine' = mine /\ GoTo(s, "replace") /\ UNCHANGED reply
         \/ ReadExisting(s) /\ mine' = mine /\ Answer(s, "failed")
  PROVE  IInv'
<1>1. KeepsOrInvalidates /\ UNCHANGED <<request, query>>
  BY DEF CheckInvalid, LookForExisting, ReplaceFails, ReadExisting, durable, KeepsOrInvalidates, IInv, TypeOK
<1>2. mine' = [mine EXCEPT ![s] = mine[s]]
  BY DEF CheckInvalid, LookForExisting, ReplaceFails, Conflict, Failure, IInv, TypeOK
<1>3. pc[s] \in {"write", "look", "read", "replace"} /\ mine[s] # Absent
  BY DEF CheckInvalid, LookForExisting, ReplaceFails, ReadExisting, At, IInv, StagesHold
<1>4. PICK to \in {"look", "read", "replace", "mark", "done"} :
        GoTo(s, to) /\ (reply' = reply \/ reply' = [reply EXCEPT ![s] = "failed"])
  BY DEF CheckInvalid, LookForExisting, ReplaceFails, Conflict, Failure, Answer
<1>5. Aside(s, to, mine[s])
  BY <1>1, <1>2, <1>3, <1>4 DEF Points, Aside
<1>6. QED
  BY <1>5, StepAside

\* A write of what is there already ends without a replace.
LEMMA ReadEnds ==
  ASSUME IInv, UNCHANGED lost, NEW s \in Submissions, At(s, "read"),
         file \notin {Absent, Poison}, Reconciles(file, mine[s]),
         Candidate(file, mine[s]) = file, Stored(s, file),
         UNCHANGED <<request, durable, query>>
  PROVE  Ends(s, file)
<1>1. WellFormed(file) /\ WellFormed(mine[s]) /\ mine[s].request = request[s]
  BY DEF IInv, RecordsHold, StagesHold, HasRecord, At
<1>2. file.request = request[s]
  BY <1>1, ReconcilesFacts
<1>3. QED
  BY <1>1, <1>2 DEF Ends, Follows, At, durable, IInv, TypeOK

LEMMA ReadExistingKeepsIInv ==
  ASSUME IInv, Observes, UNCHANGED lost, NEW s \in Submissions, ReadExisting(s)
  PROVE  IInv'
<1>1. CASE Failure(s)
  BY <1>1, WriteStepsKeepIInv DEF Failure
<1>2. CASE Conflict(s)
  BY <1>2, WriteStepsKeepIInv DEF Conflict
<1>3. CASE /\ file \notin {Absent, Poison} /\ Reconciles(file, mine[s])
           /\ Candidate(file, mine[s]) = file /\ Stored(s, file)
  <2>1. Ends(s, file)
    BY <1>3, ReadEnds DEF ReadExisting
  <2>2. QED
    BY <2>1, EndsKeepsIInv
<1>4. CASE GoTo(s, "replace") /\ UNCHANGED <<mine, reply>>
  BY <1>4, WriteStepsKeepIInv
<1>5. QED
  BY <1>1, <1>2, <1>3, <1>4 DEF ReadExisting

\* os.replace ends the write; unless it overtakes another submission, it follows
\* the record that is there by now.
LEMMA ReplaceEnds ==
  ASSUME IInv, NEW s \in Submissions, Replace(s)
  PROVE  Ends(s, mine[s])
<1>1. WellFormed(mine[s]) /\ mine[s].request = request[s]
  BY DEF Replace, At, IInv, StagesHold, RecordsHold
<1>2. lost' = (lost \/ Overtaken(s)) /\ lost \in BOOLEAN
  BY DEF Replace, IInv, TypeOK
<1>3. ASSUME ~Overtaken(s)
      PROVE  Follows(file, mine[s]) /\ ~Invalidated
  <2>1. ~Invalidated /\ Reconciles(file, mine[s])
    BY <1>3 DEF Overtaken, Invalidated
  <2>2. file = Absent \/ WellFormed(file)
    BY <2>1 DEF IInv, RecordsHold, HasRecord, Invalidated
  <2>3. QED
    BY <2>1, <2>2, <1>1, ReconcilesFacts
<1>4. QED
  BY <1>1, <1>2, <1>3 DEF Replace, At, Ends

LEMMA StartKeepsIInv ==
  ASSUME IInv, Observes, UNCHANGED lost, NEW s \in Submissions, Start(s)
  PROVE  IInv'
<1>1. KeepsOrInvalidates
  BY DEF Start, durable, KeepsOrInvalidates, IInv, TypeOK
<1>2. WellFormed(mine[s]) /\ mine[s].request = request[s] /\ pc[s] = "start" /\ mine[s] # Absent
  BY DEF Start, At, IInv, StagesHold, RecordsHold
<1>3. UNCHANGED <<request, query, reply>>
  BY DEF Start
<1>4. CASE UNCHANGED mine /\ GoTo(s, "mark")
  <2>1. mine' = [mine EXCEPT ![s] = mine[s]]
    BY <1>4 DEF IInv, TypeOK
  <2>2. Aside(s, "mark", mine[s])
    BY <1>1, <1>2, <1>3, <1>4, <2>1 DEF Aside, Points
  <2>3. QED
    BY <2>2, StepAside
<1>5. ASSUME NEW t \in Times, Validates(Started(mine[s], t)), GoTo(s, "write"),
             mine' = [mine EXCEPT ![s] = Started(mine[s], t)]
      PROVE  IInv'
  <2>1. WellFormed(Started(mine[s], t)) /\ Started(mine[s], t).request = request[s]
    BY <1>2, <1>5, StartedIsWellFormed
  <2>2. Started(mine[s], t) # Absent
    BY <2>1, NoRecord DEF WellFormed
  <2>3. Aside(s, "write", Started(mine[s], t))
    BY <1>1, <1>2, <1>3, <1>5, <2>1, <2>2 DEF Aside, Points
  <2>4. QED
    BY <2>3, StepAside
<1>6. QED
  BY <1>4, <1>5 DEF Start

LEMMA ExecuteKeepsIInv ==
  ASSUME IInv, Observes, UNCHANGED lost, NEW s \in Submissions, Execute(s)
  PROVE  IInv'
<1>1. KeepsOrInvalidates
  BY DEF Execute, durable, KeepsOrInvalidates, IInv, TypeOK
<1>2. WellFormed(mine[s]) /\ mine[s].request = request[s] /\ pc[s] = "execute" /\ mine[s] # Absent
  BY DEF Execute, At, IInv, StagesHold, RecordsHold
<1>3. UNCHANGED <<request, query, reply>>
  BY DEF Execute
<1>4. CASE UNCHANGED mine /\ GoTo(s, "mark")
  <2>1. mine' = [mine EXCEPT ![s] = mine[s]]
    BY <1>4 DEF IInv, TypeOK
  <2>2. Aside(s, "mark", mine[s])
    BY <1>1, <1>2, <1>3, <1>4, <2>1 DEF Aside, Points
  <2>3. QED
    BY <2>2, StepAside
<1>5. ASSUME NEW t \in Times, NEW result \in Terminals, NEW obs \in ObservabilityOf,
             Validates(Finished(mine[s], t, result, obs)), GoTo(s, "write"),
             mine' = [mine EXCEPT ![s] = Finished(mine[s], t, result, obs)]
      PROVE  IInv'
  <2>1. /\ WellFormed(Finished(mine[s], t, result, obs))
        /\ Finished(mine[s], t, result, obs).request = request[s]
    BY <1>2, <1>5, FinishedIsWellFormed
  <2>2. Finished(mine[s], t, result, obs) # Absent
    BY <2>1, NoRecord DEF WellFormed
  <2>3. Aside(s, "write", Finished(mine[s], t, result, obs))
    BY <1>1, <1>2, <1>3, <1>5, <2>1, <2>2 DEF Aside, Points
  <2>4. QED
    BY <2>3, StepAside
<1>6. QED
  BY <1>4, <1>5 DEF Execute

LEMMA InvalidationKeepsIInv ==
  ASSUME IInv, Observes, UNCHANGED lost, NEW s \in Submissions,
         WriteMarker(s) \/ MoveRecord(s) \/ PoisonRecord(s) \/ Crash(s)
  PROVE  IInv'
<1>1. KeepsOrInvalidates
  BY DEF WriteMarker, MoveRecord, PoisonRecord, Crash, durable, KeepsOrInvalidates, IInv, TypeOK
<1>2. mine' = [mine EXCEPT ![s] = mine[s]]
  BY DEF WriteMarker, MoveRecord, PoisonRecord, Crash, IInv, TypeOK
<1>3. pc[s] \notin {"idle", "done"} /\ mine[s] # Absent
  BY DEF WriteMarker, MoveRecord, PoisonRecord, Crash, At, IInv, StagesHold
<1>4. UNCHANGED <<request, query>>
  BY DEF WriteMarker, MoveRecord, PoisonRecord, Crash
<1>5. PICK to \in {"move", "poison", "done"} :
        GoTo(s, to) /\ (reply' = reply \/ reply' = [reply EXCEPT ![s] = "failed"])
  BY DEF WriteMarker, MoveRecord, PoisonRecord, Crash, Answer
<1>6. Aside(s, to, mine[s])
  BY <1>1, <1>2, <1>3, <1>4, <1>5 DEF Aside, Points
<1>7. QED
  BY <1>6, StepAside

-----------------------------------------------------------------------------
(* A query *)

LEMMA LoadKeepsIInv ==
  ASSUME IInv, Observes, UNCHANGED lost, BeginLoad \/ CheckMarker \/ CheckExists \/ ReadRecord
  PROVE  IInv'
<1> USE DEF IInv
<1>1. UNCHANGED <<durable, submission>>
  BY DEF BeginLoad, CheckMarker, CheckExists, ReadRecord
<1>2. RecordsHold' /\ StagesHold' /\ DispatchHolds' /\ SuccessHolds'
  BY <1>1 DEF durable, submission, RecordsHold, StagesHold, DispatchHolds, SuccessHolds,
              At, HasRecord, Invalidated
<1>3. /\ reader' \in {"idle", "marker", "exists", "read"}
      /\ answer' \in {None, "not_found", "unavailable", "accepted", "running"} \cup Terminals
  BY DEF BeginLoad, CheckMarker, CheckExists, ReadRecord, Returns, TypeOK, RecordsHold, HasRecord,
         WellFormed, TaskRecord, Statuses, IsTerminal
<1>4. TypeOK'
  <2>1. Truth' \in Truths
    BY <1>1, TruthIsTruth DEF durable, TypeOK, RecordsHold, HasRecord
  <2>2. seen' \subseteq Truths
    BY <2>1 DEF Observes, TypeOK, Truths
  <2>3. QED
    BY <1>1, <1>3, <2>2 DEF TypeOK, durable, submission, Truths
<1>5. LoadHolds'
  <2>1. reader' \in {"exists", "read"} => ~marker' \/ (file' = file /\ reader \in {"exists", "read"})
    BY <1>1 DEF BeginLoad, CheckMarker, CheckExists, ReadRecord, Returns, durable
  <2>2. QED
    BY <2>1, LoadStep
<1>6. QED
  BY <1>2, <1>4, <1>5

-----------------------------------------------------------------------------
(* Invariants *)

LEMMA InitIInv == Init => IInv
<1> SUFFICES ASSUME Init PROVE IInv
  OBVIOUS
<1>1. /\ request \in [Submissions -> Requests]
      /\ file = Absent /\ marker = FALSE
      /\ pc = [s \in Submissions |-> "idle"]
      /\ mine = [s \in Submissions |-> Absent]
      /\ reply = [s \in Submissions |-> None]
      /\ reader = "idle" /\ answer = None /\ seen = {"none"} /\ lost = FALSE
      /\ ~HasRecord
  BY DEF Init, HasRecord
<1>2. Truth = "none"
  BY <1>1, NoRecord DEF Truth
<1>3. TypeOK
  BY <1>1 DEF TypeOK, HasRecord
<1>4. RecordsHold /\ StagesHold /\ DispatchHolds
  BY <1>1 DEF RecordsHold, StagesHold, DispatchHolds, At
<1>5. SuccessHolds
  BY <1>1, StoreAssumption DEF SuccessHolds
<1>6. LoadHolds
  BY <1>1, <1>2 DEF LoadHolds
<1>7. QED
  BY <1>3, <1>4, <1>5, <1>6 DEF IInv

LEMMA NextIInv == IInv /\ [Next]_vars => IInv'
<1> SUFFICES ASSUME IInv, [Next]_vars PROVE IInv'
  OBVIOUS
<1>1. CASE Next
  <2>1. Step /\ Observes
    BY <1>1 DEF Next, Observes
  <2>2. ASSUME NEW s \in Submissions, Replace(s)
        PROVE  IInv'
    BY <2>1, <2>2, ReplaceEnds, EndsKeepsIInv
  <2>3. CASE UNCHANGED lost /\ \E s \in Submissions :
               \/ Create(s) \/ CheckInvalid(s) \/ LookForExisting(s) \/ ReadExisting(s)
               \/ ReplaceFails(s) \/ Start(s) \/ Execute(s)
               \/ WriteMarker(s) \/ MoveRecord(s) \/ PoisonRecord(s) \/ Crash(s)
    BY <2>1, <2>3, CreateKeepsIInv, WriteStepsKeepIInv, ReadExistingKeepsIInv,
       StartKeepsIInv, ExecuteKeepsIInv, InvalidationKeepsIInv
  <2>4. CASE UNCHANGED lost /\ (BeginLoad \/ CheckMarker \/ CheckExists \/ ReadRecord)
    BY <2>1, <2>4, LoadKeepsIInv
  <2>5. QED
    BY <2>1, <2>2, <2>3, <2>4 DEF Step
<1>2. CASE UNCHANGED vars
  BY <1>2 DEF vars, durable, submission, query, IInv, TypeOK, RecordsHold, StagesHold, DispatchHolds,
              SuccessHolds, LoadHolds, At, HasRecord, Invalidated, Truth
<1>3. QED
  BY <1>1, <1>2

\* The inductive invariant holds in every run of the store.
THEOREM Invariance == Spec => []IInv
<1>1. QED
  BY InitIInv, NextIInv, PTL DEF Spec

\* Every variable keeps its type, and the log of the record on file is in the
\* order of time, though the clock may step back between any two stages.
THEOREM TypeCorrectness == Spec => []TypeOK
<1>1. IInv => TypeOK
  BY DEF IInv
<1>2. QED
  BY <1>1, Invariance, PTL

\* However many submissions write the id, and however their writes overlap, the
\* adapter of one runs only on a record of its own request that says running (or that
\* another one has finished), unless the history was declared invalid or a replace
\* has overtaken another submission.
THEOREM DispatchOnRecord == Spec => []ExecutesOnRecord
<1>1. IInv => ExecutesOnRecord
  BY DEF IInv, ExecutesOnRecord, DispatchHolds, Invalidated, Truth
<1>2. QED
  BY <1>1, Invariance, PTL

\* Whoever was told success has its envelope on file, also after any later
\* submission of the id, unless the history was declared invalid or a replace has
\* overtaken another submission.
THEOREM DurableSuccess == Spec => []SuccessIsDurable
<1>1. IInv => SuccessIsDurable
  <2> SUFFICES ASSUME IInv, ~lost, NEW s \in Submissions, reply[s] = "success"
               PROVE  mine[s].result \in Successes /\ Truth \in {mine[s].result, "invalid"}
    BY DEF SuccessIsDurable
  <2>1. /\ mine[s] # Absent /\ mine[s].status = "succeeded"
        /\ Invalidated \/ (HasRecord /\ IsTerminal(file) /\ file.result = mine[s].result)
    BY DEF IInv, SuccessHolds
  <2>2. mine[s].result \in Successes
    BY <2>1 DEF IInv, RecordsHold, WellFormed
  <2>3. Truth \in {mine[s].result, "invalid"}
    BY <2>1 DEF Truth, Invalidated, HasRecord
  <2>4. QED
    BY <2>2, <2>3
<1>2. QED
  BY <1>1, Invariance, PTL

-----------------------------------------------------------------------------
(* What a step may never do *)

\* A record a load returns was the truth at some moment of the load, whatever the
\* submissions did between its three looks at the files, unless a replace has
\* overtaken a marker or another submission.
THEOREM TruthfulLoad == Spec => LoadTellsTruth
<1>1. IInv /\ [Next]_vars =>
        [reader = "read" /\ answer' # "unavailable" /\ reader' = "idle" /\ ~lost => answer' \in seen]_vars
  <2> SUFFICES ASSUME IInv, Next, reader = "read", answer' # "unavailable", reader' = "idle", ~lost
               PROVE  answer' \in seen
    OBVIOUS
  <2>1. ReadRecord
    BY DEF Next, Step, Create, CheckInvalid, LookForExisting, ReadExisting, Replace, ReplaceFails, Start,
           Execute, WriteMarker, MoveRecord, PoisonRecord, Crash, BeginLoad, CheckMarker, CheckExists, query
  <2>2. HasRecord /\ answer' = Told(file)
    BY <2>1 DEF ReadRecord, Returns, HasRecord, Told
  <2>3. QED
    BY <2>2 DEF IInv, LoadHolds
<1>2. QED
  BY <1>1, Invariance, PTL DEF Spec, LoadTellsTruth

\* The only steps that touch the files: a replace, the marker, the record moved to
\* its place, a poisoned record; and a write, once lost, is lost for good.
LEMMA FileSteps ==
  IInv /\ [Next]_vars =>
    /\ lost => lost'
    /\ \/ lost'
       \/ KeepsOrInvalidates
       \/ /\ ~marker /\ ~marker' /\ file # Poison
          /\ WellFormed(file') /\ Follows(file, file')
<1> SUFFICES ASSUME IInv, [Next]_vars
             PROVE  /\ lost => lost'
                    /\ \/ lost'
                       \/ KeepsOrInvalidates
                       \/ /\ ~marker /\ ~marker' /\ file # Poison
                          /\ WellFormed(file') /\ Follows(file, file')
  OBVIOUS
<1>1. marker \in BOOLEAN /\ lost \in BOOLEAN
  BY DEF IInv, TypeOK
<1>2. ASSUME NEW s \in Submissions, Replace(s)
      PROVE  /\ lost => lost'
             /\ \/ lost'
                \/ KeepsOrInvalidates
                \/ /\ ~marker /\ ~marker' /\ file # Poison
                   /\ WellFormed(file') /\ Follows(file, file')
  <2>1. Ends(s, mine[s])
    BY <1>2, ReplaceEnds
  <2>2. QED
    BY <2>1, <1>1 DEF Ends, Invalidated, KeepsOrInvalidates
<1>3. ASSUME NEW s \in Submissions, WriteMarker(s) \/ MoveRecord(s) \/ PoisonRecord(s)
      PROVE  KeepsOrInvalidates
  <2>1. CASE WriteMarker(s)
    <3>1. file' = file /\ (marker' = TRUE \/ marker' = marker)
      BY <2>1 DEF WriteMarker
    <3>2. QED
      BY <1>1, <3>1, Zenon DEF KeepsOrInvalidates
  <2>2. CASE MoveRecord(s)
    <3>1. (file' = Absent /\ marker' = TRUE) \/ (file' = file /\ marker' = marker)
      BY <2>2 DEF MoveRecord, durable
    <3>2. QED
      BY <1>1, <3>1, Zenon DEF KeepsOrInvalidates
  <2>3. CASE PoisonRecord(s)
    BY <2>3, <1>1 DEF PoisonRecord, KeepsOrInvalidates
  <2>4. QED
    BY <1>3, <2>1, <2>2, <2>3
<1>4. UNCHANGED durable => KeepsOrInvalidates
  BY <1>1 DEF durable, KeepsOrInvalidates
<1>5. (\E s \in Submissions : Replace(s)) \/ UNCHANGED lost
  BY DEF Next, Step, vars
<1>6. \/ \E s \in Submissions : Replace(s) \/ WriteMarker(s) \/ MoveRecord(s) \/ PoisonRecord(s)
      \/ UNCHANGED durable
  BY DEF Next, Step, Create, CheckInvalid, LookForExisting, ReadExisting, ReplaceFails, Start, Execute,
         Crash, BeginLoad, CheckMarker, CheckExists, ReadRecord, vars
<1>7. QED
  BY <1>2, <1>3, <1>4, <1>5, <1>6

\* A terminal record stays terminal and loses nothing that was observed about the
\* task, whichever submission writes it again, until a replace overtakes another one.
THEOREM GrowingObservability == Spec => ObservabilityGrows
<1>1. IInv /\ [Next]_vars =>
        [file.status \in Statuses /\ file'.status \in Statuses /\ IsTerminal(file) /\ ~lost'
           => IsTerminal(file') /\ file.obs \subseteq file'.obs]_vars
  <2> SUFFICES ASSUME IInv, [Next]_vars, ~lost',
                      file.status \in Statuses, file'.status \in Statuses, IsTerminal(file)
               PROVE  IsTerminal(file') /\ file.obs \subseteq file'.obs
    OBVIOUS
  <2>1. file \notin {Absent, Poison} /\ file' \notin {Absent, Poison}
    BY DEF Statuses, Absent, Poison
  <2>2. CASE KeepsOrInvalidates
    BY <2>1, <2>2 DEF KeepsOrInvalidates
  <2>3. CASE Follows(file, file')
    BY <2>1, <2>3 DEF Follows, IsTerminal
  <2>4. QED
    BY <2>2, <2>3, FileSteps
<1>2. QED
  BY <1>1, Invariance, PTL DEF Spec, ObservabilityGrows

-----------------------------------------------------------------------------
(* Refinement *)

\* The file, the marker and the poisoned file implement the record of
\* TaskRecordTruth, which is promised until a write is lost: one terminal result,
\* which stays, and an invalid history for good.
THEOREM Refinement == Spec => TruthKept
<1>1. Init => Promise!Init
  BY NoRecord DEF Init, Truth, Promise!Init
<1>2. IInv /\ IInv' /\ [Next]_vars => [Promise!Next]_<<Truth, lost>>
  <2> SUFFICES ASSUME IInv, IInv', [Next]_vars
               PROVE  Promise!Next \/ (Truth' = Truth /\ lost' = lost)
    OBVIOUS
  <2>0. lost \in BOOLEAN /\ lost' \in BOOLEAN /\ (lost => lost')
    BY FileSteps DEF IInv, TypeOK
  <2>1. CASE lost'
    <3>1. Truth' \in Truths
      BY TruthIsTruth DEF IInv, TypeOK, RecordsHold, HasRecord
    <3>2. QED
      BY <2>0, <2>1, <3>1 DEF Promise!Next, Promise!Lose, Promise!Truths, Truths
  <2>2. CASE ~lost' /\ KeepsOrInvalidates
    <3>1. lost' = lost
      BY <2>0, <2>2
    <3>2. QED
      BY <2>2, <3>1, NoRecord DEF KeepsOrInvalidates, Truth, Promise!Next, Promise!Kept, Promise!Invalidate
  <2>3. ASSUME ~lost', ~marker, ~marker', file # Poison, WellFormed(file'), Follows(file, file')
        PROVE  Promise!Next \/ (Truth' = Truth /\ lost' = lost)
    <3>1. lost' = lost
      BY <2>0, <2>3
    <3>2. file = Absent \/ WellFormed(file)
      BY <2>3 DEF IInv, RecordsHold, HasRecord
    <3>3. file' # Absent /\ file' # Poison
      BY <2>3, NoRecord DEF WellFormed
    <3>4. Truth' = Told(file') /\ Truth = IF file = Absent THEN "none" ELSE Told(file)
      BY <2>3, <3>3 DEF Truth, Told
    <3>5. CASE file = Absent /\ file'.status = "accepted"
      BY <3>1, <3>4, <3>5 DEF Told, IsTerminal, Promise!Next, Promise!Kept, Promise!Accept
    <3>6. CASE file # Absent /\ file.status = "accepted" /\ file'.status \in {"accepted", "running"}
      BY <3>1, <3>4, <3>6 DEF Told, IsTerminal, Promise!Next, Promise!Kept, Promise!Run
    <3>7. CASE file # Absent /\ file.status = "running" /\ IsTerminal(file')
      <4>1. file'.result \in Terminals
        BY <2>3, <3>7 DEF WellFormed
      <4>2. Truth = "running" /\ Truth' = file'.result
        BY <3>4, <3>7 DEF Told, IsTerminal
      <4>3. QED
        BY <3>1, <4>1, <4>2 DEF Promise!Next, Promise!Kept, Promise!Finish
    <3>8. CASE /\ file # Absent /\ IsTerminal(file)
               /\ file'.status = file.status /\ file'.result = file.result
      BY <3>1, <3>4, <3>8 DEF Told, IsTerminal
    <3>9. CASE file' = file
      BY <3>1, <3>3, <3>4, <3>9
    <3>10. QED
      BY <2>3, <3>5, <3>6, <3>7, <3>8, <3>9 DEF Follows
  <2>4. QED
    BY <2>1, <2>2, <2>3, FileSteps
<1>3. QED
  BY <1>1, <1>2, Invariance, PTL DEF Spec, TruthKept, Promise!Spec
=============================================================================
