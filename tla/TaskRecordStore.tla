---------------------------- MODULE TaskRecordStore ----------------------------
(***************************************************************************)
(* The local store of task records (syvert/task_record_store.py) for one    *)
(* task id: a file with the record, reconciled at each write with what it    *)
(* has, and a marker beside it that declares the record invalid.  Submissions *)
(* of the id write it (persist_task_record of syvert/runtime.py), and a     *)
(* query, often of another process, reads it at any moment.                 *)
(*                                                                         *)
(* The store has no lock.  A write looks for the marker, looks for the       *)
(* record, reads it and replaces it in steps of its own, with those of other *)
(* submissions in between; so do an invalidation and a load.                 *)
(***************************************************************************)
EXTENDS Naturals, Sequences

CONSTANTS
  Submissions, Requests,
  Successes, Failures,  \* terminal envelopes
  ObservabilityOf,      \* the sets of entries a terminal record may come with
  EntryId,              \* the identity of an entry
  MaxTime,              \* a bound: the clock reads 1..MaxTime, and may step back
  None

\* None is neither an envelope nor an answer.
ASSUME StoreAssumption ==
  /\ MaxTime \in Nat
  /\ None \notin Successes \cup Failures \cup {"success", "failed"}

Terminals == Successes \cup Failures
Times == 1..MaxTime
Entries == UNION ObservabilityOf

VARIABLES
  request,             \* the request snapshot of each submission
  file, marker,        \* <id>.json and <id>.invalid.json
  pc, mine, reply,     \* of each submission: where it is, its record, what it answered
  reader, answer,      \* the query: where it is, what it returned if it has
  seen,                \* history: what was true since the load in progress began
  lost                 \* history: a write has replaced what it had not reconciled with

durable == <<file, marker>>
submission == <<request, pc, mine, reply>>
query == <<reader, answer>>
vars == <<durable, submission, query, seen, lost>>

Absent == [status |-> "absent"]
Poison == [status |-> "poison"]
Statuses == {"accepted", "running", "succeeded", "failed"}
TaskRecord ==
  [status : Statuses, request : Requests, times : Seq(Times), result : Terminals \cup {None},
   obs : SUBSET Entries]

IsTerminal(r) == r.status \in {"succeeded", "failed"}

\* What a reader is to be told.
Truth ==
  IF marker \/ file = Poison THEN "invalid"
  ELSE IF file = Absent THEN "none"
  ELSE IF IsTerminal(file) THEN file.result
  ELSE file.status

TypeOK ==
  /\ request \in [Submissions -> Requests]
  /\ file \in TaskRecord \cup {Absent, Poison}
  /\ file \notin {Absent, Poison} =>
       \A i, j \in DOMAIN file.times : i < j => file.times[i] <= file.times[j]
  /\ marker \in BOOLEAN
  /\ pc \in [Submissions -> {"idle", "write", "look", "read", "replace", "start", "execute",
                             "mark", "move", "poison", "done"}]
  /\ mine \in [Submissions -> TaskRecord \cup {Absent}]
  /\ reply \in [Submissions -> {None, "success", "failed"}]
  /\ reader \in {"idle", "marker", "exists", "read"}
  /\ answer \in {None, "not_found", "unavailable", "accepted", "running"} \cup Terminals
  /\ seen \subseteq {"none", "accepted", "running", "invalid"} \cup Terminals
  /\ lost \in BOOLEAN

Init ==
  /\ request \in [Submissions -> Requests]
  /\ file = Absent /\ marker = FALSE
  /\ pc = [s \in Submissions |-> "idle"]
  /\ mine = [s \in Submissions |-> Absent]
  /\ reply = [s \in Submissions |-> None]
  /\ reader = "idle" /\ answer = None
  /\ seen = {"none"} /\ lost = FALSE

Last(r) == r.times[Len(r.times)]
At(s, from) == pc[s] = from
GoTo(s, to) == pc' = [pc EXCEPT ![s] = to]
Answer(s, what) == GoTo(s, "done") /\ reply' = [reply EXCEPT ![s] = what]

-----------------------------------------------------------------------------
(* The shared model of a record (syvert/task_record.py) *)

Accepted(snapshot, t) ==
  [status |-> "accepted", request |-> snapshot, times |-> <<t>>, result |-> None, obs |-> {}]
Started(r, t) == [r EXCEPT !.status = "running", !.times = Append(@, t)]
Finished(r, t, result, obs) ==
  [r EXCEPT !.status = IF result \in Successes THEN "succeeded" ELSE "failed",
            !.times = Append(@, t), !.result = result, !.obs = obs]

\* Mutant: logs may go back in time.
ValidatesUnordered(r) == Len(r.times) > 0

\* validate_task_record: one log entry per stage, in the order of time.
Validates(r) ==
  /\ Len(r.times) = (CASE r.status = "accepted" -> 1 [] r.status = "running" -> 2 [] OTHER -> 3)
  /\ \A i, j \in DOMAIN r.times : i < j => r.times[i] <= r.times[j]

-----------------------------------------------------------------------------
(* reconcile_persisted_record *)

\* The incoming record is the existing one, a stage further.
Continues(existing, incoming) ==
  /\ incoming.request = existing.request
  /\ incoming.times = Append(existing.times, Last(incoming))
  /\ Validates(incoming)

\* Mutant: the larger set is not asked for.
ObservabilityMergesAny(existing, incoming) ==
  \A x \in existing.obs, y \in incoming.obs : EntryId[x] = EntryId[y] => x = y

\* No entry changes under its identity, and none is lost.
ObservabilityMerges(existing, incoming) ==
  /\ \A x \in existing.obs, y \in incoming.obs : EntryId[x] = EntryId[y] => x = y
  /\ existing.obs \subseteq incoming.obs

\* Mutant: the request snapshots are not compared.
ResubmitsAnything(existing, incoming) == existing.status = "accepted" /\ incoming.status = "accepted"

\* create_task_record with an existing record.
Resubmits(existing, incoming) ==
  existing.status = "accepted" /\ incoming.status = "accepted" /\ incoming.request = existing.request

Reconciles(existing, incoming) ==
  \/ existing = Absent /\ incoming.status = "accepted"
  \/ Resubmits(existing, incoming)
  \/ existing.status = "accepted" /\ incoming.status = "running" /\ Continues(existing, incoming)
  \/ existing.status = "running" /\ incoming = existing
  \/ existing.status = "running" /\ IsTerminal(incoming) /\ Continues(existing, incoming)
  \/ /\ IsTerminal(existing) /\ [incoming EXCEPT !.obs = existing.obs] = existing
     /\ ObservabilityMerges(existing, incoming)

\* A second acceptance returns the record of the first.
Candidate(existing, incoming) ==
  IF existing.status = "accepted" /\ incoming.status = "accepted" THEN existing ELSE incoming

-----------------------------------------------------------------------------
(* A submission: create, write, start, write, execute, finish, write *)

Create(s) ==
  /\ At(s, "idle") /\ GoTo(s, "write")
  /\ \E t \in Times : mine' = [mine EXCEPT ![s] = Accepted(request[s], t)]
  /\ UNCHANGED <<request, durable, reply, query>>

NextStage == [accepted |-> "start", running |-> "execute"]

\* What write returns is the submission's record from here on.
Stored(s, record) ==
  /\ mine' = [mine EXCEPT ![s] = record]
  /\ IF IsTerminal(record)
     THEN Answer(s, IF record.status = "succeeded" THEN "success" ELSE "failed")
     ELSE GoTo(s, NextStage[record.status]) /\ UNCHANGED reply

\* persist_task_record answers a conflict without a mark, any other failure with one.
Conflict(s) == Answer(s, "failed") /\ UNCHANGED mine
Failure(s) == GoTo(s, "mark") /\ UNCHANGED <<mine, reply>>

\* An invalid record is reported as a conflict.
CheckInvalid(s) ==
  /\ At(s, "write")
  /\ IF marker THEN Conflict(s) ELSE GoTo(s, "look") /\ UNCHANGED <<mine, reply>>
  /\ UNCHANGED <<request, durable, query>>

\* _try_load_existing: without a file there is nothing to reconcile with ...
LookForExisting(s) ==
  /\ At(s, "look")
  /\ \/ file # Absent /\ GoTo(s, "read") /\ UNCHANGED <<mine, reply>>
     \/ file = Absent /\ ~Reconciles(Absent, mine[s]) /\ Conflict(s)
     \/ file = Absent /\ Reconciles(Absent, mine[s]) /\ GoTo(s, "replace") /\ UNCHANGED <<mine, reply>>
  /\ UNCHANGED <<request, durable, query>>

\* ... with one it is read, which fails when the file is moved meanwhile, is
\* poisoned or cannot be read; a write of what is there already writes nothing.
ReadExisting(s) ==
  /\ At(s, "read")
  /\ \/ Failure(s)
     \/ /\ file \notin {Absent, Poison} /\ ~Reconciles(file, mine[s]) /\ Conflict(s)
     \/ /\ file \notin {Absent, Poison} /\ Reconciles(file, mine[s])
        /\ IF Candidate(file, mine[s]) = file
           THEN Stored(s, file)
           ELSE GoTo(s, "replace") /\ UNCHANGED <<mine, reply>>
  /\ UNCHANGED <<request, durable, query>>

\* Since the write looked, a marker has appeared, or a record in the place of what
\* it read that its own would not be reconciled with.
Overtaken(s) == marker \/ file = Poison \/ ~Reconciles(file, mine[s])

\* os.replace, whatever the file says by now.
Replace(s) ==
  /\ At(s, "replace")
  /\ file' = mine[s] /\ Stored(s, mine[s])
  /\ lost' = (lost \/ Overtaken(s))
  /\ UNCHANGED <<request, marker, query>>

\* Mutant: a failed write is only reported when the marker could be written.
ReplaceFailsQuietly(s) ==
  /\ At(s, "replace")
  /\ Failure(s) \/ (Answer(s, IF mine[s].status = "succeeded" THEN "success" ELSE "failed") /\ UNCHANGED mine)
  /\ UNCHANGED <<request, durable, query>>

\* The temporary file cannot be written or put in its place.
ReplaceFails(s) ==
  /\ At(s, "replace") /\ Failure(s)
  /\ UNCHANGED <<request, durable, query>>

\* start_task_record; a clock that went back makes the task fail.
Start(s) ==
  /\ At(s, "start")
  /\ \E t \in Times :
       LET record == Started(mine[s], t)
       IN IF Validates(record)
          THEN mine' = [mine EXCEPT ![s] = record] /\ GoTo(s, "write")
          ELSE GoTo(s, "mark") /\ UNCHANGED mine
  /\ UNCHANGED <<request, durable, reply, query>>

\* The adapter's envelope and finish_task_record, which may refuse it.
Execute(s) ==
  /\ At(s, "execute")
  /\ \/ \E t \in Times, result \in Terminals, obs \in ObservabilityOf :
          LET record == Finished(mine[s], t, result, obs)
          IN Validates(record) /\ mine' = [mine EXCEPT ![s] = record] /\ GoTo(s, "write")
     \/ GoTo(s, "mark") /\ UNCHANGED mine
  /\ UNCHANGED <<request, durable, reply, query>>

-----------------------------------------------------------------------------
(* mark_invalid: the marker, or the record moved to its place, or a poisoned *)
(* record; each may fail, and when all do the task still fails               *)

WriteMarker(s) ==
  /\ At(s, "mark")
  /\ \/ marker' = TRUE /\ Answer(s, "failed")
     \/ GoTo(s, "move") /\ UNCHANGED <<marker, reply>>
  /\ UNCHANGED <<request, file, mine, query>>

\* Mutant: the record is removed instead of moved.
RemoveRecord(s) ==
  /\ At(s, "move")
  /\ \/ file # Absent /\ file' = Absent /\ Answer(s, "failed")
     \/ GoTo(s, "poison") /\ UNCHANGED <<file, reply>>
  /\ UNCHANGED <<request, marker, mine, query>>

MoveRecord(s) ==
  /\ At(s, "move")
  /\ \/ file # Absent /\ file' = Absent /\ marker' = TRUE /\ Answer(s, "failed")
     \/ GoTo(s, "poison") /\ UNCHANGED <<durable, reply>>
  /\ UNCHANGED <<request, mine, query>>

PoisonRecord(s) ==
  /\ At(s, "poison")
  /\ file' \in {file, Poison} /\ Answer(s, "failed")
  /\ UNCHANGED <<request, marker, mine, query>>

\* The process of the submission dies.
Crash(s) ==
  /\ pc[s] \notin {"idle", "done"} /\ GoTo(s, "done")
  /\ UNCHANGED <<request, durable, mine, reply, query>>

-----------------------------------------------------------------------------
(* load *)

BeginLoad ==
  /\ reader = "idle" /\ reader' = "marker" /\ answer' = None
  /\ UNCHANGED <<durable, submission>>

Returns(what) == reader' = "idle" /\ answer' = what

\* Mutant: a marker is not heeded.
CheckMarkerNot ==
  /\ reader = "marker" /\ reader' = "exists"
  /\ UNCHANGED <<durable, submission, answer>>

CheckMarker ==
  /\ reader = "marker"
  /\ IF marker THEN Returns("unavailable") ELSE reader' = "exists" /\ UNCHANGED answer
  /\ UNCHANGED <<durable, submission>>

CheckExists ==
  /\ reader = "exists"
  /\ IF file = Absent THEN Returns("not_found") ELSE reader' = "read" /\ UNCHANGED answer
  /\ UNCHANGED <<durable, submission>>

ReadRecord ==
  /\ reader = "read"
  /\ \/ file \notin {Absent, Poison} /\ Returns(IF IsTerminal(file) THEN file.result ELSE file.status)
     \/ Returns("unavailable")
  /\ UNCHANGED <<durable, submission>>

-----------------------------------------------------------------------------
Step ==
  \/ \E s \in Submissions : Replace(s)
  \/ /\ \/ \E s \in Submissions :
             \/ Create(s) \/ CheckInvalid(s) \/ LookForExisting(s) \/ ReadExisting(s)
             \/ ReplaceFails(s) \/ Start(s) \/ Execute(s)
             \/ WriteMarker(s) \/ MoveRecord(s) \/ PoisonRecord(s) \/ Crash(s)
        \/ BeginLoad \/ CheckMarker \/ CheckExists \/ ReadRecord
     /\ UNCHANGED lost

Next == Step /\ seen' = (IF reader = "idle" THEN {} ELSE seen) \cup {Truth'}

Spec == Init /\ [][Next]_vars

-----------------------------------------------------------------------------
(* Properties *)

(* Two writes may overlap in any way, and most overlaps are harmless: of two *)
(* that read the same file the later one replaces a record that it could as  *)
(* well have read.  What follows holds as long as no replace overtakes       *)
(* another submission; TerminalStays is what FR-0008 says without that.      *)

\* Until a write is lost, the file, the marker and the poisoned file together
\* implement the record of FR-0008 under overlapping writes, loads and invalidations
\* of the id: one terminal result, which stays, no way back, and an invalid
\* history for good.
Promise == INSTANCE TaskRecordTruth WITH truth <- Truth
TruthKept == Promise!Spec

\* An adapter runs only on a durable record of its own request that says running,
\* or that another submission has finished, unless the record is invalid or a
\* write was lost.
ExecutesOnRecord ==
  \A s \in Submissions : At(s, "execute") /\ Truth # "invalid" /\ ~lost =>
    /\ file.request = request[s]
    /\ file.status # "accepted"

\* Who was told success finds its envelope in the record, unless the history is
\* invalid or a write was lost (FR-0008: nothing is called a success without a
\* durable record).
SuccessIsDurable ==
  ~lost => \A s \in Submissions : reply[s] = "success" =>
    mine[s].result \in Successes /\ Truth \in {mine[s].result, "invalid"}

\* A record that a load returns was the truth at some moment of the load, though
\* the load looks at the marker and at the file in three steps, unless a write was
\* lost: one that found no marker may put its record beside a marker set since.
LoadTellsTruth ==
  [][reader = "read" /\ answer' # "unavailable" /\ reader' = "idle" /\ ~lost => answer' \in seen]_vars

\* Until a write is lost no step takes from a terminal record what it has of what
\* was observed about the task.
ObservabilityGrows ==
  [][file.status \in Statuses /\ file'.status \in Statuses /\ IsTerminal(file) /\ ~lost'
       => IsTerminal(file') /\ file.obs \subseteq file'.obs]_vars

\* FR-0008: a terminal result, once written, neither goes back nor gives way to
\* another; only the invalidation of the history takes it away.
TerminalStays == [][(Truth \in Terminals) => Truth' \in {Truth, "invalid"}]_vars

\* A task that has a record is never reported as not found (FR-0009).  Not so in the
\* code: a load between its first two looks misses a record that is moved to the marker.
LoadFindsRecord == [][reader = "exists" /\ reader' = "idle" => "none" \in seen]_vars
=============================================================================
