# Verification of Syvert's Core in TLA+

Syvert runs collection tasks ("fetch this post from that platform") for callers
that reach it through a CLI, an HTTP API or Python. Its *Core* admits a task to
a concurrency scope, keeps a durable record of it, leases the accounts and
proxies it needs from a ledger on disk, runs a platform adapter under a timeout,
settles the lease, retries where that is safe, and closes the record.

Around the Core stand contracts (what an adapter requires, what a provider offers,
whether the two fit) and gates (whether a version may be released).

This directory models the parts of the Core whose correctness depends on the
order of events, and the path of decisions from a contract to a release: TLA+ modules, configurations that check them with TLC, and
theorems that the TLAPS proof system checks. `PROJECT.json` is the index: which
definition stands for which lines, which run checks which property, and for each
property a mutated definition (a bug) under which it fails.

Paths below are relative to the repository (`syvert/...`, `docs/...`).

## 1. Inventory

### Components, their state and their operations

| component | state | operations | hard behaviour |
|---|---|---|---|
| resource ledger (`resource_lifecycle.py`, `resource_lifecycle_store.py`) | one JSON snapshot: revision, status of each resource, list of leases | `acquire`, `release`, `seed_resources`, `commit_with_trace` | callers read without a lock and commit under two file locks if the revision is still theirs; a retry after a conflict; two files replaced one after the other |
| resource trace (`resource_trace.py`, `resource_trace_store.py`) | a file of audit events | merged by the ledger's commit, read by a repeated `release` | must agree with the ledger after any failure |
| resource health (`resource_health.py`) | none of its own: reports on the sessions of accounts come with the call | admit a task with its accounts or not; invalidate the account of an active lease, alone or split off | reports come late, contradict each other and expire; the split makes two leases out of one in one commit |
| execution control (`runtime.py`, 551-1815) | per scope: an admission lock and a counter in the process; per task: a thread, perhaps an abandoned adapter thread | `execute_task`, attempts, timeout, settle, retry | threads, threads left behind, eight early returns and one `finally` |
| task record store (`task_record_store.py`, `task_record.py`) | one JSON record per task, an invalid marker | `write` (reconcile), `load`, `mark_invalid` | failing writes, failing invalidation, queries of other processes in between, no lock |
| batch and dataset (`batch_dataset.py`) | a dataset sink in memory; the rest is handed back and forth: resume token and item outcomes | `execute_batch_request` | runs interrupted, aborted and resumed with any token the caller kept; several batches on one dataset |
| adapter registry, capability matcher (`registry.py`, `runtime.py`), operation taxonomy | immutable declarations | `from_mapping`, `lookup`, `match_resource_capabilities`, `stable_operation_entry` | one declaration decides for all requests; three tables of capabilities that must agree |
| contracts (`adapter_capability_requirement.py`, `provider_capability_offer.py`, `adapter_provider_compatibility_decision.py`, `provider_no_leakage_guard.py`) | none | validate a requirement and an offer, decide on both, project the decision for Core, guard it | errors are blamed on one of three contracts, before or after the provider's identity could get out |
| request admission (`runtime.py`, 551-790 and 2594-2684; `http_api.py`) | none | normalize and admit a request, answer over HTTP | three kinds of requests with different checks, a case that is answered instead of refused |
| version gate and its sources (`version_gate.py`, `real_adapter_regression.py`) | reports on disk between the calls | build three reports, `orchestrate_version_gate` | a report is rebuilt from what an earlier normalization left of it |
| operability gate (`operability_gate.py`) | a local artifact with results | `orchestrate_operability_gate` | evidence of several revisions, a file that carries none |
| answers (`read_side_collection.py`, `runtime.py` 2770-3298 and 3943-4811, `task_record.py` 1107-2055, `batch_dataset.py` 516-556, 763-849 and 1496-2029) | cursors, handed to the reader and back | take an adapter's answer or refuse it, record it, publish it in a batch, record the batch | three validations of one answer with three sets of rules; cursors that an answer hands out and the next request checks |
| leakage scanner, sample evidence | none | pure analysis of text | none that depends on order |
| CLI, HTTP API, bootstrap | none of their own | project requests and results | none |
| failure reports (`runtime.py`, 992-2435; `task_record.py`, 1500-1700) | the signal, log events, metrics and references of a task under way | built by each early return, each attempt and each retry | an error's details come from the adapter, and the runtime reads its own markers out of them |
| platform adapters, browser bridges (`syvert/adapters/`) | network, browsers | `adapter.execute`: sign, ask the platform, else the page, else the browser | any exchange may fail in seven ways; a fallback must not hide what the platform said, nor return another post |
| opening and merging a change (`scripts/open_pr.py`, `scripts/pr_guardian.py`, `scripts/integration_contract.py`, `scripts/item_context.py`) | the pull request on GitHub, a file of verdicts | open with a description made from a plan; review, record the integration recheck, review again, pass the gates, merge | every exchange may fail, the author edits and pushes meanwhile, whole descriptions are read and written back, what was recorded has to be undone |
| the rest of `scripts/` | the repository | guards of documents, commits and versions, pollers | none that depends on order |

### How they interact

- `execute_task` (a thread per task) takes the admission guard of its scope, looks
  at the scope's counter, and *keeps the guard* while it writes the task record
  and acquires resources; it takes a slot, releases the guard and starts the
  adapter's thread.
- An attempt calls `acquire` before the adapter and `release` after it. The ledger
  knows callers of other threads and of other processes: they share files only.
- A timed-out adapter thread that does not end in a grace period is left behind.
  Its lease is released as `INVALID`, its slot is released by a joiner thread.
- The commit of a ledger snapshot also merges audit events into the trace file.
- `execute_task` hands its record to the store at three points, and on failure
  has it invalidated; `query` and the HTTP API read it at any time.
- An answer that was taken hands out cursors (a continuation, reply cursors of comments); the
  reader puts one in the next request, or in an item of a batch.
- A batch calls `execute_task` for one item after the other and writes each
  success to the sink. Its caller, not the Core, keeps the state between runs.
- `open_pr.py` writes a description that `pr_guardian.py` reads again, before each review and
  before the merge; both read the item's plan from a tree of the repository, and what GitHub
  says of the issue and of the item of the other repository.
- Health evidence invalidates an account through `release` or through a split
  commit of its own.
- The decision validates a requirement by building an `AdapterRegistry` with an
  adapter made up for it, so contract and runtime share the registry's checks, but
  not its matching of profiles.
- Every request builds the registry anew from all adapters, before it is admitted.
- The regression sends the frozen cases of the reference adapters through
  `execute_task`; its report, the harness's and the leakage scan's are given to the
  version gate as data; the operability gate wants the result of a version gate as
  its baseline.

### What makes each component correct

- Ledger: no resource is leased twice, whatever callers read; a commit loses
  nothing of another caller's; `INVALID` is terminal (FR-0010); the file is always
  acceptable to `validate_snapshot`; `release` is honest about what it reports.
- Trace: says what the ledger says, no less (always) and no more (without crashes).
- Execution control: check-then-take of a slot is atomic; the limit holds for what
  really runs; nothing is leaked on any path; a retry inherits no lease; nobody
  gets resources that an abandoned thread still uses; every caller gets an answer.
- Task record: it goes forward only, a terminal result is final, an invalid record
  stays invalid, no success is reported without a record, and a query tells what
  was true.
- Batch: an envelope never claims a record that the sink does not have, a key is
  executed and recorded once, a resumed run does not repeat an item, and who
  goes on from the last envelope may go on.

- Contracts: a match rests on proofs that both sides cite, and what was matched is
  also matched when it runs; Core does not learn of the provider.
- Admission: what is admitted can be served; what is not is blamed on the right party.
- Answers: what is taken is an answer to the question and within its policy; what is taken
  can be recorded; the cursors it hands out lead on, inside the thread they belong to.
- Change: what is merged is what was reviewed and rechecked; a guardian that refuses leaves no
  trace; what may be opened can be reviewed.
- Resource health: an account goes to a task on the word of the latest reports only, and is taken
  from the task that the report is about only.
- Gates: a release called safe has earned it, whatever became of the reports on the
  way, and one that its sources pass is not refused.

`PROJECT.json` lists these dangers line by line under `hazards`.

## 2. Modules

| module | what it is |
|---|---|
| `ResourcePool` | abstract specification of the ledger: resources, holders, granted leases; `Add`, `Take`, `GiveBack` |
| `ResourceLifecycle` | the ledger, its trace, its callers, locks, faults and crashes |
| `ResourceLifecycleProofs` | theorems about `ResourceLifecycle`: that it implements `ResourcePool`, that the histories of its leases make every snapshot valid, and that its trace covers the ledger, and in which runs it says no more |
| `MCResourceLifecycle` | small instances for TLC |
| `AdmissionLimit` | abstract specification of a concurrency scope: enter below one's limit, leave |
| `ExecutionControl` | the Core's threads, over `ResourcePool`; shown to implement `AdmissionLimit` |
| `MCExecutionControl` | small instances for TLC |
| `ExecutionControlProofs` | theorems about `ExecutionControl`, among them that it implements `AdmissionLimit` |
| `TaskRecordTruth` | abstract specification of one durable task record: its life cycle |
| `TaskRecordStore` | record, marker and poisoned record of one task id, its submissions and a query; shown to implement `TaskRecordTruth` |
| `TaskRecordStoreProofs` | theorems about `TaskRecordStore`, among them that it implements `TaskRecordTruth` |
| `MCTaskRecordStore` | a small instance for TLC |
| `BatchRun` | batches, their envelopes and the dataset sink |
| `BatchRunProofs` | theorems about `BatchRun` |
| `MCBatchRun` | small instances for TLC |
| `Checks` | chains of checks that stop at the first fault, or collect all of them |
| `OperationTaxonomy` | the table of operations and its validation |
| `ResourceProfiles` | resource declarations, the proofs they rest on, the registry, the matcher |
| `RequestAdmission` | from a request to a refusal, an answer, or a match; the HTTP status |
| `CompatibilityDecision` | requirement, offer and context; the decision, its projection for Core, the guard |
| `VersionGate` | the reports of the three sources, how the gate reads them, its verdict |
| `ReferenceRegression` | the regression of the reference adapters, over `RequestAdmission` and `VersionGate` |
| `OperabilityGate` | the cases, their evidence and their baseline |
| `ReadSideResults` | pages of hits and of comments, their items, continuations and cursors |
| `SuccessPayloads` | which answers the runtime takes for a question, for all operations |
| `RecordedResults` | which of these the task record takes, a batch publishes, and the record of the batch takes |
| `ReadingSession` | a reader who goes from question to question with cursors out of answers |
| `Fetches`, `XhsFetch`, `DouyinFetch` | the fetch of a post by a reference adapter, one action for each exchange with another party |
| `FailureReports` | what the runtime says of a task that fails, over its attempts, and whether the task's record takes it |
| `SessionHealth` | reports on sessions, the admission that rests on them, the invalidation that follows from one |
| `IntegrationGate` | the integration contract of a change: payloads of issue and pull request, the live state behind the reference |
| `ItemContext` | the plan of an item in a tree of the repository, and what it is bound to |
| `ReviewArtifacts` | what a description gives a reviewer to go by, checked on a tree |
| `OpenPullRequest` | which proposals may be opened, and the description that is made of one |
| `GuardedMerge` | the guarded merge next to an author who pushes and edits |
| `GuardedMergeProofs` | theorems about it, as a part of `ReleasePath` |
| `ReleasePathProofs` | theorems about the other parts of `ReleasePath`: the rulings of `SessionHealth`, the verdicts of `VersionGate` and `OperabilityGate` |
| `ReadingProofs` | theorems about the readers in `ReleasePath`: decisions, requests, questions, answers, fetches and failures |
| `ReleasePath` | composes the modules from `OperationTaxonomy` on: each step is a call on what the calls before it left |
| `MCReleasePath` | valid arguments for every step, and arguments with one or two defects: trees, proposals and pull requests; contracts, registries and requests; answers of each kind; what each party answers to the reference adapters; reports, calls and ledgers |

The ledger and the execution control meet in `ResourcePool`: the ledger implements it, and the
execution control is written on top of it, so that neither needs the other's
details.

### ResourceLifecycle and the code

State: `durable` is the snapshot file, `events` the trace file (its order
abstracted), `lock` the holder of both file locks while it is between its two
writes, `undo` the trace it read under the lock. Each caller has a `pc`, the call
`op` it is in, the snapshot `next` it wants to commit, and the `fresh` events that
go with it: local variables of `acquire`, `release` and the split invalidation.

| action | code |
|---|---|
| `Call`, `LoadFails` | entry of a call; `load_snapshot` fails |
| `AcquireRefused`, `AcquireSubmit` | one round of the loop of `acquire`, from reading the snapshot to handing the update to the store |
| `ReleaseRefused`, `ReleaseRepeated`, `ReleaseSubmit` | one round of the loop of `release` |
| `InvalidateRefused`, `InvalidateRelease`, `InvalidateSplit` | `invalidate_active_lease_from_health_evidence` |
| `CommitStale`, `CommitTraceConflict`, `CommitTraceFails`, `CommitTrace` | `commit_with_trace` up to the trace write: revision check, merge, write |
| `CommitSnapshot`, `CommitRollback`, `CommitRollbackFails` | its snapshot write, and the roll back of the trace |
| `Crash` | the process of a caller dies anywhere; its locks go with it |
| `Seed` | `seed_resources` |

The steps are those between which another caller can act: a read of the
snapshot, the check and first write under the locks, the second write. A status
is the whole record of a resource: material and type never change. A lease's
`pos` is its place in the list, which `validate_snapshot` uses to order equal
times. Times are read from a set in any order, because the code uses the wall
clock.

### ExecutionControl and the code

State: `guard` and `inFlight` are the two module-level dictionaries of
`runtime.py`; `state`, `holder`, `spent` are the pool; `record` is the status of
the durable record; `slots`, `joiners` and `running` are the slots attempts will
release themselves, those left to joiner threads, and the live adapter threads.

| action | code |
|---|---|
| `Submit`, `TakeGuard`, `Admit`, `Reject` | entry; `lock.acquire()`; the check of the counter, initial and before a retry |
| `PersistAccepted`, `PersistRunning`, `Match` | record writes and capability match, with their early returns |
| `Acquire`, `ResolveLease`, `TakeSlot`, `Launch` | an attempt up to its adapter's thread |
| `AdapterReturns`, `TimesOut`, `AdapterReturnsLate`, `Abandon` | `run_adapter_attempt_with_timeout` |
| `AdapterExits`, `JoinerReleases` | what an abandoned thread and its joiner do later |
| `Settle`, `Finish`, `Decide`, `Finalize` | release of the lease, `finish_attempt` and `finally`, the retry decision, the terminal record |

Envelopes are reduced to what the control flow reads: `success`, `retryable`
(a timeout that was closed out, or a platform error marked retryable), `failed`,
and `raised` for an exception. Whether a match, an acquire, a ledger read, a
release or a record write fails is a free choice. Exceptions leave an attempt in
three places: the adapter's thread cannot be started (`Launch`), the joiner of an
adapter that hangs cannot be started (the second disjunct of `Abandon`), and a
release raises (`Settle`). In the second case the `finally` clause gives the slot
back while the adapter runs on: `SlotAccounting` excepts such a thread
(`Abandoned`), and `SlotCoversThread` says what FR-0016 wants of it.

Two error branches of the code are not in the model because no run of it reaches
them: the underflow errors of guard and counter. `SlotAccounting` and `TypeOK`
say why. The branch for a slot that vanished after guarded admission *is* in
`TakeSlot`, and `GuardedAdmission` says that it is dead code.

### TaskRecordStore and the code

One task id. `file` and `marker` are the two files beside each other; `file` may
hold a record, nothing, or the poison that `mark_invalid` writes last. A record
keeps its status, its request, the times of its log, its result and the entries
observed about the task. `mine` is the record a submission has in hand. `seen` is
a history variable for the statement about `load`, `lost` one for the statements
about writes that overlap.

| action | code |
|---|---|
| `Create`, `Start`, `Execute` | `create_task_record`, `start_task_record`, the adapter and `finish_task_record`, as `execute_task_internal` calls them |
| `CheckInvalid`, `LookForExisting`, `ReadExisting` | `LocalTaskRecordStore.write` up to its reconciliation: is there a marker, is there a record, what does it say |
| `Replace`, `ReplaceFails` | `os.replace` in `_write_json_atomic`, on whatever is there by now, or an I/O error on the way to it |
| `WriteMarker`, `MoveRecord`, `PoisonRecord` | the three fallbacks of `mark_invalid`, each of which may fail |
| `Crash` | the submitting process dies between two steps; files are replaced atomically, so no half written one remains |
| `BeginLoad`, `CheckMarker`, `CheckExists`, `ReadRecord` | `load`, step by step |

Submissions of one id arise when a caller passes its own `task_id_factory` and
tries again. `persist_task_record` sends a conflict to the caller (`Conflict`),
any other failure to `mark_invalid` (`Failure`), and goes on with what `write`
returns (`Stored`).

The store has no lock, and the steps of a write, an invalidation and a load
interleave with those of every other submission. Two submissions are that close
when they are of two processes, or of policies that are counted in different
scopes; within one scope the admission guard is held from the first write to the
launch of the adapter, and only the last write is outside it. Of two writes that
overlap the later mostly does no harm, as it replaces a record that it could as well have
read. It does harm when a marker has appeared since it looked, or a record that its
own would not be reconciled with: `Overtaken` says so, and `lost` remembers it.
The properties of the store say what holds as long as `lost` is false, for FR-0008
(`spec.md` line 129) does not ask for locks; what the same document asks for
without any condition (line 38) is `TerminalStays`, and the code does not keep it.

### BatchRun and the code

`sink` is the list of records of a `ReferenceDatasetSink`, `run` the local state of
the one `execute_batch_request` in progress, `issued` the resumable envelopes that
callers still hold, each of which stands for its token as well: the token's
position is the number of outcomes. `promise` is a history variable: the last
envelope of a batch each run of which continued from the one before.

| action | code |
|---|---|
| `Start`, `Resume` | entry of `execute_batch_request`, without and with a token; `Accepts` is the validation of position and prefix |
| `SkipDuplicate`, `ItemFails`, `SucceedsWithoutSink`, `SucceedsInSink` | one round of its loop |
| `Interrupt`, `Finish`, `Abort` | a resumable envelope, a final one, an exception |
| `LoseSink` | the process ends: the sink was in memory |

A token that does not belong to its batch, or is not well formed, is refused by a
comparison of fields that the model does not repeat: callers present envelopes
they were given. The outcome of an item's task is a free choice.

### ReleasePath and the code

The modules it composes hold pure functions; the state is what passes from one call
to the next. `items` is the registry's mapping of adapters, `want` the requirement
that a registered adapter was decided on with, `built` the source reports as they
were made and `reports` as the gate gets them, `artifact` the local file of case
results.

| action | code |
|---|---|
| `Contribute` | `main` of `open_pr.py`, then `merge_if_safe` of `pr_guardian.py`, one step for each exchange with GitHub, and the steps of the author: `GuardedMerge` |
| `DecideOn` | `decide_adapter_provider_compatibility` |
| `RegisterDecided`, `RegisterOthers` | `AdapterRegistry.from_mapping`, with or without the adapter of a matched decision |
| `SubmitRequest` | `execute_task` up to the matcher, or `TaskHttpService.submit` |
| `Execute` | the admitted request goes to the adapter: `ReadingSession!Dispatch` |
| `Read` | `AnswerTask`: `run_adapter_attempt_with_timeout` from the adapter's answer on, `finish_task_record`, and what `_outcome_from_task_envelope` would make of it; `Follow`: the reader's next request, up to its refusal or admission |
| `Fetch` | `XhsStep`, `DouyinStep`: one exchange of `fetch_content_detail` of `syvert/adapters/xhs_provider.py` or `douyin_provider.py` with the signing service, the platform, the page or the browser; `Expires`: the timeout of the attempt |
| `Undertake`, `Try` | `execute_task_internal` and its loop of attempts, seen from what is reported: `FailureReports` |
| `Govern` | `decide_resource_health_admission` on the reports that have come in, or `invalidate_active_lease_from_health_evidence` with one of them and a ledger: `SessionHealth` |
| `Rehearse` | `build_harness_source_report`, `run_real_adapter_regression`, `validate_platform_leakage_source_report` |
| `Alter` | outside the code: a stored report is lost (the gate's `reports` has none for its source), swapped or edited |
| `DecideRelease` | `orchestrate_version_gate` |
| `RunCases` | `build_runtime_evidence` of `tests/runtime/render_operability_gate_artifact.py` writes the artifact |
| `Certify` | `orchestrate_operability_gate`, with a baseline from outside or with the result of the version gate |

What is abstracted. A field of a wrong type or shape is `None`, or a name in a set of
flaws; all such fields of one record lead to one fault, in the place in the order
of checks where the code has them. A failure is its code. The frozen fields of an
operability case are one comparison (`says`). What an adapter answers to a
regression case, what the harness observed and what the scan found are inputs.

The session (`ReadingSession`) keeps the question `ask`, the `answer`, its `outcome` and the
`thread` of comments the reader entered last, which is known to no part of the code. An
answer is a record of the fields that the checks relate to each other; fields that only
have to have a type are one flag `sound` of their object, and a string is one of its
classes (empty, blank, with a URL, with a word like `session`, with a path). A follow-up
request differs from an admitted one in its cursor, so only what checks the cursor is
evaluated again.

`GuardedMerge` keeps the pull request as GitHub has it (`change`), the guardian's file (`saved`)
and its run: `current`, `meta` and `verdict` are the looks at the pull request that
`merge_if_safe`, `review_once` and the writers of the recheck hold in variables, so that a look
may be old when it is used. `at` names the exchange that comes next. Every call may fail, into
the `except` that the code has for it, or, where it has none, into the end of the process
(`Die`). A tree (`ItemContext`) has plans, suites and decisions as records of what the scripts
read of them; whether the text of a suite is in order is a flag.

`SessionHealth` keeps the reports that were made (`reported`), the call they were put to
(`governed`) and what it returned (`ruling`). Times are numbers; a report's context is compared
as a whole; fields that have to be present, of a type, redacted or free of words like `token`
are a set of flaws. The ledger is an argument here: its file, its locks and the failures of
the write belong to `ResourceLifecycle`, whose `Invalidate` actions stand for the same code.

A fetch (`Fetches`) keeps the source that is asked next, the error so far, the sources asked
and the one that answered. A reply is the kind of its failure, or an object with the fields
that the adapter reads. `FailureReports` keeps of a task the number of its attempts and the
entries of its envelope, each reduced to its kind, its ids and what it refers to.

Some things that the model shows of the code, none of which contradicts a document
of the repository:

- The guardian reads the description, and writes it back as a whole with the recheck set: an
  edit in between is lost, although the message of the check before
  (`scripts/pr_guardian.py` 702) speaks of refusing to overwrite one. The same goes for taking
  the recheck back.
- Of the last look only the head is handed to `gh pr merge`: the description may be edited, and
  a check turn red, between the look and the merge (`MergedIsReviewed` speaks of an author who
  keeps still). The verdict is filed under the head that was read, but the tree is fetched
  afterwards: with pushes to and fro a head may be merged on a verdict of another tree.
- A guardian that dies, or whose look at the pull request fails after the second verdict, leaves the
  recheck recorded (`NothingLeftBehind`); the next run finds `yes`, and puts `yes` back.
- Opening and reviewing differ in what governs a plan: the guardian takes "n/a" in a binding for a
  path, and wants a decision that an `FR` without a specification names, which the description
  does not give. Such a pull request is opened and never passes (`OpenedIsReviewable`).
- One adapter with a bad declaration fails the registry, and so every request to
  every adapter (`MatchedWouldRun`, a part of `AdmittedIsServable`, has "every other adapter is sound" as its premise).
- A comment collection with a bad cursor is recorded as a *success* without
  comments, before any resource is asked for and without the admission guard.
- A `CoreTaskRequest` is not checked for an opaque creator id; a `TaskRequest` is.
- The guard in front of Core recognizes only identities that the decision itself
  cites as evidence; an offer without `observability.offer_id` has none, and the
  guard passes its decisions. That no identity gets out rests on the decision's own
  check of its id.
- That check comes before the contracts are validated, so it also covers an offer
  that is then refused; but an input that drifted from the canonical surface is
  refused before it, with the id it came with.
- Only `v0.2.0` is frozen in the version gate and the operability gate wants a
  baseline of `v0.6.0`: no result of the version gate is its baseline as it stands
  (`OperabilityIsBound` says so with `OwnBaseline`).
- A report counts even if it was observed after the time of the decision: a reporter whose
  clock is ahead outvotes the others until they catch up. And the health decision looks at the
  reports and at the material only, not at the status of the account; that an `INVALID` one
  is not leased rests on `acquire`.
- Only posts and media assets can carry a disposition hint: for the other operations it is
  an unknown field, and the whole answer is refused.
- An answer with a value that is not JSON is taken, the lease is settled as after a success,
  and then the record is marked invalid and the caller is told
  `envelope_not_json_serializable`.
- The continuation token of a search or list is not looked at when the answer is taken; one
  that contains a URL or a path is recorded, and the next request with it is refused. A
  batch does not publish it (`PagesContinue` has both cases).
- The file behind an actual result is compared by case and by value. Its own
  revision is written but not read.
- Douyin's interface is believed about the id of a post: with an answer for another
  `aweme_id` the adapter returns that post under the canonical URL of the one that was asked
  for (`FetchIsThorough` excepts it; the page and the browser are checked, and so is XHS).
- A page that is read too slowly (a timeout of the read, which is neither an `HTTPError` nor
  a `URLError`) ends a fetch as `adapter_execution_error` without a look into the browser.
- Any reply of XHS with a `code` or a `msg` is a refusal, even with `success: true`.
- The exchanges of a fetch have ten seconds each and may together take longer than the thirty
  of the task's timeout.
- A timeout whose closeout is not proven returns without references to its resource trace
  and to its attempt, and in a second attempt its signal carries the index 1.
- Details of an adapter's error that look like Core's (`retry_exhausted`,
  `execution_control_event`, `resource_trace_refs`) decide what Core reports; details that
  are not JSON make the record refuse the task even if a later attempt succeeds, because
  the first attempt's reference carries them.

## 3. Runs

Each run finishes within three minutes on two cores. Every property listed has a
mutant in `PROJECT.json` that breaks it.

| run | instance | checks |
|---|---|---|
| `ledger_contention` | 2 callers, 2 accounts, 1 proxy, 2 leases, late second bootstrap, one failing snapshot write, one clock reading | `TraceInLockstep`, `ImplementsPool`, `LedgerAppendOnly`, `InvalidIsTerminal`, `ReleaseAnswerHonest` |
| `ledger_faults` | 2 callers, 1 account, 1 proxy, 2 leases, one fault of any of six kinds, a clock that reads 0 or 1 in any order | `TypeOK`, `LeaseExclusivity`, `SnapshotsValid`, `TraceCoversLedger` |
| `ledger_trace_orphan` | as above, one clock reading | violates `TraceInLockstep` |
| `execution_control` | 2 tasks in one scope with limits 1 and 2, both may retry, 2 resources | `TypeOK`, `SlotAccounting`, `GuardedAdmission`, `NothingKept`, `LimitKept`, `NoSharing`, `LeaseDiscipline`, `TasksReturn`, `SlotsComeBack`, no deadlock |
| `execution_stuck_record` | as above | violates `RunsConverge` |
| `task_records` | 2 submissions with the same request or different ones, a clock that reads 1 or 2 in any order, one success and one failure, two versions of one observed entry | `TypeOK`, `ExecutesOnRecord`, `SuccessIsDurable`, `TruthKept`, `LoadTellsTruth`, `ObservabilityGrows` |
| `task_record_overwrite` | as above | violates `TerminalStays` |
| `batch_resume` | 3 batches of 3, 2 and 2 items, the first two on one dataset, with a repeated key, a shared key and shared item ids; 3 envelopes kept | `TypeOK`, `FirstWins`, `SuccessIsRecorded`, `NoSecondDispatch`, `PromiseKept` |
| `batch_rewind` | the first of these batches | violates `RewindRefused` |
| `release_path` | proposals of four classes on 42 trees with 12 differences each, single defects of the integration payload with 6 issues; pull requests made by hand; two runs of the guardian (`MaxRuns`) and two steps of the author (`MaxEdits`); all families and kinds of profiles on both sides of a decision, single defects of requirement, offer, context and input in all combinations; 22 registries; requests of three kinds with a defect in each part; sessions of up to three questions (`MaxPages`) over all operations and cursors, with each of its answers (`MCAnswersTo`) to each; fetches of the reference adapters with 7 materials and every reply of the parties they ask; tasks with up to three attempts (`MaxAttempts`) that fail with each of 14 errors; every defect of each source report, and ten alterations of each; 13 calls of the version gate; 44 of the operability gate, over two revisions; up to three reports (`MaxHealthReports`) out of 19 on two accounts, by three clock times, put to 14 admissions, or one of them with each of 8 ledgers to the task that it is about or another | `MergedIsReviewed`, `MatchedIsBacked`, `SessionsAreGoverned`, `AdmittedIsServable`, `ReleaseIsEarned`, `GateAgreesWithSources`, `OperabilityIsBound`, `AnswerIsRecorded`, `FailuresAreExplained`, `PagesContinue`, `AnswerFitsRequest` |
| `batch_unrecorded` | as above | violates `BatchIsRecorded` |
| `timeout_uncounted` | as above | violates `TimeoutsAreCounted` |

Why the bounds are enough. A revision conflict, a stale selection, a settlement by
somebody else and a roll back under contention each need two callers; a third
adds no new pair of steps. Two leases let a resource be reused, and their ids are
also what bounds the revision. One fault per behaviour covers each fault at each
step; two would be needed only by a property of recovery from recovery. Two
accounts make the selection after a conflict differ from the one before. Two
tasks under different limits contend for a slot and for a resource, and one of them may
enter where the other may not; a scope that two others occupy takes a third task,
and that is left to the proofs, which hold for any number of tasks. Two attempts are a retry
and the end of retries. Two submissions of an id are one that writes and one that
meets what was written; two clock readings give every order of two log times, and
a third would only repeat it. Three envelopes are a batch's two resumable
positions and one of another batch, so an old token, a new one and a stranger's
meet in one state.

Two runs of the guardian are one that leaves a verdict or a recheck behind and one that finds
it; two steps of the author are a push and a push back, or an edit of the description under
each of the guardian's two writes.

`release_path` is otherwise a path of at most eight calls on arguments; its bound is the sets of
arguments in `MCReleasePath`. Each has, for each condition of the code that the
model keeps, an argument that fails it and is valid otherwise, because a check that
is missing shows only when no other check refuses the same argument. Pairs of
defects are there where the order of checks matters: between requirement, offer,
context and input, and between a report and what became of it on its way. Lists
have one or two entries, or three where an entry repeats another. Two profiles
on each side give every way in which declared lists can overlap. Three questions are a first
page, a step into a thread and a step inside it, and a comment that answers
a reply needs the third. A limit of no, one and any number of bytes meets downloads of
none, one and two. The run says
nothing of values that the modules abstract away.

The callers of the ledger, and the submissions, requests and entries of
the task record, are symmetric; the properties of the runs that use symmetry are
safety properties.

In the ledger a state in which nobody has a call to make is possible only with
all lease ids spent, and even then a release can be called, so deadlock is
checked there too. In `ExecutionControl` the end of all tasks is the action
`Terminated`; any other state without a step is a deadlock. A path of `ReleasePath` ends
at a decision, a reply or a verdict, so its run does not check for deadlock.

### Fairness

`ExecutionControl` assumes weak fairness of each task's own steps and of each
joiner: they are threads that the interpreter schedules, and a timeout expires.
It assumes nothing of adapters, which may hang, nor of callers. A Python lock is
not fair, but a task competes for the guard once per attempt, so there are
finitely many others to wait for and weak fairness is enough. `TasksReturn` is
therefore a statement about the Core alone; `SlotsComeBack` has the end of the
abandoned threads as its premise. The ledger is specified without fairness: its
retry loop ends only if others stop committing, and the code promises no more.

### Disagreements found

1. `TraceInLockstep` fails when a crash, or a failed roll back, hits between the
   two writes of `commit_with_trace`, though
   `docs/specs/FR-0011-task-bound-resource-tracing/risks.md` line 8 has tracing
   and transition succeed or fail together. When the orphaned event closes a
   lease, each later `release` of the lease is refused by the merge, because the
   event id is the same and the time is not: the resources stay `IN_USE`.
2. `NoRawStoreFailure` fails: a repeated `release` whose trace cannot be read
   raises `ResourceTracePersistenceError`, against the docstring of
   `ResourceLifecycleStore`.
3. `RunsConverge` fails: an exception that leaves an attempt leaves the record
   `running`, and the lease active if the adapter's thread, or the joiner of an
   adapter that hangs, could not be started, against `docs/specs/FR-0016-minimal-execution-controls/spec.md` line 56.

4. `RewindRefused` fails: a token for the first item (a run stopped before any
   item) skips both validations, because `execute_batch_request` asks
   `if start_index`, and is taken up after the sink has moved on, against
   `docs/specs/FR-0445-batch-dataset-core-contract/spec.md` line 126. The items it
   repeats then fail with `dataset_write_failed`, and the envelope issued after
   that is refused in its turn.
5. `LoadFindsRecord` fails: a load that looks for the marker before, and for the
   record after `mark_invalid` moved the one to the other's place reports
   `task_record_not_found`, which
   `docs/specs/FR-0009-cli-task-query-and-core-path/spec.md` line 61 reserves for
   an id without a durable record.

6. `SlotCoversThread` fails: the joiner of an adapter that hangs is started with
   `threading.Thread(...).start()` (`runtime.py` 1492); if that raises, the slot is
   released while the adapter runs and its lease is unsettled, against
   `docs/specs/FR-0016-minimal-execution-controls/spec.md` line 53, which has the
   slot cover the attempt and the closeout of its timeout. The limit of a scope is
   then one of attempts only.
7. `TerminalStays` fails: a second submission of a task id that read the record
   before the first wrote its terminal one replaces it by an `accepted` or a
   `running` record (`task_record_store.py` 58-63), against
   `docs/specs/FR-0008-task-record-persistence/spec.md` line 38. Who was told
   success, or who loads at that moment, then has no durable result.
8. `BatchIsRecorded` fails: the record of a batch refuses some of what the batch
   publishes, against `docs/exec-plans/CHORE-0448-v1-6-batch-dataset-consumers.md`
   line 60. The public envelope leaves out the cursors and policies of the items, and
   `validate_batch_success_terminal_envelope` (`task_record.py` 1164-1373) validates
   each outcome as an answer to an item without them. For comments it infers a
   thread, and takes a page that a page cursor asked for, with replies of one comment on it,
   for a page of that comment's thread; for a media asset it compares the policy
   that the answer repeats with the *default* policy. The batch completes and cannot
   be recorded. `AnswerIsRecorded` states which questions can be read back.
9. `TimeoutsAreCounted` fails: a timeout of `content_detail_by_url` may be retried, so
   when the attempts are used up, under the default policy after the first, its phase is
   `retry_exhausted` and its metric `task_failed_total`, although its log event is
   `timeout_triggered`; scenario 3 of
   `docs/specs/FR-0017-runtime-failure-observability/spec.md` (line 146) has the metric
   `timeout_total` with it. Scenario 4, which has the phase, says nothing of the metric.

All nine were reproduced with the Python code by making the operation in question
fail, or by placing the calls in that order. Six have a run of their own. The others
are a second, smaller one of a component that has such a run: 2, 5 and 6 are
stated by `NoRawStoreFailure`, `LoadFindsRecord` and `SlotCoversThread` beside the other
properties of their modules, and TLC refutes each with the constants of `LedgerTraceOrphan.cfg`,
`TaskRecordOverwrite.cfg` and `ExecutionStuckRecord.cfg`.

## 4. Proofs

`ResourceLifecycleProofs` proves, for every finite or infinite set of callers,
resources, tasks and adapters, and every bound:

| theorem | statement |
|---|---|
| `Invariance` | `Spec => []IInv` |
| `TypeCorrectness` | `Spec => []TypeOK` |
| `Exclusivity` | `Spec => []LeaseExclusivity` |
| `AppendOnly` | `Spec => LedgerAppendOnly` |
| `InvalidStays` | `Spec => InvalidIsTerminal` |
| `HonestAnswers` | `Spec => ReleaseAnswerHonest` |
| `Refinement` | `Spec => ImplementsPool` |

Assumptions: those named in `ResourceLifecycle` (resource ids are naturals,
accounts and proxies are disjoint, batches assign statuses to resources, and so
on); TLC evaluates them in every ledger run.

The argument. Exclusivity is not inductive: a commit writes what a caller prepared
from an earlier file. `IInv` therefore speaks of the copies as well:

- `TypeOK`;
- `UniqueHolder` of the file: exclusivity itself;
- `Scoped`: an invalidation lease is never active and exists only beside its
  settled origin;
- `FreshIds`: the lease id in the hands of an acquire is not in the file and in no
  other hands;
- `CopiesFit`: a copy that waits for its commit is at most one revision ahead of
  the file, and if it is one ahead it was built by its operation from the very
  file that is there now. This is what the comparison of revisions buys;
- `LockHeld`: who is between the two writes holds the lock, and its copy is one
  revision ahead.

Each action preserves each conjunct; `CommitSnapshot` is the step where
`CopiesFit` turns into facts about the file, and where a refinement step of
`ResourcePool` happens: `AcquireSnapshot` maps to `Take`, `ReleaseSnapshot` and
`SplitSnapshot` to `GiveBack`, `Seed` to `Add`, and everything else to a stutter.
`IInv` was checked by TLC on the instance of `ledger_faults` before it was proved.

`ExecutionControlProofs` proves, for every finite set of tasks, any scopes,
resources and policies (tasks of one scope may disagree about its limit):

| theorem | statement |
|---|---|
| `Invariance`, `TypeCorrectness` | `Spec => []IInv`, `Spec => []TypeOK` |
| `Accounting` | `Spec => []SlotAccounting` |
| `AdmissionIsGuarded` | `Spec => []GuardedAdmission` |
| `KeepsNothing` | `Spec => []NothingKept` |
| `ThreadsDoNotShare` | `Spec => []NoSharing` |
| `LeasesAreSettled` | `Spec => []LeaseDiscipline` |
| `LimitRefinement` | `Spec => LimitKept` |

Its `IInv` says, for each point of the code a task can be at, what the task has
there: `GuardPlaces` the guard (between the check and the launch always, at
`settle` and `finish` perhaps, elsewhere never), `SlotPlaces` the slot and its
passage to a joiner, `ThreadPlaces` the adapter threads, each of which is
waited for, left to a joiner, or left by an exception, `LeasesFit` the lease.
`Counted` ties the counters to the sets. The step that carries the argument is
`AdmissionStep`: the counter grows only in `TakeSlot`, whose task has the guard,
so no other task of its scope can be between its check and its slot. `PoolStep`
is its counterpart for resources: a thread outlives its attempt only by `Abandon`,
which fixes `INVALID` as the status its lease is released with. The assumptions
are the four named in `ExecutionControl`. The fairness of `Spec` is not used.

### The trace and the histories of the ledger

The second part of `ResourceLifecycleProofs` goes on from `IInv`, under the same assumptions:

| theorem | statement |
|---|---|
| `TraceInvariance`, `TraceCovers` | `Spec => []TInv`, `Spec => []TraceCoversLedger` |
| `Lockstep` | `Spec => []TraceInLockstep`, if neither a roll back fails nor the process dies (`"rollback"`, `"crash"` not in `FaultKinds`) |
| `HistoryInvariance`, `AlwaysValid` | `Spec => []HInv`, `Spec => []SnapshotsValid` |

The trace is written first and the snapshot second, so what a crash leaves behind is a trace
with words about a snapshot that never came. `TInv` says what such a trace may say: each of its
events is about a resource of its lease, or about the account that a split was to
invalidate (`EventFits`); no event is about a lease that an acquire has not committed yet
(`Unheard`), for else the id could be used again with other resources; and while the lock is
held, all this is so of what `undo` would restore (`LockedTrace`). `FreshFits` ties the events in
a caller's hands to the snapshot that it goes with. `Lockstep` has the assumption that the run
`ledger_trace_orphan` shows to be needed.

`SnapshotsValid` is what `validate_snapshot` asks of a history, and the clock may step back
between two leases. `HInv` says why the histories are in order all the same: the leases of a
resource follow one another in the list (`Placed`, `Ordered`), each settled one ends, by the clock
too, before the next begins, since `acquire` and `release` refuse a time that would be earlier,
and the newest decides the resource's status, with a lease that made it `INVALID` the newest
forever (`NewestDecides`). It says so of the copies that wait for a commit as well.

### The other modules

`TaskRecordStoreProofs`, for any submissions, requests, results and clock, and for writes that
overlap in any way:

| theorem | statement |
|---|---|
| `Invariance`, `TypeCorrectness` | `Spec => []IInv`, `Spec => []TypeOK` |
| `DispatchOnRecord`, `DurableSuccess` | `Spec => []ExecutesOnRecord`, `Spec => []SuccessIsDurable` |
| `TruthfulLoad`, `GrowingObservability` | `Spec => LoadTellsTruth`, `Spec => ObservabilityGrows` |
| `Refinement` | `Spec => TruthKept` |

Its `IInv` ties three things to each other: the record in a submission's hands, at the status
that the next line of code expects (`RecordsHold`, `StagesHold`); the file, which has the request
of whoever is executing and the envelope of whoever reported success, unless the history was
declared invalid or a write is lost (`DispatchHolds`, `SuccessHolds`); and a load that is half done,
whose answer was the truth at one of its moments (`LoadHolds`). Between the reading of a record and the replacing
of it nothing is known of the file; but a replace that does not overtake anybody puts a record
there that would be reconciled with what it replaces, and of such a pair the one continues the other (`Follows`). `Refinement` therefore maps to `TaskRecordTruth` with its `lost`: a
`Replace` that overtakes is a `Lose`, every other step keeps the life cycle. The lemma `ReconcilesFacts` says what
`reconcile_persisted_record` makes of two records: a first one, the one on file, its successor, or the same
terminal one with more observed.

`BatchRunProofs`, for any batches, targets, datasets and number of resumptions:

| theorem | statement |
|---|---|
| `Invariance`, `TypeCorrectness` | `Spec => []IInv`, `Spec => []TypeOK` |
| `FirstAlwaysWins`, `DispatchesOnce` | `Spec => []FirstWins`, `Spec => []NoSecondDispatch` |
| `SuccessAlwaysRecorded`, `PromiseIsKept` | `Spec => []SuccessIsRecorded`, `Spec => []PromiseKept` |

What carries it is `DedupHolds`, that a resumed run has the very deduplication state of one that
was never interrupted, and `PromiseHolds`: the last envelope of a batch passes every check
against the sink as it is now (`Upheld`), although other batches write to that sink, because
nothing they write has its identity and the first record of a key stays the first.

`GuardedMergeProofs`, for any proposals, trees, answers of GitHub, and any number of steps of the
author and runs of the guardian:

| theorem | statement |
|---|---|
| `MergeInvariance` | `Spec => []MInv` |
| `MergesAreReviewed` | `Spec => []MergedIsReviewed` |

`MInv` says for each place in `merge_if_safe` what the run has there: a verdict that is the one on
file, on a tree that the pull request once had (`VerdictCounts`, `Rooted`); a recheck to record, or
one on record to take back (`RecheckStands`); an issue whose contract fits the description
(`ContractSeen`); and, as long as the author does nothing, a pull request that is what the run
began with, or that with the recheck on record (`Calm`), from which it follows that a refusal leaves
nothing behind. The assumptions say which shapes trees, proposals and pull requests have (`TreeAssumption`,
`ProposalAssumption`, `BranchAssumption`). The part `OpenedIsReviewable` has no steps: it relates two
ways to read the same plan, and is proved by cases on the specification that the plan has
(`FormalFits`, `BootstrapFits`, `OwnSuiteFits`). The proof showed a third case in which `open_pr` and
`pr_guardian` differ, additional specifications beside no formal one, which no tree
of the instance had; the property names it now, and the instance has four more trees.

`ReleasePathProofs`, for any reports, calls and ledgers:

| theorem | statement |
|---|---|
| `HealthInvariance` | `Spec => []HealthInv` |
| `SessionsGoverned` | `Spec => []SessionsAreGoverned` |
| `GateInvariance` | `Spec => []GateInv` |
| `ReleaseEarned` | `Spec => []ReleaseIsEarned` |
| `CertInvariance` | `Spec => []CertInv` |
| `OperabilityBound` | `Spec => []OperabilityIsBound` |
| `BuiltInvariance` | `Spec => []BuiltInv` |
| `GateAgrees` | `Spec => []GateAgreesWithSources` |

`HealthInv` says only that a ruling is that of its call for as long as it is looked at; the rest is
about functions. `AdmittedOnHealth` takes the chain of checks of an admission apart. `VouchedFor`
finds the latest report on an account, which takes a finite set of reports, and `InvalidShutsOut`
lets one report undo an admission. `SettledIsScoped` follows the settlement through the ledger and
rests on `LedgerAssumption`: that active leases share no resource and ids are unique, which
`ResourceLifecycleProofs` proves of every ledger there is (`Exclusivity`).

`GateInv` says what the reports are while they are on their way to the gate: each is what its source
made of some readings or what an alteration left of that (`SourcesReport`, `AlteredAreReports`), and a result on
show is the gate's for the call and the reports beside it. That a safe result is earned is then a
chain of three kinds of facts. A check that finds nothing has passed every one of its tests
(`FirstFaultFacts`, `NoFaults`, `SafeIsFaultless`). A list that is judged entry by entry and
yields no finding was kept whole, in its order (`AtAllPlaces`, `SoundEntriesAreKept`, `ReadWithoutFailures`),
so that what is counted later is what was read (`CountedOff`). And each source's report, read that way, is one
that its own terms accept (`HarnessIsEarned`, `RegressionIsEarned`, `ScanIsEarned`), which `SafeIsEarned`
puts together. None of it bounds the length of a list, where TLC has lists of a few entries.
`OperabilityBound` goes the same way. `CertInv` says that the operability gate is reached only behind a
safe version gate, which `ReleaseEarned` shows to be one for `v0.2.0`, so that its result is never a
baseline for `v0.6.0`; `NotFailedIsSound` finds for each mandatory case that is not counted as failed
the one entry of the list that is it, and `SafeIsBound` takes a gate without failures apart.

`GateAgrees` is the converse as well, which is the harder half: a source that passes has its report
dropped to what its details keep and rebuilt by the gate, and nothing may come of that. `BuiltInv` says
that the reports as they were made are those of one rehearsal, a passing regression with the
entries it was run on. From a report that passes follow the terms it met (`HarnessChecks`, `RegressionChecks`,
`SoundRegressions`); the details are then the very lists it was made from (`SoundEntriesAreKept`, `ReadPasses`),
so that the rebuilt report meets them too (`HarnessReadsClean`, `RegressionReadsClean`, `ScanReadsClean`). It
takes `ListingHasEach`: the list of observed samples names each sample once.

The assumptions are that the codes of findings are not `None` (`CodeAssumption`, `CaseCodeAssumption`) and that
the lists of a call are lists, of cases with a reference or none (`ListsAssumption`, `CasesAssumption`); a
list, even an empty one, is not `None`.

`ReadingProofs` goes on from there, for any requests, contents, policies and replies, and for answers with any
number of items:

| theorem | statement |
|---|---|
| `SessionInvariance` | `Spec => []SessionInv` |
| `PagesGoOn` | `Spec => []PagesContinue` |
| `FetchInvariance` | `Spec => []FetchInv` |
| `AnswersFit` | `Spec => []AnswerFitsRequest` |
| `AnswersAreRecorded` | `Spec => []AnswerIsRecorded` |
| `RequestsAreServable` | `Spec => []AdmittedIsServable` |
| `DecisionsAreBacked` | `Spec => []MatchedIsBacked` |
| `TaskInvariance` | `Spec => []TaskInv` |
| `FailuresExplained` | `Spec => []FailuresAreExplained` |

`SessionInv` says of a reader that the question is one that somebody can put (`InOrder`) and that the
outcome is the one that the answer deserves (`OutcomeFits`), with the thread of comments that the
cursor is in. A question is made by hand or out of an answer, so `PagesContinue` comes down to the
way of one cursor: out of an answer that was taken, into a question, through the checks of a request
(`AdmittedInOrder`, `QuestionPasses`) and back to the thread it came from (`CommentCursors`, `CursorsAreAdmitted`);
for searches and lists it says which tokens come back (`PublishedTokens`).

`FetchInv` says for each place of a fetch which sources it has asked, which error it keeps and which
replies it may still get (`XhsWay`, `DouyinWay`), and that an answer, from whichever source, is a sound post
of that adapter (`Posted`). `XhsStaysOnWay` and `DouyinStaysOnWay` take the exchanges one by one. That no
source is skipped (`FetchIsThorough`, a part of `AnswerFitsRequest`) follows because the error that is reported tells
which of them were asked, and no two sources have the same (`CodesDiffer`). The other part is about bytes: an
answer with bytes is one whose audit agrees with them, and the policy of the question
allowed them (`AuditedBytes`, `MediaWithinPolicy`).

`AnswersAreRecorded` compares three readers of an answer: the runtime, the task record, and the record of
a batch that has the item without its cursor and its policy. Per kind of answer there is a lemma that what
the runtime takes the record takes (`CreatorIsRecorded`, `MediaIsRecorded`; together `AcceptedIsRecorded`), so that only
an answer that is not JSON makes a record invalid. For the batch the record infers the thread from the items:
where all have one root that is the thread of the question (`InferredFits`), and what the batch keeps fits the item as it
is recorded (`KeptFitsItem`). `CommentsAnswerIn`, the answer to a question in a given thread, is what the two have in common: the runtime asks it with
the thread of the cursor, the record with the one it infers.

`RequestsAreServable` and `DecisionsAreBacked` rest on `ContractInv`: a decision that is on show is the one made of an
input, and the registry that a request is put to is one of the given ones, perhaps with the adapter
of a decision that matched at its end. Without it the requirement that a request is measured against would
be any record at all, and `MatchedWouldRun` (what was matched by a decision is matched by the runtime) could not
connect the two. The rest is about operators. A chain of checks finds the fault of the first
that fails (`FaultOfFirst`), so a reply without one has passed them all (`MatchedIsServed`), and each check that
it passed says something of the registry, of the declaration and of its proofs. The evidence of a contract is a
concatenation of as many lists as it has profiles: `FlattenedOnes` says what is in it, by
an induction over the entries of that one list (`UpTo`: a set of numbers that has 1 and with each the next one has all
of `1..n`). From it `CitedEvidence` gets that the proofs cited are the proofs of the profiles, and `MatchedOnShared`
that the profiles matched are those on the references both have.

`FailuresExplained` is about lists that grow with each attempt and are filtered and copied on the way, so `TaskInv`
says what each of them has at each of its places. A `Story` of `k` attempts that ended, `r` retries and `f` errors
has the attempts first among its references, with at most one event behind them (`RefsFit`); of attempt `i` the
entries `3i - 2` and `3i - 1` of the log and of the metrics, and of the retry after it the entry `3i`
(`LogsFit`, `MetricsFit`); and one signal for each error, numbered by the attempt that ended last (`SignalsFit`): an
adapter that hangs fails without an end of its attempt, so that `f` may be `k + 1`. An envelope `Blames` the last error if its
signal is of that error and of that attempt and its log is the story's with one entry more. `TaskFits` says for each place
of a task how its story stands (`Begins`, `AwaitsRetry`, `Succeeds`, `FailsFor`), and `IsExplained` of a task that
is closed. The counting is in a few lemmas: what is kept of a list whose last entry tells of a failure is the list
before it (`FilteredAgain`), so that an envelope may be explained again and again, as the code does up to four times,
and still tells of the failure once (`ToldOnce`); the last attempt referred to is the `k`-th (`LastOfAttempts`); and what the
record takes is decided by comparing any two entries of the story (`FailureIsTaken`, `SuccessIsTaken`), where only details of an
adapter that are not `Modest` can make it refuse. The proof showed one kind of details that the property had not named:
an adapter's error with the code `execution_control_state_invalid` and the control code `concurrency_limit_exceeded`, which Core
uses for a slot that is gone after its admission, is of the phase `concurrency_rejected` from the start; if there is no room for its retry the second
signal has the id of the first and other references, and the record refuses the two as a replay. `Modest` excludes such details
now, as it did Core's code, and the instance has such an error.

The assumptions: errors of adapters have the parts that `classify_adapter_error` leaves them (`FailuresAssumption`), and a policy
allows a natural number of attempts (`MostAssumption`); Core's words are not `None` (`WordsAssumption`); requests and replies have all their fields (`RequestsAssumption`), and codes, outcomes,
values, whoever is blamed, and posts are not `None` (`CodesAssumption`, `ReplyCodesAssumption`, `OutcomesAssumption`,
`ValuesAssumption`, `SourcesAssumption`, `BlamesAssumption`, `PostsAssumption`, `XhsAssumption`, `DouyinAssumption`); the profiles, references
and declarations of an adapter come in lists, and no one is named `None` or `canonical` (`RegistriesAssumption`,
`InputsAssumption`).

### What is taken for granted, and what is left to TLC

Assumptions are named in the modules that declare the constants, and TLC evaluates them in every
run of these modules: that ids are naturals, that `None` is none of the values it stands
beside, that lists are lists. None limits how many callers, tasks, records or reports there are.
Each inductive invariant was first checked by TLC on the instance of its module: `TInv` and `HInv`
on those of `ledger_faults` and `ledger_contention`, the `IInv` of `TaskRecordStore` and `BatchRun` on those of
`task_records` and `batch_resume`, `MInv`,
`HealthInv`, `GateInv`, `BuiltInv`, `CertInv`, `SessionInv`, `FetchInv`, `ContractInv` and `TaskInv` on that of `release_path`.

Only model-checked:

- `TasksReturn` and `SlotsComeBack`: liveness under fairness, which the proof system cannot
  reach;
- the runs that expect a violation.

## 5. Not modelled, and the plan

Left out for good: the CLI, the status and result endpoints (they read what `TaskRecordStore`
writes), the scanner of `platform_leakage.py` (it walks the syntax trees of source
files; its findings are inputs of `VersionGate`), the evidence of real provider
samples, the guards and pollers of `scripts/` besides the opening and the merge of a change, and `.loom/`
(vendored tooling of the repository's governance: a third of the lines of the
repository's Python code, and not part of the program).

In the ledger: the standalone `append_event` of the trace store and the usage log
are left out. In the execution control: interpreter shutdown and `KeyboardInterrupt`
while a queue is waited on (the process ends), and other parties that settle a
task's lease, except where a release raises on account of them.

In the merge of a change: a write whose answer is lost although it took effect, two guardians at
once (their file of verdicts is read, changed and written without a lock), the worktree's
state, the foreign plan that a cleanup may touch, and the texts of suites (flags).

In the task record: the schema of each field, and the store root. In the batch: the walk over nested payloads for private keys (`PublicPage` and `BatchRef` keep
what it says of references and traces), and two threads on one sink, which has no lock and which nothing in the program
shares. On the release path: the field by field comparison of an operability case
with its frozen definition, the metrics and policy snapshots (a flaw each), and
the search of a transport for a browser (an input).

Planned, in this order:

1. The status of `ExecutionControl`'s records as an instance of `TaskRecordTruth`
   per task, so that the two modules share one abstract specification.
