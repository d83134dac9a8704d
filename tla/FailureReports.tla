------------------------------ MODULE FailureReports ------------------------------
(***************************************************************************)
(* What the runtime says of a task that fails, perhaps after retries: a      *)
(* failure signal, log events, metrics, and references to the attempts and   *)
(* to the events of execution control (syvert/runtime.py).  They go into the *)
(* envelope, some where only the task's record sees them, and the record     *)
(* takes them if they agree with each other (syvert/task_record.py).         *)
(*                                                                         *)
(* An error comes with details, in which adapters write what they like and   *)
(* the runtime finds what it has to know of the error.                       *)
(***************************************************************************)
EXTENDS Checks

CONSTANTS
  Failures,      \* errors that adapters report: [category, code, details]
  MaxAttempts    \* attempts that a policy allows at most

\* What is made of an error, whatever there is in its details (classify_adapter_error).
IsError(e) ==
  LET d == e.details
  IN /\ e = [category |-> e.category, code |-> e.code, details |-> d]
     /\ e.category \in {"platform", "invalid_input", "runtime_contract"}
     /\ d = [stage |-> d.stage, control |-> d.control, event |-> d.event, exhausted |-> d.exhausted,
             retryable |-> d.retryable, ref |-> d.ref, traces |-> d.traces, json |-> d.json]
     /\ {d.exhausted, d.retryable, d.json} \subseteq BOOLEAN

ASSUME FailuresAssumption == \A e \in Failures : IsError(e)
ASSUME MostAssumption == MaxAttempts \in Nat
ASSUME WordsAssumption ==
  None \notin {"platform", "invalid_input", "runtime_contract", "admission_concurrency_rejected",
               "retry_concurrency_rejected", "retry_exhausted", "concurrency_limit_exceeded", "odd"}

VARIABLE task    \* the task that is under way, with what its envelope is made of

FailuresInit == task = None

-----------------------------------------------------------------------------
(* Entries *)

Error(category, code, details) == [category |-> category, code |-> code, details |-> details]
NoDetails == [stage |-> None, control |-> None, event |-> None, exhausted |-> FALSE, retryable |-> FALSE, ref |-> None,
              traces |-> None, json |-> TRUE]
NoError == Error(None, None, NoDetails)

Failed(e) == e.error # NoError

\* build_attempt_outcome_ref; it holds the envelope of the attempt, with the error's details.
Attempted(n, e, core) ==
  [kind |-> "attempt", n |-> n, json |-> e.error.details.json,
   says |-> IF ~Failed(e) THEN "succeeded" ELSE IF core THEN "timeout" ELSE "failed"]

\* build_execution_control_event
ControlEvent(type, count) == [kind |-> "event", n |-> count, json |-> TRUE, says |-> type]

Id(what, category, code, attempt) == [what |-> what, category |-> category, code |-> code, attempt |-> attempt]

\* A log event or a metric of the life cycle.
Cycle(what, n, refs) ==
  [id |-> Id(what, "", "", n), type |-> what, signal |-> None, phase |-> "", refs |-> refs]

\* build_attempt_lifecycle_observability
AttemptLogs(ref) == << Cycle("attempt_started", ref.n, <<ref>>), Cycle("attempt_finished", ref.n, <<ref>>) >>
AttemptMetrics(ref) == << Cycle("attempt_started_total", ref.n, <<>>), Cycle("execution_duration_ms", ref.n, <<>>) >>

\* build_retry_scheduled_observability
RetryLog(n, signal, refs) ==
  [id |-> Id("retry_scheduled", "", "", n), type |-> "retry_scheduled", signal |-> signal.id, phase |-> "",
   refs |-> refs]
RetryMetric(n, signal) ==
  [id |-> Id("retry_scheduled_total", "", "", n), type |-> "retry_scheduled_total", signal |-> signal.id,
   phase |-> signal.id.what, refs |-> <<>>]

-----------------------------------------------------------------------------
(* What an error says *)

\* is_normal_execution_timeout_failure
IsTimeout(error) ==
  error.category = "platform" /\ error.code = "execution_timeout" /\ error.details.control = "execution_timeout"

Rejections == {"admission_concurrency_rejected", "retry_concurrency_rejected"}

\* infer_failure_phase
FailurePhase(error) ==
  LET about == error.details
      Invalid == error.code = "execution_control_state_invalid"
  IN FirstFault(<<
       <<about.event \in Rejections, "concurrency_rejected">>,
       <<about.event = "retry_exhausted" \/ about.exhausted, "retry_exhausted">>,
       <<error.code = "concurrency_limit_exceeded", "concurrency_rejected">>,
       <<Invalid /\ about.control = "concurrency_limit_exceeded", "concurrency_rejected">>,
       <<about.stage = "pre_admission", "admission">>,
       <<about.stage = "pre_execution", "pre_execution">>,
       <<IsTimeout(error), "timeout">>,
       <<error.code \in {"resource_unavailable", "invalid_resource_requirement"}, "resource_acquire">>,
       <<error.code \in {"envelope_not_json_serializable", "task_record_conflict", "task_record_persistence_failed"},
         "persistence">>,
       <<about.stage \in {"accepted", "running", "completion"}, "persistence">>,
       <<TRUE, "adapter_execution">> >>)

\* infer_failure_log_event_type
FailureEvent(error) ==
  FirstFault(<< <<error.details.event \in Rejections, error.details.event>>,
                <<error.code = "concurrency_limit_exceeded" /\ error.details.ref \in {None, "none"},
                  "admission_concurrency_rejected">>,
                <<IsTimeout(error), "timeout_triggered">>, <<TRUE, "task_failed">> >>)

\* infer_failure_metric_name
FailureMetric(event, phase) ==
  CASE event = "admission_concurrency_rejected" -> "admission_concurrency_rejected_total"
    [] event = "retry_concurrency_rejected" -> "retry_concurrency_rejected_total"
    [] OTHER -> IF phase = "timeout" THEN "timeout_total" ELSE "task_failed_total"

\* infer_attempt_index: that of the last attempt which is referred to.
LastAttempt(refs) ==
  LET attempts == {n \in DOMAIN refs : refs[n].kind = "attempt"}
  IN IF attempts = {} THEN 0 ELSE refs[Max(attempts)].n

-----------------------------------------------------------------------------
(* Envelopes; a list that is missing from one is empty *)

\* A signal that is missing has an id that no signal has.
NoSignal == [id |-> Id("", "", "", 0), ref |-> "none", traces |-> None, refs |-> <<>>, at |-> 0]
EnvelopeOf(error) ==
  [error |-> error, refs |-> <<>>, events |-> <<>>, earlier |-> <<>>, signal |-> NoSignal, logs |-> <<>>,
   metrics |-> <<>>]

\* The entries of some types.
OfTypes(entries, types) == At(entries, {n \in DOMAIN entries : entries[n].type \in types})
KeptLogs == {"attempt_started", "attempt_finished", "retry_scheduled", "observability_write_failed"}
KeptMetrics == {"attempt_started_total", "execution_duration_ms", "retry_scheduled_total"}

\* What with_failure_observability makes of a failure: the id of its signal, its event in the
\* log, and its metric.
SignalId(e) == Id(FailurePhase(e.error), e.error.category, e.error.code, LastAttempt(e.refs))
FailureLog(e) ==
  [id |-> Id("task_failed", e.error.category, e.error.code, LastAttempt(e.refs)), type |-> FailureEvent(e.error),
   signal |-> SignalId(e), phase |-> "", refs |-> e.refs]
FailureSample(e) ==
  LET phase == FailurePhase(e.error)
      metric == FailureMetric(FailureEvent(e.error), phase)
  IN [id |-> Id(metric, e.error.category, e.error.code, LastAttempt(e.refs)), type |-> metric, signal |-> SignalId(e),
      phase |-> phase, refs |-> <<>>]

\* Mutant: what was told already is told again.
ExplainedAnew(e, now) ==
  [e EXCEPT !.signal = [id |-> SignalId(e), ref |-> "none", traces |-> e.error.details.traces, refs |-> e.refs, at |-> now],
            !.logs = Append(@, FailureLog(e)), !.metrics = Append(@, FailureSample(e))]

\* with_failure_observability: a signal that is there already keeps its time, and so do the log
\* event and the metric; other reports of a failure go.
Explained(e, now) ==
  LET about == e.error.details
  IN [e EXCEPT !.signal = [id |-> SignalId(e), ref |-> IF about.ref = None THEN "none" ELSE about.ref,
                           traces |-> about.traces, refs |-> e.refs,
                           at |-> IF @.id = SignalId(e) THEN @.at ELSE now],
               !.logs = Append(OfTypes(@, KeptLogs), FailureLog(e)),
               !.metrics = Append(OfTypes(@, KeptMetrics), FailureSample(e))]

\* with_failed_envelope_task_record_ref
Referring(e, ref) == IF Failed(e) THEN [e EXCEPT !.error.details.ref = ref] ELSE e

\* with_runtime_observability
Observed(e, t) ==
  LET several == Len(t.refs) > 1 \/ t.events # <<>>
      enriched ==
        [e EXCEPT !.refs = IF t.refs # <<>> /\ (Failed(e) \/ several) THEN t.refs ELSE @,
                  !.events = IF Failed(e) /\ t.events # <<>> THEN t.events ELSE @,
                  !.earlier = IF t.signals # <<>> THEN t.signals ELSE @,
                  !.logs = IF t.logs # <<>> THEN t.logs ELSE @,
                  !.metrics = IF t.metrics # <<>> THEN t.metrics ELSE @]
      named == IF t.refs # <<>> /\ (Failed(e) => e.error.details.ref # "none") THEN Referring(enriched, "record")
               ELSE enriched
  IN IF Failed(e) THEN Explained(named, t.n) ELSE enriched

\* with_failed_envelope_control_details
Controlled(e, event, exhausted) ==
  [e EXCEPT !.error.details.event = event, !.error.details.exhausted = @ \/ exhausted]

\* with_observability_write_failed
Unwritten(e) ==
  [e EXCEPT !.logs = Append(@, [id |-> Id("observability_write_failed", "", "", 0), type |-> "observability_write_failed",
                                signal |-> e.signal.id, phase |-> "", refs |-> e.refs])]

-----------------------------------------------------------------------------
(* The record *)

\* finish_task_record: what a record has of an envelope, after what it had when the task ran.
SignalsIn(e) == ToSet(e.earlier) \cup (IF Failed(e) THEN {e.signal} ELSE {})
LogsIn(e) ==
  ToSet(e.logs) \cup {Cycle("task_accepted", 0, <<>>), Cycle("task_running", 0, <<>>)}
    \cup (IF Failed(e) THEN {} ELSE {Cycle("task_succeeded", 0, <<>>)})
MetricsIn(e) ==
  ToSet(e.metrics) \cup {Cycle("task_started_total", 0, <<>>)}
    \cup (IF Failed(e) THEN {} ELSE {Cycle("task_succeeded_total", 0, <<>>), Cycle("execution_duration_ms", 0, <<>>)})

\* validate_observability_replay_ids
Replays(entries) == \A x, y \in entries : x.id = y.id => x = y

SignalFound(signals, l) == l.signal \in {s.id : s \in signals}

FailureLogs == Rejections \cup {"task_failed", "timeout_triggered", "retry_scheduled", "observability_write_failed"}
FailureMetrics ==
  {"task_failed_total", "timeout_total", "admission_concurrency_rejected_total", "retry_concurrency_rejected_total"}

\* validate_task_record, of what is reported: validate_runtime_failure_signals,
\* validate_runtime_structured_log_events and validate_runtime_execution_metric_samples
RecordTakes(e) ==
  LET signals == SignalsIn(e)
  IN /\ Failed(e) => e.error.details.json /\ e.error.code # ""
     /\ \A l \in LogsIn(e) : \A r \in ToSet(l.refs) : r.json
     /\ Replays(signals) /\ Replays(LogsIn(e)) /\ Replays(MetricsIn(e))
     /\ \A s \in signals : s.id.code # "" /\ s.traces # "odd"
     /\ \A l \in LogsIn(e) : l.type \in FailureLogs => SignalFound(signals, l)
     /\ \A m \in MetricsIn(e) :
          m.type \in FailureMetrics => m.id.category # "" /\ m.id.code # "" /\ m.phase # ""

-----------------------------------------------------------------------------
(* The attempts *)

Timeout ==
  Error("platform", "execution_timeout", [NoDetails EXCEPT !.control = "execution_timeout", !.retryable = TRUE])
Hung == Error("runtime_contract", "execution_control_state_invalid", [NoDetails EXCEPT !.control = "execution_timeout"])
NoResource == Error("runtime_contract", "resource_unavailable", NoDetails)
Unkept(code, stage) == Error("runtime_contract", code, [NoDetails EXCEPT !.stage = stage])

Begun(again, leased, most) ==
  [again |-> again, leased |-> leased, most |-> most, n |-> 1, at |-> "attempt", refs |-> <<>>, events |-> <<>>,
   signals |-> <<>>, logs |-> <<>>, metrics |-> <<>>, envelope |-> EnvelopeOf(NoError), record |-> "running", errors |-> <<>>]

\* A task that is refused: at the limit, or because its record is not written.
AtTheLimit ==
  LET event == ControlEvent("admission_concurrency_rejected", 0)
      error == Error("invalid_input", "concurrency_limit_exceeded",
                     [NoDetails EXCEPT !.ref = "none", !.stage = "pre_admission", !.event = event.says])
      t == [Begun(FALSE, FALSE, 1) EXCEPT !.n = 0, !.refs = <<event>>, !.events = <<event>>]
  IN [t EXCEPT !.at = "closed", !.record = "none", !.envelope = Observed(Explained(EnvelopeOf(error), 0), t)]

Unstarted(code, stage) ==
  [Begun(FALSE, FALSE, 1) EXCEPT !.n = 0, !.at = "closed", !.record = "none",
     !.envelope = Explained(IF stage = "running" THEN Referring(EnvelopeOf(Unkept(code, stage)), "record")
                            ELSE EnvelopeOf(Unkept(code, stage)), 0)]

\* is_retryable_attempt_outcome
Retryable(t, error, core) ==
  /\ t.again
  /\ core \/ (error.category = "platform" /\ error.details.retryable)

\* An event of execution control ends the task.
Ending(t, event) ==
  LET ended == [t EXCEPT !.events = Append(@, event), !.refs = Append(@, event), !.at = "done"]
  IN [ended EXCEPT !.envelope = Observed(Controlled(t.envelope, event.says, event.says = "retry_exhausted"), ended)]

\* execute_controlled_adapter_attempts, after an attempt
Judged(t, e, retry) ==
  LET failed == [t EXCEPT !.envelope = Observed(e, t), !.signals = Append(@, Observed(e, t).signal),
                          !.errors = Append(@, e.error)]
      ref == IF t.refs = <<>> THEN <<>> ELSE <<Last(t.refs)>>
  IN CASE ~Failed(e) -> [t EXCEPT !.envelope = Observed(e, t), !.at = "done"]
       [] Failed(e) /\ ~retry -> [failed EXCEPT !.at = "done"]
       [] Failed(e) /\ retry /\ t.n >= t.most -> Ending(failed, ControlEvent("retry_exhausted", t.n))
       [] OTHER -> [failed EXCEPT !.at = "waiting",
                      !.logs = Append(@, RetryLog(t.n, failed.envelope.signal, ref)),
                      !.metrics = Append(@, RetryMetric(t.n, failed.envelope.signal))]

\* finish_attempt: traced is whether the attempt had its resources.
Finished(t, e, core, traced) ==
  LET told == IF Failed(e) /\ traced /\ t.leased /\ e.error.details.traces = None
              THEN [e EXCEPT !.error.details.traces = "bundle"] ELSE e
      ref == Attempted(t.n, told, core)
      t2 == [t EXCEPT !.refs = Append(@, ref), !.logs = @ \o AttemptLogs(ref), !.metrics = @ \o AttemptMetrics(ref)]
  IN Judged(t2, told, IF Failed(e) THEN Retryable(t, told.error, core) ELSE FALSE)

Attempting == IF task = None THEN FALSE ELSE task.at = "attempt"

AdapterSucceeds == Attempting /\ task' = Finished(task, EnvelopeOf(NoError), FALSE, TRUE)
AdapterFails(error) == Attempting /\ task' = Finished(task, EnvelopeOf(error), FALSE, TRUE)
TimesOut == Attempting /\ task' = Finished(task, EnvelopeOf(Timeout), TRUE, TRUE)
LeaseFails == Attempting /\ task.leased /\ task' = Finished(task, EnvelopeOf(NoResource), FALSE, FALSE)
\* The adapter hangs and keeps its slot: the attempt is not closed.
Hangs == Attempting /\ task' = Judged(task, EnvelopeOf(Hung), FALSE)

Waiting == IF task = None THEN FALSE ELSE task.at = "waiting"

Retry == Waiting /\ task' = [task EXCEPT !.at = "attempt", !.n = @ + 1]
RetryRejected == Waiting /\ task' = Ending(task, ControlEvent("retry_concurrency_rejected", task.n))

\* finalize_task_execution_result, and persist_task_record when the store writes, fails or finds
\* another record.
Close(stored) ==
  /\ IF task = None THEN FALSE ELSE task.at = "done"
  /\ LET last == IF Failed(task.envelope) THEN Explained(Referring(task.envelope, "record"), 0) ELSE task.envelope
         takes == RecordTakes(last)
         kept == takes /\ stored = "writes"
         error == IF ~takes THEN Error("runtime_contract", "envelope_not_json_serializable", NoDetails)
                  ELSE Unkept(IF stored = "fails" THEN "task_record_persistence_failed" ELSE "task_record_conflict",
                              "completion")
     IN task' = [task EXCEPT !.at = "closed",
                   !.record = IF kept THEN "kept" ELSE IF takes THEN "unwritten" ELSE "refused",
                   !.envelope = CASE kept -> [last EXCEPT !.earlier = <<>>]
                                  [] ~kept /\ Failed(last) -> Unwritten(last)
                                  [] OTHER -> Explained(Referring(EnvelopeOf(error), "record"), 0)]

TaskNext ==
  \/ AdapterSucceeds \/ TimesOut \/ LeaseFails \/ Hangs
  \/ \E error \in Failures : AdapterFails(error)
  \/ Retry \/ RetryRejected
  \/ \E stored \in {"writes", "fails", "conflicts"} : Close(stored)

-----------------------------------------------------------------------------
(* Property *)

\* Details that do not use Core's own words: no claim about the course of the attempts, no
\* references but those to a resource's trace, nothing that JSON cannot say.
Modest(error) ==
  /\ error.details.event = None /\ ~error.details.exhausted
  /\ error.details.traces # "odd" /\ error.details.json
  /\ "concurrency_limit_exceeded" \notin {error.code, error.details.control} /\ error.code # ""

EndedAttempts(t) == {n \in DOMAIN t.refs : t.refs[n].kind = "attempt"}

\* The last attempt failed.
FailedItself(t) == t.n > 0 /\ Len(t.errors) = t.n

\* One of the entries is of these types, and it belongs to the signal.
ToldBy(entries, types, signal) ==
  \E n \in DOMAIN entries : {m \in DOMAIN entries : entries[m].type \in types} = {n} /\ entries[n].signal = signal.id

\* The signal of a failure has the category and the code of its error; one event of the log and
\* one metric tell of the failure, and both belong to the signal.
FailureIsTold(e) ==
  Failed(e) =>
    /\ e.signal.id.category = e.error.category /\ e.signal.id.code = e.error.code
    /\ ToldBy(e.logs, Rejections \cup {"task_failed", "timeout_triggered"}, e.signal)
    /\ ToldBy(e.metrics, FailureMetrics, e.signal)

\* A signal about an attempt is as old as the attempt and counts the attempts that ended,
\* whatever was written after it.  Attempts are exhausted only at the policy's most, a failure
\* that could be retried is final only then or when there is no room for it, and then the error
\* stays what it was.
LastErrorIsBlamed(t) ==
  LET e == t.envelope
      ended == Cardinality(EndedAttempts(t))
      says == [n \in DOMAIN t.events |-> t.events[n].says]
      TimedOut == ended = t.n /\ t.refs[ended].says = "timeout"
  IN FailedItself(t) =>
       /\ Failed(e)
       /\ e.signal.at = t.n /\ e.signal.id.attempt = ended
       /\ e.error.category = Last(t.errors).category /\ e.error.code = Last(t.errors).code
       /\ says = <<"retry_exhausted">> => e.signal.id.what = "retry_exhausted" /\ t.n = t.most
       /\ says = <<"retry_concurrency_rejected">> => e.signal.id.what = "concurrency_rejected"
       /\ Retryable(t, Last(t.errors), TimedOut) => says # <<>>

\* The attempts are told once each, and there are no more than the policy allows; each retry in
\* the log blames the attempt before it.
AttemptsAreTold(t) ==
  LET attempts == EndedAttempts(t)
      ended == Cardinality(attempts)
  IN /\ attempts = 1..ended /\ ended <= t.most /\ Len(t.logs) \in {3 * ended - 1, 3 * ended}
     /\ \A n \in attempts : /\ t.refs[n].n = n
                            /\ <<t.logs[3 * n - 2], t.logs[3 * n - 1]>> = AttemptLogs(t.refs[n])
     /\ \A n \in attempts : LET retry == t.logs[3 * n]
                            IN 3 * n <= Len(t.logs) =>
                                 /\ retry.type = "retry_scheduled" /\ retry.refs = <<t.refs[n]>>
                                 /\ retry.signal = t.signals[n].id

\* The record refuses none of this unless an adapter used Core's words for its details, and it
\* is kept only with how the last attempt ended.
RecordAgrees(t) ==
  /\ t.record = "refused" => \E error \in ToSet(t.errors) : ~Modest(error)
  /\ t.record = "kept" => Failed(t.envelope) = FailedItself(t)

\* Whatever becomes of the record, a task that fails says why (with_failure_observability and
\* execute_controlled_adapter_attempts against validate_task_record).
IsExplained(t) == FailureIsTold(t.envelope) /\ LastErrorIsBlamed(t) /\ AttemptsAreTold(t) /\ RecordAgrees(t)

FailureIsExplained == task.at = "closed" => IsExplained(task)
=============================================================================
