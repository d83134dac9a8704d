----------------------------- MODULE OperabilityGate -----------------------------
(***************************************************************************)
(* The operability gate of release v0.6.0 (syvert/operability_gate.py): the  *)
(* frozen matrix of cases, each with its actual result, the evidence that    *)
(* backs it, all bound to one execution revision, on top of the result of a  *)
(* version gate as its baseline.                                            *)
(*                                                                         *)
(* A reference to evidence is a record of the revision it names, of the case *)
(* it is about (or None), and of what it is at: the "actual_result" or the   *)
(* "source_case" of the local artifact, an approved "test", the "baseline",  *)
(* or something "other".  An actual result is what it says of the expected   *)
(* fields ("expected" or "other") and the revisions its strings mention.     *)
(* "flaws" names the parts of a case, or of the gate's arguments, that are    *)
(* not as the matrix freezes them.                                           *)
(***************************************************************************)
EXTENDS Checks

\* None is neither a fault nor the mark of an entry that is no mapping.
ASSUME CaseCodeAssumption ==
  None \notin
    {"entry", "invalid_case", "missing_case_id", "duplicate_case_id", "missing_actual_result_ref",
     "invalid_actual_result_ref", "actual_result_ref_revision_mismatch", "actual_result_ref_scope_mismatch",
     "invalid_case_dimension", "case_dimension_mismatch", "invalid_case_verdict",
     "mandatory_case_gate_impact_mismatch", "missing_case_evidence_refs", "case_evidence_ref_scope_mismatch",
     "missing_upstream_refs", "upstream_refs_revision_mismatch", "invalid_upstream_refs",
     "actual_result_field_mismatch", "actual_result_revision_mismatch"}

Release == "v0.6.0"

TimeoutRetryConcurrency ==
  {"trc-timeout-platform-control-code", "trc-retryable-platform-budget-closed", "trc-non-retryable-fail-closed",
   "trc-pre-accept-concurrency-reject", "trc-concurrent-status-shared-truth", "trc-concurrent-result-shared-truth"}
FailureLogMetrics ==
  {"flm-success-observable", "flm-business-failure-observable", "flm-contract-failure-fail-closed",
   "flm-timeout-observable", "flm-retry-budget-closed-observable", "flm-store-unavailable-fail-closed",
   "flm-http-invalid-input-observable", "flm-cli-invalid-input-observable", "flm-same-path-violation-observable"}
HttpSubmitStatusResult == {"http-submit-status-result-shared-truth"}
CliApiSamePath ==
  {"same-path-success-shared-truth", "same-path-pre-admission-invalid-input",
   "same-path-durable-record-unavailable", "same-path-terminal-result-read"}

MandatoryCases == TimeoutRetryConcurrency \cup FailureLogMetrics \cup HttpSubmitStatusResult \cup CliApiSamePath

Dimensions ==
  {"timeout_retry_concurrency", "failure_log_metrics", "http_submit_status_result", "cli_api_same_path"}

DimensionOf(id) ==
  CASE id \in TimeoutRetryConcurrency -> "timeout_retry_concurrency"
    [] id \in FailureLogMetrics -> "failure_log_metrics"
    [] id \in HttpSubmitStatusResult -> "http_submit_status_result"
    [] id \in CliApiSamePath -> "cli_api_same_path"

-----------------------------------------------------------------------------
(* Evidence.  artifact maps the cases of the local artifact to their results.  *)

Ref(revision, about, at) == [revision |-> revision, about |-> about, at |-> at]

\* Mutant: the file has a result for the case, this one or another.
BacksResultById(ref, c, artifact) ==
  ref.at = "actual_result" /\ ref.about = c.id /\ c.id \in DOMAIN artifact

\* _is_backed_case_actual_result_ref: the file has this very result for the case.  The
\* revision is the one in the reference; that of the file is not looked at.
BacksResult(ref, c, artifact) ==
  /\ ref.at = "actual_result" /\ ref.about = c.id
  /\ c.id \in DOMAIN artifact
  /\ artifact[c.id] = c.result

\* _is_backed_case_evidence_ref
BacksCase(ref, c, artifact) ==
  /\ ref.about = c.id
  /\ \/ ref.at = "test"
     \/ ref.at = "source_case" /\ c.id \in DOMAIN artifact

\* _is_approved_upstream_ref
ApprovedUpstream(ref) == ref.at = "test" /\ ref.about = None

-----------------------------------------------------------------------------
(* The cases *)

\* _normalize_cases drops an entry that is no mapping, has no id, or repeats an id.  Any
\* other entry stays, with its faults.
CaseDropped(cases, i) ==
  FirstFault(<< <<cases[i].malformed = "entry", "invalid_case">>,
                <<cases[i].id = None, "missing_case_id">>,
                <<\E j \in 1..(i - 1) : cases[j].malformed # "entry" /\ cases[j].id = cases[i].id,
                  "duplicate_case_id">> >>)

Normalized(cases) == {cases[i] : i \in {j \in DOMAIN cases : CaseDropped(cases, j) = None}}

ResultRefFault(c, revision, artifact) ==
  IF c.resultRef = None THEN "missing_actual_result_ref"
  ELSE FirstFault(<< <<c.resultRef.at = "other", "invalid_actual_result_ref">>,
                     <<c.resultRef.revision # revision, "actual_result_ref_revision_mismatch">>,
                     <<~BacksResult(c.resultRef, c, artifact), "actual_result_ref_scope_mismatch">> >>)

\* _normalize_expected_result, _validate_case_actual_result and
\* _validate_actual_result_revision_binding, among the checks of a case.
CaseFaults(c, revision, artifact) ==
  LET mandatory == c.id \in MandatoryCases
  IN (AllFaults(<< <<c.dimension \notin Dimensions, "invalid_case_dimension">>,
                   <<mandatory /\ c.dimension \in Dimensions /\ c.dimension # DimensionOf(c.id),
                     "case_dimension_mismatch">>,
                   <<c.verdict \notin {"pass", "fail"}, "invalid_case_verdict">>,
                   <<mandatory /\ c.impact # "mandatory", "mandatory_case_gate_impact_mismatch">>,
                   <<c.evidence = {}, "missing_case_evidence_refs">>,
                   <<\E ref \in c.evidence : ~BacksCase(ref, c, artifact), "case_evidence_ref_scope_mismatch">>,
                   <<c.upstream = {}, "missing_upstream_refs">>,
                   <<\E ref \in c.upstream : ref.revision # revision, "upstream_refs_revision_mismatch">>,
                   <<\E ref \in c.upstream : ~ApprovedUpstream(ref), "invalid_upstream_refs">>,
                   <<c.result.says # "expected", "actual_result_field_mismatch">>,
                   <<~(c.result.mentions \subseteq {revision}), "actual_result_revision_mismatch">> >>)
      \cup {ResultRefFault(c, revision, artifact)} \cup c.flaws) \ {None}

-----------------------------------------------------------------------------
(* orchestrate_operability_gate *)

\* _normalize_baseline_gate_result and the checks of baseline_gate_ref.
BaselineFaults(ref, result, revision) ==
  AllFaults(<< <<ref.at # "baseline", "invalid_baseline_gate_ref">>,
               <<ref.at = "baseline" /\ ref.revision # revision, "baseline_gate_ref_revision_mismatch">>,
               <<result = None, "missing_baseline_gate_result">> >>)
  \cup IF result = None THEN {}
       ELSE AllFaults(<< <<result.ref # ref, "baseline_gate_ref_mismatch">>,
                         <<result.revision # revision, "baseline_gate_revision_mismatch">>,
                         <<result.release # Release, "baseline_gate_release_mismatch">>,
                         <<result.verdict # "pass" \/ ~result.safe, "baseline_gate_not_passed">>,
                         <<result.evidence = {}, "baseline_gate_evidence_missing">>,
                         <<result.evidence # {} /\ ref \notin result.evidence, "baseline_gate_evidence_unbound">>,
                         <<result.evidence # {} /\ Ref(revision, None, "test") \notin result.evidence,
                           "baseline_gate_evidence_unbacked">> >>)

\* _validate_mandatory_case_coverage
CoverageFaults(cases) ==
  AllFaults(<< <<~(MandatoryCases \subseteq {c.id : c \in cases}), "missing_mandatory_cases">>,
               <<~(Dimensions \subseteq {c.dimension : c \in cases}), "missing_mandatory_dimensions">> >>)

\* _validate_revision_evidence_binding
RevisionFaults(refs, revision) ==
  IF \A ref \in refs : ref.revision = revision THEN {} ELSE {"execution_revision_evidence_mismatch"}

\* The faults of a case, one of which is that a mandatory case failed.
VerdictFaults(c, revision, artifact) ==
  CaseFaults(c, revision, artifact)
  \cup IF c.verdict # "pass" /\ c.impact = "mandatory" THEN {"mandatory_case_failed"} ELSE {}

DroppedPlaces(cases) == {i \in DOMAIN cases : CaseDropped(cases, i) # None}

\* input: revision, flaws, baselineRef, baseline, cases and evidence.
EvidenceRefs(input) ==
  input.evidence \cup (IF input.baseline = None THEN {} ELSE input.baseline.evidence)
  \cup UNION {c.evidence \cup c.upstream : c \in Normalized(input.cases)}

GateFailures(input, artifact) ==
  input.flaws \cup BaselineFaults(input.baselineRef, input.baseline, input.revision)
  \cup (UNION {VerdictFaults(c, input.revision, artifact) : c \in Normalized(input.cases)})
  \cup {CaseDropped(input.cases, i) : i \in DroppedPlaces(input.cases)}
  \cup CoverageFaults(Normalized(input.cases)) \cup RevisionFaults(EvidenceRefs(input), input.revision)

RepeatedPlaces(cases) == {i \in DOMAIN cases : CaseDropped(cases, i) = "duplicate_case_id"}

\* _failed_case_ids: those with a name; the others get one from their place.
FailedCases(input, artifact) ==
  LET cases == Normalized(input.cases)
  IN {c.id : c \in {d \in cases : d.verdict # "pass" \/ VerdictFaults(d, input.revision, artifact) # {}}}
     \cup (MandatoryCases \ {c.id : c \in cases})
     \cup {input.cases[i].id : i \in RepeatedPlaces(input.cases)}

OrchestrateOperabilityGate(input, artifact) ==
  LET cases == Normalized(input.cases)
      known == {c.id : c \in cases}
      failures == GateFailures(input, artifact)
      failed == FailedCases(input, artifact)
      unnamed == Cardinality(DroppedPlaces(input.cases) \ RepeatedPlaces(input.cases))
  IN [revision |-> input.revision, failures |-> failures, safe |-> failures = {},
      failed |-> failed, unnamed |-> unnamed,
      total |-> Cardinality(cases) + Cardinality(failed \ known) + unnamed,
      passed |-> Cardinality(cases) - Cardinality(failed \cap known)]
=============================================================================
