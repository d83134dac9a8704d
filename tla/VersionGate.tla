------------------------------- MODULE VersionGate -------------------------------
(***************************************************************************)
(* The gate of a release (syvert/version_gate.py).  Three sources report on  *)
(* a version: the contract harness, the regression of the two reference      *)
(* adapters, and the scan for platform leakage.  The gate takes their        *)
(* reports, which may have been stored in between, rebuilds each from its    *)
(* own details, and adds the failures that the report carries.               *)
(*                                                                         *)
(* A failure is its code.  "malformed" marks an entry that is no mapping or  *)
(* has a field of no admissible shape, "flaws" the parts of a report that    *)
(* are missing; what a wrong shape is called is left out.  The evidence of a *)
(* case is its id, and sorted lists are Listing of their elements.          *)
(***************************************************************************)
EXTENDS Checks

\* None is neither the code of a fault nor the mark of an entry that is no mapping.
ASSUME CodeAssumption ==
  None \notin
    {"entry", "invalid_validation_result_entry", "invalid_sample_id", "duplicate_sample_id", "invalid_result_field",
     "inconsistent_observation", "invalid_case_entry", "invalid_case_id", "duplicate_case_id",
     "invalid_expected_outcome", "invalid_observed_status", "invalid_case_evidence_ref",
     "success_case_with_error_category", "failed_case_without_error_category", "invalid_adapter_result_entry",
     "invalid_adapter_key", "duplicate_adapter_key", "expected_success_not_observed",
     "expected_failure_not_observed", "disallowed_failure_category", "invalid_leakage_finding",
     "unsupported_leakage_finding_boundary", "invalid_leakage_finding_evidence_ref", "source_mismatch",
     "source_report_version_mismatch", "invalid_source_verdict", "missing_source_evidence_refs",
     "missing_source_summary", "invalid_source_details", "missing_source_failures", "missing_details",
     "invalid_required_sample_ids", "harness_required_sample_ids_mismatch", "invalid_harness_observed_sample_ids",
     "harness_observed_sample_ids_mismatch", "harness_evidence_refs_mismatch",
     "real_regression_semantic_operation_mismatch"}

FrozenVersion == "v0.2.0"
ReferencePair == <<"xhs", "douyin">>

\* _canonical_version, of a version, one with blanks around it, and a blank one.
CanonicalVersion(version) ==
  CASE version = "padded" -> FrozenVersion
    [] version = "blank" -> "unknown"
    [] OTHER -> version

Frozen(id, outcome) == [id |-> id, outcome |-> outcome, evidence |-> id]

FrozenMatrix ==
  [xhs |-> <<Frozen("xhs-success", "success"), Frozen("xhs-invalid-input", "allowed_failure")>>,
   douyin |-> <<Frozen("douyin-success", "success"), Frozen("douyin-platform", "allowed_failure")>>]

CaseEvidence == <<"xhs-success", "xhs-invalid-input", "douyin-success", "douyin-platform">>

Boundaries == <<"core_runtime", "shared_input_model", "shared_error_model", "adapter_registry",
                "shared_result_contract", "version_gate_logic">>

ScanRefs == <<"scan-operation_taxonomy", "scan-read_side_collection", "scan-registry",
              "scan-runtime", "scan-version_gate">>

\* _normalize_string_list: one bad entry empties the list.
Listed(list) == IF StringList(list) THEN list ELSE <<>>

\* Mutant: a source without evidence passes.
SourceReportPasses(source, version, failures, evidence, facts) ==
  [source |-> source, version |-> CanonicalVersion(version), flaws |-> {}, facts |-> facts,
   verdict |-> IF failures = {} \/ evidence = <<>> THEN "pass" ELSE "fail", failures |-> failures,
   evidence |-> IF evidence = <<>> THEN <<"synthetic">> ELSE evidence]

\* _source_report, with the evidence that _finalize_evidence_refs gives.
SourceReport(source, version, failures, evidence, facts) ==
  [source |-> source, version |-> CanonicalVersion(version), flaws |-> {}, facts |-> facts,
   verdict |-> IF failures = {} THEN "pass" ELSE "fail", failures |-> failures,
   evidence |-> IF evidence = <<>> THEN <<"synthetic">> ELSE evidence]

-----------------------------------------------------------------------------
(* The harness *)

LegalCategories == {"invalid_input", "unsupported", "platform"}

\* What may have been observed, by the verdict on a sample.
Consistent(r) ==
  \/ r.verdict = "pass" /\ r.status = "success" /\ r.category = None
  \/ r.verdict = "legal_failure" /\ r.status = "failed" /\ r.category \in LegalCategories
  \/ r.verdict = "execution_precondition_not_met" /\ r.status = None /\ r.category = None
  \/ /\ r.verdict = "contract_violation"
     /\ r.status = "success" => r.category = None
     /\ r.status = "failed" => r.category # None

\* _normalize_harness_validation_results drops an entry with a fault.  The first entry of
\* a sample uses up its id, even when it is dropped itself.
ResultFault(results, i) ==
  FirstFault(<< <<results[i].malformed = "entry", "invalid_validation_result_entry">>,
                <<results[i].sample = None, "invalid_sample_id">>,
                <<\E j \in 1..(i - 1) : /\ results[j].malformed # "entry"
                                        /\ results[j].sample = results[i].sample, "duplicate_sample_id">>,
                <<results[i].malformed # None, "invalid_result_field">>,
                <<~Consistent(results[i]), "inconsistent_observation">> >>)

KeptResults(results) ==
  IF results = None THEN <<>> ELSE At(results, {i \in DOMAIN results : ResultFault(results, i) = None})

ResultFaults(results) ==
  IF results = None THEN {"invalid_validation_results"}
  ELSE {ResultFault(results, i) : i \in DOMAIN results} \ {None}

SampleIds(kept) == {kept[i].sample : i \in DOMAIN kept}

\* build_harness_source_report, its failures and the report
HarnessFailures(results, required, version) ==
  LET kept == KeptResults(results)
      verdicts == {kept[i].verdict : i \in DOMAIN kept}
  IN AllFaults(<< <<~StringList(required), "invalid_required_sample_ids">>,
                  <<Listed(required) = <<>>, "empty_required_sample_ids">>,
                  <<~(ToSet(Listed(required)) \subseteq SampleIds(kept)), "missing_required_harness_samples">>,
                  <<"contract_violation" \in verdicts, "contract_violation_observed">>,
                  <<"execution_precondition_not_met" \in verdicts,
                    "execution_precondition_not_met_observed">>,
                  <<version = "blank", "missing_version">> >>)
     \cup ResultFaults(results)

BuildHarness(results, required, version) ==
  LET kept == KeptResults(results)
      observed == Listing(SampleIds(kept))
  IN SourceReport("harness", version, HarnessFailures(results, required, version), observed,
                  [required |-> Listed(required), observed |-> observed, results |-> kept])

-----------------------------------------------------------------------------
(* The regression of the reference adapters *)

AllowedCategories == {"invalid_input", "platform"}

\* _normalize_real_regression_surface, for a version that has a frozen surface.
Surface(operation, target) ==
  LET named == IF operation = "content_detail_by_url" /\ target = None THEN "url" ELSE target
  IN IF operation \in {"content_detail_by_url", "content_detail"} /\ named = "url"
     THEN [operation |-> operation, target |-> named] ELSE None

\* _normalize_regression_cases
CaseFault(cases, i) ==
  FirstFault(<< <<cases[i].malformed = "entry", "invalid_case_entry">>,
                <<cases[i].id = None, "invalid_case_id">>,
                <<\E j \in 1..(i - 1) : cases[j].malformed # "entry" /\ cases[j].id = cases[i].id,
                  "duplicate_case_id">>,
                <<cases[i].outcome \notin {"success", "allowed_failure"}, "invalid_expected_outcome">>,
                <<cases[i].status \notin {"success", "failed"}, "invalid_observed_status">>,
                <<cases[i].evidence = None, "invalid_case_evidence_ref">>,
                <<cases[i].status = "success" /\ cases[i].category # None, "success_case_with_error_category">>,
                <<cases[i].status = "failed" /\ cases[i].category = None,
                  "failed_case_without_error_category">> >>)

KeptCases(cases) == At(cases, {i \in DOMAIN cases : CaseFault(cases, i) = None})

\* _normalize_adapter_results
EntryFault(entries, i) ==
  FirstFault(<< <<entries[i].malformed = "entry", "invalid_adapter_result_entry">>,
                <<entries[i].key = None, "invalid_adapter_key">>,
                <<\E j \in 1..(i - 1) : entries[j].malformed # "entry" /\ entries[j].key = entries[i].key,
                  "duplicate_adapter_key">> >>)

GoodEntries(entries) == {i \in DOMAIN entries : EntryFault(entries, i) = None}

KeptEntries(entries) ==
  [n \in DOMAIN At(entries, GoodEntries(entries)) |->
     [At(entries, GoodEntries(entries))[n] EXCEPT !.cases = KeptCases(@)]]

EntryFaults(entries) ==
  ({EntryFault(entries, i) : i \in DOMAIN entries}
    \cup UNION {{CaseFault(entries[i].cases, n) : n \in DOMAIN entries[i].cases} : i \in GoodEntries(entries)})
  \ {None}

\* What became of a case against what was expected of it.
OutcomeFault(c) ==
  FirstFault(<< <<c.outcome = "success" /\ c.status # "success", "expected_success_not_observed">>,
                <<c.outcome = "allowed_failure" /\ c.status # "failed", "expected_failure_not_observed">>,
                <<c.outcome = "allowed_failure" /\ c.category \notin AllowedCategories,
                  "disallowed_failure_category">> >>)

Covered(cases, outcome) == \E i \in DOMAIN cases : cases[i].outcome = outcome /\ OutcomeFault(cases[i]) = None

Matrix(cases) == [i \in DOMAIN cases |->
                    [id |-> cases[i].id, outcome |-> cases[i].outcome, evidence |-> cases[i].evidence]]

AdapterFailures(version, key, kept) ==
  LET found == {i \in DOMAIN kept : kept[i].key = key}
      cases == kept[Min(found)].cases
  IN IF found = {} THEN {"missing_adapter_result"}
     ELSE AllFaults(<< <<version # FrozenVersion \/ key \notin DOMAIN FrozenMatrix,
                         "missing_frozen_case_matrix_for_version">>,
                       <<version = FrozenVersion /\ key \in DOMAIN FrozenMatrix /\ Matrix(cases) # FrozenMatrix[key],
                         "case_matrix_mismatch">>,
                       <<~Covered(cases, "success"), "missing_success_coverage">>,
                       <<~Covered(cases, "allowed_failure"), "missing_allowed_failure_coverage">> >>)
          \cup ({OutcomeFault(cases[i]) : i \in DOMAIN cases} \ {None})

\* The report against the version, the pair, and the surface that it was asked for.  A
\* payload that is no mapping is one whose parts are all None.
RegressionFaults(payload, version, pair, operation, target) ==
  LET frozen == version = FrozenVersion
      named == Listed(payload.pair)
      asked == Surface(operation, target)
      reported == Surface(payload.operation, payload.target)
  IN AllFaults(<< <<version = "blank", "missing_version">>,
                  <<Listed(pair) = <<>>, "invalid_reference_pair">>,
                  <<~frozen, "missing_frozen_reference_pair_for_version">>,
                  <<~frozen, "missing_frozen_operation_for_version">>,
                  <<frozen /\ ToSet(Listed(pair)) # ToSet(ReferencePair), "reference_pair_not_frozen_for_version">>,
                  <<frozen /\ asked = None, "operation_not_frozen_for_version">>,
                  <<Listed(payload.evidence) = <<>>, "missing_evidence_refs">>,
                  <<payload.version # version, "version_mismatch">>,
                  <<frozen /\ reported = None, "operation_mismatch">>,
                  <<frozen /\ asked # None /\ reported # None /\ asked # reported, "operation_surface_mismatch">>,
                  <<named = <<>>, "invalid_report_reference_pair">>,
                  <<named # <<>> /\ ToSet(named) # ToSet(Listed(pair)), "reference_pair_mismatch">>,
                  <<payload.entries = None, "invalid_adapter_results">>,
                  <<frozen /\ Listed(payload.evidence) # CaseEvidence, "case_evidence_refs_mismatch">> >>)

\* validate_real_adapter_regression_source_report, its failures and the report
RegressionFailures(payload, version, pair, operation, target) ==
  LET entries == IF payload.entries = None THEN <<>> ELSE payload.entries
      kept == KeptEntries(entries)
      keys == {kept[i].key : i \in DOMAIN kept}
  IN RegressionFaults(payload, version, pair, operation, target)
     \cup EntryFaults(entries)
     \cup AllFaults(<< <<~(keys \subseteq ToSet(Listed(pair))), "unexpected_adapter_results">> >>)
     \cup (UNION {AdapterFailures(version, key, kept) : key \in ToSet(Listed(pair))})

ValidateRegression(payload, version, pair, operation, target) ==
  LET frozen == version = FrozenVersion
      expected == Listed(pair)
      surfaces == <<Surface(payload.operation, payload.target), Surface(operation, target),
                    Surface("content_detail_by_url", "url")>>
      surface == IF frozen THEN surfaces[Min({i \in DOMAIN surfaces : surfaces[i] # None})]
                 ELSE [operation |-> "", target |-> ""]
      entries == IF payload.entries = None THEN <<>> ELSE payload.entries
  IN SourceReport("real_adapter_regression", version, RegressionFailures(payload, version, pair, operation, target),
                  IF frozen THEN CaseEvidence ELSE Listed(payload.evidence),
                  [pair |-> IF expected # <<>> THEN expected ELSE IF frozen THEN ReferencePair ELSE <<"unknown">>,
                   operation |-> surface.operation, target |-> surface.target,
                   semantic |-> IF frozen THEN "content_detail_by_url" ELSE "", entries |-> KeptEntries(entries)])

-----------------------------------------------------------------------------
(* The scan for platform leakage *)

\* _normalize_leakage_findings
FindingFault(f) ==
  FirstFault(<< <<f.malformed # None, "invalid_leakage_finding">>,
                <<f.boundary \notin ToSet(Boundaries), "unsupported_leakage_finding_boundary">>,
                <<f.ref = None, "invalid_leakage_finding_evidence_ref">> >>)

KeptFindings(findings) ==
  IF findings = None THEN <<>> ELSE At(findings, {i \in DOMAIN findings : FindingFault(findings[i]) = None})

FindingFaults(findings) ==
  IF findings = None THEN {} ELSE {FindingFault(findings[i]) : i \in DOMAIN findings} \ {None}

FindingRefs(findings) == {findings[i].ref : i \in DOMAIN findings}

\* validate_platform_leakage_source_report, its failures and the report.  Evidence that does
\* not match is replaced by the evidence there should be.
LeakageVerdict(payload) == IF payload.verdict \in {"pass", "fail"} THEN payload.verdict ELSE "fail"

LeakageFailures(payload, version) ==
  LET listed == Listed(payload.evidence)
      scope == Listed(payload.boundaries)
      findings == KeptFindings(payload.findings)
      refs == FindingRefs(findings)
      verdict == LeakageVerdict(payload)
  IN AllFaults(<< <<version = "blank", "missing_version">>,
                  <<listed = <<>>, "missing_evidence_refs">>,
                  <<payload.version # version, "version_mismatch">>,
                  <<~StringList(payload.boundaries), "invalid_boundary_scope">>,
                  <<~(ToSet(Boundaries) \subseteq ToSet(scope)), "missing_boundary_scope">>,
                  <<~(ToSet(scope) \subseteq ToSet(Boundaries)), "unexpected_boundary_scope">>,
                  <<ToSet(scope) = ToSet(Boundaries) /\ scope # Boundaries, "boundary_scope_order_mismatch">>,
                  <<payload.findings = None, "missing_leakage_findings">>,
                  <<payload.verdict # verdict, "invalid_leakage_verdict">>,
                  <<verdict = "pass" /\ findings # <<>>, "pass_report_with_findings">>,
                  <<verdict = "fail" /\ findings = <<>>, "failure_report_without_findings">>,
                  <<verdict = "fail" /\ findings # <<>>, "leakage_found">>,
                  <<~(refs \subseteq ToSet(listed)), "finding_evidence_ref_missing_from_evidence_refs">>,
                  <<ToSet(listed) # ToSet(ScanRefs) \cup refs, "platform_leakage_evidence_refs_mismatch">> >>)
     \cup FindingFaults(payload.findings)

ValidateLeakage(payload, version) ==
  LET listed == Listed(payload.evidence)
      findings == KeptFindings(payload.findings)
      expected == ToSet(ScanRefs) \cup FindingRefs(findings)
  IN SourceReport("platform_leakage", version, LeakageFailures(payload, version),
                  IF ToSet(listed) = expected THEN listed ELSE Listing(expected),
                  [boundaries |-> Listed(payload.boundaries), verdict |-> LeakageVerdict(payload), findings |-> findings])

-----------------------------------------------------------------------------
(* _normalize_existing_source_report: the gate reads a report *)

\* _synthetic_failed_source_report
Synthetic(source, code) == [report |-> source, verdict |-> "fail", failures |-> {code}, facts |-> None]

\* Mutant: the failures that the report carries are forgotten.
MergeForgets(rebuilt, report) ==
  [report |-> rebuilt.source, verdict |-> rebuilt.verdict, failures |-> rebuilt.failures, facts |-> rebuilt.facts]

\* _merge_rebuilt_source_report_with_input_failures.  A rebuilt report may be without the
\* failures of the report it is rebuilt from, because the entries at fault are not in its
\* details any more: the failures the report carries are added.
Merge(rebuilt, report) ==
  LET known == report.failures \cup rebuilt.failures
      failures == IF report.verdict = "fail" /\ known = {} THEN {"upstream_failed_source_report"} ELSE known
  IN [report |-> rebuilt.source, verdict |-> IF failures = {} THEN "pass" ELSE "fail",
      failures |-> failures, facts |-> rebuilt.facts]

\* What every report must have before its details are read.
Unreadable(report, source, version) ==
  FirstFault(<< <<report.source # source, "source_mismatch">>,
                <<report.version # version, "source_report_version_mismatch">>,
                <<report.verdict \notin {"pass", "fail"}, "invalid_source_verdict">>,
                <<report.evidence = <<>> \/ None \in ToSet(report.evidence), "missing_source_evidence_refs">>,
                <<"summary" \in report.flaws, "missing_source_summary">>,
                <<"details" \in report.flaws, "invalid_source_details">>,
                <<"failures" \in report.flaws, "missing_source_failures">>,
                <<"parts" \in report.flaws, "missing_details">> >>)

\* Mutant: the harness may have been asked for other samples than the gate requires.
HarnessFaultTrusting(report, rebuilt, required) ==
  FirstFault(<< <<~StringList(report.facts.required), "invalid_required_sample_ids">>,
                <<ToSet(report.facts.observed) # ToSet(rebuilt.facts.observed),
                  "harness_observed_sample_ids_mismatch">>,
                <<report.verdict = "pass" /\ report.evidence # rebuilt.evidence,
                  "harness_evidence_refs_mismatch">> >>)

\* The samples that the gate requires must be those the harness was asked for.
HarnessFault(report, rebuilt, required) ==
  FirstFault(<< <<~StringList(report.facts.required), "invalid_required_sample_ids">>,
                <<ToSet(report.facts.required) # ToSet(required), "harness_required_sample_ids_mismatch">>,
                <<~StringList(report.facts.observed), "invalid_harness_observed_sample_ids">>,
                <<ToSet(report.facts.observed) # ToSet(rebuilt.facts.observed),
                  "harness_observed_sample_ids_mismatch">>,
                <<report.verdict = "pass" /\ report.evidence # rebuilt.evidence,
                  "harness_evidence_refs_mismatch">> >>)

Rebuilt(report, version, pair, required) ==
  LET facts == report.facts
  IN CASE report.source = "harness" -> BuildHarness(facts.results, required, version)
       [] report.source = "real_adapter_regression" ->
            ValidateRegression([version |-> version, pair |-> facts.pair, operation |-> facts.operation,
                                target |-> facts.target, entries |-> facts.entries, evidence |-> report.evidence],
                               version, pair, facts.operation, facts.target)
       [] report.source = "platform_leakage" ->
            ValidateLeakage([version |-> version, boundaries |-> facts.boundaries, verdict |-> facts.verdict,
                             findings |-> facts.findings, evidence |-> report.evidence], version)

DetailsFault(report, rebuilt, required) ==
  CASE report.source = "harness" -> HarnessFault(report, rebuilt, required)
    [] report.source = "real_adapter_regression" ->
         FirstFault(<< <<report.facts.semantic # rebuilt.facts.semantic,
                         "real_regression_semantic_operation_mismatch">> >>)
    [] report.source = "platform_leakage" -> None

ReadReport(report, source, version, pair, required) ==
  IF Unreadable(report, source, version) # None
  THEN Synthetic(source, Unreadable(report, source, version))
  ELSE LET rebuilt == Rebuilt(report, version, pair, required)
           fault == DetailsFault(report, rebuilt, required)
       IN IF fault # None THEN Synthetic(source, fault) ELSE Merge(rebuilt, report)

-----------------------------------------------------------------------------
(* orchestrate_version_gate *)

Sources == {"harness", "real_adapter_regression", "platform_leakage"}

GateFaults(version, pair, required) ==
  AllFaults(<< <<Listed(pair) = <<>>, "invalid_reference_pair">>,
               <<version # FrozenVersion, "missing_frozen_reference_pair_for_version">>,
               <<version = FrozenVersion /\ ToSet(Listed(pair)) # ToSet(ReferencePair),
                 "reference_pair_not_frozen_for_version">>,
               <<version = "blank", "missing_version">>,
               <<required = None, "missing_required_harness_sample_ids">>,
               <<required # None /\ ~StringList(required), "invalid_required_harness_sample_ids">> >>)

GatePair(version, pair) ==
  IF Listed(pair) # <<>> THEN pair ELSE IF version = FrozenVersion THEN ReferencePair ELSE <<"unknown">>

\* reports maps the sources that have a report to it.  The samples are not frozen for any
\* version: the gate has to be told which it requires.
OrchestrateVersionGate(version, pair, required, reports) ==
  LET read == [s \in Sources |->
                 IF s \in DOMAIN reports
                 THEN ReadReport(reports[s], s, CanonicalVersion(version), GatePair(version, pair), Listed(required))
                 ELSE Synthetic(s, "missing_source_report")]
      failures == {<<"version_gate", code>> : code \in GateFaults(version, pair, required)}
                  \cup UNION {{<<s, code>> : code \in read[s].failures} : s \in Sources}
  IN [version |-> CanonicalVersion(version), pair |-> GatePair(version, pair), read |-> read,
      failures |-> failures, safe |-> failures = {}]
=============================================================================
