--------------------------- MODULE ReferenceRegression ---------------------------
(***************************************************************************)
(* How the regression source of the version gate comes about                *)
(* (syvert/real_adapter_regression.py): the frozen cases of the two          *)
(* reference adapters go through the runtime as requests.                    *)
(*                                                                         *)
(* bindings says what is wrong with the object behind a reference adapter:   *)
(* "identity" (another class), "override" (an attribute of the instance      *)
(* hides the class's), "browser" (it reaches the default page transport).    *)
(* answers says how the adapter answers a case that Core hands to it.        *)
(***************************************************************************)
EXTENDS RequestAdmission, VersionGate

\* _FROZEN_REFERENCE_ADAPTER_SURFACE_BY_VERSION, the same for both adapters.
FrozenSurface(adapter) ==
  /\ adapter.families = {"content_detail"} /\ adapter.targets = {"url"} /\ adapter.modes = {"hybrid"}
  /\ adapter.malformed \cap {"families", "targets", "modes"} = {}

\* validate_reference_adapter_surface and validate_reference_adapter_runtime_binding
AdapterBinding(items, key, flaws) ==
  IF Lookup(items, key) = None THEN "missing_reference_adapter"
  ELSE FirstFault(<< <<"identity" \in flaws, "invalid_reference_adapter_identity">>,
                     <<~FrozenSurface(Lookup(items, key)), "unexpected_reference_adapter_surface">>,
                     <<"override" \in flaws, "overridden_reference_adapter_interface">>,
                     <<key = "douyin" /\ "browser" \in flaws, "non_hermetic_reference_adapter_binding">> >>)

\* resolve_reference_adapters
BindingFault(items, version, bindings) ==
  FirstFault(<< <<version # FrozenVersion, "missing_frozen_reference_adapter_surface">>,
                <<AdapterBinding(items, "xhs", bindings["xhs"]) # None,
                  AdapterBinding(items, "xhs", bindings["xhs"])>>,
                <<AdapterBinding(items, "douyin", bindings["douyin"]) # None,
                  AdapterBinding(items, "douyin", bindings["douyin"])>> >>)

CaseRequest(key) ==
  [entry |-> "task", malformed |-> {}, adapter |-> key, operation |-> "content_detail_by_url",
   target |-> "url", value |-> "good", mode |-> "hybrid", cursor |-> "none"]

\* The envelope of a case: the adapter's answer if Core gets that far, on a store with
\* an account and a proxy for it.  An adapter with the frozen surface can only be refused
\* for what it declares about resources.
Envelope(items, key, answer) ==
  IF Admit(items, CaseRequest(key)).outcome = "matched" THEN answer
  ELSE [status |-> "failed", category |-> "runtime_contract"]

\* build_regression_case_from_envelope
CaseFrom(frozen, envelope) ==
  [malformed |-> None, id |-> frozen.id, outcome |-> frozen.outcome, evidence |-> frozen.evidence,
   status |-> envelope.status, category |-> envelope.category]

RegressionPayload(version, entries, evidence) ==
  [version |-> version, pair |-> ReferencePair, operation |-> "content_detail_by_url", target |-> "url",
   evidence |-> evidence, entries |-> entries]

\* The items that the cases run with: the reference adapters, whatever else there is.
ReferenceItems(items) ==
  [i \in DOMAIN ReferencePair |-> [key |-> ReferencePair[i], adapter |-> Lookup(items, ReferencePair[i])]]

Entry(items, key, answers) ==
  [malformed |-> None, key |-> key,
   cases |-> [n \in DOMAIN FrozenMatrix[key] |->
                CaseFrom(FrozenMatrix[key][n],
                         Envelope(items, key, answers[FrozenMatrix[key][n].id]))]]

ValidatedRegression(version, entries, evidence) ==
  ValidateRegression(RegressionPayload(version, entries, evidence), version, ReferencePair,
                     "content_detail_by_url", "url")

\* run_real_adapter_regression: a bad binding is reported as a failure of its own, on top
\* of those of a regression without results.
RunRegression(items, version, bindings, answers) ==
  LET fault == BindingFault(items, version, bindings)
      unbound == ValidatedRegression(version, <<>>, <<"binding">>)
      entries == [n \in DOMAIN ReferencePair |-> Entry(ReferenceItems(items), ReferencePair[n], answers)]
  IN IF fault # None THEN [unbound EXCEPT !.verdict = "fail", !.failures = @ \cup {fault}]
     ELSE ValidatedRegression(version, entries, CaseEvidence)
=============================================================================
