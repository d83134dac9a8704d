---------------------------- MODULE ResourceProfiles ----------------------------
(***************************************************************************)
(* What an adapter declares about the resources it needs, how the registry  *)
(* takes the declaration (syvert/registry.py) on the strength of the        *)
(* approved profile proofs (syvert/resource_capability_evidence.py), and     *)
(* how the runtime matches it with what a request brings.                    *)
(*                                                                         *)
(* A declaration is of the first version (one list of capabilities, backed  *)
(* by evidence records) or of the second (a collection of profiles, each    *)
(* backed by one proof).  The evidence of a first version declaration is a  *)
(* set of pairs <<adapter, resource capability>>; the order of its strings  *)
(* is left out.                                                              *)
(***************************************************************************)
EXTENDS Checks

ReferenceAdapters == {"xhs", "douyin"}
ResourceCapabilities == {"account", "proxy"}
CapabilityOrder == <<"account", "proxy">>
Families == {"content_detail", "content_search", "content_list", "comment_collection",
             "creator_profile", "media_asset_fetch"}
\* The families that may stand on the proofs of content_detail.
ContentDetailCompatible == Families \ {"content_detail"}

Proof(ref, mode, caps, adapters, shared) ==
  [ref |-> ref, capability |-> "content_detail", slice |-> <<"content_detail_by_url", "url", "hybrid">>,
   mode |-> mode, caps |-> caps, adapters |-> adapters, shared |-> shared]

ProofRecords ==
  { Proof("account-proxy", "required", <<"account", "proxy">>, ReferenceAdapters, "shared"),
    Proof("account", "required", <<"account">>, ReferenceAdapters, "shared"),
    Proof("private-material", "required", <<"account", "verify_fp", "ms_token", "webid">>, {"douyin"},
          "adapter_only"),
    Proof("proxy", "required", <<"proxy">>, ReferenceAdapters, "rejected"),
    Proof("none", "none", <<>>, ReferenceAdapters, "rejected") }

\* approved_shared_resource_requirement_profile_evidence_entries
ApprovedProofs == {p \in ProofRecords : p.shared = "shared"}

-----------------------------------------------------------------------------
(* The registry *)

\* What a declaration of either version says about its capabilities.
CapabilitiesAllowed(mode, caps) ==
  /\ mode \in {"none", "required"}
  /\ caps # None
  /\ IsInjective(caps)
  /\ ToSet(caps) \subseteq ResourceCapabilities
  /\ mode = "none" <=> caps = <<>>

\* Capabilities in the order that the code gives them.
Canonical(caps) ==
  CHOOSE order \in {<<>>, <<"account">>, <<"proxy">>, CapabilityOrder} : ToSet(order) = ToSet(caps) \cap ResourceCapabilities

\* _canonical_declaration_evidence_refs: mode none has no frozen evidence.
FrozenEvidence(adapter, caps) == {<<adapter, c>> : c \in ToSet(caps)}

DeclarationV1Taken(adapter, d) ==
  /\ CapabilitiesAllowed(d.mode, d.caps)
  /\ d.mode = "required"
  /\ adapter \in ReferenceAdapters
  /\ d.refs = FrozenEvidence(adapter, d.caps)

\* _validate_profile_proof_alignment
ProofAligned(p, adapter, capability, profile) ==
  /\ p.capability = capability \/ capability \in ContentDetailCompatible
  /\ adapter \in p.adapters
  /\ p.mode = profile.mode /\ p.caps = profile.caps

\* A profile of a second version declaration.
ProfileTaken(adapter, capability, profile) ==
  /\ profile.key # None
  /\ CapabilitiesAllowed(profile.mode, profile.caps)
  /\ profile.caps = Canonical(profile.caps)
  /\ Len(profile.refs) = 1
  /\ \E p \in ApprovedProofs : p.ref = profile.refs[1] /\ ProofAligned(p, adapter, capability, profile)

DeclarationV2Taken(adapter, d) ==
  /\ d.profiles # <<>>
  /\ \A i, j \in DOMAIN d.profiles : d.profiles[i].key = d.profiles[j].key => i = j
  /\ \A i, j \in DOMAIN d.profiles :
       d.profiles[i].mode = d.profiles[j].mode /\ d.profiles[i].caps = d.profiles[j].caps => i = j
  /\ \A i \in DOMAIN d.profiles : ProfileTaken(adapter, d.capability, d.profiles[i])

\* _validate_resource_requirement_declaration
DeclarationTaken(adapter, d) ==
  /\ d.adapter = adapter
  /\ d.capability \in Families
  /\ d.version = "v1" => DeclarationV1Taken(adapter, d)
  /\ d.version = "v2" => DeclarationV2Taken(adapter, d)
  /\ d.version \in {"v1", "v2"}

\* _validate_resource_requirement_declarations: an adapter may declare nothing, and
\* not declare a family twice nor one that it does not support.
DeclarationsTaken(key, adapter) ==
  LET ds == adapter.declarations
  IN /\ \A i \in DOMAIN ds : DeclarationTaken(key, ds[i]) /\ ds[i].capability \in adapter.families
     /\ \A i, j \in DOMAIN ds : ds[i].capability = ds[j].capability => i = j

\* _build_adapter_declaration.  "malformed" names the attributes of the adapter that
\* are missing or no collection of strings (of declarations).
AdapterError(key, adapter) ==
  FirstFault(<< <<key = None, "invalid_adapter_registry">>,
                <<"execute" \in adapter.malformed, "invalid_adapter_declaration">>,
                <<"families" \in adapter.malformed, "invalid_adapter_capabilities">>,
                <<"targets" \in adapter.malformed, "invalid_adapter_targets">>,
                <<"modes" \in adapter.malformed, "invalid_adapter_collection_modes">>,
                <<"declarations" \in adapter.malformed \/ ~DeclarationsTaken(key, adapter),
                  "invalid_adapter_resource_requirements">> >>)

\* AdapterRegistry.from_mapping, over the items [key, adapter] in their order.  The
\* error of the first bad item fails the whole registry.
RegistryFault(items) ==
  FirstFault([i \in DOMAIN items |->
                <<AdapterError(items[i].key, items[i].adapter) # None,
                  AdapterError(items[i].key, items[i].adapter)>>])

Lookup(items, key) ==
  LET found == {i \in DOMAIN items : items[i].key = key}
  IN IF found = {} THEN None ELSE items[Min(found)].adapter

LookupRequirement(adapter, capability) ==
  LET found == {i \in DOMAIN adapter.declarations : adapter.declarations[i].capability = capability}
  IN IF found = {} THEN None ELSE adapter.declarations[Min(found)]

-----------------------------------------------------------------------------
(* The matcher of the runtime *)

\* _requirement_profile_is_satisfied
ProfileSatisfied(profile, available) == profile.mode = "none" \/ ToSet(profile.caps) \subseteq available

\* Mutant: every profile of a collection must be satisfied.
SatisfiedByEvery(d, available) ==
  \/ d.version = "v1" /\ ToSet(d.caps) \subseteq available
  \/ d.version = "v2" /\ \A i \in DOMAIN d.profiles : ProfileSatisfied(d.profiles[i], available)

\* _requirement_declaration_is_satisfied
Satisfied(d, available) ==
  \/ d.version = "v1" /\ ToSet(d.caps) \subseteq available
  \/ d.version = "v2" /\ \E i \in DOMAIN d.profiles : ProfileSatisfied(d.profiles[i], available)

\* The evidence of one adapter and of content_detail: approved_resource_requirement_evidence_refs_for.
EvidenceFor(adapter, capability) ==
  IF adapter \in ReferenceAdapters /\ capability = "content_detail"
  THEN FrozenEvidence(adapter, CapabilityOrder) ELSE {}

\* _validate_matcher_requirement_declaration: a first version declaration without
\* resources is taken by the matcher, although the registry refuses it.
MatcherTakes(d, adapter, capability) ==
  /\ d.adapter = adapter /\ d.capability = capability /\ capability \in Families
  /\ \/ DeclarationTaken(adapter, d)
     \/ /\ d.version = "v1" /\ d.mode = "none" /\ d.caps = <<>>
        /\ d.refs # {} /\ d.refs \subseteq EvidenceFor(adapter, capability)

\* match_resource_capabilities, for known available capabilities.
MatchStatus(d, adapter, capability, available) ==
  IF ~MatcherTakes(d, adapter, capability) THEN "invalid"
  ELSE IF Satisfied(d, available) THEN "matched" ELSE "unmatched"

\* What sorted prefers of two compatible profiles.  (Python orders the tuples of
\* capabilities as strings: "account" comes before "proxy".)
Lighter(p, q) ==
  \/ Len(p.caps) < Len(q.caps)
  \/ Len(p.caps) = Len(q.caps) /\ p.caps = <<"account">>

\* resolve_runtime_requested_resource_slots: three families ask for no more than the
\* smallest profile, all others for every slot of the operation.
RequestedSlots(d, available) ==
  LET compatible == {p \in ToSet(d.profiles) : ProfileSatisfied(p, available)}
  IN CASE d.capability \notin {"comment_collection", "creator_profile", "media_asset_fetch"} -> available
       [] d.capability \in {"comment_collection", "creator_profile", "media_asset_fetch"} /\ d.version = "v1" ->
            ToSet(d.caps)
       [] OTHER -> IF compatible = {} THEN available
                   ELSE ToSet((CHOOSE p \in compatible : \A q \in compatible \ {p} : Lighter(p, q)).caps)
=============================================================================
