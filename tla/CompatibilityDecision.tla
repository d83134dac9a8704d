------------------------- MODULE CompatibilityDecision -------------------------
(***************************************************************************)
(* Whether an adapter's requirement and a provider's offer go together      *)
(* (adapter_capability_requirement.py, provider_capability_offer.py,         *)
(* adapter_provider_compatibility_decision.py), what Core is told of the    *)
(* decision, and the guard that looks for the provider in what Core sees     *)
(* (provider_no_leakage_guard.py).                                           *)
(*                                                                         *)
(* "flaws" names what is wrong with a contract in parts that are not         *)
(* modelled (a missing or forbidden field, a drifting version, a lifecycle   *)
(* that lets Core discover providers, fail_closed FALSE): each makes the     *)
(* contract invalid in the same way.  A name that is derived from others is  *)
(* modelled by the identities it contains, hyphens around them.              *)
(***************************************************************************)
EXTENDS ResourceProfiles, OperationTaxonomy

\* The slice of a contract is a stable operation of its family.
\* _validate_top_level_slice, _validate_capability_offer
InSlice(c) == IsStable(Taxonomy, c.slice[1], c.slice[2], c.slice[3])
              /\ FamilyOf(Taxonomy, c.slice[1], c.slice[2], c.slice[3]) = c.family

\* The proof references of a collection of profiles, in order.
ProofRefs(profiles) == FlattenSeq([i \in DOMAIN profiles |-> profiles[i].refs])

-----------------------------------------------------------------------------
(* The requirement of an adapter *)

\* _normalize_resource_requirement: the registry takes it, as a declaration of profiles.
ResourceRequirementTaken(r) == r.declaration.version = "v2" /\ DeclarationTaken(r.adapter, r.declaration)

\* _validate_requirement_contract
RequirementHolds(r) ==
  /\ InSlice(r)
  /\ r.declaration.capability = r.family
  /\ r.evidence = ProofRefs(r.declaration.profiles)
  /\ r.proofs = r.evidence

\* _normalize_requirement, and what the contract must say
ValidRequirement(r) == r.flaws = {} /\ ResourceRequirementTaken(r) /\ RequirementHolds(r)

\* validate_adapter_capability_requirement, given the resources there are.
RequirementStatus(r, available) ==
  IF ~ValidRequirement(r) THEN "invalid"
  ELSE IF MatchStatus(r.declaration, r.adapter, r.family, available) = "matched"
       THEN "declared" ELSE "unmatched"

-----------------------------------------------------------------------------
(* The offer of a provider *)

\* Mutant: a proof is looked up, and not compared with the profile.
ProfileOfferedOnRef(o, profile) ==
  /\ CapabilitiesAllowed(profile.mode, profile.caps)
  /\ Len(profile.refs) = 1
  /\ \E p \in ApprovedProofs : p.ref = profile.refs[1] /\ o.adapter \in p.adapters

\* _validate_resource_support, of one profile.  Unlike the registry it puts the capabilities
\* in order itself, and does not ask for which family a proof was made.
ProfileOffered(o, profile) ==
  /\ CapabilitiesAllowed(profile.mode, profile.caps)
  /\ Len(profile.refs) = 1
  /\ \E p \in ApprovedProofs :
       /\ p.ref = profile.refs[1] /\ o.adapter \in p.adapters
       /\ p.mode = profile.mode /\ p.caps = Canonical(profile.caps)

SameTuple(p, q) == p.mode = q.mode /\ Canonical(p.caps) = Canonical(q.caps)

\* _validate_resource_support, of all profiles together
ProfilesOffered(o) ==
  /\ o.profiles # <<>>
  /\ \A i \in DOMAIN o.profiles : ProfileOffered(o, o.profiles[i])
  /\ \A i, j \in DOMAIN o.profiles : o.profiles[i].key = o.profiles[j].key => i = j
  /\ \A i, j \in DOMAIN o.profiles : SameTuple(o.profiles[i], o.profiles[j]) => i = j

\* _validate_observability: what is observed of an offer is the offer's own.
Observable(o) == o.proofs = o.evidence /\ o.observedProvider = o.provider /\ o.observedId = "canonical"

\* _normalize_offer and _validate_offer_contract
ValidOffer(o) ==
  /\ o.flaws = {} /\ o.provider # None
  /\ InSlice(o)
  /\ ProfilesOffered(o)
  /\ o.evidence = ProofRefs(o.profiles)
  /\ Observable(o)

-----------------------------------------------------------------------------
(* decide_adapter_provider_compatibility *)

\* The identities that the raw offer gives, whether it is valid or not.  A canonical
\* offer id contains the provider's key and adds nothing to it.
OfferIdentities(o) == {o.provider, o.observedProvider, o.observedId} \ {None, "canonical"}

\* _validate_context_provider_identity
NamesProvider(id, o) == id.names \cap OfferIdentities(o) # {}

\* The checks of the decision, each with the contract it blames.
Blame(source, code) == [source |-> source, code |-> code]
Drift == Blame("FR-0026", "invalid_compatibility_contract")
Leak == Blame("FR-0026", "provider_leakage_detected")

\* Whoever is blamed, somebody is.
ASSUME SourcesAssumption == None \notin {"FR-0024", "FR-0025", "FR-0026"}
ASSUME BlamesAssumption ==
  None \notin {Drift, Leak, Blame("FR-0024", "invalid_requirement_contract"),
               Blame("FR-0025", "invalid_provider_offer_contract")}

\* decide_adapter_provider_compatibility up to the match of profiles.  A surface is
\* "canonical", "drifted", or "leaking" when a field too many names a provider.
DecisionFault(input) ==
  LET c == input.context
      r == input.requirement
      o == input.offer
  IN FirstFault(<< <<input.surface = "drifted", Drift>>,
                   <<input.surface = "leaking", Leak>>,
                   <<NamesProvider(c.id, o), Leak>>,
                   <<c.surface = "drifted", Drift>>,
                   <<c.surface = "leaking", Leak>>,
                   <<~c.id.opaque, Leak>>,
                   <<~c.frozen, Drift>>,
                   <<RequirementStatus(r, ResourceCapabilities) = "invalid",
                     Blame("FR-0024", "invalid_requirement_contract")>>,
                   <<~ValidOffer(o), Blame("FR-0025", "invalid_provider_offer_contract")>>,
                   <<r.adapter # o.adapter \/ r.family # o.family \/ r.slice # o.slice, Drift>> >>)

\* _match_profiles
MatchedProfiles(r, o) ==
  {m \in [required : ToSet(r.declaration.profiles), offered : ToSet(o.profiles)] :
     SameTuple(m.required, m.offered)}

-----------------------------------------------------------------------------
(* The evidence of a decision that blames a contract *)

RequirementCarrier(r) ==
  [adapter |-> r.adapter, family |-> r.family, slice |-> r.slice, profiles |-> r.declaration.profiles,
   surfaces |-> <<ProofRefs(r.declaration.profiles), r.evidence, r.proofs>>]

OfferCarrier(o) ==
  [adapter |-> o.adapter, family |-> o.family, slice |-> o.slice, profiles |-> o.profiles,
   surfaces |-> <<ProofRefs(o.profiles), o.evidence, o.proofs>>]

Carriers(input, source) ==
  CASE source = "FR-0024" -> {RequirementCarrier(input.requirement)}
    [] source = "FR-0025" -> {OfferCarrier(input.offer)}
    [] OTHER -> {RequirementCarrier(input.requirement), OfferCarrier(input.offer)}

CarrierRefs(c) == UNION {ToSet(c.surfaces[i]) : i \in DOMAIN c.surfaces}

\* _profile_ref_satisfies_fr0027: unlike the registry it wants the very family and slice
\* of the proof.
RefSatisfied(c, ref) ==
  \E p \in ApprovedProofs, i \in DOMAIN c.profiles :
    /\ p.ref = ref /\ ref \in ToSet(c.profiles[i].refs)
    /\ c.adapter \in p.adapters /\ c.family = p.capability /\ c.slice = p.slice
    /\ c.profiles[i].mode = p.mode
    /\ Len(c.profiles[i].caps) = Len(p.caps) /\ ToSet(c.profiles[i].caps) = ToSet(p.caps)

\* _classify_profile_evidence_refs: a reference is resolved when each of the three
\* surfaces has it exactly once and its profile satisfies the proof.
Resolved(c) ==
  {ref \in CarrierRefs(c) :
     /\ RefSatisfied(c, ref)
     /\ \A i \in DOMAIN c.surfaces : Cardinality({n \in DOMAIN c.surfaces[i] : c.surfaces[i][n] = ref}) = 1}

ResolvedRefs(input, source) == UNION {Resolved(c) : c \in Carriers(input, source)}
UnresolvedRefs(input, source) == UNION {CarrierRefs(c) \ Resolved(c) : c \in Carriers(input, source)}

-----------------------------------------------------------------------------
(* The decision, and what Core sees of it *)

\* AdapterBoundProviderEvidence: only of an offer that gives both its provider and its id.
ProviderEvidence(o) ==
  IF o.provider = None \/ o.observedId = None THEN {} ELSE {o.provider, o.observedId} \ {"canonical"}

InvalidDecision(input, fault) ==
  [id |-> input.context.id, status |-> "invalid_contract", adapter |-> None, family |-> None,
   matched |-> {}, code |-> fault.code, source |-> fault.source, providers |-> ProviderEvidence(input.offer),
   resolved |-> ResolvedRefs(input, fault.source), unresolved |-> UnresolvedRefs(input, fault.source)]

\* The decision on two contracts that fit each other.
FittingDecision(input) ==
  LET matched == MatchedProfiles(input.requirement, input.offer)
  IN [id |-> input.context.id, status |-> IF matched = {} THEN "unmatched" ELSE "matched",
      adapter |-> input.requirement.adapter, family |-> input.requirement.family, matched |-> matched,
      code |-> None, source |-> None, providers |-> ProviderEvidence(input.offer),
      resolved |-> ToSet(input.requirement.evidence) \cup ToSet(input.offer.evidence), unresolved |-> {}]

Decide(input) ==
  IF DecisionFault(input) # None THEN InvalidDecision(input, DecisionFault(input)) ELSE FittingDecision(input)

\* project_compatibility_decision_for_core: it keeps the decision's id and error code.
CoreProjection(d) == [id |-> d.id, adapter |-> d.adapter, family |-> d.family, status |-> d.status, code |-> d.code]

\* guard_core_provider_no_leakage on such a projection: the id must not contain an
\* identity that the decision carries.  Two of the decision's own error codes look like a
\* provider to the guard.
GuardPasses(d) ==
  LET seen == CoreProjection(d)
  IN seen.id.names \cap d.providers = {}
     /\ seen.code \notin {"invalid_provider_offer_contract", "provider_leakage_detected"}
=============================================================================
