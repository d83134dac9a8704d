----------------------------- MODULE IntegrationGate -----------------------------
(***************************************************************************)
(* The integration contract of a change (scripts/integration_contract.py):   *)
(* what an issue and a pull request say of the other repository's part in a  *)
(* change, when that needs a recheck at the merge, and what the project item *)
(* that they refer to has to say then.                                       *)
(*                                                                         *)
(* A payload is a record of the contract's fields; "" is a field that is not *)
(* there and "odd" a value that is no choice.  A payload without any field   *)
(* is None.  References to the same issue may be spelled in two ways.        *)
(***************************************************************************)
EXTENDS Checks

FieldChoices ==
  [touchpoint |-> {"none", "check_required", "active", "blocked", "resolved"},
   shared |-> {"no", "yes"},
   dependency |-> {"none", "syvert", "webenvoy", "both"},
   gate |-> {"local_only", "integration_check_required"},
   surface |-> {"none", "execution_provider", "ids_trace", "errors", "raw_normalized",
                "diagnostics_observability", "runtime_modes"},
   joint |-> {"no", "yes"},
   beforePr |-> {"no", "yes"},
   beforeMerge |-> {"no", "yes"}]

IssueFields == {"touchpoint", "shared", "ref", "dependency", "gate", "surface", "joint"}
PrFields == IssueFields \cup {"beforePr", "beforeMerge"}

Complete(payload, fields) == \A f \in fields : payload[f] # ""
EnumsFit(payload, fields) == \A f \in fields \ {"ref"} : payload[f] \in FieldChoices[f]

\* Two spellings of a reference are the same issue.
NormalRef(ref) == IF ref = "issue url" THEN "issue" ELSE ref
Checkable(ref) == NormalRef(ref) \in {"issue", "other issue", "item"}

Gated(payload) == IF payload = None THEN FALSE ELSE payload.gate = "integration_check_required"

RequiresGate(payload) ==
  \/ payload.touchpoint # "none" \/ payload.shared = "yes" \/ payload.dependency # "none"
  \/ payload.surface # "none" \/ payload.joint = "yes"

\* What the three validations of a payload agree on.
Coherent(payload) ==
  /\ payload.touchpoint # "none" => Checkable(payload.ref)
  /\ RequiresGate(payload) => Gated(payload)
  /\ payload.dependency # "none" \/ payload.joint = "yes" \/ payload.surface # "none" => payload.touchpoint # "none"
  /\ IF Gated(payload) THEN payload.touchpoint # "none" /\ Checkable(payload.ref) ELSE payload.ref = "none"

\* The pull request says what its issue says.
Agrees(payload, canonical) ==
  canonical # None =>
    \A f \in IssueFields : IF f = "ref" THEN NormalRef(payload.ref) = NormalRef(canonical.ref)
                           ELSE payload[f] = canonical[f]

-----------------------------------------------------------------------------
(* An issue as it is fetched: [kind, fields], where kind is "read", "failed" or "garbled" *)

IssueFaulty(issue) ==
  \/ issue.kind # "read"
  \/ IF issue.fields = None THEN FALSE
     ELSE ~(/\ Complete(issue.fields, IssueFields)
            /\ EnumsFit(issue.fields, IssueFields)
            /\ Coherent(issue.fields))

IssueContract(issue) == IF issue.kind = "read" THEN issue.fields ELSE None

\* A pull request may be opened.
OpenPrFits(payload, canonical) ==
  /\ EnumsFit(payload, PrFields)
  /\ Coherent(payload)
  /\ Gated(payload) => payload.beforePr = "yes"
  /\ payload.beforeMerge # "yes"
  /\ Agrees(payload, canonical)

MergePayloadFits(payload, canonical) ==
  /\ payload.gate \in FieldChoices.gate
  /\ Complete(payload, PrFields)
  /\ EnumsFit(payload, PrFields)
  /\ Agrees(payload, canonical)
  /\ Coherent(payload)
  /\ Gated(payload) => payload.beforePr = "yes" /\ payload.beforeMerge = "yes"

\* A pull request may be merged, as far as the contract goes.
MergeContractFits(payload, issue) ==
  /\ ~IssueFaulty(issue)
  /\ IF payload = None THEN IssueContract(issue) = None ELSE MergePayloadFits(payload, IssueContract(issue))

-----------------------------------------------------------------------------
(* What GitHub says of the reference: [kind, nodes, cut], where nodes are project items and *)
(* cut says that a page of them has no successor although there is one                      *)

CanonicalItem(node) == node.item /\ ~node.archived /\ node.canonical

\* The state of the reference, or None if it cannot be told.
LiveState(ref, reply) ==
  IF reply.kind # "read" THEN None
  ELSE IF ref = "item"
  THEN LET node == reply.nodes[1]
       IN IF CanonicalItem(node) /\ node.belongs /\ node.content # None THEN node ELSE None
  ELSE LET candidates == {i \in DOMAIN reply.nodes : CanonicalItem(reply.nodes[i])}
       IN IF ~reply.cut /\ Cardinality(candidates) = 1 THEN reply.nodes[Min(candidates)] ELSE None

LiveFits(payload, reply) ==
  Gated(payload) =>
    LET live == LiveState(NormalRef(payload.ref), reply)
    IN IF live = None THEN FALSE
       ELSE /\ live.status \in {"ready", "review", "done"}
            /\ live.order \notin {"", "webenvoy_first"}
            /\ live.owner # "" /\ live.contract # ""
            /\ payload.joint = "yes" => live.joint \in {"ready", "passed"}

\* The issue behind a reference, or None: an item has it as its content.
IssueBehind(ref, reply) ==
  IF NormalRef(ref) # "item" THEN NormalRef(ref)
  ELSE LET live == LiveState("item", reply)
       IN IF live = None THEN None ELSE IF live.content = "draft" THEN None ELSE live.content

\* The reference as the pull request will have it: spelled as the issue does.
CanonicalRef(ref, issue, reply) ==
  LET own == IF IssueFaulty(issue) \/ IssueContract(issue) = None THEN None ELSE IssueContract(issue).ref
  IN IF own = None \/ ref \in {"", "none"} THEN ref
     ELSE IF NormalRef(own) = NormalRef(ref) THEN own
     ELSE IF IssueBehind(own, reply) # None /\ IssueBehind(own, reply) = IssueBehind(ref, reply) THEN own
     ELSE ref
=============================================================================
