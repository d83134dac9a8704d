------------------------------- MODULE ReleasePath -------------------------------
(***************************************************************************)
(* From a contract to a release.  A change is proposed, reviewed and merged  *)
(* (GuardedMerge).  An adapter's requirement and a provider's  *)
(* offer are decided on; the adapter is registered with what it required;    *)
(* the runtime admits requests for it, and a reader goes on from one that    *)
(* was admitted (ReadingSession), or it is tried for as long as its policy    *)
(* allows (FailureReports); the reference adapters of the registry are       *)
(* put through the regression; its report, the harness's and                 *)
(* the leakage scan's go to the version gate, some altered in between; and   *)
(* the operability gate takes the evidence that an earlier step left behind. *)
(* Beside all this, reports on the sessions of accounts are put to the        *)
(* runtime (SessionHealth).                                                  *)
(*                                                                         *)
(* Each step is one call of the code on what the calls before it left, and   *)
(* on arguments from a finite set.  A step forgets what no later step reads. *)
(***************************************************************************)
EXTENDS GuardedMerge, CompatibilityDecision, XhsFetch, DouyinFetch, FailureReports, SessionHealth, ReferenceRegression, OperabilityGate

CONSTANTS
  Inputs,          \* decisions asked for: [surface, requirement, offer, context]
  Registries,      \* registries without the adapter that was decided on: lists of [key, adapter]
  Requests,        \* requests submitted
  Rehearsals,      \* what the sources see: [version, bindings, answers, results, required, leakage]
  GateArguments,   \* [version, pair, required]
  Revisions,       \* revisions of the code that evidence is made at
  Certifications   \* arguments of the operability gate

\* Samples, their results and findings come in lists, or not at all; a list is something.
ASSUME ListsAssumption ==
  /\ \A x \in Rehearsals : /\ x.results # None => IsList(x.results) /\ Listing(SampleIds(KeptResults(x.results))) # None
                           /\ x.required # None => IsList(x.required)
                           /\ x.leakage.findings # None => IsList(x.leakage.findings)
  /\ \A a \in GateArguments : a.required # None => IsList(a.required)

\* The operability gate gets a list of cases, each with a reference to its result or without one.
ASSUME CasesAssumption ==
  \A c \in Certifications :
    /\ DOMAIN c = {"revision", "flaws", "baselineRef", "baseline", "cases", "evidence"}
    /\ IsList(c.cases)
    /\ \A n \in DOMAIN c.cases :
         LET ref == c.cases[n].resultRef
         IN /\ c.cases[n].malformed \in {None, "entry"}
            /\ ref = None \/ ref = Ref(ref.revision, ref.about, ref.at)

\* A request has all its parts, if only as None.
ASSUME RequestsAssumption ==
  \A r \in Requests :
    /\ DOMAIN r = {"entry", "malformed", "adapter", "operation", "target", "mode", "value", "cursor"}
    /\ r.cursor \in Cursors

ASSUME ValuesAssumption == None \notin {"good", "unsafe"}

\* Profiles come in a list, each with a list of references; a declaration is something with profiles.
ProfilesHaveLists(profiles) == IsList(profiles) /\ \A n \in DOMAIN profiles : IsList(profiles[n].refs)
DeclarationHasLists(d) == d # None /\ ProfilesHaveLists(d.profiles)

\* An adapter is something, and has a list of declarations; some of its attributes may be at fault.
RegistryHasLists(its) ==
  /\ IsList(its)
  /\ \A n \in DOMAIN its :
       LET a == its[n].adapter
       IN /\ a # None /\ a.malformed \subseteq {"execute", "families", "targets", "modes", "declarations"}
          /\ IsList(a.declarations) /\ \A k \in DOMAIN a.declarations : DeclarationHasLists(a.declarations[k])

ASSUME RegistriesAssumption == \A others \in Registries : RegistryHasLists(others)

VARIABLES
  stage,        \* the call that was made last
  input,        \* the decision asked for
  decision,
  want,         \* the requirement of a matched decision that was registered
  items,        \* the registry
  request,
  response,     \* the HTTP status and the reply to the request
  built,        \* the reports of the three sources, as they were made
  reports,      \* the reports as the version gate gets them
  asked,        \* the arguments of the version gate
  gate,         \* its result
  artifact,     \* the local artifact of the operability cases
  certification,
  certificate   \* the result of the operability gate

contract == <<input, decision>>
runtime == <<want, items, request, response>>
release == <<built, reports, asked, gate>>
operability == <<artifact, certification, certificate>>
reading == <<session, fetch, task>>
vars == <<stage, merging, governance, contract, runtime, reading, release, operability>>

Init ==
  /\ stage = "idle"
  /\ input = None /\ decision = None
  /\ want = None /\ items = <<>> /\ request = None /\ response = None
  /\ built = None /\ reports = None /\ asked = None /\ gate = None
  /\ artifact = None /\ certification = None /\ certificate = None
  /\ MergeInit /\ SessionInit /\ FetchInit /\ FailuresInit /\ HealthInit

-----------------------------------------------------------------------------
\* A change of the repository, until it is merged.
Contribute ==
  /\ stage \in {"idle", "merging"}
  /\ stage' = "merging"
  /\ MergeNext
  /\ UNCHANGED <<contract, runtime, reading, release, operability, governance>>

DecideOn(i) ==
  /\ stage = "idle"
  /\ stage' = "decided"
  /\ input' = i
  /\ decision' = Decide(i)
  /\ UNCHANGED <<runtime, reading, release, operability, merging, governance>>

\* The adapter that a requirement speaks of.
AdapterOf(r) ==
  [malformed |-> {}, families |-> {r.family}, targets |-> {r.slice[2]}, modes |-> {r.slice[3]},
   declarations |-> <<r.declaration>>]

\* A decision is asked for about two contracts with profiles, under an id with somebody's names.
ASSUME InputsAssumption ==
  \A i \in Inputs :
    /\ AdapterOf(i.requirement) # None /\ DeclarationHasLists(i.requirement.declaration)
    /\ ProfilesHaveLists(i.offer.profiles)
    /\ i.context.id.names \cap {None, "canonical"} = {}

\* The adapter of a matched decision is registered next to others.
RegisterDecided(others) ==
  /\ stage = "decided"
  /\ decision.status = "matched"
  /\ \A n \in DOMAIN others : others[n].key # decision.adapter
  /\ stage' = "registered"
  /\ want' = input.requirement
  /\ items' = Append(others, [key |-> decision.adapter, adapter |-> AdapterOf(input.requirement)])
  /\ input' = None /\ decision' = None
  /\ UNCHANGED <<request, response, reading, release, operability, merging, governance>>

RegisterOthers(others) ==
  /\ stage = "idle"
  /\ stage' = "registered"
  /\ items' = others
  /\ UNCHANGED <<contract, want, request, response, reading, release, operability, merging, governance>>

SubmitRequest(r) ==
  /\ stage = "registered"
  /\ stage' = "served"
  /\ request' = r
  /\ response' = Submit(items, r)
  /\ UNCHANGED <<contract, want, items, reading, release, operability, merging, governance>>

\* A request that was admitted with its resources goes to the adapter.
Execute ==
  /\ stage = "served"
  /\ response.reply.outcome = "matched"
  /\ stage' = "reading"
  /\ Dispatch(request, response.reply.slots # {})
  /\ want' = None /\ items' = <<>> /\ request' = None /\ response' = None
  /\ UNCHANGED <<contract, fetch, task, release, operability, merging, governance>>

\* Any adapter answers what it likes ...
Read ==
  /\ stage = "reading" /\ fetch = None
  /\ \/ \E a \in Answers(ask) : a # None /\ AnswerTask(a)
     \/ Follow
  /\ UNCHANGED <<stage, contract, runtime, fetch, task, release, operability, merging, governance>>

\* ... but the reference adapters what they find.
Fetch ==
  /\ stage = "reading"
  /\ \/ \E url \in Urls, material \in Materials : XhsStart(url, material) \/ DouyinStart(url, material)
     \/ XhsStep
     \/ DouyinStep
     \/ Expires
  /\ UNCHANGED <<stage, contract, runtime, task, release, operability, merging, governance>>

\* Or nobody looks at what it answers, but at whether it does: a task is refused at the limit,
\* or when its record is not written, or it starts.
Undertake ==
  /\ stage = "served"
  /\ response.reply.outcome = "matched"
  /\ stage' = "running"
  /\ task' \in {AtTheLimit}
       \cup {Unstarted(code, at) : code \in {"task_record_persistence_failed", "task_record_conflict"},
                                  at \in {"accepted", "running"}}
       \cup {Begun(request.operation = "content_detail_by_url", response.reply.slots # {}, most) : most \in 1..MaxAttempts}
  /\ want' = None /\ items' = <<>> /\ request' = None /\ response' = None
  /\ UNCHANGED <<contract, session, fetch, release, operability, merging, governance>>

Try ==
  /\ stage = "running"
  /\ TaskNext
  /\ UNCHANGED <<stage, contract, runtime, session, fetch, release, operability, merging, governance>>

-----------------------------------------------------------------------------
\* Reports on sessions come in, and a task asks for its accounts, or is told of a report.
Govern ==
  /\ stage \in {"idle", "reporting"}
  /\ \/ \E e \in HealthReports : Report(e) /\ stage' = "reporting"
     \/ \E c \in AdmissionCalls : AskAdmission(c) /\ stage' = "admission"
     \/ \E e \in HealthReports, ledger \in Ledgers, c \in AdmissionCalls :
          AskInvalidation(e, c.context.task, c.context.operation, ledger) /\ stage' = "invalidation"
  /\ UNCHANGED <<merging, contract, runtime, reading, release, operability>>

-----------------------------------------------------------------------------
\* The three sources report on a version.
Rehearse(x) ==
  /\ stage = "registered"
  /\ stage' = "reported"
  /\ built' = [harness |-> BuildHarness(x.results, x.required, x.version),
               real_adapter_regression |-> RunRegression(items, x.version, x.bindings, x.answers),
               platform_leakage |-> ValidateLeakage(x.leakage, x.version)]
  /\ reports' = built'
  /\ want' = None /\ items' = <<>>
  /\ UNCHANGED <<contract, request, response, reading, asked, gate, operability, merging, governance>>

\* What may become of a report before the gate gets it, if it is not lost: another's is put in
\* its place, or its verdict, failures or evidence are lost or restated, or a part of it.
Altered(s) ==
  {reports[t] : t \in Sources \ {s}}
    \cup {[reports[s] EXCEPT !.verdict = v, !.failures = {}] : v \in {"pass", "fail", None}}
    \cup {[reports[s] EXCEPT !.failures = {}]}
    \cup {[reports[s] EXCEPT !.evidence = e] : e \in {<<>>, <<"stray">>}}
    \cup {[reports[s] EXCEPT !.flaws = {part}] : part \in {"summary", "details", "failures", "parts"}}

Alter(s) ==
  /\ stage = "reported"
  /\ stage' = "altered"
  /\ \/ reports' = [t \in Sources \ {s} |-> reports[t]]
     \/ \E report \in Altered(s) : reports' = [reports EXCEPT ![s] = report]
  /\ UNCHANGED <<contract, runtime, reading, built, asked, gate, operability, merging, governance>>

DecideRelease(a) ==
  /\ stage \in {"reported", "altered"}
  /\ stage' = "gated"
  /\ asked' = a
  /\ gate' = OrchestrateVersionGate(a.version, a.pair, a.required, reports)
  /\ UNCHANGED <<contract, runtime, reading, built, reports, operability, merging, governance>>

-----------------------------------------------------------------------------
\* build_runtime_evidence writes the results of the cases at a revision to the artifact; a
\* result may mention the revision.
RunCases(revision, mentions) ==
  /\ stage = "gated" /\ gate.safe
  /\ stage' = "recorded"
  /\ artifact' = [id \in MandatoryCases |-> [says |-> "expected", mentions |-> mentions]]
  /\ mentions \subseteq {revision}
  /\ built' = None /\ reports' = None /\ asked' = None
  /\ UNCHANGED <<contract, runtime, reading, gate, certification, certificate, merging, governance>>

\* The result of the version gate, as a baseline.
OwnBaseline(c) ==
  [ref |-> c.baselineRef, revision |-> c.revision, release |-> gate.version,
   verdict |-> IF gate.safe THEN "pass" ELSE "fail", safe |-> gate.safe,
   evidence |-> {c.baselineRef, Ref(c.revision, None, "test")}]

\* The operability gate gets its baseline from outside, or from the version gate.
Certify(c, own) ==
  /\ stage = "recorded"
  /\ stage' = "certified"
  /\ certification' = IF own THEN [c EXCEPT !.baseline = OwnBaseline(c)] ELSE c
  /\ certificate' = OrchestrateOperabilityGate(certification', artifact)
  /\ UNCHANGED <<contract, runtime, reading, release, artifact, merging, governance>>

Next ==
  \/ Contribute
  \/ \E i \in Inputs : DecideOn(i)
  \/ \E others \in Registries : RegisterDecided(others)
  \/ \E others \in Registries : RegisterOthers(others)
  \/ \E r \in Requests : SubmitRequest(r)
  \/ Execute
  \/ Read
  \/ Fetch
  \/ Undertake
  \/ Try
  \/ Govern
  \/ \E x \in Rehearsals : Rehearse(x)
  \/ \E s \in Sources : Alter(s)
  \/ \E a \in GateArguments : DecideRelease(a)
  \/ \E revision \in Revisions : \E mentions \in SUBSET {revision} : RunCases(revision, mentions)
  \/ \E c \in Certifications, own \in BOOLEAN : Certify(c, own)

Spec == Init /\ [][Next]_vars

-----------------------------------------------------------------------------
(* Properties *)

InputCodes ==
  {"invalid_xhs_url", "xhs_resource_bundle_missing", "xhs_account_material_missing",
   "invalid_douyin_url", "douyin_resource_bundle_missing", "douyin_account_material_missing"}

\* What is merged, unless the author meddles with it while the guardian is at it, is what was
\* reviewed, and found safe, and checked: its head, its tree and its description; a change that
\* says that it touches the other repository has a recheck that was confirmed, on record, and
\* in accordance with its issue.  (Only the head is safe from the author up to the merge, and
\* the tree only if he has forced nothing back.)
MergedIsReviewed ==
  /\ guardian.at = "merged" =>
       LET seen == guardian.current
           check == seen.body.check
       IN /\ saved.approve /\ saved.safe /\ change.head = saved.head /\ seen.body = saved.body
          /\ change.pushed = {change.head} => saved.tree = change.head
          /\ Undisturbed => change.body = seen.body /\ guardian.seen.checked = change.head
          /\ IF check = None THEN IssueContract(guardian.seen.issue) = None
             ELSE /\ RequiresGate(check) => guardian.confirmed /\ Gated(check) /\ check.beforeMerge = "yes"
                  /\ Agrees(check, IssueContract(guardian.seen.issue))
  /\ NothingLeftBehind
  /\ OpenedIsReviewable

\* Core never learns from a decision's id which provider is behind an adapter: an id that
\* contains an identity of the offer is refused as a leak before anything is said of the
\* contracts, and a decision that is not refused carries none.  The guard in front of Core
\* catches every id that contains an identity the decision itself gives as evidence
\* (_validate_context_provider_identity, provider_no_leakage_guard.py).
CoreSeesNoProvider ==
  LET named == input.context.id.names \cap {input.offer.provider, input.offer.observedProvider,
                                            input.offer.observedId}
  IN /\ named # {} /\ input.surface = "canonical" => decision.code = "provider_leakage_detected"
     /\ decision.status # "invalid_contract" => named = {}
     /\ GuardPasses(decision) => decision.id.names \cap decision.providers = {}

\* Two valid contracts that fit each other are matched on exactly the resource proofs that
\* both cite as evidence, and each of them is an approved shared proof of the capabilities
\* matched and covers the adapter (_match_profiles in
\* adapter_provider_compatibility_decision.py).  A decision that blames a contract blames
\* one that is at fault, and calls a reference resolved only when such a proof stands
\* behind it; and its id names no provider.
MatchedIsBacked ==
  stage = "decided" =>
    LET r == input.requirement
        o == input.offer
        Backed(ref) == \E pr \in ProofRecords : /\ pr.ref = ref /\ pr.shared = "shared"
                                                /\ {r.adapter, o.adapter} \cap pr.adapters # {}
    IN /\ CoreSeesNoProvider
       /\ \A ref \in decision.resolved : Backed(ref)
       /\ decision.source = "FR-0024" => ~ValidRequirement(r)
       /\ decision.source = "FR-0025" => ValidRequirement(r) /\ ~ValidOffer(o)
       /\ decision.status # "invalid_contract" =>
            LET shared == ToSet(r.evidence) \cap ToSet(o.evidence)
            IN /\ UNION {ToSet(m.required.refs) : m \in decision.matched} = shared
               /\ UNION {ToSet(m.offered.refs) : m \in decision.matched} = shared
               /\ decision.status = "matched" <=> shared # {}
               /\ \A m \in decision.matched : \E pr \in ProofRecords :
                    /\ pr.shared = "shared" /\ r.adapter \in pr.adapters
                    /\ pr.ref = m.required.refs[1] /\ pr.ref = m.offered.refs[1]
                    /\ ToSet(pr.caps) = ToSet(m.required.caps) /\ ToSet(pr.caps) = ToSet(m.offered.caps)

\* What the runtime decides about sessions of accounts is fresh, and taken back from nobody
\* but the task concerned: an admission rests on the latest reports, and an invalidation
\* settles the lease that it is about and no other (resource_health.py).
SessionsAreGoverned ==
  /\ stage = "admission" => AdmissionIsFresh
  /\ stage = "invalidation" => InvalidationIsScoped

\* What was matched runs: once the adapter of a matched decision is registered as it was
\* decided on, a plain request for its slice is matched with resources that cover one of
\* its profiles, unless another adapter breaks the registry (match_resource_capabilities and
\* AdapterRegistry.from_mapping agree with the decision).
MatchedWouldRun ==
  LET plain == /\ request.entry \in {"task", "core"} /\ request.malformed = {} /\ request.cursor = "none"
               /\ request.value = "good" /\ request.adapter = want.adapter
               /\ <<request.operation, request.target, request.mode>> = want.slice
      sound == \A n \in DOMAIN items : items[n].key # want.adapter => AdapterError(items[n].key, items[n].adapter) = None
  IN want # None /\ plain =>
       /\ sound <=> response.reply.outcome = "matched"
       /\ sound => \E n \in DOMAIN want.declaration.profiles :
                     ToSet(want.declaration.profiles[n].caps) \subseteq response.reply.slots

\* A request that is matched is one that the runtime can serve: its operation is delivered
\* on the target and in the mode it asks for, no cursor leads elsewhere, every adapter of
\* the registry is sound, and the adapter it names supports the slice and has one
\* declaration for it, whose approved proofs name this adapter and whose capabilities the
\* slots cover.  Over HTTP, 202 is answered to a request that left a record and to no
\* other, and 500 only when the registry, the task id or a declaration is at fault.
AdmittedIsServable ==
  stage = "served" =>
    LET reply == response.reply
        Approved(d, caps, refs) ==
          IF d.version = "v1" THEN d.refs = {<<d.adapter, c>> : c \in ToSet(caps)}
          ELSE \E pr \in ProofRecords :
                 /\ pr.shared = "shared" /\ request.adapter \in pr.adapters
                 /\ refs = <<pr.ref>> /\ pr.caps = caps
        Servable(e, a, d) ==
          /\ e.family \in a.families /\ e.target \in a.targets /\ e.mode \in a.modes
          /\ d.capability = e.family /\ d.adapter = request.adapter
          /\ \/ d.version = "v1" /\ Approved(d, d.caps, <<>>) /\ ToSet(d.caps) \subseteq reply.slots
             \/ /\ d.version = "v2"
                /\ \A n \in DOMAIN d.profiles : Approved(d, d.profiles[n].caps, d.profiles[n].refs)
                /\ \E n \in DOMAIN d.profiles : ToSet(d.profiles[n].caps) \subseteq reply.slots
    IN /\ MatchedWouldRun
       /\ reply.outcome = "matched" =>
            /\ \A n \in DOMAIN items : items[n].adapter.malformed = {} /\ items[n].key # None
            /\ request.operation \in Continued \cup {"comment_collection"} => request.cursor \in {"none", "here"}
            /\ \E n \in DOMAIN items, m \in DOMAIN StableRows :
                 /\ items[n].key = request.adapter /\ StableRows[m].operation = request.operation
                 /\ request.entry = "core" => <<request.target, request.mode>> =
                                              <<StableRows[m].target, StableRows[m].mode>>
                 /\ \E k \in DOMAIN items[n].adapter.declarations :
                      Servable(StableRows[m], items[n].adapter, items[n].adapter.declarations[k])
       /\ request.entry = "http" =>
            /\ response.status = 202 <=> reply.outcome # "refused"
            /\ response.status = 500 =>
                 \/ "task_id" \in request.malformed \/ RegistryFault(items) # None
                 \/ Lookup(items, request.adapter).declarations = <<>>
                 \/ ~\E k \in DOMAIN Lookup(items, request.adapter).declarations :
                       Lookup(items, request.adapter).declarations[k].capability = "content_detail"

\* A task of the runtime that fails says why, in its signal, its log and its metrics
\* (FailureIsExplained; with_failure_observability and execute_controlled_adapter_attempts).
\* Which of Core's words the log and the metric use is left open here: TimeoutsAreCounted
\* says it of timeouts, and there the code does something else than its document.
FailuresAreExplained == task # None => FailureIsExplained

\* A task that fails for the timeout of its last attempt has a log event timeout_triggered and
\* a metric timeout_total for it, whether its attempts were exhausted or not; a timeout whose
\* retry is rejected is reported as the rejection (FR-0017, scenarios 3 and 6).  Not so in the
\* code: infer_failure_metric_name goes by the phase, infer_failure_phase calls an exhausted
\* timeout retry_exhausted, and the metric is task_failed_total.
TimeoutsAreCounted ==
  LET TimedOut(t) == FailedItself(t) /\ t.refs[Max(EndedAttempts(t))].says = "timeout"
      Rejected == \E n \in DOMAIN task.events : task.events[n].says \in Rejections
      e == task.envelope
  IN task # None =>
       (task.at = "closed" /\ EndedAttempts(task) = 1..task.n /\ TimedOut(task) /\ ~Rejected =>
          ToldBy(e.logs, {"timeout_triggered"}, e.signal) /\ ToldBy(e.metrics, {"timeout_total"}, e.signal))

\* No valid answer is lost on the way to its record: what the runtime takes from an adapter,
\* the record takes too, with the policy that the answer repeats instead of the question's,
\* unless the answer is not JSON (validate_success_terminal_envelope in task_record.py checks
\* again what validate_success_payload in runtime.py has checked).  What a reference adapter
\* makes of a post, wherever it has it from, is a valid answer.  A batch publishes nothing
\* that has no record.  The record of the batch itself, which has no cursors, takes a media
\* asset asked for with the default policy, and replies of one root on a page that was asked
\* for in a thread (validate_batch_success_terminal_envelope); that it should take the others
\* is what BatchIsRecorded says, and the code does not.
AnswerIsRecorded ==
  answer # None =>
    /\ outcome.record = "invalid" => ~answer.json
    /\ fetch # None => outcome.record \in {"succeeded", "invalid"}
    /\ outcome.kept =>
         LET readable == CASE ask.operation = "media_asset_fetch_by_ref" -> PolicyOf(ask) = DefaultPolicy
                           [] ask.operation = Comments ->
                                NeedsCursor(answer) => thread # None /\ \A i, j \in Items(answer) : i.root = j.root
                           [] OTHER -> TRUE
         IN outcome.record = "succeeded" /\ (readable => BatchRecords(answer, ask))

\* The record of a batch takes what the batch publishes, unless the replies on a page have
\* several roots, so that nobody could tell the thread (the promise that CHORE-0448 makes of
\* batch_result_envelope_to_dict's carriers).  Not so in the code: without the cursor,
\* _infer_public_comment_thread_ref takes a page that was asked for by a page cursor, and on
\* which there are replies of one comment, for a page of that comment's thread, which then
\* would have to go on in it; and a media asset is measured against the default policy
\* instead of the one it was fetched with.
BatchIsRecorded ==
  LET OneRoot == \A i, j \in Items(answer) : i.root = j.root
  IN answer # None =>
       (outcome.kept /\ (ask.operation = Comments => OneRoot) => BatchRecords(answer, ask))

\* A reader who goes on from page to page stays where he is: in the thread that he entered
\* last, and with comments of that thread only.  Every cursor out of a page of comments that
\* was taken, and out of any page that a batch publishes, is one that the next request and
\* the next batch admit (validate_success_payload against _normalize_request_cursor,
\* validate_continuation_token and validate_batch_target_item).
PagesContinue ==
  stage = "reading" =>
    /\ ask.operation = Comments =>
         /\ ThreadOf(ask.cursor) = thread
         /\ outcome # None => outcome.record \in {"succeeded", "failed", "invalid"} /\ answer # None
    /\ answer # None /\ outcome.reply = "success" =>
         /\ ask.operation = Comments /\ thread # None => \A i \in Items(answer) : Binds(i, thread)
         /\ \A cursor \in CursorsOf(answer, ask) :
              /\ ask.operation = Comments \/ outcome.kept => CursorRefused(NextQuestion(cursor)) = None
              /\ outcome.kept => BatchAsks(NextQuestion(cursor))

\* A reference adapter goes to the end of its way: it blames the request before it has asked
\* anybody, reports what went wrong between it and the platform only when the page and the
\* browser could not help, and calls a post missing for which the platform had given a reason
\* not to show it only on the word of the page in the browser (fetch_content_detail and its
\* recovery in xhs_provider.py and douyin_provider.py).  A post is the one that was asked for,
\* unless Douyin's interface itself sends another.
FetchIsThorough ==
  LET told == IF fetch.error = None THEN FALSE ELSE fetch.error.told
  IN fetch # None =>
       /\ outcome.reply \in InputCodes => fetch.asked = {}
       /\ outcome.reply \in {XhsUnsigned.code, XhsFailed.code, XhsMissing.code} => {"page", "tabs"} \subseteq fetch.asked
       /\ outcome.reply \in {DouyinUnsigned.code, DouyinFailed.code} => "tabs" \in fetch.asked
       /\ outcome.reply \in {XhsMissing.code, DouyinMissing.code} /\ told => "state" \in fetch.asked
       /\ fetch.by # None /\ ~(fetch.adapter = "douyin" /\ fetch.by = "detail") => answer.normalized.id = "asked"

\* An answer that is recorded as a success is one to the question: about its reference, and
\* for a media asset within the policy that was asked for.  Without a policy nothing is
\* downloaded; a download stays within the limit, its audit tells of the same bytes as its
\* metadata, and an asset of an excluded type comes with no media and is said to be denied
\* (validate_success_payload, _media_fetch_policy_allows_outcome).
AnswerFitsRequest ==
  /\ outcome # None => FetchIsThorough
  /\ answer # None /\ outcome.record = "succeeded" =>
       /\ ask.operation \in BatchOperations => answer.operation = ask.operation /\ answer.target.ref = ask.ref
       /\ ask.operation = "media_asset_fetch_by_ref" =>
            LET bytes == BytesOf(answer)
                audited == IF answer.audit = None THEN None ELSE answer.audit.bytes
            IN /\ bytes = audited
               /\ bytes # None =>
                    /\ IF ask.cursor = None THEN FALSE ELSE ask.cursor.download
                    /\ ask.cursor.mode \in {"download_if_allowed", "download_required"}
                    /\ ask.cursor.max # None => bytes <= ask.cursor.max
               /\ ask.cursor # None =>
                    /\ ask.cursor.mode = "download_required" /\ answer.status = "complete" => bytes # None
                    /\ answer.content \in MediaTypes \ ToSet(ask.cursor.types) =>
                         answer.media = None /\ answer.class = "fetch_policy_denied"

\* A release that is called safe has earned it, whatever became of the reports on the way:
\* it is the frozen version with the frozen pair; the harness saw every required sample,
\* and there is one, pass or fail for a legal reason, and nothing worse; both reference
\* adapters went through exactly the frozen cases, each with the outcome expected of it;
\* and the leakage scan covered the boundaries in order and found nothing
\* (orchestrate_version_gate over _normalize_existing_source_report).
ReleaseIsEarned ==
  stage = "gated" /\ gate.safe =>
    LET harness == reports["harness"].facts
        regression == reports["real_adapter_regression"].facts
        leakage == reports["platform_leakage"].facts
        SeenFor(sample) == {harness.results[n] : n \in {m \in DOMAIN harness.results : harness.results[m].sample = sample}}
    IN /\ gate.version = "v0.2.0" /\ ToSet(gate.pair) = {"xhs", "douyin"}
       /\ ToSet(asked.required) # {} /\ ToSet(harness.required) = ToSet(asked.required)
       /\ \A sample \in ToSet(asked.required) : Cardinality(SeenFor(sample)) = 1
       /\ \A n \in DOMAIN harness.results :
            LET seen == harness.results[n]
            IN \/ seen.verdict = "pass" /\ seen.status = "success"
               \/ /\ seen.verdict = "legal_failure" /\ seen.status = "failed"
                  /\ seen.category \in {"invalid_input", "unsupported", "platform"}
       /\ {regression.entries[n].key : n \in DOMAIN regression.entries} = {"xhs", "douyin"}
       /\ \A n \in DOMAIN regression.entries :
            LET cases == regression.entries[n].cases
            IN /\ [m \in DOMAIN cases |-> cases[m].id] =
                  IF regression.entries[n].key = "xhs" THEN <<"xhs-success", "xhs-invalid-input">>
                  ELSE <<"douyin-success", "douyin-platform">>
               /\ cases[1].status = "success"
               /\ cases[2].status = "failed" /\ cases[2].category \in {"invalid_input", "platform"}
       /\ leakage.boundaries = Boundaries /\ leakage.findings = <<>> /\ leakage.verdict = "pass"

\* On reports that reach it as they were made, the gate says what the sources said: a
\* release is safe exactly when all three pass and were made for the version, the pair and
\* the samples that the gate is asked about.  A failing source is not forgotten when its
\* report is rebuilt, although what was at fault is not in its details any more, and a
\* passing one stays so (_merge_rebuilt_source_report_with_input_failures).
GateAgreesWithSources ==
  stage = "gated" /\ reports = built =>
    (gate.safe <=>
       /\ \A s \in Sources : built[s].verdict = "pass"
       /\ asked.version = "v0.2.0"
       /\ StringList(asked.pair) /\ ToSet(asked.pair) = {"xhs", "douyin"}
       /\ StringList(asked.required) /\ asked.required # None
       /\ ToSet(asked.required) = ToSet(built["harness"].facts.required))

\* An operability gate that passes is bound to one revision and to a baseline that passed
\* for its own release: every mandatory case is there once, with the result that the
\* artifact has for it and that mentions no other revision, every reference names the
\* revision, and none of the mandatory cases is among the failed ones.  (A version gate's
\* own result is no such baseline, as it knows no release but v0.2.0.)  In every summary a
\* mandatory case counts as passed only if it is there without a fault
\* (orchestrate_operability_gate).
OperabilityIsBound ==
  stage = "certified" =>
    LET c == certification
        Clean(id) ==
          \E n \in DOMAIN c.cases :
            /\ c.cases[n].id = id /\ c.cases[n].malformed = None /\ c.cases[n].verdict = "pass"
            /\ c.cases[n].impact = "mandatory" /\ c.cases[n].dimension = DimensionOf(id)
            /\ artifact[id] = c.cases[n].result /\ c.cases[n].result.mentions \subseteq {c.revision}
            /\ c.cases[n].resultRef = Ref(c.revision, id, "actual_result")
            /\ \A m \in DOMAIN c.cases : c.cases[m].malformed = None /\ c.cases[m].id = id => m = n
    IN /\ \A id \in MandatoryCases \ certificate.failed : Clean(id)
       /\ certificate.safe =>
            /\ certificate.failed \cap MandatoryCases = {}
            /\ c.baseline.release = "v0.6.0" /\ c.baseline.safe /\ c.baseline.verdict = "pass"
            /\ c.baseline # OwnBaseline(c)
            /\ \A ref \in c.baseline.evidence \cup c.evidence
                            \cup UNION {c.cases[n].evidence \cup c.cases[n].upstream : n \in DOMAIN c.cases} :
                 ref.revision = c.revision
=============================================================================
