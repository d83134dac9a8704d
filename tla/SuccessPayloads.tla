---------------------------- MODULE SuccessPayloads ----------------------------
(***************************************************************************)
(* What the runtime takes for an adapter's answer (validate_success_payload  *)
(* and what comes after it in run_adapter_attempt_with_timeout,              *)
(* syvert/runtime.py).                                                       *)
(*                                                                         *)
(* A question has an operation, the adapter it goes to, the reference it is  *)
(* about and a cursor: the token of a search or list, the page and reply     *)
(* cursor of a comment collection, the fetch policy of a media asset.        *)
(* "leased" says that the adapter works with leased resources.               *)
(***************************************************************************)
EXTENDS ReadSideResults, RequestAdmission

Given(s) == s \notin {None, ""}

\* Strings that an identity of a creator and a reference to a media asset must not contain
\* (CREATOR_PROFILE_FORBIDDEN_REF_VALUE_TOKENS, MEDIA_ASSET_FORBIDDEN_REF_VALUE_TOKENS).
CreatorRef(s) == Given(s) /\ s \notin {"https://", "session"}
MediaRef(s) == Given(s) /\ s \notin {"https://", "session", "bucket"}

Blocked(p) == p.class = "provider_or_network_blocked"
BlockedAlias == "provider://blocked-path-alias"

TargetType(operation) == StableRow(operation).target

\* The target of an answer is the one asked for.
AboutTarget(p, q) ==
  /\ p.operation = q.operation /\ p.target.operation = q.operation
  /\ p.target.type = TargetType(q.operation) /\ p.target.ref = q.ref

-----------------------------------------------------------------------------
(* Cursors *)

MediaTypes == {"image", "video"}
FetchModes == {"metadata_only", "preserve_source_ref", "download_if_allowed", "download_required"}

\* validate_media_fetch_policy
ValidPolicy(policy) ==
  IF policy = None THEN FALSE
  ELSE /\ policy.sound /\ policy.mode \in FetchModes
       /\ policy.types # <<>> /\ IsInjective(policy.types) /\ ToSet(policy.types) \subseteq MediaTypes
       /\ policy.download # None
       /\ policy.max # None => policy.max >= 0

\* validate_public_continuation_token, of a token that is not blank.
PublicToken(token) == token \notin {"https://", "bucket", "a/b"}

\* A question without a cursor: comment_request_cursor_from_dict makes an object of it.
NoCursor(operation) == IF operation = Comments THEN [page |-> None, reply |-> None] ELSE None

\* The cursor of a question, as RequestAdmission sees it.
CommentCursorKind(c, ref) ==
  LET parts == {c.page, c.reply} \ {None}
  IN CASE ~(ReadCommentContinuation(c.page) /\ ReadReplyCursor(c.reply)) -> "broken"
       [] c.page # None /\ c.reply # None -> "both"
       [] parts = {} -> "none"
       [] OTHER -> IF \A part \in parts : part.target = ref THEN "here" ELSE "elsewhere"

CursorKind(q) ==
  IF q.operation = Comments THEN CommentCursorKind(q.cursor, q.ref)
  ELSE IF q.cursor = None THEN "none"
  ELSE IF q.operation \notin Searches THEN (IF ValidPolicy(q.cursor) THEN "here" ELSE "broken")
  ELSE IF ~Filled(q.cursor) THEN "broken"
  ELSE IF PublicToken(q.cursor) THEN "here" ELSE "elsewhere"

\* _comment_request_cursor_thread_ref: a question without a thread is one for a page of
\* top-level comments (_comment_request_cursor_is_top_level_page).
ThreadOf(cursor) ==
  IF cursor.reply # None THEN cursor.reply.thread
  ELSE IF cursor.page # None THEN cursor.page.thread ELSE None

-----------------------------------------------------------------------------
(* Pages *)

CollectionAnswers(p, q) == ValidCollection(p) /\ AboutTarget(p, q)

\* Mutant: a page that continues in a thread need not stay in it.
StaysInThreadOfItems(p, thread) ==
  IF thread = None THEN p.next # None => p.next.thread = None
  ELSE \A i \in Items(p) : Binds(i, thread)

\* A page of a thread holds replies of it and goes on in it; another page does not enter one.
StaysInThread(p, thread) ==
  IF thread = None THEN p.next # None => p.next.thread = None
  ELSE /\ p.next # None => p.next.thread = thread
       /\ \A i \in Items(p) : Binds(i, thread)

\* An answer to a question for comments, in a thread or outside any.
CommentsAnswerIn(p, q, thread) == ValidCommentPage(p) /\ AboutTarget(p, q) /\ StaysInThread(p, thread)
CommentsAnswer(p, q) == CommentsAnswerIn(p, q, ThreadOf(q.cursor))

-----------------------------------------------------------------------------
(* Creators *)

CreatorUnavailable == {"target_not_found", "profile_unavailable", "permission_denied"}
CreatorFailed ==
  {"rate_limited", "platform_failed", "provider_or_network_blocked", "parse_failed", "credential_invalid",
   "verification_required", "signature_or_request_invalid"}

CreatorTrace(p) ==
  LET t == p.trace
  IN /\ t.sound /\ Given(t.adapter) /\ Given(t.evidence) /\ t.at = "utc"
     /\ CreatorRef(t.path) /\ (t.profile # None => CreatorRef(t.profile))
     /\ Blocked(p) => t.path = BlockedAlias

\* An answer without a profile says why, in one of two ways.
CreatorStatus(p) ==
  /\ p.status \in {"complete", "unavailable", "failed"}
  /\ p.status = "complete" => p.class = None /\ Given(p.raw)
  /\ p.status = "unavailable" => p.class \in CreatorUnavailable
  /\ p.status = "failed" => p.class \in CreatorFailed
  /\ Blocked(p) => p.raw = None

CreatorProfile(p) ==
  IF p.status # "complete" THEN p.profile = None
  ELSE IF p.profile = None THEN FALSE
  ELSE LET f == p.profile
       IN /\ f.sound /\ CreatorRef(f.creator) /\ CreatorRef(f.canonical) /\ Given(f.name)
          /\ f.avatar # None => CreatorRef(f.avatar)
          /\ f.counts \subseteq Nat

CreatorAnswers(p, q) ==
  /\ p.sound /\ AboutTarget(p, q) /\ p.target.sound
  /\ CreatorRef(p.target.ref) /\ (p.target.policy # None => CreatorRef(p.target.policy))
  /\ CreatorStatus(p) /\ CreatorTrace(p) /\ p.audit = {} /\ CreatorProfile(p)

-----------------------------------------------------------------------------
(* Media assets *)

FetchOutcomes == {"metadata_only", "source_ref_preserved", "downloaded_bytes"}
ASSUME OutcomesAssumption == None \notin FetchOutcomes /\ None \notin Nat
MediaUnavailable == {"media_unavailable", "permission_denied"}
MediaFailed ==
  {"unsupported_content_type", "fetch_policy_denied", "rate_limited", "platform_failed",
   "provider_or_network_blocked", "parse_failed", "credential_invalid", "verification_required",
   "signature_or_request_invalid"}

\* Mutant: what nobody asked for is downloaded where that is possible.
DefaultPolicyLenient ==
  [sound |-> TRUE, mode |-> "download_if_allowed", types |-> <<"image", "video">>, download |-> TRUE, max |-> None]

\* default_media_fetch_policy; a policy that is given stands as it is (normalize_media_fetch_policy).
DefaultPolicy == [sound |-> TRUE, mode |-> "metadata_only", types |-> <<"image", "video">>, download |-> FALSE, max |-> None]
PolicyOf(q) == IF q.cursor = None THEN DefaultPolicy ELSE q.cursor

\* _media_fetch_policy_allows_outcome
PolicyAllows(policy, outcome, content, bytes) ==
  /\ content \in ToSet(policy.types)
  /\ outcome = "metadata_only" => policy.mode = "metadata_only"
  /\ outcome = "source_ref_preserved" => policy.mode \in {"preserve_source_ref", "download_if_allowed"}
  /\ outcome = "downloaded_bytes" =>
       /\ policy.mode \in {"download_if_allowed", "download_required"} /\ policy.download = TRUE
       /\ policy.max # None => (IF bytes = None THEN FALSE ELSE bytes <= policy.max)

\* A download that the policy forces and forbids at once.
Contradictory(policy) ==
  policy.mode = "download_required" /\ (policy.download # TRUE \/ policy.max = 0)

\* What kind of content it is, and how the policy took it, decide what a failure may be called.
MediaStatus(p, policy) ==
  /\ p.status \in {"complete", "unavailable", "failed"}
  /\ p.status # "complete" =>
       /\ p.outcome = None
       /\ p.content \in MediaTypes /\ p.content \notin ToSet(policy.types) => p.class = "fetch_policy_denied"
  /\ p.status = "complete" => p.content \in MediaTypes /\ p.outcome \in FetchOutcomes /\ p.class = None /\ Given(p.raw)
  /\ p.status = "unavailable" => p.class \in MediaUnavailable
  /\ p.status = "failed" =>
       /\ p.class \in MediaFailed
       /\ p.content \in MediaTypes => p.class # "unsupported_content_type"
       /\ p.content \notin MediaTypes =>
            \/ p.class = "unsupported_content_type"
            \/ p.content = "unknown" /\ p.class = "parse_failed" /\ Given(p.raw)
       /\ Contradictory(policy) => p.class = "fetch_policy_denied"
  /\ Blocked(p) => p.raw = None

\* _validate_media_asset_fetch_source_trace
MediaTrace(p) ==
  LET t == p.trace
  IN /\ t.sound /\ t.at = "utc" /\ MediaRef(t.adapter) /\ MediaRef(t.path) /\ MediaRef(t.evidence)
     /\ t.profile # None => MediaRef(t.profile)
     /\ Blocked(p) => t.path = BlockedAlias

\* What was downloaded: how many bytes, with which digest of which family.
Downloaded(facts) ==
  IF facts = None THEN FALSE ELSE facts.bytes \in Nat /\ Given(facts.digest) /\ Given(facts.family)

\* _validate_media_asset_fetch_metadata
MediaMetadata(metadata, outcome) ==
  /\ metadata # None => metadata.sound
  /\ LET facts == IF metadata = None THEN None ELSE metadata.facts
     IN IF outcome = "downloaded_bytes" THEN Downloaded(facts) ELSE facts = None

\* _validate_media_asset_fetch_media: the asset descends from the reference asked for.
MediaObject(p, q) ==
  IF p.media = None THEN FALSE
  ELSE LET media == p.media
       IN /\ media.sound /\ MediaRef(media.source) /\ MediaRef(media.canonical) /\ media.content = p.content
          /\ media.lineage = [input |-> q.ref, source |-> media.source, canonical |-> media.canonical,
                              status |-> "preserved"]
          /\ media.resolved # None => MediaRef(media.resolved)
          /\ MediaMetadata(media.metadata, p.outcome)

BytesOf(p) ==
  IF p.media = None THEN None
  ELSE IF p.media.metadata = None THEN None
  ELSE IF p.media.metadata.facts = None THEN None ELSE p.media.metadata.facts.bytes

\* Mutant: the audit may tell of another download than the metadata.
MediaAuditApart(p) ==
  IF p.outcome # "downloaded_bytes" THEN p.audit = None ELSE p.audit # None /\ Downloaded(p.audit)

\* _validate_media_asset_fetch_audit: it tells of a download, and of the one in the metadata.
MediaAudit(p) ==
  IF p.outcome # "downloaded_bytes" THEN p.audit = None
  ELSE IF p.audit = None THEN FALSE
  ELSE /\ p.audit.sound /\ p.audit.transfer = TRUE /\ Downloaded(p.audit)
       /\ {p.audit.digest, p.audit.family} \cap {"https://", "session", "bucket"} = {}
       /\ p.media.metadata # None =>
            [f \in {"bytes", "digest", "family"} |-> p.audit[f]] = p.media.metadata.facts

MediaAnswers(p, q) ==
  /\ p.sound /\ AboutTarget(p, q) /\ p.target.sound
  /\ MediaRef(p.target.ref) /\ (p.target.policy # None => MediaRef(p.target.policy))
  /\ Given(p.content) /\ ValidPolicy(p.policy) /\ p.policy = PolicyOf(q)
  /\ MediaStatus(p, PolicyOf(q)) /\ MediaTrace(p)
  /\ IF p.status = "complete"
     THEN MediaObject(p, q) /\ PolicyAllows(PolicyOf(q), p.outcome, p.content, BytesOf(p))
     ELSE p.media = None
  /\ MediaAudit(p)

-----------------------------------------------------------------------------
(* The content of a post *)

ContentTypes == {"video", "image_post", "mixed_media", "unknown"}

\* Every field of an object is there, if only as a null; a set of the kinds of its values.
Whole(values) == IF values = None THEN FALSE ELSE {"missing", "wrong"} \cap values = {}

\* The names of an author may be null, but not empty.
ContentAnswers(p, q) ==
  /\ p.hasRaw /\ p.hasNormalized
  /\ LET n == p.normalized
     IN /\ Given(n.platform) /\ Given(n.id) /\ Given(n.url) /\ n.type \in ContentTypes
        /\ n.title # None /\ n.text # None /\ n.published \in {None, "utc"}
        /\ Whole(n.names) /\ "" \notin n.names /\ Whole(n.stats) /\ Whole(n.media)

-----------------------------------------------------------------------------
(* The answer as a whole *)

\* validate_success_payload, of an answer without a hint.
Fits(p, q) ==
  CASE q.operation \in Searches -> CollectionAnswers(p, q)
    [] q.operation = Comments -> CommentsAnswer(p, q)
    [] q.operation = "creator_profile_by_id" -> CreatorAnswers(p, q)
    [] q.operation = "media_asset_fetch_by_ref" -> MediaAnswers(p, q)
    [] OTHER -> ContentAnswers(p, q)

\* validate_success_payload: only a post or a media asset gets a hint past it; to the others it
\* is an unknown field.
Unhinted == Searches \cup {Comments, "creator_profile_by_id"}
Accepts(p, q) == (q.operation \in Unhinted => p.hint = None) /\ Fits(p, q)

\* extract_internal_resource_disposition_hint: a hint speaks of the lease at hand.
HintFits(p, q) ==
  p.hint # None =>
    q.leased /\ p.hint.lease = "own" /\ p.hint.status \in {"AVAILABLE", "INVALID"} /\ Given(p.hint.reason)

ReplyCodes == {"invalid_adapter_success_payload", "invalid_resource_disposition_hint"}
ASSUME ReplyCodesAssumption == None \notin ReplyCodes

ReplyError(p, q) ==
  FirstFault(<< <<~Accepts(p, q), "invalid_adapter_success_payload">>,
                <<~HintFits(p, q), "invalid_resource_disposition_hint">> >>)
=============================================================================
