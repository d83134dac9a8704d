---------------------------- MODULE RecordedResults ----------------------------
(***************************************************************************)
(* What becomes of an answer that the runtime has taken: the success         *)
(* envelope made of it, the record of the task (which checks the envelope    *)
(* again, in syvert/task_record.py, without the question's policy at hand),  *)
(* and the outcome of a batch item (which checks it a third time, in         *)
(* syvert/batch_dataset.py).                                                 *)
(***************************************************************************)
EXTENDS SuccessPayloads

-----------------------------------------------------------------------------
(* The record *)

\* _require_sanitized_creator_ref, _require_sanitized_media_ref
Sanitized(s, forbidden) == s \notin {None, ""} /\ s \notin forbidden

CreatorTokens == {"https://", "session"}
MediaTokens == {"https://", "session", "bucket"}

\* _validate_creator_profile_success_terminal_envelope
RecordsCreator(e) ==
  /\ e.operation = "creator_profile_by_id" /\ e.target.operation = e.operation /\ e.target.sound
  /\ e.target.type = "creator" /\ Sanitized(e.target.ref, CreatorTokens)
  /\ e.target.policy # None => Sanitized(e.target.policy, CreatorTokens)
  /\ CASE e.status = "complete" -> e.class = None /\ Given(e.raw)
       [] e.status = "unavailable" -> e.class \in {"target_not_found", "profile_unavailable", "permission_denied"}
       [] e.status = "failed" -> e.class \in CreatorFailed
       [] OTHER -> FALSE
  /\ e.class = "provider_or_network_blocked" => e.raw = None /\ e.trace.path = BlockedAlias
  /\ e.trace.sound /\ e.trace.at = "utc" /\ Given(e.trace.adapter) /\ Given(e.trace.evidence)
  /\ Sanitized(e.trace.path, CreatorTokens)
  /\ e.trace.profile # None => Sanitized(e.trace.profile, CreatorTokens)
  /\ e.audit = {}
  /\ IF e.status = "complete" /\ e.profile # None
     THEN /\ e.profile.sound /\ Given(e.profile.name) /\ \A n \in e.profile.counts : n >= 0
          /\ \A ref \in {e.profile.creator, e.profile.canonical} : Sanitized(ref, CreatorTokens)
          /\ e.profile.avatar # None => Sanitized(e.profile.avatar, CreatorTokens)
     ELSE e.status # "complete" /\ e.profile = None

\* The media of a complete envelope, and what the policy that it carries says of it.
RecordsAsset(e) ==
  LET media == e.media
      facts == IF media.metadata = None THEN None ELSE media.metadata.facts
      mode == e.policy.mode
  IN /\ media.sound /\ Sanitized(media.source, MediaTokens) /\ Sanitized(media.canonical, MediaTokens)
     /\ media.content = e.content
     /\ media.resolved # None => Sanitized(media.resolved, MediaTokens)
     /\ media.lineage = [input |-> e.target.ref, source |-> media.source, canonical |-> media.canonical,
                         status |-> "preserved"]
     /\ media.metadata # None => media.metadata.sound
     /\ e.content \in ToSet(e.policy.types)
     /\ CASE e.outcome = "metadata_only" -> facts = None /\ mode = "metadata_only"
          [] e.outcome = "source_ref_preserved" -> facts = None /\ mode \in {"preserve_source_ref", "download_if_allowed"}
          [] e.outcome = "downloaded_bytes" ->
               /\ Downloaded(facts) /\ e.policy.download = TRUE
               /\ mode \in {"download_if_allowed", "download_required"}
               /\ e.policy.max # None => facts.bytes <= e.policy.max
          [] OTHER -> FALSE

\* An envelope without media says why, as its own policy and content allow.
RecordsAbsence(e) ==
  /\ e.outcome = None /\ e.media = None
  /\ e.content \in MediaTypes \ ToSet(e.policy.types) => e.class = "fetch_policy_denied"
  /\ CASE e.status = "unavailable" -> e.class \in MediaUnavailable
       [] e.status = "failed" ->
            /\ e.class \in MediaFailed
            /\ IF e.content \in MediaTypes THEN e.class # "unsupported_content_type"
               ELSE \/ e.class = "unsupported_content_type"
                    \/ e.content = "unknown" /\ e.class = "parse_failed" /\ Given(e.raw)
       [] OTHER -> FALSE
  /\ e.class = "provider_or_network_blocked" => e.raw = None /\ e.trace.path = BlockedAlias

RecordsAudit(e) ==
  IF e.audit = None \/ e.outcome # "downloaded_bytes" THEN e.audit = None /\ e.outcome # "downloaded_bytes"
  ELSE /\ e.audit.sound /\ e.audit.transfer = TRUE /\ Downloaded(e.audit)
       /\ e.audit.digest \notin MediaTokens /\ e.audit.family \notin MediaTokens
       /\ \A f \in {"bytes", "digest", "family"} : e.audit[f] = e.media.metadata.facts[f]

\* _validate_media_asset_fetch_success_terminal_envelope
RecordsMedia(e) ==
  /\ e.operation = "media_asset_fetch_by_ref" /\ e.target.operation = e.operation /\ e.target.sound
  /\ e.target.type = "media_ref" /\ Sanitized(e.target.ref, MediaTokens)
  /\ e.target.policy # None => Sanitized(e.target.policy, MediaTokens)
  /\ Given(e.content) /\ ValidPolicy(e.policy)
  /\ e.trace.sound /\ e.trace.at = "utc"
  /\ \A s \in {e.trace.adapter, e.trace.path, e.trace.evidence} : Sanitized(s, MediaTokens)
  /\ e.trace.profile # None => Sanitized(e.trace.profile, MediaTokens)
  /\ IF e.status = "complete"
     THEN e.class = None /\ Given(e.raw) /\ e.content \in MediaTypes /\ e.media # None /\ RecordsAsset(e)
     ELSE RecordsAbsence(e)
  /\ RecordsAudit(e)

\* validate_success_terminal_envelope has for a post what the runtime has.
RecordsPost(e, q) == ContentAnswers(e, q)

\* validate_terminal_envelope_contract, validate_success_terminal_envelope: the envelope holds
\* the fields of the answer but the hint, which is nowhere looked for any more, and the request
\* snapshot tells operation, type and reference.
Records(e, q) ==
  LET ofRequest == e.target.type = TargetType(q.operation) /\ e.target.ref = q.ref
  IN CASE q.operation \in Searches -> ValidCollection(e) /\ ofRequest
       [] q.operation = Comments -> ValidCommentPage(e) /\ ofRequest
       [] q.operation = "creator_profile_by_id" -> RecordsCreator(e) /\ ofRequest
       [] q.operation = "media_asset_fetch_by_ref" -> RecordsMedia(e) /\ ofRequest
       [] OTHER -> RecordsPost(e, q)

\* finish_task_record takes no value that is not JSON (normalize_json_value).  An answer that
\* it does not take becomes a failure, and the record is marked invalid
\* (finalize_task_execution_result).
Finish(p, q) ==
  IF ReplyError(p, q) # None THEN [reply |-> ReplyError(p, q), record |-> "failed"]
  ELSE IF p.json /\ Records(p, q) THEN [reply |-> "success", record |-> "succeeded"]
  ELSE [reply |-> "envelope_not_json_serializable", record |-> "invalid"]

-----------------------------------------------------------------------------
(* The outcome of a batch item *)

BatchOperations == Searches \cup {Comments, "creator_profile_by_id", "media_asset_fetch_by_ref"}

\* _validate_sanitized_ref
BatchRef(s) == s \notin {None, "", " ", "https://", "bucket", "a/b"}

\* _validate_public_continuation_token
BatchToken(token) == token \notin {None, "", " ", "https://", "bucket", "a/b"}

\* validate_batch_target_item: what may be asked in a batch.
BatchAsks(q) ==
  /\ q.operation \in BatchOperations
  /\ q.operation \notin Searches => BatchRef(q.ref)
  /\ q.cursor # None =>
       CASE q.operation \in Searches -> BatchToken(q.cursor)
         [] q.operation = Comments -> CommentCursorKind(q.cursor, q.ref) \in {"none", "here"}
         [] q.operation = "media_asset_fetch_by_ref" -> ValidPolicy(q.cursor)
         [] OTHER -> FALSE

\* _validate_source_trace
BatchTrace(t, adapter) ==
  /\ t.sound /\ t.adapter = adapter /\ t.at = "utc"
  /\ BatchRef(t.path) /\ BatchRef(t.evidence) /\ (t.profile # None => BatchRef(t.profile))

\* _comment_result_requires_cursor_context
NeedsCursor(p) ==
  \/ p.next # None /\ p.next.thread # None
  \/ \E i \in Items(p) : i.parent # None \/ i.target # None

\* _validate_public_payload_no_leakage, of what a page has more than another answer.
PublicPage(p, q) ==
  /\ p.audit # "private"
  /\ \A i \in Items(p) : BatchTrace(i.trace, q.adapter) /\ BatchRef(i.raw)
  /\ p.next # None => BatchToken(p.next.token)
  /\ q.operation = Comments /\ q.cursor = NoCursor(Comments) => ~NeedsCursor(p)

\* _outcome_from_task_envelope, validate_batch_item_outcome: a success that may be published
\* stays one, and has to be an answer to the item.
BatchKeeps(p, q) ==
  /\ BatchAsks(q) /\ Finish(p, q).reply = "success"
  /\ BatchTrace(p.trace, q.adapter) /\ (p.raw # None => BatchRef(p.raw))
  /\ q.operation \in Searches \cup {Comments} => PublicPage(p, q)
  /\ Fits(p, q)

-----------------------------------------------------------------------------
(* The record of the batch *)

\* _infer_public_comment_thread_ref: the thread of the continuation, or the first comment
\* that all replies belong to.
Ancestors(i) == <<i.root, i.parent, i.target>>
Replies(p) == {n \in DOMAIN p.items : p.items[n].parent # None \/ p.items[n].target # None}

\* The ancestors of the reply at a place that all replies have in common.
Shared(p, n) ==
  {k \in 1..3 : LET c == Ancestors(p.items[n])[k]
                IN c # None /\ \A m \in Replies(p) : Binds(p.items[m], c)}

InferredThread(p) ==
  LET places == {n \in Replies(p) : Shared(p, n) # {}}
      first == Min(places)
  IN IF p.next # None /\ p.next.thread # None THEN p.next.thread
     ELSE IF places = {} THEN None ELSE Ancestors(p.items[first])[Min(Shared(p, first))]

\* _batch_item_outcome_from_projection: an outcome in the record of the batch is without the
\* cursor of its item.
ItemInRecord(q) == [q EXCEPT !.cursor = NoCursor(q.operation)]

\* validate_batch_success_terminal_envelope: an outcome has to be an answer to its item as the
\* record has it, and a page of comments that needs a cursor one to a reply cursor into the
\* thread that the record infers.
BatchRecords(p, q) ==
  IF q.operation = Comments /\ NeedsCursor(p)
  THEN InferredThread(p) # None /\ CommentsAnswerIn(p, q, InferredThread(p))
  ELSE Fits(p, ItemInRecord(q))
=============================================================================
