---------------------------- MODULE ReadSideResults ----------------------------
(***************************************************************************)
(* The pages of a search, a creator's list or a comment collection           *)
(* (syvert/read_side_collection.py): what a page has to be before anybody    *)
(* looks at what was asked for.  A comment page is bound to a content, and   *)
(* its cursors to the content and to threads of comments.                    *)
(*                                                                         *)
(* Strings stand for classes of strings: "" is empty, " " is blank, and      *)
(* "https://", "session", "bucket" and "a/b" are strings that contain such   *)
(* a thing.  "sound" says that the fields of an object that have no name of  *)
(* their own here have their types, and that it has no unknown field.        *)
(***************************************************************************)
EXTENDS Checks

Searches == {"content_search_by_keyword", "content_list_by_creator"}
Comments == "comment_collection"

PageStatuses == {"complete", "empty", "partial_result"}

\* COMMENT_COLLECTION_FAILURE_CLASSIFICATIONS
FailureClasses ==
  {"target_not_found", "rate_limited", "permission_denied", "platform_failed", "provider_or_network_blocked",
   "cursor_invalid_or_expired", "credential_invalid", "verification_required", "signature_or_request_invalid"}

\* COLLECTION_ERROR_CLASSIFICATIONS
PageClasses == FailureClasses \cup {"empty_result", "parse_failed", "partial_result"}

Filled(s) == s \notin {None, "", " "}
NullOrFilled(s) == s = None \/ Filled(s)

-----------------------------------------------------------------------------
(* The parts of a page *)

\* _read_source_trace; a time has to be RFC 3339, in whatever zone.
ReadTrace(t) ==
  /\ t.sound /\ Filled(t.adapter) /\ Filled(t.path) /\ Filled(t.evidence) /\ NullOrFilled(t.profile)
  /\ t.at \in {"utc", "offset"}

\* _read_target
ReadTarget(t) ==
  /\ t.sound /\ Filled(t.operation) /\ Filled(t.type) /\ Filled(t.ref)
  /\ t.operation = "content_search_by_keyword" => t.type = "keyword"
  /\ t.operation = "content_list_by_creator" => t.type = "creator"
  /\ t.operation = Comments => t.type = "content"

\* _read_continuation: it has no thread.
ReadContinuation(c) ==
  c # None => c.sound /\ Filled(c.token) /\ Filled(c.target) /\ c.thread = None

\* _read_comment_continuation
ReadCommentContinuation(c) ==
  c # None => c.sound /\ Filled(c.token) /\ Filled(c.target) /\ NullOrFilled(c.thread)

\* _read_comment_reply_cursor
ReadReplyCursor(c) ==
  c # None => c.sound /\ Filled(c.token) /\ Filled(c.target) /\ Filled(c.thread)

\* _read_item, _read_normalized_item
ReadItem(i) == i.sound /\ Filled(i.key) /\ Filled(i.raw) /\ ReadTrace(i.trace)

\* _read_comment_item, _read_normalized_comment_item
ReadCommentItem(i) ==
  /\ i.sound /\ Filled(i.key) /\ Filled(i.raw) /\ ReadTrace(i.trace)
  /\ Filled(i.canonical) /\ Filled(i.root) /\ NullOrFilled(i.parent) /\ NullOrFilled(i.target)
  /\ ReadReplyCursor(i.reply)

\* _parse_collection_result_envelope, _parse_comment_collection_result_envelope: what they read.
ReadPage(p) ==
  /\ p.sound /\ IsList(p.items) /\ ReadTarget(p.target) /\ p.operation = p.target.operation
  /\ Filled(p.status) /\ Filled(p.class) /\ Filled(p.raw) /\ ReadTrace(p.trace)
  /\ p.audit # None

\* More is announced by a continuation on the same target, and by nothing else.
ContinuationFits(p) ==
  /\ p.more <=> p.next # None
  /\ p.next # None => p.next.target = p.target.ref

Items(p) == ToSet(p.items)
KeysDiffer(p) == IsInjective([n \in DOMAIN p.items |-> p.items[n].key])
HoldsNothing(p) == p.items = <<>> /\ ~p.more /\ p.next = None

-----------------------------------------------------------------------------
(* A page of a search or a list *)

\* _validate_contract
CollectionContract(p) ==
  /\ p.operation \in Searches
  /\ p.status \in PageStatuses /\ p.class \in PageClasses
  /\ p.status = "empty" <=> p.class = "empty_result"
  /\ p.status = "empty" => HoldsNothing(p)
  /\ p.status = "partial_result" <=> p.class = "parse_failed"
  /\ ContinuationFits(p) /\ KeysDiffer(p)

\* collection_result_envelope_from_dict
ValidCollection(p) ==
  /\ ReadPage(p) /\ ReadContinuation(p.next)
  /\ \A i \in Items(p) : ReadItem(i)
  /\ CollectionContract(p)

-----------------------------------------------------------------------------
(* A page of comments *)

\* _comment_item_binds_comment_ref: an item belongs to a thread by its root, its parent, or
\* by what it answers in a nested reply.
Binds(i, thread) ==
  i.root = thread \/ i.parent = thread \/ (i.parent # i.root /\ i.target = thread)

\* _validate_comment_item_contract
CommentItemContract(i, ref) ==
  /\ i.type = "comment" /\ i.visibility \in {"visible", "deleted", "invisible", "unavailable"} /\ i.sameId
  /\ i.placeholder \in {"none", "both"}
  /\ i.parent = None => i.root = i.canonical /\ i.target = None
  /\ i.parent # None =>
       /\ i.canonical \notin {i.root, i.parent, i.target}
       /\ IF i.parent = i.root THEN i.target \in {None, i.root} ELSE i.target \notin {None, i.root, i.parent}
  /\ i.reply # None => i.reply.target = ref /\ i.reply.thread = i.canonical

\* The class of a page says what it holds: comments, all or part of them, or nothing.
ClassFits(p) ==
  /\ p.status \in PageStatuses /\ p.class \in (PageClasses \ {"partial_result"}) \cup {"success"}
  /\ p.status = "empty" <=> p.class = "empty_result"
  /\ p.class \in FailureClasses \cup {"empty_result"} => HoldsNothing(p)
  /\ p.status = "partial_result" => p.class = "parse_failed" /\ p.items # <<>>
  /\ p.class = "parse_failed" => p.status = "partial_result" \/ (p.status = "complete" /\ HoldsNothing(p))
  /\ p.class = "success" <=> p.status = "complete" /\ p.items # <<>>

\* A continuation inside a thread stands on a page of replies of that thread.
ThreadFits(p) ==
  p.next # None /\ p.next.thread # None => \A i \in Items(p) : i.parent # None /\ Binds(i, p.next.thread)

\* _validate_comment_contract
CommentContract(p) ==
  /\ p.operation = Comments /\ p.target.type = "content"
  /\ ClassFits(p) /\ ContinuationFits(p) /\ ThreadFits(p) /\ KeysDiffer(p)
  /\ \A i \in Items(p) : CommentItemContract(i, p.target.ref)

\* comment_collection_result_envelope_from_dict
ValidCommentPage(p) ==
  /\ ReadPage(p) /\ ReadCommentContinuation(p.next)
  /\ \A i \in Items(p) : ReadCommentItem(i)
  /\ CommentContract(p)
=============================================================================
