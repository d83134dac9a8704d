-------------------------------- MODULE XhsFetch --------------------------------
(***************************************************************************)
(* The XHS adapter (syvert/adapters/xhs.py, xhs_provider.py and              *)
(* xhs_browser_bridge.py): it has a request signed and asks the platform's   *)
(* interface; if anything of that fails, it reads the page of the post; and  *)
(* if that fails too, the state of the page in a tab of the user's browser.  *)
(*                                                                         *)
(* A post's id is the one in the URL, "asked", or another; "" stands for     *)
(* none.                                                                     *)
(***************************************************************************)
EXTENDS Fetches

CONSTANTS
  XhsSigns,     \* replies of the signing service
  XhsDetails,   \* replies of the interface
  XhsPages,     \* replies to the request for the page
  XhsTabs,      \* what listing the tabs of the browser brings
  XhsStates     \* what reading the state of a tab brings

XhsUnsigned == PlatformError("xhs_sign_unavailable")
XhsFailed == PlatformError("xhs_detail_request_failed")
XhsMissing == PlatformError("xhs_content_not_found")
XhsInvalid == PlatformError("xhs_browser_payload_invalid")
XhsMismatch == PlatformError("xhs_browser_note_mismatch")

XhsErrors ==
  ErrorsOf({"xhs_sign_unavailable", "xhs_detail_request_failed", "xhs_content_not_found", "xhs_browser_payload_invalid",
            "xhs_browser_note_mismatch", "xhs_browser_command_failed", "xhs_browser_javascript_disabled"})

\* An error is something; an object has its parts.
ASSUME XhsAssumption ==
  /\ None \notin XhsErrors
  /\ \A reply \in XhsSigns : reply.kind \in NoObject \/ reply.json \in BOOLEAN
  /\ \A reply \in XhsDetails : reply.kind \in NoObject \/ (reply.json \in BOOLEAN /\ IsList(reply.items))

-----------------------------------------------------------------------------
(* Before anything is asked *)

\* parse_xhs_detail_url, build_session_config_from_context
XhsInputError(url, material) ==
  LET atFault == UrlError(url, "invalid_xhs_url")
  IN IF atFault # None THEN atFault
     ELSE MaterialError(material, "xhs_account_material_missing", "xhs_resource_bundle_missing")

\* XhsAdapter.execute up to the provider.
XhsStart(url, material) == Starts("xhs", material, XhsInputError(url, material))

-----------------------------------------------------------------------------
(* The interface *)

\* default_sign_transport
XhsSignError(reply) ==
  CASE ExchangeError(reply, XhsUnsigned.code) # None -> ExchangeError(reply, XhsUnsigned.code)
    [] OTHER -> FirstFault(<< <<~reply.ok, [XhsUnsigned EXCEPT !.json = reply.json]>>,
                              <<reply.data = "none", XhsUnsigned>> >>)

\* build_headers: without a signing service there is nothing to ask.
XhsHeadersError(reply) ==
  CASE ~fetch.material.signer -> XhsUnsigned
    [] OTHER -> IF XhsSignError(reply) # None THEN Wrapped(XhsSignError(reply), XhsUnsigned.code)
                ELSE IF reply.data = "signed" THEN None ELSE XhsUnsigned

\* normalize_detail_response: a reply that has a code or a message is a refusal, whatever it
\* says of success.  Its details are the code, a message that is not blank, and the data.
XhsRefusal(reply) ==
  LET told == reply.coded = "code" \/ reply.data
  IN FirstFault(<< <<reply.success = FALSE \/ reply.coded # "no",
                     [XhsFailed EXCEPT !.told = told, !.json = ~told \/ reply.json]>>,
                   <<reply.success = TRUE /\ ~reply.data, XhsFailed>> >>)

\* extract_note_card: the first card with the id that was asked for.  An item is "bad", "bare"
\* of a card, or has one.
XhsCards(items) == {n \in DOMAIN items : items[n].kind = "card"}
XhsAsked(items) == {n \in XhsCards(items) : items[n].id = "asked"}
XhsCardError(items) ==
  FirstFault(<< <<XhsAsked(items) # {}, None>>, <<items = <<>> \/ XhsCards(items) # {}, XhsMissing>>,
                <<\E n \in DOMAIN items : items[n].kind = "bad", XhsFailed>>, <<TRUE, XhsMissing>> >>)

\* fetch_detail, and what fetch_content_detail does with the response.
XhsDetailError(reply) ==
  LET exchange == ExchangeError(reply, XhsFailed.code)
  IN CASE exchange # None -> Wrapped(exchange, XhsFailed.code)
       [] OTHER -> IF XhsRefusal(reply) # None THEN XhsRefusal(reply) ELSE XhsCardError(reply.items)

-----------------------------------------------------------------------------
(* The state of a page: it has no notes ("bare"), none for the id asked for ("other"), an    *)
(* entry without one ("empty"), or the note                                                   *)

\* coerce_html_note_to_note_card prefers one of two names of the id, the bridge the other.
XhsNoteId(note) == IF note.noteId # "" THEN note.noteId ELSE note.note_id
XhsBridgeId(note) == IF note.note_id # "" THEN note.note_id ELSE note.noteId

\* extract_note_card_from_page_state, select_html_note_entry
XhsStateError(state) ==
  CASE state.shape # "whole" -> XhsMissing
    [] OTHER -> IF XhsNoteId(state.note) = "asked" THEN None ELSE XhsMissing

\* default_page_transport and extract_html_initial_state: the state is a JavaScript object; it
\* is read as JSON once its undefined values are made null.
XhsPageError(reply) ==
  CASE reply.kind \in {"404", "none"} -> XhsMissing
    [] reply.kind \in {"http", "network", "text", "list"} -> XhsFailed
    [] reply.kind \in {"stalled", "garbled"} -> Unexpected
    [] OTHER -> XhsStateError(reply)

\* _ensure_page_state_matches_target
XhsMatchError(state) ==
  CASE state.shape \in {"bare", "empty"} -> XhsInvalid
    [] state.shape = "other" -> XhsMismatch
    [] OTHER -> FirstFault(<< <<XhsBridgeId(state.note) = "", XhsInvalid>>,
                              <<XhsBridgeId(state.note) # "asked", XhsMismatch>> >>)

\* _run_script
XhsScriptError(reply) == ScriptError(reply, "xhs_browser_command_failed", "xhs_browser_javascript_disabled")

\* extract_page_state, after the tab was chosen.  The tab may show another page by now; if it is
\* gone there is no output, which is no JSON.
XhsTabStateError(reply) ==
  CASE XhsScriptError(reply) # None -> XhsScriptError(reply)
    [] reply.kind \in {"text", "list"} -> XhsInvalid
    [] OTHER -> IF XhsMatchError(reply) # None THEN XhsMatchError(reply) ELSE XhsStateError(reply)

\* choose_preferred_html_error: what the page said counts for more than what the interface did,
\* unless the platform gave its reasons there or did not find the post.
XhsPreferredError(error, page) ==
  IF ~error.told /\ (page.code = XhsMissing.code \/ error.code # XhsMissing.code) THEN page ELSE error

-----------------------------------------------------------------------------
(* The answer *)

\* infer_content_type, with extract_image_urls and extract_video_url.
XhsContentType(card) ==
  CASE card.type = "video" -> "video"
    [] card.type # "video" /\ card.video -> IF card.images THEN "mixed_media" ELSE "video"
    [] OTHER -> IF card.images THEN "image_post" ELSE "unknown"

\* normalize_note_card; the URL is made of the id.  normalize_published_at takes seconds and
\* milliseconds, as numbers or strings of numbers.
XhsPost(card, json) ==
  [hasRaw |-> TRUE, hasNormalized |-> TRUE, json |-> json, hint |-> None,
   normalized |-> [platform |-> "xhs", id |-> card.id, url |-> card.id, type |-> XhsContentType(card),
                   title |-> "", text |-> "", published |-> IF card.time = "number" THEN "utc" ELSE None,
                   names |-> IF card.author = "" THEN {"null"} ELSE {"null", "name"}, stats |-> {"count", "null"},
                   media |-> (IF card.video THEN {"video"} ELSE {}) \cup (IF card.images THEN {"image"} ELSE {})]]

\* A whole number that is too long for a float ends the fetch with an exception.
XhsReturns(card, json) == IF card.time = "odd" THEN Raises(Unexpected) ELSE Returns(XhsPost(card, json))

\* coerce_html_note_to_note_card
XhsNoteCard(note) ==
  [id |-> XhsNoteId(note), type |-> note.type, video |-> note.video, images |-> note.images, time |-> note.time,
   author |-> note.author]

-----------------------------------------------------------------------------
(* The steps *)

\* After a failure to sign, as after one of the interface, the page is asked for
\* (recover_note_card_from_html).
XhsSign ==
  /\ Waits("xhs", "sign")
  /\ \E reply \in XhsSigns :
       LET error == XhsHeadersError(reply) IN GoesOn(IF error = None THEN "detail" ELSE "page", error, None)

XhsDetail ==
  /\ Waits("xhs", "detail")
  /\ \E reply \in XhsDetails :
       LET error == XhsDetailError(reply)
       IN IF error = None THEN XhsReturns(reply.items[Min(XhsAsked(reply.items))], reply.json) ELSE GoesOn("page", error, None)

\* An exception that is not the adapter's own ends the fetch here.
XhsPage ==
  /\ Waits("xhs", "page")
  /\ \E reply \in XhsPages :
       LET error == XhsPageError(reply)
       IN IF error = None THEN XhsReturns(XhsNoteCard(reply.note), reply.json)
          ELSE IF error = Unexpected THEN Raises(error)
          ELSE GoesOn("tabs", fetch.error, error)

\* Without a tab the adapter raises what went wrong before.
XhsTabList ==
  /\ Waits("xhs", "tabs")
  /\ \E reply \in XhsTabs :
       IF XhsScriptError(reply) # None THEN Raises(XhsScriptError(reply))
       ELSE IF TabChosen(reply.tabs) = None THEN Raises(XhsPreferredError(fetch.error, fetch.page))
       ELSE GoesOn("state", fetch.error, fetch.page)

XhsTabState ==
  /\ Waits("xhs", "state")
  /\ \E reply \in XhsStates :
       LET error == XhsTabStateError(reply)
       IN IF error = None THEN XhsReturns(XhsNoteCard(reply.note), reply.json) ELSE Raises(error)

XhsStep == XhsSign \/ XhsDetail \/ XhsPage \/ XhsTabList \/ XhsTabState
=============================================================================
