------------------------------- MODULE DouyinFetch -------------------------------
(***************************************************************************)
(* The Douyin adapter (syvert/adapters/douyin.py, douyin_provider.py and     *)
(* douyin_browser_bridge.py): it has a request signed and asks the           *)
(* platform's interface; if anything of that fails, it reads the state of    *)
(* the page in a tab of the user's browser; and if the post is not in it, it *)
(* has the browser make the request, signed again with what the tab has.     *)
(*                                                                         *)
(* An id of a post ("aweme") is the one in the URL, "asked", another, or ""  *)
(* for none; "number" is the one in the URL as a number.                     *)
(***************************************************************************)
EXTENDS Fetches

CONSTANTS
  DouyinSigns,      \* replies of the signing service
  DouyinDetails,    \* replies of the interface
  DouyinTabs,       \* what listing the tabs of the browser brings
  DouyinStates,     \* what reading the state of a tab brings
  DouyinContexts,   \* what reading the particulars of a request from the tab brings
  DouyinRequests    \* what the request in the tab brings

DouyinUnsigned == PlatformError("douyin_sign_unavailable")
DouyinFailed == PlatformError("douyin_detail_request_failed")
DouyinMissing == PlatformError("douyin_content_not_found")
DouyinInvalid == PlatformError("douyin_browser_payload_invalid")

DouyinErrors ==
  ErrorsOf({"douyin_sign_unavailable", "douyin_detail_request_failed", "douyin_content_not_found",
            "douyin_browser_payload_invalid", "douyin_browser_command_failed", "douyin_browser_javascript_disabled"})

\* An error is something; an object has its parts.
ASSUME DouyinAssumption ==
  /\ None \notin DouyinErrors
  /\ \A reply \in DouyinSigns : reply.kind \in NoObject \/ reply.json \in BOOLEAN
  /\ \A reply \in DouyinDetails :
       \/ reply.kind \in NoObject
       \/ reply.json \in BOOLEAN /\ (reply.aweme # None => reply.aweme.id # None)

-----------------------------------------------------------------------------
(* Before anything is asked *)

\* parse_douyin_detail_url, build_session_config_from_context
DouyinInputError(url, material) ==
  LET atFault == UrlError(url, "invalid_douyin_url")
  IN IF atFault # None THEN atFault
     ELSE MaterialError(material, "douyin_account_material_missing", "douyin_resource_bundle_missing")

\* DouyinAdapter.execute up to the provider.
DouyinStart(url, material) == Starts("douyin", material, DouyinInputError(url, material))

-----------------------------------------------------------------------------
(* The interface *)

\* default_sign_transport
DouyinSignError(reply) ==
  CASE ExchangeError(reply, DouyinUnsigned.code) # None -> ExchangeError(reply, DouyinUnsigned.code)
    [] OTHER -> FirstFault(<< <<~reply.ok, [DouyinUnsigned EXCEPT !.json = reply.json]>>,
                              <<reply.data = "none", DouyinUnsigned>> >>)

\* build_detail_params: without a signing service or the tokens of a session there is nothing
\* to sign.
DouyinParamsError(reply) ==
  CASE ~(fetch.material.signer /\ fetch.material.tokens) -> DouyinUnsigned
    [] OTHER -> IF DouyinSignError(reply) # None THEN Wrapped(DouyinSignError(reply), DouyinUnsigned.code)
                ELSE IF reply.data = "signed" THEN None ELSE DouyinUnsigned

\* default_detail_transport, fetch_detail, normalize_detail_response: the post may be any.
DouyinDetailError(reply) ==
  CASE reply.kind = "404" -> DouyinMissing
    [] reply.kind \in {"http", "network", "stalled", "garbled", "text", "list"} -> DouyinFailed
    [] OTHER -> FirstFault(<< <<reply.refused, [DouyinFailed EXCEPT !.told = TRUE, !.json = reply.json]>>,
                              <<reply.aweme = None, DouyinMissing>> >>)

-----------------------------------------------------------------------------
(* The browser *)

\* _run_script
DouyinScriptError(reply) ==
  ScriptError(reply, "douyin_browser_command_failed", "douyin_browser_javascript_disabled")

\* pick_aweme_detail compares the id as a string.
DouyinPicked(aweme) == IF aweme = None THEN FALSE ELSE aweme.id \in {"asked", "number"}

\* What extract_page_state and, of the state as it is, extract_aweme_detail_from_page_state
\* raise; a tab that is gone brings no output, which is no JSON.
DouyinStateError(reply) ==
  CASE DouyinScriptError(reply) # None -> DouyinScriptError(reply)
    [] reply.kind \in {"text", "list"} -> DouyinInvalid
    [] OTHER -> IF DouyinPicked(reply.aweme) THEN None ELSE DouyinMissing

\* _read_detail_request_context
DouyinContextError(reply) ==
  CASE DouyinScriptError(reply) # None -> DouyinScriptError(reply)
    [] reply.kind \in {"text", "list"} -> DouyinMissing
    [] OTHER -> IF reply.complete THEN None ELSE DouyinMissing

\* sign_browser_detail_request: an answer that stops is an error here, and one that cannot be
\* read an exception.
DouyinResignError(reply) ==
  CASE reply.kind = "garbled" -> Unexpected
    [] reply.kind \in {"404", "http", "network", "stalled", "text", "list"} -> DouyinMissing
    [] OTHER -> IF reply.ok /\ reply.data = "signed" THEN None ELSE DouyinMissing

\* _recover_aweme_detail_via_authenticated_request after that, and the second look at the state.
DouyinRequestError(reply) ==
  CASE DouyinScriptError(reply) # None -> DouyinScriptError(reply)
    [] reply.kind \in {"text", "list", "http"} -> DouyinMissing
    [] OTHER -> IF DouyinPicked(reply.aweme) THEN None ELSE DouyinMissing

\* recover_aweme_detail_from_page_state: a post that the browser does not find, like a tab that
\* is not there, leaves the interface's error standing.
DouyinRecoveryError(error) == IF error = DouyinMissing THEN fetch.error ELSE error

-----------------------------------------------------------------------------
(* The answer *)

\* determine_content_type; images are URLs, or only said to be there ("said").
DouyinContentType(aweme) ==
  CASE aweme.video -> IF aweme.images = "urls" THEN "mixed_media" ELSE "video"
    [] OTHER -> IF aweme.images \in {"urls", "said"} THEN "image_post" ELSE "unknown"

\* normalize_aweme_detail: the id is the one of the post that came, the URL is made of the one
\* that was asked for.
DouyinPost(aweme, json) ==
  [hasRaw |-> TRUE, hasNormalized |-> TRUE, json |-> json, hint |-> None,
   normalized |-> [platform |-> "douyin", id |-> aweme.id, url |-> "asked", type |-> DouyinContentType(aweme),
                   title |-> "", text |-> "", published |-> IF aweme.time = "number" THEN "utc" ELSE None,
                   names |-> IF aweme.author = "" THEN {"null"} ELSE {"null", "name"}, stats |-> {"count", "null"},
                   media |-> (IF aweme.video THEN {"video"} ELSE {})
                               \cup (IF aweme.images = "urls" THEN {"image"} ELSE {})]]

\* Nothing comes after normalize_aweme_detail: an id that is no string is a post that was not
\* found, whatever other sources there are.  extract_image_urls expects each image to be an
\* object, and nullable_int each string of digits to be a number.
DouyinReturns(aweme, json) ==
  CASE aweme.id \in {"", "number"} -> Raises(DouyinMissing)
    [] aweme.id \notin {"", "number"} /\ (aweme.images = "bad" \/ aweme.time = "odd") -> Raises(Unexpected)
    [] OTHER -> Returns(DouyinPost(aweme, json))

-----------------------------------------------------------------------------
(* The steps *)

DouyinSign ==
  /\ Waits("douyin", "sign")
  /\ \E reply \in DouyinSigns :
       LET error == DouyinParamsError(reply) IN GoesOn(IF error = None THEN "detail" ELSE "tabs", error, None)

DouyinDetail ==
  /\ Waits("douyin", "detail")
  /\ \E reply \in DouyinDetails :
       LET error == DouyinDetailError(reply)
       IN IF error = None THEN DouyinReturns(reply.aweme, reply.json) ELSE GoesOn("tabs", error, None)

DouyinTabList ==
  /\ Waits("douyin", "tabs")
  /\ \E reply \in DouyinTabs :
       IF DouyinScriptError(reply) # None THEN Raises(DouyinScriptError(reply))
       ELSE IF TabChosen(reply.tabs) = None THEN Raises(fetch.error) ELSE GoesOn("state", fetch.error, None)

DouyinTabState ==
  /\ Waits("douyin", "state")
  /\ \E reply \in DouyinStates :
       LET error == DouyinStateError(reply)
       IN IF error = None THEN DouyinReturns(reply.aweme, reply.json)
          ELSE IF error = DouyinMissing /\ fetch.material.signer THEN GoesOn("context", fetch.error, None)
          ELSE Raises(DouyinRecoveryError(error))

\* A step of the recovery in the tab, which another one follows.
DouyinRecovers(source, error) ==
  IF error = None THEN GoesOn(source, fetch.error, None) ELSE Raises(DouyinRecoveryError(error))

DouyinContext ==
  /\ Waits("douyin", "context")
  /\ \E reply \in DouyinContexts : DouyinRecovers("resign", DouyinContextError(reply))

DouyinResign ==
  /\ Waits("douyin", "resign")
  /\ \E reply \in DouyinSigns : DouyinRecovers("request", DouyinResignError(reply))

DouyinRequest ==
  /\ Waits("douyin", "request")
  /\ \E reply \in DouyinRequests :
       LET error == DouyinRequestError(reply)
       IN IF error = None THEN DouyinReturns(reply.aweme, reply.json) ELSE Raises(DouyinRecoveryError(error))

DouyinStep ==
  DouyinSign \/ DouyinDetail \/ DouyinTabList \/ DouyinTabState \/ DouyinContext \/ DouyinResign \/ DouyinRequest
=============================================================================
