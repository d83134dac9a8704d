--------------------------------- MODULE Fetches ---------------------------------
(***************************************************************************)
(* A reference adapter at work on a post: it goes from one source to the     *)
(* next, and each source is another party that answers what it likes or not  *)
(* at all.  This module has what the two reference adapters share; XhsFetch  *)
(* and DouyinFetch have their steps, one for every exchange with a source.   *)
(*                                                                         *)
(* An exchange over HTTP ends with an HTTP status ("404" or another, "http"),*)
(* without a connection ("network"), with an answer that stops ("stalled") or*)
(* cannot be read ("garbled"), with a body that is not JSON ("text"), with   *)
(* JSON that is not an object ("list"), or with an object.                   *)
(***************************************************************************)
EXTENDS ReadingSession

CONSTANTS
  Urls,        \* URLs of a request: "detail" of a post, "elsewhere", or "malformed"
  Materials    \* what leased accounts have: [map, cookies, agent, timeout, tokens, signer]

VARIABLE fetch   \* [adapter, at, material, error, page, asked, by]: the source that is asked
                 \* next, what went wrong so far, the sources asked and the one that answered

FetchInit == fetch = None

-----------------------------------------------------------------------------
(* Errors: "told" says that the platform gave details, "json" that they can be recorded *)

PlatformError(code) == [category |-> "platform", code |-> code, told |-> FALSE, json |-> TRUE]
InputError(code) == [category |-> "invalid_input", code |-> code, told |-> FALSE, json |-> TRUE]
Unexpected == [category |-> "runtime_contract", code |-> "adapter_execution_error", told |-> FALSE, json |-> TRUE]

\* The errors of an adapter that reports these codes of a platform, or fails unexpectedly.
ErrorsOf(codes) ==
  [category : {"platform", "runtime_contract"}, code : codes \cup {Unexpected.code}, told : BOOLEAN, json : BOOLEAN]

\* What an adapter raises when a call of another party ends with an exception of its own.
Wrapped(error, code) == IF error = Unexpected THEN PlatformError(code) ELSE error

\* Exchanges that bring no object.
NoObject == {"404", "http", "network", "text", "list", "stalled", "garbled"}

\* post_json of either adapter: the error of an exchange that brings no object.
ExchangeError(reply, code) ==
  CASE reply.kind \in {"404", "http", "network", "text", "list"} -> PlatformError(code)
    [] reply.kind \in {"stalled", "garbled"} -> Unexpected
    [] OTHER -> None

\* What the adapters put together for a post is something.
ASSUME PostsAssumption ==
  /\ None \notin {"xhs", "douyin", "asked", "", "count", "null", "name"}
  /\ \A values \in SUBSET {"null", "name", "count", "video", "image"} : values # None

\* A failed task keeps its error; finish_task_record refuses details that are not JSON.
FailedWith(error) ==
  [reply |-> error.code, record |-> IF error.json THEN "failed" ELSE "invalid", kept |-> FALSE]

-----------------------------------------------------------------------------
(* Before anything is asked *)

\* The material that an adapter insists on: coerce_timeout_seconds does not expect a string
\* of digits that is no number.
MaterialError(material, missing, bundle) ==
  FirstFault(<< <<~ask.leased, InputError(bundle)>>,
                <<~(material.map /\ material.cookies /\ material.agent), InputError(missing)>>,
                <<material.timeout = "odd", Unexpected>> >>)

\* urlparse raises an exception of its own for a URL that it cannot split.
UrlError(url, code) ==
  CASE url = "detail" -> None
    [] url = "elsewhere" -> InputError(code)
    [] OTHER -> Unexpected

-----------------------------------------------------------------------------
(* The way of a fetch *)

\* The adapter is called with the request that the runtime admitted.
Starts(adapter, material, error) ==
  /\ fetch = None
  /\ ask # None /\ answer = None /\ outcome = None
  /\ ask.operation = "content_detail_by_url" /\ ask.adapter = adapter
  /\ fetch' = [adapter |-> adapter, at |-> IF error = None THEN "sign" ELSE "done", material |-> material,
               error |-> error, page |-> None, asked |-> {}, by |-> None]
  /\ outcome' = IF error = None THEN None ELSE FailedWith(error)
  /\ UNCHANGED <<ask, answer, thread, pages>>

Fetching == IF fetch = None THEN FALSE ELSE fetch.at # "done"
Waits(adapter, source) == Fetching /\ fetch.adapter = adapter /\ fetch.at = source

\* The adapter asks a source, and goes on to another with what went wrong.
GoesOn(source, error, page) ==
  /\ fetch' = [fetch EXCEPT !.at = source, !.error = error, !.page = page, !.asked = @ \cup {fetch.at}]
  /\ UNCHANGED session

\* It raises an error.
Raises(error) ==
  /\ fetch' = [fetch EXCEPT !.at = "done", !.asked = @ \cup {fetch.at}]
  /\ outcome' = FailedWith(error)
  /\ UNCHANGED <<ask, answer, thread, pages>>

\* It returns a post, and the runtime goes on with it as with any answer.
Returns(post) ==
  /\ fetch' = [fetch EXCEPT !.at = "done", !.by = fetch.at, !.asked = @ \cup {fetch.at}]
  /\ AnswerTask(post)

\* The exchanges have timeouts of their own, which together are longer than that of the task.
Expires ==
  /\ Fetching
  /\ fetch' = [fetch EXCEPT !.at = "done"]
  /\ outcome' = FailedWith(PlatformError("execution_timeout"))
  /\ UNCHANGED <<ask, answer, thread, pages>>

-----------------------------------------------------------------------------
(* The browser *)

\* A script is given to the browser (_run_script): the error of a run that brings no output.
ScriptError(reply, failed, disabled) ==
  CASE reply.kind = "garbled" -> Unexpected
    [] reply.kind = "failed" -> PlatformError(failed)
    [] reply.kind = "disabled" -> PlatformError(disabled)
    [] OTHER -> None

\* A tab with this very URL, or else one with the same post.
TabChosen(tabs) == IF "same" \in tabs THEN "same" ELSE IF "post" \in tabs THEN "post" ELSE None
=============================================================================
