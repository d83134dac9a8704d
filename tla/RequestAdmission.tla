---------------------------- MODULE RequestAdmission ----------------------------
(***************************************************************************)
(* What the runtime decides about a request before a record of the task     *)
(* exists (execute_task_internal in syvert/runtime.py), and how the HTTP     *)
(* surface (syvert/http_api.py) answers.  ExecutionControl and               *)
(* TaskRecordStore go on from a request that this module admits.             *)
(*                                                                         *)
(* A request comes in by HTTP, as a TaskRequest, or as a CoreTaskRequest     *)
(* that says target type and collection mode itself.  "malformed" names the *)
(* parts of it that are of no admissible shape; the cursor stands for the   *)
(* cursor of a comment collection, the continuation token of a search or    *)
(* list, and the fetch policy of a media asset.                              *)
(***************************************************************************)
EXTENDS ResourceProfiles, OperationTaxonomy

\* RESOURCE_SLOTS_BY_OPERATION_AND_COLLECTION_MODE gives every operation the same slots.
Slots == ResourceCapabilities

RuntimeOperations ==
  {e.operation : e \in {StableRows[i] : i \in DOMAIN StableRows}} \ {"batch_execution"}

AllowedTargets == {"url", "content", "content_id", "creator", "creator_id", "keyword", "media_ref"}
AllowedModes == {"public", "authenticated", "hybrid", "paginated", "direct"}
Continued == {"content_search_by_keyword", "content_list_by_creator"}

Cursors == {"none", "here", "elsewhere", "both", "broken"}

\* Whatever is wrong with a request has a code.
FaultCodes ==
  {"invalid_http_task_request", "invalid_task_request", "invalid_task_id", "invalid_capability",
   "invalid_execution_control_policy", "invalid_continuation_token", "unsafe_continuation_token",
   "unsupported_request_cursor", "signature_or_request_invalid", "cursor_invalid_or_expired", "adapter_not_found",
   "capability_not_supported", "target_type_not_supported", "collection_mode_not_supported",
   "invalid_resource_requirement", "invalid_adapter_registry", "invalid_adapter_declaration",
   "invalid_adapter_capabilities", "invalid_adapter_targets", "invalid_adapter_collection_modes",
   "invalid_adapter_resource_requirements"}

ASSUME CodesAssumption == None \notin FaultCodes

-----------------------------------------------------------------------------
(* The shape of a request *)

\* _project_task_input_to_target: the operation of a TaskRequest says what its target
\* and mode are.
StableRow(operation) == CHOOSE e \in {StableRows[i] : i \in DOMAIN StableRows} : e.operation = operation

Projected(r) ==
  IF r.entry \in {"http", "task"} /\ r.operation \in RuntimeOperations
  THEN [r EXCEPT !.target = StableRow(r.operation).target, !.mode = StableRow(r.operation).mode]
  ELSE r

\* _build_task_request
HttpFault(r) ==
  FirstFault(<< <<"payload" \in r.malformed, "invalid_http_task_request">>,
                <<"control" \in r.malformed, "invalid_execution_control_policy">>,
                <<r.adapter = None, "invalid_http_task_request">>,
                <<r.operation # "content_detail_by_url", "invalid_capability">>,
                <<"target" \in r.malformed \/ r.value = None, "invalid_http_task_request">> >>)

\* validate_media_fetch_policy
BadPolicy(r) == r.cursor \in {"both", "broken"}

\* A creator id and a media reference have to be opaque in a TaskRequest.
UnsafeInput(r) == r.value = "unsafe" /\ r.operation \in {"creator_profile_by_id", "media_asset_fetch_by_ref"}

TaskFault(r) ==
  FirstFault(<< <<r.adapter = None \/ "input" \in r.malformed, "invalid_task_request">>,
                <<r.operation \notin RuntimeOperations, "invalid_capability">>,
                <<"control" \in r.malformed, "invalid_execution_control_policy">>,
                <<r.value = None \/ UnsafeInput(r), "invalid_task_request">>,
                <<r.operation = "media_asset_fetch_by_ref" /\ BadPolicy(r), "invalid_task_request">>,
                <<r.operation \in Continued /\ r.cursor = "broken", "invalid_continuation_token">>,
                <<r.operation \in Continued /\ r.cursor \in {"elsewhere", "both"}, "unsafe_continuation_token">> >>)

\* A CoreTaskRequest is not asked for an opaque creator id.
CoreFault(r) ==
  FirstFault(<< <<r.malformed \cap {"target", "policy"} # {}, "invalid_task_request">>,
                <<"control" \in r.malformed, "invalid_execution_control_policy">>,
                <<r.adapter = None, "invalid_task_request">>,
                <<r.operation \notin RuntimeOperations, "invalid_capability">>,
                <<r.value = None \/ r.target \notin AllowedTargets \/ r.mode \notin AllowedModes,
                  "invalid_task_request">>,
                <<r.operation = "media_asset_fetch_by_ref" /\ (r.value = "unsafe" \/ BadPolicy(r)),
                  "invalid_task_request">>,
                <<r.operation \in Continued /\ r.cursor # "none", "unsupported_request_cursor">> >>)

\* normalize_request
NormalizeFault(r) ==
  CASE r.entry = "core" -> CoreFault(r)
    [] r.entry \in {"http", "task"} -> TaskFault(r)
    [] OTHER -> "invalid_task_request"

\* validate_projection_axes_for_current_runtime
AxisFault(r) ==
  FirstFault(<< <<~IsStable(Taxonomy, r.operation, r.target, r.mode), "invalid_task_request">> >>)

\* validate_comment_request_cursor, for a comment collection only.
CursorFault(r) ==
  FirstFault(<< <<r.operation # "comment_collection", None>>,
                <<r.cursor \in {"both", "broken"}, "signature_or_request_invalid">>,
                <<r.cursor = "elsewhere", "cursor_invalid_or_expired">> >>)

-----------------------------------------------------------------------------
(* The adapter a request is for *)

FamilyOfOperation(operation) == StableRow(operation).family

\* A bad adapter fails the registry for everybody; only when it is the requested one
\* whose declarations are at fault does the error say so.
RegistryError(items, key) ==
  LET fault == RegistryFault(items)
  IN IF /\ fault = "invalid_adapter_resource_requirements"
        /\ Lookup(items, key) # None
        /\ AdapterError(key, Lookup(items, key)) = "invalid_adapter_resource_requirements"
     THEN "invalid_resource_requirement" ELSE fault

AdapterFault(adapter, r) ==
  FirstFault(<< <<FamilyOfOperation(r.operation) \notin adapter.families, "capability_not_supported">>,
                <<r.target \notin adapter.targets, "target_type_not_supported">>,
                <<r.mode \notin adapter.modes, "collection_mode_not_supported">> >>)

-----------------------------------------------------------------------------
(* execute_task_internal, up to the admission guard, and then the matcher *)

\* A refused request leaves no record, unlike one that is answered without an adapter.
Refused(code) == [outcome |-> "refused", code |-> code, slots |-> {}]
Answered(code) == [outcome |-> "answered", code |-> code, slots |-> {}]

\* A request with its slots; unmatched means that its record ends as resource_unavailable.
WithResources(d, r) ==
  LET family == FamilyOfOperation(r.operation)
      slots == RequestedSlots(d, Slots)
      status == MatchStatus(d, r.adapter, family, slots)
  IN IF status = "invalid" THEN Refused("invalid_resource_requirement")
     ELSE [outcome |-> status, code |-> None, slots |-> slots]

\* Mutant: a cursor for another target is followed.
ForAdapterAnyCursor(adapter, r) ==
  LET fault == AdapterFault(adapter, r)
      d == LookupRequirement(adapter, FamilyOfOperation(r.operation))
  IN IF fault # None THEN Refused(fault)
     ELSE IF d = None THEN Refused("invalid_resource_requirement")
     ELSE WithResources(d, r)

\* A comment collection with a bad cursor is recorded as a success without comments.
ForAdapter(adapter, r) ==
  LET fault == AdapterFault(adapter, r)
      d == LookupRequirement(adapter, FamilyOfOperation(r.operation))
  IN IF fault # None THEN Refused(fault)
     ELSE IF CursorFault(r) # None THEN Answered(CursorFault(r))
     ELSE IF d = None THEN Refused("invalid_resource_requirement")
     ELSE WithResources(d, r)

Admit(items, request) ==
  LET r == Projected(request)
      early == FirstFault(<< <<"task_id" \in r.malformed, "invalid_task_id">>,
                             <<NormalizeFault(r) # None, NormalizeFault(r)>>,
                             <<AxisFault(r) # None, AxisFault(r)>>,
                             <<RegistryError(items, r.adapter) # None, RegistryError(items, r.adapter)>>,
                             <<Lookup(items, r.adapter) = None, "adapter_not_found">> >>)
  IN IF early # None THEN Refused(early) ELSE ForAdapter(Lookup(items, r.adapter), r)

-----------------------------------------------------------------------------
(* TaskHttpService.submit *)

RuntimeContractCodes ==
  {"invalid_task_id", "invalid_resource_requirement", "invalid_adapter_registry",
   "invalid_adapter_declaration", "invalid_adapter_capabilities", "invalid_adapter_targets",
   "invalid_adapter_collection_modes", "invalid_adapter_resource_requirements"}

\* A request that leaves a record is accepted, whatever became of it.  A bad task id goes
\* before any other fault.
HttpSubmit(items, r) ==
  LET fault == FirstFault(<< <<HttpFault(r) # None /\ "task_id" \notin r.malformed, HttpFault(r)>> >>)
      reply == IF fault # None THEN Refused(fault) ELSE Admit(items, r)
  IN [status |-> IF reply.outcome # "refused" THEN 202
                 ELSE IF reply.code \in RuntimeContractCodes THEN 500 ELSE 400,
      reply |-> reply]

Submit(items, r) ==
  IF r.entry = "http" THEN HttpSubmit(items, r) ELSE [status |-> None, reply |-> Admit(items, r)]
=============================================================================
