--------------------------- MODULE OperationTaxonomy ---------------------------
(***************************************************************************)
(* The table of public operations (syvert/operation_taxonomy.py): which     *)
(* operation, on which target and in which collection mode, is a stable     *)
(* capability of the runtime.  The requirement, the offer, the decision and  *)
(* the runtime's own admission all look an operation up here.                *)
(*                                                                         *)
(* An entry is abstracted to what the table is looked up by; its references *)
(* to contracts and to evidence are only there or missing, and its execution*)
(* mode and notes are left out.                                              *)
(***************************************************************************)
EXTENDS Naturals, Sequences, FiniteSets

Row(family, operation, target, mode, lifecycle) ==
  [family |-> family, operation |-> operation, target |-> target, mode |-> mode,
   lifecycle |-> lifecycle, delivery |-> lifecycle = "stable", backed |-> TRUE, clean |-> TRUE]

StableRows ==
  << Row("content_detail", "content_detail_by_url", "url", "hybrid", "stable"),
     Row("content_search", "content_search_by_keyword", "keyword", "paginated", "stable"),
     Row("content_list", "content_list_by_creator", "creator", "paginated", "stable"),
     Row("comment_collection", "comment_collection", "content", "paginated", "stable"),
     Row("creator_profile", "creator_profile_by_id", "creator", "direct", "stable"),
     Row("media_asset_fetch", "media_asset_fetch_by_ref", "media_ref", "direct", "stable"),
     Row("batch_execution", "batch_execution", "operation_batch", "batch", "stable") >>

ProposedRows ==
  << Row("content_search", "content_search", "query", "paginated", "proposed"),
     Row("content_list", "content_list", "collection", "paginated", "proposed"),
     Row("creator_profile", "creator_profile", "creator", "single", "proposed"),
     Row("media_asset_fetch", "media_asset_fetch", "media_asset", "batch", "proposed"),
     Row("media_upload", "media_upload", "media_asset", "single", "proposed"),
     Row("content_publish", "content_publish", "draft", "single", "proposed"),
     Row("scheduled_execution", "scheduled_execution", "schedule", "single", "proposed"),
     Row("dataset_sink", "dataset_sink", "dataset", "stream", "proposed") >>

Taxonomy == StableRows \o ProposedRows

Lifecycles == {"proposed", "experimental", "stable", "deprecated"}

\* The operations whose name starts with the family's.
ProjectsFrom(operation, family) ==
  \E e \in {Taxonomy[i] : i \in DOMAIN Taxonomy} : e.family = family /\ e.operation = operation

-----------------------------------------------------------------------------
(* Admission of an entry and of a table *)

ValidEntry(e) ==
  /\ e.clean  \* no provider or workflow field
  /\ e.lifecycle \in Lifecycles
  /\ ProjectsFrom(e.operation, e.family)
  /\ e.lifecycle = "stable" => e.delivery /\ e.backed
  /\ e.lifecycle # "stable" => ~e.delivery

Slice(e) == <<e.operation, e.target, e.mode>>

\* _duplicate_operation_reports finds nothing.
NoDuplicate(table) == \A i, j \in DOMAIN table : Slice(table[i]) = Slice(table[j]) => i = j

ValidTable(table) == NoDuplicate(table) /\ \A i \in DOMAIN table : ValidEntry(table[i])

StableMatches(table, operation, target, mode) ==
  {i \in DOMAIN table : Slice(table[i]) = <<operation, target, mode>>
                        /\ table[i].lifecycle = "stable" /\ table[i].delivery}

\* stable_operation_entry returns an entry, and the family of that entry.
IsStable(table, operation, target, mode) ==
  ValidTable(table) /\ Cardinality(StableMatches(table, operation, target, mode)) = 1

FamilyOf(table, operation, target, mode) ==
  table[CHOOSE i \in StableMatches(table, operation, target, mode) : TRUE].family
=============================================================================
