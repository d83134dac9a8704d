------------------------------- MODULE ItemContext -------------------------------
(***************************************************************************)
(* The item that a change belongs to, as a tree of the repository has it     *)
(* (scripts/item_context.py): its execution plan, and the specifications and *)
(* the decision that the plan is bound to.                                   *)
(*                                                                         *)
(* A tree is a record of its plans, suites (directories of specifications),  *)
(* decisions and todos (suites with a legacy TODO.md).  A plan is            *)
(*   [file, doubled, inactive, issue, item, type, line, active, spec,        *)
(*    additional, decision]                                                  *)
(* where file is the item that the file is named after, doubled says that a  *)
(* key of the metadata occurs twice, line stands for release and sprint, and *)
(* None is a field that is not there.  An item is <<type, number>> and a     *)
(* suite <<place, item>>.  A binding says "nothing", "placeholder", "n/a",   *)
(* "outside", "elsewhere" or "path".                                         *)
(***************************************************************************)
EXTENDS Checks

ItemTypes == {"FR", "HOTFIX", "GOV", "CHORE"}
LegacyCleanup == <<"GOV", 29>>

\* What the cleanup may touch besides its own suite.
LegacyFiles ==
  (<<"docs", <<"FR", 1>>>> :> {"spec.md", "plan.md", "risks.md", "TODO.md"}) @@ (<<"docs", <<"FR", 2>>>> :> {"TODO.md"})

Meaningful(binding) == binding.says \notin {"nothing", "placeholder", "n/a"}

InputMode(plan) ==
  IF Meaningful(plan.spec) THEN "formal_spec" ELSE IF plan.type = "GOV" THEN "bootstrap" ELSE "unbound"

-----------------------------------------------------------------------------
Eligible(plan) ==
  /\ ~plan.doubled /\ ~plan.inactive
  /\ None \notin {plan.issue, plan.item, plan.type, plan.line}
  /\ plan.active \in {None, plan.item}

\* The one plan of an item: the file that is named after it counts whatever item it says.
LoadItem(tree, item) ==
  LET own == {plan \in tree.plans : plan.file = item}
      further == {plan \in tree.plans : plan.file # item /\ plan.item = item}
      matches == {plan \in own \cup further : Eligible(plan)}
  IN IF Cardinality(matches) = 1 /\ \A plan \in own \cup further : ~plan.doubled
     THEN CHOOSE plan \in matches : TRUE
     ELSE None

PlansOfIssue(tree, issue) == {plan \in tree.plans : plan.issue = issue /\ Eligible(plan)}

\* The only plan of an item whose issue has no other, if it says all that the context says.
PlanFor(tree, context) ==
  LET plan == LoadItem(tree, context.item)
  IN IF None \in {context.issue, context.item, context.type, context.line} \/ plan = None THEN None
     ELSE IF /\ Cardinality(PlansOfIssue(tree, context.issue)) = 1
             /\ \A only \in PlansOfIssue(tree, context.issue) : only.item = context.item
             /\ plan.issue = context.issue /\ plan.item = context.item
             /\ plan.type = context.type /\ plan.line = context.line
     THEN plan
     ELSE None

-----------------------------------------------------------------------------
(* Bindings to specifications *)

SpecDir(binding) == IF binding.says = "path" /\ binding.shape # "odd" THEN binding.suite ELSE None

HasMinimum(tree, suite) == \E s \in tree.suites : s.dir = suite /\ s.complete
SuiteFits(tree, suite) == \E s \in tree.suites : s.dir = suite /\ s.complete /\ s.valid

SpecBound(tree, type, binding) ==
  /\ SpecDir(binding) # None
  /\ binding.suite[1] = "loom" => type = "GOV"
  /\ HasMinimum(tree, binding.suite)

Declared(plan) == {binding \in plan.additional : Meaningful(binding)}

AdditionalBound(tree, plan) ==
  Declared(plan) # {} =>
    /\ plan.type = "GOV" /\ InputMode(plan) = "formal_spec" /\ plan.item = LegacyCleanup
    /\ \A binding \in Declared(plan) : SpecBound(tree, None, binding) /\ binding.suite \in DOMAIN LegacyFiles

AdditionalDirs(plan) == {binding.suite : binding \in Declared(plan)}

\* A difference is a set of [area, of, file]; of is the suite of a file of a specification.
Touched(diff) == {d.of : d \in {e \in diff : e.area = "suite"}}

CleanupInScope(tree, plan, diff) ==
  diff # {} =>
    \A dir \in AdditionalDirs(plan) :
      LET files == {d.file : d \in {e \in diff : e.area = "suite" /\ e.of = dir}}
      IN "TODO.md" \in files /\ files \subseteq LegacyFiles[dir] /\ dir \notin tree.todos

FormalScopeFits(tree, plan, diff) ==
  SpecDir(plan.spec) # None =>
    /\ AdditionalBound(tree, plan)
    /\ CleanupInScope(tree, plan, diff)
    /\ Touched(diff) \subseteq {SpecDir(plan.spec)} \cup AdditionalDirs(plan)

-----------------------------------------------------------------------------
(* The binding to a decision, which is required where it is asked for *)

DecisionFaults(tree, plan) ==
  LET found == {d \in tree.decisions : d.file = plan.decision.file}
      chosen == CHOOSE d \in found : TRUE
  IN IF plan.decision.says # "path" THEN {"no path"}
     ELSE IF found = {} THEN {"no file"}
     ELSE IF chosen.doubled THEN {"doubled"}
     ELSE AllFaults(<<<<chosen.issue = None, "no issue">>, <<chosen.item = None, "no item">>,
                      <<chosen.issue \notin {None, plan.issue}, "other issue">>,
                      <<chosen.item \notin {None, plan.item}, "other item">>>>)

\* The first decision of the repository has no metadata.
LegacyDecisionAllowed(tree, plan) ==
  /\ plan.type \in {"FR", "HOTFIX", "CHORE"} /\ InputMode(plan) = "formal_spec"
  /\ plan.decision.file = "ADR-0001"
  /\ DecisionFaults(tree, plan) \subseteq {"no issue", "no item"}
=============================================================================
