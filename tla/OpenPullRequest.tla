----------------------------- MODULE OpenPullRequest -----------------------------
(***************************************************************************)
(* Opening a pull request in the controlled way (scripts/open_pr.py): a      *)
(* proposal is checked against the policy of its class, against the item it  *)
(* says that it is about, and against the integration contract, and a        *)
(* description is made from it.                                              *)
(*                                                                         *)
(* A proposal is [class, context, diff, head, binding, foreign, check,       *)
(* issue, live, draft, dryRun]: binding is what the state of the worktrees   *)
(* says of the branch, foreign that the difference touches another item's    *)
(* plan in a way that the cleanup does not allow, issue and live what GitHub *)
(* says of the issue and of an item that a reference names.                  *)
(***************************************************************************)
EXTENDS ReviewArtifacts, IntegrationGate

ClassCategories ==
  [governance |-> {"governance", "spec", "docs"}, spec |-> {"spec", "docs"},
   implementation |-> {"implementation", "docs"}, docs |-> {"docs"}]

Category(d) ==
  CASE d.area = "suite" -> "spec" [] d.area \in {"plan", "decision"} -> "docs" [] OTHER -> d.area

ScopeFits(x) == \A d \in x.diff : Category(d) \in ClassCategories[x.class]

-----------------------------------------------------------------------------
\* The item has one active plan, which says what the proposal says.
ItemFits(tree, context) ==
  /\ context.type \in ItemTypes
  /\ IF context.item = None THEN FALSE ELSE context.item[1] = context.type
  /\ PlanFor(tree, context) # None

CoreFiles(suite) == {"spec.md", "plan.md"} \cup IF suite[1] = "loom" THEN {"implementation-contract.md"} ELSE {}

\* Files that are the core of a suite, or nothing but a removal of legacy ones.
TouchesCore(tree, diff) ==
  \/ \E d \in diff : d.area = "suite" /\ d.file \in CoreFiles(d.of)
  \/ /\ diff # {}
     /\ \A d \in diff : d.area = "suite" /\ d.of[1] = "docs" /\ d.file = "TODO.md" /\ d.of \notin tree.todos

KeepsTodo(tree, diff) == \E d \in diff : d.area = "suite" /\ d.of[1] = "docs" /\ d.file = "TODO.md" /\ d.of \in tree.todos

\* A specification that the plan is bound to and that can be reviewed.
FormalInput(tree, plan, diff, lenient) ==
  /\ InputMode(plan) = "formal_spec"
  /\ SpecBound(tree, plan.type, plan.spec)
  /\ AdditionalBound(tree, plan)
  /\ FormalScopeFits(tree, plan, diff)
  /\ plan.decision.says # "nothing" =>
       \/ DecisionFaults(tree, plan) = {}
       \/ lenient /\ LegacyDecisionAllowed(tree, plan)
  /\ \A suite \in {SpecDir(plan.spec)} \cup AdditionalDirs(plan) : SuiteFits(tree, suite)

\* Without a binding, the suite of a feature is the one of its name.
OwnSuite(tree, plan, diff) ==
  /\ InputMode(plan) = "unbound" /\ plan.type = "FR"
  /\ SuiteFits(tree, <<"docs", plan.item>>)
  /\ Touched(diff) \subseteq {<<"docs", plan.item>>}

DecisionInput(tree, plan) == DecisionFaults(tree, plan) = {}
BootstrapInput(tree, plan) == InputMode(plan) = "bootstrap" /\ DecisionInput(tree, plan)

OnlyOwnLoom(plan, diff) ==
  IF SpecDir(plan.spec) = None THEN FALSE
  ELSE SpecDir(plan.spec)[1] = "loom" /\ Touched(diff) = {SpecDir(plan.spec)}

ClassAllows(x, tree, plan) ==
  LET formal == FormalInput(tree, plan, x.diff, FALSE)
  IN CASE x.class = "spec" -> TouchesCore(tree, x.diff) /\ formal
       [] x.class = "governance" ->
            /\ formal \/ BootstrapInput(tree, plan)
            /\ Touched(x.diff) # {} => formal \/ (DecisionInput(tree, plan) /\ OnlyOwnLoom(plan, x.diff))
            /\ ~(x.diff # {} /\ \A d \in x.diff : d.area = "suite" /\ d.of[1] = "loom")
       [] x.class = "implementation" ->
            InputMode(plan) # "unbound" \/ plan.type \in {"FR", "HOTFIX", "CHORE"} =>
              FormalInput(tree, plan, x.diff, TRUE) \/ OwnSuite(tree, plan, x.diff) \/ BootstrapInput(tree, plan)
       [] OTHER -> TRUE

PreflightFits(x, tree) ==
  /\ ItemFits(tree, x.context)
  /\ x.binding = "fits"
  /\ ~x.foreign /\ ~KeepsTodo(tree, x.diff)
  /\ ClassAllows(x, tree, PlanFor(tree, x.context))

-----------------------------------------------------------------------------
\* The payload that is checked, and that the description gets.
OwnCheck(x) == [x.check EXCEPT !.ref = CanonicalRef(x.check.ref, x.issue, x.live)]

ContractFits(x) == ~IssueFaulty(x.issue) /\ OpenPrFits(OwnCheck(x), IssueContract(x.issue))

Opens(x, tree) == ScopeFits(x) /\ PreflightFits(x, tree) /\ ContractFits(x)

\* What the description says of what governs the plan.
GoverningLabel(tree, plan) ==
  CASE InputMode(plan) = "formal_spec" ->
         (IF SpecDir(plan.spec) = None THEN {} ELSE {<<"suite", SpecDir(plan.spec)>>})
           \cup (IF AdditionalBound(tree, plan) THEN {<<"suite", s>> : s \in AdditionalDirs(plan)} ELSE {})
           \cup (IF plan.decision.says = "nothing" THEN {} ELSE {<<"decision", plan.decision.file>>})
    [] InputMode(plan) = "bootstrap" ->
         IF plan.decision.says = "nothing" THEN {} ELSE {<<"decision", plan.decision.file>>}
    [] OTHER ->
         IF plan.type = "FR" /\ SuiteFits(tree, <<"docs", plan.item>>) THEN {<<"suite", <<"docs", plan.item>>>>} ELSE {}

RubricsFor(x) ==
  LET categories == {Category(d) : d \in x.diff}
      spec == "spec" \in categories \/ x.class = "spec"
      code == x.class # "spec" \/ categories \cap {"governance", "implementation"} # {}
  IN (IF spec THEN {<<"file", "spec_review.md">>} ELSE {}) \cup (IF code THEN {<<"file", "code_review.md">>} ELSE {})

Description(x, tree) ==
  LET plan == PlanFor(tree, x.context)
  IN [text |-> 1, context |-> x.context, check |-> OwnCheck(x), template |-> "new", created |-> "after", executed |-> FALSE,
      artifacts |-> [plan |-> {<<"plan", plan.file>>}, governing |-> GoverningLabel(tree, plan),
                     review |-> RubricsFor(x), evidence |-> {<<"command", "governance_gate">>}]]
=============================================================================
