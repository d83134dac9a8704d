----------------------------- MODULE ReviewArtifacts -----------------------------
(***************************************************************************)
(* What the description of a pull request gives a reviewer to go by: the     *)
(* guardian checks it on a tree before it reviews and before it merges       *)
(* (scripts/pr_guardian.py).                                                 *)
(*                                                                         *)
(* A description is a record [text, context, check, artifacts, template,     *)
(* created, executed]: check is the payload of its integration section and   *)
(* artifacts, if the section is there, gives each field of the section a set *)
(* of locators, which is empty for one without a locator.                    *)
(* A locator is <<kind, name>>.                                              *)
(***************************************************************************)
EXTENDS ItemContext

ArtifactFields == {"plan", "governing", "review", "evidence"}
Rubrics == {<<"file", "code_review.md">>, <<"file", "spec_review.md">>}

\* The description was made from a template or at a time that demands the section.
ArtifactsRequired(body) ==
  \/ body.artifacts # None
  \/ body.template = "new"
  \/ body.created = "after"
  \/ body.created = "unknown" /\ body.template = "filled"

Exists(tree, locator) ==
  CASE locator[1] = "plan"     -> \E plan \in tree.plans : plan.file = locator[2]
    [] locator[1] = "suite"    -> \E s \in tree.suites : s.dir = locator[2]
    [] locator[1] = "core"     -> \E s \in tree.suites : s.dir = locator[2] /\ s.complete
    [] locator[1] = "decision" -> \E d \in tree.decisions : d.file = locator[2]
    [] locator[1] \in {"file", "path"} -> locator[2] \in tree.files
    [] OTHER                   -> FALSE

InDirectory == {"plan", "suite", "core", "decision", "path"}

LocatorsFit(tree, locators, inDirectory) ==
  /\ locators # {}
  /\ \A locator \in locators :
       /\ locator[1] \in InDirectory \/ (locator[1] = "file" /\ ~inDirectory)
       /\ Exists(tree, locator)

\* What was run is named, or kept in a file, or the description has a section of it; to say
\* that it will come is enough only with such a section.
EvidenceFits(tree, body, locators) ==
  LET kinds == {locator[1] : locator \in locators}
      kept == {locator \in locators : locator[1] \in InDirectory \cup {"file"}}
  IN /\ kinds \cap {"see section", "later"} # {} => body.executed
     /\ "illegal" \notin kinds
     /\ \A locator \in kept : Exists(tree, locator)
     /\ \/ "command" \in kinds \/ kept # {}
        \/ kinds \cap {"section", "see section"} # {} /\ body.executed

-----------------------------------------------------------------------------
\* A file of a suite stands for the suite.
Governing(locator) == IF locator[1] = "core" THEN <<"suite", locator[2]>> ELSE locator

\* The locators that a plan links to: anything that looks like a path.
Linked(binding) ==
  CASE binding.says = "path" /\ binding.shape = "file" -> {<<"core", binding.suite>>}
    [] binding.says = "path" /\ binding.shape = "root" -> {<<"suite", binding.suite>>}
    [] binding.says \in {"nothing", "placeholder"}     -> {}
    [] OTHER                                           -> {<<"path", binding.says>>}

LinkedDecision(binding) ==
  CASE binding.says = "path"                       -> {<<"decision", binding.file>>}
    [] binding.says \in {"nothing", "placeholder"} -> {}
    [] OTHER                                       -> {<<"path", binding.says>>}

\* What governs a plan, and if nothing does the suite that a feature has by its name.
GoverningOf(tree, plan) ==
  LET links == (UNION {Linked(b) : b \in {plan.spec} \cup plan.additional}) \cup LinkedDecision(plan.decision)
      suite == <<"docs", plan.item>>
  IN IF links # {} THEN {Governing(l) : l \in links}
     ELSE IF plan.type = "FR" /\ HasMinimum(tree, suite) THEN {<<"suite", suite>>}
     ELSE {}

\* The plan and what governs it are those of the item that the description speaks of.
ArtifactsBound(tree, body) ==
  LET plan == PlanFor(tree, body.context)
  IN IF plan = None THEN FALSE
     ELSE /\ <<"plan", plan.file>> \in body.artifacts["plan"]
          /\ GoverningOf(tree, plan) # {}
          /\ {Governing(l) : l \in body.artifacts["governing"]} = GoverningOf(tree, plan)

ArtifactsFit(tree, body) ==
  IF body.artifacts = None THEN ~ArtifactsRequired(body)
  ELSE /\ ArtifactFields \subseteq DOMAIN body.artifacts
       /\ LocatorsFit(tree, body.artifacts["plan"], TRUE)
       /\ LocatorsFit(tree, body.artifacts["governing"], TRUE)
       /\ LocatorsFit(tree, body.artifacts["review"], FALSE) /\ body.artifacts["review"] \subseteq Rubrics
       /\ EvidenceFits(tree, body, body.artifacts["evidence"])
       /\ ArtifactsBound(tree, body)
=============================================================================
