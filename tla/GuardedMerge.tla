------------------------------- MODULE GuardedMerge -------------------------------
(***************************************************************************)
(* The guarded merge of a pull request (merge_if_safe in                     *)
(* scripts/pr_guardian.py): a verdict on what it says and holds, a recheck   *)
(* of the integration that is recorded in its description, a second verdict  *)
(* on that description, the gates, a last look and the merge.  Meanwhile the *)
(* author pushes and edits, GitHub and the reviewer fail, and the guardian   *)
(* may be killed.  Each step is one exchange with GitHub and what the        *)
(* guardian makes of it.                                                     *)
(***************************************************************************)
EXTENDS OpenPullRequest

CONSTANTS
  Proposals,     \* proposals to open a pull request
  HandOpened,    \* pull requests opened without the script: [head, body]
  TreeAt,        \* the tree of each commit
  PushTargets,   \* commits that the author pushes to the branch, forced or not
  IssueReplies,  \* what GitHub says of the issue of a pull request
  LiveReplies,   \* what it says of the item that the reference names
  MaxEdits,      \* steps of the author
  MaxRuns        \* runs of the guardian

-----------------------------------------------------------------------------
(* What pull requests and verdicts are made of *)

Commits == DOMAIN TreeAt

Plans == UNION {TreeAt[commit].plans : commit \in Commits}

\* Locators as the script makes them: files and the command, and what a plan speaks of.
Locators ==
  ({"decision", "file", "command"} \X
     ({"code_review.md", "spec_review.md", "governance_gate"} \cup {plan.decision.file : plan \in Plans}))
  \cup ({"plan", "suite"} \X
     UNION {{plan.file, <<"docs", plan.item>>, SpecDir(plan.spec)} \cup AdditionalDirs(plan) : plan \in Plans})

Artifacts == [ArtifactFields -> SUBSET Locators] \cup {x.body.artifacts : x \in HandOpened}

Words == {"", "odd", "issue", "issue url", "other issue", "item"} \cup UNION {FieldChoices[f] : f \in DOMAIN FieldChoices}
CheckPayloads == [PrFields -> Words]

Bodies ==
  [text : 1..2, context : {x.context : x \in Proposals} \cup {x.body.context : x \in HandOpened},
   check : CheckPayloads \cup {None}, artifacts : Artifacts,
   template : {"new", "filled", "none"}, created : {"before", "after", "unknown"}, executed : BOOLEAN]

PullRequests == [head : Commits, body : Bodies, draft : BOOLEAN, merged : BOOLEAN, edits : Nat, pushed : SUBSET Commits]
Looks == [head : Commits, body : Bodies, draft : BOOLEAN]
Verdicts ==
  [schema : 1..2, head : Commits, body : Bodies \cup {None}, tree : Commits, approve : BOOLEAN, safe : BOOLEAN]

\* None is none of the values it stands in for.
ASSUME NoneAssumption ==
  /\ None \notin {"yes", "no"}
  /\ None \notin CheckPayloads /\ None \notin [ArtifactFields -> SUBSET Locators]
  /\ None \notin PullRequests /\ None \notin Looks /\ None \notin Verdicts

\* Every tree has the rubrics; a binding to a path leads to a suite, to a file of it, or astray.
ASSUME TreeAssumption ==
  \A commit \in Commits :
    /\ \A rubric \in Rubrics : Exists(TreeAt[commit], rubric)
    /\ \A plan \in TreeAt[commit].plans : \A b \in {plan.spec} \cup plan.additional :
         b.says = "path" => b.shape \in {"root", "file", "odd"}

ASSUME ProposalAssumption ==
  \A x \in Proposals :
    /\ x.head \in Commits /\ x.class \in DOMAIN ClassCategories /\ x.draft \in BOOLEAN
    /\ x.check \in CheckPayloads /\ x.issue.fields \in [IssueFields -> Words] \cup {None}

ASSUME BranchAssumption ==
  /\ \A x \in HandOpened : x.head \in Commits /\ x.body \in Bodies
  /\ PushTargets \subseteq Commits
  /\ MaxEdits \in Nat /\ MaxRuns \in Nat

VARIABLES
  proposal,  \* what is to be opened
  change,    \* the pull request, as GitHub has it
  saved,     \* the verdict in the guardian's state file
  guardian   \* the run of the guardian

merging == <<proposal, change, saved, guardian>>

NotRunning ==
  [at |-> "off", runs |-> 0, confirmed |-> FALSE, current |-> None, meta |-> None, verdict |-> None,
   previous |-> None, seen |-> None, began |-> None]

MergeInit == proposal = None /\ change = None /\ saved = None /\ guardian = NotRunning

Opened(head, body, draft) ==
  [head |-> head, body |-> body, draft |-> draft, merged |-> FALSE, edits |-> 0, pushed |-> {head}]

Propose ==
  /\ proposal = None /\ change = None
  /\ proposal' \in Proposals
  /\ UNCHANGED <<change, saved, guardian>>

\* A pull request that did not come from the script, of which a guardian of old may have left
\* a verdict that is bound to no description.
OpenByHand ==
  /\ proposal = None /\ change = None
  /\ \E x \in HandOpened :
       /\ change' = Opened(x.head, x.body, FALSE)
       /\ saved' \in {None, [schema |-> 1, head |-> x.head, body |-> None, tree |-> x.head, approve |-> TRUE, safe |-> TRUE]}
  /\ UNCHANGED <<proposal, guardian>>

\* main of open_pr.py, which a dry run leaves before the pull request.
OpenPr ==
  /\ proposal # None /\ change = None
  /\ Opens(proposal, TreeAt[proposal.head]) /\ ~proposal.dryRun
  /\ change' = Opened(proposal.head, Description(proposal, TreeAt[proposal.head]), proposal.draft)
  /\ proposal' = None
  /\ UNCHANGED <<saved, guardian>>

-----------------------------------------------------------------------------
(* The author *)

MayEdit == change # None /\ ~change.merged /\ change.edits < MaxEdits

Push ==
  /\ MayEdit /\ change.head \in PushTargets
  /\ \E head \in PushTargets \ {change.head} :
       change' = [change EXCEPT !.head = head, !.edits = @ + 1, !.pushed = @ \cup {head}]
  /\ UNCHANGED <<proposal, saved, guardian>>

Local == [touchpoint |-> "none", shared |-> "no", ref |-> "none", dependency |-> "none", gate |-> "local_only",
          surface |-> "none", joint |-> "no", beforePr |-> "no", beforeMerge |-> "no"]

\* Another text; another payload, or none; another word on the recheck.
Rewritten(body) ==
  {[body EXCEPT !.text = 3 - @], [body EXCEPT !.check = None], [body EXCEPT !.check = Local]}
    \cup IF body.check = None THEN {} ELSE {[body EXCEPT !.check.beforeMerge = v] : v \in {"yes", "no"}}

EditBody ==
  /\ MayEdit
  /\ \E body \in Rewritten(change.body) \ {change.body} :
       change' = [change EXCEPT !.body = body, !.edits = @ + 1]
  /\ UNCHANGED <<proposal, saved, guardian>>

ToggleDraft ==
  /\ MayEdit
  /\ change' = [change EXCEPT !.draft = ~@, !.edits = @ + 1]
  /\ UNCHANGED <<proposal, saved, guardian>>

-----------------------------------------------------------------------------
(* Reading and writing the pull request *)

Look == [head |-> change.head, body |-> change.body, draft |-> change.draft]
Same(look, that) == look.head = that.head /\ look.body = that.body

\* A payload whose word on the recheck can be replaced.
Settable(body) == IF body.check = None THEN FALSE ELSE body.check.beforeMerge \in {"yes", "no"}

Recorded(body, word) == [body EXCEPT !.check.beforeMerge = word]

Ends == {"merged", "refused", "died"}

\* A run that ends keeps what the next one, or a property, asks for.
Ended(run, at) == [NotRunning EXCEPT !.at = at, !.runs = run.runs, !.began = run.began]

\* Whoever has recorded the recheck takes it back before he refuses.
Refuse == IF guardian.previous = None THEN Ended(guardian, "refused") ELSE [guardian EXCEPT !.at = "restore", !.meta = None]

\* Mutant: a verdict of the same head counts, whatever has become of the description.
ReusableByHead == IF saved = None THEN FALSE ELSE saved.head = change.head

\* A verdict counts again for the head and the description that it was given on.
Reusable == IF saved = None THEN FALSE
            ELSE saved.schema = 2 /\ saved.head = change.head /\ saved.body = change.body

\* What is decided on a verdict and a look at the pull request after it.
AfterVerdict(run, look, issue) ==
  IF /\ run.verdict.approve /\ run.verdict.safe
     /\ ~look.draft
     /\ Same(look, run.verdict)
  THEN IF ~Gated(look.body.check) THEN [run EXCEPT !.at = "artifacts", !.current = look]
       ELSE IF /\ run.confirmed /\ Settable(look.body)
               /\ MergeContractFits(Recorded(look.body, "yes").check, issue)
       THEN [run EXCEPT !.at = "record", !.current = look]
       ELSE Ended(run, "refused")
  ELSE Ended(run, "refused")

Start ==
  /\ change # None /\ guardian.at \in {"off", "refused", "died"} /\ guardian.runs < MaxRuns
  /\ \E refresh, confirmed \in BOOLEAN, issue \in IssueReplies :
       LET run == [NotRunning EXCEPT !.at = "review", !.runs = guardian.runs + 1, !.confirmed = confirmed,
                                     !.began = [body |-> change.body, edits |-> change.edits]]
       IN guardian' = IF ~refresh /\ Reusable
                      THEN AfterVerdict([run EXCEPT !.verdict = [saved EXCEPT !.body = change.body]], Look, issue)
                      ELSE run
  /\ UNCHANGED <<proposal, change, saved>>

\* review_once reads the pull request ...
ReadForReview ==
  /\ guardian.at = "review"
  /\ guardian' = [guardian EXCEPT !.at = "examine", !.meta = Look]
  /\ UNCHANGED <<proposal, change, saved>>

\* ... and then fetches its branch, which may be another by now.  The verdict is saved
\* before it is posted, so that a failure to post it leaves it behind.
Examine ==
  /\ guardian.at = "examine"
  /\ \/ guardian' = Refuse /\ saved' = saved
     \/ /\ ArtifactsRequired(guardian.meta.body) => ArtifactsFit(TreeAt[change.head], guardian.meta.body)
        /\ \E approve, safe \in BOOLEAN :
             LET verdict == [schema |-> 2, head |-> guardian.meta.head, body |-> guardian.meta.body, tree |-> change.head,
                             approve |-> approve, safe |-> safe]
             IN /\ saved' = verdict
                /\ \/ guardian' = Refuse
                   \/ IF guardian.previous # None /\ ~(approve /\ safe) THEN guardian' = Refuse
                      ELSE guardian' = [guardian EXCEPT !.at = IF guardian.previous = None THEN "decide" ELSE "compare",
                                                        !.meta = None, !.verdict = verdict]
  /\ UNCHANGED <<proposal, change>>

DecideMerge ==
  /\ guardian.at = "decide"
  /\ \E issue \in IssueReplies : guardian' = AfterVerdict(guardian, Look, issue)
  /\ UNCHANGED <<proposal, change, saved>>

-----------------------------------------------------------------------------
(* record_merge_time_integration_recheck and restore_merge_time_integration_recheck *)

\* A description that says yes already needs no write.
Record ==
  /\ guardian.at = "record"
  /\ guardian' = IF ~Same(Look, guardian.current) THEN Ended(guardian, "refused")
                 ELSE IF change.body.check.beforeMerge = "yes"
                 THEN [guardian EXCEPT !.at = "review", !.previous = "yes", !.current = None, !.verdict = None]
                 ELSE [guardian EXCEPT !.at = "write", !.current = Look]
  /\ UNCHANGED <<proposal, change, saved>>

\* The whole description is written, whatever it has become since it was read.
WriteRecord ==
  /\ guardian.at = "write"
  /\ change' = [change EXCEPT !.body = Recorded(guardian.current.body, "yes")]
  /\ guardian' = [guardian EXCEPT !.at = "confirm"]
  /\ UNCHANGED <<proposal, saved>>

Confirm ==
  /\ guardian.at = "confirm"
  /\ \/ guardian' = [guardian EXCEPT !.at = "undo"]
     \/ LET recorded == [guardian EXCEPT !.previous = "no", !.current = None, !.verdict = None]
        IN guardian' = [recorded EXCEPT !.at = IF change.head = guardian.verdict.head THEN "review" ELSE "restore"]
  /\ UNCHANGED <<proposal, change, saved>>

Undo ==
  /\ guardian.at = "undo"
  /\ change' = [change EXCEPT !.body = guardian.current.body]
  /\ guardian' = Ended(guardian, "refused")
  /\ UNCHANGED <<proposal, saved>>

Restore ==
  /\ guardian.at = "restore"
  /\ guardian' = IF ~Settable(change.body) THEN Ended(guardian, "died")
                 ELSE IF change.body.check.beforeMerge = guardian.previous THEN Ended(guardian, "refused")
                 ELSE [guardian EXCEPT !.at = "restoring", !.meta = Look, !.current = None, !.verdict = None]
  /\ UNCHANGED <<proposal, change, saved>>

WriteRestored ==
  /\ guardian.at = "restoring"
  /\ change' = [change EXCEPT !.body = Recorded(guardian.meta.body, guardian.previous)]
  /\ guardian' = Ended(guardian, "refused")
  /\ UNCHANGED <<proposal, saved>>

-----------------------------------------------------------------------------
(* From the second verdict to the merge *)

Compare ==
  /\ guardian.at = "compare"
  /\ guardian' = IF Same(Look, guardian.verdict) THEN [guardian EXCEPT !.at = "artifacts", !.current = Look] ELSE Refuse
  /\ UNCHANGED <<proposal, change, saved>>

CheckArtifacts ==
  /\ guardian.at = "artifacts"
  /\ \/ ArtifactsRequired(guardian.current.body) /\ guardian' = Refuse
     \/ /\ ArtifactsRequired(guardian.current.body) => ArtifactsFit(TreeAt[change.head], guardian.current.body)
        /\ guardian' = [guardian EXCEPT !.at = "integrate"]
  /\ UNCHANGED <<proposal, change, saved>>

Integrate ==
  /\ guardian.at = "integrate"
  /\ \E issue \in IssueReplies, live \in LiveReplies :
       guardian' = IF /\ MergeContractFits(guardian.current.body.check, issue)
                      /\ LiveFits(guardian.current.body.check, live)
                   THEN [guardian EXCEPT !.at = "latest", !.seen = [issue |-> issue, checked |-> None]]
                   ELSE Refuse
  /\ UNCHANGED <<proposal, change, saved>>

LookAgain ==
  /\ guardian.at = "latest"
  /\ guardian' = IF Same(Look, guardian.current) THEN [guardian EXCEPT !.at = "checks", !.current = Look] ELSE Refuse
  /\ UNCHANGED <<proposal, change, saved>>

\* The checks are those of whatever is the head now.
ReadChecks ==
  /\ guardian.at = "checks"
  /\ \/ guardian' = Refuse
     \/ guardian' = [guardian EXCEPT !.at = "merge", !.seen.checked = change.head]
  /\ UNCHANGED <<proposal, change, saved>>

\* GitHub merges no draft, and nothing but the head that it is told.
MergePr ==
  /\ guardian.at = "merge"
  /\ \/ guardian' = Refuse /\ change' = change
     \/ /\ change.head = guardian.current.head /\ ~change.draft
        /\ change' = [change EXCEPT !.merged = TRUE]
        /\ guardian' = [guardian EXCEPT !.at = "merged"]
  /\ UNCHANGED <<proposal, saved>>

\* The guardian is killed, or a call fails whose failure nobody catches.
Die ==
  /\ guardian.at \notin Ends \cup {"off"}
  /\ guardian' = Ended(guardian, "died")
  /\ UNCHANGED <<proposal, change, saved>>

MergeNext ==
  \/ Propose \/ OpenByHand \/ OpenPr
  \/ Push \/ EditBody \/ ToggleDraft
  \/ Start \/ ReadForReview \/ Examine \/ DecideMerge
  \/ Record \/ WriteRecord \/ Confirm \/ Undo \/ Restore \/ WriteRestored
  \/ Compare \/ CheckArtifacts \/ Integrate \/ LookAgain \/ ReadChecks \/ MergePr \/ Die

-----------------------------------------------------------------------------
(* Properties, as parts of one of ReleasePath *)

\* The author has done nothing since the last run began.
Undisturbed == guardian.began.edits = change.edits

\* A guardian that refuses leaves the description as it has found it, if nobody else writes;
\* one that dies may leave the recheck on record.
NothingLeftBehind ==
  guardian.at \in {"refused", "died"} /\ Undisturbed =>
    \/ change.body = guardian.began.body
    \/ guardian.at = "died" /\ change.body = Recorded(guardian.began.body, "yes")

\* A pull request that may be opened, other than of documents only, can pass the guardian, as
\* far as its description goes: but not if its plan says "n/a" of a binding, which the guardian
\* takes for a path, nor if it has a decision and no specification and needs neither, nor if it
\* names additional specifications beside none, save its own by name.  Once the recheck is on
\* record its contract holds, too.
OpenedIsReviewable ==
  proposal # None =>
    LET tree == TreeAt[proposal.head]
        plan == PlanFor(tree, proposal.context)
        body == Description(proposal, tree)
        Readable == /\ "n/a" \notin {b.says : b \in {plan.spec, plan.decision} \cup plan.additional}
                    /\ InputMode(plan) = "unbound" => plan.decision.says \in {"nothing", "placeholder"}
                    /\ InputMode(plan) # "formal_spec" => \A b \in plan.additional : \A l \in Linked(b) :
                         InputMode(plan) = "unbound" /\ Governing(l) = <<"suite", <<"docs", plan.item>>>>
    IN Opens(proposal, tree) =>
         /\ proposal.class # "docs" => (Readable <=> ArtifactsFit(tree, body))
         /\ MergePayloadFits(Recorded(body, "yes").check, IssueContract(proposal.issue))
=============================================================================
