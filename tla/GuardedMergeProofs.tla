---------------------------- MODULE GuardedMergeProofs ----------------------------
(***************************************************************************)
(* Theorems about GuardedMerge, as part of ReleasePath: for any proposals,   *)
(* pull requests, trees and answers of GitHub, any number of steps of the    *)
(* author and of runs of the guardian.                                       *)
(***************************************************************************)
EXTENDS ReleasePath, FiniteSetTheorems, TLAPS

-----------------------------------------------------------------------------
(* The inductive invariant *)

Points ==
  {"off", "review", "examine", "decide", "record", "write", "confirm", "undo", "restore", "restoring", "compare",
   "artifacts", "integrate", "latest", "checks", "merge", "merged", "refused", "died"}

Beginnings == [body : Bodies, edits : Nat]
Sightings == [issue : IssueReplies, checked : Commits \cup {None}]

Runs ==
  [at : Points, runs : Nat, confirmed : BOOLEAN, current : Looks \cup {None}, meta : Looks \cup {None},
   verdict : Verdicts \cup {None}, previous : {"yes", "no", None}, seen : Sightings \cup {None},
   began : Beginnings \cup {None}]

MergeTypes ==
  /\ proposal \in Proposals \cup {None}
  /\ change \in PullRequests \cup {None}
  /\ saved \in Verdicts \cup {None}
  /\ guardian \in Runs

\* A run has a pull request, and a verdict was given on a tree that this once had.
Rooted ==
  /\ guardian.at # "off" =>
       change \in PullRequests /\ guardian.began \in Beginnings /\ guardian.began.edits <= change.edits
  /\ change \in PullRequests => change.head \in change.pushed
  /\ saved \in Verdicts => change \in PullRequests /\ saved.tree \in change.pushed
  /\ guardian.at = "merged" => change.merged /\ change.head = guardian.current.head

Deciding == {"artifacts", "integrate", "latest", "checks", "merge", "merged"}
Recording == {"record", "write", "confirm", "undo"}

\* The verdict of a run is the one on file, and positive once anything was decided on it.
VerdictCounts ==
  /\ guardian.at \in {"off", "review", "examine", "refused", "died"} => guardian.verdict = None
  /\ guardian.verdict # None => guardian.verdict = saved
  /\ guardian.at \in {"decide", "compare"} \cup Recording \cup Deciding => guardian.verdict \in Verdicts
  /\ guardian.at \in {"compare"} \cup Recording \cup Deciding => guardian.verdict.approve /\ guardian.verdict.safe
  /\ guardian.at \in Recording \cup Deciding =>
       guardian.current \in Looks /\ Same(guardian.current, guardian.verdict)

\* Which steps have a recheck to record, or one on record to take back, and who has confirmed it.
RecheckStands ==
  /\ guardian.at \in {"off", "decide", "refused", "died"} \cup Recording => guardian.previous = None
  /\ guardian.at \in {"compare", "restore", "restoring"} => guardian.previous # None
  /\ guardian.previous # None \/ guardian.at \in Recording => guardian.confirmed
  /\ guardian.at \in Recording => Settable(guardian.current.body)
  /\ guardian.at \in Deciding /\ Gated(guardian.current.body.check) => guardian.confirmed
  /\ guardian.at \in {"examine", "restoring"} => guardian.meta \in Looks
  /\ guardian.at = "restoring" =>
       Settable(guardian.meta.body) /\ guardian.meta.body.check.beforeMerge # guardian.previous

ContractSeen ==
  guardian.at \in {"latest", "checks", "merge", "merged"} =>
    guardian.seen \in Sightings /\ MergeContractFits(guardian.current.body.check, guardian.seen.issue)

Awaits(body, word) == body.check \in CheckPayloads /\ body.check.beforeMerge = word

\* The recheck was not on record when the run began, and is now.
RecordStands ==
  Awaits(guardian.began.body, "no") /\ change.body = Recorded(guardian.began.body, "yes")

\* What the pull request is at each step, if the author has done nothing since the run began.
Calm ==
  guardian.at # "off" /\ Undisturbed =>
    /\ guardian.at \in Deciding \cup {"record", "write"} => Same(change, guardian.current)
    /\ guardian.at \in {"merge", "merged"} => guardian.seen.checked = change.head
    /\ guardian.at = "write" => Awaits(change.body, "no")
    /\ guardian.at \in {"confirm", "undo"} => RecordStands /\ guardian.current.body = guardian.began.body
    /\ guardian.previous = "no" => RecordStands
    /\ guardian.previous = "yes" => Awaits(change.body, "yes")
    /\ guardian.previous # "no" /\ guardian.at \notin {"confirm", "undo", "died"} => change.body = guardian.began.body
    /\ guardian.at = "restoring" => guardian.meta.body = change.body
    /\ guardian.at = "died" =>
         change.body = guardian.began.body \/ change.body = Recorded(guardian.began.body, "yes")

MInv == MergeTypes /\ Rooted /\ VerdictCounts /\ RecheckStands /\ ContractSeen /\ Calm

-----------------------------------------------------------------------------
(* Descriptions *)

\* To record the recheck changes one word of a description.
LEMMA RecordedIsBody ==
  ASSUME NEW b \in Bodies, b.check \in CheckPayloads, NEW w \in {"yes", "no"}
  PROVE  Recorded(b, w) \in Bodies /\ Awaits(Recorded(b, w), w)
<1> DEFINE c == [b.check EXCEPT !.beforeMerge = w]
<1>1. c \in CheckPayloads /\ c.beforeMerge = w
  <2>1. "beforeMerge" \in PrFields /\ w \in Words
    BY DEF PrFields, Words, FieldChoices
  <2> QED BY <2>1 DEF CheckPayloads
<1>2. Recorded(b, w) = [b EXCEPT !.check = c]
  BY DEF Recorded, Bodies
<1> HIDE DEF c
<1>3. [b EXCEPT !.check = c] \in Bodies /\ [b EXCEPT !.check = c].check = c
  BY <1>1 DEF Bodies
<1> QED BY <1>1, <1>2, <1>3 DEF Awaits

\* Recorded and taken back again is as it was.
LEMMA RecordedTwice ==
  ASSUME NEW b \in Bodies, Awaits(b, "no")
  PROVE  Recorded(Recorded(b, "yes"), "no") = b
<1> DEFINE c == [b.check EXCEPT !.beforeMerge = "yes"]
           d == [c EXCEPT !.beforeMerge = "no"]
<1>1. b.check \in CheckPayloads /\ b.check.beforeMerge = "no"
  BY DEF Awaits
<1>2. d = b.check
  BY <1>1 DEF CheckPayloads, PrFields, IssueFields
<1>3. Recorded(Recorded(b, "yes"), "no") = [b EXCEPT !.check = d]
  BY DEF Recorded, Bodies
<1>4. [b EXCEPT !.check = b.check] = b
  BY DEF Bodies
<1> QED BY <1>2, <1>3, <1>4

\* A payload whose word can be replaced is one.
LEMMA SettableHasCheck ==
  ASSUME NEW b \in Bodies
  PROVE  Settable(b) <=> b.check \in CheckPayloads /\ b.check.beforeMerge \in {"yes", "no"}
  BY NoneAssumption DEF Settable, Bodies

\* The author makes descriptions of descriptions.
LEMMA RewrittenAreBodies ==
  ASSUME NEW b \in Bodies
  PROVE  Rewritten(b) \subseteq Bodies
<1>1. [b EXCEPT !.text = 3 - @] \in Bodies
  BY DEF Bodies
<1>2. [b EXCEPT !.check = None] \in Bodies
  BY DEF Bodies
<1>3. Local \in CheckPayloads
  <2>1. DOMAIN Local = PrFields
    BY DEF Local, PrFields, IssueFields
  <2>2. \A f \in PrFields : Local[f] \in {"none", "no", "local_only"}
    BY DEF Local, PrFields, IssueFields
  <2>4. {"none", "no", "local_only"} \subseteq Words
    BY DEF Words, FieldChoices
  <2>3. Local = [f \in PrFields |-> Local[f]]
    BY <2>1 DEF Local
  <2> QED BY <2>2, <2>3, <2>4 DEF CheckPayloads
<1>4. [b EXCEPT !.check = Local] \in Bodies
  BY <1>3 DEF Bodies
<1>5. ASSUME b.check # None, NEW v \in {"yes", "no"} PROVE [b EXCEPT !.check.beforeMerge = v] \in Bodies
  BY <1>5, RecordedIsBody DEF Bodies, Recorded
<1> QED BY <1>1, <1>2, <1>4, <1>5 DEF Rewritten

-----------------------------------------------------------------------------
(* The steps *)

\* The steps of the author end the calm, and no run is past its end while he may take one.
LEMMA AuthorStep ==
  ASSUME MInv, Push \/ EditBody \/ ToggleDraft
  PROVE  MInv'
<1>1. change \in PullRequests /\ ~change.merged
  BY DEF MInv, MergeTypes, Push, EditBody, ToggleDraft, MayEdit
<1>2. change' \in PullRequests /\ change'.edits = change.edits + 1 /\ change'.merged = change.merged
  <2> DEFINE n == change.edits + 1
  <2>0. n \in Nat
    BY <1>1 DEF PullRequests
  <2>1. CASE Push
    <3>1. PICK h \in Commits : change' = [change EXCEPT !.head = h, !.edits = n, !.pushed = @ \cup {h}]
      BY <2>1, BranchAssumption DEF Push
    <3> QED BY <3>1, <2>0, <1>1 DEF PullRequests
  <2>2. CASE EditBody
    <3>1. PICK b \in Bodies : change' = [change EXCEPT !.body = b, !.edits = n]
      BY <2>2, <1>1, RewrittenAreBodies DEF EditBody, PullRequests
    <3> QED BY <3>1, <2>0, <1>1 DEF PullRequests
  <2>3. CASE ToggleDraft
    <3> DEFINE d == ~change.draft
    <3>1. change' = [change EXCEPT !.draft = d, !.edits = n] /\ d \in BOOLEAN
      BY <2>3 DEF ToggleDraft
    <3> HIDE DEF d
    <3> QED BY <3>1, <2>0, <1>1 DEF PullRequests
  <2> QED BY <2>1, <2>2, <2>3
<1>7. change.pushed \subseteq change'.pushed /\ change'.head \in change'.pushed
  BY <1>1 DEF MInv, Rooted, Push, EditBody, ToggleDraft, PullRequests
<1>3. proposal' = proposal /\ saved' = saved /\ guardian' = guardian
  BY DEF Push, EditBody, ToggleDraft
<1>4. MergeTypes' /\ Rooted'
  BY <1>1, <1>2, <1>7, <1>3 DEF MInv, MergeTypes, Rooted, PullRequests, Beginnings
<1>5. VerdictCounts' /\ RecheckStands' /\ ContractSeen'
  BY <1>3 DEF MInv, VerdictCounts, RecheckStands, ContractSeen, Settable, Gated, Same
<1>6. Calm'
  BY <1>1, <1>2, <1>3 DEF MInv, Rooted, Calm, Undisturbed, PullRequests, Beginnings
<1> QED BY <1>4, <1>5, <1>6 DEF MInv

\* A run that ends in a refusal or a death, when the description is as it has to be.
LEMMA EndedStep ==
  ASSUME MInv, MergeTypes', Rooted',
         NEW run \in Runs, run.began \in Beginnings,
         NEW at \in {"refused", "died"}, guardian' = Ended(run, at),
         run.began.edits = change'.edits =>
           \/ change'.body = run.began.body
           \/ at = "died" /\ change'.body = Recorded(run.began.body, "yes")
  PROVE  MInv'
<1>1. guardian' = [at |-> at, runs |-> run.runs, confirmed |-> FALSE, current |-> None, meta |-> None, verdict |-> None,
                   previous |-> None, seen |-> None, began |-> run.began]
  BY DEF Ended, NotRunning
<1>2. VerdictCounts'
  BY <1>1 DEF VerdictCounts, Recording, Deciding
<1>3. RecheckStands'
  BY <1>1 DEF RecheckStands, Recording, Deciding
<1>4. ContractSeen'
  BY <1>1 DEF ContractSeen
<1>5. Calm'
  BY <1>1, NoneAssumption DEF Calm, Undisturbed, Deciding
<1> QED BY <1>2, <1>3, <1>4, <1>5 DEF MInv

\* The type of a run that ends.
LEMMA EndedIsRun ==
  ASSUME NEW run \in Runs, NEW at \in {"refused", "died"}
  PROVE  Ended(run, at) \in Runs /\ Ended(run, at).at = at /\ Ended(run, at).began = run.began
<1> SUFFICES ASSUME NEW r, r = Ended(run, at)
             PROVE  r \in Runs /\ r.at = at /\ r.began = run.began
  OBVIOUS
<1>1. r = [at |-> at, runs |-> run.runs, confirmed |-> FALSE, current |-> None, meta |-> None,
           verdict |-> None, previous |-> None, seen |-> None, began |-> run.began]
  BY DEF Ended, NotRunning
<1> QED BY <1>1 DEF Runs, Points

\* A look is one.
LEMMA LookIsLook ==
  ASSUME change \in PullRequests
  PROVE  Look \in Looks /\ Same(Look, change) /\ Look.head = change.head /\ Look.body = change.body
  BY DEF Look, Looks, PullRequests, Same

\* What is decided on a verdict that is on file, when the run has changed nothing.
LEMMA AfterVerdictStep ==
  ASSUME MInv, NEW run \in Runs, NEW issue, guardian' = AfterVerdict(run, Look, issue),
         proposal' = proposal, change' = change, saved' = saved,
         change \in PullRequests, run.began \in Beginnings, run.began.edits <= change.edits,
         saved \in Verdicts, run.verdict = saved, run.previous = None,
         run.began.edits = change.edits => change.body = run.began.body
  PROVE  MInv'
<1>1. \/ guardian' = Ended(run, "refused")
      \/ /\ run.verdict.approve /\ run.verdict.safe /\ Same(Look, run.verdict)
         /\ \/ guardian' = [run EXCEPT !.at = "artifacts", !.current = Look] /\ ~Gated(change.body.check)
            \/ /\ guardian' = [run EXCEPT !.at = "record", !.current = Look]
               /\ run.confirmed /\ Settable(change.body)
  BY LookIsLook DEF AfterVerdict
<1>2. CASE guardian' = Ended(run, "refused")
  <2>1. MergeTypes' /\ Rooted'
    BY <1>2, EndedIsRun DEF MInv, MergeTypes, Rooted
  <2> QED BY <1>2, <2>1, EndedStep
<1>3. ASSUME run.verdict.approve, run.verdict.safe, Same(Look, run.verdict), NEW at \in {"artifacts", "record"},
             guardian' = [run EXCEPT !.at = at, !.current = Look],
             at = "artifacts" => ~Gated(change.body.check),
             at = "record" => run.confirmed /\ Settable(change.body)
      PROVE  MInv'
  <2>0. Look \in Looks /\ Look.head = change.head /\ Look.body = change.body
    BY LookIsLook
  <2>1. /\ guardian' \in Runs /\ guardian'.at = at /\ guardian'.current = Look /\ guardian'.verdict = saved
        /\ guardian'.previous = None /\ guardian'.began = run.began /\ guardian'.confirmed = run.confirmed
    BY <1>3, <2>0 DEF Runs, Points
  <2>2. MergeTypes' /\ Rooted'
    BY <2>1 DEF MInv, MergeTypes, Rooted
  <2>3. VerdictCounts'
    BY <2>0, <2>1, <1>3 DEF VerdictCounts, Recording, Deciding, Same
  <2>4. RecheckStands'
    BY <2>0, <2>1, <1>3 DEF RecheckStands, Recording, Deciding, Settable, Gated
  <2>5. ContractSeen'
    BY <2>1 DEF ContractSeen
  <2>6. Calm'
    BY <2>0, <2>1, NoneAssumption DEF Calm, Undisturbed, Deciding, Same
  <2> QED BY <2>2, <2>3, <2>4, <2>5, <2>6 DEF MInv
<1> QED BY <1>1, <1>2, <1>3
\* Whoever refuses ends, or goes on to take back what is on record.
LEMMA RefuseStep ==
  ASSUME MInv, guardian' = Refuse, proposal' = proposal, change' = change,
         guardian.at \in {"examine", "compare", "artifacts", "integrate", "latest", "checks", "merge"},
         saved' \in Verdicts \cup {None}, saved' \in Verdicts => saved'.tree \in change.pushed,
         saved' = saved \/ guardian.verdict = None
  PROVE  MInv'
<1>1. guardian \in Runs /\ guardian.began \in Beginnings /\ change \in PullRequests
  BY DEF MInv, MergeTypes, Rooted
<1>2. CASE guardian.previous = None
  <2>1. guardian' = Ended(guardian, "refused")
    BY <1>2 DEF Refuse
  <2>2. MergeTypes' /\ Rooted'
    BY <2>1, <1>1, EndedIsRun DEF MInv, MergeTypes, Rooted
  <2>3. guardian.began.edits = change'.edits => change'.body = guardian.began.body
    BY <1>2, NoneAssumption DEF MInv, Calm, Undisturbed
  <2> QED BY <2>1, <2>2, <2>3, <1>1, EndedStep
<1>3. CASE guardian.previous # None
  <2>1. guardian' = [guardian EXCEPT !.at = "restore", !.meta = None]
    BY <1>3 DEF Refuse
  <2>2. /\ guardian' \in Runs /\ guardian'.at = "restore" /\ guardian'.previous = guardian.previous
        /\ guardian'.began = guardian.began /\ guardian'.verdict = guardian.verdict
        /\ guardian'.confirmed = guardian.confirmed
    BY <2>1, <1>1 DEF Runs, Points
  <2>3. MergeTypes' /\ Rooted'
    BY <2>2, <1>1 DEF MInv, MergeTypes, Rooted
  <2>4. VerdictCounts'
    BY <2>2 DEF MInv, VerdictCounts, Recording, Deciding
  <2>5. RecheckStands'
    BY <2>2, <1>3 DEF MInv, RecheckStands, Recording, Deciding
  <2>6. ContractSeen'
    BY <2>2 DEF ContractSeen
  <2>7. Calm'
    BY <2>2, <1>3 DEF MInv, Calm, Undisturbed, Deciding, RecordStands, Awaits
  <2> QED BY <2>3, <2>4, <2>5, <2>6, <2>7 DEF MInv
<1> QED BY <1>2, <1>3

\* A run begins, with a verdict that counts again or to get one.
LEMMA StartStep ==
  ASSUME MInv, Start
  PROVE  MInv'
<1>1. /\ change \in PullRequests /\ guardian \in Runs /\ proposal' = proposal /\ change' = change /\ saved' = saved
      /\ guardian.at \in {"off", "refused", "died"}
  BY DEF Start, MInv, MergeTypes
<1>2. PICK refresh \in BOOLEAN, confirmed \in BOOLEAN, issue \in IssueReplies :
        LET run == [NotRunning EXCEPT !.at = "review", !.runs = guardian.runs + 1, !.confirmed = confirmed,
                                      !.began = [body |-> change.body, edits |-> change.edits]]
        IN guardian' = IF ~refresh /\ Reusable
                       THEN AfterVerdict([run EXCEPT !.verdict = [saved EXCEPT !.body = change.body]], Look, issue)
                       ELSE run
  BY DEF Start
<1> DEFINE began == [body |-> change.body, edits |-> change.edits]
           run == [at |-> "review", runs |-> guardian.runs + 1, confirmed |-> confirmed, current |-> None, meta |-> None,
                   verdict |-> None, previous |-> None, seen |-> None, began |-> began]
           again == [run EXCEPT !.verdict = saved]
<1>3. began \in Beginnings
  BY <1>1 DEF PullRequests, Beginnings
<1>4. guardian.runs + 1 \in Nat
  BY <1>1 DEF Runs
<1>5. run \in Runs
  BY <1>1, <1>3, <1>4 DEF Runs, Points
<1>6. [NotRunning EXCEPT !.at = "review", !.runs = guardian.runs + 1, !.confirmed = confirmed, !.began = began] = run
  <2> SUFFICES ASSUME NEW r,
                      r = [NotRunning EXCEPT !.at = "review", !.runs = guardian.runs + 1, !.confirmed = confirmed, !.began = began]
               PROVE  r = run
    OBVIOUS
  <2> QED BY DEF NotRunning
<1>7. CASE guardian' = run
  <2>0. change.edits \in Nat
    BY <1>1 DEF PullRequests
  <2>1. MergeTypes' /\ Rooted'
    BY <1>1, <1>3, <1>5, <1>7, <2>0 DEF MInv, MergeTypes, Rooted
  <2>2. VerdictCounts' /\ RecheckStands' /\ ContractSeen'
    BY <1>7 DEF VerdictCounts, RecheckStands, ContractSeen, Recording, Deciding
  <2>3. Calm'
    BY <1>1, <1>7, NoneAssumption DEF Calm, Undisturbed, Deciding
  <2> QED BY <2>1, <2>2, <2>3 DEF MInv
<1>8. CASE Reusable /\ guardian' = AfterVerdict([run EXCEPT !.verdict = [saved EXCEPT !.body = change.body]], Look, issue)
  <2>1. saved \in Verdicts /\ saved.body = change.body
    BY <1>8 DEF Reusable, MInv, MergeTypes
  <2>2. [saved EXCEPT !.body = change.body] = saved
    BY <2>1 DEF Verdicts
  <2>3. again \in Runs /\ again.verdict = saved /\ again.previous = None /\ again.began = began
    BY <1>5, <2>1 DEF Runs
  <2>4. began.edits <= change.edits /\ began.body = change.body
    BY <1>1 DEF PullRequests
  <2>5. guardian' = AfterVerdict(again, Look, issue)
    BY <1>8, <2>2
  <2> HIDE DEF again, began, run
  <2> QED BY <2>1, <2>3, <2>4, <2>5, <1>1, <1>3, AfterVerdictStep
<1> HIDE DEF run
<1> QED BY <1>2, <1>6, <1>7, <1>8
\* The guardian reads what it is going to give a verdict on.
LEMMA ReadForReviewStep ==
  ASSUME MInv, ReadForReview
  PROVE  MInv'
<1>1. /\ change \in PullRequests /\ guardian \in Runs /\ proposal' = proposal /\ change' = change /\ saved' = saved
      /\ guardian.at = "review" /\ guardian' = [guardian EXCEPT !.at = "examine", !.meta = Look]
  BY DEF ReadForReview, MInv, MergeTypes, Rooted
<1>2. Look \in Looks
  BY <1>1, LookIsLook
<1>3. /\ guardian' \in Runs /\ guardian'.at = "examine" /\ guardian'.meta = Look /\ guardian'.verdict = guardian.verdict
      /\ guardian'.previous = guardian.previous /\ guardian'.began = guardian.began
      /\ guardian'.confirmed = guardian.confirmed
  BY <1>1, <1>2 DEF Runs, Points
<1>4. MergeTypes' /\ Rooted'
  BY <1>1, <1>3 DEF MInv, MergeTypes, Rooted
<1>5. VerdictCounts' /\ RecheckStands' /\ ContractSeen'
  BY <1>1, <1>2, <1>3 DEF MInv, VerdictCounts, RecheckStands, ContractSeen, Recording, Deciding
<1>6. Calm'
  BY <1>1, <1>3 DEF MInv, Calm, Undisturbed, Deciding, RecordStands, Awaits
<1> QED BY <1>4, <1>5, <1>6 DEF MInv

\* A verdict is given on the description that was read and the tree that is there now, and
\* put on file; or not.
LEMMA ExamineStep ==
  ASSUME MInv, Examine
  PROVE  MInv'
<1>1. /\ change \in PullRequests /\ guardian \in Runs /\ proposal' = proposal /\ change' = change
      /\ guardian.at = "examine" /\ guardian.verdict = None /\ guardian.meta \in Looks
      /\ saved \in Verdicts \cup {None}
  BY DEF Examine, MInv, MergeTypes, Rooted, VerdictCounts, RecheckStands
<1>2. CASE guardian' = Refuse /\ saved' = saved
  BY <1>1, <1>2, RefuseStep DEF MInv, Rooted
<1>3. ASSUME NEW approve \in BOOLEAN, NEW safe \in BOOLEAN, NEW verdict,
             verdict = [schema |-> 2, head |-> guardian.meta.head, body |-> guardian.meta.body, tree |-> change.head,
                        approve |-> approve, safe |-> safe],
             saved' = verdict,
             \/ guardian' = Refuse
             \/ /\ guardian.previous = None \/ (approve /\ safe)
                /\ guardian' = [guardian EXCEPT !.at = IF guardian.previous = None THEN "decide" ELSE "compare",
                                                !.meta = None, !.verdict = verdict]
      PROVE  MInv'
  <2>1. verdict \in Verdicts /\ verdict.tree = change.head /\ verdict.approve = approve /\ verdict.safe = safe
    BY <1>1, <1>3 DEF Verdicts, Looks, PullRequests
  <2>2. verdict.tree \in change.pushed /\ verdict # None
    BY <1>1, <2>1, NoneAssumption DEF MInv, Rooted
  <2>3. CASE guardian' = Refuse
    BY <1>1, <1>3, <2>1, <2>2, <2>3, RefuseStep
  <2>4. ASSUME NEW at \in {"decide", "compare"}, at = "decide" <=> guardian.previous = None,
               at = "compare" => approve /\ safe,
               guardian' = [guardian EXCEPT !.at = at, !.meta = None, !.verdict = verdict]
        PROVE  MInv'
    <3>0. at \in Points /\ guardian' = [guardian EXCEPT !.at = at, !.meta = None, !.verdict = verdict]
      BY <2>4 DEF Points
    <3>1. /\ guardian' \in Runs /\ guardian'.at = at /\ guardian'.verdict = verdict
          /\ guardian'.previous = guardian.previous /\ guardian'.began = guardian.began
          /\ guardian'.confirmed = guardian.confirmed
      BY <1>1, <2>1, <3>0 DEF Runs
    <3>2. MergeTypes' /\ Rooted'
      BY <1>1, <1>3, <2>1, <2>2, <3>1 DEF MInv, MergeTypes, Rooted
    <3>3. VerdictCounts'
      BY <1>1, <1>3, <2>1, <2>4, <3>1 DEF VerdictCounts, Recording, Deciding
    <3>4. RecheckStands' /\ ContractSeen'
      BY <2>4, <3>1 DEF MInv, RecheckStands, ContractSeen, Recording, Deciding
    <3>5. Calm'
      BY <1>1, <3>1 DEF MInv, Calm, Undisturbed, Deciding, RecordStands, Awaits
    <3> QED BY <3>2, <3>3, <3>4, <3>5 DEF MInv
  <2>5. CASE guardian.previous = None /\ guardian' # Refuse
    BY <1>3, <2>4, <2>5
  <2>6. CASE guardian.previous # None /\ guardian' # Refuse
    BY <1>3, <2>4, <2>6
  <2> QED BY <2>3, <2>5, <2>6
<1>4. \/ guardian' = Refuse /\ saved' = saved
      \/ \E approve, safe \in BOOLEAN : \E verdict :
           /\ verdict = [schema |-> 2, head |-> guardian.meta.head, body |-> guardian.meta.body, tree |-> change.head,
                         approve |-> approve, safe |-> safe]
           /\ saved' = verdict
           /\ \/ guardian' = Refuse
              \/ /\ guardian.previous = None \/ (approve /\ safe)
                 /\ guardian' = [guardian EXCEPT !.at = IF guardian.previous = None THEN "decide" ELSE "compare",
                                                 !.meta = None, !.verdict = verdict]
  BY DEF Examine
<1> QED BY <1>2, <1>3, <1>4

\* The verdict of this run decides.
LEMMA DecideMergeStep ==
  ASSUME MInv, DecideMerge
  PROVE  MInv'
<1>1. /\ change \in PullRequests /\ guardian \in Runs /\ proposal' = proposal /\ change' = change /\ saved' = saved
      /\ guardian.at = "decide" /\ guardian.verdict \in Verdicts /\ guardian.verdict = saved /\ guardian.previous = None
      /\ guardian.began \in Beginnings /\ guardian.began.edits <= change.edits
  BY NoneAssumption DEF DecideMerge, MInv, MergeTypes, Rooted, VerdictCounts, RecheckStands
<1>2. guardian.began.edits = change.edits => change.body = guardian.began.body
  BY <1>1, NoneAssumption DEF MInv, Calm, Undisturbed
<1>3. PICK issue \in IssueReplies : guardian' = AfterVerdict(guardian, Look, issue)
  BY DEF DecideMerge
<1> QED BY <1>1, <1>2, <1>3, AfterVerdictStep
\* The recheck is on record already, or is to be written, if nobody has meddled.
LEMMA RecordStep ==
  ASSUME MInv, Record
  PROVE  MInv'
<1>1. /\ change \in PullRequests /\ guardian \in Runs /\ proposal' = proposal /\ change' = change /\ saved' = saved
      /\ guardian.at = "record" /\ guardian.verdict = saved /\ guardian.verdict \in Verdicts /\ guardian.previous = None
      /\ guardian.began \in Beginnings /\ guardian.current \in Looks /\ Same(guardian.current, guardian.verdict)
      /\ guardian.confirmed /\ Settable(guardian.current.body)
  BY NoneAssumption DEF Record, MInv, MergeTypes, Rooted, VerdictCounts, RecheckStands, Recording
<1>2. guardian.began.edits = change.edits => change.body = guardian.began.body
  BY <1>1, NoneAssumption DEF MInv, Calm, Undisturbed
<1>3. Look \in Looks /\ Same(Look, change) /\ Look.head = change.head /\ Look.body = change.body
  BY <1>1, LookIsLook
<1>4. CASE guardian' = Ended(guardian, "refused")
  <2>1. MergeTypes' /\ Rooted'
    BY <1>1, <1>4, EndedIsRun DEF MInv, MergeTypes, Rooted
  <2> QED BY <1>1, <1>2, <1>4, <2>1, EndedStep
<1>5. CASE /\ Same(Look, guardian.current)
           /\ change.body.check.beforeMerge = "yes"
           /\ guardian' = [guardian EXCEPT !.at = "review", !.previous = "yes", !.current = None, !.verdict = None]
  <2>1. /\ guardian' \in Runs /\ guardian'.at = "review" /\ guardian'.verdict = None
        /\ guardian'.previous = "yes" /\ guardian'.began = guardian.began /\ guardian'.confirmed = guardian.confirmed
    BY <1>1, <1>5 DEF Runs, Points
  <2>2. MergeTypes' /\ Rooted'
    BY <1>1, <2>1 DEF MInv, MergeTypes, Rooted
  <2>3. VerdictCounts' /\ RecheckStands' /\ ContractSeen'
    BY <1>1, <2>1 DEF VerdictCounts, RecheckStands, ContractSeen, Recording, Deciding
  <2>4. Awaits(change.body, "yes")
    BY <1>1, <1>3, <1>5, SettableHasCheck DEF Same, Awaits, Looks
  <2>5. Calm'
    BY <1>1, <1>2, <2>1, <2>4 DEF Calm, Undisturbed, Deciding, Awaits
  <2> QED BY <2>2, <2>3, <2>5 DEF MInv
<1>6. CASE /\ Same(Look, guardian.current)
           /\ change.body.check.beforeMerge # "yes"
           /\ guardian' = [guardian EXCEPT !.at = "write", !.current = Look]
  <2>1. /\ guardian' \in Runs /\ guardian'.at = "write" /\ guardian'.verdict = guardian.verdict
        /\ guardian'.current = Look
        /\ guardian'.previous = None /\ guardian'.began = guardian.began /\ guardian'.confirmed = guardian.confirmed
    BY <1>1, <1>3, <1>6 DEF Runs, Points
  <2>2. MergeTypes' /\ Rooted'
    BY <1>1, <2>1 DEF MInv, MergeTypes, Rooted
  <2>3. VerdictCounts'
    BY <1>1, <1>3, <1>6, <2>1 DEF MInv, VerdictCounts, Recording, Deciding, Same
  <2>4. RecheckStands' /\ ContractSeen'
    BY <1>1, <1>3, <1>6, <2>1 DEF RecheckStands, ContractSeen, Recording, Deciding, Same, Settable
  <2>5. Awaits(change.body, "no")
    BY <1>1, <1>3, <1>6, SettableHasCheck DEF Same, Awaits, Looks
  <2>6. Calm'
    BY <1>1, <1>2, <1>3, <2>1, <2>5, NoneAssumption DEF Calm, Undisturbed, Deciding, Awaits, Same
  <2> QED BY <2>2, <2>3, <2>4, <2>6 DEF MInv
<1> QED BY <1>4, <1>5, <1>6 DEF Record

\* What the guardian writes to the description becomes the description, whatever it was.
LEMMA WrittenIsPullRequest ==
  ASSUME change \in PullRequests, NEW b \in Bodies, change' = [change EXCEPT !.body = b]
  PROVE  /\ change' \in PullRequests /\ change'.body = b /\ change'.head = change.head /\ change'.edits = change.edits
         /\ change'.pushed = change.pushed /\ change'.merged = change.merged
  BY DEF PullRequests

LEMMA WriteRecordStep ==
  ASSUME MInv, WriteRecord
  PROVE  MInv'
<1> DEFINE b == Recorded(guardian.current.body, "yes")
<1>1. /\ change \in PullRequests /\ guardian \in Runs /\ proposal' = proposal /\ saved' = saved
      /\ guardian.at = "write" /\ guardian.verdict \in Verdicts /\ guardian.previous = None
      /\ guardian.began \in Beginnings /\ guardian.current \in Looks /\ Settable(guardian.current.body)
      /\ change' = [change EXCEPT !.body = b] /\ guardian' = [guardian EXCEPT !.at = "confirm"]
  BY DEF WriteRecord, MInv, MergeTypes, Rooted, VerdictCounts, RecheckStands, Recording
<1>2. b \in Bodies
  BY <1>1, SettableHasCheck, RecordedIsBody DEF Looks
<1>3. /\ change' \in PullRequests /\ change'.body = b /\ change'.head = change.head /\ change'.edits = change.edits
      /\ change'.pushed = change.pushed /\ change'.merged = change.merged
  BY <1>1, <1>2, WrittenIsPullRequest
<1>4. /\ guardian' \in Runs /\ guardian'.at = "confirm" /\ guardian'.verdict = guardian.verdict
      /\ guardian'.current = guardian.current /\ guardian'.previous = None /\ guardian'.began = guardian.began
      /\ guardian'.confirmed = guardian.confirmed
  BY <1>1 DEF Runs, Points
<1>5. MergeTypes' /\ Rooted'
  BY <1>1, <1>3, <1>4 DEF MInv, MergeTypes, Rooted
<1>6. VerdictCounts' /\ RecheckStands' /\ ContractSeen'
  BY <1>1, <1>4 DEF MInv, VerdictCounts, RecheckStands, ContractSeen, Recording, Deciding
<1>7. Calm'
  BY <1>1, <1>3, <1>4, NoneAssumption DEF MInv, Calm, Undisturbed, Deciding, Awaits, RecordStands, Same
<1> QED BY <1>5, <1>6, <1>7 DEF MInv
\* The guardian reads what it has written, or does not know whether it has.
LEMMA ConfirmStep ==
  ASSUME MInv, Confirm
  PROVE  MInv'
<1>1. /\ change \in PullRequests /\ guardian \in Runs /\ proposal' = proposal /\ change' = change /\ saved' = saved
      /\ guardian.at = "confirm" /\ guardian.verdict \in Verdicts /\ guardian.verdict = saved /\ guardian.previous = None
      /\ guardian.began \in Beginnings /\ guardian.confirmed
  BY NoneAssumption DEF Confirm, MInv, MergeTypes, Rooted, VerdictCounts, RecheckStands, Recording
<1>2. CASE guardian' = [guardian EXCEPT !.at = "undo"]
  <2>1. /\ guardian' \in Runs /\ guardian'.at = "undo" /\ guardian'.verdict = guardian.verdict
        /\ guardian'.current = guardian.current /\ guardian'.previous = None /\ guardian'.began = guardian.began
        /\ guardian'.confirmed = guardian.confirmed
    BY <1>1, <1>2 DEF Runs, Points
  <2>2. MergeTypes' /\ Rooted'
    BY <1>1, <2>1 DEF MInv, MergeTypes, Rooted
  <2>3. VerdictCounts' /\ RecheckStands' /\ ContractSeen'
    BY <1>1, <2>1 DEF MInv, VerdictCounts, RecheckStands, ContractSeen, Recording, Deciding
  <2>4. Calm'
    BY <1>1, <2>1, NoneAssumption DEF MInv, Calm, Undisturbed, Deciding, RecordStands
  <2> QED BY <2>2, <2>3, <2>4 DEF MInv
<1>3. ASSUME NEW at \in {"review", "restore"},
             guardian' = [guardian EXCEPT !.at = at, !.previous = "no", !.current = None, !.verdict = None]
      PROVE  MInv'
  <2>0. at \in Points
    BY DEF Points
  <2>1. /\ guardian' \in Runs /\ guardian'.at = at /\ guardian'.verdict = None /\ guardian'.previous = "no"
        /\ guardian'.began = guardian.began /\ guardian'.confirmed = guardian.confirmed
    BY <1>1, <1>3, <2>0 DEF Runs
  <2>2. MergeTypes' /\ Rooted'
    BY <1>1, <2>1 DEF MInv, MergeTypes, Rooted
  <2>3. VerdictCounts' /\ RecheckStands' /\ ContractSeen'
    BY <1>1, <2>1, NoneAssumption DEF VerdictCounts, RecheckStands, ContractSeen, Recording, Deciding
  <2>4. Calm'
    BY <1>1, <2>1 DEF MInv, Calm, Undisturbed, Deciding, RecordStands
  <2> QED BY <2>2, <2>3, <2>4 DEF MInv
<1>4. CASE ~(guardian' = [guardian EXCEPT !.at = "undo"])
  <2> DEFINE at == IF change.head = guardian.verdict.head THEN "review" ELSE "restore"
             recorded == [guardian EXCEPT !.previous = "no", !.current = None, !.verdict = None]
  <2>1. guardian' = [recorded EXCEPT !.at = at]
    BY <1>4 DEF Confirm
  <2>2. guardian' = [guardian EXCEPT !.at = at, !.previous = "no", !.current = None, !.verdict = None]
    BY <2>1, <1>1 DEF Runs
  <2>3. at \in {"review", "restore"}
    OBVIOUS
  <2> HIDE DEF at
  <2> QED BY <2>2, <2>3, <1>3
<1> QED BY <1>2, <1>4

\* The old description is written back.
LEMMA UndoStep ==
  ASSUME MInv, Undo
  PROVE  MInv'
<1>1. /\ change \in PullRequests /\ guardian \in Runs /\ proposal' = proposal /\ saved' = saved
      /\ guardian.at = "undo" /\ guardian.began \in Beginnings /\ guardian.current \in Looks
      /\ change' = [change EXCEPT !.body = guardian.current.body] /\ guardian' = Ended(guardian, "refused")
  BY DEF Undo, MInv, MergeTypes, Rooted, VerdictCounts, Recording
<1>2. guardian.current.body \in Bodies
  BY <1>1 DEF Looks
<1>3. /\ change' \in PullRequests /\ change'.body = guardian.current.body /\ change'.head = change.head
      /\ change'.edits = change.edits /\ change'.pushed = change.pushed /\ change'.merged = change.merged
  BY <1>1, <1>2, WrittenIsPullRequest
<1>4. MergeTypes' /\ Rooted'
  BY <1>1, <1>3, EndedIsRun DEF MInv, MergeTypes, Rooted
<1>5. guardian.began.edits = change'.edits => change'.body = guardian.began.body
  BY <1>1, <1>3 DEF MInv, Calm, Undisturbed
<1> QED BY <1>1, <1>4, <1>5, EndedStep

\* What is on record is looked up before it is taken back.
LEMMA RestoreStep ==
  ASSUME MInv, Restore
  PROVE  MInv'
<1>1. /\ change \in PullRequests /\ guardian \in Runs /\ proposal' = proposal /\ change' = change /\ saved' = saved
      /\ guardian.at = "restore" /\ guardian.began \in Beginnings /\ guardian.previous \in {"yes", "no"}
      /\ guardian.confirmed
  BY DEF Restore, MInv, MergeTypes, Rooted, RecheckStands, Runs
<1>2. change.body \in Bodies
  BY <1>1 DEF PullRequests
<1>3. Undisturbed => \/ guardian.previous = "yes" /\ change.body = guardian.began.body /\ Awaits(change.body, "yes")
                     \/ guardian.previous = "no" /\ RecordStands
  BY <1>1 DEF MInv, Calm
<1>4. guardian.began.body \in Bodies
  BY <1>1 DEF Beginnings
<1>5. RecordStands => Awaits(change.body, "yes")
  BY <1>4, RecordedIsBody DEF RecordStands, Awaits
<1>6. CASE ~Settable(change.body)
  <2>1. guardian' = Ended(guardian, "died")
    BY <1>6 DEF Restore
  <2>2. MergeTypes' /\ Rooted'
    BY <1>1, <2>1, EndedIsRun DEF MInv, MergeTypes, Rooted
  <2>3. guardian.began.edits # change'.edits
    BY <1>1, <1>2, <1>3, <1>5, <1>6, SettableHasCheck DEF Undisturbed, Awaits
  <2> QED BY <1>1, <2>1, <2>2, <2>3, EndedStep
<1>7. CASE Settable(change.body) /\ change.body.check.beforeMerge = guardian.previous
  <2>1. guardian' = Ended(guardian, "refused")
    BY <1>7 DEF Restore
  <2>2. MergeTypes' /\ Rooted'
    BY <1>1, <2>1, EndedIsRun DEF MInv, MergeTypes, Rooted
  <2>3. guardian.began.edits = change'.edits => change'.body = guardian.began.body
    BY <1>1, <1>3, <1>5, <1>7 DEF Undisturbed, Awaits
  <2> QED BY <1>1, <2>1, <2>2, <2>3, EndedStep
<1>8. CASE Settable(change.body) /\ change.body.check.beforeMerge # guardian.previous
  <2>1. guardian' = [guardian EXCEPT !.at = "restoring", !.meta = Look, !.current = None, !.verdict = None]
    BY <1>8 DEF Restore
  <2>2. Look \in Looks /\ Look.body = change.body
    BY <1>1, LookIsLook
  <2>3. /\ guardian' \in Runs /\ guardian'.at = "restoring" /\ guardian'.verdict = None /\ guardian'.meta = Look
        /\ guardian'.previous = guardian.previous /\ guardian'.began = guardian.began
        /\ guardian'.confirmed = guardian.confirmed
    BY <1>1, <2>1, <2>2 DEF Runs, Points
  <2>4. MergeTypes' /\ Rooted'
    BY <1>1, <2>3 DEF MInv, MergeTypes, Rooted
  <2>5. VerdictCounts' /\ RecheckStands' /\ ContractSeen'
    BY <1>1, <1>8, <2>2, <2>3, NoneAssumption
    DEF VerdictCounts, RecheckStands, ContractSeen, Recording, Deciding, Settable
  <2>6. Calm'
    BY <1>1, <1>3, <2>2, <2>3 DEF Calm, Undisturbed, Deciding, RecordStands, Awaits
  <2> QED BY <2>4, <2>5, <2>6 DEF MInv
<1> QED BY <1>6, <1>7, <1>8

\* It is taken back.
LEMMA WriteRestoredStep ==
  ASSUME MInv, WriteRestored
  PROVE  MInv'
<1> DEFINE b == Recorded(guardian.meta.body, guardian.previous)
<1>1. /\ change \in PullRequests /\ guardian \in Runs /\ proposal' = proposal /\ saved' = saved
      /\ guardian.at = "restoring" /\ guardian.began \in Beginnings /\ guardian.previous \in {"yes", "no"}
      /\ guardian.meta \in Looks /\ Settable(guardian.meta.body)
      /\ guardian.meta.body.check.beforeMerge # guardian.previous
      /\ change' = [change EXCEPT !.body = b] /\ guardian' = Ended(guardian, "refused")
  BY DEF WriteRestored, MInv, MergeTypes, Rooted, RecheckStands, Runs
<1>2. b \in Bodies
  BY <1>1, SettableHasCheck, RecordedIsBody DEF Looks
<1>3. /\ change' \in PullRequests /\ change'.body = b /\ change'.head = change.head /\ change'.edits = change.edits
      /\ change'.pushed = change.pushed /\ change'.merged = change.merged
  BY <1>1, <1>2, WrittenIsPullRequest
<1>4. MergeTypes' /\ Rooted'
  BY <1>1, <1>3, EndedIsRun DEF MInv, MergeTypes, Rooted
<1>5. ASSUME Undisturbed PROVE b = guardian.began.body
  <2>1. guardian.meta.body = change.body
    BY <1>1, <1>5 DEF MInv, Calm
  <2>2. guardian.previous = "no" /\ RecordStands
    BY <1>1, <1>5, <2>1 DEF MInv, Calm, Awaits
  <2>3. guardian.began.body \in Bodies
    BY <1>1 DEF Beginnings
  <2> QED BY <2>1, <2>2, <2>3, RecordedTwice DEF RecordStands
<1>6. guardian.began.edits = change'.edits => change'.body = guardian.began.body
  BY <1>3, <1>5 DEF Undisturbed
<1> QED BY <1>1, <1>4, <1>6, EndedStep
\* The second verdict counts for the pull request as it is now.
LEMMA CompareStep ==
  ASSUME MInv, Compare
  PROVE  MInv'
<1>1. /\ change \in PullRequests /\ guardian \in Runs /\ proposal' = proposal /\ change' = change /\ saved' = saved
      /\ guardian.at = "compare" /\ guardian.verdict \in Verdicts /\ guardian.verdict = saved /\ guardian.previous # None
      /\ guardian.began \in Beginnings /\ guardian.confirmed
  BY NoneAssumption DEF Compare, MInv, MergeTypes, Rooted, VerdictCounts, RecheckStands
<1>2. CASE guardian' = Refuse
  BY <1>1, <1>2, RefuseStep DEF MInv, MergeTypes, Rooted
<1>3. CASE Same(Look, guardian.verdict) /\ guardian' = [guardian EXCEPT !.at = "artifacts", !.current = Look]
  <2>1. Look \in Looks /\ Look.head = change.head /\ Look.body = change.body
    BY <1>1, LookIsLook
  <2>2. /\ guardian' \in Runs /\ guardian'.at = "artifacts" /\ guardian'.verdict = guardian.verdict
        /\ guardian'.current = Look /\ guardian'.previous = guardian.previous /\ guardian'.began = guardian.began
        /\ guardian'.confirmed = guardian.confirmed
    BY <1>1, <1>3, <2>1 DEF Runs, Points
  <2>3. MergeTypes' /\ Rooted'
    BY <1>1, <2>2 DEF MInv, MergeTypes, Rooted
  <2>4. VerdictCounts'
    BY <1>1, <1>3, <2>1, <2>2 DEF MInv, VerdictCounts, Recording, Deciding, Same
  <2>5. RecheckStands' /\ ContractSeen'
    BY <1>1, <2>2 DEF RecheckStands, ContractSeen, Recording, Deciding
  <2>6. Calm'
    BY <1>1, <2>1, <2>2 DEF MInv, Calm, Undisturbed, Deciding, Same, RecordStands, Awaits
  <2> QED BY <2>3, <2>4, <2>5, <2>6 DEF MInv
<1> QED BY <1>2, <1>3 DEF Compare

\* A step of a run that decides, and looks at nothing that was decided before.
LEMMA OnwardStep ==
  ASSUME MInv, proposal' = proposal, change' = change, saved' = saved,
         guardian.at \in {"artifacts", "integrate", "latest", "checks"},
         guardian' \in Runs, guardian'.at \in {"integrate", "latest", "checks", "merge"},
         guardian'.verdict = guardian.verdict, guardian'.previous = guardian.previous,
         guardian'.began = guardian.began, guardian'.confirmed = guardian.confirmed,
         guardian'.current \in Looks, Same(guardian'.current, guardian.current),
         guardian'.at \in {"latest", "checks", "merge"} =>
           guardian'.seen \in Sightings /\ MergeContractFits(guardian'.current.body.check, guardian'.seen.issue),
         guardian'.at = "merge" => guardian'.seen.checked = change.head
  PROVE  MInv'
<1>1. MergeTypes' /\ Rooted'
  BY DEF MInv, MergeTypes, Rooted
<1>2. VerdictCounts'
  BY DEF MInv, VerdictCounts, Recording, Deciding, Same
<1>3. RecheckStands'
  BY DEF MInv, RecheckStands, Recording, Deciding, Same
<1>4. ContractSeen'
  BY DEF ContractSeen
<1>5. Calm'
  BY DEF MInv, Calm, Undisturbed, Deciding, Same, RecordStands, Awaits
<1> QED BY <1>1, <1>2, <1>3, <1>4, <1>5 DEF MInv

LEMMA CheckArtifactsStep ==
  ASSUME MInv, CheckArtifacts
  PROVE  MInv'
<1>1. /\ change \in PullRequests /\ guardian \in Runs /\ proposal' = proposal /\ change' = change /\ saved' = saved
      /\ guardian.at = "artifacts" /\ guardian.current \in Looks
  BY DEF CheckArtifacts, MInv, MergeTypes, Rooted, VerdictCounts, Deciding
<1>2. CASE guardian' = Refuse
  BY <1>1, <1>2, RefuseStep DEF MInv, MergeTypes, Rooted
<1>3. CASE guardian' = [guardian EXCEPT !.at = "integrate"]
  <2>1. /\ guardian' \in Runs /\ guardian'.at = "integrate" /\ guardian'.verdict = guardian.verdict
        /\ guardian'.current = guardian.current /\ guardian'.previous = guardian.previous
        /\ guardian'.began = guardian.began /\ guardian'.confirmed = guardian.confirmed
    BY <1>1, <1>3 DEF Runs, Points
  <2> QED BY <1>1, <2>1, OnwardStep DEF Same
<1> QED BY <1>2, <1>3 DEF CheckArtifacts

LEMMA IntegrateStep ==
  ASSUME MInv, Integrate
  PROVE  MInv'
<1>1. /\ change \in PullRequests /\ guardian \in Runs /\ proposal' = proposal /\ change' = change /\ saved' = saved
      /\ guardian.at = "integrate" /\ guardian.current \in Looks
  BY DEF Integrate, MInv, MergeTypes, Rooted, VerdictCounts, Deciding
<1>2. CASE guardian' = Refuse
  BY <1>1, <1>2, RefuseStep DEF MInv, MergeTypes, Rooted
<1>3. ASSUME NEW issue \in IssueReplies, MergeContractFits(guardian.current.body.check, issue),
             guardian' = [guardian EXCEPT !.at = "latest", !.seen = [issue |-> issue, checked |-> None]]
      PROVE  MInv'
  <2>1. [issue |-> issue, checked |-> None] \in Sightings
    BY DEF Sightings
  <2>2. /\ guardian' \in Runs /\ guardian'.at = "latest" /\ guardian'.verdict = guardian.verdict
        /\ guardian'.seen = [issue |-> issue, checked |-> None]
        /\ guardian'.current = guardian.current /\ guardian'.previous = guardian.previous
        /\ guardian'.began = guardian.began /\ guardian'.confirmed = guardian.confirmed
    BY <1>1, <1>3, <2>1 DEF Runs, Points
  <2>3. guardian'.seen \in Sightings /\ MergeContractFits(guardian'.current.body.check, guardian'.seen.issue)
    BY <1>3, <2>1, <2>2
  <2> QED BY <1>1, <2>2, <2>3, OnwardStep DEF Same
<1> QED BY <1>2, <1>3 DEF Integrate

LEMMA LookAgainStep ==
  ASSUME MInv, LookAgain
  PROVE  MInv'
<1>1. /\ change \in PullRequests /\ guardian \in Runs /\ proposal' = proposal /\ change' = change /\ saved' = saved
      /\ guardian.at = "latest" /\ guardian.current \in Looks
  BY DEF LookAgain, MInv, MergeTypes, Rooted, VerdictCounts, Deciding
<1>2. CASE guardian' = Refuse
  BY <1>1, <1>2, RefuseStep DEF MInv, MergeTypes, Rooted
<1>3. CASE Same(Look, guardian.current) /\ guardian' = [guardian EXCEPT !.at = "checks", !.current = Look]
  <2>1. Look \in Looks
    BY <1>1, LookIsLook
  <2>2. /\ guardian' \in Runs /\ guardian'.at = "checks" /\ guardian'.verdict = guardian.verdict
        /\ guardian'.current = Look /\ guardian'.previous = guardian.previous
        /\ guardian'.began = guardian.began /\ guardian'.confirmed = guardian.confirmed /\ guardian'.seen = guardian.seen
    BY <1>1, <1>3, <2>1 DEF Runs, Points
  <2>3. guardian'.seen \in Sightings /\ MergeContractFits(guardian'.current.body.check, guardian'.seen.issue)
    BY <1>1, <1>3, <2>2 DEF MInv, ContractSeen, Same
  <2> QED BY <1>1, <1>3, <2>1, <2>2, <2>3, OnwardStep
<1> QED BY <1>2, <1>3 DEF LookAgain

LEMMA ReadChecksStep ==
  ASSUME MInv, ReadChecks
  PROVE  MInv'
<1>1. /\ change \in PullRequests /\ guardian \in Runs /\ proposal' = proposal /\ change' = change /\ saved' = saved
      /\ guardian.at = "checks" /\ guardian.current \in Looks
      /\ guardian.seen \in Sightings /\ MergeContractFits(guardian.current.body.check, guardian.seen.issue)
  BY DEF ReadChecks, MInv, MergeTypes, Rooted, VerdictCounts, Deciding, ContractSeen
<1>2. CASE guardian' = Refuse
  BY <1>1, <1>2, RefuseStep DEF MInv, MergeTypes, Rooted
<1>3. CASE guardian' = [guardian EXCEPT !.at = "merge", !.seen.checked = change.head]
  <2> DEFINE seen == [guardian.seen EXCEPT !.checked = change.head]
  <2>1. seen \in Sightings /\ seen.issue = guardian.seen.issue /\ seen.checked = change.head
    BY <1>1 DEF Sightings, PullRequests
  <2>2. guardian' = [guardian EXCEPT !.at = "merge", !.seen = seen]
    BY <1>1, <1>3 DEF Runs
  <2> HIDE DEF seen
  <2>3. /\ guardian' \in Runs /\ guardian'.at = "merge" /\ guardian'.verdict = guardian.verdict
        /\ guardian'.current = guardian.current /\ guardian'.previous = guardian.previous
        /\ guardian'.began = guardian.began /\ guardian'.confirmed = guardian.confirmed /\ guardian'.seen = seen
    BY <1>1, <2>1, <2>2 DEF Runs, Points
  <2> QED BY <1>1, <2>1, <2>3, OnwardStep DEF Same
<1> QED BY <1>2, <1>3 DEF ReadChecks

LEMMA MergePrStep ==
  ASSUME MInv, MergePr
  PROVE  MInv'
<1>1. /\ change \in PullRequests /\ guardian \in Runs /\ proposal' = proposal /\ saved' = saved
      /\ guardian.at = "merge" /\ guardian.current \in Looks
  BY DEF MergePr, MInv, MergeTypes, Rooted, VerdictCounts, Deciding
<1>2. CASE guardian' = Refuse /\ change' = change
  BY <1>1, <1>2, RefuseStep DEF MInv, MergeTypes, Rooted
<1>3. CASE /\ change' = [change EXCEPT !.merged = TRUE] /\ guardian' = [guardian EXCEPT !.at = "merged"]
           /\ change.head = guardian.current.head
  <2>1. /\ change' \in PullRequests /\ change'.merged /\ change'.body = change.body /\ change'.head = change.head
        /\ change'.edits = change.edits /\ change'.pushed = change.pushed
    BY <1>1, <1>3 DEF PullRequests
  <2>2. /\ guardian' \in Runs /\ guardian'.at = "merged" /\ guardian'.verdict = guardian.verdict
        /\ guardian'.current = guardian.current /\ guardian'.previous = guardian.previous
        /\ guardian'.began = guardian.began /\ guardian'.confirmed = guardian.confirmed /\ guardian'.seen = guardian.seen
    BY <1>1, <1>3 DEF Runs, Points
  <2>3. MergeTypes' /\ Rooted'
    BY <1>1, <1>3, <2>1, <2>2 DEF MInv, MergeTypes, Rooted
  <2>4. VerdictCounts'
    BY <1>1, <2>2 DEF MInv, VerdictCounts, Recording, Deciding
  <2>5. RecheckStands' /\ ContractSeen'
    BY <1>1, <2>2 DEF MInv, RecheckStands, ContractSeen, Recording, Deciding
  <2>6. Calm'
    BY <1>1, <2>1, <2>2 DEF MInv, Calm, Undisturbed, Deciding, Same, RecordStands, Awaits
  <2> QED BY <2>3, <2>4, <2>5, <2>6 DEF MInv
<1> QED BY <1>2, <1>3 DEF MergePr

\* Whoever is killed leaves the description as it was, or with the recheck on record.
LEMMA DieStep ==
  ASSUME MInv, Die
  PROVE  MInv'
<1>1. /\ change \in PullRequests /\ guardian \in Runs /\ proposal' = proposal /\ change' = change /\ saved' = saved
      /\ guardian.began \in Beginnings /\ guardian.at \notin {"off", "merged", "refused", "died"}
      /\ guardian' = Ended(guardian, "died")
  BY DEF Die, Ends, MInv, MergeTypes, Rooted
<1>2. MergeTypes' /\ Rooted'
  BY <1>1, EndedIsRun DEF MInv, MergeTypes, Rooted
<1>3. Undisturbed => \/ change.body = guardian.began.body
                     \/ change.body = Recorded(guardian.began.body, "yes")
  BY <1>1 DEF MInv, Calm, RecordStands
<1>4. guardian.began.edits = change'.edits =>
        change'.body = guardian.began.body \/ change'.body = Recorded(guardian.began.body, "yes")
  BY <1>1, <1>3 DEF Undisturbed
<1> QED BY <1>1, <1>2, <1>4, EndedStep

-----------------------------------------------------------------------------
(* Opening a pull request *)

\* The plan of an item is one of the tree's, and says what it is asked for.
LEMMA PlanIsFound ==
  ASSUME NEW tree, NEW context, PlanFor(tree, context) # None
  PROVE  /\ PlanFor(tree, context) \in tree.plans
         /\ PlanFor(tree, context).type = context.type /\ PlanFor(tree, context).item = context.item
<1> DEFINE own == {plan \in tree.plans : plan.file = context.item}
           further == {plan \in tree.plans : plan.file # context.item /\ plan.item = context.item}
           matches == {plan \in own \cup further : Eligible(plan)}
<1>1. PlanFor(tree, context) = LoadItem(tree, context.item) /\ LoadItem(tree, context.item) # None
  BY DEF PlanFor
<1>2. Cardinality(matches) = 1 /\ LoadItem(tree, context.item) = CHOOSE plan \in matches : TRUE
  BY <1>1 DEF LoadItem
<1>3. matches # {}
  BY <1>2, FS_EmptySet
<1>4. LoadItem(tree, context.item) \in tree.plans
  BY <1>2, <1>3
<1>5. PlanFor(tree, context).type = context.type /\ PlanFor(tree, context).item = context.item
  BY DEF PlanFor
<1> QED BY <1>1, <1>4, <1>5

\* The description that the script makes is one.
LEMMA DescriptionIsBody ==
  ASSUME NEW x \in Proposals, Opens(x, TreeAt[x.head])
  PROVE  /\ OwnCheck(x) \in CheckPayloads /\ Description(x, TreeAt[x.head]) \in Bodies
         /\ Description(x, TreeAt[x.head]).artifacts \in [ArtifactFields -> SUBSET Locators]
<1> DEFINE tree == TreeAt[x.head]
           plan == PlanFor(tree, x.context)
           ref == CanonicalRef(x.check.ref, x.issue, x.live)
           artifacts == [plan |-> {<<"plan", plan.file>>}, governing |-> GoverningLabel(tree, plan),
                         review |-> RubricsFor(x), evidence |-> {<<"command", "governance_gate">>}]
<1>1. x.head \in Commits /\ x.check \in CheckPayloads /\ x.issue.fields \in [IssueFields -> Words] \cup {None}
  BY ProposalAssumption
<1>2. plan \in Plans
  <2>1. plan # None
    BY DEF Opens, PreflightFits, ItemFits
  <2>2. plan \in tree.plans
    BY <2>1, PlanIsFound
  <2> QED BY <1>1, <2>2 DEF Plans
<1>3. ref \in Words
  <2>1. x.check.ref \in Words
    BY <1>1 DEF CheckPayloads, PrFields, IssueFields
  <2>2. IssueContract(x.issue) # None => IssueContract(x.issue).ref \in Words
    BY <1>1 DEF IssueContract, IssueFields
  <2> QED BY <2>1, <2>2 DEF CanonicalRef
<1>4. OwnCheck(x) \in CheckPayloads
  <2> HIDE DEF ref
  <2>1. [x.check EXCEPT !.ref = ref] \in CheckPayloads
    BY <1>1, <1>3 DEF CheckPayloads
  <2> QED BY <2>1 DEF OwnCheck, ref
<1>5. GoverningLabel(tree, plan) \subseteq Locators
  <2> HIDE DEF plan, tree
  <2>1. SpecDir(plan.spec) # None => <<"suite", SpecDir(plan.spec)>> \in Locators
    BY <1>2 DEF Locators
  <2>2. {<<"suite", s>> : s \in AdditionalDirs(plan)} \subseteq Locators
    BY <1>2 DEF Locators
  <2>3. <<"decision", plan.decision.file>> \in Locators
    BY <1>2 DEF Locators
  <2>4. <<"suite", <<"docs", plan.item>>>> \in Locators
    BY <1>2 DEF Locators
  <2>5. CASE InputMode(plan) = "formal_spec"
    BY <2>1, <2>2, <2>3, <2>5 DEF GoverningLabel
  <2>6. CASE InputMode(plan) = "bootstrap"
    BY <2>3, <2>6 DEF GoverningLabel
  <2>7. CASE InputMode(plan) \notin {"formal_spec", "bootstrap"}
    BY <2>4, <2>7 DEF GoverningLabel
  <2> QED BY <2>5, <2>6, <2>7
<1>6. RubricsFor(x) \subseteq Locators /\ {<<"command", "governance_gate">>} \subseteq Locators
  BY DEF RubricsFor, Locators
<1>7. {<<"plan", plan.file>>} \subseteq Locators
  BY <1>2 DEF Locators
<1>8. artifacts \in [ArtifactFields -> SUBSET Locators] /\ artifacts \in Artifacts
  BY <1>5, <1>6, <1>7 DEF Artifacts, ArtifactFields
<1>9. Description(x, tree) = [text |-> 1, context |-> x.context, check |-> OwnCheck(x), template |-> "new",
                              created |-> "after", executed |-> FALSE, artifacts |-> artifacts]
  BY DEF Description
<1> HIDE DEF artifacts, tree
<1>10. Description(x, tree) \in Bodies
  BY <1>4, <1>8, <1>9 DEF Bodies
<1> QED BY <1>4, <1>8, <1>9, <1>10 DEF tree

\* Before there is a pull request the guardian has nothing to do.
LEMMA NothingYet ==
  ASSUME MInv, change = None
  PROVE  guardian.at = "off" /\ saved = None /\ guardian.verdict = None
<1>1. guardian.at = "off" /\ saved = None
  BY NoneAssumption DEF MInv, MergeTypes, Rooted
<1>2. guardian.verdict = None
  BY <1>1 DEF MInv, VerdictCounts
<1> QED BY <1>1, <1>2

LEMMA OpenedIsPullRequest ==
  ASSUME NEW h \in Commits, NEW b \in Bodies, NEW d \in BOOLEAN
  PROVE  Opened(h, b, d) \in PullRequests /\ Opened(h, b, d).head = h /\ Opened(h, b, d).pushed = {h}
  BY DEF Opened, PullRequests

\* A pull request is proposed or opened.
LEMMA OpeningStep ==
  ASSUME MInv, Propose \/ OpenByHand \/ OpenPr
  PROVE  MInv'
<1>1. change = None /\ guardian' = guardian
  BY DEF Propose, OpenByHand, OpenPr
<1>2. guardian.at = "off" /\ saved = None /\ guardian.verdict = None
  BY <1>1, NothingYet
<1>3. /\ proposal' \in Proposals \cup {None} /\ change' \in PullRequests \cup {None}
      /\ saved' \in Verdicts \cup {None}
      /\ change' \in PullRequests => change'.head \in change'.pushed
      /\ saved' \in Verdicts => change' \in PullRequests /\ saved'.tree \in change'.pushed
  <2>1. CASE Propose
    BY <1>1, <1>2, <2>1, NoneAssumption DEF Propose
  <2>2. CASE OpenByHand
    <3>1. PICK x \in HandOpened :
            /\ change' = Opened(x.head, x.body, FALSE)
            /\ saved' \in {None, [schema |-> 1, head |-> x.head, body |-> None, tree |-> x.head, approve |-> TRUE, safe |-> TRUE]}
      BY <2>2 DEF OpenByHand
    <3>2. x.head \in Commits /\ x.body \in Bodies
      BY BranchAssumption
    <3>3. change' \in PullRequests /\ change'.head = x.head /\ change'.pushed = {x.head}
      BY <3>1, <3>2, OpenedIsPullRequest
    <3>4. saved' \in Verdicts \cup {None} /\ (saved' \in Verdicts => saved'.tree = x.head)
      <4>1. CASE saved' = None
        BY <4>1, NoneAssumption
      <4>2. CASE saved' = [schema |-> 1, head |-> x.head, body |-> None, tree |-> x.head, approve |-> TRUE, safe |-> TRUE]
        BY <3>2, <4>2 DEF Verdicts
      <4> QED BY <3>1, <4>1, <4>2
    <3>5. proposal' = proposal
      BY <2>2 DEF OpenByHand
    <3> QED BY <3>3, <3>4, <3>5 DEF MInv, MergeTypes
  <2>3. CASE OpenPr
    <3> DEFINE b == Description(proposal, TreeAt[proposal.head])
    <3>1. proposal \in Proposals /\ Opens(proposal, TreeAt[proposal.head])
      BY <2>3 DEF OpenPr, MInv, MergeTypes
    <3>2. b \in Bodies /\ proposal.head \in Commits /\ proposal.draft \in BOOLEAN
      BY <3>1, DescriptionIsBody, ProposalAssumption
    <3>3. change' = Opened(proposal.head, b, proposal.draft) /\ proposal' = None /\ saved' = saved
      BY <2>3 DEF OpenPr
    <3> HIDE DEF b
    <3>4. change' \in PullRequests /\ change'.head = proposal.head /\ change'.pushed = {proposal.head}
      BY <3>2, <3>3, OpenedIsPullRequest
    <3> QED BY <1>2, <3>3, <3>4, NoneAssumption
  <2> QED BY <2>1, <2>2, <2>3
<1>4. MergeTypes' /\ Rooted'
  BY <1>1, <1>2, <1>3 DEF MInv, MergeTypes, Rooted
<1>5. VerdictCounts' /\ RecheckStands' /\ ContractSeen' /\ Calm'
  BY <1>1, <1>2 DEF MInv, VerdictCounts, RecheckStands, ContractSeen, Calm, Recording, Deciding
<1> QED BY <1>4, <1>5 DEF MInv

-----------------------------------------------------------------------------
(* The invariant holds *)

LEMMA MergeInitially ==
  ASSUME MergeInit
  PROVE  MInv
<1>1. guardian = [at |-> "off", runs |-> 0, confirmed |-> FALSE, current |-> None, meta |-> None, verdict |-> None,
                  previous |-> None, seen |-> None, began |-> None]
  BY DEF MergeInit, NotRunning
<1>2. guardian \in Runs
  BY <1>1 DEF Runs, Points
<1>3. MergeTypes /\ Rooted
  BY <1>1, <1>2, NoneAssumption DEF MergeInit, MergeTypes, Rooted
<1>4. VerdictCounts /\ RecheckStands /\ ContractSeen /\ Calm
  BY <1>1 DEF VerdictCounts, RecheckStands, ContractSeen, Calm, Recording, Deciding
<1> QED BY <1>3, <1>4 DEF MInv

LEMMA MergeNextStep ==
  ASSUME MInv, MergeNext
  PROVE  MInv'
  BY OpeningStep, AuthorStep, StartStep, ReadForReviewStep, ExamineStep, DecideMergeStep, RecordStep, WriteRecordStep,
     ConfirmStep, UndoStep, RestoreStep, WriteRestoredStep, CompareStep, CheckArtifactsStep, IntegrateStep, LookAgainStep,
     ReadChecksStep, MergePrStep, DieStep
  DEF MergeNext

\* A pull request, the verdict on it and the run of the guardian are what they are supposed to
\* be at every point of merge_if_safe, whatever the author does in the meantime.
THEOREM MergeInvariance == Spec => []MInv
<1>1. Init => MInv
  BY MergeInitially DEF Init
<1>2. MInv /\ [Next]_vars => MInv'
  <2> SUFFICES ASSUME MInv, [Next]_vars PROVE MInv'
    OBVIOUS
  <2>1. MergeNext \/ UNCHANGED merging
    <3>1. CASE UNCHANGED vars
      BY <3>1 DEF vars
    <3>2. CASE Contribute
      BY <3>2 DEF Contribute
    <3>3. ASSUME Next, ~Contribute PROVE UNCHANGED merging
      <4>1. CASE (\E i \in Inputs : DecideOn(i)) \/ (\E others \in Registries : RegisterDecided(others) \/ RegisterOthers(others))
        BY <4>1 DEF DecideOn, RegisterDecided, RegisterOthers
      <4>2. CASE (\E r \in Requests : SubmitRequest(r)) \/ Execute \/ Read \/ Fetch
        BY <4>2 DEF SubmitRequest, Execute, Read, Fetch
      <4>3. CASE Undertake \/ Try \/ Govern
        BY <4>3 DEF Undertake, Try, Govern
      <4>4. CASE \E x \in Rehearsals : Rehearse(x)
        BY <4>4 DEF Rehearse
      <4>5. CASE \E s \in Sources : Alter(s)
        BY <4>5 DEF Alter
      <4>6. CASE \E a \in GateArguments : DecideRelease(a)
        BY <4>6 DEF DecideRelease
      <4>7. CASE \E revision \in Revisions, mentions \in SUBSET Revisions : RunCases(revision, mentions)
        BY <4>7 DEF RunCases
      <4>8. CASE \E c \in Certifications, own \in BOOLEAN : Certify(c, own)
        BY <4>8 DEF Certify
      <4> QED BY <3>3, <4>1, <4>2, <4>3, <4>4, <4>5, <4>6, <4>7, <4>8 DEF Next
    <3> QED BY <3>1, <3>2, <3>3
  <2>2. CASE MergeNext
    BY <2>2, MergeNextStep
  <2>3. CASE UNCHANGED merging
    BY <2>3 DEF merging, MInv, MergeTypes, Rooted, VerdictCounts, RecheckStands, ContractSeen, Calm, RecordStands,
                Undisturbed, Settable, Gated, Awaits, Same
  <2> QED BY <2>1, <2>2, <2>3
<1> QED BY <1>1, <1>2, PTL DEF Spec

-----------------------------------------------------------------------------
(* What it says of a merge *)

\* What is merged was reviewed, and found safe, and checked.
LEMMA MergedAsReviewed ==
  ASSUME MInv, guardian.at = "merged"
  PROVE  LET seen == guardian.current
             check == seen.body.check
         IN /\ saved.approve /\ saved.safe /\ change.head = saved.head /\ seen.body = saved.body
            /\ change.pushed = {change.head} => saved.tree = change.head
            /\ Undisturbed => change.body = seen.body /\ guardian.seen.checked = change.head
            /\ IF check = None THEN IssueContract(guardian.seen.issue) = None
               ELSE /\ RequiresGate(check) => guardian.confirmed /\ Gated(check) /\ check.beforeMerge = "yes"
                    /\ Agrees(check, IssueContract(guardian.seen.issue))
<1> DEFINE seen == guardian.current
           check == seen.body.check
<1>1. guardian.verdict = saved /\ saved \in Verdicts /\ saved.approve /\ saved.safe /\ Same(seen, saved)
  BY NoneAssumption DEF MInv, VerdictCounts, Deciding
<1>2. change.head = seen.head /\ saved.tree \in change.pushed
  BY <1>1 DEF MInv, Rooted
<1>3. Undisturbed => Same(change, seen) /\ guardian.seen.checked = change.head
  BY DEF MInv, Calm, Deciding
<1>4. MergeContractFits(check, guardian.seen.issue)
  BY DEF MInv, ContractSeen
<1>5. Gated(check) => guardian.confirmed
  BY DEF MInv, RecheckStands, Deciding
<1>6. ASSUME check # None
      PROVE  /\ RequiresGate(check) => guardian.confirmed /\ Gated(check) /\ check.beforeMerge = "yes"
             /\ Agrees(check, IssueContract(guardian.seen.issue))
  <2>1. MergePayloadFits(check, IssueContract(guardian.seen.issue))
    BY <1>4, <1>6 DEF MergeContractFits
  <2> QED BY <1>5, <2>1 DEF MergePayloadFits, Coherent
<1>7. check = None => IssueContract(guardian.seen.issue) = None
  BY <1>4 DEF MergeContractFits
<1>8. change.pushed = {change.head} => saved.tree = change.head
  BY <1>2
<1>9. Undisturbed => change.body = seen.body /\ guardian.seen.checked = change.head
  BY <1>3 DEF Same
<1>10. change.head = saved.head /\ seen.body = saved.body
  BY <1>1, <1>2 DEF Same
<1> HIDE DEF check, seen
<1>11. IF check = None THEN IssueContract(guardian.seen.issue) = None
       ELSE /\ RequiresGate(check) => guardian.confirmed /\ Gated(check) /\ check.beforeMerge = "yes"
            /\ Agrees(check, IssueContract(guardian.seen.issue))
  BY <1>6, <1>7
<1> QED BY <1>1, <1>8, <1>9, <1>10, <1>11 DEF check, seen

\* A guardian that does not merge leaves nothing behind, unless it is killed.
LEMMA LeavesNothingBehind ==
  ASSUME MInv
  PROVE  NothingLeftBehind
<1> SUFFICES ASSUME guardian.at \in {"refused", "died"}, Undisturbed
             PROVE  \/ change.body = guardian.began.body
                    \/ guardian.at = "died" /\ change.body = Recorded(guardian.began.body, "yes")
  BY DEF NothingLeftBehind
<1>1. CASE guardian.at = "died"
  BY <1>1 DEF MInv, Calm
<1>2. CASE guardian.at = "refused"
  BY <1>2, NoneAssumption DEF MInv, RecheckStands, Calm
<1> QED BY <1>1, <1>2

-----------------------------------------------------------------------------
(* What the script opens, the guardian can review *)

\* Once the recheck is on record, the payload of a pull request that may be opened may be merged.
LEMMA OpenedMayBeMerged ==
  ASSUME NEW x \in Proposals, Opens(x, TreeAt[x.head])
  PROVE  MergePayloadFits(Recorded(Description(x, TreeAt[x.head]), "yes").check, IssueContract(x.issue))
<1> DEFINE c == OwnCheck(x)
           r == [c EXCEPT !.beforeMerge = "yes"]
           canonical == IssueContract(x.issue)
           body == Description(x, TreeAt[x.head])
<1>1. c \in [PrFields -> Words] /\ body \in Bodies
  BY DescriptionIsBody DEF CheckPayloads
<1>2. body.check = c
  BY DEF Description
<1>3. Recorded(body, "yes").check = r
  <2> HIDE DEF body, c
  <2> QED BY <1>1, <1>2 DEF Recorded, Bodies
<1>4. OpenPrFits(c, canonical)
  BY DEF Opens, ContractFits
<1> HIDE DEF c
<1>5. r.beforeMerge = "yes" /\ \A f \in PrFields \ {"beforeMerge"} : r[f] = c[f]
  BY <1>1 DEF PrFields, IssueFields
<1>6. c # None /\ r # None
  <2>1. r \in [PrFields -> Words]
    <3>1. "yes" \in Words
      BY DEF Words, FieldChoices
    <3> QED BY <1>1, <3>1
  <2> QED BY <1>1, <2>1, NoneAssumption DEF CheckPayloads
<1> HIDE DEF r
<1>7. EnumsFit(r, PrFields)
  BY <1>4, <1>5 DEF OpenPrFits, EnumsFit, FieldChoices
<1>8. Coherent(r) /\ Gated(r) = Gated(c)
  <2>1. /\ r.touchpoint = c.touchpoint /\ r.shared = c.shared /\ r.ref = c.ref /\ r.dependency = c.dependency
        /\ r.gate = c.gate /\ r.surface = c.surface /\ r.joint = c.joint
    BY <1>5 DEF PrFields, IssueFields
  <2> QED BY <1>4, <1>6, <2>1 DEF OpenPrFits, Coherent, RequiresGate, Gated
<1>9. Complete(r, PrFields)
  <2>1. ASSUME NEW f \in PrFields \ {"ref"} PROVE r[f] # ""
    <3>1. r[f] \in FieldChoices[f]
      BY <1>7 DEF EnumsFit
    <3>2. f \in {"touchpoint", "shared", "dependency", "gate", "surface", "joint", "beforePr", "beforeMerge"}
      BY DEF PrFields, IssueFields
    <3>3. /\ "" \notin FieldChoices["touchpoint"] /\ "" \notin FieldChoices["shared"] /\ "" \notin FieldChoices["dependency"]
          /\ "" \notin FieldChoices["gate"] /\ "" \notin FieldChoices["surface"] /\ "" \notin FieldChoices["joint"]
          /\ "" \notin FieldChoices["beforePr"] /\ "" \notin FieldChoices["beforeMerge"]
      BY DEF FieldChoices
    <3> QED BY <3>1, <3>2, <3>3
  <2>2. r.ref # ""
    BY <1>8 DEF Coherent, Checkable, NormalRef
  <2> QED BY <2>1, <2>2 DEF Complete
<1>10. Agrees(r, canonical)
  BY <1>4, <1>5 DEF OpenPrFits, Agrees, PrFields, IssueFields
<1>11. Gated(r) => r.beforePr = "yes" /\ r.beforeMerge = "yes"
  BY <1>4, <1>5, <1>8 DEF OpenPrFits, PrFields
<1>12. r.gate \in FieldChoices.gate
  BY <1>7 DEF EnumsFit, PrFields, IssueFields
<1> QED BY <1>3, <1>7, <1>8, <1>9, <1>10, <1>11, <1>12 DEF MergePayloadFits

\* The description that the script makes fits, if what governs the plan is there and is what it says.
LEMMA DescriptionFits ==
  ASSUME NEW x \in Proposals, Opens(x, TreeAt[x.head]), x.class # "docs"
  PROVE  LET tree == TreeAt[x.head]
             plan == PlanFor(tree, x.context)
             label == GoverningLabel(tree, plan)
         IN ArtifactsFit(tree, Description(x, tree)) <=>
              label # {} /\ (\A l \in label : Exists(tree, l)) /\ GoverningOf(tree, plan) = label
<1> DEFINE tree == TreeAt[x.head]
           plan == PlanFor(tree, x.context)
           label == GoverningLabel(tree, plan)
           body == Description(x, tree)
<1>1. /\ body.artifacts = [plan |-> {<<"plan", plan.file>>}, governing |-> label,
                           review |-> RubricsFor(x), evidence |-> {<<"command", "governance_gate">>}]
      /\ body.context = x.context
  BY DEF Description
<1>2. body.artifacts # None /\ plan \in tree.plans /\ plan # None
  <2>1. plan # None
    BY DEF Opens, PreflightFits, ItemFits
  <2> QED BY <2>1, PlanIsFound, DescriptionIsBody, NoneAssumption
<1>3. \A l \in label : l[1] \in {"suite", "decision"} /\ Governing(l) = l
  BY DEF GoverningLabel, Governing
<1> HIDE DEF label, plan, body
<1>4. LocatorsFit(tree, {<<"plan", plan.file>>}, TRUE)
  BY <1>2 DEF LocatorsFit, InDirectory, Exists
<1>5. LocatorsFit(tree, RubricsFor(x), FALSE) /\ RubricsFor(x) \subseteq Rubrics
  <2>1. RubricsFor(x) \subseteq Rubrics /\ RubricsFor(x) # {}
    BY DEF RubricsFor, Rubrics
  <2>2. \A l \in Rubrics : l[1] = "file" /\ Exists(tree, l)
    BY TreeAssumption, ProposalAssumption DEF Rubrics
  <2> QED BY <2>1, <2>2 DEF LocatorsFit
<1>6. EvidenceFits(tree, body, {<<"command", "governance_gate">>})
  <2> DEFINE command == <<"command", "governance_gate">>
             kinds == {locator[1] : locator \in {command}}
             kept == {locator \in {command} : locator[1] \in InDirectory \cup {"file"}}
  <2>1. kinds = {"command"}
    OBVIOUS
  <2>2. kept = {}
    BY DEF InDirectory
  <2> HIDE DEF kinds, kept
  <2>3. /\ kinds \cap {"see section", "later"} = {} /\ "illegal" \notin kinds /\ "command" \in kinds
        /\ \A locator \in kept : Exists(tree, locator)
    BY <2>1, <2>2
  <2> QED BY <2>3 DEF EvidenceFits, kinds, kept
<1>7. LocatorsFit(tree, label, TRUE) <=> label # {} /\ \A l \in label : Exists(tree, l)
  BY <1>3 DEF LocatorsFit, InDirectory
<1>8. {Governing(l) : l \in label} = label
  BY <1>3
<1>9. label # {} => (ArtifactsBound(tree, body) <=> GoverningOf(tree, plan) = label)
  <2>1. PlanFor(tree, body.context) = plan
    BY <1>1 DEF plan
  <2>2. body.artifacts["plan"] = {<<"plan", plan.file>>} /\ body.artifacts["governing"] = label
    BY <1>1
  <2> HIDE DEF tree
  <2> QED BY <1>2, <1>8, <2>1, <2>2 DEF ArtifactsBound
<1>10. /\ ArtifactFields \subseteq DOMAIN body.artifacts
       /\ body.artifacts["plan"] = {<<"plan", plan.file>>} /\ body.artifacts["governing"] = label
       /\ body.artifacts["review"] = RubricsFor(x) /\ body.artifacts["evidence"] = {<<"command", "governance_gate">>}
  BY <1>1 DEF ArtifactFields
<1> HIDE DEF tree
<1>11. ArtifactsFit(tree, body) <=> label # {} /\ (\A l \in label : Exists(tree, l)) /\ GoverningOf(tree, plan) = label
  BY <1>2, <1>4, <1>5, <1>6, <1>7, <1>9, <1>10 DEF ArtifactsFit
<1> QED BY <1>11 DEF tree, plan, label, body

\* What a plan links to when a binding leads to a suite, is empty, or says anything else.
LEMMA LinkedKinds ==
  ASSUME NEW b, b.says = "path" => b.shape \in {"root", "file", "odd"}
  PROVE  /\ SpecDir(b) # None => {Governing(l) : l \in Linked(b)} = {<<"suite", SpecDir(b)>>}
         /\ b.says \in {"nothing", "placeholder"} <=> Linked(b) = {}
         /\ b.says = "n/a" => <<"path", "n/a">> \in {Governing(l) : l \in Linked(b)}
         /\ \A l \in Linked(b) : Governing(l)[1] \in {"suite", "path"}
<1>1. CASE b.says = "path" /\ b.shape = "file"
  BY <1>1 DEF Linked, Governing, SpecDir
<1>2. CASE b.says = "path" /\ b.shape = "root"
  BY <1>2 DEF Linked, Governing, SpecDir
<1>3. CASE b.says \in {"nothing", "placeholder"}
  BY <1>3 DEF Linked, Governing, SpecDir
<1>4. CASE b.says \notin {"nothing", "placeholder", "path"} \/ (b.says = "path" /\ b.shape = "odd")
  <2>1. Linked(b) = {<<"path", b.says>>}
    BY <1>4 DEF Linked
  <2>2. SpecDir(b) = None
    BY <1>4 DEF SpecDir
  <2> QED BY <1>4, <2>1, <2>2 DEF Governing
<1> QED BY <1>1, <1>2, <1>3, <1>4

\* A decision without a fault that matters is there.
LEMMA DecisionIsThere ==
  ASSUME NEW tree, NEW plan, "no path" \notin DecisionFaults(tree, plan), "no file" \notin DecisionFaults(tree, plan)
  PROVE  plan.decision.says = "path" /\ Exists(tree, <<"decision", plan.decision.file>>)
<1>1. plan.decision.says = "path" /\ {d \in tree.decisions : d.file = plan.decision.file} # {}
  BY DEF DecisionFaults
<1>2. \E d \in tree.decisions : d.file = plan.decision.file
  BY <1>1
<1> QED BY <1>1, <1>2 DEF Exists

\* A suite that is complete is there.
LEMMA SuiteIsThere ==
  ASSUME NEW tree, NEW suite, HasMinimum(tree, suite)
  PROVE  Exists(tree, <<"suite", suite>>)
  BY DEF HasMinimum, Exists

\* Which input a class of changes needs in each mode.
LEMMA ClassNeeds ==
  ASSUME NEW x \in Proposals, Opens(x, TreeAt[x.head]), x.class # "docs",
         NEW plan, plan = PlanFor(TreeAt[x.head], x.context)
  PROVE  /\ InputMode(plan) = "formal_spec" => FormalInput(TreeAt[x.head], plan, x.diff, TRUE)
         /\ InputMode(plan) = "bootstrap" => DecisionInput(TreeAt[x.head], plan)
         /\ InputMode(plan) = "unbound" => OwnSuite(TreeAt[x.head], plan, x.diff)
         /\ InputMode(plan) \in {"formal_spec", "bootstrap", "unbound"}
         /\ InputMode(plan) = "unbound" => plan.type # "GOV"
<1> DEFINE tree == TreeAt[x.head]
<1>1. ClassAllows(x, tree, plan) /\ plan.type = x.context.type /\ x.context.type \in ItemTypes
  BY PlanIsFound DEF Opens, PreflightFits, ItemFits
<1>2. x.class \in {"governance", "spec", "implementation"}
  BY ProposalAssumption DEF ClassCategories
<1>3. InputMode(plan) \in {"formal_spec", "bootstrap", "unbound"} /\ (InputMode(plan) = "unbound" => plan.type # "GOV")
  BY DEF InputMode
<1> HIDE DEF tree
<1>4. FormalInput(tree, plan, x.diff, FALSE) => FormalInput(tree, plan, x.diff, TRUE)
  BY DEF FormalInput
<1>5. FormalInput(tree, plan, x.diff, TRUE) => InputMode(plan) = "formal_spec"
  BY DEF FormalInput
<1>6. OwnSuite(tree, plan, x.diff) => InputMode(plan) = "unbound"
  BY DEF OwnSuite
<1>7. BootstrapInput(tree, plan) => InputMode(plan) = "bootstrap" /\ DecisionInput(tree, plan)
  BY DEF BootstrapInput
<1>8. CASE x.class \in {"spec", "governance"}
  <2>1. FormalInput(tree, plan, x.diff, TRUE) \/ BootstrapInput(tree, plan)
    BY <1>1, <1>4, <1>8 DEF ClassAllows
  <2> QED BY <2>1, <1>3, <1>5, <1>7 DEF tree
<1>9. CASE x.class = "implementation"
  <2>1. plan.type \in {"FR", "HOTFIX", "CHORE", "GOV"}
    BY <1>1 DEF ItemTypes
  <2>2. FormalInput(tree, plan, x.diff, TRUE) \/ OwnSuite(tree, plan, x.diff) \/ BootstrapInput(tree, plan)
    BY <1>1, <1>3, <1>9, <2>1 DEF ClassAllows
  <2> QED BY <2>2, <1>3, <1>5, <1>6, <1>7 DEF tree
<1> QED BY <1>2, <1>8, <1>9

Bindings(plan) == {plan.spec} \cup plan.additional
Links(plan) == (UNION {Linked(b) : b \in {plan.spec} \cup plan.additional}) \cup LinkedDecision(plan.decision)

\* OpenedIsReviewable's condition on a plan.
Legible(plan) ==
  /\ "n/a" \notin {b.says : b \in {plan.spec, plan.decision} \cup plan.additional}
  /\ InputMode(plan) = "unbound" => plan.decision.says \in {"nothing", "placeholder"}
  /\ InputMode(plan) # "formal_spec" => \A b \in plan.additional : \A l \in Linked(b) :
       InputMode(plan) = "unbound" /\ Governing(l) = <<"suite", <<"docs", plan.item>>>>

PlanFits(tree, plan) ==
  LET label == GoverningLabel(tree, plan)
  IN label # {} /\ (\A l \in label : Exists(tree, l)) /\ GoverningOf(tree, plan) = label

PlainBindings(plan) == \A b \in Bindings(plan) : b.says = "path" => b.shape \in {"root", "file", "odd"}

LEMMA InLinks ==
  ASSUME NEW plan, NEW l
  PROVE  l \in Links(plan) <=> l \in LinkedDecision(plan.decision) \/ \E b \in Bindings(plan) : l \in Linked(b)
<1>1. l \in UNION {Linked(b) : b \in {plan.spec} \cup plan.additional} <=> \E b \in Bindings(plan) : l \in Linked(b)
  BY DEF Bindings
<1>2. l \in Links(plan) <=> \/ l \in UNION {Linked(b) : b \in {plan.spec} \cup plan.additional}
                          \/ l \in LinkedDecision(plan.decision)
  BY DEF Links
<1> QED BY <1>1, <1>2

\* A plan that is bound to a specification is governed by that and what else it names.
LEMMA FormalFits ==
  ASSUME NEW tree, NEW plan, NEW diff, PlainBindings(plan),
         InputMode(plan) = "formal_spec", FormalInput(tree, plan, diff, TRUE)
  PROVE  Legible(plan) <=> PlanFits(tree, plan)
<1> DEFINE S == <<"suite", SpecDir(plan.spec)>>
           D == <<"decision", plan.decision.file>>
           label == GoverningLabel(tree, plan)
           governing == GoverningOf(tree, plan)
<1>1. SpecDir(plan.spec) # None /\ HasMinimum(tree, SpecDir(plan.spec)) /\ AdditionalBound(tree, plan)
  BY DEF FormalInput, SpecBound, SpecDir
<1>2. \A b \in Declared(plan) : SpecDir(b) # None /\ SpecDir(b) = b.suite /\ HasMinimum(tree, b.suite)
  BY <1>1 DEF AdditionalBound, SpecBound, SpecDir
<1>3. plan.decision.says # "nothing" => plan.decision.says = "path" /\ Exists(tree, D)
  <2>1. SUFFICES ASSUME plan.decision.says # "nothing" PROVE plan.decision.says = "path" /\ Exists(tree, D)
    OBVIOUS
  <2>2. DecisionFaults(tree, plan) = {} \/ DecisionFaults(tree, plan) \subseteq {"no issue", "no item"}
    BY <2>1 DEF FormalInput, LegacyDecisionAllowed
  <2> QED BY <2>2, DecisionIsThere
<1>4. label = {S} \cup {<<"suite", b.suite>> : b \in Declared(plan)} \cup {d \in {D} : plan.decision.says # "nothing"}
  BY <1>1 DEF GoverningLabel, AdditionalDirs
<1>5. label # {} /\ \A l \in label : Exists(tree, l)
  BY <1>1, <1>2, <1>3, <1>4, SuiteIsThere
<1>6. {Governing(l) : l \in Linked(plan.spec)} = {S}
  BY <1>1, LinkedKinds DEF PlainBindings, Bindings
<1>7. {Governing(l) : l \in LinkedDecision(plan.decision)} = {d \in {D} : plan.decision.says # "nothing"}
  BY <1>3 DEF LinkedDecision, Governing
<1>8. \A b \in Declared(plan) : {Governing(l) : l \in Linked(b)} = {<<"suite", b.suite>>}
  BY <1>2, LinkedKinds DEF PlainBindings, Bindings, Declared
<1>9. governing = {Governing(l) : l \in Links(plan)}
  <2>1. Links(plan) # {}
    BY <1>6, InLinks DEF Bindings
  <2> QED BY <2>1 DEF GoverningOf, Links
<1>10. \A b \in plan.additional : b.says # "n/a" /\ b \notin Declared(plan) => Linked(b) = {}
  BY LinkedKinds DEF PlainBindings, Bindings, Declared, Meaningful
<1>11. Legible(plan) <=> \A b \in plan.additional : b.says # "n/a"
  <2>1. plan.spec.says = "path" /\ plan.decision.says # "n/a"
    BY <1>1, <1>3 DEF SpecDir
  <2> QED BY <2>1 DEF Legible
<1> HIDE DEF S, D
<1>12. ASSUME \A b \in plan.additional : b.says # "n/a" PROVE governing = label
  <2> DEFINE more == UNION {Linked(b) : b \in plan.additional}
  <2>1. {Governing(l) : l \in more} = {<<"suite", b.suite>> : b \in Declared(plan)}
    <3>1. \A b \in Declared(plan) : b \in plan.additional
      BY DEF Declared
    <3> QED BY <1>8, <1>10, <1>12, <3>1
  <2>3. governing = {Governing(l) : l \in Linked(plan.spec)} \cup {Governing(l) : l \in more}
                    \cup {Governing(l) : l \in LinkedDecision(plan.decision)}
    <3>1. \A l : l \in more <=> \E b \in plan.additional : l \in Linked(b)
      OBVIOUS
    <3> HIDE DEF more
    <3>2. \A l : l \in Links(plan) <=> l \in Linked(plan.spec) \/ l \in more \/ l \in LinkedDecision(plan.decision)
      BY <3>1, InLinks DEF Bindings
    <3> QED BY <1>9, <3>2
  <2> HIDE DEF label, governing
  <2> QED BY <1>4, <1>6, <1>7, <2>1, <2>3 DEF label
<1>13. ASSUME NEW b \in plan.additional, b.says = "n/a" PROVE governing # label
  <2>1. <<"path", "n/a">> \in governing
    BY <1>9, <1>13, LinkedKinds, InLinks DEF Bindings
  <2>2. <<"path", "n/a">> \notin label
    BY <1>4 DEF S, D
  <2> QED BY <2>1, <2>2
<1> QED BY <1>5, <1>11, <1>12, <1>13 DEF PlanFits

\* A plan that needs a decision is governed by that, and by nothing else that it names.
LEMMA BootstrapFits ==
  ASSUME NEW tree, NEW plan, PlainBindings(plan), InputMode(plan) = "bootstrap", DecisionInput(tree, plan)
  PROVE  Legible(plan) <=> PlanFits(tree, plan)
<1> DEFINE D == <<"decision", plan.decision.file>>
           governing == GoverningOf(tree, plan)
<1>1. plan.decision.says = "path" /\ Exists(tree, D)
  BY DecisionIsThere DEF DecisionInput
<1>2. GoverningLabel(tree, plan) = {D}
  BY <1>1 DEF GoverningLabel
<1>3. LinkedDecision(plan.decision) = {D} /\ Governing(D) = D
  BY <1>1 DEF LinkedDecision, Governing
<1>4. governing = {Governing(l) : l \in Links(plan)}
  <2>1. Links(plan) # {}
    BY <1>3, InLinks
  <2> QED BY <2>1 DEF GoverningOf, Links
<1>5. plan.spec.says \in {"nothing", "placeholder", "n/a"}
  BY DEF InputMode, Meaningful
<1>6. Legible(plan) <=> \A b \in Bindings(plan) : Linked(b) = {}
  <2>1. \A b \in Bindings(plan) : Linked(b) = {} <=> b.says \in {"nothing", "placeholder"}
    BY LinkedKinds DEF PlainBindings
  <2> QED BY <1>1, <1>5, <2>1 DEF Legible, Bindings
<1>7. (\A b \in Bindings(plan) : Linked(b) = {}) <=> governing = {D}
  <2>1. ASSUME \A b \in Bindings(plan) : Linked(b) = {} PROVE governing = {D}
    <3>1. Links(plan) = {D}
      <4>1. \A l : l \in Links(plan) <=> l \in {D}
        BY <1>3, <2>1, InLinks
      <4> QED BY <4>1
    <3> QED BY <1>3, <1>4, <3>1
  <2>2. ASSUME NEW b \in Bindings(plan), Linked(b) # {} PROVE governing # {D}
    <3>1. PICK l \in Linked(b) : Governing(l)[1] \in {"suite", "path"}
      BY <2>2, LinkedKinds DEF PlainBindings
    <3>2. Governing(l) \in governing
      BY <1>4, <3>1, InLinks
    <3> QED BY <3>1, <3>2
  <2> QED BY <2>1, <2>2
<1> QED BY <1>1, <1>2, <1>6, <1>7 DEF PlanFits

\* A feature without a binding is governed by the suite of its name, and by nothing else that it names.
LEMMA OwnSuiteFits ==
  ASSUME NEW tree, NEW plan, NEW diff, PlainBindings(plan),
         InputMode(plan) = "unbound", OwnSuite(tree, plan, diff)
  PROVE  Legible(plan) <=> PlanFits(tree, plan)
<1> DEFINE S == <<"suite", <<"docs", plan.item>>>>
           governing == GoverningOf(tree, plan)
<1>1. plan.type = "FR" /\ SuiteFits(tree, <<"docs", plan.item>>) /\ HasMinimum(tree, <<"docs", plan.item>>)
  BY DEF OwnSuite, SuiteFits, HasMinimum
<1>2. GoverningLabel(tree, plan) = {S} /\ Exists(tree, S)
  BY <1>1, SuiteIsThere DEF GoverningLabel
<1>3. governing = IF Links(plan) # {} THEN {Governing(l) : l \in Links(plan)} ELSE {S}
  BY <1>1 DEF GoverningOf, Links
<1>4. governing = {S} <=> \A l \in Links(plan) : Governing(l) = S
  BY <1>3
<1>5. plan.spec.says \in {"nothing", "placeholder", "n/a"}
  BY DEF InputMode, Meaningful
<1>6. (\A l \in Linked(plan.spec) : Governing(l) = S) <=> plan.spec.says # "n/a"
  <2>1. plan.spec.says # "n/a" => Linked(plan.spec) = {}
    BY <1>5, LinkedKinds DEF PlainBindings, Bindings
  <2>2. plan.spec.says = "n/a" => <<"path", "n/a">> \in {Governing(l) : l \in Linked(plan.spec)}
    BY LinkedKinds DEF PlainBindings, Bindings
  <2> QED BY <2>1, <2>2
<1>7. (\A l \in LinkedDecision(plan.decision) : Governing(l) = S) <=> plan.decision.says \in {"nothing", "placeholder"}
  BY DEF LinkedDecision, Governing
<1>8. \A b \in plan.additional : (\A l \in Linked(b) : Governing(l) = S) => b.says # "n/a"
  <2>1. \A b \in plan.additional : b.says = "n/a" => <<"path", "n/a">> \in {Governing(l) : l \in Linked(b)}
    BY LinkedKinds DEF PlainBindings, Bindings
  <2> QED BY <2>1
<1> HIDE DEF S
<1>9. (\A l \in Links(plan) : Governing(l) = S) <=>
        /\ \A l \in Linked(plan.spec) : Governing(l) = S
        /\ \A l \in LinkedDecision(plan.decision) : Governing(l) = S
        /\ \A b \in plan.additional : \A l \in Linked(b) : Governing(l) = S
  <2>1. \A l : l \in Links(plan) <=>
          l \in Linked(plan.spec) \/ l \in LinkedDecision(plan.decision) \/ \E b \in plan.additional : l \in Linked(b)
    BY InLinks DEF Bindings
  <2> QED BY <2>1
<1>10. Legible(plan) <=>
         /\ plan.spec.says # "n/a" /\ plan.decision.says \in {"nothing", "placeholder"}
         /\ \A b \in plan.additional : \A l \in Linked(b) : Governing(l) = S
  BY <1>8 DEF Legible, S
<1> QED BY <1>2, <1>4, <1>6, <1>7, <1>9, <1>10 DEF PlanFits

\* A pull request that may be opened can pass the guardian, as far as its description goes,
\* in all but the cases that the property names.
LEMMA OpenedCanPass ==
  ASSUME proposal \in Proposals \cup {None}
  PROVE  OpenedIsReviewable
<1> SUFFICES ASSUME NEW x \in Proposals, proposal = x, Opens(x, TreeAt[x.head])
             PROVE  LET tree == TreeAt[x.head]
                        plan == PlanFor(tree, x.context)
                    IN /\ x.class # "docs" => (Legible(plan) <=> ArtifactsFit(tree, Description(x, tree)))
                       /\ MergePayloadFits(Recorded(Description(x, tree), "yes").check, IssueContract(x.issue))
  BY DEF OpenedIsReviewable, Legible
<1> DEFINE tree == TreeAt[x.head]
           plan == PlanFor(tree, x.context)
<1>1. MergePayloadFits(Recorded(Description(x, tree), "yes").check, IssueContract(x.issue))
  BY OpenedMayBeMerged
<1>2. ASSUME x.class # "docs" PROVE Legible(plan) <=> ArtifactsFit(tree, Description(x, tree))
  <2>1. PlainBindings(plan)
    <3>1. plan \in tree.plans
      BY PlanIsFound DEF Opens, PreflightFits, ItemFits
    <3> QED BY <3>1, ProposalAssumption, TreeAssumption DEF PlainBindings, Bindings
  <2>2. /\ InputMode(plan) = "formal_spec" => FormalInput(tree, plan, x.diff, TRUE)
        /\ InputMode(plan) = "bootstrap" => DecisionInput(tree, plan)
        /\ InputMode(plan) = "unbound" => OwnSuite(tree, plan, x.diff)
        /\ InputMode(plan) \in {"formal_spec", "bootstrap", "unbound"}
    BY <1>2, ClassNeeds
  <2>3. Legible(plan) <=> PlanFits(tree, plan)
    BY <2>1, <2>2, FormalFits, BootstrapFits, OwnSuiteFits
  <2>4. PlanFits(tree, plan) <=> ArtifactsFit(tree, Description(x, tree))
    BY <1>2, DescriptionFits DEF PlanFits
  <2> QED BY <2>3, <2>4
<1> QED BY <1>1, <1>2

\* What is merged, unless the author meddles with it while the guardian is at it, is what was
\* reviewed, and found safe, and checked; a guardian that does not merge leaves nothing behind;
\* and what the script opens, the guardian can review (merge_if_safe in pr_guardian.py, and
\* open_pr.py).
THEOREM MergesAreReviewed == Spec => []MergedIsReviewed
<1>1. MInv => MergedIsReviewed
  <2> SUFFICES ASSUME MInv PROVE MergedIsReviewed
    OBVIOUS
  <2>1. NothingLeftBehind /\ OpenedIsReviewable
    BY LeavesNothingBehind, OpenedCanPass DEF MInv, MergeTypes
  <2> QED BY <2>1, MergedAsReviewed DEF MergedIsReviewed
<1> QED BY <1>1, MergeInvariance, PTL
=============================================================================
