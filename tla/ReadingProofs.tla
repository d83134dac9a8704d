------------------------------- MODULE ReadingProofs -------------------------------
(***************************************************************************)
(* Theorems about what a reader gets in ReleasePath: the pages that follow   *)
(* each other, the answers on them and what is kept of these, the request   *)
(* that is admitted, the decision that an adapter and a provider match, and  *)
(* what is said of a task that fails.                                        *)
(***************************************************************************)
EXTENDS ReleasePathProofs

-----------------------------------------------------------------------------
(* Admission *)

\* A chain of checks finds nothing, or the fault of the first check that fails.
LEMMA FaultOfFirst ==
  ASSUME NEW checks, NEW n \in Nat, DOMAIN checks = 1..n
  PROVE  \/ FirstFault(checks) = None /\ \A i \in 1..n : ~checks[i][1]
         \/ \E i \in 1..n : /\ checks[i][1] /\ FirstFault(checks) = checks[i][2]
                            /\ \A j \in 1..n : j < i => ~checks[j][1]
<1> DEFINE failing == {i \in DOMAIN checks : checks[i][1]}
<1>1. FirstFault(checks) = IF failing = {} THEN None ELSE checks[Min(failing)][2]
  BY DEF FirstFault
<1>2. failing \in SUBSET Nat /\ failing = {i \in 1..n : checks[i][1]}
  OBVIOUS
<1>3. failing # {} => Min(failing) \in failing /\ \A k \in failing : Min(failing) <= k
  BY <1>2, LeastIsIn
<1> HIDE DEF failing
<1>4. CASE failing = {}
  BY <1>1, <1>2, <1>4
<1>5. CASE failing # {}
  <2>1. PICK i \in 1..n : i = Min(failing)
    BY <1>2, <1>3, <1>5
  <2>2. \A j \in 1..n : j < i => ~checks[j][1]
    BY <1>2, <1>3, <1>5, <2>1
  <2> QED BY <1>1, <1>2, <1>3, <1>5, <2>1, <2>2
<1> QED BY <1>4, <1>5

\* What the runtime makes of a request is still about the same.
LEMMA ProjectedIsSame ==
  ASSUME NEW r \in Requests
  PROVE  LET p == Projected(r)
         IN /\ DOMAIN p = DOMAIN r
            /\ p.entry = r.entry /\ p.malformed = r.malformed /\ p.adapter = r.adapter /\ p.operation = r.operation
            /\ p.value = r.value /\ p.cursor = r.cursor
            /\ ~(r.entry \in {"http", "task"} /\ r.operation \in RuntimeOperations) => p = r
            /\ r.entry \in {"http", "task"} /\ r.operation \in RuntimeOperations =>
                 p.target = StableRow(r.operation).target /\ p.mode = StableRow(r.operation).mode
  BY RequestsAssumption DEF Projected

\* Nothing is wrong with a request that goes to its adapter.
LEMMA AdmitChecks ==
  ASSUME NEW its, NEW r \in Requests, Admit(its, r).outcome # "refused"
  PROVE  LET p == Projected(r)
         IN /\ NormalizeFault(p) = None /\ AxisFault(p) = None /\ "task_id" \notin p.malformed
            /\ RegistryError(its, p.adapter) = None /\ Lookup(its, p.adapter) # None
            /\ Admit(its, r) = ForAdapter(Lookup(its, p.adapter), p)
<1> DEFINE p == Projected(r)
           checks == << <<"task_id" \in p.malformed, "invalid_task_id">>,
                        <<NormalizeFault(p) # None, NormalizeFault(p)>>,
                        <<AxisFault(p) # None, AxisFault(p)>>,
                        <<RegistryError(its, p.adapter) # None, RegistryError(its, p.adapter)>>,
                        <<Lookup(its, p.adapter) = None, "adapter_not_found">> >>
<1>1. Admit(its, r) = IF FirstFault(checks) # None THEN Refused(FirstFault(checks)) ELSE ForAdapter(Lookup(its, p.adapter), p)
  BY DEF Admit
<1>2. DOMAIN checks = 1..5
  OBVIOUS
<1>3. /\ checks[1][1] <=> "task_id" \in p.malformed
      /\ checks[2][1] <=> NormalizeFault(p) # None
      /\ checks[3][1] <=> AxisFault(p) # None
      /\ checks[4][1] <=> RegistryError(its, p.adapter) # None
      /\ checks[5][1] <=> Lookup(its, p.adapter) = None
  OBVIOUS
<1>4. /\ checks[1][2] # None /\ checks[5][2] # None
      /\ checks[2][1] => checks[2][2] # None
      /\ checks[3][1] => checks[3][2] # None
      /\ checks[4][1] => checks[4][2] # None
  BY CodesAssumption DEF FaultCodes
<1> HIDE DEF checks
<1>5. FirstFault(checks) = None
  BY <1>1 DEF Refused
<1>6. \A i \in 1..5 : ~checks[i][1]
  <2>1. \A i \in 1..5 : checks[i][1] => checks[i][2] # None
    BY <1>4
  <2> QED BY <1>2, <1>5, <2>1, FaultOfFirst
<1> HIDE DEF p
<1>7. ~checks[1][1] /\ ~checks[2][1] /\ ~checks[3][1] /\ ~checks[4][1] /\ ~checks[5][1]
  BY <1>6
<1> QED BY <1>1, <1>3, <1>5, <1>7 DEF p

\* What is in order with a request whose operation says its target and mode.
LEMMA TaskInOrder ==
  ASSUME NEW r, TaskFault(r) = None
  PROVE  /\ r.adapter # None /\ r.operation \in RuntimeOperations /\ r.value # None
         /\ r.operation \in Continued => r.cursor \notin {"both", "broken", "elsewhere"}
<1> DEFINE checks ==
             << <<r.adapter = None \/ "input" \in r.malformed, "invalid_task_request">>,
                <<r.operation \notin RuntimeOperations, "invalid_capability">>,
                <<"control" \in r.malformed, "invalid_execution_control_policy">>,
                <<r.value = None \/ UnsafeInput(r), "invalid_task_request">>,
                <<r.operation = "media_asset_fetch_by_ref" /\ BadPolicy(r), "invalid_task_request">>,
                <<r.operation \in Continued /\ r.cursor = "broken", "invalid_continuation_token">>,
                <<r.operation \in Continued /\ r.cursor \in {"elsewhere", "both"}, "unsafe_continuation_token">> >>
<1>1. FirstFault(checks) = None
  BY DEF TaskFault
<1>2. DOMAIN checks = 1..7
  OBVIOUS
<1>3. \A i \in 1..7 : checks[i][2] # None
  BY CodesAssumption DEF FaultCodes
<1>4. /\ checks[1][1] <=> (r.adapter = None \/ "input" \in r.malformed)
      /\ checks[2][1] <=> r.operation \notin RuntimeOperations
      /\ checks[4][1] <=> (r.value = None \/ UnsafeInput(r))
      /\ checks[6][1] <=> (r.operation \in Continued /\ r.cursor = "broken")
      /\ checks[7][1] <=> (r.operation \in Continued /\ r.cursor \in {"elsewhere", "both"})
  OBVIOUS
<1> HIDE DEF checks
<1>5. \A i \in 1..7 : ~checks[i][1]
  BY <1>1, <1>2, <1>3, FirstFaultFacts
<1>6. ~checks[1][1] /\ ~checks[2][1] /\ ~checks[4][1] /\ ~checks[6][1] /\ ~checks[7][1]
  BY <1>5
<1> QED BY <1>4, <1>6

\* What is in order with a request that says them itself.
LEMMA CoreInOrder ==
  ASSUME NEW r, CoreFault(r) = None
  PROVE  /\ r.adapter # None /\ r.operation \in RuntimeOperations /\ r.value # None
         /\ r.operation \in Continued => r.cursor = "none"
<1> DEFINE checks ==
             << <<r.malformed \cap {"target", "policy"} # {}, "invalid_task_request">>,
                <<"control" \in r.malformed, "invalid_execution_control_policy">>,
                <<r.adapter = None, "invalid_task_request">>,
                <<r.operation \notin RuntimeOperations, "invalid_capability">>,
                <<r.value = None \/ r.target \notin AllowedTargets \/ r.mode \notin AllowedModes,
                  "invalid_task_request">>,
                <<r.operation = "media_asset_fetch_by_ref" /\ (r.value = "unsafe" \/ BadPolicy(r)),
                  "invalid_task_request">>,
                <<r.operation \in Continued /\ r.cursor # "none", "unsupported_request_cursor">> >>
<1>1. FirstFault(checks) = None
  BY DEF CoreFault
<1>2. DOMAIN checks = 1..7
  OBVIOUS
<1>3. \A i \in 1..7 : checks[i][2] # None
  BY CodesAssumption DEF FaultCodes
<1>4. /\ checks[3][1] <=> r.adapter = None
      /\ checks[4][1] <=> r.operation \notin RuntimeOperations
      /\ checks[5][1] <=> (r.value = None \/ r.target \notin AllowedTargets \/ r.mode \notin AllowedModes)
      /\ checks[7][1] <=> (r.operation \in Continued /\ r.cursor # "none")
  OBVIOUS
<1> HIDE DEF checks
<1>5. \A i \in 1..7 : ~checks[i][1]
  BY <1>1, <1>2, <1>3, FirstFaultFacts
<1>6. ~checks[3][1] /\ ~checks[4][1] /\ ~checks[5][1] /\ ~checks[7][1]
  BY <1>5
<1> QED BY <1>4, <1>6

\* Either way, a request that goes to its adapter has an operation, an adapter, something it
\* is about, and no token that leads elsewhere.
LEMMA AdmittedInOrder ==
  ASSUME NEW its, NEW r \in Requests, Admit(its, r).outcome # "refused"
  PROVE  /\ r.adapter # None /\ r.operation \in RuntimeOperations /\ r.value # None
         /\ r.operation \in Continued => r.cursor \in {"none", "here"}
         /\ r.entry \in {"http", "task", "core"}
<1> DEFINE p == Projected(r)
<1>1. NormalizeFault(p) = None
  BY AdmitChecks
<1>2. /\ p.entry = r.entry /\ p.adapter = r.adapter /\ p.operation = r.operation
      /\ p.value = r.value /\ p.cursor = r.cursor
  BY ProjectedIsSame
<1>0. r.cursor \in {"none", "here", "elsewhere", "both", "broken"}
  BY RequestsAssumption DEF Cursors
<1> HIDE DEF p
<1>3. CASE p.entry = "core"
  <2>1. CoreFault(p) = None
    BY <1>1, <1>3 DEF NormalizeFault
  <2> QED BY <1>2, <1>3, <2>1, CoreInOrder
<1>4. CASE p.entry \in {"http", "task"}
  <2>1. TaskFault(p) = None
    BY <1>1, <1>4 DEF NormalizeFault
  <2> QED BY <1>0, <1>2, <1>4, <2>1, TaskInOrder
<1>5. CASE p.entry \notin {"http", "task", "core"}
  <2>1. NormalizeFault(p) = "invalid_task_request"
    BY <1>5 DEF NormalizeFault
  <2> QED BY <1>1, <2>1, CodesAssumption DEF FaultCodes
<1> QED BY <1>3, <1>4, <1>5

\* Without a fault a cursor of comments leads nowhere else.
LEMMA CommentCursorInOrder ==
  ASSUME NEW r
  PROVE  CursorFault(r) = None <=> (r.operation = Comments => r.cursor \notin {"both", "broken", "elsewhere"})
<1> DEFINE checks == << <<r.operation # Comments, None>>,
                        <<r.cursor \in {"both", "broken"}, "signature_or_request_invalid">>,
                        <<r.cursor = "elsewhere", "cursor_invalid_or_expired">> >>
<1>1. CursorFault(r) = FirstFault(checks)
  BY DEF CursorFault, Comments
<1>2. DOMAIN checks = 1..3
  OBVIOUS
<1>3. /\ checks[1][1] <=> r.operation # Comments
      /\ checks[2][1] <=> r.cursor \in {"both", "broken"}
      /\ checks[3][1] <=> r.cursor = "elsewhere"
      /\ checks[1][2] = None /\ checks[2][2] # None /\ checks[3][2] # None
  BY CodesAssumption DEF FaultCodes
<1> HIDE DEF checks
<1>4. \/ FirstFault(checks) = None /\ \A i \in 1..3 : ~checks[i][1]
      \/ \E i \in 1..3 : /\ checks[i][1] /\ FirstFault(checks) = checks[i][2]
                         /\ \A j \in 1..3 : j < i => ~checks[j][1]
  BY <1>2, FaultOfFirst
<1>5. CASE FirstFault(checks) = None /\ \A i \in 1..3 : ~checks[i][1]
  <2>1. ~checks[2][1] /\ ~checks[3][1]
    BY <1>5
  <2> QED BY <1>1, <1>3, <1>5, <2>1
<1>6. ASSUME NEW i \in 1..3, checks[i][1], FirstFault(checks) = checks[i][2], \A j \in 1..3 : j < i => ~checks[j][1]
      PROVE  CursorFault(r) = None <=> (r.operation = Comments => r.cursor \notin {"both", "broken", "elsewhere"})
  <2>1. CASE i = 1
    BY <1>1, <1>3, <1>6, <2>1
  <2>2. CASE i \in {2, 3}
    <3>1. ~checks[1][1] /\ (checks[2][1] \/ checks[3][1]) /\ checks[i][2] # None
      BY <1>3, <1>6, <2>2
    <3> QED BY <1>1, <1>3, <1>6, <3>1
  <2> QED BY <2>1, <2>2
<1> QED BY <1>4, <1>5, <1>6

\* What is matched was admitted, over whichever surface it came.
LEMMA MatchedIsAdmitted ==
  ASSUME NEW its, NEW r \in Requests, Submit(its, r).reply.outcome = "matched"
  PROVE  Submit(its, r).reply = Admit(its, r)
<1>1. CASE r.entry # "http"
  BY <1>1 DEF Submit
<1>2. CASE r.entry = "http"
  <2>1. Submit(its, r).reply \in {Refused(x) : x \in {FirstFault(<< <<HttpFault(r) # None /\ "task_id" \notin r.malformed, HttpFault(r)>> >>)}}
          \cup {Admit(its, r)}
    BY <1>2 DEF Submit, HttpSubmit
  <2>2. \A x : Refused(x).outcome # "matched"
    BY DEF Refused
  <2> QED BY <2>1, <2>2
<1> QED BY <1>1, <1>2

-----------------------------------------------------------------------------
(* Pages *)

\* The checks of an answer find a fault of theirs, or it was accepted and its hint with it.
LEMMA RepliesHaveCodes ==
  ASSUME NEW p, NEW q
  PROVE  /\ ReplyError(p, q) \in ReplyCodes \cup {None}
         /\ ReplyError(p, q) = None => Accepts(p, q) /\ HintFits(p, q)
<1> DEFINE checks == << <<~Accepts(p, q), "invalid_adapter_success_payload">>,
                        <<~HintFits(p, q), "invalid_resource_disposition_hint">> >>
<1>1. ReplyError(p, q) = FirstFault(checks)
  BY DEF ReplyError
<1>2. DOMAIN checks = 1..2
  OBVIOUS
<1>3. /\ checks[1][1] <=> ~Accepts(p, q)
      /\ checks[2][1] <=> ~HintFits(p, q)
      /\ checks[1][2] \in ReplyCodes /\ checks[2][2] \in ReplyCodes
  BY DEF ReplyCodes
<1> HIDE DEF checks
<1>4. \A i \in 1..2 : checks[i][2] \in ReplyCodes
  BY <1>3
<1>5. FirstFault(checks) = None \/ \E i \in 1..2 : FirstFault(checks) = checks[i][2]
  BY <1>2, FaultOfFirst
<1>6. ASSUME FirstFault(checks) = None PROVE Accepts(p, q) /\ HintFits(p, q)
  <2>1. \A i \in 1..2 : ~checks[i][1]
    BY <1>2, <1>4, <1>6, FirstFaultFacts, ReplyCodesAssumption
  <2>2. ~checks[1][1] /\ ~checks[2][1]
    BY <2>1
  <2> QED BY <1>3, <2>2
<1> QED BY <1>1, <1>4, <1>5, <1>6

\* An answer that is a success was accepted.
LEMMA SuccessIsAccepted ==
  ASSUME NEW p, NEW q, Outcome(p, q).reply = "success"
  PROVE  Accepts(p, q) /\ HintFits(p, q)
<1>1. Finish(p, q).reply = "success"
  BY DEF Outcome
<1>2. ReplyError(p, q) # None => Finish(p, q).reply = ReplyError(p, q)
  BY DEF Finish
<1> QED BY <1>1, <1>2, RepliesHaveCodes DEF ReplyCodes

\* The request that a question makes passes, if its cursor leads nowhere else and it is about
\* something that takes one.
LEMMA QuestionPasses ==
  ASSUME NEW q, q.adapter # None, q.ref # None, q.operation \in RuntimeOperations, q.operation \in Searches \cup {Comments},
         CursorKind(q) \in {"none", "here"}
  PROVE  CursorRefused(q) = None
<1> DEFINE r == RequestOf(q)
           checks ==
             << <<r.adapter = None \/ "input" \in r.malformed, "invalid_task_request">>,
                <<r.operation \notin RuntimeOperations, "invalid_capability">>,
                <<"control" \in r.malformed, "invalid_execution_control_policy">>,
                <<r.value = None \/ UnsafeInput(r), "invalid_task_request">>,
                <<r.operation = "media_asset_fetch_by_ref" /\ BadPolicy(r), "invalid_task_request">>,
                <<r.operation \in Continued /\ r.cursor = "broken", "invalid_continuation_token">>,
                <<r.operation \in Continued /\ r.cursor \in {"elsewhere", "both"}, "unsafe_continuation_token">> >>
<1>1. /\ r.entry = "task" /\ r.malformed = {} /\ r.adapter = q.adapter /\ r.operation = q.operation
      /\ r.value = q.ref /\ r.cursor = CursorKind(q)
  BY DEF RequestOf
<1> HIDE DEF r
<1>2. TaskFault(r) = FirstFault(checks)
  BY DEF TaskFault
<1>3. DOMAIN checks = 1..7
  OBVIOUS
<1>4. ~UnsafeInput(r) /\ r.operation # "media_asset_fetch_by_ref"
  BY <1>1 DEF UnsafeInput, Searches, Comments
<1>5. ~checks[1][1] /\ ~checks[2][1] /\ ~checks[3][1] /\ ~checks[4][1] /\ ~checks[5][1] /\ ~checks[6][1] /\ ~checks[7][1]
  BY <1>1, <1>4
<1> HIDE DEF checks
<1>51. \A i \in 1..7 : ~checks[i][1]
  BY <1>5
<1>6. FirstFault(checks) = None
  BY <1>3, <1>51, FaultOfFirst
<1>7. NormalizeFault(r) = None
  BY <1>1, <1>2, <1>6 DEF NormalizeFault
<1>8. CursorFault(r) = None
  BY <1>1, CommentCursorInOrder
<1> DEFINE both == << <<NormalizeFault(r) # None, NormalizeFault(r)>>, <<CursorFault(r) # None, CursorFault(r)>> >>
<1>9. CursorRefused(q) = FirstFault(both)
  BY DEF CursorRefused, r
<1>10. DOMAIN both = 1..2
  OBVIOUS
<1>12. (both[1][1] <=> NormalizeFault(r) # None) /\ (both[2][1] <=> CursorFault(r) # None)
  OBVIOUS
<1> HIDE DEF both
<1>13. ~both[1][1] /\ ~both[2][1]
  BY <1>7, <1>8, <1>12
<1>11. \A i \in 1..2 : ~both[i][1]
  BY <1>13
<1> QED BY <1>9, <1>10, <1>11, FaultOfFirst

\* Every cursor out of a page of comments leads on in the same content; the one to the next
\* page stays in the thread of the question, if it has one.
LEMMA CommentCursors ==
  ASSUME NEW p, NEW q, q.operation = Comments, Accepts(p, q), NEW cursor \in CursorsOf(p, q)
  PROVE  /\ CommentCursorKind(cursor, q.ref) = "here"
         /\ DOMAIN cursor = {"page", "reply"}
         /\ cursor.reply = None => ThreadOf(cursor) = ThreadOf(q.cursor)
<1>1. CommentsAnswer(p, q)
  BY DEF Accepts, Fits, Searches, Comments
<1>2. ValidCommentPage(p) /\ p.target.ref = q.ref /\ StaysInThread(p, ThreadOf(q.cursor))
  BY <1>1 DEF CommentsAnswer, CommentsAnswerIn, AboutTarget
<1>3. /\ ReadCommentContinuation(p.next)
      /\ p.next # None => p.next.target = q.ref
      /\ \A i \in Items(p) : i.reply # None => ReadReplyCursor(i.reply) /\ i.reply.target = q.ref
  BY <1>2 DEF ValidCommentPage, CommentContract, ContinuationFits, CommentItemContract, ReadCommentItem
<1>4. \/ p.next # None /\ cursor = [page |-> p.next, reply |-> None]
      \/ \E i \in Items(p) : i.reply # None /\ cursor = [page |-> None, reply |-> i.reply]
  BY DEF CursorsOf, Searches, Comments
<1>5. CASE p.next # None /\ cursor = [page |-> p.next, reply |-> None]
  <2>1. cursor.page = p.next /\ cursor.reply = None /\ DOMAIN cursor = {"page", "reply"}
    BY <1>5
  <2>2. {cursor.page, cursor.reply} \ {None} = {p.next}
    BY <1>5, <2>1
  <2>3. ReadReplyCursor(None)
    BY DEF ReadReplyCursor
  <2>4. CommentCursorKind(cursor, q.ref) = "here"
    BY <1>3, <1>5, <2>1, <2>2, <2>3 DEF CommentCursorKind
  <2>5. ThreadOf(cursor) = p.next.thread
    BY <1>5, <2>1 DEF ThreadOf
  <2>6. p.next.thread = ThreadOf(q.cursor)
    BY <1>2, <1>5 DEF StaysInThread
  <2> QED BY <2>1, <2>4, <2>5, <2>6
<1>6. ASSUME NEW i \in Items(p), i.reply # None, cursor = [page |-> None, reply |-> i.reply]
      PROVE  /\ CommentCursorKind(cursor, q.ref) = "here"
             /\ DOMAIN cursor = {"page", "reply"} /\ cursor.reply # None
  <2>1. cursor.page = None /\ cursor.reply = i.reply /\ DOMAIN cursor = {"page", "reply"}
    BY <1>6
  <2>2. {cursor.page, cursor.reply} \ {None} = {i.reply}
    BY <1>6, <2>1
  <2>3. ReadCommentContinuation(None)
    BY DEF ReadCommentContinuation
  <2> QED BY <1>3, <1>6, <2>1, <2>2, <2>3 DEF CommentCursorKind
<1> QED BY <1>4, <1>5, <1>6

\* The token out of a page that a batch publishes may be public.
LEMMA PublishedTokens ==
  ASSUME NEW p, NEW q, q.operation \in Searches, BatchKeeps(p, q), NEW cursor \in CursorsOf(p, q)
  PROVE  BatchToken(cursor) /\ Filled(cursor) /\ PublicToken(cursor)
<1>1. p.next # None /\ cursor = p.next.token
  BY DEF CursorsOf, Searches, Comments
<1>2. PublicPage(p, q)
  BY DEF BatchKeeps
<1>3. BatchToken(cursor)
  BY <1>1, <1>2 DEF PublicPage
<1> QED BY <1>3 DEF BatchToken, Filled, PublicToken

-----------------------------------------------------------------------------
(* The session: the inductive invariant *)

Fields == {"operation", "adapter", "ref", "cursor", "leased"}
FetchFields == {"adapter", "at", "material", "error", "page", "asked", "by"}

\* A question of a reader comes from a request that was admitted.
InOrder(q) ==
  DOMAIN q = Fields /\ q.operation \in RuntimeOperations /\ q.adapter # None /\ q.ref # None

\* An answer has the outcome that it deserves.  Only a post fails without an answer to it, and
\* only a search or a list is refused; comments are neither.
OutcomeFits ==
  /\ answer # None => outcome = Outcome(answer, ask)
  /\ answer = None /\ outcome # None => outcome.reply # "success" \/ ask.operation = "content_detail_by_url"
  /\ ask.operation = Comments => ThreadOf(ask.cursor) = thread /\ (answer = None => outcome = None)
  /\ fetch # None =>
       /\ ask.operation = "content_detail_by_url"
       /\ DOMAIN fetch = FetchFields
       /\ fetch.at # "done" => answer = None

SessionInv ==
  /\ stage = "served" => request \in Requests /\ response = Submit(items, request)
  /\ stage # "reading" => answer = None /\ outcome = None /\ fetch = None
  /\ stage = "reading" => InOrder(ask) /\ OutcomeFits

\* A question with another cursor is still in order.
LEMMA NextInOrder ==
  ASSUME InOrder(ask), NEW cursor
  PROVE  LET q == NextQuestion(cursor)
         IN /\ InOrder(q) /\ q.cursor = cursor
            /\ q.operation = ask.operation /\ q.adapter = ask.adapter /\ q.ref = ask.ref
  BY DEF InOrder, NextQuestion, Fields

\* A cursor out of a page of comments, or out of a page that a batch publishes, is admitted, and
\* by the batch as well.
LEMMA CursorsAreAdmitted ==
  ASSUME InOrder(ask), NEW p, Accepts(p, ask), NEW cursor \in CursorsOf(p, ask)
  PROVE  /\ ask.operation = Comments \/ BatchKeeps(p, ask) => CursorRefused(NextQuestion(cursor)) = None
         /\ BatchKeeps(p, ask) => BatchAsks(NextQuestion(cursor))
<1> DEFINE q == NextQuestion(cursor)
<1>1. /\ InOrder(q) /\ q.cursor = cursor
      /\ q.operation = ask.operation /\ q.adapter = ask.adapter /\ q.ref = ask.ref
  BY NextInOrder
<1>2. ask.operation \in Searches \cup {Comments}
  BY DEF CursorsOf
<1>3. CASE ask.operation = Comments
  <2>1. CommentCursorKind(cursor, ask.ref) = "here"
    BY <1>3, CommentCursors
  <2>2. CursorKind(q) = "here"
    BY <1>1, <1>3, <2>1 DEF CursorKind
  <2> HIDE DEF q
  <2>3. CursorRefused(q) = None
    BY <1>1, <1>2, <2>2, QuestionPasses DEF InOrder
  <2>4. BatchKeeps(p, ask) => BatchAsks(q)
    BY <1>1, <1>3, <2>1 DEF BatchKeeps, BatchAsks, Searches, Comments, BatchOperations
  <2> QED BY <2>3, <2>4 DEF q
<1>4. CASE ask.operation \in Searches /\ BatchKeeps(p, ask)
  <2>1. BatchToken(cursor) /\ Filled(cursor) /\ PublicToken(cursor)
    BY <1>4, PublishedTokens
  <2>2. CursorKind(q) = "here"
    BY <1>1, <1>4, <2>1 DEF CursorKind, Searches, Comments, Filled
  <2> HIDE DEF q
  <2>3. CursorRefused(q) = None
    BY <1>1, <1>2, <2>2, QuestionPasses DEF InOrder
  <2>4. BatchAsks(q)
    BY <1>1, <1>4, <2>1 DEF BatchKeeps, BatchAsks, Searches, Comments, BatchOperations
  <2> QED BY <2>3, <2>4 DEF q
<1>5. CASE ask.operation \in Searches /\ ~BatchKeeps(p, ask)
  BY <1>5 DEF Searches, Comments
<1> QED BY <1>2, <1>3, <1>4, <1>5

-----------------------------------------------------------------------------
(* Its steps *)

\* What a step of a reference adapter does to the session: it goes on to another source, it ends
\* with an error, or it answers.
Moves ==
  /\ Fetching /\ DOMAIN fetch' = DOMAIN fetch
  /\ \/ UNCHANGED session
     \/ UNCHANGED <<ask, answer, thread, pages>> /\ ("at" \in DOMAIN fetch => fetch'.at = "done")
     \/ (\E a : AnswerTask(a)) /\ ("at" \in DOMAIN fetch => fetch'.at = "done")

\* It goes on ...
LEMMA GoesOnMoves ==
  ASSUME Fetching, NEW source, NEW error, NEW page, GoesOn(source, error, page)
  PROVE  Moves
  BY DEF GoesOn, Moves

\* ... or raises an error ...
LEMMA RaisesMoves ==
  ASSUME Fetching, NEW error, Raises(error)
  PROVE  Moves
  BY DEF Raises, Moves

\* ... or returns a post.
LEMMA ReturnsMoves ==
  ASSUME Fetching, NEW post, Returns(post)
  PROVE  Moves
  BY DEF Returns, Moves

\* Each step of the XHS adapter is of these ...
LEMMA XhsMoves ==
  ASSUME XhsStep
  PROVE  Moves
<1>1. Fetching
  BY DEF XhsStep, XhsSign, XhsDetail, XhsPage, XhsTabList, XhsTabState, Waits
<1>2. ASSUME NEW card, NEW json, XhsReturns(card, json) PROVE Moves
  BY <1>1, <1>2, RaisesMoves, ReturnsMoves DEF XhsReturns
<1>3. CASE XhsSign
  BY <1>1, <1>3, GoesOnMoves DEF XhsSign
<1>4. CASE XhsDetail
  BY <1>1, <1>2, <1>4, GoesOnMoves DEF XhsDetail
<1>5. CASE XhsPage
  BY <1>1, <1>2, <1>5, GoesOnMoves, RaisesMoves DEF XhsPage
<1>6. CASE XhsTabList
  BY <1>1, <1>6, GoesOnMoves, RaisesMoves DEF XhsTabList
<1>7. CASE XhsTabState
  BY <1>1, <1>2, <1>7, RaisesMoves DEF XhsTabState
<1> QED BY <1>3, <1>4, <1>5, <1>6, <1>7 DEF XhsStep

\* ... and each of the Douyin adapter.
LEMMA DouyinMoves ==
  ASSUME DouyinStep
  PROVE  Moves
<1>1. Fetching
  BY DEF DouyinStep, DouyinSign, DouyinDetail, DouyinTabList, DouyinTabState, DouyinContext, DouyinResign, DouyinRequest, Waits
<1>2. ASSUME NEW aweme, NEW json, DouyinReturns(aweme, json) PROVE Moves
  BY <1>1, <1>2, RaisesMoves, ReturnsMoves DEF DouyinReturns
<1>3. ASSUME NEW source, NEW error, DouyinRecovers(source, error) PROVE Moves
  BY <1>1, <1>3, GoesOnMoves, RaisesMoves DEF DouyinRecovers
<1>4. CASE DouyinSign
  BY <1>1, <1>4, GoesOnMoves DEF DouyinSign
<1>5. CASE DouyinDetail
  BY <1>1, <1>2, <1>5, GoesOnMoves DEF DouyinDetail
<1>6. CASE DouyinTabList
  BY <1>1, <1>6, GoesOnMoves, RaisesMoves DEF DouyinTabList
<1>7. CASE DouyinTabState
  BY <1>1, <1>2, <1>7, GoesOnMoves, RaisesMoves DEF DouyinTabState
<1>8. CASE DouyinContext
  BY <1>3, <1>8 DEF DouyinContext
<1>9. CASE DouyinResign
  BY <1>3, <1>9 DEF DouyinResign
<1>10. CASE DouyinRequest
  BY <1>1, <1>2, <1>10, RaisesMoves DEF DouyinRequest
<1> QED BY <1>4, <1>5, <1>6, <1>7, <1>8, <1>9, <1>10 DEF DouyinStep

\* A refused question has a fault.
LEMMA RefusalIsFault ==
  ASSUME NEW q
  PROVE  CursorRefused(q) = None \/ CursorRefused(q) \in FaultCodes
<1> DEFINE r == RequestOf(q)
           both == << <<NormalizeFault(r) # None, NormalizeFault(r)>>, <<CursorFault(r) # None, CursorFault(r)>> >>
           task_ ==
             << <<r.adapter = None \/ "input" \in r.malformed, "invalid_task_request">>,
                <<r.operation \notin RuntimeOperations, "invalid_capability">>,
                <<"control" \in r.malformed, "invalid_execution_control_policy">>,
                <<r.value = None \/ UnsafeInput(r), "invalid_task_request">>,
                <<r.operation = "media_asset_fetch_by_ref" /\ BadPolicy(r), "invalid_task_request">>,
                <<r.operation \in Continued /\ r.cursor = "broken", "invalid_continuation_token">>,
                <<r.operation \in Continued /\ r.cursor \in {"elsewhere", "both"}, "unsafe_continuation_token">> >>
           comment == << <<r.operation # "comment_collection", None>>,
                         <<r.cursor \in {"both", "broken"}, "signature_or_request_invalid">>,
                         <<r.cursor = "elsewhere", "cursor_invalid_or_expired">> >>
<1>1. r.entry = "task"
  BY DEF RequestOf
<1> HIDE DEF r
<1>2. NormalizeFault(r) = FirstFault(task_) /\ CursorFault(r) = FirstFault(comment) /\ CursorRefused(q) = FirstFault(both)
  BY <1>1 DEF NormalizeFault, TaskFault, CursorFault, CursorRefused, r
<1>3. DOMAIN task_ = 1..7 /\ DOMAIN comment = 1..3 /\ DOMAIN both = 1..2
  OBVIOUS
<1>4. \A i \in 1..7 : task_[i][2] \in FaultCodes
  BY DEF FaultCodes
<1>5. \A i \in 1..3 : comment[i][2] \in FaultCodes \cup {None}
  BY DEF FaultCodes
<1>6. both[1][2] = NormalizeFault(r) /\ both[2][2] = CursorFault(r)
  OBVIOUS
<1> HIDE DEF task_, comment, both
<1>7. FirstFault(task_) \in FaultCodes \cup {None}
  <2>1. FirstFault(task_) = None \/ \E i \in 1..7 : FirstFault(task_) = task_[i][2]
    BY <1>3, FaultOfFirst
  <2> QED BY <1>4, <2>1
<1>8. FirstFault(comment) \in FaultCodes \cup {None}
  <2>1. FirstFault(comment) = None \/ \E i \in 1..3 : FirstFault(comment) = comment[i][2]
    BY <1>3, FaultOfFirst
  <2> QED BY <1>5, <2>1
<1>9. \A i \in 1..2 : both[i][2] \in FaultCodes \cup {None}
  BY <1>2, <1>6, <1>7, <1>8
<1>10. FirstFault(both) = None \/ \E i \in 1..2 : FirstFault(both) = both[i][2]
  BY <1>3, FaultOfFirst
<1> QED BY <1>2, <1>9, <1>10

\* The first question comes from an admitted request.
LEMMA ExecuteKeeps ==
  ASSUME SessionInv, Execute
  PROVE  SessionInv'
<1>1. /\ request \in Requests /\ Submit(items, request).reply.outcome = "matched"
      /\ answer = None /\ outcome = None /\ fetch = None
  BY DEF SessionInv, Execute
<1>2. Admit(items, request).outcome # "refused"
  BY <1>1, MatchedIsAdmitted
<1>3. request.adapter # None /\ request.operation \in RuntimeOperations /\ request.value # None
  BY <1>1, <1>2, AdmittedInOrder
<1>4. PICK cursor : /\ ask' = [operation |-> request.operation, adapter |-> request.adapter, ref |-> request.value,
                                cursor |-> cursor, leased |-> response.reply.slots # {}]
                    /\ thread' = IF request.operation = Comments THEN ThreadOf(cursor) ELSE None
  BY DEF Execute, Dispatch
<1>5. /\ ask'.operation = request.operation /\ ask'.adapter = request.adapter /\ ask'.ref = request.value
      /\ ask'.cursor = cursor /\ DOMAIN ask' = Fields
  BY <1>4 DEF Fields
<1>6. stage' = "reading" /\ UNCHANGED <<answer, outcome, fetch>>
  BY DEF Execute, Dispatch
<1>7. InOrder(ask')
  BY <1>3, <1>5 DEF InOrder
<1>8. OutcomeFits'
  BY <1>1, <1>4, <1>5, <1>6 DEF OutcomeFits
<1> QED BY <1>6, <1>7, <1>8 DEF SessionInv

\* The reader goes on only from a page that was accepted, and with comments never in vain.
LEMMA FollowKeeps ==
  ASSUME InOrder(ask), OutcomeFits, fetch = None, Follow, fetch' = None
  PROVE  InOrder(ask') /\ OutcomeFits'
<1>1. outcome # None /\ outcome.reply = "success"
  BY DEF Follow
<1>2. PICK cursor \in CursorsOf(answer, ask) :
         /\ ask' = NextQuestion(cursor)
         /\ outcome' = IF CursorRefused(ask') = None THEN None
                       ELSE [reply |-> CursorRefused(ask'), kept |-> FALSE,
                             record |-> IF ask.operation = Comments THEN "succeeded" ELSE "none"]
         /\ thread' = IF ask.operation \notin Searches /\ cursor.reply # None THEN ThreadOf(cursor) ELSE thread
  BY DEF Follow
<1>3. answer' = None
  BY DEF Follow
<1>4. ask.operation \in Searches \cup {Comments}
  BY DEF CursorsOf
<1>5. answer # None
  BY <1>1, <1>4 DEF OutcomeFits, Searches, Comments
<1>6. outcome = Outcome(answer, ask) /\ Accepts(answer, ask)
  BY <1>1, <1>5, SuccessIsAccepted DEF OutcomeFits
<1>7. /\ InOrder(ask') /\ ask'.cursor = cursor
      /\ ask'.operation = ask.operation
  BY <1>2, NextInOrder
<1>8. CASE ask.operation = Comments
  <2>1. cursor.reply = None => ThreadOf(cursor) = ThreadOf(ask.cursor)
    BY <1>6, <1>8, CommentCursors
  <2>2. CursorRefused(ask') = None
    BY <1>2, <1>6, <1>8, CursorsAreAdmitted
  <2>3. ThreadOf(cursor) = thread'
    BY <1>2, <1>8, <2>1 DEF OutcomeFits, Searches, Comments
  <2> QED BY <1>2, <1>3, <1>7, <1>8, <2>2, <2>3 DEF OutcomeFits
<1>9. CASE ask.operation \in Searches
  <2>1. outcome' # None => outcome'.reply = CursorRefused(ask') /\ CursorRefused(ask') # None
    BY <1>2
  <2>2. outcome' # None => outcome'.reply # "success"
    BY <2>1, RefusalIsFault DEF FaultCodes
  <2> QED BY <1>3, <1>7, <1>9, <2>2 DEF OutcomeFits, Searches, Comments
<1> QED BY <1>4, <1>8, <1>9

\* An answer gets its outcome, and the reader goes on.
LEMMA ReadKeeps ==
  ASSUME SessionInv, Read
  PROVE  SessionInv'
<1>1. InOrder(ask) /\ OutcomeFits /\ fetch = None /\ fetch' = None /\ stage' = "reading"
  BY DEF SessionInv, Read
<1>2. CASE \E a \in Answers(ask) : a # None /\ AnswerTask(a)
  <2>1. /\ ask' = ask /\ thread' = thread
        /\ answer' # None /\ outcome' = Outcome(answer', ask)
    BY <1>2 DEF AnswerTask
  <2> QED BY <1>1, <2>1 DEF SessionInv, OutcomeFits
<1>3. CASE Follow
  BY <1>1, <1>3, FollowKeeps DEF SessionInv
<1> QED BY <1>2, <1>3 DEF Read

\* A reference adapter starts once, and answers or fails once.
LEMMA FetchKeeps ==
  ASSUME SessionInv, Fetch
  PROVE  SessionInv'
<1>1. InOrder(ask) /\ OutcomeFits /\ stage' = "reading"
  BY DEF SessionInv, Fetch
<1>2. ASSUME NEW adapter, NEW material, NEW error, Starts(adapter, material, error)
      PROVE  SessionInv'
  <2>1. /\ ask' = ask /\ thread' = thread /\ answer' = None /\ ask.operation = "content_detail_by_url"
        /\ DOMAIN fetch' = FetchFields
    BY <1>2 DEF Starts, FetchFields
  <2> QED BY <1>1, <2>1 DEF SessionInv, OutcomeFits, Comments
<1>3. ASSUME Moves PROVE SessionInv'
  <2>1. fetch # None /\ fetch.at # "done"
    BY <1>3 DEF Moves, Fetching
  <2>2. /\ ask.operation = "content_detail_by_url" /\ answer = None
        /\ DOMAIN fetch = FetchFields /\ "at" \in FetchFields
    BY <1>1, <2>1 DEF OutcomeFits, FetchFields
  <2>3. CASE UNCHANGED session
    BY <1>1, <1>3, <2>2, <2>3 DEF SessionInv, OutcomeFits, session, Comments, Moves
  <2>4. CASE UNCHANGED <<ask, answer, thread, pages>> /\ fetch'.at = "done"
    BY <1>1, <1>3, <2>2, <2>4 DEF SessionInv, OutcomeFits, Comments, Moves
  <2>5. CASE (\E a : AnswerTask(a)) /\ fetch'.at = "done"
    <3>1. ask' = ask /\ thread' = thread /\ outcome' = Outcome(answer', ask)
      BY <2>5 DEF AnswerTask
    <3> QED BY <1>1, <1>3, <2>2, <2>5, <3>1 DEF SessionInv, OutcomeFits, Comments, Moves
  <2> QED BY <1>3, <2>2, <2>3, <2>4, <2>5 DEF Moves
<1>4. CASE Expires
  <2>1. Moves
    BY <1>4 DEF Expires, Moves
  <2> QED BY <1>3, <2>1
<1>5. CASE \E url \in Urls, material \in Materials : XhsStart(url, material) \/ DouyinStart(url, material)
  BY <1>2, <1>5 DEF XhsStart, DouyinStart
<1> QED BY <1>3, <1>4, <1>5, XhsMoves, DouyinMoves DEF Fetch

\* No other step touches the session, or the request that it will come from.
LEMMA OtherStepsKeep ==
  ASSUME SessionInv, [Next]_vars, ~Execute, ~Read, ~Fetch
  PROVE  SessionInv'
<1>1. CASE UNCHANGED vars
  <2>1. UNCHANGED <<stage, items, request, response, ask, answer, outcome, thread, fetch>>
    BY <1>1 DEF vars, runtime, reading, session
  <2> QED BY <2>1 DEF SessionInv, InOrder, OutcomeFits
<1>2. ASSUME stage # "reading", UNCHANGED <<session, fetch>>, stage' \notin {"served", "reading"}
      PROVE  SessionInv'
  BY <1>2 DEF SessionInv, session
<1>3. CASE Contribute
  BY <1>2, <1>3 DEF Contribute, reading
<1>4. ASSUME NEW i \in Inputs, DecideOn(i) PROVE SessionInv'
  BY <1>2, <1>4 DEF DecideOn, reading
<1>5. ASSUME NEW others \in Registries, RegisterDecided(others) PROVE SessionInv'
  BY <1>2, <1>5 DEF RegisterDecided, reading
<1>6. ASSUME NEW others \in Registries, RegisterOthers(others) PROVE SessionInv'
  BY <1>2, <1>6 DEF RegisterOthers, reading
<1>7. ASSUME NEW r \in Requests, SubmitRequest(r) PROVE SessionInv'
  BY <1>7 DEF SubmitRequest, SessionInv, reading, session
<1>8. CASE Undertake
  BY <1>2, <1>8 DEF Undertake
<1>9. CASE Try
  BY <1>2, <1>9 DEF Try
<1>10. CASE Govern
  BY <1>2, <1>10 DEF Govern, reading
<1>11. ASSUME NEW x \in Rehearsals, Rehearse(x) PROVE SessionInv'
  BY <1>2, <1>11 DEF Rehearse, reading
<1>12. ASSUME NEW s \in Sources, Alter(s) PROVE SessionInv'
  BY <1>2, <1>12 DEF Alter, reading
<1>13. ASSUME NEW a \in GateArguments, DecideRelease(a) PROVE SessionInv'
  BY <1>2, <1>13 DEF DecideRelease, reading
<1>14. ASSUME NEW revision \in Revisions, NEW mentions \in SUBSET {revision}, RunCases(revision, mentions)
       PROVE  SessionInv'
  BY <1>2, <1>14 DEF RunCases, reading
<1>15. ASSUME NEW c \in Certifications, NEW own \in BOOLEAN, Certify(c, own) PROVE SessionInv'
  BY <1>2, <1>15 DEF Certify, reading
<1> QED
  BY <1>1, <1>3, <1>4, <1>5, <1>6, <1>7, <1>8, <1>9, <1>10, <1>11, <1>12, <1>13, <1>14, <1>15 DEF Next

\* In every state the question is in order, and the answer has the outcome that it deserves.
LEMMA SessionInvariance == Spec => []SessionInv
<1>1. Init => SessionInv
  BY DEF Init, SessionInit, FetchInit, SessionInv
<1>2. SessionInv /\ [Next]_vars => SessionInv'
  <2> SUFFICES ASSUME SessionInv, [Next]_vars PROVE SessionInv'
    OBVIOUS
  <2>1. CASE ~Execute /\ ~Read /\ ~Fetch
    BY <2>1, OtherStepsKeep
  <2>2. CASE Execute
    BY <2>2, ExecuteKeeps
  <2>3. CASE Read
    BY <2>3, ReadKeeps
  <2>4. CASE Fetch
    BY <2>4, FetchKeeps
  <2> QED BY <2>1, <2>2, <2>3, <2>4
<1> QED BY <1>1, <1>2, PTL DEF Spec

\* The record of an answer is a success, a failure or none that is valid.
LEMMA RecordOfAnswer ==
  ASSUME NEW p, NEW q
  PROVE  Outcome(p, q).record \in {"succeeded", "failed", "invalid"} /\ Outcome(p, q).kept = BatchKeeps(p, q)
  BY DEF Outcome, Finish

\* A reader who goes on from page to page stays in the thread that he entered last, and with
\* comments of that thread; and every cursor out of a page of comments, or out of a page that
\* a batch publishes, is one that the next request admits.  This is so for any requests, for
\* any answers, and in sessions of any length.
THEOREM PagesGoOn == Spec => []PagesContinue
<1>1. SessionInv => PagesContinue
  <2>1. SUFFICES ASSUME SessionInv, stage = "reading" PROVE PagesContinue
    BY DEF PagesContinue
  <2>2. InOrder(ask) /\ OutcomeFits
    BY <2>1 DEF SessionInv
  <2>3. ASSUME ask.operation = Comments
        PROVE  /\ ThreadOf(ask.cursor) = thread
               /\ outcome # None => outcome.record \in {"succeeded", "failed", "invalid"} /\ answer # None
    BY <2>2, <2>3, RecordOfAnswer DEF OutcomeFits
  <2>4. ASSUME answer # None, outcome.reply = "success"
        PROVE  /\ ask.operation = Comments /\ thread # None => \A i \in Items(answer) : Binds(i, thread)
               /\ \A cursor \in CursorsOf(answer, ask) :
                    /\ ask.operation = Comments \/ outcome.kept => CursorRefused(NextQuestion(cursor)) = None
                    /\ outcome.kept => BatchAsks(NextQuestion(cursor))
    <3>1. Accepts(answer, ask) /\ outcome.kept = BatchKeeps(answer, ask)
      BY <2>2, <2>4, SuccessIsAccepted, RecordOfAnswer DEF OutcomeFits
    <3>2. ASSUME ask.operation = Comments, thread # None PROVE \A i \in Items(answer) : Binds(i, thread)
      <4>1. CommentsAnswer(answer, ask)
        BY <3>1, <3>2 DEF Accepts, Fits, Searches, Comments
      <4>2. StaysInThread(answer, thread)
        BY <2>2, <3>2, <4>1 DEF CommentsAnswer, CommentsAnswerIn, OutcomeFits
      <4> QED BY <3>2, <4>2 DEF StaysInThread, StaysInThreadOfItems
    <3> QED BY <2>2, <3>1, <3>2, CursorsAreAdmitted
  <2> QED BY <2>3, <2>4 DEF PagesContinue
<1> QED BY <1>1, SessionInvariance, PTL

-----------------------------------------------------------------------------
(* Media assets *)

\* What was downloaded and what the audit tells of it are the same number of bytes, if any.
LEMMA AuditedBytes ==
  ASSUME NEW p, NEW q, MediaAnswers(p, q)
  PROVE  /\ BytesOf(p) = IF p.audit = None THEN None ELSE p.audit.bytes
         /\ BytesOf(p) # None => p.status = "complete" /\ p.outcome = "downloaded_bytes"
         /\ p.status = "complete" /\ p.outcome = "downloaded_bytes" => BytesOf(p) \in Nat
<1>1. MediaAudit(p) /\ MediaStatus(p, PolicyOf(q))
  BY DEF MediaAnswers
<1>2. CASE p.status = "complete"
  <2>1. p.media # None /\ MediaMetadata(p.media.metadata, p.outcome)
    BY <1>2 DEF MediaAnswers, MediaObject
  <2>2. CASE p.outcome = "downloaded_bytes"
    <3>1. p.media.metadata # None /\ Downloaded(p.media.metadata.facts)
      BY <2>1, <2>2 DEF MediaMetadata, Downloaded
    <3>2. p.media.metadata.facts # None /\ p.media.metadata.facts.bytes \in Nat
      BY <3>1 DEF Downloaded
    <3>3. BytesOf(p) = p.media.metadata.facts.bytes
      BY <2>1, <3>1, <3>2 DEF BytesOf
    <3>4. p.audit # None /\ [f \in {"bytes", "digest", "family"} |-> p.audit[f]] = p.media.metadata.facts
      BY <1>1, <2>2, <3>1 DEF MediaAudit
    <3>5. p.media.metadata.facts["bytes"] = p.audit["bytes"]
      BY <3>4
    <3> QED BY <1>2, <2>2, <3>2, <3>3, <3>4, <3>5
  <2>3. CASE p.outcome # "downloaded_bytes"
    <3>1. BytesOf(p) = None
      BY <2>1, <2>3 DEF MediaMetadata, BytesOf
    <3> QED BY <1>1, <2>3, <3>1 DEF MediaAudit
  <2> QED BY <2>2, <2>3
<1>3. CASE p.status # "complete"
  <2>1. p.media = None /\ p.outcome = None
    BY <1>1, <1>3 DEF MediaAnswers, MediaStatus
  <2>2. BytesOf(p) = None /\ p.audit = None
    BY <1>1, <2>1, OutcomesAssumption DEF BytesOf, MediaAudit, FetchOutcomes
  <2> QED BY <1>3, <2>2
<1> QED BY <1>2, <1>3

\* A media asset comes within the policy that was asked for, and without one not at all.
LEMMA MediaWithinPolicy ==
  ASSUME NEW p, NEW q, MediaAnswers(p, q)
  PROVE  LET bytes == BytesOf(p)
             audited == IF p.audit = None THEN None ELSE p.audit.bytes
         IN /\ bytes = audited
            /\ bytes # None =>
                 /\ IF q.cursor = None THEN FALSE ELSE q.cursor.download
                 /\ q.cursor.mode \in {"download_if_allowed", "download_required"}
                 /\ q.cursor.max # None => bytes <= q.cursor.max
            /\ q.cursor # None =>
                 /\ q.cursor.mode = "download_required" /\ p.status = "complete" => bytes # None
                 /\ p.content \in MediaTypes \ ToSet(q.cursor.types) =>
                      p.media = None /\ p.class = "fetch_policy_denied"
<1> DEFINE bytes == BytesOf(p)
           policy == PolicyOf(q)
<1>1. /\ bytes = IF p.audit = None THEN None ELSE p.audit.bytes
      /\ bytes # None => p.status = "complete" /\ p.outcome = "downloaded_bytes"
      /\ p.status = "complete" /\ p.outcome = "downloaded_bytes" => bytes # None
  BY AuditedBytes, OutcomesAssumption
<1>2. MediaStatus(p, policy) /\ (p.status = "complete" => PolicyAllows(policy, p.outcome, p.content, bytes))
  BY DEF MediaAnswers
<1>3. q.cursor = None => policy.download = FALSE
  BY DEF PolicyOf, DefaultPolicy
<1>4. q.cursor # None => policy = q.cursor
  BY DEF PolicyOf
<1>5. p.status # "complete" => p.media = None
  BY DEF MediaAnswers
<1> HIDE DEF bytes, policy
<1>6. ASSUME bytes # None
      PROVE  /\ q.cursor # None /\ q.cursor.download = TRUE
             /\ q.cursor.mode \in {"download_if_allowed", "download_required"}
             /\ q.cursor.max # None => bytes <= q.cursor.max
  BY <1>1, <1>2, <1>3, <1>4, <1>6 DEF PolicyAllows
<1>7. ASSUME q.cursor # None, q.cursor.mode = "download_required", p.status = "complete"
      PROVE  bytes # None
  BY <1>1, <1>2, <1>4, <1>7 DEF PolicyAllows, MediaStatus, FetchOutcomes
<1>8. ASSUME q.cursor # None, p.content \in MediaTypes \ ToSet(q.cursor.types)
      PROVE  p.media = None /\ p.class = "fetch_policy_denied"
  BY <1>2, <1>4, <1>5, <1>8 DEF PolicyAllows, MediaStatus
<1> QED BY <1>1, <1>6, <1>7, <1>8 DEF bytes

\* An answer that is recorded as a success was accepted.
LEMMA RecordedIsAccepted ==
  ASSUME NEW p, NEW q, Outcome(p, q).record = "succeeded"
  PROVE  Accepts(p, q)
<1>1. Outcome(p, q).reply = "success"
  BY DEF Outcome, Finish
<1> QED BY <1>1, SuccessIsAccepted

\* What is recorded as a success is an answer to the question, within its policy.
LEMMA RecordedFits ==
  ASSUME NEW p, NEW q, Outcome(p, q).record = "succeeded"
  PROVE  /\ q.operation \in BatchOperations => p.operation = q.operation /\ p.target.ref = q.ref
         /\ q.operation = "media_asset_fetch_by_ref" => MediaAnswers(p, q)
<1>1. Fits(p, q)
  BY RecordedIsAccepted DEF Accepts
<1>2. CASE q.operation \in Searches
  BY <1>1, <1>2 DEF Fits, CollectionAnswers, AboutTarget, Searches, Comments
<1>3. CASE q.operation = Comments
  BY <1>1, <1>3 DEF Fits, CommentsAnswer, CommentsAnswerIn, AboutTarget, Searches, Comments
<1>4. CASE q.operation = "creator_profile_by_id"
  BY <1>1, <1>4 DEF Fits, CreatorAnswers, AboutTarget, Searches, Comments
<1>5. CASE q.operation = "media_asset_fetch_by_ref"
  BY <1>1, <1>5 DEF Fits, MediaAnswers, AboutTarget, Searches, Comments
<1> QED BY <1>2, <1>3, <1>4, <1>5 DEF BatchOperations

-----------------------------------------------------------------------------
(* What goes wrong on the way of a fetch *)

\* The errors that the XHS adapter meets after it has looked at the request: only the refusal of
\* the interface tells the platform's reasons.
XhsKnown == {e \in XhsErrors : e.told => e.code = XhsFailed.code}

\* An XHS error from the list of errors, but for one that tells too much, is one of these.
LEMMA XhsErrorsAreKnown ==
  /\ None \notin XhsKnown
  /\ XhsUnsigned \in XhsKnown /\ XhsFailed \in XhsKnown /\ XhsMissing \in XhsKnown
  /\ XhsInvalid \in XhsKnown /\ XhsMismatch \in XhsKnown /\ Unexpected \in XhsKnown
  /\ PlatformError("xhs_browser_command_failed") \in XhsKnown
  /\ PlatformError("xhs_browser_javascript_disabled") \in XhsKnown
  /\ \A json \in BOOLEAN : [XhsUnsigned EXCEPT !.json = json] \in XhsKnown
  /\ \A told, json \in BOOLEAN : [XhsFailed EXCEPT !.told = told, !.json = json] \in XhsKnown
<1>1. None \notin XhsKnown
  BY XhsAssumption DEF XhsKnown
<1>2. /\ XhsUnsigned \in XhsKnown /\ XhsFailed \in XhsKnown /\ XhsMissing \in XhsKnown
      /\ XhsInvalid \in XhsKnown /\ XhsMismatch \in XhsKnown /\ Unexpected \in XhsKnown
      /\ PlatformError("xhs_browser_command_failed") \in XhsKnown
      /\ PlatformError("xhs_browser_javascript_disabled") \in XhsKnown
  BY DEF XhsKnown, XhsErrors, ErrorsOf, PlatformError, Unexpected, XhsUnsigned, XhsFailed, XhsMissing, XhsInvalid,
     XhsMismatch
<1>3. ASSUME NEW json \in BOOLEAN PROVE [XhsUnsigned EXCEPT !.json = json] \in XhsKnown
  BY DEF XhsKnown, XhsErrors, ErrorsOf, PlatformError, Unexpected, XhsUnsigned
<1>4. ASSUME NEW told \in BOOLEAN, NEW json \in BOOLEAN
      PROVE  [XhsFailed EXCEPT !.told = told, !.json = json] \in XhsKnown
  BY DEF XhsKnown, XhsErrors, ErrorsOf, PlatformError, Unexpected, XhsFailed
<1> QED BY <1>1, <1>2, <1>3, <1>4

\* An exchange with a source ends with an object, with the platform's error or unexpectedly.
LEMMA ExchangeEnds ==
  ASSUME NEW reply, NEW code
  PROVE  /\ ExchangeError(reply, code) \in {PlatformError(code), Unexpected, None}
         /\ reply.kind \in NoObject => ExchangeError(reply, code) \in {PlatformError(code), Unexpected}
  BY DEF ExchangeError, NoObject

\* A script that is given to the browser fails in one of three ways.
LEMMA ScriptEnds ==
  ASSUME NEW reply, NEW failed, NEW disabled
  PROVE  ScriptError(reply, failed, disabled) \in {PlatformError(failed), PlatformError(disabled), Unexpected, None}
  BY DEF ScriptError

\* A request that is not signed is so for a known reason.
LEMMA XhsHeadersKnown ==
  ASSUME NEW reply \in XhsSigns
  PROVE  XhsHeadersError(reply) \in XhsKnown \cup {None}
<1> DEFINE checks == << <<~reply.ok, [XhsUnsigned EXCEPT !.json = reply.json]>>,
                        <<reply.data = "none", XhsUnsigned>> >>
           exchange == ExchangeError(reply, XhsUnsigned.code)
<1>1. PlatformError(XhsUnsigned.code) = XhsUnsigned
  BY DEF XhsUnsigned, PlatformError
<1>2. exchange \in {XhsUnsigned, Unexpected, None} /\ (reply.kind \in NoObject => exchange \in {XhsUnsigned, Unexpected})
  BY <1>1, ExchangeEnds
<1>3. DOMAIN checks = 1..2
  OBVIOUS
<1>4. checks[1][2] = [XhsUnsigned EXCEPT !.json = reply.json] /\ checks[2][2] = XhsUnsigned
  OBVIOUS
<1>5. XhsSignError(reply) = IF exchange # None THEN exchange ELSE FirstFault(checks)
  BY DEF XhsSignError
<1>6. XhsHeadersError(reply) \in
         {XhsUnsigned, IF XhsSignError(reply) # None THEN Wrapped(XhsSignError(reply), XhsUnsigned.code) ELSE None}
  BY DEF XhsHeadersError
<1> HIDE DEF checks, exchange
<1>7. XhsSignError(reply) \in XhsKnown \cup {None}
  <2>1. CASE exchange # None
    BY <1>2, <1>5, <2>1, XhsErrorsAreKnown
  <2>2. CASE exchange = None
    <3>1. reply.json \in BOOLEAN
      BY <1>2, <2>2, XhsAssumption, XhsErrorsAreKnown
    <3>2. checks[1][2] \in XhsKnown /\ checks[2][2] \in XhsKnown
      BY <1>4, <3>1, XhsErrorsAreKnown
    <3>3. FirstFault(checks) = None \/ \E i \in 1..2 : FirstFault(checks) = checks[i][2]
      BY <1>3, FaultOfFirst
    <3> QED BY <1>5, <2>2, <3>2, <3>3
  <2> QED BY <2>1, <2>2
<1>8. Wrapped(XhsSignError(reply), XhsUnsigned.code) \in {XhsUnsigned, XhsSignError(reply)}
  BY <1>1 DEF Wrapped
<1> QED BY <1>6, <1>7, <1>8, XhsErrorsAreKnown

\* What the interface of the platform says is a known reason not to take its answer, or it sends
\* the post that was asked for.
LEMMA XhsDetailKnown ==
  ASSUME NEW reply \in XhsDetails
  PROVE  /\ XhsDetailError(reply) \in XhsKnown \cup {None}
         /\ XhsDetailError(reply) = None => reply.items[Min(XhsAsked(reply.items))].id = "asked"
<1> DEFINE told == reply.coded = "code" \/ reply.data
           json == ~told \/ reply.json
           refusal == << <<reply.success = FALSE \/ reply.coded # "no",
                           [XhsFailed EXCEPT !.told = told, !.json = json]>>,
                         <<reply.success = TRUE /\ ~reply.data, XhsFailed>> >>
           its == reply.items
           cards == << <<XhsAsked(its) # {}, None>>, <<its = <<>> \/ XhsCards(its) # {}, XhsMissing>>,
                       <<\E n \in DOMAIN its : its[n].kind = "bad", XhsFailed>>, <<TRUE, XhsMissing>> >>
           exchange == ExchangeError(reply, XhsFailed.code)
<1>1. PlatformError(XhsFailed.code) = XhsFailed
  BY DEF XhsFailed, PlatformError
<1>2. exchange \in {XhsFailed, Unexpected, None} /\ (reply.kind \in NoObject => exchange \in {XhsFailed, Unexpected})
  BY <1>1, ExchangeEnds
<1>3. DOMAIN refusal = 1..2
  OBVIOUS
<1>31. DOMAIN cards = 1..4
  OBVIOUS
<1>4. refusal[1][2] = [XhsFailed EXCEPT !.told = told, !.json = json] /\ refusal[2][2] = XhsFailed
  OBVIOUS
<1>5. cards[1][2] = None /\ cards[2][2] = XhsMissing /\ cards[3][2] = XhsFailed /\ cards[4][2] = XhsMissing
  OBVIOUS
<1>51. (cards[1][1] <=> XhsAsked(its) # {}) /\ cards[4][1]
  OBVIOUS
<1>6. XhsDetailError(reply) = IF exchange # None THEN Wrapped(exchange, XhsFailed.code)
                              ELSE IF FirstFault(refusal) # None THEN FirstFault(refusal) ELSE FirstFault(cards)
  BY DEF XhsDetailError, XhsRefusal, XhsCardError
<1>7. told \in BOOLEAN /\ json \in BOOLEAN
  OBVIOUS
<1> HIDE DEF told, json, refusal, cards, exchange
<1>8. CASE exchange # None
  <2>1. Wrapped(exchange, XhsFailed.code) \in {XhsFailed, exchange}
    BY <1>1 DEF Wrapped
  <2> QED BY <1>2, <1>6, <1>8, <2>1, XhsErrorsAreKnown
<1>9. CASE exchange = None
  <2>1. FirstFault(refusal) = None \/ \E i \in 1..2 : FirstFault(refusal) = refusal[i][2]
    BY <1>3, FaultOfFirst
  <2>2. refusal[1][2] \in XhsKnown /\ refusal[2][2] \in XhsKnown
    BY <1>4, <1>7, XhsErrorsAreKnown
  <2>3. FirstFault(refusal) \in XhsKnown \cup {None}
    BY <2>1, <2>2
  <2>4. FirstFault(cards) = None \/ \E i \in 1..4 : FirstFault(cards) = cards[i][2]
    BY <1>31, FaultOfFirst
  <2>41. \A i \in 1..4 : cards[i][2] \in XhsKnown \cup {None} /\ (cards[i][2] = None => i = 1)
    <3>1. \A i \in 1..4 : i = 1 \/ i = 2 \/ i = 3 \/ i = 4
      OBVIOUS
    <3> QED BY <1>5, <3>1, XhsErrorsAreKnown
  <2>5. FirstFault(cards) \in XhsKnown \cup {None}
    BY <2>4, <2>41
  <2>6. ASSUME FirstFault(cards) = None PROVE its[Min(XhsAsked(its))].id = "asked"
    <3> DEFINE failing == {i \in DOMAIN cards : cards[i][1]}
    <3>1. failing \in SUBSET Nat /\ failing # {}
      BY <1>31, <1>51
    <3>2. Min(failing) \in failing
      BY <3>1, LeastIsIn
    <3>3. FirstFault(cards) = cards[Min(failing)][2]
      BY <3>1 DEF FirstFault
    <3>4. Min(failing) \in 1..4 /\ cards[Min(failing)][1]
      BY <1>31, <3>2
    <3> HIDE DEF failing
    <3>5. Min(failing) = 1
      BY <2>41, <2>6, <3>3, <3>4
    <3>6. XhsAsked(its) # {}
      BY <1>51, <3>4, <3>5
    <3>7. IsList(its)
      BY <1>2, <1>9, XhsAssumption, XhsErrorsAreKnown
    <3>8. DOMAIN its \subseteq Nat
      BY <3>7 DEF IsList
    <3>9. XhsAsked(its) \in SUBSET Nat
      BY <3>8 DEF XhsAsked, XhsCards
    <3>10. Min(XhsAsked(its)) \in XhsAsked(its)
      BY <3>6, <3>9, LeastIsIn
    <3> QED BY <3>10 DEF XhsAsked
  <2> QED BY <1>6, <1>9, <2>3, <2>5, <2>6
<1> QED BY <1>8, <1>9

\* The state of a page has the post that was asked for, or that is a known reason to go on.
LEMMA XhsStateKnown ==
  ASSUME NEW state
  PROVE  /\ XhsStateError(state) \in XhsKnown \cup {None}
         /\ XhsStateError(state) = None => XhsNoteCard(state.note).id = "asked"
  BY XhsErrorsAreKnown DEF XhsStateError, XhsNoteCard

\* So for the page itself ...
LEMMA XhsPageKnown ==
  ASSUME NEW reply
  PROVE  /\ XhsPageError(reply) \in XhsKnown \cup {None}
         /\ XhsPageError(reply) = None => XhsNoteCard(reply.note).id = "asked"
  BY XhsErrorsAreKnown, XhsStateKnown DEF XhsPageError

\* ... for a script in the browser ...
LEMMA XhsScriptKnown ==
  ASSUME NEW reply
  PROVE  /\ XhsScriptError(reply) \in XhsKnown \cup {None}
         /\ XhsScriptError(reply) # None => XhsScriptError(reply).code # XhsMissing.code
<1>1. XhsScriptError(reply) \in {PlatformError("xhs_browser_command_failed"), PlatformError("xhs_browser_javascript_disabled"),
                                Unexpected, None}
  BY ScriptEnds DEF XhsScriptError
<1>2. \A e \in {PlatformError("xhs_browser_command_failed"), PlatformError("xhs_browser_javascript_disabled"), Unexpected} :
         e.code # XhsMissing.code
  BY DEF PlatformError, Unexpected, XhsMissing
<1> QED BY <1>1, <1>2, XhsErrorsAreKnown

\* ... and for the page in the browser.
LEMMA XhsTabKnown ==
  ASSUME NEW reply
  PROVE  /\ XhsTabStateError(reply) \in XhsKnown \cup {None}
         /\ XhsTabStateError(reply) = None => XhsNoteCard(reply.note).id = "asked"
<1> DEFINE matching == << <<XhsBridgeId(reply.note) = "", XhsInvalid>>, <<XhsBridgeId(reply.note) # "asked", XhsMismatch>> >>
<1>1. DOMAIN matching = 1..2
  OBVIOUS
<1>2. matching[1][2] = XhsInvalid /\ matching[2][2] = XhsMismatch
  OBVIOUS
<1>3. XhsMatchError(reply) \in {XhsInvalid, XhsMismatch, FirstFault(matching)}
  BY DEF XhsMatchError
<1> HIDE DEF matching
<1>4. FirstFault(matching) = None \/ \E i \in 1..2 : FirstFault(matching) = matching[i][2]
  BY <1>1, FaultOfFirst
<1>41. \A i \in 1..2 : matching[i][2] \in XhsKnown
  <2>1. \A i \in 1..2 : i = 1 \/ i = 2
    OBVIOUS
  <2> QED BY <1>2, <2>1, XhsErrorsAreKnown
<1>5. XhsMatchError(reply) \in XhsKnown \cup {None}
  BY <1>3, <1>4, <1>41, XhsErrorsAreKnown
<1> QED BY <1>5, XhsErrorsAreKnown, XhsStateKnown, XhsScriptKnown DEF XhsTabStateError

\* The errors that the Douyin adapter meets after it has looked at the request.
DouyinKnown == {e \in DouyinErrors : e.told => e.code = DouyinFailed.code}

\* The same of the errors of Douyin.
LEMMA DouyinErrorsAreKnown ==
  /\ None \notin DouyinKnown
  /\ DouyinUnsigned \in DouyinKnown /\ DouyinFailed \in DouyinKnown /\ DouyinMissing \in DouyinKnown
  /\ DouyinInvalid \in DouyinKnown /\ Unexpected \in DouyinKnown
  /\ PlatformError("douyin_browser_command_failed") \in DouyinKnown
  /\ PlatformError("douyin_browser_javascript_disabled") \in DouyinKnown
  /\ \A json \in BOOLEAN : /\ [DouyinUnsigned EXCEPT !.json = json] \in DouyinKnown
                           /\ [DouyinFailed EXCEPT !.told = TRUE, !.json = json] \in DouyinKnown
<1>1. None \notin DouyinKnown
  BY DouyinAssumption DEF DouyinKnown
<1>2. /\ DouyinUnsigned \in DouyinKnown /\ DouyinFailed \in DouyinKnown /\ DouyinMissing \in DouyinKnown
      /\ DouyinInvalid \in DouyinKnown /\ Unexpected \in DouyinKnown
      /\ PlatformError("douyin_browser_command_failed") \in DouyinKnown
      /\ PlatformError("douyin_browser_javascript_disabled") \in DouyinKnown
  BY DEF DouyinKnown, DouyinErrors, ErrorsOf, PlatformError, Unexpected, DouyinUnsigned, DouyinFailed, DouyinMissing,
     DouyinInvalid
<1>3. ASSUME NEW json \in BOOLEAN PROVE [DouyinUnsigned EXCEPT !.json = json] \in DouyinKnown
  BY DEF DouyinKnown, DouyinErrors, ErrorsOf, PlatformError, Unexpected, DouyinUnsigned
<1>4. ASSUME NEW json \in BOOLEAN PROVE [DouyinFailed EXCEPT !.told = TRUE, !.json = json] \in DouyinKnown
  BY DEF DouyinKnown, DouyinErrors, ErrorsOf, PlatformError, Unexpected, DouyinFailed
<1> QED BY <1>1, <1>2, <1>3, <1>4

\* A request that is not signed is so for a known reason.
LEMMA DouyinParamsKnown ==
  ASSUME NEW reply \in DouyinSigns
  PROVE  DouyinParamsError(reply) \in DouyinKnown \cup {None}
<1> DEFINE checks == << <<~reply.ok, [DouyinUnsigned EXCEPT !.json = reply.json]>>,
                        <<reply.data = "none", DouyinUnsigned>> >>
           exchange == ExchangeError(reply, DouyinUnsigned.code)
<1>1. PlatformError(DouyinUnsigned.code) = DouyinUnsigned
  BY DEF DouyinUnsigned, PlatformError
<1>2. /\ exchange \in {DouyinUnsigned, Unexpected, None}
      /\ reply.kind \in NoObject => exchange \in {DouyinUnsigned, Unexpected}
  BY <1>1, ExchangeEnds
<1>3. DOMAIN checks = 1..2
  OBVIOUS
<1>4. checks[1][2] = [DouyinUnsigned EXCEPT !.json = reply.json] /\ checks[2][2] = DouyinUnsigned
  OBVIOUS
<1>5. DouyinSignError(reply) = IF exchange # None THEN exchange ELSE FirstFault(checks)
  BY DEF DouyinSignError
<1>6. DouyinParamsError(reply) \in
         {DouyinUnsigned, IF DouyinSignError(reply) # None THEN Wrapped(DouyinSignError(reply), DouyinUnsigned.code) ELSE None}
  BY DEF DouyinParamsError
<1> HIDE DEF checks, exchange
<1>7. DouyinSignError(reply) \in DouyinKnown \cup {None}
  <2>1. CASE exchange # None
    BY <1>2, <1>5, <2>1, DouyinErrorsAreKnown
  <2>2. CASE exchange = None
    <3>1. reply.json \in BOOLEAN
      BY <1>2, <2>2, DouyinAssumption, DouyinErrorsAreKnown
    <3>2. checks[1][2] \in DouyinKnown /\ checks[2][2] \in DouyinKnown
      BY <1>4, <3>1, DouyinErrorsAreKnown
    <3>3. FirstFault(checks) = None \/ \E i \in 1..2 : FirstFault(checks) = checks[i][2]
      BY <1>3, FaultOfFirst
    <3> QED BY <1>5, <2>2, <3>2, <3>3
  <2> QED BY <2>1, <2>2
<1>8. Wrapped(DouyinSignError(reply), DouyinUnsigned.code) \in {DouyinUnsigned, DouyinSignError(reply)}
  BY <1>1 DEF Wrapped
<1> QED BY <1>6, <1>7, <1>8, DouyinErrorsAreKnown

\* What the interface of the platform says may be a known reason not to take its answer ...
LEMMA DouyinDetailKnown ==
  ASSUME NEW reply \in DouyinDetails
  PROVE  /\ DouyinDetailError(reply) \in DouyinKnown \cup {None}
         /\ DouyinDetailError(reply) = None => reply.aweme.id # None
<1> DEFINE checks == << <<reply.refused, [DouyinFailed EXCEPT !.told = TRUE, !.json = reply.json]>>,
                        <<reply.aweme = None, DouyinMissing>> >>
<1>1. DOMAIN checks = 1..2
  OBVIOUS
<1>2. checks[1][2] = [DouyinFailed EXCEPT !.told = TRUE, !.json = reply.json] /\ checks[2][2] = DouyinMissing
  OBVIOUS
<1>21. checks[2][1] <=> reply.aweme = None
  OBVIOUS
<1>3. CASE reply.kind \in NoObject
  BY <1>3, DouyinErrorsAreKnown DEF DouyinDetailError, NoObject
<1>4. CASE reply.kind \notin NoObject
  <2>1. DouyinDetailError(reply) = FirstFault(checks)
    BY <1>4 DEF DouyinDetailError, NoObject
  <2> HIDE DEF checks
  <2>2. checks[1][2] \in DouyinKnown /\ checks[2][2] \in DouyinKnown
    BY <1>2, <1>4, DouyinAssumption, DouyinErrorsAreKnown
  <2>3. \A i \in 1..2 : checks[i][2] \in DouyinKnown
    <3>1. \A i \in 1..2 : i = 1 \/ i = 2
      OBVIOUS
    <3> QED BY <2>2, <3>1
  <2>4. \/ FirstFault(checks) = None /\ \A i \in 1..2 : ~checks[i][1]
        \/ \E i \in 1..2 : FirstFault(checks) = checks[i][2]
    BY <1>1, FaultOfFirst
  <2>5. FirstFault(checks) = None => ~checks[2][1]
    <3>1. None \notin DouyinKnown
      BY DouyinErrorsAreKnown
    <3> QED BY <2>3, <2>4, <3>1
  <2>6. reply.aweme # None => reply.aweme.id # None
    BY <1>4, DouyinAssumption
  <2> QED BY <1>21, <2>1, <2>3, <2>4, <2>5, <2>6
<1> QED BY <1>3, <1>4

\* ... as what a script in the browser brings ...
LEMMA DouyinScriptKnown ==
  ASSUME NEW reply
  PROVE  /\ DouyinScriptError(reply) \in DouyinKnown \cup {None}
         /\ DouyinScriptError(reply) # None => DouyinScriptError(reply).code # DouyinMissing.code
<1>1. DouyinScriptError(reply) \in {PlatformError("douyin_browser_command_failed"),
                                   PlatformError("douyin_browser_javascript_disabled"), Unexpected, None}
  BY ScriptEnds DEF DouyinScriptError
<1>2. \A e \in {PlatformError("douyin_browser_command_failed"), PlatformError("douyin_browser_javascript_disabled"),
               Unexpected} : e.code # DouyinMissing.code
  BY DEF PlatformError, Unexpected, DouyinMissing
<1> QED BY <1>1, <1>2, DouyinErrorsAreKnown

\* ... or the other steps there do; and no post is taken there but the one that was asked for.
LEMMA DouyinRecoveryKnown ==
  ASSUME NEW reply
  PROVE  /\ DouyinStateError(reply) \in DouyinKnown \cup {None}
         /\ DouyinContextError(reply) \in DouyinKnown \cup {None}
         /\ DouyinResignError(reply) \in DouyinKnown \cup {None}
         /\ DouyinRequestError(reply) \in DouyinKnown \cup {None}
         /\ DouyinStateError(reply) = None => DouyinPicked(reply.aweme)
         /\ DouyinRequestError(reply) = None => DouyinPicked(reply.aweme)
<1>1. DouyinScriptError(reply) \in DouyinKnown \cup {None}
  BY DouyinScriptKnown
<1>2. DouyinStateError(reply) \in DouyinKnown \cup {None} /\ (DouyinStateError(reply) = None => DouyinPicked(reply.aweme))
  BY <1>1, DouyinErrorsAreKnown DEF DouyinStateError
<1>3. DouyinContextError(reply) \in DouyinKnown \cup {None}
  BY <1>1, DouyinErrorsAreKnown DEF DouyinContextError
<1>4. DouyinResignError(reply) \in DouyinKnown \cup {None}
  BY DouyinErrorsAreKnown DEF DouyinResignError
<1>5. DouyinRequestError(reply) \in DouyinKnown \cup {None} /\ (DouyinRequestError(reply) = None => DouyinPicked(reply.aweme))
  BY <1>1, DouyinErrorsAreKnown DEF DouyinRequestError
<1> QED BY <1>2, <1>3, <1>4, <1>5

-----------------------------------------------------------------------------
(* The way of a fetch: the inductive invariant *)

\* The codes that an adapter must not report too early.
Wanting == {XhsUnsigned.code, XhsFailed.code, XhsMissing.code, DouyinUnsigned.code, DouyinFailed.code, DouyinMissing.code}

\* What a fetch may report when it has asked these sources: FetchIsThorough, of the code.
Reports(code, seen) ==
  /\ code \in InputCodes => seen = {}
  /\ code \in {XhsUnsigned.code, XhsFailed.code, XhsMissing.code} => {"page", "tabs"} \subseteq seen
  /\ code \in {DouyinUnsigned.code, DouyinFailed.code} => "tabs" \in seen
  /\ code \in {XhsMissing.code, DouyinMissing.code} /\ (IF fetch.error = None THEN FALSE ELSE fetch.error.told) =>
       "state" \in seen

\* Where the XHS adapter stands, it has asked the sources before, and knows what went wrong.
XhsWay ==
  /\ fetch.at \in {"sign", "detail"} => fetch.error = None
  /\ fetch.at \in {"page", "tabs", "state"} => fetch.error \in XhsKnown
  /\ fetch.at \in {"tabs", "state"} => fetch.page \in XhsKnown /\ "page" \in fetch.asked
  /\ fetch.at = "state" => "tabs" \in fetch.asked

\* So does the Douyin adapter.
DouyinWay ==
  /\ fetch.at \in {"sign", "detail"} => fetch.error = None
  /\ fetch.at \in {"tabs", "state", "context", "resign", "request"} => fetch.error \in DouyinKnown
  /\ fetch.at \in {"state", "context", "resign", "request"} => "tabs" \in fetch.asked
  /\ fetch.at \in {"context", "resign", "request"} => "state" \in fetch.asked

\* A post that the runtime takes without a hint; the question does not matter for it.
Posted(p) == p.hint = None /\ ContentAnswers(p, None)

FetchInv ==
  fetch # None =>
    /\ answer # None => Posted(answer)
    /\ fetch.at # "done" => fetch.by = None /\ outcome = None
    /\ fetch.at # "done" /\ fetch.adapter = "xhs" => XhsWay
    /\ fetch.at # "done" /\ fetch.adapter = "douyin" => DouyinWay
    /\ fetch.at = "done" =>
         /\ Reports(outcome.reply, fetch.asked)
         /\ fetch.by # None /\ ~(fetch.adapter = "douyin" /\ fetch.by = "detail") => answer.normalized.id = "asked"

\* The codes of one adapter are not those of the other, nor those of a request at fault.
LEMMA CodesDiffer ==
  /\ \A e \in XhsKnown : e.code \notin InputCodes \cup {DouyinUnsigned.code, DouyinFailed.code, DouyinMissing.code}
  /\ \A e \in DouyinKnown : e.code \notin InputCodes \cup {XhsUnsigned.code, XhsFailed.code, XhsMissing.code}
  /\ Unexpected.code \notin InputCodes \cup Wanting /\ "execution_timeout" \notin InputCodes \cup Wanting
  /\ "success" \notin InputCodes \cup Wanting /\ "envelope_not_json_serializable" \notin InputCodes \cup Wanting
  /\ ReplyCodes \cap (InputCodes \cup Wanting) = {}
  /\ InputCodes \cap Wanting = {}
  BY DEF XhsKnown, XhsErrors, DouyinKnown, DouyinErrors, ErrorsOf, InputCodes, Wanting, PlatformError, Unexpected,
     XhsUnsigned, XhsFailed, XhsMissing, DouyinUnsigned, DouyinFailed, DouyinMissing, ReplyCodes

-----------------------------------------------------------------------------
(* Its steps *)

\* A fetch that goes on has asked one source more.
LEMMA GoneOn ==
  ASSUME DOMAIN fetch = FetchFields, NEW source, NEW error, NEW page, GoesOn(source, error, page)
  PROVE  /\ fetch'.at = source /\ fetch'.error = error /\ fetch'.page = page /\ fetch'.asked = fetch.asked \cup {fetch.at}
         /\ fetch'.by = fetch.by /\ fetch'.adapter = fetch.adapter /\ outcome' = outcome /\ answer' = answer
  BY DEF GoesOn, FetchFields, session

\* A fetch that raises an error it may raise by now is thorough ...
LEMMA RaisedIsThorough ==
  ASSUME FetchInv, fetch # None, DOMAIN fetch = FetchFields, fetch.by = None, NEW error, Raises(error),
         Reports(error.code, fetch.asked \cup {fetch.at})
  PROVE  FetchInv'
<1>1. /\ fetch'.at = "done" /\ fetch'.by = None /\ fetch'.error = fetch.error
      /\ fetch'.asked = fetch.asked \cup {fetch.at}
  BY DEF Raises, FetchFields
<1>2. outcome'.reply = error.code /\ answer' = answer
  BY DEF Raises, FailedWith
<1> QED BY <1>1, <1>2 DEF FetchInv, Reports, Posted

\* ... as is one that runs out of time ...
LEMMA ExpiredIsThorough ==
  ASSUME DOMAIN fetch = FetchFields, FetchInv, Expires
  PROVE  FetchInv'
<1>1. fetch'.at = "done" /\ fetch'.by = None
  BY DEF Expires, Fetching, FetchFields, FetchInv
<1>2. outcome'.reply = "execution_timeout" /\ answer' = answer /\ (answer # None => Posted(answer))
  BY DEF Expires, Fetching, FetchInv, FailedWith, PlatformError
<1> QED BY <1>1, <1>2, CodesDiffer DEF FetchInv, Reports, Wanting, Posted

\* ... and one that returns the post that was asked for.
LEMMA ReturnedIsThorough ==
  ASSUME DOMAIN fetch = FetchFields, NEW post, Returns(post), Posted(post),
         post.normalized.id = "asked" \/ (fetch.adapter = "douyin" /\ fetch.at = "detail")
  PROVE  FetchInv'
<1>1. fetch'.at = "done" /\ fetch'.by = fetch.at /\ fetch'.adapter = fetch.adapter
  BY DEF Returns, FetchFields
<1>2. answer' = post /\ outcome'.reply = Finish(post, ask).reply
  BY DEF Returns, AnswerTask, Outcome
<1>3. ReplyError(post, ask) \in ReplyCodes \cup {None}
  BY RepliesHaveCodes
<1>4. Finish(post, ask).reply \in ReplyCodes \cup {"success", "envelope_not_json_serializable"}
  BY <1>3 DEF Finish
<1>5. outcome'.reply \notin InputCodes \cup Wanting
  BY <1>2, <1>4, CodesDiffer
<1>6. (answer # None => Posted(answer))'
  BY <1>2 DEF Posted
<1> QED BY <1>1, <1>2, <1>5, <1>6 DEF FetchInv, Reports, Wanting

\* An unexpected error may be raised at any time.
LEMMA UnexpectedIsThorough ==
  ASSUME FetchInv, fetch # None, DOMAIN fetch = FetchFields, fetch.by = None, Raises(Unexpected)
  PROVE  FetchInv'
<1>1. Reports(Unexpected.code, fetch.asked \cup {fetch.at})
  BY CodesDiffer DEF Reports, Wanting
<1> QED BY <1>1, RaisedIsThorough

\* What the adapters make of a post is one that the runtime takes.
LEMMA PostsAreSound ==
  ASSUME NEW post, NEW json
  PROVE  /\ post.id = "asked" => Posted(XhsPost(post, json))
         /\ Given(post.id) => Posted(DouyinPost(post, json))
<1>1. \A values \in SUBSET {"null", "name", "count", "video", "image"} : "" \notin values => Whole(values)
  BY PostsAssumption DEF Whole
<1>2. ASSUME post.id = "asked" PROVE Posted(XhsPost(post, json))
  <2>1. XhsContentType(post) \in ContentTypes
    BY DEF XhsContentType, ContentTypes
  <2> QED BY <1>1, <1>2, <2>1, PostsAssumption DEF Posted, XhsPost, ContentAnswers, Given
<1>3. ASSUME Given(post.id) PROVE Posted(DouyinPost(post, json))
  <2>1. DouyinContentType(post) \in ContentTypes
    BY DEF DouyinContentType, ContentTypes
  <2> QED BY <1>1, <1>3, <2>1, PostsAssumption DEF Posted, DouyinPost, ContentAnswers, Given
<1> QED BY <1>2, <1>3

\* The XHS adapter keeps to its way.
LEMMA XhsStaysOnWay ==
  ASSUME FetchInv, fetch # None, DOMAIN fetch = FetchFields, XhsStep
  PROVE  FetchInv'
<1>1. fetch.adapter = "xhs" /\ fetch.at \in {"sign", "detail", "page", "tabs", "state"}
  BY DEF XhsStep, XhsSign, XhsDetail, XhsPage, XhsTabList, XhsTabState, Waits
<1>2. XhsWay /\ fetch.by = None /\ outcome = None
  BY <1>1 DEF FetchInv
<1>3. ASSUME NEW card, NEW json, card.id = "asked", XhsReturns(card, json) PROVE FetchInv'
  <2>1. XhsPost(card, json).normalized.id = card.id
    BY DEF XhsPost
  <2> QED BY <1>2, <1>3, <2>1, PostsAreSound, ReturnedIsThorough, UnexpectedIsThorough DEF XhsReturns
<1>4. ASSUME NEW source \in {"detail", "page", "tabs", "state"}, NEW error, NEW page, GoesOn(source, error, page), XhsWay'
      PROVE  FetchInv'
  BY <1>1, <1>2, <1>4, GoneOn DEF FetchInv
<1>5. ASSUME NEW error \in XhsKnown, Raises(error), {"page", "tabs"} \subseteq fetch.asked \cup {fetch.at},
             error.code = XhsMissing.code /\ fetch.error.told => "state" \in fetch.asked \cup {fetch.at}
      PROVE  FetchInv'
  <2>1. error.code \notin InputCodes \cup {DouyinUnsigned.code, DouyinFailed.code, DouyinMissing.code}
    BY CodesDiffer
  <2>2. Reports(error.code, fetch.asked \cup {fetch.at})
    BY <1>5, <2>1 DEF Reports
  <2> QED BY <1>2, <1>5, <2>2, RaisedIsThorough
<1>6. CASE XhsSign
  <2>1. PICK reply \in XhsSigns :
           GoesOn(IF XhsHeadersError(reply) = None THEN "detail" ELSE "page", XhsHeadersError(reply), None)
    BY <1>6 DEF XhsSign
  <2>2. XhsWay'
    BY <2>1, GoneOn, XhsHeadersKnown DEF XhsWay
  <2> QED BY <1>4, <2>1, <2>2
<1>7. CASE XhsDetail
  <2>1. PICK reply \in XhsDetails :
           IF XhsDetailError(reply) = None THEN XhsReturns(reply.items[Min(XhsAsked(reply.items))], reply.json)
           ELSE GoesOn("page", XhsDetailError(reply), None)
    BY <1>7 DEF XhsDetail
  <2>2. CASE XhsDetailError(reply) = None
    BY <1>3, <2>1, <2>2, XhsDetailKnown
  <2>3. CASE XhsDetailError(reply) # None
    <3>1. GoesOn("page", XhsDetailError(reply), None) /\ XhsDetailError(reply) \in XhsKnown
      BY <2>1, <2>3, XhsDetailKnown
    <3>2. XhsWay'
      BY <3>1, GoneOn DEF XhsWay
    <3> QED BY <1>4, <3>1, <3>2
  <2> QED BY <2>2, <2>3
<1>8. CASE XhsPage
  <2>1. PICK reply \in XhsPages :
           IF XhsPageError(reply) = None THEN XhsReturns(XhsNoteCard(reply.note), reply.json)
           ELSE IF XhsPageError(reply) = Unexpected THEN Raises(XhsPageError(reply))
           ELSE GoesOn("tabs", fetch.error, XhsPageError(reply))
    BY <1>8 DEF XhsPage
  <2>2. fetch.at = "page" /\ fetch.error \in XhsKnown
    BY <1>2, <1>8 DEF XhsPage, Waits, XhsWay
  <2>3. CASE XhsPageError(reply) = None
    BY <1>3, <2>1, <2>3, XhsPageKnown
  <2>4. CASE XhsPageError(reply) = Unexpected
    BY <1>2, <2>1, <2>4, UnexpectedIsThorough, XhsErrorsAreKnown
  <2>5. CASE XhsPageError(reply) \notin {None, Unexpected}
    <3>1. GoesOn("tabs", fetch.error, XhsPageError(reply)) /\ XhsPageError(reply) \in XhsKnown
      BY <2>1, <2>5, XhsPageKnown
    <3>2. XhsWay'
      BY <2>2, <3>1, GoneOn DEF XhsWay
    <3> QED BY <1>4, <3>1, <3>2
  <2> QED BY <2>3, <2>4, <2>5
<1>9. CASE XhsTabList
  <2>1. PICK reply \in XhsTabs :
           IF XhsScriptError(reply) # None THEN Raises(XhsScriptError(reply))
           ELSE IF TabChosen(reply.tabs) = None THEN Raises(XhsPreferredError(fetch.error, fetch.page))
           ELSE GoesOn("state", fetch.error, fetch.page)
    BY <1>9 DEF XhsTabList
  <2>2. /\ fetch.at = "tabs" /\ fetch.error \in XhsKnown /\ fetch.page \in XhsKnown /\ "page" \in fetch.asked
    BY <1>2, <1>9 DEF XhsTabList, Waits, XhsWay
  <2>3. CASE XhsScriptError(reply) # None
    <3>1. XhsScriptError(reply) \in XhsKnown /\ XhsScriptError(reply).code # XhsMissing.code
      BY <2>3, XhsScriptKnown
    <3> QED BY <1>5, <2>1, <2>2, <2>3, <3>1
  <2>4. CASE Raises(XhsPreferredError(fetch.error, fetch.page))
    <3>1. XhsPreferredError(fetch.error, fetch.page) \in {fetch.error, fetch.page}
      BY DEF XhsPreferredError
    <3>2. fetch.error.told => XhsPreferredError(fetch.error, fetch.page).code = XhsFailed.code
      BY <2>2 DEF XhsPreferredError, XhsKnown
    <3>3. XhsFailed.code # XhsMissing.code
      BY DEF XhsFailed, XhsMissing, PlatformError
    <3> QED BY <1>5, <2>2, <2>4, <3>1, <3>2, <3>3
  <2>5. CASE GoesOn("state", fetch.error, fetch.page)
    <3>1. XhsWay'
      BY <2>2, <2>5, GoneOn DEF XhsWay
    <3> QED BY <1>4, <2>5, <3>1
  <2> QED BY <2>1, <2>3, <2>4, <2>5
<1>10. CASE XhsTabState
  <2>1. PICK reply \in XhsStates :
           IF XhsTabStateError(reply) = None THEN XhsReturns(XhsNoteCard(reply.note), reply.json)
           ELSE Raises(XhsTabStateError(reply))
    BY <1>10 DEF XhsTabState
  <2>2. fetch.at = "state" /\ {"page", "tabs"} \subseteq fetch.asked
    BY <1>2, <1>10 DEF XhsTabState, Waits, XhsWay
  <2>3. CASE XhsTabStateError(reply) = None
    BY <1>3, <2>1, <2>3, XhsTabKnown
  <2>4. CASE XhsTabStateError(reply) # None
    BY <1>5, <2>1, <2>2, <2>4, XhsTabKnown
  <2> QED BY <2>3, <2>4
<1> QED BY <1>6, <1>7, <1>8, <1>9, <1>10 DEF XhsStep

\* So does the Douyin adapter.
LEMMA DouyinStaysOnWay ==
  ASSUME FetchInv, fetch # None, DOMAIN fetch = FetchFields, DouyinStep
  PROVE  FetchInv'
<1>1. fetch.adapter = "douyin" /\ fetch.at \in {"sign", "detail", "tabs", "state", "context", "resign", "request"}
  BY DEF DouyinStep, DouyinSign, DouyinDetail, DouyinTabList, DouyinTabState, DouyinContext, DouyinResign, DouyinRequest, Waits
<1>2. DouyinWay /\ fetch.by = None /\ outcome = None
  BY <1>1 DEF FetchInv
<1>3. ASSUME NEW source \in {"detail", "tabs", "state", "context", "resign", "request"}, NEW error, NEW page,
             GoesOn(source, error, page), DouyinWay'
      PROVE  FetchInv'
  BY <1>1, <1>2, <1>3, GoneOn DEF FetchInv
<1>4. ASSUME NEW error \in DouyinKnown, Raises(error),
             error.code \in {DouyinUnsigned.code, DouyinFailed.code} => "tabs" \in fetch.asked \cup {fetch.at},
             fetch.at = "detail" => fetch.error = None,
             error.code = DouyinMissing.code /\ fetch.error.told /\ fetch.error # None => "state" \in fetch.asked \cup {fetch.at}
      PROVE  FetchInv'
  <2>1. error.code \notin InputCodes \cup {XhsUnsigned.code, XhsFailed.code, XhsMissing.code}
    BY CodesDiffer
  <2>2. Reports(error.code, fetch.asked \cup {fetch.at})
    BY <1>4, <2>1 DEF Reports
  <2> QED BY <1>2, <1>4, <2>2, RaisedIsThorough
<1>5. ASSUME NEW aweme, NEW json, DouyinReturns(aweme, json),
             DouyinPicked(aweme) \/ (fetch.at = "detail" /\ aweme.id # None),
             fetch.at = "detail" => fetch.error = None,
             fetch.at # "detail" => "state" \in fetch.asked \cup {fetch.at}
      PROVE  FetchInv'
  <2>1. CASE Raises(DouyinMissing)
    <3>1. DouyinMissing.code \notin {DouyinUnsigned.code, DouyinFailed.code}
      BY DEF DouyinMissing, DouyinUnsigned, DouyinFailed, PlatformError
    <3> QED BY <1>4, <1>5, <2>1, <3>1, DouyinErrorsAreKnown
  <2>2. CASE Raises(Unexpected)
    BY <1>2, <2>2, UnexpectedIsThorough
  <2>3. CASE aweme.id \notin {"", "number"} /\ Returns(DouyinPost(aweme, json))
    <3>1. DouyinPost(aweme, json).normalized.id = aweme.id
      BY DEF DouyinPost
    <3>2. DouyinPicked(aweme) => aweme.id = "asked"
      BY <2>3 DEF DouyinPicked
    <3>3. Posted(DouyinPost(aweme, json))
      BY <1>5, <2>3, <3>2, PostsAreSound, PostsAssumption DEF Given
    <3> QED BY <1>1, <1>5, <2>3, <3>1, <3>2, <3>3, ReturnedIsThorough
  <2> QED BY <1>5, <2>1, <2>2, <2>3 DEF DouyinReturns
<1>6. ASSUME NEW error \in DouyinKnown, Raises(DouyinRecoveryError(error)), "tabs" \in fetch.asked,
             fetch.at = "state" \/ "state" \in fetch.asked, fetch.error \in DouyinKnown, fetch.at # "detail"
      PROVE  FetchInv'
  <2>1. DouyinRecoveryError(error) \in DouyinKnown
    BY <1>6 DEF DouyinRecoveryError
  <2> QED BY <1>4, <1>6, <2>1
<1>7. ASSUME NEW source \in {"resign", "request"}, NEW error \in DouyinKnown \cup {None}, DouyinRecovers(source, error),
             "tabs" \in fetch.asked, "state" \in fetch.asked, fetch.error \in DouyinKnown, fetch.at # "detail"
      PROVE  FetchInv'
  <2>1. CASE error = None
    <3>1. GoesOn(source, fetch.error, None)
      BY <1>7, <2>1 DEF DouyinRecovers
    <3>2. DouyinWay'
      BY <1>7, <3>1, GoneOn DEF DouyinWay
    <3> QED BY <1>3, <1>7, <3>1, <3>2
  <2>2. CASE error # None
    BY <1>6, <1>7, <2>2 DEF DouyinRecovers
  <2> QED BY <2>1, <2>2
<1>8. CASE DouyinSign
  <2>1. PICK reply \in DouyinSigns :
           GoesOn(IF DouyinParamsError(reply) = None THEN "detail" ELSE "tabs", DouyinParamsError(reply), None)
    BY <1>8 DEF DouyinSign
  <2>2. DouyinWay'
    BY <2>1, GoneOn, DouyinParamsKnown DEF DouyinWay
  <2> QED BY <1>3, <2>1, <2>2
<1>9. CASE DouyinDetail
  <2>1. PICK reply \in DouyinDetails :
           IF DouyinDetailError(reply) = None THEN DouyinReturns(reply.aweme, reply.json)
           ELSE GoesOn("tabs", DouyinDetailError(reply), None)
    BY <1>9 DEF DouyinDetail
  <2>2. fetch.at = "detail" /\ fetch.error = None
    BY <1>2, <1>9 DEF DouyinDetail, Waits, DouyinWay
  <2>3. CASE DouyinDetailError(reply) = None
    BY <1>5, <2>1, <2>2, <2>3, DouyinDetailKnown
  <2>4. CASE DouyinDetailError(reply) # None
    <3>1. GoesOn("tabs", DouyinDetailError(reply), None) /\ DouyinDetailError(reply) \in DouyinKnown
      BY <2>1, <2>4, DouyinDetailKnown
    <3>2. DouyinWay'
      BY <3>1, GoneOn DEF DouyinWay
    <3> QED BY <1>3, <3>1, <3>2
  <2> QED BY <2>3, <2>4
<1>10. CASE DouyinTabList
  <2>1. PICK reply \in DouyinTabs :
           IF DouyinScriptError(reply) # None THEN Raises(DouyinScriptError(reply))
           ELSE IF TabChosen(reply.tabs) = None THEN Raises(fetch.error) ELSE GoesOn("state", fetch.error, None)
    BY <1>10 DEF DouyinTabList
  <2>2. fetch.at = "tabs" /\ fetch.error \in DouyinKnown
    BY <1>2, <1>10 DEF DouyinTabList, Waits, DouyinWay
  <2>3. CASE DouyinScriptError(reply) # None
    <3>1. DouyinScriptError(reply) \in DouyinKnown /\ DouyinScriptError(reply).code # DouyinMissing.code
      BY <2>3, DouyinScriptKnown
    <3> QED BY <1>4, <2>1, <2>2, <2>3, <3>1
  <2>4. CASE Raises(fetch.error)
    <3>1. fetch.error.told => fetch.error.code # DouyinMissing.code
      BY <2>2 DEF DouyinKnown, DouyinFailed, DouyinMissing, PlatformError
    <3> QED BY <1>4, <2>2, <2>4, <3>1
  <2>5. CASE GoesOn("state", fetch.error, None)
    <3>1. DouyinWay'
      BY <2>2, <2>5, GoneOn DEF DouyinWay
    <3> QED BY <1>3, <2>5, <3>1
  <2> QED BY <2>1, <2>3, <2>4, <2>5
<1>11. CASE DouyinTabState
  <2>1. PICK reply \in DouyinStates :
           IF DouyinStateError(reply) = None THEN DouyinReturns(reply.aweme, reply.json)
           ELSE IF DouyinStateError(reply) = DouyinMissing /\ fetch.material.signer THEN GoesOn("context", fetch.error, None)
           ELSE Raises(DouyinRecoveryError(DouyinStateError(reply)))
    BY <1>11 DEF DouyinTabState
  <2>2. fetch.at = "state" /\ "tabs" \in fetch.asked /\ fetch.error \in DouyinKnown
    BY <1>2, <1>11 DEF DouyinTabState, Waits, DouyinWay
  <2>3. CASE DouyinStateError(reply) = None
    BY <1>5, <2>1, <2>2, <2>3, DouyinRecoveryKnown
  <2>4. CASE GoesOn("context", fetch.error, None)
    <3>1. DouyinWay'
      BY <2>2, <2>4, GoneOn DEF DouyinWay
    <3> QED BY <1>3, <2>4, <3>1
  <2>5. CASE DouyinStateError(reply) # None /\ Raises(DouyinRecoveryError(DouyinStateError(reply)))
    BY <1>6, <2>2, <2>5, DouyinRecoveryKnown
  <2> QED BY <2>1, <2>3, <2>4, <2>5
<1>12. CASE DouyinContext
  <2>1. PICK reply \in DouyinContexts : DouyinRecovers("resign", DouyinContextError(reply))
    BY <1>12 DEF DouyinContext
  <2>2. fetch.at = "context" /\ {"tabs", "state"} \subseteq fetch.asked /\ fetch.error \in DouyinKnown
    BY <1>2, <1>12 DEF DouyinContext, Waits, DouyinWay
  <2> QED BY <1>7, <2>1, <2>2, DouyinRecoveryKnown
<1>13. CASE DouyinResign
  <2>1. PICK reply \in DouyinSigns : DouyinRecovers("request", DouyinResignError(reply))
    BY <1>13 DEF DouyinResign
  <2>2. fetch.at = "resign" /\ {"tabs", "state"} \subseteq fetch.asked /\ fetch.error \in DouyinKnown
    BY <1>2, <1>13 DEF DouyinResign, Waits, DouyinWay
  <2> QED BY <1>7, <2>1, <2>2, DouyinRecoveryKnown
<1>14. CASE DouyinRequest
  <2>1. PICK reply \in DouyinRequests :
           IF DouyinRequestError(reply) = None THEN DouyinReturns(reply.aweme, reply.json)
           ELSE Raises(DouyinRecoveryError(DouyinRequestError(reply)))
    BY <1>14 DEF DouyinRequest
  <2>2. fetch.at = "request" /\ {"tabs", "state"} \subseteq fetch.asked /\ fetch.error \in DouyinKnown
    BY <1>2, <1>14 DEF DouyinRequest, Waits, DouyinWay
  <2>3. CASE DouyinRequestError(reply) = None
    BY <1>5, <2>1, <2>2, <2>3, DouyinRecoveryKnown
  <2>4. CASE DouyinRequestError(reply) # None
    BY <1>6, <2>1, <2>2, <2>4, DouyinRecoveryKnown
  <2> QED BY <2>3, <2>4
<1> QED BY <1>8, <1>9, <1>10, <1>11, <1>12, <1>13, <1>14 DEF DouyinStep

\* A request is at fault in one of a few ways, before anybody is asked.
LEMMA InputEnds ==
  ASSUME NEW url, NEW material, NEW code, NEW missing, NEW bundle
  PROVE  /\ UrlError(url, code) \in {None, InputError(code), Unexpected}
         /\ MaterialError(material, missing, bundle) \in {None, InputError(bundle), InputError(missing), Unexpected}
<1> DEFINE checks == << <<~ask.leased, InputError(bundle)>>,
                        <<~(material.map /\ material.cookies /\ material.agent), InputError(missing)>>,
                        <<material.timeout = "odd", Unexpected>> >>
<1>1. DOMAIN checks = 1..3
  OBVIOUS
<1>2. checks[1][2] = InputError(bundle) /\ checks[2][2] = InputError(missing) /\ checks[3][2] = Unexpected
  OBVIOUS
<1>3. MaterialError(material, missing, bundle) = FirstFault(checks)
  BY DEF MaterialError
<1> HIDE DEF checks
<1>4. \A i \in 1..3 : checks[i][2] \in {InputError(bundle), InputError(missing), Unexpected}
  <2>1. \A i \in 1..3 : i = 1 \/ i = 2 \/ i = 3
    OBVIOUS
  <2> QED BY <1>2, <2>1
<1>5. FirstFault(checks) = None \/ \E i \in 1..3 : FirstFault(checks) = checks[i][2]
  BY <1>1, FaultOfFirst
<1>6. UrlError(url, code) \in {None, InputError(code), Unexpected}
  BY DEF UrlError
<1> QED BY <1>3, <1>4, <1>5, <1>6

\* A fetch starts at the head of its way, or ends before it has asked anybody.
LEMMA StartIsThorough ==
  ASSUME NEW url, NEW material, XhsStart(url, material) \/ DouyinStart(url, material)
  PROVE  FetchInv'
<1>1. ASSUME NEW adapter \in {"xhs", "douyin"}, NEW error, Starts(adapter, material, error),
             error = None \/ error.code \in InputCodes \cup {Unexpected.code}
      PROVE  FetchInv'
  <2>1. /\ fetch'.at = (IF error = None THEN "sign" ELSE "done") /\ fetch'.error = error /\ fetch'.asked = {}
        /\ fetch'.by = None /\ (error = None => outcome' = None) /\ answer' = None
    BY <1>1 DEF Starts
  <2>2. CASE error = None
    BY <2>1, <2>2 DEF FetchInv, XhsWay, DouyinWay
  <2>3. CASE error # None
    <3>1. outcome'.reply = error.code
      BY <1>1, <2>3 DEF Starts, FailedWith
    <3>2. error.code \notin Wanting
      BY <1>1, <2>3, CodesDiffer
    <3> QED BY <2>1, <2>3, <3>1, <3>2 DEF FetchInv, Reports, Wanting
  <2> QED BY <2>2, <2>3
<1>2. \A e \in {InputError(code) : code \in InputCodes} \cup {Unexpected} : e.code \in InputCodes \cup {Unexpected.code}
  BY DEF InputError
<1>3. CASE XhsStart(url, material)
  <2>1. XhsInputError(url, material) \in
           {UrlError(url, "invalid_xhs_url"),
            MaterialError(material, "xhs_account_material_missing", "xhs_resource_bundle_missing")}
    BY DEF XhsInputError
  <2>2. XhsInputError(url, material) \in {InputError(code) : code \in InputCodes} \cup {Unexpected, None}
    BY <2>1, InputEnds DEF InputCodes
  <2> QED BY <1>1, <1>2, <1>3, <2>2 DEF XhsStart
<1>4. CASE DouyinStart(url, material)
  <2>1. DouyinInputError(url, material) \in
           {UrlError(url, "invalid_douyin_url"),
            MaterialError(material, "douyin_account_material_missing", "douyin_resource_bundle_missing")}
    BY DEF DouyinInputError
  <2>2. DouyinInputError(url, material) \in {InputError(code) : code \in InputCodes} \cup {Unexpected, None}
    BY <2>1, InputEnds DEF InputCodes
  <2> QED BY <1>1, <1>2, <1>4, <2>2 DEF DouyinStart
<1> QED BY <1>3, <1>4

\* No step but those of a fetch leaves it other than it was, or has one.
LEMMA OnlyFetchFetches ==
  ASSUME SessionInv, [Next]_vars, ~Fetch
  PROVE  fetch' = None \/ UNCHANGED vars
<1>1. ASSUME stage # "reading", fetch' = fetch PROVE fetch' = None
  BY <1>1 DEF SessionInv
<1>2. CASE Contribute \/ (\E i \in Inputs : DecideOn(i)) \/ (\E others \in Registries : RegisterDecided(others))
             \/ (\E others \in Registries : RegisterOthers(others)) \/ (\E r \in Requests : SubmitRequest(r))
  BY <1>1, <1>2 DEF Contribute, DecideOn, RegisterDecided, RegisterOthers, SubmitRequest, reading
<1>3. CASE Execute \/ Read \/ Undertake \/ Try
  BY <1>1, <1>3 DEF Execute, Read, Undertake, Try
<1>4. CASE Govern \/ (\E x \in Rehearsals : Rehearse(x)) \/ (\E s \in Sources : Alter(s))
             \/ (\E a \in GateArguments : DecideRelease(a))
  BY <1>1, <1>4 DEF Govern, Rehearse, Alter, DecideRelease, reading
<1>5. CASE (\E revision \in Revisions : \E mentions \in SUBSET {revision} : RunCases(revision, mentions))
             \/ (\E c \in Certifications, own \in BOOLEAN : Certify(c, own))
  BY <1>1, <1>5 DEF RunCases, Certify, reading
<1> QED BY <1>2, <1>3, <1>4, <1>5 DEF Next

\* A fetch is on its way, or thorough, in every state.
LEMMA FetchInvariance == Spec => []FetchInv
<1>1. Init => FetchInv
  BY DEF Init, FetchInit, FetchInv
<1>2. SessionInv /\ FetchInv /\ [Next]_vars => FetchInv'
  <2> SUFFICES ASSUME SessionInv, FetchInv, [Next]_vars PROVE FetchInv'
    OBVIOUS
  <2>1. CASE Fetch
    <3>1. fetch # None => DOMAIN fetch = FetchFields
      BY <2>1 DEF Fetch, SessionInv, OutcomeFits
    <3>2. ASSUME XhsStep \/ DouyinStep \/ Expires PROVE fetch # None
      BY <3>2 DEF XhsStep, XhsSign, XhsDetail, XhsPage, XhsTabList, XhsTabState, DouyinStep, DouyinSign, DouyinDetail,
         DouyinTabList, DouyinTabState, DouyinContext, DouyinResign, DouyinRequest, Waits, Expires, Fetching
    <3> QED BY <2>1, <3>1, <3>2, StartIsThorough, XhsStaysOnWay, DouyinStaysOnWay, ExpiredIsThorough DEF Fetch
  <2>2. CASE UNCHANGED vars
    BY <2>2 DEF vars, reading, session, FetchInv, Reports, XhsWay, DouyinWay
  <2>3. CASE ~Fetch /\ fetch' = None
    BY <2>3 DEF FetchInv
  <2> QED BY <2>1, <2>2, <2>3, OnlyFetchFetches
<1> QED BY <1>1, <1>2, SessionInvariance, PTL DEF Spec

\* An answer that is recorded as a success is one to the question, and a media asset keeps to
\* the policy that was asked for; and a reference adapter goes to the end of its way, whatever
\* its sources answer.  This is so for any requests, answers and replies.
THEOREM AnswersFit == Spec => []AnswerFitsRequest
<1>1. SessionInv /\ FetchInv => AnswerFitsRequest
  <2> SUFFICES ASSUME SessionInv, FetchInv PROVE AnswerFitsRequest
    OBVIOUS
  <2>1. outcome # None => FetchIsThorough
    BY DEF SessionInv, FetchInv, OutcomeFits, FetchIsThorough, Reports
  <2>2. ASSUME answer # None, outcome.record = "succeeded"
        PROVE  /\ ask.operation \in BatchOperations => answer.operation = ask.operation /\ answer.target.ref = ask.ref
               /\ ask.operation = "media_asset_fetch_by_ref" => MediaAnswers(answer, ask)
    <3>1. outcome = Outcome(answer, ask)
      BY <2>2 DEF SessionInv, OutcomeFits
    <3> QED BY <2>2, <3>1, RecordedFits
  <2> QED BY <2>1, <2>2, MediaWithinPolicy DEF AnswerFitsRequest
<1> QED BY <1>1, SessionInvariance, FetchInvariance, PTL
-----------------------------------------------------------------------------
(* What the record takes *)

\* The targets of the operations for a creator and for a media asset.
LEMMA StableTargets ==
  TargetType("creator_profile_by_id") = "creator" /\ TargetType("media_asset_fetch_by_ref") = "media_ref"
<1> DEFINE rows == {StableRows[i] : i \in DOMAIN StableRows}
<1>1. DOMAIN StableRows = 1..7
  BY DEF StableRows
<1>2. /\ StableRows[1].operation = "content_detail_by_url"
      /\ StableRows[2].operation = "content_search_by_keyword"
      /\ StableRows[3].operation = "content_list_by_creator"
      /\ StableRows[4].operation = "comment_collection"
      /\ StableRows[5].operation = "creator_profile_by_id" /\ StableRows[5].target = "creator"
      /\ StableRows[6].operation = "media_asset_fetch_by_ref" /\ StableRows[6].target = "media_ref"
      /\ StableRows[7].operation = "batch_execution"
  BY DEF StableRows, Row
<1>3. \A i \in 1..7 : i = 1 \/ i = 2 \/ i = 3 \/ i = 4 \/ i = 5 \/ i = 6 \/ i = 7
  OBVIOUS
<1>4. ASSUME NEW operation, NEW n \in 1..7, StableRows[n].operation = operation,
             \A i \in 1..7 : StableRows[i].operation = operation => i = n
      PROVE  StableRow(operation) = StableRows[n]
  <2>1. StableRows[n] \in rows
    BY <1>1
  <2>2. \A e \in rows : e.operation = operation => e = StableRows[n]
    BY <1>1, <1>4
  <2>3. StableRow(operation) = CHOOSE e \in rows : e.operation = operation
    BY DEF StableRow
  <2> HIDE DEF rows
  <2> QED BY <1>4, <2>1, <2>2, <2>3
<1>5. StableRow("creator_profile_by_id") = StableRows[5]
  BY <1>2, <1>3, <1>4
<1>6. StableRow("media_asset_fetch_by_ref") = StableRows[6]
  BY <1>2, <1>3, <1>4
<1> QED BY <1>2, <1>5, <1>6 DEF TargetType

\* The record takes the profile of a creator that the runtime takes ...
LEMMA CreatorIsRecorded ==
  ASSUME NEW p, NEW q, q.operation = "creator_profile_by_id", CreatorAnswers(p, q)
  PROVE  RecordsCreator(p)
<1>1. TargetType(q.operation) = "creator"
  BY StableTargets
<1>2. /\ p.operation = "creator_profile_by_id" /\ p.target.operation = p.operation /\ p.target.sound
      /\ p.target.type = "creator" /\ Sanitized(p.target.ref, CreatorTokens)
      /\ p.target.policy # None => Sanitized(p.target.policy, CreatorTokens)
  BY <1>1 DEF CreatorAnswers, AboutTarget, CreatorRef, Given, Sanitized, CreatorTokens
<1>3. /\ p.trace.sound /\ p.trace.at = "utc" /\ Given(p.trace.adapter) /\ Given(p.trace.evidence)
      /\ Sanitized(p.trace.path, CreatorTokens)
      /\ p.trace.profile # None => Sanitized(p.trace.profile, CreatorTokens)
      /\ p.class = "provider_or_network_blocked" => p.raw = None /\ p.trace.path = BlockedAlias
  BY DEF CreatorAnswers, CreatorTrace, CreatorStatus, Blocked, CreatorRef, Given, Sanitized, CreatorTokens
<1>4. CASE p.status = "complete"
  <2>1. p.class = None /\ Given(p.raw)
    BY <1>4 DEF CreatorAnswers, CreatorStatus
  <2>2. /\ p.profile # None /\ p.profile.sound /\ Given(p.profile.name) /\ p.profile.counts \subseteq Nat
        /\ CreatorRef(p.profile.creator) /\ CreatorRef(p.profile.canonical)
        /\ p.profile.avatar # None => CreatorRef(p.profile.avatar)
    BY <1>4 DEF CreatorAnswers, CreatorProfile
  <2>3. \A n \in p.profile.counts : n >= 0
    BY <2>2
  <2>4. \A s : CreatorRef(s) => Sanitized(s, CreatorTokens)
    BY DEF CreatorRef, Given, Sanitized, CreatorTokens
  <2>5. \A ref \in {p.profile.creator, p.profile.canonical} : Sanitized(ref, CreatorTokens)
    BY <2>2, <2>4
  <2> QED BY <1>2, <1>3, <1>4, <2>1, <2>2, <2>3, <2>4, <2>5 DEF RecordsCreator, CreatorAnswers
<1>5. CASE p.status # "complete"
  <2>1. /\ p.profile = None /\ p.status \in {"unavailable", "failed"}
        /\ p.status = "unavailable" => p.class \in {"target_not_found", "profile_unavailable", "permission_denied"}
        /\ p.status = "failed" => p.class \in CreatorFailed
    BY <1>5 DEF CreatorAnswers, CreatorStatus, CreatorProfile, CreatorUnavailable
  <2> QED BY <1>2, <1>3, <1>5, <2>1 DEF RecordsCreator, CreatorAnswers
<1> QED BY <1>4, <1>5

\* ... and a media asset, with the policy that the answer repeats.
LEMMA AssetIsRecorded ==
  ASSUME NEW p, NEW q, MediaAnswers(p, q), p.status = "complete"
  PROVE  /\ p.class = None /\ Given(p.raw) /\ p.content \in MediaTypes /\ p.media # None
         /\ RecordsAsset(p)
<1> DEFINE facts == IF p.media.metadata = None THEN None ELSE p.media.metadata.facts
<1>1. /\ MediaStatus(p, p.policy) /\ PolicyAllows(p.policy, p.outcome, p.content, BytesOf(p)) /\ MediaObject(p, q)
      /\ p.target.ref = q.ref
  BY DEF MediaAnswers, AboutTarget
<1>2. p.class = None /\ Given(p.raw) /\ p.content \in MediaTypes /\ p.outcome \in FetchOutcomes
  BY <1>1 DEF MediaStatus
<1>3. \A s : MediaRef(s) => Sanitized(s, MediaTokens)
  BY DEF MediaRef, Given, Sanitized, MediaTokens
<1>4. /\ p.media # None /\ p.media.sound /\ MediaRef(p.media.source) /\ MediaRef(p.media.canonical)
      /\ p.media.content = p.content /\ (p.media.resolved # None => MediaRef(p.media.resolved))
      /\ p.media.lineage = [input |-> q.ref, source |-> p.media.source, canonical |-> p.media.canonical,
                            status |-> "preserved"]
      /\ MediaMetadata(p.media.metadata, p.outcome)
  BY <1>1 DEF MediaObject
<1>5. /\ p.media.metadata # None => p.media.metadata.sound
      /\ p.outcome = "downloaded_bytes" => Downloaded(facts)
      /\ p.outcome # "downloaded_bytes" => facts = None
  BY <1>4 DEF MediaMetadata
<1>6. p.outcome = "downloaded_bytes" => BytesOf(p) = facts.bytes
  BY <1>4, <1>5 DEF BytesOf, Downloaded
<1>7. BytesOf(p) # None => p.outcome = "downloaded_bytes"
  BY <1>4, <1>5 DEF BytesOf
<1> HIDE DEF facts
<1>8. /\ p.content \in ToSet(p.policy.types)
      /\ p.outcome = "metadata_only" => p.policy.mode = "metadata_only"
      /\ p.outcome = "source_ref_preserved" => p.policy.mode \in {"preserve_source_ref", "download_if_allowed"}
      /\ p.outcome = "downloaded_bytes" =>
           /\ p.policy.mode \in {"download_if_allowed", "download_required"} /\ p.policy.download = TRUE
           /\ p.policy.max # None => facts.bytes <= p.policy.max
  BY <1>1, <1>6 DEF PolicyAllows
<1>9. CASE p.outcome = "downloaded_bytes"
  BY <1>1, <1>2, <1>3, <1>4, <1>5, <1>8, <1>9 DEF RecordsAsset, facts
<1>10. CASE p.outcome # "downloaded_bytes"
  BY <1>1, <1>2, <1>3, <1>4, <1>5, <1>8, <1>10 DEF RecordsAsset, facts, FetchOutcomes
<1> QED BY <1>2, <1>4, <1>9, <1>10

\* An answer without a media asset says why in a way that the record accepts ...
LEMMA AbsenceIsRecorded ==
  ASSUME NEW p, NEW q, MediaAnswers(p, q), p.status # "complete"
  PROVE  RecordsAbsence(p)
<1>1. MediaStatus(p, p.policy) /\ MediaTrace(p) /\ p.media = None
  BY DEF MediaAnswers
<1>2. /\ p.status \in {"unavailable", "failed"} /\ p.outcome = None
      /\ p.content \in MediaTypes \ ToSet(p.policy.types) => p.class = "fetch_policy_denied"
      /\ p.status = "unavailable" => p.class \in MediaUnavailable
      /\ p.status = "failed" =>
           /\ p.class \in MediaFailed
           /\ p.content \in MediaTypes => p.class # "unsupported_content_type"
           /\ p.content \notin MediaTypes => \/ p.class = "unsupported_content_type"
                                             \/ p.content = "unknown" /\ p.class = "parse_failed" /\ Given(p.raw)
      /\ p.class = "provider_or_network_blocked" => p.raw = None /\ p.trace.path = BlockedAlias
  BY <1>1 DEF MediaStatus, MediaTrace, Blocked
<1> QED BY <1>1, <1>2 DEF RecordsAbsence

\* ... and its audit agrees with its metadata there too.
LEMMA AuditIsRecorded ==
  ASSUME NEW p, NEW q, MediaAnswers(p, q)
  PROVE  RecordsAudit(p)
<1>1. MediaAudit(p) /\ MediaStatus(p, p.policy)
  BY DEF MediaAnswers
<1>2. CASE p.outcome = "downloaded_bytes"
  <2>1. p.status = "complete"
    BY <1>1, <1>2, OutcomesAssumption DEF MediaStatus, FetchOutcomes
  <2>2. p.media # None /\ MediaMetadata(p.media.metadata, p.outcome)
    BY <2>1 DEF MediaAnswers, MediaObject
  <2>3. p.media.metadata # None
    BY <1>2, <2>2 DEF MediaMetadata, Downloaded
  <2>4. /\ p.audit # None /\ p.audit.sound /\ p.audit.transfer = TRUE /\ Downloaded(p.audit)
        /\ {p.audit.digest, p.audit.family} \cap {"https://", "session", "bucket"} = {}
        /\ [f \in {"bytes", "digest", "family"} |-> p.audit[f]] = p.media.metadata.facts
    BY <1>1, <1>2, <2>3 DEF MediaAudit
  <2>5. \A f \in {"bytes", "digest", "family"} : p.audit[f] = p.media.metadata.facts[f]
    BY <2>4
  <2>6. p.audit.digest \notin MediaTokens /\ p.audit.family \notin MediaTokens
    BY <2>4 DEF MediaTokens
  <2> QED BY <1>2, <2>4, <2>5, <2>6 DEF RecordsAudit
<1>3. CASE p.outcome # "downloaded_bytes"
  BY <1>1, <1>3 DEF MediaAudit, RecordsAudit
<1> QED BY <1>2, <1>3

\* So the record takes every answer about a media asset.
LEMMA MediaIsRecorded ==
  ASSUME NEW p, NEW q, q.operation = "media_asset_fetch_by_ref", MediaAnswers(p, q)
  PROVE  RecordsMedia(p)
<1>1. \A s : MediaRef(s) => Sanitized(s, MediaTokens)
  BY DEF MediaRef, Given, Sanitized, MediaTokens
<1>2. /\ p.operation = "media_asset_fetch_by_ref" /\ p.target.operation = p.operation /\ p.target.sound
      /\ p.target.type = "media_ref" /\ MediaRef(p.target.ref) /\ (p.target.policy # None => MediaRef(p.target.policy))
      /\ Given(p.content) /\ ValidPolicy(p.policy)
  BY StableTargets DEF MediaAnswers, AboutTarget
<1>3. /\ p.trace.sound /\ p.trace.at = "utc" /\ MediaRef(p.trace.adapter) /\ MediaRef(p.trace.path)
      /\ MediaRef(p.trace.evidence) /\ (p.trace.profile # None => MediaRef(p.trace.profile))
  BY DEF MediaAnswers, MediaTrace
<1>4. \A s \in {p.trace.adapter, p.trace.path, p.trace.evidence} : Sanitized(s, MediaTokens)
  BY <1>1, <1>3
<1>5. IF p.status = "complete"
      THEN p.class = None /\ Given(p.raw) /\ p.content \in MediaTypes /\ p.media # None /\ RecordsAsset(p)
      ELSE RecordsAbsence(p)
  BY AssetIsRecorded, AbsenceIsRecorded
<1>6. RecordsAudit(p)
  BY AuditIsRecorded
<1> QED BY <1>1, <1>2, <1>3, <1>4, <1>5, <1>6 DEF RecordsMedia

\* What the runtime takes, the record takes.
LEMMA AcceptedIsRecorded ==
  ASSUME NEW p, NEW q, Accepts(p, q)
  PROVE  Records(p, q)
<1>1. Fits(p, q)
  BY DEF Accepts
<1>2. CASE q.operation \in Searches
  BY <1>1, <1>2 DEF Fits, CollectionAnswers, AboutTarget, Records, Searches, Comments
<1>3. CASE q.operation = Comments
  BY <1>1, <1>3 DEF Fits, CommentsAnswer, CommentsAnswerIn, AboutTarget, Records, Searches, Comments
<1>4. CASE q.operation = "creator_profile_by_id"
  <2>1. CreatorAnswers(p, q)
    BY <1>1, <1>4 DEF Fits, Searches, Comments
  <2>2. RecordsCreator(p)
    BY <1>4, <2>1, CreatorIsRecorded
  <2>3. p.target.type = TargetType(q.operation) /\ p.target.ref = q.ref
    BY <2>1 DEF CreatorAnswers, AboutTarget
  <2> QED BY <1>4, <2>2, <2>3 DEF Records, Searches, Comments
<1>5. CASE q.operation = "media_asset_fetch_by_ref"
  <2>1. MediaAnswers(p, q)
    BY <1>1, <1>5 DEF Fits, Searches, Comments
  <2>2. RecordsMedia(p)
    BY <1>5, <2>1, MediaIsRecorded
  <2>3. p.target.type = TargetType(q.operation) /\ p.target.ref = q.ref
    BY <2>1 DEF MediaAnswers, AboutTarget
  <2> QED BY <1>5, <2>2, <2>3 DEF Records, Searches, Comments
<1>6. CASE q.operation \notin BatchOperations
  BY <1>1, <1>6 DEF Fits, Records, RecordsPost, BatchOperations
<1> QED BY <1>2, <1>3, <1>4, <1>5, <1>6 DEF BatchOperations

\* An answer without a fault is taken.
LEMMA FaultlessIsTaken ==
  ASSUME NEW p, NEW q, Accepts(p, q), HintFits(p, q)
  PROVE  ReplyError(p, q) = None
<1> DEFINE checks == << <<~Accepts(p, q), "invalid_adapter_success_payload">>,
                        <<~HintFits(p, q), "invalid_resource_disposition_hint">> >>
<1>1. ReplyError(p, q) = FirstFault(checks)
  BY DEF ReplyError
<1>2. DOMAIN checks = 1..2
  OBVIOUS
<1>3. ~checks[1][1] /\ ~checks[2][1]
  OBVIOUS
<1> HIDE DEF checks
<1>4. \A i \in 1..2 : ~checks[i][1]
  <2>1. \A i \in 1..2 : i = 1 \/ i = 2
    OBVIOUS
  <2> QED BY <1>3, <2>1
<1>5. FirstFault(checks) = None
  BY <1>2, <1>4, FaultOfFirst
<1> QED BY <1>1, <1>5

\* Only what is not JSON is lost on the way to the record, and a batch publishes only what has a
\* record.
LEMMA LostIsNotJson ==
  ASSUME NEW p, NEW q
  PROVE  /\ Outcome(p, q).record = "invalid" => ~p.json
         /\ ReplyError(p, q) = None => Outcome(p, q).record \in {"succeeded", "invalid"}
         /\ Outcome(p, q).kept => Outcome(p, q).record = "succeeded" /\ BatchKeeps(p, q)
<1>1. ReplyError(p, q) \in ReplyCodes \cup {None} /\ (ReplyError(p, q) = None => Records(p, q))
  BY RepliesHaveCodes, AcceptedIsRecorded
<1>2. Outcome(p, q).record = Finish(p, q).record /\ (Outcome(p, q).kept <=> BatchKeeps(p, q))
  BY DEF Outcome
<1>3. /\ Finish(p, q).record = "invalid" => ~p.json
      /\ ReplyError(p, q) = None => Finish(p, q).record \in {"succeeded", "invalid"}
      /\ Finish(p, q).reply = "success" => Finish(p, q).record = "succeeded"
  BY <1>1 DEF Finish, ReplyCodes
<1>4. BatchKeeps(p, q) => Finish(p, q).reply = "success"
  BY DEF BatchKeeps
<1> QED BY <1>2, <1>3, <1>4

\* The thread that the record of a batch infers for a page of a thread is that thread, if the
\* page goes on in it, or else the common root of its comments.
LEMMA InferredFits ==
  ASSUME NEW p, NEW t, ValidCommentPage(p), NeedsCursor(p), t # None, StaysInThread(p, t),
         \A i, j \in Items(p) : i.root = j.root
  PROVE  InferredThread(p) # None /\ StaysInThread(p, InferredThread(p))
<1>1. CASE p.next # None /\ p.next.thread # None
  <2>1. InferredThread(p) = p.next.thread
    BY <1>1 DEF InferredThread
  <2>2. p.next.thread = t
    BY <1>1 DEF StaysInThread
  <2> QED BY <2>1, <2>2
<1>2. CASE ~(p.next # None /\ p.next.thread # None)
  <2>1. p.next = None
    BY <1>2 DEF StaysInThread
  <2>2. \A n \in DOMAIN p.items : p.items[n] \in Items(p)
    BY DEF Items, ToSet
  <2>3. \A i \in Items(p) : i.root # None
    BY DEF ValidCommentPage, ReadCommentItem, Filled
  <2>4. PICK i \in Items(p) : i.parent # None \/ i.target # None
    BY <2>1 DEF NeedsCursor
  <2>5. PICK n \in DOMAIN p.items : i = p.items[n]
    BY DEF Items, ToSet
  <2>6. n \in Replies(p) /\ Replies(p) \subseteq DOMAIN p.items
    BY <2>4, <2>5 DEF Replies
  <2>7. \A m \in Replies(p) : 1 \in Shared(p, m)
    <3>1. SUFFICES ASSUME NEW m \in Replies(p) PROVE 1 \in Shared(p, m)
      OBVIOUS
    <3>2. Ancestors(p.items[m])[1] = p.items[m].root
      BY DEF Ancestors
    <3>3. \A k \in Replies(p) : Binds(p.items[k], p.items[m].root)
      BY <2>2, <2>6 DEF Binds
    <3>4. p.items[m].root # None /\ 1 \in 1..3
      BY <2>2, <2>3, <2>6
    <3> QED BY <3>2, <3>3, <3>4 DEF Shared
  <2> DEFINE places == {m \in Replies(p) : Shared(p, m) # {}}
             first == Min(places)
  <2>8. places \in SUBSET Nat /\ places # {}
    BY <2>6, <2>7 DEF ValidCommentPage, ReadPage, IsList
  <2>9. first \in Replies(p)
    BY <2>8, LeastIsIn
  <2>10. InferredThread(p) = Ancestors(p.items[first])[Min(Shared(p, first))]
    BY <1>2, <2>8 DEF InferredThread
  <2> HIDE DEF places, first
  <2>11. Min(Shared(p, first)) = 1
    <3>1. Shared(p, first) \subseteq 1..3 /\ 1 \in Shared(p, first)
      BY <2>7, <2>9 DEF Shared
    <3>2. Shared(p, first) \in SUBSET Nat /\ Shared(p, first) # {}
      BY <3>1
    <3>3. Min(Shared(p, first)) \in Shared(p, first) /\ Min(Shared(p, first)) <= 1
      BY <3>1, <3>2, LeastIsIn
    <3> QED BY <3>1, <3>3
  <2>12. InferredThread(p) = p.items[first].root
    BY <2>10, <2>11 DEF Ancestors
  <2>13. p.items[first] \in Items(p)
    BY <2>2, <2>6, <2>9
  <2>14. \A j \in Items(p) : Binds(j, InferredThread(p))
    BY <2>12, <2>13 DEF Binds
  <2>15. InferredThread(p) # None
    BY <2>3, <2>12, <2>13
  <2> QED BY <2>1, <2>14, <2>15 DEF StaysInThread
<1> QED BY <1>1, <1>2

\* An answer that a batch publishes fits the item as the record of the batch has it, without
\* the cursor, unless it is a media asset asked for with a policy of its own, or a page of replies
\* whose thread cannot be told from it.
LEMMA KeptFitsItem ==
  ASSUME NEW q, InOrder(q), NEW p, Fits(p, q), q.operation \in BatchOperations,
         q.operation = "media_asset_fetch_by_ref" => PolicyOf(q) = DefaultPolicy,
         q.operation = Comments /\ NeedsCursor(p) =>
           ThreadOf(q.cursor) # None /\ \A i, j \in Items(p) : i.root = j.root
  PROVE  BatchRecords(p, q)
<1> DEFINE item == ItemInRecord(q)
<1>1. item.operation = q.operation /\ item.ref = q.ref /\ item.cursor = NoCursor(q.operation)
  BY DEF ItemInRecord, InOrder, Fields
<1> HIDE DEF item
<1>2. CASE q.operation = Comments /\ NeedsCursor(p)
  <2>1. CommentsAnswer(p, q)
    BY <1>2 DEF Fits, Searches, Comments
  <2>2. ValidCommentPage(p) /\ AboutTarget(p, q) /\ StaysInThread(p, ThreadOf(q.cursor))
    BY <2>1 DEF CommentsAnswer, CommentsAnswerIn
  <2>3. InferredThread(p) # None /\ StaysInThread(p, InferredThread(p))
    BY <1>2, <2>2, InferredFits
  <2> QED BY <1>2, <2>2, <2>3 DEF BatchRecords, CommentsAnswerIn
<1>3. CASE q.operation = Comments /\ ~NeedsCursor(p)
  <2>1. CommentsAnswer(p, q)
    BY <1>3 DEF Fits, Searches, Comments
  <2>2. ThreadOf(item.cursor) = None
    BY <1>1, <1>3 DEF NoCursor, ThreadOf
  <2>3. StaysInThread(p, None)
    BY <1>3 DEF NeedsCursor, StaysInThread
  <2>4. CommentsAnswer(p, item)
    BY <1>1, <2>1, <2>2, <2>3 DEF CommentsAnswer, CommentsAnswerIn, AboutTarget
  <2> QED BY <1>1, <1>3, <2>4 DEF BatchRecords, Fits, Searches, Comments, item
<1>4. CASE q.operation \in Searches
  <2>1. CollectionAnswers(p, q)
    BY <1>4 DEF Fits, Searches, Comments
  <2>2. CollectionAnswers(p, item)
    BY <1>1, <2>1 DEF CollectionAnswers, AboutTarget
  <2> QED BY <1>1, <1>4, <2>2 DEF BatchRecords, Fits, Searches, Comments, item
<1>5. CASE q.operation = "creator_profile_by_id"
  <2>1. CreatorAnswers(p, q)
    BY <1>5 DEF Fits, Searches, Comments
  <2>2. CreatorAnswers(p, item)
    BY <1>1, <2>1 DEF CreatorAnswers, AboutTarget
  <2> QED BY <1>1, <1>5, <2>2 DEF BatchRecords, Fits, Searches, Comments, item
<1>6. CASE q.operation = "media_asset_fetch_by_ref"
  <2>1. MediaAnswers(p, q)
    BY <1>6 DEF Fits, Searches, Comments
  <2>2. PolicyOf(item) = PolicyOf(q)
    BY <1>1, <1>6 DEF PolicyOf, NoCursor, Comments
  <2>3. MediaAnswers(p, item)
    BY <1>1, <2>1, <2>2 DEF MediaAnswers, AboutTarget, MediaObject
  <2> QED BY <1>1, <1>6, <2>3 DEF BatchRecords, Fits, Searches, Comments, item
<1> QED BY <1>2, <1>3, <1>4, <1>5, <1>6 DEF BatchOperations

\* No valid answer is lost on the way to its record; a reference adapter's post is one; and what
\* a batch publishes has a record, which the record of the batch takes where it can.  This is so
\* for any answers.
THEOREM AnswersAreRecorded == Spec => []AnswerIsRecorded
<1>1. SessionInv /\ FetchInv => AnswerIsRecorded
  <2> SUFFICES ASSUME SessionInv, FetchInv, answer # None PROVE AnswerIsRecorded
    BY DEF AnswerIsRecorded
  <2>1. outcome = Outcome(answer, ask) /\ InOrder(ask) /\ OutcomeFits
    BY DEF SessionInv, OutcomeFits
  <2>2. outcome.record = "invalid" => ~answer.json
    BY <2>1, LostIsNotJson
  <2>3. ASSUME fetch # None PROVE outcome.record \in {"succeeded", "invalid"}
    <3>1. answer.hint = None /\ ContentAnswers(answer, ask) /\ ask.operation = "content_detail_by_url"
      BY <2>1, <2>3 DEF FetchInv, Posted, ContentAnswers, OutcomeFits
    <3>2. Accepts(answer, ask) /\ HintFits(answer, ask)
      BY <3>1 DEF Accepts, HintFits, Fits, Unhinted, Searches, Comments
    <3> QED BY <2>1, <3>2, FaultlessIsTaken, LostIsNotJson
  <2>4. ASSUME outcome.kept
        PROVE  LET readable == CASE ask.operation = "media_asset_fetch_by_ref" -> PolicyOf(ask) = DefaultPolicy
                                 [] ask.operation = Comments ->
                                      NeedsCursor(answer) => thread # None /\ \A i, j \in Items(answer) : i.root = j.root
                                 [] OTHER -> TRUE
               IN outcome.record = "succeeded" /\ (readable => BatchRecords(answer, ask))
    <3>1. outcome.record = "succeeded" /\ BatchKeeps(answer, ask)
      BY <2>1, <2>4, LostIsNotJson
    <3>2. Fits(answer, ask) /\ ask.operation \in BatchOperations
      BY <3>1 DEF BatchKeeps, BatchAsks
    <3>3. ask.operation = Comments => ThreadOf(ask.cursor) = thread
      BY <2>1 DEF OutcomeFits
    <3>4. ASSUME ask.operation = "media_asset_fetch_by_ref" => PolicyOf(ask) = DefaultPolicy,
                 ask.operation = Comments =>
                   (NeedsCursor(answer) => thread # None /\ \A i, j \in Items(answer) : i.root = j.root)
          PROVE  BatchRecords(answer, ask)
      BY <2>1, <3>2, <3>3, <3>4, KeptFitsItem
    <3>5. Comments # "media_asset_fetch_by_ref"
      BY DEF Comments
    <3> QED BY <3>1, <3>4, <3>5
  <2> QED BY <2>2, <2>3, <2>4 DEF AnswerIsRecorded
<1> QED BY <1>1, SessionInvariance, FetchInvariance, PTL

-----------------------------------------------------------------------------
(* Operations *)

\* The table of operations: the stable ones come first, each once.
LEMMA TableOfOperations ==
  /\ DOMAIN StableRows = 1..7 /\ DOMAIN Taxonomy = 1..15
  /\ \A i \in 1..7 : Taxonomy[i] = StableRows[i]
  /\ \A i \in 8..15 : Taxonomy[i].lifecycle = "proposed"
  /\ \A i, j \in 1..7 : StableRows[i].operation = StableRows[j].operation => i = j
<1> DEFINE rows == {StableRows[i] : i \in 1..7} \cup {ProposedRows[i] : i \in 1..8}
<1>1. Len(StableRows) = 7 /\ DOMAIN StableRows = 1..7
  BY DEF StableRows
<1>2. Len(ProposedRows) = 8 /\ DOMAIN ProposedRows = 1..8
  BY DEF ProposedRows
<1>0. StableRows \in Seq(rows) /\ ProposedRows \in Seq(rows)
  <2>1. StableRows = [i \in 1..7 |-> StableRows[i]]
    BY DEF StableRows
  <2>2. ProposedRows = [i \in 1..8 |-> ProposedRows[i]]
    BY DEF ProposedRows
  <2> QED BY <2>1, <2>2
<1>3. \A i \in 1..8 : ProposedRows[i].lifecycle = "proposed"
  <2>1. /\ ProposedRows[1].lifecycle = "proposed" /\ ProposedRows[2].lifecycle = "proposed"
        /\ ProposedRows[3].lifecycle = "proposed" /\ ProposedRows[4].lifecycle = "proposed"
        /\ ProposedRows[5].lifecycle = "proposed" /\ ProposedRows[6].lifecycle = "proposed"
        /\ ProposedRows[7].lifecycle = "proposed" /\ ProposedRows[8].lifecycle = "proposed"
    BY DEF ProposedRows, Row
  <2>2. \A i \in 1..8 : i = 1 \/ i = 2 \/ i = 3 \/ i = 4 \/ i = 5 \/ i = 6 \/ i = 7 \/ i = 8
    OBVIOUS
  <2> QED BY <2>1, <2>2
<1>4. \A i, j \in 1..7 : StableRows[i].operation = StableRows[j].operation => i = j
  <2>1. /\ StableRows[1].operation = "content_detail_by_url"
        /\ StableRows[2].operation = "content_search_by_keyword"
        /\ StableRows[3].operation = "content_list_by_creator"
        /\ StableRows[4].operation = "comment_collection"
        /\ StableRows[5].operation = "creator_profile_by_id"
        /\ StableRows[6].operation = "media_asset_fetch_by_ref"
        /\ StableRows[7].operation = "batch_execution"
    BY DEF StableRows, Row
  <2>2. \A i \in 1..7 : i = 1 \/ i = 2 \/ i = 3 \/ i = 4 \/ i = 5 \/ i = 6 \/ i = 7
    OBVIOUS
  <2> QED BY <2>1, <2>2
<1>5. /\ DOMAIN Taxonomy = 1..15 /\ \A i \in 1..7 : Taxonomy[i] = StableRows[i]
      /\ \A i \in 8..15 : Taxonomy[i] = ProposedRows[i - 7]
  <2> HIDE DEF rows
  <2>1. ASSUME NEW S, NEW s \in Seq(S), NEW t \in Seq(S)
        PROVE  /\ s \o t \in Seq(S) /\ Len(s \o t) = Len(s) + Len(t)
               /\ \A i \in 1..Len(s) : (s \o t)[i] = s[i]
               /\ \A i \in (Len(s) + 1)..(Len(s) + Len(t)) : (s \o t)[i] = t[i - Len(s)]
    OBVIOUS
  <2>3. /\ StableRows \o ProposedRows \in Seq(rows)
        /\ Len(StableRows \o ProposedRows) = Len(StableRows) + Len(ProposedRows)
        /\ \A i \in 1..Len(StableRows) : (StableRows \o ProposedRows)[i] = StableRows[i]
        /\ \A i \in (Len(StableRows) + 1)..(Len(StableRows) + Len(ProposedRows)) :
             (StableRows \o ProposedRows)[i] = ProposedRows[i - Len(StableRows)]
    BY <1>0, <2>1
  <2>2. /\ Taxonomy \in Seq(rows) /\ Len(Taxonomy) = 15
        /\ \A i \in 1..7 : Taxonomy[i] = StableRows[i]
        /\ \A i \in 8..15 : Taxonomy[i] = ProposedRows[i - 7]
    <3>1. Taxonomy = StableRows \o ProposedRows
      BY DEF Taxonomy
    <3>2. Len(StableRows) = 7 /\ Len(ProposedRows) = 8
      BY <1>1, <1>2
    <3>3. Len(Taxonomy) = 15
      BY <2>3, <3>1, <3>2
    <3>4. \A i \in 1..7 : Taxonomy[i] = StableRows[i]
      BY <2>3, <3>1, <3>2
    <3>5. \A i \in 8..15 : Taxonomy[i] = ProposedRows[i - 7]
      <4>1. (Len(StableRows) + 1)..(Len(StableRows) + Len(ProposedRows)) = 8..15
        BY <3>2
      <4>2. \A i \in 8..15 : Taxonomy[i] = ProposedRows[i - Len(StableRows)]
        BY <2>3, <3>1, <4>1
      <4> QED BY <3>2, <4>2
    <3>6. Taxonomy \in Seq(rows)
      BY <2>3, <3>1
    <3> QED BY <3>3, <3>4, <3>5, <3>6
  <2> QED BY <2>2
<1> QED BY <1>1, <1>3, <1>4, <1>5

\* The row that an operation has in the table.
LEMMA RowOfOperation ==
  ASSUME NEW n \in 1..7
  PROVE  StableRow(StableRows[n].operation) = StableRows[n]
<1> DEFINE rows == {StableRows[i] : i \in DOMAIN StableRows}
<1>1. StableRows[n] \in rows /\ \A e \in rows : e.operation = StableRows[n].operation => e = StableRows[n]
  BY TableOfOperations
<1>2. StableRow(StableRows[n].operation) = CHOOSE e \in rows : e.operation = StableRows[n].operation
  BY DEF StableRow
<1> HIDE DEF rows
<1> QED BY <1>1, <1>2

\* An operation that is stable on a target and in a mode is that of a row, with its family.
LEMMA StableIsRow ==
  ASSUME NEW operation, NEW target, NEW mode, IsStable(Taxonomy, operation, target, mode)
  PROVE  \E n \in 1..7 : /\ StableRows[n].operation = operation /\ StableRows[n].target = target
                         /\ StableRows[n].mode = mode /\ StableRow(operation) = StableRows[n]
                         /\ FamilyOf(Taxonomy, operation, target, mode) = StableRows[n].family
<1> DEFINE S == StableMatches(Taxonomy, operation, target, mode)
           n == CHOOSE i \in S : TRUE
<1>1. S # {}
  BY FS_EmptySet DEF IsStable
<1>2. n \in S
  BY <1>1
<1>3. FamilyOf(Taxonomy, operation, target, mode) = Taxonomy[n].family
  BY DEF FamilyOf
<1> HIDE DEF n
<1>4. n \in 1..15 /\ Slice(Taxonomy[n]) = <<operation, target, mode>> /\ Taxonomy[n].lifecycle = "stable"
  BY <1>2, TableOfOperations DEF StableMatches
<1>5. n \in 1..7
  BY <1>4, TableOfOperations
<1>6. StableRows[n].operation = operation /\ StableRows[n].target = target /\ StableRows[n].mode = mode
  BY <1>4, <1>5, TableOfOperations DEF Slice
<1> QED BY <1>3, <1>5, <1>6, TableOfOperations, RowOfOperation

-----------------------------------------------------------------------------
(* What requests are put to *)

\* The requirement of a decision that matched.
Matchable(w) == \E i \in Inputs : w = i.requirement /\ ValidRequirement(w)

\* The registry is one of the given ones, perhaps with the adapter of a decision at its end.
ContractInv ==
  /\ stage = "decided" => input \in Inputs /\ decision = Decide(input)
  /\ stage \notin {"registered", "served"} => want = None
  /\ stage \in {"registered", "served"} =>
       \/ want = None /\ items \in Registries
       \/ /\ Matchable(want)
          /\ \E others \in Registries :
               /\ \A n \in DOMAIN others : others[n].key # want.adapter
               /\ items = Append(others, [key |-> want.adapter, adapter |-> AdapterOf(want)])

\* What is wrong with a decision has a code; without a fault both contracts are valid and about the same.
LEMMA FittingContracts ==
  ASSUME NEW i
  PROVE  /\ DecisionFault(i) = None =>
              /\ ValidRequirement(i.requirement) /\ ValidOffer(i.offer)
              /\ i.requirement.adapter = i.offer.adapter
              /\ ~NamesProvider(i.context.id, i.offer)
         /\ DecisionFault(i) # None =>
              \/ DecisionFault(i) \in {Drift, Leak}
              \/ /\ DecisionFault(i) = Blame("FR-0024", "invalid_requirement_contract")
                 /\ ~ValidRequirement(i.requirement)
              \/ /\ DecisionFault(i) = Blame("FR-0025", "invalid_provider_offer_contract")
                 /\ ValidRequirement(i.requirement) /\ ~ValidOffer(i.offer)
<1> DEFINE c == i.context
           r == i.requirement
           o == i.offer
           B24 == Blame("FR-0024", "invalid_requirement_contract")
           B25 == Blame("FR-0025", "invalid_provider_offer_contract")
           checks == << <<i.surface = "drifted", Drift>>,
                        <<i.surface = "leaking", Leak>>,
                        <<NamesProvider(c.id, o), Leak>>,
                        <<c.surface = "drifted", Drift>>,
                        <<c.surface = "leaking", Leak>>,
                        <<~c.id.opaque, Leak>>,
                        <<~c.frozen, Drift>>,
                        <<RequirementStatus(r, ResourceCapabilities) = "invalid", B24>>,
                        <<~ValidOffer(o), B25>>,
                        <<r.adapter # o.adapter \/ r.family # o.family \/ r.slice # o.slice, Drift>> >>
<1>1. DecisionFault(i) = FirstFault(checks)
  BY DEF DecisionFault
<1>2. DOMAIN checks = 1..10
  OBVIOUS
<1>3. RequirementStatus(r, ResourceCapabilities) = "invalid" <=> ~ValidRequirement(r)
  BY DEF RequirementStatus
<1>4. /\ checks[3][1] <=> NamesProvider(c.id, o)
      /\ checks[8][1] <=> RequirementStatus(r, ResourceCapabilities) = "invalid"
      /\ checks[9][1] <=> ~ValidOffer(o)
      /\ checks[10][1] <=> (r.adapter # o.adapter \/ r.family # o.family \/ r.slice # o.slice)
  OBVIOUS
<1>5. /\ checks[1][2] = Drift /\ checks[2][2] = Leak /\ checks[3][2] = Leak /\ checks[4][2] = Drift
      /\ checks[5][2] = Leak /\ checks[6][2] = Leak /\ checks[7][2] = Drift /\ checks[8][2] = B24
      /\ checks[9][2] = B25 /\ checks[10][2] = Drift
  OBVIOUS
<1>6. None \notin {Drift, Leak, B24, B25}
  BY BlamesAssumption
<1> HIDE DEF checks, c, r, o, B24, B25
<1>7. \A n \in 1..10 : n = 1 \/ n = 2 \/ n = 3 \/ n = 4 \/ n = 5 \/ n = 6 \/ n = 7 \/ n = 8 \/ n = 9 \/ n = 10
  OBVIOUS
<1>8. \A n \in 1..10 : checks[n][2] # None
  BY <1>5, <1>6, <1>7
<1>9. \/ FirstFault(checks) = None /\ \A n \in 1..10 : ~checks[n][1]
      \/ \E n \in 1..10 : /\ checks[n][1] /\ FirstFault(checks) = checks[n][2]
                          /\ \A k \in 1..10 : k < n => ~checks[k][1]
  BY <1>2, FaultOfFirst
<1>10. CASE FirstFault(checks) = None /\ \A n \in 1..10 : ~checks[n][1]
  <2>1. ~checks[3][1] /\ ~checks[8][1] /\ ~checks[9][1] /\ ~checks[10][1]
    BY <1>10
  <2> QED BY <1>1, <1>3, <1>4, <1>10, <2>1 DEF c, r, o
<1>11. ASSUME NEW n \in 1..10, checks[n][1], FirstFault(checks) = checks[n][2],
              \A k \in 1..10 : k < n => ~checks[k][1]
       PROVE  /\ FirstFault(checks) # None
              /\ \/ FirstFault(checks) \in {Drift, Leak}
                 \/ FirstFault(checks) = B24 /\ ~ValidRequirement(r)
                 \/ FirstFault(checks) = B25 /\ ValidRequirement(r) /\ ~ValidOffer(o)
  <2>1. CASE n = 8
    BY <1>3, <1>4, <1>5, <1>8, <1>11, <2>1
  <2>2. CASE n = 9
    <3>1. ~checks[8][1]
      BY <1>11, <2>2
    <3> QED BY <1>3, <1>4, <1>5, <1>8, <1>11, <2>2, <3>1
  <2>3. CASE n \notin {8, 9}
    BY <1>5, <1>7, <1>8, <1>11, <2>3
  <2> QED BY <2>1, <2>2, <2>3
<1> QED BY <1>1, <1>9, <1>10, <1>11 DEF r, o, B24, B25

\* A decision that does not blame anybody is about two contracts that fit.
LEMMA DecidedFaultless ==
  ASSUME NEW i, Decide(i).status # "invalid_contract"
  PROVE  DecisionFault(i) = None /\ Decide(i) = FittingDecision(i)
<1>1. CASE DecisionFault(i) = None
  BY <1>1 DEF Decide
<1>2. CASE DecisionFault(i) # None
  <2>1. Decide(i) = InvalidDecision(i, DecisionFault(i))
    BY <1>2 DEF Decide
  <2>2. Decide(i).status = "invalid_contract"
    BY <2>1 DEF InvalidDecision
  <2> QED BY <2>2
<1> QED BY <1>1, <1>2

\* The adapter that a decision registers is that of a requirement that matched.
LEMMA RegisterKeeps ==
  ASSUME ContractInv, NEW others \in Registries, RegisterDecided(others)
  PROVE  ContractInv'
<1>1. input \in Inputs /\ decision = Decide(input) /\ decision.status = "matched"
  BY DEF ContractInv, RegisterDecided
<1>2. ValidRequirement(input.requirement) /\ decision = FittingDecision(input)
  BY <1>1, DecidedFaultless, FittingContracts
<1>3. decision.adapter = input.requirement.adapter
  BY <1>2 DEF FittingDecision
<1>4. Matchable(input.requirement)
  BY <1>1, <1>2 DEF Matchable
<1>5. /\ stage' = "registered" /\ want' = input.requirement
      /\ \A n \in DOMAIN others : others[n].key # input.requirement.adapter
      /\ items' = Append(others, [key |-> input.requirement.adapter, adapter |-> AdapterOf(input.requirement)])
  BY <1>3 DEF RegisterDecided
<1> QED BY <1>4, <1>5 DEF ContractInv

\* In every state the registry that a request is put to is such a one.
LEMMA ContractInvariance == Spec => []ContractInv
<1>1. Init => ContractInv
  BY DEF Init, ContractInv
<1>2. ContractInv /\ UNCHANGED vars => ContractInv'
  BY DEF ContractInv, vars, contract, runtime
<1>3. ContractInv /\ Next => ContractInv'
  <2>1. SUFFICES ASSUME ContractInv, Next PROVE ContractInv'
    OBVIOUS
  <2>2. CASE Contribute \/ Execute \/ Read \/ Fetch \/ Undertake \/ Try \/ Govern
    BY <2>1, <2>2 DEF ContractInv, Contribute, Execute, Read, Fetch, Undertake, Try, Govern, contract, runtime
  <2>3. CASE \E i \in Inputs : DecideOn(i)
    BY <2>1, <2>3 DEF ContractInv, DecideOn, runtime
  <2>4. CASE \E others \in Registries : RegisterDecided(others)
    BY <2>1, <2>4, RegisterKeeps
  <2>5. CASE \E others \in Registries : RegisterOthers(others)
    BY <2>1, <2>5 DEF ContractInv, RegisterOthers, contract
  <2>6. CASE \E r \in Requests : SubmitRequest(r)
    BY <2>1, <2>6 DEF ContractInv, SubmitRequest, contract
  <2>7. CASE \/ \E x \in Rehearsals : Rehearse(x)
             \/ \E s \in Sources : Alter(s)
             \/ \E a \in GateArguments : DecideRelease(a)
    BY <2>1, <2>7 DEF ContractInv, Rehearse, Alter, DecideRelease, contract, runtime
  <2>8. CASE \/ \E revision \in Revisions : \E mentions \in SUBSET {revision} : RunCases(revision, mentions)
             \/ \E c \in Certifications, own \in BOOLEAN : Certify(c, own)
    BY <2>1, <2>8 DEF ContractInv, RunCases, Certify, contract, runtime
  <2> QED BY <2>1, <2>2, <2>3, <2>4, <2>5, <2>6, <2>7, <2>8 DEF Next
<1> QED BY <1>1, <1>2, <1>3, PTL DEF Spec

\* A list with one entry more is a list.
LEMMA AppendedList ==
  ASSUME NEW list, IsList(list), NEW x
  PROVE  /\ IsList(Append(list, x)) /\ Len(Append(list, x)) = Len(list) + 1
         /\ DOMAIN list = 1..Len(list) /\ DOMAIN Append(list, x) = 1..(Len(list) + 1)
         /\ \A n \in DOMAIN list : Append(list, x)[n] = list[n]
         /\ Append(list, x)[Len(list) + 1] = x
<1> DEFINE S == {list[n] : n \in 1..Len(list)} \cup {x}
<1>1. list \in Seq(S) /\ x \in S /\ DOMAIN list = 1..Len(list)
  BY DEF IsList
<1> HIDE DEF S
<1>2. ASSUME NEW T, NEW s \in Seq(T), NEW y \in T
      PROVE  /\ Append(s, y) \in Seq(T) /\ Len(Append(s, y)) = Len(s) + 1
             /\ \A n \in 1..Len(s) : Append(s, y)[n] = s[n]
             /\ Append(s, y)[Len(s) + 1] = y
  OBVIOUS
<1>3. /\ Append(list, x) \in Seq(S) /\ Len(Append(list, x)) = Len(list) + 1
      /\ \A n \in 1..Len(list) : Append(list, x)[n] = list[n]
      /\ Append(list, x)[Len(list) + 1] = x
  BY <1>1, <1>2
<1>4. ASSUME NEW T, NEW s \in Seq(T) PROVE Len(s) \in Nat /\ s = [n \in 1..Len(s) |-> s[n]] /\ DOMAIN s = 1..Len(s)
  OBVIOUS
<1>5. /\ Len(Append(list, x)) \in Nat /\ DOMAIN Append(list, x) = 1..Len(Append(list, x))
      /\ Append(list, x) = [n \in 1..Len(Append(list, x)) |-> Append(list, x)[n]]
  BY <1>3, <1>4
<1> QED BY <1>1, <1>3, <1>5 DEF IsList

\* What requests are put to has lists in it.
LEMMA RegistryIsListed ==
  ASSUME ContractInv, stage \in {"registered", "served"}
  PROVE  RegistryHasLists(items)
<1>1. CASE want = None /\ items \in Registries
  BY <1>1, RegistriesAssumption
<1>2. CASE Matchable(want) /\ \E others \in Registries :
             /\ \A n \in DOMAIN others : others[n].key # want.adapter
             /\ items = Append(others, [key |-> want.adapter, adapter |-> AdapterOf(want)])
  <2>1. PICK others \in Registries : items = Append(others, [key |-> want.adapter, adapter |-> AdapterOf(want)])
    BY <1>2
  <2>2. RegistryHasLists(others)
    BY RegistriesAssumption
  <2>3. AdapterOf(want) # None /\ DeclarationHasLists(want.declaration)
    BY <1>2, InputsAssumption DEF Matchable
  <2> DEFINE a == AdapterOf(want)
             d == <<want.declaration>>
  <2>4. a.malformed = {} /\ a.declarations = d
    BY DEF AdapterOf
  <2>5. IsList(d) /\ \A k \in DOMAIN d : d[k] = want.declaration
    BY DEF IsList
  <2> HIDE DEF a, d
  <2>6. /\ a # None /\ a.malformed \subseteq {"execute", "families", "targets", "modes", "declarations"}
        /\ IsList(a.declarations) /\ \A k \in DOMAIN a.declarations : DeclarationHasLists(a.declarations[k])
    BY <2>3, <2>4, <2>5 DEF a
  <2> DEFINE x == [key |-> want.adapter, adapter |-> a]
  <2>7. x.adapter = a
    OBVIOUS
  <2>8. items = Append(others, x) /\ IsList(others)
    BY <2>1, <2>2 DEF a, RegistryHasLists
  <2> HIDE DEF x
  <2>9. /\ IsList(items) /\ DOMAIN items = 1..(Len(others) + 1) /\ DOMAIN others = 1..Len(others)
        /\ \A n \in DOMAIN others : items[n] = others[n]
        /\ items[Len(others) + 1] = x
    BY <2>8, AppendedList
  <2>10. \A n \in DOMAIN items : n \in DOMAIN others \/ n = Len(others) + 1
    BY <2>8, <2>9 DEF IsList
  <2> QED BY <2>2, <2>6, <2>7, <2>9, <2>10 DEF RegistryHasLists
<1> QED BY <1>1, <1>2 DEF ContractInv

-----------------------------------------------------------------------------
(* The registry *)

\* An adapter is sound if it has a key, all its attributes, and declarations that are taken.
LEMMA SoundAdapter ==
  ASSUME NEW key, NEW a
  PROVE  AdapterError(key, a) = None <=>
           /\ key # None /\ DeclarationsTaken(key, a)
           /\ a.malformed \cap {"execute", "families", "targets", "modes", "declarations"} = {}
<1> DEFINE checks == << <<key = None, "invalid_adapter_registry">>,
                        <<"execute" \in a.malformed, "invalid_adapter_declaration">>,
                        <<"families" \in a.malformed, "invalid_adapter_capabilities">>,
                        <<"targets" \in a.malformed, "invalid_adapter_targets">>,
                        <<"modes" \in a.malformed, "invalid_adapter_collection_modes">>,
                        <<"declarations" \in a.malformed \/ ~DeclarationsTaken(key, a),
                          "invalid_adapter_resource_requirements">> >>
<1>1. AdapterError(key, a) = FirstFault(checks)
  BY DEF AdapterError
<1>2. DOMAIN checks = 1..6
  OBVIOUS
<1>3. \A n \in 1..6 : checks[n][2] # None
  BY CodesAssumption DEF FaultCodes
<1>4. /\ checks[1][1] <=> key = None
      /\ checks[2][1] <=> "execute" \in a.malformed
      /\ checks[3][1] <=> "families" \in a.malformed
      /\ checks[4][1] <=> "targets" \in a.malformed
      /\ checks[5][1] <=> "modes" \in a.malformed
      /\ checks[6][1] <=> ("declarations" \in a.malformed \/ ~DeclarationsTaken(key, a))
  OBVIOUS
<1> HIDE DEF checks
<1>5. FirstFault(checks) = None <=> \A n \in 1..6 : ~checks[n][1]
  BY <1>2, <1>3, FirstFaultFacts
<1>6. \A n \in 1..6 : n = 1 \/ n = 2 \/ n = 3 \/ n = 4 \/ n = 5 \/ n = 6
  OBVIOUS
<1>7. (\A n \in 1..6 : ~checks[n][1]) <=>
        ~checks[1][1] /\ ~checks[2][1] /\ ~checks[3][1] /\ ~checks[4][1] /\ ~checks[5][1] /\ ~checks[6][1]
  BY <1>6
<1> QED BY <1>1, <1>4, <1>5, <1>7

\* A registry is sound if each of its adapters is, and so it is for whoever asks.
LEMMA SoundRegistry ==
  ASSUME NEW its, IsList(its), NEW key
  PROVE  /\ RegistryFault(its) = None <=> \A n \in DOMAIN its : AdapterError(its[n].key, its[n].adapter) = None
         /\ RegistryError(its, key) = None <=> RegistryFault(its) = None
<1> DEFINE checks == [i \in DOMAIN its |-> <<AdapterError(its[i].key, its[i].adapter) # None,
                                             AdapterError(its[i].key, its[i].adapter)>>]
<1>1. RegistryFault(its) = FirstFault(checks)
  BY DEF RegistryFault
<1>2. DOMAIN checks = 1..Len(its) /\ Len(its) \in Nat /\ DOMAIN its = 1..Len(its)
  BY DEF IsList
<1>3. \A n \in 1..Len(its) : /\ checks[n][1] <=> AdapterError(its[n].key, its[n].adapter) # None
                             /\ checks[n][2] = AdapterError(its[n].key, its[n].adapter)
  BY <1>2
<1> HIDE DEF checks
<1>4. \/ FirstFault(checks) = None /\ \A i \in 1..Len(its) : ~checks[i][1]
      \/ \E i \in 1..Len(its) : /\ checks[i][1] /\ FirstFault(checks) = checks[i][2]
                                /\ \A j \in 1..Len(its) : j < i => ~checks[j][1]
  BY <1>2, FaultOfFirst
<1>5. RegistryFault(its) = None <=> \A n \in DOMAIN its : AdapterError(its[n].key, its[n].adapter) = None
  BY <1>1, <1>2, <1>3, <1>4
<1>6. RegistryError(its, key) = None <=> RegistryFault(its) = None
  BY CodesAssumption DEF RegistryError, FaultCodes
<1> QED BY <1>5, <1>6

\* What a lookup finds is there; and what is there once is found.
LEMMA LookupFinds ==
  ASSUME NEW its, IsList(its), NEW key
  PROVE  /\ Lookup(its, key) # None => \E n \in DOMAIN its : its[n].key = key /\ Lookup(its, key) = its[n].adapter
         /\ \A n \in DOMAIN its : its[n].key = key /\ (\A m \in DOMAIN its : its[m].key = key => m = n)
                                 => Lookup(its, key) = its[n].adapter
<1> DEFINE found == {i \in DOMAIN its : its[i].key = key}
<1>1. found \in SUBSET Nat
  BY DEF IsList
<1>2. Lookup(its, key) = IF found = {} THEN None ELSE its[Min(found)].adapter
  BY DEF Lookup
<1>3. found # {} => Min(found) \in found
  BY <1>1, LeastIsIn
<1> QED BY <1>2, <1>3

\* The same of the declaration for a family.
LEMMA RequirementFound ==
  ASSUME NEW a, IsList(a.declarations), \A k \in DOMAIN a.declarations : a.declarations[k] # None, NEW family
  PROVE  LET d == LookupRequirement(a, family)
         IN /\ d = None <=> ~\E k \in DOMAIN a.declarations : a.declarations[k].capability = family
            /\ d # None => \E k \in DOMAIN a.declarations : a.declarations[k] = d /\ d.capability = family
<1> DEFINE found == {i \in DOMAIN a.declarations : a.declarations[i].capability = family}
<1>1. found \in SUBSET Nat
  BY DEF IsList
<1>2. LookupRequirement(a, family) = IF found = {} THEN None ELSE a.declarations[Min(found)]
  BY DEF LookupRequirement
<1>3. found # {} => Min(found) \in found
  BY <1>1, LeastIsIn
<1> QED BY <1>2, <1>3

\* What an adapter cannot do has a code of its own.
LEMMA AdapterFits ==
  ASSUME NEW a, NEW r
  PROVE  /\ AdapterFault(a, r) = None <=> /\ FamilyOfOperation(r.operation) \in a.families
                                         /\ r.target \in a.targets /\ r.mode \in a.modes
         /\ AdapterFault(a, r) # None => AdapterFault(a, r) \notin RuntimeContractCodes
<1> DEFINE checks == << <<FamilyOfOperation(r.operation) \notin a.families, "capability_not_supported">>,
                        <<r.target \notin a.targets, "target_type_not_supported">>,
                        <<r.mode \notin a.modes, "collection_mode_not_supported">> >>
<1>1. AdapterFault(a, r) = FirstFault(checks)
  BY DEF AdapterFault
<1>2. DOMAIN checks = 1..3
  OBVIOUS
<1>3. /\ checks[1][1] <=> FamilyOfOperation(r.operation) \notin a.families
      /\ checks[2][1] <=> r.target \notin a.targets
      /\ checks[3][1] <=> r.mode \notin a.modes
      /\ checks[1][2] = "capability_not_supported" /\ checks[2][2] = "target_type_not_supported"
      /\ checks[3][2] = "collection_mode_not_supported"
  OBVIOUS
<1> HIDE DEF checks
<1>4. \A n \in 1..3 : n = 1 \/ n = 2 \/ n = 3
  OBVIOUS
<1>5. \A n \in 1..3 : checks[n][2] # None /\ checks[n][2] \notin RuntimeContractCodes
  BY <1>3, <1>4, CodesAssumption DEF FaultCodes, RuntimeContractCodes
<1>6. \/ FirstFault(checks) = None /\ \A i \in 1..3 : ~checks[i][1]
      \/ \E i \in 1..3 : /\ checks[i][1] /\ FirstFault(checks) = checks[i][2]
                         /\ \A j \in 1..3 : j < i => ~checks[j][1]
  BY <1>2, FaultOfFirst
<1>7. FirstFault(checks) = None => ~checks[1][1] /\ ~checks[2][1] /\ ~checks[3][1]
  BY <1>4, <1>5, <1>6
<1>8. FirstFault(checks) # None =>
        /\ checks[1][1] \/ checks[2][1] \/ checks[3][1]
        /\ FirstFault(checks) \notin RuntimeContractCodes
  BY <1>4, <1>5, <1>6
<1> QED BY <1>1, <1>3, <1>7, <1>8

\* A request that is refused on account of its adapter breaks the runtime's own contract only if
\* there is no declaration for it, or one that the matcher does not take.
LEMMA RefusedForAdapter ==
  ASSUME NEW a, NEW r, ForAdapter(a, r).outcome = "refused"
  PROVE  LET d == LookupRequirement(a, FamilyOfOperation(r.operation))
         IN \/ ForAdapter(a, r).code \notin RuntimeContractCodes
            \/ d = None
            \/ MatchStatus(d, r.adapter, FamilyOfOperation(r.operation), RequestedSlots(d, Slots)) = "invalid"
<1> DEFINE d == LookupRequirement(a, FamilyOfOperation(r.operation))
<1>1. CASE AdapterFault(a, r) # None
  <2>1. ForAdapter(a, r) = Refused(AdapterFault(a, r))
    BY <1>1 DEF ForAdapter
  <2> QED BY <1>1, <2>1, AdapterFits DEF Refused
<1>2. CASE AdapterFault(a, r) = None /\ CursorFault(r) # None
  <2>1. ForAdapter(a, r) = Answered(CursorFault(r))
    BY <1>2 DEF ForAdapter
  <2> QED BY <2>1 DEF Answered
<1>3. CASE AdapterFault(a, r) = None /\ CursorFault(r) = None /\ d # None
  <2>1. ForAdapter(a, r) = WithResources(d, r)
    BY <1>3 DEF ForAdapter
  <2> DEFINE slots == RequestedSlots(d, Slots)
             status == MatchStatus(d, r.adapter, FamilyOfOperation(r.operation), slots)
  <2>2. status \in {"invalid", "matched", "unmatched"}
    BY DEF MatchStatus
  <2>3. WithResources(d, r) = IF status = "invalid" THEN Refused("invalid_resource_requirement")
                              ELSE [outcome |-> status, code |-> None, slots |-> slots]
    BY DEF WithResources
  <2> HIDE DEF status, slots
  <2>4. status = "invalid"
    BY <2>1, <2>2, <2>3
  <2> QED BY <2>4 DEF status, slots
<1> QED BY <1>1, <1>2, <1>3

\* What is matched has passed every check of an adapter, and the matcher.
LEMMA MatchedForAdapter ==
  ASSUME NEW a, NEW r
  PROVE  LET d == LookupRequirement(a, FamilyOfOperation(r.operation))
             slots == RequestedSlots(d, Slots)
             status == MatchStatus(d, r.adapter, FamilyOfOperation(r.operation), slots)
         IN ForAdapter(a, r).outcome = "matched" <=>
              /\ AdapterFault(a, r) = None /\ CursorFault(r) = None
              /\ d # None /\ status = "matched" /\ ForAdapter(a, r).slots = slots
<1> DEFINE d == LookupRequirement(a, FamilyOfOperation(r.operation))
           slots == RequestedSlots(d, Slots)
           status == MatchStatus(d, r.adapter, FamilyOfOperation(r.operation), slots)
<1>1. \A code : Refused(code).outcome # "matched" /\ Answered(code).outcome # "matched"
  BY DEF Refused, Answered
<1>2. WithResources(d, r) = IF status = "invalid" THEN Refused("invalid_resource_requirement")
                            ELSE [outcome |-> status, code |-> None, slots |-> slots]
  BY DEF WithResources
<1>3. ForAdapter(a, r) = IF AdapterFault(a, r) # None THEN Refused(AdapterFault(a, r))
                         ELSE IF CursorFault(r) # None THEN Answered(CursorFault(r))
                         ELSE IF d = None THEN Refused("invalid_resource_requirement")
                         ELSE WithResources(d, r)
  BY DEF ForAdapter
<1> HIDE DEF d, slots, status
<1> SUFFICES ForAdapter(a, r).outcome = "matched" <=>
               /\ AdapterFault(a, r) = None /\ CursorFault(r) = None
               /\ d # None /\ status = "matched" /\ ForAdapter(a, r).slots = slots
  BY DEF d, slots, status
<1>4. CASE AdapterFault(a, r) = None /\ CursorFault(r) = None /\ d # None /\ status # "invalid"
  <2>1. ForAdapter(a, r) = [outcome |-> status, code |-> None, slots |-> slots]
    BY <1>2, <1>3, <1>4
  <2> QED BY <1>4, <2>1
<1>5. CASE ~(AdapterFault(a, r) = None /\ CursorFault(r) = None /\ d # None /\ status # "invalid")
  <2>1. \E code : ForAdapter(a, r) \in {Refused(code), Answered(code)}
    BY <1>2, <1>3, <1>5
  <2>2. ForAdapter(a, r).outcome # "matched"
    BY <1>1, <2>1
  <2> QED BY <1>5, <2>2
<1> QED BY <1>4, <1>5

\* A declaration that the registry took goes through the matcher.
LEMMA TakenIsMatched ==
  ASSUME NEW d, NEW adapter, DeclarationTaken(adapter, d), NEW available
  PROVE  MatchStatus(d, adapter, d.capability, available) = IF Satisfied(d, available) THEN "matched" ELSE "unmatched"
<1>1. MatcherTakes(d, adapter, d.capability)
  BY DEF MatcherTakes, DeclarationTaken
<1> QED BY <1>1 DEF MatchStatus

\* A list with one entry is made of it.
LEMMA ListOfOne ==
  ASSUME NEW list, IsList(list), Len(list) = 1
  PROVE  list = <<list[1]>>
<1>1. list = [n \in 1..1 |-> list[n]]
  BY DEF IsList
<1> QED BY <1>1

\* A declaration that was taken and is satisfied stands on approved proofs of this adapter, and the
\* resources on hand cover it.
LEMMA SatisfiedIsBacked ==
  ASSUME NEW d, NEW adapter, DeclarationHasLists(d), DeclarationTaken(adapter, d), NEW available, Satisfied(d, available)
  PROVE  \/ /\ d.version = "v1" /\ d.refs = {<<d.adapter, c>> : c \in ToSet(d.caps)}
            /\ ToSet(d.caps) \subseteq available
         \/ /\ d.version = "v2"
            /\ \A n \in DOMAIN d.profiles : \E pr \in ProofRecords :
                 /\ pr.shared = "shared" /\ adapter \in pr.adapters
                 /\ d.profiles[n].refs = <<pr.ref>> /\ pr.caps = d.profiles[n].caps
            /\ \E n \in DOMAIN d.profiles : ToSet(d.profiles[n].caps) \subseteq available
<1>1. CASE d.version = "v1"
  <2>1. d.adapter = adapter /\ d.refs = FrozenEvidence(adapter, d.caps)
    BY <1>1 DEF DeclarationTaken, DeclarationV1Taken
  <2>2. ToSet(d.caps) \subseteq available
    BY <1>1 DEF Satisfied
  <2> QED BY <1>1, <2>1, <2>2 DEF FrozenEvidence
<1>2. CASE d.version = "v2"
  <2>1. \A n \in DOMAIN d.profiles : ProfileTaken(adapter, d.capability, d.profiles[n])
    BY <1>2 DEF DeclarationTaken, DeclarationV2Taken
  <2>2. ASSUME NEW n \in DOMAIN d.profiles
        PROVE  \E pr \in ProofRecords : /\ pr.shared = "shared" /\ adapter \in pr.adapters
                                        /\ d.profiles[n].refs = <<pr.ref>> /\ pr.caps = d.profiles[n].caps
    <3>1. PICK pr \in ApprovedProofs : pr.ref = d.profiles[n].refs[1] /\ ProofAligned(pr, adapter, d.capability, d.profiles[n])
      BY <2>1 DEF ProfileTaken
    <3>2. d.profiles[n].refs = <<pr.ref>>
      BY <2>1, <3>1, ListOfOne DEF ProfileTaken, DeclarationHasLists, ProfilesHaveLists
    <3> QED BY <3>1, <3>2 DEF ApprovedProofs, ProofAligned
  <2>3. PICK n \in DOMAIN d.profiles : ProfileSatisfied(d.profiles[n], available)
    BY <1>2 DEF Satisfied
  <2>4. ToSet(d.profiles[n].caps) \subseteq available
    <3>1. CASE d.profiles[n].mode = "none"
      <4>1. d.profiles[n].caps = <<>>
        BY <2>1, <3>1 DEF ProfileTaken, CapabilitiesAllowed
      <4> QED BY <4>1 DEF ToSet
    <3> QED BY <2>3, <3>1 DEF ProfileSatisfied
  <2> QED BY <1>2, <2>2, <2>4
<1> QED BY <1>1, <1>2 DEF DeclarationTaken

-----------------------------------------------------------------------------
(* The request that is admitted *)

\* A slice without a fault is stable.
LEMMA AxisIsStable ==
  ASSUME NEW r
  PROVE  AxisFault(r) = None <=> IsStable(Taxonomy, r.operation, r.target, r.mode)
<1> DEFINE checks == << <<~IsStable(Taxonomy, r.operation, r.target, r.mode), "invalid_task_request">> >>
<1>1. AxisFault(r) = FirstFault(checks)
  BY DEF AxisFault
<1>2. /\ DOMAIN checks = 1..1
      /\ checks[1][2] = "invalid_task_request"
      /\ checks[1][1] <=> ~IsStable(Taxonomy, r.operation, r.target, r.mode)
  <2> DEFINE unstable == ~IsStable(Taxonomy, r.operation, r.target, r.mode)
  <2>1. checks = << <<unstable, "invalid_task_request">> >>
    OBVIOUS
  <2> HIDE DEF checks, unstable
  <2>2. DOMAIN checks = 1..1 /\ checks[1][2] = "invalid_task_request" /\ (checks[1][1] <=> unstable)
    BY <2>1
  <2> QED BY <2>2 DEF unstable
<1> HIDE DEF checks
<1>3. "invalid_task_request" # None
  BY CodesAssumption DEF FaultCodes
<1>4. \A n \in 1..1 : n = 1
  OBVIOUS
<1>5. FirstFault(checks) = None <=> \A n \in 1..1 : ~checks[n][1]
  BY <1>2, <1>3, <1>4, FirstFaultFacts
<1> QED BY <1>1, <1>2, <1>4, <1>5

\* What an admitted request is matched with is served by a sound adapter on approved proofs.
LEMMA MatchedIsServed ==
  ASSUME NEW its, RegistryHasLists(its), NEW r \in Requests, Admit(its, r).outcome = "matched"
  PROVE  /\ \A n \in DOMAIN its : its[n].adapter.malformed = {} /\ its[n].key # None
         /\ r.operation \in Continued \cup {"comment_collection"} => r.cursor \in {"none", "here"}
         /\ \E n \in DOMAIN its, m \in DOMAIN StableRows :
              LET a == its[n].adapter
                  e == StableRows[m]
              IN /\ its[n].key = r.adapter /\ e.operation = r.operation
                 /\ r.entry = "core" => r.target = e.target /\ r.mode = e.mode
                 /\ e.family \in a.families /\ e.target \in a.targets /\ e.mode \in a.modes
                 /\ \E k \in DOMAIN a.declarations :
                      LET d == a.declarations[k]
                      IN /\ d.capability = e.family /\ d.adapter = r.adapter
                         /\ DeclarationHasLists(d) /\ DeclarationTaken(r.adapter, d)
                         /\ Satisfied(d, Admit(its, r).slots)
<1> DEFINE p == Projected(r)
<1>1. /\ p.entry = r.entry /\ p.adapter = r.adapter /\ p.operation = r.operation /\ p.cursor = r.cursor
      /\ r.entry = "core" => p = r
  BY ProjectedIsSame
<1>2. /\ NormalizeFault(p) = None /\ AxisFault(p) = None
      /\ RegistryError(its, p.adapter) = None /\ Lookup(its, p.adapter) # None
      /\ Admit(its, r) = ForAdapter(Lookup(its, p.adapter), p)
  BY AdmitChecks
<1> HIDE DEF p
<1>3. IsList(its)
  BY DEF RegistryHasLists
<1>4. \A n \in DOMAIN its : AdapterError(its[n].key, its[n].adapter) = None
  BY <1>2, <1>3, SoundRegistry
<1>5. \A n \in DOMAIN its : /\ its[n].adapter.malformed = {} /\ its[n].key # None
                            /\ DeclarationsTaken(its[n].key, its[n].adapter)
  <2>1. SUFFICES ASSUME NEW n \in DOMAIN its
                 PROVE  /\ its[n].adapter.malformed = {} /\ its[n].key # None
                        /\ DeclarationsTaken(its[n].key, its[n].adapter)
    OBVIOUS
  <2>2. its[n].adapter.malformed \subseteq {"execute", "families", "targets", "modes", "declarations"}
    BY DEF RegistryHasLists
  <2> QED BY <1>4, <2>2, SoundAdapter
<1>6. PICK n \in DOMAIN its : its[n].key = r.adapter /\ Lookup(its, r.adapter) = its[n].adapter
  BY <1>1, <1>2, <1>3, LookupFinds
<1>7. PICK m \in 1..7 : /\ StableRows[m].operation = r.operation
                        /\ StableRows[m].target = p.target /\ StableRows[m].mode = p.mode
                        /\ StableRow(r.operation) = StableRows[m]
  BY <1>1, <1>2, AxisIsStable, StableIsRow
<1> DEFINE a == its[n].adapter
           e == StableRows[m]
           d == LookupRequirement(a, FamilyOfOperation(p.operation))
           slots == RequestedSlots(d, Slots)
<1>8. /\ AdapterFault(a, p) = None /\ CursorFault(p) = None /\ d # None
      /\ MatchStatus(d, p.adapter, FamilyOfOperation(p.operation), slots) = "matched"
      /\ Admit(its, r).slots = slots
  BY <1>1, <1>2, <1>6, MatchedForAdapter
<1>9. FamilyOfOperation(p.operation) = e.family
  BY <1>1, <1>7 DEF FamilyOfOperation
<1>10. e.family \in a.families /\ e.target \in a.targets /\ e.mode \in a.modes
  BY <1>7, <1>8, <1>9, AdapterFits
<1>11. IsList(a.declarations) /\ \A k \in DOMAIN a.declarations : DeclarationHasLists(a.declarations[k])
  BY DEF RegistryHasLists
<1>12. \A k \in DOMAIN a.declarations : a.declarations[k] # None
  BY <1>11 DEF DeclarationHasLists
<1>13. PICK k \in DOMAIN a.declarations : a.declarations[k] = d /\ d.capability = e.family
  <2> HIDE DEF a, e
  <2> QED BY <1>8, <1>9, <1>11, <1>12, RequirementFound
<1>14. DeclarationTaken(r.adapter, d) /\ d.adapter = r.adapter
  BY <1>5, <1>6, <1>13 DEF DeclarationsTaken, DeclarationTaken
<1>15. Satisfied(d, slots)
  <2> HIDE DEF d, slots
  <2>1. MatchStatus(d, r.adapter, d.capability, slots) = "matched"
    BY <1>1, <1>8, <1>9, <1>13
  <2> QED BY <1>14, <2>1, TakenIsMatched
<1>16. r.operation \in Continued \cup {"comment_collection"} => r.cursor \in {"none", "here"}
  <2>1. r.operation \in Continued => r.cursor \in {"none", "here"}
    BY AdmittedInOrder
  <2>2. r.operation = "comment_collection" => r.cursor \notin {"both", "broken", "elsewhere"}
    BY <1>1, <1>8, CommentCursorInOrder DEF Comments
  <2> QED BY <2>1, <2>2, RequestsAssumption DEF Cursors
<1>17. r.entry = "core" => r.target = e.target /\ r.mode = e.mode
  BY <1>1, <1>7
<1> HIDE DEF d, slots
<1>18. DeclarationHasLists(d)
  BY <1>11, <1>13
<1>19. m \in DOMAIN StableRows
  BY TableOfOperations
<1> QED BY <1>5, <1>6, <1>7, <1>8, <1>10, <1>13, <1>14, <1>15, <1>16, <1>17, <1>18, <1>19

\* What is wrong with a request itself does not break the runtime's own contract.
LEMMA RequestIsBlamed ==
  ASSUME NEW r
  PROVE  /\ HttpFault(r) # None => HttpFault(r) \notin RuntimeContractCodes
         /\ HttpFault(r) = None => r.operation = "content_detail_by_url"
         /\ TaskFault(r) # None => TaskFault(r) \notin RuntimeContractCodes
         /\ AxisFault(r) # None => AxisFault(r) \notin RuntimeContractCodes
<1>1. HttpFault(r) # None => HttpFault(r) \notin RuntimeContractCodes
  <2> DEFINE checks == << <<"payload" \in r.malformed, "invalid_http_task_request">>,
                          <<"control" \in r.malformed, "invalid_execution_control_policy">>,
                          <<r.adapter = None, "invalid_http_task_request">>,
                          <<r.operation # "content_detail_by_url", "invalid_capability">>,
                          <<"target" \in r.malformed \/ r.value = None, "invalid_http_task_request">> >>
  <2>1. HttpFault(r) = FirstFault(checks)
    BY DEF HttpFault
  <2>2. DOMAIN checks = 1..5
    OBVIOUS
  <2>3. /\ checks[1][2] = "invalid_http_task_request" /\ checks[2][2] = "invalid_execution_control_policy"
        /\ checks[3][2] = "invalid_http_task_request" /\ checks[4][2] = "invalid_capability"
        /\ checks[5][2] = "invalid_http_task_request"
    OBVIOUS
  <2> HIDE DEF checks
  <2>4. \A n \in 1..5 : n = 1 \/ n = 2 \/ n = 3 \/ n = 4 \/ n = 5
    OBVIOUS
  <2>5. \A n \in 1..5 : checks[n][2] \notin RuntimeContractCodes
    BY <2>3, <2>4 DEF RuntimeContractCodes
  <2>6. FirstFault(checks) = None \/ \E n \in 1..5 : FirstFault(checks) = checks[n][2]
    BY <2>2, FaultOfFirst
  <2> QED BY <2>1, <2>5, <2>6
<1>2. HttpFault(r) = None => r.operation = "content_detail_by_url"
  <2> DEFINE checks == << <<"payload" \in r.malformed, "invalid_http_task_request">>,
                          <<"control" \in r.malformed, "invalid_execution_control_policy">>,
                          <<r.adapter = None, "invalid_http_task_request">>,
                          <<r.operation # "content_detail_by_url", "invalid_capability">>,
                          <<"target" \in r.malformed \/ r.value = None, "invalid_http_task_request">> >>
  <2>1. HttpFault(r) = FirstFault(checks)
    BY DEF HttpFault
  <2>2. DOMAIN checks = 1..5
    OBVIOUS
  <2>3. /\ checks[1][2] = "invalid_http_task_request" /\ checks[2][2] = "invalid_execution_control_policy"
        /\ checks[3][2] = "invalid_http_task_request" /\ checks[4][2] = "invalid_capability"
        /\ checks[5][2] = "invalid_http_task_request"
    OBVIOUS
  <2>4. checks[4][1] <=> r.operation # "content_detail_by_url"
    OBVIOUS
  <2> HIDE DEF checks
  <2>5. \A n \in 1..5 : n = 1 \/ n = 2 \/ n = 3 \/ n = 4 \/ n = 5
    OBVIOUS
  <2>6. \A n \in 1..5 : checks[n][2] # None
    BY <2>3, <2>5, CodesAssumption DEF FaultCodes
  <2>7. FirstFault(checks) = None <=> \A n \in 1..5 : ~checks[n][1]
    BY <2>2, <2>6, FirstFaultFacts
  <2>8. 4 \in 1..5
    OBVIOUS
  <2> QED BY <2>1, <2>4, <2>7, <2>8
<1>3. TaskFault(r) # None => TaskFault(r) \notin RuntimeContractCodes
  <2> DEFINE checks == << <<r.adapter = None \/ "input" \in r.malformed, "invalid_task_request">>,
                          <<r.operation \notin RuntimeOperations, "invalid_capability">>,
                          <<"control" \in r.malformed, "invalid_execution_control_policy">>,
                          <<r.value = None \/ UnsafeInput(r), "invalid_task_request">>,
                          <<r.operation = "media_asset_fetch_by_ref" /\ BadPolicy(r), "invalid_task_request">>,
                          <<r.operation \in Continued /\ r.cursor = "broken", "invalid_continuation_token">>,
                          <<r.operation \in Continued /\ r.cursor \in {"elsewhere", "both"}, "unsafe_continuation_token">> >>
  <2>1. TaskFault(r) = FirstFault(checks)
    BY DEF TaskFault
  <2>2. DOMAIN checks = 1..7
    OBVIOUS
  <2>3. /\ checks[1][2] = "invalid_task_request" /\ checks[2][2] = "invalid_capability"
        /\ checks[3][2] = "invalid_execution_control_policy" /\ checks[4][2] = "invalid_task_request"
        /\ checks[5][2] = "invalid_task_request" /\ checks[6][2] = "invalid_continuation_token"
        /\ checks[7][2] = "unsafe_continuation_token"
    OBVIOUS
  <2> HIDE DEF checks
  <2>4. \A n \in 1..7 : n = 1 \/ n = 2 \/ n = 3 \/ n = 4 \/ n = 5 \/ n = 6 \/ n = 7
    OBVIOUS
  <2>5. \A n \in 1..7 : checks[n][2] \notin RuntimeContractCodes
    BY <2>3, <2>4 DEF RuntimeContractCodes
  <2>6. FirstFault(checks) = None \/ \E n \in 1..7 : FirstFault(checks) = checks[n][2]
    BY <2>2, FaultOfFirst
  <2> QED BY <2>1, <2>5, <2>6
<1>4. AxisFault(r) # None => AxisFault(r) \notin RuntimeContractCodes
  <2> DEFINE checks == << <<~IsStable(Taxonomy, r.operation, r.target, r.mode), "invalid_task_request">> >>
  <2>1. AxisFault(r) = FirstFault(checks)
    BY DEF AxisFault
  <2>2. DOMAIN checks = 1..1 /\ checks[1][2] = "invalid_task_request"
    OBVIOUS
  <2> HIDE DEF checks
  <2>3. \A n \in 1..1 : n = 1
    OBVIOUS
  <2>4. \A n \in 1..1 : checks[n][2] \notin RuntimeContractCodes
    BY <2>2, <2>3 DEF RuntimeContractCodes
  <2>5. FirstFault(checks) = None \/ \E n \in 1..1 : FirstFault(checks) = checks[n][2]
    BY <2>2, FaultOfFirst
  <2> QED BY <2>1, <2>4, <2>5
<1> QED BY <1>1, <1>2, <1>3, <1>4

\* A request for the detail of a content is refused with a fault of the runtime's own contract only if
\* its task id or the registry is at fault, or its adapter declares nothing for it.
LEMMA RuntimeIsBlamed ==
  ASSUME NEW its, RegistryHasLists(its), NEW r \in Requests, r.entry = "http",
         r.operation = "content_detail_by_url" \/ "task_id" \in r.malformed,
         Admit(its, r).outcome = "refused", Admit(its, r).code \in RuntimeContractCodes
  PROVE  \/ "task_id" \in r.malformed \/ RegistryFault(its) # None
         \/ ~\E k \in DOMAIN Lookup(its, r.adapter).declarations :
               Lookup(its, r.adapter).declarations[k].capability = "content_detail"
<1> SUFFICES ASSUME "task_id" \notin r.malformed, RegistryFault(its) = None
             PROVE  ~\E k \in DOMAIN Lookup(its, r.adapter).declarations :
                       Lookup(its, r.adapter).declarations[k].capability = "content_detail"
  OBVIOUS
<1> DEFINE p == Projected(r)
           checks == << <<"task_id" \in p.malformed, "invalid_task_id">>,
                        <<NormalizeFault(p) # None, NormalizeFault(p)>>,
                        <<AxisFault(p) # None, AxisFault(p)>>,
                        <<RegistryError(its, p.adapter) # None, RegistryError(its, p.adapter)>>,
                        <<Lookup(its, p.adapter) = None, "adapter_not_found">> >>
<1>1. Admit(its, r) = IF FirstFault(checks) # None THEN Refused(FirstFault(checks)) ELSE ForAdapter(Lookup(its, p.adapter), p)
  BY DEF Admit
<1>2. DOMAIN checks = 1..5
  OBVIOUS
<1>3. /\ checks[1][1] <=> "task_id" \in p.malformed
      /\ checks[2][1] <=> NormalizeFault(p) # None
      /\ checks[2][2] = NormalizeFault(p)
      /\ checks[3][1] <=> AxisFault(p) # None
      /\ checks[3][2] = AxisFault(p)
      /\ checks[4][1] <=> RegistryError(its, p.adapter) # None
      /\ checks[5][1] <=> Lookup(its, p.adapter) = None
      /\ checks[5][2] = "adapter_not_found"
  OBVIOUS
<1>4. /\ p.entry = r.entry /\ p.malformed = r.malformed /\ p.adapter = r.adapter /\ p.operation = r.operation
  BY ProjectedIsSame
<1> HIDE DEF checks, p
<1>5. IsList(its)
  BY DEF RegistryHasLists
<1>6. /\ RegistryError(its, p.adapter) = None
      /\ \A n \in DOMAIN its : AdapterError(its[n].key, its[n].adapter) = None
  BY <1>5, SoundRegistry
<1>7. NormalizeFault(p) = TaskFault(p)
  BY <1>4 DEF NormalizeFault
<1>8. \A n \in 1..5 : n = 1 \/ n = 2 \/ n = 3 \/ n = 4 \/ n = 5
  OBVIOUS
<1>9. \A n \in 1..5 : checks[n][1] => checks[n][2] \notin RuntimeContractCodes
  <2>1. ~checks[1][1] /\ ~checks[4][1]
    BY <1>3, <1>4, <1>6
  <2>2. "adapter_not_found" \notin RuntimeContractCodes
    BY DEF RuntimeContractCodes
  <2>3. checks[2][1] => checks[2][2] \notin RuntimeContractCodes
    BY <1>3, <1>7, RequestIsBlamed
  <2>4. checks[3][1] => checks[3][2] \notin RuntimeContractCodes
    BY <1>3, RequestIsBlamed
  <2> QED BY <1>3, <1>8, <2>1, <2>2, <2>3, <2>4
<1>10. CASE FirstFault(checks) # None /\ \E n \in 1..5 : checks[n][1] /\ FirstFault(checks) = checks[n][2]
  <2>1. Admit(its, r) = Refused(FirstFault(checks))
    BY <1>1, <1>10
  <2>2. Admit(its, r).code = FirstFault(checks)
    BY <2>1 DEF Refused
  <2> QED BY <1>9, <1>10, <2>2
<1>11. CASE FirstFault(checks) = None /\ \A n \in 1..5 : ~checks[n][1]
  <2> DEFINE a == Lookup(its, r.adapter)
  <2>1. Admit(its, r) = ForAdapter(a, p) /\ a # None
    BY <1>1, <1>3, <1>4, <1>11
  <2>2. FamilyOfOperation(p.operation) = "content_detail"
    <3>1. StableRows[1].operation = "content_detail_by_url" /\ StableRows[1].family = "content_detail"
      BY DEF StableRows, Row
    <3> QED BY <1>4, <3>1, RowOfOperation DEF FamilyOfOperation
  <2>3. PICK n \in DOMAIN its : its[n].key = r.adapter /\ a = its[n].adapter
    BY <1>5, <2>1, LookupFinds
  <2>4. IsList(a.declarations) /\ (\A k \in DOMAIN a.declarations : a.declarations[k] # None)
    BY <2>3 DEF RegistryHasLists, DeclarationHasLists
  <2>5. DeclarationsTaken(r.adapter, a)
    BY <1>6, <2>3, SoundAdapter
  <2> DEFINE d == LookupRequirement(a, "content_detail")
  <2>6. d = None
    <3>1. SUFFICES ASSUME d # None PROVE FALSE
      OBVIOUS
    <3>2. MatchStatus(d, r.adapter, "content_detail", RequestedSlots(d, Slots)) = "invalid"
      BY <1>4, <2>1, <2>2, <3>1, RefusedForAdapter
    <3>3. PICK k \in DOMAIN a.declarations : a.declarations[k] = d /\ d.capability = "content_detail"
      <4> HIDE DEF a
      <4> QED BY <2>4, <3>1, RequirementFound
    <3>4. DeclarationTaken(r.adapter, d)
      BY <2>5, <3>3 DEF DeclarationsTaken
    <3> HIDE DEF d
    <3> QED BY <3>2, <3>3, <3>4, TakenIsMatched
  <2> HIDE DEF a
  <2>7. ~\E k \in DOMAIN a.declarations : a.declarations[k].capability = "content_detail"
    BY <2>4, <2>6, RequirementFound
  <2> QED BY <2>7 DEF a
<1>12. \/ FirstFault(checks) = None /\ \A n \in 1..5 : ~checks[n][1]
       \/ \E n \in 1..5 : /\ checks[n][1] /\ FirstFault(checks) = checks[n][2]
                           /\ \A k \in 1..5 : k < n => ~checks[k][1]
  BY <1>2, FaultOfFirst
<1>13. \A n \in 1..5 : checks[n][1] => checks[n][2] # None
  <2>1. "adapter_not_found" # None
    BY CodesAssumption DEF FaultCodes
  <2>2. ~checks[1][1] /\ ~checks[4][1]
    BY <1>3, <1>4, <1>6
  <2> QED BY <1>3, <1>8, <2>1, <2>2
<1> QED BY <1>10, <1>11, <1>12, <1>13

\* What is answered over HTTP.
LEMMA HttpAnswers ==
  ASSUME NEW its, RegistryHasLists(its), NEW r \in Requests, r.entry = "http"
  PROVE  LET s == Submit(its, r)
         IN /\ s.status = 202 <=> s.reply.outcome # "refused"
            /\ s.status = 500 =>
                 \/ "task_id" \in r.malformed \/ RegistryFault(its) # None
                 \/ ~\E k \in DOMAIN Lookup(its, r.adapter).declarations :
                       Lookup(its, r.adapter).declarations[k].capability = "content_detail"
<1> DEFINE checks == << <<HttpFault(r) # None /\ "task_id" \notin r.malformed, HttpFault(r)>> >>
           faulty == HttpFault(r) # None /\ "task_id" \notin r.malformed
           reply == IF FirstFault(checks) # None THEN Refused(FirstFault(checks)) ELSE Admit(its, r)
           status == IF reply.outcome # "refused" THEN 202 ELSE IF reply.code \in RuntimeContractCodes THEN 500 ELSE 400
<1>1. Submit(its, r) = [status |-> status, reply |-> reply]
  BY DEF Submit, HttpSubmit
<1>2. /\ DOMAIN checks = 1..1
      /\ checks[1][1] <=> faulty
      /\ checks[1][2] = HttpFault(r)
  <2>1. checks = << <<faulty, HttpFault(r)>> >>
    OBVIOUS
  <2> HIDE DEF checks, faulty
  <2> QED BY <2>1
<1> HIDE DEF checks
<1>3. status = 202 <=> reply.outcome # "refused"
  OBVIOUS
<1>4. ASSUME status = 500
      PROVE  \/ "task_id" \in r.malformed \/ RegistryFault(its) # None
             \/ ~\E k \in DOMAIN Lookup(its, r.adapter).declarations :
                   Lookup(its, r.adapter).declarations[k].capability = "content_detail"
  <2>1. reply.outcome = "refused" /\ reply.code \in RuntimeContractCodes
    BY <1>4
  <2>2. \A n \in 1..1 : n = 1
    OBVIOUS
  <2>3. FirstFault(checks) = None
    <3>1. SUFFICES ASSUME FirstFault(checks) # None PROVE FALSE
      OBVIOUS
    <3>2. checks[1][1] /\ FirstFault(checks) = checks[1][2]
      BY <1>2, <2>2, <3>1, FaultOfFirst
    <3>3. reply = Refused(HttpFault(r)) /\ HttpFault(r) # None
      BY <1>2, <3>1, <3>2
    <3>4. reply.code = HttpFault(r)
      BY <3>3 DEF Refused
    <3> QED BY <2>1, <3>3, <3>4, RequestIsBlamed
  <2>4. reply = Admit(its, r)
    BY <2>3
  <2>5. HttpFault(r) = None \/ "task_id" \in r.malformed
    <3>1. SUFFICES ASSUME faulty PROVE FALSE
      OBVIOUS
    <3>2. checks[1][1] /\ checks[1][2] # None
      BY <1>2, <3>1
    <3>3. \A n \in 1..1 : checks[n][2] # None
      BY <2>2, <3>2
    <3>4. FirstFault(checks) = None <=> \A n \in 1..1 : ~checks[n][1]
      BY <1>2, <3>3, FirstFaultFacts
    <3> QED BY <2>2, <2>3, <3>2, <3>4
  <2> HIDE DEF reply
  <2> QED BY <2>1, <2>4, <2>5, RequestIsBlamed, RuntimeIsBlamed
<1> QED BY <1>1, <1>3, <1>4

-----------------------------------------------------------------------------
(* What was matched runs *)

\* A profile that was taken is required, of the capabilities of a proof that is approved.
LEMMA TakenProfiles ==
  ASSUME NEW adapter, NEW capability, NEW f, ProfileTaken(adapter, capability, f)
  PROVE  /\ adapter # None /\ f.mode = "required"
         /\ f.caps = <<"account", "proxy">> \/ f.caps = <<"account">>
         /\ ToSet(f.caps) \subseteq Slots
<1>1. PICK pr \in ApprovedProofs : ProofAligned(pr, adapter, capability, f)
  BY DEF ProfileTaken
<1>2. /\ pr.mode = "required" /\ pr.adapters = ReferenceAdapters
      /\ pr.caps = <<"account", "proxy">> \/ pr.caps = <<"account">>
  BY DEF ApprovedProofs, ProofRecords, Proof
<1>3. adapter \in {"xhs", "douyin"}
  BY <1>1, <1>2 DEF ProofAligned, ReferenceAdapters
<1>4. adapter # None
  BY <1>3, PostsAssumption
<1>5. ToSet(f.caps) \subseteq Slots
  BY DEF ProfileTaken, CapabilitiesAllowed, Slots
<1> QED BY <1>1, <1>2, <1>4, <1>5 DEF ProofAligned

\* The slots that a request is given for a declaration cover one of its profiles.
LEMMA SlotsCover ==
  ASSUME NEW adapter, NEW d, DeclarationHasLists(d), DeclarationTaken(adapter, d), d.version = "v2"
  PROVE  /\ adapter # None
         /\ \E n \in DOMAIN d.profiles : ToSet(d.profiles[n].caps) \subseteq RequestedSlots(d, Slots)
<1>1. /\ d.profiles # <<>> /\ \A n \in DOMAIN d.profiles : ProfileTaken(adapter, d.capability, d.profiles[n])
      /\ \A i, j \in DOMAIN d.profiles :
           d.profiles[i].mode = d.profiles[j].mode /\ d.profiles[i].caps = d.profiles[j].caps => i = j
  BY DEF DeclarationTaken, DeclarationV2Taken
<1>2. IsList(d.profiles)
  BY DEF DeclarationHasLists, ProfilesHaveLists
<1>3. 1 \in DOMAIN d.profiles
  <2>1. DOMAIN d.profiles = 1..Len(d.profiles) /\ Len(d.profiles) \in Nat /\ d.profiles = [i \in 1..Len(d.profiles) |-> d.profiles[i]]
    BY <1>2 DEF IsList
  <2>2. Len(d.profiles) # 0
    <3>1. SUFFICES ASSUME Len(d.profiles) = 0 PROVE FALSE
      OBVIOUS
    <3>2. d.profiles = [i \in 1..0 |-> d.profiles[i]]
      BY <2>1, <3>1
    <3>3. d.profiles = <<>>
      BY <3>2
    <3> QED BY <1>1, <3>3
  <2> QED BY <2>1, <2>2
<1> DEFINE P == ToSet(d.profiles)
           compatible == {f \in P : ProfileSatisfied(f, Slots)}
           light == CHOOSE f \in compatible : \A g \in compatible \ {f} : Lighter(f, g)
<1>4. \A f \in P : \E n \in DOMAIN d.profiles : f = d.profiles[n]
  BY DEF ToSet
<1>5. \A f \in P : /\ f.mode = "required" /\ ToSet(f.caps) \subseteq Slots
                   /\ f.caps = <<"account", "proxy">> \/ f.caps = <<"account">>
  BY <1>1, <1>4, TakenProfiles
<1>6. \A f, g \in P : f.caps = g.caps => f = g
  BY <1>1, <1>4, <1>5
<1>7. compatible = P
  BY <1>5 DEF ProfileSatisfied
<1>8. d.profiles[1] \in P
  BY <1>3 DEF ToSet
<1>9. adapter # None
  BY <1>1, <1>3, TakenProfiles
<1> HIDE DEF P, compatible
<1>10. Len(<<"account">>) < Len(<<"account", "proxy">>)
  OBVIOUS
<1>11. \E f \in compatible : \A g \in compatible \ {f} : Lighter(f, g)
  <2>1. CASE \E f \in P : f.caps = <<"account">>
    <3>1. PICK f \in P : f.caps = <<"account">>
      BY <2>1
    <3>2. \A g \in P \ {f} : g.caps = <<"account", "proxy">>
      BY <1>5, <1>6, <3>1
    <3>3. \A g \in P \ {f} : Lighter(f, g)
      BY <1>10, <3>1, <3>2 DEF Lighter
    <3> QED BY <1>7, <3>3
  <2>2. CASE ~\E f \in P : f.caps = <<"account">>
    <3>1. P \ {d.profiles[1]} = {}
      BY <1>5, <1>6, <1>8, <2>2
    <3> QED BY <1>7, <1>8, <3>1
  <2> QED BY <2>1, <2>2
<1>12. light \in compatible
  BY <1>11
<1>13. RequestedSlots(d, Slots) = Slots \/ RequestedSlots(d, Slots) = ToSet(light.caps)
  <2>1. compatible = {f \in ToSet(d.profiles) : ProfileSatisfied(f, Slots)}
    BY DEF compatible, P
  <2>2. compatible # {}
    BY <1>7, <1>8
  <2>3. d.version # "v1"
    OBVIOUS
  <2>4. CASE d.capability \notin {"comment_collection", "creator_profile", "media_asset_fetch"}
    BY <2>4 DEF RequestedSlots
  <2>5. CASE d.capability \in {"comment_collection", "creator_profile", "media_asset_fetch"}
    BY <2>1, <2>2, <2>3, <2>5 DEF RequestedSlots
  <2> QED BY <2>4, <2>5
<1> HIDE DEF light
<1>14. CASE RequestedSlots(d, Slots) = Slots
  <2>1. ToSet(d.profiles[1].caps) \subseteq Slots
    BY <1>5, <1>8
  <2> QED BY <1>3, <1>9, <1>14, <2>1
<1>15. CASE RequestedSlots(d, Slots) = ToSet(light.caps)
  <2>1. PICK n \in DOMAIN d.profiles : light = d.profiles[n]
    BY <1>4, <1>7, <1>12
  <2> QED BY <1>9, <1>15, <2>1
<1> QED BY <1>13, <1>14, <1>15

\* A requirement that is valid is for an operation that the runtime knows.
LEMMA RequiredSlice ==
  ASSUME NEW w, ValidRequirement(w)
  PROVE  \E m \in 1..6 : /\ w.slice[1] = StableRows[m].operation /\ w.slice[2] = StableRows[m].target
                         /\ w.slice[3] = StableRows[m].mode /\ w.family = StableRows[m].family
                         /\ StableRow(w.slice[1]) = StableRows[m]
                         /\ IsStable(Taxonomy, w.slice[1], w.slice[2], w.slice[3])
<1>1. InSlice(w) /\ w.declaration.capability = w.family /\ w.declaration.capability \in Families
  BY DEF ValidRequirement, RequirementHolds, ResourceRequirementTaken, DeclarationTaken
<1>2. IsStable(Taxonomy, w.slice[1], w.slice[2], w.slice[3])
  BY <1>1 DEF InSlice
<1>3. PICK m \in 1..7 : /\ StableRows[m].operation = w.slice[1] /\ StableRows[m].target = w.slice[2]
                        /\ StableRows[m].mode = w.slice[3] /\ StableRow(w.slice[1]) = StableRows[m]
                        /\ FamilyOf(Taxonomy, w.slice[1], w.slice[2], w.slice[3]) = StableRows[m].family
  BY <1>2, StableIsRow
<1>4. w.family = StableRows[m].family
  BY <1>1, <1>3 DEF InSlice
<1>5. m # 7
  <2>1. StableRows[7].family = "batch_execution" /\ "batch_execution" \notin Families
    BY DEF StableRows, Row, Families
  <2> QED BY <1>1, <1>4, <2>1
<1> QED BY <1>2, <1>3, <1>4, <1>5

\* The adapter of a requirement that is valid is sound, and has one declaration.
LEMMA DecidedIsSound ==
  ASSUME NEW w, Matchable(w)
  PROVE  /\ AdapterError(w.adapter, AdapterOf(w)) = None /\ AdapterOf(w) # None
         /\ DeclarationHasLists(w.declaration) /\ DeclarationTaken(w.adapter, w.declaration)
         /\ w.declaration.version = "v2" /\ w.declaration.capability = w.family
         /\ LookupRequirement(AdapterOf(w), w.family) = w.declaration
<1> DEFINE a == AdapterOf(w)
           d == w.declaration
<1>1. a # None /\ DeclarationHasLists(d)
  BY InputsAssumption DEF Matchable
<1>2. DeclarationTaken(w.adapter, d) /\ d.version = "v2" /\ d.capability = w.family
  BY DEF Matchable, ValidRequirement, ResourceRequirementTaken, RequirementHolds
<1>3. w.adapter # None
  BY <1>1, <1>2, SlotsCover
<1>4. a.malformed = {} /\ a.families = {w.family} /\ a.declarations = <<d>>
  BY DEF AdapterOf
<1> HIDE DEF a, d
<1>5. IsList(a.declarations) /\ DOMAIN a.declarations = {1} /\ a.declarations[1] = d
  <2>1. IsList(<<d>>) /\ DOMAIN <<d>> = 1..1 /\ <<d>>[1] = d
    BY DEF IsList
  <2> QED BY <1>4, <2>1
<1>6. DeclarationsTaken(w.adapter, a)
  BY <1>2, <1>4, <1>5 DEF DeclarationsTaken
<1>7. AdapterError(w.adapter, a) = None
  BY <1>3, <1>4, <1>6, SoundAdapter
<1>8. LookupRequirement(a, w.family) = d
  <2>1. \A k \in DOMAIN a.declarations : a.declarations[k] # None
    BY <1>1, <1>5 DEF DeclarationHasLists
  <2> QED BY <1>2, <1>5, <2>1, RequirementFound
<1> QED BY <1>1, <1>2, <1>7, <1>8 DEF a, d

\* The operations of the runtime, but for the batch, with targets and modes that may be asked for.
LEMMA RuntimeRows ==
  ASSUME NEW m \in 1..6
  PROVE  /\ StableRows[m].operation \in RuntimeOperations
         /\ StableRows[m].target \in AllowedTargets /\ StableRows[m].mode \in AllowedModes
<1>1. m \in 1..7 /\ m # 7 /\ 7 \in 1..7
  OBVIOUS
<1>2. StableRows[7].operation = "batch_execution"
  BY DEF StableRows, Row
<1>3. StableRows[m].operation # "batch_execution"
  BY <1>1, <1>2, TableOfOperations
<1>4. StableRows[m].operation \in RuntimeOperations
  BY <1>1, <1>3, TableOfOperations DEF RuntimeOperations
<1>5. /\ StableRows[1].target = "url" /\ StableRows[2].target = "keyword" /\ StableRows[3].target = "creator"
      /\ StableRows[4].target = "content" /\ StableRows[5].target = "creator" /\ StableRows[6].target = "media_ref"
  BY DEF StableRows, Row
<1>6. /\ StableRows[1].mode = "hybrid" /\ StableRows[2].mode = "paginated" /\ StableRows[3].mode = "paginated"
      /\ StableRows[4].mode = "paginated" /\ StableRows[5].mode = "direct" /\ StableRows[6].mode = "direct"
  BY DEF StableRows, Row
<1>7. m = 1 \/ m = 2 \/ m = 3 \/ m = 4 \/ m = 5 \/ m = 6
  OBVIOUS
<1>8. StableRows[m].target \in AllowedTargets
  BY <1>5, <1>7 DEF AllowedTargets
<1>9. StableRows[m].mode \in AllowedModes
  BY <1>6, <1>7 DEF AllowedModes
<1> QED BY <1>4, <1>8, <1>9

\* A plain request for such an operation has no fault.
LEMMA PlainIsInOrder ==
  ASSUME NEW r, NEW m \in 1..6, r.operation = StableRows[m].operation,
         r.target = StableRows[m].target, r.mode = StableRows[m].mode,
         r.entry \in {"task", "core"}, r.malformed = {}, r.adapter # None, r.cursor = "none", r.value = "good"
  PROVE  NormalizeFault(r) = None /\ CursorFault(r) = None
<1>1. /\ r.operation \in RuntimeOperations /\ r.target \in AllowedTargets /\ r.mode \in AllowedModes
      /\ r.value # None
  BY RuntimeRows, ValuesAssumption
<1>2. TaskFault(r) = None
  <2> DEFINE checks == << <<r.adapter = None \/ "input" \in r.malformed, "invalid_task_request">>,
                          <<r.operation \notin RuntimeOperations, "invalid_capability">>,
                          <<"control" \in r.malformed, "invalid_execution_control_policy">>,
                          <<r.value = None \/ UnsafeInput(r), "invalid_task_request">>,
                          <<r.operation = "media_asset_fetch_by_ref" /\ BadPolicy(r), "invalid_task_request">>,
                          <<r.operation \in Continued /\ r.cursor = "broken", "invalid_continuation_token">>,
                          <<r.operation \in Continued /\ r.cursor \in {"elsewhere", "both"}, "unsafe_continuation_token">> >>
  <2>1. TaskFault(r) = FirstFault(checks)
    BY DEF TaskFault
  <2>2. DOMAIN checks = 1..7
    OBVIOUS
  <2>3. /\ checks[1][1] <=> (r.adapter = None \/ "input" \in r.malformed)
        /\ checks[2][1] <=> r.operation \notin RuntimeOperations
        /\ checks[3][1] <=> "control" \in r.malformed
        /\ checks[4][1] <=> (r.value = None \/ UnsafeInput(r))
        /\ checks[5][1] <=> (r.operation = "media_asset_fetch_by_ref" /\ BadPolicy(r))
        /\ checks[6][1] <=> (r.operation \in Continued /\ r.cursor = "broken")
        /\ checks[7][1] <=> (r.operation \in Continued /\ r.cursor \in {"elsewhere", "both"})
    OBVIOUS
  <2> HIDE DEF checks
  <2>4. ~UnsafeInput(r) /\ ~BadPolicy(r)
    BY DEF UnsafeInput, BadPolicy
  <2>5. /\ ~checks[1][1] /\ ~checks[2][1] /\ ~checks[3][1] /\ ~checks[4][1] /\ ~checks[5][1]
        /\ ~checks[6][1] /\ ~checks[7][1]
    BY <1>1, <2>3, <2>4
  <2>6. \A n \in 1..7 : n = 1 \/ n = 2 \/ n = 3 \/ n = 4 \/ n = 5 \/ n = 6 \/ n = 7
    OBVIOUS
  <2>7. \A n \in 1..7 : ~checks[n][1]
    BY <2>5, <2>6
  <2>8. FirstFault(checks) = None \/ \E n \in 1..7 : checks[n][1]
    BY <2>2, FaultOfFirst
  <2> QED BY <2>1, <2>7, <2>8
<1>3. CoreFault(r) = None
  <2> DEFINE checks == << <<r.malformed \cap {"target", "policy"} # {}, "invalid_task_request">>,
                          <<"control" \in r.malformed, "invalid_execution_control_policy">>,
                          <<r.adapter = None, "invalid_task_request">>,
                          <<r.operation \notin RuntimeOperations, "invalid_capability">>,
                          <<r.value = None \/ r.target \notin AllowedTargets \/ r.mode \notin AllowedModes,
                            "invalid_task_request">>,
                          <<r.operation = "media_asset_fetch_by_ref" /\ (r.value = "unsafe" \/ BadPolicy(r)),
                            "invalid_task_request">>,
                          <<r.operation \in Continued /\ r.cursor # "none", "unsupported_request_cursor">> >>
  <2>1. CoreFault(r) = FirstFault(checks)
    BY DEF CoreFault
  <2>2. DOMAIN checks = 1..7
    OBVIOUS
  <2>3. /\ checks[1][1] <=> r.malformed \cap {"target", "policy"} # {}
        /\ checks[2][1] <=> "control" \in r.malformed
        /\ checks[3][1] <=> r.adapter = None
        /\ checks[4][1] <=> r.operation \notin RuntimeOperations
        /\ checks[5][1] <=> (r.value = None \/ r.target \notin AllowedTargets \/ r.mode \notin AllowedModes)
        /\ checks[6][1] <=> (r.operation = "media_asset_fetch_by_ref" /\ (r.value = "unsafe" \/ BadPolicy(r)))
        /\ checks[7][1] <=> (r.operation \in Continued /\ r.cursor # "none")
    OBVIOUS
  <2> HIDE DEF checks
  <2>4. r.value # "unsafe" /\ ~BadPolicy(r)
    BY DEF BadPolicy
  <2>5. /\ ~checks[1][1] /\ ~checks[2][1] /\ ~checks[3][1] /\ ~checks[4][1] /\ ~checks[5][1]
        /\ ~checks[6][1] /\ ~checks[7][1]
    BY <1>1, <2>3, <2>4
  <2>6. \A n \in 1..7 : n = 1 \/ n = 2 \/ n = 3 \/ n = 4 \/ n = 5 \/ n = 6 \/ n = 7
    OBVIOUS
  <2>7. \A n \in 1..7 : ~checks[n][1]
    BY <2>5, <2>6
  <2>8. FirstFault(checks) = None \/ \E n \in 1..7 : checks[n][1]
    BY <2>2, FaultOfFirst
  <2> QED BY <2>1, <2>7, <2>8
<1>4. NormalizeFault(r) = None
  BY <1>2, <1>3 DEF NormalizeFault
<1>5. CursorFault(r) = None
  BY CommentCursorInOrder
<1> QED BY <1>4, <1>5

\* With nothing wrong before it, the adapter decides.
LEMMA AdmittedToAdapter ==
  ASSUME NEW its, NEW r, LET p == Projected(r)
                         IN /\ "task_id" \notin p.malformed /\ NormalizeFault(p) = None /\ AxisFault(p) = None
                            /\ RegistryError(its, p.adapter) = None /\ Lookup(its, p.adapter) # None
  PROVE  Admit(its, r) = ForAdapter(Lookup(its, Projected(r).adapter), Projected(r))
<1> DEFINE p == Projected(r)
           checks == << <<"task_id" \in p.malformed, "invalid_task_id">>,
                        <<NormalizeFault(p) # None, NormalizeFault(p)>>,
                        <<AxisFault(p) # None, AxisFault(p)>>,
                        <<RegistryError(its, p.adapter) # None, RegistryError(its, p.adapter)>>,
                        <<Lookup(its, p.adapter) = None, "adapter_not_found">> >>
<1>1. Admit(its, r) = IF FirstFault(checks) # None THEN Refused(FirstFault(checks)) ELSE ForAdapter(Lookup(its, p.adapter), p)
  BY DEF Admit
<1>2. DOMAIN checks = 1..5
  OBVIOUS
<1>3. /\ checks[1][1] <=> "task_id" \in p.malformed
      /\ checks[2][1] <=> NormalizeFault(p) # None
      /\ checks[3][1] <=> AxisFault(p) # None
      /\ checks[4][1] <=> RegistryError(its, p.adapter) # None
      /\ checks[5][1] <=> Lookup(its, p.adapter) = None
  OBVIOUS
<1>4. /\ "task_id" \notin p.malformed /\ NormalizeFault(p) = None /\ AxisFault(p) = None
      /\ RegistryError(its, p.adapter) = None /\ Lookup(its, p.adapter) # None
  OBVIOUS
<1> HIDE DEF checks, p
<1>5. ~checks[1][1] /\ ~checks[2][1] /\ ~checks[3][1] /\ ~checks[4][1] /\ ~checks[5][1]
  BY <1>3, <1>4
<1>6. \A n \in 1..5 : n = 1 \/ n = 2 \/ n = 3 \/ n = 4 \/ n = 5
  OBVIOUS
<1>7. \A n \in 1..5 : ~checks[n][1]
  BY <1>5, <1>6
<1>8. FirstFault(checks) = None \/ \E n \in 1..5 : checks[n][1]
  BY <1>2, FaultOfFirst
<1> QED BY <1>1, <1>7, <1>8 DEF p

\* A plain request for the slice of a decision that matched is matched, with slots for one of its
\* profiles, if the other adapters are sound; and only then.
LEMMA DecidedWouldRun ==
  ASSUME NEW w, Matchable(w), NEW its, RegistryHasLists(its),
         NEW last \in DOMAIN its, its[last].key = w.adapter, its[last].adapter = AdapterOf(w),
         \A n \in DOMAIN its : its[n].key = w.adapter => n = last,
         NEW r \in Requests, r.entry \in {"task", "core"}, r.malformed = {}, r.cursor = "none", r.value = "good",
         r.adapter = w.adapter, <<r.operation, r.target, r.mode>> = w.slice
  PROVE  LET sound == \A n \in DOMAIN its : its[n].key # w.adapter => AdapterError(its[n].key, its[n].adapter) = None
         IN /\ sound <=> Admit(its, r).outcome = "matched"
            /\ sound => \E n \in DOMAIN w.declaration.profiles :
                          ToSet(w.declaration.profiles[n].caps) \subseteq Admit(its, r).slots
<1> DEFINE sound == \A n \in DOMAIN its : its[n].key # w.adapter => AdapterError(its[n].key, its[n].adapter) = None
           p == Projected(r)
           a == AdapterOf(w)
           d == w.declaration
<1>1. IsList(its)
  BY DEF RegistryHasLists
<1>3. /\ AdapterError(w.adapter, a) = None /\ a # None
      /\ DeclarationHasLists(d) /\ DeclarationTaken(w.adapter, d)
      /\ d.version = "v2" /\ d.capability = w.family
      /\ LookupRequirement(a, w.family) = d
  BY DecidedIsSound
<1>4. w.adapter # None /\ \E n \in DOMAIN d.profiles : ToSet(d.profiles[n].caps) \subseteq RequestedSlots(d, Slots)
  BY <1>3, SlotsCover
<1>5. PICK m \in 1..6 : /\ w.slice[1] = StableRows[m].operation /\ w.slice[2] = StableRows[m].target
                        /\ w.slice[3] = StableRows[m].mode /\ w.family = StableRows[m].family
                        /\ StableRow(w.slice[1]) = StableRows[m]
                        /\ IsStable(Taxonomy, w.slice[1], w.slice[2], w.slice[3])
  BY RequiredSlice DEF Matchable
<1>6. a.families = {w.family} /\ a.targets = {w.slice[2]} /\ a.modes = {w.slice[3]}
  BY DEF AdapterOf
<1>7. r.operation = w.slice[1] /\ r.target = w.slice[2] /\ r.mode = w.slice[3]
  OBVIOUS
<1>8. /\ p.entry = r.entry /\ p.malformed = r.malformed /\ p.adapter = r.adapter /\ p.operation = r.operation
      /\ p.value = r.value /\ p.cursor = r.cursor
      /\ p.target = r.target /\ p.mode = r.mode
  BY <1>5, <1>7, ProjectedIsSame
<1> HIDE DEF d, p, sound
<1>10. its[last].adapter = a
  OBVIOUS
<1> HIDE DEF a
<1>11. sound <=> \A n \in DOMAIN its : AdapterError(its[n].key, its[n].adapter) = None
  BY <1>3, <1>10 DEF sound
<1>12. sound <=> RegistryError(its, p.adapter) = None
  BY <1>1, <1>11, SoundRegistry
<1>13. Lookup(its, p.adapter) = a
  <2>1. Lookup(its, w.adapter) = its[last].adapter
    BY <1>1, LookupFinds
  <2> QED BY <1>8, <1>10, <2>1
<1>14. NormalizeFault(p) = None /\ CursorFault(p) = None
  BY <1>4, <1>5, <1>7, <1>8, PlainIsInOrder
<1>15. AxisFault(p) = None
  BY <1>5, <1>7, <1>8, AxisIsStable
<1>16. FamilyOfOperation(p.operation) = w.family
  BY <1>5, <1>7, <1>8 DEF FamilyOfOperation
<1>17. AdapterFault(a, p) = None
  BY <1>6, <1>7, <1>8, <1>16, AdapterFits
<1>18. MatchStatus(d, p.adapter, w.family, RequestedSlots(d, Slots)) = "matched"
  <2>1. Satisfied(d, RequestedSlots(d, Slots))
    BY <1>3, <1>4 DEF Satisfied, ProfileSatisfied
  <2> QED BY <1>3, <1>8, <2>1, TakenIsMatched
<1>19. d # None
  BY <1>3 DEF DeclarationHasLists
<1>20. ASSUME sound
       PROVE  Admit(its, r).outcome = "matched" /\ Admit(its, r).slots = RequestedSlots(d, Slots)
  <2>1. Admit(its, r) = ForAdapter(a, p)
    <3>1. "task_id" \notin p.malformed
      BY <1>8
    <3> QED BY <1>3, <1>12, <1>13, <1>14, <1>15, <1>20, <3>1, AdmittedToAdapter DEF p
  <2>2. ForAdapter(a, p) = WithResources(d, p)
    BY <1>3, <1>14, <1>16, <1>17, <1>19 DEF ForAdapter
  <2>3. WithResources(d, p) = [outcome |-> "matched", code |-> None, slots |-> RequestedSlots(d, Slots)]
    BY <1>16, <1>18 DEF WithResources
  <2> QED BY <2>1, <2>2, <2>3
<1>21. ASSUME Admit(its, r).outcome = "matched"
       PROVE  sound
  <2>1. RegistryError(its, p.adapter) = None
    BY <1>21, AdmitChecks DEF p
  <2> QED BY <1>12, <2>1
<1> QED BY <1>4, <1>20, <1>21 DEF sound, d

\* What was matched in a decision runs.
LEMMA MatchedRuns ==
  ASSUME ContractInv, SessionInv, stage = "served"
  PROVE  MatchedWouldRun
<1> DEFINE plain == /\ request.entry \in {"task", "core"} /\ request.malformed = {} /\ request.cursor = "none"
                    /\ request.value = "good" /\ request.adapter = want.adapter
                    /\ <<request.operation, request.target, request.mode>> = want.slice
           sound == \A n \in DOMAIN items : items[n].key # want.adapter => AdapterError(items[n].key, items[n].adapter) = None
<1>1. SUFFICES ASSUME want # None, plain
               PROVE  /\ sound <=> response.reply.outcome = "matched"
                      /\ sound => \E n \in DOMAIN want.declaration.profiles :
                                    ToSet(want.declaration.profiles[n].caps) \subseteq response.reply.slots
  BY DEF MatchedWouldRun
<1>2. request \in Requests /\ response = Submit(items, request)
  BY DEF SessionInv
<1>3. response.reply = Admit(items, request)
  BY <1>1, <1>2 DEF Submit
<1>4. RegistryHasLists(items)
  BY RegistryIsListed
<1>5. Matchable(want)
  BY <1>1 DEF ContractInv
<1>6. PICK last \in DOMAIN items : /\ items[last].key = want.adapter /\ items[last].adapter = AdapterOf(want)
                                  /\ \A n \in DOMAIN items : items[n].key = want.adapter => n = last
  <2>1. PICK others \in Registries :
           /\ \A n \in DOMAIN others : others[n].key # want.adapter
           /\ items = Append(others, [key |-> want.adapter, adapter |-> AdapterOf(want)])
    BY <1>1 DEF ContractInv
  <2> DEFINE x == [key |-> want.adapter, adapter |-> AdapterOf(want)]
             last == Len(others) + 1
  <2>2. x.key = want.adapter /\ x.adapter = AdapterOf(want) /\ items = Append(others, x)
    BY <2>1
  <2>3. IsList(others)
    BY RegistriesAssumption DEF RegistryHasLists
  <2> HIDE DEF x
  <2>4. /\ DOMAIN items = 1..last /\ DOMAIN others = 1..Len(others) /\ Len(others) \in Nat
        /\ \A n \in DOMAIN others : items[n] = others[n]
        /\ items[last] = x
    BY <2>2, <2>3, AppendedList DEF IsList
  <2>5. last \in DOMAIN items /\ \A n \in DOMAIN items : n \in DOMAIN others \/ n = last
    BY <2>4
  <2> QED BY <2>1, <2>2, <2>4, <2>5
<1>7. /\ request.entry \in {"task", "core"} /\ request.malformed = {} /\ request.cursor = "none"
      /\ request.value = "good" /\ request.adapter = want.adapter
      /\ <<request.operation, request.target, request.mode>> = want.slice
  BY <1>1
<1>8. /\ sound <=> Admit(items, request).outcome = "matched"
      /\ sound => \E n \in DOMAIN want.declaration.profiles :
                    ToSet(want.declaration.profiles[n].caps) \subseteq Admit(items, request).slots
  BY <1>2, <1>4, <1>5, <1>6, <1>7, DecidedWouldRun
<1> HIDE DEF sound
<1> QED BY <1>3, <1>8

\* A request that is matched is one that the runtime can serve, and the answer over HTTP says what
\* became of a request: for any decisions, registries and requests.
THEOREM RequestsAreServable == Spec => []AdmittedIsServable
<1> DEFINE ready == ContractInv /\ SessionInv
<1>1. ready => AdmittedIsServable
  <2> SUFFICES ASSUME ContractInv, SessionInv, stage = "served" PROVE AdmittedIsServable
    BY DEF AdmittedIsServable
  <2> DEFINE reply == response.reply
             Approved(d, caps, refs) ==
               IF d.version = "v1" THEN d.refs = {<<d.adapter, c>> : c \in ToSet(caps)}
               ELSE \E pr \in ProofRecords :
                      /\ pr.shared = "shared" /\ request.adapter \in pr.adapters
                      /\ refs = <<pr.ref>> /\ pr.caps = caps
             Servable(e, a, d) ==
               /\ e.family \in a.families /\ e.target \in a.targets /\ e.mode \in a.modes
               /\ d.capability = e.family /\ d.adapter = request.adapter
               /\ \/ d.version = "v1" /\ Approved(d, d.caps, <<>>) /\ ToSet(d.caps) \subseteq reply.slots
                  \/ /\ d.version = "v2"
                     /\ \A n \in DOMAIN d.profiles : Approved(d, d.profiles[n].caps, d.profiles[n].refs)
                     /\ \E n \in DOMAIN d.profiles : ToSet(d.profiles[n].caps) \subseteq reply.slots
  <2>1. request \in Requests /\ response = Submit(items, request) /\ RegistryHasLists(items)
    BY RegistryIsListed DEF SessionInv
  <2>2. MatchedWouldRun
    BY MatchedRuns
  <2>3. ASSUME reply.outcome = "matched"
        PROVE  /\ \A n \in DOMAIN items : items[n].adapter.malformed = {} /\ items[n].key # None
               /\ request.operation \in Continued \cup {"comment_collection"} => request.cursor \in {"none", "here"}
               /\ \E n \in DOMAIN items, m \in DOMAIN StableRows :
                    /\ items[n].key = request.adapter /\ StableRows[m].operation = request.operation
                    /\ request.entry = "core" => <<request.target, request.mode>> =
                                                 <<StableRows[m].target, StableRows[m].mode>>
                    /\ \E k \in DOMAIN items[n].adapter.declarations :
                         Servable(StableRows[m], items[n].adapter, items[n].adapter.declarations[k])
    <3>1. reply = Admit(items, request) /\ Admit(items, request).outcome = "matched"
      BY <2>1, <2>3, MatchedIsAdmitted
    <3>2. /\ \A n \in DOMAIN items : items[n].adapter.malformed = {} /\ items[n].key # None
          /\ request.operation \in Continued \cup {"comment_collection"} => request.cursor \in {"none", "here"}
      BY <2>1, <3>1, MatchedIsServed
    <3>3. PICK n \in DOMAIN items, m \in DOMAIN StableRows :
             /\ items[n].key = request.adapter /\ StableRows[m].operation = request.operation
             /\ request.entry = "core" => request.target = StableRows[m].target /\ request.mode = StableRows[m].mode
             /\ StableRows[m].family \in items[n].adapter.families
             /\ StableRows[m].target \in items[n].adapter.targets /\ StableRows[m].mode \in items[n].adapter.modes
             /\ \E k \in DOMAIN items[n].adapter.declarations :
                  LET d == items[n].adapter.declarations[k]
                  IN /\ d.capability = StableRows[m].family /\ d.adapter = request.adapter
                     /\ DeclarationHasLists(d) /\ DeclarationTaken(request.adapter, d)
                     /\ Satisfied(d, Admit(items, request).slots)
      BY <2>1, <3>1, MatchedIsServed
    <3>4. PICK k \in DOMAIN items[n].adapter.declarations :
             LET d == items[n].adapter.declarations[k]
             IN /\ d.capability = StableRows[m].family /\ d.adapter = request.adapter
                /\ DeclarationHasLists(d) /\ DeclarationTaken(request.adapter, d)
                /\ Satisfied(d, reply.slots)
      BY <3>1, <3>3
    <3> DEFINE d == items[n].adapter.declarations[k]
    <3>5. d.adapter = request.adapter /\ d.capability = StableRows[m].family
      BY <3>4
    <3>6. \/ /\ d.version = "v1" /\ d.refs = {<<d.adapter, c>> : c \in ToSet(d.caps)}
             /\ ToSet(d.caps) \subseteq reply.slots
          \/ /\ d.version = "v2"
             /\ \A i \in DOMAIN d.profiles : \E pr \in ProofRecords :
                  /\ pr.shared = "shared" /\ request.adapter \in pr.adapters
                  /\ d.profiles[i].refs = <<pr.ref>> /\ pr.caps = d.profiles[i].caps
             /\ \E i \in DOMAIN d.profiles : ToSet(d.profiles[i].caps) \subseteq reply.slots
      <4> HIDE DEF reply
      <4> QED BY <3>4, SatisfiedIsBacked
    <3> HIDE DEF d, reply
    <3>7. Servable(StableRows[m], items[n].adapter, d)
      <4> DEFINE Plenty == /\ d.version = "v2"
                           /\ \A i \in DOMAIN d.profiles : Approved(d, d.profiles[i].caps, d.profiles[i].refs)
                           /\ \E i \in DOMAIN d.profiles : ToSet(d.profiles[i].caps) \subseteq reply.slots
                 ByList == d.version = "v1" /\ Approved(d, d.caps, <<>>) /\ ToSet(d.caps) \subseteq reply.slots
      <4>1. ByList \/ Plenty
        <5>1. "v1" # "v2"
          OBVIOUS
        <5> QED BY <3>6, <5>1
      <4> HIDE DEF Plenty, ByList
      <4>2. d.capability = StableRows[m].family /\ d.adapter = request.adapter
        BY <3>5
      <4> QED BY <3>3, <4>1, <4>2 DEF Plenty, ByList
    <3> HIDE DEF Servable
    <3>8. \E i \in DOMAIN items[n].adapter.declarations :
            Servable(StableRows[m], items[n].adapter, items[n].adapter.declarations[i])
      BY <3>4, <3>7 DEF d
    <3>9. request.entry = "core" => <<request.target, request.mode>> = <<StableRows[m].target, StableRows[m].mode>>
      BY <3>3
    <3> QED BY <3>2, <3>3, <3>8, <3>9
  <2>4. ASSUME request.entry = "http"
        PROVE  /\ response.status = 202 <=> reply.outcome # "refused"
               /\ response.status = 500 =>
                    \/ "task_id" \in request.malformed \/ RegistryFault(items) # None
                    \/ Lookup(items, request.adapter).declarations = <<>>
                    \/ ~\E k \in DOMAIN Lookup(items, request.adapter).declarations :
                          Lookup(items, request.adapter).declarations[k].capability = "content_detail"
    BY <2>1, <2>4, HttpAnswers
  <2> QED BY <2>2, <2>3, <2>4, SMTT(40) DEF AdmittedIsServable
<1> QED BY <1>1, ContractInvariance, SessionInvariance, PTL

-----------------------------------------------------------------------------
(* What a decision rests on *)

\* Induction over the numbers up to n, on a set of them.
LEMMA UpTo ==
  ASSUME NEW n \in Nat, NEW good, n # 0 => 1 \in good, \A m \in 2..n : m - 1 \in good => m \in good
  PROVE  \A m \in 1..n : m \in good
<1> DEFINE bad == {m \in 1..n : m \notin good}
<1>1. SUFFICES ASSUME bad # {} PROVE FALSE
  OBVIOUS
<1>2. bad \in SUBSET Nat
  OBVIOUS
<1>3. PICK m \in bad : \A k \in bad : m <= k
  <2>1. Min(bad) \in bad /\ \A k \in bad : Min(bad) <= k
    <3> HIDE DEF bad
    <3> QED BY <1>1, <1>2, LeastIsIn
  <2> QED BY <2>1
<1>4. m \in 1..n /\ m \notin good /\ m # 1
  BY <1>3
<1>5. m - 1 \in 1..n /\ ~(m <= m - 1) /\ m \in 2..n
  BY <1>4
<1>6. m - 1 \in good
  BY <1>3, <1>5
<1> QED BY <1>4, <1>5, <1>6

\* A list of lists with one entry each is flattened to the list of their entries.
LEMMA FlattenedOnes ==
  ASSUME NEW lists, IsList(lists), \A i \in DOMAIN lists : IsList(lists[i]) /\ Len(lists[i]) = 1, Len(lists) # 0
  PROVE  ToSet(FlattenSeq(lists)) = {lists[i][1] : i \in DOMAIN lists}
<1> DEFINE last == Len(lists)
           Rec(g, n) == g = [i \in 1..n |-> IF i = 1 THEN lists[i] ELSE g[i - 1] \o lists[i]]
           flatten == CHOOSE g : Rec(g, last)
           S == {lists[i][1] : i \in 1..last}
<1>1. last \in Nat /\ last # 0 /\ DOMAIN lists = 1..last
  BY DEF IsList
<1>2. FlattenSeq(lists) = flatten[last]
  BY DEF FlattenSeq
<1>3. \A i \in 1..last : lists[i] \in Seq(S) /\ Len(lists[i]) = 1 /\ lists[i][1] \in S
  <2>1. SUFFICES ASSUME NEW i \in 1..last PROVE lists[i] \in Seq(S) /\ Len(lists[i]) = 1 /\ lists[i][1] \in S
    OBVIOUS
  <2>2. lists[i] = [n \in 1..1 |-> lists[i][n]] /\ Len(lists[i]) = 1
    BY <1>1 DEF IsList
  <2>3. \A n \in 1..1 : lists[i][n] \in S
    OBVIOUS
  <2> QED BY <2>2, <2>3
<1> HIDE DEF last, S
<1> DEFINE Defined == {n \in 1..last : \E g : Rec(g, n)}
<1>4. \A n \in 1..last : n \in Defined
  <2>1. 1 \in Defined
    <3>1. Rec([i \in 1..1 |-> lists[i]], 1)
      OBVIOUS
    <3> HIDE DEF Rec
    <3> QED BY <1>1, <3>1
  <2>2. ASSUME NEW m \in 2..last, m - 1 \in Defined PROVE m \in Defined
    <3>1. m \in 1..last /\ m - 1 \in 1..last /\ m # 1 /\ m \in Nat
      BY <1>1
    <3>2. PICK h : Rec(h, m - 1)
      BY <2>2
    <3> DEFINE g == [i \in 1..m |-> IF i = m THEN h[m - 1] \o lists[m] ELSE h[i]]
    <3>3. \A i \in 1..(m - 1) : h[i] = IF i = 1 THEN lists[i] ELSE h[i - 1] \o lists[i]
      BY <3>2
    <3>4. ASSUME NEW i \in 1..m PROVE g[i] = IF i = 1 THEN lists[i] ELSE g[i - 1] \o lists[i]
      <4>1. CASE i = m
        <5>1. m - 1 \in 1..m /\ m - 1 # m /\ m \in 1..m
          BY <3>1
        <5>2. g[m] = h[m - 1] \o lists[m] /\ g[m - 1] = h[m - 1]
          BY <5>1
        <5> HIDE DEF g
        <5> QED BY <3>1, <4>1, <5>2
      <4>2. CASE i # m
        <5>1. i \in 1..(m - 1) /\ g[i] = h[i]
          BY <3>1, <4>2
        <5>2. i # 1 => g[i - 1] = h[i - 1]
          BY <3>1, <4>2
        <5> HIDE DEF g
        <5> QED BY <3>3, <5>1, <5>2
      <4> QED BY <4>1, <4>2
    <3>5. g = [i \in 1..m |-> g[i]]
      OBVIOUS
    <3> HIDE DEF g
    <3>6. \A i \in 1..m : g[i] = IF i = 1 THEN lists[i] ELSE g[i - 1] \o lists[i]
      BY <3>4
    <3>7. Rec(g, m)
      BY <3>5, <3>6
    <3> HIDE DEF Rec
    <3> QED BY <3>1, <3>7
  <2> HIDE DEF Defined
  <2> QED BY <1>1, <2>1, <2>2, UpTo
<1>5. Rec(flatten, last)
  <2>1. last \in 1..last
    BY <1>1
  <2>2. \E g : Rec(g, last)
    BY <1>4, <2>1
  <2> HIDE DEF Rec
  <2> QED BY <2>2
<1> HIDE DEF flatten
<1>6. \A i \in 1..last : flatten[i] = IF i = 1 THEN lists[i] ELSE flatten[i - 1] \o lists[i]
  BY <1>5
<1>7. ASSUME NEW T, NEW s \in Seq(T), NEW t \in Seq(T), Len(t) = 1
      PROVE  /\ s \o t \in Seq(T) /\ Len(s \o t) = Len(s) + 1
             /\ \A k \in 1..Len(s) : (s \o t)[k] = s[k]
             /\ (s \o t)[Len(s) + 1] = t[1]
  <2>1. ASSUME NEW U, NEW u \in Seq(U), NEW v \in Seq(U)
        PROVE  /\ u \o v \in Seq(U) /\ Len(u \o v) = Len(u) + Len(v)
               /\ \A k \in 1..Len(u) : (u \o v)[k] = u[k]
               /\ \A k \in (Len(u) + 1)..(Len(u) + Len(v)) : (u \o v)[k] = v[k - Len(u)]
    OBVIOUS
  <2>2. /\ s \o t \in Seq(T) /\ Len(s \o t) = Len(s) + Len(t)
        /\ \A k \in 1..Len(s) : (s \o t)[k] = s[k]
        /\ \A k \in (Len(s) + 1)..(Len(s) + Len(t)) : (s \o t)[k] = t[k - Len(s)]
    BY <2>1
  <2>3. Len(s) \in Nat /\ Len(s) + 1 \in (Len(s) + 1)..(Len(s) + Len(t)) /\ (Len(s) + 1) - Len(s) = 1
    BY <1>7
  <2> QED BY <1>7, <2>2, <2>3
<1> DEFINE Good(i) == flatten[i] \in Seq(S) /\ Len(flatten[i]) = i /\ \A k \in 1..i : flatten[i][k] = lists[k][1]
           Flat == {i \in 1..last : Good(i)}
<1>8. \A i \in 1..last : i \in Flat
  <2>1. 1 \in Flat
    <3>1. Good(1)
      BY <1>1, <1>3, <1>6
    <3> HIDE DEF Good
    <3> QED BY <1>1, <3>1
  <2>2. ASSUME NEW m \in 2..last, m - 1 \in Flat PROVE m \in Flat
    <3>1. m \in 1..last /\ m - 1 \in 1..last /\ m # 1 /\ m \in Nat
      BY <1>1
    <3>2. Good(m - 1)
      BY <2>2
    <3> DEFINE s == flatten[m - 1]
               t == lists[m]
    <3>3. flatten[m] = s \o t
      BY <1>6, <3>1
    <3>4. s \in Seq(S) /\ Len(s) = m - 1 /\ t \in Seq(S) /\ Len(t) = 1
      BY <1>3, <3>1, <3>2
    <3>5. \A k \in 1..(m - 1) : s[k] = lists[k][1]
      BY <3>2
    <3> HIDE DEF s
    <3>6. /\ s \o t \in Seq(S) /\ Len(s \o t) = Len(s) + 1
          /\ \A k \in 1..Len(s) : (s \o t)[k] = s[k]
          /\ (s \o t)[Len(s) + 1] = t[1]
      <4> HIDE DEF t
      <4> QED BY <1>7, <3>4
    <3>7. flatten[m] \in Seq(S) /\ Len(flatten[m]) = m
      BY <3>1, <3>3, <3>4, <3>6
    <3>8. ASSUME NEW k \in 1..m PROVE flatten[m][k] = lists[k][1]
      <4>1. CASE k = m
        <5>1. Len(s) + 1 = m
          BY <3>1, <3>4
        <5> QED BY <3>3, <3>6, <4>1, <5>1
      <4>2. CASE k # m
        <5>1. k \in 1..(m - 1)
          BY <3>1, <4>2
        <5> QED BY <3>3, <3>4, <3>5, <3>6, <5>1
      <4> QED BY <4>1, <4>2
    <3>9. Good(m)
      BY <3>7, <3>8
    <3> HIDE DEF Good
    <3> QED BY <3>1, <3>9
  <2> HIDE DEF Flat
  <2> QED BY <1>1, <2>1, <2>2, UpTo
<1>9. Good(last) /\ last \in 1..last
  BY <1>1, <1>8
<1>10. DOMAIN flatten[last] = 1..last
  BY <1>9
<1>11. ToSet(flatten[last]) = {flatten[last][k] : k \in 1..last}
  BY <1>10 DEF ToSet
<1>12. \A k \in 1..last : flatten[last][k] = lists[k][1]
  BY <1>9
<1> HIDE DEF Good
<1> QED BY <1>1, <1>2, <1>11, <1>12

\* An approved proof is known by its reference, and by its capabilities.
LEMMA ApprovedProofsDiffer ==
  ASSUME NEW p \in ApprovedProofs, NEW q \in ApprovedProofs
  PROVE  /\ p.ref = q.ref <=> p = q
         /\ p.caps = q.caps <=> p = q
         /\ p.mode = q.mode
         /\ ToSet(p.caps) \subseteq ResourceCapabilities
<1> DEFINE both == Proof("account-proxy", "required", <<"account", "proxy">>, ReferenceAdapters, "shared")
           one == Proof("account", "required", <<"account">>, ReferenceAdapters, "shared")
<1>1. p \in {both, one} /\ q \in {both, one}
  BY DEF ApprovedProofs, ProofRecords, Proof
<1>2. both.ref = "account-proxy" /\ one.ref = "account" /\ both.mode = "required" /\ one.mode = "required"
  BY DEF Proof
<1>3. both.caps = <<"account", "proxy">> /\ one.caps = <<"account">> /\ <<"account", "proxy">> # <<"account">>
  BY DEF Proof
<1>4. ToSet(<<"account", "proxy">>) \subseteq ResourceCapabilities /\ ToSet(<<"account">>) \subseteq ResourceCapabilities
  BY DEF ToSet, ResourceCapabilities
<1> HIDE DEF both, one
<1> QED BY <1>1, <1>2, <1>3, <1>4

\* To put capabilities in order changes none of them.
LEMMA OrderedCapabilities ==
  ASSUME NEW caps, ToSet(caps) \subseteq ResourceCapabilities
  PROVE  ToSet(Canonical(caps)) = ToSet(caps)
<1> DEFINE orders == {<<>>, <<"account">>, <<"proxy">>, CapabilityOrder}
<1>1. /\ ToSet(<<>>) = {} /\ ToSet(<<"account">>) = {"account"} /\ ToSet(<<"proxy">>) = {"proxy"}
      /\ ToSet(CapabilityOrder) = {"account", "proxy"}
  BY DEF ToSet, CapabilityOrder
<1>2. \/ ToSet(caps) = {} \/ ToSet(caps) = {"account"} \/ ToSet(caps) = {"proxy"} \/ ToSet(caps) = {"account", "proxy"}
  BY DEF ResourceCapabilities
<1>3. \E order \in orders : ToSet(order) = ToSet(caps)
  BY <1>1, <1>2
<1>4. ToSet(caps) \cap ResourceCapabilities = ToSet(caps)
  OBVIOUS
<1>5. Canonical(caps) = CHOOSE order \in orders : ToSet(order) = ToSet(caps) \cap ResourceCapabilities
  BY DEF Canonical
<1> HIDE DEF orders
<1> QED BY <1>3, <1>4, <1>5

\* The references of profiles with one reference each.
LEMMA RefsOfProfiles ==
  ASSUME NEW profiles, ProfilesHaveLists(profiles), profiles # <<>>, \A n \in DOMAIN profiles : Len(profiles[n].refs) = 1
  PROVE  ToSet(ProofRefs(profiles)) = {profiles[n].refs[1] : n \in DOMAIN profiles}
<1> DEFINE lists == [i \in DOMAIN profiles |-> profiles[i].refs]
<1>1. /\ Len(profiles) \in Nat /\ DOMAIN profiles = 1..Len(profiles)
      /\ profiles = [i \in 1..Len(profiles) |-> profiles[i]]
  BY DEF ProfilesHaveLists, IsList
<1>2. Len(profiles) # 0
  <2>1. SUFFICES ASSUME Len(profiles) = 0 PROVE FALSE
    OBVIOUS
  <2>2. profiles = [i \in 1..0 |-> profiles[i]]
    BY <1>1, <2>1
  <2>3. profiles = <<>>
    BY <2>2
  <2> QED BY <2>3
<1>3. DOMAIN lists = 1..Len(profiles) /\ Len(lists) = Len(profiles) /\ lists = [i \in 1..Len(profiles) |-> lists[i]]
  BY <1>1
<1>4. \A i \in DOMAIN profiles : lists[i] = profiles[i].refs
  OBVIOUS
<1>5. ProofRefs(profiles) = FlattenSeq(lists)
  BY DEF ProofRefs
<1> HIDE DEF lists
<1>6. IsList(lists) /\ Len(lists) # 0
  BY <1>1, <1>2, <1>3 DEF IsList
<1>7. \A i \in DOMAIN lists : IsList(lists[i]) /\ Len(lists[i]) = 1
  BY <1>1, <1>3, <1>4 DEF ProfilesHaveLists
<1>8. ToSet(FlattenSeq(lists)) = {lists[i][1] : i \in DOMAIN lists}
  BY <1>6, <1>7, FlattenedOnes
<1> QED BY <1>1, <1>3, <1>4, <1>5, <1>8

\* Behind each profile of a requirement or an offer that is valid there is one approved proof, and it
\* is all that the contract cites for it.
LEMMA ProofsOfContracts ==
  ASSUME NEW profiles, ProfilesHaveLists(profiles), profiles # <<>>, NEW adapter,
         \/ \E capability : \A n \in DOMAIN profiles : ProfileTaken(adapter, capability, profiles[n])
         \/ \E o : o.adapter = adapter /\ \A n \in DOMAIN profiles : ProfileOffered(o, profiles[n])
  PROVE  /\ \A n \in DOMAIN profiles : \E pr \in ApprovedProofs :
              /\ profiles[n].refs = <<pr.ref>> /\ adapter \in pr.adapters /\ pr.mode = profiles[n].mode
              /\ pr.caps = Canonical(profiles[n].caps) /\ ToSet(pr.caps) = ToSet(profiles[n].caps)
         /\ ToSet(ProofRefs(profiles)) = {profiles[n].refs[1] : n \in DOMAIN profiles}
<1>1. ASSUME NEW n \in DOMAIN profiles
      PROVE  /\ Len(profiles[n].refs) = 1 /\ ToSet(profiles[n].caps) \subseteq ResourceCapabilities
             /\ \E pr \in ApprovedProofs :
                  /\ pr.ref = profiles[n].refs[1] /\ adapter \in pr.adapters /\ pr.mode = profiles[n].mode
                  /\ pr.caps = Canonical(profiles[n].caps)
  <2>1. CASE \E capability : \A k \in DOMAIN profiles : ProfileTaken(adapter, capability, profiles[k])
    <3>1. PICK capability : ProfileTaken(adapter, capability, profiles[n])
      BY <2>1
    <3>2. /\ Len(profiles[n].refs) = 1 /\ ToSet(profiles[n].caps) \subseteq ResourceCapabilities
          /\ profiles[n].caps = Canonical(profiles[n].caps)
      BY <3>1 DEF ProfileTaken, CapabilitiesAllowed
    <3>3. \E pr \in ApprovedProofs : pr.ref = profiles[n].refs[1] /\ ProofAligned(pr, adapter, capability, profiles[n])
      BY <3>1 DEF ProfileTaken
    <3> QED BY <3>2, <3>3 DEF ProofAligned
  <2>2. CASE \E o : o.adapter = adapter /\ \A k \in DOMAIN profiles : ProfileOffered(o, profiles[k])
    BY <2>2 DEF ProfileOffered, CapabilitiesAllowed
  <2> QED BY <2>1, <2>2
<1>2. ASSUME NEW n \in DOMAIN profiles
      PROVE  \E pr \in ApprovedProofs :
               /\ profiles[n].refs = <<pr.ref>> /\ adapter \in pr.adapters /\ pr.mode = profiles[n].mode
               /\ pr.caps = Canonical(profiles[n].caps) /\ ToSet(pr.caps) = ToSet(profiles[n].caps)
  <2>1. profiles[n].refs = <<profiles[n].refs[1]>>
    BY <1>1, ListOfOne DEF ProfilesHaveLists
  <2>2. ToSet(Canonical(profiles[n].caps)) = ToSet(profiles[n].caps)
    BY <1>1, OrderedCapabilities
  <2> QED BY <1>1, <2>1, <2>2
<1>3. ToSet(ProofRefs(profiles)) = {profiles[n].refs[1] : n \in DOMAIN profiles}
  BY <1>1, RefsOfProfiles
<1> QED BY <1>2, <1>3

\* The contracts of a decision have profiles, each with its proof, and cite these proofs and no others.
LEMMA CitedEvidence ==
  ASSUME NEW i \in Inputs
  PROVE  LET r == i.requirement
             o == i.offer
             Proven(profiles, adapter) ==
               \A n \in DOMAIN profiles : \E pr \in ApprovedProofs :
                 /\ profiles[n].refs = <<pr.ref>> /\ adapter \in pr.adapters /\ pr.mode = profiles[n].mode
                 /\ pr.caps = Canonical(profiles[n].caps) /\ ToSet(pr.caps) = ToSet(profiles[n].caps)
         IN /\ ValidRequirement(r) =>
                 /\ Proven(r.declaration.profiles, r.adapter)
                 /\ ToSet(r.evidence) = {r.declaration.profiles[n].refs[1] : n \in DOMAIN r.declaration.profiles}
            /\ ValidOffer(o) =>
                 /\ Proven(o.profiles, o.adapter)
                 /\ ToSet(o.evidence) = {o.profiles[n].refs[1] : n \in DOMAIN o.profiles}
<1> DEFINE r == i.requirement
           o == i.offer
           Proven(profiles, adapter) ==
             \A n \in DOMAIN profiles : \E pr \in ApprovedProofs :
               /\ profiles[n].refs = <<pr.ref>> /\ adapter \in pr.adapters /\ pr.mode = profiles[n].mode
               /\ pr.caps = Canonical(profiles[n].caps) /\ ToSet(pr.caps) = ToSet(profiles[n].caps)
           rp == r.declaration.profiles
           op == o.profiles
<1>1. ProfilesHaveLists(rp) /\ ProfilesHaveLists(op)
  BY InputsAssumption DEF DeclarationHasLists
<1>2. ASSUME ValidRequirement(r)
      PROVE  Proven(rp, r.adapter) /\ ToSet(r.evidence) = {rp[n].refs[1] : n \in DOMAIN rp}
  <2>1. /\ rp # <<>> /\ \A n \in DOMAIN rp : ProfileTaken(r.adapter, r.declaration.capability, rp[n])
        /\ r.evidence = ProofRefs(rp)
    BY <1>2 DEF ValidRequirement, ResourceRequirementTaken, RequirementHolds, DeclarationTaken, DeclarationV2Taken
  <2>2. \E capability : \A n \in DOMAIN rp : ProfileTaken(r.adapter, capability, rp[n])
    BY <2>1
  <2> DEFINE adapter == r.adapter
             evidence == r.evidence
  <2> HIDE DEF rp, adapter, evidence
  <2>3. /\ \A n \in DOMAIN rp : \E pr \in ApprovedProofs :
             /\ rp[n].refs = <<pr.ref>> /\ adapter \in pr.adapters /\ pr.mode = rp[n].mode
             /\ pr.caps = Canonical(rp[n].caps) /\ ToSet(pr.caps) = ToSet(rp[n].caps)
        /\ ToSet(ProofRefs(rp)) = {rp[n].refs[1] : n \in DOMAIN rp}
    <3>1. \E capability : \A n \in DOMAIN rp : ProfileTaken(adapter, capability, rp[n])
      BY <2>2 DEF adapter
    <3> QED BY <1>1, <2>1, <3>1, ProofsOfContracts
  <2> QED BY <2>1, <2>3 DEF adapter, evidence
<1>3. ASSUME ValidOffer(o)
      PROVE  Proven(op, o.adapter) /\ ToSet(o.evidence) = {op[n].refs[1] : n \in DOMAIN op}
  <2>1. op # <<>> /\ (\A n \in DOMAIN op : ProfileOffered(o, op[n])) /\ o.evidence = ProofRefs(op)
    BY <1>3 DEF ValidOffer, ProfilesOffered
  <2> DEFINE adapter == o.adapter
             evidence == o.evidence
  <2>2. \E x : x.adapter = adapter /\ \A n \in DOMAIN op : ProfileOffered(x, op[n])
    BY <2>1
  <2>3. evidence = ProofRefs(op)
    BY <2>1
  <2> HIDE DEF op, adapter, evidence
  <2>4. /\ \A n \in DOMAIN op : \E pr \in ApprovedProofs :
             /\ op[n].refs = <<pr.ref>> /\ adapter \in pr.adapters /\ pr.mode = op[n].mode
             /\ pr.caps = Canonical(op[n].caps) /\ ToSet(pr.caps) = ToSet(op[n].caps)
        /\ ToSet(ProofRefs(op)) = {op[n].refs[1] : n \in DOMAIN op}
    BY <1>1, <2>1, <2>2, ProofsOfContracts
  <2> QED BY <2>3, <2>4 DEF adapter, evidence
<1> QED BY <1>2, <1>3

\* Profiles with proofs are matched exactly on the proofs that both contracts cite.
LEMMA MatchedOnShared ==
  ASSUME NEW r, NEW o,
         LET rp == r.declaration.profiles
             op == o.profiles
         IN /\ \A n \in DOMAIN rp : \E pr \in ApprovedProofs :
                 /\ rp[n].refs = <<pr.ref>> /\ r.adapter \in pr.adapters /\ pr.mode = rp[n].mode
                 /\ pr.caps = Canonical(rp[n].caps) /\ ToSet(pr.caps) = ToSet(rp[n].caps)
            /\ \A n \in DOMAIN op : \E pr \in ApprovedProofs :
                 /\ op[n].refs = <<pr.ref>> /\ o.adapter \in pr.adapters /\ pr.mode = op[n].mode
                 /\ pr.caps = Canonical(op[n].caps) /\ ToSet(pr.caps) = ToSet(op[n].caps)
  PROVE  LET rp == r.declaration.profiles
             op == o.profiles
             matched == MatchedProfiles(r, o)
             shared == {rp[n].refs[1] : n \in DOMAIN rp} \cap {op[n].refs[1] : n \in DOMAIN op}
         IN /\ UNION {ToSet(m.required.refs) : m \in matched} = shared
            /\ UNION {ToSet(m.offered.refs) : m \in matched} = shared
            /\ matched = {} <=> shared = {}
            /\ \A m \in matched : \E pr \in ApprovedProofs :
                 /\ r.adapter \in pr.adapters
                 /\ pr.ref = m.required.refs[1] /\ pr.ref = m.offered.refs[1]
                 /\ ToSet(pr.caps) = ToSet(m.required.caps) /\ ToSet(pr.caps) = ToSet(m.offered.caps)
<1> DEFINE rp == r.declaration.profiles
           op == o.profiles
           matched == MatchedProfiles(r, o)
           shared == {rp[n].refs[1] : n \in DOMAIN rp} \cap {op[n].refs[1] : n \in DOMAIN op}
           Behind(pr, f) == /\ f.refs = <<pr.ref>> /\ pr.mode = f.mode
                            /\ pr.caps = Canonical(f.caps) /\ ToSet(pr.caps) = ToSet(f.caps)
<1>1. /\ \A n \in DOMAIN rp : \E pr \in ApprovedProofs : r.adapter \in pr.adapters /\ Behind(pr, rp[n])
      /\ \A n \in DOMAIN op : \E pr \in ApprovedProofs : Behind(pr, op[n])
  OBVIOUS
<1>2. matched = {m \in [required : ToSet(rp), offered : ToSet(op)] : SameTuple(m.required, m.offered)}
  BY DEF MatchedProfiles
<1>3. /\ \A f : f \in ToSet(rp) <=> \E n \in DOMAIN rp : f = rp[n]
      /\ \A f : f \in ToSet(op) <=> \E n \in DOMAIN op : f = op[n]
  BY DEF ToSet
<1>4. ASSUME NEW f, NEW g, NEW p \in ApprovedProofs, NEW q \in ApprovedProofs, Behind(p, f), Behind(q, g)
      PROVE  /\ SameTuple(f, g) <=> f.refs[1] = g.refs[1]
             /\ f.refs[1] = p.ref
             /\ g.refs[1] = q.ref
             /\ f.refs[1] = g.refs[1] => p = q
             /\ ToSet(f.refs) = {f.refs[1]}
             /\ ToSet(g.refs) = {g.refs[1]}
  <2>1. f.refs[1] = p.ref /\ g.refs[1] = q.ref /\ ToSet(f.refs) = {p.ref} /\ ToSet(g.refs) = {q.ref}
    <3>1. \A x : <<x>>[1] = x /\ ToSet(<<x>>) = {x}
      BY DEF ToSet
    <3>2. f.refs = <<p.ref>> /\ g.refs = <<q.ref>>
      BY <1>4
    <3> QED BY <3>1, <3>2
  <2>2. SameTuple(f, g) <=> p = q
    BY <1>4, ApprovedProofsDiffer DEF SameTuple
  <2>3. p.ref = q.ref <=> p = q
    BY ApprovedProofsDiffer
  <2> QED BY <2>1, <2>2, <2>3
<1> HIDE DEF Behind
<1>4a. ASSUME NEW f, NEW p \in ApprovedProofs, Behind(p, f)
      PROVE  f.refs[1] = p.ref /\ ToSet(f.refs) = {f.refs[1]}
  BY <1>4, <1>4a
<1>5. ASSUME NEW m \in matched
      PROVE  /\ ToSet(m.required.refs) = {m.required.refs[1]} /\ ToSet(m.offered.refs) = {m.required.refs[1]}
             /\ m.required.refs[1] \in shared
             /\ \E pr \in ApprovedProofs :
                  /\ r.adapter \in pr.adapters
                  /\ pr.ref = m.required.refs[1] /\ pr.ref = m.offered.refs[1]
                  /\ ToSet(pr.caps) = ToSet(m.required.caps) /\ ToSet(pr.caps) = ToSet(m.offered.caps)
  <2>1. m.required \in ToSet(rp) /\ m.offered \in ToSet(op) /\ SameTuple(m.required, m.offered)
    BY <1>2
  <2>2. PICK n \in DOMAIN rp, k \in DOMAIN op : m.required = rp[n] /\ m.offered = op[k]
    BY <1>3, <2>1
  <2>3. PICK p \in ApprovedProofs, q \in ApprovedProofs :
           r.adapter \in p.adapters /\ Behind(p, m.required) /\ Behind(q, m.offered)
    BY <1>1, <2>2
  <2>4. /\ m.required.refs[1] = m.offered.refs[1] /\ p = q /\ m.required.refs[1] = p.ref
        /\ ToSet(m.required.refs) = {m.required.refs[1]} /\ ToSet(m.offered.refs) = {m.required.refs[1]}
    <3> DEFINE u == m.required
               v == m.offered
    <3>1. Behind(p, u) /\ Behind(q, v) /\ SameTuple(u, v)
      BY <2>1, <2>3
    <3> HIDE DEF u, v
    <3>4. u.refs[1] = p.ref /\ ToSet(u.refs) = {u.refs[1]}
      BY <1>4a, <3>1
    <3>5. v.refs[1] = q.ref /\ ToSet(v.refs) = {v.refs[1]}
      BY <1>4a, <3>1
    <3>6. SameTuple(u, v) <=> u.refs[1] = v.refs[1]
      BY <1>4, <3>1
    <3>2. u.refs[1] = v.refs[1] => p = q
      BY <1>4, <3>1
    <3>3. /\ u.refs[1] = v.refs[1] /\ p = q /\ u.refs[1] = p.ref
          /\ ToSet(u.refs) = {u.refs[1]} /\ ToSet(v.refs) = {u.refs[1]}
      BY <3>1, <3>2, <3>4, <3>5, <3>6
    <3> QED BY <3>3 DEF u, v
  <2>5. m.required.refs[1] \in shared
    BY <2>2, <2>4
  <2> HIDE DEF shared, matched
  <2>6. ToSet(p.caps) = ToSet(m.required.caps) /\ ToSet(p.caps) = ToSet(m.offered.caps)
    BY <2>3, <2>4 DEF Behind
  <2> QED BY <2>3, <2>4, <2>5, <2>6
<1>6. ASSUME NEW ref \in shared
      PROVE  \E m \in matched : m.required.refs[1] = ref
  <2>1. PICK n \in DOMAIN rp, k \in DOMAIN op : ref = rp[n].refs[1] /\ ref = op[k].refs[1]
    OBVIOUS
  <2>2. PICK p \in ApprovedProofs, q \in ApprovedProofs : Behind(p, rp[n]) /\ Behind(q, op[k])
    BY <1>1
  <2>3. SameTuple(rp[n], op[k])
    BY <1>4, <2>1, <2>2
  <2>4. [required |-> rp[n], offered |-> op[k]] \in matched
    BY <1>2, <1>3, <2>3
  <2> QED BY <2>1, <2>4
<1> HIDE DEF matched, shared, rp, op
<1>7. UNION {ToSet(m.required.refs) : m \in matched} = shared
  <2>1. ASSUME NEW ref PROVE ref \in UNION {ToSet(m.required.refs) : m \in matched} <=> ref \in shared
    <3>1. ref \in UNION {ToSet(m.required.refs) : m \in matched} <=> \E m \in matched : ref \in ToSet(m.required.refs)
      OBVIOUS
    <3>2. \A m \in matched : ToSet(m.required.refs) = {m.required.refs[1]} /\ m.required.refs[1] \in shared
      BY <1>5
    <3>3. ASSUME NEW m \in matched, ref \in ToSet(m.required.refs) PROVE ref \in shared
      BY <3>2, <3>3
    <3>4. ASSUME ref \in shared PROVE \E m \in matched : ref \in ToSet(m.required.refs)
      <4>1. PICK m \in matched : m.required.refs[1] = ref
        BY <1>6, <3>4
      <4> QED BY <3>2, <4>1
    <3> QED BY <3>1, <3>3, <3>4
  <2> QED BY <2>1
<1>8. UNION {ToSet(m.offered.refs) : m \in matched} = shared
  <2>1. ASSUME NEW ref PROVE ref \in UNION {ToSet(m.offered.refs) : m \in matched} <=> ref \in shared
    <3>1. ref \in UNION {ToSet(m.offered.refs) : m \in matched} <=> \E m \in matched : ref \in ToSet(m.offered.refs)
      OBVIOUS
    <3>2. \A m \in matched : ToSet(m.offered.refs) = {m.required.refs[1]} /\ m.required.refs[1] \in shared
      BY <1>5
    <3>3. ASSUME NEW m \in matched, ref \in ToSet(m.offered.refs) PROVE ref \in shared
      BY <3>2, <3>3
    <3>4. ASSUME ref \in shared PROVE \E m \in matched : ref \in ToSet(m.offered.refs)
      <4>1. PICK m \in matched : m.required.refs[1] = ref
        BY <1>6, <3>4
      <4> QED BY <3>2, <4>1
    <3> QED BY <3>1, <3>3, <3>4
  <2> QED BY <2>1
<1>9. matched = {} <=> shared = {}
  BY <1>5, <1>6
<1>10. \A m \in matched : \E pr \in ApprovedProofs :
         /\ r.adapter \in pr.adapters
         /\ pr.ref = m.required.refs[1] /\ pr.ref = m.offered.refs[1]
         /\ ToSet(pr.caps) = ToSet(m.required.caps) /\ ToSet(pr.caps) = ToSet(m.offered.caps)
  BY <1>5
<1> QED BY <1>7, <1>8, <1>9, <1>10 DEF matched, shared, rp, op

\* Two provider identities never meet: an id that names the provider is a leak, first of all.
LEMMA LeakIsFound ==
  ASSUME NEW i \in Inputs, i.surface = "canonical",
         i.context.id.names \cap {i.offer.provider, i.offer.observedProvider, i.offer.observedId} # {}
  PROVE  DecisionFault(i) = Leak
<1> DEFINE c == i.context
           r == i.requirement
           o == i.offer
           B24 == Blame("FR-0024", "invalid_requirement_contract")
           B25 == Blame("FR-0025", "invalid_provider_offer_contract")
           checks == << <<i.surface = "drifted", Drift>>,
                        <<i.surface = "leaking", Leak>>,
                        <<NamesProvider(c.id, o), Leak>>,
                        <<c.surface = "drifted", Drift>>,
                        <<c.surface = "leaking", Leak>>,
                        <<~c.id.opaque, Leak>>,
                        <<~c.frozen, Drift>>,
                        <<RequirementStatus(r, ResourceCapabilities) = "invalid", B24>>,
                        <<~ValidOffer(o), B25>>,
                        <<r.adapter # o.adapter \/ r.family # o.family \/ r.slice # o.slice, Drift>> >>
<1>1. DecisionFault(i) = FirstFault(checks)
  BY DEF DecisionFault
<1>2. DOMAIN checks = 1..10
  OBVIOUS
<1>3. /\ checks[1][1] <=> i.surface = "drifted"
      /\ checks[2][1] <=> i.surface = "leaking"
      /\ checks[3][1] <=> NamesProvider(c.id, o)
      /\ checks[3][2] = Leak
  OBVIOUS
<1>4. NamesProvider(c.id, o)
  <2>1. c.id.names \cap {None, "canonical"} = {}
    BY InputsAssumption
  <2> QED BY <2>1 DEF NamesProvider, OfferIdentities
<1> HIDE DEF checks, c, r, o, B24, B25
<1>5. checks[3][1] /\ ~checks[1][1] /\ ~checks[2][1]
  BY <1>3, <1>4
<1>6. \/ FirstFault(checks) = None /\ \A n \in 1..10 : ~checks[n][1]
      \/ \E n \in 1..10 : /\ checks[n][1] /\ FirstFault(checks) = checks[n][2]
                          /\ \A k \in 1..10 : k < n => ~checks[k][1]
  BY <1>2, FaultOfFirst
<1>7. PICK n \in 1..10 : /\ checks[n][1] /\ FirstFault(checks) = checks[n][2]
                         /\ \A k \in 1..10 : k < n => ~checks[k][1]
  BY <1>5, <1>6
<1>8. ~(3 < n) /\ n # 1 /\ n # 2
  BY <1>5, <1>7
<1>9. n = 3
  BY <1>8
<1> QED BY <1>1, <1>3, <1>7, <1>9

\* Whatever is called resolved has an approved proof behind it that covers one of the adapters.
LEMMA ResolvedIsBacked ==
  ASSUME NEW i \in Inputs, NEW ref \in Decide(i).resolved
  PROVE  \E pr \in ProofRecords : /\ pr.ref = ref /\ pr.shared = "shared"
                                  /\ {i.requirement.adapter, i.offer.adapter} \cap pr.adapters # {}
<1> DEFINE r == i.requirement
           o == i.offer
<1>1. CASE DecisionFault(i) # None
  <2>1. Decide(i) = InvalidDecision(i, DecisionFault(i))
    BY <1>1 DEF Decide
  <2>2. ref \in ResolvedRefs(i, DecisionFault(i).source)
    BY <2>1 DEF InvalidDecision
  <2>3. PICK c \in Carriers(i, DecisionFault(i).source) : ref \in Resolved(c)
    BY <2>2 DEF ResolvedRefs
  <2>4. c.adapter \in {r.adapter, o.adapter}
    <3>1. c \in {RequirementCarrier(r), OfferCarrier(o)}
      BY <2>3 DEF Carriers
    <3> QED BY <3>1 DEF RequirementCarrier, OfferCarrier
  <2>5. PICK pr \in ApprovedProofs : pr.ref = ref /\ c.adapter \in pr.adapters
    BY <2>3 DEF Resolved, RefSatisfied
  <2>6. {r.adapter, o.adapter} \cap pr.adapters # {}
    BY <2>4, <2>5
  <2> QED BY <2>5, <2>6 DEF ApprovedProofs
<1>2. CASE DecisionFault(i) = None
  <2> DEFINE rp == r.declaration.profiles
             op == o.profiles
  <2>1. Decide(i) = FittingDecision(i) /\ ValidRequirement(r) /\ ValidOffer(o)
    BY <1>2, FittingContracts DEF Decide
  <2>2. Decide(i).resolved = ToSet(r.evidence) \cup ToSet(o.evidence)
    BY <2>1 DEF FittingDecision
  <2>3. /\ ToSet(r.evidence) = {rp[n].refs[1] : n \in DOMAIN rp}
        /\ ToSet(o.evidence) = {op[n].refs[1] : n \in DOMAIN op}
    BY <2>1, CitedEvidence
  <2>4. /\ \A n \in DOMAIN rp : \E pr \in ApprovedProofs : rp[n].refs = <<pr.ref>> /\ r.adapter \in pr.adapters
        /\ \A n \in DOMAIN op : \E pr \in ApprovedProofs : op[n].refs = <<pr.ref>> /\ o.adapter \in pr.adapters
    BY <2>1, CitedEvidence, SMTT(30)
  <2>5. \/ \E n \in DOMAIN rp : ref = rp[n].refs[1]
        \/ \E n \in DOMAIN op : ref = op[n].refs[1]
    BY <2>2, <2>3
  <2>6. PICK pr \in ApprovedProofs : ref = <<pr.ref>>[1] /\ (r.adapter \in pr.adapters \/ o.adapter \in pr.adapters)
    BY <2>4, <2>5
  <2>7. pr.ref = ref /\ {r.adapter, o.adapter} \cap pr.adapters # {}
    BY <2>6
  <2> QED BY <2>7 DEF ApprovedProofs
<1> QED BY <1>1, <1>2

\* No decision names a provider to Core without being refused for it.
LEMMA ProviderIsHidden ==
  ASSUME ContractInv, stage = "decided"
  PROVE  CoreSeesNoProvider
<1> DEFINE named == input.context.id.names \cap {input.offer.provider, input.offer.observedProvider,
                                                 input.offer.observedId}
<1>1. input \in Inputs /\ decision = Decide(input)
  BY DEF ContractInv
<1>2. ASSUME named # {}, input.surface = "canonical"
      PROVE  decision.code = "provider_leakage_detected"
  <2>1. DecisionFault(input) = Leak
    BY <1>1, <1>2, LeakIsFound
  <2>2. Leak # None /\ Leak.code = "provider_leakage_detected"
    BY BlamesAssumption DEF Leak, Blame
  <2>3. decision = InvalidDecision(input, Leak)
    BY <1>1, <2>1, <2>2 DEF Decide
  <2> QED BY <2>2, <2>3 DEF InvalidDecision
<1>3. ASSUME decision.status # "invalid_contract"
      PROVE  named = {}
  <2>1. DecisionFault(input) = None
    BY <1>1, <1>3, DecidedFaultless
  <2>2. ~NamesProvider(input.context.id, input.offer)
    BY <2>1, FittingContracts
  <2>3. input.context.id.names \cap {None, "canonical"} = {}
    BY <1>1, InputsAssumption
  <2> QED BY <2>2, <2>3 DEF NamesProvider, OfferIdentities
<1>4. GuardPasses(decision) => decision.id.names \cap decision.providers = {}
  BY DEF GuardPasses, CoreProjection
<1> QED BY <1>2, <1>3, <1>4 DEF CoreSeesNoProvider

\* A decision rests on approved proofs, blames who is at fault and names no provider: for any contracts.
THEOREM DecisionsAreBacked == Spec => []MatchedIsBacked
<1>1. ContractInv => MatchedIsBacked
  <2> SUFFICES ASSUME ContractInv, stage = "decided" PROVE MatchedIsBacked
    BY DEF MatchedIsBacked
  <2> DEFINE r == input.requirement
             o == input.offer
             rp == r.declaration.profiles
             op == o.profiles
             Backed(ref) == \E pr \in ProofRecords : /\ pr.ref = ref /\ pr.shared = "shared"
                                                     /\ {r.adapter, o.adapter} \cap pr.adapters # {}
             shared == ToSet(r.evidence) \cap ToSet(o.evidence)
  <2>1. input \in Inputs /\ decision = Decide(input)
    BY DEF ContractInv
  <2>2. CoreSeesNoProvider
    BY ProviderIsHidden
  <2>3. \A ref \in decision.resolved : Backed(ref)
    BY <2>1, ResolvedIsBacked
  <2>4. /\ decision.source = "FR-0024" => ~ValidRequirement(r)
        /\ decision.source = "FR-0025" => ValidRequirement(r) /\ ~ValidOffer(o)
    <3>1. Drift.source = "FR-0026" /\ Leak.source = "FR-0026"
      BY DEF Drift, Leak, Blame
    <3>2. /\ Blame("FR-0024", "invalid_requirement_contract").source = "FR-0024"
          /\ Blame("FR-0025", "invalid_provider_offer_contract").source = "FR-0025"
      BY DEF Blame
    <3>3. CASE DecisionFault(input) # None
      <4>1. decision.source = DecisionFault(input).source
        BY <2>1, <3>3 DEF Decide, InvalidDecision
      <4> QED BY <3>1, <3>2, <3>3, <4>1, FittingContracts
    <3>4. CASE DecisionFault(input) = None
      <4>1. decision.source = None
        BY <2>1, <3>4 DEF Decide, FittingDecision
      <4>2. None \notin {"FR-0024", "FR-0025"}
        BY SourcesAssumption
      <4> QED BY <4>1, <4>2
    <3> QED BY <3>3, <3>4
  <2>5. ASSUME decision.status # "invalid_contract"
        PROVE  /\ UNION {ToSet(m.required.refs) : m \in decision.matched} = shared
               /\ UNION {ToSet(m.offered.refs) : m \in decision.matched} = shared
               /\ decision.status = "matched" <=> shared # {}
               /\ \A m \in decision.matched : \E pr \in ProofRecords :
                    /\ pr.shared = "shared" /\ r.adapter \in pr.adapters
                    /\ pr.ref = m.required.refs[1] /\ pr.ref = m.offered.refs[1]
                    /\ ToSet(pr.caps) = ToSet(m.required.caps) /\ ToSet(pr.caps) = ToSet(m.offered.caps)
    <3>1. DecisionFault(input) = None /\ decision = FittingDecision(input)
      BY <2>1, <2>5, DecidedFaultless
    <3>2. ValidRequirement(r) /\ ValidOffer(o)
      BY <3>1, FittingContracts
    <3>3. decision.matched = MatchedProfiles(r, o) /\ (decision.status = "matched" <=> MatchedProfiles(r, o) # {})
      BY <3>1 DEF FittingDecision
    <3>4. shared = {rp[n].refs[1] : n \in DOMAIN rp} \cap {op[n].refs[1] : n \in DOMAIN op}
      BY <2>1, <3>2, CitedEvidence
    <3>5. /\ \A n \in DOMAIN rp : \E pr \in ApprovedProofs :
               /\ rp[n].refs = <<pr.ref>> /\ r.adapter \in pr.adapters /\ pr.mode = rp[n].mode
               /\ pr.caps = Canonical(rp[n].caps) /\ ToSet(pr.caps) = ToSet(rp[n].caps)
          /\ \A n \in DOMAIN op : \E pr \in ApprovedProofs :
               /\ op[n].refs = <<pr.ref>> /\ o.adapter \in pr.adapters /\ pr.mode = op[n].mode
               /\ pr.caps = Canonical(op[n].caps) /\ ToSet(pr.caps) = ToSet(op[n].caps)
      BY <2>1, <3>2, CitedEvidence
    <3>6. LET matched == MatchedProfiles(r, o)
              both == {rp[n].refs[1] : n \in DOMAIN rp} \cap {op[n].refs[1] : n \in DOMAIN op}
          IN /\ UNION {ToSet(m.required.refs) : m \in matched} = both
             /\ UNION {ToSet(m.offered.refs) : m \in matched} = both
             /\ matched = {} <=> both = {}
             /\ \A m \in matched : \E pr \in ApprovedProofs :
                  /\ r.adapter \in pr.adapters
                  /\ pr.ref = m.required.refs[1] /\ pr.ref = m.offered.refs[1]
                  /\ ToSet(pr.caps) = ToSet(m.required.caps) /\ ToSet(pr.caps) = ToSet(m.offered.caps)
      BY <3>5, MatchedOnShared
    <3>7. \A pr \in ApprovedProofs : pr \in ProofRecords /\ pr.shared = "shared"
      BY DEF ApprovedProofs
    <3> HIDE DEF r, o, rp, op, shared
    <3> QED BY <3>3, <3>4, <3>6, <3>7
  <2> QED BY <2>2, <2>3, <2>4, <2>5 DEF MatchedIsBacked
<1> QED BY <1>1, ContractInvariance, PTL

-----------------------------------------------------------------------------
(* Lists of entries *)

\* The entries of some types, where these are the first ones.
LEMMA FirstOfTypes ==
  ASSUME NEW entries, IsList(entries), NEW types, NEW k \in 0..Len(entries),
         \A n \in 1..Len(entries) : entries[n].type \in types <=> n <= k
  PROVE  OfTypes(entries, types) = [n \in 1..k |-> entries[n]]
<1> DEFINE places == {n \in DOMAIN entries : entries[n].type \in types}
<1>1. DOMAIN entries = 1..Len(entries) /\ Len(entries) \in Nat /\ k \in Nat
  BY DEF IsList
<1>2. places = 1..k
  BY <1>1
<1>3. \A i \in 1..k : Cardinality({j \in 1..k : j <= i}) = i
  <2> TAKE i \in 1..k
  <2>1. {j \in 1..k : j <= i} = 1..i
    OBVIOUS
  <2>2. Cardinality(1..i) = i
    BY FS_Interval
  <2> QED BY <2>1, <2>2
<1>4. Cardinality(1..k) = k
  BY <1>1, FS_Interval
<1>5. At(entries, 1..k) = [n \in 1..k |-> entries[n]]
  <2> DEFINE Count(i) == Cardinality({j \in 1..k : j <= i})
             Place(n) == CHOOSE i \in 1..k : Count(i) = n
  <2>1. \A n \in 1..k : Place(n) = n
    <3> TAKE n \in 1..k
    <3>1. \A i \in 1..k : Count(i) = i
      BY <1>3
    <3> HIDE DEF Count
    <3>2. Place(n) \in 1..k /\ Count(Place(n)) = n
      BY <3>1
    <3> QED BY <3>1, <3>2
  <2>2. At(entries, 1..k) = [n \in 1..k |-> entries[Place(n)]]
    BY <1>4 DEF At
  <2> HIDE DEF Place
  <2> QED BY <2>1, <2>2
<1>6. OfTypes(entries, types) = At(entries, places)
  BY DEF OfTypes
<1> QED BY <1>2, <1>5, <1>6

\* The last attempt that is referred to, where the attempts come first and in order.
LEMMA LastOfAttempts ==
  ASSUME NEW refs, NEW m \in Nat, DOMAIN refs = 1..m, NEW k \in 0..m,
         \A i \in 1..m : refs[i].kind = "attempt" <=> i <= k, k # 0 => refs[k].n = k
  PROVE  LastAttempt(refs) = k
<1> DEFINE attempts == {n \in DOMAIN refs : refs[n].kind = "attempt"}
<1>1. attempts = 1..k
  OBVIOUS
<1>2. k # 0 => Max(1..k) = k
  BY DEF Max
<1>3. k = 0 => 1..k = {}
  OBVIOUS
<1>4. k # 0 => 1 \in 1..k
  OBVIOUS
<1>5. LastAttempt(refs) = IF attempts = {} THEN 0 ELSE refs[Max(attempts)].n
  BY DEF LastAttempt
<1> HIDE DEF attempts
<1> QED BY <1>1, <1>2, <1>3, <1>4, <1>5

-----------------------------------------------------------------------------
(* What errors say *)

\* All errors of an attempt, the adapters' and Core's, have the same shape.
LEMMA FailuresAreErrors ==
  /\ \A e \in Failures : IsError(e)
  /\ IsError(Timeout) /\ IsError(Hung) /\ IsError(NoResource)
<1>1. \A e \in Failures : IsError(e)
  BY FailuresAssumption
<1>2. IsError(Timeout) /\ IsError(Hung) /\ IsError(NoResource)
  BY DEF IsError, Timeout, Hung, NoResource, Error, NoDetails
<1> QED BY <1>1, <1>2

\* Only an error makes an envelope that failed.
LEMMA ErrorsFail ==
  ASSUME NEW e, IsError(e)
  PROVE  e # NoError
<1>1. e.category # None
  BY WordsAssumption DEF IsError
<1>2. NoError.category = None
  BY DEF NoError, Error
<1> QED BY <1>1, <1>2

\* Two errors that say the same of what matters for it are of one phase.
LEMMA SamePhase ==
  ASSUME NEW e, NEW f, e.category = f.category, e.code = f.code, e.details.event = f.details.event,
         e.details.exhausted = f.details.exhausted, e.details.control = f.details.control,
         e.details.stage = f.details.stage
  PROVE  FailurePhase(e) = FailurePhase(f)
  BY DEF FailurePhase, IsTimeout

\* The phase of an error: it always has one, events of execution control tell it, and only Core's own
\* words make it one of the two that end a task.
LEMMA PhaseOfError ==
  ASSUME NEW e
  PROVE  /\ FailurePhase(e) # ""
         /\ e.details.event \in Rejections => FailurePhase(e) = "concurrency_rejected"
         /\ e.details.event = "retry_exhausted" => FailurePhase(e) = "retry_exhausted"
         /\ Modest(e) => FailurePhase(e) \notin {"retry_exhausted", "concurrency_rejected"}
<1> DEFINE about == e.details
           Invalid == e.code = "execution_control_state_invalid"
           checks == <<
             <<about.event \in Rejections, "concurrency_rejected">>,
             <<about.event = "retry_exhausted" \/ about.exhausted, "retry_exhausted">>,
             <<e.code = "concurrency_limit_exceeded", "concurrency_rejected">>,
             <<Invalid /\ about.control = "concurrency_limit_exceeded", "concurrency_rejected">>,
             <<about.stage = "pre_admission", "admission">>,
             <<about.stage = "pre_execution", "pre_execution">>,
             <<IsTimeout(e), "timeout">>,
             <<e.code \in {"resource_unavailable", "invalid_resource_requirement"}, "resource_acquire">>,
             <<e.code \in {"envelope_not_json_serializable", "task_record_conflict", "task_record_persistence_failed"},
               "persistence">>,
             <<about.stage \in {"accepted", "running", "completion"}, "persistence">>,
             <<TRUE, "adapter_execution">> >>
<1>1. FailurePhase(e) = FirstFault(checks)
  BY DEF FailurePhase
<1>2. DOMAIN checks = 1..11
  OBVIOUS
<1>3. /\ checks[1][2] = "concurrency_rejected" /\ checks[2][2] = "retry_exhausted"
      /\ checks[3][2] = "concurrency_rejected" /\ checks[4][2] = "concurrency_rejected"
      /\ checks[5][2] = "admission" /\ checks[6][2] = "pre_execution" /\ checks[7][2] = "timeout"
      /\ checks[8][2] = "resource_acquire" /\ checks[9][2] = "persistence" /\ checks[10][2] = "persistence"
      /\ checks[11][2] = "adapter_execution"
  OBVIOUS
<1>4. /\ checks[1][1] <=> about.event \in Rejections
      /\ checks[2][1] <=> about.event = "retry_exhausted" \/ about.exhausted
      /\ checks[3][1] <=> e.code = "concurrency_limit_exceeded"
      /\ checks[4][1] <=> Invalid /\ about.control = "concurrency_limit_exceeded"
      /\ checks[11][1] <=> TRUE
  OBVIOUS
<1> HIDE DEF checks
<1>5. \/ FirstFault(checks) = None /\ \A i \in 1..11 : ~checks[i][1]
      \/ \E i \in 1..11 : /\ checks[i][1] /\ FirstFault(checks) = checks[i][2]
                          /\ \A j \in 1..11 : j < i => ~checks[j][1]
  BY <1>2, FaultOfFirst
<1>6. PICK i \in 1..11 : /\ checks[i][1] /\ FirstFault(checks) = checks[i][2]
                         /\ \A j \in 1..11 : j < i => ~checks[j][1]
  BY <1>4, <1>5
<1>7. \/ i = 1 \/ i = 2 \/ i = 3 \/ i = 4 \/ i = 5 \/ i = 6 \/ i = 7 \/ i = 8 \/ i = 9 \/ i = 10 \/ i = 11
  OBVIOUS
<1>8. FailurePhase(e) # ""
  BY <1>1, <1>3, <1>6, <1>7
<1>9. about.event \in Rejections => FailurePhase(e) = "concurrency_rejected"
  <2>1. checks[1][1] => i = 1
    BY <1>6
  <2> QED BY <1>1, <1>3, <1>4, <1>6, <2>1
<1>10. about.event = "retry_exhausted" => FailurePhase(e) = "retry_exhausted"
  <2>1. checks[2][1] /\ ~checks[1][1] => i = 2
    BY <1>6, <1>7
  <2>2. about.event = "retry_exhausted" => about.event \notin Rejections
    BY DEF Rejections
  <2> QED BY <1>1, <1>3, <1>4, <1>6, <2>1, <2>2
<1>11. Modest(e) => FailurePhase(e) \notin {"retry_exhausted", "concurrency_rejected"}
  <2> SUFFICES ASSUME Modest(e) PROVE FailurePhase(e) \notin {"retry_exhausted", "concurrency_rejected"}
    OBVIOUS
  <2>1. /\ about.event = None /\ ~about.exhausted
        /\ e.code # "concurrency_limit_exceeded" /\ about.control # "concurrency_limit_exceeded"
    BY DEF Modest
  <2>2. ~checks[1][1] /\ ~checks[2][1]
    BY <1>4, <2>1, WordsAssumption DEF Rejections
  <2>3. ~checks[3][1] /\ ~checks[4][1]
    BY <1>4, <2>1
  <2>4. i \in 5..11
    BY <1>6, <1>7, <2>2, <2>3
  <2> QED BY <1>1, <1>3, <1>6, <1>7, <2>4
<1> QED BY <1>8, <1>9, <1>10, <1>11

Tellers == Rejections \cup {"task_failed", "timeout_triggered"}

\* The event and the metric of an error tell of a failure.
LEMMA ErrorsAreTold ==
  ASSUME NEW e
  PROVE  FailureEvent(e) \in Tellers /\ \A phase : FailureMetric(FailureEvent(e), phase) \in FailureMetrics
<1> DEFINE checks == << <<e.details.event \in Rejections, e.details.event>>,
                <<e.code = "concurrency_limit_exceeded" /\ e.details.ref \in {None, "none"},
                  "admission_concurrency_rejected">>,
                <<IsTimeout(e), "timeout_triggered">>, <<TRUE, "task_failed">> >>
<1>1. FailureEvent(e) = FirstFault(checks)
  BY DEF FailureEvent
<1>2. DOMAIN checks = 1..4
  OBVIOUS
<1>3. /\ checks[1][2] = e.details.event /\ checks[2][2] = "admission_concurrency_rejected"
      /\ checks[3][2] = "timeout_triggered" /\ checks[4][2] = "task_failed"
      /\ checks[1][1] <=> e.details.event \in Rejections
      /\ checks[4][1] <=> TRUE
  OBVIOUS
<1> HIDE DEF checks
<1>5. \/ FirstFault(checks) = None /\ \A i \in 1..4 : ~checks[i][1]
      \/ \E i \in 1..4 : /\ checks[i][1] /\ FirstFault(checks) = checks[i][2]
                          /\ \A j \in 1..4 : j < i => ~checks[j][1]
  BY <1>2, FaultOfFirst
<1>6. PICK i \in 1..4 : checks[i][1] /\ FirstFault(checks) = checks[i][2]
  BY <1>3, <1>5
<1>7. \/ i = 1 \/ i = 2 \/ i = 3 \/ i = 4
  OBVIOUS
<1>8. FailureEvent(e) \in Tellers
  BY <1>1, <1>3, <1>6, <1>7 DEF Tellers, Rejections
<1> QED BY <1>8 DEF FailureMetric, FailureMetrics, Tellers, Rejections

-----------------------------------------------------------------------------
(* Envelopes *)

IsEnvelope(e) ==
  e = [error |-> e.error, refs |-> e.refs, events |-> e.events, earlier |-> e.earlier, signal |-> e.signal,
       logs |-> e.logs, metrics |-> e.metrics]

\* Two errors that say the same, but for the record they refer to.
SayTheSame(e, f) ==
  LET c == e.details
      d == f.details
  IN /\ e.category = f.category /\ e.code = f.code
     /\ c.stage = d.stage /\ c.control = d.control /\ c.event = d.event /\ c.exhausted = d.exhausted
     /\ c.retryable = d.retryable /\ c.traces = d.traces /\ c.json = d.json

\* An envelope has these fields and no others.
LEMMA EnvelopeFields ==
  ASSUME NEW e, IsEnvelope(e)
  PROVE  DOMAIN e = {"error", "refs", "events", "earlier", "signal", "logs", "metrics"}
<1> DEFINE a == e.error
           b == e.refs
           c == e.events
           d == e.earlier
           f == e.signal
           g == e.logs
           h == e.metrics
<1>1. e = [error |-> a, refs |-> b, events |-> c, earlier |-> d, signal |-> f, logs |-> g, metrics |-> h]
  BY DEF IsEnvelope
<1> HIDE DEF a, b, c, d, f, g, h
<1> QED BY <1>1

\* The reference to the record changes nothing else of a failure.
LEMMA ReferringSaysTheSame ==
  ASSUME NEW e, IsEnvelope(e), IsError(e.error), NEW ref
  PROVE  LET x == Referring(e, ref)
         IN /\ IsEnvelope(x) /\ IsError(x.error) /\ SayTheSame(x.error, e.error)
            /\ x.refs = e.refs /\ x.events = e.events /\ x.earlier = e.earlier /\ x.signal = e.signal
            /\ x.logs = e.logs /\ x.metrics = e.metrics
<1> DEFINE error == [e.error EXCEPT !.details.ref = ref]
           x == [e EXCEPT !.error = error]
<1>1. Referring(e, ref) = [e EXCEPT !.error.details.ref = ref]
  BY ErrorsFail DEF Referring, Failed
<1>2. [e EXCEPT !.error.details.ref = ref] = x
  OBVIOUS
<1>3. IsError(error) /\ SayTheSame(error, e.error)
  BY DEF IsError, SayTheSame
<1> HIDE DEF error
<1>4. /\ IsEnvelope(x) /\ x.error = error
      /\ x.refs = e.refs /\ x.events = e.events /\ x.earlier = e.earlier /\ x.signal = e.signal
      /\ x.logs = e.logs /\ x.metrics = e.metrics
  BY DEF IsEnvelope
<1> QED BY <1>1, <1>2, <1>3, <1>4

\* What an envelope that failed has when it is explained.
LEMMA ExplainedSays ==
  ASSUME NEW e, IsEnvelope(e), IsError(e.error), NEW now
  PROVE  LET x == Explained(e, now)
         IN /\ IsEnvelope(x) /\ x.error = e.error
            /\ x.refs = e.refs /\ x.events = e.events /\ x.earlier = e.earlier
            /\ x.signal.id = SignalId(x) /\ x.signal.traces = x.error.details.traces
            /\ x.signal.at = IF e.signal.id = SignalId(x) THEN e.signal.at ELSE now
            /\ x.logs = Append(OfTypes(e.logs, KeptLogs), FailureLog(x))
            /\ x.metrics = Append(OfTypes(e.metrics, KeptMetrics), FailureSample(x))
<1> DEFINE x == Explained(e, now)
<1>1. /\ IsEnvelope(x) /\ x.error = e.error
      /\ x.refs = e.refs /\ x.events = e.events /\ x.earlier = e.earlier
      /\ x.signal.id = SignalId(e) /\ x.signal.traces = e.error.details.traces
      /\ x.signal.at = IF e.signal.id = SignalId(e) THEN e.signal.at ELSE now
      /\ x.logs = Append(OfTypes(e.logs, KeptLogs), FailureLog(e))
      /\ x.metrics = Append(OfTypes(e.metrics, KeptMetrics), FailureSample(e))
  <2> DEFINE about == e.error.details
             signal == [id |-> SignalId(e), ref |-> IF about.ref = None THEN "none" ELSE about.ref,
                        traces |-> about.traces, refs |-> e.refs,
                        at |-> IF e.signal.id = SignalId(e) THEN e.signal.at ELSE now]
             logs == Append(OfTypes(e.logs, KeptLogs), FailureLog(e))
             metrics == Append(OfTypes(e.metrics, KeptMetrics), FailureSample(e))
  <2>1. x = [e EXCEPT !.signal = signal, !.logs = logs, !.metrics = metrics]
    BY DEF Explained
  <2>2. /\ signal.id = SignalId(e) /\ signal.traces = e.error.details.traces
        /\ signal.at = IF e.signal.id = SignalId(e) THEN e.signal.at ELSE now
    OBVIOUS
  <2> HIDE DEF signal, logs, metrics, x
  <2>4. /\ IsEnvelope(x) /\ x.error = e.error
        /\ x.refs = e.refs /\ x.events = e.events /\ x.earlier = e.earlier /\ x.signal = signal
        /\ x.logs = logs /\ x.metrics = metrics
    BY <2>1, EnvelopeFields DEF IsEnvelope
  <2> QED BY <2>2, <2>4 DEF logs, metrics
<1> HIDE DEF x
<1>2. SignalId(x) = SignalId(e) /\ FailureLog(x) = FailureLog(e) /\ FailureSample(x) = FailureSample(e)
  BY <1>1 DEF SignalId, FailureLog, FailureSample
<1> QED BY <1>1, <1>2 DEF x

\* What an envelope that failed has when it has been observed.
ObservedFits(x, e, t) ==
  /\ IsEnvelope(x) /\ IsError(x.error) /\ SayTheSame(x.error, e.error)
  /\ x.refs = IF t.refs # <<>> THEN t.refs ELSE e.refs
  /\ x.earlier = IF t.signals # <<>> THEN t.signals ELSE e.earlier
  /\ x.signal.id = SignalId(x) /\ x.signal.traces = x.error.details.traces
  /\ x.signal.at = IF e.signal.id = SignalId(x) THEN e.signal.at ELSE t.n
  /\ x.logs = Append(OfTypes(IF t.logs # <<>> THEN t.logs ELSE e.logs, KeptLogs), FailureLog(x))
  /\ x.metrics = Append(OfTypes(IF t.metrics # <<>> THEN t.metrics ELSE e.metrics, KeptMetrics), FailureSample(x))

\* An envelope that failed is explained with what its task has gathered.
LEMMA ObservedFails ==
  ASSUME NEW e, IsEnvelope(e), IsError(e.error), NEW t
  PROVE  ObservedFits(Observed(e, t), e, t)
<1> DEFINE several == Len(t.refs) > 1 \/ t.events # <<>>
           enriched ==
             [e EXCEPT !.refs = IF t.refs # <<>> /\ (Failed(e) \/ several) THEN t.refs ELSE @,
                       !.events = IF Failed(e) /\ t.events # <<>> THEN t.events ELSE @,
                       !.earlier = IF t.signals # <<>> THEN t.signals ELSE @,
                       !.logs = IF t.logs # <<>> THEN t.logs ELSE @,
                       !.metrics = IF t.metrics # <<>> THEN t.metrics ELSE @]
           named == IF t.refs # <<>> /\ (Failed(e) => e.error.details.ref # "none") THEN Referring(enriched, "record")
                    ELSE enriched
<1>1. Failed(e)
  BY ErrorsFail DEF Failed
<1>2. Observed(e, t) = Explained(named, t.n)
  BY <1>1 DEF Observed
<1>3. /\ IsEnvelope(enriched) /\ enriched.error = e.error /\ enriched.signal = e.signal
      /\ enriched.refs = IF t.refs # <<>> THEN t.refs ELSE e.refs
      /\ enriched.earlier = IF t.signals # <<>> THEN t.signals ELSE e.earlier
      /\ enriched.logs = IF t.logs # <<>> THEN t.logs ELSE e.logs
      /\ enriched.metrics = IF t.metrics # <<>> THEN t.metrics ELSE e.metrics
  <2> DEFINE refs == IF t.refs # <<>> /\ (Failed(e) \/ several) THEN t.refs ELSE e.refs
             events == IF Failed(e) /\ t.events # <<>> THEN t.events ELSE e.events
             earlier == IF t.signals # <<>> THEN t.signals ELSE e.earlier
             logs == IF t.logs # <<>> THEN t.logs ELSE e.logs
             metrics == IF t.metrics # <<>> THEN t.metrics ELSE e.metrics
  <2>1. enriched = [e EXCEPT !.refs = refs, !.events = events, !.earlier = earlier, !.logs = logs, !.metrics = metrics]
    OBVIOUS
  <2>2. refs = IF t.refs # <<>> THEN t.refs ELSE e.refs
    BY <1>1
  <2> HIDE DEF enriched, refs, events, earlier, logs, metrics
  <2>4. /\ IsEnvelope(enriched) /\ enriched.error = e.error /\ enriched.signal = e.signal
        /\ enriched.refs = refs /\ enriched.earlier = earlier /\ enriched.logs = logs /\ enriched.metrics = metrics
    BY <2>1, EnvelopeFields DEF IsEnvelope
  <2> QED BY <2>2, <2>4 DEF earlier, logs, metrics
<1> HIDE DEF enriched
<1>4. /\ IsEnvelope(named) /\ IsError(named.error) /\ SayTheSame(named.error, e.error)
      /\ named.refs = enriched.refs /\ named.earlier = enriched.earlier /\ named.signal = enriched.signal
      /\ named.logs = enriched.logs /\ named.metrics = enriched.metrics
  BY <1>3, ReferringSaysTheSame DEF SayTheSame
<1> HIDE DEF named
<1> DEFINE x == Explained(named, t.n)
<1>5. /\ IsEnvelope(x) /\ x.error = named.error /\ x.refs = named.refs /\ x.earlier = named.earlier
      /\ x.signal.id = SignalId(x) /\ x.signal.traces = x.error.details.traces
      /\ x.signal.at = IF named.signal.id = SignalId(x) THEN named.signal.at ELSE t.n
      /\ x.logs = Append(OfTypes(named.logs, KeptLogs), FailureLog(x))
      /\ x.metrics = Append(OfTypes(named.metrics, KeptMetrics), FailureSample(x))
  BY <1>4, ExplainedSays
<1> HIDE DEF x
<1>6. ObservedFits(x, e, t)
  BY <1>3, <1>4, <1>5 DEF ObservedFits
<1> QED BY <1>2, <1>6 DEF x

\* And an envelope without an error.
LEMMA ObservedSucceeds ==
  ASSUME NEW t, IsList(t.signals), IsList(t.logs), IsList(t.metrics)
  PROVE  LET x == Observed(EnvelopeOf(NoError), t)
         IN /\ IsEnvelope(x) /\ x.error = NoError /\ x.signal = NoSignal
            /\ x.earlier = t.signals /\ x.logs = t.logs /\ x.metrics = t.metrics
<1> DEFINE e == EnvelopeOf(NoError)
<1>1. IsEnvelope(e) /\ ~Failed(e) /\ e.error = NoError /\ e.signal = NoSignal
  BY DEF IsEnvelope, EnvelopeOf, Failed
<1>2. e.earlier = <<>> /\ e.logs = <<>> /\ e.metrics = <<>>
  BY DEF EnvelopeOf
<1> DEFINE several == Len(t.refs) > 1 \/ t.events # <<>>
           enriched ==
             [e EXCEPT !.refs = IF t.refs # <<>> /\ (Failed(e) \/ several) THEN t.refs ELSE @,
                       !.events = IF Failed(e) /\ t.events # <<>> THEN t.events ELSE @,
                       !.earlier = IF t.signals # <<>> THEN t.signals ELSE @,
                       !.logs = IF t.logs # <<>> THEN t.logs ELSE @,
                       !.metrics = IF t.metrics # <<>> THEN t.metrics ELSE @]
<1> HIDE DEF e
<1>3. Observed(e, t) = enriched
  BY <1>1 DEF Observed
<1>4. /\ IsEnvelope(enriched) /\ enriched.error = NoError /\ enriched.signal = NoSignal
      /\ enriched.earlier = t.signals /\ enriched.logs = t.logs /\ enriched.metrics = t.metrics
  <2> DEFINE refs == IF t.refs # <<>> /\ (Failed(e) \/ several) THEN t.refs ELSE e.refs
             events == IF Failed(e) /\ t.events # <<>> THEN t.events ELSE e.events
             earlier == IF t.signals # <<>> THEN t.signals ELSE e.earlier
             logs == IF t.logs # <<>> THEN t.logs ELSE e.logs
             metrics == IF t.metrics # <<>> THEN t.metrics ELSE e.metrics
  <2>1. enriched = [e EXCEPT !.refs = refs, !.events = events, !.earlier = earlier, !.logs = logs, !.metrics = metrics]
    OBVIOUS
  <2>2. earlier = t.signals /\ logs = t.logs /\ metrics = t.metrics
    BY <1>2
  <2> HIDE DEF enriched, refs, events, earlier, logs, metrics
  <2>4. /\ IsEnvelope(enriched) /\ enriched.error = e.error /\ enriched.signal = e.signal
        /\ enriched.earlier = earlier /\ enriched.logs = logs /\ enriched.metrics = metrics
    BY <1>1, <2>1, EnvelopeFields DEF IsEnvelope
  <2> QED BY <1>1, <2>2, <2>4
<1> QED BY <1>3, <1>4 DEF e

-----------------------------------------------------------------------------
(* The story of a task *)

\* References to k attempts, and to the event that ended the task.
RefsFit(refs, events, k) ==
  /\ IsList(refs) /\ IsList(events) /\ Len(events) <= 1 /\ Len(refs) = k + Len(events)
  /\ \A i \in 1..k : refs[i].kind = "attempt" /\ refs[i].n = i
  /\ Len(events) = 1 => refs[k + 1] = events[1] /\ events[1].kind = "event" /\ events[1].json

\* What JSON cannot say is what an adapter reported.
Honest(refs, errors, k) == \A i \in 1..k : ~refs[i].json => i <= Len(errors) /\ ~errors[i].details.json

\* The log of k attempts and r retries.
LogsFit(logs, refs, signals, k, r) ==
  /\ IsList(logs) /\ Len(logs) = 2 * k + r
  /\ \A i \in 1..k : /\ logs[3 * i - 2] = Cycle("attempt_started", i, <<refs[i]>>)
                     /\ logs[3 * i - 1] = Cycle("attempt_finished", i, <<refs[i]>>)
  /\ \A i \in 1..r : logs[3 * i] = RetryLog(i, signals[i], <<refs[i]>>)

MetricsFit(metrics, k, r) ==
  /\ IsList(metrics) /\ Len(metrics) = 2 * k + r
  /\ \A i \in 1..k : /\ metrics[3 * i - 2] = Cycle("attempt_started_total", i, <<>>)
                     /\ metrics[3 * i - 1] = Cycle("execution_duration_ms", i, <<>>)
  /\ \A i \in 1..r : /\ metrics[3 * i].type = "retry_scheduled_total"
                     /\ metrics[3 * i].id = Id("retry_scheduled_total", "", "", i)

\* Each error has its signal; an attempt that is not closed has the number of the one before.
SignalsFit(signals, errors, k, f) ==
  /\ IsList(signals) /\ IsList(errors) /\ Len(signals) = f /\ Len(errors) = f
  /\ \A i \in 1..f :
       LET e == errors[i]
       IN /\ IsError(e) /\ signals[i].traces = e.details.traces
          /\ signals[i].id = Id(FailurePhase(e), e.category, e.code, IF i <= k THEN i ELSE k)

\* A list with two entries more.
LEMMA TwoMore ==
  ASSUME NEW list, IsList(list), NEW x, NEW y
  PROVE  LET more == list \o <<x, y>>
         IN /\ IsList(more) /\ Len(more) = Len(list) + 2
            /\ \A n \in 1..Len(list) : more[n] = list[n]
            /\ more[Len(list) + 1] = x /\ more[Len(list) + 2] = y
<1> DEFINE S == {list[n] : n \in 1..Len(list)} \cup {x, y}
           more == list \o <<x, y>>
<1>1. list \in Seq(S) /\ x \in S /\ y \in S /\ Len(list) \in Nat
  BY DEF IsList
<1> HIDE DEF S
<1>2. <<x, y>> \in Seq(S) /\ Len(<<x, y>>) = 2 /\ <<x, y>>[1] = x /\ <<x, y>>[2] = y
  BY <1>1
<1>3. ASSUME NEW T, NEW s \in Seq(T), NEW u \in Seq(T)
      PROVE  /\ s \o u \in Seq(T) /\ Len(s \o u) = Len(s) + Len(u)
             /\ \A n \in 1..Len(s) : (s \o u)[n] = s[n]
             /\ \A n \in 1..Len(u) : (s \o u)[Len(s) + n] = u[n]
  OBVIOUS
<1>4. /\ more \in Seq(S) /\ Len(more) = Len(list) + 2
      /\ \A n \in 1..Len(list) : more[n] = list[n]
      /\ \A n \in 1..2 : more[Len(list) + n] = <<x, y>>[n]
  BY <1>1, <1>2, <1>3
<1>5. more[Len(list) + 1] = x /\ more[Len(list) + 2] = y
  BY <1>2, <1>4
<1>6. IsList(more)
  <2> HIDE DEF more
  <2> QED BY <1>4 DEF IsList
<1> QED BY <1>4, <1>5, <1>6

\* Numbers and the entries of a log of attempts.
LEMMA ByThree ==
  ASSUME NEW k \in Nat, NEW r \in Nat, r <= k, k <= r + 1, NEW m \in 1..(2 * k + r)
  PROVE  \E i \in 1..k : m = 3 * i - 2 \/ m = 3 * i - 1 \/ (m = 3 * i /\ i <= r)
<1> DEFINE i == (m + 2) \div 3
<1>1. i \in Nat /\ 3 * i <= m + 2 /\ m + 2 < 3 * i + 3
  OBVIOUS
<1> HIDE DEF i
<1>2. i >= 1 /\ i <= k
  BY <1>1
<1>3. m = 3 * i - 2 \/ m = 3 * i - 1 \/ m = 3 * i
  BY <1>1
<1>4. m = 3 * i => i <= r
  BY <1>1
<1> QED BY <1>1, <1>2, <1>3, <1>4

\* References to one attempt more.
LEMMA AttemptRefs ==
  ASSUME NEW refs, NEW k \in Nat, RefsFit(refs, <<>>, k), NEW ref, ref.kind = "attempt", ref.n = k + 1
  PROVE  RefsFit(Append(refs, ref), <<>>, k + 1)
<1> DEFINE new == Append(refs, ref)
<1>1. /\ IsList(refs) /\ Len(<<>>) = 0 /\ Len(refs) = k /\ IsList(<<>>)
      /\ \A i \in 1..k : refs[i].kind = "attempt" /\ refs[i].n = i
  BY DEF RefsFit
<1>2. /\ IsList(new) /\ Len(new) = k + 1 /\ new[k + 1] = ref
      /\ \A i \in 1..k : new[i] = refs[i]
  BY <1>1, AppendedList
<1> HIDE DEF new
<1>3. \A i \in 1..(k + 1) : new[i].kind = "attempt" /\ new[i].n = i
  BY <1>1, <1>2
<1> QED BY <1>1, <1>2, <1>3 DEF RefsFit, new

\* And to the event that ends the task.
LEMMA EventRefs ==
  ASSUME NEW refs, NEW k \in Nat, RefsFit(refs, <<>>, k), NEW ref, ref.kind = "event", ref.json
  PROVE  RefsFit(Append(refs, ref), <<ref>>, k)
<1> DEFINE new == Append(refs, ref)
           events == <<ref>>
<1>1. /\ IsList(refs) /\ Len(<<>>) = 0 /\ Len(refs) = k
      /\ \A i \in 1..k : refs[i].kind = "attempt" /\ refs[i].n = i
  BY DEF RefsFit
<1>2. /\ IsList(new) /\ Len(new) = k + 1 /\ new[k + 1] = ref
      /\ \A i \in 1..k : new[i] = refs[i]
  BY <1>1, AppendedList
<1>3. IsList(events) /\ Len(events) = 1 /\ events[1] = ref
  BY DEF IsList
<1> HIDE DEF new, events
<1> QED BY <1>1, <1>2, <1>3 DEF RefsFit, new, events

\* A signal that is added leaves the log as it is.
LEMMA LogsKeep ==
  ASSUME NEW logs, NEW refs, NEW signals, NEW k \in Nat, NEW r \in Nat, LogsFit(logs, refs, signals, k, r), r <= k,
         NEW refs2, NEW signals2, \A i \in 1..k : refs2[i] = refs[i], \A i \in 1..r : signals2[i] = signals[i]
  PROVE  LogsFit(logs, refs2, signals2, k, r)
  BY DEF LogsFit

\* The log of an attempt that has ended ...
LEMMA LogsGrow ==
  ASSUME NEW logs, NEW refs, NEW signals, NEW k \in Nat, LogsFit(logs, refs, signals, k, k),
         NEW ref, ref.n = k + 1, NEW refs2, refs2[k + 1] = ref, \A i \in 1..k : refs2[i] = refs[i]
  PROVE  LogsFit(logs \o AttemptLogs(ref), refs2, signals, k + 1, k)
<1> DEFINE x == Cycle("attempt_started", k + 1, <<ref>>)
           y == Cycle("attempt_finished", k + 1, <<ref>>)
           new == logs \o <<x, y>>
<1>1. AttemptLogs(ref) = <<x, y>>
  BY DEF AttemptLogs
<1>2. /\ IsList(logs) /\ Len(logs) = 3 * k
      /\ \A i \in 1..k : /\ logs[3 * i - 2] = Cycle("attempt_started", i, <<refs[i]>>)
                         /\ logs[3 * i - 1] = Cycle("attempt_finished", i, <<refs[i]>>)
      /\ \A i \in 1..k : logs[3 * i] = RetryLog(i, signals[i], <<refs[i]>>)
  BY DEF LogsFit
<1>3. /\ IsList(new) /\ Len(new) = 3 * k + 2
      /\ \A n \in 1..(3 * k) : new[n] = logs[n]
      /\ new[3 * k + 1] = x /\ new[3 * k + 2] = y
  <2> HIDE DEF x, y
  <2>1. /\ IsList(new) /\ Len(new) = Len(logs) + 2
        /\ \A n \in 1..Len(logs) : new[n] = logs[n]
        /\ new[Len(logs) + 1] = x /\ new[Len(logs) + 2] = y
    BY <1>2, TwoMore
  <2> HIDE DEF new
  <2> QED BY <1>2, <2>1
<1> HIDE DEF new
<1>4. ASSUME NEW i \in 1..k
      PROVE  /\ new[3 * i - 2] = Cycle("attempt_started", i, <<refs2[i]>>)
             /\ new[3 * i - 1] = Cycle("attempt_finished", i, <<refs2[i]>>)
             /\ new[3 * i] = RetryLog(i, signals[i], <<refs2[i]>>)
  <2>1. 3 * i - 2 \in 1..(3 * k) /\ 3 * i - 1 \in 1..(3 * k) /\ 3 * i \in 1..(3 * k)
    OBVIOUS
  <2>2. new[3 * i - 2] = logs[3 * i - 2] /\ new[3 * i - 1] = logs[3 * i - 1] /\ new[3 * i] = logs[3 * i]
    BY <1>3, <2>1
  <2> QED BY <1>2, <2>2
<1>5. 3 * (k + 1) - 2 = 3 * k + 1 /\ 3 * (k + 1) - 1 = 3 * k + 2 /\ 2 * (k + 1) + k = 3 * k + 2
  OBVIOUS
<1>6. \A i \in 1..(k + 1) : i \in 1..k \/ i = k + 1
  OBVIOUS
<1>7. /\ new[3 * (k + 1) - 2] = Cycle("attempt_started", k + 1, <<refs2[k + 1]>>)
      /\ new[3 * (k + 1) - 1] = Cycle("attempt_finished", k + 1, <<refs2[k + 1]>>)
  BY <1>3, <1>5
<1>8. \A i \in 1..(k + 1) : /\ new[3 * i - 2] = Cycle("attempt_started", i, <<refs2[i]>>)
                            /\ new[3 * i - 1] = Cycle("attempt_finished", i, <<refs2[i]>>)
  BY <1>4, <1>6, <1>7
<1>9. LogsFit(new, refs2, signals, k + 1, k)
  BY <1>3, <1>4, <1>5, <1>8 DEF LogsFit
<1> QED BY <1>1, <1>9 DEF new

\* ... and of the retry that follows it.
LEMMA LogsRetry ==
  ASSUME NEW logs, NEW refs, NEW signals, NEW k \in Nat, k # 0, LogsFit(logs, refs, signals, k, k - 1)
  PROVE  LogsFit(Append(logs, RetryLog(k, signals[k], <<refs[k]>>)), refs, signals, k, k)
<1> DEFINE x == RetryLog(k, signals[k], <<refs[k]>>)
           new == Append(logs, x)
<1>1. IsList(logs) /\ Len(logs) = 3 * k - 1
  BY DEF LogsFit
<1>2. /\ IsList(new) /\ Len(new) = 3 * k /\ new[3 * k] = x
      /\ \A n \in 1..(3 * k - 1) : new[n] = logs[n]
  BY <1>1, AppendedList
<1> HIDE DEF new
<1>3. ASSUME NEW i \in 1..k
      PROVE  /\ new[3 * i - 2] = Cycle("attempt_started", i, <<refs[i]>>)
             /\ new[3 * i - 1] = Cycle("attempt_finished", i, <<refs[i]>>)
             /\ new[3 * i] = RetryLog(i, signals[i], <<refs[i]>>)
  <2>1. 3 * i - 2 \in 1..(3 * k - 1) /\ 3 * i - 1 \in 1..(3 * k - 1) /\ (i # k => 3 * i \in 1..(3 * k - 1) /\ i \in 1..(k - 1))
    OBVIOUS
  <2>2. new[3 * i - 2] = logs[3 * i - 2] /\ new[3 * i - 1] = logs[3 * i - 1] /\ (i # k => new[3 * i] = logs[3 * i])
    BY <1>2, <2>1
  <2>3. i # k => new[3 * i] = RetryLog(i, signals[i], <<refs[i]>>)
    BY <2>1, <2>2 DEF LogsFit
  <2> QED BY <1>2, <2>2, <2>3 DEF LogsFit
<1>4. LogsFit(new, refs, signals, k, k)
  BY <1>2, <1>3 DEF LogsFit
<1> QED BY <1>4 DEF new

\* So for the metrics.
LEMMA MetricsGrow ==
  ASSUME NEW metrics, NEW k \in Nat, MetricsFit(metrics, k, k), NEW ref, ref.n = k + 1
  PROVE  MetricsFit(metrics \o AttemptMetrics(ref), k + 1, k)
<1> DEFINE x == Cycle("attempt_started_total", k + 1, <<>>)
           y == Cycle("execution_duration_ms", k + 1, <<>>)
           new == metrics \o <<x, y>>
<1>1. AttemptMetrics(ref) = <<x, y>>
  BY DEF AttemptMetrics
<1>2. IsList(metrics) /\ Len(metrics) = 3 * k
  <2>1. IsList(metrics) /\ Len(metrics) = 2 * k + k
    BY DEF MetricsFit
  <2> QED BY <2>1
<1>3. /\ IsList(new) /\ Len(new) = 3 * k + 2
      /\ \A n \in 1..(3 * k) : new[n] = metrics[n]
      /\ new[3 * k + 1] = x /\ new[3 * k + 2] = y
  <2> HIDE DEF x, y
  <2>1. /\ IsList(new) /\ Len(new) = Len(metrics) + 2
        /\ \A n \in 1..Len(metrics) : new[n] = metrics[n]
        /\ new[Len(metrics) + 1] = x /\ new[Len(metrics) + 2] = y
    BY <1>2, TwoMore
  <2> HIDE DEF new
  <2> QED BY <1>2, <2>1
<1> HIDE DEF new
<1>4. ASSUME NEW i \in 1..k
      PROVE  /\ new[3 * i - 2] = metrics[3 * i - 2] /\ new[3 * i - 1] = metrics[3 * i - 1]
             /\ new[3 * i] = metrics[3 * i]
  <2>1. 3 * i - 2 \in 1..(3 * k) /\ 3 * i - 1 \in 1..(3 * k) /\ 3 * i \in 1..(3 * k)
    OBVIOUS
  <2> QED BY <1>3, <2>1
<1>5. 3 * (k + 1) - 2 = 3 * k + 1 /\ 3 * (k + 1) - 1 = 3 * k + 2 /\ 2 * (k + 1) + k = 3 * k + 2
  OBVIOUS
<1>6. \A i \in 1..(k + 1) : i \in 1..k \/ i = k + 1
  OBVIOUS
<1>7. \A i \in 1..(k + 1) : /\ new[3 * i - 2] = Cycle("attempt_started_total", i, <<>>)
                            /\ new[3 * i - 1] = Cycle("execution_duration_ms", i, <<>>)
  BY <1>3, <1>4, <1>5, <1>6 DEF MetricsFit
<1>8. MetricsFit(new, k + 1, k)
  BY <1>3, <1>4, <1>5, <1>7 DEF MetricsFit
<1> QED BY <1>1, <1>8 DEF new

\* And with a retry.
LEMMA MetricsRetry ==
  ASSUME NEW metrics, NEW k \in Nat, k # 0, MetricsFit(metrics, k, k - 1), NEW signal
  PROVE  MetricsFit(Append(metrics, RetryMetric(k, signal)), k, k)
<1> DEFINE x == RetryMetric(k, signal)
           new == Append(metrics, x)
<1>1. IsList(metrics) /\ Len(metrics) = 3 * k - 1
  <2>1. IsList(metrics) /\ Len(metrics) = 2 * k + (k - 1)
    BY DEF MetricsFit
  <2> QED BY <2>1
<1>2. /\ IsList(new) /\ Len(new) = 3 * k /\ new[3 * k] = x
      /\ \A n \in 1..(3 * k - 1) : new[n] = metrics[n]
  BY <1>1, AppendedList
<1>0. x.type = "retry_scheduled_total" /\ x.id = Id("retry_scheduled_total", "", "", k)
  BY DEF RetryMetric
<1> HIDE DEF new, x
<1>3. ASSUME NEW i \in 1..k
      PROVE  /\ new[3 * i - 2] = metrics[3 * i - 2] /\ new[3 * i - 1] = metrics[3 * i - 1]
             /\ new[3 * i].type = "retry_scheduled_total" /\ new[3 * i].id = Id("retry_scheduled_total", "", "", i)
  <2>1. 3 * i - 2 \in 1..(3 * k - 1) /\ 3 * i - 1 \in 1..(3 * k - 1) /\ (i # k => 3 * i \in 1..(3 * k - 1) /\ i \in 1..(k - 1))
    OBVIOUS
  <2>2. new[3 * i - 2] = metrics[3 * i - 2] /\ new[3 * i - 1] = metrics[3 * i - 1] /\ (i # k => new[3 * i] = metrics[3 * i])
    BY <1>2, <2>1
  <2>3. i # k => /\ metrics[3 * i].type = "retry_scheduled_total"
                 /\ metrics[3 * i].id = Id("retry_scheduled_total", "", "", i)
    BY <2>1 DEF MetricsFit
  <2> QED BY <1>0, <1>2, <2>2, <2>3
<1>4. MetricsFit(new, k, k)
  <2>1. IsList(new) /\ Len(new) = 2 * k + k
    BY <1>2
  <2>3. ASSUME NEW i \in 1..k
        PROVE  /\ metrics[3 * i - 2] = Cycle("attempt_started_total", i, <<>>)
               /\ metrics[3 * i - 1] = Cycle("execution_duration_ms", i, <<>>)
    BY DEF MetricsFit
  <2>4. \A i \in 1..k : /\ new[3 * i - 2] = Cycle("attempt_started_total", i, <<>>)
                        /\ new[3 * i - 1] = Cycle("execution_duration_ms", i, <<>>)
    BY <1>3, <2>3
  <2>5. \A i \in 1..k : /\ new[3 * i].type = "retry_scheduled_total"
                        /\ new[3 * i].id = Id("retry_scheduled_total", "", "", i)
    BY <1>3
  <2> QED BY <2>1, <2>4, <2>5 DEF MetricsFit
<1> QED BY <1>4 DEF new, x

\* And for the signals, one for each error.
LEMMA SignalsGrow ==
  ASSUME NEW signals, NEW errors, NEW m \in Nat, SignalsFit(signals, errors, m, m), NEW e, IsError(e), NEW k \in {m, m + 1},
         NEW s, s.traces = e.details.traces, s.id = Id(FailurePhase(e), e.category, e.code, k)
  PROVE  SignalsFit(Append(signals, s), Append(errors, e), k, m + 1)
<1> DEFINE ss == Append(signals, s)
           es == Append(errors, e)
<1>1. IsList(signals) /\ IsList(errors) /\ Len(signals) = m /\ Len(errors) = m
  BY DEF SignalsFit
<1>2. IsList(ss) /\ Len(ss) = m + 1 /\ ss[m + 1] = s /\ \A i \in 1..m : ss[i] = signals[i]
  BY <1>1, AppendedList
<1>3. IsList(es) /\ Len(es) = m + 1 /\ es[m + 1] = e /\ \A i \in 1..m : es[i] = errors[i]
  BY <1>1, AppendedList
<1> HIDE DEF ss, es
<1>4. ASSUME NEW i \in 1..(m + 1)
      PROVE  /\ IsError(es[i]) /\ ss[i].traces = es[i].details.traces
             /\ ss[i].id = Id(FailurePhase(es[i]), es[i].category, es[i].code, IF i <= k THEN i ELSE k)
  <2>1. CASE i = m + 1
    <3>1. (IF i <= k THEN i ELSE k) = k
      BY <2>1
    <3> QED BY <1>2, <1>3, <2>1, <3>1
  <2>2. CASE i # m + 1
    <3>1. i \in 1..m /\ i <= k /\ i <= m
      BY <2>2
    <3> QED BY <1>2, <1>3, <3>1 DEF SignalsFit
  <2> QED BY <2>1, <2>2
<1>5. SignalsFit(ss, es, k, m + 1)
  BY <1>2, <1>3, <1>4 DEF SignalsFit
<1> QED BY <1>5 DEF ss, es

-----------------------------------------------------------------------------
(* What the record takes of a task *)

\* No two of the signals have one id.
LEMMA SignalsDiffer ==
  ASSUME NEW signals, NEW errors, NEW k \in Nat, NEW f \in Nat, SignalsFit(signals, errors, k, f), f <= k + 1,
         f = k + 1 /\ k # 0 => errors[k].category # errors[f].category
  PROVE  \A i, j \in 1..f : signals[i].id = signals[j].id => i = j
<1> SUFFICES ASSUME NEW i \in 1..f, NEW j \in 1..f, signals[i].id = signals[j].id, i < j
             PROVE  FALSE
  <2> QED OBVIOUS
<1>1. /\ signals[i].id.attempt = i /\ signals[i].id.category = errors[i].category
      /\ signals[j].id.attempt = (IF j <= k THEN j ELSE k) /\ signals[j].id.category = errors[j].category
  <2>1. i <= k
    OBVIOUS
  <2> DEFINE x == Id(FailurePhase(errors[i]), errors[i].category, errors[i].code, IF i <= k THEN i ELSE k)
             y == Id(FailurePhase(errors[j]), errors[j].category, errors[j].code, IF j <= k THEN j ELSE k)
  <2>2. /\ x.attempt = (IF i <= k THEN i ELSE k) /\ x.category = errors[i].category
        /\ y.attempt = (IF j <= k THEN j ELSE k) /\ y.category = errors[j].category
    BY DEF Id
  <2>3. signals[i].id = x /\ signals[j].id = y
    BY DEF SignalsFit
  <2> HIDE DEF x, y
  <2> QED BY <2>1, <2>2, <2>3
<1>2. CASE j <= k
  BY <1>1, <1>2
<1>3. CASE ~(j <= k)
  <2>1. j = f /\ f = k + 1 /\ i = k
    BY <1>1, <1>3
  <2> QED BY <1>1, <2>1
<1> QED BY <1>2, <1>3

\* An entry about the i-th attempt, in a log with r retries.
IsEntry(x, refs, signals, i, r) ==
  \/ x = Cycle("attempt_started", i, <<refs[i]>>)
  \/ x = Cycle("attempt_finished", i, <<refs[i]>>)
  \/ i <= r /\ x = RetryLog(i, signals[i], <<refs[i]>>)

\* Each entry of the log is about one of the attempts ...
LEMMA EntriesOfLog ==
  ASSUME NEW logs, NEW refs, NEW signals, NEW k \in Nat, NEW r \in Nat, r <= k, k <= r + 1,
         LogsFit(logs, refs, signals, k, r)
  PROVE  \A m \in 1..Len(logs) : \E i \in 1..k : IsEntry(logs[m], refs, signals, i, r)
<1> TAKE m \in 1..Len(logs)
<1>1. m \in 1..(2 * k + r)
  BY DEF LogsFit
<1>2. PICK i \in 1..k : m = 3 * i - 2 \/ m = 3 * i - 1 \/ (m = 3 * i /\ i <= r)
  BY <1>1, ByThree
<1>3. CASE m = 3 * i - 2
  BY <1>3 DEF LogsFit, IsEntry
<1>4. CASE m = 3 * i - 1
  BY <1>4 DEF LogsFit, IsEntry
<1>5. CASE m = 3 * i /\ i <= r
  <2>1. i \in 1..r
    BY <1>5
  <2> QED BY <1>5, <2>1 DEF LogsFit, IsEntry
<1> QED BY <1>2, <1>3, <1>4, <1>5

\* ... and so is each of the metrics.
LEMMA EntriesOfMetrics ==
  ASSUME NEW metrics, NEW k \in Nat, NEW r \in Nat, r <= k, k <= r + 1, MetricsFit(metrics, k, r), NEW m \in 1..Len(metrics)
  PROVE  \E i \in 1..k : \/ metrics[m] = Cycle("attempt_started_total", i, <<>>)
                         \/ metrics[m] = Cycle("execution_duration_ms", i, <<>>)
                         \/ /\ metrics[m] = metrics[3 * i] /\ metrics[m].type = "retry_scheduled_total"
                            /\ metrics[m].id = Id("retry_scheduled_total", "", "", i)
<1>1. m \in 1..(2 * k + r)
  BY DEF MetricsFit
<1>2. PICK i \in 1..k : m = 3 * i - 2 \/ m = 3 * i - 1 \/ (m = 3 * i /\ i <= r)
  BY <1>1, ByThree
<1>3. CASE m = 3 * i - 2
  BY <1>3 DEF MetricsFit
<1>4. CASE m = 3 * i - 1
  BY <1>4 DEF MetricsFit
<1>5. CASE m = 3 * i /\ i <= r
  <2>1. i \in 1..r
    BY <1>5
  <2> QED BY <1>5, <2>1 DEF MetricsFit
<1> QED BY <1>2, <1>3, <1>4, <1>5

\* An entry of the log of a task is told by its id.
LEMMA LogsReplay ==
  ASSUME NEW logs, NEW refs, NEW signals, NEW k \in Nat, NEW r \in Nat, r <= k, k <= r + 1,
         LogsFit(logs, refs, signals, k, r), NEW own, own.id.what = "task_failed",
         NEW entries,
         \A x \in entries : \/ x \in {logs[m] : m \in 1..Len(logs)} \/ x = own
                            \/ x = Cycle("task_accepted", 0, <<>>) \/ x = Cycle("task_running", 0, <<>>)
                            \/ x = Cycle("task_succeeded", 0, <<>>)
  PROVE  Replays(entries)
<1>4. \A m \in 1..Len(logs) : \E i \in 1..k : IsEntry(logs[m], refs, signals, i, r)
  BY EntriesOfLog
<1> DEFINE ById(id) ==
             IF id.what = "task_failed" THEN own
             ELSE IF id.what = "retry_scheduled" THEN RetryLog(id.attempt, signals[id.attempt], <<refs[id.attempt]>>)
             ELSE IF id.what \in {"attempt_started", "attempt_finished"} THEN Cycle(id.what, id.attempt, <<refs[id.attempt]>>)
             ELSE Cycle(id.what, 0, <<>>)
<1>1. \A what, n, l : Cycle(what, n, l).id.what = what /\ Cycle(what, n, l).id.attempt = n
  BY DEF Cycle, Id
<1>2. \A n, s, l : RetryLog(n, s, l).id.what = "retry_scheduled" /\ RetryLog(n, s, l).id.attempt = n
  BY DEF RetryLog, Id
<1>3. ASSUME NEW x \in entries
      PROVE  x = ById(x.id)
  <2>1. CASE x = own
    BY <2>1
  <2>2. CASE x = Cycle("task_accepted", 0, <<>>)
    BY <1>1, <2>2
  <2>3. CASE x = Cycle("task_running", 0, <<>>)
    BY <1>1, <2>3
  <2>4. CASE x = Cycle("task_succeeded", 0, <<>>)
    BY <1>1, <2>4
  <2>5. CASE x \in {logs[m] : m \in 1..Len(logs)}
    <3>1. PICK m \in 1..Len(logs) : x = logs[m]
      BY <2>5
    <3>6. PICK i \in 1..k : IsEntry(logs[m], refs, signals, i, r)
      BY <1>4
    <3>2. \/ x = Cycle("attempt_started", i, <<refs[i]>>)
          \/ x = Cycle("attempt_finished", i, <<refs[i]>>)
          \/ x = RetryLog(i, signals[i], <<refs[i]>>)
      BY <3>1, <3>6 DEF IsEntry
    <3>3. CASE x = Cycle("attempt_started", i, <<refs[i]>>)
      BY <1>1, <3>3
    <3>4. CASE x = Cycle("attempt_finished", i, <<refs[i]>>)
      BY <1>1, <3>4
    <3>5. CASE x = RetryLog(i, signals[i], <<refs[i]>>)
      BY <1>2, <3>5
    <3> QED BY <3>2, <3>3, <3>4, <3>5
  <2> QED BY <2>1, <2>2, <2>3, <2>4, <2>5
<1> HIDE DEF ById
<1> QED BY <1>3 DEF Replays

\* And so is a metric.
LEMMA MetricsReplay ==
  ASSUME NEW metrics, NEW k \in Nat, NEW r \in Nat, r <= k, k <= r + 1, MetricsFit(metrics, k, r),
         NEW own, own.id.what \in FailureMetrics, NEW entries,
         \A x \in entries : \/ x \in {metrics[m] : m \in 1..Len(metrics)} \/ x = own
                            \/ x = Cycle("task_started_total", 0, <<>>) \/ x = Cycle("task_succeeded_total", 0, <<>>)
                            \/ x = Cycle("execution_duration_ms", 0, <<>>)
  PROVE  Replays(entries)
<1> DEFINE ById(id) ==
             IF id.what \in FailureMetrics THEN own
             ELSE IF id.what = "retry_scheduled_total" THEN metrics[3 * id.attempt]
             ELSE Cycle(id.what, id.attempt, <<>>)
<1>1. \A what, n, l : Cycle(what, n, l).id.what = what /\ Cycle(what, n, l).id.attempt = n
  BY DEF Cycle, Id
<1>2. \A n : /\ Id("retry_scheduled_total", "", "", n).what = "retry_scheduled_total"
             /\ Id("retry_scheduled_total", "", "", n).attempt = n
  BY DEF Id
<1>0. {"task_started_total", "task_succeeded_total", "execution_duration_ms", "attempt_started_total",
       "retry_scheduled_total"} \cap FailureMetrics = {}
  BY DEF FailureMetrics
<1>3. ASSUME NEW x \in entries
      PROVE  x = ById(x.id)
  <2>1. CASE x = own
    BY <2>1
  <2>2. CASE x = Cycle("task_started_total", 0, <<>>)
    BY <1>0, <1>1, <2>2
  <2>3. CASE x = Cycle("task_succeeded_total", 0, <<>>)
    BY <1>0, <1>1, <2>3
  <2>4. CASE x = Cycle("execution_duration_ms", 0, <<>>)
    BY <1>0, <1>1, <2>4
  <2>5. CASE x \in {metrics[m] : m \in 1..Len(metrics)}
    <3>1. PICK m \in 1..Len(metrics) : x = metrics[m]
      BY <2>5
    <3>2. PICK i \in 1..k : \/ x = Cycle("attempt_started_total", i, <<>>)
                            \/ x = Cycle("execution_duration_ms", i, <<>>)
                            \/ x = metrics[3 * i] /\ x.id = Id("retry_scheduled_total", "", "", i)
      BY <3>1, EntriesOfMetrics
    <3>3. CASE x = Cycle("attempt_started_total", i, <<>>)
      BY <1>0, <1>1, <3>3
    <3>4. CASE x = Cycle("execution_duration_ms", i, <<>>)
      BY <1>0, <1>1, <3>4
    <3>5. CASE x = metrics[3 * i] /\ x.id = Id("retry_scheduled_total", "", "", i)
      BY <1>0, <1>2, <3>5
    <3> QED BY <3>2, <3>3, <3>4, <3>5
  <2> QED BY <2>1, <2>2, <2>3, <2>4, <2>5
<1> HIDE DEF ById
<1> QED BY <1>3 DEF Replays

Story(t, k, r, f) ==
  /\ k \in Nat /\ r \in Nat /\ f \in Nat /\ r <= k /\ k <= r + 1 /\ r <= f /\ f <= r + 1 /\ f <= k + 1
  /\ RefsFit(t.refs, t.events, k) /\ Honest(t.refs, t.errors, k)
  /\ LogsFit(t.logs, t.refs, t.signals, k, r) /\ MetricsFit(t.metrics, k, r) /\ SignalsFit(t.signals, t.errors, k, f)
  /\ \A i \in 1..r : t.errors[i].category = "platform"
  /\ f = k + 1 => t.errors[f].category = "runtime_contract"

\* An envelope that failed tells of the last error and of nothing else, after the story of the task.
Blames(e, t, k, f) ==
  LET error == t.errors[f]
  IN /\ f # 0 /\ IsEnvelope(e) /\ IsError(e.error)
     /\ e.error.category = error.category /\ e.error.code = error.code
     /\ e.error.details.json = error.details.json /\ e.error.details.traces = error.details.traces
     /\ e.refs = t.refs /\ e.signal.id = SignalId(e) /\ e.signal.traces = e.error.details.traces /\ e.signal.at = t.n
     /\ IsList(e.earlier) /\ Len(e.earlier) = f - 1 + Len(t.events)
     /\ \A i \in 1..Len(e.earlier) : e.earlier[i] = t.signals[i]
     /\ e.logs = Append(t.logs, FailureLog(e)) /\ e.metrics = Append(t.metrics, FailureSample(e))
     /\ Len(t.events) = 0 => FailurePhase(e.error) = FailurePhase(error)
     /\ Len(t.events) = 1 => /\ k = f
                             /\ \/ /\ t.events[1].says = "retry_exhausted" /\ t.n = t.most
                                   /\ FailurePhase(e.error) = "retry_exhausted"
                                \/ /\ t.events[1].says = "retry_concurrency_rejected"
                                   /\ FailurePhase(e.error) = "concurrency_rejected"

\* The list to which an entry of other types was added.
LEMMA FilteredAgain ==
  ASSUME NEW list, IsList(list), NEW types, \A n \in 1..Len(list) : list[n].type \in types,
         NEW own, own.type \notin types
  PROVE  OfTypes(Append(list, own), types) = list /\ OfTypes(list, types) = list
<1> DEFINE new == Append(list, own)
<1>1. /\ IsList(new) /\ Len(new) = Len(list) + 1 /\ new[Len(list) + 1] = own
      /\ \A n \in 1..Len(list) : new[n] = list[n]
  BY AppendedList
<1>2. Len(list) \in Nat /\ list = [n \in 1..Len(list) |-> list[n]]
  BY DEF IsList
<1> HIDE DEF new
<1>3. Len(list) \in 0..Len(new) /\ \A n \in 1..Len(new) : new[n].type \in types <=> n <= Len(list)
  BY <1>1, <1>2
<1>4. OfTypes(new, types) = [n \in 1..Len(list) |-> new[n]]
  BY <1>1, <1>3, FirstOfTypes
<1>5. [n \in 1..Len(list) |-> new[n]] = [n \in 1..Len(list) |-> list[n]]
  BY <1>1
<1>6. OfTypes(list, types) = [n \in 1..Len(list) |-> list[n]]
  <2>1. Len(list) \in 0..Len(list) /\ \A n \in 1..Len(list) : list[n].type \in types <=> n <= Len(list)
    BY <1>2
  <2> QED BY <2>1, FirstOfTypes
<1> QED BY <1>2, <1>4, <1>5, <1>6 DEF new

\* The story has no entries but those that stay when a failure is explained.
LEMMA StoryIsKept ==
  ASSUME NEW t, NEW k, NEW r, NEW f, Story(t, k, r, f)
  PROVE  /\ IsList(t.logs) /\ \A n \in 1..Len(t.logs) : t.logs[n].type \in KeptLogs
         /\ IsList(t.metrics) /\ \A n \in 1..Len(t.metrics) : t.metrics[n].type \in KeptMetrics
<1>1. k \in Nat /\ r \in Nat /\ r <= k /\ k <= r + 1
  BY DEF Story
<1>2. LogsFit(t.logs, t.refs, t.signals, k, r) /\ MetricsFit(t.metrics, k, r)
  BY DEF Story
<1>3. \A m \in 1..Len(t.logs) : \E i \in 1..k : IsEntry(t.logs[m], t.refs, t.signals, i, r)
  BY <1>1, <1>2, EntriesOfLog
<1>7. \A what, n, l, s : Cycle(what, n, l).type = what /\ RetryLog(n, s, l).type = "retry_scheduled"
  BY DEF Cycle, RetryLog
<1>4. ASSUME NEW m \in 1..Len(t.metrics) PROVE t.metrics[m].type \in KeptMetrics
  <2> DEFINE x == t.metrics[m]
  <2>1. PICK i \in 1..k : \/ x = Cycle("attempt_started_total", i, <<>>)
                          \/ x = Cycle("execution_duration_ms", i, <<>>)
                          \/ x.type = "retry_scheduled_total"
    BY <1>1, <1>2, EntriesOfMetrics
  <2> HIDE DEF x
  <2>2. x.type \in {"attempt_started_total", "execution_duration_ms", "retry_scheduled_total"}
    BY <1>7, <2>1
  <2> QED BY <2>2 DEF KeptMetrics, x
<1>5. ASSUME NEW m \in 1..Len(t.logs) PROVE t.logs[m].type \in KeptLogs
  <2>1. PICK i \in 1..k : IsEntry(t.logs[m], t.refs, t.signals, i, r)
    BY <1>3
  <2>2. t.logs[m].type \in {"attempt_started", "attempt_finished", "retry_scheduled"}
    BY <1>7, <2>1 DEF IsEntry
  <2> QED BY <2>2 DEF KeptLogs
<1>6. IsList(t.logs) /\ IsList(t.metrics)
  BY <1>2 DEF LogsFit, MetricsFit
<1> QED BY <1>4, <1>5, <1>6

\* What tells of a failure goes when it is explained again, and belongs to its signal.
LEMMA OwnEntries ==
  ASSUME NEW e
  PROVE  /\ FailureLog(e).type \in Tellers /\ FailureLog(e).type \notin KeptLogs
         /\ FailureLog(e).signal = SignalId(e) /\ FailureLog(e).id.what = "task_failed" /\ FailureLog(e).refs = e.refs
         /\ FailureSample(e).type \in FailureMetrics /\ FailureSample(e).type \notin KeptMetrics
         /\ FailureSample(e).signal = SignalId(e) /\ FailureSample(e).id.what \in FailureMetrics
         /\ FailureSample(e).id.category = e.error.category /\ FailureSample(e).id.code = e.error.code
         /\ FailureSample(e).phase = FailurePhase(e.error)
<1>1. FailureEvent(e.error) \in Tellers
      /\ FailureMetric(FailureEvent(e.error), FailurePhase(e.error)) \in FailureMetrics
  BY ErrorsAreTold
<1>2. /\ FailureLog(e).type = FailureEvent(e.error) /\ FailureLog(e).signal = SignalId(e)
      /\ FailureLog(e).id.what = "task_failed" /\ FailureLog(e).refs = e.refs
  BY DEF FailureLog, Id
<1>3. LET metric == FailureMetric(FailureEvent(e.error), FailurePhase(e.error))
      IN /\ FailureSample(e).type = metric /\ FailureSample(e).id.what = metric
         /\ FailureSample(e).signal = SignalId(e) /\ FailureSample(e).phase = FailurePhase(e.error)
         /\ FailureSample(e).id.category = e.error.category /\ FailureSample(e).id.code = e.error.code
  BY DEF FailureSample, Id
<1>4. Tellers \cap KeptLogs = {} /\ FailureMetrics \cap KeptMetrics = {}
  BY DEF Tellers, Rejections, KeptLogs, FailureMetrics, KeptMetrics
<1> QED BY <1>1, <1>2, <1>3, <1>4

\* The number of attempts.
LEMMA AttemptsOfStory ==
  ASSUME NEW t, NEW k, NEW r, NEW f, Story(t, k, r, f)
  PROVE  /\ {n \in DOMAIN t.refs : t.refs[n].kind = "attempt"} = 1..k
         /\ Cardinality(1..k) = k /\ LastAttempt(t.refs) = k
<1>1. RefsFit(t.refs, t.events, k) /\ k \in Nat
  BY DEF Story
<1> DEFINE m == Len(t.refs)
<1>2. /\ m \in Nat /\ DOMAIN t.refs = 1..m /\ (m = k \/ m = k + 1)
      /\ \A i \in 1..k : t.refs[i].kind = "attempt" /\ t.refs[i].n = i
      /\ m = k + 1 => t.refs[k + 1].kind = "event"
  <2>1. /\ IsList(t.refs) /\ IsList(t.events) /\ Len(t.events) <= 1 /\ m = k + Len(t.events)
        /\ Len(t.events) = 1 => t.refs[k + 1] = t.events[1] /\ t.events[1].kind = "event"
        /\ \A i \in 1..k : t.refs[i].kind = "attempt" /\ t.refs[i].n = i
    BY <1>1 DEF RefsFit
  <2>2. Len(t.events) \in Nat /\ m \in Nat /\ DOMAIN t.refs = 1..m
    BY <2>1 DEF IsList
  <2>3. Len(t.events) = 0 \/ Len(t.events) = 1
    <3>1. ASSUME NEW n \in Nat, n <= 1 PROVE n = 0 \/ n = 1
      BY <3>1
    <3> QED BY <2>1, <2>2, <3>1
  <2> QED BY <1>1, <2>1, <2>2, <2>3
<1> HIDE DEF m
<1>3. \A i \in 1..m : t.refs[i].kind = "attempt" <=> i <= k
  BY <1>1, <1>2
<1>4. k \in 0..m /\ (k # 0 => t.refs[k].n = k)
  BY <1>1, <1>2
<1>5. LastAttempt(t.refs) = k
  BY <1>2, <1>3, <1>4, LastOfAttempts
<1>6. Cardinality(1..k) = k
  BY <1>1, FS_Interval
<1>7. {n \in DOMAIN t.refs : t.refs[n].kind = "attempt"} = 1..k
  BY <1>1, <1>2, <1>3
<1> QED BY <1>5, <1>6, <1>7

\* To refer to the record changes nothing in what an envelope blames.
LEMMA ReferredBlames ==
  ASSUME NEW t, NEW k, NEW r, NEW f, Story(t, k, r, f), NEW e, Blames(e, t, k, f)
  PROVE  Blames(Explained(Referring(e, "record"), 0), t, k, f)
<1> DEFINE x == Referring(e, "record")
           y == Explained(x, 0)
<1>1. IsEnvelope(e) /\ IsError(e.error)
  BY DEF Blames
<1>2. /\ IsEnvelope(x) /\ IsError(x.error) /\ SayTheSame(x.error, e.error)
      /\ x.refs = e.refs /\ x.earlier = e.earlier /\ x.signal = e.signal
      /\ x.logs = e.logs /\ x.metrics = e.metrics
  BY <1>1, ReferringSaysTheSame
<1> HIDE DEF x
<1>3. /\ IsEnvelope(y) /\ y.error = x.error /\ y.refs = x.refs /\ y.earlier = x.earlier
      /\ y.signal.id = SignalId(y) /\ y.signal.traces = y.error.details.traces
      /\ y.signal.at = IF x.signal.id = SignalId(y) THEN x.signal.at ELSE 0
      /\ y.logs = Append(OfTypes(x.logs, KeptLogs), FailureLog(y))
      /\ y.metrics = Append(OfTypes(x.metrics, KeptMetrics), FailureSample(y))
  BY <1>2, ExplainedSays
<1> HIDE DEF y
<1>4. FailurePhase(y.error) = FailurePhase(e.error)
  BY <1>2, <1>3, SamePhase DEF SayTheSame
<1>5. y.error.category = e.error.category /\ y.error.code = e.error.code
  BY <1>2, <1>3 DEF SayTheSame
<1>6. SignalId(y) = SignalId(e)
  BY <1>2, <1>3, <1>4, <1>5 DEF SignalId
<1>7. y.signal.at = t.n
  BY <1>2, <1>3, <1>6 DEF Blames
<1>8. e.logs = Append(t.logs, FailureLog(e)) /\ e.metrics = Append(t.metrics, FailureSample(e))
  BY DEF Blames
<1>9. OfTypes(e.logs, KeptLogs) = t.logs /\ OfTypes(e.metrics, KeptMetrics) = t.metrics
  <2> DEFINE own == FailureLog(e)
             sample == FailureSample(e)
  <2>1. own.type \notin KeptLogs /\ sample.type \notin KeptMetrics
    BY OwnEntries
  <2>2. /\ IsList(t.logs) /\ \A n \in 1..Len(t.logs) : t.logs[n].type \in KeptLogs
        /\ IsList(t.metrics) /\ \A n \in 1..Len(t.metrics) : t.metrics[n].type \in KeptMetrics
    BY StoryIsKept
  <2> HIDE DEF own, sample
  <2>3. OfTypes(Append(t.logs, own), KeptLogs) = t.logs
    BY <2>1, <2>2, FilteredAgain
  <2>4. OfTypes(Append(t.metrics, sample), KeptMetrics) = t.metrics
    BY <2>1, <2>2, FilteredAgain
  <2> QED BY <1>8, <2>3, <2>4 DEF own, sample
<1>10. y.logs = Append(t.logs, FailureLog(y)) /\ y.metrics = Append(t.metrics, FailureSample(y))
  BY <1>2, <1>3, <1>9
<1>11. y.error.details.json = e.error.details.json /\ y.error.details.traces = e.error.details.traces
  BY <1>2, <1>3 DEF SayTheSame
<1>12. IsError(y.error) /\ y.refs = t.refs /\ y.earlier = e.earlier
  BY <1>2, <1>3 DEF Blames
<1>13. Blames(y, t, k, f)
  BY <1>3, <1>4, <1>5, <1>7, <1>10, <1>11, <1>12 DEF Blames
<1> QED BY <1>13 DEF x, y

\* The entries of a list, and those of a list with one more.
LEMMA MoreInList ==
  ASSUME NEW list, IsList(list), NEW x
  PROVE  ToSet(list) = {list[n] : n \in 1..Len(list)} /\ ToSet(Append(list, x)) = ToSet(list) \cup {x}
<1> DEFINE new == Append(list, x)
<1>1. /\ DOMAIN list = 1..Len(list) /\ DOMAIN new = 1..(Len(list) + 1) /\ Len(list) \in Nat
      /\ \A n \in DOMAIN list : new[n] = list[n]
      /\ new[Len(list) + 1] = x
  BY AppendedList DEF IsList
<1> HIDE DEF new
<1>2. ToSet(list) = {list[n] : n \in 1..Len(list)}
  BY <1>1 DEF ToSet
<1>3. ToSet(new) = {new[n] : n \in 1..(Len(list) + 1)}
  BY <1>1 DEF ToSet
<1>4. ASSUME NEW y PROVE y \in ToSet(new) <=> y \in ToSet(list) \cup {x}
  <2>1. \A n \in 1..(Len(list) + 1) : n \in 1..Len(list) \/ n = Len(list) + 1
    BY <1>1
  <2>2. Len(list) + 1 \in 1..(Len(list) + 1) /\ 1..Len(list) \subseteq 1..(Len(list) + 1)
    BY <1>1
  <2> QED BY <1>1, <1>2, <1>3, <2>1, <2>2
<1> QED BY <1>2, <1>4 DEF new

\* JSON can say what the log refers to, if it can say what the errors say.
LEMMA LogRefsAreJson ==
  ASSUME NEW t, NEW k, NEW r, NEW f, Story(t, k, r, f), \A i \in 1..f : t.errors[i].details.json
  PROVE  /\ \A n \in DOMAIN t.refs : t.refs[n].json
         /\ \A l \in ToSet(t.logs) : \A ref \in ToSet(l.refs) : ref.json
<1>1. /\ k \in Nat /\ r \in Nat /\ f \in Nat /\ r <= k /\ k <= r + 1
      /\ RefsFit(t.refs, t.events, k) /\ Honest(t.refs, t.errors, k)
      /\ LogsFit(t.logs, t.refs, t.signals, k, r) /\ SignalsFit(t.signals, t.errors, k, f)
  BY DEF Story
<1>2. \A i \in 1..k : t.refs[i].json
  <2>1. Len(t.errors) = f
    BY <1>1 DEF SignalsFit
  <2> TAKE i \in 1..k
  <2>2. SUFFICES ASSUME ~t.refs[i].json PROVE FALSE
    OBVIOUS
  <2>3. i <= f /\ ~t.errors[i].details.json
    BY <1>1, <2>1, <2>2 DEF Honest
  <2> QED BY <1>1, <2>3
<1>3. \A n \in DOMAIN t.refs : t.refs[n].json
  <2>1. /\ IsList(t.refs) /\ IsList(t.events) /\ Len(t.events) <= 1 /\ Len(t.refs) = k + Len(t.events)
        /\ Len(t.events) = 1 => t.refs[k + 1] = t.events[1] /\ t.events[1].json
    BY <1>1 DEF RefsFit
  <2>2. Len(t.events) \in Nat /\ DOMAIN t.refs = 1..Len(t.refs)
    BY <2>1 DEF IsList
  <2> TAKE n \in DOMAIN t.refs
  <2>3. n \in 1..k \/ (n = k + 1 /\ Len(t.events) = 1)
    <3>1. ASSUME NEW m \in Nat, m <= 1, NEW i \in 1..(k + m) PROVE i \in 1..k \/ (i = k + 1 /\ m = 1)
      BY <1>1, <3>1
    <3> QED BY <2>1, <2>2, <3>1
  <2> QED BY <1>2, <2>1, <2>3
<1>4. ASSUME NEW l \in ToSet(t.logs), NEW ref \in ToSet(l.refs) PROVE ref.json
  <2>1. \A m \in 1..Len(t.logs) : \E i \in 1..k : IsEntry(t.logs[m], t.refs, t.signals, i, r)
    BY <1>1, EntriesOfLog
  <2>2. ToSet(t.logs) = {t.logs[n] : n \in 1..Len(t.logs)}
    <3>1. IsList(t.logs)
      BY <1>1 DEF LogsFit
    <3> QED BY <3>1, MoreInList
  <2>3. PICK i \in 1..k : IsEntry(l, t.refs, t.signals, i, r)
    BY <2>1, <2>2
  <2>6. \A what, n, s, refs : Cycle(what, n, refs).refs = refs /\ RetryLog(n, s, refs).refs = refs
    BY DEF Cycle, RetryLog
  <2>4. l.refs = <<t.refs[i]>>
    BY <2>3, <2>6 DEF IsEntry
  <2>5. ToSet(l.refs) = {t.refs[i]}
    BY <2>4 DEF ToSet
  <2> QED BY <1>2, <2>5
<1> QED BY <1>3, <1>4

\* A retry in the log blames a signal before the last one.
LEMMA RetriesBlame ==
  ASSUME NEW t, NEW k, NEW r, NEW f, Story(t, k, r, f), NEW l \in ToSet(t.logs), l.type \in FailureLogs
  PROVE  \E i \in 1..r : l.signal = t.signals[i].id
<1>1. /\ k \in Nat /\ r \in Nat /\ r <= k /\ k <= r + 1 /\ LogsFit(t.logs, t.refs, t.signals, k, r)
  BY DEF Story
<1>2. \A m \in 1..Len(t.logs) : \E i \in 1..k : IsEntry(t.logs[m], t.refs, t.signals, i, r)
  BY <1>1, EntriesOfLog
<1>3. ToSet(t.logs) = {t.logs[n] : n \in 1..Len(t.logs)}
  <2>1. IsList(t.logs)
    BY <1>1 DEF LogsFit
  <2> QED BY <2>1, MoreInList
<1>4. PICK i \in 1..k : IsEntry(l, t.refs, t.signals, i, r)
  BY <1>2, <1>3
<1>5. \A what, n, refs : Cycle(what, n, refs).type = what
  BY DEF Cycle
<1>6. {"attempt_started", "attempt_finished"} \cap FailureLogs = {}
  BY DEF FailureLogs, Rejections
<1>7. i <= r /\ l = RetryLog(i, t.signals[i], <<t.refs[i]>>)
  BY <1>4, <1>5, <1>6 DEF IsEntry
<1>8. l.signal = t.signals[i].id
  BY <1>7 DEF RetryLog
<1> QED BY <1>1, <1>7, <1>8

\* Metrics of a story that failed replay nothing.
LEMMA MetricsAreOwn ==
  ASSUME NEW t, NEW k, NEW r, NEW f, Story(t, k, r, f), NEW m \in ToSet(t.metrics)
  PROVE  m.type \notin FailureMetrics
<1>1. IsList(t.metrics) /\ \A n \in 1..Len(t.metrics) : t.metrics[n].type \in KeptMetrics
  BY StoryIsKept
<1>2. m.type \in KeptMetrics
  BY <1>1, MoreInList
<1> QED BY <1>2 DEF KeptMetrics, FailureMetrics

\* The parts of an id.
LEMMA IdFields ==
  ASSUME NEW what, NEW category, NEW code, NEW attempt
  PROVE  LET id == Id(what, category, code, attempt)
         IN id.what = what /\ id.category = category /\ id.code = code /\ id.attempt = attempt
  BY DEF Id

\* The bounds of a story whose task has failed for good.
LEMMA LastFailure ==
  ASSUME NEW t, NEW k, NEW r, NEW f, Story(t, k, r, f), NEW e, Blames(e, t, k, f), r <= f - 1 + Len(t.events)
  PROVE  /\ k \in Nat /\ r \in Nat /\ f \in Nat /\ f # 0 /\ f \in 1..f
         /\ Len(t.events) = 0 \/ Len(t.events) = 1
         /\ Len(t.events) = 0 => f = r + 1 /\ (f = k \/ (f = k + 1 /\ k = r))
         /\ Len(t.events) = 1 => f = k
<1>1. /\ k \in Nat /\ r \in Nat /\ f \in Nat /\ r <= k /\ k <= r + 1 /\ r <= f /\ f <= r + 1 /\ f <= k + 1
      /\ f # 0 /\ (Len(t.events) = 1 => k = f)
  BY DEF Story, Blames
<1>2. Len(t.events) \in Nat /\ Len(t.events) <= 1
  BY DEF Story, RefsFit, IsList
<1>3. Len(t.events) = 0 \/ Len(t.events) = 1
  <2>1. ASSUME NEW n \in Nat, n <= 1 PROVE n = 0 \/ n = 1
    BY <2>1
  <2> QED BY <1>2, <2>1
<1>4. Len(t.events) = 0 => f = r + 1 /\ (f = k \/ (f = k + 1 /\ k = r))
  <2>1. Len(t.events) = 0 => r <= f - 1
    <3>1. Len(t.events) = 0 => f - 1 + Len(t.events) = f - 1
      BY <1>1
    <3> QED BY <3>1
  <2>2. r <= f - 1 => f = r + 1 /\ (f = k \/ (f = k + 1 /\ k = r))
    BY <1>1
  <2> QED BY <2>1, <2>2
<1> QED BY <1>1, <1>3, <1>4

\* The id of the signal of a failure, against those of the signals before.
LEMMA LastSignal ==
  ASSUME NEW t, NEW k, NEW r, NEW f, Story(t, k, r, f), NEW e, Blames(e, t, k, f), r <= f - 1 + Len(t.events)
  PROVE  /\ e.signal.id = Id(FailurePhase(e.error), t.errors[f].category, t.errors[f].code, k)
         /\ Len(t.events) = 0 => e.signal.id = t.signals[f].id
<1>1. LastAttempt(t.refs) = k
  BY AttemptsOfStory
<1>2. e.signal.id = Id(FailurePhase(e.error), t.errors[f].category, t.errors[f].code, k)
  BY <1>1 DEF Blames, SignalId
<1>3. ASSUME Len(t.events) = 0 PROVE e.signal.id = t.signals[f].id
  <2>1. FailurePhase(e.error) = FailurePhase(t.errors[f])
    BY <1>3 DEF Blames
  <2>2. f \in 1..f /\ (f = k \/ f = k + 1) /\ k \in Nat
    BY <1>3, LastFailure
  <2>3. SignalsFit(t.signals, t.errors, k, f)
    BY DEF Story
  <2>4. t.signals[f].id = Id(FailurePhase(t.errors[f]), t.errors[f].category, t.errors[f].code, IF f <= k THEN f ELSE k)
    BY <2>2, <2>3 DEF SignalsFit
  <2>5. (IF f <= k THEN f ELSE k) = k
    BY <2>2
  <2> QED BY <1>2, <2>1, <2>4, <2>5
<1> QED BY <1>2, <1>3

\* All signals of a task that failed, with its last one.
LEMMA LastSignals ==
  ASSUME NEW t, NEW k, NEW r, NEW f, Story(t, k, r, f), NEW e, Blames(e, t, k, f), r <= f - 1 + Len(t.events),
         \A i \in 1..f : Modest(t.errors[i])
  PROVE  /\ Replays(ToSet(e.earlier) \cup {e.signal})
         /\ \A i \in 1..r : t.signals[i] \in ToSet(e.earlier)
         /\ \A s \in ToSet(e.earlier) \cup {e.signal} : s.id.code # "" /\ s.traces # "odd"
<1> DEFINE m == Len(e.earlier)
<1>1. /\ k \in Nat /\ r \in Nat /\ f \in Nat /\ f # 0 /\ f \in 1..f
      /\ Len(t.events) = 0 \/ Len(t.events) = 1
      /\ Len(t.events) = 0 => f = r + 1 /\ (f = k \/ (f = k + 1 /\ k = r))
      /\ Len(t.events) = 1 => f = k
  BY LastFailure
<1>2. /\ IsList(e.earlier) /\ m = f - 1 + Len(t.events) /\ \A i \in 1..m : e.earlier[i] = t.signals[i]
  BY DEF Blames
<1>3. ToSet(e.earlier) = {e.earlier[n] : n \in 1..m}
  BY <1>2, MoreInList
<1>4. m \in Nat /\ m <= f /\ r <= m /\ (Len(t.events) = 0 => m = f - 1) /\ (Len(t.events) = 1 => m = f)
  <2>1. CASE Len(t.events) = 0
    BY <1>1, <1>2, <2>1
  <2>2. CASE Len(t.events) = 1
    BY <1>1, <1>2, <2>2
  <2> QED BY <1>1, <2>1, <2>2
<1> HIDE DEF m
<1>5. SignalsFit(t.signals, t.errors, k, f)
  BY DEF Story
<1>6. \A i, j \in 1..f : t.signals[i].id = t.signals[j].id => i = j
  <2>1. f <= k + 1
    BY <1>1
  <2>2. f = k + 1 /\ k # 0 => t.errors[k].category # t.errors[f].category
    <3> SUFFICES ASSUME f = k + 1, k # 0 PROVE t.errors[k].category # t.errors[f].category
      OBVIOUS
    <3>1. k \in 1..r
      BY <1>1
    <3> QED BY <3>1 DEF Story
  <2> QED BY <1>1, <1>5, <2>1, <2>2, SignalsDiffer, ZenonT(60)
<1>7. \A i \in 1..m : t.signals[i].id # e.signal.id
  <2> TAKE i \in 1..m
  <2>1. i \in 1..f
    BY <1>1, <1>4
  <2>2. CASE Len(t.events) = 0
    <3>1. e.signal.id = t.signals[f].id
      BY <2>2, LastSignal
    <3>2. i # f
      BY <1>1, <1>4, <2>2
    <3> QED BY <1>1, <1>6, <2>1, <3>1, <3>2
  <2>3. CASE Len(t.events) = 1
    <3>1. e.signal.id.what \in {"retry_exhausted", "concurrency_rejected"}
      <4>1. e.signal.id.what = FailurePhase(e.error)
        BY LastSignal, IdFields
      <4> QED BY <2>3, <4>1 DEF Blames
    <3>2. t.signals[i].id.what = FailurePhase(t.errors[i])
      BY <1>5, <2>1, IdFields DEF SignalsFit
    <3>3. FailurePhase(t.errors[i]) \notin {"retry_exhausted", "concurrency_rejected"}
      BY <2>1, PhaseOfError
    <3> QED BY <3>1, <3>2, <3>3
  <2> QED BY <1>1, <2>2, <2>3
<1>8. Replays(ToSet(e.earlier) \cup {e.signal})
  <2>1. ASSUME NEW x \in ToSet(e.earlier) \cup {e.signal}, NEW y \in ToSet(e.earlier) \cup {e.signal}, x.id = y.id
        PROVE  x = y
    <3>0. \A z \in ToSet(e.earlier) : \E i \in 1..m : z = t.signals[i]
      BY <1>2, <1>3
    <3>1. CASE x = e.signal \/ y = e.signal
      BY <1>7, <2>1, <3>0, <3>1
    <3>2. CASE x # e.signal /\ y # e.signal
      <4>1. PICK i \in 1..m : x = t.signals[i]
        BY <3>0, <3>2
      <4>2. PICK j \in 1..m : y = t.signals[j]
        BY <3>0, <3>2
      <4>3. i \in 1..f /\ j \in 1..f
        BY <1>1, <1>4
      <4> QED BY <1>6, <2>1, <4>1, <4>2, <4>3
    <3> QED BY <3>1, <3>2
  <2> QED BY <2>1 DEF Replays
<1>9. \A i \in 1..r : t.signals[i] \in ToSet(e.earlier)
  <2> TAKE i \in 1..r
  <2>1. i \in 1..m
    BY <1>1, <1>4
  <2> QED BY <1>2, <1>3, <2>1
<1>10. ASSUME NEW s \in ToSet(e.earlier) \cup {e.signal} PROVE s.id.code # "" /\ s.traces # "odd"
  <2>1. CASE s = e.signal
    <3>1. s.id.code = t.errors[f].code /\ s.traces = t.errors[f].details.traces
      BY <2>1, LastSignal, IdFields DEF Blames
    <3> QED BY <1>1, <3>1 DEF Modest
  <2>2. CASE s \in ToSet(e.earlier)
    <3>1. PICK i \in 1..m : s = t.signals[i]
      BY <1>2, <1>3, <2>2
    <3>2. i \in 1..f
      BY <1>1, <1>4
    <3>3. s.id.code = t.errors[i].code /\ s.traces = t.errors[i].details.traces
      BY <1>5, <3>1, <3>2, IdFields DEF SignalsFit
    <3> QED BY <3>2, <3>3 DEF Modest
  <2> QED BY <2>1, <2>2
<1> QED BY <1>8, <1>9, <1>10

\* The parts of an entry of the life cycle.
LEMMA CycleFields ==
  ASSUME NEW what, NEW n, NEW refs
  PROVE  LET x == Cycle(what, n, refs)
         IN x.type = what /\ x.refs = refs
  BY DEF Cycle

\* An entry without references refers to nothing.
LEMMA NothingReferred == ToSet(<<>>) = {}
  BY DEF ToSet

\* The record takes a failure whose errors are modest.
LEMMA FailureIsTaken ==
  ASSUME NEW t, NEW k, NEW r, NEW f, Story(t, k, r, f), NEW e, Blames(e, t, k, f), r <= f - 1 + Len(t.events),
         \A i \in 1..f : Modest(t.errors[i])
  PROVE  RecordTakes(e)
<1> DEFINE log == FailureLog(e)
           sample == FailureSample(e)
           accepted == Cycle("task_accepted", 0, <<>>)
           running == Cycle("task_running", 0, <<>>)
           started == Cycle("task_started_total", 0, <<>>)
           signals == ToSet(e.earlier) \cup {e.signal}
<1>1. /\ k \in Nat /\ r \in Nat /\ f \in Nat /\ r <= k /\ k <= r + 1 /\ f \in 1..f
      /\ LogsFit(t.logs, t.refs, t.signals, k, r) /\ MetricsFit(t.metrics, k, r)
      /\ IsList(t.logs) /\ IsList(t.metrics) /\ IsList(t.refs)
  <2>1. f \in 1..f
    BY LastFailure
  <2> QED BY <2>1 DEF Story, LogsFit, MetricsFit, RefsFit
<1>2. /\ IsError(e.error) /\ e.error.code = t.errors[f].code /\ e.error.details.json = t.errors[f].details.json
      /\ e.refs = t.refs /\ e.signal.id = SignalId(e)
      /\ e.logs = Append(t.logs, log) /\ e.metrics = Append(t.metrics, sample)
  BY DEF Blames
<1>3. /\ log.signal = SignalId(e) /\ log.id.what = "task_failed" /\ log.refs = e.refs
      /\ sample.id.what \in FailureMetrics
      /\ sample.id.category = e.error.category /\ sample.id.code = e.error.code
      /\ sample.phase = FailurePhase(e.error)
  BY OwnEntries
<1>4. /\ accepted.type = "task_accepted" /\ accepted.refs = <<>> /\ running.type = "task_running" /\ running.refs = <<>>
      /\ started.type = "task_started_total"
  BY CycleFields
<1>5. Failed(e)
  BY <1>2, ErrorsFail DEF Failed
<1> HIDE DEF log, sample
<1>6. /\ ToSet(e.logs) = ToSet(t.logs) \cup {log} /\ ToSet(e.metrics) = ToSet(t.metrics) \cup {sample}
      /\ ToSet(t.logs) = {t.logs[n] : n \in 1..Len(t.logs)}
      /\ ToSet(t.metrics) = {t.metrics[n] : n \in 1..Len(t.metrics)}
      /\ ToSet(t.refs) = {t.refs[n] : n \in 1..Len(t.refs)}
  <2>1. ToSet(Append(t.logs, log)) = ToSet(t.logs) \cup {log} /\ ToSet(t.logs) = {t.logs[n] : n \in 1..Len(t.logs)}
    BY <1>1, MoreInList
  <2>2. /\ ToSet(Append(t.metrics, sample)) = ToSet(t.metrics) \cup {sample}
        /\ ToSet(t.metrics) = {t.metrics[n] : n \in 1..Len(t.metrics)}
    BY <1>1, MoreInList
  <2>3. ToSet(t.refs) = {t.refs[n] : n \in 1..Len(t.refs)}
    BY <1>1, MoreInList
  <2> QED BY <1>2, <2>1, <2>2, <2>3
<1>7. /\ SignalsIn(e) = signals
      /\ LogsIn(e) = ToSet(t.logs) \cup {log, accepted, running}
      /\ MetricsIn(e) = ToSet(t.metrics) \cup {sample, started}
  <2>1. SignalsIn(e) = signals
    BY <1>5 DEF SignalsIn
  <2>2. LogsIn(e) = (ToSet(t.logs) \cup {log}) \cup {accepted, running} \cup {}
    BY <1>5, <1>6 DEF LogsIn
  <2>3. MetricsIn(e) = (ToSet(t.metrics) \cup {sample}) \cup {started} \cup {}
    BY <1>5, <1>6 DEF MetricsIn
  <2> HIDE DEF accepted, running, started, signals
  <2> QED BY <2>1, <2>2, <2>3
<1>8. /\ Replays(signals) /\ \A i \in 1..r : t.signals[i] \in signals
      /\ \A s \in signals : s.id.code # "" /\ s.traces # "odd"
  BY LastSignals
<1>9. \A i \in 1..f : t.errors[i].details.json
  BY DEF Modest
<1>10. /\ \A n \in DOMAIN t.refs : t.refs[n].json
       /\ \A l \in ToSet(t.logs) : \A ref \in ToSet(l.refs) : ref.json
  BY <1>9, LogRefsAreJson
<1>11. e.error.details.json /\ e.error.code # "" /\ e.error.category # ""
  <2>1. e.error.category # ""
    BY <1>2 DEF IsError
  <2> QED BY <1>1, <1>2, <2>1 DEF Modest
<1>12. \A l \in LogsIn(e) : \A ref \in ToSet(l.refs) : ref.json
  <2> TAKE l \in LogsIn(e)
  <2>1. CASE l \in ToSet(t.logs)
    BY <1>10, <2>1
  <2>2. CASE l = log
    <3>1. DOMAIN t.refs = 1..Len(t.refs)
      BY <1>1 DEF IsList
    <3>2. l.refs = t.refs
      BY <1>2, <1>3, <2>2
    <3> QED BY <1>6, <1>10, <3>1, <3>2
  <2>3. CASE l = accepted \/ l = running
    BY <1>4, <2>3, NothingReferred
  <2> QED BY <1>7, <2>1, <2>2, <2>3
<1>13. Replays(LogsIn(e))
  <2>1. \A x \in LogsIn(e) : \/ x \in {t.logs[m] : m \in 1..Len(t.logs)} \/ x = log
                             \/ x = accepted \/ x = running \/ x = Cycle("task_succeeded", 0, <<>>)
    BY <1>6, <1>7
  <2> HIDE DEF Cycle
  <2> QED BY <1>1, <1>3, <2>1, LogsReplay
<1>14. Replays(MetricsIn(e))
  <2>1. \A x \in MetricsIn(e) : \/ x \in {t.metrics[m] : m \in 1..Len(t.metrics)} \/ x = sample
                                \/ x = started \/ x = Cycle("task_succeeded_total", 0, <<>>)
                                \/ x = Cycle("execution_duration_ms", 0, <<>>)
    BY <1>6, <1>7
  <2> QED BY <1>1, <1>3, <2>1, MetricsReplay
<1>15. \A l \in LogsIn(e) : l.type \in FailureLogs => SignalFound(signals, l)
  <2> TAKE l \in LogsIn(e)
  <2> SUFFICES ASSUME l.type \in FailureLogs PROVE \E s \in signals : l.signal = s.id
    BY DEF SignalFound
  <2>1. CASE l \in ToSet(t.logs)
    <3>1. \E i \in 1..r : l.signal = t.signals[i].id
      BY <2>1, RetriesBlame
    <3> QED BY <1>8, <3>1
  <2>2. CASE l = log
    BY <1>2, <1>3, <2>2
  <2>3. CASE l = accepted \/ l = running
    <3>1. {"task_accepted", "task_running"} \cap FailureLogs = {}
      BY DEF FailureLogs, Rejections
    <3> QED BY <1>4, <2>3, <3>1
  <2> QED BY <1>7, <2>1, <2>2, <2>3
<1>16. \A m \in MetricsIn(e) : m.type \in FailureMetrics => m.id.category # "" /\ m.id.code # "" /\ m.phase # ""
  <2> TAKE m \in MetricsIn(e)
  <2> SUFFICES ASSUME m.type \in FailureMetrics PROVE m.id.category # "" /\ m.id.code # "" /\ m.phase # ""
    OBVIOUS
  <2>1. m \notin ToSet(t.metrics)
    BY MetricsAreOwn
  <2>2. m # started
    <3>1. "task_started_total" \notin FailureMetrics
      BY DEF FailureMetrics
    <3> QED BY <1>4, <3>1
  <2>3. m = sample
    BY <1>7, <2>1, <2>2
  <2>4. FailurePhase(e.error) # ""
    BY PhaseOfError
  <2> QED BY <1>3, <1>11, <2>3, <2>4
<1> HIDE DEF signals
<1> QED BY <1>7, <1>8, <1>11, <1>12, <1>13, <1>14, <1>15, <1>16 DEF RecordTakes

\* And what a task reports that succeeds in the end.
LEMMA SuccessIsTaken ==
  ASSUME NEW t, NEW k, NEW r, Story(t, k, r, r), NEW e, e.error = NoError, e.earlier = t.signals, e.logs = t.logs,
         e.metrics = t.metrics, \A i \in 1..r : Modest(t.errors[i])
  PROVE  RecordTakes(e)
<1> DEFINE accepted == Cycle("task_accepted", 0, <<>>)
           running == Cycle("task_running", 0, <<>>)
           succeeded == Cycle("task_succeeded", 0, <<>>)
           started == Cycle("task_started_total", 0, <<>>)
           done == Cycle("task_succeeded_total", 0, <<>>)
           lasted == Cycle("execution_duration_ms", 0, <<>>)
           signals == ToSet(t.signals)
<1>1. /\ k \in Nat /\ r \in Nat /\ r <= k /\ k <= r + 1
      /\ LogsFit(t.logs, t.refs, t.signals, k, r) /\ MetricsFit(t.metrics, k, r)
      /\ SignalsFit(t.signals, t.errors, k, r)
      /\ IsList(t.logs) /\ IsList(t.metrics) /\ IsList(t.signals) /\ Len(t.signals) = r
  BY DEF Story, LogsFit, MetricsFit, SignalsFit
<1>2. /\ accepted.type = "task_accepted" /\ accepted.refs = <<>> /\ running.type = "task_running" /\ running.refs = <<>>
      /\ succeeded.type = "task_succeeded" /\ succeeded.refs = <<>>
      /\ started.type = "task_started_total" /\ done.type = "task_succeeded_total"
      /\ lasted.type = "execution_duration_ms"
  BY CycleFields
<1>3. ~Failed(e)
  BY DEF Failed
<1>4. /\ ToSet(t.logs) = {t.logs[n] : n \in 1..Len(t.logs)}
      /\ ToSet(t.metrics) = {t.metrics[n] : n \in 1..Len(t.metrics)}
      /\ signals = {t.signals[n] : n \in 1..r}
  <2>1. ToSet(t.logs) = {t.logs[n] : n \in 1..Len(t.logs)}
    BY <1>1, MoreInList
  <2>2. ToSet(t.metrics) = {t.metrics[n] : n \in 1..Len(t.metrics)}
    BY <1>1, MoreInList
  <2>3. signals = {t.signals[n] : n \in 1..r}
    BY <1>1, MoreInList
  <2> QED BY <2>1, <2>2, <2>3
<1>5. /\ SignalsIn(e) = signals
      /\ LogsIn(e) = ToSet(t.logs) \cup {accepted, running, succeeded}
      /\ MetricsIn(e) = ToSet(t.metrics) \cup {started, done, lasted}
  <2>1. SignalsIn(e) = signals \cup {}
    BY <1>3 DEF SignalsIn
  <2>2. LogsIn(e) = ToSet(t.logs) \cup {accepted, running} \cup {succeeded}
    BY <1>3 DEF LogsIn
  <2>3. MetricsIn(e) = ToSet(t.metrics) \cup {started} \cup {done, lasted}
    BY <1>3 DEF MetricsIn
  <2> HIDE DEF accepted, running, started, succeeded, done, lasted, signals
  <2> QED BY <2>1, <2>2, <2>3
<1>6. Replays(signals)
  <2>1. \A i, j \in 1..r : t.signals[i].id = t.signals[j].id => i = j
    <3>1. r \in Nat /\ k \in Nat /\ r <= k + 1 /\ (r = k + 1 /\ k # 0 => t.errors[k].category # t.errors[r].category)
      BY <1>1
    <3> QED BY <1>1, <3>1, SignalsDiffer
  <2> QED BY <1>4, <2>1 DEF Replays
<1>7. ASSUME NEW s \in signals PROVE s.id.code # "" /\ s.traces # "odd"
  <2>1. PICK i \in 1..r : s = t.signals[i]
    BY <1>4
  <2>2. s.id.code = t.errors[i].code /\ s.traces = t.errors[i].details.traces
    BY <1>1, <2>1, IdFields DEF SignalsFit
  <2> QED BY <2>2 DEF Modest
<1>8. \A l \in LogsIn(e) : \A ref \in ToSet(l.refs) : ref.json
  <2> TAKE l \in LogsIn(e)
  <2>1. CASE l \in ToSet(t.logs)
    <3>1. \A i \in 1..r : t.errors[i].details.json
      BY DEF Modest
    <3> QED BY <2>1, <3>1, LogRefsAreJson
  <2>2. CASE l \in {accepted, running, succeeded}
    BY <1>2, <2>2, NothingReferred
  <2> QED BY <1>5, <2>1, <2>2
<1>9. Replays(LogsIn(e))
  <2> DEFINE log == FailureLog(e)
  <2>1. log.id.what = "task_failed"
    BY OwnEntries
  <2> HIDE DEF log
  <2>2. \A x \in LogsIn(e) : \/ x \in {t.logs[m] : m \in 1..Len(t.logs)} \/ x = log
                             \/ x = accepted \/ x = running \/ x = succeeded
    BY <1>4, <1>5
  <2> QED BY <1>1, <2>1, <2>2, LogsReplay
<1>10. Replays(MetricsIn(e))
  <2> DEFINE sample == FailureSample(e)
  <2>1. sample.id.what \in FailureMetrics
    BY OwnEntries
  <2> HIDE DEF sample
  <2>2. \A x \in MetricsIn(e) : \/ x \in {t.metrics[m] : m \in 1..Len(t.metrics)} \/ x = sample
                                \/ x = started \/ x = done \/ x = lasted
    BY <1>4, <1>5
  <2> QED BY <1>1, <2>1, <2>2, MetricsReplay
<1>11. \A l \in LogsIn(e) : l.type \in FailureLogs => SignalFound(signals, l)
  <2> TAKE l \in LogsIn(e)
  <2> SUFFICES ASSUME l.type \in FailureLogs PROVE \E s \in signals : l.signal = s.id
    BY DEF SignalFound
  <2>1. l \notin {accepted, running, succeeded}
    <3>1. {"task_accepted", "task_running", "task_succeeded"} \cap FailureLogs = {}
      BY DEF FailureLogs, Rejections
    <3> QED BY <1>2, <3>1
  <2>2. l \in ToSet(t.logs)
    BY <1>5, <2>1
  <2>3. \E i \in 1..r : l.signal = t.signals[i].id
    BY <2>2, RetriesBlame
  <2> QED BY <1>4, <2>3
<1>12. \A m \in MetricsIn(e) : m.type \notin FailureMetrics
  <2> TAKE m \in MetricsIn(e)
  <2>1. CASE m \in ToSet(t.metrics)
    BY <2>1, MetricsAreOwn
  <2>2. CASE m \in {started, done, lasted}
    <3>1. {"task_started_total", "task_succeeded_total", "execution_duration_ms"} \cap FailureMetrics = {}
      BY DEF FailureMetrics
    <3> QED BY <1>2, <2>2, <3>1
  <2> QED BY <1>5, <2>1, <2>2
<1> HIDE DEF signals
<1> QED BY <1>3, <1>5, <1>6, <1>7, <1>8, <1>9, <1>10, <1>11, <1>12 DEF RecordTakes

-----------------------------------------------------------------------------
(* A task on its way *)

IsTask(t) ==
  t = [again |-> t.again, leased |-> t.leased, most |-> t.most, n |-> t.n, at |-> t.at, refs |-> t.refs,
       events |-> t.events, signals |-> t.signals, logs |-> t.logs, metrics |-> t.metrics, envelope |-> t.envelope,
       record |-> t.record, errors |-> t.errors]

\* A task has these fields and no others.
LEMMA TaskFields ==
  ASSUME NEW t, IsTask(t)
  PROVE  DOMAIN t = {"again", "leased", "most", "n", "at", "refs", "events", "signals", "logs", "metrics", "envelope",
                     "record", "errors"}
<1> DEFINE a == t.again
           b == t.leased
           c == t.most
           d == t.n
           e == t.at
           f == t.refs
           g == t.events
           h == t.signals
           i == t.logs
           j == t.metrics
           k == t.envelope
           l == t.record
           m == t.errors
<1>1. t = [again |-> a, leased |-> b, most |-> c, n |-> d, at |-> e, refs |-> f, events |-> g, signals |-> h, logs |-> i,
           metrics |-> j, envelope |-> k, record |-> l, errors |-> m]
  BY DEF IsTask
<1> HIDE DEF a, b, c, d, e, f, g, h, i, j, k, l, m
<1> QED BY <1>1

\* A task whose n-th attempt has ended, or hangs, with k attempts that ended.
Halfway(t, n, k) ==
  /\ n \in Nat /\ n # 0 /\ k \in {n - 1, n} /\ t.n = n /\ t.events = <<>>
  /\ RefsFit(t.refs, <<>>, k) /\ Honest(t.refs, t.errors, n - 1)
  /\ LogsFit(t.logs, t.refs, t.signals, k, n - 1) /\ MetricsFit(t.metrics, k, n - 1)
  /\ SignalsFit(t.signals, t.errors, n - 1, n - 1)
  /\ \A i \in 1..(n - 1) : t.errors[i].category = "platform"

\* A task whose attempt failed, but for what becomes of it.
Failing(t, e) == [t EXCEPT !.envelope = Observed(e, t), !.signals = Append(@, Observed(e, t).signal),
                           !.errors = Append(@, e.error)]

\* What a failed attempt adds to the story, and that its envelope blames it.
LEMMA FailureIsJudged ==
  ASSUME NEW t, IsTask(t), NEW n, NEW k, Halfway(t, n, k), NEW error, IsError(error),
         k = n => (~t.refs[n].json => ~error.details.json), k = n - 1 => error.category = "runtime_contract"
  PROVE  LET e == EnvelopeOf(error)
             x == Observed(e, t)
             failed == Failing(t, e)
         IN /\ IsTask(failed) /\ failed.envelope = x /\ Len(failed.errors) = n /\ failed.errors[n] = error
            /\ failed.signals[n] = x.signal
            /\ failed.again = t.again /\ failed.leased = t.leased /\ failed.most = t.most /\ failed.n = t.n
            /\ failed.at = t.at /\ failed.refs = t.refs /\ failed.events = t.events /\ failed.record = t.record
            /\ failed.logs = t.logs /\ failed.metrics = t.metrics
            /\ Story(failed, k, n - 1, n) /\ Blames(x, failed, k, n) /\ SayTheSame(x.error, error)
<1> DEFINE e == EnvelopeOf(error)
           x == Observed(e, t)
           signals == Append(t.signals, x.signal)
           errors == Append(t.errors, error)
           failed == Failing(t, e)
<1>1. /\ IsEnvelope(e) /\ e.error = error /\ e.signal = NoSignal /\ e.logs = <<>> /\ e.metrics = <<>> /\ e.earlier = <<>>
      /\ e.refs = <<>>
  BY DEF EnvelopeOf, IsEnvelope
<1>2. /\ n \in Nat /\ n # 0 /\ n - 1 \in Nat /\ (k = n \/ k = n - 1) /\ k \in Nat /\ t.n = n /\ t.events = <<>>
  BY DEF Halfway
<1>3. /\ RefsFit(t.refs, <<>>, k) /\ Honest(t.refs, t.errors, n - 1)
      /\ LogsFit(t.logs, t.refs, t.signals, k, n - 1) /\ MetricsFit(t.metrics, k, n - 1)
      /\ SignalsFit(t.signals, t.errors, n - 1, n - 1)
      /\ \A i \in 1..(n - 1) : t.errors[i].category = "platform"
  BY DEF Halfway
<1> HIDE DEF e
<1>4. /\ IsEnvelope(x) /\ IsError(x.error) /\ SayTheSame(x.error, error)
      /\ x.refs = IF t.refs # <<>> THEN t.refs ELSE <<>>
      /\ x.earlier = IF t.signals # <<>> THEN t.signals ELSE <<>>
      /\ x.signal.id = SignalId(x) /\ x.signal.traces = x.error.details.traces
      /\ x.signal.at = IF NoSignal.id = SignalId(x) THEN NoSignal.at ELSE t.n
      /\ x.logs = Append(OfTypes(IF t.logs # <<>> THEN t.logs ELSE <<>>, KeptLogs), FailureLog(x))
      /\ x.metrics = Append(OfTypes(IF t.metrics # <<>> THEN t.metrics ELSE <<>>, KeptMetrics), FailureSample(x))
  <2>1. IsEnvelope(e) /\ IsError(e.error)
    BY <1>1
  <2>2. ObservedFits(x, e, t)
    BY <2>1, ObservedFails
  <2> HIDE DEF x
  <2> QED BY <1>1, <2>2 DEF ObservedFits
<1> HIDE DEF x
<1>5. /\ IsTask(failed) /\ failed.envelope = x /\ failed.signals = signals /\ failed.errors = errors
      /\ failed.again = t.again /\ failed.leased = t.leased /\ failed.most = t.most /\ failed.n = t.n
      /\ failed.at = t.at /\ failed.refs = t.refs /\ failed.events = t.events /\ failed.record = t.record
      /\ failed.logs = t.logs /\ failed.metrics = t.metrics
  <2>1. failed = [t EXCEPT !.envelope = x, !.signals = signals, !.errors = errors]
    BY <1>1 DEF Failing, x
  <2> HIDE DEF failed, signals, errors
  <2> QED BY <2>1, TaskFields DEF IsTask
<1> HIDE DEF failed
<1>6. x.refs = t.refs /\ x.earlier = t.signals
  BY <1>4
<1>7. FailurePhase(x.error) = FailurePhase(error) /\ x.error.category = error.category /\ x.error.code = error.code
      /\ x.error.details.traces = error.details.traces /\ x.error.details.json = error.details.json
  BY <1>4, SamePhase DEF SayTheSame
<1>8. LastAttempt(t.refs) = k
  <2>1. /\ DOMAIN t.refs = 1..k /\ \A i \in 1..k : t.refs[i].kind = "attempt" /\ t.refs[i].n = i
    <3>1. IsList(t.refs) /\ Len(t.refs) = k + Len(<<>>)
      BY <1>3 DEF RefsFit
    <3>2. Len(<<>>) = 0
      OBVIOUS
    <3>3. Len(t.refs) = k
      BY <1>2, <3>1, <3>2
    <3> QED BY <1>3, <3>1, <3>3 DEF RefsFit, IsList
  <2>2. k \in 0..k /\ (k # 0 => t.refs[k].n = k) /\ \A i \in 1..k : t.refs[i].kind = "attempt" <=> i <= k
    BY <1>2, <2>1
  <2> QED BY <1>2, <2>1, <2>2, LastOfAttempts
<1>9. x.signal.id = Id(FailurePhase(error), error.category, error.code, k) /\ x.signal.traces = error.details.traces
  BY <1>4, <1>6, <1>7, <1>8 DEF SignalId
<1>10. x.signal.at = n
  <2>1. NoSignal.id.what = "" /\ SignalId(x).what # ""
    <3>1. SignalId(x).what = FailurePhase(x.error)
      BY IdFields DEF SignalId
    <3>2. NoSignal.id.what = ""
      BY DEF NoSignal, Id
    <3> QED BY <3>1, <3>2, PhaseOfError
  <2> QED BY <1>2, <1>4, <2>1
<1>11. /\ SignalsFit(signals, errors, k, n) /\ signals[n] = x.signal /\ errors[n] = error
       /\ \A i \in 1..(n - 1) : signals[i] = t.signals[i] /\ errors[i] = t.errors[i]
       /\ Len(errors) = n
  <2> DEFINE m == n - 1
  <2>1. m \in Nat /\ m + 1 = n /\ k \in {m, m + 1} /\ SignalsFit(t.signals, t.errors, m, m)
    BY <1>2, <1>3
  <2>2. IsList(t.signals) /\ Len(t.signals) = m /\ IsList(t.errors) /\ Len(t.errors) = m
    BY <2>1 DEF SignalsFit
  <2> HIDE DEF m
  <2>3. SignalsFit(Append(t.signals, x.signal), Append(t.errors, error), k, m + 1)
    BY <1>9, <2>1, SignalsGrow
  <2>4. signals[m + 1] = x.signal /\ \A i \in 1..m : signals[i] = t.signals[i]
    BY <2>2, AppendedList
  <2>5. errors[m + 1] = error /\ Len(errors) = m + 1 /\ \A i \in 1..m : errors[i] = t.errors[i]
    BY <2>2, AppendedList
  <2> QED BY <2>1, <2>3, <2>4, <2>5 DEF m
<1> HIDE DEF signals, errors
<1>12. Story(failed, k, n - 1, n)
  <2>1. LogsFit(t.logs, t.refs, signals, k, n - 1)
    <3>1. n - 1 <= k
      BY <1>2
    <3> QED BY <1>2, <1>3, <1>11, <3>1, LogsKeep
  <2>2. Honest(t.refs, errors, k)
    <3>1. ASSUME NEW i \in 1..k, ~t.refs[i].json PROVE i <= Len(errors) /\ ~errors[i].details.json
      <4>1. CASE i = n
        BY <1>2, <1>11, <3>1, <4>1
      <4>2. CASE i # n
        <5>1. i \in 1..(n - 1)
          BY <1>2, <4>2
        <5> QED BY <1>2, <1>3, <1>11, <3>1, <5>1 DEF Honest
      <4> QED BY <4>1, <4>2
    <3> QED BY <3>1 DEF Honest
  <2>3. \A i \in 1..(n - 1) : errors[i].category = "platform"
    BY <1>3, <1>11
  <2>4. n = k + 1 => errors[n].category = "runtime_contract"
    BY <1>2, <1>11
  <2>5. n - 1 <= k /\ k <= n - 1 + 1 /\ n - 1 <= n /\ n <= n - 1 + 1 /\ n <= k + 1
    BY <1>2
  <2> QED BY <1>2, <1>3, <1>5, <1>11, <2>1, <2>2, <2>3, <2>4, <2>5 DEF Story
<1>13. x.logs = Append(t.logs, FailureLog(x)) /\ x.metrics = Append(t.metrics, FailureSample(x))
  <2> DEFINE own == FailureLog(x)
             sample == FailureSample(x)
  <2>1. own.type \notin KeptLogs /\ sample.type \notin KeptMetrics
    BY OwnEntries
  <2>2. /\ IsList(t.logs) /\ \A i \in 1..Len(t.logs) : t.logs[i].type \in KeptLogs
        /\ IsList(t.metrics) /\ \A i \in 1..Len(t.metrics) : t.metrics[i].type \in KeptMetrics
    BY <1>5, <1>12, StoryIsKept
  <2> HIDE DEF own, sample
  <2>3. OfTypes(t.logs, KeptLogs) = t.logs
    BY <2>1, <2>2, FilteredAgain
  <2>4. OfTypes(t.metrics, KeptMetrics) = t.metrics
    BY <2>1, <2>2, FilteredAgain
  <2>5. (IF t.logs # <<>> THEN t.logs ELSE <<>>) = t.logs /\ (IF t.metrics # <<>> THEN t.metrics ELSE <<>>) = t.metrics
    OBVIOUS
  <2> QED BY <1>4, <2>3, <2>4, <2>5 DEF own, sample
<1>14. Blames(x, failed, k, n)
  <2>1. IsList(t.signals) /\ Len(t.signals) = n - 1
    BY <1>3 DEF SignalsFit
  <2>2. Len(failed.events) = 0
    BY <1>2, <1>5
  <2>3. n - 1 = n - 1 + Len(failed.events)
    BY <1>2, <2>2
  <2>4. \A i \in 1..Len(x.earlier) : x.earlier[i] = failed.signals[i]
    BY <1>5, <1>6, <1>11, <2>1
  <2> QED BY <1>2, <1>4, <1>5, <1>6, <1>7, <1>10, <1>11, <1>13, <2>1, <2>2, <2>3, <2>4 DEF Blames
<1> QED BY <1>4, <1>5, <1>11, <1>12, <1>14 DEF x, e, failed

\* What stays when only the end of a task, its events and its envelope change.
SameTask(t, u) ==
  /\ u.again = t.again /\ u.leased = t.leased /\ u.most = t.most /\ u.n = t.n /\ u.signals = t.signals
  /\ u.logs = t.logs /\ u.metrics = t.metrics /\ u.record = t.record /\ u.errors = t.errors

\* An event of execution control ends a task whose last attempt failed: its envelope says so.
LEMMA EventEnds ==
  ASSUME NEW t, IsTask(t), NEW r, Story(t, t.n, r, t.n), t.n # 0, t.events = <<>>,
         IsEnvelope(t.envelope), IsError(t.envelope.error), SayTheSame(t.envelope.error, t.errors[t.n]),
         t.envelope.signal.at = t.n,
         NEW says, (says = "retry_exhausted" /\ t.n = t.most) \/ says = "retry_concurrency_rejected"
  PROVE  LET y == Ending(t, ControlEvent(says, t.n))
         IN /\ IsTask(y) /\ SameTask(t, y) /\ y.at = "done" /\ Len(y.events) = 1 /\ y.events[1].says = says
            /\ \A i \in 1..t.n : y.refs[i] = t.refs[i]
            /\ Story(y, t.n, r, t.n) /\ Blames(y.envelope, y, t.n, t.n)
<1> DEFINE n == t.n
           event == ControlEvent(says, n)
           ended == [t EXCEPT !.events = Append(@, event), !.refs = Append(@, event), !.at = "done"]
           e == Controlled(t.envelope, says, says = "retry_exhausted")
           x == Observed(e, ended)
           y == Ending(t, event)
           refs == Append(t.refs, event)
           events == Append(t.events, event)
<1>1. n \in Nat /\ n # 0 /\ r \in Nat
  BY DEF Story
<1>2. event.says = says /\ event.kind = "event" /\ event.json
  BY DEF ControlEvent
<1>3. y = [ended EXCEPT !.envelope = x]
  BY <1>2 DEF Ending
<1> HIDE DEF event
<1>4. /\ IsTask(ended) /\ ended.events = events /\ ended.refs = refs /\ ended.at = "done" /\ ended.envelope = t.envelope
      /\ SameTask(t, ended)
  <2> HIDE DEF events, refs
  <2>1. ended = [t EXCEPT !.events = events, !.refs = refs, !.at = "done"]
    BY DEF events, refs
  <2> HIDE DEF ended
  <2> QED BY <2>1, TaskFields DEF IsTask, SameTask
<1> HIDE DEF ended
<1>5. IsTask(y) /\ y.envelope = x /\ y.events = events /\ y.refs = refs /\ y.at = "done" /\ SameTask(t, y)
  <2> HIDE DEF x, y, events, refs
  <2> QED BY <1>3, <1>4, TaskFields DEF IsTask, SameTask
<1> HIDE DEF y
<1>6. events = <<event>> /\ Len(events) = 1 /\ events[1] = event
  OBVIOUS
<1>7. /\ RefsFit(t.refs, <<>>, n) /\ Honest(t.refs, t.errors, n) /\ LogsFit(t.logs, t.refs, t.signals, n, r)
      /\ MetricsFit(t.metrics, n, r) /\ SignalsFit(t.signals, t.errors, n, n)
      /\ r <= n /\ n <= r + 1
  BY DEF Story
<1>8. RefsFit(refs, events, n) /\ refs # <<>> /\ \A i \in 1..n : refs[i] = t.refs[i]
  <2>1. RefsFit(refs, <<event>>, n)
    BY <1>1, <1>2, <1>7, EventRefs
  <2>2. \A i \in 1..n : refs[i] = t.refs[i]
    <3>1. IsList(t.refs) /\ Len(t.refs) = n
      <4>1. Len(<<>>) = 0
        OBVIOUS
      <4> QED BY <1>1, <1>7, <4>1 DEF RefsFit
    <3> QED BY <3>1, AppendedList
  <2>3. Len(refs) = n + 1
    <3>1. Len(<<event>>) = 1
      OBVIOUS
    <3> HIDE DEF refs
    <3>2. Len(refs) = n + Len(<<event>>)
      BY <2>1 DEF RefsFit
    <3> QED BY <3>1, <3>2
  <2>4. Len(<<>>) = 0 /\ n + 1 # 0
    BY <1>1
  <2> HIDE DEF refs
  <2> QED BY <1>6, <2>1, <2>2, <2>3, <2>4
<1> HIDE DEF events, refs
<1>9. Story(y, n, r, n)
  <2>1. LogsFit(t.logs, refs, t.signals, n, r)
    BY <1>1, <1>7, <1>8, LogsKeep
  <2>2. Honest(refs, t.errors, n)
    BY <1>7, <1>8 DEF Honest
  <2>3. y.logs = t.logs /\ y.metrics = t.metrics /\ y.signals = t.signals /\ y.errors = t.errors
    BY <1>5 DEF SameTask
  <2> QED BY <1>1, <1>5, <1>7, <1>8, <2>1, <2>2, <2>3 DEF Story
<1>10. /\ IsEnvelope(e) /\ IsError(e.error) /\ e.signal = t.envelope.signal
       /\ e.error.category = t.errors[n].category /\ e.error.code = t.errors[n].code
       /\ e.error.details.json = t.errors[n].details.json /\ e.error.details.traces = t.errors[n].details.traces
       /\ e.error.details.event = says
  <2> DEFINE g == t.envelope
             about == g.error.details
             exhausted == about.exhausted \/ says = "retry_exhausted"
             details == [about EXCEPT !.event = says, !.exhausted = exhausted]
             error == [g.error EXCEPT !.details = details]
  <2>1. e = [g EXCEPT !.error = error]
    BY DEF Controlled
  <2>2. /\ about.exhausted \in BOOLEAN /\ about.retryable \in BOOLEAN /\ about.json \in BOOLEAN
        /\ DOMAIN about = {"stage", "control", "event", "exhausted", "retryable", "ref", "traces", "json"}
        /\ DOMAIN g.error = {"category", "code", "details"}
        /\ g.error.category \in {"platform", "invalid_input", "runtime_contract"}
    BY DEF IsError
  <2>3. exhausted \in BOOLEAN
    OBVIOUS
  <2>4. /\ details = [stage |-> details.stage, control |-> details.control, event |-> details.event, exhausted |-> details.exhausted,
             retryable |-> details.retryable, ref |-> details.ref, traces |-> details.traces, json |-> details.json]
        /\ details.exhausted \in BOOLEAN /\ details.retryable \in BOOLEAN /\ details.json = about.json
        /\ details.traces = about.traces /\ details.event = says
    <3> HIDE DEF exhausted
    <3>1. about = [stage |-> about.stage, control |-> about.control, event |-> about.event, exhausted |-> about.exhausted,
             retryable |-> about.retryable, ref |-> about.ref, traces |-> about.traces, json |-> about.json]
      BY DEF IsError
    <3> HIDE DEF about
    <3> DEFINE y1 == about.stage
               y2 == about.control
               y3 == about.retryable
               y4 == about.ref
               y5 == about.traces
               y6 == about.json
               y7 == about.event
               y8 == about.exhausted
    <3>2. details = [[stage |-> y1, control |-> y2, event |-> y7, exhausted |-> y8, retryable |-> y3, ref |-> y4, traces |-> y5,
                      json |-> y6] EXCEPT !.event = says, !.exhausted = exhausted]
      BY <3>1
    <3>3. y3 \in BOOLEAN /\ y6 = about.json /\ y5 = about.traces
      BY <2>2
    <3> HIDE DEF about, details, y1, y2, y3, y4, y5, y6, y7, y8
    <3>4. details = [stage |-> y1, control |-> y2, event |-> says, exhausted |-> exhausted, retryable |-> y3, ref |-> y4,
                     traces |-> y5, json |-> y6]
      BY <3>2
    <3> QED BY <2>3, <3>3, <3>4
  <2>5. /\ error = [category |-> error.category, code |-> error.code, details |-> error.details]
        /\ error.details = details /\ error.category = g.error.category /\ error.code = g.error.code
    <3> HIDE DEF details, g
    <3> QED BY <2>2
  <2> HIDE DEF error, details
  <2>6. IsError(error)
    BY <2>2, <2>4, <2>5 DEF IsError
  <2>7. IsEnvelope(e) /\ e.error = error /\ e.signal = g.signal
    <3> HIDE DEF e
    <3> QED BY <2>1, EnvelopeFields DEF IsEnvelope
  <2> QED BY <2>4, <2>5, <2>6, <2>7 DEF SayTheSame
<1> HIDE DEF e
<1>11. /\ IsEnvelope(x) /\ IsError(x.error) /\ SayTheSame(x.error, e.error)
       /\ x.refs = IF ended.refs # <<>> THEN ended.refs ELSE e.refs
       /\ x.earlier = IF ended.signals # <<>> THEN ended.signals ELSE e.earlier
       /\ x.signal.id = SignalId(x) /\ x.signal.traces = x.error.details.traces
       /\ x.signal.at = IF e.signal.id = SignalId(x) THEN e.signal.at ELSE ended.n
       /\ x.logs = Append(OfTypes(IF ended.logs # <<>> THEN ended.logs ELSE e.logs, KeptLogs), FailureLog(x))
       /\ x.metrics = Append(OfTypes(IF ended.metrics # <<>> THEN ended.metrics ELSE e.metrics, KeptMetrics), FailureSample(x))
  <2>1. IsEnvelope(e) /\ IsError(e.error)
    BY <1>10
  <2>2. ObservedFits(x, e, ended)
    BY <2>1, ObservedFails
  <2> HIDE DEF x
  <2> QED BY <2>2 DEF ObservedFits
<1> HIDE DEF x
<1>12. /\ ended.signals = t.signals /\ ended.logs = t.logs /\ ended.metrics = t.metrics /\ ended.n = n
       /\ y.signals = t.signals /\ y.logs = t.logs /\ y.metrics = t.metrics /\ y.n = n /\ y.errors = t.errors /\ y.most = t.most
  BY <1>4, <1>5 DEF SameTask
<1>13. /\ Len(t.signals) = n /\ Len(t.logs) = 2 * n + r /\ Len(t.metrics) = 2 * n + r
       /\ IsList(t.signals)
  BY <1>7 DEF SignalsFit, LogsFit, MetricsFit
<1>14. t.signals # <<>> /\ t.logs # <<>> /\ t.metrics # <<>>
  <2>1. Len(<<>>) = 0 /\ n # 0 /\ 2 * n + r # 0
    BY <1>1
  <2> QED BY <1>13, <2>1
<1>15. x.refs = y.refs /\ x.earlier = t.signals /\ x.signal.at = n
  BY <1>4, <1>5, <1>8, <1>10, <1>11, <1>12, <1>14
<1>16. x.logs = Append(y.logs, FailureLog(x)) /\ x.metrics = Append(y.metrics, FailureSample(x))
  <2> DEFINE own == FailureLog(x)
             sample == FailureSample(x)
  <2>1. own.type \notin KeptLogs /\ sample.type \notin KeptMetrics
    BY OwnEntries
  <2>2. /\ IsList(y.logs) /\ \A i \in 1..Len(y.logs) : y.logs[i].type \in KeptLogs
        /\ IsList(y.metrics) /\ \A i \in 1..Len(y.metrics) : y.metrics[i].type \in KeptMetrics
    BY <1>9, StoryIsKept
  <2> HIDE DEF own, sample
  <2>3. OfTypes(y.logs, KeptLogs) = y.logs
    BY <2>1, <2>2, FilteredAgain
  <2>4. OfTypes(y.metrics, KeptMetrics) = y.metrics
    BY <2>1, <2>2, FilteredAgain
  <2> QED BY <1>11, <1>12, <1>14, <2>3, <2>4 DEF own, sample
<1>17. /\ says = "retry_exhausted" => FailurePhase(x.error) = "retry_exhausted"
       /\ says = "retry_concurrency_rejected" => FailurePhase(x.error) = "concurrency_rejected"
  <2>1. x.error.details.event = says
    BY <1>10, <1>11 DEF SayTheSame
  <2> QED BY <2>1, PhaseOfError DEF Rejections
<1>18. Blames(x, y, n, n)
  <2>1. Len(y.events) = 1 /\ y.events[1].says = says
    BY <1>2, <1>5, <1>6
  <2>2. Len(x.earlier) = n - 1 + Len(y.events)
    BY <1>1, <1>13, <1>15, <2>1
  <2>3. \A i \in 1..Len(x.earlier) : x.earlier[i] = y.signals[i]
    BY <1>12, <1>15
  <2>4. /\ x.error.category = y.errors[n].category /\ x.error.code = y.errors[n].code
        /\ x.error.details.json = y.errors[n].details.json /\ x.error.details.traces = y.errors[n].details.traces
    BY <1>10, <1>11, <1>12 DEF SayTheSame
  <2>5. \/ y.events[1].says = "retry_exhausted" /\ y.n = y.most /\ FailurePhase(x.error) = "retry_exhausted"
        \/ y.events[1].says = "retry_concurrency_rejected" /\ FailurePhase(x.error) = "concurrency_rejected"
    BY <1>12, <1>17, <2>1
  <2>6. x.signal.at = y.n /\ IsList(x.earlier) /\ n # 0
    BY <1>1, <1>12, <1>13, <1>15
  <2>7. Len(y.events) # 0
    BY <2>1
  <2> QED BY <1>11, <1>15, <1>16, <2>1, <2>2, <2>3, <2>4, <2>5, <2>6, <2>7 DEF Blames
<1> QED BY <1>2, <1>5, <1>6, <1>8, <1>9, <1>18 DEF y, event

\* Where a task is: in an attempt, ...
Begins(t) == t.at = "attempt" /\ t.events = <<>> /\ Story(t, t.n - 1, t.n - 1, t.n - 1)

\* ... between an attempt that failed and the next, ...
AwaitsRetry(t) ==
  /\ t.at = "waiting" /\ t.events = <<>> /\ t.again /\ t.n < t.most /\ Story(t, t.n, t.n, t.n)
  /\ IsEnvelope(t.envelope) /\ IsError(t.envelope.error) /\ SayTheSame(t.envelope.error, t.errors[t.n])
  /\ t.envelope.signal.at = t.n

\* ... after an attempt that succeeded, ...
Succeeds(t) ==
  /\ t.at = "done" /\ t.events = <<>> /\ Story(t, t.n, t.n - 1, t.n - 1)
  /\ IsEnvelope(t.envelope) /\ t.envelope.error = NoError /\ t.envelope.earlier = t.signals
  /\ t.envelope.logs = t.logs /\ t.envelope.metrics = t.metrics

\* ... or after one that was the last, for want of more, of room or of a reason to try again.
FailsFor(t, k, r) ==
  /\ t.at = "done" /\ Story(t, k, r, t.n) /\ Blames(t.envelope, t, k, t.n) /\ r <= t.n - 1 + Len(t.events)
  /\ Retryable(t, t.errors[t.n], k = t.n /\ t.refs[k].says = "timeout") => Len(t.events) = 1

TaskFits(t) ==
  /\ IsTask(t) /\ t.again \in BOOLEAN
  /\ t.at # "closed" => t.n \in Nat /\ t.n # 0 /\ t.most \in Nat /\ t.n <= t.most
  /\ \/ Begins(t) \/ AwaitsRetry(t) \/ Succeeds(t)
     \/ \E k, r : FailsFor(t, k, r)
     \/ t.at = "closed" /\ IsExplained(t)

\* A task whose attempt has ended with this reference.
AttemptEnded(t, ref) == [t EXCEPT !.refs = Append(@, ref), !.logs = @ \o AttemptLogs(ref), !.metrics = @ \o AttemptMetrics(ref)]

\* The task is on half of its way, as far as the attempt goes.
LEMMA HalfwayOfEnd ==
  ASSUME NEW t, IsTask(t), t.n \in Nat, t.n # 0, Begins(t), NEW ref, ref.kind = "attempt", ref.n = t.n
  PROVE  LET u == AttemptEnded(t, ref)
         IN /\ IsTask(u) /\ Halfway(u, t.n, t.n) /\ u.refs[t.n] = ref
            /\ u.n = t.n /\ u.most = t.most /\ u.again = t.again /\ u.at = "attempt"
<1> DEFINE m == t.n - 1
           refs == Append(t.refs, ref)
           logs == t.logs \o AttemptLogs(ref)
           metrics == t.metrics \o AttemptMetrics(ref)
           u == AttemptEnded(t, ref)
<1>1. /\ m \in Nat /\ ref.n = m + 1 /\ m + 1 = t.n /\ Story(t, m, m, m) /\ t.events = <<>> /\ t.at = "attempt"
  BY DEF Begins
<1>2. /\ RefsFit(t.refs, <<>>, m) /\ Honest(t.refs, t.errors, m) /\ LogsFit(t.logs, t.refs, t.signals, m, m)
      /\ MetricsFit(t.metrics, m, m) /\ SignalsFit(t.signals, t.errors, m, m)
      /\ \A i \in 1..m : t.errors[i].category = "platform"
  BY <1>1 DEF Story
<1> HIDE DEF m
<1>3. /\ IsTask(u) /\ u.refs = refs /\ u.logs = logs /\ u.metrics = metrics /\ u.n = t.n /\ u.most = t.most
      /\ u.again = t.again /\ u.at = t.at /\ u.events = t.events /\ u.signals = t.signals /\ u.errors = t.errors
  <2>1. u = [t EXCEPT !.refs = refs, !.logs = logs, !.metrics = metrics]
    BY DEF AttemptEnded
  <2> HIDE DEF u, refs, logs, metrics
  <2> QED BY <2>1, TaskFields DEF IsTask
<1> HIDE DEF u
<1>4. IsList(t.refs) /\ Len(t.refs) = m
  <2>1. Len(<<>>) = 0
    OBVIOUS
  <2> QED BY <1>1, <1>2, <2>1 DEF RefsFit
<1>5. refs[m + 1] = ref /\ \A i \in 1..m : refs[i] = t.refs[i]
  BY <1>4, AppendedList
<1>6. RefsFit(refs, <<>>, m + 1)
  BY <1>1, <1>2, AttemptRefs
<1> HIDE DEF refs
<1>7. LogsFit(logs, refs, t.signals, m + 1, m)
  BY <1>1, <1>2, <1>5, LogsGrow
<1>8. MetricsFit(metrics, m + 1, m)
  BY <1>1, <1>2, MetricsGrow
<1> HIDE DEF logs, metrics
<1>9. Honest(refs, t.errors, m)
  BY <1>2, <1>5 DEF Honest
<1>10. Halfway(u, m + 1, m + 1)
  <2> DEFINE p == m + 1
  <2>2. p \in Nat /\ p # 0 /\ p - 1 = m
    BY <1>1
  <2>3. /\ u.n = p /\ u.events = <<>> /\ RefsFit(u.refs, <<>>, p) /\ Honest(u.refs, u.errors, m)
        /\ LogsFit(u.logs, u.refs, u.signals, p, m) /\ MetricsFit(u.metrics, p, m) /\ SignalsFit(u.signals, u.errors, m, m)
        /\ \A i \in 1..m : u.errors[i].category = "platform"
    BY <1>1, <1>2, <1>3, <1>6, <1>7, <1>8, <1>9
  <2> HIDE DEF p
  <2> QED BY <2>2, <2>3 DEF Halfway, p
<1> QED BY <1>1, <1>3, <1>5, <1>10 DEF u

\* An attempt that hangs has no end.
LEMMA HalfwayOfHang ==
  ASSUME NEW t, t.n \in Nat, t.n # 0, Begins(t)
  PROVE  Halfway(t, t.n, t.n - 1)
<1> DEFINE m == t.n - 1
<1>1. /\ m \in Nat /\ m + 1 = t.n /\ Story(t, m, m, m) /\ t.events = <<>>
  BY DEF Begins
<1>2. /\ RefsFit(t.refs, <<>>, m) /\ Honest(t.refs, t.errors, m) /\ LogsFit(t.logs, t.refs, t.signals, m, m)
      /\ MetricsFit(t.metrics, m, m) /\ SignalsFit(t.signals, t.errors, m, m)
      /\ \A i \in 1..m : t.errors[i].category = "platform"
  BY <1>1 DEF Story
<1> QED BY <1>1, <1>2 DEF Halfway

\* An attempt that succeeded.
LEMMA SuccessFits ==
  ASSUME NEW t, IsTask(t), NEW n, Halfway(t, n, n), t.refs[n].json, t.at = "attempt", t.again \in BOOLEAN,
         t.most \in Nat, n <= t.most
  PROVE  TaskFits(Judged(t, EnvelopeOf(NoError), FALSE))
<1> DEFINE e == EnvelopeOf(NoError)
           x == Observed(e, t)
           y == Judged(t, e, FALSE)
<1>1. /\ n \in Nat /\ n # 0 /\ t.n = n /\ t.events = <<>>
      /\ RefsFit(t.refs, <<>>, n) /\ Honest(t.refs, t.errors, n - 1)
      /\ LogsFit(t.logs, t.refs, t.signals, n, n - 1) /\ MetricsFit(t.metrics, n, n - 1)
      /\ SignalsFit(t.signals, t.errors, n - 1, n - 1)
      /\ \A i \in 1..(n - 1) : t.errors[i].category = "platform"
  BY DEF Halfway
<1>2. /\ IsEnvelope(x) /\ x.error = NoError /\ x.earlier = t.signals /\ x.logs = t.logs /\ x.metrics = t.metrics
  <2>1. IsList(t.signals) /\ IsList(t.logs) /\ IsList(t.metrics)
    BY <1>1 DEF SignalsFit, LogsFit, MetricsFit
  <2> QED BY <2>1, ObservedSucceeds
<1>3. y = [t EXCEPT !.envelope = x, !.at = "done"]
  <2>1. ~Failed(e)
    BY DEF Failed, EnvelopeOf
  <2> HIDE DEF e
  <2> QED BY <2>1 DEF Judged
<1> HIDE DEF x
<1>4. /\ IsTask(y) /\ y.refs = t.refs /\ y.logs = t.logs /\ y.metrics = t.metrics /\ y.n = n /\ y.most = t.most
      /\ y.again = t.again /\ y.at = "done" /\ y.events = <<>> /\ y.signals = t.signals /\ y.errors = t.errors
      /\ y.envelope = x
  <2> HIDE DEF y
  <2> QED BY <1>1, <1>3, TaskFields DEF IsTask
<1> HIDE DEF y
<1>5. Story(y, n, n - 1, n - 1)
  <2>1. Honest(t.refs, t.errors, n)
    <3>1. ASSUME NEW i \in 1..n, ~t.refs[i].json PROVE i <= Len(t.errors) /\ ~t.errors[i].details.json
      <4>1. i \in 1..(n - 1)
        BY <1>1, <3>1
      <4> QED BY <1>1, <3>1, <4>1 DEF Honest
    <3> QED BY <3>1 DEF Honest
  <2>2. n - 1 \in Nat /\ n - 1 <= n /\ n <= n - 1 + 1 /\ n - 1 <= n - 1 /\ n - 1 <= n - 1 + 1 /\ n - 1 <= n + 1 /\ n - 1 # n + 1
    BY <1>1
  <2>3. SignalsFit(t.signals, t.errors, n, n - 1)
    <3>1. ASSUME NEW i \in 1..(n - 1)
          PROVE (IF i <= n THEN i ELSE n) = (IF i <= n - 1 THEN i ELSE n - 1)
      BY <1>1
    <3> QED BY <1>1, <3>1 DEF SignalsFit
  <2> QED BY <1>1, <1>4, <2>1, <2>2, <2>3 DEF Story
<1>6. Succeeds(y)
  BY <1>2, <1>4, <1>5 DEF Succeeds
<1> QED BY <1>1, <1>4, <1>6 DEF TaskFits, y

\* The story is in some of what is known of a task.
LEMMA SameStory ==
  ASSUME NEW t, NEW k, NEW r, NEW f, Story(t, k, r, f), NEW u, u.refs = t.refs, u.events = t.events, u.errors = t.errors,
         u.signals = t.signals, u.logs = t.logs, u.metrics = t.metrics
  PROVE  Story(u, k, r, f)
  BY DEF Story

\* An attempt that failed: its task is done, or tries again while the policy allows it.
LEMMA FailureFits ==
  ASSUME NEW t, IsTask(t), NEW n, NEW k, Halfway(t, n, k), t.at = "attempt", t.again \in BOOLEAN,
         t.most \in Nat, n <= t.most, NEW error, IsError(error),
         k = n => (~t.refs[n].json => ~error.details.json), k = n - 1 => error.category = "runtime_contract",
         NEW retry \in BOOLEAN, retry => k = n /\ error.category = "platform" /\ t.again,
         ~retry => ~Retryable(t, error, k = n /\ t.refs[k].says = "timeout")
  PROVE  TaskFits(Judged(t, EnvelopeOf(error), retry))
<1> DEFINE e == EnvelopeOf(error)
           x == Observed(e, t)
           failed == Failing(t, e)
           ref == IF t.refs = <<>> THEN <<>> ELSE <<Last(t.refs)>>
           log == RetryLog(n, x.signal, ref)
           metric == RetryMetric(n, x.signal)
           y == Judged(t, e, retry)
<1>1. /\ IsTask(failed) /\ failed.envelope = x /\ Len(failed.errors) = n /\ failed.errors[n] = error
      /\ failed.signals[n] = x.signal
      /\ failed.again = t.again /\ failed.leased = t.leased /\ failed.most = t.most /\ failed.n = t.n
      /\ failed.at = t.at /\ failed.refs = t.refs /\ failed.events = t.events /\ failed.record = t.record
      /\ failed.logs = t.logs /\ failed.metrics = t.metrics
      /\ Story(failed, k, n - 1, n) /\ Blames(x, failed, k, n) /\ SayTheSame(x.error, error)
  BY FailureIsJudged
<1>2. n \in Nat /\ n # 0 /\ n - 1 \in Nat /\ t.n = n /\ t.events = <<>>
  BY DEF Halfway
<1>3. IsEnvelope(x) /\ IsError(x.error) /\ x.signal.at = n
  BY <1>1, <1>2 DEF Blames
<1>4. Failed(e) /\ e.error = error
  BY ErrorsFail DEF Failed, EnvelopeOf
<1>5. y = CASE ~retry -> [failed EXCEPT !.at = "done"]
            [] retry /\ n >= t.most -> Ending(failed, ControlEvent("retry_exhausted", n))
            [] OTHER -> [failed EXCEPT !.at = "waiting", !.logs = Append(@, log), !.metrics = Append(@, metric)]
  <2> HIDE DEF e, ref
  <2>1. [t EXCEPT !.envelope = Observed(e, t), !.signals = Append(@, Observed(e, t).signal), !.errors = Append(@, e.error)] = failed
    BY DEF Failing
  <2>2. y = CASE ~Failed(e) -> [t EXCEPT !.envelope = Observed(e, t), !.at = "done"]
              [] Failed(e) /\ ~retry -> [failed EXCEPT !.at = "done"]
              [] Failed(e) /\ retry /\ t.n >= t.most -> Ending(failed, ControlEvent("retry_exhausted", t.n))
              [] OTHER -> [failed EXCEPT !.at = "waiting",
                             !.logs = Append(@, RetryLog(t.n, failed.envelope.signal, ref)),
                             !.metrics = Append(@, RetryMetric(t.n, failed.envelope.signal))]
    BY <2>1 DEF Judged, ref
  <2>3. RetryLog(t.n, failed.envelope.signal, ref) = log /\ RetryMetric(t.n, failed.envelope.signal) = metric
    BY <1>1, <1>2
  <2> HIDE DEF y, failed, log, metric
  <2> QED BY <1>2, <1>4, <2>2, <2>3
<1> HIDE DEF failed, x, y, e
<1>6. CASE ~retry
  <2>1. y = [failed EXCEPT !.at = "done"]
    BY <1>5, <1>6
  <2>2. /\ IsTask(y) /\ y.at = "done" /\ y.refs = t.refs /\ y.events = t.events /\ y.errors = failed.errors
        /\ y.signals = failed.signals /\ y.logs = t.logs /\ y.metrics = t.metrics /\ y.envelope = x
        /\ y.again = t.again /\ y.n = n /\ y.most = t.most
    BY <1>1, <1>2, <2>1, TaskFields DEF IsTask
  <2>3. Story(y, k, n - 1, n)
    BY <1>1, <2>2, SameStory
  <2>4. Blames(x, y, k, n)
    BY <1>1, <1>2, <2>2 DEF Blames
  <2>5. ~Retryable(y, y.errors[n], k = n /\ y.refs[k].says = "timeout")
    BY <1>1, <1>6, <2>2 DEF Retryable
  <2>6. n - 1 <= n - 1 + Len(y.events)
    <3>1. Len(<<>>) = 0
      OBVIOUS
    <3> QED BY <1>2, <2>2, <3>1
  <2>7. FailsFor(y, k, n - 1)
    BY <2>2, <2>3, <2>4, <2>5, <2>6 DEF FailsFor
  <2> QED BY <1>2, <2>2, <2>7 DEF TaskFits, y, e
<1>7. CASE retry /\ n >= t.most
  <2> DEFINE says == "retry_exhausted"
  <2>1. y = Ending(failed, ControlEvent(says, n))
    BY <1>5, <1>7
  <2>2. k = n /\ n = t.most
    BY <1>2, <1>7
  <2>3. /\ IsTask(failed) /\ failed.n = n /\ failed.most = n /\ Story(failed, failed.n, n - 1, failed.n) /\ failed.n # 0
        /\ failed.events = <<>> /\ IsEnvelope(failed.envelope) /\ IsError(failed.envelope.error)
        /\ SayTheSame(failed.envelope.error, failed.errors[failed.n]) /\ failed.envelope.signal.at = failed.n
    BY <1>1, <1>2, <1>3, <2>2
  <2>4. LET z == Ending(failed, ControlEvent(says, failed.n))
        IN /\ IsTask(z) /\ SameTask(failed, z) /\ z.at = "done" /\ Len(z.events) = 1 /\ z.events[1].says = says
           /\ \A i \in 1..failed.n : z.refs[i] = failed.refs[i]
           /\ Story(z, failed.n, n - 1, failed.n) /\ Blames(z.envelope, z, failed.n, failed.n)
    BY <2>3, EventEnds
  <2>5. /\ IsTask(y) /\ SameTask(failed, y) /\ y.at = "done" /\ Len(y.events) = 1
        /\ Story(y, n, n - 1, n) /\ Blames(y.envelope, y, n, n)
    BY <2>1, <2>3, <2>4
  <2>6. y.n = n /\ y.again = t.again /\ y.most = t.most
    BY <1>1, <2>3, <2>5 DEF SameTask
  <2>7. n - 1 <= n - 1 + Len(y.events)
    BY <1>2, <2>5
  <2>8. FailsFor(y, n, n - 1)
    BY <2>5, <2>6, <2>7 DEF FailsFor
  <2> QED BY <1>2, <2>5, <2>6, <2>8 DEF TaskFits, y, e
<1>8. CASE retry /\ ~(n >= t.most)
  <2> DEFINE logs == Append(t.logs, log)
             metrics == Append(t.metrics, metric)
  <2>1. y = [failed EXCEPT !.at = "waiting", !.logs = logs, !.metrics = metrics]
    BY <1>1, <1>5, <1>8
  <2>2. k = n /\ n < t.most /\ t.again /\ error.category = "platform"
    BY <1>2, <1>8
  <2>3. /\ RefsFit(t.refs, t.events, n) /\ Honest(t.refs, failed.errors, n)
        /\ LogsFit(t.logs, t.refs, failed.signals, n, n - 1) /\ MetricsFit(t.metrics, n, n - 1)
        /\ SignalsFit(failed.signals, failed.errors, n, n)
        /\ \A i \in 1..(n - 1) : failed.errors[i].category = "platform"
    BY <1>1, <2>2 DEF Story
  <2>4. ref = <<t.refs[n]>>
    <3>1. Len(<<>>) = 0
      OBVIOUS
    <3>2. Len(t.refs) = n
      BY <1>2, <2>3, <3>1 DEF RefsFit
    <3>3. t.refs # <<>>
      BY <1>2, <3>1, <3>2
    <3> QED BY <3>2, <3>3 DEF Last
  <2>5. LogsFit(logs, t.refs, failed.signals, n, n)
    <3>1. log = RetryLog(n, failed.signals[n], <<t.refs[n]>>)
      BY <1>1, <2>4
    <3> HIDE DEF log
    <3>2. LogsFit(Append(t.logs, RetryLog(n, failed.signals[n], <<t.refs[n]>>)), t.refs, failed.signals, n, n)
      BY <1>2, <2>3, LogsRetry
    <3> QED BY <3>1, <3>2
  <2>6. MetricsFit(metrics, n, n)
    BY <1>2, <2>3, MetricsRetry
  <2> HIDE DEF logs, metrics, log, metric
  <2>7. /\ IsTask(y) /\ y.at = "waiting" /\ y.refs = t.refs /\ y.events = t.events /\ y.errors = failed.errors
        /\ y.signals = failed.signals /\ y.logs = logs /\ y.metrics = metrics /\ y.envelope = x
        /\ y.again = t.again /\ y.n = n /\ y.most = t.most
    BY <1>1, <1>2, <2>1, TaskFields DEF IsTask
  <2>8. Story(y, n, n, n)
    <3>1. n <= n /\ n <= n + 1 /\ n # n + 1
      BY <1>2
    <3>2. \A i \in 1..n : failed.errors[i].category = "platform"
      <4> TAKE i \in 1..n
      <4>1. i = n \/ i \in 1..(n - 1)
        BY <1>2
      <4> QED BY <1>1, <2>2, <2>3, <4>1
    <3> QED BY <1>2, <2>3, <2>5, <2>6, <2>7, <3>1, <3>2 DEF Story
  <2>9. AwaitsRetry(y)
    BY <1>1, <1>2, <1>3, <2>2, <2>7, <2>8 DEF AwaitsRetry
  <2> QED BY <1>2, <2>7, <2>9 DEF TaskFits, y, e
<1> QED BY <1>6, <1>7, <1>8

\* What holds in an attempt.
LEMMA AttemptBegins ==
  ASSUME NEW t, TaskFits(t), t.at = "attempt"
  PROVE  /\ IsTask(t) /\ t.again \in BOOLEAN /\ Begins(t)
         /\ t.n \in Nat /\ t.n # 0 /\ t.most \in Nat /\ t.n <= t.most
  BY DEF TaskFits, AwaitsRetry, Succeeds, FailsFor

\* What is told of the end of an attempt.
LEMMA AttemptFields ==
  ASSUME NEW n, NEW e, NEW core \in BOOLEAN
  PROVE  LET ref == Attempted(n, e, core)
         IN /\ ref.kind = "attempt" /\ ref.n = n /\ ref.json = e.error.details.json
            /\ Failed(e) => (ref.says = "timeout" <=> core)
  BY DEF Attempted

\* An attempt that ends with an error keeps the invariant.
LEMMA FinishedFails ==
  ASSUME NEW t, TaskFits(t), t.at = "attempt", NEW error, IsError(error), NEW core \in BOOLEAN,
         core => error.category = "platform", NEW traced \in BOOLEAN
  PROVE  TaskFits(Finished(t, EnvelopeOf(error), core, traced))
<1> DEFINE e == EnvelopeOf(error)
           n == t.n
           bundled == [error EXCEPT !.details.traces = "bundle"]
           Bundles == traced /\ t.leased /\ error.details.traces = None
           err == IF Bundles THEN bundled ELSE error
           told == EnvelopeOf(err)
           ref == Attempted(n, told, core)
           u == AttemptEnded(t, ref)
           retry == Retryable(t, err, core)
<1>1. /\ IsTask(t) /\ t.again \in BOOLEAN /\ Begins(t)
      /\ n \in Nat /\ n # 0 /\ t.most \in Nat /\ n <= t.most
  BY AttemptBegins
<1>2. IsError(err) /\ err.category = error.category /\ err.details.json = error.details.json
  <2>1. IsError(bundled) /\ bundled.category = error.category /\ bundled.details.json = error.details.json
    BY DEF IsError
  <2> HIDE DEF bundled, Bundles
  <2> QED BY <2>1
<1>3. Finished(t, e, core, traced) = Judged(u, told, retry)
  <2>1. Failed(e) /\ e.error = error
    BY ErrorsFail DEF Failed, EnvelopeOf
  <2>2. [e EXCEPT !.error.details.traces = "bundle"] = EnvelopeOf(bundled)
    BY DEF EnvelopeOf
  <2>3. (IF Failed(e) /\ traced /\ t.leased /\ e.error.details.traces = None
         THEN [e EXCEPT !.error.details.traces = "bundle"] ELSE e) = told
    <3>1. CASE Bundles
      <4>1. err = bundled
        BY <3>1
      <4> HIDE DEF bundled, err
      <4> QED BY <2>1, <2>2, <3>1, <4>1
    <3>2. CASE ~Bundles
      <4>1. err = error
        BY <3>2
      <4> HIDE DEF bundled, err
      <4> QED BY <2>1, <3>2, <4>1
    <3> QED BY <3>1, <3>2
  <2>4. told.error = err
    <3> HIDE DEF err
    <3> QED BY DEF EnvelopeOf
  <2> HIDE DEF e, told, err, Bundles, bundled
  <2> QED BY <2>1, <2>3, <2>4 DEF Finished, AttemptEnded
<1> HIDE DEF err
<1>4. Failed(told) /\ told.error = err
  BY <1>2, ErrorsFail DEF Failed, EnvelopeOf
<1>5. ref.kind = "attempt" /\ ref.n = n /\ ref.json = err.details.json /\ (ref.says = "timeout" <=> core)
  <2> HIDE DEF told
  <2> QED BY <1>4, AttemptFields
<1> HIDE DEF ref
<1>6. /\ IsTask(u) /\ Halfway(u, n, n) /\ u.refs[n] = ref
      /\ u.n = n /\ u.most = t.most /\ u.again = t.again /\ u.at = "attempt"
  BY <1>1, <1>5, HalfwayOfEnd
<1> HIDE DEF u
<1>7. retry \in BOOLEAN /\ (retry => err.category = "platform" /\ t.again)
  BY <1>2 DEF Retryable
<1>8. ~retry => ~Retryable(u, err, n = n /\ u.refs[n].says = "timeout")
  BY <1>5, <1>6 DEF Retryable
<1>9. ~u.refs[n].json => ~err.details.json
  BY <1>5, <1>6
<1>10. n = n - 1 => err.category = "runtime_contract"
  BY <1>1
<1> HIDE DEF retry
<1>11. TaskFits(Judged(u, told, retry))
  <2>1. u.most \in Nat /\ n <= u.most /\ u.again \in BOOLEAN /\ (retry => n = n /\ err.category = "platform" /\ u.again)
    BY <1>1, <1>6, <1>7
  <2> QED BY <1>2, <1>6, <1>7, <1>8, <1>9, <1>10, <2>1, FailureFits
<1> QED BY <1>3, <1>11

\* So does one that ends without ...
LEMMA SucceedsFits ==
  ASSUME NEW t, TaskFits(t), t.at = "attempt"
  PROVE  TaskFits(Finished(t, EnvelopeOf(NoError), FALSE, TRUE))
<1> DEFINE e == EnvelopeOf(NoError)
           n == t.n
           ref == Attempted(n, e, FALSE)
           u == AttemptEnded(t, ref)
<1>1. /\ IsTask(t) /\ t.again \in BOOLEAN /\ Begins(t)
      /\ n \in Nat /\ n # 0 /\ t.most \in Nat /\ n <= t.most
  BY AttemptBegins
<1>2. ~Failed(e) /\ e.error.details.json
  BY DEF Failed, EnvelopeOf, NoError, Error, NoDetails
<1>3. Finished(t, e, FALSE, TRUE) = Judged(u, e, FALSE)
  <2> HIDE DEF e
  <2> QED BY <1>2 DEF Finished, AttemptEnded
<1>4. ref.kind = "attempt" /\ ref.n = n /\ ref.json
  <2> HIDE DEF e
  <2> QED BY <1>2 DEF Attempted
<1> HIDE DEF ref
<1>5. /\ IsTask(u) /\ Halfway(u, n, n) /\ u.refs[n] = ref
      /\ u.n = n /\ u.most = t.most /\ u.again = t.again /\ u.at = "attempt"
  BY <1>1, <1>4, HalfwayOfEnd
<1> HIDE DEF u
<1>6. u.refs[n].json /\ u.most \in Nat /\ n <= u.most /\ u.again \in BOOLEAN
  BY <1>1, <1>4, <1>5
<1>7. TaskFits(Judged(u, EnvelopeOf(NoError), FALSE))
  BY <1>5, <1>6, SuccessFits
<1> QED BY <1>3, <1>7

\* ... one that hangs ...
LEMMA HangFits ==
  ASSUME NEW t, TaskFits(t), t.at = "attempt"
  PROVE  TaskFits(Judged(t, EnvelopeOf(Hung), FALSE))
<1> DEFINE n == t.n
           k == n - 1
<1>1. /\ IsTask(t) /\ t.again \in BOOLEAN /\ Begins(t)
      /\ n \in Nat /\ n # 0 /\ t.most \in Nat /\ n <= t.most
  BY AttemptBegins
<1>2. Halfway(t, n, k)
  BY <1>1, HalfwayOfHang
<1>3. k # n /\ k = n - 1
  BY <1>1
<1>4. IsError(Hung) /\ Hung.category = "runtime_contract"
  BY FailuresAreErrors DEF Hung, Error
<1> HIDE DEF k
<1>5. ~Retryable(t, Hung, k = n /\ t.refs[k].says = "timeout")
  BY <1>3, <1>4 DEF Retryable
<1>6. FALSE \in BOOLEAN /\ ~FALSE
  OBVIOUS
<1> QED BY <1>1, <1>2, <1>3, <1>4, <1>5, FailureFits

\* ... and what may follow one that is retried.
LEMMA WaitingFits ==
  ASSUME NEW t, TaskFits(t), t.at = "waiting"
  PROVE  /\ TaskFits([t EXCEPT !.at = "attempt", !.n = @ + 1])
         /\ TaskFits(Ending(t, ControlEvent("retry_concurrency_rejected", t.n)))
<1>1. /\ IsTask(t) /\ t.again \in BOOLEAN /\ AwaitsRetry(t)
      /\ t.n \in Nat /\ t.n # 0 /\ t.most \in Nat /\ t.n <= t.most
  BY DEF TaskFits, Begins, Succeeds, FailsFor
<1>2. /\ t.events = <<>> /\ t.n < t.most /\ Story(t, t.n, t.n, t.n)
      /\ IsEnvelope(t.envelope) /\ IsError(t.envelope.error) /\ SayTheSame(t.envelope.error, t.errors[t.n])
      /\ t.envelope.signal.at = t.n
  BY <1>1 DEF AwaitsRetry
<1>3. TaskFits([t EXCEPT !.at = "attempt", !.n = @ + 1])
  <2> DEFINE m == t.n + 1
             u == [t EXCEPT !.at = "attempt", !.n = m]
  <2>1. m \in Nat /\ m # 0 /\ m <= t.most /\ m - 1 = t.n
    BY <1>1, <1>2
  <2> HIDE DEF m
  <2>2. /\ IsTask(u) /\ u.at = "attempt" /\ u.n = m /\ u.most = t.most /\ u.again = t.again
        /\ u.refs = t.refs /\ u.events = t.events /\ u.errors = t.errors
        /\ u.signals = t.signals /\ u.logs = t.logs /\ u.metrics = t.metrics
    <3>1. u = [t EXCEPT !.at = "attempt", !.n = m]
      OBVIOUS
    <3> HIDE DEF u
    <3> QED BY <1>1, <3>1, TaskFields DEF IsTask
  <2> HIDE DEF u
  <2>3. Story(u, t.n, t.n, t.n)
    BY <1>2, <2>2, SameStory
  <2>4. Begins(u)
    BY <1>2, <2>1, <2>2, <2>3 DEF Begins
  <2>5. TaskFits(u)
    BY <1>1, <2>1, <2>2, <2>4 DEF TaskFits
  <2> QED BY <2>5 DEF u, m
<1>4. TaskFits(Ending(t, ControlEvent("retry_concurrency_rejected", t.n)))
  <2> DEFINE says == "retry_concurrency_rejected"
             y == Ending(t, ControlEvent(says, t.n))
  <2>1. /\ IsTask(y) /\ SameTask(t, y) /\ y.at = "done" /\ Len(y.events) = 1
        /\ Story(y, t.n, t.n, t.n) /\ Blames(y.envelope, y, t.n, t.n)
    BY <1>1, <1>2, EventEnds, ZenonT(60)
  <2> HIDE DEF y
  <2>2. y.n = t.n /\ y.most = t.most /\ y.again = t.again
    BY <2>1 DEF SameTask
  <2>3. t.n <= t.n - 1 + Len(y.events)
    BY <1>1, <2>1
  <2>4. FailsFor(y, t.n, t.n)
    BY <2>1, <2>2, <2>3 DEF FailsFor
  <2>5. TaskFits(y)
    BY <1>1, <2>1, <2>2, <2>4 DEF TaskFits
  <2> QED BY <2>5 DEF y
<1> QED BY <1>3, <1>4

-----------------------------------------------------------------------------
(* A task that is closed *)

\* The attempts of a story are told in order.
LEMMA StoryIsTold ==
  ASSUME NEW t, NEW k, NEW r, NEW f, Story(t, k, r, f), k <= t.most
  PROVE  AttemptsAreTold(t)
<1>1. EndedAttempts(t) = 1..k /\ Cardinality(1..k) = k
  BY AttemptsOfStory DEF EndedAttempts
<1>2. /\ k \in Nat /\ r \in Nat /\ r <= k /\ k <= r + 1
      /\ RefsFit(t.refs, t.events, k) /\ LogsFit(t.logs, t.refs, t.signals, k, r)
  BY DEF Story
<1>3. Len(t.logs) = 2 * k + r
  BY <1>2 DEF LogsFit
<1>4. Len(t.logs) \in {3 * k - 1, 3 * k}
  <2>1. r = k \/ r = k - 1
    BY <1>2
  <2> QED BY <1>2, <1>3, <2>1
<1>5. ASSUME NEW n \in 1..k
      PROVE  t.refs[n].n = n /\ <<t.logs[3 * n - 2], t.logs[3 * n - 1]>> = AttemptLogs(t.refs[n])
  <2>1. t.refs[n].n = n
    BY <1>2 DEF RefsFit
  <2>2. /\ t.logs[3 * n - 2] = Cycle("attempt_started", n, <<t.refs[n]>>)
        /\ t.logs[3 * n - 1] = Cycle("attempt_finished", n, <<t.refs[n]>>)
    BY <1>2 DEF LogsFit
  <2> QED BY <2>1, <2>2 DEF AttemptLogs
<1>6. ASSUME NEW n \in 1..k, 3 * n <= Len(t.logs)
      PROVE  /\ t.logs[3 * n].type = "retry_scheduled" /\ t.logs[3 * n].refs = <<t.refs[n]>>
             /\ t.logs[3 * n].signal = t.signals[n].id
  <2>1. n \in 1..r
    BY <1>2, <1>3, <1>6
  <2>2. t.logs[3 * n] = RetryLog(n, t.signals[n], <<t.refs[n]>>)
    BY <1>2, <2>1 DEF LogsFit
  <2>3. \A signal, refs : LET l == RetryLog(n, signal, refs)
                          IN l.type = "retry_scheduled" /\ l.refs = refs /\ l.signal = signal.id
    BY DEF RetryLog
  <2> QED BY <2>2, <2>3
<1>7. \A n \in 1..k : LET retry == t.logs[3 * n]
                      IN 3 * n <= Len(t.logs) =>
                           /\ retry.type = "retry_scheduled" /\ retry.refs = <<t.refs[n]>>
                           /\ retry.signal = t.signals[n].id
  BY <1>6
<1> QED BY <1>1, <1>4, <1>5, <1>7 DEF AttemptsAreTold

\* One entry of a list tells of the failure, whatever else is written after it.
LEMMA ToldOnce ==
  ASSUME NEW list, IsList(list), NEW types, \A n \in 1..Len(list) : list[n].type \notin types,
         NEW own, own.type \in types, NEW signal, own.signal = signal.id
  PROVE  /\ ToldBy(Append(list, own), types, signal)
         /\ \A other : other.type \notin types => ToldBy(Append(Append(list, own), other), types, signal)
<1> DEFINE new == Append(list, own)
           n == Len(list) + 1
<1>1. /\ IsList(new) /\ Len(new) = n /\ new[n] = own /\ n \in Nat /\ DOMAIN new = 1..n
      /\ \A m \in 1..Len(list) : new[m] = list[m]
  <2>1. IsList(new) /\ Len(new) = n /\ new[n] = own /\ \A m \in 1..Len(list) : new[m] = list[m]
    BY AppendedList
  <2> HIDE DEF new
  <2> QED BY <2>1 DEF IsList
<1>2. Len(list) \in Nat
  BY DEF IsList
<1> HIDE DEF new
<1>3. \A m \in 1..n : new[m].type \in types <=> m = n
  <2> TAKE m \in 1..n
  <2>1. m = n \/ m \in 1..Len(list)
    BY <1>2
  <2>2. m \in 1..Len(list) => m # n
    BY <1>2
  <2> QED BY <1>1, <2>1, <2>2
<1>4. n \in 1..n
  BY <1>2
<1>5. ToldBy(new, types, signal)
  <2>1. {m \in DOMAIN new : new[m].type \in types} = {n}
    BY <1>1, <1>3, <1>4
  <2> QED BY <1>1, <1>4, <2>1 DEF ToldBy
<1>6. ASSUME NEW other, other.type \notin types PROVE ToldBy(Append(new, other), types, signal)
  <2> DEFINE more == Append(new, other)
  <2>1. /\ IsList(more) /\ Len(more) = n + 1 /\ more[n + 1] = other /\ DOMAIN more = 1..(n + 1)
        /\ \A m \in 1..n : more[m] = new[m]
    <3>1. IsList(more) /\ Len(more) = n + 1 /\ more[n + 1] = other /\ \A m \in 1..n : more[m] = new[m]
      BY <1>1, AppendedList
    <3> HIDE DEF more
    <3> QED BY <3>1 DEF IsList
  <2> HIDE DEF more
  <2>2. \A m \in 1..(n + 1) : more[m].type \in types <=> m = n
    <3> TAKE m \in 1..(n + 1)
    <3>1. m = n + 1 \/ m \in 1..n
      BY <1>2
    <3>2. n + 1 # n
      BY <1>2
    <3> QED BY <1>3, <1>6, <2>1, <3>1, <3>2
  <2>3. n \in 1..(n + 1)
    BY <1>2
  <2>4. {m \in DOMAIN more : more[m].type \in types} = {n}
    BY <2>1, <2>2, <2>3
  <2>5. more[n] = own
    BY <1>1, <1>4, <2>1
  <2> QED BY <2>1, <2>3, <2>4, <2>5 DEF ToldBy, more
<1> QED BY <1>5, <1>6 DEF new

\* What the events of a task say.
LEMMA WordsOfEvents ==
  ASSUME NEW events, IsList(events)
  PROVE  LET says == [n \in DOMAIN events |-> events[n].says]
         IN /\ \A word : says = <<word>> => Len(events) = 1 /\ events[1].says = word
            /\ Len(events) = 1 => says # <<>>
<1> DEFINE says == [n \in DOMAIN events |-> events[n].says]
<1>1. DOMAIN events = 1..Len(events) /\ Len(events) \in Nat
  BY DEF IsList
<1>2. ASSUME NEW word, says = <<word>> PROVE Len(events) = 1 /\ events[1].says = word
  <2>1. DOMAIN says = 1..1 /\ says[1] = word
    BY <1>2
  <2>2. 1..Len(events) = 1..1
    BY <1>1, <2>1
  <2>3. Len(events) = 1
    BY <1>1, <2>2
  <2> QED BY <1>1, <2>1, <2>3
<1>3. ASSUME Len(events) = 1 PROVE says # <<>>
  <2>1. DOMAIN says = 1..1 /\ DOMAIN <<>> = {} /\ 1 \in 1..1
    BY <1>1, <1>3
  <2> QED BY <2>1
<1> QED BY <1>2, <1>3

\* Between Core's words for failures and the other entries there is no doubt.
LEMMA TellersApart ==
  /\ Tellers = Rejections \cup {"task_failed", "timeout_triggered"}
  /\ Tellers \cap KeptLogs = {} /\ FailureMetrics \cap KeptMetrics = {} /\ "observability_write_failed" \notin Tellers
  BY DEF Tellers, Rejections, KeptLogs, FailureMetrics, KeptMetrics

\* An envelope that blames an error tells of the failure, as it is kept and as it is not.
LEMMA BlameIsTold ==
  ASSUME NEW t, NEW k, NEW r, NEW f, Story(t, k, r, f), NEW e, Blames(e, t, k, f)
  PROVE  \A x : /\ x.error = e.error /\ x.signal = e.signal /\ x.metrics = e.metrics
                /\ \/ x.logs = e.logs
                   \/ \E other : other.type = "observability_write_failed" /\ x.logs = Append(e.logs, other)
                => FailureIsTold(x)
<1> DEFINE own == FailureLog(e)
           sample == FailureSample(e)
<1>1. /\ e.signal.id = SignalId(e) /\ e.logs = Append(t.logs, own) /\ e.metrics = Append(t.metrics, sample)
  BY DEF Blames
<1>2. /\ own.type \in Tellers /\ own.signal = e.signal.id /\ sample.type \in FailureMetrics /\ sample.signal = e.signal.id
  BY <1>1, OwnEntries
<1>3. e.signal.id.category = e.error.category /\ e.signal.id.code = e.error.code
  BY <1>1, IdFields DEF SignalId
<1> HIDE DEF own, sample
<1>4. /\ IsList(t.logs) /\ \A n \in 1..Len(t.logs) : t.logs[n].type \notin Tellers
      /\ IsList(t.metrics) /\ \A n \in 1..Len(t.metrics) : t.metrics[n].type \notin FailureMetrics
  BY StoryIsKept, TellersApart
<1>5. /\ ToldBy(Append(t.logs, own), Tellers, e.signal)
      /\ \A other : other.type \notin Tellers => ToldBy(Append(Append(t.logs, own), other), Tellers, e.signal)
  BY <1>2, <1>4, ToldOnce
<1>6. ToldBy(Append(t.metrics, sample), FailureMetrics, e.signal)
  BY <1>2, <1>4, ToldOnce
<1> TAKE x
<1> HAVE /\ x.error = e.error /\ x.signal = e.signal /\ x.metrics = e.metrics
         /\ \/ x.logs = e.logs
            \/ \E other : other.type = "observability_write_failed" /\ x.logs = Append(e.logs, other)
<1>7. ToldBy(x.logs, Tellers, x.signal)
  BY <1>1, <1>5, TellersApart
<1>8. ToldBy(x.metrics, FailureMetrics, x.signal)
  BY <1>1, <1>6
<1> QED BY <1>3, <1>7, <1>8, TellersApart DEF FailureIsTold

\* What of a task stays when it is closed.
SameStoryAs(u, t) ==
  /\ u.refs = t.refs /\ u.events = t.events /\ u.errors = t.errors /\ u.signals = t.signals /\ u.logs = t.logs
  /\ u.metrics = t.metrics /\ u.n = t.n /\ u.most = t.most /\ u.again = t.again

\* A task that failed is explained when it is closed.
LEMMA FailureIsClosed ==
  ASSUME NEW t, NEW k, NEW r, FailsFor(t, k, r), t.n \in Nat, t.n # 0, t.most \in Nat, t.n <= t.most,
         NEW last, Blames(last, t, k, t.n),
         NEW u, SameStoryAs(u, t), u.record = "refused" => ~RecordTakes(last),
         u.envelope.error = last.error, u.envelope.signal = last.signal, u.envelope.metrics = last.metrics,
         \/ u.envelope.logs = last.logs
         \/ \E other : other.type = "observability_write_failed" /\ u.envelope.logs = Append(last.logs, other)
  PROVE  IsExplained(u)
<1> DEFINE n == t.n
           x == u.envelope
<1>1. /\ Story(t, k, r, n) /\ r <= n - 1 + Len(t.events)
      /\ Retryable(t, t.errors[n], k = n /\ t.refs[k].says = "timeout") => Len(t.events) = 1
  BY DEF FailsFor
<1>2. /\ u.refs = t.refs /\ u.events = t.events /\ u.errors = t.errors /\ u.signals = t.signals /\ u.logs = t.logs
      /\ u.metrics = t.metrics /\ u.n = n /\ u.most = t.most /\ u.again = t.again
  BY DEF SameStoryAs
<1>3. /\ k \in Nat /\ n \in Nat /\ n \in 1..n /\ k <= n
      /\ Len(t.events) = 0 \/ Len(t.events) = 1
      /\ Len(t.events) = 1 => n = k
  <2>1. /\ k \in Nat /\ r \in Nat /\ n \in Nat /\ n # 0 /\ n \in 1..n
        /\ Len(t.events) = 0 \/ Len(t.events) = 1
        /\ Len(t.events) = 0 => n = r + 1 /\ (n = k \/ (n = k + 1 /\ k = r))
        /\ Len(t.events) = 1 => n = k
    BY <1>1, LastFailure
  <2> QED BY <2>1
<1>4. /\ IsList(t.errors) /\ Len(t.errors) = n /\ IsList(t.events)
  BY <1>1 DEF Story, SignalsFit, RefsFit
<1>5. FailureIsTold(x)
  BY <1>1, BlameIsTold
<1>6. AttemptsAreTold(u)
  <2>1. Story(u, k, r, n) /\ k <= u.most
    BY <1>1, <1>2, <1>3, SameStory
  <2> QED BY <2>1, StoryIsTold
<1>7. Failed(x) /\ FailedItself(u)
  <2>1. IsError(last.error)
    BY DEF Blames
  <2>2. n > 0
    BY <1>3
  <2> QED BY <1>2, <1>4, <2>1, <2>2, ErrorsFail DEF Failed, FailedItself
<1>8. LastErrorIsBlamed(u)
  <2> DEFINE ended == Cardinality(EndedAttempts(u))
             says == [i \in DOMAIN u.events |-> u.events[i].says]
  <2>1. ended = k
    BY <1>1, <1>2, AttemptsOfStory DEF EndedAttempts
  <2>2. /\ \A word : says = <<word>> => Len(t.events) = 1 /\ t.events[1].says = word
        /\ Len(t.events) = 1 => says # <<>>
    <3> DEFINE said == [i \in DOMAIN t.events |-> t.events[i].says]
    <3>1. /\ \A word : said = <<word>> => Len(t.events) = 1 /\ t.events[1].says = word
          /\ Len(t.events) = 1 => said # <<>>
      BY <1>4, WordsOfEvents
    <3>2. says = said
      BY <1>2
    <3> HIDE DEF says, said
    <3> QED BY <3>1, <3>2
  <2> HIDE DEF ended, says
  <2>3. Last(u.errors) = t.errors[n]
    BY <1>2, <1>4 DEF Last
  <2>4. x.signal.id = Id(FailurePhase(last.error), t.errors[n].category, t.errors[n].code, k) /\ x.signal.at = n
    <3>1. last.signal.id = Id(FailurePhase(last.error), t.errors[n].category, t.errors[n].code, k)
      BY <1>1, LastSignal
    <3>2. last.signal.at = n
      BY DEF Blames
    <3> QED BY <3>1, <3>2
  <2>5. x.signal.id.attempt = k /\ x.signal.id.what = FailurePhase(last.error)
    BY <2>4, IdFields
  <2>6. x.error.category = t.errors[n].category /\ x.error.code = t.errors[n].code
    BY DEF Blames
  <2>7. Len(t.events) = 1 =>
          \/ t.events[1].says = "retry_exhausted" /\ n = t.most /\ FailurePhase(last.error) = "retry_exhausted"
          \/ t.events[1].says = "retry_concurrency_rejected" /\ FailurePhase(last.error) = "concurrency_rejected"
    BY DEF Blames
  <2>8. says = <<"retry_exhausted">> => x.signal.id.what = "retry_exhausted" /\ u.n = u.most
    BY <1>2, <2>2, <2>5, <2>7
  <2>9. says = <<"retry_concurrency_rejected">> => x.signal.id.what = "concurrency_rejected"
    BY <2>2, <2>5, <2>7
  <2>10. Retryable(u, Last(u.errors), ended = u.n /\ u.refs[ended].says = "timeout") => says # <<>>
    BY <1>1, <1>2, <2>1, <2>2, <2>3 DEF Retryable
  <2>11. x.signal.at = u.n /\ x.signal.id.attempt = ended
    BY <1>2, <2>1, <2>4, <2>5
  <2> QED BY <1>7, <2>3, <2>6, <2>8, <2>9, <2>10, <2>11 DEF LastErrorIsBlamed, ended, says
<1>9. RecordAgrees(u)
  <2>1. ASSUME u.record = "refused" PROVE \E error \in ToSet(u.errors) : ~Modest(error)
    <3>1. ~RecordTakes(last)
      BY <2>1
    <3>2. ~ \A i \in 1..n : Modest(t.errors[i])
      BY <1>1, <3>1, FailureIsTaken
    <3>3. ToSet(t.errors) = {t.errors[i] : i \in 1..n}
      BY <1>4, MoreInList, ZenonT(60)
    <3> QED BY <1>2, <3>2, <3>3
  <2>2. Failed(u.envelope) = FailedItself(u)
    <3>1. Failed(u.envelope) \in BOOLEAN /\ FailedItself(u) \in BOOLEAN
      BY DEF Failed, FailedItself
    <3> QED BY <1>7, <3>1
  <2> QED BY <2>1, <2>2 DEF RecordAgrees
<1> QED BY <1>5, <1>6, <1>8, <1>9 DEF IsExplained

\* And one that succeeded: whether it is kept, or fails for want of a record.
LEMMA SuccessIsClosed ==
  ASSUME NEW t, Succeeds(t), t.n \in Nat, t.n # 0, t.most \in Nat, t.n <= t.most,
         NEW u, SameStoryAs(u, t), u.record = "refused" => ~RecordTakes(t.envelope),
         ~Failed(u.envelope) \/ (FailureIsTold(u.envelope) /\ u.record # "kept")
  PROVE  IsExplained(u)
<1> DEFINE n == t.n
<1>1. /\ Story(t, n, n - 1, n - 1) /\ n - 1 \in Nat /\ n - 1 # n
      /\ t.envelope.error = NoError /\ t.envelope.earlier = t.signals
      /\ t.envelope.logs = t.logs /\ t.envelope.metrics = t.metrics
  BY DEF Succeeds
<1>2. /\ u.refs = t.refs /\ u.events = t.events /\ u.errors = t.errors /\ u.signals = t.signals /\ u.logs = t.logs
      /\ u.metrics = t.metrics /\ u.n = n /\ u.most = t.most
  BY DEF SameStoryAs
<1>3. IsList(t.errors) /\ Len(t.errors) = n - 1
  BY <1>1 DEF Story, SignalsFit
<1>4. ~FailedItself(u)
  BY <1>1, <1>2, <1>3 DEF FailedItself
<1>5. FailureIsTold(u.envelope)
  BY DEF FailureIsTold
<1>6. AttemptsAreTold(u)
  <2>1. Story(u, n, n - 1, n - 1) /\ n <= u.most
    BY <1>1, <1>2, SameStory
  <2> QED BY <2>1, StoryIsTold
<1>7. RecordAgrees(u)
  <2>1. ASSUME u.record = "refused" PROVE \E error \in ToSet(u.errors) : ~Modest(error)
    <3>1. ~RecordTakes(t.envelope)
      BY <2>1
    <3>2. ~ \A i \in 1..(n - 1) : Modest(t.errors[i])
      BY <1>1, <3>1, SuccessIsTaken
    <3>3. ToSet(t.errors) = {t.errors[i] : i \in 1..(n - 1)}
      <4>1. ToSet(t.errors) = {t.errors[i] : i \in 1..Len(t.errors)}
        BY <1>3, MoreInList
      <4> QED BY <1>3, <4>1
    <3> QED BY <1>2, <3>2, <3>3
  <2>2. u.record = "kept" => Failed(u.envelope) = FailedItself(u)
    <3>1. Failed(u.envelope) \in BOOLEAN /\ FailedItself(u) \in BOOLEAN
      BY DEF Failed, FailedItself
    <3> QED BY <1>4, <3>1
  <2> QED BY <2>1, <2>2 DEF RecordAgrees
<1> QED BY <1>4, <1>5, <1>6, <1>7 DEF IsExplained, LastErrorIsBlamed

-----------------------------------------------------------------------------
(* What Core says of its own errors *)

\* Of what was told of a failure before, nothing is kept.
LEMMA NothingKept ==
  ASSUME NEW e
  PROVE  /\ OfTypes(<<FailureLog(e)>>, KeptLogs) = <<>> /\ OfTypes(<<>>, KeptLogs) = <<>>
         /\ OfTypes(<<FailureSample(e)>>, KeptMetrics) = <<>> /\ OfTypes(<<>>, KeptMetrics) = <<>>
<1> DEFINE own == FailureLog(e)
           sample == FailureSample(e)
<1>1. IsList(<<>>) /\ Len(<<>>) = 0 /\ 1..0 = {} /\ \A y : Append(<<>>, y) = <<y>>
  BY DEF IsList
<1>2. own.type \notin KeptLogs /\ sample.type \notin KeptMetrics
  BY OwnEntries
<1> HIDE DEF own, sample
<1>3. OfTypes(Append(<<>>, own), KeptLogs) = <<>> /\ OfTypes(<<>>, KeptLogs) = <<>>
  <2>1. \A n \in 1..Len(<<>>) : <<>>[n].type \in KeptLogs
    BY <1>1
  <2> QED BY <1>1, <1>2, <2>1, FilteredAgain
<1>4. OfTypes(Append(<<>>, sample), KeptMetrics) = <<>> /\ OfTypes(<<>>, KeptMetrics) = <<>>
  <2>1. \A n \in 1..Len(<<>>) : <<>>[n].type \in KeptMetrics
    BY <1>1
  <2> QED BY <1>1, <1>2, <2>1, FilteredAgain
<1>5. Append(<<>>, own) = <<own>> /\ Append(<<>>, sample) = <<sample>>
  BY <1>1
<1> QED BY <1>3, <1>4, <1>5 DEF own, sample

\* An envelope that says nothing else tells of its failure.
LEMMA ToldAlone ==
  ASSUME NEW x, x.signal.id = SignalId(x), x.logs = <<FailureLog(x)>>, x.metrics = <<FailureSample(x)>>
  PROVE  FailureIsTold(x)
<1> DEFINE own == FailureLog(x)
           sample == FailureSample(x)
<1>1. IsList(<<>>) /\ Len(<<>>) = 0 /\ 1..0 = {} /\ \A y : Append(<<>>, y) = <<y>>
  BY DEF IsList
<1>2. /\ own.type \in Tellers /\ own.signal = x.signal.id /\ sample.type \in FailureMetrics /\ sample.signal = x.signal.id
  BY OwnEntries
<1>3. x.signal.id.category = x.error.category /\ x.signal.id.code = x.error.code
  BY IdFields DEF SignalId
<1>4. x.logs = Append(<<>>, own) /\ x.metrics = Append(<<>>, sample)
  BY <1>1
<1> HIDE DEF own, sample
<1>5. ToldBy(Append(<<>>, own), Tellers, x.signal)
  <2>1. \A n \in 1..Len(<<>>) : <<>>[n].type \notin Tellers
    BY <1>1
  <2> QED BY <1>1, <1>2, <2>1, ToldOnce
<1>6. ToldBy(Append(<<>>, sample), FailureMetrics, x.signal)
  <2>1. \A n \in 1..Len(<<>>) : <<>>[n].type \notin FailureMetrics
    BY <1>1
  <2> QED BY <1>1, <1>2, <2>1, ToldOnce
<1> QED BY <1>3, <1>4, <1>5, <1>6, TellersApart DEF FailureIsTold

\* So does one that nothing was reported of before it was explained.
LEMMA BareIsTold ==
  ASSUME NEW e, IsEnvelope(e), IsError(e.error), NEW now, e.logs = <<>>, e.metrics = <<>>
  PROVE  LET x == Explained(e, now)
         IN /\ FailureIsTold(x) /\ IsEnvelope(x) /\ x.error = e.error
            /\ x.logs = <<FailureLog(x)>> /\ x.metrics = <<FailureSample(x)>>
<1> DEFINE x == Explained(e, now)
<1>1. /\ IsEnvelope(x) /\ x.error = e.error /\ x.signal.id = SignalId(x)
      /\ x.logs = Append(OfTypes(e.logs, KeptLogs), FailureLog(x))
      /\ x.metrics = Append(OfTypes(e.metrics, KeptMetrics), FailureSample(x))
  BY ExplainedSays
<1> HIDE DEF x
<1>2. OfTypes(e.logs, KeptLogs) = <<>> /\ OfTypes(e.metrics, KeptMetrics) = <<>>
  BY NothingKept
<1>3. \A y : Append(<<>>, y) = <<y>>
  OBVIOUS
<1>4. x.logs = <<FailureLog(x)>> /\ x.metrics = <<FailureSample(x)>>
  BY <1>1, <1>2, <1>3
<1>5. FailureIsTold(x)
  BY <1>1, <1>4, ToldAlone
<1> QED BY <1>1, <1>4, <1>5 DEF x

\* An error that Core makes of nothing but a code.
LEMMA CoreErrors ==
  ASSUME NEW category \in {"invalid_input", "runtime_contract"}, NEW code, NEW at, NEW ref, NEW event
  PROVE  IsError(Error(category, code, [NoDetails EXCEPT !.ref = ref, !.stage = at, !.event = event]))
  BY DEF IsError, Error, NoDetails

\* An envelope of nothing but an error.
LEMMA BareEnvelope ==
  ASSUME NEW error, IsError(error), NEW ref
  PROVE  LET e == EnvelopeOf(error)
             x == Referring(e, ref)
         IN /\ IsEnvelope(e) /\ IsError(e.error) /\ e.logs = <<>> /\ e.metrics = <<>>
            /\ IsEnvelope(x) /\ IsError(x.error) /\ x.logs = <<>> /\ x.metrics = <<>>
<1> DEFINE e == EnvelopeOf(error)
<1>1. IsEnvelope(e) /\ IsError(e.error) /\ e.logs = <<>> /\ e.metrics = <<>>
  BY DEF IsEnvelope, EnvelopeOf
<1> HIDE DEF e
<1> QED BY <1>1, ReferringSaysTheSame DEF e

\* Whatever becomes of its record, a task that is closed is explained.
LEMMA CloseFits ==
  ASSUME NEW stored, task # None => TaskFits(task), Close(stored)
  PROVE  TaskFits(task')
<1> DEFINE t == task
           last == IF Failed(t.envelope) THEN Explained(Referring(t.envelope, "record"), 0) ELSE t.envelope
           takes == RecordTakes(last)
           kept == takes /\ stored = "writes"
           error == IF ~takes THEN Error("runtime_contract", "envelope_not_json_serializable", NoDetails)
                    ELSE Unkept(IF stored = "fails" THEN "task_record_persistence_failed" ELSE "task_record_conflict",
                                "completion")
           record == IF kept THEN "kept" ELSE IF takes THEN "unwritten" ELSE "refused"
           envelope == CASE kept -> [last EXCEPT !.earlier = <<>>]
                         [] ~kept /\ Failed(last) -> Unwritten(last)
                         [] OTHER -> Explained(Referring(EnvelopeOf(error), "record"), 0)
           u == task'
<1>1. TaskFits(t) /\ t.at = "done"
  BY DEF Close
<1>2. /\ IsTask(t) /\ t.again \in BOOLEAN /\ t.n \in Nat /\ t.n # 0 /\ t.most \in Nat /\ t.n <= t.most
      /\ Succeeds(t) \/ \E k, r : FailsFor(t, k, r)
  BY <1>1 DEF TaskFits, Begins, AwaitsRetry
<1>3. u = [t EXCEPT !.at = "closed", !.record = record, !.envelope = envelope]
  BY DEF Close
<1> HIDE DEF record, envelope, u
<1>4. /\ IsTask(u) /\ u.at = "closed" /\ u.record = record /\ u.envelope = envelope /\ SameStoryAs(u, t)
  BY <1>2, <1>3, TaskFields DEF IsTask, SameStoryAs
<1>5. u.record = "refused" => ~takes
  BY <1>4 DEF record
<1>6. u.record = "kept" <=> kept
  BY <1>4 DEF record
<1> HIDE DEF takes
<1>7. IsExplained(u)
  <2>1. ASSUME NEW k, NEW r, FailsFor(t, k, r) PROVE IsExplained(u)
    <3>1. Story(t, k, r, t.n) /\ Blames(t.envelope, t, k, t.n)
      BY <2>1 DEF FailsFor
    <3>2. Failed(t.envelope)
      BY <3>1, ErrorsFail DEF Failed, Blames
    <3>3. Blames(last, t, k, t.n)
      <4>1. Blames(Explained(Referring(t.envelope, "record"), 0), t, k, t.n)
        BY <3>1, ReferredBlames
      <4> QED BY <3>2, <4>1
    <3> HIDE DEF last
    <3>4. Failed(last) /\ IsEnvelope(last)
      BY <3>3, ErrorsFail DEF Failed, Blames
    <3>5. /\ envelope.error = last.error /\ envelope.signal = last.signal /\ envelope.metrics = last.metrics
          /\ \/ envelope.logs = last.logs
             \/ \E other : other.type = "observability_write_failed" /\ envelope.logs = Append(last.logs, other)
      <4>1. CASE kept
        <5>1. envelope = [last EXCEPT !.earlier = <<>>]
          BY <4>1 DEF envelope
        <5>2. /\ envelope.error = last.error /\ envelope.signal = last.signal /\ envelope.metrics = last.metrics
              /\ envelope.logs = last.logs
          BY <3>4, <5>1, EnvelopeFields
        <5> QED BY <5>2
      <4>2. CASE ~kept
        <5>1. envelope = Unwritten(last)
          BY <3>4, <4>2 DEF envelope
        <5> DEFINE other == [id |-> Id("observability_write_failed", "", "", 0), type |-> "observability_write_failed",
                             signal |-> last.signal.id, phase |-> "", refs |-> last.refs]
                   logs == Append(last.logs, other)
        <5>2. envelope = [last EXCEPT !.logs = logs]
          BY <5>1 DEF Unwritten
        <5>3. other.type = "observability_write_failed"
          OBVIOUS
        <5> HIDE DEF other, logs
        <5>4. /\ envelope.error = last.error /\ envelope.signal = last.signal /\ envelope.metrics = last.metrics
              /\ envelope.logs = logs
          BY <3>4, <5>2, EnvelopeFields
        <5>5. envelope.logs = Append(last.logs, other)
          BY <5>4 DEF logs
        <5> QED BY <5>3, <5>4, <5>5
      <4> QED BY <4>1, <4>2
    <3>6. u.record = "refused" => ~RecordTakes(last)
      BY <1>5 DEF takes
    <3> QED BY <1>2, <1>4, <2>1, <3>3, <3>5, <3>6, FailureIsClosed
  <2>2. ASSUME Succeeds(t) PROVE IsExplained(u)
    <3>1. ~Failed(t.envelope) /\ IsEnvelope(t.envelope)
      BY <2>2 DEF Succeeds, Failed
    <3>2. last = t.envelope
      BY <3>1
    <3> HIDE DEF last
    <3>3. ~Failed(u.envelope) \/ (FailureIsTold(u.envelope) /\ u.record # "kept")
      <4>1. CASE kept
        <5>1. envelope = [t.envelope EXCEPT !.earlier = <<>>]
          BY <3>2, <4>1 DEF envelope
        <5>2. envelope.error = t.envelope.error
          BY <3>1, <5>1, EnvelopeFields
        <5> QED BY <1>4, <3>1, <5>2 DEF Failed
      <4>2. CASE ~kept
        <5>1. envelope = Explained(Referring(EnvelopeOf(error), "record"), 0)
          BY <3>1, <3>2, <4>2 DEF envelope
        <5>2. IsError(error)
          BY DEF IsError, Error, NoDetails, Unkept
        <5> HIDE DEF error
        <5>3. FailureIsTold(envelope)
          BY <5>1, <5>2, BareEnvelope, BareIsTold
        <5> QED BY <1>4, <1>6, <4>2, <5>3
      <4> QED BY <4>1, <4>2
    <3>4. u.record = "refused" => ~RecordTakes(t.envelope)
      BY <1>5, <3>2 DEF takes
    <3> QED BY <1>2, <1>4, <2>2, <3>3, <3>4, SuccessIsClosed
  <2> QED BY <1>2, <2>1, <2>2
<1>8. u.again = t.again
  BY <1>4 DEF SameStoryAs
<1> QED BY <1>2, <1>4, <1>7, <1>8 DEF TaskFits, u

\* Before the first attempt has ended there is nothing to tell.
LEMMA EmptyStory ==
  ASSUME NEW t, t.signals = <<>>, t.logs = <<>>, t.metrics = <<>>, t.errors = <<>>, RefsFit(t.refs, t.events, 0)
  PROVE  Story(t, 0, 0, 0)
<1>1. IsList(<<>>) /\ Len(<<>>) = 0 /\ 1..0 = {} /\ 0 \in Nat
  BY DEF IsList
<1>2. LogsFit(t.logs, t.refs, t.signals, 0, 0) /\ MetricsFit(t.metrics, 0, 0) /\ SignalsFit(t.signals, t.errors, 0, 0)
  BY <1>1 DEF LogsFit, MetricsFit, SignalsFit
<1>3. Honest(t.refs, t.errors, 0)
  BY <1>1 DEF Honest
<1> QED BY <1>1, <1>2, <1>3 DEF Story

\* Nothing has ended yet.
LEMMA NoRefsFit == RefsFit(<<>>, <<>>, 0)
<1>1. IsList(<<>>) /\ Len(<<>>) = 0 /\ 1..0 = {}
  BY DEF IsList
<1> QED BY <1>1 DEF RefsFit

\* A task that begins keeps the invariant.
LEMMA BegunFits ==
  ASSUME NEW again \in BOOLEAN, NEW leased, NEW most \in 1..MaxAttempts
  PROVE  TaskFits(Begun(again, leased, most))
<1> DEFINE t == Begun(again, leased, most)
<1>1. /\ IsTask(t) /\ t.again = again /\ t.most = most /\ t.n = 1 /\ t.at = "attempt"
      /\ t.signals = <<>> /\ t.logs = <<>> /\ t.metrics = <<>> /\ t.errors = <<>> /\ t.refs = <<>> /\ t.events = <<>>
  <2> DEFINE e == EnvelopeOf(NoError)
  <2> HIDE DEF e
  <2>1. \A x : LET u == [again |-> again, leased |-> leased, most |-> most, n |-> 1, at |-> "attempt", refs |-> <<>>,
                         events |-> <<>>, signals |-> <<>>, logs |-> <<>>, metrics |-> <<>>, envelope |-> x,
                         record |-> "running", errors |-> <<>>]
               IN /\ IsTask(u) /\ u.again = again /\ u.most = most /\ u.n = 1 /\ u.at = "attempt"
                  /\ u.signals = <<>> /\ u.logs = <<>> /\ u.metrics = <<>> /\ u.errors = <<>> /\ u.refs = <<>>
                  /\ u.events = <<>>
    BY DEF IsTask
  <2> QED BY <2>1 DEF Begun
<1> HIDE DEF t
<1>2. Story(t, 0, 0, 0)
  BY <1>1, NoRefsFit, EmptyStory
<1>3. Begins(t)
  <2>1. t.n - 1 = 0
    BY <1>1
  <2> QED BY <1>1, <1>2, <2>1 DEF Begins
<1>4. most \in Nat /\ 1 <= most /\ 1 \in Nat /\ 1 # 0
  BY MostAssumption
<1> QED BY <1>1, <1>3, <1>4 DEF TaskFits, t

\* A task that is refused.
TurnedAway(refs, events, envelope) ==
  [again |-> FALSE, leased |-> FALSE, most |-> 1, n |-> 0, at |-> "closed", refs |-> refs, events |-> events,
   signals |-> <<>>, logs |-> <<>>, metrics |-> <<>>, envelope |-> envelope, record |-> "none", errors |-> <<>>]

\* It is explained if its envelope tells of the failure.
LEMMA RefusalFits ==
  ASSUME NEW refs, NEW events, NEW envelope, RefsFit(refs, events, 0), FailureIsTold(envelope)
  PROVE  TaskFits(TurnedAway(refs, events, envelope))
<1> DEFINE t == TurnedAway(refs, events, envelope)
<1>1. /\ IsTask(t) /\ t.again = FALSE /\ t.most = 1 /\ t.n = 0 /\ t.at = "closed" /\ t.record = "none"
      /\ t.signals = <<>> /\ t.logs = <<>> /\ t.metrics = <<>> /\ t.errors = <<>>
      /\ t.refs = refs /\ t.events = events /\ t.envelope = envelope
  BY DEF TurnedAway, IsTask
<1> HIDE DEF t
<1>2. Story(t, 0, 0, 0)
  BY <1>1, EmptyStory
<1>3. AttemptsAreTold(t)
  BY <1>1, <1>2, StoryIsTold
<1>4. ~FailedItself(t)
  BY <1>1 DEF FailedItself
<1>5. RecordAgrees(t)
  BY <1>1 DEF RecordAgrees
<1>6. IsExplained(t)
  BY <1>1, <1>3, <1>4, <1>5 DEF IsExplained, LastErrorIsBlamed
<1> QED BY <1>1, <1>6 DEF TaskFits, t

\* What a task is before its first attempt.
LEMMA BegunFields ==
  LET t == Begun(FALSE, FALSE, 1)
  IN /\ IsTask(t) /\ t.again = FALSE /\ t.leased = FALSE /\ t.most = 1
     /\ t.signals = <<>> /\ t.logs = <<>> /\ t.metrics = <<>> /\ t.errors = <<>>
     /\ t.refs = <<>> /\ t.events = <<>>
<1> DEFINE e == EnvelopeOf(NoError)
           t == Begun(FALSE, FALSE, 1)
           begun == [again |-> FALSE, leased |-> FALSE, most |-> 1, n |-> 1, at |-> "attempt", refs |-> <<>>,
                     events |-> <<>>, signals |-> <<>>, logs |-> <<>>, metrics |-> <<>>, envelope |-> e,
                     record |-> "running", errors |-> <<>>]
<1>1. t = begun
  BY DEF Begun
<1> HIDE DEF e, t
<1>2. /\ IsTask(t) /\ t.again = FALSE /\ t.leased = FALSE /\ t.most = 1
      /\ t.signals = <<>> /\ t.logs = <<>> /\ t.metrics = <<>> /\ t.errors = <<>>
      /\ t.refs = <<>> /\ t.events = <<>>
  BY <1>1 DEF IsTask
<1> QED BY <1>2 DEF t

\* A task that is refused for its record has no references ...
LEMMA BegunIsTurnedAway ==
  ASSUME NEW envelope
  PROVE  [Begun(FALSE, FALSE, 1) EXCEPT !.n = 0, !.at = "closed", !.record = "none", !.envelope = envelope]
           = TurnedAway(<<>>, <<>>, envelope)
<1> DEFINE t == Begun(FALSE, FALSE, 1)
<1>2. /\ IsTask(t) /\ t.again = FALSE /\ t.leased = FALSE /\ t.most = 1
      /\ t.signals = <<>> /\ t.logs = <<>> /\ t.metrics = <<>> /\ t.errors = <<>>
      /\ t.refs = <<>> /\ t.events = <<>>
  BY BegunFields
<1> HIDE DEF t
<1>3. [t EXCEPT !.n = 0, !.at = "closed", !.record = "none", !.envelope = envelope] = TurnedAway(<<>>, <<>>, envelope)
  <2> DEFINE v == [t EXCEPT !.n = 0, !.at = "closed", !.record = "none", !.envelope = envelope]
  <2>1. v = [t EXCEPT !.n = 0, !.at = "closed", !.record = "none", !.envelope = envelope]
    OBVIOUS
  <2> HIDE DEF v
  <2>2. /\ IsTask(v) /\ v.again = FALSE /\ v.leased = FALSE /\ v.most = 1 /\ v.n = 0 /\ v.at = "closed"
        /\ v.record = "none" /\ v.signals = <<>> /\ v.logs = <<>> /\ v.metrics = <<>> /\ v.errors = <<>>
        /\ v.refs = <<>> /\ v.events = <<>> /\ v.envelope = envelope
    BY <1>2, <2>1, TaskFields DEF IsTask
  <2> QED BY <2>2 DEF IsTask, TurnedAway, v
<1> QED BY <1>3 DEF t

\* Nothing of a task before its first attempt, but that it is closed.
IsBegun(t) ==
  /\ IsTask(t) /\ t.again = FALSE /\ t.leased = FALSE /\ t.most = 1
  /\ t.signals = <<>> /\ t.logs = <<>> /\ t.metrics = <<>> /\ t.errors = <<>>
  /\ t.refs = <<>> /\ t.events = <<>>

\* Its events are the references.
Roomless(t, refs, events) == [t EXCEPT !.n = 0, !.refs = refs, !.events = events]
TurnAway(t, envelope) == [t EXCEPT !.at = "closed", !.record = "none", !.envelope = envelope]

\* ... and one that finds no room has one to the event.
LEMMA WithoutRoom ==
  ASSUME NEW t, IsBegun(t), NEW refs, NEW events, NEW envelope
  PROVE  LET u == Roomless(t, refs, events)
         IN /\ TurnAway(u, envelope) = TurnedAway(refs, events, envelope)
            /\ u.logs = <<>> /\ u.metrics = <<>>
<1> DEFINE u == Roomless(t, refs, events)
<1>2. /\ IsTask(t) /\ t.again = FALSE /\ t.leased = FALSE /\ t.most = 1
      /\ t.signals = <<>> /\ t.logs = <<>> /\ t.metrics = <<>> /\ t.errors = <<>>
      /\ t.refs = <<>> /\ t.events = <<>>
  BY DEF IsBegun
<1>4. /\ IsTask(u) /\ u.again = FALSE /\ u.leased = FALSE /\ u.most = 1
      /\ u.signals = <<>> /\ u.logs = <<>> /\ u.metrics = <<>> /\ u.errors = <<>>
      /\ u.refs = refs /\ u.events = events /\ u.n = 0
  <2>1. u = [t EXCEPT !.n = 0, !.refs = refs, !.events = events]
    BY DEF Roomless
  <2> HIDE DEF u
  <2> QED BY <1>2, <2>1, TaskFields DEF IsTask
<1> HIDE DEF u
<1>5. TurnAway(u, envelope) = TurnedAway(refs, events, envelope)
  <2> DEFINE v == TurnAway(u, envelope)
  <2>1. v = [u EXCEPT !.at = "closed", !.record = "none", !.envelope = envelope]
    BY DEF TurnAway
  <2> HIDE DEF v
  <2>2. /\ IsTask(v) /\ v.again = FALSE /\ v.leased = FALSE /\ v.most = 1 /\ v.n = 0 /\ v.at = "closed"
        /\ v.record = "none" /\ v.signals = <<>> /\ v.logs = <<>> /\ v.metrics = <<>> /\ v.errors = <<>>
        /\ v.refs = refs /\ v.events = events /\ v.envelope = envelope
    BY <1>4, <2>1, TaskFields DEF IsTask
  <2> QED BY <2>2 DEF IsTask, TurnedAway, v
<1> QED BY <1>4, <1>5 DEF u

\* A task without a record keeps the invariant ...
LEMMA UnstartedFits ==
  ASSUME NEW code, NEW at
  PROVE  TaskFits(Unstarted(code, at))
<1> DEFINE error == Unkept(code, at)
           bare == IF at = "running" THEN Referring(EnvelopeOf(error), "record") ELSE EnvelopeOf(error)
           x == Explained(bare, 0)
           t == Unstarted(code, at)
<1>1. IsError(error)
  BY DEF IsError, Error, NoDetails, Unkept
<1>2. FailureIsTold(x)
  <2> HIDE DEF error
  <2>1. IsEnvelope(bare) /\ IsError(bare.error) /\ bare.logs = <<>> /\ bare.metrics = <<>>
    BY <1>1, BareEnvelope
  <2> HIDE DEF bare
  <2> QED BY <2>1, BareIsTold
<1>3. t = TurnedAway(<<>>, <<>>, x)
  <2>1. t = [Begun(FALSE, FALSE, 1) EXCEPT !.n = 0, !.at = "closed", !.record = "none", !.envelope = x]
    BY DEF Unstarted
  <2> HIDE DEF x, t
  <2> QED BY <2>1, BegunIsTurnedAway
<1> HIDE DEF x, t
<1>4. TaskFits(TurnedAway(<<>>, <<>>, x))
  BY <1>2, NoRefsFit, RefusalFits
<1> QED BY <1>3, <1>4 DEF t

\* ... and so does one at the limit.
LEMMA AtTheLimitFits == TaskFits(AtTheLimit)
<1> DEFINE event == ControlEvent("admission_concurrency_rejected", 0)
           error == Error("invalid_input", "concurrency_limit_exceeded",
                          [NoDetails EXCEPT !.ref = "none", !.stage = "pre_admission", !.event = event.says])
           before == [Begun(FALSE, FALSE, 1) EXCEPT !.n = 0, !.refs = <<event>>, !.events = <<event>>]
           e == Explained(EnvelopeOf(error), 0)
           x == Observed(e, before)
           t == AtTheLimit
<1>1. t = [before EXCEPT !.at = "closed", !.record = "none", !.envelope = x]
  BY DEF AtTheLimit
<1>2. IsError(error)
  BY CoreErrors
<1>3. event.kind = "event" /\ event.json
  BY DEF ControlEvent
<1> HIDE DEF error, event
<1>4. /\ IsEnvelope(e) /\ IsError(e.error) /\ e.logs = <<FailureLog(e)>> /\ e.metrics = <<FailureSample(e)>>
  BY <1>2, BareEnvelope, BareIsTold
<1> HIDE DEF e
<1>5. /\ TurnAway(before, x) = TurnedAway(<<event>>, <<event>>, x)
      /\ before.logs = <<>> /\ before.metrics = <<>>
  <2> DEFINE begun == Begun(FALSE, FALSE, 1)
             list == <<event>>
  <2>1. IsBegun(begun) /\ before = Roomless(begun, list, list)
    BY BegunFields DEF IsBegun, Roomless
  <2> HIDE DEF begun, before, list, x
  <2>2. /\ TurnAway(before, x) = TurnedAway(list, list, x)
        /\ before.logs = <<>> /\ before.metrics = <<>>
    BY <2>1, WithoutRoom
  <2> QED BY <2>2 DEF list
<1>6. ObservedFits(x, e, before)
  BY <1>4, ObservedFails
<1> HIDE DEF x
<1>7. FailureIsTold(x)
  <2>1. x.signal.id = SignalId(x)
    BY <1>6 DEF ObservedFits
  <2>2. /\ x.logs = Append(OfTypes(<<FailureLog(e)>>, KeptLogs), FailureLog(x))
        /\ x.metrics = Append(OfTypes(<<FailureSample(e)>>, KeptMetrics), FailureSample(x))
    <3> HIDE DEF before
    <3> QED BY <1>4, <1>5, <1>6 DEF ObservedFits
  <2>3. \A y : Append(<<>>, y) = <<y>>
    OBVIOUS
  <2>4. x.logs = <<FailureLog(x)>> /\ x.metrics = <<FailureSample(x)>>
    BY <2>2, <2>3, NothingKept
  <2> QED BY <2>1, <2>4, ToldAlone
<1>8. t = TurnedAway(<<event>>, <<event>>, x)
  <2> HIDE DEF t, before
  <2> QED BY <1>1, <1>5 DEF TurnAway
<1> HIDE DEF t, before
<1>9. RefsFit(<<event>>, <<event>>, 0)
  <2>1. RefsFit(Append(<<>>, event), <<event>>, 0)
    BY <1>3, NoRefsFit, EventRefs
  <2>2. Append(<<>>, event) = <<event>>
    OBVIOUS
  <2> QED BY <2>1, <2>2
<1>10. TaskFits(TurnedAway(<<event>>, <<event>>, x))
  BY <1>7, <1>9, RefusalFits
<1> QED BY <1>8, <1>10 DEF t

-----------------------------------------------------------------------------
(* The task: the inductive invariant *)

TaskInv == task # None => TaskFits(task)

\* The steps of a task keep the invariant ...
LEMMA TryFits ==
  ASSUME TaskInv, TaskNext
  PROVE  TaskFits(task')
<1>1. CASE Attempting /\ (AdapterSucceeds \/ TimesOut \/ LeaseFails \/ Hangs \/ \E error \in Failures : AdapterFails(error))
  <2>1. TaskFits(task) /\ task.at = "attempt"
    BY <1>1 DEF Attempting, TaskInv
  <2>2. CASE AdapterSucceeds
    BY <2>1, <2>2, SucceedsFits DEF AdapterSucceeds
  <2>3. CASE Hangs
    BY <2>1, <2>3, HangFits DEF Hangs
  <2>4. ASSUME NEW error, IsError(error), NEW core \in BOOLEAN, core => error.category = "platform", NEW traced \in BOOLEAN,
               task' = Finished(task, EnvelopeOf(error), core, traced)
        PROVE  TaskFits(task')
    BY <2>1, <2>4, FinishedFails
  <2>5. CASE TimesOut
    <3>1. IsError(Timeout) /\ Timeout.category = "platform"
      BY FailuresAreErrors DEF Timeout, Error
    <3> QED BY <2>4, <2>5, <3>1 DEF TimesOut
  <2>6. CASE LeaseFails
    <3>1. IsError(NoResource)
      BY FailuresAreErrors
    <3> QED BY <2>4, <2>6, <3>1 DEF LeaseFails
  <2>7. ASSUME NEW error \in Failures, AdapterFails(error) PROVE TaskFits(task')
    <3>1. IsError(error)
      BY FailuresAreErrors
    <3> QED BY <2>4, <2>7, <3>1 DEF AdapterFails
  <2> QED BY <1>1, <2>2, <2>3, <2>5, <2>6, <2>7
<1>2. CASE Retry \/ RetryRejected
  <2>1. TaskFits(task) /\ task.at = "waiting"
    BY <1>2 DEF Retry, RetryRejected, Waiting, TaskInv
  <2> QED BY <1>2, <2>1, WaitingFits DEF Retry, RetryRejected
<1>3. ASSUME NEW stored, Close(stored) PROVE TaskFits(task')
  BY <1>3, CloseFits DEF TaskInv
<1> QED BY <1>1, <1>2, <1>3 DEF TaskNext, AdapterSucceeds, TimesOut, LeaseFails, Hangs, AdapterFails

\* ... and no other step touches the task.
LEMMA TaskStep ==
  ASSUME TaskInv, [Next]_vars
  PROVE  TaskInv'
<1>1. CASE Undertake
  <2>1. TaskFits(task')
    <3>1. CASE task' = AtTheLimit
      BY <3>1, AtTheLimitFits
    <3>2. ASSUME NEW code, NEW at, task' = Unstarted(code, at) PROVE TaskFits(task')
      BY <3>2, UnstartedFits
    <3>3. ASSUME NEW again \in BOOLEAN, NEW leased, NEW most \in 1..MaxAttempts, task' = Begun(again, leased, most)
          PROVE  TaskFits(task')
      BY <3>3, BegunFits
    <3> DEFINE again == request.operation = "content_detail_by_url"
               leased == response.reply.slots # {}
    <3>4. \/ task' = AtTheLimit
          \/ \E code \in {"task_record_persistence_failed", "task_record_conflict"}, at \in {"accepted", "running"} :
               task' = Unstarted(code, at)
          \/ \E most \in 1..MaxAttempts : task' = Begun(again, leased, most)
      BY <1>1 DEF Undertake
    <3>5. again \in BOOLEAN
      OBVIOUS
    <3> HIDE DEF again, leased
    <3> QED BY <3>1, <3>2, <3>3, <3>4, <3>5
  <2> QED BY <2>1 DEF TaskInv
<1>2. CASE Try
  BY <1>2, TryFits DEF Try, TaskInv
<1>3. CASE UNCHANGED task
  BY <1>3 DEF TaskInv
<1>4. Undertake \/ Try \/ UNCHANGED task
  BY DEF Next, vars, reading, Contribute, DecideOn, RegisterDecided, RegisterOthers, SubmitRequest, Execute, Read, Fetch,
         Govern, Rehearse, Alter, DecideRelease, RunCases, Certify
<1> QED BY <1>1, <1>2, <1>3, <1>4

\* Wherever a task stands, its envelope, log, metrics and signals fit its attempts.
THEOREM TaskInvariance == Spec => []TaskInv
<1>1. Init => TaskInv
  BY DEF Init, FailuresInit, TaskInv
<1>2. TaskInv /\ [Next]_vars => TaskInv'
  BY TaskStep
<1> QED BY <1>1, <1>2, PTL DEF Spec

\* Whatever becomes of a task's attempts and of its record, a task that failed says why.
THEOREM FailuresExplained == Spec => []FailuresAreExplained
<1>1. TaskInv => FailuresAreExplained
  <2> SUFFICES ASSUME TaskFits(task), task.at = "closed" PROVE IsExplained(task)
    BY DEF TaskInv, FailuresAreExplained, FailureIsExplained
  <2> QED BY DEF TaskFits, Begins, AwaitsRetry, Succeeds, FailsFor
<1> QED BY <1>1, TaskInvariance, PTL
=============================================================================
