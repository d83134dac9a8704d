------------------------------ MODULE MCReleasePath ------------------------------
(* Valid arguments of every step, and arguments with one or two defects.         *)
EXTENDS ReleasePath

-----------------------------------------------------------------------------
(* Good answers of each kind, and answers with a defect, for the reader's questions *)

\* What an edit of one field makes of a good value.
Edited(good, edits) == {[good EXCEPT ![e[1]] = e[2]] : e \in edits}
Fields(name, values) == {<<name, v>> : v \in values}

Trace(q) == [sound |-> TRUE, adapter |-> q.adapter, path |-> "provider", profile |-> None, at |-> "utc",
             evidence |-> "evidence"]
OddTraces(q) ==
  Edited(Trace(q), Fields("sound", {FALSE}) \cup Fields("adapter", {"", "ghost"})
                     \cup Fields("path", {"session", "bucket"}) \cup Fields("profile", {"", "session", "profile"})
                     \cup Fields("at", {"offset", "bad"}) \cup Fields("evidence", {"", "https://"}))

Hints == {[lease |-> l, status |-> s, reason |-> r] :
            l \in {"own", "other"}, s \in {"AVAILABLE", "IN_USE"}, r \in {"", "reason"}}

Target(q) == [sound |-> TRUE, operation |-> q.operation, type |-> TargetType(q.operation), ref |-> q.ref]
OddTargets(q) ==
  Edited(Target(q), Fields("sound", {FALSE}) \cup Fields("operation", {"", "content_detail_by_url"})
                      \cup Fields("type", {"", "url"}) \cup Fields("ref", {"", "other"}))

-----------------------------------------------------------------------------
(* Pages *)

Next1(q) == [sound |-> TRUE, token |-> "next", target |-> q.ref, thread |-> None]
NextIn(q, c) == [Next1(q) EXCEPT !.thread = c]
OddNexts(q) ==
  Edited(Next1(q), Fields("sound", {FALSE}) \cup Fields("token", {"", " ", "https://", "a/b"})
                     \cup Fields("target", {"", "other"}) \cup Fields("thread", {""}))

PageOf(q, list, next) ==
  [sound |-> TRUE, operation |-> q.operation, target |-> Target(q), items |-> list, more |-> next # None,
   next |-> next, status |-> IF list = <<>> THEN "empty" ELSE "complete",
   class |-> IF list = <<>> THEN "empty_result" ELSE IF q.operation = Comments THEN "success" ELSE "rate_limited",
   raw |-> "raw", trace |-> Trace(q), audit |-> "plain", json |-> TRUE, hint |-> None]

OddPages(q, page) ==
  Edited(page, Fields("sound", {FALSE}) \cup Fields("operation", {"content_detail_by_url"})
                 \cup Fields("target", OddTargets(q)) \cup Fields("next", OddNexts(q))
                 \cup Fields("more", {~page.more}) \cup Fields("raw", {"", "bucket"})
                 \cup Fields("trace", OddTraces(q)) \cup Fields("audit", {None, "private"})
                 \cup Fields("json", {FALSE}) \cup Fields("hint", {CHOOSE h \in Hints : TRUE}))
    \cup {[page EXCEPT !.status = s, !.class = c, !.more = FALSE, !.next = None] :
            s \in PageStatuses \cup {"other"},
            c \in {"success", "empty_result", "parse_failed", "partial_result", "rate_limited", "other"}}

Hit(q, key) == [sound |-> TRUE, key |-> key, raw |-> "raw", trace |-> Trace(q)]
OddHits(q) ==
  Edited(Hit(q, "k1"), Fields("sound", {FALSE}) \cup Fields("key", {""}) \cup Fields("raw", {"", "bucket"})
                           \cup Fields("trace", OddTraces(q)))

Lists(q) ==
  {PageOf(q, list, next) : list \in {<<>>, <<Hit(q, "k1")>>, <<Hit(q, "k1"), Hit(q, "k2")>>,
                                      <<Hit(q, "k1"), Hit(q, "k1")>>},
                           next \in {None, Next1(q), NextIn(q, "c1")}}
    \cup {PageOf(q, <<i>>, None) : i \in OddHits(q)}
    \cup OddPages(q, PageOf(q, <<Hit(q, "k1")>>, Next1(q))) \cup OddPages(q, PageOf(q, <<>>, None))

-----------------------------------------------------------------------------
(* Comments: c1 and c2 at the top, c3 in answer to c1, c4 and c5 in answer to c3 *)

ReplyCursor(q, c) == [sound |-> TRUE, token |-> "replies", target |-> q.ref, thread |-> c]

Comment(q, c, root, parent, target, reply) ==
  [sound |-> TRUE, key |-> c, raw |-> "raw", trace |-> Trace(q), type |-> "comment", visibility |-> "visible",
   sameId |-> TRUE, placeholder |-> "none", canonical |-> c, root |-> root, parent |-> parent, target |-> target,
   reply |-> reply]

Top(q, c) == Comment(q, c, c, None, None, ReplyCursor(q, c))
First(q) == Comment(q, "c3", "c1", "c1", None, ReplyCursor(q, "c3"))
Nested(q) == Comment(q, "c4", "c1", "c3", "c5", None)

OddComments(q) ==
  Edited(Top(q, "c1"),
         Fields("sound", {FALSE}) \cup Fields("key", {""}) \cup Fields("raw", {"bucket"}) \cup Fields("type", {"post"})
           \cup Fields("visibility", {"deleted", "hidden"}) \cup Fields("sameId", {FALSE})
           \cup Fields("placeholder", {"both", "one"}) \cup Fields("canonical", {"", "c2"}) \cup Fields("root", {"c2"})
           \cup Fields("target", {"c2"}) \cup Fields("trace", {[Trace(q) EXCEPT !.adapter = "ghost"]})
           \cup Fields("reply", {None, [ReplyCursor(q, "c1") EXCEPT !.token = " "],
                                 [ReplyCursor(q, "c1") EXCEPT !.target = "other"], ReplyCursor(q, "c2")}))
    \cup Edited(First(q), Fields("parent", {"c3", "c2", ""}) \cup Fields("target", {"c1", "c2"}))
    \cup Edited(Nested(q), Fields("parent", {"c4"}) \cup Fields("target", {None, "c1", "c3", "c4"}))

CommentLists(q) ==
  {<<>>, <<Top(q, "c1")>>, <<Top(q, "c2"), Top(q, "c1")>>, <<First(q)>>, <<Nested(q)>>, <<First(q), Nested(q)>>,
   <<Top(q, "c1"), First(q)>>, <<Top(q, "c1"), Top(q, "c1")>>}

CommentPages(q) ==
  {PageOf(q, list, next) : list \in CommentLists(q),
                           next \in {None, Next1(q), NextIn(q, "c1"), NextIn(q, "c2"), NextIn(q, "c3")}}
    \cup {[PageOf(q, <<i>>, None) EXCEPT !.status = "partial_result", !.class = "parse_failed"] :
            i \in {Top(q, "c1"), First(q)}}
    \cup {PageOf(q, <<i>>, None) : i \in OddComments(q)}
    \cup OddPages(q, PageOf(q, <<First(q)>>, NextIn(q, "c1"))) \cup OddPages(q, PageOf(q, <<>>, None))

-----------------------------------------------------------------------------
(* Creators *)

Face == [sound |-> TRUE, creator |-> "creator", canonical |-> "canonical", name |-> "name", avatar |-> None,
         counts |-> {0, 1}]
Person(q) ==
  [sound |-> TRUE, operation |-> q.operation, target |-> Target(q) @@ [policy |-> None], status |-> "complete",
   class |-> None, raw |-> "raw", trace |-> Trace(q), audit |-> {}, profile |-> Face, json |-> TRUE, hint |-> None]
Nobody(q, status, class) == [Person(q) EXCEPT !.status = status, !.class = class, !.profile = None]

Creators(q) ==
  {Person(q)}
    \cup Edited(Person(q),
           Fields("sound", {FALSE}) \cup Fields("operation", {"content_detail_by_url"})
             \cup Fields("target", {t @@ [policy |-> None] : t \in OddTargets(q)}
                                     \cup {Target(q) @@ [policy |-> r] : r \in {"session", "policy", ""}})
             \cup Fields("class", {"rate_limited"}) \cup Fields("raw", {None, "", "bucket"})
             \cup Fields("trace", OddTraces(q)) \cup Fields("audit", {{"audit"}}) \cup Fields("json", {FALSE})
             \cup Fields("hint", {CHOOSE h \in Hints : TRUE})
             \cup Fields("profile", {None} \cup Edited(Face,
                    Fields("sound", {FALSE}) \cup Fields("creator", {"session", ""}) \cup Fields("canonical", {"https://"})
                      \cup Fields("name", {""}) \cup Fields("avatar", {"avatar", "session"}) \cup Fields("counts", {{0 - 1}}))))
    \cup {Nobody(q, s, c) : s \in {"unavailable", "failed", "other"},
                            c \in CreatorUnavailable \cup CreatorFailed \cup {None}}
    \cup {[Nobody(q, "failed", c) EXCEPT !.raw = None, !.trace.path = path] :
            c \in {"provider_or_network_blocked", "rate_limited"}, path \in {BlockedAlias, "provider"}}

-----------------------------------------------------------------------------
(* Media assets *)

Policy(mode, types, download, max) ==
  [sound |-> TRUE, mode |-> mode, types |-> types, download |-> download, max |-> max]
Lenient == [DefaultPolicy EXCEPT !.mode = "download_if_allowed", !.download = TRUE]

Policies ==
  {Lenient, Policy("preserve_source_ref", <<"image">>, FALSE, None), Policy("download_if_allowed", <<"image">>, FALSE, 1)}
    \cup {Policy("download_required", <<"image", "video">>, d, m) : d \in BOOLEAN, m \in {None, 0, 1}}

Facts(bytes) == [bytes |-> bytes, digest |-> "digest", family |-> "sha"]
AuditOf(bytes) == Facts(bytes) @@ [sound |-> TRUE, transfer |-> TRUE]

Asset(q, content, facts) ==
  [sound |-> TRUE, source |-> "source", canonical |-> "canonical", content |-> content,
   lineage |-> [input |-> q.ref, source |-> "source", canonical |-> "canonical", status |-> "preserved"],
   resolved |-> None, metadata |-> [sound |-> TRUE, facts |-> facts]]

Fetched(q, policy, content, outcomeOf, bytes) ==
  LET facts == IF bytes = None THEN None ELSE Facts(bytes)
  IN [sound |-> TRUE, operation |-> q.operation, target |-> Target(q) @@ [policy |-> None], content |-> content,
      policy |-> policy, outcome |-> outcomeOf, status |-> "complete", class |-> None, raw |-> "raw", trace |-> Trace(q),
      media |-> Asset(q, content, facts), audit |-> IF bytes = None THEN None ELSE AuditOf(bytes), json |-> TRUE,
      hint |-> None]

Unfetched(q, content, status, class, raw, path) ==
  [Fetched(q, PolicyOf(q), content, None, None) EXCEPT
     !.status = status, !.class = class, !.media = None, !.raw = raw, !.trace.path = path]

\* The outcome that the policy is about.
Natural(policy, content) ==
  CASE policy.mode = "metadata_only" -> <<"metadata_only", None>>
    [] policy.mode = "preserve_source_ref" -> <<"source_ref_preserved", None>>
    [] OTHER -> <<"downloaded_bytes", IF policy.max = 0 THEN 0 ELSE 1>>

OddFetched(q, good) ==
  LET media == good.media
  IN Edited(good,
       Fields("sound", {FALSE}) \cup Fields("operation", {"content_detail_by_url"})
         \cup Fields("target", {t @@ [policy |-> None] : t \in OddTargets(q)}
                                 \cup {Target(q) @@ [policy |-> r] : r \in {"bucket", "policy"}})
         \cup Fields("content", {"", "unknown"}) \cup Fields("policy", {None, [good.policy EXCEPT !.sound = FALSE]})
         \cup Fields("outcome", {None, "other"}) \cup Fields("class", {"rate_limited"})
         \cup Fields("raw", {None, "", "bucket"}) \cup Fields("trace", OddTraces(q)) \cup Fields("json", {FALSE})
         \cup Fields("hint", Hints)
         \cup Fields("audit", {None, AuditOf(1), AuditOf(2), [AuditOf(1) EXCEPT !.digest = "other"],
                               [AuditOf(1) EXCEPT !.transfer = FALSE], [AuditOf(1) EXCEPT !.family = "bucket"]})
         \cup Fields("media", {None} \cup Edited(media,
                Fields("sound", {FALSE}) \cup Fields("source", {"session", "other"}) \cup Fields("content", {"video"})
                  \cup Fields("resolved", {"resolved", "bucket"})
                  \cup Fields("lineage", {[media.lineage EXCEPT !.input = "other"], [media.lineage EXCEPT !.status = "lost"]})
                  \cup Fields("metadata", {None, [sound |-> FALSE, facts |-> None], [sound |-> TRUE, facts |-> None],
                                           [sound |-> TRUE, facts |-> [Facts(1) EXCEPT !.digest = ""]]}))))

Assets(q) ==
  LET policy == PolicyOf(q)
      natural == Natural(policy, "image")
  IN {Fetched(q, echo, content, o, None) : echo \in {policy, Lenient}, content \in {"image", "video", "unknown"},
                                           o \in FetchOutcomes \ {"downloaded_bytes"}}
       \cup {Fetched(q, echo, content, "downloaded_bytes", bytes) :
               echo \in {policy, Lenient}, content \in {"image", "video"}, bytes \in {0, 1, 2}}
       \cup {Unfetched(q, content, s, c, "raw", "provider") :
               content \in {"image", "video", "unknown"}, s \in {"unavailable", "failed"},
               c \in MediaUnavailable \cup MediaFailed \cup {None}}
       \cup {Unfetched(q, "image", "failed", c, raw, path) :
               c \in {"provider_or_network_blocked", "fetch_policy_denied"}, raw \in {None, "raw"},
               path \in {BlockedAlias, "provider"}}
       \cup {Unfetched(q, "unknown", "failed", "parse_failed", None, "provider")}
       \cup OddFetched(q, Fetched(q, policy, "image", natural[1], natural[2]))

-----------------------------------------------------------------------------
(* Posts *)

Post == [platform |-> "platform", id |-> "id", url |-> "url", type |-> "video", title |-> "", text |-> "",
         published |-> None, names |-> {"name"}, stats |-> {"count", "null"}, media |-> {}]
GoodPost == [hasRaw |-> TRUE, hasNormalized |-> TRUE, normalized |-> Post, json |-> TRUE, hint |-> None]
Posts ==
  {GoodPost}
    \cup Edited(GoodPost, Fields("hasRaw", {FALSE}) \cup Fields("hasNormalized", {FALSE}) \cup Fields("json", {FALSE}) \cup Fields("hint", Hints)
         \cup Fields("normalized", Edited(Post,
                Fields("platform", {"", None}) \cup Fields("id", {""}) \cup Fields("url", {None}) \cup Fields("type", {"audio"})
                  \cup Fields("title", {None}) \cup Fields("text", {None}) \cup Fields("published", {"utc", "bad"})
                  \cup Fields("names", {None, {}, {""}, {"missing"}}) \cup Fields("stats", {None, {"wrong"}})
                  \cup Fields("media", {None, {"missing"}}))))

-----------------------------------------------------------------------------
MCAnswersTo(q) ==
  CASE q.operation \in Searches -> Lists(q)
    [] q.operation = Comments -> CommentPages(q)
    [] q.operation = "creator_profile_by_id" -> Creators(q)
    [] q.operation = "media_asset_fetch_by_ref" -> Assets(q)
    [] OTHER -> Posts

\* Admitted cursors; a cursor of a comment collection comes from a page of another day.
MCFirstCursors(operation) ==
  LET about == [ref |-> "good"]
  IN {NoCursor(operation)}
       \cup CASE operation \in Searches -> {"next"}
              [] operation = Comments -> {[page |-> Next1(about), reply |-> None], [page |-> NextIn(about, "c1"), reply |-> None],
                                          [page |-> None, reply |-> ReplyCursor(about, "c1")]}
              [] operation = "media_asset_fetch_by_ref" -> Policies
              [] OTHER -> {}

-----------------------------------------------------------------------------
(* What the sources of the reference adapters answer: each kind of failure of an
   exchange, and objects with a post, another one or a defect *)

MCUrls == {"detail", "elsewhere", "malformed"}

Account1 == [map |-> TRUE, cookies |-> TRUE, agent |-> TRUE, timeout |-> "fine", tokens |-> TRUE, signer |-> TRUE]
MCMaterials ==
  {Account1, [Account1 EXCEPT !.timeout = "odd"]}
    \cup {[Account1 EXCEPT ![part] = FALSE] : part \in {"map", "cookies", "agent", "tokens", "signer"}}

\* Exchanges that bring no object.
Broken(kinds) == {[kind |-> k] : k \in kinds}
HttpFailures == Broken({"404", "http", "network", "stalled", "garbled", "text", "list"})
ScriptFailures == Broken({"garbled", "failed", "disabled", "text", "list"})

Signed(ok, data, json) == [kind |-> "object", ok |-> ok, data |-> data, json |-> json]
MCSigns ==
  HttpFailures \cup {Signed(TRUE, data, TRUE) : data \in {"none", "partial", "signed"}}
    \cup {Signed(FALSE, "none", json) : json \in BOOLEAN}

TabsOf(tabs) == [kind |-> "object", tabs |-> tabs]
MCTabs ==
  Broken({"garbled", "failed", "disabled"}) \cup {TabsOf(t) : t \in {{}, {"else"}, {"same", "post"}, {"post", "else"}}}

-----------------------------------------------------------------------------
(* XHS *)

Card(id) ==
  [kind |-> "card", id |-> id, type |-> "normal", video |-> FALSE, images |-> TRUE, time |-> "number", author |-> "name"]
Bad == [kind |-> "bad"]
NoCard == [kind |-> "bare"]

\* Posts of every kind, in the shape of a card and of a note in the state of a page.
Kinds(post) ==
  {[post EXCEPT !.type = t, !.video = v, !.images = i] : t \in {"video", "normal", ""}, v \in BOOLEAN, i \in BOOLEAN}
    \cup {[post EXCEPT !.time = t] : t \in {"none", "odd"}} \cup {[post EXCEPT !.author = ""]}

Reply(list) ==
  [kind |-> "object", success |-> TRUE, coded |-> "no", data |-> TRUE, items |-> list, json |-> TRUE]
MCXhsDetails ==
  HttpFailures
    \cup {Reply(<<c>>) : c \in Kinds(Card("asked"))}
    \cup {Reply(list) : list \in {<<>>, <<Bad>>, <<NoCard>>, <<NoCard, Bad>>, <<Card("other")>>, <<Card("")>>,
                                   <<Bad, Card("other"), Card("asked")>>}}
    \cup {[Reply(<<Card("asked")>>) EXCEPT !.success = s, !.coded = c, !.data = d, !.json = j] :
            s \in {TRUE, FALSE, None}, c \in {"no", "blank", "code"}, d \in BOOLEAN, j \in BOOLEAN}

Note(noteId, note_id) ==
  [noteId |-> noteId, note_id |-> note_id, type |-> "normal", video |-> FALSE, images |-> TRUE, time |-> "number",
   author |-> "name"]
State(note) == [kind |-> "object", shape |-> "whole", note |-> note, json |-> TRUE]
XhsStatesOf ==
  {State(Note(a, b)) : a \in {"", "asked", "other"}, b \in {"", "asked", "other"}}
    \cup {State(n) : n \in Kinds(Note("asked", ""))} \cup {[State(Note("asked", "")) EXCEPT !.json = FALSE]}
    \cup {[State(None) EXCEPT !.shape = s] : s \in {"bare", "other", "empty"}}
MCXhsPages == HttpFailures \cup Broken({"none"}) \cup XhsStatesOf
MCXhsStates == ScriptFailures \cup XhsStatesOf

-----------------------------------------------------------------------------
(* Douyin *)

Aweme(id) == [id |-> id, video |-> TRUE, images |-> "none", time |-> "number", author |-> "name"]
Awemes ==
  {Aweme(id) : id \in {"asked", "other", "", "number"}}
    \cup {[Aweme("asked") EXCEPT !.video = v, !.images = i] : v \in BOOLEAN, i \in {"urls", "said", "none", "bad"}}
    \cup {[Aweme("asked") EXCEPT !.time = t] : t \in {"none", "odd"}} \cup {[Aweme("asked") EXCEPT !.author = ""]}

Brought(aweme, json) == [kind |-> "object", refused |-> FALSE, aweme |-> aweme, json |-> json]
MCBrought == {Brought(a, j) : a \in Awemes \cup {None}, j \in BOOLEAN}
MCDouyinDetails ==
  HttpFailures \cup MCBrought \cup {[Brought(None, j) EXCEPT !.refused = TRUE] : j \in BOOLEAN}
MCDouyinStates == ScriptFailures \cup MCBrought
MCDouyinContexts == ScriptFailures \cup {[kind |-> "object", complete |-> c] : c \in BOOLEAN}
MCDouyinRequests == ScriptFailures \cup Broken({"http"}) \cup MCBrought

-----------------------------------------------------------------------------
(* Trees of the repository, proposals, pull requests and what GitHub says of them *)

Feature == <<"FR", 30>>
Rules   == <<"GOV", 31>>
Fix     == <<"HOTFIX", 32>>
Chore   == <<"CHORE", 33>>

DocsOf(item) == <<"docs", item>>
LoomOf(item) == <<"loom", item>>
Bound(suite) == [says |-> "path", suite |-> suite, shape |-> "root"]
Saying(word)   == [says |-> word]
DecidedBy(f) == [says |-> "path", file |-> f]
NoDecision(word) == [says |-> word, file |-> None]

PlanOf(item, spec, decided) ==
  [file |-> item, doubled |-> FALSE, inactive |-> FALSE, issue |-> "i1", item |-> item, type |-> item[1], line |-> "line",
   active |-> item, spec |-> spec, additional |-> {}, decision |-> decided]

GoodSuite(dir) == [dir |-> dir, complete |-> TRUE, valid |-> TRUE]
DecisionOn(item) == [file |-> "own", doubled |-> FALSE, issue |-> "i1", item |-> item]
FirstDecision == [file |-> "ADR-0001", doubled |-> FALSE, issue |-> None, item |-> None]

LegacyDirs == DOMAIN LegacyFiles

TreeOf(plans) ==
  [plans |-> plans, todos |-> {}, files |-> {"code_review.md", "spec_review.md"},
   suites |-> {GoodSuite(DocsOf(Feature)), GoodSuite(DocsOf(Rules)), GoodSuite(LoomOf(Rules))} \cup {GoodSuite(d) : d \in LegacyDirs},
   decisions |-> {FirstDecision} \cup {DecisionOn(plan.item) : plan \in {one \in plans : one.decision.says = "path" /\ one.decision.file = "own"}}]

FeaturePlan == PlanOf(Feature, Bound(DocsOf(Feature)), NoDecision("nothing"))
RulesPlan   == PlanOf(Rules, Bound(DocsOf(Rules)), NoDecision("nothing"))
Bootstrap   == PlanOf(Rules, Saying("nothing"), DecidedBy("own"))
Cleanup     == [PlanOf(LegacyCleanup, Bound(DocsOf(Rules)), NoDecision("nothing")) EXCEPT !.additional = {Bound(d) : d \in LegacyDirs}]

\* The plans of the trees that a proposal is made for.
PlanTrees == <<
  {FeaturePlan}, {FeaturePlan, [RulesPlan EXCEPT !.issue = "i2"]}, {RulesPlan}, {Bootstrap}, {Cleanup},
  {PlanOf(Feature, [Bound(DocsOf(Feature)) EXCEPT !.shape = "file"], DecidedBy("own"))},
  {PlanOf(Feature, [Bound(DocsOf(Feature)) EXCEPT !.shape = "odd"], NoDecision("nothing"))},
  {PlanOf(Feature, Saying("nothing"), NoDecision("nothing"))},
  {PlanOf(Feature, Saying("placeholder"), DecidedBy("own"))},
  {PlanOf(Feature, Bound(DocsOf(Feature)), NoDecision("n/a"))},
  {PlanOf(Feature, Bound(LoomOf(Rules)), NoDecision("nothing"))},
  {PlanOf(Rules, Bound(LoomOf(Rules)), DecidedBy("own"))},
  {PlanOf(Rules, Saying("n/a"), DecidedBy("own"))},
  {PlanOf(Rules, Saying("nothing"), NoDecision("outside"))},
  {PlanOf(Rules, Saying("nothing"), DecidedBy("ADR-0001"))},
  {PlanOf(Rules, Saying("outside"), DecidedBy("own"))},
  {[Bootstrap EXCEPT !.additional = {Bound(DocsOf(Rules))}]}, {[Bootstrap EXCEPT !.additional = {Saying("placeholder")}]},
  {[PlanOf(Feature, Saying("nothing"), NoDecision("placeholder")) EXCEPT !.additional = {Bound(DocsOf(Feature))}]},
  {[PlanOf(Feature, Saying("nothing"), NoDecision("nothing")) EXCEPT !.additional = {Bound(DocsOf(Rules))}]},
  {PlanOf(Fix, Bound(DocsOf(Feature)), DecidedBy("ADR-0001"))},
  {PlanOf(Fix, Saying("nothing"), NoDecision("nothing"))},
  {PlanOf(Chore, Bound(DocsOf(Feature)), DecidedBy("own"))},
  {[RulesPlan EXCEPT !.additional = {Bound(d) : d \in LegacyDirs}]},
  {FeaturePlan, RulesPlan}, {FeaturePlan, [FeaturePlan EXCEPT !.file = Fix]},
  {FeaturePlan, [FeaturePlan EXCEPT !.file = Fix, !.inactive = TRUE]}, {FeaturePlan, [FeaturePlan EXCEPT !.file = Fix, !.doubled = TRUE]},
  {[FeaturePlan EXCEPT !.file = Fix]}, {[FeaturePlan EXCEPT !.active = Rules]}, {[FeaturePlan EXCEPT !.line = None]},
  {[FeaturePlan EXCEPT !.line = "other"]}, {[FeaturePlan EXCEPT !.item = Rules, !.active = None]}, {[FeaturePlan EXCEPT !.doubled = TRUE]} >>

\* The same with something missing or at fault besides the plans.
OddTrees == <<
  [TreeOf({FeaturePlan}) EXCEPT !.suites = {[GoodSuite(DocsOf(Feature)) EXCEPT !.complete = FALSE]}],
  [TreeOf({FeaturePlan}) EXCEPT !.suites = {[GoodSuite(DocsOf(Feature)) EXCEPT !.valid = FALSE]}],
  [TreeOf({PlanOf(Feature, Saying("nothing"), NoDecision("nothing"))}) EXCEPT !.suites = {[GoodSuite(DocsOf(Feature)) EXCEPT !.valid = FALSE]}],
  [TreeOf({Bootstrap}) EXCEPT !.decisions = {[DecisionOn(Fix) EXCEPT !.issue = "i2"]}],
  [TreeOf({Bootstrap}) EXCEPT !.decisions = {[DecisionOn(Rules) EXCEPT !.doubled = TRUE]}],
  [TreeOf({Bootstrap}) EXCEPT !.decisions = {}],
  [TreeOf({Cleanup}) EXCEPT !.todos = LegacyDirs],
  [TreeOf({FeaturePlan}) EXCEPT !.todos = {DocsOf(Feature)}] >>

Trees == [n \in DOMAIN PlanTrees |-> TreeOf(PlanTrees[n])] \o OddTrees
PlanAt(n) == CHOOSE plan \in Trees[n].plans : plan.item = Feature \/ \A one \in Trees[n].plans : one.item # Feature

\* Commits are numbered; both that are pushed have the plan of the feature.
MCTreeAt == Trees
MCPushTargets == {1, 2}

-----------------------------------------------------------------------------
NoCheck == [touchpoint |-> "none", shared |-> "no", ref |-> "none", dependency |-> "none", gate |-> "local_only",
            surface |-> "none", joint |-> "no", beforePr |-> "no", beforeMerge |-> "no"]
GatedCheck == [NoCheck EXCEPT !.touchpoint = "active", !.ref = "issue", !.gate = "integration_check_required", !.beforePr = "yes"]

IssueOf(check) == [kind |-> "read", fields |-> [f \in IssueFields |-> check[f]]]
NoCanonical == [kind |-> "read", fields |-> None]
LostIssue == [kind |-> "failed", fields |-> None]

GoodNode == [item |-> TRUE, archived |-> FALSE, canonical |-> TRUE, belongs |-> TRUE, content |-> "issue", status |-> "ready",
             order |-> "parallel", joint |-> "ready", owner |-> "owner", contract |-> "contract"]
Tells(node) == [kind |-> "read", nodes |-> <<node>>, cut |-> FALSE]
LostLive == [kind |-> "failed", nodes |-> <<>>, cut |-> FALSE]

Changed(area) == [area |-> area, of |-> None, file |-> None]
InSuite(suite, file) == [area |-> "suite", of |-> suite, file |-> file]

Diffs(item) ==
  { {}, {Changed("implementation")}, {Changed("governance")}, {Changed("plan"), Changed("docs")},
    {InSuite(DocsOf(item), "spec.md")}, {InSuite(DocsOf(item), "risks.md"), Changed("governance")}, {InSuite(DocsOf(Fix), "spec.md")},
    {InSuite(DocsOf(item), "TODO.md")}, {InSuite(LoomOf(item), "implementation-contract.md"), Changed("governance")},
    {InSuite(LoomOf(item), "spec.md")},
    {InSuite(d, f) : d \in LegacyDirs, f \in {"TODO.md"}}, UNION {{InSuite(d, f) : f \in LegacyFiles[d]} : d \in LegacyDirs} }

ContextOf(plan) == [issue |-> plan.issue, item |-> plan.item, type |-> plan.type, line |-> "line"]

DryRun(class, plan, diff, head) ==
  [class |-> class, context |-> ContextOf(plan), diff |-> diff, head |-> head, binding |-> "fits", foreign |-> FALSE,
   check |-> NoCheck, issue |-> NoCanonical, live |-> LostLive, draft |-> FALSE, dryRun |-> TRUE]

PlainProposal == DryRun("implementation", FeaturePlan, {Changed("implementation")}, 1)

Payloads ==
  {NoCheck, GatedCheck}
    \cup {[c EXCEPT !.touchpoint = v] : c \in {NoCheck, GatedCheck}, v \in {"", "odd", "check_required", "resolved"}}
    \cup {[c EXCEPT !.shared = "yes"] : c \in {NoCheck, GatedCheck}}
    \cup {[c EXCEPT !.ref = r] : c \in {NoCheck, GatedCheck}, r \in {"", "odd", "none", "issue url", "other issue", "item"}}
    \cup {[c EXCEPT !.dependency = "both"] : c \in {NoCheck, GatedCheck}}
    \cup {[c EXCEPT !.surface = "errors"] : c \in {NoCheck, GatedCheck}}
    \cup {[c EXCEPT !.joint = "yes"] : c \in {NoCheck, GatedCheck}}
    \cup {[c EXCEPT !.gate = v] : c \in {NoCheck, GatedCheck}, v \in {"", "local_only"}}
    \cup {[c EXCEPT !.beforePr = v] : c \in {NoCheck, GatedCheck}, v \in {"no", "yes"}}
    \cup {[c EXCEPT !.beforeMerge = "yes"] : c \in {NoCheck, GatedCheck}}

MCProposals ==
  UNION {LET plan == PlanAt(n)
         IN {DryRun(class, plan, diff, n) : class \in DOMAIN ClassCategories, diff \in Diffs(plan.item)} : n \in DOMAIN Trees}
    \cup {[PlainProposal EXCEPT !.check = c, !.issue = i, !.live = l] :
            c \in Payloads, l \in {LostLive, Tells(GoodNode), Tells([GoodNode EXCEPT !.content = "draft"])},
            i \in {NoCanonical, LostIssue, IssueOf(NoCheck), IssueOf(GatedCheck), IssueOf([GatedCheck EXCEPT !.ref = "item"]),
                   IssueOf([GatedCheck EXCEPT !.surface = "odd"])}}
    \cup { [PlainProposal EXCEPT !.binding = "other"], [PlainProposal EXCEPT !.foreign = TRUE], [PlainProposal EXCEPT !.context.type = "ODD"],
           [PlainProposal EXCEPT !.context.type = "GOV"], [PlainProposal EXCEPT !.context.item = None], [PlainProposal EXCEPT !.context.issue = None],
           [PlainProposal EXCEPT !.context.issue = "i2"] }
    \cup { [PlainProposal EXCEPT !.dryRun = FALSE],
           [PlainProposal EXCEPT !.dryRun = FALSE, !.check = GatedCheck, !.issue = IssueOf(GatedCheck)] }

\* Made with an older template, or by hand, or with other artifacts.
ByHand(check, template, created) ==
  [head |-> 1, body |-> [text |-> 1, context |-> ContextOf(FeaturePlan), check |-> check, template |-> template,
                         created |-> created, executed |-> FALSE, artifacts |-> None]]
WithArtifacts(evidence, executed) ==
  [ByHand(None, "none", "before") EXCEPT
     !.body.executed = executed,
     !.body.artifacts = [plan |-> {<<"plan", Feature>>}, governing |-> {<<"core", DocsOf(Feature)>>},
                         review |-> {<<"file", "code_review.md">>}, evidence |-> evidence]]

MCHandOpened ==
  {ByHand(check, t[1], t[2]) : check \in {None, GatedCheck}, t \in {<<"new", "before">>, <<"none", "before">>, <<"filled", "unknown">>}}
    \cup { WithArtifacts({<<"see section", None>>}, TRUE), WithArtifacts({<<"later", None>>}, TRUE) }

MCIssueReplies == {LostIssue, NoCanonical, IssueOf(GatedCheck)}
MCLiveReplies == {LostLive, Tells(GoodNode)}

-----------------------------------------------------------------------------
(* The other parts *)

CONSTANTS p, q, other, s1, s2, r1, r2

-----------------------------------------------------------------------------
(* Contracts *)

Profile(key, caps, ref) ==
  [key |-> key, mode |-> IF caps = <<>> THEN "none" ELSE "required", caps |-> caps, refs |-> <<ref>>]

Both == Profile("both", <<"account", "proxy">>, "account-proxy")
Account == Profile("account", <<"account">>, "account")
Rejected == Profile("proxy", <<"proxy">>, "proxy")
Misaligned == Profile("account", <<"account">>, "account-proxy")
Backwards == Profile("both", <<"proxy", "account">>, "account-proxy")
Nothing == Profile("none", <<>>, "none")
SameKey == Profile("both", <<"account">>, "account")

ProfileLists ==
  {<<Both>>, <<Account>>, <<Both, Account>>, <<Account, Both>>, <<Rejected>>, <<Misaligned>>, <<Backwards>>,
   <<Nothing>>, <<Both, SameKey>>, <<Both, Both>>, <<>>}

FamilySlices ==
  { [family |-> "content_detail", slice |-> <<"content_detail_by_url", "url", "hybrid">>],
    [family |-> "comment_collection", slice |-> <<"comment_collection", "content", "paginated">>],
    [family |-> "content_search", slice |-> <<"content_search_by_keyword", "keyword", "paginated">>],
    [family |-> "content_search", slice |-> <<"content_search", "query", "paginated">>] }

Detail == CHOOSE f \in FamilySlices : f.family = "content_detail"

Declaration(adapter, family, profiles) ==
  [version |-> "v2", adapter |-> adapter, capability |-> family, mode |-> None, caps |-> <<>>, refs |-> {},
   profiles |-> profiles]

Requirement(adapter, f, profiles) ==
  [flaws |-> {}, adapter |-> adapter, family |-> f.family, slice |-> f.slice,
   declaration |-> Declaration(adapter, f.family, profiles), evidence |-> ProofRefs(profiles),
   proofs |-> ProofRefs(profiles)]

Offer(adapter, f, profiles) ==
  [flaws |-> {}, provider |-> p, adapter |-> adapter, family |-> f.family, slice |-> f.slice, profiles |-> profiles,
   evidence |-> ProofRefs(profiles), proofs |-> ProofRefs(profiles), observedProvider |-> p,
   observedId |-> "canonical"]

Drop(c) == { [c EXCEPT !.evidence = Append(@, "account")], [c EXCEPT !.proofs = <<"account">>],
             [c EXCEPT !.flaws = {"lifecycle"}] }

Adapters == {"xhs", "douyin", "acme"}

OddRequirements == Drop(Requirement("xhs", Detail, <<Both>>))
                   \cup {[Requirement("xhs", Detail, <<Both>>) EXCEPT !.declaration.version = "v1"]}
OddOffers ==
  LET good == Offer("xhs", Detail, <<Both, Account>>)
  IN Drop(good) \cup {[good EXCEPT !.provider = None], [good EXCEPT !.observedProvider = q],
                      [good EXCEPT !.observedId = other], [good EXCEPT !.observedId = None]}

Context(names) == [id |-> [opaque |-> TRUE, names |-> names], surface |-> "canonical", frozen |-> TRUE]
OddContexts ==
  {Context({n}) : n \in {p, q, other}}
    \cup { [Context({}) EXCEPT !.id.opaque = FALSE], [Context({p}) EXCEPT !.surface = "drifted"],
           [Context({}) EXCEPT !.surface = "leaking"], [Context({}) EXCEPT !.frozen = FALSE] }

Input(r, o, c) == [surface |-> "canonical", requirement |-> r, offer |-> o, context |-> c]

MCInputs ==
  {Input(Requirement("xhs", f, l), Offer("xhs", f, m), Context({})) :
     f \in FamilySlices, l \in ProfileLists, m \in ProfileLists}
    \cup {Input(Requirement(a, f, <<Both>>), Offer(b, g, <<Both>>), Context({})) :
            a \in Adapters, b \in Adapters, f \in FamilySlices, g \in FamilySlices}
    \cup {[Input(r, o, c) EXCEPT !.surface = s] :
            r \in OddRequirements \cup {Requirement("xhs", Detail, <<Account>>)},
            o \in OddOffers \cup {Offer("xhs", Detail, <<Both, Account>>)},
            c \in OddContexts \cup {Context({})}, s \in {"canonical", "drifted", "leaking"}}

-----------------------------------------------------------------------------
(* Registries and requests *)

ListOf(elements) == FoldSet(LAMBDA e, list : Append(list, e), <<>>, elements)

Adapter(key, families, targets, modes) ==
  [malformed |-> {}, families |-> families, targets |-> targets, modes |-> modes,
   declarations |-> ListOf({Declaration(key, f, <<Both, Account>>) : f \in families})]

Item(key, adapter) == [key |-> key, adapter |-> adapter]
Reference(key) == Adapter(key, {"content_detail"}, {"url"}, {"hybrid"})
Full == Adapter("xhs", Families, AllowedTargets, AllowedModes)
Bare == [Reference("acme") EXCEPT !.declarations = <<>>]
FirstVersion(caps) ==
  [Declaration("xhs", "content_detail", <<>>) EXCEPT
     !.version = "v1", !.mode = "required", !.caps = caps, !.refs = FrozenEvidence("xhs", caps)]

Douyin == Item("douyin", Reference("douyin"))
Xhs(adapter) == <<Item("xhs", adapter), Douyin>>

MCRegistries ==
  { <<>>, <<Douyin>>, <<Douyin, Item("acme", Bare)>>, Xhs(Full), Xhs(Reference("xhs")),
    <<Douyin, Item("acme", Reference("acme"))>>, <<Douyin, Item(None, Bare)>>,
    Append(Xhs(Full), Item("acme", Reference("acme"))),
    Xhs([Full EXCEPT !.declarations = Tail(@)]),
    Xhs([Full EXCEPT !.declarations = @ \o @]),
    Xhs([Full EXCEPT !.families = {"content_search", "content_list", "comment_collection"},
                     !.declarations = SelectSeq(@, LAMBDA d : d.capability \in {"content_search", "comment_collection"})]),
    Xhs([Full EXCEPT !.targets = {"url", "content", "creator"}]),
    Xhs([Full EXCEPT !.modes = {"hybrid", "direct"}]),
    Xhs([Reference("xhs") EXCEPT !.declarations = <<FirstVersion(<<"account">>)>>]),
    Xhs([Reference("xhs") EXCEPT !.declarations = <<[FirstVersion(<<"account">>) EXCEPT !.refs = {}]>>]),
    Xhs([Reference("xhs") EXCEPT !.declarations[1].profiles = <<Rejected>>]),
    Xhs([Reference("xhs") EXCEPT !.declarations[1].profiles = <<Misaligned>>]) }
  \cup {Xhs([Full EXCEPT !.malformed = {part}]) : part \in {"execute", "families", "targets", "modes", "declarations"}}

Operations == RuntimeOperations \cup {"batch_execution", "content_search"}

Plain(entry, adapter, operation) ==
  [entry |-> entry, malformed |-> {}, adapter |-> adapter, operation |-> operation,
   target |-> IF operation \in RuntimeOperations THEN StableRow(operation).target ELSE "url",
   value |-> "good", mode |-> IF operation \in RuntimeOperations THEN StableRow(operation).mode ELSE "hybrid",
   cursor |-> "none"]

Entries == {"http", "task", "core"}

MCRequests ==
  {[Plain(e, "xhs", o) EXCEPT !.cursor = c] : e \in Entries, o \in Operations, c \in Cursors}
    \cup {[Plain(e, "xhs", o) EXCEPT !.value = v] : e \in Entries, o \in Operations, v \in {"unsafe", None}}
    \cup {Plain(e, a, "content_detail_by_url") : e \in Entries \cup {"other"}, a \in {"acme", "douyin", "ghost", None}}
    \cup {[Plain(e, "xhs", "content_detail_by_url") EXCEPT !.malformed = {m}] :
            e \in Entries, m \in {"payload", "input", "target", "policy", "control", "task_id"}}
    \cup {[Plain("core", "xhs", o) EXCEPT !.target = t] : o \in RuntimeOperations, t \in {"content", "keyword", "draft"}}
    \cup {[Plain("core", "xhs", o) EXCEPT !.mode = m] : o \in RuntimeOperations, m \in {"hybrid", "public", "batch"}}

-----------------------------------------------------------------------------
(* Errors of adapters: a few that may be retried, and details in Core's words *)

Denied == Error("platform", "refused", NoDetails)
Busy == Error("platform", "busy", [NoDetails EXCEPT !.retryable = TRUE])

MCFailures ==
  { Denied, Busy, [Denied EXCEPT !.category = "runtime_contract"], [Busy EXCEPT !.category = "invalid_input"],
    [Busy EXCEPT !.code = ""], [Busy EXCEPT !.code = "concurrency_limit_exceeded"],
    [Busy EXCEPT !.code = "execution_control_state_invalid", !.details.control = "concurrency_limit_exceeded"],
    [Busy EXCEPT !.details.exhausted = TRUE], [Busy EXCEPT !.details.traces = "odd"],
    [Busy EXCEPT !.details.json = FALSE], [Busy EXCEPT !.details.ref = "none"], [Timeout EXCEPT !.details.retryable = FALSE],
    [Denied EXCEPT !.details.event = "retry_concurrency_rejected"], [Denied EXCEPT !.details.stage = "pre_admission"] }

-----------------------------------------------------------------------------
(* Sessions: two accounts and a proxy, and reports on them by three clock times.  Ties, late
   reports, reports that have expired, and defects that go one by one. *)

MCAccountIds == {"first", "second"}
HealthContext == [task |-> "t", adapter |-> "xhs", capability |-> "content_detail", operation |-> "content_detail_by_url"]

Reported(resource, status, observed, expires) ==
  [resource |-> resource, status |-> status, observed |-> observed, expires |-> expires, policy |-> TRUE,
   context |-> HealthContext, lease |-> "l", bundle |-> "b", flaws |-> {}]

Ill == Reported("first", "invalid", 2, None)
Well == Reported("first", "healthy", 1, 3)

MCHealthReports ==
  { Well, Reported("first", "healthy", 1, 2), Reported("first", "healthy", 2, 3), Reported("first", "stale", 1, None),
    Reported("first", "stale", 2, 3), Reported("first", "invalid", 1, 2), Ill,
    Reported("second", "healthy", 1, 3), Reported("second", "invalid", 1, None), Reported("second", "stale", 2, None),
    [Well EXCEPT !.policy = FALSE], [Well EXCEPT !.expires = 1], [Ill EXCEPT !.context.task = "u"],
    [Ill EXCEPT !.context.operation = None], [Ill EXCEPT !.resource = "proxy"], [Ill EXCEPT !.bundle = "other"],
    [Ill EXCEPT !.lease = None], [Ill EXCEPT !.lease = "m"], [Ill EXCEPT !.flaws = {"redaction"}] }

Pooled(id) == [id |-> id, type |-> IF id \in MCAccountIds THEN "account" ELSE "proxy", adapter |-> "xhs", sound |-> TRUE]

AdmissionCall ==
  [context |-> HealthContext, fresh |-> TRUE, slots |-> {"account", "proxy"},
   resources |-> <<Pooled("first"), Pooled("proxy")>>, at |-> 2]

MCAdmissionCalls ==
  {[AdmissionCall EXCEPT !.at = t] : t \in 1..3}
    \cup {[AdmissionCall EXCEPT !.resources = l] :
            l \in { <<Pooled("first"), Pooled("second")>>, <<Pooled("second"), Pooled("first")>>, <<Pooled("proxy")>>,
                    <<[Pooled("first") EXCEPT !.adapter = "douyin"]>>, <<[Pooled("first") EXCEPT !.sound = FALSE]>> }}
    \cup { [AdmissionCall EXCEPT !.at = None], [AdmissionCall EXCEPT !.context.operation = None],
           [AdmissionCall EXCEPT !.context.task = "u"],
           [AdmissionCall EXCEPT !.context.operation = "content_search"], [AdmissionCall EXCEPT !.fresh = FALSE],
           [AdmissionCall EXCEPT !.slots = {"proxy"}] }

Leased(id, bundle, t, resources, active) ==
  [id |-> id, bundle |-> bundle, holder |-> [task |-> t, adapter |-> "xhs", capability |-> "content_detail"],
   resources |-> resources, active |-> active]

LedgerOf(leases) ==
  LET held == UNION {l.resources : l \in {m \in leases : m.active}}
  IN [readable |-> TRUE, leases |-> leases,
      status |-> [r \in {"first", "second", "proxy"} |-> IF r \in held THEN "IN_USE" ELSE "AVAILABLE"]]

MCLedgers ==
  LET both == Leased("l", "b", "t", {"first", "proxy"}, TRUE)
      settled == [both EXCEPT !.active = FALSE]
  IN { LedgerOf({}), LedgerOf({both}), LedgerOf({settled}), LedgerOf({Leased("l", "b", "t", {"first"}, TRUE)}),
       LedgerOf({both, Leased("m", "other", "u", {"second"}, TRUE)}),
       LedgerOf({settled, Leased("m", "other", "u", {"first", "second"}, TRUE)}),
       LedgerOf({settled, [Leased("m", "b", "t", {"first"}, TRUE) EXCEPT !.holder.capability = "content_search"]}),
       [LedgerOf({both}) EXCEPT !.readable = FALSE] }

-----------------------------------------------------------------------------
(* What the sources of the version gate see *)

Result(sample, verdict, status, category) ==
  [malformed |-> None, sample |-> sample, verdict |-> verdict, status |-> status, category |-> category]

Good1 == Result(s1, "pass", "success", None)
Good2 == Result(s2, "legal_failure", "failed", "platform")

ResultLists ==
  { <<Good1>>, <<Good1, Good2, Good1>>, None, <<Good1, Good2, [Good1 EXCEPT !.malformed = "entry"]>>,
    <<Good1, [Good2 EXCEPT !.malformed = "reason"]>>, <<Good1, [Good2 EXCEPT !.sample = None]>>,
    <<[Good1 EXCEPT !.status = "failed"], Good1, Good2>>,
    <<Good1, [Good2 EXCEPT !.category = "runtime_contract"]>>,
    <<Good1, Result(s2, "execution_precondition_not_met", None, None)>>,
    <<Good1, Result(s2, "contract_violation", "success", None)>>,
    <<Good1, Result(s2, "contract_violation", "failed", None)>> }

Finding == [malformed |-> None, boundary |-> "adapter_registry", ref |-> "found"]

Scan(version) == [version |-> version, boundaries |-> Boundaries, findings |-> <<>>, verdict |-> "pass",
                  evidence |-> ScanRefs]

Found(verdict, evidence, finding) ==
  [Scan(FrozenVersion) EXCEPT !.verdict = verdict, !.evidence = evidence, !.findings = <<finding>>]

Scans ==
  { [Scan(FrozenVersion) EXCEPT !.boundaries = Reverse(@)], [Scan(FrozenVersion) EXCEPT !.boundaries = Tail(@)],
    [Scan(FrozenVersion) EXCEPT !.boundaries = Append(@, "adapters")], [Scan(FrozenVersion) EXCEPT !.findings = None],
    [Scan(FrozenVersion) EXCEPT !.verdict = None], [Scan(FrozenVersion) EXCEPT !.verdict = "fail"],
    [Scan(FrozenVersion) EXCEPT !.evidence = Tail(@)], [Scan(FrozenVersion) EXCEPT !.evidence = Reverse(@)],
    [Scan(FrozenVersion) EXCEPT !.evidence = None],
    Found("fail", Append(ScanRefs, "found"), Finding), Found("pass", Append(ScanRefs, "found"), Finding),
    Found("fail", ScanRefs, Finding), Found("pass", ScanRefs, [Finding EXCEPT !.boundary = "adapters"]),
    Found("pass", ScanRefs, [Finding EXCEPT !.ref = None]) } \cup {Scan("v0.6.0")}

Succeeds == [status |-> "success", category |-> None]
Fails(category) == [status |-> "failed", category |-> category]
GoodAnswers == ("xhs-success" :> Succeeds) @@ ("xhs-invalid-input" :> Fails("invalid_input"))
               @@ ("douyin-success" :> Succeeds) @@ ("douyin-platform" :> Fails("platform"))
OddAnswers == {[GoodAnswers EXCEPT !["xhs-success"] = Fails("platform")],
            [GoodAnswers EXCEPT !["xhs-invalid-input"] = Succeeds],
            [GoodAnswers EXCEPT !["douyin-platform"] = Fails("runtime_contract")],
            [GoodAnswers EXCEPT !["douyin-platform"] = Fails(None)]}

NoFlaws == [key \in ReferenceAdapters |-> {}]
Bindings == {[NoFlaws EXCEPT !["xhs"] = {flaw}] : flaw \in {"identity", "override", "browser"}}
            \cup {[NoFlaws EXCEPT !["douyin"] = {"browser"}]}

Rehearsal(version) ==
  [version |-> version, bindings |-> NoFlaws, answers |-> GoodAnswers, results |-> <<Good1, Good2>>,
   required |-> <<s1, s2>>, leakage |-> Scan(version)]

MCRehearsals ==
  {Rehearsal(v) : v \in {FrozenVersion, "v0.6.0", "padded", "blank"}}
    \cup {[Rehearsal(FrozenVersion) EXCEPT !.results = l] : l \in ResultLists}
    \cup {[Rehearsal(FrozenVersion) EXCEPT !.required = l] : l \in {<<>>, <<s1>>, <<s1, s1>>, <<s2, s1>>}}
    \cup {[Rehearsal(FrozenVersion) EXCEPT !.leakage = l] : l \in Scans}
    \cup {[Rehearsal(FrozenVersion) EXCEPT !.answers = a] : a \in OddAnswers}
    \cup {[Rehearsal(FrozenVersion) EXCEPT !.bindings = b] : b \in Bindings}

Call == [version |-> FrozenVersion, pair |-> ReferencePair, required |-> <<s1, s2>>]

MCGateArguments ==
  {[Call EXCEPT !.version = v] : v \in {FrozenVersion, "v0.6.0", "padded", "blank"}}
    \cup {[Call EXCEPT !.pair = l] : l \in {<<"douyin", "xhs">>, <<"xhs">>, <<>>, <<"xhs", "douyin", "acme">>}}
    \cup {[Call EXCEPT !.required = l] : l \in {<<s2, s1>>, <<s1>>, <<>>, <<s1, s1>>, None}}

-----------------------------------------------------------------------------
(* The operability gate *)

MCRevisions == {r1, r2}

GoodCase(id, r, mentions) ==
  [malformed |-> None, id |-> id, dimension |-> DimensionOf(id), flaws |-> {}, verdict |-> "pass",
   impact |-> "mandatory", result |-> [says |-> "expected", mentions |-> mentions],
   resultRef |-> Ref(r, id, "actual_result"), evidence |-> {Ref(r, id, "source_case")},
   upstream |-> {Ref(r, None, "test")}]

Ids == ListOf(MandatoryCases)
GoodCases(r, mentions) == FoldLeft(LAMBDA cases, id : Append(cases, GoodCase(id, r, mentions)), <<>>, Ids)

Probe == CHOOSE n \in DOMAIN Ids : Ids[n] = "http-submit-status-result-shared-truth"

OddCase(c) ==
  { [c EXCEPT !.malformed = "entry"], [c EXCEPT !.id = None], [c EXCEPT !.dimension = "failure_log_metrics"],
    [c EXCEPT !.dimension = None], [c EXCEPT !.flaws = {"entrypoints"}], [c EXCEPT !.verdict = "fail"],
    [c EXCEPT !.verdict = None], [c EXCEPT !.impact = "optional"], [c EXCEPT !.result.says = "other"],
    [c EXCEPT !.result.mentions = {r1, r2}], [c EXCEPT !.resultRef = None], [c EXCEPT !.resultRef.at = "other"],
    [c EXCEPT !.resultRef.revision = r1], [c EXCEPT !.resultRef.about = "flm-success-observable"],
    [c EXCEPT !.evidence = {}], [c EXCEPT !.evidence = {Ref(r1, c.id, "test")}],
    [c EXCEPT !.evidence = {Ref(r2, None, "test")}], [c EXCEPT !.upstream = {}],
    [c EXCEPT !.upstream = {Ref(r1, None, "test")}], [c EXCEPT !.upstream = {Ref(r2, c.id, "test")}] }

Optional(verdict, artifactCase) ==
  [GoodCase("http-submit-status-result-shared-truth", r2, {}) EXCEPT
     !.id = "extra", !.impact = "optional", !.verdict = verdict, !.resultRef = artifactCase,
     !.evidence = {Ref(r2, "extra", "test")}]

CaseLists ==
  {GoodCases(r2, m) : m \in {{}, {r2}, {r1}}}
    \cup {[GoodCases(r2, {}) EXCEPT ![Probe] = c] : c \in OddCase(GoodCases(r2, {})[Probe])}
    \cup { <<>>, Tail(GoodCases(r2, {})), RemoveAt(GoodCases(r2, {}), Probe),
           Append(GoodCases(r2, {}), [GoodCases(r2, {})[Probe] EXCEPT !.verdict = "fail"]),
           Append(GoodCases(r2, {}), Optional("fail", Ref(r2, "extra", "actual_result"))) }

BaselineRef == Ref(r2, None, "baseline")
GoodBaseline == [ref |-> BaselineRef, revision |-> r2, release |-> Release, verdict |-> "pass", safe |-> TRUE,
                 evidence |-> {BaselineRef, Ref(r2, None, "test")}]
OddBaselines ==
  { None, [GoodBaseline EXCEPT !.ref.revision = r1], [GoodBaseline EXCEPT !.revision = r1],
    [GoodBaseline EXCEPT !.release = FrozenVersion], [GoodBaseline EXCEPT !.safe = FALSE],
    [GoodBaseline EXCEPT !.verdict = "fail"], [GoodBaseline EXCEPT !.evidence = {}],
    [GoodBaseline EXCEPT !.evidence = {BaselineRef}], [GoodBaseline EXCEPT !.evidence = {Ref(r2, None, "test")}],
    [GoodBaseline EXCEPT !.evidence = @ \cup {Ref(r1, None, "test")}] }

Certification(cases) == [revision |-> r2, flaws |-> {}, baselineRef |-> BaselineRef, baseline |-> GoodBaseline,
                         cases |-> cases, evidence |-> {Ref(r2, None, "test")}]

MCCertifications ==
  {Certification(l) : l \in CaseLists}
    \cup {[Certification(GoodCases(r2, {})) EXCEPT !.baseline = b] : b \in OddBaselines}
    \cup { [Certification(GoodCases(r2, {})) EXCEPT !.flaws = {"metrics_snapshot"}],
           [Certification(GoodCases(r2, {})) EXCEPT !.evidence = {Ref(r1, None, "test")}],
           [Certification(GoodCases(r2, {})) EXCEPT !.evidence = {}],
           [Certification(GoodCases(r2, {})) EXCEPT !.revision = r1],
           [Certification(GoodCases(r2, {})) EXCEPT !.baselineRef = Ref(r2, None, "test")],
           [Certification(GoodCases(r2, {})) EXCEPT !.baselineRef.revision = r1] }
=============================================================================
