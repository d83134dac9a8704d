----------------------------- MODULE ReleasePathProofs -----------------------------
(***************************************************************************)
(* Theorems about ReleasePath, other than those about the merge of a change: *)
(* what is said of sessions is fresh and goes no further than it may, for    *)
(* any reports on them, calls and ledgers; and a release that is called safe *)
(* has been earned, whatever the sources saw and became of their reports.    *)
(***************************************************************************)
EXTENDS ReleasePath, FiniteSetTheorems, WellFoundedInduction, TLAPS

-----------------------------------------------------------------------------
(* Sets of numbers, and lists *)

\* A set of numbers that is not empty has a least one.
LEMMA LeastIsIn ==
  ASSUME NEW S \in SUBSET Nat, S # {}
  PROVE  Min(S) \in S /\ \A k \in S : Min(S) <= k
<1> DEFINE Less == OpToRel(<, Nat)
<1>1. IsWellFoundedOn(Less, Nat)
  BY NatLessThanWellFounded
<1> HIDE DEF Less
<1>0. S \subseteq Nat
  OBVIOUS
<1>2. PICK m \in S : \A k \in S : <<k, m>> \notin Less
  BY <1>0, <1>1, WFMin
<1>4. \A k \in S : ~(k < m)
  BY <1>0, <1>2 DEF Less, OpToRel
<1>3. \A k \in S : m <= k
  BY <1>0, <1>4
<1> QED BY <1>3 DEF Min

\* A finite set of numbers that is not empty has a greatest one.
LEMMA GreatestExists ==
  ASSUME NEW S \in SUBSET Nat, IsFiniteSet(S), S # {}
  PROVE  \E m \in S : \A k \in S : k <= m
<1> DEFINE Above(m) == {k \in S : k > m}
           T == {Above(m) : m \in S}
<1>1. T \subseteq FiniteSubsetsOf(S) /\ T # {}
  <2>1. \A m \in S : Above(m) \in SUBSET S /\ IsFiniteSet(Above(m))
    BY FS_Subset
  <2>2. \A m \in S : Above(m) \in FiniteSubsetsOf(S)
    BY <2>1 DEF FiniteSubsetsOf
  <2> QED BY <2>2
<1>2. PICK U \in T : \A V \in T : <<V, U>> \notin StrictSubsetOrdering(S)
  <2> HIDE DEF T
  <2> QED BY <1>1, FS_StrictSubsetOrderingWellFounded, WFMin
<1>3. PICK m \in S : U = Above(m)
  BY <1>2
<1>4. ASSUME NEW k \in S, k > m PROVE FALSE
  <2>1. Above(k) \in T /\ Above(k) \in SUBSET S /\ Above(m) \in SUBSET S
    OBVIOUS
  <2>2. Above(k) \subseteq Above(m) /\ k \in Above(m) /\ k \notin Above(k)
    <3>1. k \in Nat /\ m \in Nat /\ \A j \in S : j \in Nat
      OBVIOUS
    <3>2. \A j \in S : j > k => j > m
      BY <1>4, <3>1
    <3>3. ~(k > k)
      BY <3>1
    <3> QED BY <1>4, <3>2, <3>3
  <2> HIDE DEF Above, T
  <2>3. <<Above(k), Above(m)>> \in StrictSubsetOrdering(S)
    BY <2>1, <2>2 DEF StrictSubsetOrdering
  <2> QED BY <1>2, <1>3, <2>1, <2>3
<1> QED BY <1>4

\* The accounts of a call are a list.
LEMMA AccountsAreList ==
  ASSUME NEW c, Len(c.resources) \in Nat, DOMAIN c.resources = 1..Len(c.resources)
  PROVE  \E n \in Nat : /\ DOMAIN AccountsOf(c) = 1..n
                        /\ n = 0 <=> AccountsOf(c) = <<>>
<1> DEFINE places == {n \in DOMAIN c.resources : c.resources[n].type = "account"}
           n == Cardinality(places)
           pick == [m \in 1..n |-> c.resources[CHOOSE i \in places : Cardinality({j \in places : j <= i}) = m]]
<1>1. n \in Nat
  <2>1. IsFiniteSet(1..Len(c.resources))
    BY FS_Interval
  <2>2. IsFiniteSet(places)
    BY <2>1, FS_Subset
  <2> QED BY <2>2, FS_CardinalityType
<1>2. AccountsOf(c) = pick
  BY DEF AccountsOf, At
<1> HIDE DEF n
<1>3. DOMAIN pick = 1..n
  OBVIOUS
<1> HIDE DEF pick, places
<1>4. n = 0 <=> pick = <<>>
  <2>1. n = 0 => DOMAIN pick = {}
    BY <1>3
  <2>2. DOMAIN <<>> = {}
    OBVIOUS
  <2>3. n # 0 => 1 \in DOMAIN pick
    BY <1>1, <1>3
  <2> QED BY <2>1, <2>2, <2>3
<1> QED BY <1>1, <1>2, <1>3, <1>4

-----------------------------------------------------------------------------
(* Admission on the health of sessions *)

\* Sessions are judged in one of four ways, and none is healthy without a report or beside a
\* latest report that says otherwise.
LEMMA HealthySession ==
  ASSUME NEW id, NEW given, NEW at, SessionOf(id, given, at) = "healthy"
  PROVE  LET own == {e \in given : e.resource = id}
             latest == {e \in own : \A f \in own : f.observed <= e.observed}
         IN own # {} /\ \A e \in latest : e.status \notin {"invalid", "stale"} /\ ~(at >= e.expires)
  BY DEF SessionOf

LEMMA SessionKinds ==
  ASSUME NEW id, NEW given, NEW at
  PROVE  SessionOf(id, given, at) \in {"unknown", "invalid", "stale", "healthy"}
  BY DEF SessionOf

\* A list of accounts is healthy exactly if each of its sessions is.
LEMMA HealthyAccounts ==
  ASSUME NEW accounts, NEW n \in Nat, DOMAIN accounts = 1..n, NEW given, NEW at
  PROVE  /\ ProjectedHealth(accounts, given, at) \in {"unknown", "invalid", "stale", "healthy"}
         /\ ProjectedHealth(accounts, given, at) = "healthy" <=>
              \A i \in 1..n : SessionOf(accounts[i].id, given, at) = "healthy"
<1> DEFINE found == [i \in DOMAIN accounts |-> SessionOf(accounts[i].id, given, at)]
           bad == {i \in 1..Len(found) : found[i] \in {"unknown", "invalid"}}
           worst == IF bad # {} THEN Min(bad) ELSE 0
<1>1. DOMAIN found = 1..n /\ Len(found) = n
  OBVIOUS
<1>2. \A i \in 1..n : found[i] = SessionOf(accounts[i].id, given, at) /\ found[i] \in {"unknown", "invalid", "stale", "healthy"}
  BY SessionKinds
<1>3. ProjectedHealth(accounts, given, at) =
        IF worst # 0 THEN found[worst] ELSE IF "stale" \in ToSet(found) THEN "stale" ELSE "healthy"
  BY DEF ProjectedHealth, SelectInSeq
<1>4. ToSet(found) = {found[i] : i \in 1..n}
  BY <1>1 DEF ToSet
<1> HIDE DEF found
<1>5. bad = {i \in 1..n : found[i] \in {"unknown", "invalid"}} /\ bad \in SUBSET Nat
  BY <1>1
<1>6. CASE bad # {}
  <2>1. worst \in bad
    BY <1>5, <1>6, LeastIsIn
  <2>2. worst # 0 /\ worst \in 1..n /\ found[worst] \in {"unknown", "invalid"}
    BY <1>5, <2>1
  <2> HIDE DEF worst
  <2> QED BY <1>2, <1>3, <2>2
<1>7. CASE bad = {}
  <2>1. worst = 0 /\ \A i \in 1..n : found[i] \in {"stale", "healthy"}
    BY <1>2, <1>5, <1>7
  <2> HIDE DEF worst
  <2> QED BY <1>2, <1>3, <1>4, <2>1
<1> QED BY <1>6, <1>7

\* What a call that asks for fresh accounts is told if it is admitted.
LEMMA AdmittedOnHealth ==
  ASSUME NEW c, Len(c.resources) \in Nat, DOMAIN c.resources = 1..Len(c.resources), NEW given,
         HealthGated(c)
  PROVE  AdmissionOn(c, given).status = "admitted" <=>
           /\ c.at # None /\ ToSet(AccountsOf(c)) # {}
           /\ \A e \in given : /\ ValidReport(e) /\ FitsContext(e, c.context)
                               /\ \E r \in ToSet(AccountsOf(c)) : r.id = e.resource
           /\ \A r \in ToSet(AccountsOf(c)) : CredentialFits(r, c.context) /\ SessionOf(r.id, given, c.at) = "healthy"
<1> DEFINE accounts == AccountsOf(c)
           foreign == {e \in given : \A n \in DOMAIN accounts : accounts[n].id # e.resource}
           health == ProjectedHealth(accounts, given, c.at)
<1>1. PICK n \in Nat : DOMAIN accounts = 1..n /\ (n = 0 <=> accounts = <<>>)
  BY AccountsAreList
<1>2. ToSet(accounts) = {accounts[i] : i \in 1..n}
  BY <1>1 DEF ToSet
<1>3. AdmissionOn(c, given) =
        IF c.at = None THEN InvalidContract("health_evidence_contract_invalid")
        ELSE IF \E e \in given : ~ValidReport(e) \/ ~FitsContext(e, c.context)
             THEN InvalidContract("health_evidence_contract_invalid")
        ELSE IF accounts = <<>> THEN OnHealth("unknown", given)
        ELSE IF foreign # {} THEN InvalidContract("health_evidence_contract_invalid")
        ELSE IF \E i \in DOMAIN accounts : ~CredentialFits(accounts[i], c.context)
             THEN InvalidContract("credential_material_contract_invalid")
        ELSE OnHealth(health, given)
  BY DEF AdmissionOn
<1>4. \A w : InvalidContract(w).status = "invalid_contract"
  BY DEF InvalidContract
<1>5. \A h : OnHealth(h, given).status = IF h = "healthy" THEN "admitted" ELSE "rejected"
  BY DEF OnHealth
<1>6. health = "healthy" <=> \A i \in 1..n : SessionOf(accounts[i].id, given, c.at) = "healthy"
  BY <1>1, HealthyAccounts
<1>7. foreign = {} <=> \A e \in given : \E r \in ToSet(accounts) : r.id = e.resource
  BY <1>1, <1>2
<1>8. accounts = <<>> <=> ToSet(accounts) = {}
  BY <1>1, <1>2
<1>9. (\E i \in DOMAIN accounts : ~CredentialFits(accounts[i], c.context)) <=>
        \E r \in ToSet(accounts) : ~CredentialFits(r, c.context)
  BY <1>1, <1>2
<1>10. (\A i \in 1..n : SessionOf(accounts[i].id, given, c.at) = "healthy") <=>
         \A r \in ToSet(accounts) : SessionOf(r.id, given, c.at) = "healthy"
  BY <1>2
<1> HIDE DEF accounts, foreign, health
<1>11. AdmissionOn(c, given).status = "admitted" <=>
         /\ c.at # None /\ accounts # <<>> /\ foreign = {} /\ health = "healthy"
         /\ \A e \in given : ValidReport(e) /\ FitsContext(e, c.context)
         /\ ~\E i \in DOMAIN accounts : ~CredentialFits(accounts[i], c.context)
  BY <1>3, <1>4, <1>5
<1>12. AdmissionOn(c, given).status = "admitted" <=>
           /\ c.at # None /\ ToSet(accounts) # {}
           /\ \A e \in given : /\ ValidReport(e) /\ FitsContext(e, c.context)
                               /\ \E r \in ToSet(accounts) : r.id = e.resource
           /\ \A r \in ToSet(accounts) : CredentialFits(r, c.context) /\ SessionOf(r.id, given, c.at) = "healthy"
  BY <1>6, <1>7, <1>8, <1>9, <1>10, <1>11
<1> QED BY <1>12 DEF accounts

\* A report that a session is invalid, and that is as late as the others on its account,
\* shuts its account's call out.
LEMMA InvalidShutsOut ==
  ASSUME NEW c, Len(c.resources) \in Nat, DOMAIN c.resources = 1..Len(c.resources), HealthGated(c),
         NEW given, NEW e \in given, e.status = "invalid",
         \A f \in given : f.resource = e.resource => f.observed <= e.observed
  PROVE  AdmissionOn(c, given).status # "admitted"
<1>1. SUFFICES ASSUME AdmissionOn(c, given).status = "admitted" PROVE FALSE
  OBVIOUS
<1>2. PICK r \in ToSet(AccountsOf(c)) : r.id = e.resource
  BY <1>1, AdmittedOnHealth
<1>3. SessionOf(e.resource, given, c.at) = "healthy"
  BY <1>1, <1>2, AdmittedOnHealth
<1> QED BY <1>3, HealthySession

\* A session that is judged healthy has a latest report, and was healthy at any time before.
LEMMA VouchedFor ==
  ASSUME NEW given \in SUBSET HealthReports, IsFiniteSet(given), \A e \in given : ValidReport(e),
         NEW id, NEW at \in Nat, SessionOf(id, given, at) = "healthy"
  PROVE  /\ \E e \in given : /\ e.resource = id
                             /\ \A f \in given : f.resource = id /\ f.observed >= e.observed => f.status = "healthy" /\ at < f.expires
         /\ \A before \in 0..at : SessionOf(id, given, before) = "healthy"
<1> DEFINE own == {e \in given : e.resource = id}
           latest == {e \in own : \A f \in own : f.observed <= e.observed}
           times == {e.observed : e \in own}
<1>1. own # {} /\ \A e \in latest : e.status \notin {"invalid", "stale"} /\ ~(at >= e.expires)
  BY HealthySession
<1>2. \A e \in own : e.observed \in Nat /\ e.expires \in Nat \cup {None} /\ ValidReport(e)
  BY ReportAssumption
<1>3. \A e \in latest : e.status = "healthy" /\ e.expires \in Nat /\ at < e.expires
  <2>1. SUFFICES ASSUME NEW e \in latest PROVE e.status = "healthy" /\ e.expires \in Nat /\ at < e.expires
    OBVIOUS
  <2>2. e.status = "healthy"
    BY <1>1, <1>2 DEF ValidReport
  <2>3. e.expires \in Nat
    BY <1>2, <2>2 DEF ValidReport
  <2> QED BY <1>1, <2>2, <2>3
<1>4. PICK m \in times : \A k \in times : k <= m
  <2>1. IsFiniteSet(times)
    <3>1. IsFiniteSet(own)
      BY FS_Subset
    <3> DEFINE f == [e \in own |-> e.observed]
    <3>2. f \in Surjection(own, times)
      BY DEF Surjection
    <3> HIDE DEF own, times, f
    <3> QED BY <3>1, <3>2, FS_Surjection
  <2>2. times \in SUBSET Nat /\ times # {}
    BY <1>1, <1>2
  <2> HIDE DEF times
  <2> QED BY <2>1, <2>2, GreatestExists
<1>5. PICK e \in own : e.observed = m
  BY <1>4
<1>6. ASSUME NEW f \in given, f.resource = id, f.observed >= e.observed PROVE f \in latest
  <2>1. f \in own /\ f.observed \in Nat /\ m \in Nat
    BY <1>2, <1>5, <1>6
  <2>2. \A g \in own : g.observed <= m /\ g.observed \in Nat
    BY <1>2, <1>4
  <2> QED BY <1>5, <1>6, <2>1, <2>2
<1>7. ASSUME NEW before \in 0..at PROVE SessionOf(id, given, before) = "healthy"
  <2>1. \A g \in latest : ~(before >= g.expires) /\ g.status = "healthy"
    BY <1>3
  <2>2. SessionOf(id, given, before) =
          IF own = {} THEN "unknown"
          ELSE IF \E g \in latest : g.status = "invalid" THEN "invalid"
          ELSE IF \E g \in latest : g.status = "stale" \/ before >= g.expires THEN "stale"
          ELSE "healthy"
    BY DEF SessionOf
  <2> HIDE DEF latest, own
  <2> QED BY <1>1, <2>1, <2>2
<1>8. \A f \in given : f.resource = id /\ f.observed >= e.observed => f.status = "healthy" /\ at < f.expires
  BY <1>3, <1>6
<1>9. e \in given /\ e.resource = id
  BY <1>5
<1> HIDE DEF own, latest, times
<1> QED BY <1>7, <1>8, <1>9

\* What a ruling on an admission looks like.
LEMMA AdmissionKinds ==
  ASSUME NEW c, NEW given
  PROVE  \/ \E why : AdmissionOn(c, given) = InvalidContract(why)
         \/ \E health, refs : AdmissionOn(c, given) = OnHealth(health, refs)
  BY DEF AdmissionOn

\* A ruling on any reports and any call is fresh.
LEMMA RulingIsFresh ==
  ASSUME governed \in AdmissionCalls, reported \in SUBSET HealthReports, IsFiniteSet(reported),
         ruling = AdmissionOn(governed, reported)
  PROVE  AdmissionIsFresh
<1> DEFINE c == governed
           accounts == ToSet(AccountsOf(c))
           Vouched(id) == \E e \in reported :
             /\ e.resource = id
             /\ \A f \in reported : f.resource = id /\ f.observed >= e.observed => f.status = "healthy" /\ c.at < f.expires
           At_(at) == [c EXCEPT !.at = at]
<1>1. (ruling.closed <=> ruling.status # "admitted")
      /\ (ruling.status = "invalid_contract" => ruling.health = "unknown" /\ ruling.refs = {})
  <2>1. CASE \E why : ruling = InvalidContract(why)
    BY <2>1 DEF InvalidContract
  <2>2. CASE \E health, refs : ruling = OnHealth(health, refs)
    <3>1. PICK health, refs : ruling = OnHealth(health, refs)
      BY <2>2
    <3>2. ruling.closed = (health # "healthy") /\ ruling.status = IF health = "healthy" THEN "admitted" ELSE "rejected"
      BY <3>1 DEF OnHealth
    <3> QED BY <3>2
  <2> QED BY <2>1, <2>2, AdmissionKinds
<1>2. Len(c.resources) \in Nat /\ DOMAIN c.resources = 1..Len(c.resources) /\ c.at \in Nat \cup {None}
  BY CallAssumption
<1>3. \A at : /\ At_(at).at = at /\ At_(at).resources = c.resources /\ At_(at).context = c.context
              /\ At_(at).fresh = c.fresh /\ At_(at).slots = c.slots
  BY CallAssumption
<1>4. \A at : AccountsOf(At_(at)) = AccountsOf(c) /\ (HealthGated(At_(at)) <=> HealthGated(c))
  BY <1>3 DEF AccountsOf, HealthGated
<1> HIDE DEF At_
<1>5. SUFFICES ASSUME HealthGated(c), ruling.status = "admitted"
      PROVE  /\ accounts # {} /\ \A r \in accounts : r.adapter = c.context.adapter /\ Vouched(r.id)
             /\ \A e \in reported : e.context = c.context /\ \E r \in accounts : r.id = e.resource
             /\ \A at \in 0..c.at : AdmissionOn(At_(at), reported).status = "admitted"
             /\ \A e \in HealthReports :
                  e.status = "invalid" /\ (\A f \in reported : f.observed <= e.observed) =>
                    ~(AdmissionOn(At_(c.at), reported \cup {e}).status = "admitted")
  BY <1>1 DEF AdmissionIsFresh, At_
<1>6. /\ c.at # None /\ accounts # {}
      /\ \A e \in reported : /\ ValidReport(e) /\ FitsContext(e, c.context) /\ \E r \in accounts : r.id = e.resource
      /\ \A r \in accounts : CredentialFits(r, c.context) /\ SessionOf(r.id, reported, c.at) = "healthy"
  BY <1>2, <1>5, AdmittedOnHealth
<1>7. c.at \in Nat
  BY <1>2, <1>6
<1>8. \A r \in accounts : Vouched(r.id) /\ \A at \in 0..c.at : SessionOf(r.id, reported, at) = "healthy"
  BY <1>6, <1>7, VouchedFor
<1>9. ASSUME NEW at \in 0..c.at PROVE AdmissionOn(At_(at), reported).status = "admitted"
  <2>1. at # None
    BY <1>7, ReportAssumption
  <2> DEFINE d == At_(at)
  <2>2. /\ Len(d.resources) \in Nat /\ DOMAIN d.resources = 1..Len(d.resources) /\ HealthGated(d)
        /\ d.at = at /\ d.context = c.context /\ AccountsOf(d) = AccountsOf(c)
    BY <1>2, <1>3, <1>4, <1>5
  <2> HIDE DEF d
  <2>4. \A r \in ToSet(AccountsOf(d)) : CredentialFits(r, d.context) /\ SessionOf(r.id, reported, d.at) = "healthy"
    BY <1>6, <1>8, <2>2
  <2>5. /\ d.at # None /\ ToSet(AccountsOf(d)) # {}
        /\ \A e \in reported : /\ ValidReport(e) /\ FitsContext(e, d.context)
                               /\ \E r \in ToSet(AccountsOf(d)) : r.id = e.resource
    BY <1>6, <2>1, <2>2
  <2> HIDE DEF Vouched, accounts
  <2>3. AdmissionOn(d, reported).status = "admitted"
    BY <2>2, <2>4, <2>5, AdmittedOnHealth
  <2> QED BY <2>3 DEF d
<1>10. ASSUME NEW e \in HealthReports, e.status = "invalid", \A f \in reported : f.observed <= e.observed
       PROVE  AdmissionOn(At_(c.at), reported \cup {e}).status # "admitted"
  <2>1. e.observed <= e.observed
    BY ReportAssumption
  <2>2. \A f \in reported \cup {e} : f.resource = e.resource => f.observed <= e.observed
    BY <1>10, <2>1
  <2> DEFINE d == At_(c.at)
             given == reported \cup {e}
  <2>3. Len(d.resources) \in Nat /\ DOMAIN d.resources = 1..Len(d.resources) /\ HealthGated(d)
    BY <1>2, <1>3, <1>4, <1>5
  <2>4. e \in given /\ \A f \in given : f.resource = e.resource => f.observed <= e.observed
    BY <2>2
  <2> HIDE DEF d, given
  <2>5. AdmissionOn(d, given).status # "admitted"
    BY <1>10, <2>3, <2>4, InvalidShutsOut
  <2> QED BY <2>5 DEF d, given
<1>11. \A r \in accounts : r.adapter = c.context.adapter
  BY <1>6 DEF CredentialFits
<1>12. \A e \in reported : e.context = c.context
  BY <1>6 DEF FitsContext
<1> QED BY <1>6, <1>8, <1>9, <1>10, <1>11, <1>12

-----------------------------------------------------------------------------
(* Invalidation of an account *)

Held(ledger) == UNION {l.resources : l \in ActiveLeases(ledger)}

\* Only a report that is valid, and says invalid, and reaches the ledger, settles or is noted.
LEMMA InvalidationKinds ==
  ASSUME NEW e, NEW who, NEW operation, NEW ledger
  PROVE  LET said == Invalidation(e, who, operation, ledger)
         IN /\ said.status \in {"settled", "rejected"} =>
                 e.status = "invalid" /\ Concerns(e, who, operation) /\ ledger.readable
            /\ said.status = "settled" => Takes(e, ledger) /\ said.ledger = SettleInvalid(e, ledger)
            /\ said.status = "rejected" => Notes(e, ledger)
<1> DEFINE said == Invalidation(e, who, operation, ledger)
<1>0. SUFFICES /\ said.status \in {"settled", "rejected"} =>
                    e.status = "invalid" /\ Concerns(e, who, operation) /\ ledger.readable
               /\ said.status = "settled" => Takes(e, ledger) /\ said.ledger = SettleInvalid(e, ledger)
               /\ said.status = "rejected" => Notes(e, ledger)
  OBVIOUS
<1>1. \A refs : Unfit(refs).status = "invalid_contract"
  BY DEF Unfit, InvalidContract
<1>2. OnHealth("invalid", {e}).status = "rejected"
  BY DEF OnHealth
<1>3. CASE said = Unfit({}) \/ said = Unfit({e})
  BY <1>1, <1>3
<1>4. CASE said = [status |-> "raised"]
  BY <1>4
<1>5. CASE said = [status |-> "resource_state_conflict"]
  BY <1>5
<1>6. CASE /\ e.status = "invalid" /\ Concerns(e, who, operation) /\ ledger.readable
           /\ Takes(e, ledger) /\ said = [status |-> "settled", ledger |-> SettleInvalid(e, ledger)]
  <2>1. said.status = "settled" /\ said.ledger = SettleInvalid(e, ledger)
    BY <1>6
  <2> HIDE DEF said
  <2> QED BY <1>6, <2>1
<1>7. CASE /\ e.status = "invalid" /\ Concerns(e, who, operation) /\ ledger.readable
           /\ Notes(e, ledger) /\ said = OnHealth("invalid", {e})
  <2>1. said.status = "rejected"
    BY <1>2, <1>7
  <2> HIDE DEF said
  <2> QED BY <1>7, <2>1
<1>8. \/ said = Unfit({}) \/ said = Unfit({e})
      \/ said = [status |-> "raised"]
      \/ said = [status |-> "resource_state_conflict"]
      \/ /\ e.status = "invalid" /\ Concerns(e, who, operation) /\ ledger.readable
         /\ Takes(e, ledger) /\ said = [status |-> "settled", ledger |-> SettleInvalid(e, ledger)]
      \/ /\ e.status = "invalid" /\ Concerns(e, who, operation) /\ ledger.readable
         /\ Notes(e, ledger) /\ said = OnHealth("invalid", {e})
  BY DEF Invalidation
<1> HIDE DEF said
<1> QED BY <1>3, <1>4, <1>5, <1>6, <1>7, <1>8

\* What is settled is the lease that the report names, and nothing else.
LEMMA SettledIsScoped ==
  ASSUME NEW e, NEW ledger \in Ledgers, NEW l \in ActiveLeases(ledger),
         l.id = e.lease, OfLease(e, l), OnAccount(e, ledger)
  PROVE  LET after == SettleInvalid(e, ledger)
         IN /\ l \in ledger.leases \ after.leases
            /\ Held(ledger) \ Held(after) = l.resources
            /\ Held(after) = {r \in DOMAIN after.status : after.status[r] = "IN_USE"}
            /\ {r \in DOMAIN after.status : after.status[r] = "INVALID" /\ ledger.status[r] # "INVALID"} = {e.resource}
<1> DEFINE after == SettleInvalid(e, ledger)
           Settled(m) == IF m.id = e.lease THEN [m EXCEPT !.active = FALSE] ELSE m
<1>1. l \in ledger.leases /\ l.active /\ e.resource \in l.resources /\ e.resource \in DOMAIN ledger.status
  BY DEF ActiveLeases, OfLease, OnAccount
<1>2. \A m \in ledger.leases : m.id = e.lease => m = l
  BY <1>1, LedgerAssumption
<1>3. UNION {m.resources : m \in {k \in ledger.leases : k.id = e.lease}} = l.resources
  BY <1>1, <1>2
<1>4. /\ after.leases = {Settled(m) : m \in ledger.leases}
      /\ after.status = [r \in DOMAIN ledger.status |-> IF r = e.resource THEN "INVALID"
                                                        ELSE IF r \in l.resources THEN "AVAILABLE" ELSE ledger.status[r]]
  <2>1. ledger = [readable |-> ledger.readable, leases |-> ledger.leases, status |-> ledger.status]
    BY LedgerAssumption
  <2> QED BY <1>3, <2>1 DEF SettleInvalid
<1> HIDE DEF after
<1>5. \A m \in ledger.leases : m.id # e.lease => Settled(m) = m
  OBVIOUS
<1>6. Settled(l).active = FALSE
  <2>1. l = [id |-> l.id, bundle |-> l.bundle, holder |-> l.holder, resources |-> l.resources, active |-> l.active]
    BY <1>1, LedgerAssumption
  <2>2. [l EXCEPT !.active = FALSE].active = FALSE
    BY <2>1
  <2> QED BY <2>2
<1> HIDE DEF Settled
<1>7. l \notin after.leases
  <2>1. SUFFICES ASSUME NEW m \in ledger.leases, l = Settled(m) PROVE FALSE
    BY <1>4
  <2>2. CASE m = l
    BY <1>1, <1>6, <2>1, <2>2
  <2>3. CASE m # l
    BY <1>2, <1>5, <2>1, <2>3
  <2> QED BY <2>2, <2>3
<1>8. ActiveLeases(after) = ActiveLeases(ledger) \ {l}
  <2>1. ASSUME NEW m \in after.leases, m.active PROVE m \in ledger.leases /\ m # l
    <3>1. PICK k \in ledger.leases : m = Settled(k)
      BY <1>4
    <3>2. k # l
      BY <1>6, <2>1, <3>1
    <3> QED BY <1>2, <1>5, <3>1, <3>2
  <2>2. ASSUME NEW m \in ledger.leases, m # l PROVE m \in after.leases
    <3>1. m = Settled(m)
      BY <1>2, <1>5, <2>2
    <3> QED BY <1>4, <3>1
  <2> QED BY <2>1, <2>2 DEF ActiveLeases
<1>9. \A m \in ActiveLeases(ledger) : m # l => m.resources \cap l.resources = {}
  BY <1>1, LedgerAssumption DEF ActiveLeases
<1>10. \A r : /\ r \in Held(ledger) <=> \E m \in ActiveLeases(ledger) : r \in m.resources
              /\ r \in Held(after) <=> \E m \in ActiveLeases(ledger) : m # l /\ r \in m.resources
  BY <1>8 DEF Held
<1>11. Held(ledger) \ Held(after) = l.resources
  BY <1>9, <1>10
<1>12. \A r \in l.resources : r \in DOMAIN ledger.status /\ ledger.status[r] = "IN_USE"
  BY <1>1, LedgerAssumption
<1>13. \A r : r \in Held(ledger) <=> r \in DOMAIN ledger.status /\ ledger.status[r] = "IN_USE"
  BY <1>10, LedgerAssumption DEF ActiveLeases
<1>14. \A r : r \in Held(after) <=> r \in DOMAIN after.status /\ after.status[r] = "IN_USE"
  <2>1. \A r : r \in Held(after) <=> r \in Held(ledger) /\ r \notin l.resources
    BY <1>9, <1>10, <1>11
  <2>2. \A r : r \in DOMAIN after.status /\ after.status[r] = "IN_USE" <=>
                 r \in DOMAIN ledger.status /\ r \notin l.resources /\ ledger.status[r] = "IN_USE"
    BY <1>1, <1>4
  <2> QED BY <1>13, <2>1, <2>2
<1>15. {r \in DOMAIN after.status : after.status[r] = "INVALID" /\ ledger.status[r] # "INVALID"} = {e.resource}
  <2>1. after.status[e.resource] = "INVALID" /\ ledger.status[e.resource] # "INVALID" /\ e.resource \in DOMAIN after.status
    BY <1>1, <1>4, <1>12
  <2>2. \A r \in DOMAIN after.status : r # e.resource /\ after.status[r] = "INVALID" => ledger.status[r] = "INVALID"
    BY <1>4
  <2> QED BY <2>1, <2>2
<1>16. Held(after) = {r \in DOMAIN after.status : after.status[r] = "IN_USE"}
  BY <1>14
<1> QED BY <1>1, <1>7, <1>11, <1>15, <1>16 DEF after

\* A ruling on any report, ledger and task that is told of it is scoped.
LEMMA RulingIsScoped ==
  ASSUME NEW e \in HealthReports, NEW who, NEW operation, NEW ledger \in Ledgers,
         reported = {e}, governed = [task |-> who, operation |-> operation, ledger |-> ledger],
         ruling = Invalidation(e, who, operation, ledger)
  PROVE  InvalidationIsScoped
<1>1. governed.ledger = ledger /\ governed.task = who
  OBVIOUS
<1>2. /\ ruling.status \in {"settled", "rejected"} =>
           e.status = "invalid" /\ Concerns(e, who, operation) /\ ledger.readable
      /\ ruling.status = "settled" => Takes(e, ledger) /\ ruling.ledger = SettleInvalid(e, ledger)
      /\ ruling.status = "rejected" => Notes(e, ledger)
  BY InvalidationKinds
<1>3. ASSUME ruling.status = "settled"
      PROVE  LET after == ruling.ledger
             IN /\ \E l \in ledger.leases \ after.leases :
                     /\ l.holder.task = who /\ e.resource \in l.resources
                     /\ Held(ledger) \ Held(after) = l.resources
                /\ Held(after) = {r \in DOMAIN after.status : after.status[r] = "IN_USE"}
                /\ {r \in DOMAIN after.status : after.status[r] = "INVALID" /\ ledger.status[r] # "INVALID"} = {e.resource}
                /\ e.resource \in AccountIds
  <2>1. PICK l \in ActiveLeases(ledger) : l.id = e.lease /\ OfLease(e, l) /\ OnAccount(e, ledger)
    BY <1>2, <1>3 DEF Takes
  <2>2. l.holder.task = who
    <3>1. "task" \in DOMAIN l.holder
      BY <2>1, LedgerAssumption DEF ActiveLeases
    <3> QED BY <1>2, <1>3, <2>1, <3>1 DEF OfLease, Concerns
  <2>3. e.resource \in l.resources /\ e.resource \in AccountIds
    BY <2>1 DEF OfLease, OnAccount
  <2>4. ruling.ledger = SettleInvalid(e, ledger)
    BY <1>2, <1>3
  <2> QED BY <2>1, <2>2, <2>3, <2>4, SettledIsScoped
<1>4. ASSUME ruling.status = "rejected" PROVE e.resource \notin Held(ledger) /\ ledger.readable
  BY <1>2, <1>4 DEF Notes, Held
<1>5. ASSUME ruling.status \in {"settled", "rejected"}, NEW c \in AdmissionCalls, NEW f \in HealthReports,
             HealthGated(c), f.observed <= e.observed
      PROVE  AdmissionOn(c, {e, f}).status # "admitted"
  <2>1. Len(c.resources) \in Nat /\ DOMAIN c.resources = 1..Len(c.resources)
    BY CallAssumption
  <2>2. \A g \in {e, f} : g.observed <= e.observed
    BY <1>5, ReportAssumption
  <2> DEFINE given == {e, f}
  <2>3. e \in given /\ e.status = "invalid" /\ \A g \in given : g.resource = e.resource => g.observed <= e.observed
    BY <1>2, <1>5, <2>2
  <2> HIDE DEF given
  <2>4. AdmissionOn(c, given).status # "admitted"
    BY <1>5, <2>1, <2>3, InvalidShutsOut
  <2> QED BY <2>4 DEF given
<1> QED BY <1>1, <1>3, <1>4, <1>5 DEF InvalidationIsScoped, Held

-----------------------------------------------------------------------------
(* The steps of the path *)

\* A ruling is still that of its call when it is looked at: no step of the path, other than
\* those that make one, leads to where one is.
HealthInv ==
  /\ reported \in SUBSET HealthReports /\ IsFiniteSet(reported)
  /\ stage = "admission" => governed \in AdmissionCalls /\ ruling = AdmissionOn(governed, reported)
  /\ stage = "invalidation" =>
       \E e \in HealthReports, c \in AdmissionCalls, ledger \in Ledgers :
         /\ reported = {e}
         /\ governed = [task |-> c.context.task, operation |-> c.context.operation, ledger |-> ledger]
         /\ ruling = Invalidation(e, c.context.task, c.context.operation, ledger)

LEMMA GovernKeeps ==
  ASSUME HealthInv, Govern
  PROVE  HealthInv'
<1>1. ASSUME NEW e \in HealthReports, Report(e), stage' = "reporting"
      PROVE  HealthInv'
  <2>1. reported' \in SUBSET HealthReports /\ IsFiniteSet(reported')
    BY <1>1, FS_AddElement DEF Report, HealthInv
  <2> QED BY <1>1, <2>1 DEF HealthInv
<1>2. ASSUME NEW c \in AdmissionCalls, AskAdmission(c), stage' = "admission"
      PROVE  HealthInv'
  <2>1. reported' = reported /\ governed' = c /\ ruling' = AdmissionOn(governed', reported')
    BY <1>2 DEF AskAdmission
  <2>2. reported' \in SUBSET HealthReports /\ IsFiniteSet(reported')
    BY <2>1 DEF HealthInv
  <2>3. HealthInv' <=>
          /\ reported' \in SUBSET HealthReports /\ IsFiniteSet(reported')
          /\ governed' \in AdmissionCalls /\ ruling' = AdmissionOn(governed', reported')
    BY <1>2 DEF HealthInv
  <2> QED BY <2>1, <2>2, <2>3
<1>3. ASSUME NEW e \in HealthReports, NEW ledger \in Ledgers, NEW c \in AdmissionCalls,
             AskInvalidation(e, c.context.task, c.context.operation, ledger), stage' = "invalidation"
      PROVE  HealthInv'
  <2>1. /\ reported' = {e}
        /\ governed' = [task |-> c.context.task, operation |-> c.context.operation, ledger |-> ledger]
        /\ ruling' = Invalidation(e, c.context.task, c.context.operation, ledger)
    BY <1>3 DEF AskInvalidation
  <2>2. reported' \in SUBSET HealthReports /\ IsFiniteSet(reported')
    BY <2>1, FS_Singleton
  <2> QED BY <1>3, <2>1, <2>2 DEF HealthInv
<1> QED BY <1>1, <1>2, <1>3 DEF Govern

LEMMA OthersKeep ==
  ASSUME HealthInv, [Next]_vars
  PROVE  Govern \/ HealthInv'
<1>1. CASE UNCHANGED vars
  BY <1>1 DEF HealthInv, vars, governance
<1>2. ASSUME UNCHANGED governance, stage' \notin {"admission", "invalidation"}
      PROVE  HealthInv'
  BY <1>2 DEF HealthInv, governance
<1>3. CASE Contribute
  BY <1>2, <1>3 DEF Contribute
<1>4. ASSUME NEW i \in Inputs, DecideOn(i) PROVE HealthInv'
  BY <1>2, <1>4 DEF DecideOn
<1>5. ASSUME NEW others \in Registries, RegisterDecided(others) PROVE HealthInv'
  BY <1>2, <1>5 DEF RegisterDecided
<1>6. ASSUME NEW others \in Registries, RegisterOthers(others) PROVE HealthInv'
  BY <1>2, <1>6 DEF RegisterOthers
<1>7. ASSUME NEW r \in Requests, SubmitRequest(r) PROVE HealthInv'
  BY <1>2, <1>7 DEF SubmitRequest
<1>8. CASE Execute
  BY <1>2, <1>8 DEF Execute
<1>9. CASE Read
  BY <1>2, <1>9 DEF Read
<1>10. CASE Fetch
  BY <1>2, <1>10 DEF Fetch
<1>11. CASE Undertake
  BY <1>2, <1>11 DEF Undertake
<1>12. CASE Try
  BY <1>2, <1>12 DEF Try
<1>13. ASSUME NEW x \in Rehearsals, Rehearse(x) PROVE HealthInv'
  BY <1>2, <1>13 DEF Rehearse
<1>14. ASSUME NEW s \in Sources, Alter(s) PROVE HealthInv'
  BY <1>2, <1>14 DEF Alter
<1>15. ASSUME NEW a \in GateArguments, DecideRelease(a) PROVE HealthInv'
  BY <1>2, <1>15 DEF DecideRelease
<1>16. ASSUME NEW revision \in Revisions, NEW mentions \in SUBSET {revision}, RunCases(revision, mentions) PROVE HealthInv'
  BY <1>2, <1>16 DEF RunCases
<1>17. ASSUME NEW c \in Certifications, NEW own \in BOOLEAN, Certify(c, own) PROVE HealthInv'
  BY <1>2, <1>17 DEF Certify
<1> QED
  BY <1>1, <1>3, <1>4, <1>5, <1>6, <1>7, <1>8, <1>9, <1>10, <1>11, <1>12, <1>13, <1>14, <1>15, <1>16, <1>17 DEF Next

\* A ruling on show is that of the call beside it, in every state.
LEMMA HealthInvariance == Spec => []HealthInv
<1>1. Init => HealthInv
  BY FS_EmptySet DEF Init, HealthInit, HealthInv
<1>2. HealthInv /\ [Next]_vars => HealthInv'
  BY GovernKeeps, OthersKeep
<1> QED BY <1>1, <1>2, PTL DEF Spec

\* A task whose account must be fresh is admitted only on the word of the latest reports on
\* its own accounts, and one report that says invalid shuts it out; a report takes an account
\* away from the task that holds it and from no other.  This is so for any reports, calls and
\* ledgers, and at any point of the path.
THEOREM SessionsGoverned == Spec => []SessionsAreGoverned
<1>1. HealthInv => SessionsAreGoverned
  <2>1. SUFFICES ASSUME HealthInv PROVE SessionsAreGoverned
    OBVIOUS
  <2>2. ASSUME stage = "admission" PROVE AdmissionIsFresh
    <3>1. /\ governed \in AdmissionCalls /\ reported \in SUBSET HealthReports /\ IsFiniteSet(reported)
          /\ ruling = AdmissionOn(governed, reported)
      BY <2>1, <2>2 DEF HealthInv
    <3> QED BY <3>1, RulingIsFresh
  <2>3. ASSUME stage = "invalidation" PROVE InvalidationIsScoped
    <3>1. PICK e \in HealthReports, c \in AdmissionCalls, ledger \in Ledgers :
            /\ reported = {e}
            /\ governed = [task |-> c.context.task, operation |-> c.context.operation, ledger |-> ledger]
            /\ ruling = Invalidation(e, c.context.task, c.context.operation, ledger)
      BY <2>1, <2>3 DEF HealthInv
    <3> QED BY <3>1, RulingIsScoped
  <2> QED BY <2>2, <2>3 DEF SessionsAreGoverned
<1> QED BY <1>1, HealthInvariance, PTL

-----------------------------------------------------------------------------
(* Chains of checks, and lists *)

\* If a chain of checks finds no fault, none of its conditions holds; and the other way round.
LEMMA FirstFaultFacts ==
  ASSUME NEW checks, NEW n \in Nat, DOMAIN checks = 1..n, \A i \in 1..n : checks[i][2] # None
  PROVE  FirstFault(checks) = None <=> \A i \in 1..n : ~checks[i][1]
<1> DEFINE failing == {i \in DOMAIN checks : checks[i][1]}
<1>1. FirstFault(checks) = IF failing = {} THEN None ELSE checks[Min(failing)][2]
  BY DEF FirstFault
<1>2. failing \in SUBSET Nat /\ failing \subseteq 1..n
  OBVIOUS
<1>3. failing # {} => Min(failing) \in failing
  BY <1>2, LeastIsIn
<1>4. failing = {} <=> \A i \in 1..n : ~checks[i][1]
  OBVIOUS
<1> HIDE DEF failing
<1> QED BY <1>1, <1>2, <1>3, <1>4

\* If a list of checks finds no fault, none of its conditions holds.
LEMMA NoFaults ==
  ASSUME NEW checks, AllFaults(checks) = {}
  PROVE  \A i \in DOMAIN checks : ~checks[i][1]
  BY DEF AllFaults

\* A list of checks finds no fault if none of its conditions holds.
LEMMA Faultless ==
  ASSUME NEW checks, \A i \in DOMAIN checks : ~checks[i][1]
  PROVE  AllFaults(checks) = {}
  BY DEF AllFaults

\* The entries of a list at all its places are the list.
LEMMA AtAllPlaces ==
  ASSUME NEW l, IsList(l)
  PROVE  At(l, DOMAIN l) = l
<1> DEFINE n == Len(l)
           places == 1..n
<1>1. n \in Nat /\ DOMAIN l = places /\ l = [i \in places |-> l[i]]
  BY DEF IsList
<1>2. \A k \in places : Cardinality(1..k) = k
  BY <1>1, FS_Interval
<1>3. \A k \in places : {j \in places : j <= k} = 1..k
  BY <1>1
<1>4. Cardinality(places) = n
  BY <1>1, FS_Interval
<1>5. ASSUME NEW m \in places PROVE (CHOOSE i \in places : Cardinality({j \in places : j <= i}) = m) = m
  <2>1. \A i \in places : Cardinality({j \in places : j <= i}) = i
    BY <1>2, <1>3
  <2> HIDE DEF places
  <2> QED BY <2>1
<1>6. At(l, places) = [m \in 1..Cardinality(places) |-> l[CHOOSE i \in places : Cardinality({j \in places : j <= i}) = m]]
  BY DEF At
<1>7. At(l, places) = [m \in places |-> l[m]]
  BY <1>4, <1>5, <1>6
<1> HIDE DEF places
<1> QED BY <1>1, <1>7

\* The entries of a list at some of its places are a list.
LEMMA AtIsList ==
  ASSUME NEW l, NEW places \in SUBSET (DOMAIN l), IsFiniteSet(DOMAIN l)
  PROVE  IsList(At(l, places))
<1> DEFINE n == Cardinality(places)
           some == [m \in 1..n |-> l[CHOOSE i \in places : Cardinality({j \in places : j <= i}) = m]]
<1>1. n \in Nat
  BY FS_Subset, FS_CardinalityType
<1>2. At(l, places) = some
  BY DEF At
<1> HIDE DEF n
<1>3. Len(some) = n /\ some = [m \in 1..n |-> some[m]]
  BY <1>1
<1> HIDE DEF some
<1> QED BY <1>1, <1>2, <1>3 DEF IsList

-----------------------------------------------------------------------------
(* What a report without failures says *)

\* An entry of the harness that is kept has no fault.
LEMMA ResultIsSound ==
  ASSUME NEW results, NEW i, ResultFault(results, i) = None
  PROVE  /\ results[i].malformed = None
         /\ \A j \in 1..(i - 1) : results[j].malformed # "entry" => results[j].sample # results[i].sample
         /\ Consistent(results[i])
<1> DEFINE checks == << <<results[i].malformed = "entry", "invalid_validation_result_entry">>,
                <<results[i].sample = None, "invalid_sample_id">>,
                <<\E j \in 1..(i - 1) : /\ results[j].malformed # "entry"
                                        /\ results[j].sample = results[i].sample, "duplicate_sample_id">>,
                <<results[i].malformed # None, "invalid_result_field">>,
                <<~Consistent(results[i]), "inconsistent_observation">> >>
<1>1. FirstFault(checks) = None
  BY DEF ResultFault
<1>2. DOMAIN checks = 1..5 /\ \A k \in 1..5 : checks[k][2] # None
  BY CodeAssumption
<1>3. \A k \in 1..5 : ~checks[k][1]
  <2> HIDE DEF checks
  <2> QED BY <1>1, <1>2, FirstFaultFacts
<1>4. ~checks[3][1] /\ ~checks[4][1] /\ ~checks[5][1]
  <2> HIDE DEF checks
  <2> QED BY <1>3
<1> QED BY <1>4

\* What a harness without failures is.
LEMMA HarnessChecks ==
  ASSUME NEW results, NEW required, NEW version
  PROVE  LET verdicts == {KeptResults(results)[i].verdict : i \in DOMAIN KeptResults(results)}
         IN HarnessFailures(results, required, version) = {} <=>
              /\ StringList(required) /\ required # <<>> /\ ToSet(required) \subseteq SampleIds(KeptResults(results))
              /\ "contract_violation" \notin verdicts /\ "execution_precondition_not_met" \notin verdicts
              /\ version # "blank" /\ ResultFaults(results) = {}
<1> DEFINE kept == KeptResults(results)
           verdicts == {kept[i].verdict : i \in DOMAIN kept}
           checks == << <<~StringList(required), "invalid_required_sample_ids">>,
                     <<Listed(required) = <<>>, "empty_required_sample_ids">>,
                     <<~(ToSet(Listed(required)) \subseteq SampleIds(kept)), "missing_required_harness_samples">>,
                     <<"contract_violation" \in verdicts, "contract_violation_observed">>,
                     <<"execution_precondition_not_met" \in verdicts,
                       "execution_precondition_not_met_observed">>,
                     <<version = "blank", "missing_version">> >>
<1>1. HarnessFailures(results, required, version) = AllFaults(checks) \cup ResultFaults(results)
  BY DEF HarnessFailures
<1>2. DOMAIN checks = 1..6
  OBVIOUS
<1>3. AllFaults(checks) = {} <=>
        ~checks[1][1] /\ ~checks[2][1] /\ ~checks[3][1] /\ ~checks[4][1] /\ ~checks[5][1] /\ ~checks[6][1]
  <2> HIDE DEF checks
  <2>1. AllFaults(checks) = {} <=> \A k \in 1..6 : ~checks[k][1]
    BY <1>2, NoFaults, Faultless
  <2> QED BY <2>1
<1> DEFINE sound == /\ StringList(required) /\ Listed(required) # <<>> /\ ToSet(Listed(required)) \subseteq SampleIds(kept)
                    /\ "contract_violation" \notin verdicts /\ "execution_precondition_not_met" \notin verdicts
                    /\ version # "blank"
<1>4. ~checks[1][1] /\ ~checks[2][1] /\ ~checks[3][1] /\ ~checks[4][1] /\ ~checks[5][1] /\ ~checks[6][1] <=> sound
  <2> HIDE DEF kept, verdicts
  <2> QED OBVIOUS
<1>5. HarnessFailures(results, required, version) = {} <=> sound /\ ResultFaults(results) = {}
  <2> HIDE DEF checks, sound
  <2> QED BY <1>1, <1>3, <1>4
<1> QED BY <1>5 DEF Listed

\* A harness without failures keeps every result it got.
LEMMA HarnessIsKept ==
  ASSUME NEW results, results # None => IsList(results), ResultFaults(results) = {}
  PROVE  /\ results # None /\ KeptResults(results) = results
         /\ \A n \in DOMAIN results : ResultFault(results, n) = None
<1>1. results # None /\ \A n \in DOMAIN results : ResultFault(results, n) = None
  BY DEF ResultFaults
<1>2. {n \in DOMAIN results : ResultFault(results, n) = None} = DOMAIN results
  BY <1>1
<1>3. KeptResults(results) = results
  BY <1>1, <1>2, AtAllPlaces DEF KeptResults
<1> QED BY <1>1, <1>3

\* A harness without failures has seen each sample it had to see, once, and nothing worse
\* than a legal failure.
LEMMA HarnessIsEarned ==
  ASSUME NEW results, results # None => IsList(results), NEW required, NEW version,
         HarnessFailures(results, required, version) = {}
  PROVE  /\ results # None /\ StringList(required) /\ required # <<>>
         /\ \A sample \in ToSet(required) : \E n \in DOMAIN results : results[n].sample = sample
         /\ \A m, n \in DOMAIN results : results[m].sample = results[n].sample => m = n
         /\ \A n \in DOMAIN results :
              \/ results[n].verdict = "pass" /\ results[n].status = "success"
              \/ /\ results[n].verdict = "legal_failure" /\ results[n].status = "failed"
                 /\ results[n].category \in LegalCategories
<1> DEFINE kept == KeptResults(results)
           verdicts == {kept[i].verdict : i \in DOMAIN kept}
<1>3. /\ StringList(required) /\ required # <<>> /\ ToSet(required) \subseteq SampleIds(kept)
      /\ "contract_violation" \notin verdicts /\ "execution_precondition_not_met" \notin verdicts
      /\ ResultFaults(results) = {}
  BY HarnessChecks
<1>5. results # None /\ \A n \in DOMAIN results : ResultFault(results, n) = None
  BY <1>3, HarnessIsKept
<1>6. kept = results
  BY <1>3, HarnessIsKept
<1> HIDE DEF kept
<1>7. \A n \in DOMAIN results :
        /\ results[n].malformed = None
        /\ \A j \in 1..(n - 1) : results[j].malformed # "entry" => results[j].sample # results[n].sample
        /\ Consistent(results[n])
  BY <1>5, ResultIsSound
<1>8. DOMAIN results = 1..Len(results) /\ Len(results) \in Nat
  BY <1>5 DEF IsList
<1>9. ASSUME NEW m \in DOMAIN results, NEW n \in DOMAIN results, results[m].sample = results[n].sample, m < n
      PROVE FALSE
  <2>1. m \in 1..(n - 1)
    BY <1>8, <1>9
  <2>2. results[m].malformed # "entry"
    BY <1>7, CodeAssumption
  <2> QED BY <1>7, <1>9, <2>1, <2>2
<1>10. \A m, n \in DOMAIN results : results[m].sample = results[n].sample => m = n
  BY <1>8, <1>9
<1>11. \A n \in DOMAIN results : results[n].verdict \notin {"contract_violation", "execution_precondition_not_met"}
  BY <1>3, <1>6
<1>12. \A n \in DOMAIN results :
              \/ results[n].verdict = "pass" /\ results[n].status = "success"
              \/ /\ results[n].verdict = "legal_failure" /\ results[n].status = "failed"
                 /\ results[n].category \in LegalCategories
  BY <1>7, <1>11 DEF Consistent
<1>13. \A sample \in ToSet(required) : \E n \in DOMAIN results : results[n].sample = sample
  BY <1>3, <1>6 DEF SampleIds
<1> QED BY <1>3, <1>5, <1>10, <1>12, <1>13

\* What a scan without failures is.
LEMMA ScanChecks ==
  ASSUME NEW payload, NEW version
  PROVE  LET listed == Listed(payload.evidence)
             findings == KeptFindings(payload.findings)
         IN LeakageFailures(payload, version) = {} <=>
              /\ version # "blank" /\ listed # <<>> /\ payload.version = version
              /\ payload.boundaries = Boundaries /\ StringList(payload.boundaries)
              /\ payload.findings # None /\ payload.verdict = "pass" /\ findings = <<>>
              /\ FindingRefs(findings) \subseteq ToSet(listed)
              /\ ToSet(listed) = ToSet(ScanRefs) \cup FindingRefs(findings)
              /\ FindingFaults(payload.findings) = {}
<1> DEFINE listed == Listed(payload.evidence)
           scope == Listed(payload.boundaries)
           findings == KeptFindings(payload.findings)
           refs == FindingRefs(findings)
           verdict == LeakageVerdict(payload)
           checks ==
             << <<version = "blank", "missing_version">>,
                  <<listed = <<>>, "missing_evidence_refs">>,
                  <<payload.version # version, "version_mismatch">>,
                  <<~StringList(payload.boundaries), "invalid_boundary_scope">>,
                  <<~(ToSet(Boundaries) \subseteq ToSet(scope)), "missing_boundary_scope">>,
                  <<~(ToSet(scope) \subseteq ToSet(Boundaries)), "unexpected_boundary_scope">>,
                  <<ToSet(scope) = ToSet(Boundaries) /\ scope # Boundaries, "boundary_scope_order_mismatch">>,
                  <<payload.findings = None, "missing_leakage_findings">>,
                  <<payload.verdict # verdict, "invalid_leakage_verdict">>,
                  <<verdict = "pass" /\ findings # <<>>, "pass_report_with_findings">>,
                  <<verdict = "fail" /\ findings = <<>>, "failure_report_without_findings">>,
                  <<verdict = "fail" /\ findings # <<>>, "leakage_found">>,
                  <<~(refs \subseteq ToSet(listed)), "finding_evidence_ref_missing_from_evidence_refs">>,
                  <<ToSet(listed) # ToSet(ScanRefs) \cup refs, "platform_leakage_evidence_refs_mismatch">> >>
<1>1. LeakageFailures(payload, version) = AllFaults(checks) \cup FindingFaults(payload.findings)
  BY DEF LeakageFailures
<1>2. DOMAIN checks = 1..14
  OBVIOUS
<1> HIDE DEF listed, scope, findings, refs, verdict
<1>3. AllFaults(checks) = {} <=>
        /\ ~checks[1][1] /\ ~checks[2][1] /\ ~checks[3][1] /\ ~checks[4][1] /\ ~checks[5][1] /\ ~checks[6][1]
        /\ ~checks[7][1] /\ ~checks[8][1] /\ ~checks[9][1] /\ ~checks[10][1] /\ ~checks[11][1] /\ ~checks[12][1]
        /\ ~checks[13][1] /\ ~checks[14][1]
  <2> HIDE DEF checks
  <2>1. AllFaults(checks) = {} <=> \A k \in 1..14 : ~checks[k][1]
    BY <1>2, NoFaults, Faultless
  <2> QED BY <2>1
<1>4. /\ ~checks[1][1] <=> version # "blank"
      /\ ~checks[2][1] <=> listed # <<>>
      /\ ~checks[3][1] <=> payload.version = version
      /\ ~checks[4][1] <=> StringList(payload.boundaries)
      /\ ~checks[5][1] <=> ToSet(Boundaries) \subseteq ToSet(scope)
      /\ ~checks[6][1] <=> ToSet(scope) \subseteq ToSet(Boundaries)
      /\ ~checks[7][1] <=> ~(ToSet(scope) = ToSet(Boundaries) /\ scope # Boundaries)
  OBVIOUS
<1>5. /\ ~checks[8][1] <=> payload.findings # None
      /\ ~checks[9][1] <=> payload.verdict = verdict
      /\ ~checks[10][1] <=> ~(verdict = "pass" /\ findings # <<>>)
      /\ ~checks[11][1] <=> ~(verdict = "fail" /\ findings = <<>>)
      /\ ~checks[12][1] <=> ~(verdict = "fail" /\ findings # <<>>)
      /\ ~checks[13][1] <=> refs \subseteq ToSet(listed)
      /\ ~checks[14][1] <=> ToSet(listed) = ToSet(ScanRefs) \cup refs
  OBVIOUS
<1> HIDE DEF checks
<1>6. ~checks[5][1] /\ ~checks[6][1] /\ ~checks[7][1] <=> scope = Boundaries
  BY <1>4
<1>7. ~checks[9][1] /\ ~checks[10][1] /\ ~checks[11][1] /\ ~checks[12][1] <=> payload.verdict = "pass" /\ findings = <<>>
  BY <1>5 DEF verdict, LeakageVerdict
<1>8. StringList(payload.boundaries) => scope = payload.boundaries
  BY DEF scope, Listed
<1>9. LeakageFailures(payload, version) = {} <=>
        /\ version # "blank" /\ listed # <<>> /\ payload.version = version
        /\ payload.boundaries = Boundaries /\ StringList(payload.boundaries)
        /\ payload.findings # None /\ payload.verdict = "pass" /\ findings = <<>>
        /\ refs \subseteq ToSet(listed) /\ ToSet(listed) = ToSet(ScanRefs) \cup refs
        /\ FindingFaults(payload.findings) = {}
  BY <1>1, <1>3, <1>4, <1>5, <1>6, <1>7, <1>8
<1> QED BY <1>9 DEF listed, findings, refs

\* A scan without failures covered the boundaries in order and found nothing.
LEMMA ScanIsEarned ==
  ASSUME NEW payload, payload.findings # None => IsList(payload.findings), NEW version,
         LeakageFailures(payload, version) = {}
  PROVE  /\ payload.boundaries = Boundaries /\ payload.verdict = "pass"
         /\ payload.findings = <<>>
<1> DEFINE raw == payload.findings
<1>1. /\ payload.boundaries = Boundaries /\ payload.verdict = "pass"
      /\ raw # None /\ KeptFindings(raw) = <<>> /\ FindingFaults(raw) = {}
  BY ScanChecks
<1> HIDE DEF raw
<1>2. {i \in DOMAIN raw : FindingFault(raw[i]) = None} = DOMAIN raw
  <2>1. {FindingFault(raw[i]) : i \in DOMAIN raw} \ {None} = {}
    BY <1>1 DEF FindingFaults
  <2>2. \A i \in DOMAIN raw : FindingFault(raw[i]) = None
    BY <2>1
  <2> QED BY <2>2
<1>3. KeptFindings(raw) = raw
  BY <1>1, <1>2, AtAllPlaces DEF KeptFindings, raw
<1> QED BY <1>1, <1>3 DEF raw

\* Entries and cases that are kept have no fault, and no entry or case is there twice.
LEMMA EntryIsSound ==
  ASSUME NEW entries, NEW i
  PROVE  EntryFault(entries, i) = None <=>
           /\ entries[i].malformed # "entry" /\ entries[i].key # None
           /\ \A j \in 1..(i - 1) : entries[j].malformed # "entry" => entries[j].key # entries[i].key
<1> DEFINE checks == << <<entries[i].malformed = "entry", "invalid_adapter_result_entry">>,
                <<entries[i].key = None, "invalid_adapter_key">>,
                <<\E j \in 1..(i - 1) : entries[j].malformed # "entry" /\ entries[j].key = entries[i].key,
                  "duplicate_adapter_key">> >>
<1>1. EntryFault(entries, i) = FirstFault(checks)
  BY DEF EntryFault
<1>2. DOMAIN checks = 1..3 /\ \A k \in 1..3 : checks[k][2] # None
  BY CodeAssumption
<1>3. FirstFault(checks) = None <=> \A k \in 1..3 : ~checks[k][1]
  <2> HIDE DEF checks
  <2> QED BY <1>2, FirstFaultFacts
<1>4. (\A k \in 1..3 : ~checks[k][1]) <=> ~checks[1][1] /\ ~checks[2][1] /\ ~checks[3][1]
  <2> HIDE DEF checks
  <2> QED OBVIOUS
<1>5. ~checks[1][1] /\ ~checks[2][1] /\ ~checks[3][1] <=>
        /\ entries[i].malformed # "entry" /\ entries[i].key # None
        /\ \A j \in 1..(i - 1) : entries[j].malformed # "entry" => entries[j].key # entries[i].key
  OBVIOUS
<1> HIDE DEF checks
<1> QED BY <1>1, <1>3, <1>4, <1>5

\* What is expected of a case that is kept is what became of it.
LEMMA OutcomeIsSound ==
  ASSUME NEW c, OutcomeFault(c) = None
  PROVE  /\ c.outcome = "success" => c.status = "success"
         /\ c.outcome = "allowed_failure" => c.status = "failed" /\ c.category \in AllowedCategories
<1> DEFINE checks == << <<c.outcome = "success" /\ c.status # "success", "expected_success_not_observed">>,
                <<c.outcome = "allowed_failure" /\ c.status # "failed", "expected_failure_not_observed">>,
                <<c.outcome = "allowed_failure" /\ c.category \notin AllowedCategories,
                  "disallowed_failure_category">> >>
<1>1. FirstFault(checks) = None
  BY DEF OutcomeFault
<1>2. DOMAIN checks = 1..3 /\ \A k \in 1..3 : checks[k][2] # None
  BY CodeAssumption
<1>3. \A k \in 1..3 : ~checks[k][1]
  <2> HIDE DEF checks
  <2> QED BY <1>1, <1>2, FirstFaultFacts
<1>4. ~checks[1][1] /\ ~checks[2][1] /\ ~checks[3][1]
  <2> HIDE DEF checks
  <2> QED BY <1>3
<1> QED BY <1>4

\* The entries of a regression: a list of what each adapter did with a list of cases.
IsEntries(entries) ==
  /\ IsList(entries)
  /\ \A n \in DOMAIN entries :
       /\ entries[n] = [malformed |-> entries[n].malformed, key |-> entries[n].key, cases |-> entries[n].cases]
       /\ IsList(entries[n].cases)

\* Entries without a fault are kept as they are.
LEMMA SoundEntriesAreKept ==
  ASSUME NEW entries, IsEntries(entries), EntryFaults(entries) = {}
  PROVE  KeptEntries(entries) = entries
<1>1. \A n \in DOMAIN entries : EntryFault(entries, n) = None
  BY DEF EntryFaults
<1>2. GoodEntries(entries) = DOMAIN entries
  BY <1>1 DEF GoodEntries
<1>3. \A n \in DOMAIN entries : \A k \in DOMAIN entries[n].cases : CaseFault(entries[n].cases, k) = None
  <2>1. SUFFICES ASSUME NEW n \in DOMAIN entries, NEW k \in DOMAIN entries[n].cases, CaseFault(entries[n].cases, k) # None
                 PROVE FALSE
    OBVIOUS
  <2> DEFINE some == {CaseFault(entries[n].cases, m) : m \in DOMAIN entries[n].cases}
             all == UNION {{CaseFault(entries[i].cases, m) : m \in DOMAIN entries[i].cases} : i \in GoodEntries(entries)}
  <2>2. CaseFault(entries[n].cases, k) \in some
    BY <2>1
  <2>3. some \in {{CaseFault(entries[i].cases, m) : m \in DOMAIN entries[i].cases} : i \in GoodEntries(entries)}
    BY <1>2
  <2>4. CaseFault(entries[n].cases, k) \in all
    BY <2>2, <2>3
  <2>5. all \ {None} \subseteq EntryFaults(entries)
    <3> HIDE DEF some
    <3> QED BY DEF EntryFaults
  <2> HIDE DEF all
  <2> QED BY <2>1, <2>4, <2>5
<1>4. \A n \in DOMAIN entries : KeptCases(entries[n].cases) = entries[n].cases
  <2>1. SUFFICES ASSUME NEW n \in DOMAIN entries PROVE KeptCases(entries[n].cases) = entries[n].cases
    OBVIOUS
  <2> DEFINE cases == entries[n].cases
  <2>2. {i \in DOMAIN cases : CaseFault(cases, i) = None} = DOMAIN cases
    BY <1>3, <2>1
  <2>3. IsList(cases)
    BY <2>1 DEF IsEntries
  <2> HIDE DEF cases
  <2>4. KeptCases(cases) = cases
    BY <2>2, <2>3, AtAllPlaces DEF KeptCases
  <2> QED BY <2>4 DEF cases
<1>5. At(entries, GoodEntries(entries)) = entries
  BY <1>2, AtAllPlaces DEF IsEntries
<1>6. KeptEntries(entries) = [n \in DOMAIN entries |-> [entries[n] EXCEPT !.cases = KeptCases(@)]]
  BY <1>5 DEF KeptEntries
<1>7. \A n \in DOMAIN entries : [entries[n] EXCEPT !.cases = KeptCases(@)] = entries[n]
  BY <1>4 DEF IsEntries
<1>8. entries = [n \in DOMAIN entries |-> entries[n]]
  BY DEF IsEntries, IsList
<1> QED BY <1>6, <1>7, <1>8

\* The frozen cases of an adapter, each with the outcome that is expected of it.
CasesAreFrozen(key, cases) ==
  /\ [m \in DOMAIN cases |-> cases[m].id] =
       IF key = "xhs" THEN <<"xhs-success", "xhs-invalid-input">> ELSE <<"douyin-success", "douyin-platform">>
  /\ cases[1].status = "success"
  /\ cases[2].status = "failed" /\ cases[2].category \in AllowedCategories

\* A regression without failures has put both reference adapters through the frozen cases,
\* and each case came out as it should.
LEMMA RegressionIsEarned ==
  ASSUME NEW payload, payload.entries # None => IsEntries(payload.entries), NEW pair, NEW operation, NEW target,
         Listed(pair) = pair, ToSet(pair) = {"xhs", "douyin"},
         RegressionFailures(payload, "v0.2.0", pair, operation, target) = {}
  PROVE  /\ {payload.entries[n].key : n \in DOMAIN payload.entries} = {"xhs", "douyin"}
         /\ \A n \in DOMAIN payload.entries : CasesAreFrozen(payload.entries[n].key, payload.entries[n].cases)
<1> DEFINE entries == IF payload.entries = None THEN <<>> ELSE payload.entries
           kept == KeptEntries(entries)
           keys == {kept[i].key : i \in DOMAIN kept}
           unexpected == AllFaults(<< <<~(keys \subseteq ToSet(Listed(pair))), "unexpected_adapter_results">> >>)
           failing == UNION {AdapterFailures("v0.2.0", key, kept) : key \in ToSet(Listed(pair))}
<1>1. RegressionFailures(payload, "v0.2.0", pair, operation, target) =
        RegressionFaults(payload, "v0.2.0", pair, operation, target) \cup EntryFaults(entries) \cup unexpected \cup failing
  BY DEF RegressionFailures
<1> HIDE DEF unexpected, failing
<1>2. /\ RegressionFaults(payload, "v0.2.0", pair, operation, target) = {} /\ EntryFaults(entries) = {}
      /\ unexpected = {} /\ failing = {}
  BY <1>1
<1>3. payload.entries # None
  <2> DEFINE frozen == "v0.2.0" = FrozenVersion
             named == Listed(payload.pair)
             surface == Surface(operation, target)
             seen == Surface(payload.operation, payload.target)
             checks ==
               << <<"v0.2.0" = "blank", "missing_version">>,
                  <<Listed(pair) = <<>>, "invalid_reference_pair">>,
                  <<~frozen, "missing_frozen_reference_pair_for_version">>,
                  <<~frozen, "missing_frozen_operation_for_version">>,
                  <<frozen /\ ToSet(Listed(pair)) # ToSet(ReferencePair), "reference_pair_not_frozen_for_version">>,
                  <<frozen /\ surface = None, "operation_not_frozen_for_version">>,
                  <<Listed(payload.evidence) = <<>>, "missing_evidence_refs">>,
                  <<payload.version # "v0.2.0", "version_mismatch">>,
                  <<frozen /\ seen = None, "operation_mismatch">>,
                  <<frozen /\ surface # None /\ seen # None /\ surface # seen, "operation_surface_mismatch">>,
                  <<named = <<>>, "invalid_report_reference_pair">>,
                  <<named # <<>> /\ ToSet(named) # ToSet(Listed(pair)), "reference_pair_mismatch">>,
                  <<payload.entries = None, "invalid_adapter_results">>,
                  <<frozen /\ Listed(payload.evidence) # CaseEvidence, "case_evidence_refs_mismatch">> >>
  <2>1. AllFaults(checks) = {}
    BY <1>2 DEF RegressionFaults
  <2>2. DOMAIN checks = 1..14
    OBVIOUS
  <2>3. ~checks[13][1]
    <3> HIDE DEF checks
    <3> QED BY <2>1, <2>2, NoFaults
  <2> HIDE DEF frozen, named, surface, seen
  <2> QED BY <2>3
<1>4. entries = payload.entries /\ IsEntries(entries)
  BY <1>3
<1> HIDE DEF entries
<1>5. kept = entries
  BY <1>2, <1>4, SoundEntriesAreKept
<1> HIDE DEF kept
<1>6. keys \subseteq {"xhs", "douyin"}
  <2> DEFINE checks == << <<~(keys \subseteq ToSet(Listed(pair))), "unexpected_adapter_results">> >>
  <2> HIDE DEF keys
  <2>1. DOMAIN checks = 1..1 /\ checks[1][1] = ~(keys \subseteq ToSet(Listed(pair)))
    OBVIOUS
  <2>2. AllFaults(checks) = {}
    BY <1>2 DEF unexpected
  <2> HIDE DEF checks
  <2>3. ~checks[1][1]
    BY <2>1, <2>2, NoFaults
  <2> QED BY <2>1, <2>3
<1>7. \A key \in {"xhs", "douyin"} : AdapterFailures("v0.2.0", key, entries) = {}
  BY <1>2, <1>5 DEF failing
<1>8. DOMAIN entries = 1..Len(entries) /\ Len(entries) \in Nat
  BY <1>4 DEF IsEntries, IsList
<1>9. \A m, n \in DOMAIN entries : entries[m].key = entries[n].key => m = n
  <2>1. \A n \in DOMAIN entries : EntryFault(entries, n) = None
    BY <1>2 DEF EntryFaults
  <2>2. \A m, n \in DOMAIN entries : m < n => entries[m].key # entries[n].key
    <3>1. SUFFICES ASSUME NEW m \in DOMAIN entries, NEW n \in DOMAIN entries, m < n PROVE entries[m].key # entries[n].key
      OBVIOUS
    <3>2. m \in 1..(n - 1)
      BY <1>8, <3>1
    <3> QED BY <2>1, <3>2, EntryIsSound
  <2> QED BY <1>8, <2>2
<1> DEFINE Right(key, cases) ==
             /\ Matrix(cases) = FrozenMatrix[key]
             /\ \A k \in DOMAIN cases : OutcomeFault(cases[k]) = None
<1>10. ASSUME NEW key \in {"xhs", "douyin"}
       PROVE  \E n \in DOMAIN entries : entries[n].key = key /\ Right(key, entries[n].cases)
  <2> DEFINE found == {i \in DOMAIN entries : entries[i].key = key}
             cases == entries[Min(found)].cases
             checks == << <<"v0.2.0" # FrozenVersion \/ key \notin DOMAIN FrozenMatrix,
                            "missing_frozen_case_matrix_for_version">>,
                          <<"v0.2.0" = FrozenVersion /\ key \in DOMAIN FrozenMatrix /\ Matrix(cases) # FrozenMatrix[key],
                            "case_matrix_mismatch">>,
                          <<~Covered(cases, "success"), "missing_success_coverage">>,
                          <<~Covered(cases, "allowed_failure"), "missing_allowed_failure_coverage">> >>
             wrong == {OutcomeFault(cases[i]) : i \in DOMAIN cases} \ {None}
  <2>1. {} = IF found = {} THEN {"missing_adapter_result"} ELSE AllFaults(checks) \cup wrong
    BY <1>7, <1>10 DEF AdapterFailures
  <2>2. found \in SUBSET Nat
    BY <1>8
  <2>3. key \in DOMAIN FrozenMatrix /\ FrozenVersion = "v0.2.0"
    BY <1>10 DEF FrozenMatrix, FrozenVersion
  <2>4. found # {} => Min(found) \in found
    BY <2>2, LeastIsIn
  <2>5. DOMAIN checks = 1..4
    OBVIOUS
  <2>10. ~checks[2][1] => Matrix(cases) = FrozenMatrix[key]
    BY <2>3
  <2> HIDE DEF checks, wrong, found
  <2>6. found # {} /\ AllFaults(checks) = {} /\ wrong = {}
    BY <2>1
  <2>7. ~checks[2][1]
    BY <2>5, <2>6, NoFaults
  <2>8. Min(found) \in DOMAIN entries /\ entries[Min(found)].key = key
    BY <2>4, <2>6 DEF found
  <2>9. \A k \in DOMAIN cases : OutcomeFault(cases[k]) = None
    BY <2>6 DEF wrong
  <2> QED BY <2>7, <2>8, <2>9, <2>10
<1>11. \A n \in DOMAIN entries : entries[n].key \in {"xhs", "douyin"} /\ Right(entries[n].key, entries[n].cases)
  <2>1. SUFFICES ASSUME NEW n \in DOMAIN entries PROVE entries[n].key \in {"xhs", "douyin"} /\ Right(entries[n].key, entries[n].cases)
    OBVIOUS
  <2>2. entries[n].key \in {"xhs", "douyin"}
    BY <1>5, <1>6
  <2> HIDE DEF Right
  <2>3. PICK m \in DOMAIN entries : entries[m].key = entries[n].key /\ Right(entries[n].key, entries[m].cases)
    BY <1>10, <2>2
  <2> QED BY <1>9, <2>2, <2>3
<1>12. ASSUME NEW key \in {"xhs", "douyin"}, NEW cases, Right(key, cases)
       PROVE  CasesAreFrozen(key, cases)
  <2> DEFINE first == IF key = "xhs" THEN "xhs-success" ELSE "douyin-success"
             second == IF key = "xhs" THEN "xhs-invalid-input" ELSE "douyin-platform"
  <2>1. FrozenMatrix[key] = <<Frozen(first, "success"), Frozen(second, "allowed_failure")>>
    BY <1>12 DEF FrozenMatrix
  <2>2. Matrix(cases) = <<Frozen(first, "success"), Frozen(second, "allowed_failure")>>
    BY <1>12, <2>1
  <2>3. DOMAIN cases = 1..2
    BY <2>2 DEF Matrix
  <2>4. /\ cases[1].id = first /\ cases[1].outcome = "success"
        /\ cases[2].id = second /\ cases[2].outcome = "allowed_failure"
    <3> HIDE DEF first, second
    <3>1. \A k \in 1..2 : Matrix(cases)[k] = [id |-> cases[k].id, outcome |-> cases[k].outcome, evidence |-> cases[k].evidence]
      BY <2>3 DEF Matrix
    <3>2. Matrix(cases)[1] = Frozen(first, "success") /\ Matrix(cases)[2] = Frozen(second, "allowed_failure")
      BY <2>2
    <3> QED BY <3>1, <3>2 DEF Frozen
  <2>5. OutcomeFault(cases[1]) = None /\ OutcomeFault(cases[2]) = None
    BY <1>12, <2>3
  <2>6. [m \in DOMAIN cases |-> cases[m].id] = <<first, second>>
    BY <2>3, <2>4
  <2>7. cases[1].status = "success" /\ cases[2].status = "failed" /\ cases[2].category \in AllowedCategories
    BY <2>4, <2>5, OutcomeIsSound
  <2> QED BY <2>6, <2>7 DEF CasesAreFrozen
<1> HIDE DEF Right
<1>13. {entries[n].key : n \in DOMAIN entries} = {"xhs", "douyin"}
  BY <1>10, <1>11
<1>14. \A n \in DOMAIN entries :
         CasesAreFrozen(entries[n].key, entries[n].cases)
  BY <1>11, <1>12
<1> QED BY <1>4, <1>13, <1>14

-----------------------------------------------------------------------------
(* What the gate reads *)

\* A report that can be read is the one of its source.
LEMMA ReadableIsOwn ==
  ASSUME NEW report, NEW source, NEW version, Unreadable(report, source, version) = None
  PROVE  report.source = source
<1> DEFINE checks == << <<report.source # source, "source_mismatch">>,
                <<report.version # version, "source_report_version_mismatch">>,
                <<report.verdict \notin {"pass", "fail"}, "invalid_source_verdict">>,
                <<report.evidence = <<>> \/ None \in ToSet(report.evidence), "missing_source_evidence_refs">>,
                <<"summary" \in report.flaws, "missing_source_summary">>,
                <<"details" \in report.flaws, "invalid_source_details">>,
                <<"failures" \in report.flaws, "missing_source_failures">>,
                <<"parts" \in report.flaws, "missing_details">> >>
<1>1. FirstFault(checks) = None
  BY DEF Unreadable
<1>2. DOMAIN checks = 1..8 /\ \A k \in 1..8 : checks[k][2] # None
  BY CodeAssumption
<1>3. ~checks[1][1]
  <2> HIDE DEF checks
  <2>1. \A k \in 1..8 : ~checks[k][1]
    BY <1>1, <1>2, FirstFaultFacts
  <2> QED BY <2>1
<1> QED BY <1>3

\* A harness whose details agree with what is rebuilt from them was asked for the samples required.
LEMMA HarnessWasAsked ==
  ASSUME NEW report, NEW rebuilt, NEW required, HarnessFault(report, rebuilt, required) = None
  PROVE  ToSet(report.facts.required) = ToSet(required)
<1> DEFINE checks == << <<~StringList(report.facts.required), "invalid_required_sample_ids">>,
                <<ToSet(report.facts.required) # ToSet(required), "harness_required_sample_ids_mismatch">>,
                <<~StringList(report.facts.observed), "invalid_harness_observed_sample_ids">>,
                <<ToSet(report.facts.observed) # ToSet(rebuilt.facts.observed),
                  "harness_observed_sample_ids_mismatch">>,
                <<report.verdict = "pass" /\ report.evidence # rebuilt.evidence,
                  "harness_evidence_refs_mismatch">> >>
<1>1. FirstFault(checks) = None
  BY DEF HarnessFault
<1>2. DOMAIN checks = 1..5 /\ \A k \in 1..5 : checks[k][2] # None
  BY CodeAssumption
<1>3. ~checks[2][1]
  <2> HIDE DEF checks
  <2>1. \A k \in 1..5 : ~checks[k][1]
    BY <1>1, <1>2, FirstFaultFacts
  <2> QED BY <2>1
<1> QED BY <1>3

\* If the gate reads a report without failures, then it is its source's, it agrees with what is
\* rebuilt from it, and what is rebuilt has no failures.
LEMMA ReadWithoutFailures ==
  ASSUME NEW report, NEW source, NEW version, NEW pair, NEW required,
         ReadReport(report, source, version, pair, required).failures = {}
  PROVE  /\ report.source = source
         /\ DetailsFault(report, Rebuilt(report, version, pair, required), required) = None
         /\ Rebuilt(report, version, pair, required).failures = {}
<1> DEFINE rebuilt == Rebuilt(report, version, pair, required)
           fault == DetailsFault(report, rebuilt, required)
           unreadable == Unreadable(report, source, version)
<1>1. ReadReport(report, source, version, pair, required) =
        IF unreadable # None THEN Synthetic(source, unreadable)
        ELSE IF fault # None THEN Synthetic(source, fault) ELSE Merge(rebuilt, report)
  BY DEF ReadReport
<1> HIDE DEF rebuilt, fault, unreadable
<1>2. \A code : Synthetic(source, code).failures = {code}
  BY DEF Synthetic
<1>3. \A code : Synthetic(source, code).failures # {}
  BY <1>2
<1>4. unreadable = None /\ fault = None /\ Merge(rebuilt, report).failures = {}
  BY <1>1, <1>3
<1>5. rebuilt.failures = {}
  <2> DEFINE known == report.failures \cup rebuilt.failures
             failures == IF report.verdict = "fail" /\ known = {} THEN {"upstream_failed_source_report"} ELSE known
  <2>1. Merge(rebuilt, report).failures = failures
    BY DEF Merge
  <2> QED BY <1>4, <2>1
<1>6. report.source = source
  BY <1>4, ReadableIsOwn DEF unreadable
<1> QED BY <1>4, <1>5, <1>6 DEF rebuilt, fault

\* A gate that has no fault of its own was asked for the frozen version and pair, and for samples.
LEMMA GateWasAsked ==
  ASSUME NEW version, NEW pair, NEW required, GateFaults(version, pair, required) = {}
  PROVE  /\ version = "v0.2.0" /\ Listed(pair) = pair /\ Listed(pair) # <<>> /\ ToSet(pair) = {"xhs", "douyin"}
         /\ required # None /\ StringList(required) /\ Listed(required) = required
<1> DEFINE checks == << <<Listed(pair) = <<>>, "invalid_reference_pair">>,
               <<version # FrozenVersion, "missing_frozen_reference_pair_for_version">>,
               <<version = FrozenVersion /\ ToSet(Listed(pair)) # ToSet(ReferencePair),
                 "reference_pair_not_frozen_for_version">>,
               <<version = "blank", "missing_version">>,
               <<required = None, "missing_required_harness_sample_ids">>,
               <<required # None /\ ~StringList(required), "invalid_required_harness_sample_ids">> >>
<1>1. AllFaults(checks) = {}
  BY DEF GateFaults
<1>2. DOMAIN checks = 1..6
  OBVIOUS
<1>3. \A k \in 1..6 : ~checks[k][1]
  <2> HIDE DEF checks
  <2> QED BY <1>1, <1>2, NoFaults
<1>4. ~checks[1][1] /\ ~checks[2][1] /\ ~checks[3][1] /\ ~checks[5][1] /\ ~checks[6][1]
  <2> HIDE DEF checks
  <2> QED BY <1>3
<1>5. Listed(pair) # <<>> /\ version = FrozenVersion
  BY <1>4
<1>6. ToSet(Listed(pair)) = ToSet(ReferencePair)
  BY <1>4
<1>7. required # None /\ StringList(required)
  BY <1>4
<1> HIDE DEF checks
<1>8. Listed(pair) = pair
  BY <1>5 DEF Listed
<1>9. ToSet(ReferencePair) = {"xhs", "douyin"}
  BY DEF ToSet, ReferencePair
<1> QED BY <1>5, <1>6, <1>7, <1>8, <1>9 DEF Listed, FrozenVersion

\* A finite set of numbers can be counted off: for each count up to its size there is the
\* element with which it is reached.
LEMMA CountedOff ==
  ASSUME NEW S \in SUBSET Nat, IsFiniteSet(S), NEW n \in 1..Cardinality(S)
  PROVE  \E i \in S : Cardinality({j \in S : j <= i}) = n
<1> DEFINE UpTo(i) == {j \in S : j <= i}
           Before(i) == {j \in S : j < i}
           reached == {i \in S : Cardinality(UpTo(i)) >= n}
<1>0. Cardinality(S) \in Nat /\ n \in Nat /\ n >= 1 /\ n <= Cardinality(S)
  BY FS_CardinalityType
<1>1. \A i \in S : /\ IsFiniteSet(UpTo(i)) /\ Cardinality(UpTo(i)) \in Nat
                   /\ IsFiniteSet(Before(i)) /\ Cardinality(Before(i)) \in Nat
  BY FS_Subset, FS_CardinalityType
<1>2. S # {}
  BY <1>0, FS_EmptySet
<1>3. PICK m \in S : \A k \in S : k <= m
  BY <1>2, GreatestExists
<1>4. UpTo(m) = S
  BY <1>3
<1>5. reached # {} /\ reached \in SUBSET Nat
  BY <1>0, <1>4
<1> DEFINE i == Min(reached)
<1>6. i \in reached /\ \A k \in reached : i <= k
  <2> HIDE DEF reached
  <2> QED BY <1>5, LeastIsIn
<1> HIDE DEF i
<1>7. Cardinality(UpTo(i)) = Cardinality(Before(i)) + 1
  <2>1. UpTo(i) = Before(i) \cup {i} /\ i \notin Before(i)
    <3>1. i \in S /\ i \in Nat /\ \A j \in S : j \in Nat
      BY <1>6
    <3>2. \A j \in S : j <= i <=> j < i \/ j = i
      BY <3>1
    <3>3. ~(i < i)
      BY <3>1
    <3>4. UpTo(i) = Before(i) \cup {i}
      BY <3>1, <3>2
    <3> QED BY <3>3, <3>4
  <2>2. IsFiniteSet(Before(i)) /\ i \in S
    BY <1>1, <1>6
  <2> HIDE DEF Before, UpTo
  <2> QED BY <2>1, <2>2, FS_AddElement
<1>8. Cardinality(Before(i)) < n
  <2>1. SUFFICES ASSUME Cardinality(Before(i)) >= n PROVE FALSE
    BY <1>0, <1>1, <1>6
  <2>2. i \in S /\ Before(i) \in SUBSET Nat /\ IsFiniteSet(Before(i)) /\ Before(i) # {}
    <3>1. i \in S
      BY <1>6
    <3>2. Before(i) # {}
      <4> HIDE DEF Before
      <4> QED BY <1>0, <2>1, FS_EmptySet
    <3> QED BY <1>1, <3>1, <3>2
  <2>3. PICK k \in Before(i) : \A j \in Before(i) : j <= k
    <3> HIDE DEF Before
    <3> QED BY <2>2, GreatestExists
  <2>4. Before(i) = UpTo(k)
    <3>1. i \in Nat /\ k \in Nat /\ k \in S /\ k < i /\ \A j \in S : j \in Nat
      BY <2>2, <2>3
    <3>2. \A j \in S : j < i <=> j <= k
      BY <2>3, <3>1
    <3> QED BY <3>2
  <2>5. k \in reached /\ k < i
    BY <2>1, <2>3, <2>4
  <2>6. i \in Nat /\ k \in Nat
    BY <2>2, <2>3
  <2> QED BY <1>6, <2>5, <2>6
<1>9. Cardinality(UpTo(i)) >= n /\ i \in S
  BY <1>6
<1>10. Cardinality(UpTo(i)) = n
  <2>1. Cardinality(UpTo(i)) \in Nat /\ Cardinality(Before(i)) \in Nat
    BY <1>1, <1>9
  <2> HIDE DEF UpTo, Before
  <2> QED BY <1>0, <1>7, <1>8, <1>9, <2>1
<1> QED BY <1>9, <1>10

\* What is taken from a list at some of its places is in the list.
LEMMA AtIsFrom ==
  ASSUME NEW l, IsList(l), NEW places \in SUBSET (DOMAIN l), NEW n \in DOMAIN At(l, places)
  PROVE  \E i \in places : At(l, places)[n] = l[i]
<1>1. IsFiniteSet(DOMAIN l) /\ DOMAIN l \subseteq Nat
  <2>1. Len(l) \in Nat /\ DOMAIN l = 1..Len(l)
    BY DEF IsList
  <2>2. IsFiniteSet(1..Len(l)) /\ 1..Len(l) \subseteq Nat
    BY <2>1, FS_Interval
  <2> QED BY <2>1, <2>2
<1>2. IsFiniteSet(places) /\ places \in SUBSET Nat
  BY <1>1, FS_Subset
<1> DEFINE Is(i) == Cardinality({j \in places : j <= i}) = n
<1>3. DOMAIN At(l, places) = 1..Cardinality(places) /\ At(l, places)[n] = l[CHOOSE i \in places : Is(i)]
  BY DEF At
<1>4. \E i \in places : Is(i)
  BY <1>2, <1>3, CountedOff
<1> HIDE DEF Is
<1> QED BY <1>3, <1>4

\* The entries that are kept are entries.
LEMMA KeptAreEntries ==
  ASSUME NEW entries, IsEntries(entries)
  PROVE  IsEntries(KeptEntries(entries))
<1> DEFINE good == At(entries, GoodEntries(entries))
           kept == KeptEntries(entries)
<1>1. GoodEntries(entries) \in SUBSET (DOMAIN entries) /\ IsList(entries)
  BY DEF GoodEntries, IsEntries
<1>2. IsFiniteSet(DOMAIN entries)
  BY <1>1, FS_Interval DEF IsList
<1>3. IsList(good)
  BY <1>1, <1>2, AtIsList
<1>4. \A n \in DOMAIN good : \E i \in DOMAIN entries : good[n] = entries[i]
  BY <1>1, AtIsFrom
<1>5. kept = [n \in DOMAIN good |-> [good[n] EXCEPT !.cases = KeptCases(@)]]
  BY DEF KeptEntries
<1> HIDE DEF good, kept
<1>6. ASSUME NEW n \in DOMAIN kept
      PROVE  /\ kept[n] = [malformed |-> kept[n].malformed, key |-> kept[n].key, cases |-> kept[n].cases]
             /\ IsList(kept[n].cases)
  <2>1. PICK i \in DOMAIN entries : good[n] = entries[i]
    BY <1>4, <1>5
  <2>2. good[n] = [malformed |-> good[n].malformed, key |-> good[n].key, cases |-> good[n].cases] /\ IsList(good[n].cases)
    BY <2>1 DEF IsEntries
  <2>3. kept[n] = [good[n] EXCEPT !.cases = KeptCases(@)]
    BY <1>5
  <2>4. kept[n] = [malformed |-> good[n].malformed, key |-> good[n].key, cases |-> KeptCases(good[n].cases)]
    BY <2>2, <2>3
  <2>5. IsList(KeptCases(good[n].cases))
    <3> DEFINE cases == good[n].cases
    <3>1. IsFiniteSet(DOMAIN cases)
      BY <2>2, FS_Interval DEF IsList
    <3> HIDE DEF cases
    <3>2. IsList(KeptCases(cases))
      BY <3>1, AtIsList DEF KeptCases
    <3> QED BY <3>2 DEF cases
  <2> QED BY <2>4, <2>5
<1>7. IsList(kept)
  BY <1>3, <1>5 DEF IsList
<1> QED BY <1>6, <1>7 DEF IsEntries, kept

-----------------------------------------------------------------------------
(* The reports on their way to the gate *)

ReportFields == {"source", "version", "flaws", "facts", "verdict", "failures", "evidence"}

\* A report of a source, whose results, entries or findings are lists.
IsReport(r) ==
  /\ DOMAIN r = ReportFields
  /\ r.source = "harness" => IsList(r.facts.results)
  /\ r.source = "real_adapter_regression" => IsEntries(r.facts.entries)
  /\ r.source = "platform_leakage" => IsList(r.facts.findings)

\* The reports that the gate gets have this shape, and it gives its result on them.
GateInv ==
  /\ stage = "reported" => DOMAIN reports = Sources /\ \A s \in Sources : IsReport(reports[s])
  /\ stage \in {"altered", "gated"} => \A s \in DOMAIN reports : IsReport(reports[s])
  /\ stage = "gated" =>
       asked \in GateArguments /\ gate = OrchestrateVersionGate(asked.version, asked.pair, asked.required, reports)

\* No results, no entries and no findings are lists too.
LEMMA EmptyIsList == IsList(<<>>) /\ IsEntries(<<>>)
  BY DEF IsList, IsEntries

\* What a source makes is a report, with the facts that it has.
LEMMA SourceReportIs ==
  ASSUME NEW source, NEW version, NEW failures, NEW evidence, NEW facts,
         NEW r, r = SourceReport(source, version, failures, evidence, facts)
  PROVE  /\ DOMAIN r = ReportFields /\ r.source = source /\ r.facts = facts
         /\ r.version = CanonicalVersion(version) /\ r.flaws = {} /\ r.failures = failures
         /\ r.verdict = (IF failures = {} THEN "pass" ELSE "fail")
         /\ evidence # <<>> => r.evidence = evidence
  BY DEF SourceReport, ReportFields

\* What the harness reports.
LEMMA HarnessIs ==
  ASSUME NEW results, NEW required, NEW version, NEW r, r = BuildHarness(results, required, version)
  PROVE  LET kept == KeptResults(results)
             observed == Listing(SampleIds(kept))
         IN /\ DOMAIN r = ReportFields /\ r.source = "harness" /\ r.version = CanonicalVersion(version) /\ r.flaws = {}
            /\ r.facts.required = Listed(required) /\ r.facts.observed = observed /\ r.facts.results = kept
            /\ r.failures = HarnessFailures(results, required, version)
            /\ r.verdict = "pass" <=> r.failures = {}
            /\ observed # <<>> => r.evidence = observed
<1> DEFINE kept == KeptResults(results)
           observed == Listing(SampleIds(kept))
           facts == [required |-> Listed(required), observed |-> observed, results |-> kept]
<1>1. r = SourceReport("harness", version, HarnessFailures(results, required, version), observed, facts)
  BY DEF BuildHarness
<1>2. facts.required = Listed(required) /\ facts.observed = observed /\ facts.results = kept
  OBVIOUS
<1> HIDE DEF facts
<1> QED BY <1>1, <1>2, SourceReportIs

\* What the regression reports.
LEMMA RegressionIs ==
  ASSUME NEW payload, NEW version, NEW pair, NEW operation, NEW target,
         NEW r, r = ValidateRegression(payload, version, pair, operation, target)
  PROVE  /\ DOMAIN r = ReportFields /\ r.source = "real_adapter_regression"
         /\ r.version = CanonicalVersion(version) /\ r.flaws = {}
         /\ r.facts.entries = KeptEntries(IF payload.entries = None THEN <<>> ELSE payload.entries)
         /\ Listed(pair) # <<>> => r.facts.pair = Listed(pair)
         /\ r.failures = RegressionFailures(payload, version, pair, operation, target)
         /\ r.verdict = "pass" <=> r.failures = {}
         /\ version = FrozenVersion =>
              /\ r.facts.semantic = "content_detail_by_url"
              /\ Surface(payload.operation, payload.target) # None =>
                   /\ r.facts.operation = Surface(payload.operation, payload.target).operation
                   /\ r.facts.target = Surface(payload.operation, payload.target).target
              /\ CaseEvidence # <<>> => r.evidence = CaseEvidence
<1> DEFINE frozen == version = FrozenVersion
           expected == Listed(pair)
           surfaces == <<Surface(payload.operation, payload.target), Surface(operation, target),
                         Surface("content_detail_by_url", "url")>>
           surface == IF frozen THEN surfaces[Min({i \in DOMAIN surfaces : surfaces[i] # None})]
                      ELSE [operation |-> "", target |-> ""]
           entries == IF payload.entries = None THEN <<>> ELSE payload.entries
           evidence == IF frozen THEN CaseEvidence ELSE Listed(payload.evidence)
           facts == [pair |-> IF expected # <<>> THEN expected ELSE IF frozen THEN ReferencePair ELSE <<"unknown">>,
                     operation |-> surface.operation, target |-> surface.target,
                     semantic |-> IF frozen THEN "content_detail_by_url" ELSE "", entries |-> KeptEntries(entries)]
<1>1. r = SourceReport("real_adapter_regression", version,
                       RegressionFailures(payload, version, pair, operation, target), evidence, facts)
  BY DEF ValidateRegression
<1>2. /\ facts.entries = KeptEntries(entries) /\ facts.operation = surface.operation /\ facts.target = surface.target
      /\ expected # <<>> => facts.pair = expected
      /\ frozen => facts.semantic = "content_detail_by_url"
  BY DEF FrozenVersion
<1>3. frozen /\ Surface(payload.operation, payload.target) # None => surface = Surface(payload.operation, payload.target)
  <2> DEFINE first == Surface(payload.operation, payload.target)
             places == {i \in DOMAIN surfaces : surfaces[i] # None}
  <2>1. DOMAIN surfaces = 1..3 /\ surfaces[1] = first
    OBVIOUS
  <2> HIDE DEF surfaces, first
  <2>2. first # None => 1 \in places /\ places \in SUBSET Nat /\ 0 \notin places
    BY <2>1
  <2> HIDE DEF places
  <2>3. first # None => Min(places) = 1
    <3>1. SUFFICES ASSUME first # None PROVE Min(places) = 1
      OBVIOUS
    <3>2. Min(places) \in places /\ Min(places) <= 1
      BY <2>2, <3>1, LeastIsIn
    <3>3. Min(places) \in Nat /\ Min(places) # 0
      BY <2>2, <3>1, <3>2
    <3> QED BY <3>2, <3>3
  <2> QED BY <2>1, <2>3 DEF first, places
<1> HIDE DEF facts, surface, surfaces
<1>4. /\ DOMAIN r = ReportFields /\ r.source = "real_adapter_regression" /\ r.facts = facts
      /\ r.version = CanonicalVersion(version) /\ r.flaws = {}
      /\ r.failures = RegressionFailures(payload, version, pair, operation, target)
      /\ r.verdict = (IF r.failures = {} THEN "pass" ELSE "fail")
      /\ evidence # <<>> => r.evidence = evidence
  BY <1>1, SourceReportIs
<1> QED BY <1>2, <1>3, <1>4

\* What the scan reports.
LEMMA ScanIs ==
  ASSUME NEW payload, NEW version, NEW r, r = ValidateLeakage(payload, version)
  PROVE  LET listed == Listed(payload.evidence)
         IN /\ DOMAIN r = ReportFields /\ r.source = "platform_leakage" /\ r.version = CanonicalVersion(version) /\ r.flaws = {}
            /\ r.facts.boundaries = Listed(payload.boundaries) /\ r.facts.verdict = LeakageVerdict(payload)
            /\ r.facts.findings = KeptFindings(payload.findings)
            /\ r.failures = LeakageFailures(payload, version)
            /\ r.verdict = "pass" <=> r.failures = {}
            /\ listed # <<>> /\ ToSet(listed) = ToSet(ScanRefs) \cup FindingRefs(KeptFindings(payload.findings)) =>
                 r.evidence = listed
<1> DEFINE listed == Listed(payload.evidence)
           findings == KeptFindings(payload.findings)
           expected == ToSet(ScanRefs) \cup FindingRefs(findings)
           evidence == IF ToSet(listed) = expected THEN listed ELSE Listing(expected)
           facts == [boundaries |-> Listed(payload.boundaries), verdict |-> LeakageVerdict(payload), findings |-> findings]
<1>1. r = SourceReport("platform_leakage", version, LeakageFailures(payload, version), evidence, facts)
  BY DEF ValidateLeakage
<1>2. facts.boundaries = Listed(payload.boundaries) /\ facts.verdict = LeakageVerdict(payload) /\ facts.findings = findings
  OBVIOUS
<1> HIDE DEF facts
<1>3. /\ DOMAIN r = ReportFields /\ r.source = "platform_leakage" /\ r.facts = facts
      /\ r.version = CanonicalVersion(version) /\ r.flaws = {} /\ r.failures = LeakageFailures(payload, version)
      /\ r.verdict = (IF r.failures = {} THEN "pass" ELSE "fail")
      /\ evidence # <<>> => r.evidence = evidence
  BY <1>1, SourceReportIs
<1> QED BY <1>2, <1>3

\* What the reference adapters did is a list of entries.
LEMMA RunIsEntries ==
  ASSUME NEW some, NEW answers
  PROVE  IsEntries([n \in DOMAIN ReferencePair |-> Entry(ReferenceItems(some), ReferencePair[n], answers)])
<1> DEFINE list == [n \in DOMAIN ReferencePair |-> Entry(ReferenceItems(some), ReferencePair[n], answers)]
<1>1. DOMAIN ReferencePair = 1..2 /\ \A n \in 1..2 : ReferencePair[n] \in {"xhs", "douyin"}
  BY DEF ReferencePair
<1>2. ASSUME NEW key \in {"xhs", "douyin"}
      PROVE  LET e == Entry(ReferenceItems(some), key, answers)
             IN e = [malformed |-> e.malformed, key |-> e.key, cases |-> e.cases] /\ IsList(e.cases)
  <2> DEFINE e == Entry(ReferenceItems(some), key, answers)
             Case(n) == CaseFrom(FrozenMatrix[key][n], Envelope(ReferenceItems(some), key, answers[FrozenMatrix[key][n].id]))
  <2>1. DOMAIN FrozenMatrix[key] = 1..2
    BY <1>2 DEF FrozenMatrix
  <2>2. e = [malformed |-> None, key |-> key, cases |-> [n \in 1..2 |-> Case(n)]]
    BY <2>1 DEF Entry
  <2> HIDE DEF e, Case
  <2>3. IsList([n \in 1..2 |-> Case(n)])
    BY DEF IsList
  <2>4. e = [malformed |-> e.malformed, key |-> e.key, cases |-> e.cases] /\ IsList(e.cases)
    BY <2>2, <2>3
  <2> QED BY <2>4 DEF e
<1> DEFINE E(n) == Entry(ReferenceItems(some), ReferencePair[n], answers)
<1>3. list = [n \in 1..2 |-> E(n)]
  BY <1>1
<1>4. \A n \in 1..2 : E(n) = [malformed |-> E(n).malformed, key |-> E(n).key, cases |-> E(n).cases] /\ IsList(E(n).cases)
  BY <1>1, <1>2
<1> HIDE DEF list, E
<1>5. DOMAIN list = 1..2 /\ \A n \in 1..2 : list[n] = E(n)
  BY <1>3
<1>6. IsList(list)
  BY <1>3 DEF IsList
<1>7. IsEntries(list)
  BY <1>4, <1>5, <1>6 DEF IsEntries
<1> QED BY <1>7 DEF list

\* A source makes a report of the right shape.
LEMMA SourcesReport ==
  ASSUME NEW x \in Rehearsals, NEW some
  PROVE  /\ IsReport(BuildHarness(x.results, x.required, x.version))
         /\ IsReport(RunRegression(some, x.version, x.bindings, x.answers))
         /\ IsReport(ValidateLeakage(x.leakage, x.version))
<1>1. IsReport(BuildHarness(x.results, x.required, x.version))
  <2> DEFINE kept == KeptResults(x.results)
             r == BuildHarness(x.results, x.required, x.version)
  <2>1. IsList(kept)
    <3>1. CASE x.results = None
      BY <3>1, EmptyIsList DEF KeptResults
    <3>2. CASE x.results # None
      <4>1. IsList(x.results) /\ kept = At(x.results, {i \in DOMAIN x.results : ResultFault(x.results, i) = None})
        BY <3>2, ListsAssumption DEF KeptResults
      <4>2. DOMAIN x.results = 1..Len(x.results) /\ Len(x.results) \in Nat
        BY <4>1 DEF IsList
      <4>3. IsFiniteSet(DOMAIN x.results)
        BY <4>2, FS_Interval
      <4> DEFINE places == {i \in DOMAIN x.results : ResultFault(x.results, i) = None}
      <4>4. places \in SUBSET (DOMAIN x.results)
        OBVIOUS
      <4> HIDE DEF places, kept
      <4>5. IsList(At(x.results, places))
        BY <4>3, <4>4, AtIsList
      <4> QED BY <4>1, <4>5 DEF places, kept
    <3> QED BY <3>1, <3>2
  <2>2. r.source = "harness" /\ r.facts.results = kept /\ DOMAIN r = ReportFields
    BY HarnessIs
  <2> HIDE DEF r, kept
  <2>4. IsReport(r)
    BY <2>1, <2>2 DEF IsReport
  <2> QED BY <2>4 DEF r
<1>2. IsReport(ValidateLeakage(x.leakage, x.version))
  <2> DEFINE raw == x.leakage.findings
             places == {i \in DOMAIN raw : FindingFault(raw[i]) = None}
             r == ValidateLeakage(x.leakage, x.version)
  <2>1. DOMAIN r = ReportFields /\ r.source = "platform_leakage" /\ r.facts.findings = KeptFindings(raw)
    BY ScanIs
  <2>2. raw # None => IsList(raw)
    BY ListsAssumption
  <2> HIDE DEF r, raw
  <2>3. ASSUME raw # None PROVE IsList(At(raw, places))
    <3>1. DOMAIN raw = 1..Len(raw) /\ Len(raw) \in Nat
      BY <2>2, <2>3 DEF IsList
    <3>2. IsFiniteSet(DOMAIN raw) /\ places \in SUBSET (DOMAIN raw)
      BY <3>1, FS_Interval
    <3> HIDE DEF places
    <3> QED BY <3>2, AtIsList
  <2>4. IsList(KeptFindings(raw))
    BY <2>3, EmptyIsList DEF KeptFindings
  <2>5. IsReport(r)
    BY <2>1, <2>4 DEF IsReport
  <2> QED BY <2>5 DEF r
<1>3. ASSUME NEW list, IsEntries(list), NEW refs
      PROVE  LET r == ValidatedRegression(x.version, list, refs)
             IN IsReport(r) /\ r.source = "real_adapter_regression"
  <2> DEFINE r == ValidatedRegression(x.version, list, refs)
             payload == RegressionPayload(x.version, list, refs)
             raw == IF payload.entries = None THEN <<>> ELSE payload.entries
  <2>1. IsEntries(raw)
    BY <1>3, EmptyIsList DEF RegressionPayload
  <2>2. r = ValidateRegression(payload, x.version, ReferencePair, "content_detail_by_url", "url")
    BY DEF ValidatedRegression
  <2> HIDE DEF payload, r
  <2>3. DOMAIN r = ReportFields /\ r.source = "real_adapter_regression" /\ r.facts.entries = KeptEntries(raw)
    BY <2>2, RegressionIs
  <2> HIDE DEF raw
  <2>4. IsEntries(KeptEntries(raw))
    BY <2>1, KeptAreEntries
  <2>5. IsReport(r)
    BY <2>3, <2>4 DEF IsReport
  <2> QED BY <2>3, <2>5 DEF r
<1>4. IsReport(RunRegression(some, x.version, x.bindings, x.answers))
  <2> DEFINE fault == BindingFault(some, x.version, x.bindings)
             unbound == ValidatedRegression(x.version, <<>>, <<"binding">>)
             list == [n \in DOMAIN ReferencePair |-> Entry(ReferenceItems(some), ReferencePair[n], x.answers)]
  <2>1. RunRegression(some, x.version, x.bindings, x.answers) =
          IF fault # None THEN [unbound EXCEPT !.verdict = "fail", !.failures = @ \cup {fault}]
          ELSE ValidatedRegression(x.version, list, CaseEvidence)
    BY DEF RunRegression
  <2>2. IsReport(unbound) /\ unbound.source = "real_adapter_regression"
    BY <1>3, EmptyIsList
  <2>3. IsEntries(list)
    BY RunIsEntries
  <2>4. IsReport(ValidatedRegression(x.version, list, CaseEvidence))
    <3> HIDE DEF list
    <3> QED BY <1>3, <2>3
  <2> DEFINE bad == [unbound EXCEPT !.verdict = "fail", !.failures = @ \cup {fault}]
  <2> HIDE DEF fault, unbound, list
  <2>5. IsReport(bad)
    <3>1. bad.source = unbound.source /\ bad.facts = unbound.facts /\ DOMAIN bad = ReportFields
      BY <2>2 DEF IsReport, ReportFields
    <3> HIDE DEF bad
    <3> QED BY <2>2, <3>1 DEF IsReport
  <2> QED BY <2>1, <2>4, <2>5
<1> QED BY <1>1, <1>2, <1>4

\* What becomes of a report on the way leaves its facts.
LEMMA AlteredAreReports ==
  ASSUME NEW s \in Sources, \A t \in Sources : IsReport(reports[t]), NEW r \in Altered(s)
  PROVE  IsReport(r)
<1> DEFINE old == reports[s]
<1>1. IsReport(old)
  OBVIOUS
<1>2. \/ \E t \in Sources : r = reports[t]
      \/ \E v : r = [old EXCEPT !.verdict = v, !.failures = {}]
      \/ r = [old EXCEPT !.failures = {}]
      \/ \E e : r = [old EXCEPT !.evidence = e]
      \/ \E parts : r = [old EXCEPT !.flaws = parts]
  BY DEF Altered
<1> HIDE DEF old
<1>3. ASSUME NEW t, DOMAIN t = ReportFields, t.source = old.source, t.facts = old.facts
      PROVE  IsReport(t)
  BY <1>1, <1>3 DEF IsReport
<1>4. DOMAIN old = ReportFields
  BY <1>1 DEF IsReport
<1>5. CASE \E v : r = [old EXCEPT !.verdict = v, !.failures = {}]
  BY <1>3, <1>4, <1>5 DEF ReportFields
<1>6. CASE r = [old EXCEPT !.failures = {}]
  BY <1>3, <1>4, <1>6 DEF ReportFields
<1>7. CASE \E e : r = [old EXCEPT !.evidence = e]
  BY <1>3, <1>4, <1>7 DEF ReportFields
<1>8. CASE \E parts : r = [old EXCEPT !.flaws = parts]
  BY <1>3, <1>4, <1>8 DEF ReportFields
<1> QED BY <1>2, <1>5, <1>6, <1>7, <1>8

\* The sources report.
LEMMA RehearseKeeps ==
  ASSUME GateInv, NEW x \in Rehearsals, Rehearse(x)
  PROVE  GateInv'
<1>1. stage' = "reported" /\ reports' = [harness |-> BuildHarness(x.results, x.required, x.version),
               real_adapter_regression |-> RunRegression(items, x.version, x.bindings, x.answers),
               platform_leakage |-> ValidateLeakage(x.leakage, x.version)]
  BY DEF Rehearse
<1>2. DOMAIN reports' = Sources /\ \A s \in Sources : IsReport(reports'[s])
  BY <1>1, SourcesReport DEF Sources
<1> QED BY <1>1, <1>2 DEF GateInv

\* A report may be altered on the way.
LEMMA AlterKeeps ==
  ASSUME GateInv, NEW s \in Sources, Alter(s)
  PROVE  GateInv'
<1>1. DOMAIN reports = Sources /\ \A t \in Sources : IsReport(reports[t])
  BY DEF Alter, GateInv
<1>2. ASSUME reports' = [t \in Sources \ {s} |-> reports[t]]
      PROVE  \A t \in DOMAIN reports' : IsReport(reports'[t])
  BY <1>1, <1>2
<1>3. ASSUME NEW r \in Altered(s), reports' = [reports EXCEPT ![s] = r]
      PROVE  \A t \in DOMAIN reports' : IsReport(reports'[t])
  <2>1. IsReport(r)
    BY <1>1, AlteredAreReports
  <2> QED BY <1>1, <1>3, <2>1
<1>4. \A t \in DOMAIN reports' : IsReport(reports'[t])
  BY <1>1, <1>2, <1>3 DEF Alter
<1> QED BY <1>4 DEF Alter, GateInv

\* The gate gives its result on what it gets.
LEMMA DecideKeeps ==
  ASSUME GateInv, NEW a \in GateArguments, DecideRelease(a)
  PROVE  GateInv'
<1>1. stage' = "gated" /\ asked' = a /\ reports' = reports /\ gate' = OrchestrateVersionGate(a.version, a.pair, a.required, reports)
  BY DEF DecideRelease, release
<1>2. stage \in {"reported", "altered"}
  BY DEF DecideRelease
<1>3. \A s \in DOMAIN reports : IsReport(reports[s])
  BY <1>2 DEF GateInv
<1> QED BY <1>1, <1>3 DEF GateInv

\* Every other step happens before there are reports, or after the gate is done with them.
LEMMA ElsewhereKeeps ==
  ASSUME stage' \notin {"reported", "altered", "gated"}
  PROVE  GateInv'
  BY DEF GateInv

\* Reports keep their shape on the way to the gate, and a result on show is that of the call beside it.
LEMMA GateInvariance == Spec => []GateInv
<1>1. Init => GateInv
  BY DEF Init, GateInv
<1>2. ASSUME GateInv, [Next]_vars PROVE GateInv'
  <2>1. CASE \E x \in Rehearsals : Rehearse(x)
    BY <1>2, <2>1, RehearseKeeps
  <2>2. CASE \E s \in Sources : Alter(s)
    BY <1>2, <2>2, AlterKeeps
  <2>3. CASE \E a \in GateArguments : DecideRelease(a)
    BY <1>2, <2>3, DecideKeeps
  <2>4. CASE Contribute \/ (\E i \in Inputs : DecideOn(i)) \/ (\E others \in Registries : RegisterDecided(others) \/ RegisterOthers(others))
    BY <2>4, ElsewhereKeeps DEF Contribute, DecideOn, RegisterDecided, RegisterOthers
  <2>5. CASE (\E r \in Requests : SubmitRequest(r)) \/ Execute \/ Read \/ Fetch \/ Undertake \/ Try
    BY <2>5, ElsewhereKeeps DEF SubmitRequest, Execute, Read, Fetch, Undertake, Try
  <2>6. CASE Govern
    BY <2>6, ElsewhereKeeps DEF Govern
  <2>7. CASE \E revision \in Revisions : \E mentions \in SUBSET {revision} : RunCases(revision, mentions)
    BY <2>7, ElsewhereKeeps DEF RunCases
  <2>8. CASE \E c \in Certifications, own \in BOOLEAN : Certify(c, own)
    BY <2>8, ElsewhereKeeps DEF Certify
  <2>9. CASE UNCHANGED vars
    BY <1>2, <2>9 DEF vars, release, GateInv
  <2> QED BY <1>2, <2>1, <2>2, <2>3, <2>4, <2>5, <2>6, <2>7, <2>8, <2>9 DEF Next
<1> QED BY <1>1, <1>2, PTL DEF Spec

\* A result that is safe has no fault of the gate's own, a report of each source, and no fault from it.
LEMMA SafeIsFaultless ==
  ASSUME NEW version, NEW pair, NEW required, NEW got, NEW result,
         result = OrchestrateVersionGate(version, pair, required, got), result.safe
  PROVE  /\ result.version = CanonicalVersion(version) /\ result.pair = GatePair(version, pair)
         /\ GateFaults(version, pair, required) = {} /\ Sources \subseteq DOMAIN got
         /\ \A s \in Sources :
              ReadReport(got[s], s, CanonicalVersion(version), GatePair(version, pair), Listed(required)).failures = {}
<1> DEFINE canonical == CanonicalVersion(version)
           asPair == GatePair(version, pair)
           list == Listed(required)
           read == [s \in Sources |-> IF s \in DOMAIN got THEN ReadReport(got[s], s, canonical, asPair, list)
                                      ELSE Synthetic(s, "missing_source_report")]
           own == {<<"version_gate", code>> : code \in GateFaults(version, pair, required)}
           theirs == UNION {{<<s, code>> : code \in read[s].failures} : s \in Sources}
<1>1. result = [version |-> canonical, pair |-> asPair, read |-> read, failures |-> own \cup theirs,
                safe |-> own \cup theirs = {}]
  BY DEF OrchestrateVersionGate
<1> HIDE DEF read, own, theirs, canonical, asPair, list
<1>2. result.version = canonical /\ result.pair = asPair
  BY <1>1
<1>7. own \cup theirs = {}
  <2> DEFINE none == own \cup theirs = {}
             all == own \cup theirs
  <2>1. result = [version |-> canonical, pair |-> asPair, read |-> read, failures |-> all, safe |-> none]
    BY <1>1
  <2> HIDE DEF none, all
  <2>2. result.safe = none
    BY <2>1
  <2>3. none
    BY <2>2
  <2> QED BY <2>3 DEF none
<1>3. own = {} /\ theirs = {}
  BY <1>7
<1>4. GateFaults(version, pair, required) = {}
  BY <1>3 DEF own
<1>5. ASSUME NEW s \in Sources PROVE read[s].failures = {}
  <2> DEFINE his == {<<s, code>> : code \in read[s].failures}
  <2>1. his \subseteq theirs
    BY DEF theirs
  <2>2. his = {}
    BY <1>3, <2>1
  <2> QED BY <2>2
<1>8. \A s : Synthetic(s, "missing_source_report").failures = {"missing_source_report"}
  BY DEF Synthetic
<1>9. \A s : Synthetic(s, "missing_source_report").failures # {}
  BY <1>8
<1>6. \A s \in Sources : s \in DOMAIN got /\ ReadReport(got[s], s, canonical, asPair, list).failures = {}
  BY <1>5, <1>9 DEF read
<1> QED BY <1>2, <1>4, <1>6 DEF canonical, asPair, list

\* A list that has something in it has an element.
LEMMA ListsHaveElements ==
  ASSUME NEW l, IsList(l), l # <<>>
  PROVE  ToSet(l) # {}
<1>1. Len(l) \in Nat /\ l = [i \in 1..Len(l) |-> l[i]]
  BY DEF IsList
<1>2. CASE Len(l) = 0
  <2>1. l = [i \in {} |-> l[i]]
    BY <1>1, <1>2
  <2> QED BY <2>1
<1>3. CASE Len(l) # 0
  <2>1. 1 \in DOMAIN l
    BY <1>1, <1>3
  <2> QED BY <2>1 DEF ToSet
<1> QED BY <1>2, <1>3

\* If the gate reads no failure of the harness, its report tells of each sample that is required.
LEMMA HarnessReadIsEarned ==
  ASSUME NEW r, IsReport(r), NEW pair, NEW required, Listed(pair) = pair, ToSet(pair) = {"xhs", "douyin"},
         ReadReport(r, "harness", "v0.2.0", pair, required).failures = {}
  PROVE  /\ ToSet(r.facts.required) = ToSet(required) /\ required # <<>>
         /\ \A sample \in ToSet(required) : \E n \in DOMAIN r.facts.results : r.facts.results[n].sample = sample
         /\ \A m, n \in DOMAIN r.facts.results : r.facts.results[m].sample = r.facts.results[n].sample => m = n
         /\ \A n \in DOMAIN r.facts.results :
              \/ r.facts.results[n].verdict = "pass" /\ r.facts.results[n].status = "success"
              \/ /\ r.facts.results[n].verdict = "legal_failure" /\ r.facts.results[n].status = "failed"
                 /\ r.facts.results[n].category \in LegalCategories
<1> DEFINE rebuilt == Rebuilt(r, "v0.2.0", pair, required)
<1>1. /\ r.source = "harness" /\ DetailsFault(r, rebuilt, required) = None
      /\ rebuilt.failures = {}
  BY ReadWithoutFailures
<1>2. IsReport(r)
  OBVIOUS
<1>3. rebuilt = BuildHarness(r.facts.results, required, "v0.2.0")
  BY <1>1 DEF Rebuilt
<1>4. HarnessFault(r, rebuilt, required) = None
  BY <1>1 DEF DetailsFault
<1>5. IsList(r.facts.results)
  BY <1>1, <1>2 DEF IsReport
<1> HIDE DEF rebuilt
<1>6. ToSet(r.facts.required) = ToSet(required)
  BY <1>4, HarnessWasAsked
<1>7. HarnessFailures(r.facts.results, required, "v0.2.0") = {}
  BY <1>1, <1>3, HarnessIs
<1> DEFINE results == r.facts.results
<1> HIDE DEF results
<1>8. /\ required # <<>>
      /\ \A sample \in ToSet(required) : \E n \in DOMAIN results : results[n].sample = sample
      /\ \A m, n \in DOMAIN results : results[m].sample = results[n].sample => m = n
      /\ \A n \in DOMAIN results :
           \/ results[n].verdict = "pass" /\ results[n].status = "success"
           \/ /\ results[n].verdict = "legal_failure" /\ results[n].status = "failed"
              /\ results[n].category \in LegalCategories
  BY <1>5, <1>7, HarnessIsEarned DEF results
<1> QED BY <1>6, <1>8 DEF results

\* If the gate reads no failure of the regression, its report tells of the frozen cases.
LEMMA RegressionReadIsEarned ==
  ASSUME NEW r, IsReport(r), NEW pair, NEW required, Listed(pair) = pair, ToSet(pair) = {"xhs", "douyin"},
         ReadReport(r, "real_adapter_regression", "v0.2.0", pair, required).failures = {}
  PROVE  /\ {r.facts.entries[n].key : n \in DOMAIN r.facts.entries} = {"xhs", "douyin"}
         /\ \A n \in DOMAIN r.facts.entries : CasesAreFrozen(r.facts.entries[n].key, r.facts.entries[n].cases)
<1> DEFINE rebuilt == Rebuilt(r, "v0.2.0", pair, required)
<1>1. /\ r.source = "real_adapter_regression" /\ DetailsFault(r, rebuilt, required) = None
      /\ rebuilt.failures = {}
  BY ReadWithoutFailures
<1>2. IsReport(r)
  OBVIOUS
<1> DEFINE payload == [version |-> "v0.2.0", pair |-> r.facts.pair, operation |-> r.facts.operation,
                       target |-> r.facts.target, entries |-> r.facts.entries, evidence |-> r.evidence]
<1>3. rebuilt = ValidateRegression(payload, "v0.2.0", pair, r.facts.operation, r.facts.target)
  BY <1>1 DEF Rebuilt
<1>4. payload.entries = r.facts.entries /\ IsEntries(r.facts.entries)
  BY <1>1, <1>2 DEF IsReport
<1> HIDE DEF rebuilt, payload
<1>6. RegressionFailures(payload, "v0.2.0", pair, r.facts.operation, r.facts.target) = {}
  BY <1>1, <1>3, RegressionIs
<1>5. /\ {payload.entries[n].key : n \in DOMAIN payload.entries} = {"xhs", "douyin"}
      /\ \A n \in DOMAIN payload.entries : CasesAreFrozen(payload.entries[n].key, payload.entries[n].cases)
  BY <1>4, <1>6, RegressionIsEarned
<1> QED BY <1>4, <1>5

\* If the gate reads no failure of the scan, its report tells of a clean one.
LEMMA ScanReadIsEarned ==
  ASSUME NEW r, IsReport(r), NEW pair, NEW required, Listed(pair) = pair, ToSet(pair) = {"xhs", "douyin"},
         ReadReport(r, "platform_leakage", "v0.2.0", pair, required).failures = {}
  PROVE  r.facts.boundaries = Boundaries /\ r.facts.findings = <<>> /\ r.facts.verdict = "pass"
<1> DEFINE rebuilt == Rebuilt(r, "v0.2.0", pair, required)
<1>1. /\ r.source = "platform_leakage" /\ DetailsFault(r, rebuilt, required) = None
      /\ rebuilt.failures = {}
  BY ReadWithoutFailures
<1>2. IsReport(r)
  OBVIOUS
<1> DEFINE payload == [version |-> "v0.2.0", boundaries |-> r.facts.boundaries, verdict |-> r.facts.verdict,
                       findings |-> r.facts.findings, evidence |-> r.evidence]
<1>3. rebuilt = ValidateLeakage(payload, "v0.2.0")
  BY <1>1 DEF Rebuilt
<1>4. /\ payload.findings = r.facts.findings /\ payload.boundaries = r.facts.boundaries
      /\ payload.verdict = r.facts.verdict /\ IsList(r.facts.findings)
  BY <1>1, <1>2 DEF IsReport
<1> HIDE DEF rebuilt, payload
<1>6. LeakageFailures(payload, "v0.2.0") = {}
  BY <1>1, <1>3, ScanIs
<1>5. payload.boundaries = Boundaries /\ payload.verdict = "pass" /\ payload.findings = <<>>
  BY <1>4, <1>6, ScanIsEarned
<1> QED BY <1>4, <1>5

\* A safe result on reports of this shape has been earned.
LEMMA SafeIsEarned ==
  ASSUME GateInv, stage = "gated", gate.safe
  PROVE  ReleaseIsEarned
<1> DEFINE harness == reports["harness"].facts
           regression == reports["real_adapter_regression"].facts
           leakage == reports["platform_leakage"].facts
           required == asked.required
           SeenFor(sample) == {harness.results[n] : n \in {m \in DOMAIN harness.results : harness.results[m].sample = sample}}
<1>1. /\ asked \in GateArguments
      /\ gate = OrchestrateVersionGate(asked.version, asked.pair, required, reports)
      /\ \A s \in DOMAIN reports : IsReport(reports[s])
  BY DEF GateInv
<1>2. /\ gate.version = CanonicalVersion(asked.version) /\ gate.pair = GatePair(asked.version, asked.pair)
      /\ GateFaults(asked.version, asked.pair, required) = {} /\ Sources \subseteq DOMAIN reports
      /\ \A s \in Sources :
           ReadReport(reports[s], s, CanonicalVersion(asked.version), GatePair(asked.version, asked.pair),
                      Listed(required)).failures = {}
  BY <1>1, SafeIsFaultless
<1>3. /\ asked.version = "v0.2.0" /\ Listed(asked.pair) = asked.pair /\ Listed(asked.pair) # <<>>
      /\ ToSet(asked.pair) = {"xhs", "douyin"} /\ required # None /\ Listed(required) = required
  BY <1>2, GateWasAsked
<1>4. CanonicalVersion(asked.version) = "v0.2.0" /\ GatePair(asked.version, asked.pair) = asked.pair
  BY <1>3 DEF CanonicalVersion, GatePair
<1>5. \A s \in Sources : ReadReport(reports[s], s, "v0.2.0", asked.pair, required).failures = {}
  BY <1>2, <1>3, <1>4
<1>6. /\ ToSet(harness.required) = ToSet(required) /\ required # <<>>
      /\ \A sample \in ToSet(required) : \E n \in DOMAIN harness.results : harness.results[n].sample = sample
      /\ \A m, n \in DOMAIN harness.results : harness.results[m].sample = harness.results[n].sample => m = n
      /\ \A n \in DOMAIN harness.results :
           \/ harness.results[n].verdict = "pass" /\ harness.results[n].status = "success"
           \/ /\ harness.results[n].verdict = "legal_failure" /\ harness.results[n].status = "failed"
              /\ harness.results[n].category \in LegalCategories
  <2> DEFINE r == reports["harness"]
  <2>1. "harness" \in Sources
    BY DEF Sources
  <2>2. ReadReport(r, "harness", "v0.2.0", asked.pair, required).failures = {} /\ IsReport(r)
    BY <1>1, <1>2, <1>5, <2>1
  <2> HIDE DEF r
  <2> QED BY <1>3, <2>1, <2>2, HarnessReadIsEarned DEF r
<1>7. /\ {regression.entries[n].key : n \in DOMAIN regression.entries} = {"xhs", "douyin"}
      /\ \A n \in DOMAIN regression.entries : CasesAreFrozen(regression.entries[n].key, regression.entries[n].cases)
  <2> DEFINE r == reports["real_adapter_regression"]
  <2>1. "real_adapter_regression" \in Sources
    BY DEF Sources
  <2>2. ReadReport(r, "real_adapter_regression", "v0.2.0", asked.pair, required).failures = {} /\ IsReport(r)
    BY <1>1, <1>2, <1>5, <2>1
  <2> HIDE DEF r
  <2>3. /\ {r.facts.entries[n].key : n \in DOMAIN r.facts.entries} = {"xhs", "douyin"}
        /\ \A n \in DOMAIN r.facts.entries : CasesAreFrozen(r.facts.entries[n].key, r.facts.entries[n].cases)
    BY <1>3, <2>1, <2>2, RegressionReadIsEarned
  <2> QED BY <2>3 DEF r
<1>8. leakage.boundaries = Boundaries /\ leakage.findings = <<>> /\ leakage.verdict = "pass"
  <2> DEFINE r == reports["platform_leakage"]
  <2>1. "platform_leakage" \in Sources
    BY DEF Sources
  <2>2. ReadReport(r, "platform_leakage", "v0.2.0", asked.pair, required).failures = {} /\ IsReport(r)
    BY <1>1, <1>2, <1>5, <2>1
  <2> HIDE DEF r
  <2> QED BY <1>3, <2>1, <2>2, ScanReadIsEarned DEF r
<1> HIDE DEF harness, regression, leakage
<1>9. ToSet(required) # {}
  BY <1>1, <1>3, <1>6, ListsAssumption, ListsHaveElements
<1>10. \A sample \in ToSet(required) : Cardinality(SeenFor(sample)) = 1
  <2>1. SUFFICES ASSUME NEW sample \in ToSet(required) PROVE Cardinality(SeenFor(sample)) = 1
    OBVIOUS
  <2>2. PICK n \in DOMAIN harness.results : harness.results[n].sample = sample
    BY <1>6
  <2>3. {m \in DOMAIN harness.results : harness.results[m].sample = sample} = {n}
    BY <1>6, <2>2
  <2>4. SeenFor(sample) = {harness.results[n]}
    BY <2>3
  <2> QED BY <2>4, FS_Singleton
<1>11. gate.version = "v0.2.0" /\ ToSet(gate.pair) = {"xhs", "douyin"}
  BY <1>2, <1>3, <1>4
<1>12. \A n \in DOMAIN harness.results :
         \/ harness.results[n].verdict = "pass" /\ harness.results[n].status = "success"
         \/ /\ harness.results[n].verdict = "legal_failure" /\ harness.results[n].status = "failed"
            /\ harness.results[n].category \in {"invalid_input", "unsupported", "platform"}
  BY <1>6 DEF LegalCategories
<1>13. \A n \in DOMAIN regression.entries :
         LET cases == regression.entries[n].cases
         IN /\ [m \in DOMAIN cases |-> cases[m].id] =
               IF regression.entries[n].key = "xhs" THEN <<"xhs-success", "xhs-invalid-input">>
               ELSE <<"douyin-success", "douyin-platform">>
            /\ cases[1].status = "success"
            /\ cases[2].status = "failed" /\ cases[2].category \in {"invalid_input", "platform"}
  BY <1>7 DEF CasesAreFrozen, AllowedCategories
<1>14. ToSet(harness.required) = ToSet(required)
  BY <1>6
<1>15. {regression.entries[n].key : n \in DOMAIN regression.entries} = {"xhs", "douyin"}
  BY <1>7
<1> QED BY <1>8, <1>9, <1>10, <1>11, <1>12, <1>13, <1>14, <1>15 DEF ReleaseIsEarned, harness, regression, leakage

\* A safe result of the version gate is earned: whatever became of the reports on their way, what
\* orchestrate_version_gate read in them passes on each source's own terms.
THEOREM ReleaseEarned == Spec => []ReleaseIsEarned
<1>1. GateInv => ReleaseIsEarned
  <2>1. CASE stage = "gated" /\ gate.safe
    BY <2>1, SafeIsEarned
  <2>2. CASE ~(stage = "gated" /\ gate.safe)
    BY <2>2 DEF ReleaseIsEarned
  <2> QED BY <2>1, <2>2
<1> QED BY <1>1, GateInvariance, PTL


-----------------------------------------------------------------------------
(* The operability gate *)

\* A case is kept if it is a mapping with an id of its own; and one that comes later is a duplicate.
LEMMA DroppedCases ==
  ASSUME NEW cases, NEW i
  PROVE  /\ CaseDropped(cases, i) = None <=>
              /\ cases[i].malformed # "entry" /\ cases[i].id # None
              /\ \A j \in 1..(i - 1) : cases[j].malformed # "entry" => cases[j].id # cases[i].id
         /\ /\ cases[i].malformed # "entry" /\ cases[i].id # None
            /\ \E j \in 1..(i - 1) : cases[j].malformed # "entry" /\ cases[j].id = cases[i].id
            => CaseDropped(cases, i) = "duplicate_case_id"
<1> DEFINE earlier == \E j \in 1..(i - 1) : cases[j].malformed # "entry" /\ cases[j].id = cases[i].id
           checks == << <<cases[i].malformed = "entry", "invalid_case">>,
                        <<cases[i].id = None, "missing_case_id">>,
                        <<\E j \in 1..(i - 1) : cases[j].malformed # "entry" /\ cases[j].id = cases[i].id,
                          "duplicate_case_id">> >>
<1>1. CaseDropped(cases, i) = FirstFault(checks)
  BY DEF CaseDropped
<1>2. DOMAIN checks = 1..3 /\ \A k \in 1..3 : checks[k][2] # None
  BY CaseCodeAssumption
<1>3. FirstFault(checks) = None <=> \A k \in 1..3 : ~checks[k][1]
  <2> HIDE DEF checks
  <2> QED BY <1>2, FirstFaultFacts
<1>4. (\A k \in 1..3 : ~checks[k][1]) <=> ~checks[1][1] /\ ~checks[2][1] /\ ~checks[3][1]
  <2> HIDE DEF checks
  <2> QED OBVIOUS
<1>5. (~checks[1][1] <=> cases[i].malformed # "entry") /\ (~checks[2][1] <=> cases[i].id # None)
  OBVIOUS
<1>6. ~checks[3][1] <=> ~earlier
  OBVIOUS
<1>7. checks[3][2] = "duplicate_case_id"
  OBVIOUS
<1> HIDE DEF checks
<1>8. ~checks[1][1] /\ ~checks[2][1] /\ checks[3][1] => FirstFault(checks) = "duplicate_case_id"
  <2>1. SUFFICES ASSUME ~checks[1][1], ~checks[2][1], checks[3][1] PROVE FirstFault(checks) = "duplicate_case_id"
    OBVIOUS
  <2> DEFINE failing == {k \in DOMAIN checks : checks[k][1]}
  <2>2. failing = {3}
    BY <1>2, <2>1
  <2>3. FirstFault(checks) = IF failing = {} THEN None ELSE checks[Min(failing)][2]
    BY DEF FirstFault
  <2>4. Min({3}) = 3
    <3>1. {3} \in SUBSET Nat /\ {3} # {}
      OBVIOUS
    <3> QED BY <3>1, LeastIsIn
  <2> HIDE DEF failing
  <2> QED BY <1>7, <2>2, <2>3, <2>4
<1>9. ~earlier <=> \A j \in 1..(i - 1) : cases[j].malformed # "entry" => cases[j].id # cases[i].id
  OBVIOUS
<1>10. earlier <=> \E j \in 1..(i - 1) : cases[j].malformed # "entry" /\ cases[j].id = cases[i].id
  OBVIOUS
<1> HIDE DEF earlier
<1> QED BY <1>1, <1>3, <1>4, <1>5, <1>6, <1>8, <1>9, <1>10

\* The reference to a result that has no fault is the one to the result of the case.
LEMMA ResultIsBacked ==
  ASSUME NEW c, NEW revision, NEW cases, ResultRefFault(c, revision, cases) = None
  PROVE  /\ c.resultRef # None /\ c.resultRef.revision = revision
         /\ c.resultRef.at = "actual_result" /\ c.resultRef.about = c.id /\ cases[c.id] = c.result
<1> DEFINE checks == << <<c.resultRef.at = "other", "invalid_actual_result_ref">>,
                     <<c.resultRef.revision # revision, "actual_result_ref_revision_mismatch">>,
                     <<~BacksResult(c.resultRef, c, cases), "actual_result_ref_scope_mismatch">> >>
<1>1. c.resultRef # None /\ FirstFault(checks) = None
  BY CaseCodeAssumption DEF ResultRefFault
<1>2. DOMAIN checks = 1..3 /\ \A k \in 1..3 : checks[k][2] # None
  BY CaseCodeAssumption
<1>3. ~checks[2][1] /\ ~checks[3][1]
  <2> HIDE DEF checks
  <2>1. \A k \in 1..3 : ~checks[k][1]
    BY <1>1, <1>2, FirstFaultFacts
  <2> QED BY <2>1
<1> QED BY <1>1, <1>3 DEF BacksResult

\* A mandatory case without a fault is as the matrix freezes it.
LEMMA CaseIsFrozen ==
  ASSUME NEW c, c.id \in MandatoryCases, NEW revision, NEW cases, CaseFaults(c, revision, cases) = {}
  PROVE  /\ c.impact = "mandatory" /\ c.dimension = DimensionOf(c.id)
         /\ c.result.mentions \subseteq {revision}
         /\ ResultRefFault(c, revision, cases) = None
<1> DEFINE mandatory == c.id \in MandatoryCases
           checks == << <<c.dimension \notin Dimensions, "invalid_case_dimension">>,
                   <<mandatory /\ c.dimension \in Dimensions /\ c.dimension # DimensionOf(c.id),
                     "case_dimension_mismatch">>,
                   <<c.verdict \notin {"pass", "fail"}, "invalid_case_verdict">>,
                   <<mandatory /\ c.impact # "mandatory", "mandatory_case_gate_impact_mismatch">>,
                   <<c.evidence = {}, "missing_case_evidence_refs">>,
                   <<\E ref \in c.evidence : ~BacksCase(ref, c, cases), "case_evidence_ref_scope_mismatch">>,
                   <<c.upstream = {}, "missing_upstream_refs">>,
                   <<\E ref \in c.upstream : ref.revision # revision, "upstream_refs_revision_mismatch">>,
                   <<\E ref \in c.upstream : ~ApprovedUpstream(ref), "invalid_upstream_refs">>,
                   <<c.result.says # "expected", "actual_result_field_mismatch">>,
                   <<~(c.result.mentions \subseteq {revision}), "actual_result_revision_mismatch">> >>
<1>1. (AllFaults(checks) \cup {ResultRefFault(c, revision, cases)} \cup c.flaws) \ {None} = {}
  BY DEF CaseFaults
<1>2. DOMAIN checks = 1..11 /\ \A k \in 1..11 : checks[k][2] # None
  BY CaseCodeAssumption
<1>3. \A k \in 1..11 : ~checks[k][1]
  <2> HIDE DEF checks
  <2>1. \A k \in 1..11 : checks[k][1] => checks[k][2] \in AllFaults(checks)
    BY <1>2 DEF AllFaults
  <2> QED BY <1>1, <1>2, <2>1
<1>4. ~checks[1][1] /\ ~checks[2][1] /\ ~checks[4][1] /\ ~checks[11][1]
  <2> HIDE DEF checks
  <2> QED BY <1>3
<1>5. c.dimension \in Dimensions
  BY <1>4
<1>6. c.dimension = DimensionOf(c.id) /\ c.impact = "mandatory"
  BY <1>4, <1>5
<1>7. c.result.mentions \subseteq {revision}
  BY <1>4
<1>8. ResultRefFault(c, revision, cases) = None
  <2> HIDE DEF checks
  <2> QED BY <1>1
<1> QED BY <1>6, <1>7, <1>8

\* A baseline without a fault passed for the release of the gate.
LEMMA BaselineIsSound ==
  ASSUME NEW ref, NEW result, NEW revision, BaselineFaults(ref, result, revision) = {}
  PROVE  result # None /\ result.release = "v0.6.0" /\ result.verdict = "pass" /\ result.safe
<1> DEFINE first == << <<ref.at # "baseline", "invalid_baseline_gate_ref">>,
               <<ref.at = "baseline" /\ ref.revision # revision, "baseline_gate_ref_revision_mismatch">>,
               <<result = None, "missing_baseline_gate_result">> >>
           checks == << <<result.ref # ref, "baseline_gate_ref_mismatch">>,
                         <<result.revision # revision, "baseline_gate_revision_mismatch">>,
                         <<result.release # Release, "baseline_gate_release_mismatch">>,
                         <<result.verdict # "pass" \/ ~result.safe, "baseline_gate_not_passed">>,
                         <<result.evidence = {}, "baseline_gate_evidence_missing">>,
                         <<result.evidence # {} /\ ref \notin result.evidence, "baseline_gate_evidence_unbound">>,
                         <<result.evidence # {} /\ Ref(revision, None, "test") \notin result.evidence,
                           "baseline_gate_evidence_unbacked">> >>
<1>1. AllFaults(first) \cup (IF result = None THEN {} ELSE AllFaults(checks)) = {}
  BY DEF BaselineFaults
<1>2. DOMAIN first = 1..3 /\ DOMAIN checks = 1..7
  OBVIOUS
<1>3. ~first[3][1]
  <2> HIDE DEF first, checks
  <2> QED BY <1>1, <1>2, NoFaults
<1>4. result # None
  BY <1>3
<1>5. AllFaults(checks) = {}
  <2> HIDE DEF first, checks
  <2> QED BY <1>1, <1>4
<1>6. ~checks[3][1] /\ ~checks[4][1]
  <2> HIDE DEF checks
  <2>1. \A k \in 1..7 : ~checks[k][1]
    BY <1>2, <1>5, NoFaults
  <2> QED BY <2>1
<1>7. result.release = Release
  BY <1>6
<1>8. ~(result.verdict # "pass" \/ ~result.safe)
  BY <1>6
<1> QED BY <1>4, <1>7, <1>8 DEF Release

\* A mandatory case that is not among the failed ones is there once, without a fault, and passed.
LEMMA NotFailedIsSound ==
  ASSUME NEW c, NEW cases, IsList(c.cases), NEW id \in MandatoryCases,
         id \notin OrchestrateOperabilityGate(c, cases).failed
  PROVE  \E n \in DOMAIN c.cases :
           /\ CaseDropped(c.cases, n) = None /\ c.cases[n].id = id /\ c.cases[n].verdict = "pass"
           /\ CaseFaults(c.cases[n], c.revision, cases) = {}
           /\ \A m \in DOMAIN c.cases : c.cases[m].malformed # "entry" /\ c.cases[m].id = id => m = n
<1> DEFINE kept == Normalized(c.cases)
<1>1. OrchestrateOperabilityGate(c, cases).failed = FailedCases(c, cases)
  BY DEF OrchestrateOperabilityGate
<1>2. /\ id \notin {d.id : d \in {e \in kept : e.verdict # "pass" \/ VerdictFaults(e, c.revision, cases) # {}}}
      /\ id \notin MandatoryCases \ {d.id : d \in kept}
      /\ id \notin {c.cases[i].id : i \in RepeatedPlaces(c.cases)}
  BY <1>1 DEF FailedCases
<1>3. id \in {d.id : d \in kept}
  BY <1>2
<1>4. PICK n \in DOMAIN c.cases : CaseDropped(c.cases, n) = None /\ c.cases[n].id = id
  BY <1>3 DEF Normalized
<1>5. c.cases[n] \in kept
  BY <1>4 DEF Normalized
<1>6. c.cases[n].verdict = "pass" /\ VerdictFaults(c.cases[n], c.revision, cases) = {}
  BY <1>2, <1>4, <1>5
<1>7. CaseFaults(c.cases[n], c.revision, cases) = {}
  BY <1>6 DEF VerdictFaults
<1>8. DOMAIN c.cases = 1..Len(c.cases) /\ Len(c.cases) \in Nat
  BY DEF IsList
<1>9. /\ c.cases[n].malformed # "entry" /\ c.cases[n].id # None
      /\ \A j \in 1..(n - 1) : c.cases[j].malformed # "entry" => c.cases[j].id # c.cases[n].id
  BY <1>4, DroppedCases
<1>10. ASSUME NEW m \in DOMAIN c.cases, c.cases[m].malformed # "entry", c.cases[m].id = id, m > n PROVE FALSE
  <2>1. n \in 1..(m - 1)
    BY <1>8, <1>10
  <2>2. CaseDropped(c.cases, m) = "duplicate_case_id"
    BY <1>4, <1>9, <1>10, <2>1, DroppedCases
  <2> QED BY <1>2, <1>10, <2>2 DEF RepeatedPlaces
<1>11. ASSUME NEW m \in DOMAIN c.cases, c.cases[m].malformed # "entry", c.cases[m].id = id, m < n PROVE FALSE
  <2>1. m \in 1..(n - 1)
    BY <1>8, <1>11
  <2> QED BY <1>4, <1>9, <1>11, <2>1
<1>12. \A m \in DOMAIN c.cases : c.cases[m].malformed # "entry" /\ c.cases[m].id = id => m = n
  BY <1>8, <1>10, <1>11
<1> QED BY <1>4, <1>6, <1>7, <1>12

\* A result that is safe has no fault in the baseline, drops no case, fails none that is
\* mandatory, and all the evidence names its revision.
LEMMA SafeIsBound ==
  ASSUME NEW x, NEW shown, OrchestrateOperabilityGate(x, shown).safe
  PROVE  /\ OrchestrateOperabilityGate(x, shown).failed \cap MandatoryCases = {}
         /\ x.baseline # None /\ x.baseline.release = "v0.6.0" /\ x.baseline.safe /\ x.baseline.verdict = "pass"
         /\ \A ref \in x.baseline.evidence \cup x.evidence
                         \cup UNION {x.cases[n].evidence \cup x.cases[n].upstream : n \in DOMAIN x.cases} :
              ref.revision = x.revision
<1> DEFINE kept == Normalized(x.cases)
           none == GateFailures(x, shown) = {}
<1>1. OrchestrateOperabilityGate(x, shown).failed = FailedCases(x, shown)
  BY DEF OrchestrateOperabilityGate
<1>2. OrchestrateOperabilityGate(x, shown).safe = none
  BY DEF OrchestrateOperabilityGate
<1>3. GateFailures(x, shown) = {}
  BY <1>2
<1>4. /\ BaselineFaults(x.baselineRef, x.baseline, x.revision) = {}
      /\ CoverageFaults(kept) = {} /\ RevisionFaults(EvidenceRefs(x), x.revision) = {}
      /\ UNION {VerdictFaults(d, x.revision, shown) : d \in kept} = {}
      /\ {CaseDropped(x.cases, i) : i \in DroppedPlaces(x.cases)} = {}
  <2> HIDE DEF kept
  <2>1. x.flaws \cup BaselineFaults(x.baselineRef, x.baseline, x.revision)
        \cup (UNION {VerdictFaults(d, x.revision, shown) : d \in kept}) \cup {CaseDropped(x.cases, i) : i \in DroppedPlaces(x.cases)}
        \cup CoverageFaults(kept) \cup RevisionFaults(EvidenceRefs(x), x.revision) = {}
    BY <1>3 DEF GateFailures, kept
  <2> QED BY <2>1
<1>5. x.baseline # None /\ x.baseline.release = "v0.6.0" /\ x.baseline.safe /\ x.baseline.verdict = "pass"
  BY <1>4, BaselineIsSound
<1>6. DroppedPlaces(x.cases) = {}
  BY <1>4
<1>7. \A n \in DOMAIN x.cases : x.cases[n] \in kept /\ CaseDropped(x.cases, n) = None
  BY <1>6 DEF Normalized, DroppedPlaces
<1>8. RepeatedPlaces(x.cases) = {}
  BY <1>7, CaseCodeAssumption DEF RepeatedPlaces
<1>9. MandatoryCases \subseteq {d.id : d \in kept}
  <2> DEFINE checks == << <<~(MandatoryCases \subseteq {d.id : d \in kept}), "missing_mandatory_cases">>,
                          <<~(Dimensions \subseteq {d.dimension : d \in kept}), "missing_mandatory_dimensions">> >>
  <2>1. AllFaults(checks) = {}
    BY <1>4 DEF CoverageFaults
  <2>2. DOMAIN checks = 1..2
    OBVIOUS
  <2>3. ~checks[1][1]
    <3> HIDE DEF checks
    <3> QED BY <2>1, <2>2, NoFaults
  <2> HIDE DEF kept
  <2> QED BY <2>3
<1>10. \A ref \in EvidenceRefs(x) : ref.revision = x.revision
  BY <1>4 DEF RevisionFaults
<1>11. \A d \in kept : VerdictFaults(d, x.revision, shown) = {}
  <2> HIDE DEF kept
  <2> QED BY <1>4
<1>12. \A d \in kept : d.id \in MandatoryCases => d.verdict = "pass"
  <2>1. SUFFICES ASSUME NEW d \in kept, d.id \in MandatoryCases PROVE d.verdict = "pass"
    OBVIOUS
  <2> HIDE DEF kept
  <2>2. CaseFaults(d, x.revision, shown) = {} /\ ~(d.verdict # "pass" /\ d.impact = "mandatory")
    BY <1>11 DEF VerdictFaults
  <2>3. d.impact = "mandatory"
    BY <2>1, <2>2, CaseIsFrozen
  <2> QED BY <2>2, <2>3
<1>13. FailedCases(x, shown) \cap MandatoryCases = {}
  <2> HIDE DEF kept
  <2>1. FailedCases(x, shown) = {d.id : d \in {e \in kept : e.verdict # "pass" \/ VerdictFaults(e, x.revision, shown) # {}}}
                                \cup (MandatoryCases \ {d.id : d \in kept}) \cup {x.cases[i].id : i \in RepeatedPlaces(x.cases)}
    BY DEF FailedCases, kept
  <2> QED BY <1>8, <1>9, <1>11, <1>12, <2>1
<1>14. \A ref \in x.baseline.evidence \cup x.evidence
                         \cup UNION {x.cases[n].evidence \cup x.cases[n].upstream : n \in DOMAIN x.cases} : ref \in EvidenceRefs(x)
  BY <1>5, <1>7 DEF EvidenceRefs
<1> QED BY <1>1, <1>5, <1>10, <1>13, <1>14

\* The cases of a call of the gate.
IsCases(cases) ==
  /\ IsList(cases)
  /\ \A n \in DOMAIN cases :
       LET ref == cases[n].resultRef
       IN /\ cases[n].malformed \in {None, "entry"}
          /\ ref = None \/ ref = Ref(ref.revision, ref.about, ref.at)

\* What the operability gate is called with comes after a version gate that was safe, and its
\* result is shown beside the call.
CertInv ==
  /\ stage \in {"recorded", "certified"} => gate.version = "v0.2.0"
  /\ stage = "certified" =>
       /\ IsCases(certification.cases)
       /\ certificate = OrchestrateOperabilityGate(certification, artifact)

\* A call has cases, also with the version gate's own result for its baseline.
LEMMA CertifyKeeps ==
  ASSUME CertInv, NEW c \in Certifications, NEW own \in BOOLEAN, Certify(c, own)
  PROVE  CertInv'
<1>1. /\ stage = "recorded" /\ stage' = "certified" /\ gate' = gate /\ artifact' = artifact
      /\ certification' = IF own THEN [c EXCEPT !.baseline = OwnBaseline(c)] ELSE c
      /\ certificate' = OrchestrateOperabilityGate(certification', artifact)
  BY DEF Certify, release
<1>2. DOMAIN c = {"revision", "flaws", "baselineRef", "baseline", "cases", "evidence"}
  BY CasesAssumption
<1>3. IsCases(c.cases)
  BY CasesAssumption DEF IsCases
<1>4. certification'.cases = c.cases
  BY <1>1, <1>2
<1>5. gate'.version = "v0.2.0"
  BY <1>1 DEF CertInv
<1> QED BY <1>1, <1>3, <1>4, <1>5 DEF CertInv

\* The operability gate is only reached behind a safe version gate.
LEMMA CertInvariance == Spec => []CertInv
<1>1. Init => CertInv
  BY DEF Init, CertInv
<1>2. ASSUME CertInv, ReleaseIsEarned, [Next]_vars PROVE CertInv'
  <2>1. CASE \E c \in Certifications, own \in BOOLEAN : Certify(c, own)
    BY <1>2, <2>1, CertifyKeeps
  <2>2. CASE \E revision \in Revisions : \E mentions \in SUBSET {revision} : RunCases(revision, mentions)
    <3>1. stage = "gated" /\ gate.safe /\ gate' = gate /\ stage' = "recorded"
      BY <2>2 DEF RunCases
    <3>2. gate.version = "v0.2.0"
      BY <1>2, <3>1 DEF ReleaseIsEarned
    <3> QED BY <3>1, <3>2 DEF CertInv
  <2>3. CASE UNCHANGED vars
    BY <1>2, <2>3 DEF vars, release, operability, CertInv
  <2>4. SUFFICES ASSUME stage' \notin {"recorded", "certified"} PROVE CertInv'
    <3>1. CASE Contribute \/ (\E i \in Inputs : DecideOn(i)) \/ (\E others \in Registries : RegisterDecided(others) \/ RegisterOthers(others))
      BY <3>1, <2>4 DEF Contribute, DecideOn, RegisterDecided, RegisterOthers
    <3>2. CASE (\E r \in Requests : SubmitRequest(r)) \/ Execute \/ Read \/ Fetch \/ Undertake \/ Try
      BY <3>2, <2>4 DEF SubmitRequest, Execute, Read, Fetch, Undertake, Try
    <3>3. CASE Govern
      BY <3>3, <2>4 DEF Govern
    <3>4. CASE (\E x \in Rehearsals : Rehearse(x)) \/ (\E s \in Sources : Alter(s)) \/ (\E a \in GateArguments : DecideRelease(a))
      BY <3>4, <2>4 DEF Rehearse, Alter, DecideRelease
    <3> QED BY <1>2, <2>1, <2>2, <2>3, <3>1, <3>2, <3>3, <3>4 DEF Next
  <2> QED BY <2>4 DEF CertInv
<1> QED BY <1>1, <1>2, ReleaseEarned, PTL DEF Spec

\* What the operability gate calls safe is bound to one revision and to a baseline that passed for its
\* own release, and no mandatory case counts as passed unless it is there once, without a fault
\* (orchestrate_operability_gate).
THEOREM OperabilityBound == Spec => []OperabilityIsBound
<1>1. ASSUME CertInv PROVE OperabilityIsBound
  <2>1. SUFFICES ASSUME stage = "certified" PROVE OperabilityIsBound
    BY DEF OperabilityIsBound
  <2> DEFINE c == certification
  <2>2. IsCases(c.cases) /\ certificate = OrchestrateOperabilityGate(c, artifact) /\ gate.version = "v0.2.0"
    BY <1>1, <2>1 DEF CertInv
  <2>3. ASSUME NEW id \in MandatoryCases \ certificate.failed
        PROVE  \E n \in DOMAIN c.cases :
                 /\ c.cases[n].id = id /\ c.cases[n].malformed = None /\ c.cases[n].verdict = "pass"
                 /\ c.cases[n].impact = "mandatory" /\ c.cases[n].dimension = DimensionOf(id)
                 /\ artifact[id] = c.cases[n].result /\ c.cases[n].result.mentions \subseteq {c.revision}
                 /\ c.cases[n].resultRef = Ref(c.revision, id, "actual_result")
                 /\ \A m \in DOMAIN c.cases : c.cases[m].malformed = None /\ c.cases[m].id = id => m = n
    <3> HIDE DEF c
    <3>1. PICK n \in DOMAIN c.cases :
            /\ CaseDropped(c.cases, n) = None /\ c.cases[n].id = id /\ c.cases[n].verdict = "pass"
            /\ CaseFaults(c.cases[n], c.revision, artifact) = {}
            /\ \A m \in DOMAIN c.cases : c.cases[m].malformed # "entry" /\ c.cases[m].id = id => m = n
      BY <2>2, <2>3, NotFailedIsSound DEF IsCases
    <3>2. c.cases[n].malformed = None
      BY <2>2, <3>1, DroppedCases DEF IsCases
    <3>3. /\ c.cases[n].impact = "mandatory" /\ c.cases[n].dimension = DimensionOf(id)
          /\ c.cases[n].result.mentions \subseteq {c.revision}
          /\ ResultRefFault(c.cases[n], c.revision, artifact) = None
      BY <2>3, <3>1, CaseIsFrozen
    <3> DEFINE ref == c.cases[n].resultRef
    <3>4. ref # None /\ ref.revision = c.revision /\ ref.at = "actual_result" /\ ref.about = id
          /\ artifact[id] = c.cases[n].result
      BY <3>1, <3>3, ResultIsBacked
    <3>5. ref = Ref(ref.revision, ref.about, ref.at)
      BY <2>2, <3>4 DEF IsCases
    <3>6. ref = Ref(c.revision, id, "actual_result")
      BY <3>4, <3>5
    <3>7. \A m \in DOMAIN c.cases : c.cases[m].malformed = None /\ c.cases[m].id = id => m = n
      BY <3>1, CaseCodeAssumption
    <3> QED BY <3>1, <3>2, <3>3, <3>4, <3>6, <3>7
  <2>4. ASSUME certificate.safe
        PROVE  /\ certificate.failed \cap MandatoryCases = {}
               /\ c.baseline.release = "v0.6.0" /\ c.baseline.safe /\ c.baseline.verdict = "pass"
               /\ c.baseline # OwnBaseline(c)
               /\ \A ref \in c.baseline.evidence \cup c.evidence
                               \cup UNION {c.cases[n].evidence \cup c.cases[n].upstream : n \in DOMAIN c.cases} :
                    ref.revision = c.revision
    <3> HIDE DEF c
    <3>1. /\ certificate.failed \cap MandatoryCases = {}
          /\ c.baseline.release = "v0.6.0" /\ c.baseline.safe /\ c.baseline.verdict = "pass"
          /\ \A ref \in c.baseline.evidence \cup c.evidence
                          \cup UNION {c.cases[n].evidence \cup c.cases[n].upstream : n \in DOMAIN c.cases} :
               ref.revision = c.revision
      BY <2>2, <2>4, SafeIsBound
    <3>2. OwnBaseline(c).release = "v0.2.0"
      BY <2>2 DEF OwnBaseline
    <3> QED BY <3>1, <3>2
  <2> QED BY <2>3, <2>4 DEF OperabilityIsBound
<1> QED BY <1>1, CertInvariance, PTL

-----------------------------------------------------------------------------
(* Reports that reach the gate as they were made *)

\* The list of the elements of a finite set has each of them once.
LEMMA ListingHasEach ==
  ASSUME NEW S, IsFiniteSet(S)
  PROVE  IsInjective(Listing(S)) /\ ToSet(Listing(S)) = S
<1> DEFINE n == Cardinality(S)
           f == Listing(S)
<1>1. n \in Nat /\ ExistsBijection(1..n, S) /\ IsFiniteSet(1..n) /\ Cardinality(1..n) = n
  BY FS_CardinalityType, FS_Interval
<1>2. \E g \in [1..n -> S] : IsInjective(g)
  BY <1>1 DEF ExistsBijection, Bijection, Injection
<1>3. f = CHOOSE g \in [1..n -> S] : IsInjective(g)
  BY DEF Listing, SetToSeq
<1> HIDE DEF f
<1>4. f \in [1..n -> S] /\ IsInjective(f)
  BY <1>2, <1>3
<1>5. f \in Surjection(1..n, S)
  BY <1>1, <1>4, FS_Injection DEF Injection
<1>6. ToSet(f) = S
  BY <1>4, <1>5 DEF ToSet, Surjection
<1> QED BY <1>4, <1>6 DEF f

\* The ids of the samples that a list of results is about are finitely many.
LEMMA SamplesAreFinite ==
  ASSUME NEW results, IsList(results)
  PROVE  IsFiniteSet(SampleIds(results))
<1> DEFINE f == [n \in DOMAIN results |-> results[n].sample]
<1>1. IsFiniteSet(DOMAIN results)
  <2>1. Len(results) \in Nat /\ DOMAIN results = 1..Len(results)
    BY DEF IsList
  <2> QED BY <2>1, FS_Interval
<1>2. f \in Surjection(DOMAIN results, SampleIds(results))
  BY DEF Surjection, SampleIds
<1> HIDE DEF f
<1> QED BY <1>1, <1>2, FS_Surjection

\* A report that has all that a report must have can be read.
LEMMA WholeIsReadable ==
  ASSUME NEW report, NEW source, NEW version,
         report.source = source, report.version = version, report.verdict = "pass", report.flaws = {},
         report.evidence # <<>>, None \notin ToSet(report.evidence)
  PROVE  Unreadable(report, source, version) = None
<1> DEFINE checks == << <<report.source # source, "source_mismatch">>,
                <<report.version # version, "source_report_version_mismatch">>,
                <<report.verdict \notin {"pass", "fail"}, "invalid_source_verdict">>,
                <<report.evidence = <<>> \/ None \in ToSet(report.evidence), "missing_source_evidence_refs">>,
                <<"summary" \in report.flaws, "missing_source_summary">>,
                <<"details" \in report.flaws, "invalid_source_details">>,
                <<"failures" \in report.flaws, "missing_source_failures">>,
                <<"parts" \in report.flaws, "missing_details">> >>
<1>1. Unreadable(report, source, version) = FirstFault(checks)
  BY DEF Unreadable
<1>2. DOMAIN checks = 1..8 /\ \A k \in 1..8 : checks[k][2] # None
  BY CodeAssumption
<1>3. /\ ~checks[1][1] /\ ~checks[2][1] /\ ~checks[3][1] /\ ~checks[4][1]
      /\ ~checks[5][1] /\ ~checks[6][1] /\ ~checks[7][1] /\ ~checks[8][1]
  OBVIOUS
<1> HIDE DEF checks
<1>4. \A k \in 1..8 : ~checks[k][1]
  BY <1>3
<1> QED BY <1>1, <1>2, <1>4, FirstFaultFacts

\* The gate reads no failure of a report that passes and agrees with what is rebuilt from it.
LEMMA ReadsClean ==
  ASSUME NEW report, NEW source, NEW version, NEW pair, NEW required,
         report.verdict = "pass", report.failures = {}, Unreadable(report, source, version) = None,
         NEW rebuilt, rebuilt = Rebuilt(report, version, pair, required), rebuilt.failures = {},
         DetailsFault(report, rebuilt, required) = None
  PROVE  ReadReport(report, source, version, pair, required).failures = {}
<1> DEFINE fault == DetailsFault(report, rebuilt, required)
<1>1. ReadReport(report, source, version, pair, required) =
        IF fault # None THEN Synthetic(source, fault) ELSE Merge(rebuilt, report)
  BY DEF ReadReport
<1>2. ReadReport(report, source, version, pair, required) = Merge(rebuilt, report)
  BY <1>1
<1> DEFINE known == report.failures \cup rebuilt.failures
           failures == IF report.verdict = "fail" /\ known = {} THEN {"upstream_failed_source_report"} ELSE known
<1>3. Merge(rebuilt, report).failures = failures
  BY DEF Merge
<1>4. failures = {}
  OBVIOUS
<1> QED BY <1>2, <1>3, <1>4

\* A report that the gate reads without a failure passes.
LEMMA ReadPasses ==
  ASSUME NEW report, NEW source, NEW version, NEW pair, NEW required,
         ReadReport(report, source, version, pair, required).failures = {}
  PROVE  report.verdict = "pass"
<1> DEFINE rebuilt == Rebuilt(report, version, pair, required)
           fault == DetailsFault(report, rebuilt, required)
           unreadable == Unreadable(report, source, version)
<1>1. ReadReport(report, source, version, pair, required) =
        IF unreadable # None THEN Synthetic(source, unreadable)
        ELSE IF fault # None THEN Synthetic(source, fault) ELSE Merge(rebuilt, report)
  BY DEF ReadReport
<1> HIDE DEF rebuilt, fault, unreadable
<1>2. \A code : Synthetic(source, code).failures = {code}
  BY DEF Synthetic
<1>3. \A code : Synthetic(source, code).failures # {}
  BY <1>2
<1>4. unreadable = None /\ Merge(rebuilt, report).failures = {}
  BY <1>1, <1>3
<1>5. report.verdict # "fail"
  <2> DEFINE known == report.failures \cup rebuilt.failures
             failures == IF report.verdict = "fail" /\ known = {} THEN {"upstream_failed_source_report"} ELSE known
  <2>1. Merge(rebuilt, report).failures = failures
    BY DEF Merge
  <2> QED BY <1>4, <2>1
<1>6. report.verdict \in {"pass", "fail"}
  <2> DEFINE checks == << <<report.source # source, "source_mismatch">>,
                <<report.version # version, "source_report_version_mismatch">>,
                <<report.verdict \notin {"pass", "fail"}, "invalid_source_verdict">>,
                <<report.evidence = <<>> \/ None \in ToSet(report.evidence), "missing_source_evidence_refs">>,
                <<"summary" \in report.flaws, "missing_source_summary">>,
                <<"details" \in report.flaws, "invalid_source_details">>,
                <<"failures" \in report.flaws, "missing_source_failures">>,
                <<"parts" \in report.flaws, "missing_details">> >>
  <2>1. FirstFault(checks) = None
    BY <1>4 DEF Unreadable, unreadable
  <2>2. DOMAIN checks = 1..8 /\ \A k \in 1..8 : checks[k][2] # None
    BY CodeAssumption
  <2>3. ~checks[3][1]
    <3> HIDE DEF checks
    <3>1. \A k \in 1..8 : ~checks[k][1]
      BY <2>1, <2>2, FirstFaultFacts
    <3> QED BY <3>1
  <2> QED BY <2>3
<1> QED BY <1>5, <1>6

\* Every result that is kept names its sample.
LEMMA SampleIsNamed ==
  ASSUME NEW results, NEW i, ResultFault(results, i) = None
  PROVE  results[i].sample # None
<1> DEFINE checks == << <<results[i].malformed = "entry", "invalid_validation_result_entry">>,
                <<results[i].sample = None, "invalid_sample_id">>,
                <<\E j \in 1..(i - 1) : /\ results[j].malformed # "entry"
                                        /\ results[j].sample = results[i].sample, "duplicate_sample_id">>,
                <<results[i].malformed # None, "invalid_result_field">>,
                <<~Consistent(results[i]), "inconsistent_observation">> >>
<1>1. FirstFault(checks) = None
  BY DEF ResultFault
<1>2. DOMAIN checks = 1..5 /\ \A k \in 1..5 : checks[k][2] # None
  BY CodeAssumption
<1>3. ~checks[2][1]
  <2> HIDE DEF checks
  <2>1. \A k \in 1..5 : ~checks[k][1]
    BY <1>1, <1>2, FirstFaultFacts
  <2> QED BY <2>1
<1> QED BY <1>3

\* Details agree if they are about the samples required and observed.
LEMMA HarnessAgrees ==
  ASSUME NEW report, NEW rebuilt, NEW required,
         StringList(report.facts.required), ToSet(report.facts.required) = ToSet(required),
         StringList(report.facts.observed), report.facts.observed = rebuilt.facts.observed,
         report.evidence = rebuilt.evidence
  PROVE  HarnessFault(report, rebuilt, required) = None
<1> DEFINE checks == << <<~StringList(report.facts.required), "invalid_required_sample_ids">>,
                <<ToSet(report.facts.required) # ToSet(required), "harness_required_sample_ids_mismatch">>,
                <<~StringList(report.facts.observed), "invalid_harness_observed_sample_ids">>,
                <<ToSet(report.facts.observed) # ToSet(rebuilt.facts.observed),
                  "harness_observed_sample_ids_mismatch">>,
                <<report.verdict = "pass" /\ report.evidence # rebuilt.evidence,
                  "harness_evidence_refs_mismatch">> >>
<1>1. HarnessFault(report, rebuilt, required) = FirstFault(checks)
  BY DEF HarnessFault
<1>2. DOMAIN checks = 1..5 /\ \A k \in 1..5 : checks[k][2] # None
  BY CodeAssumption
<1>3. ~checks[1][1] /\ ~checks[2][1] /\ ~checks[3][1] /\ ~checks[4][1] /\ ~checks[5][1]
  OBVIOUS
<1> HIDE DEF checks
<1>4. \A k \in 1..5 : ~checks[k][1]
  BY <1>3
<1> QED BY <1>1, <1>2, <1>4, FirstFaultFacts

\* The gate reads no failure of a harness that passes, if it requires the same samples.
LEMMA HarnessReadsClean ==
  ASSUME NEW x \in Rehearsals, x.version = "v0.2.0", NEW pair, NEW required, StringList(required), required # <<>>,
         NEW r, r = BuildHarness(x.results, x.required, x.version), r.verdict = "pass",
         ToSet(r.facts.required) = ToSet(required)
  PROVE  ReadReport(r, "harness", "v0.2.0", pair, required).failures = {}
<1> DEFINE results == x.results
           observed == Listing(SampleIds(results))
<1>1. results # None => IsList(results)
  BY ListsAssumption
<1>2. r.failures = {} /\ HarnessFailures(results, x.required, x.version) = {}
  BY HarnessIs
<1>3. ResultFaults(results) = {} /\ StringList(x.required) /\ x.required # <<>> /\ ToSet(x.required) \subseteq SampleIds(KeptResults(results))
  BY <1>2, HarnessChecks
<1>4. KeptResults(results) = results /\ results # None /\ \A n \in DOMAIN results : ResultFault(results, n) = None
  BY <1>1, <1>3, HarnessIsKept
<1>5. IsInjective(observed) /\ ToSet(observed) = SampleIds(results)
  BY <1>1, <1>4, SamplesAreFinite, ListingHasEach
<1>6. observed # None
  BY <1>4, ListsAssumption
<1>7. None \notin SampleIds(results)
  BY <1>4, SampleIsNamed DEF SampleIds
<1>8. SampleIds(results) # {}
  <2>1. IsList(x.required)
    BY <1>3, ListsAssumption DEF StringList
  <2>2. ToSet(x.required) # {}
    BY <1>3, <2>1, ListsHaveElements
  <2> QED BY <1>3, <1>4, <2>2
<1> HIDE DEF results, observed
<1>9. observed # <<>>
  <2>1. ToSet(<<>>) = {}
    BY DEF ToSet
  <2> QED BY <1>5, <1>8, <2>1
<1>10. /\ r.source = "harness" /\ r.version = CanonicalVersion("v0.2.0") /\ r.flaws = {}
       /\ r.facts.required = x.required /\ r.facts.observed = observed /\ r.facts.results = results
       /\ r.evidence = observed
  BY <1>3, <1>4, <1>9, HarnessIs DEF results, observed, Listed
<1>11. CanonicalVersion("v0.2.0") = "v0.2.0"
  BY DEF CanonicalVersion
<1>12. Unreadable(r, "harness", "v0.2.0") = None
  BY <1>5, <1>7, <1>9, <1>10, <1>11, WholeIsReadable
<1> DEFINE rebuilt == BuildHarness(results, required, "v0.2.0")
<1>13. rebuilt = Rebuilt(r, "v0.2.0", pair, required)
  BY <1>10 DEF Rebuilt
<1>14. rebuilt.facts.observed = observed /\ rebuilt.evidence = observed
       /\ rebuilt.failures = HarnessFailures(results, required, "v0.2.0")
  BY <1>4, <1>9, HarnessIs DEF observed
<1> HIDE DEF rebuilt
<1>15. HarnessFailures(results, required, "v0.2.0") = {}
  BY <1>2, <1>10, HarnessChecks DEF results
<1>16. HarnessFault(r, rebuilt, required) = None
  BY <1>3, <1>5, <1>6, <1>7, <1>10, <1>14, HarnessAgrees DEF StringList
<1>17. DetailsFault(r, rebuilt, required) = None
  BY <1>10, <1>16 DEF DetailsFault
<1> QED BY <1>2, <1>12, <1>13, <1>14, <1>15, <1>17, ReadsClean

\* What the regression finds wrong with a report as a whole is nothing if and only if it is
\* the report of the frozen version, pair and surface with the frozen evidence.
LEMMA RegressionChecks ==
  ASSUME NEW payload, NEW version, NEW pair, NEW operation, NEW target
  PROVE  LET named == Listed(payload.pair)
             seen == Surface(payload.operation, payload.target)
         IN RegressionFaults(payload, version, pair, operation, target) = {} <=>
              /\ version = "v0.2.0" /\ payload.version = version
              /\ Listed(pair) # <<>> /\ ToSet(Listed(pair)) = ToSet(ReferencePair)
              /\ named # <<>> /\ ToSet(named) = ToSet(Listed(pair))
              /\ Surface(operation, target) # None /\ seen = Surface(operation, target)
              /\ Listed(payload.evidence) # <<>> /\ Listed(payload.evidence) = CaseEvidence
              /\ payload.entries # None
<1> DEFINE frozen == version = FrozenVersion
           listed == Listed(pair)
           named == Listed(payload.pair)
           surface == Surface(operation, target)
           seen == Surface(payload.operation, payload.target)
           evidence == Listed(payload.evidence)
           checks ==
             << <<version = "blank", "missing_version">>,
                <<listed = <<>>, "invalid_reference_pair">>,
                <<~frozen, "missing_frozen_reference_pair_for_version">>,
                <<~frozen, "missing_frozen_operation_for_version">>,
                <<frozen /\ ToSet(listed) # ToSet(ReferencePair), "reference_pair_not_frozen_for_version">>,
                <<frozen /\ surface = None, "operation_not_frozen_for_version">>,
                <<evidence = <<>>, "missing_evidence_refs">>,
                <<payload.version # version, "version_mismatch">>,
                <<frozen /\ seen = None, "operation_mismatch">>,
                <<frozen /\ surface # None /\ seen # None /\ surface # seen, "operation_surface_mismatch">>,
                <<named = <<>>, "invalid_report_reference_pair">>,
                <<named # <<>> /\ ToSet(named) # ToSet(listed), "reference_pair_mismatch">>,
                <<payload.entries = None, "invalid_adapter_results">>,
                <<frozen /\ evidence # CaseEvidence, "case_evidence_refs_mismatch">> >>
<1>1. RegressionFaults(payload, version, pair, operation, target) = AllFaults(checks)
  BY DEF RegressionFaults
<1>2. DOMAIN checks = 1..14
  OBVIOUS
<1>0. frozen <=> version = "v0.2.0"
  BY DEF FrozenVersion
<1> HIDE DEF frozen, listed, named, surface, seen, evidence
<1>3. AllFaults(checks) = {} <=>
        /\ ~checks[1][1] /\ ~checks[2][1] /\ ~checks[3][1] /\ ~checks[4][1] /\ ~checks[5][1] /\ ~checks[6][1]
        /\ ~checks[7][1] /\ ~checks[8][1] /\ ~checks[9][1] /\ ~checks[10][1] /\ ~checks[11][1] /\ ~checks[12][1]
        /\ ~checks[13][1] /\ ~checks[14][1]
  <2> HIDE DEF checks
  <2>1. AllFaults(checks) = {} <=> \A k \in 1..14 : ~checks[k][1]
    BY <1>2, NoFaults, Faultless
  <2> QED BY <2>1
<1>4. /\ ~checks[1][1] <=> version # "blank"
      /\ ~checks[2][1] <=> listed # <<>>
      /\ ~checks[3][1] <=> frozen
      /\ ~checks[4][1] <=> frozen
      /\ ~checks[5][1] <=> ~(frozen /\ ToSet(listed) # ToSet(ReferencePair))
      /\ ~checks[6][1] <=> ~(frozen /\ surface = None)
      /\ ~checks[7][1] <=> evidence # <<>>
  OBVIOUS
<1>5. /\ ~checks[8][1] <=> payload.version = version
      /\ ~checks[9][1] <=> ~(frozen /\ seen = None)
      /\ ~checks[10][1] <=> ~(frozen /\ surface # None /\ seen # None /\ surface # seen)
      /\ ~checks[11][1] <=> named # <<>>
      /\ ~checks[12][1] <=> ~(named # <<>> /\ ToSet(named) # ToSet(listed))
      /\ ~checks[13][1] <=> payload.entries # None
      /\ ~checks[14][1] <=> ~(frozen /\ evidence # CaseEvidence)
  OBVIOUS
<1> HIDE DEF checks
<1>6. RegressionFaults(payload, version, pair, operation, target) = {} <=>
              /\ version = "v0.2.0" /\ payload.version = version
              /\ listed # <<>> /\ ToSet(listed) = ToSet(ReferencePair)
              /\ named # <<>> /\ ToSet(named) = ToSet(listed)
              /\ surface # None /\ seen = surface
              /\ evidence # <<>> /\ evidence = CaseEvidence
              /\ payload.entries # None
  BY <1>0, <1>1, <1>3, <1>4, <1>5
<1> QED BY <1>6 DEF listed, named, surface, seen, evidence

\* A regression report is sound: right as a whole, with entries of the adapters of the pair
\* and no other, each of which passes.
RegressionIsSound(payload, version, pair, operation, target) ==
  LET kept == KeptEntries(payload.entries)
  IN /\ RegressionFaults(payload, version, pair, operation, target) = {}
     /\ EntryFaults(payload.entries) = {}
     /\ \A i \in DOMAIN kept : kept[i].key \in ToSet(Listed(pair))
     /\ \A key \in ToSet(Listed(pair)) : AdapterFailures(version, key, kept) = {}

\* The regression finds nothing wrong with the sound reports, and with no other.
LEMMA SoundRegressions ==
  ASSUME NEW payload, payload.entries # None, NEW version, NEW pair, NEW operation, NEW target
  PROVE  RegressionFailures(payload, version, pair, operation, target) = {} <=>
           RegressionIsSound(payload, version, pair, operation, target)
<1> DEFINE listing == payload.entries
           kept == KeptEntries(listing)
           keys == {kept[i].key : i \in DOMAIN kept}
           checks == << <<~(keys \subseteq ToSet(Listed(pair))), "unexpected_adapter_results">> >>
           theirs == {AdapterFailures(version, key, kept) : key \in ToSet(Listed(pair))}
<1>1. keys \subseteq ToSet(Listed(pair)) <=> \A i \in DOMAIN kept : kept[i].key \in ToSet(Listed(pair))
  OBVIOUS
<1>2. RegressionIsSound(payload, version, pair, operation, target) <=>
        /\ RegressionFaults(payload, version, pair, operation, target) = {}
        /\ EntryFaults(listing) = {}
        /\ \A i \in DOMAIN kept : kept[i].key \in ToSet(Listed(pair))
        /\ \A key \in ToSet(Listed(pair)) : AdapterFailures(version, key, kept) = {}
  BY DEF RegressionIsSound
<1>3. RegressionFailures(payload, version, pair, operation, target) =
        RegressionFaults(payload, version, pair, operation, target) \cup EntryFaults(listing)
        \cup AllFaults(checks) \cup (UNION theirs)
  BY DEF RegressionFailures
<1>4. AllFaults(checks) = {} <=> keys \subseteq ToSet(Listed(pair))
  <2> HIDE DEF keys
  <2>1. DOMAIN checks = 1..1 /\ checks[1][1] = ~(keys \subseteq ToSet(Listed(pair)))
    OBVIOUS
  <2> HIDE DEF checks
  <2>2. AllFaults(checks) = {} <=> \A k \in 1..1 : ~checks[k][1]
    BY <2>1, NoFaults, Faultless
  <2>3. (\A k \in 1..1 : ~checks[k][1]) <=> ~checks[1][1]
    OBVIOUS
  <2> QED BY <2>1, <2>2, <2>3
<1>5. (UNION theirs) = {} <=> \A key \in ToSet(Listed(pair)) : AdapterFailures(version, key, kept) = {}
  <2> HIDE DEF kept
  <2> QED OBVIOUS
<1> HIDE DEF listing, kept, keys, checks, theirs
<1> QED BY <1>1, <1>2, <1>3, <1>4, <1>5

\* A list of strings is listed as it is, and something listed is a list of strings.
LEMMA WhatIsListed ==
  ASSUME NEW l
  PROVE  /\ StringList(l) => Listed(l) = l
         /\ Listed(l) # <<>> => Listed(l) = l /\ StringList(l) /\ None \notin ToSet(l)
  BY DEF Listed, StringList

\* The gate reads no failure of a regression that passes, if it is asked about the same pair.
LEMMA RegressionReadsClean ==
  ASSUME NEW version, NEW entries, NEW pair, StringList(pair), ToSet(pair) = {"xhs", "douyin"}, NEW required,
         NEW r, r = ValidatedRegression(version, entries, CaseEvidence), r.verdict = "pass",
         r.facts.entries = entries
  PROVE  version = "v0.2.0" /\ ReadReport(r, "real_adapter_regression", "v0.2.0", pair, required).failures = {}
<1> DEFINE surface == Surface("content_detail_by_url", "url")
           first == RegressionPayload(version, entries, CaseEvidence)
<1>1. r = ValidateRegression(first, version, ReferencePair, "content_detail_by_url", "url")
  BY DEF ValidatedRegression
<1>2. /\ first.version = version /\ first.pair = ReferencePair /\ first.operation = "content_detail_by_url"
      /\ first.target = "url" /\ first.evidence = CaseEvidence /\ first.entries = entries
  BY DEF RegressionPayload
<1> HIDE DEF first, surface
<1>3. r.failures = {} /\ RegressionFailures(first, version, ReferencePair, "content_detail_by_url", "url") = {}
  BY <1>1, RegressionIs
<1>4. RegressionFaults(first, version, ReferencePair, "content_detail_by_url", "url") = {}
  BY <1>3 DEF RegressionFailures
<1>5. /\ version = "v0.2.0" /\ Listed(ReferencePair) # <<>> /\ surface # None /\ entries # None
      /\ Listed(CaseEvidence) # <<>> /\ Listed(CaseEvidence) = CaseEvidence
  BY <1>2, <1>4, RegressionChecks DEF surface
<1>6. Listed(ReferencePair) = ReferencePair /\ None \notin ToSet(CaseEvidence) /\ CaseEvidence # <<>>
  BY <1>5, WhatIsListed
<1>7. ToSet(ReferencePair) = {"xhs", "douyin"}
  BY DEF ToSet, ReferencePair
<1>8. RegressionIsSound(first, version, ReferencePair, "content_detail_by_url", "url")
  BY <1>2, <1>3, <1>5, SoundRegressions
<1>9. surface.operation = "content_detail_by_url" /\ surface.target = "url"
  BY DEF surface, Surface
<1>10. /\ r.source = "real_adapter_regression" /\ r.version = CanonicalVersion(version) /\ r.flaws = {}
       /\ r.facts.pair = ReferencePair /\ r.facts.semantic = "content_detail_by_url" /\ r.evidence = CaseEvidence
       /\ r.facts.operation = surface.operation /\ r.facts.target = surface.target
  BY <1>1, <1>2, <1>5, <1>6, RegressionIs DEF surface, FrozenVersion
<1>11. CanonicalVersion("v0.2.0") = "v0.2.0"
  BY DEF CanonicalVersion
<1>12. Unreadable(r, "real_adapter_regression", "v0.2.0") = None
  BY <1>5, <1>6, <1>10, <1>11, WholeIsReadable
<1> DEFINE second == [version |-> "v0.2.0", pair |-> r.facts.pair, operation |-> r.facts.operation,
                      target |-> r.facts.target, entries |-> r.facts.entries, evidence |-> r.evidence]
           rebuilt == ValidateRegression(second, "v0.2.0", pair, r.facts.operation, r.facts.target)
<1>13. rebuilt = Rebuilt(r, "v0.2.0", pair, required)
  BY <1>10 DEF Rebuilt
<1>14. /\ second.version = "v0.2.0" /\ second.pair = ReferencePair /\ second.operation = "content_detail_by_url"
       /\ second.target = "url" /\ second.entries = entries /\ second.evidence = CaseEvidence
  BY <1>9, <1>10
<1> HIDE DEF second, rebuilt
<1>15. Listed(pair) = pair /\ Listed(pair) # <<>>
  <2>1. ToSet(<<>>) = {}
    BY DEF ToSet
  <2> QED BY <2>1, WhatIsListed
<1>16. RegressionFaults(second, "v0.2.0", pair, "content_detail_by_url", "url") = {}
  <2>1. surface = Surface("content_detail_by_url", "url") /\ surface = Surface(second.operation, second.target)
    BY <1>14 DEF surface
  <2>2. Listed(second.evidence) = CaseEvidence /\ Listed(second.pair) = ReferencePair /\ ReferencePair # <<>>
    BY <1>5, <1>6, <1>14
  <2>3. ToSet(Listed(pair)) = ToSet(ReferencePair) /\ second.entries # None
    BY <1>5, <1>7, <1>14, <1>15
  <2> QED BY <1>5, <1>6, <1>14, <1>15, <2>1, <2>2, <2>3, RegressionChecks
<1>17. RegressionFailures(second, "v0.2.0", pair, "content_detail_by_url", "url") = {}
  <2>1. ToSet(Listed(pair)) = ToSet(Listed(ReferencePair))
    BY <1>6, <1>7, <1>15
  <2>2. RegressionIsSound(second, "v0.2.0", pair, "content_detail_by_url", "url")
    BY <1>2, <1>5, <1>8, <1>14, <1>16, <2>1 DEF RegressionIsSound
  <2> QED BY <1>5, <1>14, <2>2, SoundRegressions
<1>18. rebuilt.failures = {} /\ rebuilt.facts.semantic = "content_detail_by_url"
  BY <1>9, <1>10, <1>17, RegressionIs DEF rebuilt, FrozenVersion
<1>19. DetailsFault(r, rebuilt, required) = None
  <2> DEFINE checks == << <<r.facts.semantic # rebuilt.facts.semantic, "real_regression_semantic_operation_mismatch">> >>
  <2>1. DetailsFault(r, rebuilt, required) = FirstFault(checks)
    BY <1>10 DEF DetailsFault
  <2>2. DOMAIN checks = 1..1 /\ \A k \in 1..1 : checks[k][2] # None
    BY CodeAssumption
  <2>3. ~checks[1][1]
    BY <1>10, <1>18
  <2> HIDE DEF checks
  <2>4. \A k \in 1..1 : ~checks[k][1]
    BY <2>3
  <2>5. FirstFault(checks) = None
    BY <2>2, <2>4, FirstFaultFacts
  <2> QED BY <2>1, <2>5
<1> QED BY <1>3, <1>5, <1>12, <1>13, <1>18, <1>19, ReadsClean

\* The gate reads no failure of a scan that passes.
LEMMA ScanReadsClean ==
  ASSUME NEW payload, payload.findings # None => IsList(payload.findings), NEW pair, NEW required,
         NEW r, r = ValidateLeakage(payload, "v0.2.0"), r.verdict = "pass"
  PROVE  ReadReport(r, "platform_leakage", "v0.2.0", pair, required).failures = {}
<1> DEFINE listed == Listed(payload.evidence)
<1>1. r.failures = {} /\ LeakageFailures(payload, "v0.2.0") = {}
  BY ScanIs
<1>2. payload.boundaries = Boundaries /\ payload.verdict = "pass" /\ payload.findings = <<>>
  BY <1>1, ScanIsEarned
<1>3. /\ listed # <<>> /\ StringList(payload.boundaries) /\ payload.findings # None
      /\ KeptFindings(<<>>) = <<>> /\ FindingRefs(<<>>) \subseteq ToSet(listed)
      /\ ToSet(listed) = ToSet(ScanRefs) \cup FindingRefs(<<>>) /\ FindingFaults(<<>>) = {}
  BY <1>1, <1>2, ScanChecks
<1>4. Listed(Boundaries) = Boundaries /\ StringList(Boundaries)
  BY <1>2, <1>3, WhatIsListed
<1>5. Listed(listed) = listed /\ None \notin ToSet(listed)
  BY <1>3, WhatIsListed
<1>6. /\ r.source = "platform_leakage" /\ r.version = CanonicalVersion("v0.2.0") /\ r.flaws = {}
      /\ r.facts.boundaries = Boundaries /\ r.facts.verdict = "pass" /\ r.facts.findings = <<>> /\ r.evidence = listed
  <2>1. LeakageVerdict(payload) = "pass"
    BY <1>2 DEF LeakageVerdict
  <2> HIDE DEF listed
  <2> QED BY <1>2, <1>3, <1>4, <2>1, ScanIs DEF listed
<1> HIDE DEF listed
<1>7. CanonicalVersion("v0.2.0") = "v0.2.0"
  BY DEF CanonicalVersion
<1>8. Unreadable(r, "platform_leakage", "v0.2.0") = None
  BY <1>3, <1>5, <1>6, <1>7, WholeIsReadable
<1> DEFINE second == [version |-> "v0.2.0", boundaries |-> r.facts.boundaries, verdict |-> r.facts.verdict,
                      findings |-> r.facts.findings, evidence |-> r.evidence]
           rebuilt == ValidateLeakage(second, "v0.2.0")
<1>9. rebuilt = Rebuilt(r, "v0.2.0", pair, required)
  BY <1>6 DEF Rebuilt
<1>10. /\ second.version = "v0.2.0" /\ second.boundaries = Boundaries /\ second.verdict = "pass"
       /\ second.findings = <<>> /\ second.evidence = listed
  BY <1>6
<1> HIDE DEF second
<1>11. LeakageFailures(second, "v0.2.0") = {}
  BY <1>2, <1>3, <1>4, <1>5, <1>10, ScanChecks
<1>12. rebuilt.failures = {}
  BY <1>11, ScanIs
<1> HIDE DEF rebuilt
<1>13. DetailsFault(r, rebuilt, required) = None
  BY <1>6 DEF DetailsFault
<1> QED BY <1>1, <1>8, <1>9, <1>12, <1>13, ReadsClean

\* The reports as they were made are those of one rehearsal, and the regression passes only
\* with the report that it makes of its own entries.
BuiltInv ==
  stage \in {"reported", "altered", "gated"} =>
    \E x \in Rehearsals :
      LET regression == built["real_adapter_regression"]
      IN /\ built["harness"] = BuildHarness(x.results, x.required, x.version)
         /\ built["platform_leakage"] = ValidateLeakage(x.leakage, x.version)
         /\ DOMAIN built = Sources
         /\ regression.verdict = "pass" =>
              /\ IsEntries(regression.facts.entries)
              /\ regression = ValidatedRegression(x.version, regression.facts.entries, CaseEvidence)

\* A regression that passes found nothing wrong with its adapters, nor with its entries.
LEMMA RegressionRan ==
  ASSUME NEW some, NEW version, NEW bindings, NEW answers,
         NEW r, r = RunRegression(some, version, bindings, answers), r.verdict = "pass"
  PROVE  /\ IsEntries(r.facts.entries)
         /\ r = ValidatedRegression(version, r.facts.entries, CaseEvidence)
<1> DEFINE fault == BindingFault(some, version, bindings)
           unbound == ValidatedRegression(version, <<>>, <<"binding">>)
           list == [n \in DOMAIN ReferencePair |-> Entry(ReferenceItems(some), ReferencePair[n], answers)]
           made == ValidatedRegression(version, list, CaseEvidence)
           payload == RegressionPayload(version, list, CaseEvidence)
<1>1. r = IF fault # None THEN [unbound EXCEPT !.verdict = "fail", !.failures = @ \cup {fault}] ELSE made
  BY DEF RunRegression
<1>2. DOMAIN unbound = ReportFields
  BY RegressionIs DEF ValidatedRegression
<1>3. IsEntries(list)
  BY RunIsEntries
<1> HIDE DEF fault, unbound, list
<1>4. [unbound EXCEPT !.verdict = "fail", !.failures = @ \cup {fault}].verdict = "fail"
  BY <1>2 DEF ReportFields
<1>5. r = made
  <2> HIDE DEF made
  <2> QED BY <1>1, <1>4
<1>6. made = ValidateRegression(payload, version, ReferencePair, "content_detail_by_url", "url")
  BY DEF ValidatedRegression
<1>7. payload.entries = list
  BY DEF RegressionPayload
<1> HIDE DEF made, payload
<1>8. /\ RegressionFailures(payload, version, ReferencePair, "content_detail_by_url", "url") = {}
      /\ r.facts.entries = KeptEntries(IF list = None THEN <<>> ELSE list)
  BY <1>5, <1>6, <1>7, RegressionIs
<1>9. RegressionFaults(payload, version, ReferencePair, "content_detail_by_url", "url") = {}
  BY <1>8 DEF RegressionFailures
<1>10. list # None
  BY <1>7, <1>9, RegressionChecks
<1>11. EntryFaults(list) = {}
  BY <1>7, <1>8, <1>10, SoundRegressions DEF RegressionIsSound
<1>12. r.facts.entries = list
  BY <1>3, <1>8, <1>10, <1>11, SoundEntriesAreKept
<1> QED BY <1>3, <1>5, <1>12 DEF made

\* Only the sources make reports, and nobody changes what they made.
LEMMA BuiltInvariance == Spec => []BuiltInv
<1>1. Init => BuiltInv
  BY DEF Init, BuiltInv
<1>2. ASSUME BuiltInv, [Next]_vars PROVE BuiltInv'
  <2>1. ASSUME NEW x \in Rehearsals, Rehearse(x) PROVE BuiltInv'
    <3> DEFINE regression == RunRegression(items, x.version, x.bindings, x.answers)
               entries == regression.facts.entries
    <3>1. built' = [harness |-> BuildHarness(x.results, x.required, x.version),
                    real_adapter_regression |-> regression,
                    platform_leakage |-> ValidateLeakage(x.leakage, x.version)]
      BY <2>1 DEF Rehearse
    <3>2. regression.verdict = "pass" => IsEntries(entries) /\ regression = ValidatedRegression(x.version, entries, CaseEvidence)
      BY RegressionRan
    <3> HIDE DEF regression
    <3>3. /\ DOMAIN built' = Sources
          /\ built'["harness"] = BuildHarness(x.results, x.required, x.version)
          /\ built'["platform_leakage"] = ValidateLeakage(x.leakage, x.version)
          /\ built'["real_adapter_regression"] = regression
      BY <3>1 DEF Sources
    <3> QED BY <3>2, <3>3 DEF BuiltInv
  <2>2. ASSUME built' = built, stage \in {"reported", "altered"} \/ stage' = stage PROVE BuiltInv'
    BY <1>2, <2>2 DEF BuiltInv
  <2>3. CASE (\E s \in Sources : Alter(s)) \/ (\E a \in GateArguments : DecideRelease(a)) \/ UNCHANGED vars
    BY <2>2, <2>3 DEF Alter, DecideRelease, vars, release
  <2>4. SUFFICES ASSUME stage' \notin {"reported", "altered", "gated"} PROVE BuiltInv'
    <3>1. CASE Contribute \/ (\E i \in Inputs : DecideOn(i)) \/ (\E others \in Registries : RegisterDecided(others) \/ RegisterOthers(others))
      BY <2>4, <3>1 DEF Contribute, DecideOn, RegisterDecided, RegisterOthers
    <3>2. CASE (\E r \in Requests : SubmitRequest(r)) \/ Execute \/ Read \/ Fetch \/ Undertake \/ Try
      BY <2>4, <3>2 DEF SubmitRequest, Execute, Read, Fetch, Undertake, Try
    <3>3. CASE Govern
      BY <2>4, <3>3 DEF Govern
    <3>4. CASE \E revision \in Revisions : \E mentions \in SUBSET {revision} : RunCases(revision, mentions)
      BY <2>4, <3>4 DEF RunCases
    <3>5. CASE \E c \in Certifications, own \in BOOLEAN : Certify(c, own)
      BY <2>4, <3>5 DEF Certify
    <3> QED BY <1>2, <2>1, <2>3, <3>1, <3>2, <3>3, <3>4, <3>5 DEF Next
  <2> QED BY <2>4 DEF BuiltInv
<1> QED BY <1>1, <1>2, PTL DEF Spec

\* A gate that is asked for the frozen version and pair, and for a list of samples, has no
\* fault of its own.
LEMMA AskedWell ==
  ASSUME NEW version, NEW pair, NEW required, version = "v0.2.0", StringList(pair), ToSet(pair) = {"xhs", "douyin"},
         StringList(required)
  PROVE  GateFaults(version, pair, required) = {}
<1> DEFINE checks == << <<Listed(pair) = <<>>, "invalid_reference_pair">>,
               <<version # FrozenVersion, "missing_frozen_reference_pair_for_version">>,
               <<version = FrozenVersion /\ ToSet(Listed(pair)) # ToSet(ReferencePair),
                 "reference_pair_not_frozen_for_version">>,
               <<version = "blank", "missing_version">>,
               <<required = None, "missing_required_harness_sample_ids">>,
               <<required # None /\ ~StringList(required), "invalid_required_harness_sample_ids">> >>
<1>1. GateFaults(version, pair, required) = AllFaults(checks)
  BY DEF GateFaults
<1>2. DOMAIN checks = 1..6
  OBVIOUS
<1>3. ToSet(<<>>) = {} /\ ToSet(ReferencePair) = {"xhs", "douyin"} /\ version = FrozenVersion /\ Listed(pair) = pair
  BY WhatIsListed DEF ToSet, ReferencePair, FrozenVersion
<1>4. pair # <<>> /\ required # None
  BY <1>3 DEF StringList
<1>5. ~checks[1][1] /\ ~checks[2][1] /\ ~checks[3][1] /\ ~checks[4][1] /\ ~checks[5][1] /\ ~checks[6][1]
  BY <1>3, <1>4
<1> HIDE DEF checks
<1>6. \A k \in 1..6 : ~checks[k][1]
  BY <1>5
<1> QED BY <1>1, <1>2, <1>6, Faultless

\* A gate without a fault of its own, which reads no failure of any source, is safe.
LEMMA FaultlessIsSafe ==
  ASSUME NEW version, NEW pair, NEW required, NEW got, NEW result,
         result = OrchestrateVersionGate(version, pair, required, got),
         GateFaults(version, pair, required) = {},
         Sources \subseteq DOMAIN got,
         \A s \in Sources :
           ReadReport(got[s], s, CanonicalVersion(version), GatePair(version, pair), Listed(required)).failures = {}
  PROVE  result.safe
<1> DEFINE read == [s \in Sources |->
                      IF s \in DOMAIN got
                      THEN ReadReport(got[s], s, CanonicalVersion(version), GatePair(version, pair), Listed(required))
                      ELSE Synthetic(s, "missing_source_report")]
           own == {<<"version_gate", code>> : code \in GateFaults(version, pair, required)}
           theirs == UNION {{<<s, code>> : code \in read[s].failures} : s \in Sources}
           none == own \cup theirs = {}
           all == own \cup theirs
<1>1. result = [version |-> CanonicalVersion(version), pair |-> GatePair(version, pair), read |-> read, failures |-> all,
                safe |-> none]
  BY DEF OrchestrateVersionGate
<1>2. \A s \in Sources : read[s].failures = {}
  OBVIOUS
<1> HIDE DEF read
<1>3. own = {} /\ theirs = {}
  BY <1>2
<1>4. none
  BY <1>3
<1> HIDE DEF none, all, own, theirs
<1>5. result.safe = none
  BY <1>1
<1> QED BY <1>4, <1>5

\* A safe gate had reports that pass, and was asked for what they are about.
LEMMA SafeIsAgreed ==
  ASSUME GateInv, stage = "gated", reports = built, gate.safe
  PROVE  /\ \A s \in Sources : built[s].verdict = "pass"
         /\ asked.version = "v0.2.0"
         /\ StringList(asked.pair) /\ ToSet(asked.pair) = {"xhs", "douyin"}
         /\ StringList(asked.required) /\ asked.required # None
         /\ ToSet(asked.required) = ToSet(built["harness"].facts.required)
<1>1. /\ asked \in GateArguments
      /\ gate = OrchestrateVersionGate(asked.version, asked.pair, asked.required, reports)
  BY DEF GateInv
<1>2. /\ GateFaults(asked.version, asked.pair, asked.required) = {}
      /\ \A s \in Sources :
           ReadReport(reports[s], s, CanonicalVersion(asked.version), GatePair(asked.version, asked.pair),
                      Listed(asked.required)).failures = {}
  BY <1>1, SafeIsFaultless
<1>3. \A s \in Sources : built[s].verdict = "pass"
  BY <1>2, ReadPasses
<1>4. /\ asked.version = "v0.2.0" /\ StringList(asked.pair) /\ ToSet(asked.pair) = {"xhs", "douyin"}
      /\ StringList(asked.required) /\ asked.required # None
  BY <1>2, GateWasAsked, WhatIsListed
<1>5. ReleaseIsEarned
  BY SafeIsEarned
<1>6. ToSet(built["harness"].facts.required) = ToSet(asked.required)
  BY <1>5 DEF ReleaseIsEarned
<1> QED BY <1>3, <1>4, <1>6

\* Reports that pass, and are about what the gate is asked for, make it safe.
LEMMA AgreedIsSafe ==
  ASSUME GateInv, BuiltInv, stage = "gated", reports = built,
         \A s \in Sources : built[s].verdict = "pass",
         asked.version = "v0.2.0", StringList(asked.pair), ToSet(asked.pair) = {"xhs", "douyin"},
         StringList(asked.required), ToSet(asked.required) = ToSet(built["harness"].facts.required)
  PROVE  gate.safe
<1> DEFINE harness == built["harness"]
           regression == built["real_adapter_regression"]
           scan == built["platform_leakage"]
           entries == regression.facts.entries
<1>1. Sources = {"harness", "real_adapter_regression", "platform_leakage"}
  BY DEF Sources
<1>2. PICK x \in Rehearsals :
        /\ DOMAIN built = Sources
        /\ harness = BuildHarness(x.results, x.required, x.version)
        /\ scan = ValidateLeakage(x.leakage, x.version)
        /\ IsEntries(entries) /\ regression = ValidatedRegression(x.version, entries, CaseEvidence)
  BY <1>1 DEF BuiltInv
<1>3. gate = OrchestrateVersionGate(asked.version, asked.pair, asked.required, built)
  BY DEF GateInv
<1>5. /\ x.version = "v0.2.0"
      /\ ReadReport(regression, "real_adapter_regression", "v0.2.0", asked.pair, asked.required).failures = {}
  <2> HIDE DEF regression
  <2>1. regression.verdict = "pass"
    BY <1>1 DEF regression
  <2> QED BY <1>2, <2>1, RegressionReadsClean
<1>6. ReadReport(scan, "platform_leakage", "v0.2.0", asked.pair, asked.required).failures = {}
  <2>1. scan.verdict = "pass" /\ (x.leakage.findings # None => IsList(x.leakage.findings))
    BY <1>1, ListsAssumption
  <2> HIDE DEF scan
  <2> QED BY <1>2, <1>5, <2>1, ScanReadsClean
<1>7. asked.required # <<>>
  <2>1. harness.facts.required = Listed(x.required) /\ HarnessFailures(x.results, x.required, x.version) = {}
    BY <1>1, <1>2, HarnessIs
  <2>2. StringList(x.required) /\ x.required # <<>>
    BY <2>1, HarnessChecks
  <2>3. IsList(x.required)
    BY <2>2, ListsAssumption DEF StringList
  <2>4. ToSet(x.required) # {} /\ Listed(x.required) = x.required
    BY <2>2, <2>3, ListsHaveElements, WhatIsListed
  <2>5. ToSet(<<>>) = {}
    BY DEF ToSet
  <2> QED BY <2>1, <2>4, <2>5
<1>8. ReadReport(harness, "harness", "v0.2.0", asked.pair, asked.required).failures = {}
  <2>1. harness.verdict = "pass" /\ ToSet(harness.facts.required) = ToSet(asked.required)
    BY <1>1
  <2> HIDE DEF harness
  <2> QED BY <1>2, <1>5, <1>7, <2>1, HarnessReadsClean
<1>9. /\ CanonicalVersion(asked.version) = "v0.2.0" /\ GatePair(asked.version, asked.pair) = asked.pair
      /\ Listed(asked.required) = asked.required
  <2>1. ToSet(<<>>) = {} /\ Listed(asked.pair) = asked.pair
    BY WhatIsListed DEF ToSet
  <2>2. Listed(asked.pair) # <<>>
    BY <2>1
  <2> QED BY <2>2, WhatIsListed DEF CanonicalVersion, GatePair
<1>10. \A s \in Sources :
         ReadReport(built[s], s, CanonicalVersion(asked.version), GatePair(asked.version, asked.pair),
                    Listed(asked.required)).failures = {}
  BY <1>1, <1>5, <1>6, <1>8, <1>9
<1> QED BY <1>2, <1>3, <1>10, AskedWell, FaultlessIsSafe

\* On reports that reach it as they were made the gate says what the sources said, for any
\* rehearsals and any call of it: it is safe exactly when all three pass and are about the
\* version, the pair and the samples that it is asked about.  So the failures that a rebuilt
\* report does not show any more are not lost, and no report that passes fails when it is
\* rebuilt from its own details (_merge_rebuilt_source_report_with_input_failures).
THEOREM GateAgrees == Spec => []GateAgreesWithSources
<1>1. GateInv /\ BuiltInv => GateAgreesWithSources
  BY SafeIsAgreed, AgreedIsSafe DEF GateAgreesWithSources
<1> QED BY <1>1, GateInvariance, BuiltInvariance, PTL

=============================================================================
