------------------------------ MODULE SessionHealth ------------------------------
(***************************************************************************)
(* syvert/resource_health.py.  Diagnostics report on the sessions of        *)
(* accounts, at times of their own and in no order.  The reports decide      *)
(* whether a task may have its accounts, and a report that says that a       *)
(* session is invalid may take an account away from the task that holds it.  *)
(*                                                                         *)
(* A report's context is the task, the adapter, the capability and the       *)
(* operation that it was made for.  The order in which reports are given     *)
(* changes nothing but the order in which a decision cites them.  Here a     *)
(* ledger is read once and written without a failure; ResourceLifecycle      *)
(* models what may happen to it in between.                                  *)
(***************************************************************************)
EXTENDS Checks, Integers, Sequences

CONSTANTS
  HealthReports,  \* reports there may be: [resource, status, observed, expires, policy, context, lease, bundle, flaws]
  MaxHealthReports, \* bound: reports of one decision
  AdmissionCalls, \* [context, fresh, slots, resources, at]
  Ledgers,        \* [readable, status, leases]
  AccountIds      \* resources of type account

ASSUME ReportAssumption ==
  /\ \A e \in HealthReports : e.observed \in Nat /\ e.expires \in Nat \cup {None}
  /\ None \notin Nat

ASSUME CallAssumption ==
  \A c \in AdmissionCalls :
    /\ c = [context |-> c.context, fresh |-> c.fresh, slots |-> c.slots, resources |-> c.resources, at |-> c.at]
    /\ c.at \in Nat \cup {None}
    /\ Len(c.resources) \in Nat /\ DOMAIN c.resources = 1..Len(c.resources)

\* What ResourceLifecycle has of every ledger: a lease has its id to itself, and while it is
\* active its resources, which are those in use.
ASSUME LedgerAssumption ==
  \A ledger \in Ledgers :
    /\ ledger = [readable |-> ledger.readable, leases |-> ledger.leases, status |-> ledger.status]
    /\ \A l \in ledger.leases :
         /\ l = [id |-> l.id, bundle |-> l.bundle, holder |-> l.holder, resources |-> l.resources, active |-> l.active]
         /\ l.active \in BOOLEAN /\ "task" \in DOMAIN l.holder
         /\ l.active => \A r \in l.resources : r \in DOMAIN ledger.status /\ ledger.status[r] = "IN_USE"
    /\ \A l, m \in ledger.leases :
         l.id = m.id \/ (l.active /\ m.active /\ l.resources \cap m.resources # {}) => l = m
    /\ \A r \in DOMAIN ledger.status : ledger.status[r] = "IN_USE" => \E l \in ledger.leases : l.active /\ r \in l.resources

VARIABLES
  reported,       \* reports that were made
  governed,       \* the call that they were put to
  ruling          \* what it returned

governance == <<reported, governed, ruling>>

HealthInit == reported = {} /\ governed = None /\ ruling = None

-----------------------------------------------------------------------------
(* Reports *)

\* validate_resource_health_evidence: a report that says healthy says until when, and by
\* which policy.  The flaws are the parts that are malformed, unknown, or not redacted.
ValidReport(e) ==
  /\ e.flaws = {}
  /\ e.resource # None /\ e.status \in {"healthy", "stale", "invalid"}
  /\ e.expires # None => e.observed < e.expires
  /\ e.status = "healthy" => e.expires # None /\ e.policy

FitsContext(e, context) == context.operation # None /\ e.context = context

\* credential_material_from_account_resource, and the adapter that the material is for.
CredentialFits(account, context) == account.sound /\ account.adapter = context.adapter

-----------------------------------------------------------------------------
(* Admission *)

\* Mutant: a report is good until the very moment at which it expires.
SessionOfLastMoment(id, given, at) ==
  LET own == {e \in given : e.resource = id}
      latest == {e \in own : \A f \in own : f.observed <= e.observed}
  IN IF own = {} THEN "unknown"
     ELSE IF \E e \in latest : e.status = "invalid" THEN "invalid"
     ELSE IF \E e \in latest : e.status = "stale" \/ at > e.expires THEN "stale"
     ELSE "healthy"

\* What the reports on an account say of its session: the latest ones count, and if they
\* contradict each other, the worst of them.
SessionOf(id, given, at) ==
  LET own == {e \in given : e.resource = id}
      latest == {e \in own : \A f \in own : f.observed <= e.observed}
  IN IF own = {} THEN "unknown"
     ELSE IF \E e \in latest : e.status = "invalid" THEN "invalid"
     ELSE IF \E e \in latest : e.status = "stale" \/ at >= e.expires THEN "stale"
     ELSE "healthy"

\* The first account that is unknown or invalid decides, whatever was found stale before it.
ProjectedHealth(accounts, given, at) ==
  LET found == [n \in DOMAIN accounts |-> SessionOf(accounts[n].id, given, at)]
      worst == SelectInSeq(found, LAMBDA s : s \in {"unknown", "invalid"})
  IN IF worst # 0 THEN found[worst]
     ELSE IF "stale" \in ToSet(found) THEN "stale" ELSE "healthy"

Refusal(health) ==
  CASE health = "healthy" -> None
    [] health = "stale" -> "credential_session_stale"
    [] health = "invalid" -> "pre_admission_session_invalid"
    [] health = "unknown" -> "credential_session_unknown"

OnHealth(health, refs) ==
  [status |-> IF health = "healthy" THEN "admitted" ELSE "rejected", health |-> health,
   reason |-> Refusal(health), closed |-> health # "healthy", refs |-> refs]

InvalidContract(reason) ==
  [status |-> "invalid_contract", health |-> "unknown", reason |-> reason, closed |-> TRUE, refs |-> {}]

\* A task that asks for no account, or for no fresh one, is admitted without a look at the reports.
HealthGated(c) == c.fresh /\ "account" \in c.slots

AccountsOf(c) == At(c.resources, {n \in DOMAIN c.resources : c.resources[n].type = "account"})

AdmissionOn(c, given) ==
  LET accounts == AccountsOf(c)
      foreign == {e \in given : \A n \in DOMAIN accounts : accounts[n].id # e.resource}
  IN IF c.at = None THEN InvalidContract("health_evidence_contract_invalid")
     ELSE IF ~HealthGated(c) THEN OnHealth("healthy", {})
     ELSE IF \E e \in given : ~ValidReport(e) \/ ~FitsContext(e, c.context)
          THEN InvalidContract("health_evidence_contract_invalid")
     ELSE IF accounts = <<>> THEN OnHealth("unknown", given)
     ELSE IF foreign # {} THEN InvalidContract("health_evidence_contract_invalid")
     ELSE IF \E n \in DOMAIN accounts : ~CredentialFits(accounts[n], c.context)
          THEN InvalidContract("credential_material_contract_invalid")
     ELSE OnHealth(ProjectedHealth(accounts, given, c.at), given)

Report(e) ==
  /\ governed = None
  /\ Cardinality(reported) < MaxHealthReports
  /\ reported' = reported \cup {e}
  /\ UNCHANGED <<governed, ruling>>

AskAdmission(c) ==
  /\ governed = None
  /\ governed' = c
  /\ ruling' = AdmissionOn(c, reported)
  /\ UNCHANGED reported

-----------------------------------------------------------------------------
(* Invalidation *)

\* A lease is that of a task and a bundle, for one adapter and capability, on resources.
OfLease(e, lease) ==
  /\ e.resource \in lease.resources /\ e.bundle = lease.bundle
  /\ \A field \in DOMAIN lease.holder : e.context[field] = lease.holder[field]

OnAccount(e, ledger) == e.resource \in DOMAIN ledger.status \cap AccountIds

ActiveLeases(ledger) == {l \in ledger.leases : l.active}

\* Whether a report that is invalid and not defective concerns the task that is told of it.
Concerns(e, task, operation) ==
  /\ e.lease # None /\ e.bundle # None /\ \A field \in DOMAIN e.context : e.context[field] # None
  /\ e.context.task = task /\ e.context.operation = operation

\* The account is taken from the lease that the report names; a report on an account that
\* nobody holds is noted, and the account is left as it is.
Takes(e, ledger) ==
  \E l \in ActiveLeases(ledger) : l.id = e.lease /\ OfLease(e, l) /\ OnAccount(e, ledger)
Notes(e, ledger) ==
  /\ OnAccount(e, ledger)
  /\ \A l \in ledger.leases : l.id = e.lease => ~l.active /\ OfLease(e, l)
  /\ \A l \in ActiveLeases(ledger) : e.resource \notin l.resources

\* The account becomes INVALID and what it was leased with becomes AVAILABLE again: a release
\* when it was leased alone, and otherwise a settlement of the lease and of one made for the
\* account.
SettleInvalid(e, ledger) ==
  LET held == UNION {l.resources : l \in {m \in ledger.leases : m.id = e.lease}}
  IN [ledger EXCEPT
        !.leases = {IF l.id = e.lease THEN [l EXCEPT !.active = FALSE] ELSE l : l \in @},
        !.status = [r \in DOMAIN @ |-> IF r = e.resource THEN "INVALID"
                                       ELSE IF r \in held THEN "AVAILABLE" ELSE @[r]]]

\* An invalid contract cites the report, unless that could not be read.
Unfit(refs) == [InvalidContract("health_evidence_contract_invalid") EXCEPT !.refs = refs]

\* What invalidate_active_lease_from_health_evidence returns, or that it raises.
Invalidation(e, task, operation, ledger) ==
  IF ~ValidReport(e) THEN Unfit({})
  ELSE IF e.status # "invalid" THEN [status |-> "raised"]
  ELSE IF ~Concerns(e, task, operation) THEN Unfit({e})
  ELSE IF ~ledger.readable THEN [status |-> "resource_state_conflict"]
  ELSE IF Takes(e, ledger) THEN [status |-> "settled", ledger |-> SettleInvalid(e, ledger)]
  ELSE IF Notes(e, ledger) THEN OnHealth("invalid", {e})
  ELSE Unfit({e})

\* The task that holds an account, or another, is told of one report on it.
AskInvalidation(e, task, operation, ledger) ==
  /\ governed = None /\ reported = {}
  /\ reported' = {e}
  /\ governed' = [task |-> task, operation |-> operation, ledger |-> ledger]
  /\ ruling' = Invalidation(e, task, operation, ledger)

-----------------------------------------------------------------------------
(* Properties of a ruling; ReleasePath says when there is one *)

\* A task whose account must be fresh is admitted only on the word of the latest reports, all
\* of them on its own accounts and made for it, and for as long as they all last.  Nothing
\* but a report makes a session better: what is admitted would have been admitted before, and
\* is not any more after one report that is as late as the others and says invalid.  What is
\* not admitted is closed, and says nothing of a session that could not be judged
\* (decide_resource_health_admission, _project_account_resources_health).
AdmissionIsFresh ==
  LET c == governed
      accounts == ToSet(AccountsOf(c))
      Vouched(id) == \E e \in reported :
        /\ e.resource = id
        /\ \A f \in reported : f.resource = id /\ f.observed >= e.observed => f.status = "healthy" /\ c.at < f.expires
      Admits(given, at) == AdmissionOn([c EXCEPT !.at = at], given).status = "admitted"
  IN /\ ruling.closed <=> ruling.status # "admitted"
     /\ ruling.status = "invalid_contract" => ruling.health = "unknown" /\ ruling.refs = {}
     /\ HealthGated(c) /\ ruling.status = "admitted" =>
          /\ accounts # {} /\ \A r \in accounts : r.adapter = c.context.adapter /\ Vouched(r.id)
          /\ \A e \in reported : e.context = c.context /\ \E r \in accounts : r.id = e.resource
          /\ \A at \in 0..c.at : Admits(reported, at)
          /\ \A e \in HealthReports :
               e.status = "invalid" /\ (\A f \in reported : f.observed <= e.observed) => ~Admits(reported \cup {e}, c.at)

\* A report takes an account away from the task that holds it, and from no other: the lease
\* that it names is settled, nothing that is free is held and nothing that is held is free,
\* and what was leased with the account is not lost.  An account that nobody holds is left as
\* it is.  No report that is not later makes up for the one that took the account
\* (invalidate_active_lease_from_health_evidence).
InvalidationIsScoped ==
  LET before == governed.ledger
      Held(ledger) == UNION {l.resources : l \in ActiveLeases(ledger)}
  IN \A e \in reported :
       /\ ruling.status = "settled" =>
            LET after == ruling.ledger
            IN /\ \E l \in before.leases \ after.leases :
                    /\ l.holder.task = governed.task /\ e.resource \in l.resources
                    /\ Held(before) \ Held(after) = l.resources
               /\ Held(after) = {r \in DOMAIN after.status : after.status[r] = "IN_USE"}
               /\ {r \in DOMAIN after.status : after.status[r] = "INVALID" /\ before.status[r] # "INVALID"} = {e.resource}
               /\ e.resource \in AccountIds
       /\ ruling.status = "rejected" => e.resource \notin Held(before) /\ before.readable
       /\ ruling.status \in {"settled", "rejected"} =>
            \A c \in AdmissionCalls, f \in HealthReports :
              HealthGated(c) /\ f.observed <= e.observed => AdmissionOn(c, {e, f}).status # "admitted"

=============================================================================
