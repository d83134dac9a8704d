------------------------- MODULE ResourceLifecycle -------------------------
(***************************************************************************)
(* The resource ledger of Syvert: accounts and proxies that tasks lease.   *)
(*                                                                         *)
(* syvert/resource_lifecycle.py      acquire(), release(), validate        *)
(* syvert/resource_lifecycle_store.py the snapshot file, commit_with_trace *)
(* syvert/resource_trace.py, resource_trace_store.py  the audit trace      *)
(* syvert/resource_health.py         invalidation of an active lease       *)
(*                                                                         *)
(* Every caller (a thread or a process) works on a copy of the snapshot it *)
(* read without a lock, and commits under the two file locks only if the   *)
(* revision it built is the durable one plus one.  A commit replaces two   *)
(* files one after the other: the trace, then the snapshot.                *)
(***************************************************************************)
EXTENDS Integers

CONSTANTS
  Accounts, Proxies,  \* resource ids; naturals, because selection sorts by id
  Adapters, Tasks,
  ManagedBy,          \* material.managed_adapter_key of each account
  Callers,            \* threads that call the ledger's operations
  MaxLeases,          \* how many lease ids uuid4 may hand out
  Times,              \* readings of the wall clock, in no particular order
  Reasons,            \* release reasons a caller may give
  SlotRequests,       \* the requested_slots of the acquire calls
  Batches,            \* the inputs of seed_resources: functions from ids to statuses
  FaultKinds,         \* which faults may strike ...
  MaxFaults           \* ... and how many in all

Resources == Accounts \cup Proxies
LeaseIds == 1 .. MaxLeases
\* "<lease>:credential-session-invalidation", the lease a split invalidation
\* adds, is -l; no uuid ever equals it.
InvalidationOf(l) == -l
AllLeaseIds == LeaseIds \cup {InvalidationOf(l) : l \in LeaseIds}

ASSUME ResourceAssumption ==
  /\ Accounts \subseteq Nat
  /\ Proxies \subseteq Nat
  /\ Accounts \cap Proxies = {}
ASSUME ManagedAssumption == ManagedBy \in [Accounts -> Adapters]
ASSUME BoundAssumption == MaxLeases \in Nat /\ MaxFaults \in Nat /\ Times \subseteq Nat
ASSUME SlotAssumption == SlotRequests \subseteq SUBSET {"account", "proxy"}
ASSUME BatchAssumption ==
  \A batch \in Batches :
    /\ DOMAIN batch \subseteq Resources
    /\ \A r \in DOMAIN batch : batch[r] \in {"AVAILABLE", "IN_USE", "INVALID"}
ASSUME CallerAssumption == "nobody" \notin Callers

-----------------------------------------------------------------------------
(* Types *)

Statuses == {"ABSENT", "AVAILABLE", "IN_USE", "INVALID"}
Targets == {"AVAILABLE", "INVALID"}

\* Reasons the code itself gives; the callers give one of Reasons.
InvalidSession == "credential_session_invalid"
SplitRelease == "credential_session_invalid_release_before_account_invalidation"
AllReasons == Reasons \cup {InvalidSession, SplitRelease, "none"}

\* pos is the place of the lease in the snapshot's list: twice the revision
\* that appended it, plus one for the lease a split puts right behind it.
Lease ==
  [phase : {"absent", "active", "settled"},
   task : Tasks \cup {"none"}, adapter : Adapters \cup {"none"},
   resources : SUBSET Resources,
   acquiredAt : Times \cup {0}, releasedAt : Times \cup {0},
   target : Targets, reason : AllReasons, pos : Nat]

Snapshot ==
  [rev : Nat, status : [Resources -> Statuses], leases : [AllLeaseIds -> Lease]]

\* An event's id is (type, lease, resource); its task, bundle, adapter and
\* capability are those of its lease.
Event ==
  [type : {"acquired", "released", "invalidated"}, lease : AllLeaseIds,
   resource : Resources, at : Times \cup {0}, reason : AllReasons \cup {"acquired_for_task"}]

AcquireOp ==
  [kind : {"acquire"}, task : Tasks, adapter : Adapters, slots : SlotRequests,
   lease : LeaseIds, selected : SUBSET Resources, retry : BOOLEAN]
ReleaseOp ==
  [kind : {"release"}, task : Tasks, lease : LeaseIds, target : Targets,
   reason : AllReasons, error : {"none", "revision", "other"}]
InvalidateOp ==
  [kind : {"invalidate"}, task : Tasks, lease : LeaseIds, account : Accounts]
NoOp == [kind |-> "none"]
Op == AcquireOp \cup ReleaseOp \cup InvalidateOp \cup {NoOp}

Results ==
  {"none", "bundle", "settled", "resource_unavailable", "resource_state_conflict",
   "resource_lease_mismatch", "resource_release_conflict", "rejected", "raised",
   "crashed"}

NoLease ==
  [phase |-> "absent", task |-> "none", adapter |-> "none", resources |-> {},
   acquiredAt |-> 0, releasedAt |-> 0, target |-> "AVAILABLE",
   reason |-> "none", pos |-> 0]

EmptySnapshot ==
  [rev |-> 0, status |-> [r \in Resources |-> "ABSENT"],
   leases |-> [l \in AllLeaseIds |-> NoLease]]

NoCaller == "nobody"

VARIABLES
  durable,  \* the snapshot file
  events,   \* the trace file, its order abstracted to the set of its events
  lock,     \* holder of the trace lock and the snapshot lock across two writes
  undo,     \* the events the holder read, to write back if it must roll back
  pc, op,   \* where each caller is, and the call it is in
  next,     \* the snapshot it wants to commit
  fresh,    \* the trace events that go with it
  answer,   \* what the call that ended in the last step returned, "none" if none did
  faults    \* faults so far

vars == <<durable, events, lock, undo, pc, op, next, fresh, answer, faults>>

-----------------------------------------------------------------------------
(* Reading a snapshot *)

Known(s, l) == s.leases[l].phase # "absent"
Active(s, l) == s.leases[l].phase = "active"
Settled(s, l) == s.leases[l].phase = "settled"
ActiveOn(s, r) == {l \in AllLeaseIds : Active(s, l) /\ r \in s.leases[l].resources}

ResourcesFor(slot) == IF slot = "account" THEN Accounts ELSE Proxies

\* Mutant: an invalidated resource is a candidate again.
CandidatesWithInvalid(s, slot, adapter) ==
  {r \in ResourcesFor(slot) :
     /\ s.status[r] \in {"AVAILABLE", "INVALID"}
     /\ slot = "account" => ManagedBy[r] = adapter}

Candidates(s, slot, adapter) ==
  {r \in ResourcesFor(slot) :
     s.status[r] = "AVAILABLE" /\ (slot = "account" => ManagedBy[r] = adapter)}

\* The candidate whose resource_id sorts first.
Lowest(R) == CHOOSE r \in R : \A x \in R : r <= x

Selectable(s, slots, adapter) == \A slot \in slots : Candidates(s, slot, adapter) # {}
Select(s, slots, adapter) == {Lowest(Candidates(s, slot, adapter)) : slot \in slots}

\* Mutant: the time of earlier leases is not looked at.
NoOverlapUnchecked(s, R, now) == TRUE

\* The one check of validate_snapshot an acquire can fail: its acquired_at
\* lies before the end of an earlier lease on one of the resources.
NoOverlap(s, R, now) ==
  \A l \in AllLeaseIds : Settled(s, l) /\ s.leases[l].resources \cap R # {}
                           => s.leases[l].releasedAt <= now

-----------------------------------------------------------------------------
(* The snapshots and the trace events an operation builds *)

LeaseOf(task, adapter, R, now, pos) ==
  [phase |-> "active", task |-> task, adapter |-> adapter, resources |-> R,
   acquiredAt |-> now, releasedAt |-> 0, target |-> "AVAILABLE",
   reason |-> "none", pos |-> pos]

Settle(lease, target, reason, now) ==
  [lease EXCEPT !.phase = "settled", !.releasedAt = now, !.target = target, !.reason = reason]

SetStatus(s, R, st) == [r \in Resources |-> IF r \in R THEN st ELSE s.status[r]]

AcquireSnapshot(s, l, task, adapter, R, now) ==
  [rev |-> s.rev + 1,
   status |-> SetStatus(s, R, "IN_USE"),
   leases |-> [s.leases EXCEPT ![l] = LeaseOf(task, adapter, R, now, 2 * (s.rev + 1))]]

\* Mutant: target and reason swapped.
ReleaseSnapshotSwapped(s, l, target, reason, now) ==
  [rev |-> s.rev + 1,
   status |-> SetStatus(s, s.leases[l].resources, reason),
   leases |-> [s.leases EXCEPT ![l] = Settle(@, reason, target, now)]]

ReleaseSnapshot(s, l, target, reason, now) ==
  [rev |-> s.rev + 1,
   status |-> SetStatus(s, s.leases[l].resources, target),
   leases |-> [s.leases EXCEPT ![l] = Settle(@, target, reason, now)]]

\* Mutant: the split forgets the other resources of the lease.
SplitSnapshotForgetful(s, l, account, now) ==
  LET old == s.leases[l]
      scoped == Settle(LeaseOf(old.task, old.adapter, {account}, now, old.pos + 1),
                       "INVALID", InvalidSession, now)
  IN  [rev |-> s.rev + 1,
       status |-> SetStatus(s, {account}, "INVALID"),
       leases |-> [s.leases EXCEPT ![l] = Settle(@, "AVAILABLE", SplitRelease, now),
                                   ![InvalidationOf(l)] = scoped]]

\* The lease is settled as if all its resources were AVAILABLE again, and a
\* second lease that begins and ends at that instant invalidates the account.
SplitSnapshot(s, l, account, now) ==
  LET old == s.leases[l]
      scoped == Settle(LeaseOf(old.task, old.adapter, {account}, now, old.pos + 1),
                       "INVALID", InvalidSession, now)
  IN  [rev |-> s.rev + 1,
       status |-> [r \in Resources |->
                     CASE r = account -> "INVALID"
                       [] r # account /\ r \in old.resources -> "AVAILABLE"
                       [] OTHER -> s.status[r]],
       leases |-> [s.leases EXCEPT ![l] = Settle(@, "AVAILABLE", SplitRelease, now),
                                   ![InvalidationOf(l)] = scoped]]

AcquiredEvents(l, lease) ==
  {[type |-> "acquired", lease |-> l, resource |-> r, at |-> lease.acquiredAt,
    reason |-> "acquired_for_task"] : r \in lease.resources}

CloseoutEvents(l, lease) ==
  {[type |-> IF lease.target = "AVAILABLE" THEN "released" ELSE "invalidated",
    lease |-> l, resource |-> r, at |-> lease.releasedAt, reason |-> lease.reason] :
      r \in lease.resources}

\* Everything the trace has to say about lease l of snapshot s.
TraceOf(s, l) ==
  CASE Active(s, l) -> AcquiredEvents(l, s.leases[l])
    [] Settled(s, l) -> AcquiredEvents(l, s.leases[l]) \cup CloseoutEvents(l, s.leases[l])
    [] OTHER -> {}

IsCloseout(e) == e.type # "acquired"

\* merge_resource_trace_events and validate_resource_trace_stream accept E:
\* one payload per event id, one closeout per lease and resource, and none
\* without an acquired event before it.  They read the events sorted by time,
\* then by id, where "acquired" comes first.
ValidTrace(E) ==
  /\ \A d, e \in E :
       (d.lease = e.lease /\ d.resource = e.resource /\ IsCloseout(d) = IsCloseout(e)) => d = e
  /\ \A e \in E : IsCloseout(e) =>
       \E d \in E : /\ ~IsCloseout(d) /\ d.lease = e.lease /\ d.resource = e.resource
                    /\ d.at <= e.at

-----------------------------------------------------------------------------
(* The calls *)

Init ==
  /\ durable = EmptySnapshot
  /\ events = {} /\ undo = {}
  /\ lock = NoCaller
  /\ pc = [p \in Callers |-> "idle"]
  /\ op = [p \in Callers |-> NoOp]
  /\ next = [p \in Callers |-> EmptySnapshot]
  /\ fresh = [p \in Callers |-> {}]
  /\ answer = "none"
  /\ faults = 0

Fault(kind) == kind \in FaultKinds /\ faults < MaxFaults /\ faults' = faults + 1

\* The call of p ends; what it held in memory is gone.
Return(p, value) ==
  /\ pc' = [pc EXCEPT ![p] = "idle"]
  /\ op' = [op EXCEPT ![p] = NoOp]
  /\ next' = [next EXCEPT ![p] = EmptySnapshot]
  /\ fresh' = [fresh EXCEPT ![p] = {}]
  /\ answer' = value

\* p goes on to commit snapshot s with events E, built for operation o.
Submit(p, o, s, E) ==
  /\ pc' = [pc EXCEPT ![p] = "commit"]
  /\ op' = [op EXCEPT ![p] = o]
  /\ next' = [next EXCEPT ![p] = s]
  /\ fresh' = [fresh EXCEPT ![p] = E]
  /\ answer' = "none"

\* p reads the snapshot (again) for operation o.
Reload(p, o) ==
  /\ pc' = [pc EXCEPT ![p] = "load"]
  /\ op' = [op EXCEPT ![p] = o]
  /\ next' = [next EXCEPT ![p] = EmptySnapshot]
  /\ fresh' = [fresh EXCEPT ![p] = {}]
  /\ answer' = "none"

files == <<durable, events, lock, undo>>

\* A uuid is in no snapshot, in no trace and in nobody else's hands; the model
\* hands out the smallest.  acquire draws one in every round of its loop, but
\* an earlier one reached no file: the model draws once per call.
Unused ==
  {l \in LeaseIds : /\ ~Known(durable, l)
                    /\ \A e \in events : e.lease # l
                    /\ \A q \in Callers : op[q].kind = "acquire" => op[q].lease # l}

Call(p) ==
  /\ pc[p] = "idle"
  /\ UNCHANGED <<files, faults>>
  /\ \/ \E t \in Tasks, a \in Adapters, slots \in SlotRequests, l \in Unused :
          /\ \A m \in Unused : l <= m
          /\ Reload(p, [kind |-> "acquire", task |-> t, adapter |-> a, slots |-> slots,
                        lease |-> l, selected |-> {}, retry |-> FALSE])
     \/ \E t \in Tasks, l \in LeaseIds, target \in Targets, why \in Reasons :
          Reload(p, [kind |-> "release", task |-> t, lease |-> l, target |-> target,
                     reason |-> why, error |-> "none"])
     \/ \E t \in Tasks, l \in LeaseIds, r \in Accounts :
          Reload(p, [kind |-> "invalidate", task |-> t, lease |-> l, account |-> r])

\* The snapshot file cannot be read.  (The first read of a release is made
\* again; the fault stands for both.)
LoadFails(p) ==
  /\ pc[p] = "load"
  /\ Fault("load")
  /\ Return(p, "resource_state_conflict")
  /\ UNCHANGED files

-----------------------------------------------------------------------------
(* acquire *)

Acquiring(p) == pc[p] = "load" /\ op[p].kind = "acquire"

\* No resource for a slot, or after a revision conflict not the same ones.
AcquireRefused(p) ==
  /\ Acquiring(p)
  /\ LET o == op[p]
         possible == Selectable(durable, o.slots, o.adapter)
     IN  \/ ~o.retry /\ ~possible /\ Return(p, "resource_unavailable")
         \/ /\ o.retry
            /\ possible => Select(durable, o.slots, o.adapter) # o.selected
            /\ Return(p, "resource_state_conflict")
  /\ UNCHANGED <<files, faults>>

AcquireSubmit(p) ==
  /\ Acquiring(p)
  /\ Selectable(durable, op[p].slots, op[p].adapter)
  /\ LET o == op[p]
         R == Select(durable, o.slots, o.adapter)
     IN  /\ o.retry => R = o.selected
         /\ \E now \in Times :
              LET s == AcquireSnapshot(durable, o.lease, o.task, o.adapter, R, now)
                  possible == /\ \A r \in R : ActiveOn(durable, r) = {}
                              /\ NoOverlap(durable, R, now)
              IN  \/ /\ possible
                     /\ Submit(p, [o EXCEPT !.selected = R, !.retry = TRUE], s,
                               AcquiredEvents(o.lease, s.leases[o.lease]))
                  \/ ~possible /\ Return(p, "resource_state_conflict")
  /\ UNCHANGED <<files, faults>>

-----------------------------------------------------------------------------
(* release *)

Releasing(p) == pc[p] = "load" /\ op[p].kind = "release"

\* Mutant: the reason of a repeated release is compared, its target is not.
SameSettlementByReason(lease, o) == lease.phase = "settled" /\ lease.reason = o.reason

SameSettlement(lease, o) ==
  lease.phase = "settled" /\ lease.target = o.target /\ lease.reason = o.reason

ReleaseRefused(p) ==
  /\ Releasing(p)
  /\ LET o == op[p]
         lease == durable.leases[o.lease]
     IN  \/ /\ ~Known(durable, o.lease) \/ lease.task # o.task
            /\ Return(p, "resource_lease_mismatch")
         \/ /\ Settled(durable, o.lease) /\ lease.task = o.task /\ ~SameSettlement(lease, o)
            /\ Return(p, "resource_release_conflict")
         \/ /\ Active(durable, o.lease) /\ lease.task = o.task
            /\ \/ o.error = "other"
               \/ \E r \in lease.resources : durable.status[r] # "IN_USE"
            /\ Return(p, "resource_state_conflict")
  /\ UNCHANGED <<files, faults>>

\* ensure_settled_release_trace_truth: the trace is read without a lock, and
\* its read error is no ResourceLifecycleContractError.
ReleaseRepeated(p) ==
  /\ Releasing(p)
  /\ LET o == op[p]
         lease == durable.leases[o.lease]
     IN  /\ SameSettlement(lease, o) /\ lease.task = o.task
         /\ \/ /\ CloseoutEvents(o.lease, lease) \subseteq events
               /\ Return(p, "settled") /\ UNCHANGED faults
            \/ /\ ~(CloseoutEvents(o.lease, lease) \subseteq events)
               /\ Return(p, "resource_state_conflict") /\ UNCHANGED faults
            \/ Fault("trace_load") /\ Return(p, "raised")
  /\ UNCHANGED files

ReleaseSubmit(p) ==
  /\ Releasing(p)
  /\ LET o == op[p]
         lease == durable.leases[o.lease]
     IN  /\ Active(durable, o.lease) /\ lease.task = o.task
         /\ o.error # "other"
         /\ \A r \in lease.resources : durable.status[r] = "IN_USE"
         /\ \E now \in Times :
              LET s == ReleaseSnapshot(durable, o.lease, o.target, o.reason, now)
              IN  \/ /\ lease.acquiredAt <= now
                     /\ Submit(p, o, s, CloseoutEvents(o.lease, s.leases[o.lease]))
                  \/ /\ now < lease.acquiredAt
                     /\ Return(p, "resource_state_conflict")
  /\ UNCHANGED <<files, faults>>

-----------------------------------------------------------------------------
(* invalidate_active_lease_from_health_evidence *)

Invalidating(p) == pc[p] = "load" /\ op[p].kind = "invalidate"

EvidenceFits(o) ==
  LET lease == durable.leases[o.lease]
  IN  /\ Active(durable, o.lease)
      /\ o.account \in lease.resources
      /\ o.task = lease.task

InvalidateRefused(p) ==
  /\ Invalidating(p)
  /\ ~EvidenceFits(op[p])
  /\ Return(p, "rejected")
  /\ UNCHANGED <<files, faults>>

\* A lease of one resource is released as INVALID, from a snapshot read anew.
InvalidateRelease(p) ==
  /\ Invalidating(p)
  /\ EvidenceFits(op[p])
  /\ durable.leases[op[p].lease].resources = {op[p].account}
  /\ Reload(p, [kind |-> "release", task |-> op[p].task, lease |-> op[p].lease,
                target |-> "INVALID", reason |-> InvalidSession, error |-> "none"])
  /\ UNCHANGED <<files, faults>>

InvalidateSplit(p) ==
  /\ Invalidating(p)
  /\ EvidenceFits(op[p])
  /\ durable.leases[op[p].lease].resources # {op[p].account}
  /\ \E now \in Times :
       LET o == op[p]
           l == o.lease
           s == SplitSnapshot(durable, l, o.account, now)
       IN  \/ /\ durable.leases[l].acquiredAt <= now
              /\ Submit(p, o, s, CloseoutEvents(l, s.leases[l])
                                 \cup TraceOf(s, InvalidationOf(l)))
           \/ /\ now < durable.leases[l].acquiredAt
              /\ Return(p, "resource_state_conflict")
  /\ UNCHANGED <<files, faults>>

-----------------------------------------------------------------------------
(* commit_with_trace, and what the callers do when it raises *)

Answer(o) == IF o.kind = "acquire" THEN "bundle" ELSE "settled"

\* acquire retries a revision conflict and nothing else, release reads the
\* ledger again after any error, a split gives up.
CommitRaises(p, error) ==
  LET o == op[p]
  IN  \/ o.kind = "acquire" /\ error = "revision" /\ Reload(p, o)
      \/ o.kind = "release" /\ Reload(p, [o EXCEPT !.error = error])
      \/ /\ o.kind = "invalidate" \/ (o.kind = "acquire" /\ error # "revision")
         /\ Return(p, "resource_state_conflict")

\* Both locks are free and p takes them.
Committing(p) == pc[p] = "commit" /\ lock = NoCaller
\* Mutant: the commit does not compare revisions.
IsNextRevisionUnchecked(p) == TRUE
IsNextRevision(p) == next[p].rev = durable.rev + 1

CommitStale(p) ==
  /\ Committing(p)
  /\ ~IsNextRevision(p)
  /\ CommitRaises(p, "revision")
  /\ UNCHANGED <<files, faults>>

\* The merge with the trace on disk is refused.
CommitTraceConflict(p) ==
  /\ Committing(p)
  /\ IsNextRevision(p)
  /\ ~ValidTrace(events \cup fresh[p])
  /\ CommitRaises(p, "other")
  /\ UNCHANGED <<files, faults>>

CommitTraceFails(p) ==
  /\ Committing(p)
  /\ IsNextRevision(p)
  /\ Fault("trace_write")
  /\ CommitRaises(p, "other")
  /\ UNCHANGED files

\* Mutant: the events to roll back to are read after the merge was written.
CommitTraceLateUndo(p) ==
  /\ Committing(p)
  /\ IsNextRevision(p)
  /\ ValidTrace(events \cup fresh[p])
  /\ events' = events \cup fresh[p]
  /\ undo' = events'
  /\ lock' = p
  /\ pc' = [pc EXCEPT ![p] = "traced"]
  /\ answer' = "none"
  /\ UNCHANGED <<durable, op, next, fresh, faults>>

CommitTrace(p) ==
  /\ Committing(p)
  /\ IsNextRevision(p)
  /\ ValidTrace(events \cup fresh[p])
  /\ events' = events \cup fresh[p]
  /\ undo' = events
  /\ lock' = p
  /\ pc' = [pc EXCEPT ![p] = "traced"]
  /\ answer' = "none"
  /\ UNCHANGED <<durable, op, next, fresh, faults>>

Unlock == lock' = NoCaller /\ undo' = {}

CommitSnapshot(p) ==
  /\ pc[p] = "traced"
  /\ durable' = next[p]
  /\ Unlock
  /\ Return(p, Answer(op[p]))
  /\ UNCHANGED <<events, faults>>

\* Mutant: the roll back drops the whole trace.
CommitRollbackToEmpty(p) ==
  /\ pc[p] = "traced"
  /\ Fault("snapshot_write")
  /\ events' = {}
  /\ Unlock
  /\ CommitRaises(p, "other")
  /\ UNCHANGED durable

\* The snapshot cannot be written: the old trace is written back.
CommitRollback(p) ==
  /\ pc[p] = "traced"
  /\ Fault("snapshot_write")
  /\ events' = undo
  /\ Unlock
  /\ CommitRaises(p, "other")
  /\ UNCHANGED durable

\* ... and that fails too.
CommitRollbackFails(p) ==
  /\ pc[p] = "traced"
  /\ Fault("rollback")
  /\ Unlock
  /\ CommitRaises(p, "other")
  /\ UNCHANGED <<durable, events>>

\* The caller's process dies; the kernel drops its flocks.
Crash(p) ==
  /\ pc[p] # "idle"
  /\ Fault("crash")
  /\ Return(p, "crashed")
  /\ IF lock = p THEN Unlock ELSE UNCHANGED <<lock, undo>>
  /\ UNCHANGED <<durable, events>>

-----------------------------------------------------------------------------
(* seed_resources: read, compare and write under the snapshot lock *)

\* Each record is new or equal to the one in the ledger; a new one is not
\* IN_USE, which validate_snapshot refuses without a lease.
Seed(batch) ==
  LET absent == {r \in DOMAIN batch : durable.status[r] = "ABSENT"}
  IN  /\ lock = NoCaller
      /\ absent # {}
      /\ \A r \in DOMAIN batch \ absent : durable.status[r] = batch[r]
      /\ \A r \in absent : batch[r] # "IN_USE"
      /\ durable' = [durable EXCEPT
           !.rev = @ + 1,
           !.status = [r \in Resources |-> IF r \in absent THEN batch[r] ELSE @[r]]]
      /\ answer' = "none"
      /\ UNCHANGED <<events, lock, undo, pc, op, next, fresh, faults>>

CallerStep(p) ==
  \/ Call(p) \/ LoadFails(p)
  \/ AcquireRefused(p) \/ AcquireSubmit(p)
  \/ ReleaseRefused(p) \/ ReleaseRepeated(p) \/ ReleaseSubmit(p)
  \/ InvalidateRefused(p) \/ InvalidateRelease(p) \/ InvalidateSplit(p)
  \/ CommitStale(p) \/ CommitTraceConflict(p) \/ CommitTraceFails(p)
  \/ CommitTrace(p) \/ CommitSnapshot(p)
  \/ CommitRollback(p) \/ CommitRollbackFails(p) \/ Crash(p)

Next == (\E batch \in Batches : Seed(batch)) \/ \E p \in Callers : CallerStep(p)

Spec == Init /\ [][Next]_vars

-----------------------------------------------------------------------------
(* Properties *)

\* Every variable keeps its type, in the durable snapshot and in the copies.
TypeOK ==
  /\ durable \in Snapshot
  /\ events \subseteq Event /\ undo \subseteq Event
  /\ lock \in Callers \cup {NoCaller}
  /\ pc \in [Callers -> {"idle", "load", "commit", "traced"}]
  /\ op \in [Callers -> Op]
  /\ next \in [Callers -> Snapshot]
  /\ fresh \in [Callers -> SUBSET Event]
  /\ answer \in Results
  /\ faults \in 0 .. MaxFaults

\* A resource is IN_USE exactly when one lease, and only one, is active on it:
\* two callers that selected the same resource never both get it, whatever
\* they read and whichever writes fail (FR-0010; resource_lifecycle.py acquire).
UniqueHolder(s) ==
  \A r \in Resources :
    /\ s.status[r] = "IN_USE" <=> ActiveOn(s, r) # {}
    /\ \A l, m \in ActiveOn(s, r) : l = m

LeaseExclusivity == UniqueHolder(durable)

Marker(t, pos) == [t |-> t, pos |-> pos]
Earlier(a, b) == a.t < b.t \/ (a.t = b.t /\ a.pos < b.pos)
From(lease) == Marker(lease.acquiredAt, lease.pos)
Until(lease) == Marker(lease.releasedAt, lease.pos)

\* What validate_snapshot demands of the history of one resource.
ValidHistory(s, r) ==
  LET On == {l \in AllLeaseIds : Known(s, l) /\ r \in s.leases[l].resources}
      Over == {l \in On : Settled(s, l)}
      Last(l) == \A m \in Over : m # l => Earlier(Until(s.leases[m]), Until(s.leases[l]))
  IN  /\ ActiveOn(s, r) = {} => \A l \in Over : Last(l) => s.status[r] = s.leases[l].target
      /\ \A l \in Over : s.leases[l].target = "INVALID" =>
           /\ s.status[r] = "INVALID"
           /\ \A m \in On : ~Earlier(Until(s.leases[l]), From(s.leases[m]))
      /\ \A l, m \in On : Earlier(From(s.leases[l]), From(s.leases[m])) =>
           /\ Settled(s, l)
           /\ ~Earlier(From(s.leases[m]), Until(s.leases[l]))

ValidSnapshot(s) ==
  /\ UniqueHolder(s)
  /\ \A l \in AllLeaseIds : Known(s, l) =>
       \A r \in s.leases[l].resources : s.status[r] # "ABSENT"
  /\ \A l \in AllLeaseIds : Settled(s, l) => s.leases[l].acquiredAt <= s.leases[l].releasedAt
  /\ \A r \in Resources : ValidHistory(s, r)

\* validate_snapshot accepts the file, so that no load ever fails on content,
\* and accepts every snapshot an operation is about to write: the two clock
\* checks of acquire and release are the only ones that can refuse an update.
SnapshotsValid ==
  /\ ValidSnapshot(durable)
  /\ \A p \in Callers : pc[p] \in {"commit", "traced"} => ValidSnapshot(next[p])

\* No commit loses a lease another caller committed, gives it to another task
\* or resources, or touches a settled lease (commit_with_trace's revision check).
LeaseKept(old, new) ==
  /\ old.phase # "absent" =>
       /\ new.phase # "absent"
       /\ new.task = old.task /\ new.resources = old.resources
       /\ new.acquiredAt = old.acquiredAt
  /\ old.phase = "settled" => new = old

LedgerAppendOnly ==
  [][\A l \in AllLeaseIds : LeaseKept(durable.leases[l], durable'.leases[l])]_vars

\* A resource once INVALID stays INVALID, also when a caller that read it as
\* AVAILABLE or IN_USE commits later (FR-0010: INVALID is terminal).
InvalidIsTerminal ==
  [][\A r \in Resources : durable.status[r] = "INVALID" => durable'.status[r] = "INVALID"]_vars

\* A transition that is visible in the ledger is in the trace, with the very
\* time and reason of the lease: at every crash point, and for a reader that
\* takes no lock (FR-0011: no settled resource without its audit events).
TraceCoversLedger ==
  \A l \in AllLeaseIds :
    /\ TraceOf(durable, l) \subseteq events
    /\ Settled(durable, l) => {e \in events : e.lease = l} = TraceOf(durable, l)

\* Between commits the trace says nothing the ledger does not.
TraceInLockstep ==
  lock = NoCaller => events = UNION {TraceOf(durable, l) : l \in AllLeaseIds}

\* A release that reports success leaves the lease settled exactly as asked,
\* though another caller may have settled it in between.
ReleaseAnswerHonest ==
  [][\A p \in Callers :
       (op[p].kind = "release" /\ pc[p] # "idle" /\ pc'[p] = "idle" /\ answer' = "settled")
         => /\ Settled(durable', op[p].lease)
            /\ durable'.leases[op[p].lease].target = op[p].target
            /\ durable'.leases[op[p].lease].reason = op[p].reason]_vars

\* The docstring of ResourceLifecycleStore: acquire() and release() coerce
\* unexpected backend exceptions, callers never observe a raw store failure.
\* Not so in the code: a repeated release reads the trace outside any handler.
NoRawStoreFailure == answer # "raised"

\* The ledger implements the pool: what all callers together do to the
\* snapshot file is one grant or one return after another.
TheLease(L) == IF L = {} THEN 0 ELSE CHOOSE l \in L : TRUE
HolderOf(s) == [r \in Resources |-> TheLease(ActiveOn(s, r))]
Granted(s) == {l \in LeaseIds : Known(s, l)}

Pool == INSTANCE ResourcePool WITH
  Leases <- LeaseIds,
  Nobody <- 0,
  state <- durable.status,
  holder <- HolderOf(durable),
  spent <- Granted(durable)

ImplementsPool == Pool!Spec
=============================================================================
