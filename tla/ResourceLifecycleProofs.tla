---------------------- MODULE ResourceLifecycleProofs ----------------------
(***************************************************************************)
(* Proofs about ResourceLifecycle, for any sets of resources, callers and  *)
(* tasks, any number of leases and faults.                                 *)
(***************************************************************************)
EXTENDS ResourceLifecycle, WellFoundedInduction, TLAPS

-----------------------------------------------------------------------------
(* Lease ids *)

\* The id of a split's second lease is an id, and no uuid.
LEMMA InvalidationIds ==
  \A l \in LeaseIds : /\ InvalidationOf(l) \in AllLeaseIds
                      /\ InvalidationOf(l) \notin LeaseIds
                      /\ l \in AllLeaseIds
BY BoundAssumption DEF InvalidationOf, AllLeaseIds, LeaseIds

-----------------------------------------------------------------------------
(* The snapshots the operations build are snapshots. *)

LEMMA EmptyIsSnapshot == EmptySnapshot \in Snapshot
BY DEF EmptySnapshot, Snapshot, NoLease, Lease, Targets, AllReasons, Statuses

LEMMA SettleType ==
  ASSUME NEW lease \in Lease, NEW target \in Targets, NEW reason \in AllReasons,
         NEW now \in Times
  PROVE  Settle(lease, target, reason, now) \in Lease
BY DEF Settle, Lease

LEMMA LeaseOfType ==
  ASSUME NEW task \in Tasks \cup {"none"}, NEW adapter \in Adapters \cup {"none"},
         NEW R \in SUBSET Resources, NEW now \in Times, NEW pos \in Nat
  PROVE  LeaseOf(task, adapter, R, now, pos) \in Lease
BY DEF LeaseOf, Lease, Targets, AllReasons

LEMMA AcquireType ==
  ASSUME NEW s \in Snapshot, NEW l \in LeaseIds, NEW task \in Tasks, NEW adapter \in Adapters,
         NEW R \in SUBSET Resources, NEW now \in Times
  PROVE  AcquireSnapshot(s, l, task, adapter, R, now) \in Snapshot
<1>1. LeaseOf(task, adapter, R, now, 2 * (s.rev + 1)) \in Lease
  BY LeaseOfType DEF Snapshot
<1>2. QED
  BY <1>1, InvalidationIds DEF AcquireSnapshot, Snapshot, SetStatus, Statuses

LEMMA ReleaseType ==
  ASSUME NEW s \in Snapshot, NEW l \in LeaseIds, NEW target \in Targets,
         NEW reason \in AllReasons, NEW now \in Times
  PROVE  ReleaseSnapshot(s, l, target, reason, now) \in Snapshot
<1>1. Settle(s.leases[l], target, reason, now) \in Lease
  BY SettleType, InvalidationIds DEF Snapshot
<1>2. QED
  BY <1>1, InvalidationIds DEF ReleaseSnapshot, Snapshot, SetStatus, Statuses, Targets

LEMMA SplitType ==
  ASSUME NEW s \in Snapshot, NEW l \in LeaseIds, NEW account \in Accounts, NEW now \in Times
  PROVE  SplitSnapshot(s, l, account, now) \in Snapshot
<1> DEFINE old == s.leases[l]
           scoped == LeaseOf(old.task, old.adapter, {account}, now, old.pos + 1)
<1>1. old \in Lease
  BY InvalidationIds DEF Snapshot
<1>2. Settle(old, "AVAILABLE", SplitRelease, now) \in Lease
  BY <1>1, SettleType DEF Targets, AllReasons
<1>3. scoped \in Lease
  BY <1>1 DEF LeaseOf, Lease, Resources, Targets, AllReasons
<1>4. Settle(scoped, "INVALID", InvalidSession, now) \in Lease
  BY <1>3, SettleType DEF Targets, AllReasons
<1>5. QED
  BY <1>2, <1>4, InvalidationIds DEF SplitSnapshot, Snapshot, Statuses

-----------------------------------------------------------------------------
(* Resources the selection may return *)

\* Every set of candidates that is not empty has a lowest one.
LEMMA LowestIsCandidate ==
  ASSUME NEW s, NEW slot, NEW adapter, Candidates(s, slot, adapter) # {}
  PROVE  /\ Lowest(Candidates(s, slot, adapter)) \in Candidates(s, slot, adapter)
         /\ Candidates(s, slot, adapter) \subseteq Resources
<1> DEFINE C == Candidates(s, slot, adapter)
<1>1. C \subseteq Nat /\ C \subseteq Resources
  <2>1. ResourcesFor(slot) \in {Accounts, Proxies}
    BY DEF ResourcesFor
  <2>2. ResourcesFor(slot) \subseteq Nat /\ ResourcesFor(slot) \subseteq Resources
    BY <2>1, ResourceAssumption DEF Resources
  <2>3. QED
    BY <2>2 DEF Candidates
<1>2. \E r \in C : \A x \in C : r <= x
  <2> DEFINE Less == {ss \in Nat \X Nat : ss[1] < ss[2]}
  <2>1. IsWellFoundedOn(Less, Nat)
    BY NatLessThanWellFounded DEF OpToRel
  <2> HIDE DEF C, Less
  <2>2. PICK r \in C : \A x \in C : <<x, r>> \notin Less
    <3>1. C # {}
      BY DEF C
    <3>2. QED
      BY <2>1, <1>1, <3>1, WFMin
  <2>3. \A x \in C : r <= x
    <3> SUFFICES ASSUME NEW x \in C PROVE r <= x
      OBVIOUS
    <3>1. x \in Nat /\ r \in Nat /\ <<x, r>> \notin Less
      BY <2>2, <1>1
    <3>2. ~(x < r)
      BY <3>1 DEF Less
    <3>3. QED
      BY <3>1, <3>2
  <2>4. QED
    BY <2>3
<1>3. Lowest(C) \in C
  BY <1>2 DEF Lowest
<1>4. QED
  BY <1>1, <1>3

LEMMA SelectIsResources ==
  ASSUME NEW s, NEW slots, NEW adapter, Selectable(s, slots, adapter)
  PROVE  /\ Select(s, slots, adapter) \subseteq Resources
         /\ \A r \in Select(s, slots, adapter) : s.status[r] = "AVAILABLE"
<1> SUFFICES ASSUME NEW slot \in slots
             PROVE  /\ Lowest(Candidates(s, slot, adapter)) \in Resources
                    /\ s.status[Lowest(Candidates(s, slot, adapter))] = "AVAILABLE"
  BY DEF Select
<1> DEFINE C == Candidates(s, slot, adapter)
<1>1. C # {}
  BY DEF Selectable
<1>2. Lowest(C) \in C /\ C \subseteq Resources
  BY <1>1, LowestIsCandidate
<1>3. \A r \in C : s.status[r] = "AVAILABLE"
  BY DEF Candidates
<1>4. QED
  BY <1>2, <1>3

-----------------------------------------------------------------------------
(* The operations keep "IN_USE iff held by exactly one active lease". *)

LEMMA AcquireUnique ==
  ASSUME NEW s \in Snapshot, NEW l \in LeaseIds, NEW task \in Tasks, NEW adapter \in Adapters,
         NEW R \in SUBSET Resources, NEW now \in Times,
         UniqueHolder(s), ~Known(s, l), \A r \in R : s.status[r] = "AVAILABLE"
  PROVE  LET n == AcquireSnapshot(s, l, task, adapter, R, now)
         IN  /\ UniqueHolder(n)
             /\ \A r \in R : ActiveOn(n, r) = {l}
             /\ \A r \in Resources \ R : ActiveOn(n, r) = ActiveOn(s, r)
<1> DEFINE n == AcquireSnapshot(s, l, task, adapter, R, now)
<1>1. n.leases = [s.leases EXCEPT ![l] = LeaseOf(task, adapter, R, now, 2 * (s.rev + 1))]
  BY DEF AcquireSnapshot
<1>2. \A m \in AllLeaseIds \ {l} : n.leases[m] = s.leases[m]
  BY <1>1 DEF Snapshot
<1>3. n.leases[l].phase = "active" /\ n.leases[l].resources = R
  BY <1>1, InvalidationIds DEF Snapshot, LeaseOf
<1>4. \A r \in Resources : n.status[r] = IF r \in R THEN "IN_USE" ELSE s.status[r]
  BY DEF AcquireSnapshot, SetStatus
<1>5. ~Active(s, l)
  BY DEF Known, Active
<1> HIDE DEF n
<1>6. ASSUME NEW r \in R
      PROVE  ActiveOn(n, r) = {l}
  <2>1. ActiveOn(s, r) = {}
    BY <1>6 DEF UniqueHolder
  <2>2. QED
    BY <2>1, <1>2, <1>3, <1>6, InvalidationIds DEF ActiveOn, Active
<1>7. ASSUME NEW r \in Resources \ R
      PROVE  ActiveOn(n, r) = ActiveOn(s, r)
  BY <1>2, <1>3, <1>5, <1>7 DEF ActiveOn, Active
<1>8. UniqueHolder(n)
  BY <1>4, <1>6, <1>7 DEF UniqueHolder
<1>9. QED
  BY <1>6, <1>7, <1>8 DEF n

LEMMA ReleaseUnique ==
  ASSUME NEW s \in Snapshot, NEW l \in LeaseIds, NEW target \in Targets,
         NEW reason \in AllReasons, NEW now \in Times,
         UniqueHolder(s), Active(s, l)
  PROVE  LET n == ReleaseSnapshot(s, l, target, reason, now)
         IN  /\ UniqueHolder(n)
             /\ \A r \in s.leases[l].resources : ActiveOn(n, r) = {}
             /\ \A r \in Resources \ s.leases[l].resources : ActiveOn(n, r) = ActiveOn(s, r)
<1> DEFINE n == ReleaseSnapshot(s, l, target, reason, now)
           R == s.leases[l].resources
<1>1. n.leases = [s.leases EXCEPT ![l] = Settle(s.leases[l], target, reason, now)]
  BY DEF ReleaseSnapshot
<1>2. \A m \in AllLeaseIds \ {l} : n.leases[m] = s.leases[m]
  BY <1>1 DEF Snapshot
<1>3. n.leases[l].phase = "settled" /\ s.leases[l] \in Lease
  BY <1>1, InvalidationIds DEF Snapshot, Settle, Lease
<1>4. \A r \in Resources : n.status[r] = IF r \in R THEN target ELSE s.status[r]
  BY DEF ReleaseSnapshot, SetStatus
<1> HIDE DEF n
<1>5. ASSUME NEW r \in R
      PROVE  ActiveOn(n, r) = {}
  <2>1. l \in ActiveOn(s, r)
    BY <1>5, InvalidationIds DEF ActiveOn
  <2>2. r \in Resources
    BY <1>3, <1>5 DEF Lease
  <2>3. ActiveOn(s, r) = {l}
    BY <2>1, <2>2 DEF UniqueHolder
  <2>4. QED
    BY <2>3, <1>2, <1>3 DEF ActiveOn, Active
<1>6. ASSUME NEW r \in Resources \ R
      PROVE  ActiveOn(n, r) = ActiveOn(s, r)
  BY <1>2, <1>3, <1>6 DEF ActiveOn, Active
<1>7. UniqueHolder(n)
  BY <1>4, <1>5, <1>6 DEF UniqueHolder, Targets
<1>8. QED
  BY <1>5, <1>6, <1>7 DEF n

LEMMA SplitUnique ==
  ASSUME NEW s \in Snapshot, NEW l \in LeaseIds, NEW account \in Accounts, NEW now \in Times,
         UniqueHolder(s), Active(s, l), account \in s.leases[l].resources,
         ~Active(s, InvalidationOf(l))
  PROVE  LET n == SplitSnapshot(s, l, account, now)
         IN  /\ UniqueHolder(n)
             /\ \A r \in s.leases[l].resources : ActiveOn(n, r) = {}
             /\ \A r \in Resources \ s.leases[l].resources : ActiveOn(n, r) = ActiveOn(s, r)
<1> DEFINE n == SplitSnapshot(s, l, account, now)
           R == s.leases[l].resources
           k == InvalidationOf(l)
<1>1. k \in AllLeaseIds /\ l \in AllLeaseIds /\ k # l
  BY InvalidationIds
<1>2. \A m \in AllLeaseIds \ {l, k} : n.leases[m] = s.leases[m]
  BY DEF SplitSnapshot, Snapshot
<1>3. n.leases[l].phase = "settled" /\ n.leases[k].phase = "settled" /\ s.leases[l] \in Lease
  <2> DEFINE A == Settle(s.leases[l], "AVAILABLE", SplitRelease, now)
             B == Settle(LeaseOf(s.leases[l].task, s.leases[l].adapter, {account}, now,
                                 s.leases[l].pos + 1), "INVALID", InvalidSession, now)
  <2>1. n.leases = [s.leases EXCEPT ![l] = A, ![k] = B]
    BY DEF SplitSnapshot
  <2>2. s.leases[l] \in Lease
    BY <1>1 DEF Snapshot
  <2>3. A.phase = "settled" /\ B.phase = "settled"
    BY <2>2 DEF Settle, LeaseOf, Lease
  <2> HIDE DEF A, B, k, n
  <2>4. QED
    BY <2>1, <2>2, <2>3, <1>1 DEF Snapshot
<1>4. \A r \in Resources :
        (r \in R => n.status[r] # "IN_USE") /\ (r \notin R => n.status[r] = s.status[r])
  <2>1. n.status = [r \in Resources |-> CASE r = account -> "INVALID"
                                         [] r # account /\ r \in R -> "AVAILABLE"
                                         [] OTHER -> s.status[r]]
    BY DEF SplitSnapshot
  <2> HIDE DEF n
  <2> TAKE r \in Resources
  <2>2. CASE r = account
    BY <2>1, <2>2
  <2>3. CASE r # account /\ r \in R
    BY <2>1, <2>3
  <2>4. CASE r # account /\ r \notin R
    BY <2>1, <2>4
  <2>5. QED
    BY <2>2, <2>3, <2>4
<1> HIDE DEF n, k
<1>5. ASSUME NEW r \in R
      PROVE  ActiveOn(n, r) = {}
  <2>1. l \in ActiveOn(s, r)
    BY <1>1, <1>5 DEF ActiveOn
  <2>2. r \in Resources
    BY <1>3, <1>5 DEF Lease
  <2>3. ActiveOn(s, r) = {l}
    BY <2>1, <2>2 DEF UniqueHolder
  <2>4. QED
    BY <2>3, <1>2, <1>3 DEF ActiveOn, Active
<1>6. ASSUME NEW r \in Resources \ R
      PROVE  ActiveOn(n, r) = ActiveOn(s, r)
  <2>1. ~Active(s, k)
    BY DEF k
  <2>2. QED
    BY <2>1, <1>2, <1>3, <1>6 DEF ActiveOn, Active
<1>7. UniqueHolder(n)
  <2> SUFFICES ASSUME NEW r \in Resources
               PROVE  /\ n.status[r] = "IN_USE" <=> ActiveOn(n, r) # {}
                      /\ \A a, b \in ActiveOn(n, r) : a = b
    BY DEF UniqueHolder
  <2>1. CASE r \in R
    BY <2>1, <1>4, <1>5
  <2>2. CASE r \notin R
    BY <2>2, <1>4, <1>6 DEF UniqueHolder
  <2>3. QED
    BY <2>1, <2>2
<1>8. QED
  BY <1>5, <1>6, <1>7 DEF n

-----------------------------------------------------------------------------
(* The inductive invariant *)

\* The lease a split adds is settled from the start, behind a settled lease.
Scoped(s) ==
  \A l \in LeaseIds : /\ ~Active(s, InvalidationOf(l))
                      /\ Known(s, InvalidationOf(l)) => Settled(s, l)

\* Snapshot n is what operation o makes of snapshot s, its guards included.
Proposed(s, n, o) ==
  \/ /\ o.kind = "acquire"
     /\ ~Known(s, o.lease)
     /\ \A r \in o.selected : s.status[r] = "AVAILABLE"
     /\ \E now \in Times : n = AcquireSnapshot(s, o.lease, o.task, o.adapter, o.selected, now)
  \/ /\ o.kind = "release"
     /\ Active(s, o.lease)
     /\ \E now \in Times : n = ReleaseSnapshot(s, o.lease, o.target, o.reason, now)
  \/ /\ o.kind = "invalidate"
     /\ Active(s, o.lease)
     /\ o.account \in s.leases[o.lease].resources
     /\ \E now \in Times : n = SplitSnapshot(s, o.lease, o.account, now)

\* A lease id drawn by an acquire is in no snapshot and nobody else's.
FreshIds ==
  \A p \in Callers : op[p].kind = "acquire" =>
    /\ ~Known(durable, op[p].lease)
    /\ \A q \in Callers \ {p} : op[q].kind = "acquire" => op[q].lease # op[p].lease

\* A copy whose revision still fits was built from the very snapshot that is
\* durable now: this is what the comparison of revisions buys.
CopiesFit ==
  \A p \in Callers : pc[p] \in {"commit", "traced"} =>
    /\ op[p].kind # "none"
    /\ next[p].rev <= durable.rev + 1
    /\ next[p].rev = durable.rev + 1 => Proposed(durable, next[p], op[p])

LockHeld ==
  \A p \in Callers : pc[p] = "traced" => lock = p /\ next[p].rev = durable.rev + 1

IInv ==
  /\ TypeOK
  /\ UniqueHolder(durable)
  /\ Scoped(durable)
  /\ FreshIds
  /\ CopiesFit
  /\ LockHeld

-----------------------------------------------------------------------------
(* What a proposed snapshot keeps of the one it was built from *)

Keeps(s, n, o) ==
  /\ n \in Snapshot
  /\ n.rev = s.rev + 1
  /\ UniqueHolder(n)
  /\ Scoped(n)
  /\ \A l \in AllLeaseIds : LeaseKept(s.leases[l], n.leases[l])
  /\ \A r \in Resources : s.status[r] = "INVALID" => n.status[r] = "INVALID"
  /\ \A l \in LeaseIds : Known(n, l) => Known(s, l) \/ (o.kind = "acquire" /\ l = o.lease)

LEMMA OpKinds ==
  ASSUME NEW o \in Op
  PROVE  /\ o.kind = "acquire" => o \in AcquireOp
         /\ o.kind = "release" => o \in ReleaseOp
         /\ o.kind = "invalidate" => o \in InvalidateOp
BY DEF Op, AcquireOp, ReleaseOp, InvalidateOp, NoOp

LEMMA AcquireKeeps ==
  ASSUME NEW s \in Snapshot, NEW o \in AcquireOp, NEW now \in Times,
         UniqueHolder(s), Scoped(s), ~Known(s, o.lease),
         \A r \in o.selected : s.status[r] = "AVAILABLE"
  PROVE  Keeps(s, AcquireSnapshot(s, o.lease, o.task, o.adapter, o.selected, now), o)
<1> DEFINE l == o.lease
           n == AcquireSnapshot(s, l, o.task, o.adapter, o.selected, now)
<1>1. l \in LeaseIds /\ o.task \in Tasks /\ o.adapter \in Adapters
      /\ o.selected \in SUBSET Resources /\ o.kind = "acquire"
  BY DEF AcquireOp
<1>2. n \in Snapshot
  BY <1>1, AcquireType
<1>3. UniqueHolder(n)
  BY <1>1, AcquireUnique
<1>4. n.rev = s.rev + 1
  BY DEF AcquireSnapshot
<1>5. \A m \in AllLeaseIds \ {l} : n.leases[m] = s.leases[m]
  BY DEF AcquireSnapshot, Snapshot
<1>6. n.leases[l].phase = "active"
  BY <1>1, InvalidationIds DEF AcquireSnapshot, Snapshot, LeaseOf
<1>7. \A r \in Resources : n.status[r] = IF r \in o.selected THEN "IN_USE" ELSE s.status[r]
  BY DEF AcquireSnapshot, SetStatus
<1> HIDE DEF n
<1>8. Scoped(n)
  BY <1>1, <1>5, <1>6, InvalidationIds DEF Scoped, Active, Known, Settled
<1>9. \A m \in AllLeaseIds : LeaseKept(s.leases[m], n.leases[m])
  BY <1>5 DEF LeaseKept, Known
<1>10. \A r \in Resources : s.status[r] = "INVALID" => n.status[r] = "INVALID"
  BY <1>7
<1>11. \A m \in LeaseIds : Known(n, m) => Known(s, m) \/ m = l
  BY <1>5, InvalidationIds DEF Known
<1>12. Keeps(s, n, o)
  BY <1>1, <1>2, <1>3, <1>4, <1>8, <1>9, <1>10, <1>11 DEF Keeps
<1>13. QED
  BY <1>12 DEF n

LEMMA ReleaseKeeps ==
  ASSUME NEW s \in Snapshot, NEW o \in ReleaseOp, NEW now \in Times,
         UniqueHolder(s), Scoped(s), Active(s, o.lease)
  PROVE  Keeps(s, ReleaseSnapshot(s, o.lease, o.target, o.reason, now), o)
<1> DEFINE l == o.lease
           n == ReleaseSnapshot(s, l, o.target, o.reason, now)
<1>1. l \in LeaseIds /\ o.target \in Targets /\ o.reason \in AllReasons
  BY DEF ReleaseOp
<1>2. n \in Snapshot
  BY <1>1, ReleaseType
<1>3. UniqueHolder(n)
  BY <1>1, ReleaseUnique
<1>4. n.rev = s.rev + 1
  BY DEF ReleaseSnapshot
<1>5. \A m \in AllLeaseIds \ {l} : n.leases[m] = s.leases[m]
  BY DEF ReleaseSnapshot, Snapshot
<1>6. s.leases[l] \in Lease
  BY <1>1, InvalidationIds DEF Snapshot
<1>7. n.leases[l] = Settle(s.leases[l], o.target, o.reason, now)
  BY <1>1, InvalidationIds DEF ReleaseSnapshot, Snapshot
<1>8. /\ n.leases[l].phase = "settled"
      /\ n.leases[l].task = s.leases[l].task
      /\ n.leases[l].resources = s.leases[l].resources
      /\ n.leases[l].acquiredAt = s.leases[l].acquiredAt
  BY <1>6, <1>7 DEF Settle, Lease
<1>9. \A r \in Resources : n.status[r] = IF r \in s.leases[l].resources THEN o.target ELSE s.status[r]
  BY DEF ReleaseSnapshot, SetStatus
<1>10. \A r \in s.leases[l].resources : s.status[r] = "IN_USE"
  BY <1>1, <1>6, InvalidationIds DEF UniqueHolder, ActiveOn, Lease
<1> HIDE DEF n
<1>11. Scoped(n)
  BY <1>1, <1>5, <1>8, InvalidationIds DEF Scoped, Active, Known, Settled
<1>12. \A m \in AllLeaseIds : LeaseKept(s.leases[m], n.leases[m])
  BY <1>5, <1>8 DEF LeaseKept, Active
<1>13. \A r \in Resources : s.status[r] = "INVALID" => n.status[r] = "INVALID"
  BY <1>9, <1>10
<1>14. \A m \in LeaseIds : Known(n, m) => Known(s, m)
  BY <1>5, InvalidationIds DEF Known, Active
<1>15. Keeps(s, n, o)
  BY <1>2, <1>3, <1>4, <1>11, <1>12, <1>13, <1>14 DEF Keeps
<1>16. QED
  BY <1>15 DEF n

LEMMA SplitKeeps ==
  ASSUME NEW s \in Snapshot, NEW o \in InvalidateOp, NEW now \in Times,
         UniqueHolder(s), Scoped(s), Active(s, o.lease),
         o.account \in s.leases[o.lease].resources
  PROVE  Keeps(s, SplitSnapshot(s, o.lease, o.account, now), o)
<1> DEFINE l == o.lease
           k == InvalidationOf(l)
           n == SplitSnapshot(s, l, o.account, now)
           A == Settle(s.leases[l], "AVAILABLE", SplitRelease, now)
           B == Settle(LeaseOf(s.leases[l].task, s.leases[l].adapter, {o.account}, now,
                               s.leases[l].pos + 1), "INVALID", InvalidSession, now)
<1>1. l \in LeaseIds /\ o.account \in Accounts
  BY DEF InvalidateOp
<1>2. k \in AllLeaseIds /\ l \in AllLeaseIds /\ k # l /\ k \notin LeaseIds
  BY <1>1, InvalidationIds
<1>3. s.leases[l] \in Lease
  BY <1>2 DEF Snapshot
<1>4. ~Known(s, k)
  BY <1>1 DEF Scoped, Settled, Active, Known
<1>5. n \in Snapshot
  BY <1>1, SplitType
<1>6. UniqueHolder(n)
  BY <1>1, SplitUnique DEF Scoped
<1>7. n.rev = s.rev + 1
  BY DEF SplitSnapshot
<1>8. n.leases = [s.leases EXCEPT ![l] = A, ![k] = B]
  BY DEF SplitSnapshot
<1>9. /\ A.phase = "settled" /\ B.phase = "settled"
      /\ A.task = s.leases[l].task /\ A.resources = s.leases[l].resources
      /\ A.acquiredAt = s.leases[l].acquiredAt
  BY <1>3 DEF Settle, LeaseOf, Lease
<1>10. \A r \in Resources : s.status[r] = "INVALID" => n.status[r] = "INVALID"
  <2>1. \A r \in s.leases[l].resources : s.status[r] = "IN_USE"
    BY <1>2, <1>3 DEF UniqueHolder, ActiveOn, Lease
  <2>2. n.status = [r \in Resources |->
                      CASE r = o.account -> "INVALID"
                        [] r # o.account /\ r \in s.leases[l].resources -> "AVAILABLE"
                        [] OTHER -> s.status[r]]
    BY DEF SplitSnapshot
  <2> HIDE DEF n
  <2> SUFFICES ASSUME NEW r \in Resources, s.status[r] = "INVALID"
               PROVE  n.status[r] = "INVALID"
    OBVIOUS
  <2>3. CASE r = o.account
    BY <2>2, <2>3
  <2>4. CASE r # o.account /\ r \notin s.leases[l].resources
    BY <2>2, <2>4
  <2>5. QED
    BY <2>1, <2>3, <2>4
<1> HIDE DEF n, k, A, B
<1>11. /\ \A m \in AllLeaseIds \ {l, k} : n.leases[m] = s.leases[m]
       /\ n.leases[l] = A /\ n.leases[k] = B
  BY <1>2, <1>8 DEF Snapshot
<1>12. Scoped(n)
  <2> SUFFICES ASSUME NEW m \in LeaseIds
               PROVE  /\ ~Active(n, InvalidationOf(m))
                      /\ Known(n, InvalidationOf(m)) => Settled(n, m)
    BY DEF Scoped
  <2>1. CASE m = l
    BY <2>1, <1>9, <1>11 DEF k, Active, Settled
  <2>2. CASE m # l
    <3>1. InvalidationOf(m) # k /\ InvalidationOf(m) # l /\ m # k
      BY <1>1, <1>2, <2>2, BoundAssumption, InvalidationIds DEF InvalidationOf, LeaseIds, k
    <3>2. n.leases[m] = s.leases[m] /\ n.leases[InvalidationOf(m)] = s.leases[InvalidationOf(m)]
      BY <3>1, <2>2, <1>11, InvalidationIds
    <3>3. QED
      BY <3>2 DEF Scoped, Active, Known, Settled
  <2>3. QED
    BY <2>1, <2>2
<1>13. \A m \in AllLeaseIds : LeaseKept(s.leases[m], n.leases[m])
  BY <1>4, <1>9, <1>11 DEF LeaseKept, Active, Known
<1>14. \A m \in LeaseIds : Known(n, m) => Known(s, m)
  BY <1>2, <1>11, InvalidationIds DEF Known, Active
<1>15. Keeps(s, n, o)
  BY <1>5, <1>6, <1>7, <1>10, <1>12, <1>13, <1>14 DEF Keeps
<1>16. QED
  BY <1>15 DEF n

LEMMA ProposedKeeps ==
  ASSUME NEW s \in Snapshot, NEW o \in Op, NEW n, UniqueHolder(s), Scoped(s), Proposed(s, n, o)
  PROVE  Keeps(s, n, o)
BY OpKinds, AcquireKeeps, ReleaseKeeps, SplitKeeps DEF Proposed

-----------------------------------------------------------------------------
(* Steps that leave the snapshot file alone: a caller goes on, and nobody   *)
(* else notices.                                                            *)

FilesOK ==
  /\ durable \in Snapshot
  /\ events \subseteq Event /\ undo \subseteq Event
  /\ lock \in Callers \cup {NoCaller}
  /\ faults \in 0 .. MaxFaults

LocksKept(p) == \A q \in Callers \ {p} : lock = q => lock' = q

LEMMA OneCallerMoves ==
  ASSUME IInv, NEW p \in Callers, TypeOK', durable' = durable, LocksKept(p),
         \A q \in Callers \ {p} : pc'[q] = pc[q] /\ op'[q] = op[q] /\ next'[q] = next[q],
         op'[p].kind = "acquire" =>
           \/ op[p].kind = "acquire" /\ op'[p].lease = op[p].lease
           \/ op'[p].lease \in Unused,
         pc'[p] \in {"commit", "traced"} =>
           /\ op'[p].kind # "none"
           /\ next'[p].rev <= durable.rev + 1
           /\ next'[p].rev = durable.rev + 1 => Proposed(durable, next'[p], op'[p]),
         pc'[p] = "traced" => lock' = p /\ next'[p].rev = durable.rev + 1
  PROVE  IInv'
<1>1. UniqueHolder(durable)' /\ Scoped(durable)'
  BY DEF IInv
<1>2. FreshIds'
  BY DEF IInv, FreshIds, Unused
<1>3. CopiesFit'
  BY DEF IInv, CopiesFit
<1>4. LockHeld'
  BY DEF IInv, LockHeld, LocksKept
<1>5. QED
  BY <1>1, <1>2, <1>3, <1>4 DEF IInv

LEMMA NoneTyped ==
  /\ NoOp \in Op /\ EmptySnapshot \in Snapshot /\ {} \in SUBSET Event
  /\ NoOp.kind = "none"
BY EmptyIsSnapshot DEF Op, NoOp

LEMMA ReturnKeepsIInv ==
  ASSUME IInv, NEW p \in Callers, NEW v \in Results, Return(p, v),
         durable' = durable, FilesOK', LocksKept(p)
  PROVE  IInv'
<1>1. TypeOK'
  BY NoneTyped DEF IInv, TypeOK, Return, FilesOK
<1>2. pc'[p] = "idle" /\ op'[p] = NoOp
  BY DEF IInv, TypeOK, Return
<1>3. \A q \in Callers \ {p} : pc'[q] = pc[q] /\ op'[q] = op[q] /\ next'[q] = next[q]
  BY DEF IInv, TypeOK, Return
<1>4. QED
  BY <1>1, <1>2, <1>3, NoneTyped, OneCallerMoves

LEMMA ReloadKeepsIInv ==
  ASSUME IInv, NEW p \in Callers, NEW o \in Op, Reload(p, o),
         durable' = durable, FilesOK', LocksKept(p),
         o.kind = "acquire" => \/ op[p].kind = "acquire" /\ o.lease = op[p].lease
                               \/ o.lease \in Unused
  PROVE  IInv'
<1>1. TypeOK'
  BY NoneTyped DEF IInv, TypeOK, Reload, FilesOK, Results
<1>2. pc'[p] = "load" /\ op'[p] = o
  BY DEF IInv, TypeOK, Reload
<1>3. \A q \in Callers \ {p} : pc'[q] = pc[q] /\ op'[q] = op[q] /\ next'[q] = next[q]
  BY DEF IInv, TypeOK, Reload
<1>4. QED
  BY <1>1, <1>2, <1>3, OneCallerMoves

LEMMA SubmitKeepsIInv ==
  ASSUME IInv, NEW p \in Callers, NEW o \in Op, NEW s \in Snapshot, NEW E \in SUBSET Event,
         Submit(p, o, s, E), Proposed(durable, s, o),
         durable' = durable, FilesOK', LocksKept(p),
         o.kind = "acquire" => op[p].kind = "acquire" /\ o.lease = op[p].lease
  PROVE  IInv'
<1>1. TypeOK'
  BY DEF IInv, TypeOK, Submit, FilesOK, Results
<1>2. pc'[p] = "commit" /\ op'[p] = o /\ next'[p] = s
  BY DEF IInv, TypeOK, Submit
<1>3. \A q \in Callers \ {p} : pc'[q] = pc[q] /\ op'[q] = op[q] /\ next'[q] = next[q]
  BY DEF IInv, TypeOK, Submit
<1>4. s.rev = durable.rev + 1 /\ o.kind # "none"
  BY ProposedKeeps DEF IInv, TypeOK, Keeps, Proposed
<1>5. durable.rev \in Nat
  BY DEF IInv, TypeOK, Snapshot
<1>6. QED
  BY <1>1, <1>2, <1>3, <1>4, <1>5, OneCallerMoves

LEMMA RaiseKeepsIInv ==
  ASSUME IInv, NEW p \in Callers, NEW error \in {"revision", "other"}, CommitRaises(p, error),
         durable' = durable, FilesOK', LocksKept(p)
  PROVE  IInv'
<1>1. op[p] \in Op
  BY DEF IInv, TypeOK
<1>2. CASE op[p].kind = "acquire" /\ Reload(p, op[p])
  BY <1>1, <1>2, ReloadKeepsIInv
<1>3. CASE op[p].kind = "release" /\ Reload(p, [op[p] EXCEPT !.error = error])
  <2>1. [op[p] EXCEPT !.error = error] \in ReleaseOp
    BY <1>1, <1>3, OpKinds DEF ReleaseOp
  <2>2. [op[p] EXCEPT !.error = error].kind = "release"
    BY <2>1 DEF ReleaseOp
  <2>3. QED
    BY <1>3, <2>1, <2>2, ReloadKeepsIInv DEF Op
<1>4. CASE Return(p, "resource_state_conflict")
  BY <1>4, ReturnKeepsIInv DEF Results
<1>5. QED
  BY <1>2, <1>3, <1>4 DEF CommitRaises

-----------------------------------------------------------------------------
(* The events of a lease are events. *)

LEMMA EventsTyped ==
  ASSUME NEW l \in AllLeaseIds, NEW lease \in Lease
  PROVE  AcquiredEvents(l, lease) \subseteq Event /\ CloseoutEvents(l, lease) \subseteq Event
BY DEF AcquiredEvents, CloseoutEvents, Event, Lease

LEMMA TraceTyped ==
  ASSUME NEW s \in Snapshot, NEW l \in AllLeaseIds
  PROVE  TraceOf(s, l) \subseteq Event
<1>1. s.leases[l] \in Lease
  BY DEF Snapshot
<1>2. AcquiredEvents(l, s.leases[l]) \subseteq Event /\ CloseoutEvents(l, s.leases[l]) \subseteq Event
  BY <1>1, EventsTyped
<1>3. CASE Active(s, l)
  BY <1>2, <1>3 DEF TraceOf
<1>4. CASE Settled(s, l) /\ ~Active(s, l)
  BY <1>2, <1>4 DEF TraceOf
<1>5. CASE ~Settled(s, l) /\ ~Active(s, l)
  BY <1>5 DEF TraceOf
<1>6. QED
  BY <1>3, <1>4, <1>5

-----------------------------------------------------------------------------
(* Every action keeps the invariant. *)

LEMMA FilesUntouched ==
  ASSUME IInv, NEW p \in Callers, UNCHANGED <<files, faults>>
  PROVE  durable' = durable /\ FilesOK' /\ LocksKept(p)
BY DEF IInv, TypeOK, files, FilesOK, LocksKept

LEMMA FaultCounted ==
  ASSUME IInv, NEW kind, Fault(kind)
  PROVE  faults' \in 0 .. MaxFaults
BY BoundAssumption DEF IInv, TypeOK, Fault

LEMMA FilesUntouchedByFault ==
  ASSUME IInv, NEW p \in Callers, NEW kind, Fault(kind), UNCHANGED files
  PROVE  durable' = durable /\ FilesOK' /\ LocksKept(p)
BY FaultCounted DEF IInv, TypeOK, files, FilesOK, LocksKept

LEMMA CallKeepsIInv ==
  ASSUME IInv, NEW p \in Callers, Call(p)
  PROVE  IInv'
<1>1. durable' = durable /\ FilesOK' /\ LocksKept(p)
  BY FilesUntouched DEF Call
<1>2. CASE \E t \in Tasks, a \in Adapters, slots \in SlotRequests, l \in Unused :
             Reload(p, [kind |-> "acquire", task |-> t, adapter |-> a, slots |-> slots,
                        lease |-> l, selected |-> {}, retry |-> FALSE])
  <2>1. PICK t \in Tasks, a \in Adapters, slots \in SlotRequests, l \in Unused :
             Reload(p, [kind |-> "acquire", task |-> t, adapter |-> a, slots |-> slots,
                        lease |-> l, selected |-> {}, retry |-> FALSE])
    BY <1>2
  <2> DEFINE o == [kind |-> "acquire", task |-> t, adapter |-> a, slots |-> slots,
                   lease |-> l, selected |-> {}, retry |-> FALSE]
  <2>2. o \in Op /\ o.lease \in Unused
    BY DEF Op, AcquireOp, Unused
  <2> HIDE DEF o
  <2>3. Reload(p, o)
    BY <2>1 DEF o
  <2>4. QED
    BY <1>1, <2>2, <2>3, ReloadKeepsIInv
<1>3. CASE \E t \in Tasks, l \in LeaseIds, target \in Targets, why \in Reasons :
             Reload(p, [kind |-> "release", task |-> t, lease |-> l, target |-> target,
                        reason |-> why, error |-> "none"])
  <2>1. PICK t \in Tasks, l \in LeaseIds, target \in Targets, why \in Reasons :
             Reload(p, [kind |-> "release", task |-> t, lease |-> l, target |-> target,
                        reason |-> why, error |-> "none"])
    BY <1>3
  <2> DEFINE o == [kind |-> "release", task |-> t, lease |-> l, target |-> target,
                   reason |-> why, error |-> "none"]
  <2>2. o \in Op /\ o.kind = "release"
    BY DEF Op, ReleaseOp, AllReasons
  <2> HIDE DEF o
  <2>3. Reload(p, o)
    BY <2>1 DEF o
  <2>4. QED
    BY <1>1, <2>2, <2>3, ReloadKeepsIInv
<1>4. CASE \E t \in Tasks, l \in LeaseIds, r \in Accounts :
             Reload(p, [kind |-> "invalidate", task |-> t, lease |-> l, account |-> r])
  <2>1. PICK t \in Tasks, l \in LeaseIds, r \in Accounts :
             Reload(p, [kind |-> "invalidate", task |-> t, lease |-> l, account |-> r])
    BY <1>4
  <2> DEFINE o == [kind |-> "invalidate", task |-> t, lease |-> l, account |-> r]
  <2>2. o \in Op /\ o.kind = "invalidate"
    BY DEF Op, InvalidateOp
  <2> HIDE DEF o
  <2>3. Reload(p, o)
    BY <2>1 DEF o
  <2>4. QED
    BY <1>1, <2>2, <2>3, ReloadKeepsIInv
<1>5. QED
  BY <1>2, <1>3, <1>4 DEF Call

LEMMA AcquireKeepsIInv ==
  ASSUME IInv, NEW p \in Callers, AcquireRefused(p) \/ AcquireSubmit(p)
  PROVE  IInv'
<1> DEFINE o == op[p]
           R == Select(durable, o.slots, o.adapter)
<1>1. durable' = durable /\ FilesOK' /\ LocksKept(p)
  BY FilesUntouched DEF AcquireRefused, AcquireSubmit
<1>2. o \in AcquireOp /\ durable \in Snapshot
  BY OpKinds DEF AcquireRefused, AcquireSubmit, Acquiring, IInv, TypeOK
<1>3. CASE AcquireRefused(p)
  BY <1>1, <1>3, ReturnKeepsIInv DEF AcquireRefused, Results
<1>4. CASE AcquireSubmit(p)
  <2>1. Selectable(durable, o.slots, o.adapter)
    BY <1>4 DEF AcquireSubmit
  <2>2. R \in SUBSET Resources /\ \A r \in R : durable.status[r] = "AVAILABLE"
    BY <2>1, SelectIsResources
  <2>3. PICK now \in Times :
          \/ Submit(p, [o EXCEPT !.selected = R, !.retry = TRUE],
                    AcquireSnapshot(durable, o.lease, o.task, o.adapter, R, now),
                    AcquiredEvents(o.lease,
                      AcquireSnapshot(durable, o.lease, o.task, o.adapter, R, now).leases[o.lease]))
          \/ Return(p, "resource_state_conflict")
    BY <1>4 DEF AcquireSubmit
  <2> DEFINE s == AcquireSnapshot(durable, o.lease, o.task, o.adapter, R, now)
             u == [o EXCEPT !.selected = R, !.retry = TRUE]
             E == AcquiredEvents(o.lease, s.leases[o.lease])
  <2> HIDE DEF R
  <2>4. /\ u \in AcquireOp /\ u.kind = "acquire" /\ o.kind = "acquire"
        /\ u.lease = o.lease /\ u.task = o.task /\ u.adapter = o.adapter
        /\ u.selected = R
    BY <1>2, <2>2 DEF AcquireOp
  <2>5. o.lease \in LeaseIds /\ o.task \in Tasks /\ o.adapter \in Adapters
    BY <1>2 DEF AcquireOp
  <2>6. s \in Snapshot
    BY <1>2, <2>2, <2>5, AcquireType
  <2>7. E \in SUBSET Event
    BY <2>5, <2>6, InvalidationIds, EventsTyped DEF Snapshot
  <2>8. ~Known(durable, u.lease)
    BY <2>4 DEF IInv, FreshIds
  <2>9. Proposed(durable, s, u)
    BY <2>2, <2>4, <2>8 DEF Proposed
  <2>10. Submit(p, u, s, E) \/ Return(p, "resource_state_conflict")
    BY <2>3
  <2> HIDE DEF u, s, E
  <2>11. CASE Submit(p, u, s, E)
    BY <1>1, <2>4, <2>6, <2>7, <2>9, <2>11, SubmitKeepsIInv DEF Op
  <2>12. CASE Return(p, "resource_state_conflict")
    BY <1>1, <2>12, ReturnKeepsIInv DEF Results
  <2>13. QED
    BY <2>10, <2>11, <2>12
<1>5. QED
  BY <1>3, <1>4

LEMMA ReleaseKeepsIInv ==
  ASSUME IInv, NEW p \in Callers, ReleaseRefused(p) \/ ReleaseRepeated(p) \/ ReleaseSubmit(p)
  PROVE  IInv'
<1> DEFINE o == op[p]
           lease == durable.leases[o.lease]
<1>1. o \in ReleaseOp /\ durable \in Snapshot
  BY OpKinds DEF ReleaseRefused, ReleaseRepeated, ReleaseSubmit, Releasing, IInv, TypeOK
<1>2. CASE ReleaseRefused(p)
  <2>1. durable' = durable /\ FilesOK' /\ LocksKept(p)
    BY <1>2, FilesUntouched DEF ReleaseRefused
  <2>2. QED
    BY <1>2, <2>1, ReturnKeepsIInv DEF ReleaseRefused, Results
<1>3. CASE ReleaseRepeated(p)
  <2>1. UNCHANGED <<files, faults>> \/ (Fault("trace_load") /\ UNCHANGED files)
    BY <1>3 DEF ReleaseRepeated
  <2>2. durable' = durable /\ FilesOK' /\ LocksKept(p)
    BY <2>1, FilesUntouched, FilesUntouchedByFault
  <2>3. \E v \in Results : Return(p, v)
    BY <1>3 DEF ReleaseRepeated, Results
  <2>4. QED
    BY <2>2, <2>3, ReturnKeepsIInv
<1>4. CASE ReleaseSubmit(p)
  <2>1. durable' = durable /\ FilesOK' /\ LocksKept(p)
    BY <1>4, FilesUntouched DEF ReleaseSubmit
  <2>2. PICK now \in Times :
          \/ Submit(p, o, ReleaseSnapshot(durable, o.lease, o.target, o.reason, now),
                    CloseoutEvents(o.lease,
                      ReleaseSnapshot(durable, o.lease, o.target, o.reason, now).leases[o.lease]))
          \/ Return(p, "resource_state_conflict")
    BY <1>4 DEF ReleaseSubmit
  <2> DEFINE s == ReleaseSnapshot(durable, o.lease, o.target, o.reason, now)
             E == CloseoutEvents(o.lease, s.leases[o.lease])
  <2>3. /\ o.kind = "release" /\ o.lease \in LeaseIds
        /\ o.target \in Targets /\ o.reason \in AllReasons
    BY <1>1 DEF ReleaseOp
  <2>4. s \in Snapshot
    BY <1>1, <2>3, ReleaseType
  <2>5. E \in SUBSET Event
    BY <2>3, <2>4, InvalidationIds, EventsTyped DEF Snapshot
  <2>6. Proposed(durable, s, o)
    BY <1>4, <2>3 DEF Proposed, ReleaseSubmit
  <2>7. Submit(p, o, s, E) \/ Return(p, "resource_state_conflict")
    BY <2>2
  <2> HIDE DEF s, E
  <2>8. CASE Submit(p, o, s, E)
    BY <1>1, <2>1, <2>3, <2>4, <2>5, <2>6, <2>8, SubmitKeepsIInv DEF Op
  <2>9. CASE Return(p, "resource_state_conflict")
    BY <2>1, <2>9, ReturnKeepsIInv DEF Results
  <2>10. QED
    BY <2>7, <2>8, <2>9
<1>5. QED
  BY <1>2, <1>3, <1>4

LEMMA InvalidateKeepsIInv ==
  ASSUME IInv, NEW p \in Callers,
         InvalidateRefused(p) \/ InvalidateRelease(p) \/ InvalidateSplit(p)
  PROVE  IInv'
<1> DEFINE o == op[p]
<1>1. o \in InvalidateOp /\ durable \in Snapshot
  BY OpKinds DEF InvalidateRefused, InvalidateRelease, InvalidateSplit, Invalidating, IInv, TypeOK
<1>2. durable' = durable /\ FilesOK' /\ LocksKept(p)
  BY FilesUntouched DEF InvalidateRefused, InvalidateRelease, InvalidateSplit
<1>3. /\ o.kind = "invalidate" /\ o.task \in Tasks
      /\ o.lease \in LeaseIds /\ o.account \in Accounts
  BY <1>1 DEF InvalidateOp
<1>4. CASE InvalidateRefused(p)
  BY <1>2, <1>4, ReturnKeepsIInv DEF InvalidateRefused, Results
<1>5. CASE InvalidateRelease(p)
  <2> DEFINE u == [kind |-> "release", task |-> o.task, lease |-> o.lease,
                   target |-> "INVALID", reason |-> InvalidSession, error |-> "none"]
  <2>1. u \in Op /\ u.kind = "release"
    BY <1>3 DEF Op, ReleaseOp, Targets, AllReasons
  <2>2. Reload(p, u)
    BY <1>5 DEF InvalidateRelease
  <2> HIDE DEF u
  <2>3. QED
    BY <1>2, <2>1, <2>2, ReloadKeepsIInv
<1>6. CASE InvalidateSplit(p)
  <2>1. PICK now \in Times :
          \/ Submit(p, o, SplitSnapshot(durable, o.lease, o.account, now),
                    CloseoutEvents(o.lease,
                      SplitSnapshot(durable, o.lease, o.account, now).leases[o.lease])
                    \cup TraceOf(SplitSnapshot(durable, o.lease, o.account, now),
                                 InvalidationOf(o.lease)))
          \/ Return(p, "resource_state_conflict")
    BY <1>6 DEF InvalidateSplit
  <2> DEFINE s == SplitSnapshot(durable, o.lease, o.account, now)
             E == CloseoutEvents(o.lease, s.leases[o.lease]) \cup TraceOf(s, InvalidationOf(o.lease))
  <2>2. s \in Snapshot
    BY <1>1, <1>3, SplitType
  <2>3. E \in SUBSET Event
    <3> HIDE DEF s
    <3>1. o.lease \in AllLeaseIds /\ InvalidationOf(o.lease) \in AllLeaseIds
      BY <1>3, InvalidationIds
    <3>2. s.leases[o.lease] \in Lease
      BY <2>2, <3>1 DEF Snapshot
    <3>3. CloseoutEvents(o.lease, s.leases[o.lease]) \subseteq Event
      BY <3>1, <3>2, EventsTyped
    <3>4. TraceOf(s, InvalidationOf(o.lease)) \subseteq Event
      BY <2>2, <3>1, TraceTyped
    <3>5. QED
      BY <3>3, <3>4
  <2>4. Proposed(durable, s, o)
    BY <1>3, <1>6 DEF Proposed, InvalidateSplit, EvidenceFits
  <2>5. Submit(p, o, s, E) \/ Return(p, "resource_state_conflict")
    BY <2>1
  <2> HIDE DEF s, E
  <2>6. CASE Submit(p, o, s, E)
    BY <1>1, <1>2, <1>3, <2>2, <2>3, <2>4, <2>6, SubmitKeepsIInv DEF Op
  <2>7. CASE Return(p, "resource_state_conflict")
    BY <1>2, <2>7, ReturnKeepsIInv DEF Results
  <2>8. QED
    BY <2>5, <2>6, <2>7
<1>7. QED
  BY <1>4, <1>5, <1>6

\* The revision check and the two locks, seen from a commit that fails.
LEMMA FailedCommitKeepsIInv ==
  ASSUME IInv, NEW p \in Callers,
         \/ LoadFails(p) \/ CommitStale(p) \/ CommitTraceConflict(p) \/ CommitTraceFails(p)
         \/ CommitRollback(p) \/ CommitRollbackFails(p) \/ Crash(p)
  PROVE  IInv'
<1>1. CASE LoadFails(p)
  <2>1. durable' = durable /\ FilesOK' /\ LocksKept(p)
    BY <1>1, FilesUntouchedByFault DEF LoadFails
  <2>2. QED
    BY <1>1, <2>1, ReturnKeepsIInv DEF LoadFails, Results
<1>2. CASE CommitStale(p) \/ CommitTraceConflict(p)
  <2>1. durable' = durable /\ FilesOK' /\ LocksKept(p)
    BY <1>2, FilesUntouched DEF CommitStale, CommitTraceConflict
  <2>2. QED
    BY <1>2, <2>1, RaiseKeepsIInv DEF CommitStale, CommitTraceConflict
<1>3. CASE CommitTraceFails(p)
  <2>1. durable' = durable /\ FilesOK' /\ LocksKept(p)
    BY <1>3, FilesUntouchedByFault DEF CommitTraceFails
  <2>2. QED
    BY <1>3, <2>1, RaiseKeepsIInv DEF CommitTraceFails
<1>4. CASE CommitRollback(p) \/ CommitRollbackFails(p)
  <2>1. faults' \in 0 .. MaxFaults
    BY <1>4, FaultCounted DEF CommitRollback, CommitRollbackFails
  <2>2. lock = p
    BY <1>4 DEF IInv, LockHeld, CommitRollback, CommitRollbackFails
  <2>3. durable' = durable /\ FilesOK' /\ LocksKept(p)
    BY <1>4, <2>1, <2>2 DEF IInv, TypeOK, FilesOK, LocksKept, CommitRollback,
                           CommitRollbackFails, Unlock
  <2>4. QED
    BY <1>4, <2>3, RaiseKeepsIInv DEF CommitRollback, CommitRollbackFails
<1>5. CASE Crash(p)
  <2>1. faults' \in 0 .. MaxFaults
    BY <1>5, FaultCounted DEF Crash
  <2>2. durable' = durable /\ FilesOK' /\ LocksKept(p)
    BY <1>5, <2>1 DEF IInv, TypeOK, FilesOK, LocksKept, Crash, Unlock
  <2>3. QED
    BY <1>5, <2>2, ReturnKeepsIInv DEF Crash, Results
<1>6. QED
  BY <1>1, <1>2, <1>3, <1>4, <1>5

LEMMA CommitTraceKeepsIInv ==
  ASSUME IInv, NEW p \in Callers, CommitTrace(p)
  PROVE  IInv'
<1>1. TypeOK'
  BY DEF IInv, TypeOK, CommitTrace, Results
<1>2. durable' = durable /\ LocksKept(p)
  BY CallerAssumption DEF CommitTrace, Committing, LocksKept, NoCaller
<1>3. \A q \in Callers \ {p} : pc'[q] = pc[q] /\ op'[q] = op[q] /\ next'[q] = next[q]
  BY DEF IInv, TypeOK, CommitTrace
<1>4. op'[p] = op[p] /\ next'[p] = next[p] /\ pc[p] = "commit"
  BY DEF CommitTrace, Committing
<1>5. lock' = p /\ next'[p].rev = durable.rev + 1
  BY DEF CommitTrace, IsNextRevision
<1>6. op[p].kind # "none" /\ next[p].rev <= durable.rev + 1 /\ Proposed(durable, next[p], op[p])
  BY <1>4, <1>5 DEF IInv, CopiesFit
<1>7. QED
  BY <1>1, <1>2, <1>3, <1>4, <1>5, <1>6, OneCallerMoves

\* The only caller that may commit its copy is the holder of both locks, and
\* its commit makes every other copy stale.
LEMMA CommitSnapshotKeepsIInv ==
  ASSUME IInv, NEW p \in Callers, CommitSnapshot(p)
  PROVE  IInv' /\ Keeps(durable, durable', op[p]) /\ Proposed(durable, durable', op[p])
<1>1. lock = p /\ pc[p] = "traced" /\ durable' = next[p] /\ op[p] \in Op /\ durable \in Snapshot
  BY DEF IInv, TypeOK, LockHeld, CommitSnapshot
<1>2. Proposed(durable, durable', op[p])
  BY <1>1 DEF IInv, CopiesFit, LockHeld
<1>3. Keeps(durable, durable', op[p])
  BY <1>1, <1>2, ProposedKeeps DEF IInv
<1>4. TypeOK'
  <2>1. Answer(op[p]) \in Results
    BY DEF Answer, Results
  <2>2. QED
    BY <2>1, <1>3, NoneTyped DEF IInv, TypeOK, CommitSnapshot, Return, Unlock, Keeps
<1>5. pc'[p] = "idle" /\ op'[p].kind = "none"
  BY NoneTyped DEF IInv, TypeOK, CommitSnapshot, Return
<1>6. ASSUME NEW q \in Callers \ {p}
      PROVE  pc'[q] = pc[q] /\ op'[q] = op[q] /\ next'[q] = next[q] /\ pc[q] # "traced"
  BY <1>1 DEF IInv, TypeOK, LockHeld, CommitSnapshot, Return
<1>7. UniqueHolder(durable)' /\ Scoped(durable)'
  BY <1>3 DEF Keeps
<1>8. FreshIds'
  <2> SUFFICES ASSUME NEW q \in Callers, op'[q].kind = "acquire"
               PROVE  /\ ~Known(durable', op'[q].lease)
                      /\ \A m \in Callers \ {q} :
                           op'[m].kind = "acquire" => op'[m].lease # op'[q].lease
    BY DEF FreshIds
  <2>1. q # p /\ op'[q] = op[q]
    BY <1>5, <1>6
  <2>2. op[q].lease \in LeaseIds
    BY <2>1, OpKinds DEF IInv, TypeOK, AcquireOp
  <2>3. ~Known(durable, op[q].lease) /\ (op[p].kind = "acquire" => op[p].lease # op[q].lease)
    BY <2>1 DEF IInv, FreshIds
  <2>4. ~Known(durable', op[q].lease)
    BY <1>3, <2>2, <2>3 DEF Keeps
  <2>5. QED
    BY <1>5, <1>6, <2>1, <2>4 DEF IInv, FreshIds
<1>9. CopiesFit'
  <2> SUFFICES ASSUME NEW q \in Callers, pc'[q] \in {"commit", "traced"}
               PROVE  /\ op'[q].kind # "none"
                      /\ next'[q].rev <= durable'.rev + 1
                      /\ next'[q].rev = durable'.rev + 1 => Proposed(durable', next'[q], op'[q])
    BY DEF CopiesFit
  <2>1. q # p /\ op'[q] = op[q] /\ next'[q] = next[q] /\ pc[q] \in {"commit", "traced"}
    BY <1>5, <1>6
  <2>2. op[q].kind # "none" /\ next[q].rev <= durable.rev + 1
    BY <2>1 DEF IInv, CopiesFit
  <2>3. durable.rev \in Nat /\ next[q].rev \in Nat /\ durable'.rev = durable.rev + 1
    BY <1>1, <1>3 DEF IInv, TypeOK, Snapshot, Keeps
  <2>4. QED
    BY <2>1, <2>2, <2>3
<1>10. LockHeld'
  BY <1>5, <1>6 DEF LockHeld
<1>11. QED
  BY <1>2, <1>3, <1>4, <1>7, <1>8, <1>9, <1>10 DEF IInv

\* Seeding touches no lease and nothing but absent resources.
SeedKeeps ==
  /\ durable'.rev = durable.rev + 1
  /\ durable'.leases = durable.leases
  /\ \A r \in Resources : \/ durable'.status[r] = durable.status[r]
                          \/ durable.status[r] = "ABSENT" /\ durable'.status[r] \in Targets

LEMMA SeedKeepsIInv ==
  ASSUME IInv, NEW batch \in Batches, Seed(batch)
  PROVE  IInv' /\ SeedKeeps
<1> DEFINE absent == {r \in DOMAIN batch : durable.status[r] = "ABSENT"}
<1>1. durable' = [durable EXCEPT
        !.rev = @ + 1,
        !.status = [r \in Resources |-> IF r \in absent THEN batch[r] ELSE @[r]]]
  BY DEF Seed
<1>2. \A r \in absent : r \in Resources /\ batch[r] \in Targets
  BY BatchAssumption DEF Seed, Targets
<1>3. durable \in Snapshot
  BY DEF IInv, TypeOK
<1> HIDE DEF absent
<1>4. /\ durable'.rev = durable.rev + 1
      /\ durable'.leases = durable.leases
      /\ durable'.status = [r \in Resources |-> IF r \in absent THEN batch[r] ELSE durable.status[r]]
  BY <1>1, <1>3 DEF Snapshot
<1>5. durable' \in Snapshot
  <2> DEFINE st == [r \in Resources |-> IF r \in absent THEN batch[r] ELSE durable.status[r]]
  <2>1. st \in [Resources -> Statuses]
    BY <1>2, <1>3 DEF Snapshot, Statuses, Targets
  <2>2. durable' = [durable EXCEPT !.rev = durable.rev + 1, !.status = st]
    BY <1>1
  <2> HIDE DEF st
  <2>3. durable' = [rev |-> durable.rev + 1, status |-> st, leases |-> durable.leases]
    BY <2>2, <1>3 DEF Snapshot
  <2>4. QED
    BY <2>1, <2>3, <1>3 DEF Snapshot
<1>6. SeedKeeps
  BY <1>2, <1>4 DEF SeedKeeps, absent
<1>7. TypeOK'
  BY <1>5 DEF IInv, TypeOK, Seed, Results
<1>8. UniqueHolder(durable)' /\ Scoped(durable)'
  <2>1. \A r \in Resources : ActiveOn(durable', r) = ActiveOn(durable, r)
    BY <1>4 DEF ActiveOn, Active
  <2>2. UniqueHolder(durable')
    BY <2>1, <1>6 DEF IInv, UniqueHolder, SeedKeeps, Targets
  <2>3. Scoped(durable')
    BY <1>4 DEF IInv, Scoped, Active, Known, Settled
  <2>4. QED
    BY <2>2, <2>3
<1>9. FreshIds'
  BY <1>4 DEF IInv, FreshIds, Seed, Known
<1>10. \A q \in Callers : pc[q] # "traced"
  BY CallerAssumption DEF IInv, LockHeld, Seed, NoCaller
<1>11. CopiesFit'
  <2> SUFFICES ASSUME NEW q \in Callers, pc[q] \in {"commit", "traced"}
               PROVE  /\ op[q].kind # "none"
                      /\ next[q].rev <= durable'.rev + 1
                      /\ next[q].rev = durable'.rev + 1 => Proposed(durable', next[q], op[q])
    BY DEF CopiesFit, Seed
  <2>1. op[q].kind # "none" /\ next[q].rev <= durable.rev + 1
    BY DEF IInv, CopiesFit
  <2>2. durable.rev \in Nat /\ next[q].rev \in Nat
    BY <1>3 DEF IInv, TypeOK, Snapshot
  <2>3. QED
    BY <1>4, <2>1, <2>2
<1>12. LockHeld'
  BY <1>10 DEF LockHeld, Seed
<1>13. QED
  BY <1>6, <1>7, <1>8, <1>9, <1>11, <1>12 DEF IInv

-----------------------------------------------------------------------------
(* The theorems *)

LEMMA InitIInv ==
  ASSUME Init PROVE IInv
<1>1. TypeOK
  BY BoundAssumption, NoneTyped DEF Init, TypeOK, Results
<1>2. \A l \in AllLeaseIds : ~Known(EmptySnapshot, l) /\ ~Active(EmptySnapshot, l)
  BY DEF EmptySnapshot, NoLease, Known, Active
<1>3. \A r \in Resources : ActiveOn(EmptySnapshot, r) = {} /\ EmptySnapshot.status[r] = "ABSENT"
  BY <1>2 DEF ActiveOn, EmptySnapshot
<1>4. UniqueHolder(durable)
  BY <1>3 DEF Init, UniqueHolder
<1>5. Scoped(durable)
  BY <1>2, InvalidationIds DEF Init, Scoped
<1>6. FreshIds /\ CopiesFit /\ LockHeld
  BY NoneTyped DEF Init, FreshIds, CopiesFit, LockHeld
<1>7. QED
  BY <1>1, <1>4, <1>5, <1>6 DEF IInv

LEMMA NextIInv ==
  ASSUME IInv, [Next]_vars PROVE IInv'
<1>1. CASE \E batch \in Batches : Seed(batch)
  BY <1>1, SeedKeepsIInv
<1>2. CASE \E p \in Callers : CallerStep(p)
  <2>1. PICK p \in Callers : CallerStep(p)
    BY <1>2
  <2>2. CASE Call(p)
    BY <2>2, CallKeepsIInv
  <2>3. CASE AcquireRefused(p) \/ AcquireSubmit(p)
    BY <2>3, AcquireKeepsIInv
  <2>4. CASE ReleaseRefused(p) \/ ReleaseRepeated(p) \/ ReleaseSubmit(p)
    BY <2>4, ReleaseKeepsIInv
  <2>5. CASE InvalidateRefused(p) \/ InvalidateRelease(p) \/ InvalidateSplit(p)
    BY <2>5, InvalidateKeepsIInv
  <2>6. CASE \/ LoadFails(p) \/ CommitStale(p) \/ CommitTraceConflict(p) \/ CommitTraceFails(p)
             \/ CommitRollback(p) \/ CommitRollbackFails(p) \/ Crash(p)
    BY <2>6, FailedCommitKeepsIInv
  <2>7. CASE CommitTrace(p)
    BY <2>7, CommitTraceKeepsIInv
  <2>8. CASE CommitSnapshot(p)
    BY <2>8, CommitSnapshotKeepsIInv
  <2>9. QED
    BY <2>1, <2>2, <2>3, <2>4, <2>5, <2>6, <2>7, <2>8 DEF CallerStep
<1>3. CASE UNCHANGED vars
  BY <1>3 DEF vars, IInv, TypeOK, FreshIds, CopiesFit, LockHeld
<1>4. QED
  BY <1>1, <1>2, <1>3 DEF Next

\* The invariant holds in every reachable state, of any number of callers,
\* resources, leases and faults.
THEOREM Invariance == Spec => []IInv
<1>1. Init => IInv
  BY InitIInv
<1>2. IInv /\ [Next]_vars => IInv'
  BY NextIInv
<1>3. QED
  BY <1>1, <1>2, PTL DEF Spec

\* Every variable keeps its type: what acquire, release, the split and seeding
\* build is a snapshot again.
THEOREM TypeCorrectness == Spec => []TypeOK
<1>1. IInv => TypeOK
  BY DEF IInv
<1>2. QED
  BY <1>1, Invariance, PTL

\* No resource is ever leased twice, whatever the interleaving of reads and
\* commits and whichever writes fail or callers die (resource_lifecycle.py).
THEOREM Exclusivity == Spec => []LeaseExclusivity
<1>1. IInv => LeaseExclusivity
  BY DEF IInv, LeaseExclusivity
<1>2. QED
  BY <1>1, Invariance, PTL

LEMMA LedgerStep ==
  ASSUME IInv, [Next]_vars
  PROVE  \/ durable' = durable
         \/ SeedKeeps
         \/ \E p \in Callers : /\ Keeps(durable, durable', op[p])
                               /\ Proposed(durable, durable', op[p])
<1>1. CASE \E batch \in Batches : Seed(batch)
  BY <1>1, SeedKeepsIInv
<1>2. CASE \E p \in Callers : CallerStep(p)
  <2>1. PICK p \in Callers : CallerStep(p)
    BY <1>2
  <2>2. CASE CommitSnapshot(p)
    BY <2>2, CommitSnapshotKeepsIInv
  <2>3. CASE ~CommitSnapshot(p)
    BY <2>1, <2>3 DEF CallerStep, Call, LoadFails, AcquireRefused, AcquireSubmit, ReleaseRefused,
      ReleaseRepeated, ReleaseSubmit, InvalidateRefused, InvalidateRelease, InvalidateSplit,
      CommitStale, CommitTraceConflict, CommitTraceFails, CommitTrace, CommitRollback,
      CommitRollbackFails, Crash, files
  <2>4. QED
    BY <2>2, <2>3
<1>3. CASE UNCHANGED vars
  BY <1>3 DEF vars
<1>4. QED
  BY <1>1, <1>2, <1>3 DEF Next

\* No commit loses or rewrites what another caller committed: the comparison
\* of revisions under the lock makes every stale copy harmless.
THEOREM AppendOnly == Spec => LedgerAppendOnly
<1>1. IInv /\ [Next]_vars
        => [\A l \in AllLeaseIds : LeaseKept(durable.leases[l], durable'.leases[l])]_vars
  <2> SUFFICES ASSUME IInv, [Next]_vars, NEW l \in AllLeaseIds
               PROVE  LeaseKept(durable.leases[l], durable'.leases[l])
    OBVIOUS
  <2>1. CASE durable'.leases = durable.leases
    BY <2>1 DEF LeaseKept
  <2>2. CASE \E p \in Callers : Keeps(durable, durable', op[p])
    BY <2>2 DEF Keeps
  <2>3. QED
    BY <2>1, <2>2, LedgerStep DEF SeedKeeps
<1>2. QED
  BY <1>1, Invariance, PTL DEF Spec, LedgerAppendOnly

\* A resource once INVALID stays INVALID, also against callers that read it
\* before (FR-0010).
THEOREM InvalidStays == Spec => InvalidIsTerminal
<1>1. IInv /\ [Next]_vars
        => [\A r \in Resources : durable.status[r] = "INVALID" => durable'.status[r] = "INVALID"]_vars
  <2> SUFFICES ASSUME IInv, [Next]_vars, NEW r \in Resources, durable.status[r] = "INVALID"
               PROVE  durable'.status[r] = "INVALID"
    OBVIOUS
  <2>1. CASE durable' = durable
    BY <2>1
  <2>2. CASE SeedKeeps
    BY <2>2 DEF SeedKeeps
  <2>3. CASE \E p \in Callers : Keeps(durable, durable', op[p])
    BY <2>3 DEF Keeps
  <2>4. QED
    BY <2>1, <2>2, <2>3, LedgerStep
<1>2. QED
  BY <1>1, Invariance, PTL DEF Spec, InvalidIsTerminal

\* What a release makes durable is what its caller asked for.
LEMMA ReleaseIsExact ==
  ASSUME NEW s \in Snapshot, NEW o \in Op, NEW n, Proposed(s, n, o), o.kind = "release"
  PROVE  /\ Settled(n, o.lease)
         /\ n.leases[o.lease].target = o.target /\ n.leases[o.lease].reason = o.reason
<1>1. PICK now \in Times : n = ReleaseSnapshot(s, o.lease, o.target, o.reason, now)
  BY DEF Proposed
<1>2. o.lease \in AllLeaseIds /\ s.leases[o.lease] \in Lease
  BY OpKinds, InvalidationIds DEF ReleaseOp, Snapshot
<1>3. n.leases[o.lease] = Settle(s.leases[o.lease], o.target, o.reason, now)
  BY <1>1, <1>2 DEF ReleaseSnapshot, Snapshot
<1>4. QED
  BY <1>2, <1>3 DEF Settle, Lease, Settled

\* A release that reports success left the lease settled as asked, or found it
\* so: also when its own commit failed, and when another caller was first.
THEOREM HonestAnswers == Spec => ReleaseAnswerHonest
<1> DEFINE Honest(p) ==
             (op[p].kind = "release" /\ pc[p] # "idle" /\ pc'[p] = "idle" /\ answer' = "settled")
               => /\ Settled(durable', op[p].lease)
                  /\ durable'.leases[op[p].lease].target = op[p].target
                  /\ durable'.leases[op[p].lease].reason = op[p].reason
<1>1. IInv /\ [Next]_vars => [\A p \in Callers : Honest(p)]_vars
  <2> SUFFICES ASSUME IInv, Next, NEW p \in Callers, op[p].kind = "release", pc[p] # "idle",
                      pc'[p] = "idle", answer' = "settled"
               PROVE  /\ Settled(durable', op[p].lease)
                      /\ durable'.leases[op[p].lease].target = op[p].target
                      /\ durable'.leases[op[p].lease].reason = op[p].reason
    OBVIOUS
  <2>1. PICK q \in Callers : CallerStep(q)
    BY DEF Next, Seed
  <2>2. CASE CommitSnapshot(q)
    <3>1. q = p
      BY <2>2 DEF CommitSnapshot, Return, IInv, TypeOK
    <3>2. Proposed(durable, durable', op[p]) /\ op[p] \in Op /\ durable \in Snapshot
      BY <2>2, <3>1, CommitSnapshotKeepsIInv DEF IInv, TypeOK
    <3>3. QED
      BY <3>2, ReleaseIsExact
  <2>3. CASE ReleaseRepeated(q)
    <3>1. q = p
      BY <2>3 DEF ReleaseRepeated, Return, IInv, TypeOK
    <3>2. SameSettlement(durable.leases[op[p].lease], op[p]) /\ durable' = durable
      BY <2>3, <3>1 DEF ReleaseRepeated, files
    <3>3. QED
      BY <3>2 DEF SameSettlement, Settled
  <2>4. CASE ~CommitSnapshot(q) /\ ~ReleaseRepeated(q)
    BY <2>1, <2>4 DEF CallerStep, Call, LoadFails, AcquireRefused, AcquireSubmit, ReleaseRefused,
      ReleaseSubmit, InvalidateRefused, InvalidateRelease, InvalidateSplit, CommitStale,
      CommitTraceConflict, CommitTraceFails, CommitTrace, CommitRollback, CommitRollbackFails,
      Crash, CommitRaises, Return, Reload, Submit
  <2>5. QED
    BY <2>2, <2>3, <2>4
<1>2. QED
  BY <1>1, Invariance, PTL DEF Spec, ReleaseAnswerHonest

-----------------------------------------------------------------------------
(* The ledger implements the pool *)

LEMMA HolderMoves ==
  ASSUME NEW s, NEW n, NEW r \in Resources
  PROVE  /\ ActiveOn(n, r) = ActiveOn(s, r) => HolderOf(n)[r] = HolderOf(s)[r]
         /\ ActiveOn(n, r) = {} => HolderOf(n)[r] = 0
         /\ \A l : ActiveOn(n, r) = {l} => HolderOf(n)[r] = l
<1>1. HolderOf(n)[r] = TheLease(ActiveOn(n, r)) /\ HolderOf(s)[r] = TheLease(ActiveOn(s, r))
  BY DEF HolderOf
<1>2. TheLease({}) = 0
  BY DEF TheLease
<1>3. \A l : TheLease({l}) = l
  BY DEF TheLease
<1>4. QED
  BY <1>1, <1>2, <1>3

LEMMA HolderFacts ==
  ASSUME NEW s \in Snapshot, UniqueHolder(s), Scoped(s)
  PROVE  /\ \A r \in Resources : ActiveOn(s, r) = {} => HolderOf(s)[r] = 0
         /\ \A r \in Resources, l \in AllLeaseIds : l \in ActiveOn(s, r) => HolderOf(s)[r] = l
         /\ \A r \in Resources, l \in LeaseIds : HolderOf(s)[r] = l => l \in ActiveOn(s, r)
<1>1. \A r \in Resources : ActiveOn(s, r) # {} => HolderOf(s)[r] \in ActiveOn(s, r)
  BY DEF HolderOf, TheLease
<1>2. \A r \in Resources : ActiveOn(s, r) = {} => HolderOf(s)[r] = 0
  BY DEF HolderOf, TheLease
<1>3. \A l \in LeaseIds : l # 0
  BY BoundAssumption DEF LeaseIds
<1>4. QED
  BY <1>1, <1>2, <1>3 DEF UniqueHolder

\* What a lease holds in the pool is what it holds in the ledger.
LEMMA HeldInLedger ==
  ASSUME IInv, NEW l \in LeaseIds, Active(durable, l)
  PROVE  Pool!HeldBy(l) = durable.leases[l].resources
<1>1. durable.leases[l] \in Lease
  BY InvalidationIds DEF IInv, TypeOK, Snapshot
<1>2. \A r \in Resources : HolderOf(durable)[r] = l <=> r \in durable.leases[l].resources
  BY HolderFacts, InvalidationIds DEF IInv, TypeOK, ActiveOn
<1>3. QED
  BY <1>1, <1>2 DEF Pool!HeldBy, Lease

LEMMA SeedIsAdd ==
  ASSUME IInv, SeedKeeps, durable' \in Snapshot
  PROVE  \E R \in SUBSET Resources : Pool!Add(R)
<1> DEFINE R == {r \in Resources : durable'.status[r] # durable.status[r]}
<1>1. HolderOf(durable)' = HolderOf(durable) /\ Granted(durable)' = Granted(durable)
  BY DEF SeedKeeps, HolderOf, Granted, ActiveOn, Active, Known
<1>2. durable'.status \in [Resources -> {"ABSENT", "AVAILABLE", "IN_USE", "INVALID"}]
  BY DEF Snapshot, Statuses
<1>3. Pool!Add(R)
  BY <1>1, <1>2 DEF Pool!Add, SeedKeeps, Targets
<1>4. QED
  BY <1>3

LEMMA AcquireIsTake ==
  ASSUME IInv, NEW o \in AcquireOp, NEW now \in Times, ~Known(durable, o.lease),
         \A r \in o.selected : durable.status[r] = "AVAILABLE",
         durable' = AcquireSnapshot(durable, o.lease, o.task, o.adapter, o.selected, now),
         Keeps(durable, durable', o)
  PROVE  Pool!Take(o.lease, o.selected)
<1> DEFINE l == o.lease
           R == o.selected
<1>1. l \in LeaseIds /\ R \in SUBSET Resources /\ o.task \in Tasks /\ o.adapter \in Adapters
  BY DEF AcquireOp
<1>2. durable \in Snapshot /\ UniqueHolder(durable) /\ Scoped(durable)
  BY DEF IInv, TypeOK
<1>3. /\ \A r \in R : ActiveOn(durable', r) = {l}
      /\ \A r \in Resources \ R : ActiveOn(durable', r) = ActiveOn(durable, r)
  <2> DEFINE a == o.adapter
             t == o.task
  <2>1. /\ ~Known(durable, l) /\ \A r \in R : durable.status[r] = "AVAILABLE"
        /\ durable' = AcquireSnapshot(durable, l, t, a, R, now)
        /\ l \in LeaseIds /\ R \in SUBSET Resources /\ t \in Tasks /\ a \in Adapters
    BY <1>1
  <2> HIDE DEF l, R, a, t
  <2> DEFINE n == AcquireSnapshot(durable, l, t, a, R, now)
  <2>2. /\ UniqueHolder(n)
        /\ \A r \in R : ActiveOn(n, r) = {l}
        /\ \A r \in Resources \ R : ActiveOn(n, r) = ActiveOn(durable, r)
    BY <1>2, <2>1, AcquireUnique, SMTT(30)
  <2>3. QED
    BY <2>1, <2>2, Zenon
<1>4. HolderOf(durable') = [r \in Resources |-> IF r \in R THEN l ELSE HolderOf(durable)[r]]
  <2>1. ASSUME NEW r \in Resources
        PROVE  HolderOf(durable')[r] = IF r \in R THEN l ELSE HolderOf(durable)[r]
    <3>1. CASE r \in R
      <4>1. ActiveOn(durable', r) = {l}
        BY <1>3, <3>1
      <4>2. HolderOf(durable')[r] = l
        BY <4>1, HolderMoves, Zenon
      <4>3. QED
        BY <3>1, <4>2
    <3>2. CASE r \notin R
      BY <1>3, <3>2, HolderMoves
    <3>3. QED
      BY <3>1, <3>2
  <2>2. QED
    BY <2>1 DEF HolderOf
<1>5. durable'.status = [r \in Resources |-> IF r \in R THEN "IN_USE" ELSE durable.status[r]]
  BY DEF AcquireSnapshot, SetStatus
<1>6. Known(durable', l)
  BY <1>1, <1>2, InvalidationIds DEF Known, AcquireSnapshot, LeaseOf, Snapshot
<1>7. \A m \in LeaseIds \ {l} : Known(durable', m) <=> Known(durable, m)
  BY <1>2, InvalidationIds DEF Known, AcquireSnapshot, Snapshot
<1>8. Granted(durable') = Granted(durable) \cup {l} /\ l \notin Granted(durable)
  BY <1>1, <1>6, <1>7 DEF Granted
<1>9. QED
  BY <1>1, <1>4, <1>5, <1>8 DEF Pool!Take, Pool!Free

LEMMA EndIsGiveBack ==
  ASSUME IInv, NEW o \in Op, NEW l \in LeaseIds, Active(durable, l), Keeps(durable, durable', o),
         o.kind # "acquire",
         NEW Bad \in SUBSET durable.leases[l].resources,
         \A r \in durable.leases[l].resources : ActiveOn(durable', r) = {},
         \A r \in Resources \ durable.leases[l].resources : ActiveOn(durable', r) = ActiveOn(durable, r),
         durable'.status = [r \in Resources |->
           IF r \in Bad THEN "INVALID"
           ELSE IF r \in durable.leases[l].resources THEN "AVAILABLE" ELSE durable.status[r]]
  PROVE  Pool!GiveBack(l, Bad) /\ Bad \in SUBSET Pool!HeldBy(l)
<1>1. Pool!HeldBy(l) = durable.leases[l].resources
  BY HeldInLedger
<1>2. HolderOf(durable') = [r \in Resources |->
                              IF r \in durable.leases[l].resources THEN 0 ELSE HolderOf(durable)[r]]
  <2>1. \A r \in Resources : HolderOf(durable')[r] =
          IF r \in durable.leases[l].resources THEN 0 ELSE HolderOf(durable)[r]
    BY HolderMoves
  <2>2. QED
    BY <2>1 DEF HolderOf
<1>3. Granted(durable') = Granted(durable)
  <2>1. \A m \in LeaseIds : Known(durable', m) => Known(durable, m)
    BY DEF Keeps
  <2>2. \A m \in LeaseIds : Known(durable, m) => Known(durable', m)
    BY InvalidationIds DEF Keeps, LeaseKept, Known
  <2>3. QED
    BY <2>1, <2>2 DEF Granted
<1>4. QED
  BY <1>1, <1>2, <1>3 DEF Pool!GiveBack

LEMMA ProposedIsPoolStep ==
  ASSUME IInv, NEW o \in Op, Proposed(durable, durable', o), Keeps(durable, durable', o)
  PROVE  Pool!Next
<1>1. durable \in Snapshot /\ UniqueHolder(durable) /\ Scoped(durable)
  BY DEF IInv, TypeOK
<1>2. CASE o.kind = "acquire"
  <2>1. PICK now \in Times :
          durable' = AcquireSnapshot(durable, o.lease, o.task, o.adapter, o.selected, now)
    BY <1>2 DEF Proposed
  <2>2. o \in AcquireOp /\ o.lease \in LeaseIds /\ o.selected \in SUBSET Resources
    BY <1>2, OpKinds DEF AcquireOp
  <2>3. Pool!Take(o.lease, o.selected)
    BY <1>2, <2>1, <2>2, AcquireIsTake DEF Proposed
  <2>4. QED
    BY <2>2, <2>3 DEF Pool!Next
<1>3. CASE o.kind = "release"
  <2> DEFINE R == durable.leases[o.lease].resources
             Bad == IF o.target = "INVALID" THEN R ELSE {}
  <2>1. PICK now \in Times :
          durable' = ReleaseSnapshot(durable, o.lease, o.target, o.reason, now)
    BY <1>3 DEF Proposed
  <2>2. /\ o.lease \in LeaseIds /\ o.target \in Targets /\ o.reason \in AllReasons
        /\ Active(durable, o.lease)
    BY <1>3, OpKinds DEF ReleaseOp, Proposed
  <2>3. /\ \A r \in R : ActiveOn(durable', r) = {}
        /\ \A r \in Resources \ R : ActiveOn(durable', r) = ActiveOn(durable, r)
    BY <1>1, <2>1, <2>2, ReleaseUnique
  <2>4. durable'.status = [r \in Resources |->
          IF r \in Bad THEN "INVALID" ELSE IF r \in R THEN "AVAILABLE" ELSE durable.status[r]]
    BY <2>1, <2>2 DEF ReleaseSnapshot, SetStatus, Targets
  <2>5. Bad \in SUBSET R
    OBVIOUS
  <2>6. Pool!GiveBack(o.lease, Bad) /\ Bad \in SUBSET Pool!HeldBy(o.lease)
    BY <1>3, <2>2, <2>3, <2>4, <2>5, EndIsGiveBack
  <2>7. QED
    BY <2>2, <2>6 DEF Pool!Next
<1>4. CASE o.kind = "invalidate"
  <2> DEFINE R == durable.leases[o.lease].resources
  <2>1. PICK now \in Times : durable' = SplitSnapshot(durable, o.lease, o.account, now)
    BY <1>4 DEF Proposed
  <2>2. /\ o.lease \in LeaseIds /\ o.account \in Accounts
        /\ Active(durable, o.lease) /\ o.account \in R
    BY <1>4, OpKinds DEF InvalidateOp, Proposed
  <2>3. /\ \A r \in R : ActiveOn(durable', r) = {}
        /\ \A r \in Resources \ R : ActiveOn(durable', r) = ActiveOn(durable, r)
    BY <1>1, <2>1, <2>2, SplitUnique DEF Scoped
  <2>4. durable'.status = [r \in Resources |->
          IF r \in {o.account} THEN "INVALID" ELSE IF r \in R THEN "AVAILABLE" ELSE durable.status[r]]
    <3>1. durable'.status = [r \in Resources |->
                               CASE r = o.account -> "INVALID"
                                 [] r # o.account /\ r \in R -> "AVAILABLE"
                                 [] OTHER -> durable.status[r]]
      BY <2>1 DEF SplitSnapshot
    <3>2. ASSUME NEW r \in Resources
          PROVE  (CASE r = o.account -> "INVALID"
                    [] r # o.account /\ r \in R -> "AVAILABLE"
                    [] OTHER -> durable.status[r])
                 = IF r \in {o.account} THEN "INVALID"
                   ELSE IF r \in R THEN "AVAILABLE" ELSE durable.status[r]
      <4>1. CASE r = o.account
        BY <4>1
      <4>2. CASE r # o.account /\ r \in R
        BY <4>2
      <4>3. CASE r # o.account /\ r \notin R
        BY <4>3
      <4>4. QED
        BY <4>1, <4>2, <4>3
    <3>3. QED
      BY <3>1, <3>2, Zenon
  <2>5. Pool!GiveBack(o.lease, {o.account}) /\ {o.account} \in SUBSET Pool!HeldBy(o.lease)
    <3>1. {o.account} \in SUBSET R /\ o.kind # "acquire"
      BY <1>4, <2>2
    <3>2. QED
      BY <2>2, <2>3, <2>4, <3>1, EndIsGiveBack
  <2>6. QED
    BY <2>2, <2>5 DEF Pool!Next
<1>5. QED
  BY <1>2, <1>3, <1>4 DEF Proposed

\* What all callers together do to the snapshot file is one grant, one return
\* or one addition after another: no interleaving, failed write or crash shows.
THEOREM Refinement == Spec => ImplementsPool
<1>1. Init => Pool!Init
  <2> SUFFICES ASSUME Init PROVE Pool!Init
    OBVIOUS
  <2>1. \A l \in AllLeaseIds : ~Active(durable, l) /\ ~Known(durable, l)
    BY DEF Init, EmptySnapshot, NoLease, Active, Known
  <2>2. HolderOf(durable) = [r \in Resources |-> 0]
    <3>1. \A r \in Resources : ActiveOn(durable, r) = {}
      BY <2>1 DEF ActiveOn
    <3>2. QED
      BY <3>1 DEF HolderOf, TheLease
  <2>3. Granted(durable) = {}
    BY <2>1, InvalidationIds DEF Granted
  <2>4. QED
    BY <2>2, <2>3 DEF Init, EmptySnapshot, Pool!Init
<1>2. IInv /\ IInv' /\ [Next]_vars => [Pool!Next]_(Pool!vars)
  <2> SUFFICES ASSUME IInv, IInv', [Next]_vars
               PROVE  Pool!Next \/ UNCHANGED Pool!vars
    OBVIOUS
  <2>1. CASE durable' = durable
    BY <2>1 DEF Pool!vars, HolderOf, Granted, ActiveOn, Active, Known
  <2>2. CASE SeedKeeps
    <3>1. durable' \in Snapshot
      BY DEF IInv, TypeOK
    <3>2. QED
      BY <2>2, <3>1, SeedIsAdd DEF Pool!Next
  <2>3. CASE \E p \in Callers : Keeps(durable, durable', op[p]) /\ Proposed(durable, durable', op[p])
    BY <2>3, ProposedIsPoolStep DEF IInv, TypeOK
  <2>4. QED
    BY <2>1, <2>2, <2>3, LedgerStep
<1>3. QED
  BY <1>1, <1>2, Invariance, PTL DEF Spec, ImplementsPool, Pool!Spec
-----------------------------------------------------------------------------
(***************************************************************************)
(* What is on file.  The lease histories: validate_snapshot accepts every    *)
(* snapshot that is on file or about to be written, however often the wall   *)
(* clock steps back.  The trace that is written before the snapshot: it      *)
(* covers the ledger at every crash point, and says nothing else as long as  *)
(* no write back fails and nobody dies between the two writes.               *)
(***************************************************************************)

-----------------------------------------------------------------------------
(* The lease histories: the inductive invariant *)

\* The leases a resource has had.
HistoryOf(s, r) == {l \in AllLeaseIds : Known(s, l) /\ r \in s.leases[l].resources}

\* Lease m stands behind lease l in the snapshot's list.
Before(s, l, m) == s.leases[l].pos < s.leases[m].pos
Newest(s, r, l) == \A m \in HistoryOf(s, r) \ {l} : Before(s, m, l)

\* No lease stands behind the place the next acquire will take.
Placed(s) == \A l \in AllLeaseIds : Known(s, l) => s.leases[l].pos <= 2 * s.rev + 1

Present(s) ==
  \A l \in AllLeaseIds : Known(s, l) => \A r \in s.leases[l].resources : s.status[r] # "ABSENT"

Timed(s) == \A l \in AllLeaseIds : Settled(s, l) => s.leases[l].acquiredAt <= s.leases[l].releasedAt

\* The leases of one resource follow one another in the list's order: each is
\* over, by the clock too, before the next one begins.
Ordered(s, r) ==
  \A l, m \in HistoryOf(s, r) : l # m =>
    /\ Before(s, l, m) \/ Before(s, m, l)
    /\ Before(s, l, m) => Settled(s, l) /\ s.leases[l].releasedAt <= s.leases[m].acquiredAt

\* The newest lease, once settled, decides what the resource is now; one that
\* invalidated it stays the newest.
NewestDecides(s, r) ==
  \A l \in HistoryOf(s, r) : Settled(s, l) =>
    /\ Newest(s, r, l) => s.status[r] = s.leases[l].target
    /\ s.leases[l].target = "INVALID" => Newest(s, r, l)

Sound(s) ==
  /\ s \in Snapshot
  /\ UniqueHolder(s)
  /\ Placed(s)
  /\ Present(s)
  /\ Timed(s)
  /\ \A r \in Resources : Ordered(s, r) /\ NewestDecides(s, r)

CopiesSound == \A p \in Callers : pc[p] \in {"commit", "traced"} => Sound(next[p])

HInv ==
  /\ IInv
  /\ Sound(durable)
  /\ CopiesSound

-----------------------------------------------------------------------------
(* Reading a history *)

LEMMA LeaseTyped ==
  ASSUME NEW s \in Snapshot, NEW l \in AllLeaseIds
  PROVE  /\ s.leases[l] \in Lease /\ s.leases[l].resources \subseteq Resources
         /\ s.leases[l].pos \in Nat
         /\ s.leases[l].acquiredAt \in Nat /\ s.leases[l].releasedAt \in Nat
         /\ s.rev \in Nat
<1>1. s.leases[l] \in Lease /\ s.rev \in Nat
  BY DEF Snapshot
<1>2. /\ s.leases[l].pos \in Nat /\ s.leases[l].resources \subseteq Resources
      /\ s.leases[l].acquiredAt \in Times \cup {0} /\ s.leases[l].releasedAt \in Times \cup {0}
  BY <1>1 DEF Lease
<1>3. Times \cup {0} \subseteq Nat
  BY BoundAssumption
<1>4. QED
  BY <1>1, <1>2, <1>3

LEMMA PhaseCases ==
  ASSUME NEW s \in Snapshot, NEW l \in AllLeaseIds
  PROVE  /\ Known(s, l) <=> Active(s, l) \/ Settled(s, l)
         /\ ~(Active(s, l) /\ Settled(s, l))
BY LeaseTyped DEF Known, Active, Settled, Lease

\* A lease that is active is the newest on each of its resources.
LEMMA ActiveIsNewest ==
  ASSUME NEW s \in Snapshot, NEW r \in Resources, Ordered(s, r),
         NEW l \in HistoryOf(s, r), Active(s, l)
  PROVE  \A m \in HistoryOf(s, r) \ {l} :
           Before(s, m, l) /\ Settled(s, m) /\ s.leases[m].releasedAt <= s.leases[l].acquiredAt
<1> TAKE m \in HistoryOf(s, r) \ {l}
<1>1. l \in AllLeaseIds /\ m \in AllLeaseIds
  BY DEF HistoryOf
<1>2. ~Settled(s, l)
  BY <1>1, PhaseCases
<1>3. ~Before(s, l, m)
  BY <1>2 DEF Ordered
<1>4. QED
  BY <1>3 DEF Ordered

\* What validate_snapshot checks of a resource follows from the order.
LEMMA OrderedIsValid ==
  ASSUME NEW s, Sound(s), NEW r \in Resources
  PROVE  ValidHistory(s, r)
<1> DEFINE On == {l \in AllLeaseIds : Known(s, l) /\ r \in s.leases[l].resources}
           Over == {l \in On : Settled(s, l)}
           Last(l) == \A m \in Over : m # l => Earlier(Until(s.leases[m]), Until(s.leases[l]))
           H == HistoryOf(s, r)
<1>1. On = H /\ s \in Snapshot /\ Ordered(s, r) /\ NewestDecides(s, r)
  BY DEF HistoryOf, Sound
<1>2. \A l \in H : /\ l \in AllLeaseIds /\ s.leases[l].pos \in Nat
                   /\ s.leases[l].acquiredAt \in Nat /\ s.leases[l].releasedAt \in Nat
                   /\ Settled(s, l) => s.leases[l].acquiredAt <= s.leases[l].releasedAt
  BY <1>1, LeaseTyped DEF HistoryOf, Sound, Timed
<1>3. \A l, m \in H : l # m =>
        /\ s.leases[l].pos < s.leases[m].pos \/ s.leases[m].pos < s.leases[l].pos
        /\ s.leases[l].pos < s.leases[m].pos =>
             Settled(s, l) /\ s.leases[l].releasedAt <= s.leases[m].acquiredAt
  BY <1>1 DEF Ordered, Before
<1>4. ASSUME ActiveOn(s, r) = {}, NEW l \in Over, Last(l)
      PROVE  s.status[r] = s.leases[l].target
  <2>1. ASSUME NEW m \in H \ {l}
        PROVE  s.leases[m].pos < s.leases[l].pos
    <3>1. Settled(s, m)
      BY <1>1, <1>4, PhaseCases DEF ActiveOn, HistoryOf
    <3>2. Earlier(Until(s.leases[m]), Until(s.leases[l]))
      BY <1>1, <1>4, <3>1
    <3>3. \/ s.leases[m].releasedAt < s.leases[l].releasedAt
          \/ s.leases[m].releasedAt = s.leases[l].releasedAt /\ s.leases[m].pos < s.leases[l].pos
      BY <3>2 DEF Earlier, Until, Marker
    <3>4. ASSUME s.leases[l].pos < s.leases[m].pos PROVE FALSE
      <4>1. s.leases[l].releasedAt <= s.leases[m].acquiredAt
        BY <1>1, <1>3, <3>4
      <4>2. s.leases[m].acquiredAt <= s.leases[m].releasedAt
        BY <1>2, <3>1
      <4>3. QED
        BY <1>1, <1>2, <3>3, <3>4, <4>1, <4>2
    <3>5. QED
      BY <1>1, <1>3, <3>4
  <2>2. Newest(s, r, l)
    BY <2>1 DEF Newest, Before
  <2>3. QED
    BY <1>1, <2>2 DEF NewestDecides
<1>5. ASSUME NEW l \in Over, s.leases[l].target = "INVALID"
      PROVE  /\ s.status[r] = "INVALID"
             /\ \A m \in On : ~Earlier(Until(s.leases[l]), From(s.leases[m]))
  <2>1. Newest(s, r, l) /\ s.status[r] = "INVALID"
    BY <1>1, <1>5 DEF NewestDecides
  <2>2. ASSUME NEW m \in H
        PROVE  ~Earlier(Until(s.leases[l]), From(s.leases[m]))
    <3>1. s.leases[l].acquiredAt <= s.leases[l].releasedAt
      BY <1>1, <1>2
    <3>2. s.leases[m].acquiredAt <= s.leases[l].releasedAt /\ s.leases[m].pos <= s.leases[l].pos
      <4>1. CASE m = l
        BY <1>1, <1>2, <3>1, <4>1
      <4>2. CASE m # l
        <5>1. s.leases[m].pos < s.leases[l].pos
          BY <2>1, <4>2 DEF Newest, Before
        <5>2. Settled(s, m) /\ s.leases[m].releasedAt <= s.leases[l].acquiredAt
          BY <1>1, <1>3, <4>2, <5>1
        <5>3. s.leases[m].acquiredAt <= s.leases[m].releasedAt
          BY <1>2, <5>2
        <5>4. QED
          BY <1>1, <1>2, <3>1, <5>1, <5>2, <5>3
      <4>3. QED
        BY <4>1, <4>2
    <3>3. ~(s.leases[l].releasedAt < s.leases[m].acquiredAt) /\ ~(s.leases[l].pos < s.leases[m].pos)
      BY <1>1, <1>2, <3>2
    <3>4. QED
      BY <3>3 DEF Earlier, Until, From, Marker
  <2>3. QED
    BY <1>1, <2>1, <2>2
<1>6. ASSUME NEW l \in H, NEW m \in H, Earlier(From(s.leases[l]), From(s.leases[m]))
      PROVE  Settled(s, l) /\ ~Earlier(From(s.leases[m]), Until(s.leases[l]))
  <2>1. \/ s.leases[l].acquiredAt < s.leases[m].acquiredAt
        \/ s.leases[l].acquiredAt = s.leases[m].acquiredAt /\ s.leases[l].pos < s.leases[m].pos
    BY <1>6 DEF Earlier, From, Marker
  <2>2. l # m
    BY <1>2, <2>1
  <2>3. ASSUME s.leases[m].pos < s.leases[l].pos PROVE FALSE
    <3>1. Settled(s, m) /\ s.leases[m].releasedAt <= s.leases[l].acquiredAt
      BY <1>3, <2>2, <2>3
    <3>2. s.leases[m].acquiredAt <= s.leases[m].releasedAt
      BY <1>2, <3>1
    <3>3. QED
      BY <1>2, <2>1, <2>3, <3>1, <3>2
  <2>4. s.leases[l].pos < s.leases[m].pos
    BY <1>3, <2>2, <2>3
  <2>5. Settled(s, l) /\ s.leases[l].releasedAt <= s.leases[m].acquiredAt
    BY <1>3, <2>2, <2>4
  <2>6. ~(s.leases[m].acquiredAt < s.leases[l].releasedAt) /\ ~(s.leases[m].pos < s.leases[l].pos)
    BY <1>2, <2>4, <2>5
  <2>7. QED
    BY <2>5, <2>6 DEF Earlier, Until, From, Marker
<1> HIDE DEF H
<1>7. QED
  BY <1>1, <1>4, <1>5, <1>6, Zenon DEF ValidHistory

LEMMA SoundIsValid ==
  ASSUME NEW s, Sound(s) PROVE ValidSnapshot(s)
BY OrderedIsValid DEF Sound, ValidSnapshot, Present, Timed

-----------------------------------------------------------------------------
(* The operations keep a snapshot sound. *)

\* What an operation does not touch stays in order.
LEMMA UntouchedResource ==
  ASSUME NEW s, NEW n, NEW r \in Resources, Ordered(s, r), NewestDecides(s, r),
         HistoryOf(n, r) = HistoryOf(s, r),
         \A m \in HistoryOf(s, r) : n.leases[m] = s.leases[m],
         n.status[r] = s.status[r]
  PROVE  Ordered(n, r) /\ NewestDecides(n, r)
<1>1. Ordered(n, r)
  BY DEF Ordered, Before, Settled
<1>2. \A l \in HistoryOf(s, r) : Newest(n, r, l) <=> Newest(s, r, l)
  BY DEF Newest, Before
<1>3. NewestDecides(n, r)
  BY <1>2 DEF NewestDecides, Settled
<1>4. QED
  BY <1>1, <1>3

\* A new lease is put behind all others of a resource, and begins when they are over.
LEMMA AppendedLease ==
  ASSUME NEW s \in Snapshot, NEW n, NEW r \in Resources, Ordered(s, r), NewestDecides(s, r),
         NEW k \in AllLeaseIds, k \notin HistoryOf(s, r),
         HistoryOf(n, r) = HistoryOf(s, r) \cup {k},
         n.leases[k].pos \in Nat,
         \A m \in HistoryOf(s, r) :
           /\ n.leases[m].pos = s.leases[m].pos /\ n.leases[m].acquiredAt = s.leases[m].acquiredAt
           /\ s.leases[m].pos < n.leases[k].pos
           /\ Settled(n, m) /\ n.leases[m].releasedAt <= n.leases[k].acquiredAt
           /\ n.leases[m].target # "INVALID"
           /\ Settled(s, m) => n.leases[m].releasedAt = s.leases[m].releasedAt,
         Settled(n, k) => n.status[r] = n.leases[k].target
  PROVE  Ordered(n, r) /\ NewestDecides(n, r)
<1> DEFINE H == HistoryOf(s, r)
<1>1. \A m \in H : s.leases[m].pos \in Nat
  BY LeaseTyped DEF HistoryOf
<1>2. \A m \in H : Before(n, m, k) /\ ~Before(n, k, m)
  BY <1>1 DEF Before
<1>3. \A l, m \in H : Before(n, l, m) <=> Before(s, l, m)
  BY DEF Before
<1>4. \A l, m \in H : Before(s, l, m) /\ l # m =>
        n.leases[l].releasedAt <= n.leases[m].acquiredAt
  BY DEF Ordered
<1>5. Ordered(n, r)
  <2> SUFFICES ASSUME NEW l \in H \cup {k}, NEW m \in H \cup {k}, l # m
               PROVE  /\ Before(n, l, m) \/ Before(n, m, l)
                      /\ Before(n, l, m) =>
                           Settled(n, l) /\ n.leases[l].releasedAt <= n.leases[m].acquiredAt
    BY DEF Ordered
  <2>1. CASE l = k
    BY <1>2, <2>1
  <2>2. CASE m = k
    BY <1>2, <2>2
  <2>3. CASE l # k /\ m # k
    BY <1>3, <1>4, <2>3 DEF Ordered
  <2>4. QED
    BY <2>1, <2>2, <2>3
<1>6. NewestDecides(n, r)
  <2> SUFFICES ASSUME NEW l \in H \cup {k}, Settled(n, l)
               PROVE  /\ Newest(n, r, l) => n.status[r] = n.leases[l].target
                      /\ n.leases[l].target = "INVALID" => Newest(n, r, l)
    BY DEF NewestDecides
  <2>1. CASE l = k
    BY <1>2, <2>1 DEF Newest
  <2>2. CASE l # k
    BY <1>2, <2>2 DEF Newest
  <2>3. QED
    BY <2>1, <2>2
<1>7. QED
  BY <1>5, <1>6

\* The active lease of a resource is settled.
LEMMA EndedLease ==
  ASSUME NEW s \in Snapshot, NEW n, NEW r \in Resources, Ordered(s, r), NewestDecides(s, r),
         NEW l \in HistoryOf(s, r), Active(s, l),
         HistoryOf(n, r) = HistoryOf(s, r),
         \A m \in HistoryOf(s, r) \ {l} : n.leases[m] = s.leases[m],
         n.leases[l].pos = s.leases[l].pos, n.leases[l].acquiredAt = s.leases[l].acquiredAt,
         n.status[r] = n.leases[l].target
  PROVE  Ordered(n, r) /\ NewestDecides(n, r)
<1> DEFINE H == HistoryOf(s, r)
<1>1. \A m \in H \ {l} :
        Before(s, m, l) /\ Settled(s, m) /\ s.leases[m].releasedAt <= s.leases[l].acquiredAt
  BY ActiveIsNewest
<1>2. \A m, h \in H : Before(n, m, h) <=> Before(s, m, h)
  BY DEF Before
<1>3. \A m \in H : s.leases[m].pos \in Nat
  BY LeaseTyped DEF HistoryOf
<1>4. \A m \in H \ {l} : ~Before(s, l, m)
  BY <1>1, <1>3 DEF Before
<1>5. Ordered(n, r)
  <2> SUFFICES ASSUME NEW h \in H, NEW m \in H, h # m
               PROVE  /\ Before(n, h, m) \/ Before(n, m, h)
                      /\ Before(n, h, m) =>
                           Settled(n, h) /\ n.leases[h].releasedAt <= n.leases[m].acquiredAt
    BY DEF Ordered
  <2>1. CASE h = l
    BY <1>1, <1>2, <1>4, <2>1
  <2>2. CASE h # l
    BY <1>1, <1>2, <2>2 DEF Ordered, Settled
  <2>3. QED
    BY <2>1, <2>2
<1>6. \A m \in H : Newest(n, r, m) <=> Newest(s, r, m)
  BY <1>2 DEF Newest
<1>7. Newest(s, r, l) /\ \A m \in H \ {l} : ~Newest(s, r, m)
  BY <1>1, <1>4 DEF Newest
<1>8. NewestDecides(n, r)
  <2> SUFFICES ASSUME NEW m \in H, Settled(n, m)
               PROVE  /\ Newest(n, r, m) => n.status[r] = n.leases[m].target
                      /\ n.leases[m].target = "INVALID" => Newest(n, r, m)
    BY DEF NewestDecides
  <2>1. CASE m = l
    BY <1>6, <1>7, <2>1
  <2>2. CASE m # l
    BY <1>6, <1>7, <2>2 DEF NewestDecides, Settled
  <2>3. QED
    BY <2>1, <2>2
<1>9. QED
  BY <1>5, <1>8

LEMMA AcquireSound ==
  ASSUME NEW s, Sound(s), NEW l \in LeaseIds, NEW task \in Tasks, NEW adapter \in Adapters,
         NEW R \in SUBSET Resources, NEW now \in Times, ~Known(s, l),
         \A r \in R : s.status[r] = "AVAILABLE", NoOverlap(s, R, now)
  PROVE  Sound(AcquireSnapshot(s, l, task, adapter, R, now))
<1> DEFINE n == AcquireSnapshot(s, l, task, adapter, R, now)
<1>1. s \in Snapshot /\ UniqueHolder(s) /\ l \in AllLeaseIds /\ s.rev \in Nat
  BY InvalidationIds, LeaseTyped DEF Sound
<1>2. n \in Snapshot
  BY <1>1, AcquireType
<1>3. UniqueHolder(n)
  BY <1>1, AcquireUnique
<1>4. /\ \A m \in AllLeaseIds \ {l} : n.leases[m] = s.leases[m]
      /\ n.leases[l] = LeaseOf(task, adapter, R, now, 2 * (s.rev + 1))
      /\ n.rev = s.rev + 1
      /\ \A r \in Resources : n.status[r] = IF r \in R THEN "IN_USE" ELSE s.status[r]
  BY <1>1 DEF AcquireSnapshot, Snapshot, SetStatus
<1> HIDE DEF n
<1>5. /\ Active(n, l) /\ Known(n, l) /\ ~Settled(n, l) /\ n.leases[l].resources = R
      /\ n.leases[l].acquiredAt = now /\ n.leases[l].pos = 2 * (s.rev + 1)
  BY <1>4 DEF LeaseOf, Active, Known, Settled
<1>6. \A m \in AllLeaseIds \ {l} : /\ Known(n, m) <=> Known(s, m)
                                   /\ Settled(n, m) <=> Settled(s, m)
  BY <1>4 DEF Known, Settled
<1>7. \A m \in AllLeaseIds : Known(s, m) => s.leases[m].pos \in Nat /\ s.leases[m].pos <= 2 * s.rev + 1
  BY <1>1, LeaseTyped DEF Sound, Placed
<1>8. Placed(n)
  <2> SUFFICES ASSUME NEW m \in AllLeaseIds, Known(n, m) PROVE n.leases[m].pos <= 2 * n.rev + 1
    BY DEF Placed
  <2>1. CASE m = l
    BY <1>1, <1>4, <1>5, <2>1
  <2>2. CASE m # l
    BY <1>1, <1>4, <1>6, <1>7, <2>2
  <2>3. QED
    BY <2>1, <2>2
<1>9. Present(n)
  <2> SUFFICES ASSUME NEW m \in AllLeaseIds, Known(n, m), NEW r \in n.leases[m].resources
               PROVE  n.status[r] # "ABSENT"
    BY DEF Present
  <2>1. r \in Resources
    BY <1>2, LeaseTyped
  <2>2. CASE r \in R
    BY <1>4, <2>1, <2>2
  <2>3. CASE r \notin R
    BY <1>4, <1>5, <1>6, <2>1, <2>3 DEF Sound, Present
  <2>4. QED
    BY <2>2, <2>3
<1>10. Timed(n)
  BY <1>4, <1>5, <1>6 DEF Sound, Timed
<1>11. ASSUME NEW r \in Resources
       PROVE  Ordered(n, r) /\ NewestDecides(n, r)
  <2>1. Ordered(s, r) /\ NewestDecides(s, r) /\ l \notin HistoryOf(s, r)
    BY DEF Sound, HistoryOf
  <2>2. CASE r \notin R
    <3>1. HistoryOf(n, r) = HistoryOf(s, r)
      BY <1>4, <1>5, <1>6, <2>1, <2>2 DEF HistoryOf
    <3>2. \A m \in HistoryOf(s, r) : n.leases[m] = s.leases[m]
      BY <1>4, <2>1 DEF HistoryOf
    <3>3. n.status[r] = s.status[r]
      BY <1>4, <2>2
    <3>4. QED
      BY <2>1, <3>1, <3>2, <3>3, UntouchedResource
  <2>3. CASE r \in R
    <3>1. HistoryOf(n, r) = HistoryOf(s, r) \cup {l}
      BY <1>1, <1>4, <1>5, <1>6, <2>3 DEF HistoryOf
    <3>2. \A m \in HistoryOf(s, r) : Settled(s, m)
      <4>1. ActiveOn(s, r) = {}
        BY <1>1, <2>3 DEF UniqueHolder
      <4>2. QED
        BY <1>1, <4>1, PhaseCases DEF ActiveOn, HistoryOf
    <3>3. \A m \in HistoryOf(s, r) : s.leases[m].target # "INVALID"
      BY <2>1, <2>3, <3>2 DEF NewestDecides
    <3>4. \A m \in HistoryOf(s, r) : s.leases[m].releasedAt <= now
      BY <2>3, <3>2 DEF NoOverlap, HistoryOf
    <3>5. \A m \in HistoryOf(s, r) : s.leases[m].pos < n.leases[l].pos
      BY <1>1, <1>5, <1>7 DEF HistoryOf
    <3>6. \A m \in HistoryOf(s, r) : n.leases[m] = s.leases[m] /\ Settled(n, m)
      BY <1>4, <1>6, <2>1, <3>2 DEF HistoryOf
    <3>7. \A m \in HistoryOf(s, r) :
            /\ n.leases[m].pos = s.leases[m].pos /\ n.leases[m].acquiredAt = s.leases[m].acquiredAt
            /\ s.leases[m].pos < n.leases[l].pos
            /\ Settled(n, m) /\ n.leases[m].releasedAt <= n.leases[l].acquiredAt
            /\ n.leases[m].target # "INVALID"
            /\ Settled(s, m) => n.leases[m].releasedAt = s.leases[m].releasedAt
      BY <1>5, <3>3, <3>4, <3>5, <3>6
    <3>8. n.leases[l].pos \in Nat
      BY <1>1, <1>5
    <3>9. QED
      BY <1>1, <1>5, <2>1, <3>1, <3>7, <3>8, AppendedLease
  <2>4. QED
    BY <2>2, <2>3
<1>12. Sound(n)
  BY <1>2, <1>3, <1>8, <1>9, <1>10, <1>11 DEF Sound
<1>13. QED
  BY <1>12 DEF n

LEMMA ReleaseSound ==
  ASSUME NEW s, Sound(s), NEW l \in LeaseIds, NEW target \in Targets,
         NEW reason \in AllReasons, NEW now \in Times,
         Active(s, l), s.leases[l].acquiredAt <= now
  PROVE  Sound(ReleaseSnapshot(s, l, target, reason, now))
<1> DEFINE n == ReleaseSnapshot(s, l, target, reason, now)
           R == s.leases[l].resources
<1>1. s \in Snapshot /\ UniqueHolder(s) /\ l \in AllLeaseIds /\ s.rev \in Nat /\ s.leases[l] \in Lease
  BY InvalidationIds, LeaseTyped DEF Sound
<1>2. n \in Snapshot
  BY <1>1, ReleaseType
<1>3. UniqueHolder(n)
  BY <1>1, ReleaseUnique
<1>4. /\ \A m \in AllLeaseIds \ {l} : n.leases[m] = s.leases[m]
      /\ n.leases[l] = Settle(s.leases[l], target, reason, now)
      /\ n.rev = s.rev + 1
      /\ \A r \in Resources : n.status[r] = IF r \in R THEN target ELSE s.status[r]
  BY <1>1 DEF ReleaseSnapshot, Snapshot, SetStatus
<1> HIDE DEF n
<1>5. /\ Settled(n, l) /\ Known(n, l) /\ n.leases[l].resources = R
      /\ n.leases[l].acquiredAt = s.leases[l].acquiredAt /\ n.leases[l].pos = s.leases[l].pos
      /\ n.leases[l].releasedAt = now /\ n.leases[l].target = target
  BY <1>1, <1>4 DEF Settle, Lease, Settled, Known
<1>6. \A m \in AllLeaseIds : Known(n, m) <=> Known(s, m)
  BY <1>4, <1>5 DEF Known, Active
<1>7. \A r \in Resources : HistoryOf(n, r) = HistoryOf(s, r)
  BY <1>4, <1>5, <1>6 DEF HistoryOf
<1>8. Placed(n)
  <2>1. \A m \in AllLeaseIds : s.leases[m].pos \in Nat /\ n.leases[m].pos = s.leases[m].pos
    BY <1>1, <1>4, <1>5, LeaseTyped
  <2>2. QED
    BY <1>1, <1>4, <1>6, <2>1 DEF Sound, Placed
<1>9. Present(n)
  <2>1. \A m \in AllLeaseIds : n.leases[m].resources = s.leases[m].resources
    BY <1>4, <1>5
  <2>2. \A m \in AllLeaseIds : s.leases[m].resources \subseteq Resources
    BY <1>1, LeaseTyped
  <2>3. QED
    BY <1>4, <1>6, <2>1, <2>2 DEF Sound, Present, Targets
<1>10. Timed(n)
  <2> SUFFICES ASSUME NEW m \in AllLeaseIds, Settled(n, m)
               PROVE  n.leases[m].acquiredAt <= n.leases[m].releasedAt
    BY DEF Timed
  <2>1. CASE m = l
    BY <1>5, <2>1
  <2>2. CASE m # l
    BY <1>4, <2>2 DEF Sound, Timed, Settled
  <2>3. QED
    BY <2>1, <2>2
<1>11. ASSUME NEW r \in Resources
       PROVE  Ordered(n, r) /\ NewestDecides(n, r)
  <2>1. Ordered(s, r) /\ NewestDecides(s, r) /\ HistoryOf(n, r) = HistoryOf(s, r)
    BY <1>7 DEF Sound
  <2>2. CASE r \notin R
    <3>1. \A m \in HistoryOf(s, r) : n.leases[m] = s.leases[m]
      BY <1>4, <2>2 DEF HistoryOf
    <3>2. n.status[r] = s.status[r]
      BY <1>4, <2>2
    <3>3. QED
      BY <2>1, <3>1, <3>2, UntouchedResource
  <2>3. CASE r \in R
    <3>1. l \in HistoryOf(s, r)
      BY <1>1, <2>3 DEF HistoryOf, Known, Active
    <3>2. \A m \in HistoryOf(s, r) \ {l} : n.leases[m] = s.leases[m]
      BY <1>4 DEF HistoryOf
    <3>3. n.status[r] = n.leases[l].target
      BY <1>4, <1>5, <2>3
    <3>4. QED
      BY <1>1, <1>5, <2>1, <3>1, <3>2, <3>3, EndedLease
  <2>4. QED
    BY <2>2, <2>3
<1>12. Sound(n)
  BY <1>2, <1>3, <1>8, <1>9, <1>10, <1>11 DEF Sound
<1>13. QED
  BY <1>12 DEF n

LEMMA SplitSound ==
  ASSUME NEW s, Sound(s), NEW l \in LeaseIds, NEW account \in Accounts, NEW now \in Times,
         Active(s, l), account \in s.leases[l].resources, ~Known(s, InvalidationOf(l)),
         s.leases[l].acquiredAt <= now
  PROVE  Sound(SplitSnapshot(s, l, account, now))
<1> DEFINE n == SplitSnapshot(s, l, account, now)
           R == s.leases[l].resources
           k == InvalidationOf(l)
           A == Settle(s.leases[l], "AVAILABLE", SplitRelease, now)
           B == Settle(LeaseOf(s.leases[l].task, s.leases[l].adapter, {account}, now,
                               s.leases[l].pos + 1), "INVALID", InvalidSession, now)
<1>1. /\ s \in Snapshot /\ UniqueHolder(s) /\ s.rev \in Nat /\ s.leases[l] \in Lease
      /\ l \in AllLeaseIds /\ k \in AllLeaseIds /\ k # l
      /\ s.leases[l].pos \in Nat /\ R \subseteq Resources
  BY InvalidationIds, LeaseTyped DEF Sound
<1>2. n \in Snapshot
  BY <1>1, SplitType
<1>3. UniqueHolder(n)
  BY <1>1, SplitUnique DEF Known, Active
<1>4. /\ n.leases = [s.leases EXCEPT ![l] = A, ![k] = B]
      /\ n.rev = s.rev + 1
      /\ n.status = [r \in Resources |-> CASE r = account -> "INVALID"
                                          [] r # account /\ r \in R -> "AVAILABLE"
                                          [] OTHER -> s.status[r]]
  BY DEF SplitSnapshot
<1>5. /\ A.phase = "settled" /\ A.resources = R /\ A.acquiredAt = s.leases[l].acquiredAt
      /\ A.pos = s.leases[l].pos /\ A.releasedAt = now /\ A.target = "AVAILABLE"
  BY <1>1 DEF Settle, Lease
<1>6. /\ B.phase = "settled" /\ B.resources = {account} /\ B.acquiredAt = now
      /\ B.pos = s.leases[l].pos + 1 /\ B.releasedAt = now /\ B.target = "INVALID"
  BY DEF Settle, LeaseOf
<1>7. ~Known(s, k)
  OBVIOUS
<1> HIDE DEF n, k, A, B
<1>8. /\ \A m \in AllLeaseIds \ {l, k} : n.leases[m] = s.leases[m]
      /\ n.leases[l] = A /\ n.leases[k] = B
  BY <1>1, <1>4 DEF Snapshot
<1>9. /\ Settled(n, l) /\ Known(n, l) /\ Settled(n, k) /\ Known(n, k) /\ Known(s, l)
  BY <1>5, <1>6, <1>8 DEF Settled, Known, Active
<1>10. \A m \in AllLeaseIds \ {l, k} : /\ Known(n, m) <=> Known(s, m)
                                       /\ Settled(n, m) <=> Settled(s, m)
  BY <1>8 DEF Known, Settled
<1>11. \A r \in Resources :
         /\ r = account => n.status[r] = "INVALID"
         /\ r # account /\ r \in R => n.status[r] = "AVAILABLE"
         /\ r \notin R => n.status[r] = s.status[r]
  <2> TAKE r \in Resources
  <2>1. CASE r = account
    BY <1>4, <2>1
  <2>2. CASE r # account /\ r \in R
    BY <1>4, <2>2
  <2>3. CASE r # account /\ r \notin R
    BY <1>4, <2>3
  <2>4. QED
    BY <2>1, <2>2, <2>3
<1>12. Placed(n)
  <2> SUFFICES ASSUME NEW m \in AllLeaseIds, Known(n, m) PROVE n.leases[m].pos <= 2 * n.rev + 1
    BY DEF Placed
  <2>1. s.leases[l].pos <= 2 * s.rev + 1
    BY <1>1, <1>9 DEF Sound, Placed
  <2>2. CASE m = l \/ m = k
    BY <1>1, <1>4, <1>5, <1>6, <1>8, <2>1, <2>2
  <2>3. CASE m # l /\ m # k
    <3>1. s.leases[m].pos \in Nat /\ s.leases[m].pos <= 2 * s.rev + 1
      BY <1>1, <1>10, <2>3, LeaseTyped DEF Sound, Placed
    <3>2. QED
      BY <1>1, <1>4, <1>8, <2>3, <3>1
  <2>4. QED
    BY <2>2, <2>3
<1>13. Present(n)
  <2> SUFFICES ASSUME NEW m \in AllLeaseIds, Known(n, m), NEW r \in n.leases[m].resources
               PROVE  n.status[r] # "ABSENT"
    BY DEF Present
  <2>1. r \in Resources
    BY <1>2, LeaseTyped
  <2>2. CASE r \in R
    BY <1>11, <2>1, <2>2
  <2>3. CASE r \notin R
    <3>1. m # l /\ m # k
      BY <1>5, <1>6, <1>8, <2>3
    <3>2. QED
      BY <1>8, <1>10, <1>11, <2>1, <2>3, <3>1 DEF Sound, Present
  <2>4. QED
    BY <2>2, <2>3
<1>14. Timed(n)
  <2> SUFFICES ASSUME NEW m \in AllLeaseIds, Settled(n, m)
               PROVE  n.leases[m].acquiredAt <= n.leases[m].releasedAt
    BY DEF Timed
  <2>1. now \in Nat
    BY BoundAssumption
  <2>2. CASE m = l \/ m = k
    BY <1>5, <1>6, <1>8, <2>1, <2>2
  <2>3. CASE m # l /\ m # k
    BY <1>8, <1>10, <2>3 DEF Sound, Timed
  <2>4. QED
    BY <2>2, <2>3
<1>15. ASSUME NEW r \in Resources
       PROVE  Ordered(n, r) /\ NewestDecides(n, r)
  <2>1. Ordered(s, r) /\ NewestDecides(s, r) /\ k \notin HistoryOf(s, r)
    BY <1>7 DEF Sound, HistoryOf
  <2>2. HistoryOf(n, r) = IF r = account THEN HistoryOf(s, r) \cup {k} ELSE HistoryOf(s, r)
    BY <1>1, <1>5, <1>6, <1>7, <1>8, <1>9, <1>10 DEF HistoryOf
  <2>3. CASE r \notin R
    <3>1. \A m \in HistoryOf(s, r) : n.leases[m] = s.leases[m]
      BY <1>8, <2>1, <2>3 DEF HistoryOf
    <3>2. n.status[r] = s.status[r] /\ r # account
      BY <1>11, <2>3
    <3>3. QED
      BY <2>1, <2>2, <3>1, <3>2, UntouchedResource
  <2>4. CASE r \in R
    <3>1. l \in HistoryOf(s, r)
      BY <1>1, <1>9, <2>4 DEF HistoryOf
    <3>2. \A m \in HistoryOf(s, r) \ {l} : n.leases[m] = s.leases[m]
      BY <1>8, <2>1 DEF HistoryOf
    <3>3. CASE r # account
      <4>1. n.status[r] = n.leases[l].target
        BY <1>5, <1>8, <1>11, <2>4, <3>3
      <4>2. QED
        BY <1>1, <1>5, <1>8, <2>1, <2>2, <3>1, <3>2, <3>3, <4>1, EndedLease
    <3>4. CASE r = account
      <4>1. \A m \in HistoryOf(s, r) \ {l} :
              Before(s, m, l) /\ Settled(s, m) /\ s.leases[m].releasedAt <= s.leases[l].acquiredAt
        BY <1>1, <2>1, <3>1, ActiveIsNewest
      <4>2. /\ now \in Nat /\ s.leases[l].acquiredAt \in Nat /\ ~Settled(s, l)
            /\ \A m \in HistoryOf(s, r) : s.leases[m].pos \in Nat /\ s.leases[m].releasedAt \in Nat
        BY <1>1, BoundAssumption, LeaseTyped, PhaseCases DEF HistoryOf
      <4>3. \A m \in HistoryOf(s, r) \ {l} : s.leases[m].target # "INVALID"
        <5> SUFFICES ASSUME NEW m \in HistoryOf(s, r) \ {l} PROVE ~Newest(s, r, m)
          BY <2>1, <4>1 DEF NewestDecides
        <5>1. ~Before(s, l, m)
          BY <4>1, <4>2, <3>1 DEF Before
        <5>2. QED
          BY <3>1, <5>1 DEF Newest
      <4>4. ASSUME NEW m \in HistoryOf(s, r)
            PROVE  /\ n.leases[m].pos = s.leases[m].pos
                   /\ n.leases[m].acquiredAt = s.leases[m].acquiredAt
                   /\ s.leases[m].pos < n.leases[k].pos
                   /\ Settled(n, m) /\ n.leases[m].releasedAt <= n.leases[k].acquiredAt
                   /\ n.leases[m].target # "INVALID"
                   /\ Settled(s, m) => n.leases[m].releasedAt = s.leases[m].releasedAt
        <5>1. CASE m = l
          BY <1>1, <1>5, <1>6, <1>8, <1>9, <4>2, <5>1
        <5>2. CASE m # l
          <6>1. n.leases[m] = s.leases[m] /\ Settled(n, m)
            BY <3>2, <4>1, <5>2 DEF Settled
          <6>2. s.leases[m].pos < s.leases[l].pos /\ s.leases[m].releasedAt <= now
            BY <4>1, <4>2, <5>2 DEF Before
          <6>3. QED
            BY <1>1, <1>6, <1>8, <4>2, <4>3, <5>2, <6>1, <6>2
        <5>3. QED
          BY <5>1, <5>2
      <4>5. n.leases[k].pos \in Nat
        BY <1>1, <1>6, <1>8
      <4>6. n.status[r] = n.leases[k].target
        BY <1>6, <1>8, <1>11, <3>4
      <4>7. HistoryOf(n, r) = HistoryOf(s, r) \cup {k}
        BY <2>2, <3>4
      <4>8. QED
        BY <1>1, <2>1, <4>4, <4>5, <4>6, <4>7, AppendedLease
    <3>5. QED
      BY <3>3, <3>4
  <2>5. QED
    BY <2>3, <2>4
<1>16. Sound(n)
  BY <1>2, <1>3, <1>12, <1>13, <1>14, <1>15 DEF Sound
<1>17. QED
  BY <1>16 DEF n

LEMMA SeedSound ==
  ASSUME NEW s, Sound(s), NEW n \in Snapshot, UniqueHolder(n),
         n.rev = s.rev + 1, n.leases = s.leases,
         \A r \in Resources : \/ n.status[r] = s.status[r]
                              \/ s.status[r] = "ABSENT" /\ n.status[r] \in Targets
  PROVE  Sound(n)
<1>1. s \in Snapshot /\ s.rev \in Nat
  BY DEF Sound, Snapshot
<1>2. \A m \in AllLeaseIds : (Known(n, m) <=> Known(s, m)) /\ (Settled(n, m) <=> Settled(s, m))
  BY DEF Known, Settled
<1>3. \A r \in Resources : HistoryOf(n, r) = HistoryOf(s, r)
  BY DEF HistoryOf, Known
<1>4. Placed(n)
  <2>1. \A m \in AllLeaseIds : s.leases[m].pos \in Nat
    BY <1>1, LeaseTyped
  <2>2. QED
    BY <1>1, <1>2, <2>1 DEF Sound, Placed
<1>5. Present(n)
  <2>1. \A m \in AllLeaseIds : s.leases[m].resources \subseteq Resources
    BY <1>1, LeaseTyped
  <2>2. QED
    BY <1>2, <2>1 DEF Sound, Present, Targets
<1>6. Timed(n)
  BY <1>2 DEF Sound, Timed
<1>7. ASSUME NEW r \in Resources
      PROVE  Ordered(n, r) /\ NewestDecides(n, r)
  <2>1. Ordered(s, r) /\ NewestDecides(s, r) /\ HistoryOf(n, r) = HistoryOf(s, r)
    BY <1>3 DEF Sound
  <2>2. CASE n.status[r] = s.status[r]
    BY <2>1, <2>2, UntouchedResource
  <2>3. CASE s.status[r] = "ABSENT"
    <3>1. HistoryOf(s, r) = {}
      BY <2>3 DEF HistoryOf, Sound, Present
    <3>2. QED
      BY <2>1, <3>1 DEF Ordered, NewestDecides
  <2>4. QED
    BY <2>2, <2>3
<1>8. QED
  BY <1>4, <1>5, <1>6, <1>7 DEF Sound

-----------------------------------------------------------------------------
(* Every action keeps the invariant. *)

\* Caller p alone moves on, and what it may commit now is sound.
SoundMove(p) ==
  /\ \A q \in Callers \ {p} : pc'[q] = pc[q] /\ next'[q] = next[q]
  /\ pc'[p] \in {"commit", "traced"} => Sound(next'[p])

LEMMA SoundMoveKeeps ==
  ASSUME HInv, NEW p \in Callers, SoundMove(p)
  PROVE  CopiesSound'
<1>1. \A q \in Callers : pc'[q] \in {"commit", "traced"} => Sound(next'[q])
  BY DEF HInv, CopiesSound, SoundMove
<1>2. QED
  BY <1>1 DEF CopiesSound, Sound, Placed, Present, Timed, Ordered, NewestDecides, HistoryOf, Before,
              Newest, UniqueHolder, ActiveOn, Active, Settled, Known

LEMMA ReturnSound ==
  ASSUME HInv, NEW p \in Callers, NEW v, Return(p, v)
  PROVE  SoundMove(p)
BY DEF HInv, IInv, TypeOK, Return, SoundMove

LEMMA ReloadSound ==
  ASSUME HInv, NEW p \in Callers, NEW o, Reload(p, o)
  PROVE  SoundMove(p)
BY DEF HInv, IInv, TypeOK, Reload, SoundMove

LEMMA SubmitSound ==
  ASSUME HInv, NEW p \in Callers, NEW o, NEW s, NEW E, Submit(p, o, s, E), Sound(s)
  PROVE  SoundMove(p)
BY DEF HInv, IInv, TypeOK, Submit, SoundMove

LEMMA RaiseSound ==
  ASSUME HInv, NEW p \in Callers, NEW error, CommitRaises(p, error)
  PROVE  SoundMove(p)
BY ReturnSound, ReloadSound DEF CommitRaises

LEMMA AcquireSubmitSound ==
  ASSUME HInv, NEW p \in Callers, AcquireSubmit(p)
  PROVE  SoundMove(p)
<1> DEFINE o == op[p]
           R == Select(durable, o.slots, o.adapter)
<1>1. /\ o \in AcquireOp /\ o.kind = "acquire" /\ Sound(durable) /\ ~Known(durable, o.lease)
      /\ o.lease \in LeaseIds /\ o.task \in Tasks /\ o.adapter \in Adapters
  BY OpKinds DEF AcquireSubmit, Acquiring, HInv, IInv, TypeOK, FreshIds, AcquireOp
<1>2. R \in SUBSET Resources /\ \A r \in R : durable.status[r] = "AVAILABLE"
  BY SelectIsResources DEF AcquireSubmit
<1> DEFINE s(now) == AcquireSnapshot(durable, o.lease, o.task, o.adapter, R, now)
<1>3. PICK now \in Times :
        \/ /\ NoOverlap(durable, R, now)
           /\ Submit(p, [o EXCEPT !.selected = R, !.retry = TRUE], s(now),
                     AcquiredEvents(o.lease, s(now).leases[o.lease]))
        \/ Return(p, "resource_state_conflict")
  BY DEF AcquireSubmit
<1> HIDE DEF R
<1>4. NoOverlap(durable, R, now) => Sound(s(now))
  BY <1>1, <1>2, AcquireSound
<1> HIDE DEF s
<1>5. QED
  BY <1>3, <1>4, SubmitSound, ReturnSound

LEMMA ReleaseSubmitSound ==
  ASSUME HInv, NEW p \in Callers, ReleaseSubmit(p)
  PROVE  SoundMove(p)
<1> DEFINE o == op[p]
           s(now) == ReleaseSnapshot(durable, o.lease, o.target, o.reason, now)
<1>1. /\ Sound(durable) /\ Active(durable, o.lease)
      /\ o.lease \in LeaseIds /\ o.target \in Targets /\ o.reason \in AllReasons
  BY OpKinds DEF ReleaseSubmit, Releasing, HInv, IInv, TypeOK, ReleaseOp
<1>2. PICK now \in Times :
        \/ /\ durable.leases[o.lease].acquiredAt <= now
           /\ Submit(p, o, s(now), CloseoutEvents(o.lease, s(now).leases[o.lease]))
        \/ Return(p, "resource_state_conflict")
  BY DEF ReleaseSubmit
<1>3. durable.leases[o.lease].acquiredAt <= now => Sound(s(now))
  BY <1>1, ReleaseSound
<1> HIDE DEF s
<1>4. QED
  BY <1>2, <1>3, SubmitSound, ReturnSound

LEMMA InvalidateSplitSound ==
  ASSUME HInv, NEW p \in Callers, InvalidateSplit(p)
  PROVE  SoundMove(p)
<1> DEFINE o == op[p]
           l == o.lease
           s(now) == SplitSnapshot(durable, l, o.account, now)
<1>1. /\ Sound(durable) /\ Active(durable, l) /\ o.account \in durable.leases[l].resources
      /\ l \in LeaseIds /\ o.account \in Accounts /\ Scoped(durable)
  BY OpKinds DEF InvalidateSplit, Invalidating, EvidenceFits, HInv, IInv, TypeOK, InvalidateOp
<1>2. ~Known(durable, InvalidationOf(l))
  BY <1>1, InvalidationIds DEF Scoped, Active, Settled
<1>3. PICK now \in Times :
        \/ /\ durable.leases[l].acquiredAt <= now
           /\ Submit(p, o, s(now), CloseoutEvents(l, s(now).leases[l])
                                   \cup TraceOf(s(now), InvalidationOf(l)))
        \/ Return(p, "resource_state_conflict")
  BY DEF InvalidateSplit
<1>4. durable.leases[l].acquiredAt <= now => Sound(s(now))
  BY <1>1, <1>2, SplitSound
<1> HIDE DEF s
<1>5. QED
  BY <1>3, <1>4, SubmitSound, ReturnSound

LEMMA CallerStepSound ==
  ASSUME HInv, NEW p \in Callers, CallerStep(p)
  PROVE  SoundMove(p) /\ (durable' = durable \/ Sound(durable'))
<1>1. CASE Call(p) \/ InvalidateRelease(p)
  BY <1>1, ReloadSound DEF Call, InvalidateRelease, files
<1>2. CASE LoadFails(p) \/ AcquireRefused(p) \/ ReleaseRefused(p) \/ ReleaseRepeated(p)
           \/ InvalidateRefused(p) \/ Crash(p)
  BY <1>2, ReturnSound DEF LoadFails, AcquireRefused, ReleaseRefused, ReleaseRepeated,
                           InvalidateRefused, Crash, files
<1>3. CASE AcquireSubmit(p)
  BY <1>3, AcquireSubmitSound DEF AcquireSubmit, files
<1>4. CASE ReleaseSubmit(p)
  BY <1>4, ReleaseSubmitSound DEF ReleaseSubmit, files
<1>5. CASE InvalidateSplit(p)
  BY <1>5, InvalidateSplitSound DEF InvalidateSplit, files
<1>6. CASE CommitStale(p) \/ CommitTraceConflict(p) \/ CommitTraceFails(p)
           \/ CommitRollback(p) \/ CommitRollbackFails(p)
  BY <1>6, RaiseSound DEF CommitStale, CommitTraceConflict, CommitTraceFails, CommitRollback,
                          CommitRollbackFails, files
<1>7. CASE CommitTrace(p)
  BY <1>7 DEF CommitTrace, Committing, HInv, IInv, TypeOK, CopiesSound, SoundMove
<1>8. CASE CommitSnapshot(p)
  BY <1>8, ReturnSound DEF CommitSnapshot, HInv, CopiesSound
<1>9. QED
  BY <1>1, <1>2, <1>3, <1>4, <1>5, <1>6, <1>7, <1>8 DEF CallerStep

-----------------------------------------------------------------------------
(* The theorems *)

LEMMA EmptyIsSound == Sound(EmptySnapshot)
<1>1. \A l \in AllLeaseIds : ~Known(EmptySnapshot, l) /\ ~Active(EmptySnapshot, l) /\ ~Settled(EmptySnapshot, l)
  BY DEF EmptySnapshot, NoLease, Known, Active, Settled
<1>2. \A r \in Resources : /\ ActiveOn(EmptySnapshot, r) = {} /\ HistoryOf(EmptySnapshot, r) = {}
                           /\ EmptySnapshot.status[r] = "ABSENT"
  BY <1>1 DEF ActiveOn, HistoryOf, EmptySnapshot
<1>3. QED
  BY <1>1, <1>2, EmptyIsSnapshot
     DEF Sound, UniqueHolder, Placed, Present, Timed, Ordered, NewestDecides

LEMMA NextHInv ==
  ASSUME HInv, [Next]_vars PROVE HInv'
<1>1. IInv'
  BY NextIInv DEF HInv
<1>2. CASE \E batch \in Batches : Seed(batch)
  <2>1. PICK batch \in Batches : Seed(batch)
    BY <1>2
  <2>2. SeedKeeps /\ pc' = pc /\ next' = next
    BY <2>1, SeedKeepsIInv DEF HInv, Seed
  <2>3. durable' \in Snapshot /\ UniqueHolder(durable')
    BY <1>1 DEF IInv, TypeOK, UniqueHolder, ActiveOn, Active
  <2>4. Sound(durable')
    BY <2>2, <2>3, SeedSound DEF HInv, SeedKeeps
  <2>5. CopiesSound'
    BY <2>2 DEF HInv, CopiesSound, Sound, Placed, Present, Timed, Ordered, NewestDecides, HistoryOf,
                Before, Newest, UniqueHolder, ActiveOn, Active, Settled, Known
  <2>6. QED
    BY <1>1, <2>4, <2>5 DEF HInv, Sound, Placed, Present, Timed, Ordered, NewestDecides, HistoryOf,
                Before, Newest, UniqueHolder, ActiveOn, Active, Settled, Known
<1>3. CASE \E p \in Callers : CallerStep(p)
  <2>1. PICK p \in Callers : CallerStep(p)
    BY <1>3
  <2>2. SoundMove(p) /\ Sound(durable')
    BY <2>1, CallerStepSound DEF HInv
  <2>3. CopiesSound'
    BY <2>2, SoundMoveKeeps
  <2>4. QED
    BY <1>1, <2>2, <2>3 DEF HInv, Sound, Placed, Present, Timed, Ordered, NewestDecides, HistoryOf,
                Before, Newest, UniqueHolder, ActiveOn, Active, Settled, Known
<1>4. CASE UNCHANGED vars
  BY <1>1, <1>4 DEF vars, HInv, CopiesSound, Sound, Placed, Present, Timed, Ordered, NewestDecides,
                HistoryOf, Before, Newest, UniqueHolder, ActiveOn, Active, Settled, Known
<1>5. QED
  BY <1>2, <1>3, <1>4 DEF Next

\* The leases of a resource follow one another in the list and by the clock.
THEOREM HistoryInvariance == Spec => []HInv
<1>1. Init => HInv
  BY InitIInv, EmptyIsSound DEF Init, HInv, CopiesSound
<1>2. HInv /\ [Next]_vars => HInv'
  BY NextHInv
<1>3. QED
  BY <1>1, <1>2, PTL DEF Spec

\* validate_snapshot accepts the snapshot file, so that no load fails on its
\* content, and accepts every snapshot a caller is about to write: the clock
\* checks of acquire and release are the only ones that can refuse an update.
THEOREM AlwaysValid == Spec => []SnapshotsValid
<1>1. HInv => SnapshotsValid
  BY SoundIsValid DEF HInv, CopiesSound, SnapshotsValid
<1>2. QED
  BY <1>1, HistoryInvariance, PTL

-----------------------------------------------------------------------------
(* The trace: the inductive invariant *)

\* The events that go with snapshot n of operation o.
News(n, o) ==
  IF o.kind = "acquire" THEN TraceOf(n, o.lease)
  ELSE IF o.kind = "release" THEN CloseoutEvents(o.lease, n.leases[o.lease])
  ELSE CloseoutEvents(o.lease, n.leases[o.lease]) \cup TraceOf(n, InvalidationOf(o.lease))

FreshFits == \A p \in Callers : pc[p] \in {"commit", "traced"} => fresh[p] = News(next[p], op[p])

\* Selection takes one resource for each slot, so that no lease has two accounts.
OneAccountIn(R) == \A a, b \in R \cap Accounts : a = b
AccountsSingle ==
  /\ \A l \in AllLeaseIds : OneAccountIn(durable.leases[l].resources)
  /\ \A p \in Callers : op[p].kind = "acquire" => OneAccountIn(op[p].selected)

\* An event is about a resource of its lease; or, when a split did not reach
\* the snapshot, about the account that the split would have invalidated.
EventFits(s, e) ==
  /\ Known(s, e.lease) => e.resource \in s.leases[e.lease].resources
  /\ \A l \in LeaseIds : e.lease = InvalidationOf(l) =>
       Known(s, l) /\ e.resource \in s.leases[l].resources \cap Accounts

\* No trace has a word on a lease that an acquire has not committed yet.
Unheard(E) == \A p \in Callers : op[p].kind = "acquire" => \A e \in E : e.lease # op[p].lease

\* What holds of the trace whenever no commit is between its two writes.
TraceHolds(E) ==
  /\ ValidTrace(E)
  /\ \A l \in AllLeaseIds : TraceOf(durable, l) \subseteq E
  /\ \A e \in E : EventFits(durable, e)
  /\ Unheard(E)

LockedTrace ==
  /\ lock = NoCaller => TraceHolds(events)
  /\ lock # NoCaller =>
       /\ pc[lock] = "traced"
       /\ events = undo \cup fresh[lock] /\ ValidTrace(events)
       /\ TraceHolds(undo)

TInv ==
  /\ IInv
  /\ FreshFits
  /\ AccountsSingle
  /\ LockedTrace

-----------------------------------------------------------------------------
(* What an operation changes, and what it says about it *)

LEMMA TraceCases ==
  ASSUME NEW s, NEW l
  PROVE  /\ Active(s, l) => TraceOf(s, l) = AcquiredEvents(l, s.leases[l])
         /\ Settled(s, l) => TraceOf(s, l) = AcquiredEvents(l, s.leases[l]) \cup CloseoutEvents(l, s.leases[l])
         /\ ~Known(s, l) => TraceOf(s, l) = {}
<1>1. CASE Active(s, l)
  BY <1>1 DEF TraceOf, Active, Settled, Known
<1>2. CASE Settled(s, l)
  BY <1>2 DEF TraceOf, Active, Settled, Known
<1>3. CASE ~Active(s, l) /\ ~Settled(s, l)
  BY <1>3 DEF TraceOf, Active, Settled, Known
<1>4. QED
  BY <1>1, <1>2, <1>3

LEMMA EventLease ==
  ASSUME NEW l, NEW lease
  PROVE  /\ \A e \in AcquiredEvents(l, lease) : e.lease = l /\ e.resource \in lease.resources /\ ~IsCloseout(e)
         /\ \A e \in CloseoutEvents(l, lease) : e.lease = l /\ e.resource \in lease.resources /\ IsCloseout(e)
         /\ \A r \in lease.resources : \E e \in AcquiredEvents(l, lease) : e.resource = r
         /\ \A r \in lease.resources : \E e \in CloseoutEvents(l, lease) : e.resource = r
<1>1. \A e \in AcquiredEvents(l, lease) : e.lease = l /\ e.resource \in lease.resources /\ ~IsCloseout(e)
  BY DEF AcquiredEvents, IsCloseout
<1>2. \A e \in CloseoutEvents(l, lease) : e.lease = l /\ e.resource \in lease.resources /\ IsCloseout(e)
  BY DEF CloseoutEvents, IsCloseout
<1>3. ASSUME NEW r \in lease.resources
      PROVE  /\ \E e \in AcquiredEvents(l, lease) : e.resource = r
             /\ \E e \in CloseoutEvents(l, lease) : e.resource = r
  <2> DEFINE a == [type |-> "acquired", lease |-> l, resource |-> r, at |-> lease.acquiredAt,
                   reason |-> "acquired_for_task"]
             c == [type |-> IF lease.target = "AVAILABLE" THEN "released" ELSE "invalidated",
                   lease |-> l, resource |-> r, at |-> lease.releasedAt, reason |-> lease.reason]
  <2>1. a \in AcquiredEvents(l, lease) /\ c \in CloseoutEvents(l, lease)
    BY DEF AcquiredEvents, CloseoutEvents
  <2>2. a.resource = r /\ c.resource = r
    OBVIOUS
  <2>3. QED
    BY <2>1, <2>2
<1>4. QED
  BY <1>1, <1>2, <1>3

LEMMA TraceLease ==
  ASSUME NEW s, NEW l
  PROVE  \A e \in TraceOf(s, l) : e.lease = l /\ e.resource \in s.leases[l].resources
<1>1. TraceOf(s, l) \subseteq AcquiredEvents(l, s.leases[l]) \cup CloseoutEvents(l, s.leases[l])
  BY TraceCases DEF Active, Settled, Known, TraceOf
<1>2. QED
  BY <1>1, EventLease

LEMMA SameLeaseSameTrace ==
  ASSUME NEW s, NEW n, NEW l, n.leases[l] = s.leases[l]
  PROVE  TraceOf(n, l) = TraceOf(s, l) /\ (Known(n, l) <=> Known(s, l))
BY DEF TraceOf, Active, Settled, Known

LEMMA OneEach ==
  ASSUME NEW s, NEW slots \in SlotRequests, NEW adapter, Selectable(s, slots, adapter)
  PROVE  OneAccountIn(Select(s, slots, adapter))
<1> DEFINE L(slot) == Lowest(Candidates(s, slot, adapter))
<1>1. \A slot \in slots : slot \in {"account", "proxy"}
  BY SlotAssumption
<1>2. "proxy" \in slots => L("proxy") \in Proxies
  <2>1. SUFFICES ASSUME "proxy" \in slots PROVE L("proxy") \in Proxies
    OBVIOUS
  <2>2. L("proxy") \in Candidates(s, "proxy", adapter)
    BY <2>1, LowestIsCandidate DEF Selectable
  <2>3. Candidates(s, "proxy", adapter) \subseteq Proxies
    BY DEF Candidates, ResourcesFor
  <2>4. QED
    BY <2>2, <2>3
<1>3. \A r \in Select(s, slots, adapter) \cap Accounts : r = L("account")
  <2>1. \A r \in Select(s, slots, adapter) : r = L("account") \/ ("proxy" \in slots /\ r = L("proxy"))
    BY <1>1 DEF Select
  <2> HIDE DEF L
  <2>2. QED
    BY <1>2, <2>1, ResourceAssumption
<1>4. QED
  BY <1>3 DEF OneAccountIn

\* What becomes of the leases when snapshot n of operation o replaces s.
LeasesMove(s, n, o) ==
  /\ \A m \in AllLeaseIds :
       m # o.lease /\ (o.kind = "invalidate" => m # InvalidationOf(o.lease))
         => n.leases[m] = s.leases[m]
  /\ o.kind = "acquire" =>
       /\ ~Known(s, o.lease) /\ Active(n, o.lease)
       /\ n.leases[o.lease].resources = o.selected
  /\ o.kind # "acquire" =>
       /\ Active(s, o.lease) /\ Settled(n, o.lease)
       /\ n.leases[o.lease].resources = s.leases[o.lease].resources
       /\ n.leases[o.lease].acquiredAt = s.leases[o.lease].acquiredAt
  /\ o.kind = "invalidate" =>
       /\ ~Known(s, InvalidationOf(o.lease)) /\ Settled(n, InvalidationOf(o.lease))
       /\ n.leases[InvalidationOf(o.lease)].resources = {o.account}
       /\ o.account \in s.leases[o.lease].resources \cap Accounts

LEMMA ProposedMoves ==
  ASSUME NEW s \in Snapshot, NEW o \in Op, NEW n, Scoped(s), Proposed(s, n, o)
  PROVE  /\ LeasesMove(s, n, o)
         /\ o.lease \in LeaseIds
         /\ o.kind \in {"acquire", "release", "invalidate"}
<1> DEFINE l == o.lease
           k == InvalidationOf(l)
<1>1. o.kind \in {"acquire", "release", "invalidate"}
  BY DEF Proposed
<1>2. l \in LeaseIds /\ l \in AllLeaseIds /\ k \in AllLeaseIds /\ k # l
  BY <1>1, OpKinds, InvalidationIds DEF AcquireOp, ReleaseOp, InvalidateOp
<1>3. s.leases[l] \in Lease
  BY <1>2 DEF Snapshot
<1>4. CASE o.kind = "acquire"
  <2>1. PICK now \in Times : n = AcquireSnapshot(s, l, o.task, o.adapter, o.selected, now)
    BY <1>4 DEF Proposed
  <2>2. n.leases = [s.leases EXCEPT ![l] = LeaseOf(o.task, o.adapter, o.selected, now, 2 * (s.rev + 1))]
    BY <2>1 DEF AcquireSnapshot
  <2>3. n.leases[l].phase = "active" /\ n.leases[l].resources = o.selected
    BY <1>2, <2>2 DEF Snapshot, LeaseOf
  <2>4. \A m \in AllLeaseIds \ {l} : n.leases[m] = s.leases[m]
    BY <2>2 DEF Snapshot
  <2>5. ~Known(s, l)
    BY <1>4 DEF Proposed
  <2>6. QED
    BY <1>2, <1>4, <2>3, <2>4, <2>5 DEF LeasesMove, Active
<1>5. CASE o.kind = "release"
  <2>1. PICK now \in Times : n = ReleaseSnapshot(s, l, o.target, o.reason, now)
    BY <1>5 DEF Proposed
  <2>2. n.leases = [s.leases EXCEPT ![l] = Settle(s.leases[l], o.target, o.reason, now)]
    BY <2>1 DEF ReleaseSnapshot
  <2>3. /\ n.leases[l].phase = "settled" /\ n.leases[l].resources = s.leases[l].resources
        /\ n.leases[l].acquiredAt = s.leases[l].acquiredAt
    BY <1>2, <1>3, <2>2 DEF Snapshot, Settle, Lease
  <2>4. \A m \in AllLeaseIds \ {l} : n.leases[m] = s.leases[m]
    BY <2>2 DEF Snapshot
  <2>5. Active(s, l)
    BY <1>5 DEF Proposed
  <2>6. QED
    BY <1>2, <1>5, <2>3, <2>4, <2>5 DEF LeasesMove, Settled
<1>6. CASE o.kind = "invalidate"
  <2>1. PICK now \in Times : n = SplitSnapshot(s, l, o.account, now)
    BY <1>6 DEF Proposed
  <2> DEFINE A == Settle(s.leases[l], "AVAILABLE", SplitRelease, now)
             B == Settle(LeaseOf(s.leases[l].task, s.leases[l].adapter, {o.account}, now,
                                 s.leases[l].pos + 1), "INVALID", InvalidSession, now)
  <2>2. n.leases = [s.leases EXCEPT ![l] = A, ![k] = B]
    BY <2>1 DEF SplitSnapshot
  <2>3. /\ A.phase = "settled" /\ A.resources = s.leases[l].resources
        /\ A.acquiredAt = s.leases[l].acquiredAt
    BY <1>3 DEF Settle, Lease
  <2>4. B.phase = "settled" /\ B.resources = {o.account}
    BY DEF Settle, LeaseOf
  <2>5. Active(s, l) /\ o.account \in s.leases[l].resources /\ o.account \in Accounts
    BY <1>6, OpKinds DEF Proposed, InvalidateOp
  <2>6. ~Known(s, k)
    BY <1>2, <2>5 DEF Scoped, Active, Settled
  <2> HIDE DEF A, B, k
  <2>7. /\ n.leases[l] = A /\ n.leases[k] = B
        /\ \A m \in AllLeaseIds \ {l, k} : n.leases[m] = s.leases[m]
    BY <1>2, <2>2 DEF Snapshot
  <2>8. QED
    BY <1>2, <1>6, <2>3, <2>4, <2>5, <2>6, <2>7 DEF LeasesMove, Settled, k
<1>7. QED
  BY <1>1, <1>2, <1>4, <1>5, <1>6

\* The events of an operation are about its lease, and fit the ledger whether
\* its snapshot is written or not.
LEMMA NewsFits ==
  ASSUME NEW s \in Snapshot, NEW o \in Op, NEW n, Scoped(s), Proposed(s, n, o)
  PROVE  \A e \in News(n, o) :
           /\ e.lease = o.lease \/ (o.kind = "invalidate" /\ e.lease = InvalidationOf(o.lease))
           /\ EventFits(s, e)
<1> DEFINE l == o.lease
           k == InvalidationOf(l)
<1>1. LeasesMove(s, n, o) /\ l \in LeaseIds /\ o.kind \in {"acquire", "release", "invalidate"}
  BY ProposedMoves
<1>2. \A m \in LeaseIds : InvalidationOf(m) # l
  BY <1>1, InvalidationIds
<1>3. \A m \in LeaseIds : k = InvalidationOf(m) => m = l
  BY <1>1, BoundAssumption DEF InvalidationOf, LeaseIds
<1>4. CASE o.kind = "acquire"
  <2>1. \A e \in News(n, o) : e.lease = l
    BY <1>4, TraceLease DEF News
  <2>2. ~Known(s, l)
    BY <1>1, <1>4 DEF LeasesMove
  <2>3. QED
    BY <1>2, <2>1, <2>2 DEF EventFits
<1>5. ASSUME NEW e, e.lease = l, e.resource \in n.leases[l].resources, o.kind # "acquire"
      PROVE  EventFits(s, e)
  BY <1>1, <1>2, <1>5 DEF EventFits, LeasesMove
<1>6. CASE o.kind = "release"
  <2>1. \A e \in News(n, o) : e.lease = l /\ e.resource \in n.leases[l].resources
    BY <1>6, EventLease DEF News
  <2>2. QED
    BY <1>5, <1>6, <2>1
<1>7. CASE o.kind = "invalidate"
  <2>1. \A e \in CloseoutEvents(l, n.leases[l]) : e.lease = l /\ e.resource \in n.leases[l].resources
    BY EventLease
  <2>2. \A e \in TraceOf(n, k) : e.lease = k /\ e.resource \in n.leases[k].resources
    BY TraceLease
  <2>3. n.leases[k].resources = {o.account} /\ o.account \in s.leases[l].resources \cap Accounts
        /\ ~Known(s, k) /\ Active(s, l)
    BY <1>1, <1>7 DEF LeasesMove
  <2>4. ASSUME NEW e, e.lease = k, e.resource \in n.leases[k].resources
        PROVE  EventFits(s, e)
    BY <1>3, <2>3, <2>4 DEF EventFits, Known, Active
  <2>5. News(n, o) = CloseoutEvents(l, n.leases[l]) \cup TraceOf(n, k)
    BY <1>7 DEF News
  <2>6. ASSUME NEW e \in News(n, o)
        PROVE  (e.lease = l \/ e.lease = k) /\ EventFits(s, e)
    BY <1>5, <1>7, <2>1, <2>2, <2>4, <2>5
  <2>7. QED
    BY <1>7, <2>6
<1>8. QED
  BY <1>1, <1>4, <1>6, <1>7

\* With the events of an operation the trace covers its snapshot.
LEMMA NewsComplete ==
  ASSUME NEW s \in Snapshot, NEW o \in Op, NEW n, Scoped(s), Proposed(s, n, o),
         NEW E, \A l \in AllLeaseIds : TraceOf(s, l) \subseteq E
  PROVE  \A l \in AllLeaseIds : TraceOf(n, l) \subseteq E \cup News(n, o)
<1> DEFINE l == o.lease
           k == InvalidationOf(l)
<1>1. LeasesMove(s, n, o) /\ l \in AllLeaseIds /\ o.kind \in {"acquire", "release", "invalidate"}
  BY ProposedMoves, InvalidationIds
<1>2. ASSUME NEW m \in AllLeaseIds, n.leases[m] = s.leases[m]
      PROVE  TraceOf(n, m) \subseteq E
  BY <1>2, SameLeaseSameTrace
<1>3. CASE o.kind = "acquire"
  <2>1. TraceOf(n, l) \subseteq News(n, o)
    BY <1>3 DEF News
  <2>2. \A m \in AllLeaseIds \ {l} : n.leases[m] = s.leases[m]
    BY <1>1, <1>3 DEF LeasesMove
  <2>3. QED
    BY <1>2, <2>1, <2>2
<1>4. ASSUME o.kind # "acquire"
      PROVE  TraceOf(n, l) \subseteq E \cup CloseoutEvents(l, n.leases[l])
  <2>1. TraceOf(n, l) = AcquiredEvents(l, n.leases[l]) \cup CloseoutEvents(l, n.leases[l])
    BY <1>1, <1>4, TraceCases DEF LeasesMove
  <2>2. TraceOf(s, l) = AcquiredEvents(l, s.leases[l])
    BY <1>1, <1>4, TraceCases DEF LeasesMove
  <2>3. AcquiredEvents(l, n.leases[l]) = AcquiredEvents(l, s.leases[l])
    BY <1>1, <1>4 DEF LeasesMove, AcquiredEvents
  <2>4. QED
    BY <1>1, <2>1, <2>2, <2>3
<1>5. CASE o.kind = "release"
  <2>1. News(n, o) = CloseoutEvents(l, n.leases[l])
    BY <1>5 DEF News
  <2>2. \A m \in AllLeaseIds \ {l} : n.leases[m] = s.leases[m]
    BY <1>1, <1>5 DEF LeasesMove
  <2>3. QED
    BY <1>2, <1>4, <1>5, <2>1, <2>2
<1>6. CASE o.kind = "invalidate"
  <2>1. News(n, o) = CloseoutEvents(l, n.leases[l]) \cup TraceOf(n, k)
    BY <1>6 DEF News
  <2>2. \A m \in AllLeaseIds \ {l, k} : n.leases[m] = s.leases[m]
    BY <1>1, <1>6 DEF LeasesMove
  <2>3. QED
    BY <1>2, <1>4, <1>6, <2>1, <2>2
<1>7. QED
  BY <1>1, <1>3, <1>5, <1>6

\* An event that fits the ledger fits it still when a snapshot is written.
\* For a split this takes that the lease has one account: what a failed split
\* left in the trace is about that account too.
LEMMA FitsStill ==
  ASSUME NEW s \in Snapshot, NEW o \in Op, NEW n, Scoped(s), Proposed(s, n, o),
         \A l \in AllLeaseIds : OneAccountIn(s.leases[l].resources),
         NEW e \in Event, EventFits(s, e),
         o.kind = "acquire" => e.lease # o.lease \/ e \in News(n, o)
  PROVE  EventFits(n, e)
<1> DEFINE l == o.lease
           k == InvalidationOf(l)
<1>1. /\ LeasesMove(s, n, o) /\ l \in AllLeaseIds /\ l \in LeaseIds
      /\ o.kind \in {"acquire", "release", "invalidate"}
  BY ProposedMoves, InvalidationIds
<1>2. \A m \in LeaseIds : InvalidationOf(m) # l
  BY <1>1, InvalidationIds
<1>3. \A m \in LeaseIds : k = InvalidationOf(m) => m = l
  BY <1>1, BoundAssumption DEF InvalidationOf, LeaseIds
<1>4. e.lease \in AllLeaseIds
  BY DEF Event
<1>5. CASE o.kind = "acquire"
  <2>1. \A m \in AllLeaseIds \ {l} : n.leases[m] = s.leases[m]
    BY <1>1, <1>5 DEF LeasesMove
  <2>2. ~Known(s, l)
    BY <1>1, <1>5 DEF LeasesMove
  <2>3. Known(n, e.lease) => e.resource \in n.leases[e.lease].resources
    <3>1. CASE e.lease = l
      <4>1. e \in TraceOf(n, l)
        BY <1>5, <3>1 DEF News
      <4>2. QED
        BY <3>1, <4>1, TraceLease
    <3>2. CASE e.lease # l
      BY <1>4, <2>1, <3>2 DEF EventFits, Known
    <3>3. QED
      BY <3>1, <3>2
  <2>4. ASSUME NEW m \in LeaseIds, e.lease = InvalidationOf(m)
        PROVE  Known(n, m) /\ e.resource \in n.leases[m].resources \cap Accounts
    <3>1. Known(s, m) /\ e.resource \in s.leases[m].resources \cap Accounts
      BY <2>4 DEF EventFits
    <3>2. m \in AllLeaseIds /\ m # l
      BY <2>2, <3>1, InvalidationIds
    <3>3. QED
      BY <2>1, <3>1, <3>2 DEF Known
  <2>5. QED
    BY <2>3, <2>4 DEF EventFits
<1>6. CASE o.kind # "acquire"
  <2>1. \A m \in AllLeaseIds : Known(s, m) => Known(n, m) /\ n.leases[m].resources = s.leases[m].resources
    <3> TAKE m \in AllLeaseIds
    <3>1. CASE m = l
      BY <1>1, <1>6, <3>1 DEF LeasesMove, Settled, Known
    <3>2. CASE o.kind = "invalidate" /\ m = k
      BY <1>1, <3>2 DEF LeasesMove
    <3>3. CASE m # l /\ ~(o.kind = "invalidate" /\ m = k)
      BY <1>1, <3>3 DEF LeasesMove, Known
    <3>4. QED
      BY <3>1, <3>2, <3>3
  <2>2. Known(n, e.lease) => e.resource \in n.leases[e.lease].resources
    <3>1. CASE o.kind = "invalidate" /\ e.lease = k
      <4>1. e.resource \in s.leases[l].resources \cap Accounts
        BY <1>1, <3>1 DEF EventFits
      <4>2. o.account \in s.leases[l].resources \cap Accounts /\ n.leases[k].resources = {o.account}
        BY <1>1, <3>1 DEF LeasesMove
      <4>3. e.resource = o.account
        BY <1>1, <4>1, <4>2 DEF OneAccountIn
      <4>4. QED
        BY <3>1, <4>2, <4>3
    <3>2. CASE ~(o.kind = "invalidate" /\ e.lease = k)
      <4>1. Known(n, e.lease) => Known(s, e.lease)
        BY <1>1, <1>4, <1>6, <3>2 DEF LeasesMove, Known, Active
      <4>2. QED
        BY <1>4, <2>1, <4>1 DEF EventFits
    <3>3. QED
      BY <3>1, <3>2
  <2>3. \A m \in LeaseIds : e.lease = InvalidationOf(m) =>
          Known(n, m) /\ e.resource \in n.leases[m].resources \cap Accounts
    BY <2>1, InvalidationIds DEF EventFits
  <2>4. QED
    BY <2>2, <2>3 DEF EventFits
<1>7. QED
  BY <1>5, <1>6

LEMMA AccountsStaySingle ==
  ASSUME NEW s \in Snapshot, NEW o \in Op, NEW n, Scoped(s), Proposed(s, n, o),
         \A l \in AllLeaseIds : OneAccountIn(s.leases[l].resources),
         o.kind = "acquire" => OneAccountIn(o.selected)
  PROVE  \A l \in AllLeaseIds : OneAccountIn(n.leases[l].resources)
<1> DEFINE l == o.lease
           k == InvalidationOf(l)
<1>1. LeasesMove(s, n, o) /\ l \in AllLeaseIds
  BY ProposedMoves, InvalidationIds
<1>2. OneAccountIn(n.leases[l].resources)
  BY <1>1 DEF LeasesMove
<1>3. o.kind = "invalidate" => OneAccountIn(n.leases[k].resources)
  BY <1>1 DEF LeasesMove, OneAccountIn
<1>4. \A m \in AllLeaseIds : m # l /\ (o.kind = "invalidate" => m # k) => n.leases[m] = s.leases[m]
  BY <1>1 DEF LeasesMove
<1>5. QED
  BY <1>2, <1>3, <1>4

-----------------------------------------------------------------------------
(* One caller moves, and nobody else notices *)

Moves(p) ==
  /\ \A q \in Callers \ {p} :
       pc'[q] = pc[q] /\ op'[q] = op[q] /\ next'[q] = next[q] /\ fresh'[q] = fresh[q]
  /\ pc'[p] \in {"idle", "load", "commit"}
  /\ op'[p].kind = "acquire" =>
       /\ OneAccountIn(op'[p].selected)
       /\ \/ op[p].kind = "acquire" /\ op'[p].lease = op[p].lease
          \/ op'[p].lease \in Unused
  /\ pc'[p] = "commit" => fresh'[p] = News(next'[p], op'[p])

LEMMA ReturnMoves ==
  ASSUME IInv, NEW p \in Callers, NEW v, Return(p, v)
  PROVE  Moves(p) /\ op'[p] = NoOp
BY NoneTyped DEF IInv, TypeOK, Return, Moves

LEMMA ReloadMoves ==
  ASSUME IInv, NEW p \in Callers, NEW o, Reload(p, o),
         o.kind = "acquire" =>
           /\ OneAccountIn(o.selected)
           /\ \/ op[p].kind = "acquire" /\ o.lease = op[p].lease
              \/ o.lease \in Unused
  PROVE  Moves(p) /\ op'[p] = o
BY DEF IInv, TypeOK, Reload, Moves

LEMMA SubmitMoves ==
  ASSUME IInv, NEW p \in Callers, NEW o, NEW s, NEW E, Submit(p, o, s, E),
         E = News(s, o),
         o.kind = "acquire" =>
           OneAccountIn(o.selected) /\ op[p].kind = "acquire" /\ o.lease = op[p].lease
  PROVE  Moves(p)
BY DEF IInv, TypeOK, Submit, Moves

LEMMA RaiseMoves ==
  ASSUME TInv, NEW p \in Callers, NEW error, CommitRaises(p, error)
  PROVE  Moves(p) /\ (error # "revision" => op'[p].kind # "acquire")
<1> DEFINE o == op[p]
<1>1. IInv /\ o \in Op /\ (o.kind = "acquire" => OneAccountIn(o.selected))
  BY DEF TInv, IInv, TypeOK, AccountsSingle
<1>2. CASE o.kind = "acquire" /\ error = "revision" /\ Reload(p, o)
  BY <1>1, <1>2, ReloadMoves
<1>3. CASE o.kind = "release" /\ Reload(p, [o EXCEPT !.error = error])
  <2> DEFINE u == [o EXCEPT !.error = error]
  <2>1. u.kind = "release"
    BY <1>1, <1>3, OpKinds DEF ReleaseOp
  <2>2. Reload(p, u)
    BY <1>3
  <2> HIDE DEF u
  <2>3. Moves(p) /\ op'[p] = u
    BY <1>1, <2>1, <2>2, ReloadMoves
  <2>4. QED
    BY <2>1, <2>3
<1>4. CASE Return(p, "resource_state_conflict")
  BY <1>1, <1>4, ReturnMoves, NoneTyped
<1>5. QED
  BY <1>2, <1>3, <1>4 DEF CommitRaises

LEMMA CallMoves ==
  ASSUME TInv, NEW p \in Callers, Call(p)
  PROVE  Moves(p)
<1>1. IInv /\ OneAccountIn({})
  BY DEF TInv, OneAccountIn
<1>2. CASE \E t \in Tasks, a \in Adapters, slots \in SlotRequests, l \in Unused :
             Reload(p, [kind |-> "acquire", task |-> t, adapter |-> a, slots |-> slots,
                        lease |-> l, selected |-> {}, retry |-> FALSE])
  <2>1. PICK t \in Tasks, a \in Adapters, slots \in SlotRequests, l \in Unused :
             Reload(p, [kind |-> "acquire", task |-> t, adapter |-> a, slots |-> slots,
                        lease |-> l, selected |-> {}, retry |-> FALSE])
    BY <1>2
  <2> DEFINE o == [kind |-> "acquire", task |-> t, adapter |-> a, slots |-> slots,
                   lease |-> l, selected |-> {}, retry |-> FALSE]
  <2>2. o.selected = {} /\ o.lease \in Unused /\ Reload(p, o)
    BY <2>1
  <2> HIDE DEF o
  <2>3. QED
    BY <1>1, <2>2, ReloadMoves
<1>3. CASE \E o : Reload(p, o) /\ o.kind # "acquire"
  BY <1>1, <1>3, ReloadMoves
<1>4. CASE \E t \in Tasks, l \in LeaseIds, target \in Targets, why \in Reasons :
             Reload(p, [kind |-> "release", task |-> t, lease |-> l, target |-> target,
                        reason |-> why, error |-> "none"])
  <2>1. PICK t \in Tasks, l \in LeaseIds, target \in Targets, why \in Reasons :
             Reload(p, [kind |-> "release", task |-> t, lease |-> l, target |-> target,
                        reason |-> why, error |-> "none"])
    BY <1>4
  <2> DEFINE o == [kind |-> "release", task |-> t, lease |-> l, target |-> target,
                   reason |-> why, error |-> "none"]
  <2>2. Reload(p, o) /\ o.kind # "acquire"
    BY <2>1
  <2> HIDE DEF o
  <2>3. QED
    BY <1>3, <2>2
<1>5. CASE \E t \in Tasks, l \in LeaseIds, r \in Accounts :
             Reload(p, [kind |-> "invalidate", task |-> t, lease |-> l, account |-> r])
  <2>1. PICK t \in Tasks, l \in LeaseIds, r \in Accounts :
             Reload(p, [kind |-> "invalidate", task |-> t, lease |-> l, account |-> r])
    BY <1>5
  <2> DEFINE o == [kind |-> "invalidate", task |-> t, lease |-> l, account |-> r]
  <2>2. Reload(p, o) /\ o.kind # "acquire"
    BY <2>1
  <2> HIDE DEF o
  <2>3. QED
    BY <1>3, <2>2
<1>6. QED
  BY <1>2, <1>4, <1>5 DEF Call

LEMMA AcquireMoves ==
  ASSUME TInv, NEW p \in Callers, AcquireRefused(p) \/ AcquireSubmit(p)
  PROVE  Moves(p)
<1> DEFINE o == op[p]
           R == Select(durable, o.slots, o.adapter)
<1>1. IInv /\ o \in AcquireOp
  BY OpKinds DEF AcquireRefused, AcquireSubmit, Acquiring, TInv, IInv, TypeOK
<1>2. CASE AcquireRefused(p)
  BY <1>1, <1>2, ReturnMoves DEF AcquireRefused
<1>3. CASE AcquireSubmit(p)
  <2>1. OneAccountIn(R)
    BY <1>1, <1>3, OneEach DEF AcquireSubmit, AcquireOp
  <2>2. PICK now \in Times :
          \/ Submit(p, [o EXCEPT !.selected = R, !.retry = TRUE],
                    AcquireSnapshot(durable, o.lease, o.task, o.adapter, R, now),
                    AcquiredEvents(o.lease,
                      AcquireSnapshot(durable, o.lease, o.task, o.adapter, R, now).leases[o.lease]))
          \/ Return(p, "resource_state_conflict")
    BY <1>3 DEF AcquireSubmit
  <2> DEFINE s == AcquireSnapshot(durable, o.lease, o.task, o.adapter, R, now)
             u == [o EXCEPT !.selected = R, !.retry = TRUE]
             E == AcquiredEvents(o.lease, s.leases[o.lease])
  <2> HIDE DEF R
  <2>3. u.kind = "acquire" /\ o.kind = "acquire" /\ u.lease = o.lease /\ u.selected = R
    BY <1>1 DEF AcquireOp
  <2>4. s.leases[o.lease].phase = "active"
    BY <1>1, InvalidationIds DEF AcquireOp, IInv, TypeOK, Snapshot, AcquireSnapshot, LeaseOf
  <2>5. Submit(p, u, s, E) \/ Return(p, "resource_state_conflict")
    BY <2>2
  <2>6. E = AcquiredEvents(o.lease, s.leases[o.lease])
    OBVIOUS
  <2> HIDE DEF u, s, E
  <2>7. E = News(s, u)
    BY <2>3, <2>4, <2>6, TraceCases DEF News, Active
  <2>8. QED
    BY <1>1, <2>1, <2>3, <2>5, <2>7, SubmitMoves, ReturnMoves
<1>4. QED
  BY <1>2, <1>3

LEMMA ReleaseMoves ==
  ASSUME TInv, NEW p \in Callers, ReleaseRefused(p) \/ ReleaseRepeated(p) \/ ReleaseSubmit(p)
  PROVE  Moves(p)
<1> DEFINE o == op[p]
<1>1. IInv /\ o.kind = "release"
  BY DEF ReleaseRefused, ReleaseRepeated, ReleaseSubmit, Releasing, TInv
<1>2. CASE ReleaseRefused(p) \/ ReleaseRepeated(p)
  <2>1. \E v : Return(p, v)
    BY <1>2 DEF ReleaseRefused, ReleaseRepeated
  <2>2. QED
    BY <1>1, <2>1, ReturnMoves
<1>3. CASE ReleaseSubmit(p)
  <2>1. PICK now \in Times :
          \/ Submit(p, o, ReleaseSnapshot(durable, o.lease, o.target, o.reason, now),
                    CloseoutEvents(o.lease,
                      ReleaseSnapshot(durable, o.lease, o.target, o.reason, now).leases[o.lease]))
          \/ Return(p, "resource_state_conflict")
    BY <1>3 DEF ReleaseSubmit
  <2> DEFINE s == ReleaseSnapshot(durable, o.lease, o.target, o.reason, now)
             E == CloseoutEvents(o.lease, s.leases[o.lease])
  <2>2. Submit(p, o, s, E) \/ Return(p, "resource_state_conflict")
    BY <2>1
  <2>3. E = News(s, o)
    BY <1>1 DEF News
  <2> HIDE DEF s, E
  <2>4. QED
    BY <1>1, <2>2, <2>3, SubmitMoves, ReturnMoves
<1>4. QED
  BY <1>2, <1>3

LEMMA InvalidateMoves ==
  ASSUME TInv, NEW p \in Callers,
         InvalidateRefused(p) \/ InvalidateRelease(p) \/ InvalidateSplit(p)
  PROVE  Moves(p)
<1> DEFINE o == op[p]
<1>1. IInv /\ o.kind = "invalidate"
  BY DEF InvalidateRefused, InvalidateRelease, InvalidateSplit, Invalidating, TInv
<1>2. CASE InvalidateRefused(p)
  BY <1>1, <1>2, ReturnMoves DEF InvalidateRefused
<1>3. CASE InvalidateRelease(p)
  <2> DEFINE u == [kind |-> "release", task |-> o.task, lease |-> o.lease,
                   target |-> "INVALID", reason |-> InvalidSession, error |-> "none"]
  <2>1. Reload(p, u) /\ u.kind # "acquire"
    BY <1>3 DEF InvalidateRelease
  <2> HIDE DEF u
  <2>2. QED
    BY <1>1, <2>1, ReloadMoves
<1>4. CASE InvalidateSplit(p)
  <2>1. PICK now \in Times :
          \/ Submit(p, o, SplitSnapshot(durable, o.lease, o.account, now),
                    CloseoutEvents(o.lease,
                      SplitSnapshot(durable, o.lease, o.account, now).leases[o.lease])
                    \cup TraceOf(SplitSnapshot(durable, o.lease, o.account, now),
                                 InvalidationOf(o.lease)))
          \/ Return(p, "resource_state_conflict")
    BY <1>4 DEF InvalidateSplit
  <2> DEFINE s == SplitSnapshot(durable, o.lease, o.account, now)
             E == CloseoutEvents(o.lease, s.leases[o.lease]) \cup TraceOf(s, InvalidationOf(o.lease))
  <2>2. Submit(p, o, s, E) \/ Return(p, "resource_state_conflict")
    BY <2>1
  <2>3. E = CloseoutEvents(o.lease, s.leases[o.lease]) \cup TraceOf(s, InvalidationOf(o.lease))
    OBVIOUS
  <2> HIDE DEF s, E
  <2>4. E = News(s, o)
    BY <1>1, <2>3 DEF News
  <2>5. QED
    BY <1>1, <2>2, <2>4, SubmitMoves, ReturnMoves
<1>5. QED
  BY <1>2, <1>3, <1>4

-----------------------------------------------------------------------------
(* Every action keeps the invariant. *)

LEMMA MovesKeep ==
  ASSUME TInv, NEW p \in Callers, Moves(p), durable' = durable
  PROVE  FreshFits' /\ AccountsSingle'
<1>1. ASSUME NEW q \in Callers, pc'[q] \in {"commit", "traced"}
      PROVE  fresh'[q] = News(next'[q], op'[q])
  BY <1>1 DEF TInv, FreshFits, Moves
<1>2. ASSUME NEW q \in Callers, op'[q].kind = "acquire"
      PROVE  OneAccountIn(op'[q].selected)
  BY <1>2 DEF TInv, AccountsSingle, Moves
<1>3. FreshFits'
  BY <1>1 DEF FreshFits, News
<1>4. AccountsSingle'
  BY <1>2 DEF TInv, AccountsSingle, OneAccountIn
<1>5. QED
  BY <1>3, <1>4

LEMMA MovesUnheard ==
  ASSUME NEW p \in Callers, Moves(p), NEW E, E \subseteq events, Unheard(E)
  PROVE  \A q \in Callers : op'[q].kind = "acquire" => \A e \in E : e.lease # op'[q].lease
BY DEF Moves, Unheard, Unused

\* The locks are free, or some other caller holds them.
LEMMA LocalKeepsTInv ==
  ASSUME TInv, IInv', NEW p \in Callers, Moves(p), UNCHANGED files, pc[p] # "traced"
  PROVE  TInv'
<1>1. durable' = durable /\ events' = events /\ lock' = lock /\ undo' = undo
  BY DEF files
<1>2. FreshFits' /\ AccountsSingle'
  BY <1>1, MovesKeep
<1>3. CASE lock = NoCaller
  <2>1. TraceHolds(events)
    BY <1>3 DEF TInv, LockedTrace
  <2>2. \A q \in Callers : op'[q].kind = "acquire" => \A e \in events : e.lease # op'[q].lease
    BY <2>1, MovesUnheard DEF TraceHolds
  <2>3. TraceHolds(events)'
    BY <1>1, <2>1, <2>2 DEF TraceHolds, Unheard, TraceOf, Active, Settled, EventFits, Known, ValidTrace
  <2>4. QED
    BY <1>1, <1>2, <1>3, <2>3 DEF TInv, LockedTrace
<1>4. CASE lock # NoCaller
  <2>1. /\ lock \in Callers \ {p} /\ pc[lock] = "traced"
        /\ events = undo \cup fresh[lock] /\ ValidTrace(events) /\ TraceHolds(undo)
    BY <1>4 DEF TInv, LockedTrace, IInv, TypeOK
  <2>2. pc'[lock] = "traced" /\ fresh'[lock] = fresh[lock]
    BY <2>1 DEF Moves
  <2>3. \A q \in Callers : op'[q].kind = "acquire" => \A e \in undo : e.lease # op'[q].lease
    BY <2>1, MovesUnheard DEF TraceHolds
  <2>4. TraceHolds(undo)'
    BY <1>1, <2>1, <2>3 DEF TraceHolds, Unheard, TraceOf, Active, Settled, EventFits, Known, ValidTrace
  <2>5. QED
    BY <1>1, <1>2, <1>4, <2>1, <2>2, <2>4 DEF TInv, LockedTrace, ValidTrace
<1>5. QED
  BY <1>3, <1>4

LEMMA QuietKeepsTInv ==
  ASSUME TInv, IInv', NEW p \in Callers,
         \/ Call(p) \/ LoadFails(p) \/ AcquireRefused(p) \/ AcquireSubmit(p)
         \/ ReleaseRefused(p) \/ ReleaseRepeated(p) \/ ReleaseSubmit(p)
         \/ InvalidateRefused(p) \/ InvalidateRelease(p) \/ InvalidateSplit(p)
         \/ CommitStale(p) \/ CommitTraceConflict(p) \/ CommitTraceFails(p)
  PROVE  TInv'
<1>1. IInv
  BY DEF TInv
<1>2. CASE Call(p)
  <2>1. UNCHANGED files /\ pc[p] # "traced"
    BY <1>2 DEF Call
  <2>2. QED
    BY <1>2, <2>1, CallMoves, LocalKeepsTInv
<1>3. CASE LoadFails(p)
  <2>1. UNCHANGED files /\ pc[p] # "traced"
    BY <1>3 DEF LoadFails
  <2>2. Moves(p)
    BY <1>1, <1>3, ReturnMoves DEF LoadFails
  <2>3. QED
    BY <2>1, <2>2, LocalKeepsTInv
<1>4. CASE AcquireRefused(p) \/ AcquireSubmit(p)
  <2>1. UNCHANGED files /\ pc[p] # "traced"
    BY <1>4 DEF AcquireRefused, AcquireSubmit, Acquiring
  <2>2. QED
    BY <1>4, <2>1, AcquireMoves, LocalKeepsTInv
<1>5. CASE ReleaseRefused(p) \/ ReleaseRepeated(p) \/ ReleaseSubmit(p)
  <2>1. UNCHANGED files /\ pc[p] # "traced"
    BY <1>5 DEF ReleaseRefused, ReleaseRepeated, ReleaseSubmit, Releasing
  <2>2. QED
    BY <1>5, <2>1, ReleaseMoves, LocalKeepsTInv
<1>6. CASE InvalidateRefused(p) \/ InvalidateRelease(p) \/ InvalidateSplit(p)
  <2>1. UNCHANGED files /\ pc[p] # "traced"
    BY <1>6 DEF InvalidateRefused, InvalidateRelease, InvalidateSplit, Invalidating
  <2>2. QED
    BY <1>6, <2>1, InvalidateMoves, LocalKeepsTInv
<1>7. CASE CommitStale(p) \/ CommitTraceConflict(p) \/ CommitTraceFails(p)
  <2>1. UNCHANGED files /\ pc[p] # "traced"
    BY <1>7 DEF CommitStale, CommitTraceConflict, CommitTraceFails, Committing
  <2>2. Moves(p)
    BY <1>7, RaiseMoves DEF CommitStale, CommitTraceConflict, CommitTraceFails
  <2>3. QED
    BY <2>1, <2>2, LocalKeepsTInv
<1>8. QED
  BY <1>2, <1>3, <1>4, <1>5, <1>6, <1>7

\* The first of the two writes.
LEMMA CommitTraceKeepsTInv ==
  ASSUME TInv, IInv', NEW p \in Callers, CommitTrace(p)
  PROVE  TInv'
<1>1. /\ lock = NoCaller /\ pc[p] = "commit" /\ ValidTrace(events \cup fresh[p])
      /\ events' = events \cup fresh[p] /\ undo' = events /\ lock' = p
      /\ durable' = durable /\ op' = op /\ next' = next /\ fresh' = fresh
      /\ pc' = [pc EXCEPT ![p] = "traced"]
  BY DEF CommitTrace, Committing
<1>2. pc'[p] = "traced" /\ \A q \in Callers \ {p} : pc'[q] = pc[q]
  BY <1>1 DEF TInv, IInv, TypeOK
<1>3. lock' # NoCaller
  BY <1>1, CallerAssumption DEF NoCaller
<1>4. FreshFits'
  BY <1>1, <1>2 DEF TInv, FreshFits, News
<1>5. AccountsSingle'
  BY <1>1 DEF TInv, AccountsSingle, OneAccountIn
<1>6. TraceHolds(events)
  BY <1>1 DEF TInv, LockedTrace
<1>7. TraceHolds(undo)'
  BY <1>1, <1>6 DEF TraceHolds, Unheard, TraceOf, Active, Settled, EventFits, Known, ValidTrace
<1>8. ValidTrace(events)'
  BY <1>1 DEF ValidTrace
<1>9. LockedTrace'
  BY <1>1, <1>2, <1>3, <1>7, <1>8 DEF LockedTrace
<1>10. QED
  BY <1>4, <1>5, <1>9 DEF TInv

LEMMA Holder ==
  ASSUME TInv, NEW p \in Callers, pc[p] = "traced"
  PROVE  /\ lock = p /\ lock # NoCaller
         /\ events = undo \cup fresh[p] /\ ValidTrace(events) /\ TraceHolds(undo)
         /\ fresh[p] = News(next[p], op[p])
         /\ Proposed(durable, next[p], op[p])
         /\ op[p] \in Op /\ durable \in Snapshot /\ Scoped(durable)
         /\ \A q \in Callers \ {p} : pc[q] # "traced"
<1>1. lock = p /\ next[p].rev = durable.rev + 1 /\ \A q \in Callers \ {p} : pc[q] # "traced"
  BY DEF TInv, IInv, LockHeld
<1>2. lock # NoCaller
  BY <1>1, CallerAssumption DEF NoCaller
<1>3. events = undo \cup fresh[p] /\ ValidTrace(events) /\ TraceHolds(undo)
  BY <1>1, <1>2 DEF TInv, LockedTrace
<1>4. fresh[p] = News(next[p], op[p])
  BY DEF TInv, FreshFits
<1>5. Proposed(durable, next[p], op[p])
  BY <1>1 DEF TInv, IInv, CopiesFit
<1>6. op[p] \in Op /\ durable \in Snapshot /\ Scoped(durable)
  BY DEF TInv, IInv, TypeOK
<1>7. QED
  BY <1>1, <1>2, <1>3, <1>4, <1>5, <1>6

\* Nobody else has a lease of the holder's events in mind.
LEMMA NewsUnheard ==
  ASSUME TInv, NEW p \in Callers, pc[p] = "traced",
         NEW q \in Callers \ {p}, op[q].kind = "acquire"
  PROVE  \A e \in fresh[p] : e.lease # op[q].lease
<1>1. op[q].lease \in LeaseIds /\ ~Known(durable, op[q].lease)
  BY OpKinds DEF TInv, IInv, TypeOK, FreshIds, AcquireOp
<1>2. \A e \in fresh[p] : /\ EventFits(durable, e)
                          /\ \/ e.lease = op[p].lease
                             \/ op[p].kind = "invalidate" /\ e.lease = InvalidationOf(op[p].lease)
  BY Holder, NewsFits
<1>3. LeasesMove(durable, next[p], op[p]) /\ op[p].lease \in LeaseIds
  BY Holder, ProposedMoves
<1>4. op[p].kind = "acquire" => op[p].lease # op[q].lease
  BY DEF TInv, IInv, FreshIds
<1>5. op[p].kind # "acquire" => op[p].lease # op[q].lease
  BY <1>1, <1>3 DEF LeasesMove, Known, Active
<1>6. InvalidationOf(op[p].lease) # op[q].lease
  BY <1>1, <1>3, InvalidationIds
<1>7. QED
  BY <1>2, <1>4, <1>5, <1>6

\* The second write: the ledger catches up with the trace.
LEMMA CommitSnapshotKeepsTInv ==
  ASSUME TInv, IInv', NEW p \in Callers, CommitSnapshot(p)
  PROVE  TInv'
<1> DEFINE o == op[p]
           n == next[p]
<1>1. pc[p] = "traced" /\ durable' = n /\ lock' = NoCaller /\ undo' = {} /\ events' = events
  BY DEF CommitSnapshot, Unlock
<1>2. /\ lock = p /\ events = undo \cup fresh[p] /\ ValidTrace(events) /\ TraceHolds(undo)
      /\ fresh[p] = News(n, o) /\ Proposed(durable, n, o)
      /\ o \in Op /\ durable \in Snapshot /\ Scoped(durable)
  BY <1>1, Holder
<1>3. \A l \in AllLeaseIds : OneAccountIn(durable.leases[l].resources)
  BY DEF TInv, AccountsSingle
<1>4. /\ op'[p] = NoOp /\ pc'[p] = "idle"
      /\ \A q \in Callers \ {p} :
           pc'[q] = pc[q] /\ op'[q] = op[q] /\ next'[q] = next[q] /\ fresh'[q] = fresh[q]
  BY DEF TInv, IInv, TypeOK, CommitSnapshot, Return
<1>5. FreshFits'
  BY <1>4 DEF TInv, FreshFits, News
<1>6. AccountsSingle'
  <2>1. o.kind = "acquire" => OneAccountIn(o.selected)
    BY DEF TInv, AccountsSingle
  <2>2. \A l \in AllLeaseIds : OneAccountIn(n.leases[l].resources)
    BY <1>2, <1>3, <2>1, AccountsStaySingle
  <2>3. \A q \in Callers : op'[q].kind = "acquire" => OneAccountIn(op'[q].selected)
    BY <1>4, NoneTyped DEF TInv, AccountsSingle
  <2>4. QED
    BY <1>1, <2>2, <2>3 DEF AccountsSingle, OneAccountIn
<1>7. \A l \in AllLeaseIds : TraceOf(n, l) \subseteq events
  <2>1. \A l \in AllLeaseIds : TraceOf(durable, l) \subseteq undo
    BY <1>2 DEF TraceHolds
  <2>2. QED
    BY <1>2, <2>1, NewsComplete
<1>8. \A e \in events : EventFits(n, e)
  <2> SUFFICES ASSUME NEW e \in events PROVE EventFits(n, e)
    OBVIOUS
  <2>1. e \in Event
    BY DEF TInv, IInv, TypeOK
  <2>2. EventFits(durable, e)
    BY <1>2, NewsFits DEF TraceHolds
  <2>3. o.kind = "acquire" => e.lease # o.lease \/ e \in News(n, o)
    BY <1>2 DEF TraceHolds, Unheard
  <2>4. QED
    BY <1>2, <1>3, <2>1, <2>2, <2>3, FitsStill
<1>9. \A q \in Callers : op'[q].kind = "acquire" => \A e \in events : e.lease # op'[q].lease
  <2> SUFFICES ASSUME NEW q \in Callers, op'[q].kind = "acquire"
               PROVE  \A e \in events : e.lease # op'[q].lease
    OBVIOUS
  <2>1. q # p /\ op'[q] = op[q]
    BY <1>4, NoneTyped
  <2>2. \A e \in undo : e.lease # op[q].lease
    BY <1>2, <2>1 DEF TraceHolds, Unheard
  <2>3. \A e \in fresh[p] : e.lease # op[q].lease
    BY <1>1, <2>1, NewsUnheard
  <2>4. QED
    BY <1>2, <2>1, <2>2, <2>3
<1>10. TraceHolds(events)'
  BY <1>1, <1>2, <1>7, <1>8, <1>9
     DEF TraceHolds, Unheard, TraceOf, Active, Settled, EventFits, Known, ValidTrace
<1>11. QED
  BY <1>1, <1>5, <1>6, <1>10 DEF TInv, LockedTrace

\* The old trace is back in its place.
LEMMA CommitRollbackKeepsTInv ==
  ASSUME TInv, IInv', NEW p \in Callers, CommitRollback(p)
  PROVE  TInv'
<1>1. pc[p] = "traced" /\ durable' = durable /\ lock' = NoCaller /\ undo' = {} /\ events' = undo
  BY DEF CommitRollback, Unlock
<1>2. TraceHolds(undo) /\ undo \subseteq events
  BY <1>1, Holder
<1>3. Moves(p)
  BY RaiseMoves DEF CommitRollback
<1>4. FreshFits' /\ AccountsSingle'
  BY <1>1, <1>3, MovesKeep
<1>5. \A q \in Callers : op'[q].kind = "acquire" => \A e \in undo : e.lease # op'[q].lease
  BY <1>2, <1>3, MovesUnheard DEF TraceHolds
<1>6. TraceHolds(events)'
  BY <1>1, <1>2, <1>5 DEF TraceHolds, Unheard, TraceOf, Active, Settled, EventFits, Known, ValidTrace
<1>7. QED
  BY <1>1, <1>4, <1>6 DEF TInv, LockedTrace

\* The holder leaves its events behind: they fit the ledger all the same.
LEMMA OrphansKeepTInv ==
  ASSUME TInv, IInv', NEW p \in Callers, pc[p] = "traced", Moves(p), op'[p].kind # "acquire",
         Unlock, durable' = durable, events' = events
  PROVE  TInv'
<1>1. /\ events = undo \cup fresh[p] /\ ValidTrace(events) /\ TraceHolds(undo)
      /\ fresh[p] = News(next[p], op[p]) /\ Proposed(durable, next[p], op[p])
      /\ op[p] \in Op /\ durable \in Snapshot /\ Scoped(durable)
  BY Holder
<1>2. FreshFits' /\ AccountsSingle'
  BY MovesKeep
<1>3. \A e \in events : EventFits(durable, e)
  BY <1>1, NewsFits DEF TraceHolds
<1>4. \A q \in Callers : op'[q].kind = "acquire" => \A e \in events : e.lease # op'[q].lease
  <2> SUFFICES ASSUME NEW q \in Callers, op'[q].kind = "acquire"
               PROVE  \A e \in events : e.lease # op'[q].lease
    OBVIOUS
  <2>1. q # p /\ op'[q] = op[q]
    BY DEF Moves
  <2>2. \A e \in undo : e.lease # op[q].lease
    BY <1>1, <2>1 DEF TraceHolds, Unheard
  <2>3. \A e \in fresh[p] : e.lease # op[q].lease
    BY <2>1, NewsUnheard
  <2>4. QED
    BY <1>1, <2>1, <2>2, <2>3
<1>5. \A l \in AllLeaseIds : TraceOf(durable, l) \subseteq events
  BY <1>1 DEF TraceHolds
<1>6. TraceHolds(events)'
  BY <1>1, <1>3, <1>4, <1>5
     DEF TraceHolds, Unheard, TraceOf, Active, Settled, EventFits, Known, ValidTrace
<1>7. QED
  BY <1>2, <1>6 DEF TInv, LockedTrace, Unlock

LEMMA CrashKeepsTInv ==
  ASSUME TInv, IInv', NEW p \in Callers, CommitRollbackFails(p) \/ Crash(p)
  PROVE  TInv'
<1>1. IInv
  BY DEF TInv
<1>2. CASE CommitRollbackFails(p)
  <2>1. Moves(p) /\ op'[p].kind # "acquire"
    BY <1>2, RaiseMoves DEF CommitRollbackFails
  <2>2. QED
    BY <1>2, <2>1, OrphansKeepTInv DEF CommitRollbackFails
<1>3. CASE Crash(p)
  <2>1. Moves(p) /\ op'[p].kind # "acquire" /\ durable' = durable /\ events' = events
    BY <1>1, <1>3, ReturnMoves, NoneTyped DEF Crash
  <2>2. CASE pc[p] = "traced"
    <3>1. Unlock
      BY <1>3, <2>2, Holder DEF Crash
    <3>2. QED
      BY <2>1, <2>2, <3>1, OrphansKeepTInv
  <2>3. CASE pc[p] # "traced"
    <3>1. lock # p
      BY <2>3, CallerAssumption DEF TInv, LockedTrace, NoCaller
    <3>2. UNCHANGED files
      BY <1>3, <2>1, <3>1 DEF Crash, files
    <3>3. QED
      BY <2>1, <2>3, <3>2, LocalKeepsTInv
  <2>4. QED
    BY <2>2, <2>3
<1>4. QED
  BY <1>2, <1>3

LEMMA SeedKeepsTInv ==
  ASSUME TInv, IInv', NEW batch \in Batches, Seed(batch)
  PROVE  TInv'
<1>1. durable'.leases = durable.leases
  BY SeedKeepsIInv DEF TInv, SeedKeeps
<1>2. UNCHANGED <<events, lock, undo, pc, op, next, fresh>> /\ lock = NoCaller
  BY DEF Seed
<1>3. FreshFits' /\ AccountsSingle'
  BY <1>1, <1>2 DEF TInv, FreshFits, AccountsSingle, News, OneAccountIn
<1>4. TraceHolds(events)
  BY <1>2 DEF TInv, LockedTrace
<1>5. TraceHolds(events)'
  BY <1>1, <1>2, <1>4
     DEF TraceHolds, Unheard, TraceOf, Active, Settled, EventFits, Known, ValidTrace
<1>6. QED
  BY <1>2, <1>3, <1>5 DEF TInv, LockedTrace

-----------------------------------------------------------------------------
(* The theorems *)

LEMMA InitTInv ==
  ASSUME Init PROVE TInv
<1>1. IInv
  BY InitIInv
<1>2. /\ durable = EmptySnapshot /\ events = {} /\ lock = NoCaller
      /\ \A p \in Callers : pc[p] = "idle" /\ op[p] = NoOp
  BY DEF Init
<1>3. \A l \in AllLeaseIds : durable.leases[l] = NoLease
  BY <1>2 DEF EmptySnapshot
<1>4. \A l \in AllLeaseIds : ~Known(durable, l) /\ durable.leases[l].resources = {}
  BY <1>3 DEF Known, NoLease
<1>5. FreshFits
  BY <1>2 DEF FreshFits
<1>6. AccountsSingle
  BY <1>2, <1>4, NoneTyped DEF AccountsSingle, OneAccountIn
<1>7. TraceHolds(events)
  <2>1. \A l \in AllLeaseIds : TraceOf(durable, l) = {}
    BY <1>4, TraceCases
  <2>2. QED
    BY <1>2, <2>1 DEF TraceHolds, ValidTrace, Unheard
<1>8. QED
  BY <1>1, <1>2, <1>5, <1>6, <1>7 DEF TInv, LockedTrace

LEMMA NextTInv ==
  ASSUME TInv, [Next]_vars PROVE TInv'
<1>1. IInv'
  BY NextIInv DEF TInv
<1>2. CASE \E batch \in Batches : Seed(batch)
  BY <1>1, <1>2, SeedKeepsTInv
<1>3. CASE \E p \in Callers : CallerStep(p)
  <2>1. PICK p \in Callers : CallerStep(p)
    BY <1>3
  <2>2. CASE CommitTrace(p)
    BY <1>1, <2>2, CommitTraceKeepsTInv
  <2>3. CASE CommitSnapshot(p)
    BY <1>1, <2>3, CommitSnapshotKeepsTInv
  <2>4. CASE CommitRollback(p)
    BY <1>1, <2>4, CommitRollbackKeepsTInv
  <2>5. CASE CommitRollbackFails(p) \/ Crash(p)
    BY <1>1, <2>5, CrashKeepsTInv
  <2>6. QED
    BY <1>1, <2>1, <2>2, <2>3, <2>4, <2>5, QuietKeepsTInv DEF CallerStep
<1>4. CASE UNCHANGED vars
  <2>1. UNCHANGED <<durable, events, lock, undo, pc, op, next, fresh>>
    BY <1>4 DEF vars
  <2>2. FreshFits' /\ AccountsSingle'
    BY <2>1 DEF TInv, FreshFits, AccountsSingle, News, OneAccountIn
  <2>3. TraceHolds(events) => TraceHolds(events)'
    BY <2>1 DEF TraceHolds, Unheard, TraceOf, Active, Settled, EventFits, Known, ValidTrace
  <2>4. TraceHolds(undo) => TraceHolds(undo)'
    BY <2>1 DEF TraceHolds, Unheard, TraceOf, Active, Settled, EventFits, Known, ValidTrace
  <2>5. LockedTrace'
    BY <2>1, <2>3, <2>4 DEF TInv, LockedTrace, ValidTrace
  <2>6. QED
    BY <1>1, <2>2, <2>5 DEF TInv
<1>5. QED
  BY <1>2, <1>3, <1>4 DEF Next

\* What the trace and the ledger have to do with each other, at every crash point.
THEOREM TraceInvariance == Spec => []TInv
<1>1. Init => TInv
  BY InitTInv
<1>2. TInv /\ [Next]_vars => TInv'
  BY NextTInv
<1>3. QED
  BY <1>1, <1>2, PTL DEF Spec

\* The events of a settled lease are all there is about it, in a valid trace
\* whose events fit the ledger.
LEMMA SettledExactly ==
  ASSUME NEW E, ValidTrace(E), NEW l \in AllLeaseIds, Settled(durable, l),
         TraceOf(durable, l) \subseteq E, \A e \in E : EventFits(durable, e)
  PROVE  {e \in E : e.lease = l} = TraceOf(durable, l)
<1> DEFINE A == AcquiredEvents(l, durable.leases[l])
           C == CloseoutEvents(l, durable.leases[l])
<1>1. TraceOf(durable, l) = A \cup C
  BY TraceCases
<1>2. ASSUME NEW e \in E, e.lease = l
      PROVE  e \in A \cup C
  <2>1. e.resource \in durable.leases[l].resources
    BY <1>2 DEF EventFits, Settled, Known
  <2>2. PICK a \in A : a.resource = e.resource
    BY <2>1, EventLease
  <2>3. PICK c \in C : c.resource = e.resource
    BY <2>1, EventLease
  <2>4. a \in E /\ c \in E /\ a.lease = l /\ c.lease = l /\ ~IsCloseout(a) /\ IsCloseout(c)
    BY <1>1, EventLease
  <2>5. e = a \/ e = c
    <3>1. CASE IsCloseout(e)
      <4>1. IsCloseout(e) = IsCloseout(c)
        BY <3>1, <2>4 DEF IsCloseout
      <4>2. QED
        BY <1>2, <2>3, <2>4, <4>1 DEF ValidTrace
    <3>2. CASE ~IsCloseout(e)
      <4>1. IsCloseout(e) = IsCloseout(a)
        BY <3>2, <2>4 DEF IsCloseout
      <4>2. QED
        BY <1>2, <2>2, <2>4, <4>1 DEF ValidTrace
    <3>3. QED
      BY <3>1, <3>2
  <2>6. QED
    BY <2>5
<1>3. \A e \in TraceOf(durable, l) : e \in E /\ e.lease = l
  BY TraceLease
<1>4. QED
  BY <1>1, <1>2, <1>3

\* A transition visible in the ledger is in the trace, and nothing else about
\* that lease is, whatever fails or dies between the two writes (FR-0011).
THEOREM TraceCovers == Spec => []TraceCoversLedger
<1>1. TInv => TraceCoversLedger
  <2> SUFFICES ASSUME TInv, NEW l \in AllLeaseIds
               PROVE  /\ TraceOf(durable, l) \subseteq events
                      /\ Settled(durable, l) => {e \in events : e.lease = l} = TraceOf(durable, l)
    BY DEF TraceCoversLedger
  <2>1. CASE lock = NoCaller
    <3>1. TraceHolds(events)
      BY <2>1 DEF TInv, LockedTrace
    <3>2. QED
      BY <3>1, SettledExactly DEF TraceHolds
  <2>2. CASE lock # NoCaller
    <3>1. lock \in Callers /\ pc[lock] = "traced"
      BY <2>2 DEF TInv, LockedTrace, IInv, TypeOK
    <3>2. PICK p \in Callers : p = lock
      BY <3>1
    <3>3. /\ events = undo \cup fresh[p] /\ ValidTrace(events) /\ TraceHolds(undo)
          /\ fresh[p] = News(next[p], op[p]) /\ Proposed(durable, next[p], op[p])
          /\ op[p] \in Op /\ durable \in Snapshot /\ Scoped(durable)
      BY <3>1, <3>2, Holder
    <3>4. \A e \in events : EventFits(durable, e)
      BY <3>3, NewsFits DEF TraceHolds
    <3>5. TraceOf(durable, l) \subseteq events
      BY <3>3 DEF TraceHolds
    <3>6. QED
      BY <3>3, <3>4, <3>5, SettledExactly
  <2>3. QED
    BY <2>1, <2>2
<1>2. QED
  BY <1>1, TraceInvariance, PTL

-----------------------------------------------------------------------------
(* Without a crash and without a failed write back *)

Said(s) == UNION {TraceOf(s, l) : l \in AllLeaseIds}

LInv ==
  /\ lock = NoCaller => events = Said(durable)
  /\ lock # NoCaller => undo = Said(durable)

LEMMA NewsExact ==
  ASSUME NEW s \in Snapshot, NEW o \in Op, NEW n, Scoped(s), Proposed(s, n, o)
  PROVE  Said(n) = Said(s) \cup News(n, o)
<1> DEFINE l == o.lease
           k == InvalidationOf(l)
<1>1. LeasesMove(s, n, o) /\ o.kind \in {"acquire", "release", "invalidate"}
      /\ l \in AllLeaseIds /\ k \in AllLeaseIds
  BY ProposedMoves, InvalidationIds
<1>2. \A m \in AllLeaseIds : TraceOf(s, m) \subseteq Said(s)
  BY DEF Said
<1>3. Said(n) \subseteq Said(s) \cup News(n, o)
  <2>1. \A m \in AllLeaseIds : TraceOf(n, m) \subseteq Said(s) \cup News(n, o)
    BY <1>2, NewsComplete
  <2>2. QED
    BY <2>1 DEF Said
<1>4. News(n, o) \subseteq Said(n)
  <2>1. o.kind # "acquire" => CloseoutEvents(l, n.leases[l]) \subseteq TraceOf(n, l)
    BY <1>1, TraceCases DEF LeasesMove
  <2>2. News(n, o) \subseteq TraceOf(n, l) \cup TraceOf(n, k)
    BY <2>1 DEF News
  <2>3. QED
    BY <1>1, <2>2 DEF Said
<1>5. \A m \in AllLeaseIds : TraceOf(s, m) \subseteq TraceOf(n, m)
  <2> TAKE m \in AllLeaseIds
  <2>1. CASE n.leases[m] = s.leases[m]
    BY <2>1, SameLeaseSameTrace
  <2>2. CASE ~Known(s, m)
    BY <2>2, TraceCases
  <2>3. CASE o.kind # "acquire" /\ m = l
    <3>1. TraceOf(s, l) = AcquiredEvents(l, s.leases[l])
      BY <1>1, <2>3, TraceCases DEF LeasesMove
    <3>2. AcquiredEvents(l, n.leases[l]) \subseteq TraceOf(n, l)
      BY <1>1, <2>3, TraceCases DEF LeasesMove
    <3>3. AcquiredEvents(l, n.leases[l]) = AcquiredEvents(l, s.leases[l])
      BY <1>1, <2>3 DEF LeasesMove, AcquiredEvents
    <3>4. QED
      BY <2>3, <3>1, <3>2, <3>3
  <2>4. QED
    BY <1>1, <2>1, <2>2, <2>3 DEF LeasesMove
<1>6. Said(s) \subseteq Said(n)
  BY <1>5 DEF Said
<1>7. QED
  BY <1>3, <1>4, <1>6

\* Only the roll back that fails and the crash part the two files: with neither,
\* the trace says between commits exactly what the ledger says, however often a
\* snapshot cannot be written.
THEOREM Lockstep ==
  ASSUME "rollback" \notin FaultKinds, "crash" \notin FaultKinds
  PROVE  Spec => []TraceInLockstep
<1>1. Init => LInv
  <2> SUFFICES ASSUME Init PROVE LInv
    OBVIOUS
  <2>1. \A l \in AllLeaseIds : TraceOf(durable, l) = {}
    <3>1. \A l \in AllLeaseIds : ~Known(durable, l)
      BY DEF Init, EmptySnapshot, NoLease, Known
    <3>2. QED
      BY <3>1, TraceCases
  <2>2. QED
    BY <2>1 DEF Init, LInv, Said
<1>2. TInv /\ LInv /\ [Next]_vars => LInv'
  <2> SUFFICES ASSUME TInv, LInv, [Next]_vars PROVE LInv'
    OBVIOUS
  <2>1. CASE \E batch \in Batches : Seed(batch)
    <3>1. durable'.leases = durable.leases
      BY <2>1, SeedKeepsIInv DEF TInv, SeedKeeps
    <3>2. QED
      BY <2>1, <3>1 DEF LInv, Said, Seed, TraceOf, Active, Settled
  <2>2. CASE UNCHANGED files
    BY <2>2 DEF files, LInv, Said, TraceOf, Active, Settled
  <2>3. CASE \E p \in Callers : CommitTrace(p)
    <3>1. PICK p \in Callers : CommitTrace(p)
      BY <2>3
    <3>2. /\ lock = NoCaller /\ lock' = p /\ undo' = events /\ durable' = durable
          /\ lock' # NoCaller
      BY <3>1, CallerAssumption DEF CommitTrace, Committing, NoCaller
    <3>3. QED
      BY <3>2 DEF LInv, Said, TraceOf, Active, Settled
  <2>4. CASE \E p \in Callers : CommitSnapshot(p)
    <3>1. PICK p \in Callers : CommitSnapshot(p)
      BY <2>4
    <3>2. pc[p] = "traced" /\ durable' = next[p] /\ lock' = NoCaller /\ events' = events
      BY <3>1 DEF CommitSnapshot, Unlock
    <3>3. /\ lock # NoCaller /\ events = undo \cup fresh[p] /\ fresh[p] = News(next[p], op[p])
          /\ Proposed(durable, next[p], op[p])
          /\ op[p] \in Op /\ durable \in Snapshot /\ Scoped(durable)
      BY <3>2, Holder
    <3>4. Said(next[p]) = Said(durable) \cup News(next[p], op[p])
      BY <3>3, NewsExact
    <3>5. events' = Said(next[p])
      BY <3>2, <3>3, <3>4 DEF LInv
    <3>6. QED
      BY <3>2, <3>5 DEF LInv, Said, TraceOf, Active, Settled
  <2>5. CASE \E p \in Callers : CommitRollback(p)
    <3>1. PICK p \in Callers : CommitRollback(p)
      BY <2>5
    <3>2. pc[p] = "traced" /\ durable' = durable /\ lock' = NoCaller /\ events' = undo
      BY <3>1 DEF CommitRollback, Unlock
    <3>3. lock # NoCaller
      BY <3>2, Holder
    <3>4. QED
      BY <3>2, <3>3 DEF LInv, Said, TraceOf, Active, Settled
  <2>6. \A p \in Callers : ~CommitRollbackFails(p) /\ ~Crash(p)
    BY DEF CommitRollbackFails, Crash, Fault
  <2>7. ASSUME NEW p \in Callers, CallerStep(p), ~CommitTrace(p), ~CommitSnapshot(p),
               ~CommitRollback(p)
        PROVE  UNCHANGED files
    BY <2>6, <2>7 DEF CallerStep, Call, LoadFails, AcquireRefused, AcquireSubmit, ReleaseRefused,
      ReleaseRepeated, ReleaseSubmit, InvalidateRefused, InvalidateRelease, InvalidateSplit,
      CommitStale, CommitTraceConflict, CommitTraceFails
  <2>8. UNCHANGED vars => UNCHANGED files
    BY DEF vars, files
  <2>9. QED
    BY <2>1, <2>2, <2>3, <2>4, <2>5, <2>7, <2>8 DEF Next
<1>3. LInv => TraceInLockstep
  BY DEF LInv, TraceInLockstep, Said
<1>4. QED
  BY <1>1, <1>2, <1>3, TraceInvariance, PTL DEF Spec
=============================================================================
