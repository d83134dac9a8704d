-------------------------- MODULE ExecutionControl --------------------------
(***************************************************************************)
(* How Syvert's Core runs a task that passed validation (syvert/runtime.py, *)
(* execute_task_internal): admission to a concurrency scope, the durable    *)
(* task record, and the attempts, each of which leases resources, occupies  *)
(* a slot and runs the adapter in a thread of its own that a timeout may    *)
(* leave behind.                                                            *)
(*                                                                         *)
(* The ledger of resources is used through what ResourceLifecycle is shown  *)
(* to implement, ResourcePool.  Every task is a thread of one process.      *)
(***************************************************************************)
EXTENDS Integers, FiniteSets

CONSTANTS
  Tasks,
  Scopes, ScopeOf,   \* the scope key of each task's policy
  MaxInFlight,       \* policy.concurrency.max_in_flight of each task
  MaxAttempts,       \* policy.retry.max_attempts of each task
  Repeatable,        \* tasks whose capability may be retried
  Managed,           \* tasks that request resource slots
  Resources,
  Bundles            \* the sets of resources an acquire may select

Nobody == "nobody"

ASSUME TaskAssumption == IsFiniteSet(Tasks) /\ Nobody \notin Tasks
ASSUME ScopeAssumption == ScopeOf \in [Tasks -> Scopes]
ASSUME PolicyAssumption ==
  /\ MaxInFlight \in [Tasks -> Nat \ {0}]
  /\ MaxAttempts \in [Tasks -> Nat \ {0}]
ASSUME BundleAssumption == Bundles \subseteq SUBSET Resources /\ {} \notin Bundles

\* One lease per attempt that gets its resources.
Leases == Tasks \X (Nat \ {0})
NoLease == <<Nobody, 0>>

VARIABLES
  guard,     \* _EXECUTION_CONCURRENCY_ADMISSION_GUARDS: who holds each scope's lock
  inFlight,  \* _EXECUTION_CONCURRENCY_IN_FLIGHT: the counter of each scope
  state, holder, spent,  \* the resource pool
  record,    \* status of each task's durable record
  pc,        \* where the thread of each task is
  attempt,   \* attempt_index, 0 before the first
  slots,     \* tasks whose attempt has a slot and will release it itself
  joiners,   \* tasks whose slot a joiner thread releases after the adapter's exit
  running,   \* adapter threads that have not ended
  outcome,   \* what the envelope in hand says
  target     \* the status its resources are to be released with

globals == <<guard, inFlight>>
pool == <<state, holder, spent>>
locals == <<attempt, slots, joiners, running, outcome, target>>
vars == <<globals, pool, record, pc, locals>>

Pool == INSTANCE ResourcePool WITH Leases <- Leases, Nobody <- NoLease

LeaseOf(t) == <<t, attempt[t]>>
Holds(t) == Pool!HeldBy(LeaseOf(t)) # {}
Scope(t) == ScopeOf[t]

AdapterThread == [task : Tasks, attempt : Nat \ {0}, uses : SUBSET Resources]
ThreadOf(t) == [task |-> t, attempt |-> attempt[t], uses |-> Pool!HeldBy(LeaseOf(t))]
Left(t) == {a \in running : a.task = t}
Current(t) == {a \in Left(t) : a.attempt = attempt[t]}

TypeOK ==
  /\ guard \in [Scopes -> Tasks \cup {Nobody}]
  /\ inFlight \in [Scopes -> Nat]
  /\ state \in [Resources -> {"ABSENT", "AVAILABLE", "IN_USE", "INVALID"}]
  /\ holder \in [Resources -> Leases \cup {NoLease}]
  /\ spent \subseteq Leases
  /\ record \in [Tasks -> {"none", "accepted", "running", "succeeded", "failed", "invalid"}]
  /\ pc \in [Tasks -> {"idle", "guard", "check", "accept", "start", "match", "acquire",
                       "resolve", "slot", "launch", "run", "grace", "settle", "finish", "decide",
                       "finalize", "done"}]
  /\ attempt \in [Tasks -> Nat]
  /\ slots \subseteq Tasks /\ joiners \subseteq Tasks
  /\ running \subseteq AdapterThread
  /\ outcome \in [Tasks -> {"none", "success", "retryable", "failed", "raised"}]
  /\ target \in [Tasks -> {"AVAILABLE", "INVALID"}]

Init ==
  /\ guard = [s \in Scopes |-> Nobody]
  /\ inFlight = [s \in Scopes |-> 0]
  /\ state = [r \in Resources |-> "AVAILABLE"]
  /\ holder = [r \in Resources |-> NoLease]
  /\ spent = {}
  /\ record = [t \in Tasks |-> "none"]
  /\ pc = [t \in Tasks |-> "idle"]
  /\ attempt = [t \in Tasks |-> 0]
  /\ slots = {} /\ joiners = {} /\ running = {}
  /\ outcome = [t \in Tasks |-> "none"]
  /\ target = [t \in Tasks |-> "AVAILABLE"]

At(t, from) == pc[t] = from
GoTo(t, to) == pc' = [pc EXCEPT ![t] = to]
Conclude(t, what, status) ==
  /\ outcome' = [outcome EXCEPT ![t] = what]
  /\ target' = [target EXCEPT ![t] = status]
ReleaseGuard(t) == guard' = [guard EXCEPT ![Scope(t)] = Nobody]

-----------------------------------------------------------------------------
(* Admission: the guard of the scope, then a look at the counter *)

Submit(t) ==
  /\ At(t, "idle") /\ GoTo(t, "guard")
  /\ UNCHANGED <<globals, pool, record, locals>>

\* lock.acquire(), which blocks; before the first attempt and before a retry.
TakeGuard(t) ==
  /\ At(t, "guard") /\ guard[Scope(t)] = Nobody
  /\ guard' = [guard EXCEPT ![Scope(t)] = t]
  /\ GoTo(t, "check")
  /\ UNCHANGED <<inFlight, pool, record, locals>>

\* Mutant: one too many.
IsSlotAvailableOffByOne(t) == inFlight[Scope(t)] <= MaxInFlight[t]
IsSlotAvailable(t) == inFlight[Scope(t)] < MaxInFlight[t]

\* Mutant: the guard is given up once the check has passed.
AdmitUnguarded(t) ==
  /\ At(t, "check") /\ IsSlotAvailable(t)
  /\ ReleaseGuard(t)
  /\ attempt' = [attempt EXCEPT ![t] = @ + 1]
  /\ GoTo(t, IF attempt[t] = 0 THEN "accept" ELSE "acquire")
  /\ UNCHANGED <<inFlight, pool, record, slots, joiners, running, outcome, target>>

\* The guard stays taken until the slot is.
Admit(t) ==
  /\ At(t, "check") /\ IsSlotAvailable(t)
  /\ attempt' = [attempt EXCEPT ![t] = @ + 1]
  /\ GoTo(t, IF attempt[t] = 0 THEN "accept" ELSE "acquire")
  /\ UNCHANGED <<globals, pool, record, slots, joiners, running, outcome, target>>

\* A first attempt is rejected without a record; a retry ends with the envelope
\* of the attempt before.
Reject(t) ==
  /\ At(t, "check") /\ ~IsSlotAvailable(t)
  /\ ReleaseGuard(t)
  /\ GoTo(t, IF attempt[t] = 0 THEN "done" ELSE "finalize")
  /\ UNCHANGED <<inFlight, pool, record, locals>>

-----------------------------------------------------------------------------
(* The task record, with the guard held *)

\* persist_task_record: a failed write is answered by mark_invalid, which may
\* fail as well or, on a conflict, is not even tried.
PersistFails(t) == record' \in {record, [record EXCEPT ![t] = "invalid"]}

PersistAccepted(t) ==
  /\ At(t, "accept")
  /\ \/ /\ record' = [record EXCEPT ![t] = "accepted"]
        /\ GoTo(t, "start") /\ UNCHANGED guard
     \/ PersistFails(t) /\ ReleaseGuard(t) /\ GoTo(t, "done")
  /\ UNCHANGED <<inFlight, pool, locals>>

\* Mutant: this early return keeps the guard.
PersistRunningKeepingGuard(t) ==
  /\ At(t, "start")
  /\ \/ record' = [record EXCEPT ![t] = "running"] /\ GoTo(t, "match")
     \/ PersistFails(t) /\ GoTo(t, "done")
  /\ UNCHANGED <<globals, pool, locals>>

PersistRunning(t) ==
  /\ At(t, "start")
  /\ \/ /\ record' = [record EXCEPT ![t] = "running"]
        /\ GoTo(t, "match") /\ UNCHANGED guard
     \/ PersistFails(t) /\ ReleaseGuard(t) /\ GoTo(t, "done")
  /\ UNCHANGED <<inFlight, pool, locals>>

\* match_resource_capabilities decides for the tasks that request resources.
Match(t) ==
  /\ At(t, "match")
  /\ \/ GoTo(t, "acquire") /\ UNCHANGED <<guard, outcome, target>>
     \/ /\ t \in Managed
        /\ Conclude(t, "failed", "AVAILABLE")
        /\ ReleaseGuard(t) /\ GoTo(t, "finalize")
  /\ UNCHANGED <<inFlight, pool, record, attempt, slots, joiners, running>>

-----------------------------------------------------------------------------
(* An attempt up to the start of its adapter, with the guard held *)

Acquire(t) ==
  /\ At(t, "acquire")
  /\ \/ /\ t \notin Managed
        /\ GoTo(t, "slot") /\ UNCHANGED <<pool, outcome, target>>
     \/ /\ t \in Managed
        /\ \E R \in Bundles : Pool!Take(LeaseOf(t), R)
        /\ GoTo(t, "resolve") /\ UNCHANGED <<outcome, target>>
     \/ /\ t \in Managed
        /\ Conclude(t, "failed", "AVAILABLE")
        /\ GoTo(t, "finish") /\ UNCHANGED pool
  /\ UNCHANGED <<globals, record, attempt, slots, joiners, running>>

\* The active leases of t, whichever attempt they come from.
ActiveLeases(t) == {holder[r] : r \in {x \in Resources : holder[x][1] = t}}

\* resolve_host_resource_lease reads the ledger again, which may fail, and wants
\* exactly one active lease of the task, the one of the bundle.
ResolveLease(t) ==
  /\ At(t, "resolve")
  /\ \/ ActiveLeases(t) = {LeaseOf(t)} /\ GoTo(t, "slot") /\ UNCHANGED <<outcome, target>>
     \/ Conclude(t, "failed", "AVAILABLE") /\ GoTo(t, "settle")
  /\ UNCHANGED <<globals, pool, record, attempt, slots, joiners, running>>

\* acquire_execution_concurrency_slot; that it fails with the guard held is
\* provided for, and GuardedAdmission shows that it does not happen.
TakeSlot(t) ==
  /\ At(t, "slot")
  /\ IF IsSlotAvailable(t)
     THEN /\ inFlight' = [inFlight EXCEPT ![Scope(t)] = @ + 1]
          /\ slots' = slots \cup {t}
          /\ GoTo(t, "launch") /\ UNCHANGED <<outcome, target>>
     ELSE Conclude(t, "failed", "AVAILABLE") /\ GoTo(t, "settle") /\ UNCHANGED <<inFlight, slots>>
  /\ UNCHANGED <<guard, pool, record, attempt, joiners, running>>

\* The guard is released and the adapter's thread started; when no thread can
\* be started the exception leaves the attempt, its lease unsettled.
Launch(t) ==
  /\ At(t, "launch")
  /\ ReleaseGuard(t)
  /\ \/ /\ running' = running \cup {ThreadOf(t)}
        /\ GoTo(t, "run") /\ UNCHANGED <<outcome, target>>
     \/ /\ Conclude(t, "raised", "AVAILABLE")
        /\ GoTo(t, "finish") /\ UNCHANGED running
  /\ UNCHANGED <<inFlight, pool, record, attempt, slots, joiners>>

-----------------------------------------------------------------------------
(* The adapter: a payload or an error in time, in the grace period, or never *)

\* The result may carry a hint that its resources are INVALID.
AdapterReturns(t) ==
  /\ At(t, "run")
  /\ running' = running \ Current(t)
  /\ \E what \in {"success", "retryable", "failed"}, status \in {"AVAILABLE", "INVALID"} :
       Conclude(t, what, status)
  /\ GoTo(t, "settle")
  /\ UNCHANGED <<globals, pool, record, attempt, slots, joiners>>

\* result_queue.get times out.
TimesOut(t) ==
  /\ At(t, "run") /\ GoTo(t, "grace")
  /\ UNCHANGED <<globals, pool, record, locals>>

\* The thread ends while it is joined: its result is dropped, its hint heeded,
\* and a malformed hint makes the attempt final and its resources INVALID.
AdapterReturnsLate(t) ==
  /\ At(t, "grace")
  /\ running' = running \ Current(t)
  /\ \/ \E status \in {"AVAILABLE", "INVALID"} : Conclude(t, "retryable", status)
     \/ Conclude(t, "failed", "INVALID")
  /\ GoTo(t, "settle")
  /\ UNCHANGED <<globals, pool, record, attempt, slots, joiners>>

\* Mutant: the resources of an abandoned thread are released as usual.
AbandonReusable(t) ==
  /\ At(t, "grace")
  /\ Conclude(t, "failed", "AVAILABLE")
  /\ slots' = slots \ {t} /\ joiners' = joiners \cup {t}
  /\ GoTo(t, "settle")
  /\ UNCHANGED <<globals, pool, record, attempt, running>>

\* Mutant: nobody waits for the end of an abandoned thread.
AbandonUnjoined(t) ==
  /\ At(t, "grace")
  /\ Conclude(t, "failed", "INVALID")
  /\ slots' = slots \ {t}
  /\ GoTo(t, "settle")
  /\ UNCHANGED <<globals, pool, record, attempt, joiners, running>>

\* Mutant: the join has no time limit.
AbandonAfterExit(t) ==
  /\ At(t, "grace") /\ Left(t) = {}
  /\ Conclude(t, "failed", "INVALID")
  /\ slots' = slots \ {t} /\ joiners' = joiners \cup {t}
  /\ GoTo(t, "settle")
  /\ UNCHANGED <<globals, pool, record, attempt, running>>

\* The thread is still alive: its resources are to be INVALID and the release
\* of its slot is left to a thread that waits for it; when that one cannot be
\* started the exception leaves the attempt, its lease unsettled.
Abandon(t) ==
  /\ At(t, "grace")
  /\ \/ /\ Conclude(t, "failed", "INVALID")
        /\ slots' = slots \ {t} /\ joiners' = joiners \cup {t}
        /\ GoTo(t, "settle")
     \/ /\ Conclude(t, "raised", "AVAILABLE")
        /\ GoTo(t, "finish") /\ UNCHANGED <<slots, joiners>>
  /\ UNCHANGED <<globals, pool, record, attempt, running>>

\* An abandoned thread ends, if ever, ...
AdapterExits(t) ==
  /\ pc[t] \notin {"run", "grace"}
  /\ \E a \in Left(t) : running' = running \ {a}
  /\ UNCHANGED <<globals, pool, record, pc, attempt, slots, joiners, outcome, target>>

\* ... and then the joiner, release_slot_after_adapter_exit, gives the slot back.
JoinerReleases(t) ==
  /\ t \in joiners /\ Left(t) = {}
  /\ inFlight' = [inFlight EXCEPT ![Scope(t)] = @ - 1]
  /\ joiners' = joiners \ {t}
  /\ UNCHANGED <<guard, pool, record, pc, attempt, slots, running, outcome, target>>

-----------------------------------------------------------------------------
(* The end of an attempt *)

AfterSettle(t) == IF t \in joiners THEN "decide" ELSE "finish"
GiveBack(t) ==
  Pool!GiveBack(LeaseOf(t), IF target[t] = "INVALID" THEN Pool!HeldBy(LeaseOf(t)) ELSE {})

\* Mutant: a release that failed does not replace the envelope.
SettleIgnoringFailure(t) ==
  /\ At(t, "settle")
  /\ IF Holds(t) THEN GiveBack(t) \/ UNCHANGED pool ELSE UNCHANGED pool
  /\ GoTo(t, AfterSettle(t))
  /\ UNCHANGED <<globals, record, locals>>

\* settle_managed_resource_bundle.  A release that fails leaves the lease as it
\* is; one that finds the lease settled by somebody else may raise.
Settle(t) ==
  /\ At(t, "settle")
  /\ \/ ~Holds(t) /\ UNCHANGED <<pool, outcome, target>> /\ GoTo(t, AfterSettle(t))
     \/ Holds(t) /\ GiveBack(t) /\ UNCHANGED <<outcome, target>> /\ GoTo(t, AfterSettle(t))
     \/ /\ Holds(t) /\ Conclude(t, "failed", target[t]) /\ UNCHANGED pool
        /\ GoTo(t, AfterSettle(t))
     \/ Holds(t) /\ GiveBack(t) /\ Conclude(t, "raised", target[t]) /\ GoTo(t, "finish")
  /\ UNCHANGED <<globals, record, attempt, slots, joiners, running>>

\* Mutant: the slot is released though the joiner will do it.
FinishTwice(t) ==
  /\ At(t, "finish")
  /\ guard' = IF guard[Scope(t)] = t THEN [guard EXCEPT ![Scope(t)] = Nobody] ELSE guard
  /\ inFlight' = [inFlight EXCEPT ![Scope(t)] = IF t \in slots \cup joiners THEN @ - 1 ELSE @]
  /\ slots' = slots \ {t}
  /\ GoTo(t, "decide")
  /\ UNCHANGED <<pool, record, attempt, joiners, running, outcome, target>>

\* finish_attempt, and the finally clause of the attempt: whatever guard and
\* slot it still has to release itself.
Finish(t) ==
  /\ At(t, "finish")
  /\ guard' = IF guard[Scope(t)] = t THEN [guard EXCEPT ![Scope(t)] = Nobody] ELSE guard
  /\ inFlight' = [inFlight EXCEPT ![Scope(t)] = IF t \in slots THEN @ - 1 ELSE @]
  /\ slots' = slots \ {t}
  /\ GoTo(t, "decide")
  /\ UNCHANGED <<pool, record, attempt, joiners, running, outcome, target>>

\* is_retryable_attempt_outcome and the attempts left; an exception passes.
MayRetry(t) == outcome[t] = "retryable" /\ t \in Repeatable /\ attempt[t] < MaxAttempts[t]

Decide(t) ==
  /\ At(t, "decide")
  /\ GoTo(t, IF outcome[t] = "raised" THEN "done" ELSE IF MayRetry(t) THEN "guard" ELSE "finalize")
  /\ UNCHANGED <<globals, pool, record, locals>>

Finalize(t) ==
  /\ At(t, "finalize")
  /\ \/ record' = [record EXCEPT ![t] = IF outcome[t] = "success" THEN "succeeded" ELSE "failed"]
     \/ PersistFails(t)
  /\ GoTo(t, "done")
  /\ UNCHANGED <<globals, pool, locals>>

-----------------------------------------------------------------------------
\* What Core does by itself ...
CoreStep(t) ==
  \/ TakeGuard(t) \/ Admit(t) \/ Reject(t)
  \/ PersistAccepted(t) \/ PersistRunning(t) \/ Match(t)
  \/ Acquire(t) \/ ResolveLease(t) \/ TakeSlot(t) \/ Launch(t)
  \/ TimesOut(t) \/ Abandon(t)
  \/ Settle(t) \/ Finish(t) \/ Decide(t) \/ Finalize(t)

\* ... and what depends on callers and adapters.
Outside(t) == Submit(t) \/ AdapterReturns(t) \/ AdapterReturnsLate(t) \/ AdapterExits(t)

Terminated ==
  /\ \A t \in Tasks : pc[t] = "done"
  /\ running = {} /\ joiners = {}
  /\ UNCHANGED vars

Next == (\E t \in Tasks : CoreStep(t) \/ JoinerReleases(t) \/ Outside(t)) \/ Terminated

\* Threads are scheduled; no adapter need ever return.
Fairness == \A t \in Tasks : WF_vars(CoreStep(t)) /\ WF_vars(JoinerReleases(t))

Spec == Init /\ [][Next]_vars /\ Fairness

-----------------------------------------------------------------------------
(* Properties *)

InScope(T, s) == {t \in T : ScopeOf[t] = s}

\* The task of a has left its attempt by an exception.
Abandoned(a) == pc[a.task] \in {"decide", "done"} /\ outcome[a.task] = "raised"

\* The counter of a scope is the number of its attempts with a slot plus the
\* number of its joiners, so that no release underflows and no slot is lost; and
\* each adapter thread is covered by one, except that of a task whose joiner could
\* not be started: there the finally clause gives the slot back.
SlotAccounting ==
  /\ slots \cap joiners = {}
  /\ \A s \in Scopes : inFlight[s] = Cardinality(InScope(slots \cup joiners, s))
  /\ \A a \in running : a.task \in slots \cup joiners \/ Abandoned(a)

\* FR-0016: a slot covers the attempt and the closeout of its timeout, and is
\* released when that is over.  Not so in the code, as Abandoned says.
SlotCoversThread == \A a \in running : a.task \in slots \cup joiners

\* A task that passed the check finds its slot free when it comes to take it, long
\* after, whatever the other tasks of the scope did meanwhile.
GuardedAdmission ==
  \A t \in Tasks :
    pc[t] \in {"accept", "start", "match", "acquire", "resolve", "slot"} => IsSlotAvailable(t)

\* The counter implements the limit: attempts and threads that a joiner waits for
\* together never exceed what the policy of the task that enters last allows
\* (FR-0016).
Limit == INSTANCE AdmissionLimit WITH
  Limit <- MaxInFlight,
  occupied <- slots \cup joiners

LimitKept == Limit!Spec

\* What an adapter thread uses is never free for another task, even when Core has
\* long given up on the thread and answered its caller.
NoSharing ==
  \A a \in running : \A r \in a.uses :
    /\ state[r] \in {"IN_USE", "INVALID"}
    /\ holder[r] \in {<<a.task, a.attempt>>, NoLease}

\* A task that has left its attempts keeps neither guard nor slot, by whichever
\* of the early returns and exceptions it left.
NothingKept ==
  \A t \in Tasks : pc[t] \in {"idle", "decide", "finalize", "done"} =>
    guard[Scope(t)] # t /\ t \notin slots

\* A task has one lease at most, that of its present attempt; it has none when it
\* retries, nor when it reports success (FR-0016: a retry inherits nothing).
LeaseDiscipline ==
  \A t \in Tasks :
    /\ ActiveLeases(t) \subseteq {LeaseOf(t)}
    /\ (pc[t] \in {"guard", "check"} \/ (pc[t] = "done" /\ outcome[t] = "success"))
         => ActiveLeases(t) = {}

\* Every submitted task comes back to its caller, though adapters may hang.
TasksReturn == \A t \in Tasks : pc[t] = "guard" ~> pc[t] = "done"

\* Once the abandoned threads are gone all slots are free again.
SlotsComeBack ==
  (\A t \in Tasks : <>[](pc[t] = "done" /\ Left(t) = {}))
    => <>[](\A s \in Scopes : inFlight[s] = 0)

\* FR-0016: whatever goes wrong once a task runs, exceptions of the release and
\* of the closeout included, ends in a terminal record.
RunsConverge ==
  \A t \in Tasks : (pc[t] = "done" /\ outcome[t] = "raised") => record[t] # "running"
=============================================================================
