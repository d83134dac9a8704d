----------------------- MODULE ExecutionControlProofs -----------------------
(***************************************************************************)
(* Theorems about ExecutionControl for every set of tasks, scopes and       *)
(* resources and every policy.                                              *)
(***************************************************************************)
EXTENDS ExecutionControl, FiniteSetTheorems, TLAPS

-----------------------------------------------------------------------------
(* The inductive invariant *)

Guarded == {"check", "accept", "start", "match", "acquire", "resolve", "slot", "launch"}
Unguarded == {"idle", "guard", "run", "grace", "decide", "finalize", "done"}

\* Where a task has the guard of its scope.  An attempt that fails before its
\* adapter runs takes the guard along to "settle" and "finish".
GuardPlaces ==
  \A t \in Tasks : /\ pc[t] \in Guarded => guard[Scope(t)] = t
                   /\ (pc[t] \in Unguarded \/ t \in joiners) => guard[Scope(t)] # t

\* Where a task has a slot, and what is settled once a joiner has it.
SlotPlaces ==
  \A t \in Tasks :
    /\ pc[t] \in {"launch", "run", "grace"} => t \in slots
    /\ t \in slots => pc[t] \in {"launch", "run", "grace", "settle", "finish"} /\ t \notin joiners
    /\ t \in joiners => /\ pc[t] \in {"settle", "finish", "decide", "finalize", "done"}
                        /\ outcome[t] \in {"failed", "raised"}
                        /\ pc[t] = "settle" => target[t] = "INVALID"

\* A thread belongs to the last attempt of its task, which waits for it, or has
\* left it to a joiner, or was left by an exception because it could not.
ThreadPlaces ==
  \A a \in running :
    /\ a.attempt = attempt[a.task]
    /\ \/ a.task \in joiners
       \/ pc[a.task] \in {"run", "grace"}
       \/ pc[a.task] = "finish" /\ a.task \in slots /\ outcome[a.task] = "raised"
       \/ Abandoned(a)

Attempted ==
  \A t \in Tasks : pc[t] \notin {"idle", "guard", "check", "done"} => attempt[t] # 0

Counted == \A s \in Scopes : inFlight[s] = Cardinality(InScope(slots \cup joiners, s))

\* The pool: what is held is in use, and what a thread uses is held for it still,
\* or invalid.
PoolFits ==
  /\ \A r \in Resources : holder[r] # NoLease => state[r] = "IN_USE"
  /\ \A a \in running : \A r \in a.uses :
       holder[r] = <<a.task, a.attempt>> \/ (holder[r] = NoLease /\ state[r] = "INVALID")

\* Where a task has a lease: between acquire and settle, and after a release that
\* failed or raised, which is the end of the task.
LeasesFit ==
  \A t \in Tasks, r \in Resources : holder[r][1] = t =>
    /\ holder[r] = LeaseOf(t)
    /\ \/ pc[t] \in {"resolve", "slot", "launch", "run", "grace", "settle"}
       \/ /\ pc[t] \in {"finish", "decide", "finalize", "done"}
          /\ outcome[t] \in {"failed", "raised"}

IInv ==
  /\ TypeOK
  /\ GuardPlaces
  /\ SlotPlaces
  /\ ThreadPlaces
  /\ Attempted
  /\ Counted
  /\ GuardedAdmission
  /\ PoolFits
  /\ LeasesFit

Step(t) == CoreStep(t) \/ JoinerReleases(t) \/ Outside(t)

-----------------------------------------------------------------------------
(* Counting *)

\* The tasks that occupy a slot of a scope are finitely many; a slot taken counts
\* one more, a slot given back one less, and in no other scope.
LEMMA InScopeFinite ==
  ASSUME NEW T \in SUBSET Tasks, NEW s
  PROVE  IsFiniteSet(InScope(T, s))
<1>1. InScope(T, s) \in SUBSET Tasks
  BY DEF InScope
<1> QED
  BY <1>1, FS_Subset, TaskAssumption

LEMMA InScopeAdd ==
  ASSUME NEW T \in SUBSET Tasks, NEW t \in Tasks, t \notin T, NEW s
  PROVE  Cardinality(InScope(T \cup {t}, s)) =
           IF s = Scope(t) THEN Cardinality(InScope(T, s)) + 1 ELSE Cardinality(InScope(T, s))
<1>1. CASE s = Scope(t)
  <2>1. InScope(T \cup {t}, s) = InScope(T, s) \cup {t}
    BY <1>1 DEF InScope, Scope
  <2>2. t \notin InScope(T, s)
    BY DEF InScope
  <2> QED
    BY <1>1, <2>1, <2>2, InScopeFinite, FS_AddElement
<1>2. CASE s # Scope(t)
  <2>1. InScope(T \cup {t}, s) = InScope(T, s)
    BY <1>2 DEF InScope, Scope
  <2> QED
    BY <1>2, <2>1
<1> QED
  BY <1>1, <1>2

LEMMA InScopeRemove ==
  ASSUME NEW T \in SUBSET Tasks, NEW t \in T, NEW s
  PROVE  Cardinality(InScope(T \ {t}, s)) =
           IF s = Scope(t) THEN Cardinality(InScope(T, s)) - 1 ELSE Cardinality(InScope(T, s))
<1>1. CASE s = Scope(t)
  <2>1. InScope(T \ {t}, s) = InScope(T, s) \ {t}
    BY <1>1 DEF InScope, Scope
  <2>2. t \in InScope(T, s)
    BY <1>1 DEF InScope, Scope
  <2>3. Cardinality(InScope(T, s) \ {t}) = Cardinality(InScope(T, s)) - 1
    BY <2>2, InScopeFinite, FS_RemoveElement
  <2> QED
    BY <1>1, <2>1, <2>3
<1>2. CASE s # Scope(t)
  <2>1. InScope(T \ {t}, s) = InScope(T, s)
    BY <1>2 DEF InScope, Scope
  <2> QED
    BY <1>2, <2>1
<1> QED
  BY <1>1, <1>2

\* No slot is given back that the counter does not have.
LEMMA CountedPositive ==
  ASSUME TypeOK, Counted, NEW t \in slots \cup joiners
  PROVE  inFlight[Scope(t)] - 1 \in Nat
<1>1. slots \cup joiners \in SUBSET Tasks /\ t \in Tasks
  BY DEF TypeOK
<1>2. t \in InScope(slots \cup joiners, Scope(t))
  BY DEF InScope, Scope
<1>3. Scope(t) \in Scopes
  BY <1>1, ScopeAssumption DEF Scope
<1>4. inFlight[Scope(t)] # 0
  BY <1>1, <1>2, <1>3, InScopeFinite, FS_EmptySet DEF Counted
<1> QED
  BY <1>3, <1>4 DEF TypeOK

-----------------------------------------------------------------------------
(* Types *)

\* Every step keeps the types.
LEMMA TypeStep ==
  ASSUME TypeOK, Attempted, Counted, NEW t \in Tasks, Step(t)
  PROVE  TypeOK'
<1> USE TaskAssumption, ScopeAssumption, PolicyAssumption, BundleAssumption
<1> USE DEF TypeOK, GoTo, At, Conclude, Scope, ReleaseGuard, globals, pool, locals
<1>1. CASE Submit(t)
  BY <1>1 DEF Submit
<1>2. CASE TakeGuard(t)
  BY <1>2 DEF TakeGuard
<1>3. CASE Admit(t)
  BY <1>3 DEF Admit
<1>4. CASE Reject(t)
  BY <1>4 DEF Reject
<1>5. CASE PersistAccepted(t)
  BY <1>5 DEF PersistAccepted, PersistFails
<1>6. CASE PersistRunning(t)
  BY <1>6 DEF PersistRunning, PersistFails
<1>7. CASE Match(t)
  BY <1>7 DEF Match
<1>8. CASE Acquire(t)
  BY <1>8 DEF Acquire, Attempted, LeaseOf, Leases, Pool!Take
<1>9. CASE ResolveLease(t)
  BY <1>9 DEF ResolveLease
<1>10. CASE TakeSlot(t)
  BY <1>10 DEF TakeSlot
<1>11. CASE Launch(t)
  BY <1>11 DEF Launch, Attempted, ThreadOf, AdapterThread, Pool!HeldBy
<1>12. CASE AdapterReturns(t)
  BY <1>12 DEF AdapterReturns
<1>13. CASE TimesOut(t)
  BY <1>13 DEF TimesOut
<1>14. CASE AdapterReturnsLate(t)
  BY <1>14 DEF AdapterReturnsLate
<1>15. CASE Abandon(t)
  BY <1>15 DEF Abandon
<1>16. CASE AdapterExits(t)
  BY <1>16 DEF AdapterExits
<1>17. CASE JoinerReleases(t)
  BY <1>17, CountedPositive DEF JoinerReleases
<1>18. CASE Settle(t)
  BY <1>18 DEF Settle, AfterSettle, GiveBack, Pool!GiveBack
<1>19. CASE Finish(t)
  BY <1>19, CountedPositive DEF Finish
<1>20. CASE Decide(t)
  BY <1>20 DEF Decide
<1>21. CASE Finalize(t)
  BY <1>21 DEF Finalize, PersistFails
<1> QED
  BY <1>1, <1>2, <1>3, <1>4, <1>5, <1>6, <1>7, <1>8, <1>9, <1>10, <1>11,
     <1>12, <1>13, <1>14, <1>15, <1>16, <1>17, <1>18, <1>19, <1>20, <1>21
  DEF Step, CoreStep, Outside

-----------------------------------------------------------------------------
(* Places *)

\* A task lets go of the guard by itself: between TakeGuard and Launch, or one of the
\* early returns, no step of another task of its scope changes it.
LEMMA GuardStep ==
  ASSUME TypeOK, GuardPlaces, SlotPlaces, NEW t \in Tasks, Step(t)
  PROVE  GuardPlaces'
<1> USE TaskAssumption, ScopeAssumption
<1> USE DEF TypeOK, GoTo, At, Conclude, Scope, ReleaseGuard, globals, pool, locals
<1> USE DEF GuardPlaces, SlotPlaces, Guarded, Unguarded
<1>1. CASE Submit(t)
  BY <1>1 DEF Submit
<1>2. CASE TakeGuard(t)
  BY <1>2 DEF TakeGuard
<1>3. CASE Admit(t)
  BY <1>3 DEF Admit
<1>4. CASE Reject(t)
  BY <1>4 DEF Reject
<1>5. CASE PersistAccepted(t)
  BY <1>5 DEF PersistAccepted, PersistFails
<1>6. CASE PersistRunning(t)
  BY <1>6 DEF PersistRunning, PersistFails
<1>7. CASE Match(t)
  BY <1>7 DEF Match
<1>8. CASE Acquire(t)
  BY <1>8 DEF Acquire
<1>9. CASE ResolveLease(t)
  BY <1>9 DEF ResolveLease
<1>10. CASE TakeSlot(t)
  BY <1>10 DEF TakeSlot
<1>11. CASE Launch(t)
  BY <1>11 DEF Launch
<1>12. CASE AdapterReturns(t)
  BY <1>12 DEF AdapterReturns
<1>13. CASE TimesOut(t)
  BY <1>13 DEF TimesOut
<1>14. CASE AdapterReturnsLate(t)
  BY <1>14 DEF AdapterReturnsLate
<1>15. CASE Abandon(t)
  BY <1>15 DEF Abandon
<1>16. CASE AdapterExits(t)
  BY <1>16 DEF AdapterExits
<1>17. CASE JoinerReleases(t)
  BY <1>17 DEF JoinerReleases
<1>18. CASE Settle(t)
  BY <1>18 DEF Settle, AfterSettle
<1>19. CASE Finish(t)
  BY <1>19 DEF Finish
<1>20. CASE Decide(t)
  BY <1>20 DEF Decide
<1>21. CASE Finalize(t)
  BY <1>21 DEF Finalize, PersistFails
<1> QED
  BY <1>1, <1>2, <1>3, <1>4, <1>5, <1>6, <1>7, <1>8, <1>9, <1>10,
     <1>11, <1>12, <1>13, <1>14, <1>15, <1>16, <1>17, <1>18, <1>19, <1>20, <1>21
  DEF Step, CoreStep, Outside

\* A slot passes from its attempt to a joiner or is given back, never both.
LEMMA SlotStep ==
  ASSUME TypeOK, SlotPlaces, NEW t \in Tasks, Step(t)
  PROVE  SlotPlaces'
<1> USE TaskAssumption, ScopeAssumption
<1> USE DEF TypeOK, GoTo, At, Conclude, Scope, ReleaseGuard, globals, pool, locals
<1> USE DEF SlotPlaces
<1>1. CASE Submit(t)
  BY <1>1 DEF Submit
<1>2. CASE TakeGuard(t)
  BY <1>2 DEF TakeGuard
<1>3. CASE Admit(t)
  BY <1>3 DEF Admit
<1>4. CASE Reject(t)
  BY <1>4 DEF Reject
<1>5. CASE PersistAccepted(t)
  BY <1>5 DEF PersistAccepted, PersistFails
<1>6. CASE PersistRunning(t)
  BY <1>6 DEF PersistRunning, PersistFails
<1>7. CASE Match(t)
  BY <1>7 DEF Match
<1>8. CASE Acquire(t)
  BY <1>8 DEF Acquire
<1>9. CASE ResolveLease(t)
  BY <1>9 DEF ResolveLease
<1>10. CASE TakeSlot(t)
  BY <1>10 DEF TakeSlot
<1>11. CASE Launch(t)
  BY <1>11 DEF Launch
<1>12. CASE AdapterReturns(t)
  BY <1>12 DEF AdapterReturns
<1>13. CASE TimesOut(t)
  BY <1>13 DEF TimesOut
<1>14. CASE AdapterReturnsLate(t)
  BY <1>14 DEF AdapterReturnsLate
<1>15. CASE Abandon(t)
  BY <1>15 DEF Abandon
<1>16. CASE AdapterExits(t)
  BY <1>16 DEF AdapterExits
<1>17. CASE JoinerReleases(t)
  BY <1>17 DEF JoinerReleases
<1>18. CASE Settle(t)
  BY <1>18 DEF Settle, AfterSettle
<1>19. CASE Finish(t)
  BY <1>19 DEF Finish
<1>20. CASE Decide(t)
  BY <1>20 DEF Decide, MayRetry
<1>21. CASE Finalize(t)
  BY <1>21 DEF Finalize, PersistFails
<1> QED
  BY <1>1, <1>2, <1>3, <1>4, <1>5, <1>6, <1>7, <1>8, <1>9, <1>10,
     <1>11, <1>12, <1>13, <1>14, <1>15, <1>16, <1>17, <1>18, <1>19, <1>20, <1>21
  DEF Step, CoreStep, Outside

\* No attempt begins while a thread of an earlier one lives: only a task whose slot
\* went to a joiner, or that an exception ended, leaves a thread behind.
LEMMA ThreadStep ==
  ASSUME TypeOK, SlotPlaces, ThreadPlaces, NEW t \in Tasks, Step(t)
  PROVE  ThreadPlaces'
<1> USE TaskAssumption, ScopeAssumption
<1> USE DEF TypeOK, GoTo, At, Conclude, Scope, ReleaseGuard, globals, pool, locals
<1> USE DEF SlotPlaces, ThreadPlaces, Abandoned, AdapterThread
<1>1. CASE Submit(t)
  BY <1>1 DEF Submit
<1>2. CASE TakeGuard(t)
  BY <1>2 DEF TakeGuard
<1>3. CASE Admit(t)
  BY <1>3 DEF Admit
<1>4. CASE Reject(t)
  BY <1>4 DEF Reject
<1>5. CASE PersistAccepted(t)
  BY <1>5 DEF PersistAccepted, PersistFails
<1>6. CASE PersistRunning(t)
  BY <1>6 DEF PersistRunning, PersistFails
<1>7. CASE Match(t)
  BY <1>7 DEF Match
<1>8. CASE Acquire(t)
  BY <1>8 DEF Acquire
<1>9. CASE ResolveLease(t)
  BY <1>9 DEF ResolveLease
<1>10. CASE TakeSlot(t)
  BY <1>10 DEF TakeSlot
<1>11. CASE Launch(t)
  BY <1>11 DEF Launch, ThreadOf
<1>12. CASE AdapterReturns(t)
  BY <1>12 DEF AdapterReturns, Current, Left
<1>13. CASE TimesOut(t)
  BY <1>13 DEF TimesOut
<1>14. CASE AdapterReturnsLate(t)
  BY <1>14 DEF AdapterReturnsLate, Current, Left
<1>15. CASE Abandon(t)
  BY <1>15 DEF Abandon
<1>16. CASE AdapterExits(t)
  BY <1>16 DEF AdapterExits, Left
<1>17. CASE JoinerReleases(t)
  BY <1>17 DEF JoinerReleases, Left
<1>18. CASE Settle(t)
  BY <1>18 DEF Settle, AfterSettle
<1>19. CASE Finish(t)
  BY <1>19 DEF Finish
<1>20. CASE Decide(t)
  BY <1>20 DEF Decide
<1>21. CASE Finalize(t)
  BY <1>21 DEF Finalize, PersistFails
<1> QED
  BY <1>1, <1>2, <1>3, <1>4, <1>5, <1>6, <1>7, <1>8, <1>9, <1>10,
     <1>11, <1>12, <1>13, <1>14, <1>15, <1>16, <1>17, <1>18, <1>19, <1>20, <1>21
  DEF Step, CoreStep, Outside

\* Between admission and the end attempt_index counts from 1.
LEMMA AttemptedStep ==
  ASSUME TypeOK, Attempted, NEW t \in Tasks, Step(t)
  PROVE  Attempted'
<1> USE TaskAssumption, ScopeAssumption
<1> USE DEF TypeOK, GoTo, At, Conclude, Scope, ReleaseGuard, globals, pool, locals
<1> USE DEF Attempted
<1>1. CASE Submit(t)
  BY <1>1 DEF Submit
<1>2. CASE TakeGuard(t)
  BY <1>2 DEF TakeGuard
<1>3. CASE Admit(t)
  BY <1>3 DEF Admit
<1>4. CASE Reject(t)
  BY <1>4 DEF Reject
<1>5. CASE PersistAccepted(t)
  BY <1>5 DEF PersistAccepted, PersistFails
<1>6. CASE PersistRunning(t)
  BY <1>6 DEF PersistRunning, PersistFails
<1>7. CASE Match(t)
  BY <1>7 DEF Match
<1>8. CASE Acquire(t)
  BY <1>8 DEF Acquire
<1>9. CASE ResolveLease(t)
  BY <1>9 DEF ResolveLease
<1>10. CASE TakeSlot(t)
  BY <1>10 DEF TakeSlot
<1>11. CASE Launch(t)
  BY <1>11 DEF Launch
<1>12. CASE AdapterReturns(t)
  BY <1>12 DEF AdapterReturns
<1>13. CASE TimesOut(t)
  BY <1>13 DEF TimesOut
<1>14. CASE AdapterReturnsLate(t)
  BY <1>14 DEF AdapterReturnsLate
<1>15. CASE Abandon(t)
  BY <1>15 DEF Abandon
<1>16. CASE AdapterExits(t)
  BY <1>16 DEF AdapterExits
<1>17. CASE JoinerReleases(t)
  BY <1>17 DEF JoinerReleases
<1>18. CASE Settle(t)
  BY <1>18 DEF Settle, AfterSettle
<1>19. CASE Finish(t)
  BY <1>19 DEF Finish
<1>20. CASE Decide(t)
  BY <1>20 DEF Decide
<1>21. CASE Finalize(t)
  BY <1>21 DEF Finalize, PersistFails
<1> QED
  BY <1>1, <1>2, <1>3, <1>4, <1>5, <1>6, <1>7, <1>8, <1>9, <1>10,
     <1>11, <1>12, <1>13, <1>14, <1>15, <1>16, <1>17, <1>18, <1>19, <1>20, <1>21
  DEF Step, CoreStep, Outside

-----------------------------------------------------------------------------
(* Counters *)

\* The counter moves with the two sets, and with no other scope's.
LEMMA CountedStep ==
  ASSUME TypeOK, SlotPlaces, Counted, NEW t \in Tasks, Step(t)
  PROVE  Counted'
<1> USE TaskAssumption, ScopeAssumption
<1> USE DEF TypeOK, GoTo, At, Conclude, Scope, ReleaseGuard, globals, pool, locals
<1> USE DEF Counted, SlotPlaces
<1> DEFINE occupied == slots \cup joiners
<1>0. occupied \in SUBSET Tasks
  OBVIOUS
<1>1. CASE Submit(t)
  BY <1>1 DEF Submit
<1>2. CASE TakeGuard(t)
  BY <1>2 DEF TakeGuard
<1>3. CASE Admit(t)
  BY <1>3 DEF Admit
<1>4. CASE Reject(t)
  BY <1>4 DEF Reject
<1>5. CASE PersistAccepted(t)
  BY <1>5 DEF PersistAccepted, PersistFails
<1>6. CASE PersistRunning(t)
  BY <1>6 DEF PersistRunning, PersistFails
<1>7. CASE Match(t)
  BY <1>7 DEF Match
<1>8. CASE Acquire(t)
  BY <1>8 DEF Acquire
<1>9. CASE ResolveLease(t)
  BY <1>9 DEF ResolveLease
<1>10. CASE TakeSlot(t)
  <2>1. CASE IsSlotAvailable(t)
    <3>1. t \notin occupied /\ occupied' = occupied \cup {t}
      BY <1>10, <2>1 DEF TakeSlot
    <3>2. \A s \in Scopes : inFlight'[s] = IF s = ScopeOf[t] THEN inFlight[s] + 1 ELSE inFlight[s]
      BY <1>10, <2>1 DEF TakeSlot
    <3> HIDE DEF occupied
    <3>3. \A s \in Scopes : Cardinality(InScope(occupied', s)) =
            IF s = ScopeOf[t] THEN Cardinality(InScope(occupied, s)) + 1
                              ELSE Cardinality(InScope(occupied, s))
      BY <1>0, <3>1, InScopeAdd
    <3> QED
      BY <3>2, <3>3 DEF occupied
  <2>2. CASE ~IsSlotAvailable(t)
    BY <1>10, <2>2 DEF TakeSlot
  <2> QED
    BY <2>1, <2>2
<1>11. CASE Launch(t)
  BY <1>11 DEF Launch
<1>12. CASE AdapterReturns(t)
  BY <1>12 DEF AdapterReturns
<1>13. CASE TimesOut(t)
  BY <1>13 DEF TimesOut
<1>14. CASE AdapterReturnsLate(t)
  BY <1>14 DEF AdapterReturnsLate
<1>15. CASE Abandon(t)
  <2>1. occupied' = occupied /\ UNCHANGED inFlight
    BY <1>15 DEF Abandon
  <2> QED
    BY <2>1
<1>16. CASE AdapterExits(t)
  BY <1>16 DEF AdapterExits
<1>17. CASE JoinerReleases(t)
  <2>1. t \in occupied /\ occupied' = occupied \ {t}
    BY <1>17 DEF JoinerReleases
  <2>2. \A s \in Scopes : inFlight'[s] = IF s = ScopeOf[t] THEN inFlight[s] - 1 ELSE inFlight[s]
    BY <1>17 DEF JoinerReleases
  <2> HIDE DEF occupied
  <2>3. \A s \in Scopes : Cardinality(InScope(occupied', s)) =
          IF s = ScopeOf[t] THEN Cardinality(InScope(occupied, s)) - 1
                            ELSE Cardinality(InScope(occupied, s))
    BY <1>0, <2>1, InScopeRemove
  <2> QED
    BY <2>2, <2>3 DEF occupied
<1>18. CASE Settle(t)
  BY <1>18 DEF Settle, AfterSettle
<1>19. CASE Finish(t)
  <2>1. CASE t \in slots
    <3>1. t \in occupied /\ occupied' = occupied \ {t}
      BY <1>19, <2>1 DEF Finish
    <3>2. \A s \in Scopes : inFlight'[s] = IF s = ScopeOf[t] THEN inFlight[s] - 1 ELSE inFlight[s]
      BY <1>19, <2>1 DEF Finish
    <3> HIDE DEF occupied
    <3>3. \A s \in Scopes : Cardinality(InScope(occupied', s)) =
            IF s = ScopeOf[t] THEN Cardinality(InScope(occupied, s)) - 1
                              ELSE Cardinality(InScope(occupied, s))
      BY <1>0, <3>1, InScopeRemove
    <3> QED
      BY <3>2, <3>3 DEF occupied
  <2>2. CASE t \notin slots
    <3>1. UNCHANGED <<inFlight, slots, joiners>>
      BY <1>19, <2>2 DEF Finish
    <3> QED
      BY <3>1
  <2> QED
    BY <2>1, <2>2
<1>20. CASE Decide(t)
  BY <1>20 DEF Decide
<1>21. CASE Finalize(t)
  BY <1>21 DEF Finalize, PersistFails
<1> QED
  BY <1>1, <1>2, <1>3, <1>4, <1>5, <1>6, <1>7, <1>8, <1>9, <1>10,
     <1>11, <1>12, <1>13, <1>14, <1>15, <1>16, <1>17, <1>18, <1>19, <1>20, <1>21
  DEF Step, CoreStep, Outside

\* The counter of a scope grows at TakeSlot only, whose task has the guard, so that
\* no other task of the scope is between its check and its slot.
LEMMA AdmissionStep ==
  ASSUME TypeOK, GuardPlaces, SlotPlaces, Counted, GuardedAdmission, NEW t \in Tasks, Step(t)
  PROVE  GuardedAdmission'
<1> USE TaskAssumption, ScopeAssumption
<1> USE DEF TypeOK, GoTo, At, Conclude, Scope, ReleaseGuard, globals, pool, locals
<1> USE DEF GuardPlaces, SlotPlaces, Guarded, Unguarded
<1> USE PolicyAssumption DEF GuardedAdmission, IsSlotAvailable
<1>1. CASE Submit(t)
  BY <1>1 DEF Submit
<1>2. CASE TakeGuard(t)
  BY <1>2 DEF TakeGuard
<1>3. CASE Admit(t)
  BY <1>3 DEF Admit
<1>4. CASE Reject(t)
  BY <1>4 DEF Reject
<1>5. CASE PersistAccepted(t)
  BY <1>5 DEF PersistAccepted, PersistFails
<1>6. CASE PersistRunning(t)
  BY <1>6 DEF PersistRunning, PersistFails
<1>7. CASE Match(t)
  BY <1>7 DEF Match
<1>8. CASE Acquire(t)
  BY <1>8 DEF Acquire
<1>9. CASE ResolveLease(t)
  BY <1>9 DEF ResolveLease
<1>10. CASE TakeSlot(t)
  BY <1>10 DEF TakeSlot
<1>11. CASE Launch(t)
  BY <1>11 DEF Launch
<1>12. CASE AdapterReturns(t)
  BY <1>12 DEF AdapterReturns
<1>13. CASE TimesOut(t)
  BY <1>13 DEF TimesOut
<1>14. CASE AdapterReturnsLate(t)
  BY <1>14 DEF AdapterReturnsLate
<1>15. CASE Abandon(t)
  BY <1>15 DEF Abandon
<1>16. CASE AdapterExits(t)
  BY <1>16 DEF AdapterExits
<1>17. CASE JoinerReleases(t)
  BY <1>17, CountedPositive DEF JoinerReleases
<1>18. CASE Settle(t)
  BY <1>18 DEF Settle, AfterSettle
<1>19. CASE Finish(t)
  BY <1>19, CountedPositive DEF Finish
<1>20. CASE Decide(t)
  BY <1>20 DEF Decide
<1>21. CASE Finalize(t)
  BY <1>21 DEF Finalize, PersistFails
<1> QED
  BY <1>1, <1>2, <1>3, <1>4, <1>5, <1>6, <1>7, <1>8, <1>9, <1>10,
     <1>11, <1>12, <1>13, <1>14, <1>15, <1>16, <1>17, <1>18, <1>19, <1>20, <1>21
  DEF Step, CoreStep, Outside

-----------------------------------------------------------------------------
(* Resources *)

\* A lease comes with Acquire and goes with Settle, or its task reports a failure.
LEMMA LeasesStep ==
  ASSUME TypeOK, SlotPlaces, LeasesFit, NEW t \in Tasks, Step(t)
  PROVE  LeasesFit'
<1> USE BundleAssumption
<1> USE TaskAssumption, ScopeAssumption
<1> USE DEF TypeOK, GoTo, At, Conclude, Scope, ReleaseGuard, globals, pool, locals
<1> USE DEF SlotPlaces, LeasesFit, LeaseOf, NoLease, Leases, Pool!HeldBy
<1>1. CASE Submit(t)
  BY <1>1 DEF Submit
<1>2. CASE TakeGuard(t)
  BY <1>2 DEF TakeGuard
<1>3. CASE Admit(t)
  BY <1>3 DEF Admit
<1>4. CASE Reject(t)
  BY <1>4 DEF Reject
<1>5. CASE PersistAccepted(t)
  BY <1>5 DEF PersistAccepted, PersistFails
<1>6. CASE PersistRunning(t)
  BY <1>6 DEF PersistRunning, PersistFails
<1>7. CASE Match(t)
  BY <1>7 DEF Match
<1>8. CASE Acquire(t)
  BY <1>8 DEF Acquire, Pool!Take, Pool!Free
<1>9. CASE ResolveLease(t)
  BY <1>9 DEF ResolveLease
<1>10. CASE TakeSlot(t)
  BY <1>10 DEF TakeSlot
<1>11. CASE Launch(t)
  BY <1>11 DEF Launch, ThreadOf
<1>12. CASE AdapterReturns(t)
  BY <1>12 DEF AdapterReturns, Current, Left
<1>13. CASE TimesOut(t)
  BY <1>13 DEF TimesOut
<1>14. CASE AdapterReturnsLate(t)
  BY <1>14 DEF AdapterReturnsLate, Current, Left
<1>15. CASE Abandon(t)
  BY <1>15 DEF Abandon
<1>16. CASE AdapterExits(t)
  BY <1>16 DEF AdapterExits, Left
<1>17. CASE JoinerReleases(t)
  BY <1>17 DEF JoinerReleases, Left
<1>18. CASE Settle(t)
  BY <1>18 DEF Settle, AfterSettle, GiveBack, Pool!GiveBack, Holds
<1>19. CASE Finish(t)
  BY <1>19 DEF Finish
<1>20. CASE Decide(t)
  BY <1>20 DEF Decide, MayRetry
<1>21. CASE Finalize(t)
  BY <1>21 DEF Finalize, PersistFails
<1> QED
  BY <1>1, <1>2, <1>3, <1>4, <1>5, <1>6, <1>7, <1>8, <1>9, <1>10,
     <1>11, <1>12, <1>13, <1>14, <1>15, <1>16, <1>17, <1>18, <1>19, <1>20, <1>21
  DEF Step, CoreStep, Outside

\* What a thread uses stays held as long as its attempt lasts and is INVALID after
\* the attempt left it behind.
LEMMA PoolStep ==
  ASSUME TypeOK, SlotPlaces, ThreadPlaces, PoolFits, LeasesFit, NEW t \in Tasks, Step(t)
  PROVE  PoolFits'
<1> USE BundleAssumption
<1> USE TaskAssumption, ScopeAssumption
<1> USE DEF TypeOK, GoTo, At, Conclude, Scope, ReleaseGuard, globals, pool, locals
<1> USE DEF SlotPlaces, ThreadPlaces, Abandoned, PoolFits, LeaseOf, NoLease, Leases, AdapterThread, Pool!HeldBy
<1>1. CASE Submit(t)
  BY <1>1 DEF Submit
<1>2. CASE TakeGuard(t)
  BY <1>2 DEF TakeGuard
<1>3. CASE Admit(t)
  BY <1>3 DEF Admit
<1>4. CASE Reject(t)
  BY <1>4 DEF Reject
<1>5. CASE PersistAccepted(t)
  BY <1>5 DEF PersistAccepted, PersistFails
<1>6. CASE PersistRunning(t)
  BY <1>6 DEF PersistRunning, PersistFails
<1>7. CASE Match(t)
  BY <1>7 DEF Match
<1>8. CASE Acquire(t)
  BY <1>8 DEF Acquire, Pool!Take, Pool!Free
<1>9. CASE ResolveLease(t)
  BY <1>9 DEF ResolveLease
<1>10. CASE TakeSlot(t)
  BY <1>10 DEF TakeSlot
<1>11. CASE Launch(t)
  BY <1>11 DEF Launch, ThreadOf
<1>12. CASE AdapterReturns(t)
  BY <1>12 DEF AdapterReturns, Current, Left
<1>13. CASE TimesOut(t)
  BY <1>13 DEF TimesOut
<1>14. CASE AdapterReturnsLate(t)
  BY <1>14 DEF AdapterReturnsLate, Current, Left
<1>15. CASE Abandon(t)
  BY <1>15 DEF Abandon
<1>16. CASE AdapterExits(t)
  BY <1>16 DEF AdapterExits, Left
<1>17. CASE JoinerReleases(t)
  BY <1>17 DEF JoinerReleases, Left
<1>18. CASE Settle(t)
  BY <1>18 DEF Settle, AfterSettle, GiveBack, Pool!GiveBack, Holds
<1>19. CASE Finish(t)
  BY <1>19 DEF Finish
<1>20. CASE Decide(t)
  BY <1>20 DEF Decide
<1>21. CASE Finalize(t)
  BY <1>21 DEF Finalize, PersistFails
<1> QED
  BY <1>1, <1>2, <1>3, <1>4, <1>5, <1>6, <1>7, <1>8, <1>9, <1>10,
     <1>11, <1>12, <1>13, <1>14, <1>15, <1>16, <1>17, <1>18, <1>19, <1>20, <1>21
  DEF Step, CoreStep, Outside

-----------------------------------------------------------------------------
(* The theorems *)

\* Init establishes the invariant: no attempt has a slot and the counters are 0.
LEMMA InitIInv == Init => IInv
<1> SUFFICES ASSUME Init PROVE IInv
  OBVIOUS
<1> USE TaskAssumption, ScopeAssumption, PolicyAssumption DEF Init
<1>1. TypeOK
  BY DEF TypeOK
<1>2. GuardPlaces /\ SlotPlaces /\ ThreadPlaces /\ Attempted
  BY DEF GuardPlaces, SlotPlaces, ThreadPlaces, Attempted, Guarded, Unguarded, Scope
<1>3. Counted
  <2>1. \A s : InScope(slots \cup joiners, s) = {}
    BY DEF InScope
  <2> QED
    BY <2>1, FS_EmptySet DEF Counted
<1>4. GuardedAdmission
  BY DEF GuardedAdmission
<1>5. PoolFits /\ LeasesFit
  BY DEF PoolFits, LeasesFit, NoLease
<1> QED
  BY <1>1, <1>2, <1>3, <1>4, <1>5 DEF IInv

\* Every step of a task keeps it, and so does stuttering.
LEMMA NextIInv == IInv /\ [Next]_vars => IInv'
<1> SUFFICES ASSUME IInv, [Next]_vars PROVE IInv'
  OBVIOUS
<1>1. ASSUME NEW t \in Tasks, Step(t) PROVE IInv'
  BY <1>1, TypeStep, GuardStep, SlotStep, ThreadStep, AttemptedStep, CountedStep,
     AdmissionStep, LeasesStep, PoolStep DEF IInv
<1>2. CASE UNCHANGED vars
  <2> USE <1>2 DEF vars, globals, pool, locals, IInv
  <2>1. TypeOK' /\ Counted'
    BY DEF TypeOK, Counted
  <2>2. GuardPlaces' /\ SlotPlaces' /\ ThreadPlaces' /\ Attempted'
    BY DEF GuardPlaces, SlotPlaces, ThreadPlaces, Abandoned, Attempted
  <2>3. GuardedAdmission' /\ PoolFits' /\ LeasesFit'
    BY DEF GuardedAdmission, IsSlotAvailable, PoolFits, LeasesFit, LeaseOf
  <2> QED
    BY <2>1, <2>2, <2>3
<1> QED
  BY <1>1, <1>2 DEF Next, Step, Terminated

\* The invariant holds in every state of every execution.
THEOREM Invariance == Spec => []IInv
BY InitIInv, NextIInv, PTL DEF Spec

\* Every variable stays within its type: no counter of _EXECUTION_CONCURRENCY_IN_FLIGHT
\* underflows and no guard is held by anything but a task.
THEOREM TypeCorrectness == Spec => []TypeOK
<1>1. IInv => TypeOK
  BY DEF IInv
<1> QED
  BY <1>1, Invariance, PTL

\* The counter of a scope is the number of its attempts with a slot and its joiners,
\* and every adapter thread is counted whose task was not left by an exception.
THEOREM Accounting == Spec => []SlotAccounting
<1>1. IInv => SlotAccounting
  BY DEF IInv, SlotAccounting, SlotPlaces, Counted, ThreadPlaces, TypeOK, AdapterThread
<1> QED
  BY <1>1, Invariance, PTL

\* Whoever passed the check of is_execution_concurrency_slot_available will get the slot.
THEOREM AdmissionIsGuarded == Spec => []GuardedAdmission
<1>1. IInv => GuardedAdmission
  BY DEF IInv
<1> QED
  BY <1>1, Invariance, PTL

\* Every way out of an attempt, early returns and exceptions included, gives guard and
\* slot back or leaves the slot to a joiner.
THEOREM KeepsNothing == Spec => []NothingKept
<1>1. IInv => NothingKept
  BY DEF IInv, NothingKept, GuardPlaces, SlotPlaces, Unguarded
<1> QED
  BY <1>1, Invariance, PTL

\* What an adapter thread uses, timed out or not, is never free for another task.
THEOREM ThreadsDoNotShare == Spec => []NoSharing
<1>1. IInv => NoSharing
  <2> SUFFICES ASSUME IInv, NEW a \in running, NEW r \in a.uses
               PROVE  /\ state[r] \in {"IN_USE", "INVALID"}
                      /\ holder[r] \in {<<a.task, a.attempt>>, NoLease}
    BY DEF NoSharing
  <2>1. a.task \in Tasks /\ r \in Resources
    BY DEF IInv, TypeOK, AdapterThread
  <2>2. <<a.task, a.attempt>> # NoLease
    BY <2>1, TaskAssumption DEF NoLease
  <2> QED
    BY <2>1, <2>2 DEF IInv, PoolFits
<1> QED
  BY <1>1, Invariance, PTL

\* A task has no lease but that of its present attempt, and none when it retries or
\* reports success.
THEOREM LeasesAreSettled == Spec => []LeaseDiscipline
<1>1. IInv => LeaseDiscipline
  BY DEF IInv, LeaseDiscipline, ActiveLeases, LeasesFit, TypeOK
<1> QED
  BY <1>1, Invariance, PTL

\* A step of a task is a step of the abstract limit or leaves it alone: only TakeSlot
\* enters, within its own limit, and Finish and the joiner leave.
LEMMA LimitStep ==
  ASSUME IInv, NEW t \in Tasks, Step(t)
  PROVE  [Limit!Next]_(slots \cup joiners)
<1> USE DEF IInv, TypeOK
<1> SUFFICES \/ Limit!Enter(t) \/ Limit!Leave(t)
             \/ UNCHANGED (slots \cup joiners)
  BY DEF Limit!Next
<1>1. CASE TakeSlot(t)
  <2>1. CASE IsSlotAvailable(t)
    <3>1. t \notin slots \cup joiners
      BY <1>1 DEF TakeSlot, At, SlotPlaces
    <3>2. Limit!Peers(t) = InScope(slots \cup joiners, Scope(t))
      BY DEF Limit!Peers, InScope, Scope
    <3>3. Cardinality(Limit!Peers(t)) < MaxInFlight[t]
      BY <2>1, <3>2, ScopeAssumption DEF Counted, IsSlotAvailable, Scope
    <3>4. (slots \cup joiners)' = (slots \cup joiners) \cup {t}
      BY <1>1, <2>1 DEF TakeSlot
    <3>5. Limit!Cardinality(Limit!Peers(t)) = Cardinality(Limit!Peers(t))
      BY DEF Limit!Cardinality, Cardinality
    <3> QED
      BY <3>1, <3>3, <3>4, <3>5 DEF Limit!Enter
  <2>2. CASE ~IsSlotAvailable(t)
    BY <1>1, <2>2 DEF TakeSlot
  <2> QED
    BY <2>1, <2>2
<1>2. CASE Abandon(t)
  <2>1. t \in slots
    BY <1>2 DEF Abandon, At, SlotPlaces
  <2> QED
    BY <1>2, <2>1 DEF Abandon
<1>3. CASE JoinerReleases(t)
  <2>1. t \notin slots
    BY <1>3 DEF JoinerReleases, SlotPlaces
  <2> QED
    BY <1>3, <2>1 DEF JoinerReleases, Limit!Leave
<1>4. CASE Finish(t)
  <2>1. CASE t \in slots
    <3>1. t \notin joiners
      BY <2>1 DEF SlotPlaces
    <3> QED
      BY <1>4, <2>1, <3>1 DEF Finish, Limit!Leave
  <2>2. CASE t \notin slots
    <3>1. UNCHANGED slots /\ UNCHANGED joiners
      BY <1>4, <2>2 DEF Finish
    <3> QED
      BY <3>1
  <2> QED
    BY <2>1, <2>2
<1>5. CASE \/ Submit(t) \/ TakeGuard(t) \/ Admit(t) \/ Reject(t) \/ PersistAccepted(t)
           \/ PersistRunning(t) \/ Match(t) \/ Acquire(t) \/ ResolveLease(t) \/ Launch(t)
           \/ AdapterReturns(t) \/ TimesOut(t) \/ AdapterReturnsLate(t) \/ AdapterExits(t)
           \/ Settle(t) \/ Decide(t) \/ Finalize(t)
  <2>1. UNCHANGED slots /\ UNCHANGED joiners
    BY <1>5 DEF Submit, TakeGuard, Admit, Reject, PersistAccepted, PersistRunning, Match,
       Acquire, ResolveLease, Launch, AdapterReturns, TimesOut, AdapterReturnsLate,
       AdapterExits, Settle, Decide, Finalize, locals
  <2> QED
    BY <2>1
<1> QED
  BY <1>1, <1>2, <1>3, <1>4, <1>5 DEF Step, CoreStep, Outside

\* FR-0016: counter, guard and joiner threads together implement the limit, for any
\* number of tasks and scopes and policies that disagree.
THEOREM LimitRefinement == Spec => LimitKept
<1>1. Init => Limit!Init
  BY DEF Init, Limit!Init
<1>2. IInv /\ [Next]_vars => [Limit!Next]_(slots \cup joiners)
  <2> SUFFICES ASSUME IInv, [Next]_vars PROVE [Limit!Next]_(slots \cup joiners)
    OBVIOUS
  <2>1. ASSUME NEW t \in Tasks, Step(t) PROVE [Limit!Next]_(slots \cup joiners)
    BY <2>1, LimitStep
  <2>2. CASE UNCHANGED vars
    BY <2>2 DEF vars, locals
  <2> QED
    BY <2>1, <2>2 DEF Next, Step, Terminated
<1> QED
  BY <1>1, <1>2, Invariance, PTL DEF Spec, LimitKept, Limit!Spec
=============================================================================
