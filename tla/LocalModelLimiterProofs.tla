----------------------- MODULE LocalModelLimiterProofs -----------------------
(***************************************************************************)
(* The local-model limiter for every set of requests, every max_parallel   *)
(* and every number of crashes: its inductive invariant, the limit, that   *)
(* nothing is left behind, and that it implements the counting semaphore.  *)
(***************************************************************************)
EXTENDS LocalModelLimiter, TLAPS, FiniteSetTheorems

\* A request at one of these places has the lock of its slot's guard file.
Owning == {"send", "body", "release", "reap", "reaped"}

\* A request at one of these places will remove its slot's file.
Tending == {"lock", "undo", "send", "body", "release", "remove"}

\* The guard, not the slot file, owns the lease.
OwnersLock == \A r \in Requests : pc[r] \in Owning => guard[at[r]] = r

\* Nobody keeps a guard without going to release it.
LocksAreOwned ==
  \A s \in Slots : guard[s] # None => pc[guard[s]] \in Owning /\ at[guard[s]] = s

\* As long as nobody died, somebody is going to remove every slot file.
FilesAreTended ==
  crashes = 0 =>
    \A s \in Slots : slot[s] # "absent" =>
      \E r \in Requests : at[r] = s /\ pc[r] \in Tending

IInv == TypeOK /\ OwnersLock /\ LocksAreOwned /\ FilesAreTended

-----------------------------------------------------------------------------
\* The invariant holds before the first request.
LEMMA InitIInv == Init => IInv
<1> SUFFICES ASSUME Init PROVE IInv
  OBVIOUS
<1> USE SlotsAssumption DEF Init, Slots
<1>1. TypeOK
  BY DEF TypeOK, Places
<1>2. OwnersLock
  BY DEF OwnersLock, Owning
<1>3. LocksAreOwned
  BY DEF LocksAreOwned
<1>4. FilesAreTended
  BY DEF FilesAreTended
<1> QED
  BY <1>1, <1>2, <1>3, <1>4 DEF IInv

\* Passing on to the next slot moves one request, to where it owns nothing.
LEMMA AdvanceMoves ==
  ASSUME TypeOK, NEW r \in Requests, Advances(r)
  PROVE  /\ pc' \in [Requests -> Places] /\ at' \in [Requests -> Slots]
         /\ pc'[r] \in {"try", "wait"}
         /\ \A q \in Requests \ {r} : pc'[q] = pc[q] /\ at'[q] = at[q]
<1> USE SlotsAssumption DEF TypeOK, Slots, Goes, Advances
<1>1. CASE at[r] < MaxParallel
  <2>1. at[r] + 1 \in Slots
    BY <1>1
  <2>2. pc' = [pc EXCEPT ![r] = "try"] /\ at' = [at EXCEPT ![r] = at[r] + 1]
    BY <1>1
  <2> QED
    BY <2>1, <2>2 DEF Places
<1>2. CASE ~(at[r] < MaxParallel)
  <2>1. pc' = [pc EXCEPT ![r] = "wait"] /\ at' = [at EXCEPT ![r] = 1]
    BY <1>2
  <2> QED
    BY <2>1 DEF Places
<1> QED
  BY <1>1, <1>2

\* A step of one request keeps the types.
LEMMA StepType == TypeOK /\ [Next]_vars => TypeOK'
<1> SUFFICES ASSUME TypeOK, [Next]_vars PROVE TypeOK'
  OBVIOUS
<1> USE RequestsAssumption, SlotsAssumption, BoundsAssumption
    DEF TypeOK, Slots, Places, Goes, bounds
<1>1. ASSUME NEW r \in Requests, AcquireStep(r) PROVE TypeOK'
  <2>1. CASE Creates(r)
    BY <2>1 DEF Creates
  <2>2. CASE Locks(r)
    BY <2>2 DEF Locks
  <2>3. CASE LockFails(r)
    BY <2>3 DEF LockFails
  <2>4. CASE Undoes(r)
    BY <2>4, AdvanceMoves DEF Undoes
  <2>5. CASE FindsTaken(r)
    BY <2>5 DEF FindsTaken
  <2>6. CASE PassesOn(r)
    BY <2>6, AdvanceMoves DEF PassesOn
  <2>7. CASE FindsStale(r)
    BY <2>7 DEF FindsStale
  <2>8. CASE Steals(r)
    BY <2>8 DEF Steals
  <2>9. CASE StealRefused(r)
    BY <2>9, AdvanceMoves DEF StealRefused
  <2>10. CASE Reaps(r)
    BY <2>10 DEF Reaps
  <2>11. CASE ReapEnds(r)
    BY <2>11, AdvanceMoves DEF ReapEnds
  <2>12. CASE Polls(r)
    BY <2>12 DEF Polls
  <2> QED
    BY <1>1, <2>1, <2>2, <2>3, <2>4, <2>5, <2>6, <2>7, <2>8, <2>9, <2>10, <2>11, <2>12
    DEF AcquireStep
<1>2. ASSUME NEW r \in Requests, HoldStep(r) \/ Touches(r) PROVE TypeOK'
  BY <1>2 DEF HoldStep, Responds, Releases, Unlocks, Removes, Touches
<1>3. ASSUME NEW r \in Requests,
             Enters(r) \/ Cancels(r) \/ Crash(r) \/ CreateFails(r) PROVE TypeOK'
  <2>1. CASE Enters(r)
    BY <2>1 DEF Enters
  <2>2. CASE Cancels(r)
    BY <2>2 DEF Cancels
  <2>3. CASE Crash(r)
    BY <2>3 DEF Crash
  <2>4. CASE CreateFails(r)
    BY <2>4 DEF CreateFails
  <2> QED
    BY <1>3, <2>1, <2>2, <2>3, <2>4
<1>4. ASSUME NEW r \in Requests, GuardFails(r) PROVE TypeOK'
  BY <1>4, AdvanceMoves DEF GuardFails
<1>5. ASSUME NEW s \in Slots, Ages(s) \/ Suspend(s) PROVE TypeOK'
  BY <1>5 DEF Ages, Suspend
<1>6. CASE UNCHANGED vars
  BY <1>6 DEF vars
<1> QED
  BY <1>1, <1>2, <1>3, <1>4, <1>5, <1>6 DEF Next

\* A request that owns a slot keeps its guard: nobody else's step takes it.
LEMMA StepOwners == IInv /\ [Next]_vars => OwnersLock'
<1> SUFFICES ASSUME IInv, [Next]_vars PROVE OwnersLock'
  OBVIOUS
<1> USE RequestsAssumption DEF IInv, TypeOK, OwnersLock, LocksAreOwned, Owning, Goes, bounds, Places
<1>1. ASSUME NEW r \in Requests,
             Enters(r) \/ AcquireStep(r) \/ HoldStep(r) \/ Touches(r) \/ Cancels(r) \/ Crash(r)
             \/ GuardFails(r) \/ CreateFails(r)
      PROVE  OwnersLock'
  <2>1. CASE Enters(r)
    BY <2>1 DEF Enters
  <2>2. CASE Creates(r)
    BY <2>2 DEF Creates
  <2>3. CASE Locks(r)
    BY <2>3 DEF Locks
  <2>4. CASE LockFails(r)
    BY <2>4 DEF LockFails
  <2>5. CASE Undoes(r)
    BY <2>5, AdvanceMoves DEF Undoes
  <2>6. CASE FindsTaken(r)
    BY <2>6 DEF FindsTaken
  <2>7. CASE PassesOn(r)
    BY <2>7, AdvanceMoves DEF PassesOn
  <2>8. CASE FindsStale(r)
    BY <2>8 DEF FindsStale
  <2>9. CASE Steals(r)
    BY <2>9 DEF Steals
  <2>10. CASE StealRefused(r)
    BY <2>10, AdvanceMoves DEF StealRefused
  <2>11. CASE Reaps(r)
    BY <2>11 DEF Reaps
  <2>12. CASE ReapEnds(r)
    BY <2>12, AdvanceMoves DEF ReapEnds
  <2>13. CASE Polls(r)
    BY <2>13 DEF Polls
  <2>14. CASE Cancels(r)
    BY <2>14 DEF Cancels
  <2>15. CASE Responds(r)
    BY <2>15 DEF Responds
  <2>16. CASE Releases(r)
    BY <2>16 DEF Releases
  <2>17. CASE Unlocks(r)
    BY <2>17 DEF Unlocks
  <2>18. CASE Removes(r)
    BY <2>18 DEF Removes
  <2>19. CASE Touches(r)
    BY <2>19 DEF Touches
  <2>20. CASE Crash(r)
    BY <2>20 DEF Crash
  <2>21. CASE GuardFails(r)
    BY <2>21, AdvanceMoves DEF GuardFails
  <2>22. CASE CreateFails(r)
    BY <2>22 DEF CreateFails
  <2> QED
    BY <1>1, <2>1, <2>2, <2>3, <2>4, <2>5, <2>6, <2>7, <2>8, <2>9, <2>10, <2>11, <2>12, <2>13, <2>14, <2>15, <2>16, <2>17, <2>18, <2>19, <2>20, <2>21, <2>22 DEF AcquireStep, HoldStep
<1>2. ASSUME NEW s \in Slots, Ages(s) \/ Suspend(s) PROVE OwnersLock'
  BY <1>2 DEF Ages, Suspend
<1>3. CASE UNCHANGED vars
  BY <1>3 DEF vars
<1> QED
  BY <1>1, <1>2, <1>3 DEF Next

\* A guard that is held is held by a request that goes on to release it.
LEMMA StepLocks == IInv /\ [Next]_vars => LocksAreOwned'
<1> SUFFICES ASSUME IInv, [Next]_vars PROVE LocksAreOwned'
  OBVIOUS
<1> USE RequestsAssumption DEF IInv, TypeOK, OwnersLock, LocksAreOwned, Owning, Goes, bounds, Places
<1>1. ASSUME NEW r \in Requests,
             Enters(r) \/ AcquireStep(r) \/ HoldStep(r) \/ Touches(r) \/ Cancels(r) \/ Crash(r)
             \/ GuardFails(r) \/ CreateFails(r)
      PROVE  LocksAreOwned'
  <2>1. CASE Enters(r)
    BY <2>1 DEF Enters
  <2>2. CASE Creates(r)
    BY <2>2 DEF Creates
  <2>3. CASE Locks(r)
    BY <2>3 DEF Locks
  <2>4. CASE LockFails(r)
    BY <2>4 DEF LockFails
  <2>5. CASE Undoes(r)
    BY <2>5, AdvanceMoves DEF Undoes
  <2>6. CASE FindsTaken(r)
    BY <2>6 DEF FindsTaken
  <2>7. CASE PassesOn(r)
    BY <2>7, AdvanceMoves DEF PassesOn
  <2>8. CASE FindsStale(r)
    BY <2>8 DEF FindsStale
  <2>9. CASE Steals(r)
    BY <2>9 DEF Steals
  <2>10. CASE StealRefused(r)
    BY <2>10, AdvanceMoves DEF StealRefused
  <2>11. CASE Reaps(r)
    BY <2>11 DEF Reaps
  <2>12. CASE ReapEnds(r)
    BY <2>12, AdvanceMoves DEF ReapEnds
  <2>13. CASE Polls(r)
    BY <2>13 DEF Polls
  <2>14. CASE Cancels(r)
    BY <2>14 DEF Cancels
  <2>15. CASE Responds(r)
    BY <2>15 DEF Responds
  <2>16. CASE Releases(r)
    BY <2>16 DEF Releases
  <2>17. CASE Unlocks(r)
    BY <2>17 DEF Unlocks
  <2>18. CASE Removes(r)
    BY <2>18 DEF Removes
  <2>19. CASE Touches(r)
    BY <2>19 DEF Touches
  <2>20. CASE Crash(r)
    BY <2>20 DEF Crash
  <2>21. CASE GuardFails(r)
    BY <2>21, AdvanceMoves DEF GuardFails
  <2>22. CASE CreateFails(r)
    BY <2>22 DEF CreateFails
  <2> QED
    BY <1>1, <2>1, <2>2, <2>3, <2>4, <2>5, <2>6, <2>7, <2>8, <2>9, <2>10, <2>11, <2>12, <2>13, <2>14, <2>15, <2>16, <2>17, <2>18, <2>19, <2>20, <2>21, <2>22 DEF AcquireStep, HoldStep
<1>2. ASSUME NEW s \in Slots, Ages(s) \/ Suspend(s) PROVE LocksAreOwned'
  BY <1>2 DEF Ages, Suspend
<1>3. CASE UNCHANGED vars
  BY <1>3 DEF vars
<1> QED
  BY <1>1, <1>2, <1>3 DEF Next

\* A slot file that appears has its creator; one whose tender leaves has gone.
LEMMA StepFiles == IInv /\ [Next]_vars => FilesAreTended'
<1> SUFFICES ASSUME IInv, [Next]_vars PROVE FilesAreTended'
  OBVIOUS
<1> USE RequestsAssumption DEF IInv, TypeOK, FilesAreTended, Tending, Goes, bounds, Places
<1>1. ASSUME NEW r \in Requests,
             Enters(r) \/ AcquireStep(r) \/ HoldStep(r) \/ Touches(r) \/ Cancels(r) \/ Crash(r)
             \/ GuardFails(r) \/ CreateFails(r)
      PROVE  FilesAreTended'
  <2>1. CASE Enters(r)
    BY <2>1 DEF Enters
  <2>2. CASE Creates(r)
    BY <2>2 DEF Creates
  <2>3. CASE Locks(r)
    BY <2>3 DEF Locks
  <2>4. CASE LockFails(r)
    BY <2>4 DEF LockFails
  <2>5. CASE Undoes(r)
    BY <2>5, AdvanceMoves DEF Undoes
  <2>6. CASE FindsTaken(r)
    BY <2>6 DEF FindsTaken
  <2>7. CASE PassesOn(r)
    BY <2>7, AdvanceMoves DEF PassesOn
  <2>8. CASE FindsStale(r)
    BY <2>8 DEF FindsStale
  <2>9. CASE Steals(r)
    BY <2>9 DEF Steals
  <2>10. CASE StealRefused(r)
    BY <2>10, AdvanceMoves DEF StealRefused
  <2>11. CASE Reaps(r)
    BY <2>11 DEF Reaps
  <2>12. CASE ReapEnds(r)
    BY <2>12, AdvanceMoves DEF ReapEnds
  <2>13. CASE Polls(r)
    BY <2>13 DEF Polls
  <2>14. CASE Cancels(r)
    BY <2>14 DEF Cancels
  <2>15. CASE Responds(r)
    BY <2>15 DEF Responds
  <2>16. CASE Releases(r)
    BY <2>16 DEF Releases
  <2>17. CASE Unlocks(r)
    BY <2>17 DEF Unlocks
  <2>18. CASE Removes(r)
    BY <2>18 DEF Removes
  <2>19. CASE Touches(r)
    BY <2>19 DEF Touches
  <2>20. CASE Crash(r)
    BY <2>20 DEF Crash
  <2>21. CASE GuardFails(r)
    BY <2>21, AdvanceMoves DEF GuardFails
  <2>22. CASE CreateFails(r)
    BY <2>22 DEF CreateFails
  <2> QED
    BY <1>1, <2>1, <2>2, <2>3, <2>4, <2>5, <2>6, <2>7, <2>8, <2>9, <2>10, <2>11, <2>12, <2>13, <2>14, <2>15, <2>16, <2>17, <2>18, <2>19, <2>20, <2>21, <2>22 DEF AcquireStep, HoldStep
<1>2. ASSUME NEW s \in Slots, Ages(s) \/ Suspend(s) PROVE FilesAreTended'
  BY <1>2 DEF Ages, Suspend
<1>3. CASE UNCHANGED vars
  BY <1>3 DEF vars
<1> QED
  BY <1>1, <1>2, <1>3 DEF Next

\* The invariant is inductive.
THEOREM Inductive == Spec => []IInv
<1>1. IInv /\ [Next]_vars => IInv'
  BY StepType, StepOwners, StepLocks, StepFiles DEF IInv
<1> QED
  BY InitIInv, <1>1, PTL DEF Spec

\* Every variable of the limiter keeps its type.
THEOREM TypeCorrect == Spec => []TypeOK
<1>1. IInv => TypeOK
  BY DEF IInv
<1> QED
  BY Inductive, <1>1, PTL

-----------------------------------------------------------------------------
\* Two requests that own a slot are one, because its guard has one holder.
LEMMA OwnersDiffer == IInv => SlotsAreExclusive
  BY DEF IInv, OwnersLock, Owning, SlotsAreExclusive, Serving

\* There are as many slots as max_parallel says.
LEMMA SlotCount == IsFiniteSet(Slots) /\ Cardinality(Slots) = MaxParallel
  BY SlotsAssumption, FS_Interval DEF Slots

\* The requests that are served are mapped into the slots without a collision.
LEMMA ServedFit == IInv => IsFiniteSet(Serving) /\ AtMostMaxParallel
<1> SUFFICES ASSUME IInv PROVE IsFiniteSet(Serving) /\ AtMostMaxParallel
  OBVIOUS
<1> DEFINE f == [r \in Serving |-> at[r]]
<1>1. f \in [Serving -> Slots]
  BY DEF IInv, TypeOK, Serving
<1>2. \A r1, r2 \in Serving : f[r1] = f[r2] => r1 = r2
  BY OwnersDiffer DEF SlotsAreExclusive
<1>3. f \in Injection(Serving, Slots)
  BY <1>1, <1>2 DEF Injection, IsInjective
<1>4. IsFiniteSet(Serving) /\ Cardinality(Serving) <= Cardinality(Slots)
  BY <1>3, SlotCount, FS_Injection
<1> QED
  BY <1>4, SlotCount DEF AtMostMaxParallel

\* Two requests never hold the same slot, over every reaped, removed and
\* re-created slot file and every crash (acquireLocalModelSlot).
THEOREM Exclusive == Spec => []SlotsAreExclusive
  BY Inductive, OwnersDiffer, PTL

\* The local server never works on more than max_parallel requests
\* (localConcurrencyTransport).
THEOREM Limited == Spec => []AtMostMaxParallel
<1>1. IInv => AtMostMaxParallel
  BY ServedFit
<1> QED
  BY Inductive, <1>1, PTL

\* Without a crash, requests that are over leave no file and no lock behind.
THEOREM CleanedUp == Spec => []NothingIsLeft
<1>1. IInv => NothingIsLeft
  <2> SUFFICES ASSUME IInv, crashes = 0,
                      \A r \in Requests : pc[r] \in {"idle", "done", "failed"},
                      NEW s \in Slots
               PROVE  slot[s] = "absent" /\ guard[s] = None
    BY DEF NothingIsLeft
  <2>1. slot[s] = "absent"
    BY DEF IInv, FilesAreTended, Tending
  <2>2. guard[s] = None
    BY DEF IInv, TypeOK, LocksAreOwned, Owning
  <2> QED
    BY <2>1, <2>2
<1> QED
  BY Inductive, <1>1, PTL

-----------------------------------------------------------------------------
\* A step lets nobody in, lets one request in, or lets one out.
LEMMA OneAtATime ==
  ASSUME TypeOK, [Next]_vars
  PROVE  \/ Serving' = Serving
         \/ \E r \in Requests \ Serving : Serving' = Serving \cup {r}
         \/ \E r \in Serving : Serving' = Serving \ {r}
<1> USE DEF TypeOK, Serving, Goes
<1>1. ASSUME NEW r \in Requests, Locks(r)
      PROVE  r \notin Serving /\ Serving' = Serving \cup {r}
  BY <1>1 DEF Locks
<1>2. ASSUME NEW r \in Requests, Releases(r)
      PROVE  r \in Serving /\ Serving' = Serving \ {r}
  BY <1>2 DEF Releases
<1>3. ASSUME NEW r \in Requests, Crash(r)
      PROVE  Serving' = Serving \ {r}
  BY <1>3 DEF Crash
<1>4. ASSUME NEW r \in Requests,
             Undoes(r) \/ PassesOn(r) \/ StealRefused(r) \/ ReapEnds(r) \/ GuardFails(r)
      PROVE  Serving' = Serving
  BY <1>4, AdvanceMoves DEF Undoes, PassesOn, StealRefused, ReapEnds, GuardFails
<1>5. ASSUME NEW r \in Requests,
             Enters(r) \/ Creates(r) \/ LockFails(r) \/ FindsTaken(r) \/ FindsStale(r)
             \/ Steals(r) \/ Reaps(r) \/ Polls(r)
      PROVE  Serving' = Serving
  BY <1>5 DEF Enters, Creates, LockFails, FindsTaken, FindsStale, Steals, Reaps, Polls
<1>6. ASSUME NEW r \in Requests,
             Cancels(r) \/ CreateFails(r) \/ Responds(r) \/ Unlocks(r) \/ Removes(r) \/ Touches(r)
      PROVE  Serving' = Serving
  BY <1>6 DEF Cancels, CreateFails, Responds, Unlocks, Removes, Touches
<1>7. ASSUME NEW s \in Slots, Ages(s) \/ Suspend(s) PROVE Serving' = Serving
  BY <1>7 DEF Ages, Suspend
<1>8. CASE UNCHANGED vars
  BY <1>8 DEF vars
<1> HIDE DEF Serving
<1>9. ASSUME NEW r \in Requests, AcquireStep(r) \/ HoldStep(r)
      PROVE  \/ Locks(r) \/ Releases(r)
             \/ Undoes(r) \/ PassesOn(r) \/ StealRefused(r) \/ ReapEnds(r) \/ GuardFails(r)
             \/ Creates(r) \/ LockFails(r) \/ FindsTaken(r) \/ FindsStale(r)
             \/ Steals(r) \/ Reaps(r) \/ Polls(r)
             \/ Responds(r) \/ Unlocks(r) \/ Removes(r)
  BY <1>9 DEF AcquireStep, HoldStep
<1> QED
  BY <1>1, <1>2, <1>3, <1>4, <1>5, <1>6, <1>7, <1>8, <1>9 DEF Next, Serving

\* The limiter is a counting semaphore: files, guards, stealing and polling are
\* invisible, and a request enters only while fewer than max_parallel are in.
THEOREM ImplementsSemaphore == Spec => SemaphoreSpec
<1>1. Init => Sem!Init
  BY DEF Init, Sem!Init, Serving
<1>2. IInv /\ AtMostMaxParallel' /\ [Next]_vars => [Sem!Next]_Serving
  <2> SUFFICES ASSUME IInv, AtMostMaxParallel', [Next]_vars PROVE [Sem!Next]_Serving
    OBVIOUS
  <2>1. CASE Serving' = Serving
    BY <2>1
  <2>2. ASSUME NEW r \in Requests \ Serving, Serving' = Serving \cup {r}
        PROVE  Sem!Enter(r)
    <3>1. IsFiniteSet(Serving) /\ Cardinality(Serving) \in Nat
      BY ServedFit, FS_CardinalityType
    <3>2. Cardinality(Serving \cup {r}) = Cardinality(Serving) + 1
      BY <2>2, <3>1, FS_AddElement
    <3>3. Cardinality(Serving) < MaxParallel
      BY <2>2, <3>1, <3>2, SlotsAssumption DEF AtMostMaxParallel
    <3>4. Sem!Cardinality(Serving) = Cardinality(Serving)
      BY DEF Cardinality, Sem!Cardinality
    <3> QED
      BY <2>2, <3>3, <3>4 DEF Sem!Enter
  <2>3. ASSUME NEW r \in Serving, Serving' = Serving \ {r} PROVE Sem!Leave(r)
    BY <2>3 DEF Sem!Leave
  <2>4. Serving \subseteq Requests
    BY DEF Serving
  <2> QED
    BY <2>1, <2>2, <2>3, <2>4, OneAtATime DEF IInv, Sem!Next
<1> QED
  BY Inductive, Limited, <1>1, <1>2, PTL DEF Spec, SemaphoreSpec, Sem!Spec
=============================================================================
