------------------------ MODULE CriticalSectionProofs ------------------------
(***************************************************************************)
(* Proofs about the critical section, for every set of threads and every   *)
(* nesting bound: the inductive invariant, the safety properties it        *)
(* implies, the refinement of the recursive lock, and that without         *)
(* spurious exchange failures no sleeping thread is forgotten.             *)
(***************************************************************************)
EXTENDS CriticalSection, TLAPS

USE NoThreadAssumption, MaxDepthAssumption

LEMMA InitIndInv == Init => IndInv
<1> SUFFICES ASSUME Init PROVE IndInv
  OBVIOUS
<1> USE DEF Init
<1>1. TypeOK
  <2>1. 0 \in 0..MaxDepth
    OBVIOUS
  <2>2. initialized \in BOOLEAN
    OBVIOUS
  <2>3. QED
    BY <2>1, <2>2, Zenon DEF TypeOK, Locations
<1>2. UnusedBeforeInitialized /\ OwnerHolds /\ OwnerCounts
  BY DEF UnusedBeforeInitialized, OwnerHolds, OwnerCounts
<1>3. DepthAtLocation /\ WaitsForAnOwner
  BY DEF DepthAtLocation, WaitsForAnOwner, WaitsForNobody
<1>4. QED
  BY <1>1, <1>2, <1>3 DEF IndInv

(* One step per action.  The steps that move the lock are the ones to      *)
(* read: acquiring needs that nobody holds a free lock, releasing that the *)
(* owner's nesting has reached 0.                                          *)
LEMMA NextIndInv == IndInv /\ [Next]_vars => IndInv'
<1> SUFFICES ASSUME IndInv, [Next]_vars PROVE IndInv'
  OBVIOUS
<1> USE DEF IndInv, TypeOK, Locations, Goto, setup, lock, local
<1>1. CASE RtlInitializeCriticalSection
  BY <1>1 DEF RtlInitializeCriticalSection, UnusedBeforeInitialized, OwnerHolds, Holding,
              OwnerCounts, DepthAtLocation, WaitsForAnOwner, WaitsForNobody
<1>2. ASSUME NEW t \in Threads, EnterCall(t) PROVE IndInv'
  BY <1>2 DEF EnterCall, UnusedBeforeInitialized, OwnerHolds, Holding,
              OwnerCounts, DepthAtLocation, WaitsForAnOwner, WaitsForNobody
<1>3. ASSUME NEW t \in Threads, CasAcquire(t) PROVE IndInv'
  <2>1. /\ owningThread = NoThread
        /\ initialized
        /\ pc[t] = "cas"
        /\ \A u \in Threads : ~Holding(u)
    BY <1>3 DEF CasAcquire, UnusedBeforeInitialized, OwnerHolds
  <2>2. recursionCount = 0 /\ depth[t] = 0
    BY <2>1 DEF Holding
  <2>3. TypeOK' /\ UnusedBeforeInitialized' /\ DepthAtLocation' /\ WaitsForAnOwner'
    BY <1>3, <2>1 DEF CasAcquire, UnusedBeforeInitialized, DepthAtLocation, WaitsForAnOwner, WaitsForNobody
  <2>4. OwnerHolds'
    BY <1>3, <2>1 DEF CasAcquire, OwnerHolds, Holding
  <2>5. OwnerCounts'
    BY <1>3, <2>1, <2>2 DEF CasAcquire, OwnerCounts
  <2>6. QED
    BY <1>3, <2>3, <2>4, <2>5 DEF CasAcquire
<1>4. ASSUME NEW t \in Threads, CasReenter(t) PROVE IndInv'
  BY <1>4 DEF CasReenter, UnusedBeforeInitialized, OwnerHolds, Holding,
              OwnerCounts, DepthAtLocation, WaitsForAnOwner, WaitsForNobody
<1>5. ASSUME NEW t \in Threads, CasContended(t) PROVE IndInv'
  BY <1>5 DEF CasContended, UnusedBeforeInitialized, OwnerHolds, Holding,
              OwnerCounts, DepthAtLocation, WaitsForAnOwner, WaitsForNobody
<1>6. ASSUME NEW t \in Threads, CasSpurious(t) PROVE IndInv'
  BY <1>6 DEF CasSpurious, UnusedBeforeInitialized, OwnerHolds, Holding,
              OwnerCounts, DepthAtLocation, WaitsForAnOwner, WaitsForNobody
<1>7. ASSUME NEW t \in Threads, LoadForEnter(t) PROVE IndInv'
  BY <1>7 DEF LoadForEnter, UnusedBeforeInitialized, OwnerHolds, Holding,
              OwnerCounts, DepthAtLocation, WaitsForAnOwner, WaitsForNobody
<1>8. ASSUME NEW t \in Threads, StoreForEnter(t) PROVE IndInv'
  BY <1>8 DEF StoreForEnter, UnusedBeforeInitialized, OwnerHolds, Holding,
              OwnerCounts, DepthAtLocation, WaitsForAnOwner, WaitsForNobody
<1>9. ASSUME NEW t \in Threads, WaitReturns(t) PROVE IndInv'
  BY <1>9 DEF WaitReturns, UnusedBeforeInitialized, OwnerHolds, Holding,
              OwnerCounts, DepthAtLocation, WaitsForAnOwner, WaitsForNobody
<1>10. ASSUME NEW t \in Threads, WaitBlocks(t) PROVE IndInv'
  BY <1>10 DEF WaitBlocks, UnusedBeforeInitialized, OwnerHolds, Holding,
              OwnerCounts, DepthAtLocation, WaitsForAnOwner, WaitsForNobody
<1>11. ASSUME NEW t \in Threads, WaitUnblocks(t) PROVE IndInv'
  BY <1>11 DEF WaitUnblocks, UnusedBeforeInitialized, OwnerHolds, Holding,
              OwnerCounts, DepthAtLocation, WaitsForAnOwner, WaitsForNobody
<1>12. ASSUME NEW t \in Threads, LeaveCall(t) PROVE IndInv'
  BY <1>12 DEF LeaveCall, UnusedBeforeInitialized, OwnerHolds, Holding,
              OwnerCounts, DepthAtLocation, WaitsForAnOwner, WaitsForNobody
<1>13. ASSUME NEW t \in Threads, LeaveStore(t) PROVE IndInv'
  BY <1>13 DEF LeaveStore, UnusedBeforeInitialized, OwnerHolds, Holding,
              OwnerCounts, DepthAtLocation, WaitsForAnOwner, WaitsForNobody
<1>14. ASSUME NEW t \in Threads, LeaveTest(t) PROVE IndInv'
  <2>1. initialized /\ owningThread = t /\ recursionCount = depth[t]
    BY <1>14 DEF LeaveTest, UnusedBeforeInitialized, OwnerHolds, Holding, OwnerCounts
  <2>2. TypeOK' /\ UnusedBeforeInitialized' /\ WaitsForAnOwner'
    BY <1>14, <2>1 DEF LeaveTest, UnusedBeforeInitialized, WaitsForAnOwner, WaitsForNobody
  <2>3. DepthAtLocation'
    BY <1>14, <2>1 DEF LeaveTest, DepthAtLocation
  <2>4. OwnerHolds' /\ OwnerCounts'
    BY <1>14, <2>1 DEF LeaveTest, OwnerHolds, Holding, OwnerCounts
  <2>5. QED
    BY <1>14, <2>1, <2>2, <2>3, <2>4 DEF LeaveTest
<1>15. ASSUME NEW t \in Threads, StoreRelease(t) PROVE IndInv'
  <2>1. initialized /\ owningThread = t /\ pc[t] = "release" /\ depth[t] = 0
    BY <1>15 DEF StoreRelease, UnusedBeforeInitialized, OwnerHolds, Holding, DepthAtLocation
  <2>2. recursionCount = 0
    BY <2>1 DEF OwnerCounts
  <2>3. TypeOK' /\ UnusedBeforeInitialized' /\ DepthAtLocation' /\ WaitsForAnOwner'
    BY <1>15, <2>1 DEF StoreRelease, UnusedBeforeInitialized, DepthAtLocation, WaitsForAnOwner, WaitsForNobody
  <2>4. OwnerHolds' /\ OwnerCounts'
    BY <1>15, <2>1 DEF StoreRelease, OwnerHolds, Holding, OwnerCounts
  <2>5. QED
    BY <1>15, <2>2, <2>3, <2>4 DEF StoreRelease
<1>16. ASSUME NEW t \in Threads, NotifyOne(t) PROVE IndInv'
  BY <1>16 DEF NotifyOne, Parked, UnusedBeforeInitialized, OwnerHolds, Holding,
              OwnerCounts, DepthAtLocation, WaitsForAnOwner, WaitsForNobody
<1>17. CASE UNCHANGED vars
  BY <1>17 DEF vars, UnusedBeforeInitialized, OwnerHolds, Holding,
              OwnerCounts, DepthAtLocation, WaitsForAnOwner, WaitsForNobody
<1>18. QED
  BY <1>1, <1>2, <1>3, <1>4, <1>5, <1>6, <1>7, <1>8, <1>9, <1>10,
     <1>11, <1>12, <1>13, <1>14, <1>15, <1>16, <1>17 DEF Next, Step

(* Every reachable state of the three kernel functions satisfies the       *)
(* inductive invariant.                                                    *)
THEOREM Invariant == Spec => []IndInv
BY InitIndInv, NextIndInv, PTL DEF Spec

(* The variables keep their types: in particular RecursionCount neither    *)
(* wraps below 0 nor exceeds the guest's nesting bound.                    *)
THEOREM TypeCorrect == Spec => []TypeOK
<1>1. IndInv => TypeOK
  BY DEF IndInv
<1>2. QED
  BY <1>1, Invariant, PTL

(* RtlEnterCriticalSection never lets two threads in at once, spurious     *)
(* exchange failures and spurious wake-ups included.                       *)
THEOREM MutuallyExclusive == Spec => []MutualExclusion
<1>1. IndInv => MutualExclusion
  <2> SUFFICES ASSUME IndInv, NEW t \in Threads, NEW u \in Threads, depth[t] > 0, depth[u] > 0
               PROVE  t = u
    BY DEF MutualExclusion
  <2>1. initialized
    BY DEF IndInv, UnusedBeforeInitialized
  <2>2. owningThread = t /\ owningThread = u
    BY <2>1 DEF IndInv, OwnerHolds, Holding
  <2>3. QED
    BY <2>2
<1>2. QED
  BY <1>1, Invariant, PTL

(* OwningThread is the thread between its acquisition and its release, and *)
(* no other.                                                               *)
THEOREM OwnershipExact == Spec => []OwnerHolds
<1>1. IndInv => OwnerHolds
  BY DEF IndInv
<1>2. QED
  BY <1>1, Invariant, PTL

(* The unprotected counter equals the owner's nesting whenever no update   *)
(* of it is in flight.                                                     *)
THEOREM CounterExact == Spec => []RecursionMatchesNesting
<1>1. IndInv => RecursionMatchesNesting
  BY DEF IndInv, TypeOK, RecursionMatchesNesting, OwnerCounts
<1>2. QED
  BY <1>1, Invariant, PTL

-----------------------------------------------------------------------------
(* The recursive lock *)

(* The abstract lock moves exactly when Enter returns and when Leave is    *)
(* called; every other step leaves it as it is.                            *)
LEMMA StepRefines == IndInv /\ [Next]_vars => [RL!Next]_depth
<1> SUFFICES ASSUME IndInv, [Next]_vars PROVE RL!Next \/ UNCHANGED depth
  OBVIOUS
<1> USE DEF Goto
<1>1. ASSUME NEW t \in Threads, StoreForEnter(t) PROVE RL!Next
  <2>1. depth[t] < MaxDepth
    BY <1>1 DEF StoreForEnter, IndInv, DepthAtLocation
  <2>2. initialized
    BY <1>1 DEF StoreForEnter, IndInv, UnusedBeforeInitialized
  <2>3. owningThread = t
    BY <1>1, <2>2 DEF StoreForEnter, IndInv, OwnerHolds, Holding
  <2>4. \A u \in Threads \ {t} : depth[u] = 0
    BY <2>2, <2>3 DEF IndInv, TypeOK, OwnerHolds, Holding
  <2>5. RL!Acquire(t)
    BY <1>1, <2>1, <2>4 DEF StoreForEnter, RL!Acquire
  <2>6. QED
    BY <2>5 DEF RL!Next
<1>2. ASSUME NEW t \in Threads, LeaveCall(t) PROVE RL!Next
  BY <1>2 DEF LeaveCall, RL!Release, RL!Next
<1>3. ASSUME NEW t \in Threads,
             \/ EnterCall(t) \/ CasAcquire(t) \/ CasReenter(t) \/ CasContended(t)
             \/ CasSpurious(t) \/ LoadForEnter(t) \/ WaitReturns(t) \/ WaitBlocks(t)
             \/ WaitUnblocks(t) \/ LeaveStore(t) \/ LeaveTest(t) \/ StoreRelease(t)
             \/ NotifyOne(t)
      PROVE  UNCHANGED depth
  BY <1>3 DEF EnterCall, CasAcquire, CasReenter, CasContended, CasSpurious, LoadForEnter,
              WaitReturns, WaitBlocks, WaitUnblocks, LeaveStore, LeaveTest, StoreRelease, NotifyOne
<1>4. ASSUME RtlInitializeCriticalSection \/ UNCHANGED vars PROVE UNCHANGED depth
  BY <1>4 DEF RtlInitializeCriticalSection, vars
<1>5. QED
  BY <1>1, <1>2, <1>3, <1>4 DEF Next, Step

(* Initialise, enter and leave implement a recursive lock.                 *)
THEOREM Refinement == Spec => ImplementsRecursiveLock
<1>1. Init => RL!Init
  BY DEF Init, RL!Init
<1>2. QED
  BY <1>1, Invariant, StepRefines, PTL DEF Spec, ImplementsRecursiveLock, RL!Spec

-----------------------------------------------------------------------------
(* Sleeping threads *)

LEMMA NextNoStrandedWaiter ==
    IndInv /\ NoStrandedWaiter /\ [Next]_vars => NoStrandedWaiter'
<1> SUFFICES ASSUME IndInv, NoStrandedWaiter, [Next]_vars,
                    (owningThread = NoThread)', (Parked # {})'
             PROVE  \E u \in Threads : pc'[u] \in {"notify", "cas", "wait"} \/ WaitsForNobody(u)'
  BY DEF NoStrandedWaiter
<1> USE DEF IndInv, TypeOK, Locations, Goto, setup, lock, local
<1>1. ASSUME NEW t \in Threads,
             StoreRelease(t) \/ EnterCall(t) \/ WaitReturns(t) \/ WaitUnblocks(t) \/ CasSpurious(t)
      PROVE  pc'[t] \in {"notify", "cas", "wait"}
  BY <1>1 DEF StoreRelease, EnterCall, WaitReturns, WaitUnblocks, CasSpurious
(* On a free lock a thread falls asleep only if it waits for nobody. *)
<1>2. ASSUME NEW t \in Threads, WaitBlocks(t) PROVE WaitsForNobody(t)'
  BY <1>2 DEF WaitBlocks, WaitsForNobody
(* The notifier wakes a thread, if one sleeps. *)
<1>3. ASSUME NEW t \in Threads, NotifyOne(t) PROVE \E u \in Threads : pc'[u] = "wait"
  <2>1. PICK woken \in SUBSET Parked :
           /\ Parked # {} => woken # {}
           /\ pc' = [u \in Threads |-> IF u = t THEN "idle"
                                       ELSE IF u \in woken THEN "wait" ELSE pc[u]]
    BY <1>3 DEF NotifyOne
  <2>2. Parked # {}
    BY <2>1 DEF Parked
  <2>3. PICK u \in woken : TRUE
    BY <2>1, <2>2
  <2>4. u \in Threads /\ u # t
    BY <1>3, <2>3 DEF NotifyOne, Parked
  <2>5. pc'[u] = "wait"
    BY <2>1, <2>3, <2>4
  <2>6. QED
    BY <2>4, <2>5
(* Steps of, or ending with, an owner: the lock is not free after them. *)
<1>4. ASSUME NEW t \in Threads,
             \/ CasAcquire(t) \/ CasReenter(t) \/ CasContended(t)
             \/ LoadForEnter(t) \/ StoreForEnter(t)
             \/ LeaveCall(t) \/ LeaveStore(t) \/ LeaveTest(t)
      PROVE  FALSE
  <2>1. initialized
    BY <1>4 DEF UnusedBeforeInitialized, CasAcquire, CasReenter, CasContended, LoadForEnter,
                StoreForEnter, LeaveCall, LeaveStore, LeaveTest
  <2>2. CASE CasAcquire(t) \/ CasReenter(t) \/ CasContended(t)
    BY <2>2 DEF CasAcquire, CasReenter, CasContended
  <2>3. CASE \/ LoadForEnter(t) \/ StoreForEnter(t)
             \/ LeaveCall(t) \/ LeaveStore(t) \/ LeaveTest(t)
    BY <2>1, <2>3 DEF OwnerHolds, Holding, LoadForEnter, StoreForEnter, LeaveCall, LeaveStore, LeaveTest
  <2>4. QED
    BY <1>4, <2>2, <2>3
<1>5. ASSUME RtlInitializeCriticalSection PROVE FALSE
  BY <1>5 DEF RtlInitializeCriticalSection, UnusedBeforeInitialized, Parked
<1>6. CASE UNCHANGED vars
  BY <1>6 DEF vars, NoStrandedWaiter, Parked, WaitsForNobody
<1>7. QED
  BY <1>1, <1>2, <1>3, <1>4, <1>5, <1>6 DEF Next, Step

(* A thread asleep on a free lock has somebody who will wake it or take    *)
(* the lock, unless a thread waits for nobody; and in a build without      *)
(* spurious failures none does.                                            *)
THEOREM NobodyStranded ==
    Spec => [](NoStrandedWaiter /\ (~weakCas => \A t \in Threads : ~WaitsForNobody(t)))
<1>1. Init => NoStrandedWaiter
  BY DEF Init, NoStrandedWaiter, Parked
<1>2. IndInv => (~weakCas => \A t \in Threads : ~WaitsForNobody(t))
  BY DEF IndInv, WaitsForAnOwner
<1>3. QED
  BY <1>1, <1>2, NextNoStrandedWaiter, Invariant, PTL DEF Spec
==============================================================================
