--------------------------- MODULE CriticalSection ---------------------------
(***************************************************************************)
(* RtlInitializeCriticalSection, RtlEnterCriticalSection and               *)
(* RtlLeaveCriticalSection of kernel.cpp on one guest critical section.    *)
(*                                                                         *)
(* OwningThread is a C++ atomic (compare_exchange_weak, wait, store,       *)
(* notify_one); RecursionCount is plain memory, read and written in        *)
(* separate steps and protected by nothing but ownership.  Each step of a  *)
(* thread is one access to the shared structure, so every interleaving of  *)
(* the accesses is a behaviour.  LockCount and the dispatcher header are   *)
(* written by the initialisation and read by no one; they are left out.    *)
(***************************************************************************)
EXTENDS Integers, FiniteSets

CONSTANTS
    Threads,    \* the guest threads, each identified by its r13
    NoThread,   \* the value 0 of OwningThread
    MaxDepth    \* bound on the nesting of one thread (the guest's, not the code's)

(* kernel.cpp asserts that a calling thread's id is not 0. *)
ASSUME NoThreadAssumption == NoThread \notin Threads
ASSUME MaxDepthAssumption == MaxDepth \in Nat \ {0}

VARIABLES
    weakCas,        \* compare_exchange_weak may fail spuriously in this build (LL/SC)
    owningThread,   \* cs->OwningThread
    recursionCount, \* cs->RecursionCount
    initialized,    \* the guest has called RtlInitializeCriticalSection
    pc,             \* where each thread is inside the two functions
    previousOwner,  \* the local of RtlEnterCriticalSection
    count,          \* the register holding the RecursionCount just read
    depth           \* how often the guest thread has entered and not left

setup == <<weakCas, initialized>>
lock  == <<owningThread, recursionCount>>
local == <<previousOwner, count>>
vars  == <<weakCas, owningThread, recursionCount, initialized, pc, previousOwner, count, depth>>

Locations == {"idle", "cas", "enterLoad", "enterStore", "wait", "parked",
              "leaveStore", "leaveTest", "release", "notify"}

TypeOK ==
    /\ weakCas \in BOOLEAN
    /\ owningThread \in Threads \cup {NoThread}
    /\ recursionCount \in 0..MaxDepth
    /\ initialized \in BOOLEAN
    /\ pc \in [Threads -> Locations]
    /\ previousOwner \in [Threads -> Threads \cup {NoThread}]
    /\ count \in [Threads -> 0..MaxDepth]
    /\ depth \in [Threads -> 0..MaxDepth]

-----------------------------------------------------------------------------
(* The memory of the section holds anything until it is initialised. *)
Init ==
    /\ weakCas \in BOOLEAN
    /\ owningThread \in Threads \cup {NoThread}
    /\ recursionCount \in 0..MaxDepth
    /\ initialized = FALSE
    /\ pc = [t \in Threads |-> "idle"]
    /\ previousOwner = [t \in Threads |-> NoThread]
    /\ count = [t \in Threads |-> 0]
    /\ depth = [t \in Threads |-> 0]

Goto(t, from, to) == pc[t] = from /\ pc' = [pc EXCEPT ![t] = to]

(* Faulty: RecursionCount keeps what the memory held. *)
RtlInitializeCriticalSection_KeepsCount ==
    /\ ~initialized
    /\ initialized' = TRUE
    /\ owningThread' = NoThread
    /\ UNCHANGED <<weakCas, recursionCount, pc, local, depth>>

RtlInitializeCriticalSection ==
    /\ ~initialized
    /\ initialized' = TRUE
    /\ owningThread' = NoThread
    /\ recursionCount' = 0
    /\ UNCHANGED <<weakCas, pc, local, depth>>

-----------------------------------------------------------------------------
(* RtlEnterCriticalSection *)

EnterCall(t) ==
    /\ initialized
    /\ depth[t] < MaxDepth
    /\ Goto(t, "idle", "cas")
    /\ UNCHANGED <<lock, setup, local, depth>>

(* compare_exchange_weak finds 0 and writes the caller. *)
CasAcquire(t) ==
    /\ owningThread = NoThread
    /\ Goto(t, "cas", "enterLoad")
    /\ owningThread' = t
    /\ UNCHANGED <<recursionCount, setup, local, depth>>

(* It fails, and the value it read back is the caller itself. *)
CasReenter(t) ==
    /\ owningThread = t
    /\ Goto(t, "cas", "enterLoad")
    /\ UNCHANGED <<lock, setup, local, depth>>

(* It fails because another thread is the owner. *)
CasContended(t) ==
    /\ owningThread \notin {NoThread, t}
    /\ Goto(t, "cas", "wait")
    /\ previousOwner' = [previousOwner EXCEPT ![t] = owningThread]
    /\ UNCHANGED <<lock, setup, count, depth>>

(* It fails though the value was 0; previousOwner stays 0. *)
CasSpurious(t) ==
    /\ weakCas
    /\ owningThread = NoThread
    /\ Goto(t, "cas", "wait")
    /\ UNCHANGED <<lock, setup, local, depth>>

LoadForEnter(t) ==
    /\ Goto(t, "enterLoad", "enterStore")
    /\ count' = [count EXCEPT ![t] = recursionCount]
    /\ UNCHANGED <<lock, setup, previousOwner, depth>>

(* The increment is written and the function returns to the guest. *)
StoreForEnter(t) ==
    /\ Goto(t, "enterStore", "idle")
    /\ recursionCount' = count[t] + 1
    /\ count' = [count EXCEPT ![t] = 0]
    /\ depth' = [depth EXCEPT ![t] = depth[t] + 1]
    /\ UNCHANGED <<owningThread, setup, previousOwner>>

(* owningThread.wait(previousOwner): return once the value differs, and    *)
(* otherwise sleep; the comparison and falling asleep are one atomic step. *)
WaitReturns(t) ==
    /\ owningThread # previousOwner[t]
    /\ Goto(t, "wait", "cas")
    /\ previousOwner' = [previousOwner EXCEPT ![t] = NoThread]
    /\ UNCHANGED <<lock, setup, count, depth>>

WaitBlocks(t) ==
    /\ owningThread = previousOwner[t]
    /\ Goto(t, "wait", "parked")
    /\ UNCHANGED <<lock, setup, local, depth>>

(* A wait may be unblocked spuriously; it then compares again. *)
WaitUnblocks(t) ==
    /\ Goto(t, "parked", "wait")
    /\ UNCHANGED <<lock, setup, local, depth>>

-----------------------------------------------------------------------------
(* RtlLeaveCriticalSection, called by a guest that is inside *)

(* The call, up to reading RecursionCount. *)
LeaveCall(t) ==
    /\ depth[t] > 0
    /\ Goto(t, "idle", "leaveStore")
    /\ count' = [count EXCEPT ![t] = recursionCount]
    /\ depth' = [depth EXCEPT ![t] = depth[t] - 1]
    /\ UNCHANGED <<lock, setup, previousOwner>>

LeaveStore(t) ==
    /\ Goto(t, "leaveStore", "leaveTest")
    /\ recursionCount' = count[t] - 1
    /\ count' = [count EXCEPT ![t] = 0]
    /\ UNCHANGED <<owningThread, setup, previousOwner, depth>>

(* Faulty: the first leave releases, whatever the nesting. *)
LeaveTest_IgnoresNesting(t) ==
    /\ Goto(t, "leaveTest", "release")
    /\ UNCHANGED <<lock, setup, local, depth>>

(* RecursionCount is read a second time for the test. *)
LeaveTest(t) ==
    /\ Goto(t, "leaveTest", IF recursionCount # 0 THEN "idle" ELSE "release")
    /\ UNCHANGED <<lock, setup, local, depth>>

(* Faulty: the owner is notified about, but not cleared. *)
StoreRelease_KeepsOwner(t) ==
    /\ Goto(t, "release", "notify")
    /\ UNCHANGED <<lock, setup, local, depth>>

StoreRelease(t) ==
    /\ Goto(t, "release", "notify")
    /\ owningThread' = NoThread
    /\ UNCHANGED <<recursionCount, setup, local, depth>>

Parked == {t \in Threads : pc[t] = "parked"}

(* Faulty: the owner is stored but nobody is notified. *)
NotifyOne_Omitted(t) ==
    /\ Goto(t, "notify", "idle")
    /\ UNCHANGED <<lock, setup, local, depth>>

(* notify_one unblocks at least one of the threads asleep, if there is one. *)
NotifyOne(t) ==
    /\ pc[t] = "notify"
    /\ \E woken \in SUBSET Parked :
          /\ Parked # {} => woken # {}
          /\ pc' = [u \in Threads |-> IF u = t THEN "idle"
                                      ELSE IF u \in woken THEN "wait" ELSE pc[u]]
    /\ UNCHANGED <<lock, setup, local, depth>>

-----------------------------------------------------------------------------
(* What the scheduler must eventually run: the two functions' own code and *)
(* the guest's obligation to leave what it entered.  Not the decision to   *)
(* enter, and not the spurious events.                                     *)
Step(t) ==
    \/ CasAcquire(t) \/ CasReenter(t) \/ CasContended(t)
    \/ LoadForEnter(t) \/ StoreForEnter(t)
    \/ WaitReturns(t) \/ WaitBlocks(t)
    \/ LeaveCall(t) \/ LeaveStore(t) \/ LeaveTest(t)
    \/ StoreRelease(t) \/ NotifyOne(t)

Next ==
    \/ RtlInitializeCriticalSection
    \/ \E t \in Threads :
          Step(t) \/ EnterCall(t) \/ CasSpurious(t) \/ WaitUnblocks(t)

Spec == Init /\ [][Next]_vars

FairSpec == Spec /\ \A t \in Threads : WF_vars(Step(t))

-----------------------------------------------------------------------------
(* Correctness *)

(* RtlEnterCriticalSection has returned to at most one thread that has not *)
(* called RtlLeaveCriticalSection as often.                                *)
MutualExclusion ==
    \A t, u \in Threads : depth[t] > 0 /\ depth[u] > 0 => t = u

(* A thread has ownership from its successful exchange, or re-entry, to    *)
(* the store that gives it up.                                             *)
Holding(t) ==
    \/ depth[t] > 0
    \/ pc[t] \in {"enterLoad", "enterStore", "leaveStore", "leaveTest", "release"}

(* OwningThread names exactly the thread that is entering, inside or       *)
(* leaving: the lock is never left owned by a thread that has left it, nor *)
(* freed or overwritten under a thread still in it.                        *)
OwnerHolds ==
    initialized => \A t \in Threads : Holding(t) <=> owningThread = t

(* The unprotected RecursionCount is never corrupted: with no update of it *)
(* in flight it is the nesting of the owner, and 0 when the lock is free.  *)
RecursionMatchesNesting ==
    initialized =>
        /\ owningThread = NoThread => recursionCount = 0
        /\ \A t \in Threads :
              owningThread = t /\ pc[t] \in {"idle", "cas"} => recursionCount = depth[t]

(* After a spurious failure on a free lock previousOwner is 0: the thread  *)
(* waits for the lock to be taken, not for it to be given up.              *)
WaitsForNobody(t) == pc[t] \in {"wait", "parked"} /\ previousOwner[t] = NoThread

(* Threads asleep on a free lock are not forgotten: someone is still to    *)
(* notify, or is awake and will look at the lock again.  The one exception *)
(* is a thread that waits for nobody: it may have taken the notification.  *)
NoStrandedWaiter ==
    (owningThread = NoThread /\ Parked # {}) =>
        \E t \in Threads : pc[t] \in {"notify", "cas", "wait"} \/ WaitsForNobody(t)

(* RtlEnterCriticalSection and RtlLeaveCriticalSection make a recursive lock. *)
RL == INSTANCE RecursiveLock WITH held <- depth
ImplementsRecursiveLock == RL!Spec

(***************************************************************************)
(* The inductive strengthening of the invariants above: what each place in *)
(* the two functions knows of the counter and of the guest's nesting.      *)
(***************************************************************************)
UnusedBeforeInitialized ==
    ~initialized => \A t \in Threads : pc[t] = "idle" /\ depth[t] = 0

(* Where the owner t stands tells what RecursionCount and its own copy are. *)
OwnerCounts ==
    \A t \in Threads : initialized /\ owningThread = t =>
        /\ recursionCount = depth[t] + (IF pc[t] = "leaveStore" THEN 1 ELSE 0)
        /\ pc[t] \in {"enterStore", "leaveStore"} => count[t] = recursionCount

DepthAtLocation ==
    \A t \in Threads :
        /\ pc[t] \in {"wait", "parked", "release", "notify"} => depth[t] = 0
        /\ pc[t] \in {"cas", "enterLoad", "enterStore", "leaveStore"} => depth[t] < MaxDepth

(* Without spurious failures a thread waits only for an owner to go. *)
WaitsForAnOwner ==
    ~weakCas => \A t \in Threads : ~WaitsForNobody(t)

(* What an owner or a waiter may rely on at every step of the two          *)
(* functions; it implies mutual exclusion and the state of the counter.    *)
IndInv ==
    /\ TypeOK
    /\ UnusedBeforeInitialized
    /\ OwnerHolds
    /\ initialized /\ owningThread = NoThread => recursionCount = 0
    /\ OwnerCounts
    /\ DepthAtLocation
    /\ WaitsForAnOwner

Trying(t) == pc[t] \in {"cas", "wait", "parked"}

(* In a build without spurious failures a thread that wants to enters, unless others      *)
(* enter again and again: no wake-up is lost and no release leaves         *)
(* everyone asleep.                                                        *)
EntersUnlessOvertaken ==
    \A t \in Threads :
        \/ weakCas
        \/ Trying(t) ~> depth[t] > 0
        \/ []<>(\E u \in Threads \ {t} : pc[u] = "enterLoad")
==============================================================================
