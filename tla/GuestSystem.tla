------------------------------ MODULE GuestSystem ------------------------------
(***************************************************************************)
(* Guest threads that use one critical section: GuestThread composed with  *)
(* CriticalSection.  RtlEnterCriticalSection knows a thread only by r13,   *)
(* the address of the context GuestThreadContext allocated for it, so the  *)
(* section's threads are contexts here.  A context is given back when its  *)
(* thread ends and may become the identity of a later thread.              *)
(*                                                                         *)
(* The main thread creates, waits for and destroys the others, and enters  *)
(* the section like them.  A guest function may return while it is inside. *)
(* The section is initialised before the first thread is created, and the  *)
(* build's compare_exchange_weak does not fail spuriously; both are varied *)
(* in CriticalSection.                                                     *)
(***************************************************************************)
EXTENDS Integers, FiniteSets

CONSTANTS
    Main,           \* the main thread
    MainContext,    \* its context
    Handles, Contexts, NoHandle, Garbage, None, CallsMayFail,   \* of GuestThread
    NoThread, MaxDepth,                                         \* of CriticalSection
    MaxEnters       \* bound on how often one thread enters (the guest's)

ASSUME MainAssumption ==
    Main \notin Handles /\ MainContext \notin Contexts \cup {NoThread, None}
ASSUME ThreadAssumption ==      \* GuestThread's NamesAssumption
    /\ {NoHandle, Garbage, None} \cap (Handles \cup Contexts) = {}
    /\ NoHandle # Garbage /\ NoHandle # None /\ Garbage # None
ASSUME ContextAssumption == NoThread \notin Contexts /\ None \notin Contexts
ASSUME EntersAssumption == MaxEnters \in Nat \ {0}

VARIABLES
    pc, current, object, suspended, threadHandle, stack, threadId,
    libnx, tpc, context, waited, halted,    \* of GuestThread
    weakCas, owningThread, recursionCount, initialized,
    place, previousOwner, count, depth,     \* of CriticalSection, place for its pc
    entered,        \* how often the thread on a context has called Enter
    abandoned       \* a guest function has returned inside the section

Callers == {Main}
Identities == Contexts \cup {MainContext}

GT == INSTANCE GuestThread
CS == INSTANCE CriticalSection WITH Threads <- Identities, pc <- place

threads == <<pc, current, object, suspended, threadHandle, stack, threadId,
             libnx, tpc, context, waited, halted>>
section == <<weakCas, owningThread, recursionCount, initialized,
             place, previousOwner, count, depth>>
vars == <<threads, section, entered, abandoned>>

Init ==
    /\ GT!Init
    /\ threadHandle = [h \in Handles |-> NoHandle]
    /\ CS!Init
    /\ ~weakCas /\ owningThread = NoThread /\ recursionCount = 0
    /\ entered = [i \in Identities |-> 0]
    /\ abandoned = FALSE

-----------------------------------------------------------------------------
(* The section sees a thread by its identity *)

People == Handles \cup {Main}
Identity(p) == IF p = Main THEN MainContext ELSE context[p]
Alive(p) == p \in Handles => tpc[p] = "run"

(* A thread on context i runs guest code, and does not wait in a kernel call. *)
Running(i) ==
    /\ ~halted
    /\ \E p \in People : Alive(p) /\ Identity(p) = i /\ (p = Main => pc[Main] = "idle")

RtlInitializeCriticalSection ==
    /\ Running(MainContext)
    /\ \A h \in Handles : object[h] = "none"
    /\ CS!RtlInitializeCriticalSection
    /\ UNCHANGED <<threads, entered, abandoned>>

RtlEnterCriticalSection(i) ==
    /\ Running(i)
    /\ entered[i] < MaxEnters
    /\ CS!EnterCall(i)
    /\ entered' = [entered EXCEPT ![i] = entered[i] + 1]
    /\ UNCHANGED <<threads, abandoned>>

(* A step inside the two functions, or the call that leaves. *)
InSection(i) ==
    /\ Running(i)
    /\ CS!Step(i)
    /\ UNCHANGED <<threads, entered, abandoned>>

WaitUnblocks(i) ==
    /\ Running(i)
    /\ CS!WaitUnblocks(i)
    /\ UNCHANGED <<threads, entered, abandoned>>

-----------------------------------------------------------------------------
(* The life of the threads *)

MainCalls ==
    /\ initialized
    /\ place[MainContext] = "idle"
    /\ GT!GuestCall(Main)
    /\ UNCHANGED <<section, entered, abandoned>>

MainStep ==
    /\ GT!CallerStep(Main)
    /\ UNCHANGED <<section, entered, abandoned>>

(* A new thread has entered nothing, whatever its context was used for. *)
ContextAllocated(h) ==
    /\ GT!AllocContext(h)
    /\ depth' = [i \in Identities |-> IF i = context'[h] THEN 0 ELSE depth[i]]
    /\ entered' = [i \in Identities |-> IF i = context'[h] THEN 0 ELSE entered[i]]
    /\ UNCHANGED <<weakCas, owningThread, recursionCount, initialized,
                   place, previousOwner, count, abandoned>>

GuestFunctionReturns(h) ==
    /\ Alive(h)
    /\ place[context[h]] = "idle"
    /\ GT!GuestFunctionReturns(h)
    /\ abandoned' = (abandoned \/ depth[context[h]] > 0)
    /\ UNCHANGED <<section, entered>>

WrapperStep(h) ==
    /\ GT!WrapperStarts(h) \/ GT!FreeContext(h) \/ GT!ThreadExit(h)
    /\ UNCHANGED <<section, entered, abandoned>>

ThreadStep(h) == ContextAllocated(h) \/ GuestFunctionReturns(h) \/ WrapperStep(h)

Next ==
    \/ RtlInitializeCriticalSection
    \/ MainCalls
    \/ MainStep
    \/ \E h \in Handles : ThreadStep(h)
    \/ \E i \in Identities : RtlEnterCriticalSection(i) \/ InSection(i) \/ WaitUnblocks(i)

Spec == Init /\ [][Next]_vars

(* Every thread that can go on does; the guest leaves what it has entered  *)
(* or returns.                                                             *)
FairSpec ==
    /\ Spec
    /\ WF_vars(MainStep)
    /\ \A h \in Handles : WF_vars(ThreadStep(h))
    /\ \A i \in Identities : WF_vars(InSection(i))

-----------------------------------------------------------------------------
(* Correctness *)

Inside(p) == Alive(p) /\ depth[Identity(p)] > 0

(* Never are two live threads inside the section, and the one inside is    *)
(* the one the owner word names, though the names are addresses of         *)
(* contexts that are freed and allocated again: not even when a thread     *)
(* ended inside and another one now runs on its context.                   *)
OneThreadInside ==
    /\ \A p, q \in People : Inside(p) /\ Inside(q) => p = q
    /\ \A p \in People : Inside(p) => owningThread = Identity(p)

(* A thread that ends takes no lock with it: unless a guest function       *)
(* returned inside, the owner is alive and has yet to leave.  So a         *)
(* recycled context never finds itself the owner of a lock it did not take.*)
OwnerIsAlive ==
    ~abandoned /\ initialized /\ owningThread # NoThread =>
        /\ \E p \in People : Alive(p) /\ Identity(p) = owningThread
        /\ CS!Holding(owningThread)

(* A section that a guest function returned inside is lost for good.  It   *)
(* has no other owner ever again, so every thread on another context sleeps;*)
(* and a later thread on the same context, which the code takes for the    *)
(* owner, enters and leaves it as often as it likes and never sets it free *)
(* (kernel.cpp:36, 53-61).                                                 *)
AbandonedForGood == [][abandoned => UNCHANGED owningThread]_vars

(* A thread that is not suspended ends: nobody sleeps for ever on the      *)
(* section, whoever comes, goes and is destroyed.  The guest's part is not *)
(* to return inside it, nor to have main stay inside it for good, as when  *)
(* it waits there for a thread that wants to enter.                        *)
ThreadsEnd ==
    \/ <>[](depth[MainContext] > 0)
    \/ \A h \in Handles :
          (tpc[h] # "none" /\ ~suspended[h]) ~> (tpc[h] = "done" \/ abandoned \/ halted)

-----------------------------------------------------------------------------
(* The inductive invariant                                                 *)

TypeOK ==
    /\ object \in [Handles -> {"none", "made", "destroyed"}]
    /\ tpc \in [Handles -> GT!ThreadLocations]
    /\ context \in [Handles -> Contexts \cup {None}]
    /\ pc \in [Callers -> GT!CallerLocations]
    /\ current \in [Callers -> Handles \cup {None}]
    /\ initialized \in BOOLEAN /\ abandoned \in BOOLEAN
    /\ owningThread \in Identities \cup {NoThread}
    /\ recursionCount \in Nat
    /\ place \in [Identities -> CS!Locations]
    /\ count \in [Identities -> Nat]
    /\ depth \in [Identities -> Nat]

(* A thread has a context of its own from its allocation to its release. *)
ContextsOwned ==
    /\ \A h \in Handles : context[h] # None <=> tpc[h] \in {"run", "free"}
    /\ \A g, h \in Handles : g # h /\ context[g] # None => context[g] # context[h]

(* The thread main is constructing has not started. *)
Constructing ==
    /\ pc[Main] \in {"mallocStack", "threadCreate", "threadStart", "report"} =>
          current[Main] \in Handles /\ object[current[Main]] = "none"
    /\ \A h \in Handles :
          object[h] = "none" /\ ~(pc[Main] = "report" /\ current[Main] = h) => tpc[h] = "none"

LiveIdentities == {Identity(p) : p \in {q \in People : Alive(q)}}

(* Only a live thread is in a call of the section, initialised before. *)
CallersAlive ==
    /\ \A i \in Identities : place[i] # "idle" => i \in LiveIdentities
    /\ ~initialized => \A i \in Identities : place[i] = "idle" /\ depth[i] = 0

(* Whoever holds the section is named by its owner word, and the counter   *)
(* is no less than its nesting: it may be more when a thread ended inside  *)
(* and another took its context, which then never releases the section.    *)
HoldersOwn ==
    /\ \A i \in Identities : CS!Holding(i) => owningThread = i
    /\ \A i \in Identities : initialized /\ owningThread = i =>
          /\ recursionCount >= depth[i] + (IF place[i] = "leaveStore" THEN 1 ELSE 0)
          /\ place[i] \in {"enterStore", "leaveStore"} => count[i] = recursionCount
    /\ \A i \in Identities : place[i] \in {"release", "notify", "wait", "parked"} => depth[i] = 0

(* Until a guest function returns inside, the counter is the nesting, and  *)
(* nothing is held by a thread that has gone.                              *)
NothingLeftBehind ==
    initialized /\ ~abandoned =>
        /\ owningThread = NoThread => recursionCount = 0
        /\ owningThread # NoThread => CS!Holding(owningThread)
        /\ \A i \in Identities :
              /\ owningThread = i =>
                    recursionCount = depth[i] + (IF place[i] = "leaveStore" THEN 1 ELSE 0)
              /\ depth[i] > 0 => i \in LiveIdentities

(* From then on the counter is ahead of the nesting of whoever runs on the *)
(* owner's context, so that nobody leaves for the last time.               *)
LeftForGood ==
    abandoned =>
        /\ initialized /\ owningThread # NoThread /\ recursionCount > 0
        /\ place[owningThread] # "release"
        /\ owningThread \in LiveIdentities =>
              recursionCount > depth[owningThread]
                                 + (IF place[owningThread] = "leaveStore" THEN 1 ELSE 0)

IndInv ==
    /\ TypeOK
    /\ ContextsOwned
    /\ Constructing
    /\ CallersAlive
    /\ HoldersOwn
    /\ NothingLeftBehind
    /\ LeftForGood
==============================================================================
