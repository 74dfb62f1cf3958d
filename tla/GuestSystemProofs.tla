--------------------------- MODULE GuestSystemProofs ---------------------------
(***************************************************************************)
(* Proofs about GuestThread, for all sets of callers, and about its        *)
(* composition with a critical section in GuestSystem; both for all sets   *)
(* of handles and contexts, however deep and how often threads enter and   *)
(* whether libnx calls fail or not.                                        *)
(***************************************************************************)
EXTENDS GuestSystem, TLAPS

(* GuestThread with the callers C *)
Any(C) == INSTANCE GuestThread WITH Callers <- C

-----------------------------------------------------------------------------
(* Guest threads on their own *)

LEMMA ThreadsInit == ASSUME NEW C PROVE Any(C)!Init => Any(C)!IndInv
<1> SUFFICES ASSUME Any(C)!Init PROVE Any(C)!IndInv
  OBVIOUS
<1> USE ThreadAssumption DEF Any!Init
<1>1. Any(C)!TypeOK
  BY DEF Any!TypeOK, Any!CallerLocations, Any!ThreadLocations
<1>2. Any(C)!CallersApart /\ Any(C)!ConstructorProgress /\ Any(C)!ThreadOfHandle
  BY DEF Any!CallersApart, Any!ConstructorProgress, Any!ThreadOfHandle, Any!Constructing
<1>3. Any(C)!StackOutlivesThread /\ Any(C)!ContextsDistinct /\ Any(C)!WaitedThreadsFinished
  BY DEF Any!StackOutlivesThread, Any!ContextsDistinct, Any!WaitedThreadsFinished, Any!Started
<1>4. QED
  BY <1>1, <1>2, <1>3 DEF Any!IndInv

LEMMA ThreadsNext ==
    ASSUME NEW C PROVE Any(C)!IndInv /\ [Any(C)!Next]_(Any(C)!vars) => Any(C)!IndInv'
<1> SUFFICES ASSUME Any(C)!IndInv, [Any(C)!Next]_(Any(C)!vars) PROVE Any(C)!IndInv'
  OBVIOUS
<1> USE ThreadAssumption DEF Any!IndInv, Any!TypeOK, Any!CallerLocations, Any!ThreadLocations,
        Any!Goto, Any!ThreadGoto,
        Any!handleVars, Any!threadVars, Any!CallersApart, Any!ConstructorProgress,
        Any!ThreadOfHandle, Any!Constructing, Any!StackOutlivesThread, Any!ContextsDistinct,
        Any!WaitedThreadsFinished, Any!Started, Any!InUse
<1>1. ASSUME NEW c \in C, NEW h \in Handles, NEW flag \in BOOLEAN, Any(C)!StartCall(c, h, flag) PROVE Any(C)!IndInv'
  BY <1>1 DEF Any!StartCall
<1>2. ASSUME NEW c \in C, Any(C)!MallocStack(c) PROVE Any(C)!IndInv'
  <2>1. CASE Any(C)!Goto(c, "mallocStack", "threadCreate") /\ stack' = [stack EXCEPT ![current[c]] = TRUE]
    BY <1>2, <2>1 DEF Any!MallocStack
  <2>2. CASE Any(C)!Goto(c, "mallocStack", "report") /\ UNCHANGED stack
    BY <1>2, <2>2 DEF Any!MallocStack
  <2>3. QED
    BY <1>2, <2>1, <2>2 DEF Any!MallocStack
<1>3. ASSUME NEW c \in C, Any(C)!ThreadCreate(c) PROVE Any(C)!IndInv'
  BY <1>3 DEF Any!ThreadCreate
<1>4. ASSUME NEW c \in C, Any(C)!ThreadCreateFails(c) PROVE Any(C)!IndInv'
  BY <1>4 DEF Any!ThreadCreateFails
<1>5. ASSUME NEW c \in C, Any(C)!ThreadStart(c) PROVE Any(C)!IndInv'
  BY <1>5 DEF Any!ThreadStart
<1>6. ASSUME NEW c \in C, Any(C)!ThreadStartFails(c) PROVE Any(C)!IndInv'
  BY <1>6 DEF Any!ThreadStartFails
<1>7. ASSUME NEW c \in C, Any(C)!ReportId(c) PROVE Any(C)!IndInv'
  BY <1>7 DEF Any!ReportId
<1>8. ASSUME NEW c \in C, NEW h \in Handles, Any(C)!WaitCall(c, h) PROVE Any(C)!IndInv'
  <2>1. CASE threadHandle[h] # NoHandle
    <3>1. /\ object[h] = "made" /\ pc[c] = "idle"
          /\ pc' = [pc EXCEPT ![c] = "wait"] /\ current' = [current EXCEPT ![c] = h]
          /\ UNCHANGED <<object, Any(C)!handleVars, Any(C)!threadVars, waited, halted>>
      BY <1>8, <2>1 DEF Any!WaitCall
    <3>2. Any(C)!TypeOK' /\ Any(C)!CallersApart'
      BY <3>1
    <3>3. Any(C)!ConstructorProgress' /\ Any(C)!ThreadOfHandle'
      BY <3>1
    <3>4. QED
      BY <3>1, <3>2, <3>3
  <2>2. CASE threadHandle[h] = NoHandle
    <3>1. /\ object[h] = "made" /\ waited' = [waited EXCEPT ![h] = TRUE]
          /\ UNCHANGED <<pc, current, object, Any(C)!handleVars, Any(C)!threadVars, halted>>
      BY <1>8, <2>2 DEF Any!WaitCall
    <3>2. tpc[h] = "none"
      BY <2>2
    <3>3. QED
      BY <3>1, <3>2
  <2>3. QED
    BY <2>1, <2>2
<1>9. ASSUME NEW c \in C, Any(C)!WaitReturns(c) PROVE Any(C)!IndInv'
  BY <1>9 DEF Any!WaitReturns, Any!ExitReported
<1>10. ASSUME NEW c \in C, NEW h \in Handles, Any(C)!DestroyCall(c, h) PROVE Any(C)!IndInv'
  BY <1>10 DEF Any!DestroyCall
<1>11. ASSUME NEW c \in C, Any(C)!DestroyReturns(c) PROVE Any(C)!IndInv'
  BY <1>11 DEF Any!DestroyReturns, Any!ExitReported
<1>12. ASSUME NEW h \in Handles, Any(C)!WrapperStarts(h) PROVE Any(C)!IndInv'
  BY <1>12 DEF Any!WrapperStarts
<1>13. ASSUME NEW h \in Handles, Any(C)!AllocContext(h) PROVE Any(C)!IndInv'
  <2>1. ASSUME NEW x \in Contexts \ Any(C)!InUseContexts, Any(C)!ThreadGoto(h, "context", "run"),
               context' = [context EXCEPT ![h] = x], UNCHANGED halted
        PROVE  Any(C)!IndInv'
    <3>1. \A g \in Handles : context[g] # x
      BY <2>1 DEF Any!InUseContexts
    <3>2. QED
      BY <1>13, <2>1, <3>1 DEF Any!AllocContext
  <2>2. CASE halted' = TRUE /\ UNCHANGED <<tpc, context>>
    BY <1>13, <2>2 DEF Any!AllocContext
  <2>3. QED
    BY <1>13, <2>1, <2>2 DEF Any!AllocContext
<1>14. ASSUME NEW h \in Handles, Any(C)!GuestFunctionReturns(h) PROVE Any(C)!IndInv'
  BY <1>14 DEF Any!GuestFunctionReturns
<1>15. ASSUME NEW h \in Handles, Any(C)!FreeContext(h) PROVE Any(C)!IndInv'
  BY <1>15 DEF Any!FreeContext
<1>16. ASSUME NEW h \in Handles, Any(C)!ThreadExit(h) PROVE Any(C)!IndInv'
  BY <1>16 DEF Any!ThreadExit
<1>17. CASE UNCHANGED Any(C)!vars
  BY <1>17 DEF Any!vars
<1> HIDE DEF Any!IndInv, Any!TypeOK, Any!CallerLocations, Any!ThreadLocations,
        Any!Goto, Any!ThreadGoto,
        Any!handleVars, Any!threadVars, Any!CallersApart, Any!ConstructorProgress,
        Any!ThreadOfHandle, Any!Constructing, Any!StackOutlivesThread, Any!ContextsDistinct,
        Any!WaitedThreadsFinished, Any!Started, Any!InUse
<1>18. CASE Any(C)!Next
  <2>1. ASSUME NEW c \in C, Any(C)!CallerStep(c) \/ Any(C)!GuestCall(c) PROVE Any(C)!IndInv'
    BY <2>1, <1>1, <1>2, <1>3, <1>4, <1>5, <1>6, <1>7, <1>8, <1>9, <1>10, <1>11
       DEF Any!CallerStep, Any!GuestCall
  <2>2. ASSUME NEW h \in Handles, Any(C)!ThreadStep(h) PROVE Any(C)!IndInv'
    BY <2>2, <1>12, <1>13, <1>14, <1>15, <1>16 DEF Any!ThreadStep
  <2>3. QED
    BY <1>17, <1>18, <2>1, <2>2 DEF Any!Next, Any!Stopped
<1>19. QED
  BY <1>17, <1>18

-----------------------------------------------------------------------------
(* Every reachable state satisfies the inductive invariant: an object,     *)
(* its libnx thread and its callers never disagree on how far it has come. *)
THEOREM ThreadsInvariant ==
    ASSUME NEW CONSTANT C PROVE Any(C)!Spec => []Any(C)!IndInv
<1>1. QED
  BY ThreadsInit, ThreadsNext, PTL DEF Any!Spec

(* Wait never answers for a started thread that has not run to its end,    *)
(* though thread_handle has no initialiser and any libnx call may fail.    *)
THEOREM WaitsAreTruthful ==
    ASSUME NEW CONSTANT C PROVE Any(C)!Spec => []Any(C)!WaitedThreadsFinished
<1>1. Any(C)!IndInv => Any(C)!WaitedThreadsFinished
  BY DEF Any!IndInv
<1>2. QED
  BY <1>1, ThreadsInvariant, PTL

(* No path through the constructor or the destructor frees the stack of a  *)
(* thread that may still run on it.                                        *)
THEOREM StacksOutlive ==
    ASSUME NEW CONSTANT C PROVE Any(C)!Spec => []Any(C)!StackOutlivesThread
<1>1. Any(C)!IndInv => Any(C)!StackOutlivesThread
  BY DEF Any!IndInv
<1>2. QED
  BY <1>1, ThreadsInvariant, PTL

(* r13 tells running guest threads apart.                                  *)
THEOREM ContextsUnique ==
    ASSUME NEW CONSTANT C PROVE Any(C)!Spec => []Any(C)!ContextsDistinct
<1>1. Any(C)!IndInv => Any(C)!ContextsDistinct
  BY DEF Any!IndInv
<1>2. QED
  BY <1>1, ThreadsInvariant, PTL

(* Whose handle thread_handle names.  Where a stack is left, which is what *)
(* the destructor looks at first, it names the object's own thread, and the*)
(* destructor closes no other.  Wait looks at no stack: after a failed     *)
(* constructor it may take what the heap block held before for a handle.   *)
(* It waits for the object's own thread exactly if threadCreate made one.  *)
THEOREM HandleIsOwn ==
    ASSUME NEW CONSTANT C
    PROVE  Any(C)!Spec => [](\A h \in Handles : object[h] # "none" =>
                               /\ stack[h] => threadHandle[h] = h
                               /\ threadHandle[h] = h <=> libnx[h] # "none"
                               /\ Any(C)!Started(h) => threadHandle[h] = h)
<1>1. Any(C)!IndInv => \A h \in Handles : object[h] # "none" =>
                               /\ stack[h] => threadHandle[h] = h
                               /\ threadHandle[h] = h <=> libnx[h] # "none"
                               /\ Any(C)!Started(h) => threadHandle[h] = h
  BY DEF Any!IndInv, Any!ThreadOfHandle, Any!CallersApart, Any!Constructing, Any!Started
<1>2. QED
  BY <1>1, ThreadsInvariant, PTL

-----------------------------------------------------------------------------
(* With a critical section *)

LEMMA InitInv == Init => IndInv
<1> SUFFICES ASSUME Init PROVE IndInv
  OBVIOUS
<1> USE MainAssumption, ContextAssumption DEF Init, GT!Init, CS!Init, Callers, Identities
<1>1. TypeOK
  BY DEF TypeOK, GT!ThreadLocations, GT!CallerLocations, CS!Locations
<1>2. ContextsOwned /\ Constructing
  BY DEF ContextsOwned, Constructing
<1>3. CallersAlive /\ HoldersOwn /\ NothingLeftBehind /\ LeftForGood
  BY DEF CallersAlive, HoldersOwn, NothingLeftBehind, LeftForGood, CS!Holding
<1>4. QED
  BY <1>1, <1>2, <1>3 DEF IndInv

LEMMA NoThreadIsNobody == NoThread \notin Identities
  BY MainAssumption, ContextAssumption DEF Identities

(* Whoever runs guest code on a context lives. *)
LEMMA RunningIsLive == \A i : Running(i) => i \in LiveIdentities
  BY DEF Running, LiveIdentities

-----------------------------------------------------------------------------
(* The steps of the section leave the threads as they are *)

LEMMA ThreadsUnchanged ==
    UNCHANGED threads => /\ LiveIdentities' = LiveIdentities
                         /\ ContextsOwned => ContextsOwned'
                         /\ Constructing => Constructing'
<1> SUFFICES ASSUME UNCHANGED threads
             PROVE  /\ LiveIdentities' = LiveIdentities
                    /\ ContextsOwned => ContextsOwned'
                    /\ Constructing => Constructing'
  OBVIOUS
<1>1. LiveIdentities' = LiveIdentities
  BY DEF threads, LiveIdentities, Alive, Identity
<1>2. ContextsOwned => ContextsOwned'
  BY DEF threads, ContextsOwned
<1>3. Constructing => Constructing'
  BY DEF threads, Constructing
<1>4. QED
  BY <1>1, <1>2, <1>3

LEMMA InitializeInv == IndInv /\ RtlInitializeCriticalSection => IndInv'
<1> SUFFICES ASSUME IndInv, RtlInitializeCriticalSection PROVE IndInv'
  OBVIOUS
<1>1. /\ UNCHANGED threads /\ abandoned' = abandoned
      /\ initialized' = TRUE /\ owningThread' = NoThread /\ recursionCount' = 0
      /\ UNCHANGED <<place, count, depth>> /\ ~initialized
  BY DEF RtlInitializeCriticalSection, CS!RtlInitializeCriticalSection, CS!local
<1>2. ContextsOwned' /\ Constructing' /\ LiveIdentities' = LiveIdentities
  BY <1>1, ThreadsUnchanged DEF IndInv
<1>3. \A i \in Identities : place[i] = "idle" /\ depth[i] = 0
  BY <1>1 DEF IndInv, CallersAlive
<1>4. NoThread \notin Identities
  BY MainAssumption, ContextAssumption DEF Identities
<1>5. TypeOK'
  BY <1>1 DEF IndInv, TypeOK, threads
<1>6. CallersAlive' /\ HoldersOwn' /\ NothingLeftBehind'
  BY <1>1, <1>2, <1>3, <1>4 DEF CallersAlive, HoldersOwn, NothingLeftBehind, CS!Holding
<1>7. LeftForGood'
  BY <1>1 DEF IndInv, LeftForGood
<1>8. QED
  BY <1>2, <1>5, <1>6, <1>7 DEF IndInv

LEMMA SectionStepInv ==
    ASSUME IndInv, UNCHANGED <<threads, abandoned>>, NEW i \in Identities, i \in LiveIdentities,
           CS!Step(i) \/ CS!EnterCall(i) \/ CS!WaitUnblocks(i)
    PROVE  IndInv'
<1>1. /\ ContextsOwned' /\ Constructing' /\ LiveIdentities' = LiveIdentities
      /\ UNCHANGED <<object, tpc, context, pc, current, abandoned>>
  BY ThreadsUnchanged DEF IndInv, threads
<1>2. NoThread \notin Identities
  BY MainAssumption, ContextAssumption DEF Identities
<1>3. initialized
  BY DEF IndInv, CallersAlive, CS!Step, CS!EnterCall, CS!WaitUnblocks, CS!CasAcquire, CS!CasReenter,
         CS!CasContended, CS!LoadForEnter, CS!StoreForEnter, CS!WaitReturns, CS!WaitBlocks,
         CS!LeaveCall, CS!LeaveStore, CS!LeaveTest, CS!StoreRelease, CS!NotifyOne, CS!Goto
<1>4. /\ TypeOK /\ CallersAlive /\ HoldersOwn /\ NothingLeftBehind /\ LeftForGood
  BY DEF IndInv
<1> SUFFICES TypeOK' /\ CallersAlive' /\ HoldersOwn' /\ NothingLeftBehind' /\ LeftForGood'
  BY <1>1 DEF IndInv
<1> USE <1>1, <1>2, <1>3, <1>4 DEF TypeOK, CS!Locations, CallersAlive, HoldersOwn, NothingLeftBehind,
        LeftForGood, CS!Holding, CS!Goto, CS!lock, CS!local, CS!setup
<1>5. CASE CS!EnterCall(i)
  BY <1>5 DEF CS!EnterCall
<1>6. CASE CS!CasAcquire(i)
  BY <1>6 DEF CS!CasAcquire
<1>7. CASE CS!CasReenter(i)
  BY <1>7 DEF CS!CasReenter
<1>8. CASE CS!CasContended(i)
  BY <1>8 DEF CS!CasContended
<1>9. CASE CS!LoadForEnter(i)
  BY <1>9 DEF CS!LoadForEnter
<1>10. CASE CS!StoreForEnter(i)
  BY <1>10 DEF CS!StoreForEnter
<1>11. CASE CS!WaitReturns(i)
  BY <1>11 DEF CS!WaitReturns
<1>12. CASE CS!WaitBlocks(i)
  BY <1>12 DEF CS!WaitBlocks
<1>13. CASE CS!WaitUnblocks(i)
  BY <1>13 DEF CS!WaitUnblocks
<1>14. CASE CS!LeaveCall(i)
  BY <1>14 DEF CS!LeaveCall
<1>15. CASE CS!LeaveStore(i)
  BY <1>15 DEF CS!LeaveStore
<1>16. CASE CS!LeaveTest(i)
  BY <1>16 DEF CS!LeaveTest
<1>17. CASE CS!StoreRelease(i)
  BY <1>17 DEF CS!StoreRelease
<1>18. CASE CS!NotifyOne(i)
  BY <1>18 DEF CS!NotifyOne, CS!Parked
<1>19. QED
  BY <1>5, <1>6, <1>7, <1>8, <1>9, <1>10, <1>11, <1>12, <1>13, <1>14, <1>15, <1>16, <1>17, <1>18
     DEF CS!Step

-----------------------------------------------------------------------------
(* The steps of the threads leave the section as it is, but for the        *)
(* nesting of a thread that begins                                         *)

(* What holds of the threads after a step of main: nobody begins to run    *)
(* or ends, and the thread main is constructing has not started before.    *)
MainOnly ==
    /\ object' \in [Handles -> {"none", "made", "destroyed"}]
    /\ tpc' \in [Handles -> GT!ThreadLocations]
    /\ pc' \in [Callers -> GT!CallerLocations]
    /\ current' \in [Callers -> Handles \cup {None}]
    /\ context' = context
    /\ \A h \in Handles : tpc'[h] # tpc[h] => tpc[h] = "none" /\ tpc'[h] = "wrapper"
    /\ Constructing'

LEMMA MainCallOnly ==
    ASSUME IndInv, GT!GuestCall(Main)
    PROVE  MainOnly
<1> USE MainAssumption, ContextAssumption DEF IndInv, TypeOK, GT!CallerLocations, GT!ThreadLocations,
        GT!Goto, GT!InUse, GT!handleVars, GT!threadVars, Callers, Constructing, MainOnly
<1>1. ASSUME NEW h \in Handles, NEW flag \in BOOLEAN, GT!StartCall(Main, h, flag) PROVE MainOnly
  BY <1>1 DEF GT!StartCall
<1>2. ASSUME NEW h \in Handles, GT!WaitCall(Main, h) PROVE MainOnly
  <2>1. CASE threadHandle[h] # NoHandle
    BY <1>2, <2>1 DEF GT!WaitCall
  <2>2. CASE threadHandle[h] = NoHandle
    BY <1>2, <2>2 DEF GT!WaitCall
  <2>3. QED
    BY <2>1, <2>2
<1>3. ASSUME NEW h \in Handles, GT!DestroyCall(Main, h) PROVE MainOnly
  BY <1>3 DEF GT!DestroyCall
<1>4. QED
  BY <1>1, <1>2, <1>3 DEF GT!GuestCall

LEMMA MainStepOnly ==
    ASSUME IndInv, GT!CallerStep(Main)
    PROVE  MainOnly
<1> USE MainAssumption, ContextAssumption DEF IndInv, TypeOK, GT!CallerLocations, GT!ThreadLocations,
        GT!Goto, GT!handleVars, GT!threadVars, Callers, Constructing, MainOnly
<1>1. CASE GT!MallocStack(Main)
  BY <1>1 DEF GT!MallocStack
<1>2. CASE GT!ThreadCreate(Main)
  BY <1>2 DEF GT!ThreadCreate
<1>3. CASE GT!ThreadCreateFails(Main)
  BY <1>3 DEF GT!ThreadCreateFails
<1>4. CASE GT!ThreadStart(Main)
  BY <1>4 DEF GT!ThreadStart
<1>5. CASE GT!ThreadStartFails(Main)
  BY <1>5 DEF GT!ThreadStartFails
<1>6. CASE GT!ReportId(Main)
  BY <1>6 DEF GT!ReportId
<1>7. CASE GT!WaitReturns(Main)
  BY <1>7 DEF GT!WaitReturns
<1>8. CASE GT!DestroyReturns(Main)
  BY <1>8 DEF GT!DestroyReturns
<1>9. QED
  BY <1>1, <1>2, <1>3, <1>4, <1>5, <1>6, <1>7, <1>8 DEF GT!CallerStep

LEMMA MainInv ==
    ASSUME IndInv, MainCalls \/ MainStep
    PROVE  IndInv'
<1>1. MainOnly /\ UNCHANGED <<section, abandoned>>
  BY MainCallOnly, MainStepOnly DEF MainCalls, MainStep
<1>2. \A p \in People : Alive(p)' <=> Alive(p)
  BY <1>1 DEF MainOnly, People, Alive
<1>3. \A p \in People : Identity(p)' = Identity(p)
  BY <1>1 DEF MainOnly, Identity
<1>4. LiveIdentities' = LiveIdentities
  BY <1>2, <1>3 DEF LiveIdentities, People
<1>5. TypeOK' /\ ContextsOwned'
  BY <1>1 DEF MainOnly, section, IndInv, TypeOK, ContextsOwned, GT!ThreadLocations
<1>6. CallersAlive' /\ HoldersOwn' /\ NothingLeftBehind' /\ LeftForGood'
  BY <1>1, <1>4 DEF section, IndInv, CallersAlive, HoldersOwn, NothingLeftBehind, LeftForGood, CS!Holding
<1>7. QED
  BY <1>1, <1>5, <1>6 DEF IndInv, MainOnly

(* A new thread runs on a context nobody else runs on, and which the       *)
(* section does not name unless a thread ended inside it.                  *)
LEMMA ContextAllocatedInv ==
    ASSUME IndInv, NEW h \in Handles, ContextAllocated(h)
    PROVE  IndInv'
<1> USE MainAssumption, ContextAssumption DEF Identities
<1>1. CASE halted' = TRUE /\ UNCHANGED <<tpc, context>> /\ tpc[h] = "context"
  <2>1. context[h] = None
    BY <1>1 DEF IndInv, ContextsOwned
  <2>2. depth' = depth
    BY <1>1, <2>1 DEF ContextAllocated, IndInv, TypeOK
  <2>3. UNCHANGED <<object, tpc, context, pc, current, initialized, abandoned, owningThread,
                    recursionCount, place, count, depth>>
    BY <1>1, <2>2 DEF ContextAllocated, GT!AllocContext
  <2>4. LiveIdentities' = LiveIdentities
    BY <2>3 DEF LiveIdentities, Alive, Identity
  <2>5. QED
    BY <2>3, <2>4 DEF IndInv, TypeOK, ContextsOwned, Constructing, CallersAlive, HoldersOwn,
       NothingLeftBehind, LeftForGood, CS!Holding
<1>2. ASSUME NEW x \in Contexts \ GT!InUseContexts, tpc[h] = "context",
             tpc' = [tpc EXCEPT ![h] = "run"], context' = [context EXCEPT ![h] = x]
      PROVE  IndInv'
  <2>1. /\ UNCHANGED <<object, pc, current, initialized, abandoned, owningThread,
                       recursionCount, place, count>>
        /\ context'[h] = x /\ depth' = [i \in Identities |-> IF i = x THEN 0 ELSE depth[i]]
    BY <1>2 DEF ContextAllocated, GT!AllocContext, IndInv, TypeOK
  <2>2. \A g \in Handles : context[g] # x
    BY <1>2 DEF GT!InUseContexts
  <2>3. x \notin LiveIdentities
    BY <1>2, <2>2 DEF LiveIdentities, People, Identity
  <2>4. place[x] = "idle"
    BY <1>2, <2>3 DEF IndInv, CallersAlive
  <2>5. LiveIdentities' = LiveIdentities \cup {x}
    <3>1. \A p \in People : Alive(p)' <=> Alive(p) \/ p = h
      BY <1>2 DEF Alive, People, IndInv, TypeOK
    <3>2. \A p \in People : Identity(p)' = IF p = h THEN x ELSE Identity(p)
      BY <1>2 DEF Identity, People, IndInv, TypeOK
    <3>3. h \in People /\ ~Alive(h)
      BY <1>2 DEF People, Alive
    <3>4. LiveIdentities' = {Identity(p)' : p \in {q \in People : Alive(q)'}}
      BY DEF LiveIdentities, People
    <3>5. QED
      BY <3>1, <3>2, <3>3, <3>4 DEF LiveIdentities
  <2>6. TypeOK' /\ ContextsOwned' /\ Constructing'
    BY <1>2, <2>1, <2>2 DEF IndInv, TypeOK, ContextsOwned, Constructing, GT!ThreadLocations
  <2>7. CallersAlive'
    BY <2>1, <2>5 DEF IndInv, TypeOK, CallersAlive
  <2>8. HoldersOwn'
    BY <1>2, <2>1, <2>4 DEF IndInv, TypeOK, HoldersOwn, CS!Holding
  <2>9. NothingLeftBehind'
    <3>1. initialized /\ ~abandoned => owningThread # x
      BY <1>2, <2>3, <2>4 DEF IndInv, NothingLeftBehind, CS!Holding
    <3>2. QED
      BY <1>2, <2>1, <2>4, <2>5, <3>1 DEF IndInv, TypeOK, NothingLeftBehind, CS!Holding
  <2>10. LeftForGood'
    BY <1>2, <2>1, <2>4, <2>5 DEF IndInv, TypeOK, LeftForGood
  <2>11. QED
    BY <2>6, <2>7, <2>8, <2>9, <2>10 DEF IndInv
<1>3. QED
  BY <1>1, <1>2 DEF ContextAllocated, GT!AllocContext, GT!ThreadGoto

(* A thread that ends is in no call of the section, and when it ends inside*)
(* it that is remembered.                                                  *)
LEMMA GuestFunctionReturnsInv ==
    ASSUME IndInv, NEW h \in Handles, GuestFunctionReturns(h)
    PROVE  IndInv'
<1> USE MainAssumption, ContextAssumption DEF Identities
<1> DEFINE x == context[h]
<1>1. /\ tpc[h] = "run" /\ tpc' = [tpc EXCEPT ![h] = "free"] /\ place[x] = "idle"
      /\ abandoned' = (abandoned \/ depth[x] > 0)
      /\ UNCHANGED <<object, context, pc, current, section>>
  BY DEF GuestFunctionReturns, GT!GuestFunctionReturns, GT!ThreadGoto, GT!handleVars
<1>2. x \in Contexts /\ \A g \in Handles \ {h} : context[g] # x
  BY <1>1 DEF IndInv, TypeOK, ContextsOwned
<1>3. LiveIdentities' = LiveIdentities \ {x}
  <2>1. \A p \in People : Alive(p)' <=> Alive(p) /\ p # h
    BY <1>1 DEF Alive, People, IndInv, TypeOK
  <2>2. \A p \in People : Identity(p)' = Identity(p)
    BY <1>1 DEF Identity
  <2>3. h \in People /\ Identity(h) = x /\ \A p \in People \ {h} : Identity(p) # x
    BY <1>2 DEF Identity, People
  <2>4. LiveIdentities' = {Identity(p)' : p \in {q \in People : Alive(q)'}}
    BY DEF LiveIdentities, People
  <2>5. QED
    BY <2>1, <2>2, <2>3, <2>4 DEF LiveIdentities
<1>4. TypeOK' /\ ContextsOwned' /\ Constructing'
  BY <1>1 DEF section, IndInv, TypeOK, ContextsOwned, Constructing, GT!ThreadLocations
<1>5. CallersAlive' /\ HoldersOwn'
  BY <1>1, <1>2, <1>3 DEF section, IndInv, TypeOK, CallersAlive, HoldersOwn, CS!Holding
<1>6. NothingLeftBehind'
  BY <1>1, <1>2, <1>3 DEF section, IndInv, TypeOK, NothingLeftBehind, CS!Holding
<1>7. LeftForGood'
  <2>1. depth[x] > 0 => initialized /\ owningThread = x /\ recursionCount > 0
    BY <1>1, <1>2 DEF IndInv, TypeOK, CallersAlive, HoldersOwn, CS!Holding
  <2>2. x \notin LiveIdentities'
    BY <1>3
  <2>3. QED
    BY <1>1, <1>2, <1>3, <2>1, <2>2, NoThreadIsNobody DEF section, IndInv, TypeOK, LeftForGood
<1>8. QED
  BY <1>4, <1>5, <1>6, <1>7 DEF IndInv

LEMMA WrapperStepInv ==
    ASSUME IndInv, NEW h \in Handles, WrapperStep(h)
    PROVE  IndInv'
<1> USE MainAssumption, ContextAssumption
<1>1. /\ UNCHANGED <<object, pc, current, section, abandoned>>
      /\ \/ tpc[h] = "wrapper" /\ tpc' = [tpc EXCEPT ![h] = "context"] /\ context' = context
         \/ tpc[h] = "exit" /\ tpc' = [tpc EXCEPT ![h] = "done"] /\ context' = context
         \/ /\ tpc[h] = "free" /\ tpc' = [tpc EXCEPT ![h] = "exit"]
            /\ context' = [context EXCEPT ![h] = None]
  BY DEF WrapperStep, GT!WrapperStarts, GT!FreeContext, GT!ThreadExit, GT!ThreadGoto, GT!handleVars
<1>2. LiveIdentities' = LiveIdentities
  <2>1. \A p \in People : Alive(p)' <=> Alive(p)
    BY <1>1 DEF Alive, People, IndInv, TypeOK
  <2>2. \A p \in People : Alive(p) => Identity(p)' = Identity(p)
    BY <1>1 DEF Identity, Alive, People, IndInv, TypeOK
  <2>3. LiveIdentities' = {Identity(p)' : p \in {q \in People : Alive(q)'}}
    BY DEF LiveIdentities, People
  <2>4. QED
    BY <2>1, <2>2, <2>3 DEF LiveIdentities
<1>3. TypeOK' /\ ContextsOwned' /\ Constructing'
  BY <1>1 DEF section, IndInv, TypeOK, ContextsOwned, Constructing, GT!ThreadLocations
<1>4. CallersAlive' /\ HoldersOwn' /\ NothingLeftBehind' /\ LeftForGood'
  BY <1>1, <1>2 DEF section, IndInv, CallersAlive, HoldersOwn, NothingLeftBehind, LeftForGood, CS!Holding
<1>5. QED
  BY <1>3, <1>4 DEF IndInv

LEMMA NextInv == IndInv /\ [Next]_vars => IndInv'
<1> SUFFICES ASSUME IndInv, [Next]_vars PROVE IndInv'
  OBVIOUS
<1>1. CASE RtlInitializeCriticalSection
  BY <1>1, InitializeInv
<1>2. CASE MainCalls \/ MainStep
  BY <1>2, MainInv
<1>3. ASSUME NEW h \in Handles, ThreadStep(h) PROVE IndInv'
  BY <1>3, ContextAllocatedInv, GuestFunctionReturnsInv, WrapperStepInv DEF ThreadStep
<1>4. ASSUME NEW i \in Identities, RtlEnterCriticalSection(i) \/ InSection(i) \/ WaitUnblocks(i)
      PROVE  IndInv'
  <2>1. /\ UNCHANGED <<threads, abandoned>> /\ Running(i)
        /\ CS!Step(i) \/ CS!EnterCall(i) \/ CS!WaitUnblocks(i)
    BY <1>4 DEF RtlEnterCriticalSection, InSection, WaitUnblocks
  <2>2. QED
    BY <2>1, RunningIsLive, SectionStepInv
<1>5. CASE UNCHANGED vars
  <2>1. UNCHANGED <<threads, section, abandoned>>
    BY <1>5 DEF vars
  <2>2. LiveIdentities' = LiveIdentities /\ ContextsOwned' /\ Constructing'
    BY <2>1, ThreadsUnchanged DEF IndInv
  <2>3. TypeOK'
    BY <2>1 DEF threads, section, IndInv, TypeOK
  <2>4. CallersAlive' /\ HoldersOwn' /\ NothingLeftBehind' /\ LeftForGood'
    BY <2>1, <2>2 DEF section, IndInv, CallersAlive, HoldersOwn, NothingLeftBehind, LeftForGood, CS!Holding
  <2>5. QED
    BY <2>2, <2>3, <2>4 DEF IndInv
<1>6. QED
  BY <1>1, <1>2, <1>3, <1>4, <1>5 DEF Next

-----------------------------------------------------------------------------
(* Every reachable state satisfies the inductive invariant: the section's  *)
(* owner word and counter agree with the threads that live and with the    *)
(* contexts they run on.                                                   *)
THEOREM Invariant == Spec => []IndInv
<1>1. QED
  BY InitInv, NextInv, PTL DEF Spec

(* However often contexts are freed and allocated again, and even when a   *)
(* thread has ended inside, no two live threads are inside the section.    *)
THEOREM OneInside == Spec => []OneThreadInside
<1>1. IndInv => OneThreadInside
  <2> SUFFICES ASSUME IndInv PROVE OneThreadInside
    OBVIOUS
  <2>1. ASSUME NEW p \in People, Inside(p) PROVE owningThread = Identity(p)
    <3>1. Identity(p) \in Identities
      BY <2>1, MainAssumption DEF Inside, Alive, Identity, Identities, People, IndInv, TypeOK, ContextsOwned
    <3>2. QED
      BY <2>1, <3>1 DEF Inside, IndInv, HoldersOwn, CS!Holding
  <2>2. ASSUME NEW p \in People, NEW q \in People, Inside(p), Inside(q) PROVE p = q
    <3>1. Identity(p) = Identity(q)
      BY <2>1, <2>2
    <3>2. QED
      BY <2>2, <3>1, MainAssumption, ContextAssumption
         DEF Inside, Alive, Identity, People, IndInv, TypeOK, ContextsOwned
  <2>3. QED
    BY <2>1, <2>2 DEF OneThreadInside
<1>2. QED
  BY <1>1, Invariant, PTL

(* Unless a guest function returned inside, an owned section is held by a  *)
(* thread that lives.                                                      *)
THEOREM OwnersLive == Spec => []OwnerIsAlive
<1>1. IndInv => OwnerIsAlive
  <2> SUFFICES ASSUME IndInv, ~abandoned, initialized, owningThread # NoThread
               PROVE  owningThread \in LiveIdentities /\ CS!Holding(owningThread)
    BY DEF OwnerIsAlive, LiveIdentities
  <2>1. owningThread \in Identities /\ CS!Holding(owningThread)
    BY DEF IndInv, TypeOK, NothingLeftBehind
  <2>2. depth[owningThread] > 0 => owningThread \in LiveIdentities
    BY <2>1 DEF IndInv, NothingLeftBehind
  <2>3. place[owningThread] # "idle" => owningThread \in LiveIdentities
    BY <2>1 DEF IndInv, CallersAlive
  <2>4. QED
    BY <2>1, <2>2, <2>3 DEF CS!Holding
<1>2. QED
  BY <1>1, Invariant, PTL

(* Only the owner could free the section, and the counter keeps it from it. *)
LEMMA NobodyReleases ==
    ASSUME IndInv, [Next]_vars, abandoned
    PROVE  owningThread' = owningThread
<1>1. /\ initialized /\ owningThread \in Identities
      /\ \A i \in Identities : place[i] # "release"
  BY NoThreadIsNobody DEF IndInv, TypeOK, LeftForGood, HoldersOwn, CS!Holding
<1>2. ASSUME NEW i \in Identities, CS!Step(i) \/ CS!EnterCall(i) \/ CS!WaitUnblocks(i)
      PROVE  owningThread' = owningThread
  BY <1>1, <1>2, NoThreadIsNobody
     DEF CS!Step, CS!EnterCall, CS!WaitUnblocks, CS!CasAcquire, CS!CasReenter, CS!CasContended,
         CS!LoadForEnter, CS!StoreForEnter, CS!WaitReturns, CS!WaitBlocks, CS!LeaveCall,
         CS!LeaveStore, CS!LeaveTest, CS!StoreRelease, CS!NotifyOne, CS!Goto, CS!lock
<1>3. ASSUME NEW i \in Identities, RtlEnterCriticalSection(i) \/ InSection(i) \/ WaitUnblocks(i)
      PROVE  owningThread' = owningThread
  BY <1>2, <1>3 DEF RtlEnterCriticalSection, InSection, WaitUnblocks
<1>4. CASE RtlInitializeCriticalSection
  BY <1>1, <1>4 DEF RtlInitializeCriticalSection, CS!RtlInitializeCriticalSection
<1>5. CASE MainCalls \/ MainStep \/ (\E h \in Handles : ThreadStep(h)) \/ UNCHANGED vars
  BY <1>5 DEF MainCalls, MainStep, ThreadStep, ContextAllocated, GuestFunctionReturns, WrapperStep,
     section, vars
<1>6. QED
  BY <1>3, <1>4, <1>5 DEF Next

(* Once a guest function has returned inside the section its owner word    *)
(* never changes again, whatever is created on the same context or waits.  *)
THEOREM AbandonedIsLost == Spec => AbandonedForGood
<1>1. IndInv /\ [Next]_vars => [abandoned => UNCHANGED owningThread]_vars
  BY NobodyReleases
<1>2. QED
  BY <1>1, Invariant, PTL DEF Spec, AbandonedForGood

-----------------------------------------------------------------------------
(* The composition is one of guest threads *)

LEMMA StepsAreThreads == [Next]_vars => [GT!Next]_(GT!vars)
<1> SUFFICES ASSUME [Next]_vars PROVE [GT!Next]_(GT!vars)
  OBVIOUS
<1>1. ASSUME UNCHANGED threads PROVE UNCHANGED GT!vars
  BY <1>1 DEF threads, GT!vars, GT!handleVars, GT!threadVars
<1>2. CASE MainCalls \/ MainStep
  BY <1>2 DEF MainCalls, MainStep, GT!Next, Callers
<1>3. ASSUME NEW h \in Handles, ThreadStep(h) PROVE GT!Next
  BY <1>3 DEF ThreadStep, ContextAllocated, GuestFunctionReturns, WrapperStep, GT!Next, GT!ThreadStep
<1>4. CASE RtlInitializeCriticalSection
  BY <1>1, <1>4 DEF RtlInitializeCriticalSection
<1>5. ASSUME NEW i \in Identities, RtlEnterCriticalSection(i) \/ InSection(i) \/ WaitUnblocks(i)
      PROVE  UNCHANGED GT!vars
  BY <1>1, <1>5 DEF RtlEnterCriticalSection, InSection, WaitUnblocks
<1>6. CASE UNCHANGED vars
  BY <1>1, <1>6 DEF vars
<1>7. QED
  BY <1>2, <1>3, <1>4, <1>1, <1>5, <1>6 DEF Next

(* Guest threads that use a section are guest threads: whatever they do in *)
(* it, the section makes no step that GuestThread would not make, and      *)
(* leaves out none of what a step changes.                                 *)
THEOREM ThreadsImplemented == Spec => GT!Spec
<1>1. Init => GT!Init
  BY DEF Init
<1>2. QED
  BY <1>1, StepsAreThreads, PTL DEF Spec, GT!Spec
==============================================================================
