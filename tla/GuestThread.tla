------------------------------ MODULE GuestThread ------------------------------
(***************************************************************************)
(* Guest threads of guest_thread.cpp: the constructor of GuestThreadHandle *)
(* makes a libnx thread, which waits until it is not suspended, allocates  *)
(* a guest context, runs the guest function, frees the context and exits;  *)
(* Wait and the destructor wait for it.                                    *)
(*                                                                         *)
(* Every libnx call may fail.  thread_handle has no initialiser, so before *)
(* threadCreate succeeds it is whatever the heap block held.  Nothing      *)
(* clears suspended: NtResumeThread is a stub (kernel.cpp:163), so a       *)
(* thread created suspended waits for ever.                                *)
(***************************************************************************)
EXTENDS FiniteSets

CONSTANTS
    Callers,        \* the threads that create, wait for and destroy handles
    Handles,        \* GuestThreadHandle objects; h also names its libnx thread
    Contexts,       \* guest memory for contexts; a context's address is its r13
    NoHandle,       \* a zero Thread.handle
    Garbage,        \* a Thread.handle that names no thread
    None,           \* no context, no object, no id
    CallsMayFail    \* whether malloc, threadCreate and threadStart may fail

ASSUME NamesAssumption ==
    /\ {NoHandle, Garbage, None} \cap (Handles \cup Contexts) = {}
    /\ NoHandle # Garbage /\ NoHandle # None /\ Garbage # None
ASSUME FailAssumption == CallsMayFail \in BOOLEAN

VARIABLES
    pc, current,    \* each caller's place, and the handle it works on
    object,         \* "none", "made" when Start has returned it, "destroyed"
    suspended,      \* GuestThreadHandle::suspended
    threadHandle,   \* GuestThreadHandle::thread_handle.handle
    stack,          \* thread_stack is allocated
    threadId,       \* what Start stored through its threadId pointer
    libnx,          \* the libnx thread: "none", "created", "started", "exited", "closed"
    tpc,            \* the place of the libnx thread in GuestThreadFuncWrapper
    context,        \* the context the thread runs on
    waited,         \* a Wait on the handle has returned STATUS_WAIT_0
    halted          \* a context could not be allocated: memset through null

handleVars == <<suspended, threadHandle, stack, threadId>>
threadVars == <<libnx, tpc, context>>
vars == <<pc, current, object, handleVars, threadVars, waited, halted>>

CallerLocations == {"idle", "mallocStack", "threadCreate", "threadStart", "report",
                    "wait", "destroy"}
ThreadLocations == {"none", "wrapper", "context", "run", "free", "exit", "done"}

TypeOK ==
    /\ pc \in [Callers -> CallerLocations]
    /\ current \in [Callers -> Handles \cup {None}]
    /\ object \in [Handles -> {"none", "made", "destroyed"}]
    /\ suspended \in [Handles -> BOOLEAN]
    /\ threadHandle \in [Handles -> {NoHandle, Garbage} \cup Handles]
    /\ stack \in [Handles -> BOOLEAN]
    /\ threadId \in [Handles -> {None, Garbage} \cup Handles]
    /\ libnx \in [Handles -> {"none", "created", "started", "exited", "closed"}]
    /\ tpc \in [Handles -> ThreadLocations]
    /\ context \in [Handles -> Contexts \cup {None}]
    /\ waited \in [Handles -> BOOLEAN]
    /\ halted \in BOOLEAN

Init ==
    /\ pc = [c \in Callers |-> "idle"]
    /\ current = [c \in Callers |-> None]
    /\ object = [h \in Handles |-> "none"]
    /\ suspended = [h \in Handles |-> FALSE]
    /\ threadHandle \in [Handles -> {NoHandle, Garbage} \cup Handles]
    /\ \A h \in Handles : threadHandle[h] # h
    /\ stack = [h \in Handles |-> FALSE]
    /\ threadId = [h \in Handles |-> None]
    /\ libnx = [h \in Handles |-> "none"]
    /\ tpc = [h \in Handles |-> "none"]
    /\ context = [h \in Handles |-> None]
    /\ waited = [h \in Handles |-> FALSE]
    /\ halted = FALSE

Goto(c, from, to) == ~halted /\ pc[c] = from /\ pc' = [pc EXCEPT ![c] = to]

InUse(h) == \E c \in Callers : current[c] = h

-----------------------------------------------------------------------------
(* GuestThread::Start with a thread id, and the GuestThreadHandle          *)
(* constructor it runs                                                     *)

StartCall(c, h, flag) ==
    /\ Goto(c, "idle", "mallocStack")
    /\ object[h] = "none" /\ ~InUse(h)
    /\ current' = [current EXCEPT ![c] = h]
    /\ suspended' = [suspended EXCEPT ![h] = flag]
    /\ UNCHANGED <<object, threadHandle, stack, threadId, threadVars, waited, halted>>

MallocStack(c) ==
    /\ \/ Goto(c, "mallocStack", "threadCreate") /\ stack' = [stack EXCEPT ![current[c]] = TRUE]
       \/ CallsMayFail /\ Goto(c, "mallocStack", "report") /\ UNCHANGED stack
    /\ UNCHANGED <<current, object, suspended, threadHandle, threadId, threadVars,
                   waited, halted>>

ThreadCreate(c) ==
    LET h == current[c] IN
    /\ Goto(c, "threadCreate", "threadStart")
    /\ threadHandle' = [threadHandle EXCEPT ![h] = h]
    /\ libnx' = [libnx EXCEPT ![h] = "created"]
    /\ UNCHANGED <<current, object, suspended, stack, threadId, tpc, context,
                   waited, halted>>

ThreadCreateFails(c) ==
    /\ CallsMayFail
    /\ Goto(c, "threadCreate", "report")
    /\ stack' = [stack EXCEPT ![current[c]] = FALSE]
    /\ UNCHANGED <<current, object, suspended, threadHandle, threadId, threadVars,
                   waited, halted>>

ThreadStart(c) ==
    LET h == current[c] IN
    /\ Goto(c, "threadStart", "report")
    /\ libnx' = [libnx EXCEPT ![h] = "started"]
    /\ tpc' = [tpc EXCEPT ![h] = "wrapper"]
    /\ UNCHANGED <<current, object, handleVars, context, waited, halted>>

(* threadClose closes the libnx handle and leaves the field as it is. *)
ThreadStartFails(c) ==
    LET h == current[c] IN
    /\ CallsMayFail
    /\ Goto(c, "threadStart", "report")
    /\ libnx' = [libnx EXCEPT ![h] = "closed"]
    /\ stack' = [stack EXCEPT ![h] = FALSE]
    /\ UNCHANGED <<current, object, suspended, threadHandle, threadId, tpc, context,
                   waited, halted>>

(* Start stores the id if the handle is not 0, and returns the object. *)
ReportId(c) ==
    LET h == current[c] IN
    /\ Goto(c, "report", "idle")
    /\ threadId' = IF threadHandle[h] # NoHandle
                   THEN [threadId EXCEPT ![h] = threadHandle[h]] ELSE threadId
    /\ object' = [object EXCEPT ![h] = "made"]
    /\ current' = [current EXCEPT ![c] = None]
    /\ UNCHANGED <<suspended, threadHandle, stack, threadVars, waited, halted>>

-----------------------------------------------------------------------------
(* GuestThreadHandle::Wait and ~GuestThreadHandle *)

(* threadWaitForExit of a handle: it blocks only on a thread that runs. *)
ExitReported(handle) == handle \in Handles => libnx[handle] # "started"

WaitCall(c, h) ==
    /\ object[h] = "made"
    /\ \/ /\ threadHandle[h] # NoHandle
          /\ Goto(c, "idle", "wait")
          /\ current' = [current EXCEPT ![c] = h]
          /\ UNCHANGED waited
       \/ /\ threadHandle[h] = NoHandle
          /\ pc[c] = "idle" /\ ~halted
          /\ waited' = [waited EXCEPT ![h] = TRUE]
          /\ UNCHANGED <<pc, current>>
    /\ UNCHANGED <<object, handleVars, threadVars, halted>>

WaitReturns(c) ==
    /\ Goto(c, "wait", "idle")
    /\ ExitReported(threadHandle[current[c]])
    /\ waited' = [waited EXCEPT ![current[c]] = TRUE]
    /\ current' = [current EXCEPT ![c] = None]
    /\ UNCHANGED <<object, handleVars, threadVars, halted>>

(* The owner of the object destroys it when nobody else is using it. *)
DestroyCall(c, h) ==
    /\ Goto(c, "idle", "destroy")
    /\ object[h] = "made" /\ ~InUse(h)
    /\ object' = [object EXCEPT ![h] = "destroyed"]
    /\ current' = [current EXCEPT ![c] = h]
    /\ UNCHANGED <<handleVars, threadVars, waited, halted>>

(* Faulty: the stack is freed under a running thread. *)
DestroyReturns_AtOnce(c) ==
    /\ Goto(c, "destroy", "idle")
    /\ stack' = [stack EXCEPT ![current[c]] = FALSE]
    /\ current' = [current EXCEPT ![c] = None]
    /\ UNCHANGED <<object, suspended, threadHandle, threadId, threadVars, waited, halted>>

DestroyReturns(c) ==
    LET h == current[c]
        waits == stack[h] /\ threadHandle[h] # NoHandle IN
    /\ Goto(c, "destroy", "idle")
    /\ waits => ExitReported(threadHandle[h])
    /\ libnx' = IF waits THEN [libnx EXCEPT ![h] = "closed"] ELSE libnx
    /\ stack' = [stack EXCEPT ![h] = FALSE]
    /\ current' = [current EXCEPT ![c] = None]
    /\ UNCHANGED <<object, suspended, threadHandle, threadId, tpc, context,
                   waited, halted>>

-----------------------------------------------------------------------------
(* GuestThreadFuncWrapper and GuestThread::Start on the new thread *)

ThreadGoto(h, from, to) == ~halted /\ tpc[h] = from /\ tpc' = [tpc EXCEPT ![h] = to]

(* Faulty: suspended.wait(false). *)
WrapperStarts_Inverted(h) ==
    /\ ThreadGoto(h, "wrapper", "context")
    /\ suspended[h]
    /\ UNCHANGED <<pc, current, object, handleVars, libnx, context, waited, halted>>

(* suspended.wait(true) *)
WrapperStarts(h) ==
    /\ ThreadGoto(h, "wrapper", "context")
    /\ ~suspended[h]
    /\ UNCHANGED <<pc, current, object, handleVars, libnx, context, waited, halted>>

InUseContexts == {context[h] : h \in Handles} \ {None}

(* Faulty: the context is given back while its thread still runs on it. *)
AllocContext_FreedAtOnce(h) ==
    /\ ThreadGoto(h, "context", "run")
    /\ \E x \in Contexts : context' = [context EXCEPT ![h] = x]
    /\ UNCHANGED <<pc, current, object, handleVars, libnx, waited, halted>>

(* GuestThreadContext allocates, and clears what it got without a check. *)
AllocContext(h) ==
    /\ \/ /\ ThreadGoto(h, "context", "run")
          /\ \E x \in Contexts \ InUseContexts : context' = [context EXCEPT ![h] = x]
          /\ UNCHANGED halted
       \/ /\ ~halted /\ tpc[h] = "context" /\ Contexts \subseteq InUseContexts
          /\ halted' = TRUE
          /\ UNCHANGED <<tpc, context>>
    /\ UNCHANGED <<pc, current, object, handleVars, libnx, waited>>

GuestFunctionReturns(h) ==
    /\ ThreadGoto(h, "run", "free")
    /\ UNCHANGED <<pc, current, object, handleVars, libnx, context, waited, halted>>

(* ~GuestThreadContext *)
FreeContext(h) ==
    /\ ThreadGoto(h, "free", "exit")
    /\ context' = [context EXCEPT ![h] = None]
    /\ UNCHANGED <<pc, current, object, handleVars, libnx, waited, halted>>

ThreadExit(h) ==
    /\ ThreadGoto(h, "exit", "done")
    /\ libnx' = [libnx EXCEPT ![h] = "exited"]
    /\ UNCHANGED <<pc, current, object, handleVars, context, waited, halted>>

-----------------------------------------------------------------------------
CallerStep(c) ==
    \/ MallocStack(c) \/ ThreadCreate(c) \/ ThreadCreateFails(c)
    \/ ThreadStart(c) \/ ThreadStartFails(c) \/ ReportId(c)
    \/ WaitReturns(c) \/ DestroyReturns(c)

ThreadStep(h) ==
    WrapperStarts(h) \/ AllocContext(h) \/ GuestFunctionReturns(h) \/ FreeContext(h) \/ ThreadExit(h)

GuestCall(c) ==
    \E h \in Handles :
        \/ \E flag \in BOOLEAN : StartCall(c, h, flag)
        \/ WaitCall(c, h) \/ DestroyCall(c, h)

(* A caller waits for a thread that nobody will ever resume. *)
Blocked(c) ==
    /\ pc[c] \in {"wait", "destroy"}
    /\ \E h \in Handles : threadHandle[current[c]] = h /\ tpc[h] = "wrapper" /\ suspended[h]

(* Nothing can happen any more: the process is gone, every caller waits    *)
(* for a suspended thread, or there is nothing left to do.                 *)
Stopped ==
    /\ \/ halted
       \/ \A c \in Callers : Blocked(c)
       \/ /\ \A h \in Handles : object[h] = "destroyed"
          /\ \A c \in Callers : pc[c] = "idle" \/ Blocked(c)
    /\ UNCHANGED vars

Next ==
    \/ Stopped
    \/ \E c \in Callers : CallerStep(c) \/ GuestCall(c)
    \/ \E h \in Handles : ThreadStep(h)

Spec == Init /\ [][Next]_vars

(* Both callers and threads run, and guest functions return. *)
FairSpec == /\ Spec
            /\ \A c \in Callers : WF_vars(CallerStep(c))
            /\ \A h \in Handles : WF_vars(ThreadStep(h))

-----------------------------------------------------------------------------
(* Correctness *)

Started(h) == tpc[h] # "none"

(* Wait answers STATUS_WAIT_0 for a thread that was started only when that *)
(* thread has run its guest function to the end.                           *)
WaitedThreadsFinished == \A h \in Handles : waited[h] /\ Started(h) => tpc[h] = "done"

(* The stack of a thread that has not exited is never freed.               *)
StackOutlivesThread == \A h \in Handles : libnx[h] \in {"created", "started"} => stack[h]

(* Two running guest threads never share a context: r13, which identifies  *)
(* the owner of a critical section, is unique among them.                  *)
ContextsDistinct ==
    \A g, h \in Handles :
        /\ tpc[h] \in {"run", "free"} <=> context[h] # None
        /\ context[g] = context[h] /\ context[g] # None => g = h

(***************************************************************************)
(* The inductive strengthening: what each place in the constructor, in     *)
(* Wait and in the destructor knows of the object and of its thread.       *)
(***************************************************************************)
Constructing == {"mallocStack", "threadCreate", "threadStart", "report"}

(* Only waiting callers share an object. *)
CallersApart ==
    \A c \in Callers :
        /\ pc[c] = "idle" <=> current[c] = None
        /\ pc[c] \in Constructing => object[current[c]] = "none"
        /\ pc[c] = "wait" => object[current[c]] = "made"
        /\ pc[c] = "destroy" => object[current[c]] = "destroyed"
        /\ \A d \in Callers : current[c] = current[d] /\ pc[c] # "wait" /\ pc[c] # "idle" => c = d

(* How far the constructor has come with h. *)
ConstructorProgress ==
    /\ \A c \in Callers : pc[c] \in {"mallocStack", "threadCreate"} =>
          libnx[current[c]] = "none" /\ (stack[current[c]] <=> pc[c] = "threadCreate")
    /\ \A c \in Callers : pc[c] = "threadStart" => libnx[current[c]] = "created"
    /\ \A h \in Handles : object[h] = "none" /\ ~InUse(h) => libnx[h] = "none" /\ ~stack[h]

(* The field names the thread exactly when threadCreate has succeeded; a   *)
(* stack without a thread is the constructor's; a thread in its wrapper    *)
(* is one libnx has started.                                               *)
ThreadOfHandle ==
    \A h \in Handles :
        /\ libnx[h] # "none" <=> threadHandle[h] = h
        /\ stack[h] /\ libnx[h] = "none" => \E c \in Callers : pc[c] = "threadCreate" /\ current[c] = h
        /\ libnx[h] = "created" => \E c \in Callers : pc[c] = "threadStart" /\ current[c] = h
        /\ libnx[h] \in {"none", "created"} => tpc[h] = "none"
        /\ libnx[h] = "started" => tpc[h] \in {"wrapper", "context", "run", "free", "exit"}
        /\ libnx[h] = "exited" => tpc[h] = "done"
        /\ libnx[h] = "closed" => tpc[h] \in {"none", "done"}

(* What callers and threads may rely on at every step: it implies that     *)
(* stacks outlive threads, contexts are not shared, and waits are answered *)
(* only by threads that have finished.                                     *)
IndInv ==
    /\ TypeOK
    /\ CallersApart
    /\ ConstructorProgress
    /\ ThreadOfHandle
    /\ StackOutlivesThread
    /\ ContextsDistinct
    /\ WaitedThreadsFinished
    /\ \A h \in Handles : waited[h] => object[h] # "none"

(* A thread that is not suspended runs to its end, and whoever waits for   *)
(* it gets an answer.                                                      *)
UnsuspendedThreadsEnd ==
    /\ \A h \in Handles : (Started(h) /\ ~suspended[h]) ~> (tpc[h] = "done" \/ halted)
    /\ \A c \in Callers, h \in Handles :
          (pc[c] = "wait" /\ current[c] = h /\ threadHandle[h] = h /\ ~suspended[h])
              ~> (pc[c] = "idle" \/ halted)
==============================================================================
