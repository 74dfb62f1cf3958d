----------------------------- MODULE KernelObject -----------------------------
(***************************************************************************)
(* QueryKernelObject and TryQueryKernelObject of xdm.h: the host object    *)
(* behind a guest dispatcher header is created by the first query, and its *)
(* guest address is kept in the header's wait list: Flink becomes a        *)
(* signature, Blink the object.                                            *)
(*                                                                         *)
(* Query works under g_kernelLock, TryQuery under no lock; each step of a  *)
(* thread is one access to the header.  An object is named by its header   *)
(* and the number of objects created for that header before it.            *)
(***************************************************************************)
EXTENDS Naturals, FiniteSets

CONSTANTS
    Threads,        \* the threads that query
    Headers,        \* dispatcher headers in guest memory
    GuestLink,      \* what Flink and Blink hold before the first query
    Signature,      \* OBJECT_SIGNATURE
    NoThread,       \* g_kernelLock is free
    Null            \* nullptr

ASSUME LinkAssumption == GuestLink # Signature /\ GuestLink \notin Headers \X Nat
ASSUME NullAssumption == Null \notin {GuestLink} \cup (Headers \X Nat)
ASSUME OwnerAssumption == NoThread \notin Threads

VARIABLES
    flink, blink,   \* header.WaitListHead
    created,        \* how many objects have been created for each header
    kernelLock,     \* the thread that holds g_kernelLock
    pc,
    header,         \* the header a thread is asking about
    obj,            \* the local obj of QueryKernelObject
    result,         \* what a thread's latest QueryKernelObject returned, or Null
    tryResult       \* what its latest TryQueryKernelObject returned, or Null

vars == <<flink, blink, created, kernelLock, pc, header, obj, result, tryResult>>

Objects == Headers \X Nat
Locations == {"idle", "lock", "test", "sign", "create", "publish", "load", "unlock",
              "tryTest", "tryLoad"}

TypeOK ==
    /\ flink \in [Headers -> {GuestLink, Signature}]
    /\ blink \in [Headers -> {GuestLink} \cup Objects]
    /\ created \in [Headers -> Nat]
    /\ kernelLock \in Threads \cup {NoThread}
    /\ pc \in [Threads -> Locations]
    /\ header \in [Threads -> Headers]
    /\ obj \in [Threads -> {Null} \cup Objects]
    /\ result \in [Threads -> {Null} \cup Objects]
    /\ tryResult \in [Threads -> {Null, GuestLink} \cup Objects]

Init ==
    /\ flink = [h \in Headers |-> GuestLink]
    /\ blink = [h \in Headers |-> GuestLink]
    /\ created = [h \in Headers |-> 0]
    /\ kernelLock = NoThread
    /\ pc = [t \in Threads |-> "idle"]
    /\ header \in [Threads -> Headers]
    /\ obj = [t \in Threads |-> Null]
    /\ result = [t \in Threads |-> Null]
    /\ tryResult = [t \in Threads |-> Null]

Goto(t, from, to) == pc[t] = from /\ pc' = [pc EXCEPT ![t] = to]

-----------------------------------------------------------------------------
(* QueryKernelObject *)

QueryCall(t, h) ==
    /\ Goto(t, "idle", "lock")
    /\ header' = [header EXCEPT ![t] = h]
    /\ result' = [result EXCEPT ![t] = Null]
    /\ tryResult' = [tryResult EXCEPT ![t] = Null]
    /\ UNCHANGED <<flink, blink, created, kernelLock, obj>>

(* Faulty: no lock_guard. *)
AcquireLock_Omitted(t) ==
    /\ Goto(t, "lock", "test")
    /\ UNCHANGED <<flink, blink, created, kernelLock, header, obj, result, tryResult>>

AcquireLock(t) ==
    /\ kernelLock = NoThread
    /\ Goto(t, "lock", "test")
    /\ kernelLock' = t
    /\ UNCHANGED <<flink, blink, created, header, obj, result, tryResult>>

TestSignature(t) ==
    /\ Goto(t, "test", IF flink[header[t]] # Signature THEN "sign" ELSE "load")
    /\ UNCHANGED <<flink, blink, created, kernelLock, header, obj, result, tryResult>>

(* Faulty: the header is never signed. *)
WriteSignature_Omitted(t) ==
    /\ Goto(t, "sign", "create")
    /\ UNCHANGED <<flink, blink, created, kernelLock, header, obj, result, tryResult>>

WriteSignature(t) ==
    /\ Goto(t, "sign", "create")
    /\ flink' = [flink EXCEPT ![header[t]] = Signature]
    /\ UNCHANGED <<blink, created, kernelLock, header, obj, result, tryResult>>

CreateKernelObject(t) ==
    /\ Goto(t, "create", "publish")
    /\ obj' = [obj EXCEPT ![t] = <<header[t], created[header[t]]>>]
    /\ created' = [created EXCEPT ![header[t]] = created[header[t]] + 1]
    /\ UNCHANGED <<flink, blink, kernelLock, header, result, tryResult>>

(* Blink is written and the new object is the result. *)
PublishObject(t) ==
    /\ Goto(t, "publish", "unlock")
    /\ blink' = [blink EXCEPT ![header[t]] = obj[t]]
    /\ UNCHANGED <<flink, created, kernelLock, header, obj, result, tryResult>>

LoadObject(t) ==
    /\ Goto(t, "load", "unlock")
    /\ obj' = [obj EXCEPT ![t] = blink[header[t]]]
    /\ UNCHANGED <<flink, blink, created, kernelLock, header, result, tryResult>>

(* Faulty: the lock is not released. *)
ReleaseLock_Omitted(t) ==
    /\ Goto(t, "unlock", "idle")
    /\ result' = [result EXCEPT ![t] = obj[t]]
    /\ obj' = [obj EXCEPT ![t] = Null]
    /\ UNCHANGED <<flink, blink, created, kernelLock, header, tryResult>>

(* The guard's destructor runs as the function returns. *)
ReleaseLock(t) ==
    /\ Goto(t, "unlock", "idle")
    /\ kernelLock' = NoThread
    /\ result' = [result EXCEPT ![t] = obj[t]]
    /\ obj' = [obj EXCEPT ![t] = Null]
    /\ UNCHANGED <<flink, blink, created, header, tryResult>>

-----------------------------------------------------------------------------
(* TryQueryKernelObject *)

TryQueryCall(t, h) ==
    /\ Goto(t, "idle", "tryTest")
    /\ header' = [header EXCEPT ![t] = h]
    /\ result' = [result EXCEPT ![t] = Null]
    /\ tryResult' = [tryResult EXCEPT ![t] = Null]
    /\ UNCHANGED <<flink, blink, created, kernelLock, obj>>

(* Without the signature the result is nullptr. *)
TryTestSignature(t) ==
    /\ Goto(t, "tryTest", IF flink[header[t]] # Signature THEN "idle" ELSE "tryLoad")
    /\ UNCHANGED <<flink, blink, created, kernelLock, header, obj, result, tryResult>>

TryLoadObject(t) ==
    /\ Goto(t, "tryLoad", "idle")
    /\ tryResult' = [tryResult EXCEPT ![t] = blink[header[t]]]
    /\ UNCHANGED <<flink, blink, created, kernelLock, header, obj, result>>

-----------------------------------------------------------------------------
QueryStep(t) ==
    \/ AcquireLock(t) \/ TestSignature(t) \/ WriteSignature(t) \/ CreateKernelObject(t)
    \/ PublishObject(t) \/ LoadObject(t) \/ ReleaseLock(t)

TryStep(t) == TryTestSignature(t) \/ TryLoadObject(t)

Next ==
    \E t \in Threads :
        \/ QueryStep(t) \/ TryStep(t)
        \/ \E h \in Headers : QueryCall(t, h) \/ TryQueryCall(t, h)

Spec == Init /\ [][Next]_vars

(* Threads inside a call keep running; a mutex is granted to a thread that *)
(* asks for it again and again while it is free.                           *)
FairSpec == /\ Spec
            /\ \A t \in Threads : WF_vars(QueryStep(t) \/ TryStep(t)) /\ SF_vars(AcquireLock(t))

-----------------------------------------------------------------------------
(* Correctness *)

(* However many threads query a header first, one object is created for    *)
(* it: no query creates a second and orphans the first.                    *)
OneObjectPerHeader == \A h \in Headers : created[h] <= 1

(* Every finished QueryKernelObject returns the object its header still    *)
(* names, and never the link that was in Blink before.                     *)
QueryReturnsObject ==
    \A t \in Threads :
        pc[t] = "unlock" => obj[t] = blink[header[t]] /\ obj[t] = <<header[t], 0>>

(* A header under nobody's lock is either untouched or complete: the       *)
(* signature is never left without the object.                             *)
SignatureMeansObject ==
    kernelLock = NoThread =>
        \A h \in Headers : IF flink[h] = Signature THEN blink[h] = <<h, 0>> /\ created[h] = 1
                                                   ELSE blink[h] = GuestLink /\ created[h] = 0

(* Once a header names an object it names that object for ever. *)
ObjectNeverReplaced ==
    [][\A h \in Headers : blink[h] \in Objects => blink'[h] = blink[h]]_vars

(* Query, beside any number of try-queries, implements the once-cell: the  *)
(* object comes to stand behind its header as Blink is written.            *)
Cell == INSTANCE OnceCell WITH
            None   <- Null,
            object <- [h \in Headers |-> IF blink[h] = GuestLink THEN Null ELSE blink[h]],
            asked  <- header,
            answer <- result
ImplementsOnceCell == Cell!Spec

(* Every call of the two functions returns. *)
CallsReturn == \A t \in Threads : pc[t] # "idle" ~> pc[t] = "idle"

(* "Get object without initialisation": the result of TryQueryKernelObject *)
(* is nullptr or the object, not what Blink held before there was one.     *)
TryReturnsNullOrObject == \A t \in Threads : tryResult[t] # GuestLink

(* The inductive strengthening: the lock is held exactly inside the locked *)
(* region, and the holder's place tells how far its header has got.        *)
Locked(t) == pc[t] \in {"test", "sign", "create", "publish", "load", "unlock"}

LockHeld == \A t \in Threads : Locked(t) <=> kernelLock = t

Untouched(h) == flink[h] = GuestLink /\ blink[h] = GuestLink /\ created[h] = 0
Complete(h)  == flink[h] = Signature /\ blink[h] = <<h, 0>> /\ created[h] = 1

InProgress(t, h) == kernelLock = t /\ header[t] = h /\ pc[t] \in {"create", "publish"}

HeaderStates ==
    \A h \in Headers :
        \/ Untouched(h) \/ Complete(h)
        \/ \E t \in Threads : InProgress(t, h)

HolderKnows ==
    \A t \in Threads :
        /\ pc[t] # "idle" => result[t] = Null
        /\ pc[t] = "sign" => Untouched(header[t])
        /\ pc[t] = "create" => /\ flink[header[t]] = Signature
                               /\ blink[header[t]] = GuestLink
                               /\ created[header[t]] = 0
        /\ pc[t] = "publish" => /\ flink[header[t]] = Signature
                                /\ blink[header[t]] = GuestLink
                                /\ created[header[t]] = 1
                                /\ obj[t] = <<header[t], 0>>
        /\ pc[t] \in {"load", "unlock"} => Complete(header[t])
        /\ pc[t] = "unlock" => obj[t] = <<header[t], 0>>

IndInv == TypeOK /\ LockHeld /\ HeaderStates /\ HolderKnows
==============================================================================
