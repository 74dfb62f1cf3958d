-------------------------- MODULE KernelObjectProofs --------------------------
(***************************************************************************)
(* Proofs about QueryKernelObject, beside any number of concurrent         *)
(* TryQueryKernelObject calls, for every set of threads and headers.       *)
(***************************************************************************)
EXTENDS KernelObject, TLAPS

USE LinkAssumption, NullAssumption, OwnerAssumption

LEMMA InitIndInv == Init => IndInv
<1> SUFFICES ASSUME Init PROVE IndInv
  OBVIOUS
<1> USE DEF Init
<1>1. TypeOK
  BY DEF TypeOK, Locations
<1>2. LockHeld /\ HolderKnows
  BY DEF LockHeld, Locked, HolderKnows
<1>3. HeaderStates
  BY DEF HeaderStates, Untouched
<1>4. QED
  BY <1>1, <1>2, <1>3 DEF IndInv

(* The holder of g_kernelLock is the only thread whose steps write a       *)
(* header, so the others' knowledge of theirs is not disturbed.            *)
LEMMA NextIndInv == IndInv /\ [Next]_vars => IndInv'
<1> SUFFICES ASSUME IndInv, [Next]_vars PROVE IndInv'
  OBVIOUS
<1> USE DEF IndInv, Goto
<1>1. ASSUME NEW t \in Threads, NEW h \in Headers, QueryCall(t, h) PROVE IndInv'
  BY <1>1 DEF QueryCall, TypeOK, Locations, Objects, LockHeld, Locked, HeaderStates,
              HolderKnows, Untouched, Complete, InProgress
<1>2. ASSUME NEW t \in Threads, NEW h \in Headers, TryQueryCall(t, h) PROVE IndInv'
  BY <1>2 DEF TryQueryCall, TypeOK, Locations, Objects, LockHeld, Locked, HeaderStates,
              HolderKnows, Untouched, Complete, InProgress
<1>3. ASSUME NEW t \in Threads, AcquireLock(t) PROVE IndInv'
  BY <1>3 DEF AcquireLock, TypeOK, Locations, Objects, LockHeld, Locked, HeaderStates,
              HolderKnows, Untouched, Complete, InProgress
<1>4. ASSUME NEW t \in Threads, TestSignature(t) PROVE IndInv'
  BY <1>4 DEF TestSignature, TypeOK, Locations, Objects, LockHeld, Locked, HeaderStates,
              HolderKnows, Untouched, Complete, InProgress
<1>5. ASSUME NEW t \in Threads, WriteSignature(t) PROVE IndInv'
  BY <1>5 DEF WriteSignature, TypeOK, Locations, Objects, LockHeld, Locked, HeaderStates,
              HolderKnows, Untouched, Complete, InProgress
<1>6. ASSUME NEW t \in Threads, CreateKernelObject(t) PROVE IndInv'
  BY <1>6 DEF CreateKernelObject, TypeOK, Locations, Objects, LockHeld, Locked, HeaderStates,
              HolderKnows, Untouched, Complete, InProgress
(* Blink is written last: the header is complete from here on. *)
<1>7. ASSUME NEW t \in Threads, PublishObject(t) PROVE IndInv'
  <2> DEFINE h == header[t]
  <2> USE <1>7 DEF PublishObject
  <2>1. /\ kernelLock = t /\ h \in Headers
        /\ flink[h] = Signature /\ created[h] = 1 /\ obj[t] = <<h, 0>>
    BY DEF TypeOK, LockHeld, Locked, HolderKnows
  <2>2. \A u \in Threads \ {t} : pc[u] = pc'[u] /\ ~Locked(u)
    BY <2>1 DEF TypeOK, LockHeld
  <2>3. blink' = [blink EXCEPT ![h] = <<h, 0>>] /\ Complete(h)'
    BY <2>1 DEF TypeOK, Complete
  <2>4. TypeOK'
    BY <2>1, <2>3 DEF TypeOK, Locations, Objects
  <2>5. LockHeld'
    BY <2>1, <2>2 DEF TypeOK, LockHeld, Locked
  <2>6. HeaderStates'
    <3>1. \A g \in Headers \ {h} : Untouched(g)' \/ Complete(g)'
      BY <2>1, <2>3 DEF TypeOK, HeaderStates, Untouched, Complete, InProgress
    <3>2. QED
      BY <2>3, <3>1 DEF HeaderStates
  <2>7. HolderKnows'
    BY <2>1, <2>2, <2>3 DEF TypeOK, Locked, HolderKnows
  <2>8. QED
    BY <2>4, <2>5, <2>6, <2>7
(* A header found signed under the lock is complete. *)
<1>8. ASSUME NEW t \in Threads, LoadObject(t) PROVE IndInv'
  <2> DEFINE h == header[t]
  <2> USE <1>8 DEF LoadObject
  <2>1. kernelLock = t /\ h \in Headers /\ blink[h] = <<h, 0>> /\ Complete(h)
    BY DEF TypeOK, LockHeld, Locked, HolderKnows, Complete
  <2>2. obj' = [obj EXCEPT ![t] = <<h, 0>>]
    BY <2>1
  <2>3. TypeOK'
    BY <2>1, <2>2 DEF TypeOK, Locations, Objects
  <2>4. LockHeld' /\ HeaderStates'
    BY <2>1 DEF TypeOK, LockHeld, Locked, HeaderStates, Untouched, Complete, InProgress
  <2>5. HolderKnows'
    BY <2>1, <2>2 DEF TypeOK, HolderKnows, Untouched, Complete
  <2>6. QED
    BY <2>3, <2>4, <2>5
<1>9. ASSUME NEW t \in Threads, ReleaseLock(t) PROVE IndInv'
  BY <1>9 DEF ReleaseLock, TypeOK, Locations, Objects, LockHeld, Locked, HeaderStates,
              HolderKnows, Untouched, Complete, InProgress
<1>10. ASSUME NEW t \in Threads, TryTestSignature(t) PROVE IndInv'
  BY <1>10 DEF TryTestSignature, TypeOK, Locations, Objects, LockHeld, Locked, HeaderStates,
              HolderKnows, Untouched, Complete, InProgress
<1>11. ASSUME NEW t \in Threads, TryLoadObject(t) PROVE IndInv'
  BY <1>11 DEF TryLoadObject, TypeOK, Locations, Objects, LockHeld, Locked, HeaderStates,
              HolderKnows, Untouched, Complete, InProgress
<1>12. CASE UNCHANGED vars
  BY <1>12 DEF vars, TypeOK, Locations, Objects, LockHeld, Locked, HeaderStates,
              HolderKnows, Untouched, Complete, InProgress
<1>13. QED
  BY <1>1, <1>2, <1>3, <1>4, <1>5, <1>6, <1>7, <1>8, <1>9, <1>10, <1>11, <1>12
     DEF Next, QueryStep, TryStep

(* Every reachable state of queries and try-queries satisfies the          *)
(* inductive invariant.                                                    *)
THEOREM Invariant == Spec => []IndInv
BY InitIndInv, NextIndInv, PTL DEF Spec

(* However many threads query a header first, one object is created.       *)
THEOREM OneObject == Spec => []OneObjectPerHeader
<1>1. IndInv => OneObjectPerHeader
  BY DEF IndInv, HeaderStates, HolderKnows, Untouched, Complete, InProgress, OneObjectPerHeader
<1>2. QED
  BY <1>1, Invariant, PTL

(* A query about to return holds the object that its header names.         *)
THEOREM QueryAnswers == Spec => []QueryReturnsObject
<1>1. IndInv => QueryReturnsObject
  BY DEF IndInv, HolderKnows, Complete, QueryReturnsObject
<1>2. QED
  BY <1>1, Invariant, PTL

(* With g_kernelLock free, a header carries the signature exactly when it  *)
(* names its object.                                                       *)
THEOREM SignatureSound == Spec => []SignatureMeansObject
<1>1. IndInv => SignatureMeansObject
  BY DEF IndInv, HeaderStates, Untouched, Complete, InProgress, SignatureMeansObject
<1>2. QED
  BY <1>1, Invariant, PTL

(* Once a header names an object, no step makes it name another.           *)
THEOREM NeverReplaced == Spec => ObjectNeverReplaced
<1>1. IndInv /\ [Next]_vars => [\A h \in Headers : blink[h] \in Objects => blink'[h] = blink[h]]_vars
  <2> SUFFICES ASSUME IndInv, Next, NEW h \in Headers, blink[h] \in Objects
               PROVE  blink'[h] = blink[h]
    BY DEF vars
  <2>1. blink[h] # GuestLink
    BY DEF Objects
  <2>2. ASSUME NEW t \in Threads, PublishObject(t) PROVE header[t] # h
    BY <2>1, <2>2 DEF PublishObject, Goto, IndInv, HolderKnows
  <2>3. ASSUME NEW t \in Threads, PublishObject(t) PROVE blink'[h] = blink[h]
    BY <2>2, <2>3 DEF PublishObject, IndInv, TypeOK
  <2>4. CASE \A t \in Threads : ~PublishObject(t)
    BY <2>4 DEF Next, QueryStep, TryStep, QueryCall, TryQueryCall, AcquireLock,
                TestSignature, WriteSignature, CreateKernelObject, LoadObject, ReleaseLock,
                TryTestSignature, TryLoadObject
  <2>5. QED
    BY <2>3, <2>4
<1>2. QED
  BY <1>1, Invariant, PTL DEF Spec, ObjectNeverReplaced

-----------------------------------------------------------------------------
(* The once-cell *)

LEMMA StepRefines == IndInv /\ [Next]_vars => [Cell!Next]_(Cell!vars)
<1> SUFFICES ASSUME IndInv, [Next]_vars PROVE Cell!Next \/ UNCHANGED Cell!vars
  OBVIOUS
<1> DEFINE object == [h \in Headers |-> IF blink[h] = GuestLink THEN Null ELSE blink[h]]
<1> USE DEF Goto
<1>1. ASSUME NEW t \in Threads, NEW h \in Headers, QueryCall(t, h) \/ TryQueryCall(t, h)
      PROVE  Cell!Ask(t, h)
  BY <1>1 DEF QueryCall, TryQueryCall, Cell!Ask
<1>2. ASSUME NEW t \in Threads, PublishObject(t) PROVE \E h \in Headers : Cell!Create(h)
  <2> DEFINE h == header[t]
  <2>1. h \in Headers /\ obj[t] = <<h, 0>> /\ blink[h] = GuestLink
    BY <1>2 DEF PublishObject, IndInv, TypeOK, HolderKnows
  <2>2. blink' = [blink EXCEPT ![h] = <<h, 0>>] /\ <<h, 0>> \in Objects
    BY <1>2, <2>1 DEF PublishObject, Objects
  <2>3. object' = [object EXCEPT ![h] = <<h, 0>>] /\ object[h] = Null
    BY <2>1, <2>2 DEF IndInv, TypeOK, Objects
  <2>4. \A g \in Headers : object[g] # <<h, 0>>
    <3> SUFFICES ASSUME NEW g \in Headers, object[g] = <<h, 0>> PROVE FALSE
      OBVIOUS
    <3>1. blink[g] = <<h, 0>> /\ blink[g] # GuestLink
      BY <2>2 DEF Objects
    <3>2. ~Untouched(g) /\ (Complete(g) => g = h)
      BY <3>1 DEF Untouched, Complete
    <3>3. \A u \in Threads : ~InProgress(u, g)
      BY <3>1 DEF InProgress, IndInv, HolderKnows
    <3>4. QED
      BY <2>1, <3>1, <3>2, <3>3 DEF IndInv, HeaderStates
  <2>5. object'[h] = <<h, 0>> /\ object'[h] \in Objects \ {object[g] : g \in Headers}
    BY <2>1, <2>2, <2>3, <2>4
  <2>6. QED
    BY <1>2, <2>1, <2>3, <2>5 DEF PublishObject, Cell!Create
<1>3. ASSUME NEW t \in Threads, ReleaseLock(t) PROVE Cell!Answer(t)
  <2>1. /\ Complete(header[t]) /\ obj[t] = <<header[t], 0>>
        /\ result[t] = Null /\ header[t] \in Headers
    BY <1>3 DEF ReleaseLock, IndInv, TypeOK, HolderKnows
  <2>2. object[header[t]] = obj[t] /\ obj[t] # Null
    BY <2>1 DEF Complete, Objects
  <2>3. QED
    BY <1>3, <2>1, <2>2 DEF ReleaseLock, Cell!Answer
<1>4. ASSUME NEW t \in Threads,
             \/ AcquireLock(t) \/ TestSignature(t) \/ WriteSignature(t)
             \/ CreateKernelObject(t) \/ LoadObject(t) \/ TryStep(t)
      PROVE  UNCHANGED Cell!vars
  BY <1>4 DEF AcquireLock, TestSignature, WriteSignature, CreateKernelObject, LoadObject,
              TryStep, TryTestSignature, TryLoadObject, Cell!vars
<1>5. CASE UNCHANGED vars
  BY <1>5 DEF vars, Cell!vars
<1>6. QED
  <2>1. ASSUME NEW t \in Threads, QueryStep(t) \/ TryStep(t)
        PROVE  Cell!Next \/ UNCHANGED Cell!vars
    BY <1>2, <1>3, <1>4, <2>1 DEF QueryStep, Cell!Next
  <2>2. ASSUME NEW t \in Threads, NEW h \in Headers, QueryCall(t, h) \/ TryQueryCall(t, h)
        PROVE  Cell!Next
    BY <1>1, <2>2 DEF Cell!Next
  <2>3. QED
    BY <1>5, <2>1, <2>2 DEF Next

(* Queries implement the once-cell, whatever try-queries run beside them.  *)
THEOREM Refinement == Spec => ImplementsOnceCell
<1>1. Init => Cell!Init
  BY DEF Init, Cell!Init
<1>2. QED
  BY <1>1, Invariant, StepRefines, PTL DEF Spec, ImplementsOnceCell, Cell!Spec
==============================================================================
