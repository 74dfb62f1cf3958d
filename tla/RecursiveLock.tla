---------------------------- MODULE RecursiveLock ----------------------------
(***************************************************************************)
(* What a guest program expects of an Xbox 360 critical section: a         *)
(* recursive lock.  A thread may enter while no other thread is inside,    *)
(* and leaves as many times as it has entered.  Nothing is said of owners, *)
(* counters or sleeping threads: those belong to the implementation.       *)
(***************************************************************************)
EXTENDS Naturals

CONSTANTS
    Threads,    \* the guest threads
    MaxDepth    \* bound on the nesting of one thread

VARIABLE held   \* held[t] is how often t is inside the section

TypeOK == held \in [Threads -> 0..MaxDepth]

Init == held = [t \in Threads |-> 0]

Acquire(t) ==
    /\ held[t] < MaxDepth
    /\ \A u \in Threads \ {t} : held[u] = 0
    /\ held' = [held EXCEPT ![t] = held[t] + 1]

Release(t) ==
    /\ held[t] > 0
    /\ held' = [held EXCEPT ![t] = held[t] - 1]

Next == \E t \in Threads : Acquire(t) \/ Release(t)

Spec == Init /\ [][Next]_held
==============================================================================
