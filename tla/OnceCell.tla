------------------------------- MODULE OnceCell -------------------------------
(***************************************************************************)
(* What the emulated kernel expects of the object behind a dispatcher      *)
(* header: there is at most one, and everyone who asks is given that one.  *)
(***************************************************************************)
CONSTANTS
    Headers,    \* dispatcher headers
    Threads,
    Objects,    \* the objects that may come to stand behind a header
    None        \* no object

VARIABLES
    object,     \* the object behind each header, or None
    asked,      \* the header of each thread's latest query
    answer      \* what that query answered, None until it does

vars == <<object, asked, answer>>

Init ==
    /\ object = [h \in Headers |-> None]
    /\ asked \in [Threads -> Headers]
    /\ answer = [t \in Threads |-> None]

(* A new object, behind no other header, comes to stand behind h. *)
Create(h) ==
    /\ object[h] = None
    /\ object'[h] \in Objects \ {object[g] : g \in Headers}
    /\ object' = [object EXCEPT ![h] = object'[h]]
    /\ UNCHANGED <<asked, answer>>

Ask(t, h) ==
    /\ asked' = [asked EXCEPT ![t] = h]
    /\ answer' = [answer EXCEPT ![t] = None]
    /\ UNCHANGED object

Answer(t) ==
    /\ object[asked[t]] # None
    /\ answer[t] = None
    /\ answer' = [answer EXCEPT ![t] = object[asked[t]]]
    /\ UNCHANGED <<object, asked>>

Next ==
    \/ \E h \in Headers : Create(h)
    \/ \E t \in Threads : Answer(t) \/ \E h \in Headers : Ask(t, h)

Spec == Init /\ [][Next]_vars
==============================================================================
