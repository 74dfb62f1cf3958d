------------------------------- MODULE GuestCall -------------------------------
(***************************************************************************)
(* The two templates of function.h on one guest thread:                    *)
(* HostToGuestFunction (a hook: guest code calls a host function) and      *)
(* GuestToHostFunction (a host function calls guest code), nested in any   *)
(* way.                                                                    *)
(*                                                                         *)
(* A signature is the sequence of its arguments' kinds; the value passed   *)
(* as argument i is i, or NULL for a null pointer; wide is an integer that *)
(* 32 bits do not hold.  Registers hold the values of one call at a time,  *)
(* so a call is told by the places its values are written to and read from.*)
(***************************************************************************)
EXTENDS Integers, Sequences, FiniteSets

CONSTANTS
    IntegerRegisters,   \* r3 to r10
    PreciseRegisters,   \* f1 to f13
    Modes,              \* what fpscr may hold
    MaxArguments,       \* bound on the arguments of a function
    MaxDepth,           \* bound on the contexts of the thread
    Self,               \* the thread's r13
    Garbage             \* what nobody has written, half of a wide integer, or an
                        \* address that is none

ASSUME RegistersAssumption ==
    {IntegerRegisters, PreciseRegisters} \subseteq Nat /\ MaxArguments \in Nat \ {0}
ASSUME DepthAssumption == MaxDepth \in Nat \ {0}
ASSUME ModesAssumption == Modes # {}
ASSUME NamesAssumption == Garbage \notin Nat /\ Garbage # Self

VARIABLES
    pc,         \* whose code runs: "guest" or "host"; "asserted" if neither
    contexts,   \* the thread's own PPCContext and the newCtx of each nested call
    current,    \* the context GetPPCContext returns, as an index
    saved,      \* the currentCtx of each nested call
    transfer,   \* the latest call or return: what went and what arrived
    mode        \* the fpscr that guest code set last

vars == <<pc, contexts, current, saved, transfer, mode>>

NULL == 0

Kinds == {"integer", "wide", "precise", "pointer", "null"}
Signatures == UNION {[1..n -> Kinds] : n \in 0..MaxArguments}

Context == [fpscr : Modes, r13 : {Self, Garbage}]
Transfers ==
    [to : {"host", "guest"}, what : {"arguments", "result"}, passed : Signatures,
     received : UNION {[1..n -> 0..MaxArguments \cup {Garbage}] : n \in 0..MaxArguments}]

TypeOK ==
    /\ pc \in {"guest", "host", "asserted"}
    /\ contexts \in Seq(Context) /\ Len(contexts) \in 1..MaxDepth
    /\ current \in DOMAIN contexts
    /\ saved \in Seq(DOMAIN contexts) /\ Len(saved) = Len(contexts) - 1
    /\ transfer \in Transfers /\ DOMAIN transfer.received = DOMAIN transfer.passed
    /\ mode \in Modes

Nothing == [to |-> "guest", what |-> "arguments", passed |-> <<>>, received |-> <<>>]

(* GuestThreadContext has made the thread's context the current one. *)
Init ==
    /\ mode \in Modes
    /\ contexts = <<[fpscr |-> mode, r13 |-> Self]>>
    /\ current = 1 /\ saved = <<>>
    /\ pc = "guest"
    /\ transfer = Nothing

-----------------------------------------------------------------------------
(* Where values go *)

PreciseBefore(args, i) == Cardinality({j \in 1..(i - 1) : args[j] = "precise"})

(* Faulty: the others are counted by themselves, too. *)
Ordinal_OfItsKind(args, i) ==
    IF args[i] = "precise" THEN PreciseBefore(args, i) ELSE i - 1 - PreciseBefore(args, i)

(* GatherFunctionArguments *)
Ordinal(args, i) == IF args[i] = "precise" THEN PreciseBefore(args, i) ELSE i - 1

(* What the recompiled code does: a parameter has the place of its position, *)
(* but for floating-point ones that still find a register of their own.      *)
GuestPlace(args, i) ==
    IF args[i] = "precise" /\ PreciseBefore(args, i) < PreciseRegisters
    THEN <<"f", PreciseBefore(args, i)>>
    ELSE IF args[i] # "precise" /\ i <= IntegerRegisters THEN <<"r", i - 1>>
    ELSE <<"stack", i - 1>>

(* Where GetValue reads: past f13 it has nowhere. *)
GetPlace(args, i) ==
    LET o == Ordinal(args, i) IN
    IF args[i] = "precise" THEN <<"f", o>>
    ELSE IF o < IntegerRegisters THEN <<"r", o>> ELSE <<"stack", o>>

(* Where SetValue writes: registers only. *)
SetPlace(args, i) == <<IF args[i] = "precise" THEN "f" ELSE "r", Ordinal(args, i)>>

HasRegister(args, i) ==
    Ordinal(args, i) < (IF args[i] = "precise" THEN PreciseRegisters ELSE IntegerRegisters)

(* GetValue by a hook of what guest code has put in place: 32 bits of an    *)
(* integer register or of a slot on the stack.                              *)
GetValue(args, i) ==
    LET at == {j \in DOMAIN args : GuestPlace(args, j) = GetPlace(args, i)} IN
    IF args[i] = "precise" /\ ~HasRegister(args, i) THEN 0
    ELSE IF at = {} THEN Garbage
    ELSE LET j == CHOOSE j \in at : TRUE IN
         IF args[j] = "null" THEN NULL ELSE IF args[j] = "wide" THEN Garbage ELSE j

(* What guest code finds of an argument that SetValue has put in place.     *)
(* MapVirtual subtracts base from a null pointer, too.                      *)
GuestFinds(args, i) ==
    LET at == {j \in DOMAIN args : SetPlace(args, j) = GuestPlace(args, i)} IN
    IF at = {} THEN Garbage
    ELSE LET j == CHOOSE j \in at : \A k \in at : k <= j IN IF args[j] = "null" THEN Garbage ELSE j

-----------------------------------------------------------------------------
Top == Len(contexts)

(* Guest code sets a rounding or flush mode. *)
SetMode(m) ==
    /\ pc = "guest"
    /\ mode' = m
    /\ contexts' = [contexts EXCEPT ![Top].fpscr = m]
    /\ UNCHANGED <<pc, current, saved, transfer>>

(* HostToGuestFunction, up to the host function *)
HostToGuestFunction(args) ==
    /\ pc = "guest" /\ pc' = "host"
    /\ transfer' = [to |-> "host", what |-> "arguments", passed |-> args,
                    received |-> [i \in DOMAIN args |-> GetValue(args, i)]]
    /\ UNCHANGED <<contexts, current, saved, mode>>

(* The rest of it: a null pointer is 0, and other pointers lose base. *)
HostFunctionReturns(result) ==
    /\ pc = "host" /\ pc' = "guest"
    /\ transfer' = [to |-> "guest", what |-> "result", passed |-> result,
                    received |-> [i \in DOMAIN result |-> IF result[i] = "null" THEN NULL ELSE i]]
    /\ UNCHANGED <<contexts, current, saved, mode>>

NewContext == {[fpscr |-> contexts[current].fpscr, r13 |-> contexts[current].r13]}

(* GuestToHostFunction, up to the guest function: r1, r13 and fpscr are the *)
(* current context's, all else is not initialised.                          *)
GuestToHostFunction(args) ==
    /\ pc = "host" /\ Top < MaxDepth
    /\ \A i \in DOMAIN args : HasRegister(args, i)
    /\ pc' = "guest"
    /\ \E newCtx \in NewContext : contexts' = Append(contexts, newCtx)
    /\ saved' = Append(saved, current)
    /\ current' = Top + 1
    /\ transfer' = [to |-> "guest", what |-> "arguments", passed |-> args,
                    received |-> [i \in DOMAIN args |-> GuestFinds(args, i)]]
    /\ UNCHANGED mode

(* "Pushing to stack memory is not yet supported." *)
ArgumentAsserts(args) ==
    /\ pc = "host" /\ Top < MaxDepth
    /\ \E i \in DOMAIN args : ~HasRegister(args, i)
    /\ pc' = "asserted"
    /\ UNCHANGED <<contexts, current, saved, transfer, mode>>

(* Translate adds base to a null pointer, too. *)
ResultFor(result) ==
    [to |-> "host", what |-> "result", passed |-> result,
     received |-> [i \in DOMAIN result |-> IF result[i] = "null" THEN Garbage ELSE i]]

(* Faulty: the caller's context is not made the current one again. *)
GuestFunctionReturns_NoRestore(result) ==
    /\ pc = "guest" /\ Top > 1
    /\ pc' = "host"
    /\ contexts' = [SubSeq(contexts, 1, Top - 1) EXCEPT ![saved[Top - 1]].fpscr = contexts[Top].fpscr]
    /\ saved' = SubSeq(saved, 1, Top - 2)
    /\ transfer' = ResultFor(result)
    /\ UNCHANGED <<current, mode>>

(* The rest of GuestToHostFunction *)
GuestFunctionReturns(result) ==
    /\ pc = "guest" /\ Top > 1
    /\ pc' = "host"
    /\ contexts' = [SubSeq(contexts, 1, Top - 1) EXCEPT ![saved[Top - 1]].fpscr = contexts[Top].fpscr]
    /\ current' = saved[Top - 1]
    /\ saved' = SubSeq(saved, 1, Top - 2)
    /\ transfer' = ResultFor(result)
    /\ UNCHANGED mode

Asserted == pc = "asserted" /\ UNCHANGED vars

Results == {<<>>} \cup {<<k>> : k \in Kinds}

Next ==
    \/ \E m \in Modes : SetMode(m)
    \/ \E args \in Signatures :
          HostToGuestFunction(args) \/ GuestToHostFunction(args) \/ ArgumentAsserts(args)
    \/ \E result \in Results : HostFunctionReturns(result) \/ GuestFunctionReturns(result)
    \/ Asserted

Spec == Init /\ [][Next]_vars

-----------------------------------------------------------------------------
(* Correctness *)

(* Not handed over as it is: to a hook, a floating-point argument past f13,  *)
(* read as 0 ("TODO: get value from stack"), and a wide integer, cut to 32   *)
(* bits though results and SetValue hand over 64; and a null pointer on its  *)
(* way out of a GuestToHostFunction call or back through one.                *)
Lost(i) ==
    LET t == transfer IN
    \/ /\ t.to = "host" /\ t.what = "arguments" /\ t.passed[i] = "precise"
       /\ PreciseBefore(t.passed, i) >= PreciseRegisters
    \/ t.to = "host" /\ t.what = "arguments" /\ t.passed[i] = "wide"
    \/ /\ t.passed[i] = "null"
       /\ <<t.to, t.what>> \in {<<"guest", "arguments">>, <<"host", "result">>}

(* But for what is lost, whatever the mix of integers, floating-point       *)
(* numbers and pointers, each argument and each result arrives as it was    *)
(* passed, on either way, the integer ones past r10 out of the guest's      *)
(* stack (function.h:46-115, 198-242).                                      *)
ValuesArrive ==
    \A i \in DOMAIN transfer.passed :
        ~Lost(i) => transfer.received[i] = IF transfer.passed[i] = "null" THEN NULL ELSE i

(* However calls nest, the current context is that of the innermost guest   *)
(* code, with the r13 of the thread: SetLastError and critical sections     *)
(* take the thread's identity from it (function.h:316-333).                 *)
ContextIsInnermost ==
    /\ current = Top
    /\ \A k \in DOMAIN contexts : contexts[k].r13 = Self

(* The innermost context has the floating-point mode that guest code of the *)
(* thread set last, in whichever call it did (function.h:321, 334).         *)
ModeFollows == contexts[Top].fpscr = mode

(* Each nested call goes back to the context it came from. *)
CallersSaved == \A k \in DOMAIN saved : saved[k] = k

(* However calls nest, context, identity and mode stay those of the thread: *)
(* what the three properties above say, in an inductive form                *)
(* (function.h:316-334).                                                    *)
IndInv == TypeOK /\ ContextIsInnermost /\ ModeFollows /\ CallersSaved
==============================================================================
