---------------------------- MODULE GuestCallProofs ----------------------------
(***************************************************************************)
(* For every number of registers, arguments, contexts and modes: values    *)
(* arrive as they were passed, and nested calls keep the thread's context, *)
(* identity and floating-point mode.                                       *)
(*                                                                         *)
(* An argument's place tells its position.  For an integer or a pointer    *)
(* the place is the position; the floating-point arguments of a signature  *)
(* are counted, and the count grows with every one of them.                *)
(***************************************************************************)
EXTENDS GuestCall, FiniteSetTheorems, SequenceTheorems, TLAPS

PrecisesBefore(args, i) == {j \in 1..(i - 1) : args[j] = "precise"}

(* The floating-point arguments before a position are finitely many. *)
LEMMA PreciseBeforeType ==
    ASSUME NEW args, NEW i \in Nat \ {0}
    PROVE  IsFiniteSet(PrecisesBefore(args, i)) /\ PreciseBefore(args, i) \in Nat
<1>1. IsFiniteSet(1..(i - 1))
  BY FS_Interval
<1>2. PrecisesBefore(args, i) \subseteq 1..(i - 1)
  BY DEF PrecisesBefore
<1>3. IsFiniteSet(PrecisesBefore(args, i))
  BY <1>1, <1>2, FS_Subset
<1> QED
  BY <1>3, FS_CardinalityType DEF PreciseBefore, PrecisesBefore

(* A later floating-point argument has more of them before it. *)
LEMMA PreciseBeforeGrows ==
    ASSUME NEW args, NEW i \in Nat \ {0}, NEW j \in Nat \ {0}, j < i, args[j] = "precise"
    PROVE  PreciseBefore(args, j) < PreciseBefore(args, i)
<1> DEFINE J == PrecisesBefore(args, j)
           I == PrecisesBefore(args, i)
<1>1. IsFiniteSet(J) /\ IsFiniteSet(I)
  BY PreciseBeforeType
<1>2. J \cup {j} \subseteq I
  BY DEF PrecisesBefore
<1>3. j \notin J
  BY DEF PrecisesBefore
<1>4. IsFiniteSet(J \cup {j}) /\ Cardinality(J \cup {j}) = Cardinality(J) + 1
  BY <1>1, <1>3, FS_AddElement
<1>5. Cardinality(J \cup {j}) <= Cardinality(I)
  BY <1>1, <1>2, FS_Subset
<1>6. Cardinality(J) \in Nat /\ Cardinality(I) \in Nat
  BY <1>1, FS_CardinalityType
<1> QED
  BY <1>4, <1>5, <1>6 DEF PreciseBefore, PrecisesBefore

(* So no two floating-point arguments have equally many before them. *)
LEMMA PreciseBeforeInjective ==
    ASSUME NEW args, NEW i \in Nat \ {0}, NEW j \in Nat \ {0},
           args[i] = "precise", args[j] = "precise",
           PreciseBefore(args, i) = PreciseBefore(args, j)
    PROVE  i = j
<1>1. PreciseBefore(args, i) \in Nat /\ PreciseBefore(args, j) \in Nat
  BY PreciseBeforeType
<1>2. ~(j < i)
  BY <1>1, PreciseBeforeGrows
<1>3. ~(i < j)
  BY <1>1, PreciseBeforeGrows
<1> QED
  BY <1>2, <1>3

(* The kinds and positions of a signature. *)
LEMMA SignatureType ==
    ASSUME NEW args \in Signatures
    PROVE  /\ DOMAIN args \subseteq 1..MaxArguments
           /\ DOMAIN args \subseteq Nat \ {0}
           /\ \A i \in DOMAIN args : args[i] \in Kinds
<1>1. PICK n \in 0..MaxArguments : args \in [1..n -> Kinds]
  BY DEF Signatures
<1> QED
  BY <1>1, RegistersAssumption

(* No two arguments that guest code passes share a place. *)
LEMMA GuestPlacesDiffer ==
    ASSUME NEW args \in Signatures, NEW i \in DOMAIN args, NEW j \in DOMAIN args,
           GuestPlace(args, i) = GuestPlace(args, j)
    PROVE  i = j
<1>1. i \in Nat \ {0} /\ j \in Nat \ {0}
  BY SignatureType
<1>2. CASE GuestPlace(args, i) = <<"f", PreciseBefore(args, i)>> /\ args[i] = "precise"
  <2>1. args[j] = "precise" /\ PreciseBefore(args, j) = PreciseBefore(args, i)
    BY <1>2 DEF GuestPlace
  <2> QED
    BY <1>1, <1>2, <2>1, PreciseBeforeInjective
<1>3. CASE GuestPlace(args, i) = <<"r", i - 1>>
  BY <1>1, <1>3 DEF GuestPlace
<1>4. CASE GuestPlace(args, i) = <<"stack", i - 1>>
  BY <1>1, <1>4 DEF GuestPlace
<1> QED
  BY <1>2, <1>3, <1>4 DEF GuestPlace

(* GatherFunctionArguments and GetValue read where guest code has put it. *)
LEMMA HookReads ==
    ASSUME NEW args \in Signatures, NEW i \in DOMAIN args
    PROVE  /\ GetValue(args, i) \in 0..MaxArguments \cup {Garbage}
           /\ ~(args[i] = "precise" /\ PreciseBefore(args, i) >= PreciseRegisters)
                 /\ args[i] # "wide" => GetValue(args, i) = IF args[i] = "null" THEN NULL ELSE i
<1>1. /\ i \in Nat \ {0} /\ i \in 1..MaxArguments
      /\ IntegerRegisters \in Nat /\ PreciseRegisters \in Nat /\ MaxArguments \in Nat
  BY SignatureType, RegistersAssumption
<1>2. PreciseBefore(args, i) \in Nat
  BY <1>1, PreciseBeforeType
<1> DEFINE at == {j \in DOMAIN args : GuestPlace(args, j) = GetPlace(args, i)}
<1>3. CASE args[i] = "precise" /\ PreciseBefore(args, i) >= PreciseRegisters
  BY <1>1, <1>2, <1>3 DEF GetValue, HasRegister, Ordinal
<1>4. CASE ~(args[i] = "precise" /\ PreciseBefore(args, i) >= PreciseRegisters)
  <2>1. GuestPlace(args, i) = GetPlace(args, i)
    BY <1>1, <1>2, <1>4 DEF GuestPlace, GetPlace, Ordinal
  <2>2. at = {i}
    BY <2>1, GuestPlacesDiffer
  <2>3. (CHOOSE j \in at : TRUE) = i
    BY <2>2
  <2>4. ~(args[i] = "precise" /\ ~HasRegister(args, i))
    BY <1>1, <1>2, <1>4 DEF HasRegister, Ordinal
  <2>5. GetValue(args, i) = IF args[i] = "null" THEN NULL
                            ELSE IF args[i] = "wide" THEN Garbage ELSE i
    BY <2>2, <2>3, <2>4 DEF GetValue
  <2> QED
    BY <1>1, <2>5 DEF NULL
<1> QED
  BY <1>3, <1>4

(* SetValue puts every argument that has a register where guest code looks. *)
LEMMA GuestReads ==
    ASSUME NEW args \in Signatures, NEW i \in DOMAIN args,
           \A k \in DOMAIN args : HasRegister(args, k)
    PROVE  /\ GuestFinds(args, i) \in 0..MaxArguments \cup {Garbage}
           /\ args[i] # "null" => GuestFinds(args, i) = i
<1>1. /\ i \in 1..MaxArguments
      /\ IntegerRegisters \in Nat /\ PreciseRegisters \in Nat /\ MaxArguments \in Nat
  BY SignatureType, RegistersAssumption
<1>2. ASSUME NEW k \in DOMAIN args
      PROVE  SetPlace(args, k) = GuestPlace(args, k)
  <2>1. k \in Nat \ {0}
    BY SignatureType
  <2>2. PreciseBefore(args, k) \in Nat
    BY <2>1, PreciseBeforeType
  <2>3. HasRegister(args, k)
    OBVIOUS
  <2> QED
    BY <1>1, <2>1, <2>2, <2>3 DEF SetPlace, GuestPlace, HasRegister, Ordinal
<1> DEFINE at == {j \in DOMAIN args : SetPlace(args, j) = GuestPlace(args, i)}
<1>3. at = {i}
  BY <1>2, GuestPlacesDiffer
<1>4. (CHOOSE j \in at : \A k \in at : k <= j) = i
  BY <1>1, <1>3
<1>5. GuestFinds(args, i) = IF args[i] = "null" THEN Garbage ELSE i
  BY <1>3, <1>4 DEF GuestFinds
<1> QED
  BY <1>1, <1>5

-----------------------------------------------------------------------------
(* The state *)

(* A result is a signature of at most one value. *)
LEMMA ResultType ==
    ASSUME NEW result \in Results
    PROVE  result \in Signatures
<1>1. MaxArguments \in Nat \ {0}
  BY RegistersAssumption
<1>2. CASE result = <<>>
  BY <1>1, <1>2 DEF Signatures
<1>3. CASE \E k \in Kinds : result = <<k>>
  <2>1. result \in [1..1 -> Kinds]
    BY <1>3
  <2> QED
    BY <1>1, <2>1 DEF Signatures
<1> QED
  BY <1>2, <1>3 DEF Results

Received(v) == v \in 0..MaxArguments \cup {Garbage}

(* A transfer of a signature is one of Transfers. *)
LEMMA TransferType ==
    ASSUME NEW args \in Signatures, NEW received,
           received = [i \in DOMAIN args |-> received[i]],
           \A i \in DOMAIN args : Received(received[i]),
           NEW to \in {"host", "guest"}, NEW what \in {"arguments", "result"}
    PROVE  [to |-> to, what |-> what, passed |-> args, received |-> received] \in Transfers
<1>1. PICK n \in 0..MaxArguments : args \in [1..n -> Kinds]
  BY DEF Signatures
<1>2. received \in [1..n -> 0..MaxArguments \cup {Garbage}]
  BY <1>1 DEF Received
<1> QED
  BY <1>2 DEF Transfers

(* A transfer arrives as ValuesArrive wants it. *)
Arrives(t) ==
    /\ t \in Transfers /\ DOMAIN t.received = DOMAIN t.passed
    /\ \A i \in DOMAIN t.passed :
          \/ /\ t.to = "host" /\ t.what = "arguments" /\ t.passed[i] = "precise"
             /\ PreciseBefore(t.passed, i) >= PreciseRegisters
          \/ t.to = "host" /\ t.what = "arguments" /\ t.passed[i] = "wide"
          \/ /\ t.passed[i] = "null"
             /\ <<t.to, t.what>> \in {<<"guest", "arguments">>, <<"host", "result">>}
          \/ t.received[i] = IF t.passed[i] = "null" THEN NULL ELSE i

LEMMA ArrivesImplies ==
    ASSUME Arrives(transfer)
    PROVE  ValuesArrive
BY DEF Arrives, ValuesArrive, Lost

(* The arguments of a hook arrive. *)
LEMMA HookArguments ==
    ASSUME NEW args \in Signatures
    PROVE  Arrives([to |-> "host", what |-> "arguments", passed |-> args,
                    received |-> [i \in DOMAIN args |-> GetValue(args, i)]])
<1> DEFINE r == [i \in DOMAIN args |-> GetValue(args, i)]
<1>1. \A i \in DOMAIN args : Received(r[i])
  BY HookReads DEF Received
<1>2. [to |-> "host", what |-> "arguments", passed |-> args, received |-> r] \in Transfers
  BY <1>1, TransferType
<1> QED
  BY <1>2, HookReads DEF Arrives

(* The arguments of a call into guest code arrive, null pointers apart. *)
LEMMA GuestArguments ==
    ASSUME NEW args \in Signatures, \A k \in DOMAIN args : HasRegister(args, k)
    PROVE  Arrives([to |-> "guest", what |-> "arguments", passed |-> args,
                    received |-> [i \in DOMAIN args |-> GuestFinds(args, i)]])
<1> DEFINE r == [i \in DOMAIN args |-> GuestFinds(args, i)]
<1>1. \A i \in DOMAIN args : Received(r[i])
  BY GuestReads DEF Received
<1>2. [to |-> "guest", what |-> "arguments", passed |-> args, received |-> r] \in Transfers
  BY <1>1, TransferType
<1> QED
  BY <1>2, GuestReads DEF Arrives

(* The result of a hook arrives. *)
LEMMA HookResult ==
    ASSUME NEW result \in Results
    PROVE  Arrives([to |-> "guest", what |-> "result", passed |-> result,
                    received |-> [i \in DOMAIN result |-> IF result[i] = "null" THEN NULL ELSE i]])
<1> DEFINE r == [i \in DOMAIN result |-> IF result[i] = "null" THEN NULL ELSE i]
<1>1. result \in Signatures /\ DOMAIN result \subseteq 1..MaxArguments
  BY ResultType, SignatureType
<1>2. \A i \in DOMAIN result : Received(r[i])
  BY <1>1, RegistersAssumption DEF Received, NULL
<1>3. [to |-> "guest", what |-> "result", passed |-> result, received |-> r] \in Transfers
  BY <1>1, <1>2, TransferType
<1> QED
  BY <1>3 DEF Arrives

(* The result of guest code arrives, a null pointer apart. *)
LEMMA GuestResult ==
    ASSUME NEW result \in Results
    PROVE  Arrives(ResultFor(result))
<1> DEFINE r == [i \in DOMAIN result |-> IF result[i] = "null" THEN Garbage ELSE i]
<1>1. result \in Signatures /\ DOMAIN result \subseteq 1..MaxArguments
  BY ResultType, SignatureType
<1>2. \A i \in DOMAIN result : Received(r[i])
  BY <1>1, RegistersAssumption DEF Received
<1>3. [to |-> "host", what |-> "result", passed |-> result, received |-> r] \in Transfers
  BY <1>1, <1>2, TransferType
<1> QED
  BY <1>3 DEF Arrives, ResultFor

(* At the start nothing has been passed. *)
LEMMA NothingArrives == Arrives(Nothing)
<1>1. <<>> \in Signatures
  BY RegistersAssumption DEF Signatures
<1>2. Nothing \in Transfers
  <2> DEFINE r == [i \in DOMAIN <<>> |-> 0]
  <2>1. DOMAIN <<>> = {} /\ r = <<>>
    OBVIOUS
  <2>2. \A i \in DOMAIN <<>> : Received(r[i])
    BY <2>1
  <2> QED
    BY <1>1, <2>1, <2>2, TransferType DEF Nothing
<1> QED
  BY <1>2 DEF Arrives, Nothing

-----------------------------------------------------------------------------
(* The steps *)

Inv == IndInv /\ Arrives(transfer)

LEMMA InitInv == Init => Inv
<1> SUFFICES ASSUME Init PROVE Inv
  OBVIOUS
<1>1. Arrives(transfer)
  BY NothingArrives DEF Init
<1>2. contexts \in Seq(Context) /\ Len(contexts) = 1 /\ 1 \in 1..MaxDepth
  BY DepthAssumption DEF Init, Context
<1>3. TypeOK
  BY <1>1, <1>2 DEF Init, TypeOK, Arrives
<1> QED
  BY <1>1, <1>3 DEF Inv, IndInv, Init, ContextIsInnermost, ModeFollows, CallersSaved, Top

(* A step that leaves the contexts as they are keeps the invariant when     *)
(* what it transfers arrives.                                               *)
LEMMA TransferOnly ==
    ASSUME Inv, UNCHANGED <<contexts, current, saved, mode>>,
           pc' \in {"guest", "host", "asserted"}, Arrives(transfer')
    PROVE  Inv'
BY DEF Inv, IndInv, TypeOK, Arrives, ContextIsInnermost, ModeFollows, CallersSaved, Top

(* Only the mode of one context changes. *)
LEMMA SetFpscr ==
    ASSUME NEW s \in Seq(Context), NEW n \in 1..Len(s), NEW m \in Modes,
           NEW t, t = [s EXCEPT ![n].fpscr = m]
    PROVE  /\ t \in Seq(Context) /\ Len(t) = Len(s)
           /\ t[n].fpscr = m
           /\ \A k \in 1..Len(s) : t[k].r13 = s[k].r13
<1> DEFINE c == [s[n] EXCEPT !.fpscr = m]
<1>1. s[n] \in Context
  OBVIOUS
<1>2. c \in Context /\ c.fpscr = m /\ c.r13 = s[n].r13
  BY <1>1 DEF Context
<1>3. t = [s EXCEPT ![n] = c]
  OBVIOUS
<1> HIDE DEF c
<1>4. t \in Seq(Context) /\ Len(t) = Len(s) /\ \A k \in 1..Len(s) : t[k] = IF k = n THEN c ELSE s[k]
  BY <1>2, <1>3, ExceptSeq
<1> QED
  BY <1>2, <1>4

LEMMA SetModeStep ==
    ASSUME Inv, NEW m \in Modes, SetMode(m)
    PROVE  Inv'
<1> USE DEF Inv, IndInv, SetMode
<1>0. contexts \in Seq(Context) /\ Top \in 1..Len(contexts)
  BY DEF TypeOK, Top
<1>1. contexts' \in Seq(Context) /\ Len(contexts') = Len(contexts)
  BY <1>0, SetFpscr
<1>2. \A k \in DOMAIN contexts' : contexts'[k].r13 = contexts[k].r13
  BY <1>0, <1>1, SetFpscr
<1>3. contexts'[Top].fpscr = m
  BY <1>0, SetFpscr
<1>4. TypeOK'
  BY <1>1 DEF TypeOK
<1> QED
  BY <1>1, <1>2, <1>3, <1>4 DEF ContextIsInnermost, ModeFollows, CallersSaved, Top, TypeOK, Arrives

LEMMA CallStep ==
    ASSUME Inv, NEW args \in Signatures, GuestToHostFunction(args)
    PROVE  Inv'
<1> USE DEF Inv, IndInv, GuestToHostFunction
<1>1. PICK newCtx \in NewContext : contexts' = Append(contexts, newCtx)
  OBVIOUS
<1>2. newCtx \in Context /\ newCtx.r13 = Self /\ newCtx.fpscr = mode
  BY DEF NewContext, TypeOK, Context, ContextIsInnermost, ModeFollows, Top
<1>3. /\ contexts' \in Seq(Context) /\ Len(contexts') = Top + 1
      /\ contexts'[Top + 1] = newCtx
      /\ \A k \in DOMAIN contexts : contexts'[k] = contexts[k]
  BY <1>1, <1>2 DEF TypeOK, Top
<1>4. Arrives(transfer')
  BY GuestArguments
<1>5. /\ saved' \in Seq(DOMAIN contexts') /\ Len(saved') = Top
      /\ \A k \in DOMAIN saved' : saved'[k] = k
  BY <1>3 DEF TypeOK, ContextIsInnermost, CallersSaved, Top
<1>6. TypeOK'
  BY <1>3, <1>4, <1>5, DepthAssumption DEF TypeOK, Arrives, Top
<1>7. ContextIsInnermost'
  BY <1>2, <1>3 DEF TypeOK, ContextIsInnermost, Top
<1>8. ModeFollows'
  BY <1>2, <1>3 DEF TypeOK, ModeFollows, Top
<1> QED
  BY <1>4, <1>5, <1>6, <1>7, <1>8 DEF CallersSaved

LEMMA ReturnStep ==
    ASSUME Inv, NEW result \in Results, GuestFunctionReturns(result)
    PROVE  Inv'
<1>1. /\ contexts \in Seq(Context) /\ Len(contexts) \in Nat
      /\ Len(contexts) > 1 /\ Len(contexts) <= MaxDepth /\ MaxDepth \in Nat
      /\ saved \in Seq(DOMAIN contexts) /\ Len(saved) = Len(contexts) - 1
      /\ \A k \in DOMAIN saved : saved[k] = k
      /\ saved[Len(contexts) - 1] = Len(contexts) - 1
      /\ \A k \in DOMAIN contexts : contexts[k].r13 = Self
      /\ contexts[Len(contexts)].fpscr = mode /\ mode \in Modes
  BY DepthAssumption
     DEF Inv, IndInv, TypeOK, ContextIsInnermost, ModeFollows, CallersSaved, Top, GuestFunctionReturns
<1> DEFINE n == Len(contexts) - 1
           rest == SubSeq(contexts, 1, n)
<1>2. n \in Nat \ {0} /\ n < Len(contexts)
  BY <1>1
<1>3. /\ rest \in Seq(Context) /\ Len(rest) = n
      /\ \A k \in 1..n : rest[k] = contexts[k]
  BY <1>1, <1>2
<1>4. /\ contexts' = [rest EXCEPT ![n].fpscr = mode]
      /\ current' = n
      /\ saved' = SubSeq(saved, 1, n - 1)
      /\ pc' = "host" /\ mode' = mode /\ transfer' = ResultFor(result)
  BY <1>1 DEF GuestFunctionReturns, Top
<1> HIDE DEF rest
<1>5. /\ contexts' \in Seq(Context) /\ Len(contexts') = n
      /\ contexts'[n].fpscr = mode
      /\ \A k \in 1..n : contexts'[k].r13 = Self
  <2>1. n \in 1..Len(rest)
    BY <1>2, <1>3
  <2>2. /\ contexts' \in Seq(Context) /\ Len(contexts') = Len(rest)
        /\ contexts'[n].fpscr = mode
        /\ \A k \in 1..Len(rest) : contexts'[k].r13 = rest[k].r13
    <3>1. rest \in Seq(Context) /\ mode \in Modes /\ contexts' = [rest EXCEPT ![n].fpscr = mode]
      BY <1>1, <1>3, <1>4
    <3> HIDE DEF n
    <3> QED
      BY <2>1, <3>1, SetFpscr
  <2>3. DOMAIN contexts = 1..Len(contexts)
    BY <1>1
  <2>4. \A k \in 1..n : k \in DOMAIN contexts
    BY <1>2, <2>3
  <2>5. \A k \in 1..n : rest[k].r13 = Self
    BY <1>1, <1>3, <2>4
  <2> HIDE DEF n
  <2> QED
    BY <1>3, <2>2, <2>5
<1>6. Arrives(transfer')
  BY <1>4, GuestResult
<1>7. /\ saved' \in Seq(1..n) /\ Len(saved') = n - 1
      /\ \A k \in 1..(n - 1) : saved'[k] = k
  BY SMTT(40), <1>1, <1>2, <1>4
<1> HIDE DEF n
<1>8. DOMAIN contexts' = 1..n /\ DOMAIN saved' = 1..(n - 1)
  BY <1>2, <1>5, <1>7
<1>9. TypeOK'
  BY <1>1, <1>2, <1>4, <1>5, <1>6, <1>7, <1>8 DEF TypeOK, Arrives, n
<1>10. ContextIsInnermost' /\ ModeFollows'
  BY <1>4, <1>5, <1>8 DEF ContextIsInnermost, ModeFollows, Top
<1>11. CallersSaved'
  BY <1>7, <1>8 DEF CallersSaved
<1> QED
  BY <1>6, <1>9, <1>10, <1>11 DEF Inv, IndInv

LEMMA NextInv == Inv /\ [Next]_vars => Inv'
<1> SUFFICES ASSUME Inv, [Next]_vars PROVE Inv'
  OBVIOUS
<1>1. ASSUME NEW m \in Modes, SetMode(m) PROVE Inv'
  BY <1>1, SetModeStep
<1>2. ASSUME NEW args \in Signatures, HostToGuestFunction(args) PROVE Inv'
  <2>1. Arrives(transfer')
    BY <1>2, HookArguments DEF HostToGuestFunction
  <2> QED
    BY <1>2, <2>1, TransferOnly DEF HostToGuestFunction
<1>3. ASSUME NEW args \in Signatures, GuestToHostFunction(args) PROVE Inv'
  BY <1>3, CallStep
<1>4. ASSUME NEW args \in Signatures, ArgumentAsserts(args) PROVE Inv'
  BY <1>4, TransferOnly DEF ArgumentAsserts, Inv
<1>5. ASSUME NEW result \in Results, HostFunctionReturns(result) PROVE Inv'
  <2>1. Arrives(transfer')
    BY <1>5, HookResult DEF HostFunctionReturns
  <2> QED
    BY <1>5, <2>1, TransferOnly DEF HostFunctionReturns
<1>6. ASSUME NEW result \in Results, GuestFunctionReturns(result) PROVE Inv'
  BY <1>6, ReturnStep
<1>7. CASE UNCHANGED vars
  BY <1>7, TransferOnly DEF vars, Inv, IndInv, TypeOK
<1> QED
  BY <1>1, <1>2, <1>3, <1>4, <1>5, <1>6, <1>7 DEF Next, Asserted

-----------------------------------------------------------------------------
(* The theorems *)

LEMMA Always == Spec => []Inv
BY InitInv, NextInv, PTL DEF Spec

(* However calls between guest and host nest, the current context is the   *)
(* innermost one, it has the thread's identity and the mode set last, and  *)
(* every caller's context is the one that is gone back to                  *)
(* (function.h:316-334).                                                   *)
THEOREM Invariant == Spec => []IndInv
<1>1. Inv => IndInv
  BY DEF Inv
<1> QED
  BY <1>1, Always, PTL

(* For every signature and any number of registers, arguments and results  *)
(* arrive as they were passed, but for what Lost names                     *)
(* (function.h:198-242).                                                   *)
THEOREM EverythingArrives == Spec => []ValuesArrive
<1>1. Inv => ValuesArrive
  BY ArrivesImplies DEF Inv
<1> QED
  BY <1>1, Always, PTL
==============================================================================
