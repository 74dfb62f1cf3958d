------------------------------- MODULE HeapProofs -------------------------------
(***************************************************************************)
(* Proofs about the guest heap (heap.cpp), for every size of the arenas,   *)
(* every request, and any number of threads and blocks.                    *)
(*                                                                         *)
(* The invariant gives each fragment in use to one claimant: a block whose *)
(* data are there (Holds) or a call that is building one (Built).  A step  *)
(* either makes no claim and writes nothing (QuietActions), or writes      *)
(* inside the fragment its call is building (HeaderStep, CopyStep,         *)
(* FillStep), or takes or gives back a fragment that nobody else claims    *)
(* (CommitStep, FreeStep); ClaimsUntouched says that all other claims then *)
(* stand.                                                                  *)
(***************************************************************************)
EXTENDS Heap, TLAPS

(* The two arenas in arithmetic. *)
LEMMA ArenaBounds ==
    /\ VirtualBegin \in Nat /\ VirtualEnd \in Nat /\ PhysicalBegin \in Nat /\ PhysicalEnd \in Nat
    /\ 0 < VirtualBegin /\ VirtualBegin <= VirtualEnd
    /\ VirtualEnd < PhysicalBegin /\ PhysicalBegin <= PhysicalEnd
    /\ \A arena \in Arenas : Begin(arena) \in Nat /\ End(arena) \in Nat /\ Begin(arena) % 4 = 0
    /\ \A w \in Words : w \in Nat /\ w > 0
BY ArenaAssumption DEF Arenas, Begin, End, Words, O1HEAP_ALIGNMENT

LEMMA FragmentFields ==
    ASSUME NEW f \in Fragments
    PROVE  /\ f.start \in Nat /\ f.start > 0 /\ f.size \in Nat /\ f.size >= 8 /\ f.size % 4 = 0
           /\ f = [start |-> f.start, size |-> f.size]
           /\ PayloadOf(f) = f.start + 4
<1>1. f.start \in Words /\ f.size \in FragmentSizes
  BY DEF Fragments
<1>2. f.start \in Nat /\ f.start > 0
  BY <1>1, ArenaBounds
<1>3. f.size \in Nat /\ f.size >= 8 /\ f.size % 4 = 0
  BY <1>1, FragmentAssumption DEF O1HEAP_ALIGNMENT
<1>4. f = [start |-> f.start, size |-> f.size]
  BY DEF Fragments
<1>. QED
  BY <1>2, <1>3, <1>4 DEF PayloadOf, O1HEAP_ALIGNMENT

(* A fragment of an arena is made of that arena's words. *)
LEMMA PlacedFragment ==
    ASSUME NEW f \in Fragments, NEW arena \in Arenas, Placed(f, arena)
    PROVE  \A a \in Int : f.start <= a /\ a < f.start + f.size =>
                a \in Words /\ a \in Extent(f) /\ ArenaOf(a) = arena
BY ArenaBounds, FragmentFields
   DEF Placed, Arenas, Begin, End, Words, Extent, ArenaOf

(* Fragments share no word exactly when they lie apart. *)
LEMMA ApartIsDisjoint ==
    ASSUME NEW f \in Fragments, NEW g \in Fragments
    PROVE  Apart(f, g) <=> Extent(f) \cap Extent(g) = {}
<1>1. Apart(f, g) => Extent(f) \cap Extent(g) = {}
  BY FragmentFields DEF Apart, Extent
<1>2. ASSUME ~Apart(f, g) PROVE Extent(f) \cap Extent(g) # {}
  <2>1. CASE f.start <= g.start
    <3>1. g.start \in Extent(f) /\ g.start \in Extent(g)
      BY <1>2, <2>1, FragmentFields DEF Apart, Extent
    <3>. QED
      BY <3>1
  <2>2. CASE g.start <= f.start
    <3>1. f.start \in Extent(f) /\ f.start \in Extent(g)
      BY <1>2, <2>2, FragmentFields DEF Apart, Extent
    <3>. QED
      BY <3>1
  <2>. QED
    BY <2>1, <2>2, FragmentFields
<1>. QED
  BY <1>1, <1>2

-----------------------------------------------------------------------------
(* A block's home *)

(* Everything of the fragment in which a pointer's block lies. *)
LEMMA HomeBounds ==
    ASSUME TypeOK, FragmentsPlaced, NEW f \in used, NEW p \in Nat, NEW n \in Nat, Home(p, n, f)
    PROVE  /\ f \in Fragments
           /\ f.start + 4 <= p /\ p + n <= f.start + f.size
           /\ Size(p) \in Nat /\ n <= Size(p) /\ p + Size(p) <= f.start + f.size
           /\ p < f.start + f.size
           /\ p \in Words /\ p \in Extent(f)
<1>1. f \in Fragments
  BY DEF TypeOK
<1>2. PICK arena \in Arenas : Placed(f, arena)
  BY DEF FragmentsPlaced
<1>3. /\ f.start + 4 <= p /\ Size(p) \in Nat /\ 1 <= Size(p) /\ n <= Size(p)
      /\ p + Size(p) <= f.start + f.size
  BY <1>1, FragmentFields DEF Home, Within
<1>. HIDE DEF Size
<1>4. p + n <= f.start + f.size /\ p < f.start + f.size
  BY <1>1, <1>3, FragmentFields
<1>5. p \in Words /\ p \in Extent(f)
  BY <1>1, <1>2, <1>3, <1>4, PlacedFragment, FragmentFields
<1>. QED
  BY <1>1, <1>3, <1>4, <1>5

(* A step that keeps the fragment, its size word and the words before the  *)
(* block keeps the block's home.                                           *)
LEMMA HomeKept ==
    ASSUME TypeOK, FragmentsPlaced, NEW f \in used, NEW p \in Nat, NEW n \in Nat, Home(p, n, f),
           f \in used', mem'[p - 1] = mem[p - 1], mem'[p - 2] = mem[p - 2]
    PROVE  Home(p, n, f)' /\ Original(p)' = Original(p) /\ Size(p)' = Size(p)
BY DEF Home, Original, Size, PayloadOf

(* Rounding up an even address to an even alignment leaves room for the    *)
(* two header words, and takes no more room than was asked for.            *)
LEMMA AlignPastBounds ==
    ASSUME NEW p \in Nat, NEW a \in Nat, a >= 2, a % 2 = 0, p % 4 = 0
    PROVE  AlignPast(p, a) \in Nat /\ p + 2 <= AlignPast(p, a) /\ AlignPast(p, a) <= p + a
<1>. DEFINE q == (p + a) \div a
            r == (p + a) % a
<1>1. q \in Nat /\ r \in 0..(a - 1) /\ p + a = a * q + r
  BY SMT
<1>2. PICK k \in Nat : a = 2 * k
  <2>1. a \div 2 \in Nat /\ a = 2 * (a \div 2)
    BY SMT
  <2>. QED
    BY <2>1
<1>3. k * q \in Nat
  BY <1>1
<1>4. a * q = 2 * (k * q)
  BY <1>1, <1>2, SMT
<1>. DEFINE m == k * q
<1>5. m \in Nat /\ p + a = 2 * m + r
  BY <1>1, <1>3, <1>4
<1>. HIDE DEF q, r, m
<1>6. r % 2 = 0
  BY <1>1, <1>5, SMT
<1>7. AlignPast(p, a) = p + a - r
  BY DEF AlignPast, r
<1>. QED
  BY <1>1, <1>6, <1>7, SMT

(* Where AllocPhysical puts the aligned block and its header.              *)
LEMMA BlockHeaderPlace ==
    ASSUME TypeOK, NEW t \in Threads, CallSound(t), BuildingsSound, pc[t] = "header"
    PROVE  LET f == call[t].fragment
               aligned == AlignPast(call[t].result, call[t].alignment)
           IN /\ Built(t) /\ f \in used /\ f \in Fragments /\ Placed(f, "physical")
              /\ call[t].result = PayloadOf(f) /\ call[t].result = f.start + 4
              /\ call[t].size \in Nat /\ AtLeastOne(call[t].size) \in Nat \ {0}
              /\ call[t].size <= AtLeastOne(call[t].size)
              /\ aligned \in Nat /\ f.start + 6 <= aligned
              /\ aligned + AtLeastOne(call[t].size) <= f.start + f.size
              /\ aligned \in Words /\ aligned - 1 \in Words /\ aligned - 2 \in Words
              /\ ArenaOf(aligned) = "physical"
<1>. DEFINE f == call[t].fragment
            p == call[t].result
            a == call[t].alignment
            n == call[t].size
<1>1. Built(t)
  BY DEF CallSound, Built
<1>2. /\ f \in used /\ Placed(f, "physical") /\ p = PayloadOf(f)
      /\ f.size >= Amount(t) + O1HEAP_ALIGNMENT
  BY <1>1 DEF BuildingsSound
<1>3. f \in Fragments
  BY <1>2 DEF TypeOK
<1>4. p = f.start + 4 /\ f.start \in Nat /\ f.size \in Nat
  BY <1>2, <1>3, FragmentFields
<1>5. a \in Nat /\ a >= 2 /\ a % 2 = 0 /\ n \in Nat
  BY RequestAssumption DEF CallSound, Allocating, TypeOK, CallRecords
<1>6. f.start % 4 = 0
  BY <1>2 DEF Placed, O1HEAP_ALIGNMENT
<1>7. p \in Nat /\ p % 4 = 0
  BY <1>4, <1>6
<1>8. AlignPast(p, a) \in Nat /\ p + 2 <= AlignPast(p, a) /\ AlignPast(p, a) <= p + a
  BY <1>5, <1>7, AlignPastBounds
<1>9. AtLeastOne(n) \in Nat \ {0} /\ n <= AtLeastOne(n)
  BY <1>5 DEF AtLeastOne, Bigger
<1>10. f.size >= AtLeastOne(n) + a + 4
  BY <1>2 DEF Amount, O1HEAP_ALIGNMENT
<1>. DEFINE aligned == AlignPast(p, a)
<1>. HIDE DEF f, p, a, n
<1>11. /\ aligned \in Nat /\ f.start + 6 <= aligned
       /\ aligned + AtLeastOne(n) <= f.start + f.size
  BY <1>4, <1>5, <1>8, <1>9, <1>10
<1>12. /\ aligned \in Words /\ aligned - 1 \in Words /\ aligned - 2 \in Words
       /\ ArenaOf(aligned) = "physical"
  <2>1. /\ f.start <= aligned /\ aligned < f.start + f.size
        /\ f.start <= aligned - 1 /\ aligned - 1 < f.start + f.size
        /\ f.start <= aligned - 2 /\ aligned - 2 < f.start + f.size
    BY <1>4, <1>9, <1>11
  <2>. QED
    BY <1>2, <1>3, <1>11, <2>1, PlacedFragment DEF Arenas
<1>. QED
  BY <1>1, <1>2, <1>3, <1>4, <1>5, <1>9, <1>11, <1>12 DEF f, p, a, n

-----------------------------------------------------------------------------
(* The choice of a fragment *)

LEMMA AmountBound ==
    ASSUME TypeOK, NEW t \in Threads
    PROVE  Amount(t) \in Nat /\ call[t].size \in Nat
<1>1. call[t].size \in Nat /\ call[t].alignment \in Nat
  <2>1. call[t].size \in Sizes \cup {0} /\ call[t].alignment \in Nat
    BY DEF TypeOK, CallRecords
  <2>2. Sizes \cup {0} \subseteq Nat
    BY RequestAssumption
  <2>. QED
    BY <2>1, <2>2
<1>2. AtLeastOne(call[t].size) \in Nat
  BY <1>1 DEF AtLeastOne, Bigger
<1>. QED
  BY <1>1, <1>2 DEF Amount

(* What o1heapAllocate picks is a well placed fragment apart from all the  *)
(* fragments in use, of either arena.                                      *)
LEMMA CandidateSound ==
    ASSUME TypeOK, FragmentsPlaced, NEW t \in Threads,
           NEW f \in Candidates(call[t].arena, Amount(t))
    PROVE  /\ f \in Fragments /\ Placed(f, call[t].arena)
           /\ f.size >= Amount(t) + O1HEAP_ALIGNMENT
           /\ \A g \in used : Apart(f, g)
<1>. DEFINE arena == call[t].arena
<1>1. arena \in Arenas
  BY DEF TypeOK, CallRecords
<1>2. /\ f.start \in {Begin(arena)} \cup {g.start + g.size : g \in used}
      /\ f.size \in FragmentSizes /\ f = [start |-> f.start, size |-> f.size]
      /\ f.start \in Begin(arena)..(End(arena) - f.size)
      /\ f.size >= Amount(t) + O1HEAP_ALIGNMENT
      /\ \A g \in used : Extent(g) \cap Extent(f) = {}
  BY DEF Candidates
<1>3. f.size \in Nat /\ f.size >= 8
  BY <1>2, FragmentAssumption
<1>4. Begin(arena) \in Nat /\ End(arena) \in Nat /\ Begin(arena) % 4 = 0
  BY <1>1, ArenaBounds
<1>5. f.start \in Nat /\ Begin(arena) <= f.start /\ f.start + f.size <= End(arena)
  BY <1>2, <1>3, <1>4
<1>6. f.start \in Words
  BY <1>1, <1>3, <1>5, ArenaBounds DEF Words, Arenas, Begin, End
<1>7. f \in Fragments
  BY <1>2, <1>6 DEF Fragments
<1>8. f.start % 4 = 0
  <2>1. CASE f.start = Begin(arena)
    BY <1>4, <2>1
  <2>2. ASSUME NEW g \in used, f.start = g.start + g.size PROVE f.start % 4 = 0
    <3>1. g \in Fragments /\ g.start % 4 = 0
      BY DEF TypeOK, FragmentsPlaced, Placed, O1HEAP_ALIGNMENT
    <3>. QED
      BY <2>2, <3>1, FragmentFields
  <2>. QED
    BY <1>2, <2>1, <2>2
<1>9. \A g \in used : Apart(f, g)
  <2>. SUFFICES ASSUME NEW g \in used PROVE Apart(f, g)
    OBVIOUS
  <2>1. g \in Fragments /\ Extent(f) \cap Extent(g) = {}
    BY <1>2 DEF TypeOK
  <2>. QED
    BY <1>7, <2>1, ApartIsDisjoint
<1>. QED
  BY <1>2, <1>5, <1>7, <1>8, <1>9 DEF Placed, O1HEAP_ALIGNMENT

-----------------------------------------------------------------------------
(* Control: types, arguments, locks *)

LEMMA TypeStep ==
    ASSUME IndInv, Next
    PROVE  TypeOK'
<1>. USE DEF Goto, guest, TypeOK, CallRecords, Locations
<1>. SUFFICES ASSUME NEW t \in Threads, Step(t) \/ GuestCall(t) PROVE TypeOK'
  BY DEF IndInv, Next, Dead, vars
<1>a. CallSound(t)
  BY DEF IndInv
<1>1. ASSUME NEW b \in Blocks, NEW arena \in Arenas, NEW n \in Sizes, NEW a \in Alignments \cup {0},
             AllocCall(t, b, arena, n, a)
      PROVE  TypeOK'
  <2>1. EffectiveAlignment(a) \in Nat
    BY RequestAssumption DEF EffectiveAlignment, Bigger, MinAlignment
  <2>. QED
    BY <1>1, <2>1 DEF IndInv, AllocCall, NoCall, Arenas
<1>2. ASSUME NEW b \in Blocks, NEW n \in Sizes, ReAllocCall(t, b, n)
      PROVE  TypeOK'
  BY ZenonT(40), <1>2 DEF IndInv, ReAllocCall, NoCall, Arenas
<1>3. ASSUME NEW b \in Blocks, FreeCall(t, b)
      PROVE  TypeOK'
  BY <1>3 DEF IndInv, FreeCall, NoCall, Arenas
<1>4. CASE LockArena(t)
  BY <1>4 DEF IndInv, LockArena, Acquire
<1>5. CASE ChooseFragment(t)
  <2>1. PICK f \in Candidates(call[t].arena, Amount(t)) : call' = [call EXCEPT ![t].fragment = f]
    BY <1>5 DEF ChooseFragment
  <2>2. f \in Fragments
    BY CandidateSound DEF IndInv
  <2>. QED
    BY SMTT(30), <1>5, <2>1, <2>2 DEF IndInv, ChooseFragment
<1>6. CASE OutOfMemory(t)
  BY <1>6 DEF IndInv, OutOfMemory
<1>7. CASE CommitFragment(t)
  <2>. DEFINE f == call[t].fragment
  <2>1. f \in Fragments /\ Placed(f, call[t].arena)
    BY <1>7 DEF IndInv, CommitFragment, ChoiceStands
  <2>2. PayloadOf(f) \in Words
    BY <2>1, FragmentFields, PlacedFragment DEF IndInv
  <2>3. /\ used' = used \cup {f} /\ DOMAIN mem' = Words
        /\ call' = [call EXCEPT ![t].result = PayloadOf(f)]
        /\ \E l \in Locations : pc' = [pc EXCEPT ![t] = l]
        /\ UNCHANGED <<owner, ptr, size, halted>>
    BY <1>7 DEF CommitFragment, HeaderWritten
  <2>4. TypeOK
    BY DEF IndInv
  <2>. QED
    BY <2>1, <2>2, <2>3, <2>4
<1>8. CASE WriteBlockHeader(t)
  <2>1. AlignPast(call[t].result, call[t].alignment) \in Words
    BY <1>8, <1>a, BlockHeaderPlace DEF IndInv, WriteBlockHeader
  <2>. QED
    BY SMTT(30), <1>8, <2>1 DEF IndInv, WriteBlockHeader
<1>9. CASE UnlockArena(t)
  BY <1>9 DEF IndInv, UnlockArena, Release
<1>10. CASE CopyBlock(t)
  BY <1>10 DEF IndInv, CopyBlock
<1>11. CASE LockForFree(t)
  BY <1>11 DEF IndInv, LockForFree, Acquire
<1>12. CASE FreeFragment(t)
  BY <1>12 DEF IndInv, FreeFragment
<1>13. CASE UnlockAfterFree(t)
  BY <1>13 DEF IndInv, UnlockAfterFree, Release, NoCall, Arenas
<1>14. CASE FillBlock(t)
  <2>1. call[t].result \in Words /\ call[t].block \in Blocks
    BY <1>14, <1>a DEF IndInv, FillBlock, CallSound
  <2>. QED
    BY <1>14, <2>1 DEF IndInv, FillBlock, NoCall, Arenas
<1>. QED
  BY <1>1, <1>2, <1>3, <1>4, <1>5, <1>6, <1>7, <1>8, <1>9, <1>10, <1>11, <1>12, <1>13, <1>14
     DEF Step, GuestCall, Arenas

(* One call's step keeps what the places of all calls say of them, and no  *)
(* two calls come to work on one block.                                    *)
LEMMA CallStep ==
    ASSUME IndInv, Next
    PROVE  (\A s \in Threads : CallSound(s)') /\ OneCallPerBlock'
<1>. USE DEF Goto, guest, TypeOK, CallRecords, CallSound, OneCallPerBlock, Allocating, Releasing
<1>. SUFFICES ASSUME NEW t \in Threads, Step(t) \/ GuestCall(t)
              PROVE  (\A s \in Threads : CallSound(s)') /\ OneCallPerBlock'
  BY DEF IndInv, Next, Dead, vars
<1>0. TypeOK /\ (\A s \in Threads : CallSound(s)) /\ OneCallPerBlock
  BY DEF IndInv
<1>1. ASSUME NEW b \in Blocks, NEW arena \in Arenas, NEW n \in Sizes, NEW a \in Alignments \cup {0},
             AllocCall(t, b, arena, n, a)
      PROVE  (\A s \in Threads : CallSound(s)') /\ OneCallPerBlock'
  <2>1. EffectiveAlignment(a) \in Nat /\ EffectiveAlignment(a) >= 2 /\ EffectiveAlignment(a) % 2 = 0
    BY RequestAssumption DEF EffectiveAlignment, Bigger, MinAlignment
  <2>. QED
    BY <1>0, <1>1, <2>1 DEF AllocCall, NoCall, Unshared
<1>2. ASSUME NEW b \in Blocks, NEW n \in Sizes, ReAllocCall(t, b, n)
      PROVE  (\A s \in Threads : CallSound(s)') /\ OneCallPerBlock'
  BY <1>0, <1>2 DEF ReAllocCall, NoCall, Unshared
<1>3. ASSUME NEW b \in Blocks, FreeCall(t, b)
      PROVE  (\A s \in Threads : CallSound(s)') /\ OneCallPerBlock'
  BY <1>0, <1>3 DEF FreeCall, NoCall, Unshared
<1>4. CASE LockArena(t)
  BY <1>0, <1>4 DEF LockArena
<1>5. CASE ChooseFragment(t)
  BY <1>0, <1>5 DEF ChooseFragment
<1>6. CASE OutOfMemory(t)
  BY <1>0, <1>6 DEF OutOfMemory
<1>7. CASE CommitFragment(t)
  <2>. DEFINE f == call[t].fragment
  <2>1. f \in Fragments
    BY <1>7 DEF IndInv, CommitFragment, ChoiceStands
  <2>2. PayloadOf(f) # NULL
    BY <2>1, FragmentFields DEF NULL
  <2>. QED
    BY <1>0, <1>7, <2>2 DEF CommitFragment, Arenas
<1>8. CASE WriteBlockHeader(t)
  <2>1. AlignPast(call[t].result, call[t].alignment) \in Words
    BY <1>8, <1>0, BlockHeaderPlace DEF IndInv, WriteBlockHeader
  <2>2. AlignPast(call[t].result, call[t].alignment) # NULL
    BY <2>1, ArenaBounds DEF NULL
  <2>. QED
    BY <1>0, <1>8, <2>2 DEF WriteBlockHeader
<1>9. CASE UnlockArena(t)
  BY <1>0, <1>9 DEF UnlockArena
<1>10. CASE CopyBlock(t)
  BY <1>0, <1>10 DEF CopyBlock
<1>11. CASE LockForFree(t)
  BY <1>0, <1>11 DEF LockForFree
<1>12. CASE FreeFragment(t)
  BY <1>0, <1>12 DEF FreeFragment
<1>13. CASE UnlockAfterFree(t)
  BY <1>0, <1>13 DEF UnlockAfterFree, NoCall
<1>14. CASE FillBlock(t)
  BY <1>0, <1>14 DEF FillBlock, NoCall
<1>. QED
  BY <1>1, <1>2, <1>3, <1>4, <1>5, <1>6, <1>7, <1>8, <1>9, <1>10, <1>11, <1>12, <1>13, <1>14
     DEF Step, GuestCall, Arenas

(* A call keeps an arena's mutex while it works on the arena. *)
LEMMA LockStep ==
    ASSUME IndInv, Next
    PROVE  LocksHeld'
<1>. USE DEF Goto, guest, TypeOK, CallRecords, LocksHeld
<1>. SUFFICES ASSUME NEW t \in Threads, Step(t) \/ GuestCall(t) PROVE LocksHeld'
  BY DEF IndInv, Next, Dead, vars
<1>0. TypeOK /\ LocksHeld
  BY DEF IndInv
<1>. USE ThreadAssumption
<1>a. \A p : ArenaOf(p) \in Arenas
  BY DEF ArenaOf, Arenas
<1>1. ASSUME NEW b \in Blocks, NEW arena \in Arenas, NEW n \in Sizes, NEW a \in Alignments \cup {0},
             AllocCall(t, b, arena, n, a)
      PROVE  LocksHeld'
  BY <1>0, <1>1 DEF AllocCall
<1>2. ASSUME NEW b \in Blocks, NEW n \in Sizes, ReAllocCall(t, b, n)
      PROVE  LocksHeld'
  BY <1>0, <1>2 DEF ReAllocCall
<1>3. ASSUME NEW b \in Blocks, FreeCall(t, b)
      PROVE  LocksHeld'
  BY <1>0, <1>3 DEF FreeCall
<1>4. CASE LockArena(t)
  BY <1>0, <1>4 DEF LockArena, Acquire
<1>5. CASE ChooseFragment(t)
  BY <1>0, <1>5 DEF ChooseFragment
<1>6. CASE OutOfMemory(t)
  BY <1>0, <1>6 DEF OutOfMemory
<1>7. CASE CommitFragment(t)
  BY <1>0, <1>7 DEF CommitFragment
<1>8. CASE WriteBlockHeader(t)
  BY <1>0, <1>8 DEF WriteBlockHeader
<1>9. CASE UnlockArena(t)
  BY <1>0, <1>9 DEF UnlockArena, Release
<1>10. CASE CopyBlock(t)
  BY <1>0, <1>10 DEF CopyBlock
<1>11. CASE LockForFree(t)
  BY <1>0, <1>a, <1>11 DEF LockForFree, Acquire
<1>12. CASE FreeFragment(t)
  BY <1>0, <1>12 DEF FreeFragment
<1>13. CASE UnlockAfterFree(t)
  BY <1>0, <1>a, <1>13 DEF UnlockAfterFree, Release
<1>14. CASE FillBlock(t)
  BY <1>0, <1>14 DEF FillBlock
<1>. QED
  BY <1>1, <1>2, <1>3, <1>4, <1>5, <1>6, <1>7, <1>8, <1>9, <1>10, <1>11, <1>12, <1>13, <1>14
     DEF Step, GuestCall, Arenas

-----------------------------------------------------------------------------
(* Between the choice of a fragment and its use *)

LEMMA ArenasApart ==
    ASSUME NEW f \in Fragments, NEW g \in Fragments, NEW r \in Arenas, NEW s \in Arenas,
           Placed(f, r), Placed(g, s), r # s
    PROVE  Apart(f, g)
BY FragmentFields, ArenaBounds DEF Placed, Apart, Arenas, Begin, End

LEMMA ChoiceStep ==
    ASSUME IndInv, Next
    PROVE  ChoiceStands'
<1>. USE DEF Goto, guest
<1>. SUFFICES ASSUME NEW t \in Threads, Step(t) \/ GuestCall(t),
                     NEW s \in Threads, pc'[s] = "commit"
              PROVE  LET f == call'[s].fragment IN
                        /\ f \in Fragments /\ Placed(f, call'[s].arena)
                        /\ f.size >= Amount(s)' + O1HEAP_ALIGNMENT
                        /\ \A g \in used' : Apart(f, g)
  BY DEF IndInv, Next, Dead, vars, ChoiceStands, Amount
<1>0. TypeOK /\ TypeOK' /\ FragmentsPlaced /\ ChoiceStands /\ LocksHeld
  BY TypeStep DEF IndInv
<1>1. CASE ChooseFragment(t) /\ s = t
  <2>1. PICK f \in Candidates(call[t].arena, Amount(t)) : call' = [call EXCEPT ![t].fragment = f]
    BY <1>1 DEF ChooseFragment
  <2>2. /\ f \in Fragments /\ Placed(f, call[t].arena)
        /\ f.size >= Amount(t) + O1HEAP_ALIGNMENT
        /\ \A g \in used : Apart(f, g)
    BY <1>0, CandidateSound
  <2>3. call'[t].fragment = f /\ call'[t].arena = call[t].arena /\ Amount(t)' = Amount(t) /\ used' = used
    BY <1>0, <1>1, <2>1 DEF TypeOK, CallRecords, Amount, ChooseFragment
  <2>. QED
    BY <1>1, <2>2, <2>3
<1>2. CASE ~(ChooseFragment(t) /\ s = t)
  <2>1. pc[s] = "commit" /\ call'[s] = call[s]
    <3>1. CASE Step(t)
      BY <1>0, <1>2, <3>1
         DEF Step, LockArena, ChooseFragment, OutOfMemory, CommitFragment, WriteBlockHeader,
             UnlockArena, CopyBlock, LockForFree, FreeFragment, UnlockAfterFree, FillBlock, TypeOK
    <3>2. CASE GuestCall(t)
      BY <1>0, <3>2 DEF GuestCall, AllocCall, ReAllocCall, FreeCall, TypeOK
    <3>. QED
      BY <3>1, <3>2
  <2>. DEFINE f == call[s].fragment
  <2>2. /\ f \in Fragments /\ Placed(f, call[s].arena)
        /\ f.size >= Amount(s) + O1HEAP_ALIGNMENT
        /\ \A g \in used : Apart(f, g)
    BY <1>0, <2>1 DEF ChoiceStands
  <2>3. Amount(s)' = Amount(s)
    BY <2>1 DEF Amount
  <2>4. ASSUME NEW g \in used', g \notin used PROVE Apart(f, g)
    <3>1. CommitFragment(t) /\ g = call[t].fragment
      BY <1>0, <2>4 DEF Step, GuestCall, LockArena, ChooseFragment, OutOfMemory, CommitFragment,
           WriteBlockHeader, UnlockArena, CopyBlock, LockForFree, FreeFragment, UnlockAfterFree,
           FillBlock, AllocCall, ReAllocCall, FreeCall
    <3>2. pc[t] = "commit" /\ g \in Fragments /\ Placed(g, call[t].arena)
      BY <1>0, <3>1 DEF CommitFragment, ChoiceStands
    <3>3. s # t
      BY <2>1, <3>1, <1>0 DEF CommitFragment, TypeOK
    <3>4. call[s].arena # call[t].arena
      BY <1>0, <2>1, <3>2, <3>3 DEF LocksHeld
    <3>. QED
      BY <1>0, <2>2, <3>2, <3>4, ArenasApart DEF TypeOK, CallRecords
  <2>. QED
    BY <2>1, <2>2, <2>3, <2>4
<1>. QED
  BY <1>1, <1>2

-----------------------------------------------------------------------------
(* Steps that touch neither memory nor o1heap's fragments *)

(* The data of the old block have been copied into the new one. *)
Copied(t) ==
    /\ pc[t] \in {"lockFree", "free", "unlockFree", "fill"}
    /\ call[t].old # NULL /\ call[t].result # NULL

MemorySound ==
    FragmentsPlaced /\ HoldingsSound /\ BuildingsSound /\ FragmentsOwned /\ ReAllocKeepsData

(* If such a step neither makes nor ends a claim on a fragment, everything *)
(* said of the memory still holds.                                         *)
LEMMA QuietStep ==
    ASSUME TypeOK, MemorySound, UNCHANGED <<mem, used>>,
           \A b \in Blocks : \A p \in Words : Holds(b, p)' <=> Holds(b, p),
           \A b \in Blocks : \A p \in Words : Holds(b, p) => size'[b] = size[b],
           \A t \in Threads : Built(t)' <=> Built(t),
           \A t \in Threads : Built(t) => call'[t] = call[t] /\ (pc'[t] = "header" <=> pc[t] = "header"),
           \A t \in Threads : Copied(t)' =>
               Copied(t) /\ call'[t] = call[t] /\ size'[call[t].block] = size[call[t].block]
    PROVE  MemorySound'
<1>1. \A p, n, f : Home(p, n, f)' <=> Home(p, n, f)
  BY DEF Home, Original, Size
<1>2. \A p : Original(p)' = Original(p)
  BY DEF Original
<1>3. FragmentsPlaced'
  BY DEF MemorySound, FragmentsPlaced
<1>4. HoldingsSound'
  <2>. SUFFICES ASSUME NEW b \in Blocks, NEW p \in Words, Holds(b, p)'
                PROVE  /\ \E f \in used' : Home(p, size[b], f)'
                       /\ \A a \in p..(p + size'[b] - 1) : mem'[a] = b
                       /\ \A c \in Blocks \ {b} : \A q \in Words :
                             Holds(c, q)' => Original(q)' # Original(p)'
                       /\ \A t \in Threads : Built(t)' => PayloadOf(call'[t].fragment) # Original(p)'
    BY DEF HoldingsSound, PayloadOf
  <2>1. Holds(b, p) /\ size'[b] = size[b]
    OBVIOUS
  <2>2. PICK f \in used : Home(p, size[b], f)
    BY <2>1 DEF MemorySound, HoldingsSound
  <2>3. Home(p, size[b], f)'
    BY <2>1, <2>2 DEF Home, Original, Size
  <2>. QED
    BY <1>2, <2>1, <2>3 DEF MemorySound, HoldingsSound
<1>5. BuildingsSound'
  <2>. SUFFICES ASSUME NEW t \in Threads, Built(t)'
                PROVE  LET f == call'[t].fragment IN
                       /\ f \in used'
                       /\ pc'[t] = "header" => /\ call'[t].result = PayloadOf(f)
                                               /\ Placed(f, "physical")
                                               /\ f.size >= Amount(t)' + O1HEAP_ALIGNMENT
                       /\ pc'[t] # "header" => Home(call[t].result, call[t].size, call[t].fragment)'
                       /\ \A s \in Threads \ {t} : Built(s)' => call'[s].fragment # f
    BY DEF BuildingsSound, PayloadOf, Placed
  <2>1. Built(t) /\ call'[t] = call[t] /\ (pc'[t] = "header" <=> pc[t] = "header")
    OBVIOUS
  <2>2. Amount(t)' = Amount(t)
    BY <2>1 DEF Amount
  <2>3. pc[t] # "header" => Home(call[t].result, call[t].size, call[t].fragment)'
    BY <2>1 DEF MemorySound, BuildingsSound, Home, Original, Size
  <2>. QED
    BY <2>1, <2>2, <2>3 DEF MemorySound, BuildingsSound
<1>6. FragmentsOwned'
  BY <1>2 DEF MemorySound, FragmentsOwned, Built
<1>7. ReAllocKeepsData'
  <2>. SUFFICES ASSUME NEW t \in Threads, Copied(t)',
                       NEW i \in 0..(Lesser(call'[t].size, size'[call'[t].block]) - 1)
                PROVE  mem'[call'[t].result + i] = call'[t].block
    BY DEF ReAllocKeepsData, Copied
  <2>. QED
    BY DEF MemorySound, ReAllocKeepsData, Copied
<1>. QED
  BY <1>3, <1>4, <1>5, <1>6, <1>7 DEF MemorySound

LEMMA QuietActions ==
    ASSUME IndInv, NEW t \in Threads,
           \/ \E b \in Blocks, n \in Sizes, arena \in Arenas, a \in Nat : AllocCall(t, b, arena, n, a)
           \/ \E b \in Blocks, n \in Sizes : ReAllocCall(t, b, n)
           \/ \E b \in Blocks : FreeCall(t, b)
           \/ LockArena(t) \/ ChooseFragment(t) \/ OutOfMemory(t) \/ UnlockArena(t)
           \/ LockForFree(t) \/ UnlockAfterFree(t)
    PROVE  MemorySound'
<1>. USE DEF Goto, guest, TypeOK, CallRecords
<1>. DEFINE SameHolds   == \A b \in Blocks : \A p \in Words : Holds(b, p)' <=> Holds(b, p)
            SameSizes   == \A b \in Blocks : \A p \in Words : Holds(b, p) => size'[b] = size[b]
            SameBuilt   == \A s \in Threads : Built(s)' <=> Built(s)
            SameCalls   == \A s \in Threads : Built(s) =>
                               call'[s] = call[s] /\ (pc'[s] = "header" <=> pc[s] = "header")
            SameCopied  == \A s \in Threads : Copied(s)' =>
                               Copied(s) /\ call'[s] = call[s] /\ size'[call[s].block] = size[call[s].block]
            Quiet == UNCHANGED <<mem, used>> /\ SameHolds /\ SameSizes /\ SameBuilt /\ SameCalls /\ SameCopied
<1>0. TypeOK /\ (\A s \in Threads : CallSound(s)) /\ OneCallPerBlock /\ MemorySound
  BY DEF IndInv, MemorySound
<1>. SUFFICES Quiet
  BY <1>0, QuietStep
<1>1. ASSUME NEW b \in Blocks, NEW n \in Sizes, NEW arena \in Arenas, NEW a \in Nat, AllocCall(t, b, arena, n, a)
      PROVE  Quiet
  <2>1. UNCHANGED <<mem, used>>
    BY <1>1 DEF AllocCall, NoCall, Unshared
  <2>2. SameHolds
    BY ZenonT(40), <1>0, <1>1 DEF AllocCall, NoCall, Unshared, Holds, Live, CallSound, OneCallPerBlock, Allocating, Releasing
  <2>3. SameSizes
    BY <1>0, <1>1 DEF AllocCall, NoCall, Unshared, Holds, Live, CallSound, OneCallPerBlock, Releasing
  <2>4. SameBuilt
    BY <1>0, <1>1 DEF AllocCall, NoCall, Unshared, Built, CallSound, Releasing
  <2>5. SameCalls
    BY <1>0, <1>1 DEF AllocCall, NoCall, Unshared, Built, CallSound, Releasing
  <2>6. SameCopied
    BY <1>0, <1>1 DEF AllocCall, NoCall, Unshared, Copied, CallSound, OneCallPerBlock, Allocating, Releasing
  <2>. QED
    BY <2>1, <2>2, <2>3, <2>4, <2>5, <2>6
<1>2. ASSUME NEW b \in Blocks, NEW n \in Sizes, ReAllocCall(t, b, n)
      PROVE  Quiet
  <2>1. UNCHANGED <<mem, used>>
    BY <1>2 DEF ReAllocCall, NoCall, Unshared
  <2>2. SameHolds
    BY ZenonT(40), <1>0, <1>2 DEF ReAllocCall, NoCall, Unshared, Holds, Live, CallSound, OneCallPerBlock, Allocating, Releasing
  <2>3. SameSizes
    BY <1>0, <1>2 DEF ReAllocCall, NoCall, Unshared, Holds, Live, CallSound, OneCallPerBlock, Releasing
  <2>4. SameBuilt
    BY <1>0, <1>2 DEF ReAllocCall, NoCall, Unshared, Built, CallSound, Releasing
  <2>5. SameCalls
    BY <1>0, <1>2 DEF ReAllocCall, NoCall, Unshared, Built, CallSound, Releasing
  <2>6. SameCopied
    BY <1>0, <1>2 DEF ReAllocCall, NoCall, Unshared, Copied, CallSound, OneCallPerBlock, Allocating, Releasing
  <2>. QED
    BY <2>1, <2>2, <2>3, <2>4, <2>5, <2>6
<1>3. ASSUME NEW b \in Blocks, FreeCall(t, b)
      PROVE  Quiet
  <2>1. UNCHANGED <<mem, used>>
    BY <1>3 DEF FreeCall, NoCall, Unshared
  <2>2. SameHolds
    <3>1. /\ pc[t] = "idle" /\ pc' = [pc EXCEPT ![t] = "lockFree"]
          /\ ptr[b] # NULL /\ ptr' = [ptr EXCEPT ![b] = NULL]
          /\ \A s \in Threads : pc[s] # "idle" => call[s].block # b
          /\ call'[t].block = b /\ call'[t].old = ptr[b]
          /\ \A s \in Threads \ {t} : call'[s] = call[s] /\ pc'[s] = pc[s]
      BY <1>0, <1>3 DEF FreeCall, NoCall, Unshared
    <3>2. ASSUME NEW c \in Blocks \ {b}, NEW p \in Words PROVE Holds(c, p)' <=> Holds(c, p)
      BY <1>0, <3>1 DEF Holds, Live
    <3>3. ASSUME NEW p \in Words PROVE Holds(b, p)' <=> Holds(b, p)
      <4>1. Holds(b, p) <=> p = ptr[b]
        BY <1>0, <3>1 DEF Holds, Live
      <4>2. Holds(b, p)' <=> p = ptr[b]
        BY <1>0, <3>1 DEF Holds, Live
      <4>. QED
        BY <4>1, <4>2
    <3>. QED
      BY <3>2, <3>3
  <2>3. SameSizes
    BY <1>0, <1>3 DEF FreeCall, NoCall, Unshared, Holds, Live, CallSound, OneCallPerBlock, Releasing
  <2>4. SameBuilt
    BY <1>0, <1>3 DEF FreeCall, NoCall, Unshared, Built, CallSound, Releasing
  <2>5. SameCalls
    BY <1>0, <1>3 DEF FreeCall, NoCall, Unshared, Built, CallSound, Releasing
  <2>6. SameCopied
    BY <1>0, <1>3 DEF FreeCall, NoCall, Unshared, Copied, CallSound, OneCallPerBlock, Allocating, Releasing
  <2>. QED
    BY <2>1, <2>2, <2>3, <2>4, <2>5, <2>6
<1>4. CASE LockArena(t)
  <2>1. UNCHANGED <<mem, used>>
    BY <1>4 DEF LockArena
  <2>2. SameHolds
    BY <1>0, <1>4 DEF LockArena, Holds, Live, CallSound, OneCallPerBlock, Allocating, Releasing
  <2>3. SameSizes
    BY <1>0, <1>4 DEF LockArena, Holds, Live, CallSound, OneCallPerBlock, Releasing
  <2>4. SameBuilt
    BY <1>0, <1>4 DEF LockArena, Built, CallSound, Releasing
  <2>5. SameCalls
    BY <1>0, <1>4 DEF LockArena, Built, CallSound, Releasing
  <2>6. SameCopied
    BY <1>0, <1>4 DEF LockArena, Copied, CallSound, OneCallPerBlock, Allocating, Releasing
  <2>. QED
    BY <2>1, <2>2, <2>3, <2>4, <2>5, <2>6
<1>5. CASE ChooseFragment(t)
  <2>1. UNCHANGED <<mem, used>>
    BY <1>5 DEF ChooseFragment
  <2>2. SameHolds
    BY <1>0, <1>5 DEF ChooseFragment, Holds, Live, CallSound, OneCallPerBlock, Allocating, Releasing
  <2>3. SameSizes
    BY <1>0, <1>5 DEF ChooseFragment, Holds, Live, CallSound, OneCallPerBlock, Releasing
  <2>4. SameBuilt
    BY <1>0, <1>5 DEF ChooseFragment, Built, CallSound, Releasing
  <2>5. SameCalls
    BY <1>0, <1>5 DEF ChooseFragment, Built, CallSound, Releasing
  <2>6. SameCopied
    BY <1>0, <1>5 DEF ChooseFragment, Copied, CallSound, OneCallPerBlock, Allocating, Releasing
  <2>. QED
    BY <2>1, <2>2, <2>3, <2>4, <2>5, <2>6
<1>6. CASE OutOfMemory(t)
  <2>1. UNCHANGED <<mem, used>>
    BY <1>6 DEF OutOfMemory
  <2>2. SameHolds
    BY <1>0, <1>6 DEF OutOfMemory, Holds, Live, CallSound, OneCallPerBlock, Allocating, Releasing
  <2>3. SameSizes
    BY <1>0, <1>6 DEF OutOfMemory, Holds, Live, CallSound, OneCallPerBlock, Releasing
  <2>4. SameBuilt
    BY <1>0, <1>6 DEF OutOfMemory, Built, CallSound, Releasing
  <2>5. SameCalls
    BY <1>0, <1>6 DEF OutOfMemory, Built, CallSound, Releasing
  <2>6. SameCopied
    BY <1>0, <1>6 DEF OutOfMemory, Copied, CallSound, OneCallPerBlock, Allocating, Releasing
  <2>. QED
    BY <2>1, <2>2, <2>3, <2>4, <2>5, <2>6
<1>7. CASE UnlockArena(t)
  <2>1. UNCHANGED <<mem, used>>
    BY <1>7 DEF UnlockArena
  <2>2. SameHolds
    BY <1>0, <1>7 DEF UnlockArena, Holds, Live, CallSound, OneCallPerBlock, Allocating, Releasing
  <2>3. SameSizes
    BY <1>0, <1>7 DEF UnlockArena, Holds, Live, CallSound, OneCallPerBlock, Releasing
  <2>4. SameBuilt
    BY <1>0, <1>7 DEF UnlockArena, Built, CallSound, Releasing
  <2>5. SameCalls
    BY <1>0, <1>7 DEF UnlockArena, Built, CallSound, Releasing
  <2>6. SameCopied
    BY <1>0, <1>7 DEF UnlockArena, Copied, CallSound, OneCallPerBlock, Allocating, Releasing
  <2>. QED
    BY <2>1, <2>2, <2>3, <2>4, <2>5, <2>6
<1>8. CASE LockForFree(t)
  <2>1. UNCHANGED <<mem, used>>
    BY <1>8 DEF LockForFree
  <2>2. SameHolds
    BY <1>0, <1>8 DEF LockForFree, Holds, Live, CallSound, OneCallPerBlock, Allocating, Releasing
  <2>3. SameSizes
    BY <1>0, <1>8 DEF LockForFree, Holds, Live, CallSound, OneCallPerBlock, Releasing
  <2>4. SameBuilt
    BY <1>0, <1>8 DEF LockForFree, Built, CallSound, Releasing
  <2>5. SameCalls
    BY <1>0, <1>8 DEF LockForFree, Built, CallSound, Releasing
  <2>6. SameCopied
    BY <1>0, <1>8 DEF LockForFree, Copied, CallSound, OneCallPerBlock, Allocating, Releasing
  <2>. QED
    BY <2>1, <2>2, <2>3, <2>4, <2>5, <2>6
<1>9. CASE UnlockAfterFree(t)
  <2>1. UNCHANGED <<mem, used>>
    BY <1>9 DEF UnlockAfterFree, NoCall
  <2>2. SameHolds
    <3>1. PICK b : b = call[t].block
      OBVIOUS
    <3>2. /\ pc[t] = "unlockFree" /\ ptr' = ptr
          /\ (pc'[t] = "fill" /\ call'[t] = call[t]) \/ (pc'[t] = "idle" /\ ptr[b] = NULL)
          /\ \A s \in Threads \ {t} : call'[s] = call[s] /\ pc'[s] = pc[s]
      <4>1. /\ pc[t] = "unlockFree" /\ ptr' = ptr
            /\ pc' = [pc EXCEPT ![t] = IF call[t].result = NULL THEN "idle" ELSE "fill"]
            /\ call' = IF call[t].result = NULL THEN [call EXCEPT ![t] = NoCall] ELSE call
        BY <1>9 DEF UnlockAfterFree
      <4>2. pc \in [Threads -> Locations] /\ call \in [Threads -> CallRecords]
        BY <1>0
      <4>3. call[t].result = NULL => ptr[b] = NULL
        BY <1>0, <3>1, <4>1 DEF CallSound, Releasing
      <4>. HIDE DEF CallRecords, TypeOK
      <4>4. CASE call[t].result = NULL
        BY <4>1, <4>2, <4>3, <4>4
      <4>5. CASE call[t].result # NULL
        BY <4>1, <4>2, <4>5
      <4>. QED
        BY <4>4, <4>5
    <3>3. \A s \in Threads \ {t} : pc[s] # "idle" => call[s].block # b
      BY <1>0, <3>1, <3>2 DEF OneCallPerBlock
    <3>4. ASSUME NEW c \in Blocks \ {b}, NEW p \in Words PROVE Holds(c, p)' <=> Holds(c, p)
      BY <3>1, <3>2 DEF Holds, Live
    <3>5. ASSUME NEW p \in Words PROVE ~Holds(b, p) /\ ~Holds(b, p)'
      <4>1. ~Holds(b, p)
        BY <3>1, <3>2, <3>3 DEF Holds, Live
      <4>2. ~Holds(b, p)'
        BY <3>1, <3>2, <3>3 DEF Holds, Live
      <4>. QED
        BY <4>1, <4>2
    <3>. QED
      BY <3>4, <3>5
  <2>3. SameSizes
    BY <1>0, <1>9 DEF UnlockAfterFree, NoCall, Holds, Live, CallSound, OneCallPerBlock, Releasing
  <2>4. SameBuilt
    BY <1>0, <1>9 DEF UnlockAfterFree, NoCall, Built, CallSound, Releasing
  <2>5. SameCalls
    BY <1>0, <1>9 DEF UnlockAfterFree, NoCall, Built, CallSound, Releasing
  <2>6. SameCopied
    BY <1>0, <1>9 DEF UnlockAfterFree, NoCall, Copied, CallSound, OneCallPerBlock, Allocating, Releasing
  <2>. QED
    BY <2>1, <2>2, <2>3, <2>4, <2>5, <2>6
<1>. QED
  BY <1>1, <1>2, <1>3, <1>4, <1>5, <1>6, <1>7, <1>8, <1>9

-----------------------------------------------------------------------------
(* Steps that write inside one fragment *)

(* What is written inside one fragment is read in no other. *)
LEMMA HomeUntouched ==
    ASSUME TypeOK, FragmentsPlaced, NEW f \in Fragments, NEW g \in used, Apart(f, g), g \in used',
           \A a \in Words \ Extent(f) : mem'[a] = mem[a],
           NEW p \in Nat, NEW n \in Nat, Home(p, n, g)
    PROVE  /\ Home(p, n, g)' /\ Original(p)' = Original(p) /\ Size(p)' = Size(p)
           /\ \A a \in p..(p + n - 1) : mem'[a] = mem[a]
<1>1. g \in Fragments
  BY DEF TypeOK
<1>2. PICK arena \in Arenas : Placed(g, arena)
  BY DEF FragmentsPlaced
<1>3. \A a \in Int : g.start <= a /\ a < g.start + g.size => a \in Words /\ a \notin Extent(f)
  <2>. SUFFICES ASSUME NEW a \in Int, g.start <= a, a < g.start + g.size
                PROVE  a \in Words /\ a \notin Extent(f)
    OBVIOUS
  <2>1. a \in Words /\ a \in Extent(g)
    BY <1>1, <1>2, PlacedFragment
  <2>2. Extent(f) \cap Extent(g) = {}
    BY <1>1, ApartIsDisjoint
  <2>. QED
    BY <2>1, <2>2
<1>4. /\ g.start + 4 <= p /\ p + n <= g.start + g.size /\ p < g.start + g.size
      /\ g.start \in Nat /\ g.size \in Nat
  BY <1>1, HomeBounds, FragmentFields
<1>5. mem'[p - 1] = mem[p - 1] /\ mem'[p - 2] = mem[p - 2]
  BY <1>3, <1>4
<1>6. \A a \in p..(p + n - 1) : mem'[a] = mem[a]
  BY <1>3, <1>4
<1>. QED
  BY <1>5, <1>6, HomeKept

(* Neither are the header and the claims on another fragment.  Holds and   *)
(* calls are taken before the step, the memory after it.                   *)
LEMMA ClaimsUntouched ==
    ASSUME IndInv, NEW f \in Fragments, \A a \in Words \ Extent(f) : mem'[a] = mem[a]
    PROVE  /\ \A g \in used : Apart(f, g) =>
                 \A a \in g.start..(g.start + 3) : mem'[a] = IF a = g.start + 2 THEN g.size ELSE Header
           /\ \A b \in Blocks : \A p \in Words : Holds(b, p) =>
                 \E g \in used : /\ Home(p, size[b], g)
                                 /\ Apart(f, g) /\ g \in used' =>
                                      /\ Original(p)' = Original(p)
                                      /\ \A m : m = size[b] => Home(p, m, g)'
                                      /\ \A a \in p..(p + size[b] - 1) : mem'[a] = b
           /\ \A s \in Threads :
                 Built(s) /\ pc[s] # "header" /\ Apart(f, call[s].fragment) /\ call[s].fragment \in used' =>
                     /\ \A p, m, g : p = call[s].result /\ m = call[s].size /\ g = call[s].fragment
                                        => Home(p, m, g)'
                     /\ Copied(s) => \A i \in 0..(Lesser(call[s].size, size[call[s].block]) - 1) :
                                        mem'[call[s].result + i] = call[s].block
<1>0. TypeOK /\ FragmentsPlaced /\ HoldingsSound /\ BuildingsSound
  BY DEF IndInv
<1>1. \A b \in Blocks : size[b] \in Nat
  <2>1. \A b \in Blocks : size[b] \in Sizes \cup {0}
    BY <1>0 DEF TypeOK
  <2>2. Sizes \cup {0} \subseteq Nat
    BY RequestAssumption
  <2>. QED
    BY <2>1, <2>2
<1>2. ASSUME NEW g \in used, Apart(f, g), NEW a \in g.start..(g.start + 3)
      PROVE  mem'[a] = IF a = g.start + 2 THEN g.size ELSE Header
  <2>1. g \in Fragments
    BY <1>0 DEF TypeOK
  <2>2. PICK arena \in Arenas : Placed(g, arena)
    BY <1>0 DEF FragmentsPlaced
  <2>3. a \in Words /\ a \in Extent(g)
    BY <2>1, <2>2, FragmentFields, PlacedFragment
  <2>4. Extent(f) \cap Extent(g) = {}
    BY <1>2, <2>1, ApartIsDisjoint
  <2>5. mem'[a] = mem[a]
    BY <2>3, <2>4
  <2>. QED
    BY <1>0, <2>5 DEF FragmentsPlaced
<1>3. ASSUME NEW b \in Blocks, NEW p \in Words, Holds(b, p)
      PROVE  \E g \in used : /\ Home(p, size[b], g)
                             /\ Apart(f, g) /\ g \in used' =>
                                  /\ Original(p)' = Original(p)
                                  /\ \A m : m = size[b] => Home(p, m, g)'
                                  /\ \A a \in p..(p + size[b] - 1) : mem'[a] = b
  <2>1. PICK g \in used : Home(p, size[b], g)
    BY <1>0, <1>3 DEF HoldingsSound
  <2>2. p \in Nat
    BY ArenaBounds
  <2>3. ASSUME Apart(f, g), g \in used', NEW m, m = size[b]
        PROVE  /\ Home(p, m, g)' /\ Original(p)' = Original(p)
               /\ \A a \in p..(p + m - 1) : mem'[a] = mem[a]
    BY <1>0, <1>1, <2>1, <2>2, <2>3, HomeUntouched
  <2>4. \A a \in p..(p + size[b] - 1) : mem[a] = b
    BY <1>0, <1>3 DEF HoldingsSound
  <2>. QED
    BY <2>1, <2>3, <2>4
<1>4. ASSUME NEW s \in Threads, Built(s), pc[s] # "header", Apart(f, call[s].fragment),
             call[s].fragment \in used'
      PROVE  /\ \A p, m, g : p = call[s].result /\ m = call[s].size /\ g = call[s].fragment
                                => Home(p, m, g)'
             /\ Copied(s) => \A i \in 0..(Lesser(call[s].size, size[call[s].block]) - 1) :
                                mem'[call[s].result + i] = call[s].block
  <2>1. call[s].fragment \in used /\ Home(call[s].result, call[s].size, call[s].fragment)
    BY <1>0, <1>4 DEF BuildingsSound
  <2>2. call[s].result \in Nat /\ call[s].size \in Nat
    <3>1. call[s].result \in Words
      BY <1>0, <1>4 DEF TypeOK, CallRecords, Built
    <3>. QED
      BY <1>0, <3>1, ArenaBounds, AmountBound
  <2>3. ASSUME NEW p, NEW m, NEW g, p = call[s].result, m = call[s].size, g = call[s].fragment
        PROVE  Home(p, m, g)' /\ \A a \in p..(p + m - 1) : mem'[a] = mem[a]
    BY <1>0, <1>4, <2>1, <2>2, <2>3, HomeUntouched
  <2>4. ASSUME Copied(s), NEW i \in 0..(Lesser(call[s].size, size[call[s].block]) - 1)
        PROVE  mem'[call[s].result + i] = call[s].block
    <3>1. mem[call[s].result + i] = call[s].block
      BY <2>4 DEF IndInv, ReAllocKeepsData, Copied
    <3>2. size[call[s].block] \in Nat
      BY <1>1, <2>4 DEF IndInv, CallSound, Copied
    <3>3. i \in Nat /\ i <= call[s].size - 1
      BY <2>2, <3>2 DEF Lesser
    <3>4. call[s].result + i \in call[s].result..(call[s].result + call[s].size - 1)
      BY <2>2, <3>3
    <3>. QED
      BY <2>3, <3>1, <3>4
  <2>. QED
    BY <2>3, <2>4
<1>. QED
  BY <1>2, <1>3, <1>4

(* Fragments in use are told apart by their payload. *)
LEMMA PayloadNames ==
    ASSUME TypeOK, FragmentsPlaced
    PROVE  \A f, g \in used : /\ f = g \/ Apart(f, g)
                              /\ PayloadOf(f) = PayloadOf(g) => f = g
BY FragmentFields DEF TypeOK, FragmentsPlaced, Apart

(* A call that writes behind the header of a fragment it is building       *)
(* harms no header, no block that is held and no other call's fragment.    *)
LEMMA WritesInside ==
    ASSUME IndInv, NEW t \in Threads, Built(t), NEW f, f = call[t].fragment, used' = used,
           \A s \in Threads \ {t} : call'[s] = call[s],
           \A b \in Blocks : \A p \in Words : Holds(b, p) => size'[b] = size[b],
           \A a \in Words : ~(f.start + 4 <= a /\ a < f.start + f.size) => mem'[a] = mem[a]
    PROVE  /\ FragmentsPlaced'
           /\ \A b \in Blocks : \A p \in Words : Holds(b, p) =>
                 /\ Original(p)' = Original(p)
                 /\ \E g \in used' : Home(p, size[b], g)'
                 /\ \A a \in p..(p + size'[b] - 1) : mem'[a] = b
           /\ \A s \in Threads \ {t} : Built(s) /\ pc[s] # "header" =>
                 Home(call[s].result, call[s].size, call[s].fragment)'
           /\ \A s \in Threads \ {t} : Copied(s) =>
                 \A i \in 0..(Lesser(call[s].size, size[call[s].block]) - 1) :
                     mem'[call[s].result + i] = call[s].block
<1>0. TypeOK /\ FragmentsPlaced /\ HoldingsSound /\ BuildingsSound
  BY DEF IndInv
<1>1. f \in used /\ f \in Fragments
  BY <1>0 DEF BuildingsSound, TypeOK
<1>2. \A a \in Words \ Extent(f) : mem'[a] = mem[a]
  BY <1>1, FragmentFields, ArenaBounds DEF Extent
<1>3. \A g \in used : g # f => Apart(f, g)
  BY <1>0, <1>1, PayloadNames
<1>4. FragmentsPlaced'
  <2>1. ASSUME NEW a \in f.start..(f.start + 3)
        PROVE  mem'[a] = IF a = f.start + 2 THEN f.size ELSE Header
    <3>1. PICK arena \in Arenas : Placed(f, arena)
      BY <1>0, <1>1 DEF FragmentsPlaced
    <3>2. a \in Words /\ a < f.start + 4
      BY <1>1, <3>1, FragmentFields, PlacedFragment
    <3>3. mem'[a] = mem[a]
      BY <1>1, <3>2, FragmentFields
    <3>. QED
      BY <1>0, <1>1, <3>3 DEF FragmentsPlaced
  <2>2. ASSUME NEW g \in used, g # f, NEW a \in g.start..(g.start + 3)
        PROVE  mem'[a] = IF a = g.start + 2 THEN g.size ELSE Header
    BY <1>1, <1>2, <1>3, <2>2, ClaimsUntouched
  <2>. QED
    BY <1>0, <2>1, <2>2 DEF FragmentsPlaced, Placed, Apart, Begin, End
<1>5. ASSUME NEW b \in Blocks, NEW p \in Words, Holds(b, p)
      PROVE  /\ Original(p)' = Original(p)
             /\ \E g \in used' : Home(p, size[b], g)'
             /\ \A a \in p..(p + size'[b] - 1) : mem'[a] = b
  <2>1. PICK g \in used : /\ Home(p, size[b], g)
                          /\ Apart(f, g) /\ g \in used' =>
                                /\ Original(p)' = Original(p)
                                /\ \A m : m = size[b] => Home(p, m, g)'
                                /\ \A a \in p..(p + size[b] - 1) : mem'[a] = b
    BY <1>1, <1>2, <1>5, ClaimsUntouched
  <2>2. g # f
    BY <1>0, <1>5, <2>1 DEF HoldingsSound, Home
  <2>3. size'[b] = size[b]
    BY <1>5
  <2>4. Home(p, size[b], g)'
    BY <1>3, <2>1, <2>2, <2>3 DEF Home
  <2>. QED
    BY <1>3, <2>1, <2>2, <2>3, <2>4
<1>6. ASSUME NEW s \in Threads \ {t}, Built(s), pc[s] # "header"
      PROVE  /\ Home(call[s].result, call[s].size, call[s].fragment)'
             /\ Copied(s) => \A i \in 0..(Lesser(call[s].size, size[call[s].block]) - 1) :
                                mem'[call[s].result + i] = call[s].block
  <2>1. call[s].fragment \in used /\ call[s].fragment # f
    BY <1>0, <1>6 DEF BuildingsSound
  <2>2. /\ \A p, m, g : p = call[s].result /\ m = call[s].size /\ g = call[s].fragment
                            => Home(p, m, g)'
        /\ Copied(s) => \A i \in 0..(Lesser(call[s].size, size[call[s].block]) - 1) :
                            mem'[call[s].result + i] = call[s].block
    BY <1>1, <1>2, <1>3, <1>6, <2>1, ClaimsUntouched
  <2>3. call'[s] = call[s]
    OBVIOUS
  <2>. QED
    BY <2>2, <2>3 DEF Home
<1>7. \A s \in Threads : Copied(s) => Built(s) /\ pc[s] # "header"
  BY DEF Copied, Built, Releasing
<1>. QED
  BY <1>4, <1>5, <1>6, <1>7

(* A step with which a call writes inside the fragment it is building, and *)
(* after which it is building it still, is sound if the block it builds is *)
(* sound and holds the data the call has copied.                           *)
LEMMA BuildStep ==
    ASSUME IndInv, TypeOK', NEW t \in Threads, Built(t), Built(t)', used' = used, size' = size,
           call'[t].fragment = call[t].fragment,
           \A s \in Threads \ {t} : call'[s] = call[s] /\ pc'[s] = pc[s],
           \A b \in Blocks : \A p \in Words : Holds(b, p)' <=> Holds(b, p),
           \A a \in Words :
               ~(call[t].fragment.start + 4 <= a /\ a < call[t].fragment.start + call[t].fragment.size)
                   => mem'[a] = mem[a],
           pc'[t] # "header",
           Home(call[t].result, call[t].size, call[t].fragment)',
           Copied(t)' => \A i \in 0..(Lesser(call'[t].size, size[call'[t].block]) - 1) :
                            mem'[call'[t].result + i] = call'[t].block
    PROVE  MemorySound'
<1>0. TypeOK /\ FragmentsPlaced /\ HoldingsSound /\ BuildingsSound /\ FragmentsOwned
  BY DEF IndInv
<1>f. PICK mine : mine = call[t].fragment
  OBVIOUS
<1>1. /\ FragmentsPlaced'
      /\ \A b \in Blocks : \A p \in Words : Holds(b, p) =>
            /\ Original(p)' = Original(p)
            /\ \E g \in used' : Home(p, size[b], g)'
            /\ \A a \in p..(p + size'[b] - 1) : mem'[a] = b
      /\ \A s \in Threads \ {t} : Built(s) /\ pc[s] # "header" =>
            Home(call[s].result, call[s].size, call[s].fragment)'
      /\ \A s \in Threads \ {t} : Copied(s) =>
            \A i \in 0..(Lesser(call[s].size, size[call[s].block]) - 1) :
                mem'[call[s].result + i] = call[s].block
  BY <1>f, WritesInside
<1>2. \A s \in Threads : /\ Built(s)' <=> Built(s)
                         /\ call'[s].fragment = call[s].fragment
  BY DEF Built
<1>3. HoldingsSound'
  BY <1>0, <1>1, <1>2 DEF HoldingsSound, PayloadOf
<1>4. BuildingsSound'
  <2>. SUFFICES ASSUME NEW s \in Threads, Built(s)'
                PROVE  LET f == call'[s].fragment IN
                       /\ f \in used'
                       /\ pc'[s] = "header" => /\ call'[s].result = PayloadOf(f)
                                               /\ Placed(f, "physical")
                                               /\ f.size >= Amount(s)' + O1HEAP_ALIGNMENT
                       /\ pc'[s] # "header" => Home(call[s].result, call[s].size, call[s].fragment)'
                       /\ \A r \in Threads \ {s} : Built(r)' => call'[r].fragment # f
    BY DEF BuildingsSound, PayloadOf, Placed
  <2>1. Built(s)
    BY <1>2
  <2>2. CASE s = t
    BY <1>0, <1>2, <2>1, <2>2 DEF BuildingsSound
  <2>3. CASE s # t
    <3>1. Amount(s)' = Amount(s)
      BY <2>3 DEF Amount
    <3>. QED
      BY <1>0, <1>1, <1>2, <2>1, <2>3, <3>1 DEF BuildingsSound
  <2>. QED
    BY <2>2, <2>3
<1>5. FragmentsOwned'
  BY <1>0, <1>1, <1>2 DEF FragmentsOwned, PayloadOf
<1>6. ReAllocKeepsData'
  <2>. SUFFICES ASSUME NEW s \in Threads, Copied(s)',
                       NEW i \in 0..(Lesser(call'[s].size, size'[call'[s].block]) - 1)
                PROVE  mem'[call'[s].result + i] = call'[s].block
    BY DEF ReAllocKeepsData, Copied
  <2>1. CASE s = t
    BY <2>1
  <2>2. CASE s # t
    <3>1. Copied(s) /\ call'[s] = call[s]
      BY <2>2 DEF Copied
    <3>. QED
      BY <1>1, <2>2, <3>1
  <2>. QED
    BY <2>1, <2>2
<1>. QED
  BY <1>1, <1>3, <1>4, <1>5, <1>6 DEF MemorySound

LEMMA HeaderStep ==
    ASSUME IndInv, TypeOK', NEW t \in Threads, WriteBlockHeader(t)
    PROVE  MemorySound'
<1>. DEFINE f == call[t].fragment
            n == call[t].size
            p == call[t].result
            aligned == AlignPast(p, call[t].alignment)
<1>0. TypeOK /\ CallSound(t) /\ BuildingsSound
  BY DEF IndInv
<1>1. /\ pc[t] = "header" /\ pc' = [pc EXCEPT ![t] = "unlock"]
      /\ mem' = [mem EXCEPT ![aligned - 1] = p, ![aligned - 2] = AtLeastOne(n) + O1HEAP_ALIGNMENT]
      /\ call' = [call EXCEPT ![t].result = aligned]
      /\ used' = used /\ ptr' = ptr /\ size' = size
  BY DEF WriteBlockHeader, Goto, guest
<1>2. /\ Built(t) /\ f \in used /\ f \in Fragments /\ Placed(f, "physical")
      /\ p = PayloadOf(f) /\ p = f.start + 4
      /\ n \in Nat /\ AtLeastOne(n) \in Nat \ {0} /\ n <= AtLeastOne(n)
      /\ aligned \in Nat /\ f.start + 6 <= aligned
      /\ aligned + AtLeastOne(n) <= f.start + f.size
      /\ aligned \in Words /\ aligned - 1 \in Words /\ aligned - 2 \in Words
      /\ ArenaOf(aligned) = "physical"
  BY <1>0, <1>1, BlockHeaderPlace
<1>. HIDE DEF aligned
<1>3. /\ call'[t].result = aligned /\ call'[t].size = n /\ call'[t].fragment = f
      /\ pc'[t] = "unlock"
      /\ \A s \in Threads \ {t} : call'[s] = call[s] /\ pc'[s] = pc[s]
  BY <1>0, <1>1 DEF TypeOK, CallRecords
<1>4. Built(t)' /\ ~Copied(t)'
  BY <1>2, <1>3, ArenaBounds DEF Built, Copied, NULL
<1>5. \A b \in Blocks : \A q \in Words : Holds(b, q)' <=> Holds(b, q)
  BY <1>0, <1>1 DEF Holds, Live, TypeOK, CallRecords
<1>6. /\ mem'[aligned - 1] = p /\ mem'[aligned - 2] = AtLeastOne(n) + 4
      /\ \A a \in Words : ~(f.start + 4 <= a /\ a < f.start + f.size) => mem'[a] = mem[a]
  BY <1>0, <1>1, <1>2, ArenaBounds, FragmentFields DEF TypeOK, O1HEAP_ALIGNMENT
<1>7. Home(call[t].result, call[t].size, call[t].fragment)'
  <2>1. ASSUME NEW w, NEW m, NEW g, w = aligned, m = n, g = f
        PROVE  Home(w, m, g)'
    <3>1. Original(w)' = PayloadOf(g)
      BY <1>2, <1>6, <2>1 DEF Original
    <3>2. w # NULL
      BY <1>2, <2>1, ArenaBounds DEF NULL
    <3>3. Size(w)' = AtLeastOne(m)
      BY <1>2, <1>6, <2>1, <3>2 DEF Size, O1HEAP_ALIGNMENT
    <3>4. Within(w, AtLeastOne(m), g) /\ w >= PayloadOf(g) + 2
      BY <1>2, <2>1, FragmentFields DEF Within
    <3>. QED
      BY <1>1, <1>2, <2>1, <3>1, <3>3, <3>4 DEF Home, PayloadOf, Within
  <2>. QED
    BY <1>3, <2>1 DEF Home
<1>. QED
  BY <1>1, <1>3, <1>4, <1>5, <1>6, <1>7, <1>2, BuildStep

LEMMA CopyStep ==
    ASSUME IndInv, TypeOK', NEW t \in Threads, CopyBlock(t)
    PROVE  MemorySound'
<1>. DEFINE f   == call[t].fragment
            new == call[t].result
            old == call[t].old
            b   == call[t].block
            n   == Lesser(call[t].size, Size(old))
<1>0. TypeOK /\ CallSound(t) /\ OneCallPerBlock /\ FragmentsPlaced /\ HoldingsSound /\ BuildingsSound
  BY DEF IndInv
<1>1. /\ pc[t] = "copy" /\ pc' = [pc EXCEPT ![t] = "lockFree"]
      /\ mem' = [a \in Words |-> IF a \in new..(new + n - 1) THEN mem[old + (a - new)] ELSE mem[a]]
      /\ call' = call /\ used' = used /\ ptr' = ptr /\ size' = size
  BY DEF CopyBlock, Goto, guest
<1>2. b \in Blocks /\ old = ptr[b] /\ old # NULL /\ new # NULL
  BY <1>0, <1>1 DEF CallSound, Allocating
<1>3. old \in Words /\ new \in Words /\ old \in Nat /\ new \in Nat /\ call[t].size \in Nat
  <2>1. old \in Words /\ new \in Words
    BY <1>0, <1>2 DEF TypeOK, CallRecords
  <2>. QED
    BY <1>0, <2>1, ArenaBounds, AmountBound
<1>4. Built(t) /\ Built(t)'
  BY <1>1, <1>2 DEF Built, Releasing, TypeOK, CallRecords
<1>5. f \in used /\ Home(new, call[t].size, f)
  BY <1>0, <1>1, <1>4 DEF BuildingsSound
<1>6. /\ f.start + 4 <= new /\ new + call[t].size <= f.start + f.size
      /\ f.start \in Nat /\ f.size \in Nat
  BY <1>0, <1>3, <1>5, HomeBounds, FragmentFields DEF TypeOK
<1>7. Live(b) /\ Holds(b, old)
  BY <1>0, <1>1, <1>2 DEF Live, Holds, OneCallPerBlock
<1>8. PICK g \in used : Home(old, size[b], g)
  BY <1>0, <1>2, <1>3, <1>7 DEF HoldingsSound
<1>9. size[b] \in Nat
  <2>1. size[b] \in Sizes \cup {0} /\ Sizes \cup {0} \subseteq Nat
    BY <1>0, <1>2, RequestAssumption DEF TypeOK
  <2>. QED
    BY <2>1
<1>10. Size(old) \in Nat /\ size[b] <= Size(old)
  BY <1>0, <1>3, <1>8, <1>9, HomeBounds
<1>. HIDE DEF n
<1>11. n \in Nat /\ n <= call[t].size /\ Lesser(call[t].size, size[b]) <= n
       /\ Lesser(call[t].size, size[b]) <= size[b]
  BY <1>3, <1>9, <1>10 DEF Lesser, n
<1>12. \A a \in Words : ~(f.start + 4 <= a /\ a < f.start + f.size) => mem'[a] = mem[a]
  BY <1>1, <1>3, <1>6, <1>11, ArenaBounds
<1>13. \A c \in Blocks : \A q \in Words : Holds(c, q)' <=> Holds(c, q)
  <2>1. ASSUME NEW c \in Blocks, NEW q \in Words PROVE Holds(c, q)' => Holds(c, q)
    BY <1>0, <1>1, <1>2, <1>7 DEF Holds, Live, TypeOK
  <2>2. ASSUME NEW c \in Blocks, NEW q \in Words PROVE Holds(c, q) => Holds(c, q)'
    BY <1>0, <1>1, <1>2, <1>7 DEF Holds, Live, TypeOK
  <2>. QED
    BY <2>1, <2>2
<1>14. Home(call[t].result, call[t].size, call[t].fragment)'
  <2>1. mem'[new - 1] = mem[new - 1] /\ mem'[new - 2] = mem[new - 2]
    <3>1. f \in Fragments
      BY <1>5, <1>0 DEF TypeOK
    <3>2. PICK arena \in Arenas : Placed(f, arena)
      BY <1>0, <1>5 DEF FragmentsPlaced
    <3>3. new < f.start + f.size
      BY <1>0, <1>3, <1>5, HomeBounds
    <3>4. new - 1 \in Words /\ new - 2 \in Words
      BY <1>3, <1>6, <3>1, <3>2, <3>3, PlacedFragment
    <3>. QED
      BY <1>1, <1>3, <1>11, <3>4
  <2>2. \A q, m, h : q = new /\ m = call[t].size /\ h = f => Home(q, m, h)'
    BY <1>0, <1>1, <1>3, <1>5, <2>1, HomeKept
  <2>. QED
    BY <1>1, <2>2 DEF Home
<1>15. \A i \in 0..(Lesser(call[t].size, size[b]) - 1) : mem'[new + i] = b
  <2>. SUFFICES ASSUME NEW i \in 0..(Lesser(call[t].size, size[b]) - 1) PROVE mem'[new + i] = b
    OBVIOUS
  <2>1. i \in Nat /\ i < n /\ i < size[b] /\ i < call[t].size
    BY <1>3, <1>9, <1>11 DEF Lesser
  <2>2. new + i \in Words
    <3>1. f \in Fragments
      BY <1>5, <1>0 DEF TypeOK
    <3>2. PICK arena \in Arenas : Placed(f, arena)
      BY <1>0, <1>5 DEF FragmentsPlaced
    <3>. QED
      BY <1>3, <1>6, <2>1, <3>1, <3>2, PlacedFragment
  <2>3. new + i \in new..(new + n - 1) /\ old + ((new + i) - new) = old + i
    BY <1>3, <1>11, <2>1
  <2>4. mem[old + i] = b
    <3>1. old + i \in old..(old + size[b] - 1)
      BY <1>3, <1>9, <2>1
    <3>. QED
      BY <1>0, <1>2, <1>3, <1>7, <3>1 DEF HoldingsSound
  <2>. QED
    BY <1>1, <2>2, <2>3, <2>4
<1>16. pc'[t] # "header"
  BY <1>0, <1>1 DEF TypeOK
<1>. QED
  BY <1>0, <1>1, <1>4, <1>12, <1>13, <1>14, <1>15, <1>16, BuildStep DEF TypeOK

LEMMA FillStep ==
    ASSUME IndInv, TypeOK', NEW t \in Threads, FillBlock(t)
    PROVE  MemorySound'
<1>f. PICK f, p, b, n :
          f = call[t].fragment /\ p = call[t].result /\ b = call[t].block /\ n = call[t].size
  OBVIOUS
<1>0. /\ TypeOK /\ CallSound(t) /\ OneCallPerBlock /\ FragmentsPlaced
      /\ HoldingsSound /\ BuildingsSound /\ FragmentsOwned
  BY DEF IndInv
<1>1. /\ pc[t] = "fill" /\ pc' = [pc EXCEPT ![t] = "idle"]
      /\ mem' = [a \in Words |-> IF a \in p..(p + n - 1) THEN b ELSE mem[a]]
      /\ ptr' = [ptr EXCEPT ![b] = p]
      /\ size' = [size EXCEPT ![b] = n]
      /\ call' = [call EXCEPT ![t] = NoCall] /\ used' = used
  BY <1>f DEF FillBlock, Goto
<1>2. b \in Blocks /\ p # NULL
  BY <1>0, <1>f, <1>1 DEF CallSound
<1>3. p \in Words /\ p \in Nat /\ n \in Nat
  <2>1. p \in Words
    BY <1>0, <1>f, <1>2 DEF TypeOK, CallRecords
  <2>. QED
    BY <1>0, <1>f, <2>1, ArenaBounds, AmountBound
<1>4. Built(t)
  BY <1>f, <1>1, <1>2 DEF Built
<1>5. f \in used /\ f \in Fragments /\ Home(p, n, f)
  BY <1>0, <1>f, <1>1, <1>4 DEF BuildingsSound, TypeOK
<1>6. /\ f.start + 4 <= p /\ p + n <= f.start + f.size
      /\ f.start \in Nat /\ f.size \in Nat
  BY <1>0, <1>3, <1>5, HomeBounds, FragmentFields
<1>7. \A a \in Words : ~(f.start + 4 <= a /\ a < f.start + f.size) => mem'[a] = mem[a]
  BY <1>1, <1>3, <1>6, ArenaBounds
<1>8. /\ \A s \in Threads \ {t} : call'[s] = call[s] /\ pc'[s] = pc[s]
      /\ pc'[t] = "idle" /\ call'[t] = NoCall
      /\ ptr'[b] = p /\ size'[b] = n
      /\ \A c \in Blocks \ {b} : ptr'[c] = ptr[c] /\ size'[c] = size[c]
  BY <1>0, <1>1, <1>2 DEF TypeOK
<1>9. \A s \in Threads : Built(s)' <=> s # t /\ Built(s)
  BY <1>8 DEF Built, Releasing
<1>10. \A q \in Words : ~Holds(b, q)
  BY <1>0, <1>f, <1>1 DEF Holds, Live, OneCallPerBlock
<1>11. \A c \in Blocks \ {b} : \A q \in Words : Holds(c, q)' <=> Holds(c, q)
  BY <1>0, <1>f, <1>1, <1>8 DEF Holds, Live
<1>12. \A q \in Words : Holds(b, q)' <=> q = p
  <2>1. \A s \in Threads \ {t} : pc[s] # "idle" => call[s].block # b
    BY <1>0, <1>f, <1>1 DEF OneCallPerBlock
  <2>. QED
    BY <1>2, <1>8, <2>1 DEF Holds, Live
<1>13. /\ FragmentsPlaced'
       /\ \A c \in Blocks : \A q \in Words : Holds(c, q) =>
             /\ Original(q)' = Original(q)
             /\ \E g \in used' : Home(q, size[c], g)'
             /\ \A a \in q..(q + size'[c] - 1) : mem'[a] = c
       /\ \A s \in Threads \ {t} : Built(s) /\ pc[s] # "header" =>
             Home(call[s].result, call[s].size, call[s].fragment)'
       /\ \A s \in Threads \ {t} : Copied(s) =>
             \A i \in 0..(Lesser(call[s].size, size[call[s].block]) - 1) :
                 mem'[call[s].result + i] = call[s].block
  BY <1>f, <1>1, <1>4, <1>7, <1>8, <1>10, WritesInside
<1>14. \A q, m, g : q = p /\ m = n /\ g = f => Home(q, m, g)' /\ Original(q)' = PayloadOf(f)
  <2>1. mem'[p - 1] = mem[p - 1] /\ mem'[p - 2] = mem[p - 2]
    <3>1. PICK arena \in Arenas : Placed(f, arena)
      BY <1>0, <1>5 DEF FragmentsPlaced
    <3>2. p < f.start + f.size
      BY <1>0, <1>3, <1>5, HomeBounds
    <3>3. p - 1 \in Words /\ p - 2 \in Words
      BY <1>3, <1>5, <1>6, <3>1, <3>2, PlacedFragment
    <3>. QED
      BY <1>1, <1>3, <3>3
  <2>. QED
    BY <1>0, <1>1, <1>3, <1>5, <2>1, HomeKept DEF Home
<1>15. \A a \in p..(p + n - 1) : mem'[a] = b
  <2>. SUFFICES ASSUME NEW a \in p..(p + n - 1) PROVE mem'[a] = b
    OBVIOUS
  <2>1. PICK arena \in Arenas : Placed(f, arena)
    BY <1>0, <1>5 DEF FragmentsPlaced
  <2>2. a \in Words
    BY <1>3, <1>5, <1>6, <2>1, PlacedFragment
  <2>. QED
    BY <1>1, <2>2
<1>16. HoldingsSound'
  <2>. SUFFICES ASSUME NEW c \in Blocks, NEW q \in Words, Holds(c, q)'
                PROVE  /\ \E g \in used' : Home(q, size[c], g)'
                       /\ \A a \in q..(q + size'[c] - 1) : mem'[a] = c
                       /\ \A d \in Blocks \ {c} : \A r \in Words :
                             Holds(d, r)' => Original(r)' # Original(q)'
                       /\ \A s \in Threads : Built(s)' => PayloadOf(call'[s].fragment) # Original(q)'
    BY DEF HoldingsSound, PayloadOf
  <2>1. CASE c = b
    <3>1. q = p
      BY <1>12, <2>1
    <3>2. Home(q, size[c], f)'
      BY <1>1, <1>5, <1>8, <1>14, <2>1, <3>1 DEF Home
    <3>3. Original(q)' = PayloadOf(f)
      BY <1>14, <3>1
    <3>4. ASSUME NEW d \in Blocks \ {c}, NEW r \in Words, Holds(d, r)'
          PROVE  Original(r)' # PayloadOf(f)
      BY <1>0, <1>f, <1>4, <1>11, <1>13, <2>1, <3>4 DEF HoldingsSound
    <3>5. ASSUME NEW s \in Threads, Built(s)'
          PROVE  PayloadOf(call'[s].fragment) # PayloadOf(f)
      <4>1. s # t /\ Built(s) /\ call'[s] = call[s]
        BY <1>8, <1>9, <3>5
      <4>2. call[s].fragment \in used /\ call[s].fragment # f
        BY <1>0, <1>f, <1>4, <4>1 DEF BuildingsSound
      <4>. QED
        BY <1>0, <1>5, <4>1, <4>2, PayloadNames
    <3>6. \E g \in used' : Home(q, size[c], g)'
      BY <1>1, <1>5, <3>2
    <3>. QED
      BY <1>8, <1>15, <2>1, <3>1, <3>3, <3>4, <3>5, <3>6
  <2>2. CASE c # b
    <3>1. Holds(c, q)
      BY <1>11, <2>2
    <3>2. ASSUME NEW d \in Blocks \ {c}, NEW r \in Words, Holds(d, r)'
          PROVE  Original(r)' # Original(q)'
      <4>1. CASE d = b
        <5>1. Original(r)' = PayloadOf(f)
          BY <1>12, <1>14, <3>2, <4>1
        <5>. QED
          BY <1>0, <1>f, <1>4, <1>13, <3>1, <5>1 DEF HoldingsSound
      <4>2. CASE d # b
        BY <1>0, <1>11, <1>13, <3>1, <3>2, <4>2 DEF HoldingsSound
      <4>. QED
        BY <4>1, <4>2
    <3>3. ASSUME NEW s \in Threads, Built(s)'
          PROVE  PayloadOf(call'[s].fragment) # Original(q)'
      BY <1>0, <1>8, <1>9, <1>13, <3>1, <3>3 DEF HoldingsSound
    <3>. QED
      BY <1>13, <3>1, <3>2, <3>3
  <2>. QED
    BY <2>1, <2>2
<1>17. BuildingsSound'
  <2>. SUFFICES ASSUME NEW s \in Threads, Built(s)'
                PROVE  LET g == call'[s].fragment IN
                       /\ g \in used'
                       /\ pc'[s] = "header" => /\ call'[s].result = PayloadOf(g)
                                               /\ Placed(g, "physical")
                                               /\ g.size >= Amount(s)' + O1HEAP_ALIGNMENT
                       /\ pc'[s] # "header" => Home(call[s].result, call[s].size, call[s].fragment)'
                       /\ \A r \in Threads \ {s} : Built(r)' => call'[r].fragment # g
    BY DEF BuildingsSound, PayloadOf, Placed
  <2>1. s # t /\ Built(s) /\ call'[s] = call[s] /\ pc'[s] = pc[s]
    BY <1>8, <1>9
  <2>2. Amount(s)' = Amount(s)
    BY <2>1 DEF Amount
  <2>. QED
    BY <1>0, <1>1, <1>8, <1>9, <1>13, <2>1, <2>2 DEF BuildingsSound
<1>18. FragmentsOwned'
  <2>. SUFFICES ASSUME NEW g \in used
                PROVE  \/ \E s \in Threads : Built(s)' /\ call'[s].fragment = g
                       \/ \E c \in Blocks : \E q \in Words : Holds(c, q)' /\ Original(q)' = PayloadOf(g)
    BY <1>1 DEF FragmentsOwned, PayloadOf
  <2>1. CASE g = f
    BY <1>2, <1>3, <1>12, <1>14, <2>1
  <2>2. CASE \E s \in Threads : Built(s) /\ call[s].fragment = g /\ s # t
    BY <1>8, <1>9, <2>2
  <2>3. CASE \E c \in Blocks : \E q \in Words : Holds(c, q) /\ Original(q) = PayloadOf(g)
    BY <1>10, <1>11, <1>13, <2>3
  <2>. QED
    BY <1>0, <1>f, <2>1, <2>2, <2>3 DEF FragmentsOwned
<1>19. ReAllocKeepsData'
  <2>. SUFFICES ASSUME NEW s \in Threads, Copied(s)',
                       NEW i \in 0..(Lesser(call'[s].size, size'[call'[s].block]) - 1)
                PROVE  mem'[call'[s].result + i] = call'[s].block
    BY DEF ReAllocKeepsData, Copied
  <2>1. s # t /\ Copied(s) /\ call'[s] = call[s]
    BY <1>8 DEF Copied
  <2>2. call[s].block \in Blocks /\ call[s].block # b
    BY <1>0, <1>f, <1>1, <2>1 DEF IndInv, CallSound, OneCallPerBlock, Copied
  <2>. QED
    BY <1>8, <1>13, <2>1, <2>2
<1>. QED
  BY <1>13, <1>16, <1>17, <1>18, <1>19 DEF MemorySound

-----------------------------------------------------------------------------
(* Steps that change which fragments are in use *)

LEMMA CommitStep ==
    ASSUME IndInv, TypeOK', NEW t \in Threads, CommitFragment(t)
    PROVE  MemorySound'
<1>f. PICK f, arena, n : f = call[t].fragment /\ arena = call[t].arena /\ n = call[t].size
  OBVIOUS
<1>0. /\ TypeOK /\ CallSound(t) /\ OneCallPerBlock /\ FragmentsPlaced
      /\ HoldingsSound /\ BuildingsSound /\ FragmentsOwned
  BY DEF IndInv
<1>1. /\ pc[t] = "commit"
      /\ pc' = [pc EXCEPT ![t] = IF arena = "physical" THEN "header" ELSE "unlock"]
      /\ mem' = HeaderWritten(f) /\ used' = used \cup {f}
      /\ call' = [call EXCEPT ![t].result = PayloadOf(f)]
      /\ ptr' = ptr /\ size' = size
  BY <1>f DEF CommitFragment, Goto, guest
<1>2. /\ f \in Fragments /\ arena \in Arenas /\ Placed(f, arena)
      /\ f.size >= Amount(t) + O1HEAP_ALIGNMENT
      /\ \A g \in used : Apart(f, g)
  BY <1>0, <1>f, <1>1 DEF IndInv, ChoiceStands, TypeOK, CallRecords
<1>3. /\ f.start \in Nat /\ f.start > 0 /\ f.size \in Nat /\ f.size >= 8
      /\ PayloadOf(f) = f.start + 4
  BY <1>2, FragmentFields
<1>4. /\ \A s \in Threads \ {t} : call'[s] = call[s] /\ pc'[s] = pc[s]
      /\ pc'[t] = IF arena = "physical" THEN "header" ELSE "unlock"
      /\ call'[t].result = PayloadOf(f) /\ call'[t].fragment = f /\ call'[t].size = n
      /\ call'[t].alignment = call[t].alignment
  BY <1>0, <1>f, <1>1 DEF TypeOK, CallRecords
<1>5. \A a \in Words \ Extent(f) : mem'[a] = mem[a]
  BY <1>1, <1>3, ArenaBounds DEF HeaderWritten, Extent
<1>6. \A a \in f.start..(f.start + 3) : a \in Words /\ mem'[a] = IF a = f.start + 2 THEN f.size ELSE Header
  <2>1. \A a \in f.start..(f.start + 3) : a \in Words
    BY <1>2, <1>3, PlacedFragment
  <2>. QED
    BY <1>1, <1>3, <2>1 DEF HeaderWritten
<1>7. \A g \in used : g # f /\ PayloadOf(g) # PayloadOf(f)
  <2>. SUFFICES ASSUME NEW g \in used PROVE g # f /\ PayloadOf(g) # PayloadOf(f)
    OBVIOUS
  <2>1. g \in Fragments /\ Apart(f, g)
    BY <1>0, <1>2 DEF TypeOK
  <2>. QED
    BY <1>3, <2>1, FragmentFields DEF Apart
<1>8. Built(t)' /\ ~Built(t) /\ ~Copied(t)'
  BY <1>1, <1>3, <1>4 DEF Built, Copied, Releasing, NULL
<1>9. \A s \in Threads \ {t} : Built(s)' <=> Built(s)
  BY <1>4 DEF Built
<1>10. \A b \in Blocks : \A p \in Words : Holds(b, p)' <=> Holds(b, p)
  BY <1>0, <1>1, <1>4 DEF Holds, Live, TypeOK, CallRecords
<1>11. ASSUME NEW b \in Blocks, NEW p \in Words, Holds(b, p)
       PROVE  /\ Original(p)' = Original(p) /\ Original(p) # PayloadOf(f)
              /\ \E g \in used' : Home(p, size[b], g)'
              /\ \A a \in p..(p + size[b] - 1) : mem'[a] = b
  <2>1. PICK g \in used : /\ Home(p, size[b], g)
                          /\ Apart(f, g) /\ g \in used' =>
                                /\ Original(p)' = Original(p)
                                /\ \A m : m = size[b] => Home(p, m, g)'
                                /\ \A a \in p..(p + size[b] - 1) : mem'[a] = b
    BY <1>2, <1>5, <1>11, ClaimsUntouched
  <2>2. Home(p, size[b], g)'
    BY <1>1, <1>2, <2>1 DEF Home
  <2>. QED
    BY <1>1, <1>2, <1>7, <2>1, <2>2 DEF Home
<1>12. ASSUME NEW s \in Threads \ {t}, Built(s)
       PROVE  /\ call[s].fragment \in used
              /\ pc[s] # "header" => Home(call[s].result, call[s].size, call[s].fragment)'
              /\ Copied(s) => \A i \in 0..(Lesser(call[s].size, size[call[s].block]) - 1) :
                                 mem'[call[s].result + i] = call[s].block
  <2>1. call[s].fragment \in used
    BY <1>0, <1>12 DEF BuildingsSound
  <2>2. pc[s] # "header" =>
           /\ \A p, m, g : p = call[s].result /\ m = call[s].size /\ g = call[s].fragment => Home(p, m, g)'
           /\ Copied(s) => \A i \in 0..(Lesser(call[s].size, size[call[s].block]) - 1) :
                              mem'[call[s].result + i] = call[s].block
    BY <1>1, <1>2, <1>5, <1>12, <2>1, ClaimsUntouched
  <2>3. Copied(s) => pc[s] # "header"
    BY DEF Copied
  <2>4. call'[s] = call[s]
    BY <1>4
  <2>. QED
    BY <2>1, <2>2, <2>3, <2>4 DEF Home
<1>13. FragmentsPlaced'
  <2>1. ASSUME NEW g \in used, NEW a \in g.start..(g.start + 3)
        PROVE  mem'[a] = IF a = g.start + 2 THEN g.size ELSE Header
    BY <1>2, <1>5, <2>1, ClaimsUntouched
  <2>2. \A g \in used' : \E r \in Arenas : Placed(g, r)
    BY <1>0, <1>1, <1>2 DEF FragmentsPlaced
  <2>3. \A g, h \in used' : g = h \/ Apart(g, h)
    <3>1. \A g \in used : Apart(g, f)
      BY <1>2 DEF Apart
    <3>. QED
      BY <1>0, <1>1, <1>2, <3>1 DEF FragmentsPlaced
  <2>. QED
    BY <1>1, <1>6, <2>1, <2>2, <2>3 DEF FragmentsPlaced, Placed, Apart, Begin, End
<1>14. HoldingsSound'
  <2>. SUFFICES ASSUME NEW b \in Blocks, NEW p \in Words, Holds(b, p)'
                PROVE  /\ \E g \in used' : Home(p, size[b], g)'
                       /\ \A a \in p..(p + size'[b] - 1) : mem'[a] = b
                       /\ \A c \in Blocks \ {b} : \A q \in Words : Holds(c, q)' => Original(q)' # Original(p)'
                       /\ \A s \in Threads : Built(s)' => PayloadOf(call'[s].fragment) # Original(p)'
    BY DEF HoldingsSound, PayloadOf
  <2>1. Holds(b, p)
    BY <1>10
  <2>2. \A c \in Blocks \ {b} : \A q \in Words : Holds(c, q)' => Original(q)' # Original(p)'
    BY <1>0, <1>10, <1>11, <2>1 DEF HoldingsSound
  <2>3. \A s \in Threads : Built(s)' => PayloadOf(call'[s].fragment) # Original(p)'
    BY <1>0, <1>4, <1>9, <1>11, <2>1 DEF HoldingsSound
  <2>. QED
    BY <1>1, <1>11, <2>1, <2>2, <2>3
<1>15. BuildingsSound'
  <2>. SUFFICES ASSUME NEW s \in Threads, Built(s)'
                PROVE  LET g == call'[s].fragment IN
                       /\ g \in used'
                       /\ pc'[s] = "header" => /\ call'[s].result = PayloadOf(g)
                                               /\ Placed(g, "physical")
                                               /\ g.size >= Amount(s)' + O1HEAP_ALIGNMENT
                       /\ pc'[s] # "header" => Home(call[s].result, call[s].size, call[s].fragment)'
                       /\ \A r \in Threads \ {s} : Built(r)' => call'[r].fragment # g
    BY DEF BuildingsSound, PayloadOf, Placed
  <2>1. CASE s = t
    <3>1. Amount(t)' = Amount(t)
      BY <1>f, <1>4 DEF Amount
    <3>2. \A r \in Threads \ {t} : Built(r)' => call'[r].fragment # f
      BY <1>4, <1>7, <1>9, <1>12
    <3>3. ASSUME pc'[t] # "header" PROVE Home(call[t].result, call[t].size, call[t].fragment)'
      <4>1. arena = "virtual"
        BY <1>2, <1>4, <3>3 DEF Arenas
      <4>2. n \in Nat /\ AtLeastOne(n) \in Nat \ {0} /\ n <= AtLeastOne(n)
        BY <1>0, <1>f, AmountBound DEF AtLeastOne, Bigger
      <4>3. f.size >= AtLeastOne(n) + 4
        BY <1>0, <1>1, <1>2, <1>f, <4>1, <4>2 DEF Amount, CallSound, Allocating, O1HEAP_ALIGNMENT
      <4>4. ASSUME NEW p, p = PayloadOf(f) PROVE Home(p, n, f)'
        <5>1. ArenaOf(p) = "virtual" /\ p = f.start + 4 /\ p # NULL
          BY <1>2, <1>3, <4>1, <4>4, PlacedFragment DEF NULL
        <5>2. mem'[p - 2] = f.size
          BY <1>3, <1>6, <5>1
        <5>3. Original(p)' = p /\ Size(p)' = f.size - 4
          BY <5>1, <5>2 DEF Original, Size, O1HEAP_ALIGNMENT
        <5>. QED
          BY <1>1, <1>3, <4>2, <4>3, <5>1, <5>3 DEF Home, Within, PayloadOf
      <4>. QED
        BY <1>4, <4>4 DEF Home
    <3>4. pc'[t] = "header" => Placed(f, "physical")
      BY <1>2, <1>4 DEF Arenas
    <3>. QED
      BY <1>1, <1>2, <1>4, <2>1, <3>1, <3>2, <3>3, <3>4
  <2>2. CASE s # t
    <3>1. Built(s) /\ call'[s] = call[s] /\ pc'[s] = pc[s] /\ Amount(s)' = Amount(s)
      BY <1>4, <1>9, <2>2 DEF Amount
    <3>2. \A r \in Threads \ {s} : Built(r)' => call'[r].fragment # call[s].fragment
      BY <1>0, <1>4, <1>7, <1>9, <1>12, <2>2, <3>1 DEF BuildingsSound
    <3>. QED
      BY <1>0, <1>1, <1>12, <2>2, <3>1, <3>2 DEF BuildingsSound
  <2>. QED
    BY <2>1, <2>2
<1>16. FragmentsOwned'
  <2>. SUFFICES ASSUME NEW g \in used'
                PROVE  \/ \E s \in Threads : Built(s)' /\ call'[s].fragment = g
                       \/ \E b \in Blocks : \E p \in Words : Holds(b, p)' /\ Original(p)' = PayloadOf(g)
    BY DEF FragmentsOwned, PayloadOf
  <2>1. CASE g = f
    BY <1>4, <1>8, <2>1
  <2>2. CASE g \in used
    <3>1. CASE \E s \in Threads : Built(s) /\ call[s].fragment = g
      BY <1>4, <1>8, <1>9, <3>1
    <3>2. CASE \E b \in Blocks : \E p \in Words : Holds(b, p) /\ Original(p) = PayloadOf(g)
      BY <1>10, <1>11, <3>2
    <3>. QED
      BY <1>0, <2>2, <3>1, <3>2 DEF FragmentsOwned
  <2>. QED
    BY <1>1, <2>1, <2>2
<1>17. ReAllocKeepsData'
  <2>. SUFFICES ASSUME NEW s \in Threads, Copied(s)',
                       NEW i \in 0..(Lesser(call'[s].size, size'[call'[s].block]) - 1)
                PROVE  mem'[call'[s].result + i] = call'[s].block
    BY DEF ReAllocKeepsData, Copied
  <2>1. s # t /\ Copied(s) /\ Built(s) /\ call'[s] = call[s]
    BY <1>4, <1>8 DEF Copied, Built, Releasing
  <2>. QED
    BY <1>1, <1>12, <2>1
<1>. QED
  BY <1>13, <1>14, <1>15, <1>16, <1>17 DEF MemorySound

(* What a call hands to o1heapFree is the fragment of the block it frees,  *)
(* and nothing but that fragment.                                          *)
LEMMA FreedFragment ==
    ASSUME IndInv, NEW t \in Threads, pc[t] = "free"
    PROVE  \E g \in used :
              /\ Freed(t) = {g} /\ Original(call[t].old) = PayloadOf(g)
              /\ call[t].old \in Words /\ call[t].old \in Extent(g)
              /\ call[t].block \in Blocks /\ Holds(call[t].block, call[t].old)
<1>0. TypeOK /\ CallSound(t) /\ FragmentsPlaced /\ HoldingsSound
  BY DEF IndInv
<1>. DEFINE b == call[t].block
            p == call[t].old
<1>1. b \in Blocks /\ p \in Words
  BY <1>0 DEF CallSound, Releasing, TypeOK, CallRecords
<1>2. Holds(b, p)
  BY DEF Holds
<1>3. PICK g \in used : Home(p, size[b], g)
  BY <1>0, <1>1, <1>2 DEF HoldingsSound
<1>4. p \in Nat /\ size[b] \in Nat
  <2>1. size[b] \in Sizes \cup {0} /\ Sizes \cup {0} \subseteq Nat
    BY <1>0, <1>1, RequestAssumption DEF TypeOK
  <2>. QED
    BY <1>1, <2>1, ArenaBounds
<1>5. p \in Extent(g)
  BY <1>0, <1>3, <1>4, HomeBounds
<1>6. Original(p) = PayloadOf(g)
  BY <1>3 DEF Home
<1>7. Freed(t) = {g}
  BY <1>0, <1>6, PayloadNames DEF Freed
<1>. QED
  BY <1>1, <1>2, <1>5, <1>6, <1>7

LEMMA FreeStep ==
    ASSUME IndInv, TypeOK', NEW t \in Threads, FreeFragment(t)
    PROVE  MemorySound'
<1>f. PICK b, old : b = call[t].block /\ old = call[t].old
  OBVIOUS
<1>0. /\ TypeOK /\ CallSound(t) /\ OneCallPerBlock /\ FragmentsPlaced
      /\ HoldingsSound /\ BuildingsSound /\ FragmentsOwned
  BY DEF IndInv
<1>1. /\ pc[t] = "free" /\ pc' = [pc EXCEPT ![t] = "unlockFree"]
      /\ used' = used \ Freed(t)
      /\ mem' = [a \in Words |-> IF \E h \in Freed(t) : a \in Extent(h) THEN Stale ELSE mem[a]]
      /\ call' = call /\ ptr' = ptr /\ size' = size
  BY DEF FreeFragment, Goto, guest
<1>2. PICK f \in used : /\ Freed(t) = {f} /\ Original(old) = PayloadOf(f)
                        /\ b \in Blocks /\ old \in Words /\ Holds(b, old)
  BY <1>f, <1>1, FreedFragment
<1>3. f \in Fragments
  BY <1>0 DEF TypeOK
<1>4. used' = used \ {f} /\ \A a \in Words \ Extent(f) : mem'[a] = mem[a]
  BY <1>1, <1>2
<1>5. \A g \in used : g # f => g \in used' /\ Apart(f, g) /\ PayloadOf(g) # PayloadOf(f)
  BY <1>0, <1>4, PayloadNames
<1>6. pc'[t] = "unlockFree" /\ \A s \in Threads \ {t} : pc'[s] = pc[s]
  BY <1>0, <1>1 DEF TypeOK
<1>7. \A s \in Threads : (Built(s)' <=> Built(s)) /\ (Copied(s)' <=> Copied(s))
                         /\ (pc'[s] = "header" <=> pc[s] = "header")
  BY <1>1, <1>6 DEF Built, Copied, Releasing
<1>8. \A p \in Words : Holds(b, p) => p = old
  BY <1>0, <1>f, <1>1 DEF Holds, Live, OneCallPerBlock
<1>9. \A p \in Words : ~Holds(b, p)'
  <2>1. \A s \in Threads \ {t} : pc[s] # "idle" => call[s].block # b
    BY <1>0, <1>f, <1>1 DEF OneCallPerBlock
  <2>. QED
    BY <1>f, <1>1, <1>6, <2>1 DEF Holds, Live
<1>10. \A c \in Blocks \ {b} : \A p \in Words : Holds(c, p)' <=> Holds(c, p)
  BY <1>f, <1>1, <1>6 DEF Holds, Live
<1>11. ASSUME NEW c \in Blocks \ {b}, NEW p \in Words, Holds(c, p)
       PROVE  /\ Original(p)' = Original(p)
              /\ \E g \in used' : Home(p, size[c], g)'
              /\ \A a \in p..(p + size[c] - 1) : mem'[a] = c
  <2>1. PICK g \in used : /\ Home(p, size[c], g)
                          /\ Apart(f, g) /\ g \in used' =>
                                /\ Original(p)' = Original(p)
                                /\ \A m : m = size[c] => Home(p, m, g)'
                                /\ \A a \in p..(p + size[c] - 1) : mem'[a] = c
    BY <1>3, <1>4, <1>11, ClaimsUntouched
  <2>2. Original(p) # Original(old)
    BY <1>0, <1>2, <1>11 DEF HoldingsSound
  <2>3. g # f
    BY <1>2, <2>1, <2>2 DEF Home
  <2>4. Home(p, size[c], g)'
    BY <1>1, <1>5, <2>1, <2>3 DEF Home
  <2>. QED
    BY <1>5, <2>1, <2>3, <2>4
<1>12. ASSUME NEW s \in Threads, Built(s)
       PROVE  /\ call[s].fragment \in used'
              /\ pc[s] # "header" => Home(call[s].result, call[s].size, call[s].fragment)'
              /\ Copied(s) => \A i \in 0..(Lesser(call[s].size, size[call[s].block]) - 1) :
                                 mem'[call[s].result + i] = call[s].block
  <2>1. call[s].fragment \in used /\ call[s].fragment # f
    BY <1>0, <1>2, <1>12 DEF BuildingsSound, HoldingsSound
  <2>2. pc[s] # "header" =>
           /\ \A p, m, g : p = call[s].result /\ m = call[s].size /\ g = call[s].fragment => Home(p, m, g)'
           /\ Copied(s) => \A i \in 0..(Lesser(call[s].size, size[call[s].block]) - 1) :
                              mem'[call[s].result + i] = call[s].block
    BY <1>3, <1>4, <1>5, <1>12, <2>1, ClaimsUntouched
  <2>3. Copied(s) => pc[s] # "header"
    BY DEF Copied
  <2>. QED
    BY <1>1, <1>5, <2>1, <2>2, <2>3 DEF Home
<1>13. FragmentsPlaced'
  <2>1. ASSUME NEW g \in used', NEW a \in g.start..(g.start + 3)
        PROVE  mem'[a] = IF a = g.start + 2 THEN g.size ELSE Header
    <3>1. g \in used /\ Apart(f, g)
      BY <1>4, <1>5
    <3>. QED
      BY <1>3, <1>4, <2>1, <3>1, ClaimsUntouched
  <2>. QED
    BY <1>0, <1>4, <2>1 DEF FragmentsPlaced, Placed, Apart, Begin, End
<1>14. HoldingsSound'
  <2>. SUFFICES ASSUME NEW c \in Blocks, NEW p \in Words, Holds(c, p)'
                PROVE  /\ \E g \in used' : Home(p, size[c], g)'
                       /\ \A a \in p..(p + size'[c] - 1) : mem'[a] = c
                       /\ \A d \in Blocks \ {c} : \A q \in Words : Holds(d, q)' => Original(q)' # Original(p)'
                       /\ \A s \in Threads : Built(s)' => PayloadOf(call'[s].fragment) # Original(p)'
    BY DEF HoldingsSound, PayloadOf
  <2>1. c # b /\ Holds(c, p)
    BY <1>9, <1>10
  <2>2. ASSUME NEW d \in Blocks \ {c}, NEW q \in Words, Holds(d, q)'
        PROVE  Original(q)' # Original(p)'
    <3>1. d # b /\ Holds(d, q)
      BY <1>9, <1>10, <2>2
    <3>. QED
      BY <1>0, <1>11, <2>1, <3>1 DEF HoldingsSound
  <2>3. \A s \in Threads : Built(s)' => PayloadOf(call'[s].fragment) # Original(p)'
    BY <1>0, <1>1, <1>7, <1>11, <2>1 DEF HoldingsSound
  <2>. QED
    BY <1>1, <1>11, <2>1, <2>2, <2>3
<1>15. BuildingsSound'
  <2>. SUFFICES ASSUME NEW s \in Threads, Built(s)'
                PROVE  LET g == call'[s].fragment IN
                       /\ g \in used'
                       /\ pc'[s] = "header" => /\ call'[s].result = PayloadOf(g)
                                               /\ Placed(g, "physical")
                                               /\ g.size >= Amount(s)' + O1HEAP_ALIGNMENT
                       /\ pc'[s] # "header" => Home(call[s].result, call[s].size, call[s].fragment)'
                       /\ \A r \in Threads \ {s} : Built(r)' => call'[r].fragment # g
    BY DEF BuildingsSound, PayloadOf, Placed
  <2>1. Built(s) /\ Amount(s)' = Amount(s)
    BY <1>1, <1>7 DEF Amount
  <2>. QED
    BY <1>0, <1>1, <1>7, <1>12, <2>1 DEF BuildingsSound
<1>16. FragmentsOwned'
  <2>. SUFFICES ASSUME NEW g \in used, g # f
                PROVE  \/ \E s \in Threads : Built(s)' /\ call'[s].fragment = g
                       \/ \E c \in Blocks : \E p \in Words : Holds(c, p)' /\ Original(p)' = PayloadOf(g)
    BY <1>4 DEF FragmentsOwned, PayloadOf
  <2>1. CASE \E s \in Threads : Built(s) /\ call[s].fragment = g
    BY <1>1, <1>7, <2>1
  <2>2. ASSUME NEW c \in Blocks, NEW p \in Words, Holds(c, p), Original(p) = PayloadOf(g)
        PROVE  \E d \in Blocks : \E q \in Words : Holds(d, q)' /\ Original(q)' = PayloadOf(g)
    <3>1. c # b
      BY <1>2, <1>5, <1>8, <2>2
    <3>. QED
      BY <1>10, <1>11, <2>2, <3>1
  <2>. QED
    BY <1>0, <2>1, <2>2 DEF FragmentsOwned
<1>17. ReAllocKeepsData'
  <2>. SUFFICES ASSUME NEW s \in Threads, Copied(s)',
                       NEW i \in 0..(Lesser(call'[s].size, size'[call'[s].block]) - 1)
                PROVE  mem'[call'[s].result + i] = call'[s].block
    BY DEF ReAllocKeepsData, Copied
  <2>1. Copied(s) /\ Built(s)
    BY <1>7 DEF Copied, Built, Releasing
  <2>. QED
    BY <1>1, <1>12, <2>1
<1>. QED
  BY <1>13, <1>14, <1>15, <1>16, <1>17 DEF MemorySound

-----------------------------------------------------------------------------
(* The theorems *)

LEMMA InitInv == Init => IndInv
<1>. SUFFICES ASSUME Init PROVE IndInv
  OBVIOUS
<1>1. TypeOK
  <2>1. NoCall \in CallRecords
    BY DEF NoCall, CallRecords, Arenas
  <2>. QED
    BY <2>1 DEF Init, TypeOK, Locations
<1>2. \A t \in Threads : pc[t] = "idle" /\ CallSound(t) /\ ~Built(t)
  BY DEF Init, CallSound, Built, Allocating, Releasing
<1>3. OneCallPerBlock /\ LocksHeld /\ ChoiceStands /\ ReAllocKeepsData
  BY <1>2 DEF OneCallPerBlock, LocksHeld, ChoiceStands, ReAllocKeepsData
<1>4. FragmentsPlaced /\ FragmentsOwned
  BY DEF Init, FragmentsPlaced, FragmentsOwned
<1>5. HoldingsSound /\ BuildingsSound
  BY <1>2 DEF Init, HoldingsSound, BuildingsSound, Holds, Live
<1>. QED
  BY <1>1, <1>2, <1>3, <1>4, <1>5 DEF IndInv

LEMMA MemoryStep ==
    ASSUME IndInv, Next
    PROVE  MemorySound'
<1>1. TypeOK'
  BY TypeStep
<1>. SUFFICES ASSUME NEW t \in Threads, Step(t) \/ GuestCall(t) PROVE MemorySound'
  <2>1. CASE Dead
    BY <2>1 DEF Dead, vars, guest, IndInv, MemorySound, FragmentsPlaced, HoldingsSound,
       BuildingsSound, FragmentsOwned, ReAllocKeepsData, Holds, Live, Built, Home, Original, Size,
       Placed, Apart, Amount, Within, PayloadOf, Begin, End
  <2>. QED
    BY <2>1 DEF Next
<1>2. CASE WriteBlockHeader(t)
  BY <1>1, <1>2, HeaderStep
<1>3. CASE CopyBlock(t)
  BY <1>1, <1>3, CopyStep
<1>4. CASE FillBlock(t)
  BY <1>1, <1>4, FillStep
<1>5. CASE CommitFragment(t)
  BY <1>1, <1>5, CommitStep
<1>6. CASE FreeFragment(t)
  BY <1>1, <1>6, FreeStep
<1>7. CASE LockArena(t) \/ ChooseFragment(t) \/ OutOfMemory(t) \/ UnlockArena(t)
           \/ LockForFree(t) \/ UnlockAfterFree(t)
  BY <1>7, QuietActions
<1>8. CASE GuestCall(t)
  <2>1. \A a \in Alignments \cup {0} : a \in Nat
    BY RequestAssumption
  <2>. QED
    BY <1>8, <2>1, QuietActions DEF GuestCall, Arenas
<1>. QED
  BY <1>2, <1>3, <1>4, <1>5, <1>6, <1>7, <1>8 DEF Step

LEMMA InductiveStep == IndInv /\ [Next]_vars => IndInv'
<1>. SUFFICES ASSUME IndInv, [Next]_vars PROVE IndInv'
  OBVIOUS
<1>1. CASE Next
  BY <1>1, TypeStep, CallStep, LockStep, ChoiceStep, MemoryStep DEF IndInv, MemorySound
<1>2. CASE UNCHANGED vars
  BY <1>2 DEF vars, guest, IndInv, TypeOK, CallSound, OneCallPerBlock, LocksHeld, ChoiceStands,
     FragmentsPlaced, HoldingsSound, BuildingsSound, FragmentsOwned, ReAllocKeepsData,
     Holds, Live, Built, Home, Original, Size, Amount
<1>. QED
  BY <1>1, <1>2

(* The invariant of the heap: every fragment o1heap has handed out is the  *)
(* home of one block, or of one call that is building one, whatever the    *)
(* arenas, the requests and the threads.                                   *)
THEOREM Invariant == Spec => []IndInv
<1>. QED
  BY InitInv, InductiveStep, PTL DEF Spec

(* No write of the heap or of another block reaches a block that its guest *)
(* holds, in Heap::Alloc, AllocPhysical, Free and RtlReAllocateHeap.       *)
THEOREM BlocksStayIntact == Spec => []BlocksIntact
<1>1. IndInv => BlocksIntact
  <2>. SUFFICES ASSUME IndInv, NEW b \in Blocks, Live(b) PROVE \A a \in ptr[b]..(ptr[b] + size[b] - 1) : mem[a] = b
    BY DEF BlocksIntact
  <2>1. ptr[b] \in Words /\ Holds(b, ptr[b])
    BY DEF IndInv, TypeOK, Live, Holds
  <2>. QED
    BY <2>1 DEF IndInv, HoldingsSound
<1>. QED
  BY <1>1, Invariant, PTL

(* o1heap's headers survive, and no word is handed out twice. *)
THEOREM FragmentsStayIntact == Spec => []FragmentsIntact
<1>1. IndInv => FragmentsIntact
  BY ApartIsDisjoint DEF IndInv, TypeOK, FragmentsPlaced, FragmentsIntact
<1>. QED
  BY <1>1, Invariant, PTL

(* Heap::Size of a block is no less than was asked for and no more than    *)
(* its fragment holds.                                                     *)
THEOREM SizesAreSound == Spec => []SizeSound
<1>1. IndInv => SizeSound
  <2>. SUFFICES ASSUME IndInv, NEW b \in Blocks, Live(b)
                PROVE  \E f \in used : size[b] <= Size(ptr[b]) /\ Within(ptr[b], Size(ptr[b]), f)
    BY DEF SizeSound
  <2>1. ptr[b] \in Words /\ Holds(b, ptr[b])
    BY DEF IndInv, TypeOK, Live, Holds
  <2>. QED
    BY <2>1 DEF IndInv, HoldingsSound, Home
<1>. QED
  BY <1>1, Invariant, PTL

(* Heap::Free hands o1heapFree the fragment of the block, and only that.   *)
THEOREM FreesAreSound == Spec => []FreesOwnFragment
<1>1. IndInv => FreesOwnFragment
  BY FreedFragment DEF FreesOwnFragment
<1>. QED
  BY <1>1, Invariant, PTL

(* Nothing leaks: a fragment in use is a guest's block or a call's.        *)
THEOREM NothingLeaks == Spec => []EveryFragmentOwned
<1>1. IndInv => EveryFragmentOwned
  <2>. SUFFICES ASSUME IndInv, NEW f \in used
                PROVE  \/ \E b \in Blocks : Live(b) /\ ptr[b] \in Extent(f)
                       \/ \E t \in Threads : pc[t] # "idle" /\ Extent(f) \cap {call[t].result, call[t].old} # {}
    BY DEF EveryFragmentOwned
  <2>0. TypeOK /\ FragmentsPlaced /\ f \in Fragments
    BY DEF IndInv, TypeOK
  <2>1. ASSUME NEW t \in Threads, Built(t), call[t].fragment = f
        PROVE  pc[t] # "idle" /\ call[t].result \in Extent(f)
    <3>1. pc[t] = "header" => call[t].result = PayloadOf(f)
      BY <2>1 DEF IndInv, BuildingsSound
    <3>2. PayloadOf(f) \in Extent(f)
      BY <2>0, FragmentFields DEF Extent
    <3>3. call[t].result \in Nat /\ call[t].size \in Nat
      <4>1. call[t].result \in Words
        BY <2>0, <2>1 DEF TypeOK, CallRecords, Built
      <4>. QED
        BY <2>0, <4>1, ArenaBounds, AmountBound
    <3>4. pc[t] # "header" => call[t].result \in Extent(f)
      BY <2>0, <2>1, <3>3, HomeBounds DEF IndInv, BuildingsSound
    <3>. QED
      BY <2>1, <3>1, <3>2, <3>4 DEF Built, Releasing
  <2>2. ASSUME NEW b \in Blocks, NEW p \in Words, Holds(b, p), Original(p) = PayloadOf(f)
        PROVE  p \in Extent(f)
    <3>1. PICK g \in used : Home(p, size[b], g)
      BY <2>2 DEF IndInv, HoldingsSound
    <3>2. g = f
      BY <2>0, <2>2, <3>1, PayloadNames DEF Home
    <3>3. size[b] \in Sizes \cup {0} /\ Sizes \cup {0} \subseteq Nat
      BY <2>0, RequestAssumption DEF TypeOK
    <3>4. size[b] \in Nat /\ p \in Nat
      BY <3>3, ArenaBounds
    <3>. QED
      BY <2>0, <3>1, <3>2, <3>4, HomeBounds
  <2>. QED
    BY <2>1, <2>2 DEF IndInv, FragmentsOwned, Holds
<1>. QED
  BY <1>1, Invariant, PTL

(* RtlReAllocateHeap loses none of the data that fit in the new block.     *)
THEOREM ReAllocIsFaithful == Spec => []ReAllocKeepsData
<1>1. IndInv => ReAllocKeepsData
  BY DEF IndInv
<1>. QED
  BY <1>1, Invariant, PTL
=============================================================================
