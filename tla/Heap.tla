---------------------------------- MODULE Heap ----------------------------------
(***************************************************************************)
(* The guest heap of heap.cpp: a virtual and a physical arena, each an     *)
(* o1heap under its own mutex, and the calls made of them: RtlAllocateHeap,*)
(* RtlReAllocateHeap, RtlFreeHeap, XAllocMem and XFreeMem.                 *)
(*                                                                         *)
(* Memory is modelled in words of 8 bytes, because what can go wrong is    *)
(* what a word holds: the header o1heap keeps before each fragment, the    *)
(* size and the back pointer that AllocPhysical writes before an aligned   *)
(* block and that Free and Size read back, and the guest's own data.       *)
(***************************************************************************)
EXTENDS Integers, FiniteSets

CONSTANTS
    Threads,        \* the guest threads
    NoThread,       \* a mutex that is free
    Blocks,         \* the allocations a guest may hold at once
    Stale,          \* what a word holds that nobody relies on
    Header,         \* a word of a fragment's header other than its size
    Sizes,          \* sizes asked for, in words (0 included)
    Alignments,     \* alignments asked for, in words (0 asks for a page)
    PageAlignment,  \* 0x1000 bytes, scaled down
    FragmentSizes,  \* the sizes o1heap rounds up to: powers of two
    VirtualBegin, VirtualEnd,       \* the words the virtual arena hands out
    PhysicalBegin, PhysicalEnd      \* the words the physical arena hands out

MinAlignment      == 2      \* 16 bytes
O1HEAP_ALIGNMENT  == 4      \* sizeof(void*) * 4, also the size of a fragment's header

(* The arenas do not meet, and start where o1heap may start a fragment. *)
ASSUME ArenaAssumption ==
    /\ {VirtualBegin, VirtualEnd, PhysicalBegin, PhysicalEnd} \subseteq Nat \ {0}
    /\ VirtualBegin <= VirtualEnd /\ VirtualEnd < PhysicalBegin /\ PhysicalBegin <= PhysicalEnd
    /\ VirtualBegin % O1HEAP_ALIGNMENT = 0 /\ PhysicalBegin % O1HEAP_ALIGNMENT = 0
ASSUME FragmentAssumption ==
    FragmentSizes \subseteq {n \in Nat : n >= 8 /\ n % O1HEAP_ALIGNMENT = 0}
(* An alignment is a power of two: 8 bytes, or an even number of words. *)
ASSUME RequestAssumption  ==
    /\ Sizes \subseteq Nat /\ Alignments \subseteq Nat /\ PageAlignment \in Nat \ {0}
    /\ \A a \in Alignments \cup {PageAlignment} : a = 1 \/ a % 2 = 0
    /\ PageAlignment # 1
ASSUME ThreadAssumption   == NoThread \notin Threads

NULL == 0

Arenas == {"virtual", "physical"}
Words  == VirtualBegin..(VirtualEnd - 1) \cup PhysicalBegin..(PhysicalEnd - 1)

VARIABLES
    mem,        \* what each word of the arenas holds
    used,       \* the fragments o1heap has handed out
    owner,      \* the holder of each arena's mutex
    ptr,        \* the guest's pointer to each block, NULL if it has none
    size,       \* the size the guest asked for
    pc, call,   \* each thread's place, and the arguments and locals of its call
    halted      \* the process has died: "assert" or "fault"

vars  == <<mem, used, owner, ptr, size, pc, call, halted>>
guest == <<ptr, size>>

Fragments == [start : Words, size : FragmentSizes]

Bigger(m, n) == IF m < n THEN n ELSE m
Lesser(m, n) == IF m < n THEN m ELSE n

(* The size argument of o1heapAllocate, never 0. *)
AtLeastOne(n) == Bigger(1, n)
(* Faulty: an alignment below 16 bytes is taken as it is. *)
EffectiveAlignment_NoMinimum(a) == IF a = 0 THEN PageAlignment ELSE a

EffectiveAlignment(a) == IF a = 0 THEN PageAlignment ELSE Bigger(MinAlignment, a)

(* (ptr + alignment) & ~(alignment - 1) *)
AlignPast(p, a) == (p + a) - ((p + a) % a)

-----------------------------------------------------------------------------
(* o1heap *)

Begin(arena) == IF arena = "virtual" THEN VirtualBegin ELSE PhysicalBegin
End(arena)   == IF arena = "virtual" THEN VirtualEnd ELSE PhysicalEnd

Extent(f) == f.start..(f.start + f.size - 1)

(* A fragment is cut from the start of a free run that is long enough. *)
Candidates(arena, amount) ==
    {f \in [start : {Begin(arena)} \cup {g.start + g.size : g \in used}, size : FragmentSizes] :
        /\ f.start \in Begin(arena)..(End(arena) - f.size)
        /\ f.size >= amount + O1HEAP_ALIGNMENT
        /\ \A n \in FragmentSizes : n >= amount + O1HEAP_ALIGNMENT => n >= f.size
        /\ \A g \in used : Extent(g) \cap Extent(f) = {}}

HeaderWritten(f) ==
    [a \in Words |-> IF a = f.start + 2 THEN f.size
                     ELSE IF a \in f.start..(f.start + 3) THEN Header ELSE mem[a]]

PayloadOf(f) == f.start + O1HEAP_ALIGNMENT

-----------------------------------------------------------------------------
Locations == {"idle", "lock", "choose", "commit", "header", "unlock", "copy", "fill",
              "lockFree", "free", "unlockFree"}

NoCall == [block |-> NULL, arena |-> "virtual", size |-> 0, alignment |-> 0,
           old |-> NULL, fragment |-> [start |-> 0, size |-> 0], result |-> NULL]

Init ==
    /\ mem = [a \in Words |-> Stale]
    /\ used = {}
    /\ owner = [arena \in Arenas |-> NoThread]
    /\ ptr = [b \in Blocks |-> NULL]
    /\ size = [b \in Blocks |-> 0]
    /\ pc = [t \in Threads |-> "idle"]
    /\ call = [t \in Threads |-> NoCall]
    /\ halted = "no"

Goto(t, from, to) == halted = "no" /\ pc[t] = from /\ pc' = [pc EXCEPT ![t] = to]

(* No other call is using block b: a guest does not race on its own data. *)
Unshared(b) == \A t \in Threads : pc[t] # "idle" => call[t].block # b

(* Heap::Alloc through RtlAllocateHeap or XAllocMem, Heap::AllocPhysical   *)
(* through XAllocMem.                                                      *)
AllocCall(t, b, arena, n, a) ==
    /\ Goto(t, "idle", "lock")
    /\ ptr[b] = NULL /\ Unshared(b)
    /\ call' = [call EXCEPT ![t] =
                  [NoCall EXCEPT !.block = b, !.arena = arena, !.size = n,
                                 !.alignment = IF arena = "virtual" THEN 0
                                               ELSE EffectiveAlignment(a)]]
    /\ UNCHANGED <<mem, used, owner, guest, halted>>

(* RtlReAllocateHeap always allocates in the virtual arena. *)
ReAllocCall(t, b, n) ==
    /\ Goto(t, "idle", "lock")
    /\ ptr[b] # NULL /\ Unshared(b)
    /\ call' = [call EXCEPT ![t] = [NoCall EXCEPT !.block = b, !.size = n, !.old = ptr[b]]]
    /\ UNCHANGED <<mem, used, owner, guest, halted>>

(* RtlFreeHeap and XFreeMem; the block is the guest's no more. *)
FreeCall(t, b) ==
    /\ Goto(t, "idle", "lockFree")
    /\ ptr[b] # NULL /\ Unshared(b)
    /\ call' = [call EXCEPT ![t] = [NoCall EXCEPT !.block = b, !.old = ptr[b]]]
    /\ ptr' = [ptr EXCEPT ![b] = NULL]
    /\ UNCHANGED <<mem, used, owner, size, halted>>

(* LockGuard *)
Acquire(t, arena) == owner[arena] = NoThread /\ owner' = [owner EXCEPT ![arena] = t]

LockArena(t) ==
    /\ Goto(t, "lock", "choose")
    /\ Acquire(t, call[t].arena)
    /\ UNCHANGED <<mem, used, guest, call, halted>>

(* Faulty: no room is asked for the alignment. *)
Amount_WithoutAlignment(t) == AtLeastOne(call[t].size)

Amount(t) == AtLeastOne(call[t].size) + call[t].alignment

(* o1heapAllocate reads its free lists... *)
ChooseFragment(t) ==
    /\ Goto(t, "choose", "commit")
    /\ \E f \in Candidates(call[t].arena, Amount(t)) :
          call' = [call EXCEPT ![t].fragment = f]
    /\ UNCHANGED <<mem, used, owner, guest, halted>>

(* ... and updates them. *)
CommitFragment(t) ==
    LET f == call[t].fragment IN
    /\ Goto(t, "commit", IF call[t].arena = "physical" THEN "header" ELSE "unlock")
    /\ used' = used \cup {f}
    /\ mem' = HeaderWritten(f)
    /\ call' = [call EXCEPT ![t].result = PayloadOf(f)]
    /\ UNCHANGED <<owner, guest, halted>>

(* AllocPhysical: the header before the aligned block. *)
WriteBlockHeader(t) ==
    LET p == call[t].result
        aligned == AlignPast(p, call[t].alignment) IN
    /\ Goto(t, "header", "unlock")
    /\ mem' = [mem EXCEPT ![aligned - 1] = p,
                          ![aligned - 2] = AtLeastOne(call[t].size) + O1HEAP_ALIGNMENT]
    /\ call' = [call EXCEPT ![t].result = aligned]
    /\ UNCHANGED <<used, owner, guest, halted>>

Release(t, arena) == owner' = [owner EXCEPT ![arena] = NoThread]

UnlockArena(t) ==
    /\ Goto(t, "unlock", IF call[t].old = NULL THEN "fill" ELSE "copy")
    /\ Release(t, call[t].arena)
    /\ UNCHANGED <<mem, used, guest, call, halted>>

(* The arena has no room and o1heapAllocate returns NULL.  AllocPhysical   *)
(* writes its header all the same.  The Rtl and X functions clear (when    *)
(* asked to) and copy through the pointer before they assert it.           *)
OutOfMemory(t) ==
    /\ halted = "no" /\ pc[t] = "choose"
    /\ Candidates(call[t].arena, Amount(t)) = {}
    /\ \E zeroed \in BOOLEAN :
          LET copied == IF call[t].old = NULL THEN 0
                        ELSE Lesser(call[t].size, mem[call[t].old - 2] - O1HEAP_ALIGNMENT) IN
          halted' = IF \/ call[t].arena = "physical"
                       \/ zeroed /\ call[t].size > 0
                       \/ copied > 0
                    THEN "fault" ELSE "assert"
    /\ UNCHANGED <<mem, used, owner, guest, pc, call>>

(* Faulty: the header is subtracted twice. *)
Size_HeaderTwice(p) == IF p = NULL THEN 0 ELSE mem[p - 2] - 2 * O1HEAP_ALIGNMENT

(* Heap::Size *)
Size(p) == IF p = NULL THEN 0 ELSE mem[p - 2] - O1HEAP_ALIGNMENT

(* RtlReAllocateHeap: memcpy of what both blocks can hold. *)
CopyBlock(t) ==
    LET new == call[t].result
        old == call[t].old
        n   == Lesser(call[t].size, Size(old)) IN
    /\ Goto(t, "copy", "lockFree")
    /\ mem' = [a \in Words |-> IF a \in new..(new + n - 1) THEN mem[old + (a - new)] ELSE mem[a]]
    /\ UNCHANGED <<used, owner, guest, call, halted>>

-----------------------------------------------------------------------------
(* Heap::Free of call[t].old *)

ArenaOf(p) == IF p >= PhysicalBegin THEN "physical" ELSE "virtual"

LockForFree(t) ==
    /\ Goto(t, "lockFree", "free")
    /\ Acquire(t, ArenaOf(call[t].old))
    /\ UNCHANGED <<mem, used, guest, call, halted>>

(* Faulty: the aligned pointer itself is freed. *)
Original_Aligned(p) == p

(* What is handed to o1heapFree: the back pointer of a physical block. *)
Original(p) == IF ArenaOf(p) = "physical" THEN mem[p - 1] ELSE p

Freed(t) == {f \in used : PayloadOf(f) = Original(call[t].old)}

(* The guest no longer relies on any word of the fragment. *)
FreeFragment(t) ==
    /\ Goto(t, "free", "unlockFree")
    /\ used' = used \ Freed(t)
    /\ mem' = [a \in Words |-> IF \E f \in Freed(t) : a \in Extent(f) THEN Stale ELSE mem[a]]
    /\ UNCHANGED <<owner, guest, call, halted>>

UnlockAfterFree(t) ==
    /\ Goto(t, "unlockFree", IF call[t].result = NULL THEN "idle" ELSE "fill")
    /\ Release(t, ArenaOf(call[t].old))
    /\ size' = IF call[t].result = NULL THEN [size EXCEPT ![call[t].block] = 0] ELSE size
    /\ call' = IF call[t].result = NULL THEN [call EXCEPT ![t] = NoCall] ELSE call
    /\ UNCHANGED <<mem, used, ptr, halted>>

(* The call returns its pointer; clearing the block and the guest's own    *)
(* writes reach every word it asked for.                                   *)
FillBlock(t) ==
    LET p == call[t].result
        b == call[t].block IN
    /\ Goto(t, "fill", "idle")
    /\ mem' = [a \in Words |-> IF a \in p..(p + call[t].size - 1) THEN b ELSE mem[a]]
    /\ ptr' = [ptr EXCEPT ![b] = p]
    /\ size' = [size EXCEPT ![b] = call[t].size]
    /\ call' = [call EXCEPT ![t] = NoCall]
    /\ UNCHANGED <<used, owner, halted>>

-----------------------------------------------------------------------------
Step(t) ==
    \/ LockArena(t) \/ ChooseFragment(t) \/ OutOfMemory(t) \/ CommitFragment(t)
    \/ WriteBlockHeader(t) \/ UnlockArena(t) \/ CopyBlock(t)
    \/ LockForFree(t) \/ FreeFragment(t) \/ UnlockAfterFree(t) \/ FillBlock(t)

GuestCall(t) ==
    \E b \in Blocks :
        \/ \E n \in Sizes : \/ AllocCall(t, b, "virtual", n, 0)
                            \/ \E a \in Alignments : AllocCall(t, b, "physical", n, a)
                            \/ ReAllocCall(t, b, n)
        \/ FreeCall(t, b)

(* The process is gone after a failed assertion or an access fault. *)
Dead == halted # "no" /\ UNCHANGED vars

Next == Dead \/ \E t \in Threads : Step(t) \/ GuestCall(t)

Spec == Init /\ [][Next]_vars

-----------------------------------------------------------------------------
(* Correctness *)

CallRecords ==
    [block : Blocks \cup {NULL}, arena : Arenas, size : Sizes \cup {0}, alignment : Nat,
     old : Words \cup {NULL}, fragment : Fragments \cup {NoCall.fragment},
     result : Words \cup {NULL}]

TypeOK ==
    /\ DOMAIN mem = Words
    /\ used \subseteq Fragments
    /\ owner \in [Arenas -> Threads \cup {NoThread}]
    /\ ptr \in [Blocks -> {NULL} \cup Words]
    /\ size \in [Blocks -> Sizes \cup {0}]
    /\ pc \in [Threads -> Locations]
    /\ call \in [Threads -> CallRecords]
    /\ halted \in {"no", "assert", "fault"}

(* Live: the guest holds the block and no reallocation of it is past the copy. *)
Live(b) == ptr[b] # NULL /\ \A t \in Threads :
              call[t].block = b => pc[t] \notin {"free", "unlockFree", "fill"}

(* No header write, copy or other guest's data ever reaches a word of a    *)
(* block that its guest still holds.                                       *)
BlocksIntact ==
    \A b \in Blocks : Live(b) => \A a \in ptr[b]..(ptr[b] + size[b] - 1) : mem[a] = b

(* The allocator's own headers survive everything written around them, and *)
(* it never hands out the same word twice.                                 *)
FragmentsIntact ==
    \A f \in used :
        /\ \A a \in f.start..(f.start + 3) : mem[a] = IF a = f.start + 2 THEN f.size ELSE Header
        /\ \A g \in used : g # f => Extent(f) \cap Extent(g) = {}

Within(p, n, f) == p >= PayloadOf(f) /\ p + n <= f.start + f.size

(* Size of a live block, of either arena, is at least what was asked for   *)
(* and no more than its fragment holds: a copy bounded by it loses nothing *)
(* and reads no other fragment.                                            *)
SizeSound ==
    \A b \in Blocks : Live(b) =>
        \E f \in used : size[b] <= Size(ptr[b]) /\ Within(ptr[b], Size(ptr[b]), f)

(* o1heapFree is handed exactly one fragment, the one the block lies in.   *)
FreesOwnFragment ==
    \A t \in Threads : pc[t] = "free" =>
        \E f \in used : Freed(t) = {f} /\ call[t].old \in Extent(f)

(* Nothing leaks: every fragment is some guest's block, or is being        *)
(* allocated or freed by a call.                                           *)
EveryFragmentOwned ==
    \A f \in used :
        \/ \E b \in Blocks : Live(b) /\ ptr[b] \in Extent(f)
        \/ \E t \in Threads : pc[t] # "idle" /\ Extent(f) \cap {call[t].result, call[t].old} # {}

(* When RtlReAllocateHeap frees the old block, the new one begins with all *)
(* the data of the old one that fits.                                      *)
ReAllocKeepsData ==
    \A t \in Threads :
        pc[t] \in {"lockFree", "free", "unlockFree", "fill"} /\ call[t].old # NULL /\ call[t].result # NULL =>
            LET b == call[t].block IN
            \A i \in 0..(Lesser(call[t].size, size[b]) - 1) : mem[call[t].result + i] = b

-----------------------------------------------------------------------------
(* The inductive invariant: who relies on which fragment. *)

Allocating == {"lock", "choose", "commit", "header", "unlock", "copy"}
Releasing  == {"lockFree", "free", "unlockFree"}

(* What the place of a call says of its arguments and locals. *)
CallSound(t) ==
    LET c == call[t] IN
    /\ pc[t] # "idle" => c.block \in Blocks
    /\ pc[t] \in {"lock", "choose", "commit"} => c.result = NULL
    /\ pc[t] \in {"header", "unlock", "copy", "fill"} => c.result # NULL
    /\ pc[t] \in Allocating =>
          /\ c.old = ptr[c.block] /\ c.size \in Sizes
          /\ c.arena = "physical" => c.old = NULL /\ c.alignment >= 2 /\ c.alignment % 2 = 0
          /\ c.arena = "virtual" => c.alignment = 0
    /\ pc[t] = "header" => c.arena = "physical"
    /\ pc[t] = "copy" => c.old # NULL
    /\ pc[t] \in Releasing => c.old # NULL /\ ptr[c.block] = IF c.result = NULL THEN NULL ELSE c.old

OneCallPerBlock ==
    \A t, s \in Threads :
        t # s /\ pc[t] # "idle" /\ pc[s] # "idle" => call[t].block # call[s].block

LocksHeld ==
    \A t \in Threads :
        /\ pc[t] \in {"choose", "commit", "header", "unlock"} => owner[call[t].arena] = t
        /\ pc[t] \in {"free", "unlockFree"} => owner[ArenaOf(call[t].old)] = t

Apart(f, g) == f.start + f.size <= g.start \/ g.start + g.size <= f.start

Placed(f, arena) ==
    f.start >= Begin(arena) /\ f.start + f.size <= End(arena) /\ f.start % O1HEAP_ALIGNMENT = 0

FragmentsPlaced ==
    /\ \A f \in used : \E arena \in Arenas : Placed(f, arena)
    /\ \A f, g \in used : f = g \/ Apart(f, g)
    /\ \A f \in used : \A a \in f.start..(f.start + 3) :
          mem[a] = IF a = f.start + 2 THEN f.size ELSE Header

(* Between o1heap's reading its lists and updating them, they stand still. *)
ChoiceStands ==
    \A t \in Threads : pc[t] = "commit" =>
        LET f == call[t].fragment IN
        /\ f \in Fragments /\ Placed(f, call[t].arena)
        /\ f.size >= Amount(t) + O1HEAP_ALIGNMENT
        /\ \A g \in used : Apart(f, g)

(* Pointer p, to n words, lies in fragment f and leads back to it. *)
Home(p, n, f) ==
    /\ f \in used
    /\ Original(p) = PayloadOf(f)
    /\ Size(p) \in Nat \ {0} /\ n <= Size(p)
    /\ Within(p, Size(p), f)
    /\ ArenaOf(p) = "physical" => p >= PayloadOf(f) + 2

(* The data of block b are at p: its guest, or a call that frees it, says so. *)
Holds(b, p) ==
    \/ Live(b) /\ ptr[b] = p
    \/ \E t \in Threads :
          pc[t] \in {"lockFree", "free"} /\ call[t].block = b /\ call[t].old = p

(* A call has a fragment that no guest holds yet. *)
Built(t) ==
    call[t].result # NULL /\ pc[t] \in {"header", "unlock", "copy"} \cup Releasing \cup {"fill"}

HoldingsSound ==
    \A b \in Blocks : \A p \in Words : Holds(b, p) =>
        /\ \E f \in used : Home(p, size[b], f)
        /\ \A a \in p..(p + size[b] - 1) : mem[a] = b
        /\ \A c \in Blocks \ {b} : \A q \in Words : Holds(c, q) => Original(q) # Original(p)
        /\ \A t \in Threads : Built(t) => PayloadOf(call[t].fragment) # Original(p)

BuildingsSound ==
    \A t \in Threads : Built(t) =>
        LET f == call[t].fragment IN
        /\ f \in used
        /\ pc[t] = "header" => /\ call[t].result = PayloadOf(f)
                               /\ Placed(f, "physical")
                               /\ f.size >= Amount(t) + O1HEAP_ALIGNMENT
        /\ pc[t] # "header" => Home(call[t].result, call[t].size, f)
        /\ \A s \in Threads \ {t} : Built(s) => call[s].fragment # f

FragmentsOwned ==
    \A f \in used :
        \/ \E t \in Threads : Built(t) /\ call[t].fragment = f
        \/ \E b \in Blocks : \E p \in Words : Holds(b, p) /\ Original(p) = PayloadOf(f)

IndInv ==
    /\ TypeOK
    /\ \A t \in Threads : CallSound(t)
    /\ OneCallPerBlock
    /\ LocksHeld
    /\ FragmentsPlaced
    /\ ChoiceStands
    /\ HoldingsSound
    /\ BuildingsSound
    /\ FragmentsOwned
    /\ ReAllocKeepsData
==============================================================================
