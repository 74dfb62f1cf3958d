# RushXenonNX in TLA+

RushXenonNX runs a statically recompiled Xbox 360 title on the Switch. The
recompiled PowerPC code is not in the repository; what is there is the runtime
around it, under `src/RushXenonNX/`: the kernel functions the guest calls, its
threads and heap, the loader of its executable and the patcher that produces
it. This directory holds TLA+ models of that runtime, the TLC configurations
that check them, and TLAPS proofs about them. Paths below are relative to
`src/RushXenonNX/`.

## 1. The system

| Part | Source | State | Operations | What makes it correct |
|---|---|---|---|---|
| Critical sections | `kernel.cpp:14-63`, `xbox.h` | `OwningThread`, `RecursionCount` in guest memory | initialise, enter, leave | a recursive lock; the unprotected counter never disagrees with the owner; no waiter is forgotten |
| Kernel objects | `xdm.h:98-155` | signature and link words of dispatcher headers, `g_kernelLock` | query, try-query | one object per header, for ever; every query returns it |
| Guest heap | `heap.cpp`, `heap.h` | two o1heap arenas, two mutexes, the two words before a physical block | Rtl and X allocate, reallocate, size, free | blocks keep their data, `Size` and `Free` find the right words, nothing leaks |
| Guest threads | `guest_thread.cpp` | handle, stack, context block, libnx thread | create, wait, destroy; the thread's own wrapper | a wait answers only for a finished thread, a stack outlives its thread, contexts are distinct |
| XEX patcher | `xex_patcher.cpp` | the output buffer, its cursors, the new file | apply to bytes, apply to files | delta patches are applied to the base's bytes, a file is written whole or not at all |
| Boot and loader | `main.cpp`, `memory.cpp`, `fs_helpers.cpp` | guest memory, the reader's file, the entry point | `main`, `LdrLoadModule`, `BinaryReader` | the game runs on a whole executable or not at all |
| Images | `xex.cpp`, `image.cpp`, `section.h` | image data, sections, symbols | `ParseImage`, `Xex2LoadImage`, `Find` | imports are resolved once each |
| Mapped file | `memory_mapped_file.cpp` | a descriptor or `FILE*`, a buffer or mapping, a size | open, close, isOpen | open means read; closed means released |
| XDBF wrapper | `xdbf_wrapper.cpp` | pointers into guest memory | constructor, look-ups | a look-up answers what the resource holds |
| Symbol table | `symbol_table.h` | symbols ordered by address | insert, find | find returns the symbol that begins at an address |
| Guest calls | `function.h` | registers, guest stack, the thread's current context | a hook called by the guest, a guest function called by the host | each value arrives where the other side looks; the current context is the innermost call's |
| Logger | `nxlogger.cpp` | one `FILE*` | init, log, close | nothing is written to a closed file |
| Endianness | `byteswap.h` | none | swaps | |
| Not the program's own | `aes.c`, `TinySHA1.hpp`, `xbox/*.inc`, `RushXenonNXLib/config/*.toml`, `backups/` | | | vendored code, generated tables, a file nothing builds |

**How they interact.** `main` sets up guest memory and the heaps, has
`LdrLoadModule` read the executable through `BinaryReader`, parse it into an
`Image`, copy that into guest memory at its base and hang the XDBF wrapper on a
resource in it; then `GuestThread::Start(params)` runs the guest's entry point
synchronously, on `main`'s own thread. The image's base lies in the address
range kept free between the virtual and the physical heap. From there on guest
code creates threads and calls the kernel functions concurrently. The value of
r13, the address of a thread's context block, is the identity that a critical
section records, so mutual exclusion rests on the guest-thread code giving every
running thread a context of its own, and that code takes the context from the
guest heap, which is shared by all threads under one mutex for each arena.
Every kernel function is reached through a hook of `function.h`, which translates
its arguments. Kernel objects share one host mutex. The patcher works on files, before all of
this.

**What is hard here.** Compare-and-swap and wait/notify on one word with a plain
counter beside it (`kernel.cpp:33-61`); a read of the signature without the lock
(`xdm.h:150`); an allocator whose `Free` and `Size` find their data in words
whose place depends on the arena (`heap.cpp:76-95`); thread objects half made
when a libnx call fails (`guest_thread.cpp:70-113`); a decompression in place
over a buffer that is also its input (`xex_patcher.cpp:394-404`); offsets taken
from two files and combined (`xex_patcher.cpp:246-530`); records of 16 bytes
walked with a correction of -4 (`xex_patcher.cpp:189-219`); contexts that are
freed and allocated again while a lock is known by their address; many early returns, each
of which must leave nothing behind (`main.cpp:22-50`). `PROJECT.json` lists each
hazard at its line with the properties that cover it.

## 2. Modules

Every definition that models code is mapped to its lines in `PROJECT.json`. A
definition called `X_Something` and introduced as *Faulty* is not part of any
specification: it is a plausible bug in the action or operator `X` below it.
The properties are tested with it, each being violated by one such variant.

### Critical sections: `RecursiveLock`, `CriticalSection`

`CriticalSection` models one guest critical section at the granularity of the
accesses to its memory: the compare-and-swap, the load and the store of
`RecursionCount`, the wait's comparison, the release store and the notification
are separate actions, so two threads interleave between any two of them. Before
`RtlInitializeCriticalSection` the memory holds anything.

| code | model |
|---|---|
| `OwningThread`, `RecursionCount` | `owningThread`, `recursionCount` |
| position and locals in the functions | `pc`, `previousOwner`, `count` |
| the `compare_exchange_weak` and its outcomes | `CasAcquire`, `CasReenter`, `CasContended`, `CasSpurious` |
| `owningThread.wait(previousOwner)` | `WaitReturns`, `WaitBlocks`, `WaitUnblocks` |
| `RecursionCount++`, `--RecursionCount` | `LoadForEnter`, `StoreForEnter`; `LeaveCall`, `LeaveStore`, `LeaveTest` |
| `store(0)`, `notify_one` | `StoreRelease`, `NotifyOne` |

`depth` is the guest's view: how often a thread was let in and has not left.
`RecursiveLock` is what the functions promise about it, and
`ImplementsRecursiveLock` says, by `INSTANCE RecursiveLock WITH held <- depth`,
that every step of `CriticalSection` is a step of that lock or none.

### Kernel objects: `OnceCell`, `KernelObject`

Each access to a header word is an action; `g_kernelLock` is taken by
`AcquireLock` and released by `ReleaseLock`, the destructor of the guard. An
object is `<<header, n>>`, the n-th created for that header, so a second creation
would show. `OnceCell` is the abstract specification: a header has no object or
one, for ever, and a query answers with it. The refinement takes the object from
`Blink`, which is written last; try-queries are stuttering steps of it.

### Guest heap: `Heap`

Memory is in words of eight bytes. The model keeps what each word holds: a
guest's data, an o1heap header, a stored size or back pointer, or something
nobody relies on. An alignment of 0 asks for a page, which is scaled down from
512 words to 16 so that arenas stay small; the minimum alignment (2 words) and
o1heap's header (4 words) are the real ones. o1heap itself is external, and is
modelled from the way `heap.cpp` uses it: it cuts a power-of-two fragment from
the start of a free run. `ChooseFragment` and `CommitFragment` are separate
because two threads in one arena would corrupt it: the mutex has to matter.
`AllocCall`, `ReAllocCall`, `FreeCall` are the kernel functions
(`RtlAllocateHeap`, `RtlReAllocateHeap`, `RtlFreeHeap`, `XAllocMem`, `XFreeMem`)
and the steps after them follow `Heap::Alloc`, `AllocPhysical`, `Free` and `Size`
in their order. A thread that runs out of memory ends the process, by the assert
or by the access before it (`Dead`).

### Guest threads: `GuestThread`

Callers run the constructor (`MallocStack`, `ThreadCreate`, `ThreadStart` and the
failures of each), `GuestThread::Start`'s report of the id, `Wait` and the
destructor; each libnx thread runs `GuestThreadFuncWrapper`. `thread_handle` has
no initialiser, so what it holds before `threadCreate` is chosen freely
(`Garbage`, 0 or an earlier handle). A `GuestThreadContext` that gets no memory
clears through null: `halted`. `Stopped` is the stutter of a system in which
nothing can happen any more; deadlock is otherwise checked.

### Threads and a section together: `GuestSystem`

`GuestSystem` composes `GuestThread` and `CriticalSection`: the section's threads
are contexts, since r13, the address of a context, is all that
`RtlEnterCriticalSection` knows of its caller. A main thread creates, waits for
and destroys the others and uses the section as they do; a context is given back
when its thread ends, may be allocated again at once, and the new thread then
bears the old name. A guest function may return while it is inside the section
(`abandoned`). What `CriticalSection` assumes, that r13 tells threads apart, is
here a consequence of `GuestThread`, and the faulty allocator that gives a context
away twice breaks mutual exclusion (`OneThreadInside`). What a return inside the
section costs is `AbandonedForGood`: the owner word never changes again, so threads on
other contexts sleep and a thread on the same one nests without ever setting it free.
Here too every libnx call may fail.

### BASIC decompression: `BasicDecompress`

The patcher's two loops (sum the blocks, then move them, last block first) and
the loader's forward loop, on the same block table. A byte is known by the
address it came from, so what ends up where is visible; `Zero` is a cleared byte.
The sums are integers here: the 32-bit width of the code's is left out.

### XEX patcher: `MappedFile`, `XexPatcher`

`MappedFile` has the states of a `MemoryMappedFile` and what `open`, `close` and
`isOpen` make of them in the Switch and in the POSIX build. `XexPatcher` follows
both `apply` functions stage by stage over the byte layout of `outBytes`, with
every early return. AES, SHA-1 and LZX are outcomes (applied, or an error), and
so are the in-place decompression that `BasicDecompress` takes apart and the
patch blocks that `XexBlocks` does. Of delta records, which test no range, the model
keeps which bytes they write (`<<"delta">>`) and how far they reach: any reach is
possible, in the header (`headerReach`) and in each block (`Blocks`). Any image
move is too. What leaves the buffer ends in `overrun`, as do the other
accesses that nothing tests, and `OverrunOnlyIf` lists the seven kinds of files that
do it. The header
that the patch produces is taken to give `headerTargetSize` as its own size.

### Blocks, records and chunks: `XexBlocks`

What `XexPatcher` and `Boot` take for one step each: the walk over the hashed
blocks of a patch or of an LZX compressed executable, the records of
`lzxDeltaApplyPatch`, the chunks, and `lzxDecompress` with libmspack calling the
memory files back. A file is its layout, the structure that starts at each byte,
with the structures' real sizes (24-byte block headers, records of 12 bytes plus
a payload in a struct of 16): the cursor arithmetic is the code's, and a cursor
that stands on no structure is `lost`. What makes a layout a file is stated, not
built: structures follow one another, each block's info leads to the next block,
records lie within the data (which the code does not test), and bytes behind the end of a header's records or of
a block's chunks are no structure (`WellFormed`, `FilesAssumption`). `MCXexBlocks`
builds layouts from blocks, and TLC tests the assumption on them. Names differ
from those of `XexPatcher`, so that one proof module can speak of both. SHA-1 is whether a hash matches; what LZX
decodes is named by the bytes it was given, its window and its place. The window has as many
bytes as the lowest set bit of `windowSize` says (`LibraryWindow`), if LZX takes that
(`LibraryBits`), and a record fills `windowSize` of them (`OpenLzx`), an overrun if
that is not a power of two. The walk in
`xex.cpp` and the one in `xex_patcher.cpp` are the same, and are modelled once.

### Boot: `Xdbf`, `Boot`

`main` and `LdrLoadModule` with what they call: memory, heap, `BinaryReader`,
`ParseImage`, `Xex2LoadImage`, the sections, the imports one descriptor at a
time, the copy into guest memory and the entry point. Memory is in words, known
by what they hold and by their byte order: an import variable is swapped once, an
import function replaced by thunk code, and `SymbolTable::find` is asked for every
address. Each failure that `LdrLoadModule` answers with 0 leads on to `StartGame`, where
`GuestThread::Start` calls the function that the table has for the entry; the table ends at guest
0, so entry 0 is a fault, as is an entry the recompiled game does not have. Other
faults are an import outside the image, a null file format, guest memory that could not be had, and of an ELF file
little-endian data (an assertion) or a section without a name (a string view of
null). `Xdbf` has the wrapper's constructor and its four searches as operators
over the bytes of a resource, again as a layout with real sizes, and beside them
what was packed into it, for comparison. `Packable` is what a resource holds:
strings in the string blocks and achievements in theirs, as the casts of the
searches take for granted.

### Guest calls: `GuestCall`

One guest thread, on which guest code calls hooks and host functions call guest
code, nested in any way. A signature is a sequence of argument kinds (integer,
integer wider than 32 bits, floating-point, pointer, null pointer), and argument `i` has the value `i`.

| code | model |
|---|---|
| `GatherFunctionArguments` | `Ordinal` |
| the registers and stack words that `GetValue` reads, `SetValue` writes | `GetPlace`, `SetPlace` |
| `HostToGuestFunction` before and after the host function | `HostToGuestFunction`, `HostFunctionReturns` |
| `GuestToHostFunction` before and after the guest function | `GuestToHostFunction`, `GuestFunctionReturns`; `ArgumentAsserts` for an argument that has no register |
| `GetPPCContext()`, `newCtx`, `currentCtx` | `current`, `contexts`, `saved` |

Where guest code puts and looks for its arguments (`GuestPlace`) is the recompiled
code's calling convention, which is external. `ValuesArrive` excepts what the code does
not hand over: floating-point arguments past f13, which a hook reads as 0 (a TODO
in `function.h:85`), integers wider than 32 bits given to a hook, which are cut
(`function.h:50-64`; results, and arguments to guest code, keep 64 bits), and null pointers given to guest code or returned by it, from
which `MapVirtual` subtracts, or to which `Translate` adds, the base without a
test. No function in the repository calls `GuestToHostFunction` yet.

## 3. What is checked

| run | instance | properties |
|---|---|---|
| `critical_section` | 3 threads, nesting 2, stale memory, spurious wake-ups, builds with and without spurious CAS failures, fair | `MutualExclusion`, `NoStrandedWaiter`, `IndInv`, `ImplementsRecursiveLock`, `EntersUnlessOvertaken` |
| `kernel_object` | 3 threads, 2 headers, fair | `QueryReturnsObject`, `IndInv`, `ImplementsOnceCell`, `CallsReturn` |
| `kernel_object_try` | the same | `TryReturnsNullOrObject`, violated |
| `heap` | 2 threads, 2 blocks, sizes 0, 2, 6 words, alignments 0, 1, 8 words, arenas of 24 and 32 words; symmetry | `BlocksIntact`, `FragmentsIntact`, `SizeSound`, `FreesOwnFragment`, `EveryFragmentOwned`, `ReAllocKeepsData`, `IndInv` |
| `guest_thread` | 2 callers, 2 thread objects, memory for 1 context, any libnx call failing, fair | `IndInv` (`WaitedThreadsFinished`, `StackOutlivesThread` and `ContextsDistinct` among its conjuncts), `UnsuspendedThreadsEnd` |
| `guest_system` | main and 2 threads, 2 contexts besides main's, nesting 2, 2 enters for each thread, any libnx call failing, fair | `OneThreadInside`, `OwnerIsAlive`, `AbandonedForGood`, `ThreadsEnd` |
| `basic_decompress` | every table of 3 blocks with data and zero sizes 0 to 2, four buffer sizes | `DecompressedInPlace`, `SameImage`, `IndInv` |
| `xex_blocks` | images of 3 bytes, every file of up to 2 blocks and 2 records or 2 chunks for each, `windowSize` 0, 1, 2, 4 and 5, a library that takes bits 0 and 2 | `PatchMeansRecords`, `ImageIsDecodedChunks`, `WalkIsSound` |
| `xex_patcher` | a header of 3 bytes, executables of 1 and 2, images of 1 and 3, header offsets, sizes and reaches 0, 1, 2 and 5, those of the image 0 to 2, one patch block, POSIX | `OutputTruthful`, `HeaderDeltaReadsBase`, `ImageDeltaReadsBase`, `OverrunOnlyIf`, `IndInv` |
| `xex_patcher_open` | the Switch build | `OpenMeansRead`, violated |
| `boot` | images of 6 words, thunks of 2, three section layouts, up to 2 imports anywhere, about 200 resources | `GameWhole`, `ImportsResolved`, `LookupsAnswer`, `IndInv` |
| `guest_call` | signatures of up to 4 arguments, 2 integer and 3 floating-point registers, contexts 3 deep, 2 floating-point modes | `ValuesArrive`, `IndInv` |

Each property is stated in words above its definition. Every run but `guest_system`, in which
everyone may be done, also checks for deadlock: a mutex of the heap or of the kernel objects that some path keeps would
stop the other threads.

**Why the bounds are enough to be interesting.** Three threads are the fewest for
which one sleeps, one holds and a third barges in between a release and the
waiter's next exchange; nesting 2 makes the counter matter; two headers let one
query complete while another's object is being made. In the heap an arena holds
two fragments of different sizes at once and runs full, so first-fit reuses holes
at other addresses, an aligned block is followed by its neighbour, size 0 asks
for one byte, and both out-of-memory outcomes occur. With memory for one context
the second thread meets the failed allocation while the first is running. Three
blocks are the fewest in which a block moves over bytes of one not yet read while
a later one is in place; sizes of 0 and equal sizes are among them. Patch offsets
0, 1, 2 and 5 over a header of 3 put each range inside, across and behind the
header, make the new header shorter and longer than the old, as long as the whole file and longer, and make
moved ranges overlap; image offsets 0 to 2 over images of 1 and 3 make moves that stay inside, overlap
and leave the image on either side, and records that stay or leave. Windows of 2 and 5 bytes are one the
library refuses and one of which it opens a single byte. Two imports meet, overlap, coincide, precede every section,
lie in the gap between two, and come too near to the end. Two contexts for two threads let each be
allocated again to the other thread, and two enters let a thread nest, or come
back to a lock that another has had. Two records let the second read what the first wrote, overlap
it, and stand behind each kind of record; two blocks link. Resources hold texts of
length 0 and 3, repeated ids, repeated languages and missing ones, and blocks in
several orders. With two integer and three floating-point registers
in place of eight and thirteen, four arguments spill over either kind and mix both
in every order, and three contexts make a call from within a nested call. The
bounds `MaxDepth`, `MaxBlocks`, `MaxImports`, `MaxArguments` limit the guest's or
the file's data, not the code.

**Fairness.** Critical sections: weak fairness of each thread's own steps, and of
the guest's leaving what it entered (the guest's obligation); not of entering, nor
of spurious events. Overtaking is real: a waiter competes with newcomers, so
`EntersUnlessOvertaken` has the alternative that others keep entering. Kernel
objects: weak fairness of each thread, and strong fairness of `AcquireLock`,
since a host mutex is eventually granted to a thread that asks whenever it is
free; without it `CallsReturn` fails, the code having no queue of its own. Guest
threads: weak fairness of each caller's and each thread's steps, which includes
that guest functions return; `GuestSystem` has the same, and of the section that a
thread inside leaves, and `ThreadsEnd` excepts a main thread that stays inside for good, as it
would waiting there for a thread that wants to enter. The other specifications have no fairness.

**Where the code disagrees with what is said of it** (`findings` in
`PROJECT.json` quotes the lines):

- `xdm.h:150` reads the signature without the lock. Between the two header
  writes of a concurrent query it finds the signature and returns the old link.
- `memory_mapped_file.cpp:294` says that an object with size 0 is open, so on
  the Switch a failed open counts as open.

Observed while modelling, where no doc says otherwise, and kept in the models:

- `kernel.cpp:38` treats every failed `compare_exchange_weak` as contention. If
  it fails spuriously, `previousOwner` stays 0 and the thread waits for the
  owner to become *other than 0*: it can sleep on a lock that is free, with
  nobody left to notify it. Compilers lower the weak exchange to a load-linked
  loop or a single instruction depending on the target (the Switch's Cortex-A57
  has only the former), so the model leaves it open which kind of build runs
  (`weakCas`). `NoStrandedWaiter` says that this is the one way to be stranded,
  and the liveness property is about builds without it.
- `guest_thread.cpp:27` waits while a thread is suspended, and nothing clears
  the flag: `NtResumeThread` is a stub (`kernel.cpp:163`). A suspended thread
  never starts.
- `RtlTryEnterCriticalSection` (`kernel.cpp:124`) is a stub that leaves r3, a
  pointer, as its result: the guest takes it for success.
- `xex_patcher.cpp:304` hands the whole descriptor's size to the header's delta
  walk, which starts inside the descriptor; it ends by its terminator only.
- Of the image move that a patch's descriptor asks for (`xex_patcher.cpp:498-501`) and of the
  ranges of delta records (`196-216`) nothing is tested, so a damaged or unsuitable patch
  writes outside `outBytes`; the header move is tested (`264-283`).
- `xex_patcher.cpp:148-160` opens LZX with the lowest set bit of `windowSize` and
  fills `windowSize` bytes of its window: too many unless that is a power of two.
- `main.cpp:91` calls the guest at 0 when `LdrLoadModule` has failed. There is
  no function at 0 (`guest_thread.cpp:162`; `memory.cpp:25` ends the table there).
- `image.cpp:91-95` maps an ELF section without a name with a null pointer, of
  which `Map` makes a string view.
- `guest_thread.cpp:144` looks only at the handle. After a constructor that failed
  before `threadCreate` that is what the heap block held before, and `Wait` waits
  for whatever it takes it for.
- `function.h:50-64` reads 32 bits of each integer argument of a hook, whatever its type.
- `xdbf_wrapper.cpp:23` passes over `EntryCount` entries where the table has
  `EntryTableLength`; `LookupsAnswer` is about full tables.
- `memory.cpp:9` takes guest memory from `malloc`, aligned to 16 bytes, while
  o1heap wants its base aligned to 32; the heap model takes it as aligned. And
  `heap.cpp:114` clears a reallocated block before it copies the slack of the
  old one over it.

**What the properties except.** Some hazards are cases the code does allow. The property about such
a case does not catch it; it names it, and says that nothing else does the same harm:
a spurious exchange failure that strands a waiter (`NoStrandedWaiter`), a context without memory
(`halted` in `UnsuspendedThreadsEnd` and `ThreadsEnd`), a return inside the section (`abandoned` in
`OwnerIsAlive`), a header move that overlaps or leaves a shorter new header
(`HeaderDeltaReadsBase`), an LZX image under a shorter new header (`ImageDeltaReadsBase`), the seven kinds of files of `OverrunOnlyIf`, spare
entries of a resource (`LookupsAnswer`), and what a hook's signature loses (`ValuesArrive`).
`GameWhole` speaks of a game that runs; the call at guest 0 after a failed load is a fault of the
model, and no property denies it.

## 4. What is proved

`tlapm` checks the theorems of eight modules, for every value of the constants
that satisfies the named assumptions. Each specification has one inductive
invariant, of which the type invariant is a conjunct, and the rest is derived from
it. The runs check these invariants too, but for `GuestSystem` and `XexBlocks`,
whose runs check what is derived from them.

**`CriticalSectionProofs`**, for any set of threads and any nesting, whether or
not the exchange is weak (`NoThread \notin Threads`, `MaxDepth > 0`). Mutual exclusion alone is not inductive: that one thread
is inside says nothing about another at `enterLoad`. `IndInv` adds that
`owningThread = t` exactly when `t` is between its exchange and its release
(`OwnerHolds`); what the counter and the owner's copy of it are at each place
(`OwnerCounts`), which is what makes unprotected updates safe; that memory is
unused before it is initialised; and what each place knows of the nesting.
From it follow `MutuallyExclusive`, `OwnershipExact`, `CounterExact` and
`Refinement`, that is `Spec => ImplementsRecursiveLock`. `NobodyStranded` shows
for every build that a thread asleep on a free lock is about to be notified,
unless a spurious failure put it there, and that without such failures nobody
sleeps so; the lock is then free and somebody on the way to notify or to take it.

**`KernelObjectProofs`**, for any threads and headers. `IndInv` says that the
lock is held exactly inside the locked region (`LockHeld`), that each header is
untouched, complete, or in the hands of the lock's holder (`HeaderStates`), and
how far the holder has got (`HolderKnows`). Results: `OneObject`, `QueryAnswers`,
`SignatureSound`, `NeverReplaced` (an action property) and `Refinement` to
`OnceCell`.

**`HeapProofs`**, for any threads and blocks, any requests, any two arenas that do
not meet and start where o1heap may start a fragment, and alignments that are one
word or an even number of them (`ArenaAssumption`, `FragmentAssumption`,
`RequestAssumption`; powers of two in the code, whose mask would be wrong for
others). That headers and blocks are intact is not inductive: a write has to be
traced to a fragment that is the writer's. `IndInv` therefore gives each fragment
in use to exactly one claimant, a block whose data lie in it (`Holds`, `Home`) or
a call that is building one (`Built`), and says what leads from a pointer back to
its fragment: the address itself in one arena, the word before the block in the
other. A step then makes no claim and writes nothing (`QuietActions`), writes
inside the fragment its call is building (`WritesInside`), or takes or gives back
a fragment that nobody else claims, which the arena's mutex ensures
(`ChoiceStands`, `LocksHeld`); `ClaimsUntouched` says that all other claims stand.
`BlockHeaderPlace` is the arithmetic of `AllocPhysical`: the header lies behind
o1heap's own, and the block ends inside the fragment. All the run's properties are
proved: `BlocksStayIntact`, `FragmentsStayIntact`, `SizesAreSound`, `FreesAreSound`,
`NothingLeaks`, `ReAllocIsFaithful`.

**`BasicDecompressProofs`**, for any number of blocks, any sizes and any buffer.
The heart of `IndInv` is `UnreadIntact`, nothing below the write cursor has been
written, together with the sums of the first loop: they are monotone and the
compressed end of a prefix is never behind its decompressed end
(`dataEnd[i] <= imageEnd[i]`), so the block about to be read lies below the write
cursor. `InPlace` says that the result is the image, `NothingElseWritten` that
the header and what lies behind the image are untouched, and
`PatcherAgreesWithLoader` that both decompressors produce the same bytes.

**`GuestSystemProofs`** has the theorems of `GuestThread` and of the composition.

`GuestThread` alone, for any callers, thread objects and contexts, every libnx
call failing or not: the module instantiates it as `Any(C)`, with any set `C` of
callers. `IndInv` says what each place of a caller knows of the object it
constructs (`Constructing`, `ConstructorProgress`), that callers work on
different objects (`CallersApart`), and that a valid handle in an object is the
one of its own thread (`ThreadOfHandle`). Results: `ThreadsInvariant`,
`WaitsAreTruthful`, `StacksOutlive`, `ContextsUnique`, `HandleIsOwn`. The last says that an object that
still has a stack, which is what its destructor tests, holds its own thread's handle, and
that any object does exactly if it has a thread. `Wait` tests no stack: of an object without a thread it may take
another value for a handle, in the code as in the model.

With a section, for any number of threads and contexts, any nesting and
libnx calls failing or not (`Main \notin Handles`; `MainContext`, `NoThread` and
`None` are not among `Contexts`). `CriticalSectionProofs` does not carry over:
there a thread is its identity, here an identity outlives its thread. `IndInv` says
that a live thread has a context of its own (`ContextsOwned`), that only an
identity some thread bears is in a call of the section (`CallersAlive`), and that
who holds the section is named by the owner word (`HoldersOwn`). Of the counter it
says only that it is no less than the nesting: a thread that ended inside leaves
a count that the next thread on its context adds to. That the two are equal, and
that the holder lives, holds until a guest function returns inside
(`NothingLeftBehind`); from then on the counter stays above what anybody on that context can
bring down (`LeftForGood`). Results: `OneInside`, without that condition,
`OwnersLive`, and `AbandonedIsLost`, an action property. `ThreadsImplemented` is the refinement `Spec => GT!Spec`, the
section's steps being stuttering ones, so the theorems about guest threads alone hold here
too.

**`GuestCallProofs`**, for any number of registers, arguments and nested calls, with the losses named in section 2 excepted.
`EverythingArrives` rests on a lemma about counting: a later floating-point
argument has strictly more of them before it, so a register tells the position
of the argument it holds (`PreciseBeforeInjective`, `GuestPlacesDiffer`), and where one side writes is
where the other reads (`HookReads`, `GuestReads`). `Invariant` is about contexts,
identity and mode; it needs that the k-th nested call goes back to the k-th
context (`CallersSaved`).

**`XexPatcherProofs`**, for headers, executables and images of all sizes, any
offsets with 0 among them (what a patch without a range has), any number of
patch blocks, any image move and any reach of the records. Every write of `apply` is at a place
computed from fields of two files, and stays inside `outBytes` only because of
tests made several stages before, where there are any. `IndInv` is what each stage still knows of
them: how long `outBytes` is and what fits in it (`Room`), which bytes of the
image stand where before the delta patches read them (`ImageBytes`), which blocks
have been applied and that nothing is written before the last (`BlocksSoFar`),
which bytes their records have replaced (`ImageDeltaReadsBase`, `PatchedBytes`),
and what has been left behind at each return (`ReturnTruthful`). Results:
`OutputIsTruthful`, `HeaderDeltaIsSound`, `ImageDeltaIsSound` for both builds;
`OverrunsExplained` for both, with the Switch's own reason, a file that has no
view, beside the seven kinds of files; and for the POSIX build, where a file has a view only if it was opened
(`ViewMeansOpened`), `PosixOverruns` and `PosixOpenMeansRead`: what
`xex_patcher_open` finds violated is the Switch build's alone.

The walks of `XexBlocks` are proved in the same module, for `WellFormed` files of
any number of blocks, records and chunks, any sizes, windows and hashes, and a
library that reads and writes in steps of any order and may fail. That cursors
stay on the structures cannot be seen from their bytes: the inductive invariant
`WalkInv` knows between which structures of the layout the walk is. `Within` says
which block it is in, which structure it has passed, and that no terminator lies
between; `Matched` that the hashes so far were good; `Done` that data and stream
are what the structures so far mean (`Meaning`); `Writing`, `InRecord` and
`InImage` what the library has been given and what it has written of its range.
Structures lie strictly apart (`StructuresApart`), so a cursor reads exactly one
(`OnlyStructure`, `ItemOn`), and passing one structure is one step of
`Meaning` (`ToldStep`), which is a recursive function and exists by the same
induction as for `SumsExist` below. Results: `WalkInvariant`, `PatchesMeanRecords`,
`ImagesAreDecodedChunks`, `WalksAreSound`, the last for any window sizes, powers of two or not. TLC has checked each conjunct of `WalkInv`
on the run's instance too; the run names only what follows from it.

**`BootProofs`**, for images of any size, any length of a thunk, any sections and
any number of imports (`BootAssumption`). Sections lie anywhere, and `Find` takes
the last one that begins no later than the address: `LastSection` shows that
there is one, by a descent on natural numbers (`LeastNatural`), and `FindIsExact`
that it leads to the image's own word, in or between the sections. `IndInv` says
how far the steps have come (`Progress`), that each word of an image is the
file's or a thunk's and guest memory has a copy (`ImageIntact`), and, for import
tables whose descriptors do not overlap, that the imports done are resolved and
all other words untouched (`ImportsSoFar`): a descriptor about to be resolved
therefore finds the file's own word, and its type is the one the file gives.
Results: `GameIsWhole`, `ImportsAreResolved`.

The searches of the XDBF wrapper are proved for resources of any number of blocks
and texts, with repeated ids, free entries and empty texts (`DatabasesAssumption`:
each is `Packable`). Where a block or a text lies is a recursive function's value, a
sum over those before it. That it exists and what it yields at a place is shown by
taking the least number for which it would not (`EveryNatural`, `SumsExist`,
`OffsetIs`), a form of induction over a set that the provers can use. Offsets
rise strictly (`BlocksApart`, `ItemsApart`), so the
structure a pointer leads to is unique (`OnlyStructure`), each loop of
`xdbf_wrapper.cpp` visits the entries in their order (`EntryRead`, `SeekIs`,
`AchievementsRead`), and a look-up answers what was packed: `LookupsAnswered`.

Model-checked only: all liveness, for which the proof system has no means. Every
safety property of a run that passes is a theorem; `GuestThread`'s `IndInv` is one
in its instance, as `Any(C)!IndInv` (`ThreadsInvariant`). The recursive definitions
that proofs are about are recursive functions over finite domains. No theorem is about the
builders of the files that TLC tries (`MC` modules), nor are the assumptions about
files proved of any file: they say what a well-formed one is.

## 5. What is not modelled

- In modelled parts: the contents of the context block and `SetLastError`
  (layout); the 32-bit width of sums over block tables; what a cursor reads that
  has left the structures of a file; the Windows build of the mapped file;
  `BinaryReader`'s other readers and the directory helpers, which nothing calls;
  ELF sections, in which nothing looks anything up.
- Logger: its state is the file it appends to, which nothing reads; `Init` runs
  before any other thread exists and `Close` has no caller.
- Endianness: pure code without state; a swap is modelled where one is made
  (`Boot`).
- AES, SHA-1, o1heap, LZX and libnx: third-party code, modelled where used.
- Export tables, recompiler configuration: generated data. `backups/` is not
  built. The stubs of `kernel.cpp` change no state.

## 6. Plan

Done, in the order of importance: critical sections, kernel objects, heap, guest
threads and their composition with a section, decompression, patcher, blocks and
records, boot with XDBF and symbol table, guest calls. What could follow:

1. The composition of `Heap` with `GuestThread`: contexts are heap blocks.
2. The composition of `XexBlocks` with `XexPatcher`, which takes each walk for one
   step: that an applied patch block means its records there too.
