---------------------------- MODULE BasicDecompress ----------------------------
(***************************************************************************)
(* The BASIC compression of an executable: blocks of dataSize bytes, each  *)
(* followed by zeroSize zero bytes that the file leaves out.               *)
(*                                                                         *)
(* The patcher undoes it in place, from the last block to the first, with  *)
(* a cursor that reads and one that writes (xex_patcher.cpp:378-405).  The *)
(* loader undoes it forwards into a buffer of its own (xex.cpp:172-196).   *)
(*                                                                         *)
(* A byte of the patcher's buffer is known by the address it was at when   *)
(* the decompression began; Zero is a byte that memset wrote.              *)
(***************************************************************************)
EXTENDS Integers

CONSTANTS
    NumBlocks,      \* infoSize / 8 - 1
    Sizes,          \* what dataSize and zeroSize may be
    Rooms,          \* what outBytes.size() may be
    HeaderSize      \* headerTargetSize

ASSUME BlocksAssumption == NumBlocks \in Nat
ASSUME SizesAssumption == Sizes \subseteq Nat /\ Sizes # {}
ASSUME RoomsAssumption == Rooms \subseteq {r \in Nat : r >= HeaderSize}
ASSUME HeaderAssumption == HeaderSize \in Nat

VARIABLES
    blocks,         \* the block table, which nothing changes
    room,           \* outBytes.size()
    pc,             \* the patcher's place
    summed,         \* blocks the first loop has added up
    dataEnd,        \* dataEnd[i]: baseCompressedSize after i of them
    imageEnd,       \* imageEnd[i]: baseImageSize after i of them
    left,           \* blocks the second loop has yet to move
    srcDataCursor, outDataCursor,   \* offsets into out
    out,            \* outBytes
    loaderPc,       \* the loader's place
    loaded,         \* blocks the loader has copied
    srcData,        \* the loader's source, as an offset into the compressed data
    destData,       \* the loader's destination, as an offset into result
    result          \* the loader's image

sumVars == <<summed, dataEnd, imageEnd>>
patcherVars == <<pc, left, srcDataCursor, outDataCursor, out>>
loaderVars == <<loaderPc, loaded, srcData, destData, result>>
vars == <<blocks, room, sumVars, patcherVars, loaderVars>>

Zero == -1

Block == 1..NumBlocks
Address == 0..(room - 1)

TypeOK ==
    /\ blocks \in [Block -> [dataSize : Sizes, zeroSize : Sizes]]
    /\ room \in Rooms
    /\ pc \in {"sum", "check", "move", "done", "invalid"}
    /\ summed \in 0..NumBlocks
    /\ dataEnd \in [0..NumBlocks -> Nat]
    /\ imageEnd \in [0..NumBlocks -> Nat]
    /\ left \in 0..NumBlocks
    /\ srcDataCursor \in Nat
    /\ outDataCursor \in Nat
    /\ out \in [Address -> Address \cup {Zero}]
    /\ loaderPc \in {"idle", "copy", "done"}
    /\ loaded \in 0..NumBlocks
    /\ srcData \in Nat
    /\ destData \in Nat
    /\ loaderPc # "idle" => result \in [0..(imageEnd[NumBlocks] - 1) -> Nat \cup {Zero}]

Init ==
    /\ blocks \in [Block -> [dataSize : Sizes, zeroSize : Sizes]]
    /\ room \in Rooms
    /\ pc = "sum"
    /\ summed = 0
    /\ dataEnd = [i \in 0..NumBlocks |-> 0]
    /\ imageEnd = [i \in 0..NumBlocks |-> 0]
    /\ left = 0 /\ srcDataCursor = 0 /\ outDataCursor = 0
    /\ out = [a \in Address |-> a]
    /\ loaderPc = "idle"
    /\ loaded = 0 /\ srcData = 0 /\ destData = 0
    /\ result = <<>>

(* memset and memmove on a buffer *)
Cleared(buffer, to, size) ==
    [a \in DOMAIN buffer |-> IF a \in to..(to + size - 1) THEN Zero ELSE buffer[a]]

(* Faulty: memcpy from the lowest byte up, which reads what it has written. *)
Moved_LowestFirst(buffer, to, from, size) ==
    [a \in DOMAIN buffer |->
        IF a \in to..(to + size - 1)
        THEN IF to > from THEN buffer[from + ((a - to) % (to - from))] ELSE buffer[from + (a - to)]
        ELSE buffer[a]]

Moved(buffer, to, from, size) ==
    [a \in DOMAIN buffer |->
        IF a \in to..(to + size - 1) THEN buffer[from + (a - to)] ELSE buffer[a]]

-----------------------------------------------------------------------------
(* The patcher *)

(* One iteration of the first loop.  The loader's own is the same. *)
SumBlock ==
    /\ pc = "sum" /\ summed < NumBlocks
    /\ summed' = summed + 1
    /\ LET b == blocks[summed + 1] IN
       /\ dataEnd' = [dataEnd EXCEPT ![summed + 1] = dataEnd[summed] + b.dataSize]
       /\ imageEnd' = [imageEnd EXCEPT ![summed + 1] = imageEnd[summed] + b.dataSize + b.zeroSize]
    /\ UNCHANGED <<blocks, room, patcherVars, loaderVars>>

SumDone ==
    /\ pc = "sum" /\ summed = NumBlocks
    /\ pc' = "check"
    /\ UNCHANGED <<blocks, room, sumVars, left, srcDataCursor, outDataCursor, out, loaderVars>>

(* Faulty: the cursors start without a look at the buffer's size. *)
CheckRoom_Compressed ==
    /\ pc = "check"
    /\ pc' = IF room < HeaderSize + dataEnd[NumBlocks] THEN "invalid" ELSE "move"
    /\ left' = NumBlocks
    /\ srcDataCursor' = HeaderSize + dataEnd[NumBlocks]
    /\ outDataCursor' = HeaderSize + imageEnd[NumBlocks]
    /\ UNCHANGED <<blocks, room, sumVars, out, loaderVars>>

(* Result::XexFileInvalid when the image does not fit. *)
CheckRoom ==
    /\ pc = "check"
    /\ pc' = IF room < HeaderSize + imageEnd[NumBlocks] THEN "invalid" ELSE "move"
    /\ left' = NumBlocks
    /\ srcDataCursor' = HeaderSize + dataEnd[NumBlocks]
    /\ outDataCursor' = HeaderSize + imageEnd[NumBlocks]
    /\ UNCHANGED <<blocks, room, sumVars, out, loaderVars>>

(* One iteration of the second loop, i = left - 1 there. *)
MoveBlock ==
    LET b    == blocks[left]
        to   == outDataCursor - b.zeroSize - b.dataSize
        from == srcDataCursor - b.dataSize
    IN
    /\ pc = "move" /\ left > 0
    /\ out' = Moved(Cleared(out, outDataCursor - b.zeroSize, b.zeroSize), to, from, b.dataSize)
    /\ outDataCursor' = to
    /\ srcDataCursor' = from
    /\ left' = left - 1
    /\ UNCHANGED <<blocks, room, pc, sumVars, loaderVars>>

MoveDone ==
    /\ pc = "move" /\ left = 0
    /\ pc' = "done"
    /\ UNCHANGED <<blocks, room, sumVars, left, srcDataCursor, outDataCursor, out, loaderVars>>

-----------------------------------------------------------------------------
(* The loader, on the same blocks *)

(* make_unique clears the image. *)
LoaderAllocates ==
    /\ loaderPc = "idle" /\ summed = NumBlocks
    /\ loaderPc' = "copy"
    /\ result' = [a \in 0..(imageEnd[NumBlocks] - 1) |-> Zero]
    /\ UNCHANGED <<blocks, room, sumVars, patcherVars, loaded, srcData, destData>>

(* Faulty: the destination does not skip the zeroes. *)
LoadBlock_Packed ==
    LET b == blocks[loaded + 1] IN
    /\ loaderPc = "copy" /\ loaded < NumBlocks
    /\ result' = [a \in DOMAIN result |->
           IF a \in destData..(destData + b.dataSize - 1)
           THEN HeaderSize + srcData + (a - destData) ELSE result[a]]
    /\ srcData' = srcData + b.dataSize
    /\ destData' = destData + b.dataSize
    /\ loaded' = loaded + 1
    /\ UNCHANGED <<blocks, room, sumVars, patcherVars, loaderPc>>

LoadBlock ==
    LET b    == blocks[loaded + 1]
        copy == [a \in DOMAIN result |->
                    IF a \in destData..(destData + b.dataSize - 1)
                    THEN HeaderSize + srcData + (a - destData) ELSE result[a]]
    IN
    /\ loaderPc = "copy" /\ loaded < NumBlocks
    /\ result' = Cleared(copy, destData + b.dataSize, b.zeroSize)
    /\ srcData' = srcData + b.dataSize
    /\ destData' = destData + b.dataSize + b.zeroSize
    /\ loaded' = loaded + 1
    /\ UNCHANGED <<blocks, room, sumVars, patcherVars, loaderPc>>

LoaderDone ==
    /\ loaderPc = "copy" /\ loaded = NumBlocks
    /\ loaderPc' = "done"
    /\ UNCHANGED <<blocks, room, sumVars, patcherVars, loaded, srcData, destData, result>>

-----------------------------------------------------------------------------
Finished ==
    /\ pc \in {"done", "invalid"} /\ loaderPc = "done"
    /\ UNCHANGED vars

Next ==
    \/ SumBlock \/ SumDone \/ CheckRoom \/ MoveBlock \/ MoveDone
    \/ LoaderAllocates \/ LoadBlock \/ LoaderDone
    \/ Finished

Spec == Init /\ [][Next]_vars

-----------------------------------------------------------------------------
(* The inductive invariant *)

(* What the first loop leaves behind, for the blocks it has seen. *)
SumsRight ==
    /\ dataEnd[0] = 0 /\ imageEnd[0] = 0
    /\ \A i \in 1..summed :
          /\ dataEnd[i] = dataEnd[i - 1] + blocks[i].dataSize
          /\ imageEnd[i] = imageEnd[i - 1] + blocks[i].dataSize + blocks[i].zeroSize
    /\ \A i \in 0..summed : dataEnd[i] <= imageEnd[i]
    /\ \A i, j \in 0..summed : i <= j => imageEnd[i] <= imageEnd[j]
    /\ pc # "sum" => summed = NumBlocks

(* Every byte of the image belongs to a block. *)
BlocksCover ==
    \A a \in 0..(imageEnd[summed] - 1) :
        \E i \in 1..summed : imageEnd[i - 1] <= a /\ a < imageEnd[i]

CursorsRight ==
    pc \in {"move", "done"} =>
        /\ srcDataCursor = HeaderSize + dataEnd[left]
        /\ outDataCursor = HeaderSize + imageEnd[left]
        /\ HeaderSize + imageEnd[NumBlocks] <= room
        /\ pc = "done" => left = 0

(* Nothing below the write cursor has been written: what is still to be    *)
(* read lies there.                                                        *)
UnreadIntact ==
    /\ pc \in {"sum", "check", "invalid"} => out = [a \in Address |-> a]
    /\ pc \in {"move", "done"} => \A a \in Address : a < outDataCursor => out[a] = a

(* Block i is where the image has it. *)
Placed(buffer, base, i) ==
    /\ \A k \in 0..(blocks[i].dataSize - 1) :
          buffer[base + imageEnd[i - 1] + k] = HeaderSize + dataEnd[i - 1] + k
    /\ \A k \in 0..(blocks[i].zeroSize - 1) :
          buffer[base + imageEnd[i - 1] + blocks[i].dataSize + k] = Zero

MovedBlocksPlaced ==
    pc \in {"move", "done"} => \A i \in (left + 1)..NumBlocks : Placed(out, HeaderSize, i)

LoaderRight ==
    /\ srcData = dataEnd[loaded] /\ destData = imageEnd[loaded]
    /\ loaderPc = "idle" => loaded = 0
    /\ loaderPc # "idle" => summed = NumBlocks /\ \A i \in 1..loaded : Placed(result, 0, i)
    /\ loaderPc = "done" => loaded = NumBlocks

(* Bytes above the image keep what they held. *)
TailIntact == \A a \in Address : a >= HeaderSize + imageEnd[NumBlocks] => out[a] = a

IndInv == TypeOK /\ SumsRight /\ BlocksCover /\ CursorsRight /\ UnreadIntact
              /\ MovedBlocksPlaced /\ LoaderRight /\ TailIntact

-----------------------------------------------------------------------------
(* Correctness *)

(* "Reverse iteration allows to perform this decompression in place": every *)
(* block ends up where the image has it, its zeroes after it, though blocks *)
(* move over bytes other blocks have yet to be read from.                   *)
DecompressedInPlace == pc = "done" => \A i \in Block : Placed(out, HeaderSize, i)

(* The header before the image and the bytes behind it are untouched, and   *)
(* a file that is refused leaves the whole buffer as it was.                *)
RestUntouched ==
    \A a \in Address :
        a < HeaderSize \/ a >= HeaderSize + imageEnd[NumBlocks] \/ pc = "invalid" => out[a] = a

(* The patcher and the loader make the same image of the same file.         *)
SameImage ==
    (pc = "done" /\ loaderPc = "done") =>
        \A a \in DOMAIN result : out[HeaderSize + a] = result[a]
==============================================================================
