------------------------------- MODULE XexBlocks -------------------------------
(***************************************************************************)
(* What XexPatcher takes for one step each: the walk over the hashed       *)
(* blocks of an executable or of a patch, over the chunks or the records   *)
(* in them, and the LZX stream that these feed.                            *)
(*                                                                         *)
(* Three kinds of input: "header", the records behind the descriptor of a  *)
(* delta patch; "delta", the blocks of the patch, with records for the     *)
(* image; "normal", the blocks of an LZX compressed executable, with       *)
(* chunks of one stream (the same walk in xex.cpp and in xex_patcher.cpp). *)
(*                                                                         *)
(* A file is kept as its layout: what structure starts at which byte.  The *)
(* sizes are the real ones; a cursor that leaves the structures is lost.   *)
(* SHA-1 is whether the hash matches, LZX what it was given: a byte it     *)
(* decodes is named by its stream, its window and its place.  The names    *)
(* are other than XexPatcher's, so that one module can speak of both.      *)
(***************************************************************************)
EXTENDS Integers, Sequences

CONSTANTS
    Inputs,         \* the files: [kind, layout]
    DataSize,       \* bytes of the header or image that is patched or made
    WindowSizes,    \* windowSize of the file's format info
    LibraryBits     \* the window bits that lzxd_init takes

ASSUME SizeAssumption ==
    DataSize \in Nat \ {0} /\ WindowSizes \subseteq Nat /\ LibraryBits \subseteq Nat

-----------------------------------------------------------------------------
(* The structures of a file *)

BlockHeader  == 24      \* a Xex2CompressedBlockInfo, of the block after this one
ChunkHeader  == 2       \* the length of a chunk
RecordHeader == 12      \* a Xex2DeltaPatch up to patchData
RecordStruct == 16      \* sizeof(Xex2DeltaPatch), with its padding

Infos   == [kind : {"info"}, size : Nat, matches : BOOLEAN]
Records == [kind : {"record"}, compressedLength : Nat, uncompressedLength : Nat,
            oldAddress : Nat, newAddress : Nat]
Chunks  == [kind : {"chunk"}, length : Nat]

EndOfPatch  == [kind |-> "record", compressedLength |-> 0, uncompressedLength |-> 0,
                oldAddress |-> 0, newAddress |-> 0]
EndOfChunks == [kind |-> "chunk", length |-> 0]
EndOfFile   == [kind |-> "end"]

Terminator(item) == item \in {EndOfPatch, EndOfChunks}
Edge(item)       == item \in Infos \cup {EndOfFile}

Size(item) ==
    IF item.kind = "info" THEN BlockHeader
    ELSE IF item.kind = "chunk" THEN ChunkHeader + item.length
    ELSE IF item.kind = "end" THEN 0
    ELSE IF item.compressedLength > 1 THEN RecordHeader + item.compressedLength
    ELSE RecordHeader

(* The structures i and j of a layout are the edges of one block.          *)
Block(of, i, j) ==
    i < j /\ Edge(of[i][2]) /\ Edge(of[j][2]) /\ \A m \in (i + 1)..(j - 1) : ~Edge(of[m][2])

(* The structures in their order, each with the byte it starts at.  There  *)
(* is nothing between them, but behind the last of a block bytes nobody    *)
(* may look at; in a patch only if its records have an end.                *)
InOrder(of) ==
    /\ of \in Seq(Int \X (Infos \cup Records \cup Chunks \cup {EndOfFile}))
    /\ Len(of) > 1
    /\ \A i \in 1..Len(of) : of[i][2] = EndOfFile <=> i = Len(of)
    /\ \A i \in 1..(Len(of) - 1) :
          IF Edge(of[i + 1][2]) THEN of[i][1] + Size(of[i][2]) <= of[i + 1][1]
          ELSE ~Terminator(of[i][2]) /\ of[i][1] + Size(of[i][2]) = of[i + 1][1]

(* A header's records are one block, described by the descriptor's size,   *)
(* which reaches behind them.                                              *)
HeaderFormed(of) ==
    /\ \A i \in 2..(Len(of) - 1) : of[i][2] \in Records
    /\ of[1][2].size >= of[Len(of)][1]

(* The first structure, of the file's header, describes the first block,   *)
(* each block's first structure describes the next one, and 0 is the size  *)
(* of none.                                                                *)
BlocksFormed(of) ==
    /\ of[2][1] = 0 /\ Edge(of[2][2])
    /\ \A i, j \in 1..Len(of) : Block(of, i, j) =>
          /\ of[i][2].size = 0 <=> j = Len(of)
          /\ \A l \in 1..Len(of) : Block(of, j, l) => of[l][1] = of[j][1] + of[i][2].size

WellFormed(file) ==
    LET of == file.layout IN
    /\ InOrder(of)
    /\ of[1][1] = -BlockHeader /\ of[1][2] \in Infos
    /\ \A i \in 1..Len(of) : of[i][2] \in Records =>
          /\ of[i][2].oldAddress + of[i][2].uncompressedLength <= DataSize
          /\ of[i][2].newAddress + of[i][2].uncompressedLength <= DataSize
    /\ \/ file.kind = "header" /\ HeaderFormed(of)
       \/ /\ file.kind = "delta" /\ BlocksFormed(of)
          /\ \A i \in 2..(Len(of) - 1) : of[i][2] \in Infos \cup Records
          /\ \A i \in 1..(Len(of) - 1) :
                of[i][2] # EndOfPatch => of[i][1] + Size(of[i][2]) = of[i + 1][1]
       \/ /\ file.kind = "normal" /\ BlocksFormed(of)
          /\ \A i \in 2..(Len(of) - 1) : of[i][2] \in Infos \cup Chunks

ASSUME FilesAssumption == \A file \in Inputs : WellFormed(file)

-----------------------------------------------------------------------------
VARIABLES
    kind, layout,   \* the file
    windowSize,     \* windowSize of its format info
    step,
    p, info,        \* the current block's start, and the info that describes it
    nextInfo,       \* the info that the current block holds
    cur, patchEnd,  \* the current record or chunk, and patchEnd
    data,           \* dstData, outExe or the new image
    stream,         \* compressBuffer, or a record's patchData: bytes of the file
    lzx,            \* the destination and the window of lzxDecompress
    consumed,       \* what mspack_memory_read has delivered
    written,        \* offset of the destination's memory file
    libraryFailed,  \* LZX or an allocation has failed
    outcome         \* what the walk has returned

inputVars == <<kind, layout, windowSize>>
blockVars == <<p, info, nextInfo>>
lzxVars == <<stream, lzx, consumed, written>>
walkVars == <<inputVars, step, blockVars, cur, patchEnd, data, lzxVars, libraryFailed, outcome>>

NoLzx == [at |-> 0, length |-> 0, window |-> <<>>, hasWindow |-> FALSE]

Lost == [kind |-> "lost"]
ItemAt(offset) ==
    IF \E i \in 1..Len(layout) : layout[i][1] = offset
    THEN LET i == CHOOSE i \in 1..Len(layout) : layout[i][1] = offset IN layout[i][2]
    ELSE Lost

OldData == [a \in 0..(DataSize - 1) |-> IF kind = "normal" THEN <<"zero">> ELSE <<"old", a>>]

(* The header's patchEnd is counted from its first record.                 *)
WalkInit ==
    /\ \E file \in Inputs : kind = file.kind /\ layout = file.layout
    /\ info = layout[1][2]
    /\ windowSize \in WindowSizes
    /\ step = IF kind = "header" THEN "record" ELSE "block"
    /\ p = 0 /\ nextInfo = info /\ cur = 0
    /\ patchEnd = IF kind = "header" THEN info.size ELSE 0
    /\ data = OldData
    /\ stream = <<>> /\ lzx = NoLzx /\ consumed = <<>> /\ written = 0
    /\ libraryFailed = FALSE
    /\ outcome = "none"

Go(from, to) == step = from /\ step' = to /\ UNCHANGED outcome
EndWalk(from, code) == step = from /\ step' = "returned" /\ outcome' = code

-----------------------------------------------------------------------------
(* The blocks *)

StartLzx(at, length, window, hasWindow) ==
    /\ lzx' = [at |-> at, length |-> length, window |-> window, hasWindow |-> hasWindow]
    /\ consumed' = <<>> /\ written' = 0

(* The list ends with a block size of 0: the patch is done, and the chunks *)
(* of an executable go to lzxDecompress.                                   *)
LastBlock ==
    /\ info.size = 0
    /\ IF kind = "delta"
       THEN EndWalk("block", "Success") /\ UNCHANGED lzxVars
       ELSE Go("block", "lzxDecompress") /\ StartLzx(0, DataSize, <<>>, FALSE) /\ UNCHANGED stream
    /\ UNCHANGED <<inputVars, blockVars, cur, patchEnd, data, libraryFailed>>

(* Faulty: the hash is not compared. *)
EnterBlock_Unhashed ==
    /\ info.size # 0
    /\ Go("block", IF ItemAt(p).kind # "info" THEN "lost"
                     ELSE IF kind = "delta" THEN "record" ELSE "chunk")
    /\ nextInfo' = ItemAt(p)
    /\ cur' = p + BlockHeader
    /\ patchEnd' = p + info.size
    /\ UNCHANGED <<inputVars, p, info, data, lzxVars, libraryFailed>>

EnterBlock ==
    /\ info.size # 0
    /\ IF ~info.matches
       THEN EndWalk("block", "PatchFailed") /\ UNCHANGED <<nextInfo, cur, patchEnd>>
       ELSE /\ Go("block", IF ItemAt(p).kind # "info" THEN "lost"
                             ELSE IF kind = "delta" THEN "record" ELSE "chunk")
            /\ nextInfo' = ItemAt(p)
            /\ cur' = p + BlockHeader
            /\ patchEnd' = p + info.size
    /\ UNCHANGED <<inputVars, p, info, data, lzxVars, libraryFailed>>

(* The end of a block's items; the header has no blocks. *)
LeaveBlock(from) ==
    /\ IF kind = "header"
       THEN EndWalk(from, "Success") /\ UNCHANGED <<p, info>>
       ELSE Go(from, "block") /\ p' = p + info.size /\ info' = nextInfo
    /\ UNCHANGED <<inputVars, nextInfo, cur, patchEnd, data, lzxVars, libraryFailed>>

-----------------------------------------------------------------------------
(* The chunks of a compressed executable *)

BytesAt(from, length) == [k \in 1..length |-> from + k - 1]

CopyChunk ==
    /\ ItemAt(cur).kind = "chunk" /\ ItemAt(cur) # EndOfChunks
    /\ Go("chunk", "chunk")
    /\ stream' = stream \o BytesAt(cur + ChunkHeader, ItemAt(cur).length)
    /\ cur' = cur + ChunkHeader + ItemAt(cur).length
    /\ UNCHANGED <<inputVars, blockVars, patchEnd, data, lzx, consumed, written, libraryFailed>>

ChunksDone == ItemAt(cur) = EndOfChunks /\ LeaveBlock("chunk")

-----------------------------------------------------------------------------
(* lzxDeltaApplyPatch: the records of a block or of the header *)

AtRecord == step = "record" /\ cur < patchEnd /\ ItemAt(cur).kind = "record" /\ ItemAt(cur) # EndOfPatch
RecordsDone == (cur >= patchEnd \/ ItemAt(cur) = EndOfPatch) /\ LeaveBlock("record")

Span(at, length) == at..(at + length - 1)
Piece(bytes, at, length) == [k \in 1..length |-> bytes[at + k - 1]]

(* curPatch++ and then patchSize bytes, -4 when the record has no payload. *)
Behind(compressed) == cur + RecordStruct + (IF compressed > 1 THEN compressed - 4 ELSE -4)

ZeroData ==
    LET r == ItemAt(cur) IN
    /\ AtRecord /\ r.compressedLength = 0
    /\ data' = [a \in DOMAIN data |->
                   IF a \in Span(r.newAddress, r.uncompressedLength) THEN <<"zero">> ELSE data[a]]
    /\ cur' = Behind(0)
    /\ UNCHANGED <<inputVars, step, blockVars, patchEnd, lzxVars, libraryFailed, outcome>>

Overlapping(r) ==
    /\ r.oldAddress # r.newAddress
    /\ r.oldAddress < r.newAddress + r.uncompressedLength
    /\ r.newAddress < r.oldAddress + r.uncompressedLength

(* memcpy: undefined when the two ranges overlap. *)
MoveData ==
    LET r == ItemAt(cur) IN
    /\ AtRecord /\ r.compressedLength = 1
    /\ data' = [a \in DOMAIN data |->
                   IF a \notin Span(r.newAddress, r.uncompressedLength) THEN data[a]
                   ELSE IF Overlapping(r) THEN <<"undefined">>
                   ELSE data[r.oldAddress + (a - r.newAddress)]]
    /\ cur' = Behind(1)
    /\ UNCHANGED <<inputVars, step, blockVars, patchEnd, lzxVars, libraryFailed, outcome>>

(* Faulty: the window is filled from the range that is made. *)
DecompressData_NewWindow ==
    LET r == ItemAt(cur) IN
    /\ AtRecord /\ r.compressedLength > 1
    /\ Go("record", "lzxDecompress")
    /\ stream' = BytesAt(cur + RecordHeader, r.compressedLength)
    /\ StartLzx(r.newAddress, r.uncompressedLength,
                Piece(data, r.newAddress, r.uncompressedLength), TRUE)
    /\ cur' = Behind(r.compressedLength)
    /\ UNCHANGED <<inputVars, blockVars, patchEnd, data, libraryFailed>>

DecompressData ==
    LET r == ItemAt(cur) IN
    /\ AtRecord /\ r.compressedLength > 1
    /\ Go("record", "lzxDecompress")
    /\ stream' = BytesAt(cur + RecordHeader, r.compressedLength)
    /\ StartLzx(r.newAddress, r.uncompressedLength,
                Piece(data, r.oldAddress, r.uncompressedLength), TRUE)
    /\ cur' = Behind(r.compressedLength)
    /\ UNCHANGED <<inputVars, blockVars, patchEnd, data, libraryFailed>>

(* What a cursor beside the structures would read is not modelled. *)
LoseTrack ==
    /\ \/ step = "record" /\ cur < patchEnd /\ ItemAt(cur).kind # "record"
       \/ step = "chunk" /\ ItemAt(cur).kind # "chunk"
    /\ step' = "lost"
    /\ UNCHANGED <<inputVars, blockVars, cur, patchEnd, data, lzxVars, libraryFailed, outcome>>

-----------------------------------------------------------------------------
(* lzxDecompress, and libmspack calling back its memory files *)

PaddedWindow(window, size) == [k \in 1..(size - Len(window)) |-> <<"zero">>] \o window

(* bitScanForward of a uint32_t that is not 0 *)
LowestBit(size) == CHOOSE bit \in 0..31 : size % 2^(bit + 1) = 2^bit

LibraryWindow == 2^LowestBit(windowSize)

(* The library's window has 2^bits bytes, cleared, for the lowest set bit   *)
(* of windowSize, if it takes that.  The window data goes behind windowSize *)
(* - windowDataLength zeroes, which wraps around below 0 and fills the      *)
(* window only if windowSize is a power of two.                             *)
OpenLzx ==
    /\ IF windowSize = 0 \/ LowestBit(windowSize) \notin LibraryBits
       THEN EndWalk("lzxDecompress", "PatchFailed") /\ UNCHANGED lzx
       ELSE IF lzx.hasWindow /\ (Len(lzx.window) > windowSize \/ windowSize # LibraryWindow)
       THEN Go("lzxDecompress", "overrun") /\ UNCHANGED lzx
       ELSE /\ Go("lzxDecompress", "lzx")
            /\ lzx' = [lzx EXCEPT !.window = PaddedWindow(lzx.window, LibraryWindow)]
    /\ UNCHANGED <<inputVars, blockVars, cur, patchEnd, data, stream, consumed, written, libraryFailed>>

(* Faulty: the file's offset stays where it is. *)
mspack_memory_read_Again(chars) ==
    LET remaining == Len(stream)
        total == IF chars < remaining THEN chars ELSE remaining IN
    /\ Go("lzx", "lzx")
    /\ consumed' = consumed \o SubSeq(stream, 1, total)
    /\ UNCHANGED <<inputVars, blockVars, cur, patchEnd, data, stream, lzx, written, libraryFailed>>

(* The library asks for any number of bytes and gets what is left of them. *)
mspack_memory_read(chars) ==
    LET remaining == Len(stream) - Len(consumed)
        total == IF chars < remaining THEN chars ELSE remaining IN
    /\ Go("lzx", "lzx")
    /\ consumed' = consumed \o SubSeq(stream, Len(consumed) + 1, Len(consumed) + total)
    /\ UNCHANGED <<inputVars, blockVars, cur, patchEnd, data, stream, lzx, written, libraryFailed>>

(* Byte i of the output, when the library has been given consumed. *)
Decoded(given, i, window) ==
    IF given # <<>> /\ Len(given) <= Len(stream) /\ given = SubSeq(stream, 1, Len(given))
    THEN <<"lzx", stream, i, window>> ELSE <<"garbage">>

mspack_memory_write(chars) ==
    LET remaining == lzx.length - written
        total == IF chars < remaining THEN chars ELSE remaining IN
    /\ Go("lzx", "lzx")
    /\ data' = [a \in DOMAIN data |->
                   IF a \in Span(lzx.at + written, total)
                   THEN Decoded(consumed, a - lzx.at, lzx.window) ELSE data[a]]
    /\ written' = written + total
    /\ UNCHANGED <<inputVars, blockVars, cur, patchEnd, stream, lzx, consumed, libraryFailed>>

(* The library reads something before it writes, and writes dstLength      *)
(* bytes in frames.                                                        *)
LibraryRuns ==
    \/ \E chars \in 1..2 : Len(consumed) < Len(stream) /\ mspack_memory_read(chars)
    \/ \E chars \in 1..(lzx.length - written) : consumed # <<>> /\ mspack_memory_write(chars)

LibraryFails ==
    /\ EndWalk("lzx", "PatchFailed")
    /\ libraryFailed' = TRUE
    /\ UNCHANGED <<inputVars, blockVars, cur, patchEnd, data, lzxVars>>

(* lzxDecompress returns 0. *)
CloseLzx ==
    /\ written = lzx.length
    /\ IF kind = "normal" THEN EndWalk("lzx", "Success") ELSE Go("lzx", "record")
    /\ stream' = <<>> /\ lzx' = NoLzx /\ consumed' = <<>> /\ written' = 0
    /\ UNCHANGED <<inputVars, blockVars, cur, patchEnd, data, libraryFailed>>

WalkEnded == step \in {"returned", "lost", "overrun"} /\ UNCHANGED walkVars

WalkNext ==
    \/ LastBlock \/ EnterBlock
    \/ CopyChunk \/ ChunksDone
    \/ RecordsDone \/ ZeroData \/ MoveData \/ DecompressData \/ LoseTrack
    \/ OpenLzx \/ LibraryRuns \/ LibraryFails \/ CloseLzx
    \/ WalkEnded

WalkSpec == WalkInit /\ [][WalkNext]_walkVars

-----------------------------------------------------------------------------
(* Correctness *)

(* What one record means: its new range becomes zeroes, the old range, or  *)
(* what its own payload decodes to before the old range.                   *)
Applied(old, placed, window) ==
    LET r == placed[2] IN
    [a \in DOMAIN old |->
        IF a \notin Span(r.newAddress, r.uncompressedLength) THEN old[a]
        ELSE IF r.compressedLength = 0 THEN <<"zero">>
        ELSE IF r.compressedLength = 1 THEN old[r.oldAddress + (a - r.newAddress)]
        ELSE <<"lzx", BytesAt(placed[1] + RecordHeader, r.compressedLength), a - r.newAddress,
               PaddedWindow(Piece(old, r.oldAddress, r.uncompressedLength), window)>>]

Means(before, placed, window) ==
    [data   |-> IF placed[2] \in Records THEN Applied(before.data, placed, window) ELSE before.data,
     chunks |-> IF placed[2] \in Chunks
                THEN before.chunks \o BytesAt(placed[1] + ChunkHeader, placed[2].length)
                ELSE before.chunks]

(* What the first structures of a file mean: the data with their records   *)
(* applied one after the other, and the bytes of their chunks.             *)
Meaning(of, window, start) ==
    LET told[i \in 0..Len(of)] ==
            IF i = 0 THEN [data |-> start, chunks |-> <<>>] ELSE Means(told[i - 1], of[i], window)
    IN  told

WholeMeaning == Meaning(layout, windowSize, OldData)[Len(layout)]

(* No record moves a range onto a part of itself.                          *)
MovesApart ==
    \A i \in 1..Len(layout) :
        layout[i][2] \in Records /\ layout[i][2].compressedLength = 1 => ~Overlapping(layout[i][2])

(* A patch that was applied did to the data what its records say, one      *)
(* after the other, each reading what the ones before have left, and it    *)
(* did nothing else.  Excepted are moves of a range onto a part of itself  *)
(* (xex_patcher.cpp:180-224, 503-531).                                     *)
PatchMeansRecords ==
    kind # "normal" /\ outcome = "Success" /\ MovesApart => data = WholeMeaning.data

(* A compressed image is decoded from the bytes of all chunks of all       *)
(* blocks, in order, without their lengths, headers and slack, into an     *)
(* empty window: nothing that a record or image left in one                *)
(* (xex.cpp:205-258).                                                      *)
ImageIsDecodedChunks ==
    kind = "normal" /\ outcome = "Success" =>
        data = [a \in 0..(DataSize - 1) |->
                   <<"lzx", WholeMeaning.chunks, a, PaddedWindow(<<>>, LibraryWindow)>>]

(* The cursors stand on structures of the file, but in a header's records  *)
(* or in a block of chunks that lack their end: no size stops those walks, *)
(* while the one of a patch block stops them at the block's end.  The      *)
(* window is overrun only by a record with a payload that is longer than   *)
(* windowSize, or whose windowSize is not a power of two: as many bytes    *)
(* are filled, but of its lowest bit only there are (148-160).  A file is  *)
(* refused for a bad hash of a block before which all is well, by LZX, or  *)
(* for a windowSize that the library does not take, and a bad hash is      *)
(* always found (xex_patcher.cpp:187-219, 304, 436-447).                   *)
WalkIsSound ==
    /\ step = "lost" =>
          /\ kind # "delta"
          /\ \A i \in 1..Len(layout) :
                layout[i][1] \in Span(p, info.size) => ~Terminator(layout[i][2])
    /\ step = "overrun" =>
          \E i \in 1..Len(layout) :
              /\ layout[i][2] \in Records /\ layout[i][2].compressedLength > 1
              /\ layout[i][2].uncompressedLength > windowSize \/ windowSize # LibraryWindow
    /\ outcome = "PatchFailed" =>
          \/ ~info.matches \/ libraryFailed
          \/ windowSize = 0 \/ LowestBit(windowSize) \notin LibraryBits
    /\ outcome = "Success" /\ kind # "header" =>
          \A i \in 1..Len(layout) :
              layout[i][2] \in Infos /\ layout[i][2].size # 0 => layout[i][2].matches
==============================================================================
