------------------------------ MODULE XexPatcher ------------------------------
(***************************************************************************)
(* XexPatcher::apply: a base executable and a patch make a new executable. *)
(*                                                                         *)
(* The model keeps the layout of outBytes, byte by byte: each byte is      *)
(* known by where it came from, <<"base", k>> being byte k of the base     *)
(* file, <<"exe", j>> byte j behind its header, decrypted, <<"image", j>>  *)
(* byte j of the decompressed image, <<"delta">> a byte that the records   *)
(* of a delta patch write and <<"zero">> a cleared byte.  AES, SHA-1 and   *)
(* LZX are outcomes.  The BASIC decompression is one step, which           *)
(* BasicDecompress takes apart; so are a patch block, its records and the  *)
(* blocks of a NORMAL executable, which XexBlocks takes apart.             *)
(*                                                                         *)
(* A step that reads or writes behind the end of outBytes, or of the base  *)
(* file, ends in "overrun".  Headers are taken to be formed, the ones that *)
(* the patch makes too: their tables and sizes lie in them; and an         *)
(* encrypted executable to be a whole number of AES blocks.                *)
(***************************************************************************)
EXTENDS MappedFile, Sequences, FiniteSets

CONSTANTS
    HeaderSizes,    \* xexHeader->headerSize of the base
    ExeSizes,       \* bytes of the base file behind its header
    ImageSizes,     \* imageSize in the security info of base and new header
    HeaderOffsets,  \* offsets and sizes in the header: of the descriptor, of records
    Offsets,        \* offsets and sizes in the image
    MaxBlocks       \* bound on the blocks of the patch

ASSUME SizesAssumption ==
    /\ HeaderSizes \cup ExeSizes \cup ImageSizes \subseteq Nat \ {0}
    /\ 0 \in Offsets \cap HeaderOffsets /\ Offsets \cup HeaderOffsets \subseteq Nat
    /\ MaxBlocks \in Nat

Results == {"Success", "FileOpenFailed", "FileWriteFailed", "XexFileUnsupported",
            "XexFileInvalid", "PatchFileInvalid", "PatchIncompatible", "PatchFailed"}

(* A base file is as long as its image when it is not compressed and not   *)
(* longer when it is.                                                      *)
Xexes ==
    {x \in [headerSize : HeaderSizes, exeSize : ExeSizes, imageSize : ImageSizes,
            compression : {"none", "basic", "normal", "other"}] :
        /\ x.exeSize <= x.imageSize
        /\ x.compression = "none" => x.exeSize = x.imageSize}

(* The header that the patch makes is taken to give headerTargetSize as its *)
(* own size.                                                                *)
Patches ==
    [sourceOffset : HeaderOffsets, sourceSize : HeaderOffsets,
     targetOffset : HeaderOffsets, targetSize : HeaderOffsets, imageSize : ImageSizes]

Moves == [source : Offsets, size : Offsets, target : Offsets]
NoMove == [source |-> 0, size |-> 0, target |-> 0]

(* A patch block: whether it hashes, the bytes of the image that its        *)
(* records write, and how far into the image these read or write.  Without  *)
(* its hash none of its records is looked at.                               *)
Blocks ==
    {b \in [hashes : BOOLEAN, writes : SUBSET Offsets, reach : Offsets] :
        /\ \A j \in b.writes : j < b.reach
        /\ ~b.hashes => b.reach = 0}

VARIABLES
    pc,
    xex, patch,             \* what the two files hold
    baseFile, patchFile,    \* the two MemoryMappedFile objects
    opened,                 \* what open has returned for them
    out,                    \* outBytes
    imageMove,              \* deltaImageSourceOffset, -Size and -TargetOffset
    headerReach,            \* how far the header's records read or write
    blocks,                 \* the patch's blocks
    applied,                \* how many were applied to the image
    formatCleared,          \* the new header says: not encrypted, not compressed
    newFile,                \* what is at newXexPath
    closeFailed,            \* close met an error that bad does not report
    result

fileVars == <<baseFile, patchFile, opened>>
outputVars == <<newFile, closeFailed>>
patchingVars == <<imageMove, headerReach, blocks, applied, formatCleared>>
vars == <<pc, xex, patch, fileVars, out, patchingVars, outputVars, result>>

headerTargetSize ==
    IF patch.targetSize = 0 THEN patch.targetOffset + patch.sourceSize ELSE patch.targetSize

newXexHeaderSize ==
    IF headerTargetSize > xex.headerSize THEN headerTargetSize ELSE xex.headerSize

Bytes == {<<"zero">>, <<"delta">>, <<"undefined">>}
           \cup ({"base", "exe", "image"} \X Nat)

TypeOK ==
    /\ pc \in {"openBase", "openPatch", "isOpen", "validate", "header", "headerDelta", "data", "keys",
               "decrypt", "decompress", "format", "imageMove", "blocks", "write",
               "close", "returned", "overrun"}
    /\ xex \in Xexes /\ patch \in Patches
    /\ baseFile \in MemoryMappedFile /\ patchFile \in MemoryMappedFile
    /\ opened \in [base : BOOLEAN, patch : BOOLEAN]
    /\ \A a \in DOMAIN out : a \in Nat /\ out[a] \in Bytes
    /\ imageMove \in Moves
    /\ headerReach \in HeaderOffsets
    /\ blocks \in Seq(Blocks) /\ Len(blocks) <= MaxBlocks
    /\ applied \in 0..Len(blocks)
    /\ formatCleared \in BOOLEAN
    /\ newFile \in {"old", "truncated", "complete", "removed"}
    /\ closeFailed \in BOOLEAN
    /\ result \in Results \cup {"none"}

Init ==
    /\ pc = "openBase"
    /\ xex \in Xexes
    /\ patch = [sourceOffset |-> 0, sourceSize |-> 0, targetOffset |-> 0, targetSize |-> 0,
                imageSize |-> xex.imageSize]
    /\ baseFile = Closed /\ patchFile = Closed
    /\ opened = [base |-> FALSE, patch |-> FALSE]
    /\ out = <<>>
    /\ imageMove = NoMove /\ headerReach = 0
    /\ blocks = <<>> /\ applied = 0 /\ formatCleared = FALSE
    /\ newFile = "old" /\ closeFailed = FALSE
    /\ result = "none"

Goto(from, to) == pc = from /\ pc' = to /\ UNCHANGED <<xex, result>>

(* A return from either apply ends in the destructors of the two files. *)
Return(from, code) == pc = from /\ pc' = "close" /\ result' = code /\ UNCHANGED xex

-----------------------------------------------------------------------------
(* Buffers *)

Zeroes(size) == [a \in 0..(size - 1) |-> <<"zero">>]

Fits(buffer, at, size) == at + size <= Cardinality(DOMAIN buffer)

Written(buffer, at, size, Byte(_)) ==
    [a \in DOMAIN buffer |-> IF a \in at..(at + size - 1) THEN Byte(a - at) ELSE buffer[a]]

Resized(buffer, size) ==
    [a \in 0..(size - 1) |-> IF a \in DOMAIN buffer THEN buffer[a] ELSE <<"zero">>]

Overlap(m) == m.source # m.target /\ m.source < m.target + m.size /\ m.target < m.source + m.size

(* memcpy within one buffer at base: undefined where the ranges overlap. *)
Copied(buffer, base, m) ==
    Written(buffer, base + m.target, m.size,
            LAMBDA k : IF Overlap(m) THEN <<"undefined">> ELSE buffer[base + m.source + k])

(* What the records of a delta patch leave: they test no range. *)
Patched(buffer, base, writes) ==
    [a \in DOMAIN buffer |-> IF a - base \in writes THEN <<"delta">> ELSE buffer[a]]

-----------------------------------------------------------------------------
(* The two files *)

OpenBase ==
    /\ Goto("openBase", "openPatch")
    /\ \E size \in {0, xex.headerSize + xex.exeSize} : \E o \in Open(size) :
          baseFile' = o.file /\ opened' = [opened EXCEPT !.base = o.opened]
    /\ UNCHANGED <<patch, patchFile, out, patchingVars, outputVars>>

OpenPatch ==
    /\ Goto("openPatch", "isOpen")
    /\ \E size \in {0, 1} : \E o \in Open(size) :
          patchFile' = o.file /\ opened' = [opened EXCEPT !.patch = o.opened]
    /\ UNCHANGED <<patch, baseFile, out, patchingVars, outputVars>>

(* Without a view, apply reads through a null pointer. *)
TestOpen ==
    /\ IF ~IsOpen(baseFile) \/ ~IsOpen(patchFile)
       THEN Return("isOpen", "FileOpenFailed")
       ELSE Goto("isOpen", IF baseFile.view /\ patchFile.view THEN "validate" ELSE "overrun")
    /\ UNCHANGED <<patch, fileVars, out, patchingVars, outputVars>>

-----------------------------------------------------------------------------
(* The header *)

(* Faulty: the source range is not checked. *)
Compatible_SourceUnchecked(p) ==
    /\ p.targetOffset <= p.targetSize
    /\ p.sourceSize <= p.targetSize - p.targetOffset

Compatible(p) ==
    /\ p.sourceOffset <= xex.headerSize
    /\ p.sourceSize <= xex.headerSize - p.sourceOffset
    /\ p.targetOffset <= p.targetSize
    /\ p.sourceSize <= p.targetSize - p.targetOffset

(* The magics, flags, descriptor and format come first. *)
Validate ==
    /\ \/ /\ \E code \in {"XexFileInvalid", "PatchFileInvalid"} : Return("validate", code)
          /\ UNCHANGED patch
       \/ \E p \in Patches :
             /\ patch' = p
             /\ IF Compatible(p) THEN Goto("validate", "header")
                                 ELSE Return("validate", "PatchIncompatible")
    /\ UNCHANGED <<fileVars, out, patchingVars, outputVars>>

(* Faulty: the offsets are the wrong way round. *)
HeaderMove_Swapped == [source |-> patch.targetOffset, size |-> patch.sourceSize,
                       target |-> patch.sourceOffset]

HeaderMove == [source |-> patch.sourceOffset, size |-> patch.sourceSize,
               target |-> patch.targetOffset]

(* The new header starts as headerTargetSize bytes of the base file, within *)
(* which the patch may have a range moved.                                  *)
CopyHeader ==
    LET fresh == Zeroes(newXexHeaderSize)
        copy  == Written(fresh, 0, headerTargetSize, LAMBDA k : <<"base", k>>)
    IN
    /\ IF headerTargetSize <= xex.headerSize + xex.exeSize
          /\ (patch.sourceOffset > 0 =>
                 /\ Fits(fresh, patch.sourceOffset, patch.sourceSize)
                 /\ Fits(fresh, patch.targetOffset, patch.sourceSize))
       THEN /\ Goto("header", "headerDelta")
            /\ out' = IF patch.sourceOffset > 0 THEN Copied(copy, 0, HeaderMove) ELSE copy
       ELSE /\ Goto("header", "overrun")
            /\ out' = copy
    /\ UNCHANGED <<patch, fileVars, patchingVars, outputVars>>

(* lzxDeltaApplyPatch on the header, whose records may write anything in   *)
(* their reach; and it may fail before it has come as far.                 *)
PatchHeader ==
    /\ \E reach \in HeaderOffsets :
          /\ headerReach' = reach
          /\ out' = Patched(out, 0, 0..(reach - 1))
          /\ \/ Return("headerDelta", "PatchFailed")
             \/ Goto("headerDelta", IF reach <= newXexHeaderSize THEN "data" ELSE "overrun")
    /\ UNCHANGED <<patch, fileVars, imageMove, blocks, applied, formatCleared, outputVars>>

(* Cut the header to size, make room for the image and copy the base's. *)
CopyData ==
    LET fresh == Resized(Resized(out, headerTargetSize), headerTargetSize + patch.imageSize) IN
    /\ IF headerTargetSize > 0 /\ Fits(fresh, headerTargetSize, xex.exeSize)
       THEN /\ Goto("data", "keys")
            /\ out' = Written(fresh, headerTargetSize, xex.exeSize,
                              LAMBDA k : <<"base", xex.headerSize + k>>)
       ELSE Goto("data", "overrun") /\ UNCHANGED out
    /\ UNCHANGED <<patch, fileVars, patchingVars, outputVars>>

(* skipData, which no caller sets, is left out. *)
CompareKeys ==
    /\ Goto("keys", "decrypt") \/ Return("keys", "PatchIncompatible")
    /\ UNCHANGED <<patch, fileVars, out, patchingVars, outputVars>>

-----------------------------------------------------------------------------
(* The base image *)

(* encryptionType is none, normal or neither. *)
Decrypt ==
    /\ \/ /\ Goto("decrypt", "decompress")
          /\ out' = Written(out, headerTargetSize, xex.exeSize, LAMBDA k : <<"exe", k>>)
       \/ Return("decrypt", "XexFileInvalid") /\ UNCHANGED out
    /\ UNCHANGED <<patch, fileVars, patchingVars, outputVars>>

BaseImage(j) == IF xex.compression = "none" THEN <<"exe", j>> ELSE <<"image", j>>

(* Faulty: the image goes behind the longer of the two headers. *)
DecompressBasic_AtNewHeader ==
    /\ xex.compression = "basic"
    /\ IF Fits(out, newXexHeaderSize, xex.imageSize)
       THEN /\ Goto("decompress", "format")
            /\ out' = Written(out, newXexHeaderSize, xex.imageSize, BaseImage)
       ELSE Return("decompress", "XexFileInvalid") /\ UNCHANGED out
    /\ UNCHANGED <<patch, fileVars, patchingVars, outputVars>>

DecompressBasic ==
    /\ xex.compression = "basic"
    /\ IF Fits(out, headerTargetSize, xex.imageSize)
       THEN /\ Goto("decompress", "format")
            /\ out' = Written(out, headerTargetSize, xex.imageSize, BaseImage)
       ELSE Return("decompress", "XexFileInvalid") /\ UNCHANGED out
    /\ UNCHANGED <<patch, fileVars, patchingVars, outputVars>>

(* The walk over the hashed blocks, and LZX to newXexHeaderSize. *)
DecompressNormal ==
    /\ xex.compression = "normal"
    /\ \/ Return("decompress", "PatchFailed")
       \/ Goto("decompress", IF Fits(out, newXexHeaderSize, xex.imageSize) THEN "format" ELSE "overrun")
    /\ out' = Written(out, newXexHeaderSize, xex.imageSize, BaseImage)
    /\ UNCHANGED <<patch, fileVars, patchingVars, outputVars>>

DecompressOther ==
    /\ \/ xex.compression = "none" /\ Goto("decompress", "format")
       \/ /\ xex.compression = "other"
          /\ \E code \in {"XexFileUnsupported", "XexFileInvalid"} : Return("decompress", code)
    /\ UNCHANGED <<patch, fileVars, out, patchingVars, outputVars>>

(* The new header's format, then the patch's encryption *)
ClearFormat ==
    /\ \/ Goto("format", "imageMove") /\ formatCleared' = TRUE
       \/ Return("format", "PatchFailed") /\ UNCHANGED formatCleared
       \/ Return("format", "PatchFileInvalid") /\ formatCleared' = TRUE
    /\ UNCHANGED <<patch, fileVars, out, imageMove, headerReach, blocks, applied, outputVars>>

-----------------------------------------------------------------------------
(* The patch, block by block, and the new file *)

(* The descriptor's range is not tested.  A move of nothing is NoMove.     *)
MoveImage ==
    /\ \E m \in Moves :
          /\ m.source = 0 \/ m.size = 0 => m = NoMove
          /\ imageMove' = m
          /\ IF m.source + m.size <= patch.imageSize /\ m.target + m.size <= patch.imageSize
             THEN /\ Goto("imageMove", "blocks")
                  /\ out' = IF m.source > 0 THEN Copied(out, headerTargetSize, m) ELSE out
                  /\ \E n \in 0..MaxBlocks : blocks' \in [1..n -> Blocks]
             ELSE Goto("imageMove", "overrun") /\ UNCHANGED <<out, blocks>>
    /\ UNCHANGED <<patch, fileVars, headerReach, applied, formatCleared, outputVars>>

(* Faulty: the walk goes on behind the last block. *)
ApplyBlock_NoEnd ==
    /\ pc = "blocks"
    /\ applied' = applied + 1
    /\ UNCHANGED <<pc, xex, patch, fileVars, out, imageMove, headerReach, blocks, formatCleared,
                   outputVars, result>>

(* lzxDeltaApplyPatch on the image: the records of a block that hashes, or  *)
(* some of them when LZX fails.                                             *)
ApplyBlock ==
    LET b == blocks[applied + 1]
        patched == Patched(out, headerTargetSize, b.writes)
    IN
    /\ pc = "blocks" /\ applied < Len(blocks)
    /\ \/ /\ ~b.hashes
          /\ Return("blocks", "PatchFailed") /\ UNCHANGED <<out, applied>>
       \/ /\ b.hashes /\ out' = patched
          /\ Return("blocks", "PatchFailed") /\ UNCHANGED applied
       \/ /\ b.hashes /\ out' = patched /\ b.reach > patch.imageSize
          /\ Goto("blocks", "overrun") /\ UNCHANGED applied
       \/ /\ b.hashes /\ out' = patched /\ b.reach <= patch.imageSize
          /\ applied' = applied + 1 /\ UNCHANGED <<pc, xex, result>>
    /\ UNCHANGED <<patch, fileVars, imageMove, headerReach, blocks, formatCleared, outputVars>>

BlocksDone ==
    /\ applied = Len(blocks)
    /\ Goto("blocks", "write")
    /\ UNCHANGED <<patch, fileVars, out, patchingVars, outputVars>>

(* Faulty: what was written is not removed. *)
WriteFile_KeepsTruncated ==
    /\ \/ Return("write", "FileOpenFailed") /\ UNCHANGED outputVars
       \/ Return("write", "FileWriteFailed") /\ newFile' = "truncated" /\ UNCHANGED closeFailed
       \/ Return("write", "Success") /\ newFile' = "complete" /\ UNCHANGED closeFailed
    /\ UNCHANGED <<patch, fileVars, out, patchingVars>>

(* An error while writing sets badbit.  One that close meets sets failbit   *)
(* only, and the test of bad does not see it.                               *)
WriteFile ==
    /\ \/ Return("write", "FileOpenFailed") /\ UNCHANGED outputVars
       \/ Return("write", "FileWriteFailed") /\ newFile' = "removed" /\ UNCHANGED closeFailed
       \/ Return("write", "Success") /\ newFile' = "truncated" /\ closeFailed' = TRUE
       \/ Return("write", "Success") /\ newFile' = "complete" /\ UNCHANGED closeFailed
    /\ UNCHANGED <<patch, fileVars, out, patchingVars>>

(* The locals of both functions go out of scope. *)
CloseFiles ==
    /\ Goto("close", "returned")
    /\ patchFile' = Close(patchFile) /\ baseFile' = Close(baseFile)
    /\ out' = <<>> /\ imageMove' = NoMove /\ headerReach' = 0
    /\ UNCHANGED <<patch, opened, blocks, applied, formatCleared, outputVars>>

Finished == pc \in {"returned", "overrun"} /\ UNCHANGED vars

Next ==
    \/ OpenBase \/ OpenPatch \/ TestOpen
    \/ Validate \/ CopyHeader \/ PatchHeader \/ CopyData \/ CompareKeys
    \/ Decrypt \/ DecompressBasic \/ DecompressNormal \/ DecompressOther \/ ClearFormat
    \/ MoveImage \/ ApplyBlock \/ BlocksDone \/ WriteFile \/ CloseFiles
    \/ Finished

Spec == Init /\ [][Next]_vars

-----------------------------------------------------------------------------
(* Properties *)

(* A failed apply leaves at newXexPath the old file or none, never a part   *)
(* of a new one.  A successful one leaves all of it, but for an error that  *)
(* close met, and in it every block of the patch, each hashed, and a header *)
(* that no longer asks for decryption (xex_patcher.cpp:478-479, 507-567).   *)
OutputTruthful ==
    pc = "returned" =>
        IF result = "Success"
        THEN /\ newFile = "complete" \/ closeFailed
             /\ applied = Len(blocks) /\ (\A i \in 1..Len(blocks) : blocks[i].hashes) /\ formatCleared
        ELSE newFile \in {"old", "removed"}

(* Where the header's delta patch reads a range that the descriptor says    *)
(* was moved, it reads base header bytes, as long as the ranges do not      *)
(* overlap and the new header is no shorter than what is moved              *)
(* (xex_patcher.cpp:296-302).                                               *)
HeaderDeltaReadsBase ==
    /\ pc = "headerDelta" /\ patch.sourceOffset > 0 /\ ~Overlap(HeaderMove)
    /\ patch.sourceOffset + patch.sourceSize <= headerTargetSize
    => \A k \in 0..(patch.sourceSize - 1) :
          out[patch.targetOffset + k] = <<"base", patch.sourceOffset + k>>

(* The base's image, with zeroes behind it. *)
ImageByte(j) == IF j < xex.imageSize THEN BaseImage(j) ELSE <<"zero">>

(* The image blocks are applied to the base's image, decrypted and          *)
(* decompressed, whichever way it is compressed, with zeroes behind it and  *)
(* the descriptor's range moved; and in what is written each byte is of     *)
(* that image but the ones that the records of a block that hashed have     *)
(* written.  Excepted are an overlapping move, and the LZX case under a     *)
(* header that became shorter: its image goes to newXexHeaderSize (455)     *)
(* and outExe is at the new header's size (xex_patcher.cpp:497-501, 524).   *)
ImageDeltaReadsBase ==
    LET m == imageMove
        moved(j)   == m.source > 0 /\ j \in m.target..(m.target + m.size - 1)
        patched(j) == \E i \in 1..applied : j \in blocks[i].writes
    IN
    /\ pc \in {"blocks", "write"} /\ (m.source > 0 => ~Overlap(m))
    /\ xex.compression = "normal" => headerTargetSize >= xex.headerSize
    => \A j \in 0..(patch.imageSize - 1) :
          out[headerTargetSize + j] =
              IF patched(j) THEN <<"delta">>
              ELSE IF moved(j) THEN ImageByte(m.source + j - m.target)
              ELSE ImageByte(j)

(* outBytes or the base file are overrun only by files of seven kinds, none *)
(* of which apply tests for: a patch with no target header, one with a      *)
(* target header longer than the base file, header records that reach       *)
(* behind both headers (xex_patcher.cpp:304), a new image smaller than the  *)
(* base's executable (318) or than the LZX image (455-457), an image move   *)
(* that leaves the new image (500), and records of a block that hashed that *)
(* reach behind it (196-209, 524).                                          *)
OverrunOnlyIf ==
    pc = "overrun" =>
        \/ headerTargetSize = 0
        \/ headerTargetSize > xex.headerSize + xex.exeSize
        \/ headerReach > newXexHeaderSize
        \/ xex.exeSize > patch.imageSize
        \/ /\ xex.compression = "normal"
           /\ newXexHeaderSize + xex.imageSize > headerTargetSize + patch.imageSize
        \/ imageMove.source + imageMove.size > patch.imageSize
        \/ imageMove.target + imageMove.size > patch.imageSize
        \/ \E i \in 1..Len(blocks) : blocks[i].hashes /\ blocks[i].reach > patch.imageSize

(* A file that apply takes for open was opened: what memory_mapped_file.cpp *)
(* says of isOpen, and what xex_patcher.cpp:540 tests it for.               *)
OpenMeansRead ==
    pc \notin {"openBase", "openPatch"} =>
        /\ IsOpen(baseFile) => opened.base
        /\ IsOpen(patchFile) => opened.patch

(***************************************************************************)
(* The inductive strengthening: what each stage knows of the layout of     *)
(* outBytes, of the patch and of the files.                                *)
(***************************************************************************)
PatchTested == {"header", "headerDelta", "data", "keys", "decrypt", "decompress",
                "format", "imageMove", "blocks", "write"}
ImageMade == {"format", "imageMove"}

(* outBytes is as long as the longer header, and then has room for the new *)
(* header and image; the base executable fits behind the header.           *)
Room ==
    /\ pc \in PatchTested => Compatible(patch)
    /\ pc \in {"headerDelta", "data"} => DOMAIN out = 0..(newXexHeaderSize - 1)
    /\ pc \in {"keys", "decrypt", "decompress", "format", "imageMove", "blocks", "write"} =>
          DOMAIN out = 0..(headerTargetSize + patch.imageSize - 1) /\ xex.exeSize <= patch.imageSize
    /\ pc \in ImageMade \cup {"blocks", "write"} => xex.imageSize <= patch.imageSize

(* The image's part of outBytes, before anything is moved. *)
ImageBytes ==
    \A j \in 0..(patch.imageSize - 1) :
        LET byte == out[headerTargetSize + j] IN
        /\ pc \in {"keys", "decrypt"} /\ j >= xex.exeSize => byte = <<"zero">>
        /\ pc = "decompress" => byte = IF j < xex.exeSize THEN <<"exe", j>> ELSE <<"zero">>
        /\ pc \in ImageMade /\ (xex.compression = "normal" => headerTargetSize >= xex.headerSize) =>
              byte = ImageByte(j)

(* Nothing is written to newXexPath before every block has been applied to *)
(* an image whose new header is in the clear.                              *)
BlocksSoFar ==
    /\ \A i \in 1..applied : blocks[i].hashes
    /\ pc \notin {"blocks", "write", "close", "returned", "overrun"} => applied = 0
    /\ pc \in {"imageMove", "blocks", "write"} => formatCleared
    /\ pc = "write" => applied = Len(blocks)
    /\ pc \notin {"close", "returned"} => newFile = "old" /\ result = "none"
    /\ pc = "close" => result \in Results

(* OutputTruthful from the return on. *)
ReturnTruthful ==
    pc \in {"close", "returned"} =>
        IF result = "Success"
        THEN /\ newFile = "complete" \/ closeFailed
             /\ applied = Len(blocks) /\ formatCleared
        ELSE newFile \in {"old", "removed"}

(* In the POSIX build a file has a view only while what open said is true. *)
ViewMeansOpened ==
    Platform = "posix" =>
        /\ baseFile.view => opened.base
        /\ patchFile.view => opened.patch

(* In the Switch build apply also reads a file that has no view. *)
OverrunExplained ==
    OverrunOnlyIf \/ (Platform = "switch" /\ ~(baseFile.view /\ patchFile.view))

(* What every stage of apply may rely on. *)
IndInv ==
    /\ TypeOK
    /\ Room
    /\ ImageBytes
    /\ BlocksSoFar
    /\ ReturnTruthful
    /\ ViewMeansOpened
    /\ HeaderDeltaReadsBase
    /\ ImageDeltaReadsBase
    /\ OverrunExplained
==============================================================================
