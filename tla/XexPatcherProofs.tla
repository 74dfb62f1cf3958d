---------------------------- MODULE XexPatcherProofs ----------------------------
(***************************************************************************)
(* Proofs about XexPatcher, for files of any sizes, any descriptor and any *)
(* number of blocks, on either platform; and about XexBlocks, the walks in *)
(* it, for files of any number of blocks, records and chunks.              *)
(***************************************************************************)
EXTENDS XexPatcher, XexBlocks, TLAPS, FiniteSetTheorems, WellFoundedInduction

-----------------------------------------------------------------------------
(* Sizes and buffers *)

LEMMA SizesAreNat ==
    ASSUME xex \in Xexes, patch \in Patches
    PROVE  /\ xex.headerSize \in Nat /\ xex.exeSize \in Nat /\ xex.imageSize \in Nat
           /\ xex.headerSize > 0 /\ xex.exeSize > 0 /\ xex.exeSize <= xex.imageSize
           /\ xex.compression \in {"none", "basic", "normal", "other"}
           /\ xex.compression = "none" => xex.exeSize = xex.imageSize
           /\ patch.sourceOffset \in Nat /\ patch.sourceSize \in Nat
           /\ patch.targetOffset \in Nat /\ patch.targetSize \in Nat
           /\ patch.imageSize \in Nat
           /\ headerTargetSize \in Nat /\ newXexHeaderSize \in Nat
           /\ headerTargetSize <= newXexHeaderSize /\ xex.headerSize <= newXexHeaderSize
           /\ newXexHeaderSize \in {headerTargetSize, xex.headerSize}
<1>1. xex.headerSize \in Nat \ {0} /\ xex.exeSize \in Nat \ {0} /\ xex.imageSize \in Nat \ {0}
  BY SizesAssumption DEF Xexes
<1>2. /\ xex.exeSize <= xex.imageSize
      /\ xex.compression = "none" => xex.exeSize = xex.imageSize
      /\ xex.compression \in {"none", "basic", "normal", "other"}
  BY DEF Xexes
<1>3. /\ patch.sourceOffset \in Nat /\ patch.sourceSize \in Nat
      /\ patch.targetOffset \in Nat /\ patch.targetSize \in Nat /\ patch.imageSize \in Nat
  BY SizesAssumption DEF Patches
<1>4. QED
  BY <1>1, <1>2, <1>3 DEF headerTargetSize, newXexHeaderSize

(* A range fits into a buffer of n bytes when it ends within them. *)
LEMMA FitsIn ==
    ASSUME NEW n \in Nat, NEW buffer, DOMAIN buffer = 0..(n - 1), NEW at, NEW size
    PROVE  Fits(buffer, at, size) <=> at + size <= n
<1>1. Cardinality(0..(n - 1)) = n
  BY FS_Interval
<1>2. QED
  BY <1>1 DEF Fits

LEMMA FitsInBoth ==
    ASSUME NEW m \in Nat, NEW n \in Nat, NEW buffer, DOMAIN buffer = 0..(m + n - 1), NEW at, NEW size
    PROVE  Fits(buffer, at, size) <=> at + size <= m + n
<1>1. PICK k \in Nat : k = m + n
  OBVIOUS
<1>2. DOMAIN buffer = 0..(k - 1)
  BY <1>1
<1>3. Fits(buffer, at, size) <=> at + size <= k
  BY <1>2, FitsIn, Zenon
<1>4. QED
  BY <1>1, <1>3, Zenon

(* What the two sizes and the test of the descriptor are made of stays.    *)
LEMMA SizesStay ==
    UNCHANGED <<xex, patch>> =>
        /\ headerTargetSize' = headerTargetSize /\ newXexHeaderSize' = newXexHeaderSize
        /\ Compatible(patch)' <=> Compatible(patch)
        /\ HeaderMove' = HeaderMove
  BY DEF headerTargetSize, newXexHeaderSize, Compatible, HeaderMove

LEMMA InitInv == Init => IndInv
<1> SUFFICES ASSUME Init PROVE IndInv
  OBVIOUS
<1>1. xex \in Xexes /\ xex.imageSize \in ImageSizes
  BY DEF Init, Xexes
<1>2. patch \in Patches
  BY <1>1, SizesAssumption DEF Init, Patches
<1>3. out = <<>> /\ DOMAIN out = {} /\ blocks = <<>> /\ blocks \in Seq(Blocks) /\ Len(blocks) = 0
  BY DEF Init
<1>4. imageMove \in Moves /\ headerReach \in HeaderOffsets /\ baseFile \in MemoryMappedFile /\ patchFile \in MemoryMappedFile
  BY SizesAssumption DEF Init, Closed, MemoryMappedFile, Moves, NoMove
<1>5. opened \in [base : BOOLEAN, patch : BOOLEAN] /\ formatCleared \in BOOLEAN /\ closeFailed \in BOOLEAN
  BY DEF Init
<1>6. pc = "openBase" /\ applied = 0 /\ newFile = "old" /\ result = "none"
  BY DEF Init
<1>7. applied \in 0..Len(blocks) /\ Len(blocks) <= MaxBlocks
  BY <1>3, <1>6, SizesAssumption
<1>8. TypeOK
  BY <1>1, <1>2, <1>3, <1>4, <1>5, <1>6, <1>7 DEF TypeOK
<1>9. Room /\ ImageBytes /\ BlocksSoFar /\ ReturnTruthful
  BY <1>6 DEF Room, ImageBytes, BlocksSoFar, ReturnTruthful, PatchTested, ImageMade
<1>10. HeaderDeltaReadsBase /\ ImageDeltaReadsBase /\ OverrunExplained
  BY <1>6 DEF HeaderDeltaReadsBase, ImageDeltaReadsBase, OverrunExplained, OverrunOnlyIf
<1>11. ViewMeansOpened
  BY DEF Init, Closed, ViewMeansOpened
<1>12. QED
  BY <1>8, <1>9, <1>10, <1>11 DEF IndInv

-----------------------------------------------------------------------------
(* Stages that leave outBytes alone *)

(* With outBytes, the sizes and the move as they were, what is known of    *)
(* the layout is known in the next stage too.                              *)
LEMMA LayoutStays ==
    ASSUME IndInv, UNCHANGED <<xex, patch, out, imageMove, blocks, applied>>,
           \/ pc' = pc
           \/ pc' \notin PatchTested
           \/ pc = "keys" /\ pc' = "decrypt"
           \/ pc = "format" /\ pc' = "imageMove"
           \/ pc = "blocks" /\ pc' = "write"
    PROVE  Room' /\ ImageBytes' /\ HeaderDeltaReadsBase' /\ ImageDeltaReadsBase'
<1>1. /\ headerTargetSize' = headerTargetSize /\ newXexHeaderSize' = newXexHeaderSize
      /\ Compatible(patch)' <=> Compatible(patch)
      /\ HeaderMove' = HeaderMove
  BY SizesStay
<1> USE <1>1 DEF IndInv, PatchTested, ImageMade
<1>2. Room'
  BY DEF Room
<1>3. ImageBytes'
  BY DEF ImageBytes, ImageByte, BaseImage
<1>4. HeaderDeltaReadsBase'
  BY DEF HeaderDeltaReadsBase
<1>5. ImageDeltaReadsBase'
  BY DEF ImageDeltaReadsBase, ImageByte, BaseImage
<1>6. QED
  BY <1>2, <1>3, <1>4, <1>5

-----------------------------------------------------------------------------
(* Stages that write outBytes *)

(* All that is known of the layout, of a byte each. *)
OutTyped == \A a \in DOMAIN out : a \in Nat /\ out[a] \in Bytes

LEMMA BytesAre ==
    /\ <<"zero">> \in Bytes /\ <<"delta">> \in Bytes /\ <<"undefined">> \in Bytes
    /\ \A k \in Nat : <<"base", k>> \in Bytes /\ <<"exe", k>> \in Bytes /\ BaseImage(k) \in Bytes
  BY DEF Bytes, BaseImage

LEMMA SizesNow ==
    ASSUME IndInv
    PROVE  /\ xex.headerSize \in Nat /\ xex.exeSize \in Nat /\ xex.imageSize \in Nat
           /\ xex.headerSize > 0 /\ xex.exeSize > 0 /\ xex.exeSize <= xex.imageSize
           /\ patch.sourceOffset \in Nat /\ patch.sourceSize \in Nat
           /\ patch.targetOffset \in Nat /\ patch.targetSize \in Nat
           /\ patch.imageSize \in Nat
           /\ headerTargetSize \in Nat /\ newXexHeaderSize \in Nat
           /\ headerTargetSize <= newXexHeaderSize /\ xex.headerSize <= newXexHeaderSize
           /\ newXexHeaderSize \in {headerTargetSize, xex.headerSize}
  BY SizesAreNat DEF IndInv, TypeOK

(* A descriptor that passes the test moves a range within both headers, so *)
(* that the header's own move never leaves the buffer.                     *)
LEMMA CompatibleFits ==
    ASSUME IndInv, Compatible(patch), patch.sourceOffset > 0
    PROVE  /\ patch.sourceOffset + patch.sourceSize <= newXexHeaderSize
           /\ patch.targetOffset + patch.sourceSize <= headerTargetSize
<1>1. /\ patch.sourceSize <= xex.headerSize - patch.sourceOffset
      /\ patch.targetOffset <= patch.targetSize
      /\ patch.sourceSize <= patch.targetSize - patch.targetOffset
  BY DEF Compatible
<1>2. patch.targetSize <= headerTargetSize
  BY SizesNow DEF headerTargetSize
<1>3. QED
  BY <1>1, <1>2, SizesNow

LEMMA CopyHeaderLayout ==
    ASSUME IndInv, CopyHeader
    PROVE  /\ OutTyped' /\ Room' /\ ImageBytes' /\ HeaderDeltaReadsBase' /\ ImageDeltaReadsBase'
           /\ OverrunOnlyIf'
<1>1. /\ headerTargetSize' = headerTargetSize /\ newXexHeaderSize' = newXexHeaderSize
      /\ Compatible(patch)' <=> Compatible(patch)
      /\ HeaderMove' = HeaderMove
  BY SizesStay DEF CopyHeader, Goto
<1>2. /\ pc = "header" /\ pc' \in {"headerDelta", "overrun"}
      /\ UNCHANGED <<xex, patch, imageMove>>
  BY DEF CopyHeader, Goto, patchingVars
<1>3. Compatible(patch)
  BY <1>2 DEF IndInv, Room, PatchTested
<1>4. PICK N \in Nat : N = newXexHeaderSize
  BY SizesNow
<1>5. PICK H \in Nat : H = headerTargetSize
  BY SizesNow
<1>6. H <= N
  BY <1>4, <1>5, SizesNow
<1>7. PICK fresh : fresh = Zeroes(N)
  OBVIOUS
<1>8. PICK copy : copy = Written(fresh, 0, H, LAMBDA k : <<"base", k>>)
  OBVIOUS
<1>9. DOMAIN fresh = 0..(N - 1) /\ DOMAIN copy = 0..(N - 1)
  BY <1>7, <1>8 DEF Zeroes, Written
<1>10. \A a \in 0..(N - 1) : copy[a] = IF a < H THEN <<"base", a>> ELSE <<"zero">>
  BY <1>4, <1>5, <1>6, <1>7, <1>8, <1>9 DEF Zeroes, Written
<1>11. \A a \in 0..(N - 1) : copy[a] \in Bytes
  <2>1. ASSUME NEW a \in 0..(N - 1) PROVE copy[a] \in Bytes
    <3>1. a \in Nat
      OBVIOUS
    <3>2. <<"base", a>> \in Bytes /\ <<"zero">> \in Bytes
      BY <3>1, BytesAre
    <3>3. copy[a] = <<"base", a>> \/ copy[a] = <<"zero">>
      BY <1>10
    <3>4. QED
      BY <3>2, <3>3, Zenon
  <2>2. QED
    BY <2>1
<1>12. IF H <= xex.headerSize + xex.exeSize
          /\ (patch.sourceOffset > 0 =>
                 /\ Fits(fresh, patch.sourceOffset, patch.sourceSize)
                 /\ Fits(fresh, patch.targetOffset, patch.sourceSize))
       THEN /\ pc' = "headerDelta"
            /\ out' = IF patch.sourceOffset > 0 THEN Copied(copy, 0, HeaderMove) ELSE copy
       ELSE pc' = "overrun" /\ out' = copy
  BY <1>4, <1>5, <1>7, <1>8 DEF CopyHeader, Goto
<1>13. patch.sourceOffset > 0 =>
          /\ patch.sourceOffset + patch.sourceSize <= N
          /\ patch.targetOffset + patch.sourceSize <= H
          /\ Fits(fresh, patch.sourceOffset, patch.sourceSize)
          /\ Fits(fresh, patch.targetOffset, patch.sourceSize)
  <2>1. SUFFICES ASSUME patch.sourceOffset > 0
                 PROVE  /\ patch.sourceOffset + patch.sourceSize <= N
                        /\ patch.targetOffset + patch.sourceSize <= H
                        /\ Fits(fresh, patch.sourceOffset, patch.sourceSize)
                        /\ Fits(fresh, patch.targetOffset, patch.sourceSize)
    OBVIOUS
  <2>2. patch.sourceOffset + patch.sourceSize <= N /\ patch.targetOffset + patch.sourceSize <= H
    BY <2>1, <1>3, <1>4, <1>5, CompatibleFits
  <2>3. patch.targetOffset + patch.sourceSize <= N
    BY <2>2, <1>6, SizesNow
  <2>4. QED
    BY <2>2, <2>3, <1>9, FitsIn
<1>14. CASE pc' = "overrun"
  <2>1. out' = copy /\ H > xex.headerSize + xex.exeSize
    BY <1>12, <1>13, <1>14, SizesNow
  <2>2. OutTyped'
    BY <2>1, <1>9, <1>11 DEF OutTyped
  <2>3. OverrunOnlyIf'
    BY <2>1, <1>1, <1>2, <1>5 DEF OverrunOnlyIf
  <2>4. Room' /\ ImageBytes' /\ HeaderDeltaReadsBase' /\ ImageDeltaReadsBase'
    BY <1>14 DEF Room, ImageBytes, HeaderDeltaReadsBase, ImageDeltaReadsBase, PatchTested, ImageMade
  <2>5. QED
    BY <2>2, <2>3, <2>4
<1>15. CASE pc' = "headerDelta" /\ patch.sourceOffset = 0
  <2>1. out' = copy
    BY <1>12, <1>15
  <2>2. OutTyped'
    BY <2>1, <1>9, <1>11 DEF OutTyped
  <2>3. Room'
    BY <2>1, <1>1, <1>2, <1>3, <1>4, <1>9, <1>15 DEF Room, ImageMade
  <2>4. OverrunOnlyIf' /\ ImageBytes' /\ ImageDeltaReadsBase' /\ HeaderDeltaReadsBase'
    BY <1>2, <1>15 DEF OverrunOnlyIf, ImageBytes, ImageDeltaReadsBase, HeaderDeltaReadsBase,
           ImageMade
  <2>5. QED
    BY <2>2, <2>3, <2>4
<1>16. CASE pc' = "headerDelta" /\ patch.sourceOffset > 0
  <2>1. out' = Copied(copy, 0, HeaderMove)
    BY <1>12, <1>16
  <2>2. PICK s \in Nat : s = patch.sourceOffset
    BY SizesNow
  <2>3. PICK t \in Nat : t = patch.targetOffset
    BY SizesNow
  <2>4. PICK z \in Nat : z = patch.sourceSize
    BY SizesNow
  <2>5. s + z <= N /\ t + z <= H
    BY <2>2, <2>3, <2>4, <1>13, <1>16
  <2>6. DOMAIN out' = 0..(N - 1)
    BY <2>1, <1>9 DEF Copied, Written
  <2>7. \A a \in 0..(N - 1) :
           out'[a] = IF a \in t..(t + z - 1)
                     THEN IF Overlap(HeaderMove) THEN <<"undefined">> ELSE copy[s + (a - t)]
                     ELSE copy[a]
    BY <2>1, <2>2, <2>3, <2>4, <1>9 DEF Copied, Written, HeaderMove
  <2>8. \A a \in t..(t + z - 1) : a \in 0..(N - 1) /\ s + (a - t) \in 0..(N - 1)
    BY <2>5, <1>6
  <2>9. OutTyped'
    <3>1. ASSUME NEW a \in 0..(N - 1) PROVE out'[a] \in Bytes
      <4>1. CASE a \in t..(t + z - 1)
        BY <4>1, <2>7, <2>8, <1>11, BytesAre
      <4>2. CASE a \notin t..(t + z - 1)
        BY <4>2, <2>7, <1>11
      <4>3. QED
        BY <4>1, <4>2
    <3>2. QED
      BY <3>1, <2>6 DEF OutTyped
  <2>10. Room'
    BY <2>6, <1>1, <1>2, <1>3, <1>4, <1>16 DEF Room, ImageMade
  <2>11. HeaderDeltaReadsBase'
    <3>1. SUFFICES ASSUME ~Overlap(HeaderMove), s + z <= H, NEW k \in 0..(z - 1)
                   PROVE  out'[t + k] = <<"base", s + k>>
      BY <1>1, <1>2, <1>5, <2>2, <2>3, <2>4 DEF HeaderDeltaReadsBase, Overlap
    <3>2. t + k \in t..(t + z - 1) /\ (t + k) - t = k /\ s + k < H /\ s + k \in 0..(N - 1)
      BY <3>1, <1>6
    <3>3. out'[t + k] = copy[s + k]
      BY <3>1, <3>2, <2>7, <2>8
    <3>4. QED
      BY <3>2, <3>3, <1>10
  <2>12. OverrunOnlyIf' /\ ImageBytes' /\ ImageDeltaReadsBase'
    BY <1>16 DEF OverrunOnlyIf, ImageBytes, ImageDeltaReadsBase, ImageMade
  <2>13. QED
    BY <2>9, <2>10, <2>11, <2>12
<1>17. patch.sourceOffset = 0 \/ patch.sourceOffset > 0
  BY SizesNow
<1>18. QED
  BY <1>2, <1>14, <1>15, <1>16, <1>17

(* Writing with the records of a patch leaves bytes, as many as before. *)
LEMMA PatchedBytes ==
    ASSUME OutTyped, NEW base, NEW writes
    PROVE  LET patched == Patched(out, base, writes) IN
           /\ DOMAIN patched = DOMAIN out
           /\ \A a \in DOMAIN out :
                 /\ a - base \in writes => patched[a] = <<"delta">>
                 /\ a - base \notin writes => patched[a] = out[a]
           /\ \A a \in DOMAIN patched : a \in Nat /\ patched[a] \in Bytes
<1> PICK patched : patched = Patched(out, base, writes)
  OBVIOUS
<1>1. /\ DOMAIN patched = DOMAIN out
      /\ \A a \in DOMAIN out : patched[a] = IF a - base \in writes THEN <<"delta">> ELSE out[a]
  BY DEF Patched
<1>2. \A a \in DOMAIN patched : a \in Nat /\ patched[a] \in Bytes
  BY <1>1, BytesAre DEF OutTyped
<1>3. QED
  BY <1>1, <1>2

LEMMA PatchHeaderLayout ==
    ASSUME IndInv, PatchHeader
    PROVE  /\ OutTyped' /\ Room' /\ ImageBytes' /\ HeaderDeltaReadsBase' /\ ImageDeltaReadsBase'
           /\ OverrunOnlyIf'
<1>1. /\ headerTargetSize' = headerTargetSize /\ newXexHeaderSize' = newXexHeaderSize
      /\ Compatible(patch)' <=> Compatible(patch)
  BY SizesStay DEF PatchHeader, Goto, Return
<1>2. PICK reach \in HeaderOffsets :
        /\ headerReach' = reach
        /\ out' = Patched(out, 0, 0..(reach - 1))
        /\ \/ Return("headerDelta", "PatchFailed")
           \/ Goto("headerDelta", IF reach <= newXexHeaderSize THEN "data" ELSE "overrun")
  BY DEF PatchHeader
<1>3. /\ pc = "headerDelta" /\ pc' \in {"close", "data", "overrun"}
      /\ pc' = "overrun" => reach > newXexHeaderSize
      /\ UNCHANGED <<xex, patch, imageMove>>
  <2>1. reach \in Nat /\ newXexHeaderSize \in Nat
    BY SizesAssumption, SizesNow
  <2>2. QED
    BY <1>2, <2>1 DEF PatchHeader, Goto, Return
<1>4. OutTyped
  BY DEF IndInv, TypeOK, OutTyped
<1>5. OutTyped' /\ DOMAIN out' = DOMAIN out
  BY <1>2, <1>4, PatchedBytes DEF OutTyped
<1>6. ImageBytes' /\ HeaderDeltaReadsBase' /\ ImageDeltaReadsBase'
  BY <1>3 DEF ImageBytes, HeaderDeltaReadsBase, ImageDeltaReadsBase, ImageMade
<1>7. OverrunOnlyIf'
  BY <1>1, <1>2, <1>3 DEF OverrunOnlyIf
<1>8. Room'
  <2>1. DOMAIN out = 0..(newXexHeaderSize - 1) /\ Compatible(patch)
    BY <1>3 DEF IndInv, Room, PatchTested
  <2>2. QED
    BY <2>1, <1>1, <1>3, <1>5 DEF Room, PatchTested, ImageMade
<1>9. QED
  BY <1>5, <1>6, <1>7, <1>8

LEMMA CopyDataLayout ==
    ASSUME IndInv, CopyData
    PROVE  /\ OutTyped' /\ Room' /\ ImageBytes' /\ HeaderDeltaReadsBase' /\ ImageDeltaReadsBase'
           /\ OverrunOnlyIf'
<1>1. /\ headerTargetSize' = headerTargetSize /\ newXexHeaderSize' = newXexHeaderSize
      /\ Compatible(patch)' <=> Compatible(patch)
  BY SizesStay DEF CopyData, Goto
<1>2. /\ pc = "data" /\ pc' \in {"keys", "overrun"}
      /\ UNCHANGED <<xex, patch, imageMove>>
  BY DEF CopyData, Goto, patchingVars
<1>3. OutTyped
  BY DEF IndInv, TypeOK, OutTyped
<1>4. Compatible(patch)
  BY <1>2 DEF IndInv, Room, PatchTested
<1>5. HeaderDeltaReadsBase' /\ ImageDeltaReadsBase'
  BY <1>2 DEF HeaderDeltaReadsBase, ImageDeltaReadsBase
<1>6. PICK H \in Nat : H = headerTargetSize
  BY SizesNow
<1>7. PICK E \in Nat : E = xex.exeSize
  BY SizesNow
<1>8. PICK I \in Nat : I = patch.imageSize
  BY SizesNow
<1>9. PICK fresh : fresh = Resized(Resized(out, H), H + I)
  OBVIOUS
<1>10. IF H > 0 /\ Fits(fresh, H, E)
       THEN pc' = "keys" /\ out' = Written(fresh, H, E, LAMBDA k : <<"base", xex.headerSize + k>>)
       ELSE pc' = "overrun" /\ out' = out
  BY <1>6, <1>7, <1>8, <1>9 DEF CopyData, Goto
<1>11. DOMAIN fresh = 0..(H + I - 1) /\ DOMAIN Resized(out, H) = 0..(H - 1)
  BY <1>9 DEF Resized
<1>12. Fits(fresh, H, E) <=> E <= I
  <2>1. Fits(fresh, H, E) <=> H + E <= H + I
    BY <1>11, FitsInBoth, Zenon
  <2>2. H + E <= H + I <=> E <= I
    OBVIOUS
  <2>3. QED
    BY <2>1, <2>2, Zenon
<1>13. CASE pc' = "overrun"
  <2>1. out' = out /\ (H = 0 \/ E > I)
    <3>1. ~(H > 0 /\ Fits(fresh, H, E)) /\ out' = out
      BY <1>10, <1>13, "overrun" # "keys", Zenon
    <3>2. QED
      BY <3>1, <1>12
  <2>2. OutTyped'
    BY <2>1, <1>3 DEF OutTyped
  <2>3. OverrunOnlyIf'
    BY <2>1, <1>1, <1>2, <1>6, <1>7, <1>8 DEF OverrunOnlyIf
  <2>4. Room' /\ ImageBytes'
    BY <1>13 DEF Room, ImageBytes, PatchTested, ImageMade
  <2>5. QED
    BY <2>2, <2>3, <2>4, <1>5
<1>14. CASE pc' = "keys"
  <2>1. /\ out' = Written(fresh, H, E, LAMBDA k : <<"base", xex.headerSize + k>>)
        /\ E <= I
    BY <1>10, <1>12, <1>14
  <2>2. DOMAIN out' = 0..(H + I - 1)
    BY <2>1, <1>11 DEF Written
  <2>3. ASSUME NEW a \in 0..(H + I - 1)
        PROVE  out'[a] = IF a \in H..(H + E - 1) THEN <<"base", xex.headerSize + (a - H)>> ELSE fresh[a]
    BY <2>1, <1>11 DEF Written
  <2>4. ASSUME NEW a \in 0..(H + I - 1), a \notin 0..(H - 1)
        PROVE  fresh[a] = <<"zero">>
    BY <2>4, <1>9, <1>11 DEF Resized
  <2>5. ASSUME NEW a \in 0..(H + I - 1), a \in 0..(H - 1)
        PROVE  fresh[a] \in {out[a], <<"zero">>} /\ (a \notin DOMAIN out => fresh[a] = <<"zero">>)
    <3>1. fresh[a] = Resized(out, H)[a]
      BY <2>5, <1>9, <1>11 DEF Resized
    <3>2. Resized(out, H)[a] = IF a \in DOMAIN out THEN out[a] ELSE <<"zero">>
      BY <2>5 DEF Resized
    <3>3. QED
      BY <3>1, <3>2
  <2>6. ASSUME NEW a \in 0..(H + I - 1) PROVE fresh[a] \in Bytes
    <3>1. CASE a \notin 0..(H - 1)
      BY <3>1, <2>4, BytesAre
    <3>2. CASE a \in 0..(H - 1) /\ a \in DOMAIN out
      BY <3>2, <2>5, <1>3, BytesAre DEF OutTyped
    <3>3. CASE a \in 0..(H - 1) /\ a \notin DOMAIN out
      BY <3>3, <2>5, BytesAre
    <3>4. QED
      BY <3>1, <3>2, <3>3
  <2>7. ASSUME NEW a \in 0..(H + I - 1) PROVE out'[a] \in Bytes
    <3>1. CASE a \in H..(H + E - 1)
      <4>1. xex.headerSize + (a - H) \in Nat
        BY <3>1, SizesNow
      <4>2. <<"base", xex.headerSize + (a - H)>> \in Bytes
        BY <4>1, BytesAre
      <4>3. QED
        BY <3>1, <4>2, <2>3, Zenon
    <3>2. CASE a \notin H..(H + E - 1)
      BY <3>2, <2>3, <2>6
    <3>3. QED
      BY <3>1, <3>2
  <2>8. OutTyped'
    BY <2>2, <2>7 DEF OutTyped
  <2>9. Room'
    BY <2>1, <2>2, <1>1, <1>2, <1>4, <1>6, <1>7, <1>8, <1>14 DEF Room, ImageMade
  <2>10. ImageBytes'
    <3>1. SUFFICES ASSUME NEW j \in 0..(I - 1), j >= E PROVE out'[H + j] = <<"zero">>
      BY <1>1, <1>2, <1>6, <1>7, <1>8, <1>14 DEF ImageBytes, ImageMade
    <3>2. H + j \in 0..(H + I - 1) /\ H + j \notin H..(H + E - 1) /\ H + j \notin 0..(H - 1)
      BY <3>1
    <3>3. QED
      BY <3>2, <2>3, <2>4
  <2>11. OverrunOnlyIf'
    BY <1>14 DEF OverrunOnlyIf
  <2>12. QED
    BY <2>8, <2>9, <2>10, <2>11, <1>5
<1>15. QED
  BY <1>2, <1>13, <1>14

LEMMA DecryptLayout ==
    ASSUME IndInv, Decrypt
    PROVE  /\ OutTyped' /\ Room' /\ ImageBytes' /\ HeaderDeltaReadsBase' /\ ImageDeltaReadsBase'
           /\ OverrunOnlyIf'
<1>1. /\ headerTargetSize' = headerTargetSize /\ newXexHeaderSize' = newXexHeaderSize
      /\ Compatible(patch)' <=> Compatible(patch)
  BY SizesStay DEF Decrypt, Goto, Return
<1>2. /\ pc = "decrypt" /\ pc' \in {"close", "decompress"}
      /\ UNCHANGED <<xex, patch, imageMove>>
  BY DEF Decrypt, Goto, Return, patchingVars
<1>3. OutTyped
  BY DEF IndInv, TypeOK, OutTyped
<1>4. OverrunOnlyIf' /\ HeaderDeltaReadsBase' /\ ImageDeltaReadsBase'
  BY <1>2 DEF OverrunOnlyIf, HeaderDeltaReadsBase, ImageDeltaReadsBase
<1>5. CASE pc' = "close"
  <2>1. out' = out
    BY <1>5 DEF Decrypt, Goto
  <2>2. OutTyped'
    BY <2>1, <1>3 DEF OutTyped
  <2>3. Room' /\ ImageBytes'
    BY <1>5 DEF Room, ImageBytes, PatchTested, ImageMade
  <2>4. QED
    BY <2>2, <2>3, <1>4
<1>6. CASE pc' = "decompress"
  <2>1. PICK H \in Nat : H = headerTargetSize
    BY SizesNow
  <2>2. PICK E \in Nat : E = xex.exeSize
    BY SizesNow
  <2>3. PICK I \in Nat : I = patch.imageSize
    BY SizesNow
  <2>4. out' = Written(out, H, E, LAMBDA k : <<"exe", k>>)
    BY <1>6, <2>1, <2>2 DEF Decrypt, Return
  <2>5. DOMAIN out = 0..(H + I - 1) /\ E <= I /\ Compatible(patch)
    BY <1>2, <2>1, <2>2, <2>3 DEF IndInv, Room, PatchTested
  <2>6. DOMAIN out' = 0..(H + I - 1)
    BY <2>4, <2>5 DEF Written
  <2>7. ASSUME NEW a \in 0..(H + I - 1)
        PROVE  out'[a] = IF a \in H..(H + E - 1) THEN <<"exe", a - H>> ELSE out[a]
    BY <2>4, <2>5 DEF Written
  <2>8. ASSUME NEW a \in 0..(H + I - 1) PROVE out'[a] \in Bytes
    <3>1. CASE a \in H..(H + E - 1)
      <4>1. a - H \in Nat
        BY <3>1
      <4>2. <<"exe", a - H>> \in Bytes
        BY <4>1, BytesAre
      <4>3. QED
        BY <3>1, <4>2, <2>7, Zenon
    <3>2. CASE a \notin H..(H + E - 1)
      BY <3>2, <2>5, <2>7, <1>3 DEF OutTyped
    <3>3. QED
      BY <3>1, <3>2
  <2>9. OutTyped'
    BY <2>6, <2>8 DEF OutTyped
  <2>10. Room'
    BY <2>1, <2>2, <2>3, <2>5, <2>6, <1>1, <1>2, <1>6 DEF Room, ImageMade
  <2>11. ImageBytes'
    <3>1. SUFFICES ASSUME NEW j \in 0..(I - 1)
                   PROVE  out'[H + j] = IF j < E THEN <<"exe", j>> ELSE <<"zero">>
      BY <1>1, <1>2, <1>6, <2>1, <2>2, <2>3 DEF ImageBytes, ImageMade
    <3>2. H + j \in 0..(H + I - 1) /\ (H + j) - H = j /\ (H + j \in H..(H + E - 1) <=> j < E)
      OBVIOUS
    <3>3. j >= E => out[H + j] = <<"zero">>
      BY <1>2, <2>1, <2>2, <2>3 DEF IndInv, ImageBytes
    <3>4. QED
      BY <3>2, <3>3, <2>7
  <2>12. QED
    BY <2>9, <2>10, <2>11, <1>4
<1>7. QED
  BY <1>2, <1>5, <1>6

LEMMA DecompressBasicLayout ==
    ASSUME IndInv, DecompressBasic
    PROVE  /\ OutTyped' /\ Room' /\ ImageBytes' /\ HeaderDeltaReadsBase' /\ ImageDeltaReadsBase'
           /\ OverrunOnlyIf'
<1>1. /\ headerTargetSize' = headerTargetSize /\ newXexHeaderSize' = newXexHeaderSize
      /\ Compatible(patch)' <=> Compatible(patch)
  BY SizesStay DEF DecompressBasic, Goto, Return
<1>2. /\ pc = "decompress" /\ pc' \in {"close", "format"}
      /\ UNCHANGED <<xex, patch, imageMove>>
  BY DEF DecompressBasic, Goto, Return, patchingVars
<1>3. OutTyped
  BY DEF IndInv, TypeOK, OutTyped
<1>4. OverrunOnlyIf' /\ HeaderDeltaReadsBase' /\ ImageDeltaReadsBase'
  BY <1>2 DEF OverrunOnlyIf, HeaderDeltaReadsBase, ImageDeltaReadsBase
<1>5. CASE pc' = "close"
  <2>1. out' = out
    BY <1>5 DEF DecompressBasic, Goto
  <2>2. OutTyped'
    BY <2>1, <1>3 DEF OutTyped
  <2>3. Room' /\ ImageBytes'
    BY <1>5 DEF Room, ImageBytes, PatchTested, ImageMade
  <2>4. QED
    BY <2>2, <2>3, <1>4
<1>6. CASE pc' = "format"
  <2>1. PICK H \in Nat : H = headerTargetSize
    BY SizesNow
  <2>2. PICK E \in Nat : E = xex.exeSize
    BY SizesNow
  <2>3. PICK I \in Nat : I = patch.imageSize
    BY SizesNow
  <2>4. PICK J \in Nat : J = xex.imageSize
    BY SizesNow
  <2>5. E <= J
    BY <2>2, <2>4, SizesNow
  <2>6. out' = Written(out, H, J, BaseImage) /\ Fits(out, H, J)
    BY <1>6, <2>1, <2>4 DEF DecompressBasic, Return
  <2>7. DOMAIN out = 0..(H + I - 1) /\ E <= I /\ Compatible(patch)
    BY <1>2, <2>1, <2>2, <2>3 DEF IndInv, Room, PatchTested
  <2>8. J <= I
    <3>1. H + J <= H + I
      BY <2>6, <2>7, FitsInBoth, Zenon
    <3>2. QED
      BY <3>1
  <2>9. DOMAIN out' = 0..(H + I - 1)
    BY <2>6, <2>7 DEF Written
  <2>10. ASSUME NEW a \in 0..(H + I - 1)
         PROVE  out'[a] = IF a \in H..(H + J - 1) THEN BaseImage(a - H) ELSE out[a]
    BY <2>6, <2>7 DEF Written
  <2>11. ASSUME NEW a \in 0..(H + I - 1) PROVE out'[a] \in Bytes
    <3>1. CASE a \in H..(H + J - 1)
      <4>1. a - H \in Nat
        BY <3>1
      <4>2. BaseImage(a - H) \in Bytes
        BY <4>1, BytesAre
      <4>3. QED
        BY <3>1, <4>2, <2>10, Zenon
    <3>2. CASE a \notin H..(H + J - 1)
      BY <3>2, <2>7, <2>10, <1>3 DEF OutTyped
    <3>3. QED
      BY <3>1, <3>2
  <2>12. OutTyped'
    BY <2>9, <2>11 DEF OutTyped
  <2>13. Room'
    BY <2>1, <2>2, <2>3, <2>4, <2>7, <2>8, <2>9, <1>1, <1>2, <1>6 DEF Room, ImageMade
  <2>14. ImageBytes'
    <3>1. SUFFICES ASSUME NEW j \in 0..(I - 1)
                   PROVE  out'[H + j] = IF j < J THEN BaseImage(j) ELSE <<"zero">>
      BY <1>1, <1>2, <1>6, <2>1, <2>3, <2>4 DEF ImageBytes, ImageMade, ImageByte, BaseImage
    <3>2. H + j \in 0..(H + I - 1) /\ (H + j) - H = j /\ (H + j \in H..(H + J - 1) <=> j < J)
      OBVIOUS
    <3>3. j >= E => out[H + j] = <<"zero">>
      <4>1. out[H + j] = IF j < E THEN <<"exe", j>> ELSE <<"zero">>
        BY <1>2, <2>1, <2>2, <2>3 DEF IndInv, ImageBytes
      <4>2. QED
        BY <4>1
    <3>4. QED
      BY <3>2, <3>3, <2>5, <2>10
  <2>15. QED
    BY <2>12, <2>13, <2>14, <1>4
<1>7. QED
  BY <1>2, <1>5, <1>6

LEMMA DecompressNormalLayout ==
    ASSUME IndInv, DecompressNormal
    PROVE  /\ OutTyped' /\ Room' /\ ImageBytes' /\ HeaderDeltaReadsBase' /\ ImageDeltaReadsBase'
           /\ OverrunOnlyIf'
<1>1. /\ headerTargetSize' = headerTargetSize /\ newXexHeaderSize' = newXexHeaderSize
      /\ Compatible(patch)' <=> Compatible(patch)
  BY SizesStay DEF DecompressNormal, Goto, Return
<1>2. /\ pc = "decompress" /\ pc' \in {"close", "format", "overrun"}
      /\ xex.compression = "normal"
      /\ UNCHANGED <<xex, patch, imageMove>>
  BY DEF DecompressNormal, Goto, Return, patchingVars
<1>3. OutTyped
  BY DEF IndInv, TypeOK, OutTyped
<1>4. HeaderDeltaReadsBase' /\ ImageDeltaReadsBase'
  BY <1>2 DEF HeaderDeltaReadsBase, ImageDeltaReadsBase
<1>5. PICK H \in Nat : H = headerTargetSize
  BY SizesNow
<1>6. PICK N \in Nat : N = newXexHeaderSize
  BY SizesNow
<1>7. PICK E \in Nat : E = xex.exeSize
  BY SizesNow
<1>8. PICK I \in Nat : I = patch.imageSize
  BY SizesNow
<1>9. PICK J \in Nat : J = xex.imageSize
  BY SizesNow
<1>10. E <= J /\ H <= N /\ (H >= xex.headerSize => N = H)
  BY <1>5, <1>6, <1>7, <1>9, SizesNow
<1>11. out' = Written(out, N, J, BaseImage)
  BY <1>6, <1>9 DEF DecompressNormal
<1>12. DOMAIN out = 0..(H + I - 1) /\ E <= I /\ Compatible(patch)
  BY <1>2, <1>5, <1>7, <1>8 DEF IndInv, Room, PatchTested
<1>13. DOMAIN out' = 0..(H + I - 1)
  BY <1>11, <1>12 DEF Written
<1>14. ASSUME NEW a \in 0..(H + I - 1)
       PROVE  out'[a] = IF a \in N..(N + J - 1) THEN BaseImage(a - N) ELSE out[a]
  BY <1>11, <1>12 DEF Written
<1>15. ASSUME NEW a \in 0..(H + I - 1) PROVE out'[a] \in Bytes
  <2>1. CASE a \in N..(N + J - 1)
    <3>1. a - N \in Nat
      BY <2>1
    <3>2. BaseImage(a - N) \in Bytes
      BY <3>1, BytesAre
    <3>3. QED
      BY <2>1, <3>2, <1>14, Zenon
  <2>2. CASE a \notin N..(N + J - 1)
    BY <2>2, <1>12, <1>14, <1>3 DEF OutTyped
  <2>3. QED
    BY <2>1, <2>2
<1>16. OutTyped'
  BY <1>13, <1>15 DEF OutTyped
<1>17. Fits(out, N, J) <=> N + J <= H + I
  BY <1>12, FitsInBoth, Zenon
<1>18. CASE pc' = "close"
  BY <1>4, <1>16, <1>18 DEF Room, ImageBytes, OverrunOnlyIf, PatchTested, ImageMade
<1>19. CASE pc' = "overrun"
  <2>1. ~Fits(out, N, J)
    BY <1>6, <1>9, <1>19 DEF DecompressNormal, Goto, Return
  <2>2. N + J > H + I
    BY <2>1, <1>17
  <2>3. OverrunOnlyIf'
    BY <2>2, <1>1, <1>2, <1>5, <1>6, <1>8, <1>9 DEF OverrunOnlyIf
  <2>4. QED
    BY <2>3, <1>4, <1>16, <1>19 DEF Room, ImageBytes, PatchTested, ImageMade
<1>20. CASE pc' = "format"
  <2>1. N + J <= H + I
    BY <1>6, <1>9, <1>17, <1>20 DEF DecompressNormal, Goto, Return
  <2>2. J <= I
    BY <2>1, <1>10
  <2>3. Room'
    BY <2>2, <1>1, <1>2, <1>5, <1>7, <1>8, <1>9, <1>12, <1>13, <1>20 DEF Room, ImageMade
  <2>4. ImageBytes'
    <3>1. SUFFICES ASSUME NEW j \in 0..(I - 1), H >= xex.headerSize
                   PROVE  out'[H + j] = IF j < J THEN BaseImage(j) ELSE <<"zero">>
      BY <1>1, <1>2, <1>5, <1>8, <1>9, <1>20 DEF ImageBytes, ImageMade, ImageByte, BaseImage
    <3>2. N = H
      BY <3>1, <1>10
    <3>3. H + j \in 0..(H + I - 1) /\ (H + j) - H = j /\ (H + j \in H..(H + J - 1) <=> j < J)
      OBVIOUS
    <3>4. j >= E => out[H + j] = <<"zero">>
      <4>1. out[H + j] = IF j < E THEN <<"exe", j>> ELSE <<"zero">>
        BY <1>2, <1>5, <1>7, <1>8 DEF IndInv, ImageBytes
      <4>2. QED
        BY <4>1
    <3>5. QED
      BY <3>2, <3>3, <3>4, <1>10, <1>14
  <2>5. QED
    BY <2>3, <2>4, <1>4, <1>16, <1>20 DEF OverrunOnlyIf
<1>21. QED
  BY <1>2, <1>18, <1>19, <1>20

(* An executable that is not compressed is the image. *)
LEMMA DecompressOtherLayout ==
    ASSUME IndInv, DecompressOther
    PROVE  Room' /\ ImageBytes' /\ HeaderDeltaReadsBase' /\ ImageDeltaReadsBase'
<1>1. /\ headerTargetSize' = headerTargetSize /\ newXexHeaderSize' = newXexHeaderSize
      /\ Compatible(patch)' <=> Compatible(patch)
  BY SizesStay DEF DecompressOther, Goto, Return
<1>2. /\ pc = "decompress" /\ pc' \in {"close", "format"}
      /\ UNCHANGED <<xex, patch, out, imageMove, blocks, applied>>
  BY DEF DecompressOther, Goto, Return, patchingVars
<1>3. CASE pc' = "close"
  BY <1>2, <1>3, LayoutStays DEF PatchTested
<1>4. CASE pc' = "format"
  <2>1. xex.compression = "none" /\ xex.exeSize = xex.imageSize
    BY <1>4, SizesAreNat DEF DecompressOther, Goto, Return, IndInv, TypeOK
  <2>2. Room'
    BY <1>1, <1>2, <1>4, <2>1 DEF IndInv, Room, PatchTested, ImageMade
  <2>3. ImageBytes'
    <3>1. SUFFICES ASSUME NEW j \in 0..(patch.imageSize - 1)
                   PROVE  out[headerTargetSize + j] =
                             IF j < xex.imageSize THEN <<"exe", j>> ELSE <<"zero">>
      BY <1>1, <1>2, <1>4, <2>1 DEF ImageBytes, ImageMade, ImageByte, BaseImage
    <3>2. QED
      BY <1>2, <2>1 DEF IndInv, ImageBytes
  <2>4. QED
    BY <1>2, <1>4, <2>2, <2>3 DEF HeaderDeltaReadsBase, ImageDeltaReadsBase
<1>5. QED
  BY <1>2, <1>3, <1>4

LEMMA MoveImageLayout ==
    ASSUME IndInv, MoveImage
    PROVE  /\ OutTyped' /\ Room' /\ ImageBytes' /\ HeaderDeltaReadsBase' /\ ImageDeltaReadsBase'
           /\ OverrunOnlyIf'
<1>1. /\ headerTargetSize' = headerTargetSize /\ newXexHeaderSize' = newXexHeaderSize
      /\ Compatible(patch)' <=> Compatible(patch)
  BY SizesStay DEF MoveImage, Goto
<1>2. pc = "imageMove" /\ pc' \in {"blocks", "overrun"} /\ UNCHANGED <<xex, patch, applied>>
  BY DEF MoveImage, Goto
<1>3. PICK H \in Nat : H = headerTargetSize
  BY SizesNow
<1>4. PICK I \in Nat : I = patch.imageSize
  BY SizesNow
<1>5. PICK J \in Nat : J = xex.imageSize
  BY SizesNow
<1>6. /\ Compatible(patch) /\ xex.exeSize <= I /\ J <= I
      /\ DOMAIN out = 0..(H + I - 1)
  BY <1>2, <1>3, <1>4, <1>5 DEF IndInv, Room, PatchTested, ImageMade
<1>7. \A a \in 0..(H + I - 1) : out[a] \in Bytes
  BY <1>6 DEF IndInv, TypeOK
<1>8. PICK m \in Moves :
         /\ imageMove' = m
         /\ IF m.source + m.size <= I /\ m.target + m.size <= I
            THEN pc' = "blocks" /\ out' = IF m.source > 0 THEN Copied(out, H, m) ELSE out
            ELSE pc' = "overrun" /\ out' = out
  BY <1>3, <1>4 DEF MoveImage, Goto
<1>9. PICK s \in Nat : s = m.source
  BY SizesAssumption DEF Moves
<1>10. PICK t \in Nat : t = m.target
  BY SizesAssumption DEF Moves
<1>11. PICK z \in Nat : z = m.size
  BY SizesAssumption DEF Moves
<1>12. CASE pc' = "blocks"
  <2>1. s + z <= I /\ t + z <= I
    BY <1>8, <1>9, <1>10, <1>11, <1>12
  <2>2. s > 0 =>
           /\ DOMAIN out' = 0..(H + I - 1)
           /\ \A a \in 0..(H + I - 1) :
                 out'[a] = IF a \in (H + t)..(H + t + z - 1)
                           THEN IF Overlap(m) THEN <<"undefined">> ELSE out[H + s + (a - (H + t))]
                           ELSE out[a]
    BY <1>6, <1>8, <1>9, <1>10, <1>11, <1>12 DEF Copied, Written
  <2>3. s = 0 => out' = out
    BY <1>8, <1>9, <1>12
  <2>4. DOMAIN out' = 0..(H + I - 1)
    BY <1>6, <2>2, <2>3
  <2>5. OutTyped'
    <3>1. CASE s = 0
      BY <3>1, <1>6, <1>7, <2>3 DEF OutTyped
    <3>2. CASE s > 0
      <4>1. ASSUME NEW a \in 0..(H + I - 1) PROVE out'[a] \in Bytes
        <5>1. CASE a \in (H + t)..(H + t + z - 1)
          <6>1. H + s + (a - (H + t)) \in 0..(H + I - 1)
            BY <5>1, <1>6, <2>1
          <6>2. out[H + s + (a - (H + t))] \in Bytes
            BY <6>1, <1>7
          <6>3. QED
            BY <5>1, <6>2, <3>2, <2>2, BytesAre
        <5>2. CASE a \notin (H + t)..(H + t + z - 1)
          BY <5>2, <3>2, <1>7, <2>2
        <5>3. QED
          BY <5>1, <5>2
      <4>2. QED
        BY <4>1, <2>4 DEF OutTyped
    <3>3. QED
      BY <3>1, <3>2
  <2>6. Room'
    BY <1>1, <1>2, <1>3, <1>4, <1>5, <1>6, <1>12, <2>4 DEF Room, ImageMade
  <2>7. ImageBytes' /\ HeaderDeltaReadsBase'
    BY <1>12 DEF ImageBytes, HeaderDeltaReadsBase, ImageMade
  <2>8. ImageDeltaReadsBase'
    <3>1. SUFFICES ASSUME s > 0 => ~Overlap(m),
                          xex.compression = "normal" => H >= xex.headerSize,
                          NEW j \in 0..(I - 1)
                   PROVE  out'[H + j] = IF s > 0 /\ j \in t..(t + z - 1) THEN ImageByte(s + j - t)
                                        ELSE ImageByte(j)
      <4>1. applied' = 0
        BY <1>2 DEF IndInv, BlocksSoFar
      <4>2. 1..applied' = {}
        BY <4>1
      <4>3. QED
        BY <4>2, <1>1, <1>2, <1>3, <1>4, <1>8, <1>9, <1>10, <1>11, <1>12 DEF ImageDeltaReadsBase,
           Overlap, ImageByte, BaseImage
    <3>2. ASSUME NEW i \in 0..(I - 1)
          PROVE  out[H + i] = ImageByte(i)
      BY <1>2, <1>3, <1>4, <3>1 DEF IndInv, ImageBytes, ImageMade
    <3>3. CASE s = 0
      BY <3>2, <3>3, <2>3
    <3>4. CASE s > 0 /\ j \in t..(t + z - 1)
      <4>1. /\ H + j \in 0..(H + I - 1) /\ H + j \in (H + t)..(H + t + z - 1)
            /\ H + s + ((H + j) - (H + t)) = H + (s + j - t)
            /\ s + j - t \in 0..(I - 1)
        BY <3>4, <2>1
      <4>2. out'[H + j] = out[H + (s + j - t)]
        BY <3>1, <3>4, <4>1, <2>2
      <4>3. out[H + (s + j - t)] = ImageByte(s + j - t)
        BY <3>2, <4>1
      <4>4. QED
        BY <3>4, <4>2, <4>3
    <3>5. CASE s > 0 /\ j \notin t..(t + z - 1)
      <4>1. H + j \in 0..(H + I - 1) /\ H + j \notin (H + t)..(H + t + z - 1)
        BY <3>5
      <4>2. out'[H + j] = out[H + j]
        BY <3>5, <4>1, <2>2
      <4>3. QED
        BY <3>2, <3>5, <4>2
    <3>6. QED
      BY <3>3, <3>4, <3>5
  <2>9. QED
    BY <1>12, <2>5, <2>6, <2>7, <2>8 DEF OverrunOnlyIf
<1>13. CASE pc' = "overrun"
  <2>1. out' = out /\ ~(s + z <= I /\ t + z <= I)
    BY <1>8, <1>9, <1>10, <1>11, <1>13
  <2>2. s + z > I \/ t + z > I
    BY <2>1
  <2>3. OutTyped'
    BY <2>1, <1>6, <1>7 DEF OutTyped
  <2>4. OverrunOnlyIf'
    BY <2>2, <1>2, <1>4, <1>8, <1>9, <1>10, <1>11 DEF OverrunOnlyIf
  <2>5. QED
    BY <2>3, <2>4, <1>13 DEF Room, ImageBytes, HeaderDeltaReadsBase, ImageDeltaReadsBase,
                             PatchTested, ImageMade
<1>14. QED
  BY <1>2, <1>12, <1>13

LEMMA ApplyBlockLayout ==
    ASSUME IndInv, ApplyBlock
    PROVE  /\ OutTyped' /\ Room' /\ ImageBytes' /\ HeaderDeltaReadsBase' /\ ImageDeltaReadsBase'
           /\ OverrunOnlyIf'
<1>1. /\ headerTargetSize' = headerTargetSize /\ newXexHeaderSize' = newXexHeaderSize
      /\ Compatible(patch)' <=> Compatible(patch)
  BY SizesStay DEF ApplyBlock, Goto, Return
<1>2. /\ pc = "blocks" /\ pc' \in {"blocks", "close", "overrun"}
      /\ UNCHANGED <<xex, patch, imageMove, blocks>>
  BY DEF ApplyBlock, Goto, Return
<1>3. OutTyped
  BY DEF IndInv, TypeOK, OutTyped
<1>4. applied \in Nat /\ Len(blocks) \in Nat /\ applied < Len(blocks)
  BY DEF ApplyBlock, IndInv, TypeOK
<1>5. PICK b : b = blocks[applied + 1]
  OBVIOUS
<1>6. b \in Blocks
  BY <1>4, <1>5 DEF IndInv, TypeOK
<1>7. PICK H \in Nat : H = headerTargetSize
  BY SizesNow
<1>8. PICK I \in Nat : I = patch.imageSize
  BY SizesNow
<1>9. /\ Compatible(patch) /\ xex.exeSize <= I /\ xex.imageSize <= I
      /\ DOMAIN out = 0..(H + I - 1)
  BY <1>2, <1>7, <1>8 DEF IndInv, Room, PatchTested
<1>10. CASE out' = out /\ pc' = "close"
  BY <1>3, <1>10 DEF OutTyped, Room, ImageBytes, HeaderDeltaReadsBase, ImageDeltaReadsBase,
                     OverrunOnlyIf, PatchTested, ImageMade
<1>11. CASE out' = Patched(out, H, b.writes)
  <2>1. /\ OutTyped' /\ DOMAIN out' = DOMAIN out
        /\ \A a \in DOMAIN out :
              /\ a - H \in b.writes => out'[a] = <<"delta">>
              /\ a - H \notin b.writes => out'[a] = out[a]
    BY <1>3, <1>11, PatchedBytes DEF OutTyped
  <2>2. Room'
    BY <2>1, <1>1, <1>2, <1>7, <1>8, <1>9 DEF Room, PatchTested, ImageMade
  <2>3. ImageBytes' /\ HeaderDeltaReadsBase'
    BY <1>2 DEF ImageBytes, HeaderDeltaReadsBase, ImageMade
  <2>4. OverrunOnlyIf'
    <3>1. SUFFICES ASSUME pc' = "overrun"
                   PROVE  \E i \in 1..Len(blocks) : blocks[i].hashes /\ blocks[i].reach > patch.imageSize
      BY <1>2 DEF OverrunOnlyIf
    <3>2. b.hashes /\ b.reach > patch.imageSize
      BY <3>1, <1>5 DEF ApplyBlock, Goto, Return
    <3>3. applied + 1 \in 1..Len(blocks)
      BY <1>4
    <3>4. QED
      BY <3>2, <3>3, <1>5
  <2>5. ImageDeltaReadsBase'
    <3>1. CASE pc' = "blocks"
      <4>1. applied' = applied + 1
        BY <3>1, <1>2 DEF ApplyBlock, Goto, Return
      <4>2. PICK m : m = imageMove
        OBVIOUS
      <4>3. SUFFICES ASSUME m.source > 0 => ~Overlap(m),
                            xex.compression = "normal" => H >= xex.headerSize,
                            NEW j \in 0..(I - 1)
                     PROVE  out'[H + j] =
                               IF \E i \in 1..(applied + 1) : j \in blocks[i].writes THEN <<"delta">>
                               ELSE IF m.source > 0 /\ j \in m.target..(m.target + m.size - 1)
                               THEN ImageByte(m.source + j - m.target)
                               ELSE ImageByte(j)
        BY <4>1, <4>2, <1>1, <1>2, <1>7, <1>8 DEF ImageDeltaReadsBase, Overlap, ImageByte, BaseImage
      <4>4. out[H + j] =
               IF \E i \in 1..applied : j \in blocks[i].writes THEN <<"delta">>
               ELSE IF m.source > 0 /\ j \in m.target..(m.target + m.size - 1)
               THEN ImageByte(m.source + j - m.target)
               ELSE ImageByte(j)
        BY <4>2, <4>3, <1>2, <1>7, <1>8 DEF IndInv, ImageDeltaReadsBase
      <4>5. H + j \in DOMAIN out /\ (H + j) - H = j
        BY <1>9
      <4>6. /\ j \in b.writes => out'[H + j] = <<"delta">>
            /\ j \notin b.writes => out'[H + j] = out[H + j]
        BY <4>5, <2>1
      <4>7. (\E i \in 1..(applied + 1) : j \in blocks[i].writes)
               <=> (j \in b.writes \/ \E i \in 1..applied : j \in blocks[i].writes)
        <5>1. \A i : i \in 1..(applied + 1) <=> (i = applied + 1 \/ i \in 1..applied)
          BY <1>4
        <5>2. QED
          BY <5>1, <1>5, Zenon
      <4>8. QED
        BY <4>4, <4>6, <4>7, Zenon
    <3>2. CASE pc' # "blocks"
      BY <3>2, <1>2 DEF ImageDeltaReadsBase
    <3>3. QED
      BY <3>1, <3>2
  <2>6. QED
    BY <2>1, <2>2, <2>3, <2>4, <2>5
<1>12. QED
  BY <1>5, <1>7, <1>10, <1>11 DEF ApplyBlock, Return

-----------------------------------------------------------------------------
(* Every stage *)

LEMMA LayoutNext ==
    ASSUME IndInv, [Next]_vars
    PROVE  OutTyped' /\ Room' /\ ImageBytes' /\ HeaderDeltaReadsBase' /\ ImageDeltaReadsBase'
<1>1. OutTyped
  BY DEF IndInv, TypeOK, OutTyped
<1>2. CASE OpenBase \/ OpenPatch \/ TestOpen \/ CompareKeys \/ ClearFormat \/ BlocksDone
           \/ WriteFile \/ UNCHANGED vars
  <2>1. UNCHANGED <<xex, patch, out, imageMove, blocks, applied>>
    BY <1>2 DEF OpenBase, OpenPatch, TestOpen, CompareKeys, ClearFormat, BlocksDone,
                WriteFile, Goto, Return, vars, patchingVars
  <2>2. \/ pc' = pc
        \/ pc' \notin PatchTested
        \/ pc = "keys" /\ pc' = "decrypt"
        \/ pc = "format" /\ pc' = "imageMove"
        \/ pc = "blocks" /\ pc' = "write"
    BY <1>2 DEF OpenBase, OpenPatch, TestOpen, CompareKeys, ClearFormat, BlocksDone,
                WriteFile, Goto, Return, vars, PatchTested
  <2>3. Room' /\ ImageBytes' /\ HeaderDeltaReadsBase' /\ ImageDeltaReadsBase'
    BY <2>1, <2>2, LayoutStays
  <2>4. QED
    BY <2>1, <2>3, <1>1 DEF OutTyped
<1>3. CASE Validate
  <2>1. pc' \in {"close", "header"} /\ xex' = xex /\ out' = out
    BY <1>3 DEF Validate, Goto, Return
  <2>2. pc' = "header" => Compatible(patch)'
    BY <1>3 DEF Validate, Goto, Return, Compatible
  <2>3. QED
    BY <2>1, <2>2, <1>1 DEF OutTyped, Room, ImageBytes, HeaderDeltaReadsBase, ImageDeltaReadsBase,
                            PatchTested, ImageMade
<1>4. CASE CopyHeader
  BY <1>4, CopyHeaderLayout
<1>5. CASE PatchHeader
  BY <1>5, PatchHeaderLayout
<1>6. CASE CopyData
  BY <1>6, CopyDataLayout
<1>7. CASE Decrypt
  BY <1>7, DecryptLayout
<1>8. CASE DecompressBasic
  BY <1>8, DecompressBasicLayout
<1>9. CASE DecompressNormal
  BY <1>9, DecompressNormalLayout
<1>10. CASE DecompressOther
  <2>1. out' = out
    BY <1>10 DEF DecompressOther
  <2>2. QED
    BY <2>1, <1>1, <1>10, DecompressOtherLayout DEF OutTyped
<1>11. CASE MoveImage \/ ApplyBlock
  BY <1>11, MoveImageLayout, ApplyBlockLayout
<1>12. CASE CloseFiles
  <2>1. pc' = "returned" /\ out' = <<>>
    BY <1>12 DEF CloseFiles, Goto
  <2>2. DOMAIN out' = {}
    BY <2>1
  <2>3. QED
    BY <2>1, <2>2 DEF OutTyped, Room, ImageBytes, HeaderDeltaReadsBase, ImageDeltaReadsBase,
                      PatchTested, ImageMade
<1>13. QED
  BY <1>2, <1>3, <1>4, <1>5, <1>6, <1>7, <1>8, <1>9, <1>10, <1>11, <1>12 DEF Next, Finished

(* What an open leaves is a file, and in the POSIX build one with a view   *)
(* only when the open succeeded.                                           *)
LEMMA OpenLeavesFile ==
    ASSUME NEW size \in Nat, NEW o \in Open(size)
    PROVE  /\ o.file \in MemoryMappedFile /\ o.opened \in BOOLEAN
           /\ Platform = "posix" => (o.file.view => o.opened)
<1>1. PICK h \in BOOLEAN, v \in BOOLEAN, s \in Int, r \in BOOLEAN :
         /\ o = [file |-> [handle |-> h, view |-> v, size |-> s], opened |-> r]
         /\ Platform = "posix" => (v => r)
  <2>1. CASE Platform = "switch"
    <3>1. PICK v \in BOOLEAN : v = (size > 0)
      <4>1. (size > 0) = TRUE \/ (size > 0) = FALSE
        OBVIOUS
      <4>2. QED
        BY <4>1, Zenon
    <3>2. \/ o = [file |-> [handle |-> FALSE, view |-> FALSE, size |-> 0], opened |-> FALSE]
          \/ o = [file |-> [handle |-> FALSE, view |-> v, size |-> size], opened |-> TRUE]
      BY <2>1, <3>1 DEF Open, SwitchOpen, Closed
    <3>3. 0 \in Int /\ size \in Int
      OBVIOUS
    <3>4. QED
      BY <2>1, <3>2, <3>3
  <2>2. CASE Platform # "switch"
    <3>1. PICK s \in {0, -1, size} :
             \/ o = [file |-> [handle |-> FALSE, view |-> FALSE, size |-> s], opened |-> FALSE]
             \/ o = [file |-> [handle |-> TRUE, view |-> TRUE, size |-> s], opened |-> TRUE]
      BY <2>2 DEF Open, PosixOpen
    <3>2. s \in Int
      OBVIOUS
    <3>3. QED
      BY <3>1, <3>2
  <2>3. QED
    BY <2>1, <2>2
<1>2. o.file = [handle |-> h, view |-> v, size |-> s] /\ o.opened = r
  BY <1>1
<1>3. o.file \in MemoryMappedFile
  BY <1>2 DEF MemoryMappedFile
<1>4. o.file.view = v
  BY <1>2
<1>5. QED
  BY <1>1, <1>2, <1>3, <1>4

LEMMA CloseLeavesFile ==
    ASSUME NEW file \in MemoryMappedFile
    PROVE  Close(file) \in MemoryMappedFile /\ Close(file).view = FALSE
<1>1. CASE Platform = "switch"
  BY <1>1 DEF Close, Closed, MemoryMappedFile
<1>2. CASE Platform # "switch"
  <2>1. Close(file) = [handle |-> FALSE, view |-> FALSE, size |-> file.size]
    BY <1>2 DEF Close, MemoryMappedFile
  <2>2. QED
    BY <2>1 DEF MemoryMappedFile
<1>3. QED
  BY <1>1, <1>2

LEMMA StagesNext ==
    ASSUME TypeOK, [Next]_vars
    PROVE  /\ pc' \in {"openBase", "openPatch", "isOpen", "validate", "header", "headerDelta", "data",
                       "keys", "decrypt", "decompress", "format", "imageMove", "blocks", "write",
                       "close", "returned", "overrun"}
           /\ result' \in Results \cup {"none"}
           /\ xex' = xex
<1> USE DEF Goto, Return, Results, vars, TypeOK
<1>1. CASE OpenBase \/ OpenPatch
  BY <1>1 DEF OpenBase, OpenPatch
<1>2. CASE TestOpen \/ Validate \/ CompareKeys \/ DecompressOther \/ BlocksDone
  BY <1>2 DEF TestOpen, Validate, CompareKeys, DecompressOther, BlocksDone
<1>3. CASE CopyHeader \/ PatchHeader \/ CopyData
  BY <1>3 DEF CopyHeader, PatchHeader, CopyData
<1>4. CASE Decrypt \/ DecompressBasic \/ DecompressNormal
  BY <1>4 DEF Decrypt, DecompressBasic, DecompressNormal
<1>5. CASE ClearFormat \/ MoveImage \/ ApplyBlock
  BY <1>5 DEF ClearFormat, MoveImage, ApplyBlock
<1>6. CASE WriteFile \/ CloseFiles \/ UNCHANGED vars
  BY <1>6 DEF WriteFile, CloseFiles
<1>7. QED
  BY <1>1, <1>2, <1>3, <1>4, <1>5, <1>6 DEF Next, Finished

LEMMA PatchNext ==
    ASSUME TypeOK, [Next]_vars
    PROVE  patch' \in Patches
<1>1. CASE Validate
  BY <1>1 DEF Validate, TypeOK
<1>2. CASE ~Validate
  <2>1. patch' = patch
    BY <1>2 DEF Next, Finished, vars, OpenBase, OpenPatch, TestOpen, CopyHeader, PatchHeader,
           CopyData, CompareKeys, Decrypt, DecompressBasic, DecompressNormal, DecompressOther,
           ClearFormat, MoveImage, ApplyBlock, BlocksDone, WriteFile, CloseFiles
  <2>2. QED
    BY <2>1 DEF TypeOK
<1>3. QED
  BY <1>1, <1>2

(* The files, and in the POSIX build what a view says. *)
LEMMA FilesNext ==
    ASSUME TypeOK, ViewMeansOpened, [Next]_vars
    PROVE  /\ baseFile' \in MemoryMappedFile /\ patchFile' \in MemoryMappedFile
           /\ opened' \in [base : BOOLEAN, patch : BOOLEAN]
           /\ ViewMeansOpened'
<1>0. /\ baseFile \in MemoryMappedFile /\ patchFile \in MemoryMappedFile
      /\ opened \in [base : BOOLEAN, patch : BOOLEAN]
  BY DEF TypeOK
<1>1. CASE OpenBase
  <2>1. PICK size \in {0, xex.headerSize + xex.exeSize} : \E o \in Open(size) :
           /\ baseFile' = o.file /\ opened' = [opened EXCEPT !.base = o.opened]
           /\ patchFile' = patchFile
    BY <1>1 DEF OpenBase
  <2>2. size \in Nat
    BY SizesAreNat DEF TypeOK
  <2>3. PICK o \in Open(size) :
           /\ baseFile' = o.file /\ opened' = [opened EXCEPT !.base = o.opened]
           /\ patchFile' = patchFile
    BY <2>1
  <2>4. /\ o.file \in MemoryMappedFile /\ o.opened \in BOOLEAN
        /\ Platform = "posix" => (o.file.view => o.opened)
    BY <2>2, OpenLeavesFile
  <2>5. opened' = [base |-> o.opened, patch |-> opened.patch]
    BY <2>3, <1>0
  <2>6. QED
    BY <2>3, <2>4, <2>5, <1>0 DEF ViewMeansOpened
<1>2. CASE OpenPatch
  <2>1. PICK size \in {0, 1} : \E o \in Open(size) :
           /\ patchFile' = o.file /\ opened' = [opened EXCEPT !.patch = o.opened]
           /\ baseFile' = baseFile
    BY <1>2 DEF OpenPatch
  <2>2. size \in Nat
    OBVIOUS
  <2>3. PICK o \in Open(size) :
           /\ patchFile' = o.file /\ opened' = [opened EXCEPT !.patch = o.opened]
           /\ baseFile' = baseFile
    BY <2>1
  <2>4. /\ o.file \in MemoryMappedFile /\ o.opened \in BOOLEAN
        /\ Platform = "posix" => (o.file.view => o.opened)
    BY <2>2, OpenLeavesFile
  <2>5. opened' = [base |-> opened.base, patch |-> o.opened]
    BY <2>3, <1>0
  <2>6. QED
    BY <2>3, <2>4, <2>5, <1>0 DEF ViewMeansOpened
<1>3. CASE CloseFiles
  BY <1>0, <1>3, CloseLeavesFile DEF CloseFiles, ViewMeansOpened
<1>4. CASE ~(OpenBase \/ OpenPatch \/ CloseFiles)
  <2>1. UNCHANGED fileVars
    BY <1>4 DEF Next, Finished, vars, fileVars, TestOpen, Validate, CopyHeader, PatchHeader,
           CopyData, CompareKeys, Decrypt, DecompressBasic, DecompressNormal, DecompressOther,
           ClearFormat, MoveImage, ApplyBlock, BlocksDone, WriteFile
  <2>2. QED
    BY <1>0, <2>1 DEF fileVars, ViewMeansOpened
<1>5. QED
  BY <1>1, <1>2, <1>3, <1>4

LEMMA MovesNext ==
    ASSUME TypeOK, [Next]_vars
    PROVE  imageMove' \in Moves /\ headerReach' \in HeaderOffsets
<1>0. imageMove \in Moves /\ headerReach \in HeaderOffsets
  BY DEF TypeOK
<1>1. CASE MoveImage \/ PatchHeader
  BY <1>0, <1>1 DEF MoveImage, PatchHeader
<1>2. CASE CloseFiles
  BY <1>2, SizesAssumption DEF CloseFiles, NoMove, Moves
<1>3. CASE ~MoveImage /\ ~PatchHeader /\ ~CloseFiles
  <2>1. imageMove' = imageMove /\ headerReach' = headerReach
    BY <1>3 DEF Next, Finished, vars, patchingVars, OpenBase, OpenPatch, TestOpen, Validate,
           CopyHeader, CopyData, CompareKeys, Decrypt, DecompressBasic,
           DecompressNormal, DecompressOther, ClearFormat, ApplyBlock, BlocksDone, WriteFile
  <2>2. QED
    BY <1>0, <2>1
<1>4. QED
  BY <1>1, <1>2, <1>3

LEMMA BlocksNext ==
    ASSUME TypeOK, BlocksSoFar, [Next]_vars
    PROVE  /\ blocks' \in Seq(Blocks) /\ Len(blocks') <= MaxBlocks
           /\ applied' \in 0..Len(blocks')
           /\ \A i \in 1..applied' : blocks'[i].hashes
<1>0. /\ blocks \in Seq(Blocks) /\ Len(blocks) <= MaxBlocks /\ Len(blocks) \in Nat
      /\ applied \in 0..Len(blocks)
      /\ \A i \in 1..applied : blocks[i].hashes
  BY DEF TypeOK, BlocksSoFar
<1>1. ASSUME MoveImage, blocks' # blocks
      PROVE  /\ blocks' \in Seq(Blocks) /\ Len(blocks') <= MaxBlocks
             /\ applied' \in 0..Len(blocks')
             /\ \A i \in 1..applied' : blocks'[i].hashes
  <2>1. PICK n \in 0..MaxBlocks : blocks' \in [1..n -> Blocks]
    BY <1>1 DEF MoveImage
  <2>2. n \in Nat /\ n <= MaxBlocks
    BY SizesAssumption
  <2>3. blocks' \in Seq(Blocks) /\ Len(blocks') = n
    BY <2>1, <2>2
  <2>4. applied' = 0
    BY <1>1 DEF MoveImage, Goto, BlocksSoFar
  <2>5. QED
    BY <2>2, <2>3, <2>4
<1>2. CASE ApplyBlock
  <2>1. blocks' = blocks /\ applied < Len(blocks)
    BY <1>2 DEF ApplyBlock
  <2>2. applied' = applied \/ (applied' = applied + 1 /\ blocks[applied + 1].hashes)
    BY <1>2 DEF ApplyBlock
  <2>3. applied' \in 0..Len(blocks)
    BY <1>0, <2>1, <2>2
  <2>4. \A i \in 1..applied' : blocks[i].hashes
    <3>1. SUFFICES ASSUME NEW i \in 1..applied' PROVE blocks[i].hashes
      OBVIOUS
    <3>2. i \in 1..applied \/ (i = applied + 1 /\ blocks[applied + 1].hashes)
      BY <1>0, <2>2
    <3>3. QED
      BY <1>0, <3>2, Zenon
  <2>5. QED
    BY <1>0, <2>1, <2>3, <2>4
<1>3. CASE ~ApplyBlock /\ (MoveImage => blocks' = blocks)
  <2>1. blocks' = blocks /\ applied' = applied
    BY <1>3 DEF Next, Finished, vars, patchingVars, OpenBase, OpenPatch, TestOpen, Validate,
           CopyHeader, PatchHeader, CopyData, CompareKeys, Decrypt, DecompressBasic,
           DecompressNormal, DecompressOther, ClearFormat, MoveImage, BlocksDone, WriteFile, CloseFiles
  <2>2. QED
    BY <1>0, <2>1
<1>4. QED
  BY <1>1, <1>2, <1>3

LEMMA FlagsNext ==
    ASSUME TypeOK, [Next]_vars
    PROVE  /\ formatCleared' \in BOOLEAN /\ closeFailed' \in BOOLEAN
           /\ newFile' \in {"old", "truncated", "complete", "removed"}
<1>1. CASE ClearFormat
  BY <1>1 DEF ClearFormat, TypeOK, outputVars
<1>2. CASE WriteFile
  BY <1>2 DEF WriteFile, TypeOK, outputVars, patchingVars
<1>3. CASE ~ClearFormat /\ ~WriteFile
  <2>1. UNCHANGED <<formatCleared, outputVars>>
    BY <1>3 DEF Next, Finished, vars, patchingVars, OpenBase, OpenPatch, TestOpen, Validate,
           CopyHeader, PatchHeader, CopyData, CompareKeys, Decrypt, DecompressBasic,
           DecompressNormal, DecompressOther, MoveImage, ApplyBlock, BlocksDone, CloseFiles
  <2>2. QED
    BY <2>1 DEF TypeOK, outputVars
<1>4. QED
  BY <1>1, <1>2, <1>3

LEMMA TypeNext ==
    ASSUME IndInv, [Next]_vars
    PROVE  TypeOK'
<1>1. TypeOK /\ ViewMeansOpened /\ BlocksSoFar
  BY DEF IndInv
<1>2. OutTyped'
  BY LayoutNext
<1>3. xex' \in Xexes
  BY <1>1, StagesNext DEF TypeOK
<1>4. QED
  BY <1>1, <1>2, <1>3, StagesNext, PatchNext, FilesNext, MovesNext, BlocksNext, FlagsNext
     DEF TypeOK, OutTyped

(* Up to the close the new file is what the result says of it. *)
LEMMA StoryNext ==
    ASSUME TypeOK, BlocksSoFar, ReturnTruthful, [Next]_vars
    PROVE  BlocksSoFar' /\ ReturnTruthful'
<1>1. \A i \in 1..applied' : blocks'[i].hashes
  BY BlocksNext
<1> USE <1>1 DEF Goto, Return, BlocksSoFar, ReturnTruthful, outputVars, patchingVars
<1>2. CASE OpenBase \/ OpenPatch \/ CompareKeys
  BY <1>2 DEF OpenBase, OpenPatch, CompareKeys, Results
<1>3. CASE TestOpen
  BY <1>3 DEF TestOpen, Results
<1>4. CASE Validate
  BY <1>4 DEF Validate, Results
<1>5. CASE CopyHeader \/ PatchHeader \/ CopyData
  BY <1>5 DEF CopyHeader, PatchHeader, CopyData, Results
<1>6. CASE Decrypt \/ DecompressBasic
  BY <1>6 DEF Decrypt, DecompressBasic, Results
<1>7. CASE DecompressNormal \/ DecompressOther
  BY <1>7 DEF DecompressNormal, DecompressOther, Results
<1>8. CASE ClearFormat
  BY <1>8 DEF ClearFormat, Results
<1>9. CASE MoveImage
  BY <1>9 DEF MoveImage
<1>10. CASE ApplyBlock
  BY <1>10 DEF ApplyBlock, Results
<1>11. CASE BlocksDone
  BY <1>11 DEF BlocksDone
<1>12. CASE WriteFile
  BY <1>12 DEF WriteFile, Results
<1>13. CASE CloseFiles
  BY <1>13 DEF CloseFiles
<1>14. CASE UNCHANGED vars
  BY <1>14 DEF vars
<1>15. QED
  BY <1>2, <1>3, <1>4, <1>5, <1>6, <1>7, <1>8, <1>9, <1>10, <1>11, <1>12, <1>13, <1>14
     DEF Next, Finished

(* A stage that runs out of a buffer has one of the seven kinds of files   *)
(* before it, or a file with no view that isOpen took for open.            *)
LEMMA OverrunNext ==
    ASSUME IndInv, [Next]_vars
    PROVE  OverrunExplained'
<1>1. CASE CopyHeader \/ PatchHeader
  BY <1>1, CopyHeaderLayout, PatchHeaderLayout DEF OverrunExplained
<1>2. CASE CopyData \/ MoveImage \/ ApplyBlock
  BY <1>2, CopyDataLayout, MoveImageLayout, ApplyBlockLayout DEF OverrunExplained
<1>3. CASE DecompressNormal
  BY <1>3, DecompressNormalLayout DEF OverrunExplained
<1>4. CASE TestOpen
  <2>1. SUFFICES ASSUME pc' = "overrun" PROVE Platform = "switch" /\ ~(baseFile'.view /\ patchFile'.view)
    BY DEF OverrunExplained, OverrunOnlyIf
  <2>2. /\ IsOpen(baseFile) /\ IsOpen(patchFile) /\ ~(baseFile.view /\ patchFile.view)
        /\ baseFile' = baseFile /\ patchFile' = patchFile
    BY <1>4, <2>1 DEF TestOpen, Goto, Return, fileVars
  <2>3. Platform = "switch"
    BY <2>2 DEF IsOpen
  <2>4. QED
    BY <2>2, <2>3
<1>5. CASE UNCHANGED vars
  <2>1. headerTargetSize' = headerTargetSize /\ newXexHeaderSize' = newXexHeaderSize
    BY <1>5, SizesStay DEF vars
  <2>2. QED
    BY <1>5, <2>1 DEF vars, fileVars, patchingVars, IndInv, OverrunExplained, OverrunOnlyIf
<1>6. CASE ~(\/ CopyHeader \/ PatchHeader \/ CopyData \/ MoveImage \/ ApplyBlock \/ DecompressNormal
             \/ TestOpen \/ UNCHANGED vars)
  <2>1. pc' # "overrun"
    BY <1>6 DEF Next, Finished, Goto, Return, IndInv, BlocksSoFar, OpenBase, OpenPatch,
           Validate, CompareKeys, Decrypt, DecompressBasic, DecompressOther,
           ClearFormat, BlocksDone, WriteFile, CloseFiles
  <2>2. QED
    BY <2>1 DEF OverrunExplained, OverrunOnlyIf
<1>7. QED
  BY <1>1, <1>2, <1>3, <1>4, <1>5, <1>6

LEMMA NextInv == IndInv /\ [Next]_vars => IndInv'
<1> SUFFICES ASSUME IndInv, [Next]_vars PROVE IndInv'
  OBVIOUS
<1>1. TypeOK'
  BY TypeNext
<1>2. Room' /\ ImageBytes' /\ HeaderDeltaReadsBase' /\ ImageDeltaReadsBase'
  BY LayoutNext
<1>3. BlocksSoFar' /\ ReturnTruthful'
  BY StoryNext DEF IndInv
<1>4. ViewMeansOpened'
  BY FilesNext DEF IndInv
<1>5. OverrunExplained'
  BY OverrunNext
<1>6. QED
  BY <1>1, <1>2, <1>3, <1>4, <1>5 DEF IndInv

-----------------------------------------------------------------------------
(* The theorems *)

(* What every stage of apply relies on holds when it is reached.           *)
THEOREM Invariant == Spec => []IndInv
  BY InitInv, NextInv, PTL DEF Spec

(* Whatever the files hold and wherever apply returns from, newXexPath is  *)
(* left with the old file, none or all of a new one, in which every block  *)
(* of the patch is and whose header asks for no decryption.                *)
THEOREM OutputIsTruthful == Spec => []OutputTruthful
<1>1. IndInv => OutputTruthful
  BY DEF IndInv, ReturnTruthful, BlocksSoFar, OutputTruthful
<1>2. QED
  BY <1>1, Invariant, PTL

(* For headers of all sizes, the header's delta patch finds the base's     *)
(* bytes where the descriptor had them moved.                              *)
THEOREM HeaderDeltaIsSound == Spec => []HeaderDeltaReadsBase
  BY Invariant, PTL DEF IndInv

(* For images of all sizes and any number of blocks, each byte that no     *)
(* record has written is the base's image's, moved as the patch says.      *)
THEOREM ImageDeltaIsSound == Spec => []ImageDeltaReadsBase
  BY Invariant, PTL DEF IndInv

(* The POSIX build overruns its buffers with the seven kinds of files only.*)
THEOREM PosixOverruns == ASSUME Platform = "posix" PROVE Spec => []OverrunOnlyIf
<1>1. IndInv => OverrunOnlyIf
  BY DEF IndInv, OverrunExplained
<1>2. QED
  BY <1>1, Invariant, PTL

(* The Switch build does so too, or reads a file without a view.           *)
THEOREM OverrunsExplained == Spec => []OverrunExplained
  BY Invariant, PTL DEF IndInv

(* In the POSIX build isOpen holds of no file that was not opened: what    *)
(* the run finds of it is the Switch build's alone.                        *)
THEOREM PosixOpenMeansRead == ASSUME Platform = "posix" PROVE Spec => []OpenMeansRead
<1>1. IndInv => OpenMeansRead
  BY DEF IndInv, ViewMeansOpened, OpenMeansRead, IsOpen
<1>2. QED
  BY <1>1, Invariant, PTL
-----------------------------------------------------------------------------
(* The walks of XexBlocks.                                                 *)

(* A set of natural numbers has a least one. *)
LEMMA LeastNatural ==
    ASSUME NEW T, T \subseteq Nat, T # {}
    PROVE  \E n \in T : \A m \in T : n <= m
<1>1. PICK n \in T : \A m \in T : ~(<<m, n>> \in OpToRel(<, Nat))
  BY NatLessThanWellFounded, WFMin
<1>2. \A m \in T : ~(m < n)
  BY <1>1 DEF OpToRel
<1>3. QED
  BY <1>2

LEMMA EveryNatural ==
    ASSUME NEW T, 0 \in T, \A n \in Nat : n \in T => n + 1 \in T
    PROVE  Nat \subseteq T
<1>1. SUFFICES ASSUME Nat \ T # {} PROVE FALSE
  OBVIOUS
<1>2. PICK n \in Nat \ T : \A m \in Nat \ T : n <= m
  BY <1>1, LeastNatural
<1>3. n # 0 /\ n - 1 \in Nat
  BY <1>2
<1>4. n - 1 \in T
  BY <1>2, <1>3
<1>5. QED
  BY <1>2, <1>3, <1>4

Nothing(start) == [data |-> start, chunks |-> <<>>]

IsMeaning(told, of, window, start) ==
    told = [i \in 0..Len(of) |-> IF i = 0 THEN Nothing(start) ELSE Means(told[i - 1], of[i], window)]

(* A function that is defined by what it has before exists. *)
LEMMA MeaningExists ==
    ASSUME NEW of, NEW window, NEW start, Len(of) \in Nat
    PROVE  \E told : IsMeaning(told, of, window, start)
<1> DEFINE Tells(told, k) == /\ told[0] = Nothing(start)
                             /\ \A i \in 1..k : told[i] = Means(told[i - 1], of[i], window)
           T == {k \in Nat : \E told : Tells(told, k)}
<1> PICK N \in Nat : N = Len(of)
  OBVIOUS
<1>1. 0 \in T
  <2>1. Tells([i \in {0} |-> Nothing(start)], 0)
    OBVIOUS
  <2>2. QED
    BY <2>1
<1>2. ASSUME NEW k \in Nat, k \in T PROVE k + 1 \in T
  <2>1. PICK old : Tells(old, k)
    BY <1>2
  <2>2. PICK new : new = [i \in 0..(k + 1) |-> IF i = k + 1 THEN Means(old[k], of[k + 1], window) ELSE old[i]]
    OBVIOUS
  <2>3. new[k + 1] = Means(old[k], of[k + 1], window) /\ \A i \in 0..k : new[i] = old[i]
    <3>1. k + 1 \in 0..(k + 1) /\ \A i \in 0..k : i \in 0..(k + 1) /\ i # k + 1
      OBVIOUS
    <3>2. QED
      BY <2>2, <3>1, Zenon
  <2>4. new[0] = Nothing(start)
    BY <2>1, <2>3
  <2>5. ASSUME NEW i \in 1..(k + 1) PROVE new[i] = Means(new[i - 1], of[i], window)
    <3>1. CASE i = k + 1
      <4>1. i - 1 = k /\ k \in 0..k
        BY <3>1
      <4>2. new[i - 1] = old[k]
        BY <2>3, <4>1
      <4>3. QED
        BY <2>3, <3>1, <4>2
    <3>2. CASE i # k + 1
      <4>1. i \in 1..k /\ i \in 0..k /\ i - 1 \in 0..k
        BY <3>2
      <4>2. new[i] = old[i] /\ new[i - 1] = old[i - 1]
        BY <2>3, <4>1
      <4>3. QED
        BY <2>1, <4>1, <4>2
    <3>3. QED
      BY <3>1, <3>2
  <2>6. Tells(new, k + 1)
    BY <2>4, <2>5
  <2>7. QED
    <3> HIDE DEF Tells
    <3>1. k + 1 \in Nat
      OBVIOUS
    <3>2. QED
      BY <2>6, <3>1
<1>3. N \in T
  <2>1. Nat \subseteq T
    <3> HIDE DEF T
    <3>1. QED
      BY <1>1, <1>2, EveryNatural
  <2>2. QED
    BY <2>1
<1>4. PICK old : Tells(old, N)
  BY <1>3
<1>5. PICK new : new = [i \in 0..N |-> old[i]]
  OBVIOUS
<1>6. new[0] = Nothing(start) /\ \A i \in 1..N : new[i] = Means(new[i - 1], of[i], window)
  <2>1. \A i \in 0..N : new[i] = old[i]
    BY <1>5
  <2>2. new[0] = Nothing(start)
    BY <1>4, <2>1
  <2>3. ASSUME NEW i \in 1..N PROVE new[i] = Means(new[i - 1], of[i], window)
    <3>1. i \in 0..N /\ i - 1 \in 0..N
      OBVIOUS
    <3>2. new[i] = old[i] /\ new[i - 1] = old[i - 1]
      BY <2>1, <3>1
    <3>3. QED
      BY <1>4, <3>2
  <2>4. QED
    BY <2>2, <2>3
<1>7. \A i \in 0..N : new[i] = IF i = 0 THEN Nothing(start) ELSE Means(new[i - 1], of[i], window)
  <2>1. \A i \in 0..N : i # 0 => i \in 1..N
    OBVIOUS
  <2>2. QED
    BY <1>6, <2>1, Zenon
<1>8. new = [i \in 0..N |-> IF i = 0 THEN Nothing(start) ELSE Means(new[i - 1], of[i], window)]
  <2>1. new = [i \in 0..N |-> new[i]]
    BY <1>5
  <2>2. QED
    BY <1>7, <2>1
<1>9. IsMeaning(new, of, window, start)
  BY <1>8, Zenon DEF IsMeaning
<1>10. QED
  BY <1>9

LEMMA MeaningIs ==
    ASSUME NEW of, NEW window, NEW start, Len(of) \in Nat
    PROVE  /\ Meaning(of, window, start)[0] = Nothing(start)
           /\ \A i \in 1..Len(of) :
                 Meaning(of, window, start)[i] = Means(Meaning(of, window, start)[i - 1], of[i], window)
<1>1. Meaning(of, window, start) = CHOOSE told : IsMeaning(told, of, window, start)
  BY Zenon DEF Meaning, Nothing, IsMeaning
<1>2. \E told : IsMeaning(told, of, window, start)
  BY MeaningExists
<1>3. IsMeaning(Meaning(of, window, start), of, window, start)
  BY <1>1, <1>2
<1>4. PICK told : told = Meaning(of, window, start) /\ IsMeaning(told, of, window, start)
  BY <1>3, Zenon
<1>5. told[0] = Nothing(start) /\ \A i \in 1..Len(of) : told[i] = Means(told[i - 1], of[i], window)
  <2>1. \A i \in 0..Len(of) : told[i] = IF i = 0 THEN Nothing(start) ELSE Means(told[i - 1], of[i], window)
    BY <1>4 DEF IsMeaning
  <2>2. 0 \in 0..Len(of) /\ \A i \in 1..Len(of) : i \in 0..Len(of) /\ i # 0
    OBVIOUS
  <2>3. QED
    BY <2>1, <2>2, Zenon
<1>6. QED
  BY <1>4, <1>5

Structures == Infos \cup Records \cup Chunks \cup {EndOfFile}

LEMMA Kinds ==
    ASSUME NEW item \in Structures
    PROVE  /\ item \in Infos <=> item.kind = "info"
           /\ item \in Records <=> item.kind = "record"
           /\ item \in Chunks <=> item.kind = "chunk"
           /\ item = EndOfFile <=> item.kind = "end"
           /\ Edge(item) <=> item.kind \in {"info", "end"}
           /\ Terminator(item) => ~Edge(item)
           /\ Size(item) \in Nat
           /\ item # EndOfFile => Size(item) > 0
           /\ item.kind \in {"info", "record", "chunk", "end"}
<1>1. CASE item \in Infos
  BY <1>1 DEF Infos, Records, Chunks, EndOfFile, Edge, Terminator, EndOfPatch, EndOfChunks, Size, BlockHeader
<1>2. CASE item \in Records
  BY <1>2 DEF Infos, Records, Chunks, EndOfFile, Edge, Terminator, EndOfPatch, EndOfChunks, Size, RecordHeader
<1>3. CASE item \in Chunks
  BY <1>3 DEF Infos, Records, Chunks, EndOfFile, Edge, Terminator, EndOfPatch, EndOfChunks, Size, ChunkHeader
<1>4. CASE item = EndOfFile
  BY <1>4 DEF Infos, Records, Chunks, EndOfFile, Edge, Terminator, EndOfPatch, EndOfChunks, Size
<1>5. QED
  BY <1>1, <1>2, <1>3, <1>4 DEF Structures

LEMMA StructuresTyped ==
    ASSUME NEW of, InOrder(of)
    PROVE  /\ Len(of) \in Nat /\ Len(of) > 1
           /\ \A i \in 1..Len(of) : of[i][1] \in Int /\ of[i][2] \in Structures /\ Size(of[i][2]) \in Nat
           /\ \A i \in 1..Len(of) : i # Len(of) => of[i][2] # EndOfFile /\ Size(of[i][2]) > 0
           /\ of[Len(of)][2] = EndOfFile /\ Edge(of[Len(of)][2])
<1>1. of \in Seq(Int \X Structures) /\ Len(of) \in Nat /\ Len(of) > 1
  BY DEF InOrder, Structures
<1>2. \A i \in 1..Len(of) : of[i][1] \in Int /\ of[i][2] \in Structures
  <2>1. \A i \in 1..Len(of) : of[i] \in Int \X Structures
    BY <1>1
  <2>2. QED
    BY <2>1
<1>3. \A i \in 1..Len(of) : of[i][2] = EndOfFile <=> i = Len(of)
  BY DEF InOrder
<1>4. of[Len(of)][2] = EndOfFile
  BY <1>1, <1>3
<1>5. \A i \in 1..Len(of) : Size(of[i][2]) \in Nat
  BY <1>2, Kinds
<1>6. \A i \in 1..Len(of) : i # Len(of) => of[i][2] # EndOfFile /\ Size(of[i][2]) > 0
  BY <1>2, <1>3, Kinds
<1>7. QED
  BY <1>1, <1>2, <1>4, <1>5, <1>6 DEF Edge

(* What comes later in a file begins behind what comes sooner. *)
LEMMA StructuresApart ==
    ASSUME NEW of, InOrder(of), NEW i \in 1..Len(of), NEW j \in 1..Len(of), i < j
    PROVE  of[i][1] + Size(of[i][2]) <= of[j][1] /\ of[i][1] < of[j][1]
<1> PICK N \in Nat : N = Len(of) /\ N > 1
  BY StructuresTyped
<1>1. ASSUME NEW m \in Nat, 1 <= m, m + 1 <= N
      PROVE  /\ of[m][1] \in Int /\ of[m + 1][1] \in Int /\ Size(of[m][2]) \in Nat /\ Size(of[m][2]) > 0
             /\ of[m][1] + Size(of[m][2]) <= of[m + 1][1]
  <2>1. m \in 1..(Len(of) - 1) /\ m \in 1..Len(of) /\ m # Len(of) /\ m + 1 \in 1..Len(of)
    BY <1>1
  <2>2. of[m][1] \in Int /\ of[m + 1][1] \in Int /\ Size(of[m][2]) \in Nat /\ Size(of[m][2]) > 0
    BY <2>1, StructuresTyped
  <2>3. of[m][1] + Size(of[m][2]) <= of[m + 1][1]
    <3>1. \/ of[m][1] + Size(of[m][2]) <= of[m + 1][1]
          \/ of[m][1] + Size(of[m][2]) = of[m + 1][1]
      BY <2>1, Zenon DEF InOrder
    <3>2. PICK a \in Int, b \in Int, size \in Nat :
             a = of[m][1] /\ b = of[m + 1][1] /\ size = Size(of[m][2])
      BY <2>2
    <3>3. a + size <= b
      BY <3>1, <3>2
    <3>4. QED
      BY <3>2, <3>3
  <2>4. QED
    BY <2>2, <2>3
<1> DEFINE T == {d \in Nat : i + 1 + d <= N => of[i][1] + Size(of[i][2]) <= of[i + 1 + d][1]}
<1>2. 0 \in T
  BY <1>1
<1>3. ASSUME NEW d \in Nat, d \in T PROVE d + 1 \in T
  <2>1. PICK m \in Nat : m = i + 1 + d
    OBVIOUS
  <2>2. i + 1 + (d + 1) = m + 1
    BY <2>1
  <2>3. SUFFICES ASSUME m + 1 <= N PROVE of[i][1] + Size(of[i][2]) <= of[m + 1][1]
    BY <2>2
  <2>4. of[i][1] + Size(of[i][2]) <= of[m][1]
    BY <1>3, <2>1, <2>3
  <2>5. /\ of[m][1] \in Int /\ of[m + 1][1] \in Int /\ Size(of[m][2]) \in Nat
        /\ of[m][1] + Size(of[m][2]) <= of[m + 1][1]
    BY <1>1, <2>1, <2>3
  <2>6. of[i][1] \in Int /\ Size(of[i][2]) \in Nat
    BY <1>1
  <2>7. QED
    BY <2>4, <2>5, <2>6
<1>4. Nat \subseteq T
  <2> HIDE DEF T
  <2> QED
    BY <1>2, <1>3, EveryNatural
<1>5. PICK d \in Nat : j = i + 1 + d
  <2>1. j - (i + 1) \in Nat /\ j = i + 1 + (j - (i + 1))
    OBVIOUS
  <2>2. QED
    BY <2>1
<1>6. of[i][1] + Size(of[i][2]) <= of[j][1]
  <2>1. d \in T /\ i + 1 + d <= N
    BY <1>4, <1>5
  <2>2. QED
    BY <1>5, <2>1
<1>7. of[i][1] \in Int /\ Size(of[i][2]) \in Nat /\ Size(of[i][2]) > 0 /\ of[j][1] \in Int
  BY StructuresTyped
<1>8. QED
  BY <1>6, <1>7

LEMMA OnlyStructure ==
    ASSUME NEW of, InOrder(of), NEW i \in 1..Len(of), NEW j \in 1..Len(of), of[i][1] = of[j][1]
    PROVE  i = j
<1>1. Len(of) \in Nat /\ of[i][1] \in Int /\ of[j][1] \in Int
  BY StructuresTyped
<1>2. ~(i < j) /\ ~(j < i)
  BY <1>1, StructuresApart
<1>3. QED
  BY <1>1, <1>2

(* A cursor on a structure reads it. *)
LEMMA ItemOn ==
    ASSUME InOrder(layout), NEW k \in 1..Len(layout)
    PROVE  ItemAt(layout[k][1]) = layout[k][2]
<1>1. PICK i : i = CHOOSE m \in 1..Len(layout) : layout[m][1] = layout[k][1]
  OBVIOUS
<1>2. i \in 1..Len(layout) /\ layout[i][1] = layout[k][1]
  BY <1>1
<1>3. i = k
  BY <1>2, OnlyStructure
<1>4. QED
  BY <1>1, <1>3 DEF ItemAt

(* One behind a structure stands on the next or, before the edge of a      *)
(* block, perhaps on none.                                                 *)
LEMMA ItemBehind ==
    ASSUME InOrder(layout), NEW k \in 1..Len(layout), k # Len(layout),
           NEW at, at = layout[k][1] + Size(layout[k][2])
    PROVE  /\ k + 1 \in 1..Len(layout)
           /\ at \in Int /\ layout[k + 1][1] \in Int /\ at <= layout[k + 1][1]
           /\ at = layout[k + 1][1] => ItemAt(at) = layout[k + 1][2]
           /\ at # layout[k + 1][1] => ItemAt(at) = Lost /\ Edge(layout[k + 1][2])
           /\ ~Edge(layout[k + 1][2]) => ~Terminator(layout[k][2])
<1>1. Len(layout) \in Nat
  BY StructuresTyped
<1>2. k + 1 \in 1..Len(layout) /\ k < k + 1 /\ k \in 1..(Len(layout) - 1)
  BY <1>1
<1>3. /\ layout[k][1] \in Int /\ Size(layout[k][2]) \in Nat /\ Size(layout[k][2]) > 0
      /\ layout[k + 1][1] \in Int
  BY <1>2, StructuresTyped
<1>4. at \in Int /\ layout[k][1] < at /\ at <= layout[k + 1][1]
  BY <1>2, <1>3, StructuresApart
<1>5. ASSUME at # layout[k + 1][1] PROVE ItemAt(at) = Lost
  <2>1. ASSUME NEW i \in 1..Len(layout), layout[i][1] = at PROVE FALSE
    <3>1. CASE i <= k
      <4>1. i = k \/ layout[i][1] < layout[k][1]
        BY <1>1, <3>1, StructuresApart
      <4>2. QED
        BY <1>3, <1>4, <2>1, <4>1
    <3>2. CASE i > k
      <4>1. i = k + 1 \/ layout[k + 1][1] < layout[i][1]
        BY <1>1, <1>2, <3>2, StructuresApart
      <4>2. QED
        BY <1>3, <1>4, <1>5, <2>1, <4>1
    <3>3. QED
      BY <1>1, <3>1, <3>2
  <2>2. QED
    BY <2>1 DEF ItemAt
<1>6. ASSUME at = layout[k + 1][1] PROVE ItemAt(at) = layout[k + 1][2]
  BY <1>2, <1>6, ItemOn
<1>7. ASSUME ~Edge(layout[k + 1][2]) PROVE at = layout[k + 1][1] /\ ~Terminator(layout[k][2])
  BY <1>2, <1>7 DEF InOrder
<1>8. QED
  BY <1>2, <1>3, <1>4, <1>5, <1>6, <1>7

(* Behind an edge there is another one, unless it is the file's end.       *)
LEMMA EdgeFollows ==
    ASSUME NEW of, InOrder(of), NEW j \in 1..Len(of), j # Len(of), Edge(of[j][2])
    PROVE  \E l \in 1..Len(of) : Block(of, j, l)
<1> DEFINE T == {m \in 1..Len(of) : j < m /\ Edge(of[m][2])}
<1>1. Len(of) \in Nat /\ Len(of) \in 1..Len(of) /\ j < Len(of) /\ Edge(of[Len(of)][2])
  BY StructuresTyped
<1>2. T \subseteq Nat /\ T # {}
  BY <1>1
<1>3. PICK l \in T : \A m \in T : l <= m
  <2> HIDE DEF T
  <2> QED
    BY <1>2, LeastNatural
<1>4. ASSUME NEW m \in (j + 1)..(l - 1) PROVE ~Edge(of[m][2])
  <2>1. m \in 1..Len(of) /\ j < m /\ ~(l <= m)
    BY <1>1, <1>3
  <2>2. QED
    BY <1>3, <2>1
<1>5. QED
  BY <1>3, <1>4 DEF Block

-----------------------------------------------------------------------------
(* What the steps of a walk rely on *)

Told == Meaning(layout, windowSize, OldData)

WalkTyped ==
    /\ WellFormed([kind |-> kind, layout |-> layout])
    /\ windowSize \in Nat
    /\ step \in {"block", "record", "chunk", "lzxDecompress", "lzx", "lost", "overrun", "returned"}
    /\ step # "returned" => outcome = "none"
    /\ p \in Int /\ info \in Infos /\ cur \in Int /\ patchEnd \in Int
    /\ DOMAIN data = 0..(DataSize - 1) /\ data = [a \in 0..(DataSize - 1) |-> data[a]]
    /\ stream \in Seq(Int)
    /\ lzx = [at |-> lzx.at, length |-> lzx.length, window |-> lzx.window, hasWindow |-> lzx.hasWindow]

(* Structure j holds the block that the walk is in, up to structure l, and *)
(* it has passed k.  A header's records have no such structure but the     *)
(* descriptor before them.                                                 *)
Within(j, k, l) ==
    /\ Block(layout, j, l) /\ j <= k /\ k < l
    /\ \A m \in j..k : ~Terminator(layout[m][2])
    /\ cur = layout[k][1] + Size(layout[k][2])
    /\ nextInfo = layout[j][2]
    /\ IF kind = "header"
       THEN j = 1 /\ l = Len(layout) /\ p = 0 /\ info = layout[1][2] /\ patchEnd = info.size
       ELSE p = layout[j][1] /\ patchEnd = layout[l][1] /\ patchEnd = p + info.size

(* The hashes of the blocks before structure j were good.                  *)
Matched(j) ==
    kind # "header" => \A m \in 1..(j - 1) : layout[m][2] \in Infos => layout[m][2].matches

(* The walk has done what the structures up to k say.                      *)
Done(k) ==
    /\ kind = "normal" => stream = Told[k].chunks /\ data = OldData
    /\ kind # "normal" /\ MovesApart => data = Told[k].data

AtBlock ==
    step = "block" =>
        /\ kind # "header"
        /\ \E i, j \in 1..Len(layout) :
              Block(layout, i, j) /\ p = layout[j][1] /\ info = layout[i][2] /\ Matched(i) /\ Done(j)

AmongItems ==
    /\ step = "record" => kind # "normal"
    /\ step = "chunk" => kind = "normal"
    /\ step \in {"record", "chunk"} =>
          \E j, k, l \in 1..Len(layout) : Within(j, k, l) /\ Matched(j) /\ Done(k)

(* Over what was there, the library has written a part of what the stream  *)
(* decodes to.                                                             *)
Writing(before) ==
    /\ DOMAIN before = 0..(DataSize - 1)
    /\ data = [a \in 0..(DataSize - 1) |->
                  IF a \in Span(lzx.at, written) THEN <<"lzx", stream, a - lzx.at, lzx.window>>
                  ELSE before[a]]

(* Structure k is the record whose payload is being decompressed.          *)
InRecord(j, k, l) ==
    LET r   == layout[k][2]
        old == Piece(Told[k - 1].data, r.oldAddress, r.uncompressedLength) IN
    /\ Within(j, k, l) /\ Matched(j) /\ j < k
    /\ r \in Records /\ r.compressedLength > 1
    /\ stream = BytesAt(layout[k][1] + RecordHeader, r.compressedLength)
    /\ lzx.at = r.newAddress /\ lzx.length = r.uncompressedLength /\ lzx.hasWindow
    /\ step = "lzxDecompress" => Len(lzx.window) = r.uncompressedLength
    /\ MovesApart =>
          /\ Writing(Told[k - 1].data)
          /\ lzx.window = IF step = "lzx" THEN PaddedWindow(old, windowSize) ELSE old

AllMatched ==
    \A m \in 1..Len(layout) : layout[m][2] \in Infos /\ layout[m][2].size # 0 => layout[m][2].matches

EmptyWindow == PaddedWindow(<<>>, LibraryWindow)

(* The chunks of all blocks are being decompressed.                        *)
InImage ==
    /\ AllMatched
    /\ stream = WholeMeaning.chunks
    /\ lzx.at = 0 /\ lzx.length = DataSize /\ ~lzx.hasWindow
    /\ lzx.window = IF step = "lzx" THEN EmptyWindow ELSE <<>>
    /\ Writing(OldData)

InLibrary ==
    step \in {"lzxDecompress", "lzx"} =>
        /\ lzx.at \in Nat /\ lzx.length \in Nat /\ written \in 0..lzx.length
        /\ step = "lzxDecompress" => consumed = <<>> /\ written = 0
        /\ consumed \in Seq(Int) /\ Len(consumed) <= Len(stream)
        /\ consumed = SubSeq(stream, 1, Len(consumed))
        /\ IF kind = "normal" THEN InImage ELSE \E j, k, l \in 1..Len(layout) : InRecord(j, k, l)

WalkInv ==
    WalkTyped /\ AtBlock /\ AmongItems /\ InLibrary
    /\ WalkIsSound /\ PatchMeansRecords /\ ImageIsDecodedChunks

-----------------------------------------------------------------------------
LEMMA FileOrdered == WalkTyped => InOrder(layout) /\ kind \in {"header", "delta", "normal"}
  BY DEF WalkTyped, WellFormed

(* What a file means does not change.                                      *)
LEMMA FileStays ==
    ASSUME UNCHANGED inputVars
    PROVE  /\ kind' = kind /\ layout' = layout /\ windowSize' = windowSize
           /\ LibraryWindow' = LibraryWindow /\ EmptyWindow' = EmptyWindow
           /\ OldData' = OldData /\ Told' = Told /\ WholeMeaning' = WholeMeaning
           /\ MovesApart' <=> MovesApart
           /\ AllMatched' <=> AllMatched
           /\ \A j : Matched(j)' <=> Matched(j)
<1>1. kind' = kind /\ layout' = layout /\ windowSize' = windowSize
  BY DEF inputVars
<1>2. OldData' = OldData
  BY <1>1, Zenon DEF OldData
<1>3. Told' = Told
  BY <1>1, <1>2 DEF Told
<1>4. WholeMeaning' = WholeMeaning
  BY <1>1, <1>2 DEF WholeMeaning
<1>5. MovesApart' <=> MovesApart
  BY <1>1, Zenon DEF MovesApart
<1>6. AllMatched' <=> AllMatched
  BY <1>1, Zenon DEF AllMatched
<1>7. ASSUME NEW j PROVE Matched(j)' <=> Matched(j)
  BY <1>1, Zenon DEF Matched
<1>8. LibraryWindow' = LibraryWindow /\ EmptyWindow' = EmptyWindow
  BY <1>1, Zenon DEF LibraryWindow, EmptyWindow
<1>9. QED
  BY <1>1, <1>2, <1>3, <1>4, <1>5, <1>6, <1>7, <1>8

LEMMA ToldStep ==
    ASSUME InOrder(layout)
    PROVE  /\ Told[0] = Nothing(OldData)
           /\ \A k \in 1..Len(layout) :
                 /\ Told[k].data = IF layout[k][2] \in Records
                                   THEN Applied(Told[k - 1].data, layout[k], windowSize)
                                   ELSE Told[k - 1].data
                 /\ Told[k].chunks = IF layout[k][2] \in Chunks
                                     THEN Told[k - 1].chunks \o
                                             BytesAt(layout[k][1] + ChunkHeader, layout[k][2].length)
                                     ELSE Told[k - 1].chunks
<1>1. Len(layout) \in Nat
  BY StructuresTyped
<1>2. Told[0] = Nothing(OldData)
  BY <1>1, MeaningIs DEF Told
<1>3. ASSUME NEW k \in 1..Len(layout)
      PROVE Told[k] = Means(Told[k - 1], layout[k], windowSize)
  BY <1>1, MeaningIs DEF Told
<1>4. ASSUME NEW before, NEW placed, NEW window
      PROVE  /\ Means(before, placed, window).data = IF placed[2] \in Records
                                                     THEN Applied(before.data, placed, window)
                                                     ELSE before.data
             /\ Means(before, placed, window).chunks =
                   IF placed[2] \in Chunks
                   THEN before.chunks \o BytesAt(placed[1] + ChunkHeader, placed[2].length)
                   ELSE before.chunks
  BY DEF Means
<1>5. ASSUME NEW k \in 1..Len(layout)
      PROVE  /\ Told[k].data = IF layout[k][2] \in Records
                         THEN Applied(Told[k - 1].data, layout[k], windowSize)
                         ELSE Told[k - 1].data
             /\ Told[k].chunks = IF layout[k][2] \in Chunks
                           THEN Told[k - 1].chunks \o
                                   BytesAt(layout[k][1] + ChunkHeader, layout[k][2].length)
                           ELSE Told[k - 1].chunks
  <2>1. /\ Means(Told[k - 1], layout[k], windowSize).data = IF layout[k][2] \in Records
                         THEN Applied(Told[k - 1].data, layout[k], windowSize)
                         ELSE Told[k - 1].data
        /\ Means(Told[k - 1], layout[k], windowSize).chunks = IF layout[k][2] \in Chunks
                           THEN Told[k - 1].chunks \o
                                   BytesAt(layout[k][1] + ChunkHeader, layout[k][2].length)
                           ELSE Told[k - 1].chunks
    BY <1>4
  <2>2. QED
    BY <1>3, <2>1, Zenon
<1>6. QED
  BY <1>2, <1>5, Zenon

(* An edge does nothing, *)
LEMMA EdgeTellsNothing ==
    ASSUME InOrder(layout), NEW k \in 1..Len(layout), Edge(layout[k][2])
    PROVE  Told[k].data = Told[k - 1].data /\ Told[k].chunks = Told[k - 1].chunks
<1>1. layout[k][2] \notin Records /\ layout[k][2] \notin Chunks
  BY StructuresTyped, Kinds
<1>2. QED
  BY <1>1, ToldStep

LEMMA EmptyBytes ==
    ASSUME NEW at, NEW s \in Seq(Int)
    PROVE  BytesAt(at, 0) = <<>> /\ s \o BytesAt(at, 0) = s
<1>1. BytesAt(at, 0) = <<>>
  BY DEF BytesAt
<1>2. QED
  BY <1>1

(* and neither does the end of a patch or of the chunks.                   *)
LEMMA TerminatorTellsNothing ==
    ASSUME WalkTyped, NEW k \in 1..Len(layout), Terminator(layout[k][2]), Done(k - 1)
    PROVE  Done(k)
<1>1. InOrder(layout)
  BY FileOrdered
<1>2. CASE layout[k][2] = EndOfPatch
  <2>1. layout[k][2] \in Records /\ layout[k][2] \notin Chunks
    BY <1>2 DEF EndOfPatch, Records, Chunks
  <2>2. /\ Told[k].data = Applied(Told[k - 1].data, layout[k], windowSize)
        /\ Told[k].chunks = Told[k - 1].chunks
    BY <1>1, <2>1, ToldStep
  <2>3. ASSUME data = Told[k - 1].data PROVE data = Told[k].data
    <3>1. \A a \in DOMAIN data : a \notin Span(0, 0)
      BY DEF Span, WalkTyped
    <3>2. Applied(data, layout[k], windowSize) = [a \in DOMAIN data |-> data[a]]
      BY <1>2, <3>1 DEF Applied, EndOfPatch
    <3>3. data = [a \in DOMAIN data |-> data[a]]
      BY DEF WalkTyped
    <3>4. QED
      BY <2>2, <2>3, <3>2, <3>3
  <2>4. QED
    BY <2>2, <2>3 DEF Done
<1>3. CASE layout[k][2] = EndOfChunks
  <2>1. layout[k][2] \in Chunks /\ layout[k][2] \notin Records
    BY <1>3 DEF EndOfChunks, Records, Chunks
  <2>2. /\ Told[k].data = Told[k - 1].data
        /\ Told[k].chunks = Told[k - 1].chunks \o BytesAt(layout[k][1] + ChunkHeader, 0)
    <3>1. layout[k][2].length = 0
      BY <1>3 DEF EndOfChunks
    <3>2. QED
      BY <1>1, <2>1, <3>1, ToldStep, Zenon
  <2>3. stream = Told[k - 1].chunks => stream = Told[k].chunks
    BY <2>2, EmptyBytes DEF WalkTyped
  <2>4. QED
    BY <2>2, <2>3 DEF Done
<1>4. QED
  BY <1>2, <1>3 DEF Terminator

(* While a walk goes on, nothing is said of its outcome.                   *)
LEMMA GoingOn ==
    ASSUME step' \notin {"lost", "overrun"}, outcome' = "none"
    PROVE  WalkIsSound' /\ PatchMeansRecords' /\ ImageIsDecodedChunks'
  BY DEF WalkIsSound, PatchMeansRecords, ImageIsDecodedChunks

LEMMA WalkInitInv == WalkInit => WalkInv
<1> SUFFICES ASSUME WalkInit PROVE WalkInv
  OBVIOUS
<1>1. WellFormed([kind |-> kind, layout |-> layout])
  <2>1. PICK file \in Inputs : kind = file.kind /\ layout = file.layout
    BY DEF WalkInit
  <2>2. WellFormed(file)
    BY FilesAssumption
  <2>3. QED
    BY <2>1, <2>2 DEF WellFormed
<1>2. InOrder(layout) /\ layout[1][1] = -24 /\ layout[1][2] \in Infos
  BY <1>1 DEF WellFormed, BlockHeader
<1>3. /\ Len(layout) \in Nat /\ Len(layout) > 1 /\ 1 \in 1..Len(layout)
      /\ Edge(layout[1][2]) /\ ~Terminator(layout[1][2]) /\ Size(layout[1][2]) = 24
      /\ layout[Len(layout)][2] = EndOfFile /\ Edge(layout[Len(layout)][2])
  BY <1>2, StructuresTyped, Kinds DEF Edge, Infos, Size, BlockHeader
<1>4. kind \in {"header", "delta", "normal"}
  BY <1>1 DEF WellFormed
<1>5. WalkTyped
  <2>1. data = [a \in 0..(DataSize - 1) |-> data[a]] /\ DOMAIN data = 0..(DataSize - 1)
    BY DEF WalkInit, OldData
  <2>2. windowSize \in Nat
    BY SizeAssumption DEF WalkInit
  <2>3. info \in Infos /\ patchEnd \in Int
    BY <1>2 DEF WalkInit, Infos
  <2>4. /\ step \in {"block", "record", "chunk", "lzxDecompress", "lzx", "lost", "overrun", "returned"}
        /\ step # "returned" => outcome = "none"
        /\ p \in Int /\ cur \in Int /\ stream \in Seq(Int)
    BY DEF WalkInit
  <2>5. lzx = [at |-> lzx.at, length |-> lzx.length, window |-> lzx.window, hasWindow |-> lzx.hasWindow]
    BY DEF WalkInit, NoLzx
  <2>6. QED
    BY <1>1, <2>1, <2>2, <2>3, <2>4, <2>5 DEF WalkTyped
<1>6. Done(1)
  <2>1. Told[1].data = OldData /\ Told[1].chunks = <<>>
    <3>1. Told[0].data = OldData /\ Told[0].chunks = <<>>
      BY <1>2, ToldStep DEF Nothing
    <3>2. Told[1].data = Told[1 - 1].data /\ Told[1].chunks = Told[1 - 1].chunks
      BY <1>2, <1>3, EdgeTellsNothing
    <3>3. QED
      BY <3>1, <3>2
  <2>2. QED
    BY <2>1 DEF Done, WalkInit
<1>7. Matched(1)
  BY DEF Matched
<1>8. AtBlock
  <2>1. SUFFICES ASSUME kind # "header"
                 PROVE  \E i, j \in 1..Len(layout) :
                           Block(layout, i, j) /\ p = layout[j][1] /\ info = layout[i][2] /\ Matched(i) /\ Done(j)
    BY DEF AtBlock, WalkInit
  <2>2. layout[2][1] = 0 /\ Edge(layout[2][2])
    BY <1>1, <2>1 DEF WellFormed, BlocksFormed
  <2>3. 2 \in 1..Len(layout) /\ Block(layout, 1, 2)
    BY <1>3, <2>2 DEF Block
  <2>4. Done(2)
    <3>1. Told[2].data = Told[2 - 1].data /\ Told[2].chunks = Told[2 - 1].chunks
      BY <1>2, <2>2, <2>3, EdgeTellsNothing
    <3>2. QED
      BY <1>6, <3>1 DEF Done
  <2>5. p = layout[2][1] /\ info = layout[1][2]
    BY <2>2 DEF WalkInit
  <2>6. QED
    BY <1>3, <1>7, <2>3, <2>4, <2>5
<1>9. AmongItems
  <2>1. CASE kind = "header"
    <3>1. HeaderFormed(layout)
      BY <1>1, <2>1 DEF WellFormed
    <3>2. ASSUME NEW m \in 2..(Len(layout) - 1) PROVE ~Edge(layout[m][2])
      <4>1. m \in 1..Len(layout) /\ layout[m][2] \in Records
        BY <1>3, <3>1 DEF HeaderFormed
      <4>2. QED
        BY <1>2, <4>1, StructuresTyped, Kinds
    <3>3. Block(layout, 1, Len(layout))
      BY <1>3, <3>2 DEF Block
    <3>4. Within(1, 1, Len(layout))
      BY <1>2, <1>3, <2>1, <3>3 DEF Within, WalkInit
    <3>5. QED
      BY <1>3, <1>6, <1>7, <2>1, <3>4 DEF AmongItems, WalkInit
  <2>2. CASE kind # "header"
    BY <2>2 DEF AmongItems, WalkInit
  <2>3. QED
    BY <2>1, <2>2
<1>10. InLibrary /\ WalkIsSound /\ PatchMeansRecords /\ ImageIsDecodedChunks
  BY DEF WalkInit, InLibrary, WalkIsSound, PatchMeansRecords, ImageIsDecodedChunks
<1>11. QED
  BY <1>5, <1>8, <1>9, <1>10 DEF WalkInv

(* The step from a block to the items in it, or past the last one.         *)
LEMMA LastBlockInv ==
    ASSUME WalkInv, LastBlock
    PROVE  WalkInv'
<1>1. UNCHANGED inputVars /\ InOrder(layout) /\ step = "block" /\ outcome = "none"
  BY FileOrdered DEF LastBlock, WalkInv, WalkTyped, Go, EndWalk
<1>2. PICK i, j \in 1..Len(layout) :
         Block(layout, i, j) /\ p = layout[j][1] /\ info = layout[i][2] /\ Matched(i) /\ Done(j)
  BY <1>1 DEF WalkInv, AtBlock
<1>3. kind \in {"delta", "normal"} /\ BlocksFormed(layout) /\ layout[i][2].size = 0 /\ j = Len(layout)
  <2>1. kind \in {"delta", "normal"} /\ BlocksFormed(layout)
    BY <1>1, FileOrdered DEF WalkInv, WalkTyped, AtBlock, WellFormed
  <2>2. QED
    BY <1>2, <2>1 DEF LastBlock, BlocksFormed
<1>4. AllMatched
  <2>1. Len(layout) \in Nat
    BY <1>1, StructuresTyped
  <2>2. ASSUME NEW m \in 1..Len(layout), layout[m][2] \in Infos, layout[m][2].size # 0
        PROVE  layout[m][2].matches
    <3>1. m # i /\ m # j /\ m \notin (i + 1)..(j - 1)
      <4>1. layout[j][2] = EndOfFile /\ layout[m][2].kind = "info" /\ Edge(layout[m][2])
        BY <1>1, <1>3, <2>2, StructuresTyped, Zenon DEF Edge, Infos
      <4>2. m # j
        BY <4>1 DEF EndOfFile
      <4>3. m # i
        BY <1>3, <2>2
      <4>4. m \notin (i + 1)..(j - 1)
        BY <1>2, <4>1, Zenon DEF Block
      <4>5. QED
        BY <4>2, <4>3, <4>4
    <3>2. m \in 1..(i - 1)
      BY <1>3, <2>1, <3>1
    <3>3. QED
      BY <1>2, <1>3, <2>2, <3>2 DEF Matched
  <2>3. QED
    BY <2>2 DEF AllMatched
<1>5. /\ kind' = kind /\ layout' = layout /\ (MovesApart' <=> MovesApart) /\ WholeMeaning' = WholeMeaning
      /\ AllMatched'
  BY <1>1, <1>4, FileStays
<1>6. WholeMeaning = Told[Len(layout)]
  BY DEF WholeMeaning, Told
<1>7. CASE kind = "delta"
  <2>1. step' = "returned" /\ outcome' = "Success" /\ data' = data /\ UNCHANGED lzxVars
    BY <1>7 DEF LastBlock, EndWalk
  <2>2. WalkTyped'
    BY <1>1, <1>7, <2>1 DEF LastBlock, WalkInv, WalkTyped, inputVars, blockVars, lzxVars
  <2>3. PatchMeansRecords'
    BY <1>2, <1>3, <1>5, <1>6, <1>7, <2>1 DEF PatchMeansRecords, Done
  <2>4. WalkIsSound' /\ ImageIsDecodedChunks'
    BY <1>5, <1>7, <2>1 DEF WalkIsSound, ImageIsDecodedChunks, AllMatched
  <2>5. QED
    BY <2>1, <2>2, <2>3, <2>4 DEF WalkInv, AtBlock, AmongItems, InLibrary
<1>8. CASE kind = "normal"
  <2>1. /\ step' = "lzxDecompress" /\ outcome' = "none" /\ data' = data /\ stream' = stream
        /\ lzx' = [at |-> 0, length |-> DataSize, window |-> <<>>, hasWindow |-> FALSE]
        /\ consumed' = <<>> /\ written' = 0
    BY <1>1, <1>8 DEF LastBlock, Go, StartLzx
  <2>2. WalkTyped'
    BY <1>1, <1>8, <2>1 DEF LastBlock, WalkInv, WalkTyped, inputVars, blockVars
  <2>3. InImage'
    <3>1. Writing(OldData)'
      <4>1. \A a \in 0..(DataSize - 1) : a \notin Span(0, 0)
        BY DEF Span
      <4>2. data = OldData
        BY <1>2, <1>8 DEF Done
      <4>3. OldData' = OldData
        BY <1>1, FileStays
      <4>4. OldData = [a \in 0..(DataSize - 1) |-> OldData[a]] /\ DOMAIN OldData = 0..(DataSize - 1)
        BY DEF OldData
      <4>5. lzx'.at = 0
        BY <2>1
      <4>6. QED
        BY <2>1, <4>1, <4>2, <4>3, <4>4, <4>5 DEF Writing
    <3>2. stream' = WholeMeaning'.chunks
      BY <1>2, <1>3, <1>5, <1>6, <1>8, <2>1 DEF Done
    <3>3. QED
      BY <1>5, <2>1, <3>1, <3>2 DEF InImage
  <2>4. InLibrary'
    <3>1. /\ consumed' \in Seq(Int) /\ Len(consumed') = 0 /\ Len(stream') \in Nat
          /\ consumed' = SubSeq(stream', 1, Len(consumed'))
      BY <2>1, <2>2 DEF WalkTyped
    <3>2. QED
      BY <1>5, <1>8, <2>1, <2>3, <3>1, SizeAssumption DEF InLibrary
  <2>5. QED
    BY <2>1, <2>2, <2>4, GoingOn DEF WalkInv, AtBlock, AmongItems
<1>9. QED
  BY <1>3, <1>7, <1>8

LEMMA EnterBlockInv ==
    ASSUME WalkInv, EnterBlock
    PROVE  WalkInv'
<1>1. UNCHANGED inputVars /\ InOrder(layout) /\ step = "block" /\ outcome = "none"
  BY FileOrdered DEF EnterBlock, WalkInv, WalkTyped, Go, EndWalk
<1>2. PICK i, j \in 1..Len(layout) :
         Block(layout, i, j) /\ p = layout[j][1] /\ info = layout[i][2] /\ Matched(i) /\ Done(j)
  BY <1>1 DEF WalkInv, AtBlock
<1>3. kind \in {"delta", "normal"} /\ BlocksFormed(layout) /\ j # Len(layout)
  <2>1. kind \in {"delta", "normal"} /\ BlocksFormed(layout)
    BY <1>1, FileOrdered DEF WalkInv, WalkTyped, AtBlock, WellFormed
  <2>2. QED
    BY <1>2, <2>1 DEF EnterBlock, BlocksFormed
<1>4. PICK l \in 1..Len(layout) : Block(layout, j, l)
  BY <1>1, <1>2, <1>3, EdgeFollows DEF Block
<1>5. layout[l][1] = p + info.size
  BY <1>2, <1>3, <1>4 DEF BlocksFormed
<1>6. layout[j][2] \in Infos /\ ItemAt(p) = layout[j][2] /\ ~Terminator(layout[j][2])
      /\ layout[j][2].kind = "info" /\ Size(layout[j][2]) = BlockHeader
  <2>1. layout[j][2] \in Infos
    BY <1>1, <1>2, <1>3, StructuresTyped DEF Block, Edge
  <2>2. ItemAt(p) = layout[j][2]
    BY <1>1, <1>2, ItemOn
  <2>3. layout[j][2].kind = "info" /\ Size(layout[j][2]) = BlockHeader
    BY <2>1 DEF Infos, Size
  <2>4. ~Terminator(layout[j][2])
    BY <1>1, <1>2, <2>1, StructuresTyped, Kinds DEF Edge
  <2>5. QED
    BY <2>1, <2>2, <2>3, <2>4
<1>7. kind' = kind /\ layout' = layout /\ windowSize' = windowSize /\ (MovesApart' <=> MovesApart) /\ Told' = Told
      /\ OldData' = OldData
  BY <1>1, FileStays
<1>8. CASE ~info.matches
  <2>1. step' = "returned" /\ outcome' = "PatchFailed" /\ UNCHANGED <<nextInfo, cur, patchEnd>>
    BY <1>8 DEF EnterBlock, EndWalk
  <2>2. WalkTyped'
    BY <1>1, <2>1 DEF EnterBlock, WalkInv, WalkTyped, inputVars, blockVars, lzxVars
  <2>3. WalkIsSound' /\ PatchMeansRecords' /\ ImageIsDecodedChunks'
    BY <1>8, <2>1 DEF EnterBlock, WalkIsSound, PatchMeansRecords, ImageIsDecodedChunks
  <2>4. QED
    BY <2>1, <2>2, <2>3 DEF WalkInv, AtBlock, AmongItems, InLibrary
<1>9. CASE info.matches
  <2>1. /\ step' = IF kind = "delta" THEN "record" ELSE "chunk"
        /\ outcome' = "none" /\ nextInfo' = layout[j][2] /\ cur' = p + BlockHeader
        /\ patchEnd' = p + info.size /\ p' = p /\ info' = info /\ data' = data /\ stream' = stream /\ lzx' = lzx
    BY <1>1, <1>6, <1>9 DEF EnterBlock, Go, blockVars, lzxVars
  <2>2. WalkTyped'
    <3>1. WalkTyped /\ p \in Int /\ info.size \in Nat
      BY DEF WalkInv, WalkTyped, Infos
    <3>2. cur' \in Int /\ patchEnd' \in Int
      BY <2>1, <3>1 DEF BlockHeader
    <3>3. QED
      BY <1>7, <2>1, <3>1, <3>2 DEF WalkTyped
  <2>3. Within(j, j, l)'
    <3>1. \A m \in j..j : m = j
      OBVIOUS
    <3>2. j <= j /\ j < l
      BY <1>4 DEF Block
    <3>3. QED
      BY <1>2, <1>3, <1>4, <1>5, <1>6, <1>7, <2>1, <3>1, <3>2 DEF Within
  <2>4. Matched(j)'
    <3>1. Len(layout) \in Nat
      BY <1>1, StructuresTyped
    <3>2. ASSUME NEW m \in 1..(j - 1), layout[m][2] \in Infos PROVE layout[m][2].matches
      <4>1. CASE m = i
        BY <1>2, <1>9, <4>1
      <4>2. CASE m # i
        <5>1. m \notin (i + 1)..(j - 1)
          BY <1>2, <3>2 DEF Block, Edge
        <5>2. m \in 1..(i - 1)
          BY <3>1, <4>2, <5>1
        <5>3. QED
          BY <1>2, <1>3, <3>2, <5>2 DEF Matched
      <4>3. QED
        BY <4>1, <4>2
    <3>3. Matched(j)
      BY <3>2 DEF Matched
    <3>4. QED
      BY <1>1, <3>3, FileStays
  <2>5. Done(j)'
    BY <1>2, <1>7, <2>1 DEF Done
  <2>6. AmongItems'
    BY <1>3, <1>7, <2>1, <2>3, <2>4, <2>5 DEF AmongItems
  <2>7. QED
    BY <2>1, <2>2, <2>6, GoingOn DEF WalkInv, AtBlock, InLibrary
<1>10. QED
  BY <1>8, <1>9

(* Having done all that is in it, the walk leaves a block.                 *)
LEMMA LeaveBlockInv ==
    ASSUME WalkInv, NEW from \in {"record", "chunk"}, LeaveBlock(from),
           NEW j \in 1..Len(layout), NEW k \in 1..Len(layout), NEW l \in 1..Len(layout),
           Within(j, k, l), Matched(j), Done(l)
    PROVE  WalkInv'
<1>1. UNCHANGED inputVars /\ InOrder(layout) /\ step = from /\ outcome = "none"
  BY FileOrdered DEF LeaveBlock, WalkInv, WalkTyped, Go, EndWalk
<1>2. /\ kind' = kind /\ layout' = layout /\ windowSize' = windowSize
      /\ (MovesApart' <=> MovesApart) /\ Told' = Told /\ OldData' = OldData /\ WholeMeaning' = WholeMeaning
      /\ (Matched(j)' <=> Matched(j))
  BY <1>1, FileStays
<1>3. data' = data /\ stream' = stream /\ lzx' = lzx /\ cur' = cur /\ patchEnd' = patchEnd
  BY DEF LeaveBlock, lzxVars
<1>4. CASE kind = "header"
  <2>1. step' = "returned" /\ outcome' = "Success" /\ p' = p /\ info' = info
    BY <1>4 DEF LeaveBlock, EndWalk
  <2>2. WalkTyped'
    BY <1>2, <1>3, <2>1 DEF WalkInv, WalkTyped
  <2>3. PatchMeansRecords'
    <3>1. WholeMeaning = Told[l]
      BY <1>4 DEF WholeMeaning, Told, Within
    <3>2. MovesApart => data = WholeMeaning.data
      BY <1>4, <3>1 DEF Done
    <3>3. QED
      BY <1>2, <1>3, <3>2 DEF PatchMeansRecords
  <2>4. WalkIsSound' /\ ImageIsDecodedChunks'
    BY <1>2, <1>4, <2>1 DEF WalkIsSound, ImageIsDecodedChunks
  <2>5. QED
    BY <2>1, <2>2, <2>3, <2>4 DEF WalkInv, AtBlock, AmongItems, InLibrary
<1>5. CASE kind # "header"
  <2>1. step' = "block" /\ outcome' = "none" /\ p' = layout[l][1] /\ info' = layout[j][2]
    <3>1. p + info.size = layout[l][1] /\ nextInfo = layout[j][2]
      <4>1. p = layout[j][1] /\ patchEnd = layout[l][1] /\ patchEnd = p + info.size
        BY <1>5, Zenon DEF Within
      <4>2. QED
        BY <4>1, Zenon DEF Within
    <3>2. step' = "block" /\ outcome' = outcome /\ p' = p + info.size /\ info' = nextInfo
      BY <1>5, Zenon DEF LeaveBlock, Go
    <3>3. QED
      BY <1>1, <3>1, <3>2
  <2>2. layout[j][2] \in Infos /\ layout[l][1] \in Int
    <3>1. Edge(layout[j][2]) /\ j < l
      BY DEF Within, Block
    <3>2. layout[l][1] \in Int /\ Len(layout) \in Nat /\ (j # Len(layout) => layout[j][2] # EndOfFile)
      BY <1>1, StructuresTyped, Zenon
    <3>3. j # Len(layout)
      BY <3>1, <3>2
    <3>4. QED
      BY <3>1, <3>2, <3>3 DEF Edge
  <2>3. WalkTyped'
    <3>1. WalkTyped
      BY DEF WalkInv
    <3>2. p' \in Int /\ info' \in Infos /\ step' = "block" /\ outcome' = "none"
      BY <2>1, <2>2
    <3>3. QED
      BY <1>2, <1>3, <3>1, <3>2 DEF WalkTyped
  <2>4. Done(l)'
    BY <1>2, <1>3 DEF Done
  <2>5. AtBlock'
    BY <1>2, <1>5, <2>1, <2>4 DEF AtBlock, Within
  <2>6. QED
    BY <2>1, <2>3, <2>5, GoingOn DEF WalkInv, AmongItems, InLibrary
<1>6. QED
  BY <1>4, <1>5

-----------------------------------------------------------------------------
(* A record or a chunk at the cursor is the next structure of the block.   *)
LEMMA NextItem ==
    ASSUME InOrder(layout), NEW j \in 1..Len(layout), NEW k \in 1..Len(layout), NEW l \in 1..Len(layout),
           Within(j, k, l), ItemAt(cur).kind \in {"record", "chunk"}
    PROVE  /\ k + 1 \in 1..Len(layout) /\ k + 1 < l
           /\ layout[k + 1][1] = cur /\ layout[k + 1][2] = ItemAt(cur)
           /\ ItemAt(cur) \in Records \cup Chunks /\ cur \in Int
<1>1. Len(layout) \in Nat /\ k # Len(layout)
  BY StructuresTyped DEF Within
<1>2. k + 1 \in 1..Len(layout) /\ layout[k + 1][1] = cur /\ layout[k + 1][2] = ItemAt(cur) /\ cur \in Int
  <2>1. PICK at : at = layout[k][1] + Size(layout[k][2])
    OBVIOUS
  <2>2. cur = at
    BY <2>1, Zenon DEF Within
  <2>3. /\ k + 1 \in 1..Len(layout) /\ at \in Int
        /\ at = layout[k + 1][1] => ItemAt(at) = layout[k + 1][2]
        /\ at # layout[k + 1][1] => ItemAt(at) = Lost
    BY <1>1, <2>1, ItemBehind, Zenon
  <2>4. ItemAt(cur) # Lost
    BY DEF Lost
  <2>5. QED
    BY <2>2, <2>3, <2>4, Zenon
<1>3. ItemAt(cur) \in Records \cup Chunks /\ ~Edge(layout[k + 1][2])
  BY <1>2, StructuresTyped, Kinds
<1>4. k + 1 # l /\ k + 1 <= l
  BY <1>1, <1>3 DEF Within, Block
<1>5. QED
  BY <1>1, <1>2, <1>3, <1>4

(* One that is not the end takes the cursor to what is behind it.          *)
LEMMA ItemPassed ==
    ASSUME InOrder(layout), NEW j \in 1..Len(layout), NEW k \in 1..Len(layout), NEW l \in 1..Len(layout),
           Within(j, k, l), ItemAt(cur).kind \in {"record", "chunk"}, ~Terminator(ItemAt(cur)),
           UNCHANGED <<inputVars, blockVars, patchEnd>>, cur' = cur + Size(ItemAt(cur))
    PROVE  Within(j, k + 1, l)'
<1>1. /\ k + 1 \in 1..Len(layout) /\ k + 1 < l
      /\ layout[k + 1][1] = cur /\ layout[k + 1][2] = ItemAt(cur)
  BY NextItem
<1>2. ASSUME NEW m \in j..(k + 1) PROVE ~Terminator(layout[m][2])
  <2>1. m = k + 1 \/ m \in j..k
    OBVIOUS
  <2>2. QED
    BY <1>1, <2>1 DEF Within
<1>3. kind' = kind /\ layout' = layout /\ p' = p /\ info' = info /\ nextInfo' = nextInfo /\ patchEnd' = patchEnd
  BY DEF inputVars, blockVars
<1>4. j <= k + 1
  BY DEF Within
<1>5. QED
  BY <1>1, <1>2, <1>3, <1>4 DEF Within

(* Behind the end of the items there is only the end of the block.         *)
LEMMA TerminatorEnds ==
    ASSUME WalkTyped, NEW j \in 1..Len(layout), NEW k \in 1..Len(layout), NEW l \in 1..Len(layout),
           Within(j, k, l), Done(k), Terminator(ItemAt(cur))
    PROVE  Done(l)
<1>1. InOrder(layout) /\ Len(layout) \in Nat
  BY FileOrdered, StructuresTyped
<1>2. ItemAt(cur).kind \in {"record", "chunk"}
  BY DEF Terminator, EndOfPatch, EndOfChunks
<1>3. k + 1 \in 1..Len(layout) /\ k + 1 < l /\ Terminator(layout[k + 1][2]) /\ (k + 1) - 1 = k
  <2>1. k + 1 \in 1..Len(layout) /\ k + 1 < l /\ layout[k + 1][2] = ItemAt(cur)
    BY <1>1, <1>2, NextItem
  <2>2. Terminator(layout[k + 1][2])
    BY <2>1, Zenon
  <2>3. QED
    BY <2>1, <2>2
<1>4. Done(k + 1)
  BY <1>3, TerminatorTellsNothing
<1>5. PICK n \in 1..Len(layout) : n = k + 1
  BY <1>3
<1>6. n + 1 \in 1..Len(layout) /\ Edge(layout[n + 1][2])
  <2>1. n # Len(layout) /\ Terminator(layout[n][2])
    BY <1>1, <1>3, <1>5
  <2>2. PICK at : at = layout[n][1] + Size(layout[n][2])
    OBVIOUS
  <2>3. QED
    BY <1>1, <2>1, <2>2, ItemBehind
<1>7. n + 1 = l
  BY <1>1, <1>3, <1>5, <1>6 DEF Within, Block
<1>8. Told[l].data = Told[l - 1].data /\ Told[l].chunks = Told[l - 1].chunks
  BY <1>1, <1>6, <1>7, EdgeTellsNothing
<1>9. l - 1 = k + 1
  BY <1>5, <1>7
<1>10. QED
  BY <1>4, <1>8, <1>9 DEF Done

(* Where a block's size ends the walk there is nothing more in the block.  *)
LEMMA SizeEnds ==
    ASSUME WalkTyped, NEW j \in 1..Len(layout), NEW k \in 1..Len(layout), NEW l \in 1..Len(layout),
           Within(j, k, l), Done(k), cur >= patchEnd
    PROVE  Done(l)
<1>1. InOrder(layout) /\ Len(layout) \in Nat /\ k # Len(layout)
  BY FileOrdered, StructuresTyped DEF Within
<1>2. k + 1 \in 1..Len(layout) /\ cur \in Int /\ layout[k + 1][1] \in Int /\ cur <= layout[k + 1][1]
  BY <1>1, ItemBehind DEF Within
<1>3. layout[l][1] \in Int /\ layout[l][1] <= patchEnd /\ patchEnd \in Int
  <2>1. layout[l][1] \in Int /\ patchEnd \in Int
    BY <1>1, StructuresTyped DEF WalkTyped
  <2>2. kind = "header" => layout[Len(layout)][1] <= layout[1][2].size
    BY <2>1 DEF WalkTyped, WellFormed, HeaderFormed
  <2>3. QED
    BY <2>1, <2>2 DEF Within
<1>4. k + 1 = l
  <2>1. ~(k + 1 < l)
    BY <1>1, <1>2, <1>3, StructuresApart
  <2>2. k \in Nat /\ l \in Nat /\ k < l
    BY <1>1 DEF Within
  <2>3. QED
    BY <2>1, <2>2
<1>5. Told[l].data = Told[l - 1].data /\ Told[l].chunks = Told[l - 1].chunks /\ l - 1 = k
  BY <1>1, <1>4, EdgeTellsNothing DEF Within, Block
<1>6. QED
  BY <1>5 DEF Done

LEMMA RecordsDoneInv ==
    ASSUME WalkInv, RecordsDone
    PROVE  WalkInv'
<1>1. LeaveBlock("record") /\ step = "record"
  BY DEF RecordsDone, LeaveBlock, Go, EndWalk
<1>2. PICK j, k, l \in 1..Len(layout) : Within(j, k, l) /\ Matched(j) /\ Done(k)
  BY <1>1 DEF WalkInv, AmongItems
<1>3. Done(l)
  BY <1>2, TerminatorEnds, SizeEnds DEF RecordsDone, Terminator, WalkInv
<1>4. QED
  BY <1>1, <1>2, <1>3, LeaveBlockInv

LEMMA ChunksDoneInv ==
    ASSUME WalkInv, ChunksDone
    PROVE  WalkInv'
<1>1. LeaveBlock("chunk") /\ step = "chunk"
  BY DEF ChunksDone, LeaveBlock, Go, EndWalk
<1>2. PICK j, k, l \in 1..Len(layout) : Within(j, k, l) /\ Matched(j) /\ Done(k)
  BY <1>1 DEF WalkInv, AmongItems
<1>3. Done(l)
  BY <1>2, TerminatorEnds DEF ChunksDone, Terminator, WalkInv
<1>4. QED
  BY <1>1, <1>2, <1>3, LeaveBlockInv

-----------------------------------------------------------------------------
(* Chunks and records *)

LEMMA BytesTyped ==
    ASSUME NEW at \in Int, NEW n \in Nat
    PROVE  BytesAt(at, n) \in Seq(Int) /\ Len(BytesAt(at, n)) = n
  BY DEF BytesAt

LEMMA CopyChunkInv ==
    ASSUME WalkInv, CopyChunk
    PROVE  WalkInv'
<1>1. /\ UNCHANGED <<inputVars, blockVars, patchEnd>> /\ InOrder(layout) /\ step = "chunk" /\ step' = "chunk"
      /\ outcome' = "none" /\ kind = "normal" /\ data' = data /\ lzx' = lzx
      /\ ItemAt(cur).kind = "chunk" /\ ItemAt(cur) # EndOfChunks
  BY FileOrdered DEF CopyChunk, WalkInv, WalkTyped, AmongItems, Go
<1>2. PICK j, k, l \in 1..Len(layout) : Within(j, k, l) /\ Matched(j) /\ Done(k)
  BY <1>1 DEF WalkInv, AmongItems
<1>3. PICK n \in 1..Len(layout) : n = k + 1 /\ layout[n][1] = cur /\ layout[n][2] = ItemAt(cur) /\ cur \in Int
  BY <1>1, <1>2, NextItem
<1>4. /\ ItemAt(cur) \in Chunks /\ ItemAt(cur).length \in Nat /\ Size(ItemAt(cur)) = ChunkHeader + ItemAt(cur).length
      /\ ~Terminator(ItemAt(cur))
  <2>1. ItemAt(cur) \in Chunks
    BY <1>1, <1>3, StructuresTyped, Kinds
  <2>2. QED
    BY <1>1, <2>1 DEF Chunks, Size, Terminator, EndOfPatch
<1>5. cur' = cur + Size(ItemAt(cur)) /\ cur' \in Int
  <2>1. PICK length \in Nat : length = ItemAt(cur).length
    BY <1>4
  <2>2. cur' = cur + ChunkHeader + length /\ Size(ItemAt(cur)) = ChunkHeader + length
    BY <1>4, <2>1 DEF CopyChunk
  <2>3. PICK from \in Int : from = cur
    BY <1>3
  <2>4. from + ChunkHeader + length = from + (ChunkHeader + length) /\ from + ChunkHeader + length \in Int
    BY DEF ChunkHeader
  <2>5. QED
    BY <2>2, <2>3, <2>4
<1>6. Within(j, n, l)'
  BY <1>1, <1>2, <1>3, <1>4, <1>5, ItemPassed
<1>7. /\ kind' = kind /\ layout' = layout /\ windowSize' = windowSize
      /\ Told' = Told /\ OldData' = OldData /\ (Matched(j)' <=> Matched(j))
  BY <1>1, FileStays
<1>8. stream' = Told[n].chunks /\ stream' \in Seq(Int)
  <2>1. stream = Told[k].chunks /\ stream \in Seq(Int)
    BY <1>1, <1>2 DEF Done, WalkInv, WalkTyped
  <2>2. stream' = stream \o BytesAt(cur + ChunkHeader, ItemAt(cur).length)
    BY DEF CopyChunk
  <2>3. Told[n].chunks = Told[n - 1].chunks \o BytesAt(cur + ChunkHeader, ItemAt(cur).length)
    BY <1>1, <1>3, <1>4, ToldStep, Zenon
  <2>4. n - 1 = k
    BY <1>3
  <2>5. BytesAt(cur + ChunkHeader, ItemAt(cur).length) \in Seq(Int)
    <3>1. cur + ChunkHeader \in Int
      BY <1>3 DEF ChunkHeader
    <3>2. QED
      BY <1>4, <3>1, BytesTyped
  <2>6. stream' = Told[n].chunks
    BY <2>1, <2>2, <2>3, <2>4, Zenon
  <2>7. stream' \in Seq(Int)
    BY <2>1, <2>2, <2>5
  <2>8. QED
    BY <2>6, <2>7
<1>9. Done(n)'
  BY <1>1, <1>2, <1>7, <1>8 DEF Done
<1>10. WalkTyped'
  BY <1>1, <1>5, <1>7, <1>8 DEF WalkInv, WalkTyped, blockVars
<1>11. AmongItems'
  BY <1>1, <1>2, <1>6, <1>7, <1>9 DEF AmongItems
<1>12. QED
  BY <1>1, <1>10, <1>11, GoingOn DEF WalkInv, AtBlock, InLibrary

(* What all kinds of records have in common.                               *)
LEMMA RecordRead ==
    ASSUME WalkInv, AtRecord
    PROVE  /\ InOrder(layout) /\ kind # "normal" /\ step = "record" /\ outcome = "none" /\ cur \in Int
           /\ ItemAt(cur) \in Records /\ ~Terminator(ItemAt(cur)) /\ ItemAt(cur).kind = "record"
           /\ Behind(ItemAt(cur).compressedLength) = cur + Size(ItemAt(cur))
           /\ Behind(ItemAt(cur).compressedLength) \in Int
           /\ \E j, k, l \in 1..Len(layout) :
                 /\ Within(j, k, l) /\ Matched(j) /\ Done(k)
                 /\ k + 1 \in 1..Len(layout) /\ layout[k + 1][1] = cur /\ layout[k + 1][2] = ItemAt(cur)
                 /\ Told[k + 1].data = Applied(Told[k].data, <<cur, ItemAt(cur)>>, windowSize)
<1>1. InOrder(layout) /\ kind # "normal" /\ step = "record" /\ outcome = "none" /\ cur \in Int
  BY FileOrdered DEF AtRecord, WalkInv, WalkTyped, AmongItems
<1>2. PICK j, k, l \in 1..Len(layout) : Within(j, k, l) /\ Matched(j) /\ Done(k)
  BY <1>1 DEF WalkInv, AmongItems
<1>3. ItemAt(cur).kind = "record" /\ ItemAt(cur) # EndOfPatch
  BY DEF AtRecord
<1>4. PICK n \in 1..Len(layout) : n = k + 1 /\ layout[n][1] = cur /\ layout[n][2] = ItemAt(cur)
  BY <1>1, <1>2, <1>3, NextItem
<1>5. ItemAt(cur) \in Records
  BY <1>1, <1>3, <1>4, StructuresTyped, Kinds
<1>6. ~Terminator(ItemAt(cur))
  BY <1>3 DEF Terminator, EndOfChunks
<1>7. /\ Behind(ItemAt(cur).compressedLength) = cur + Size(ItemAt(cur))
      /\ Behind(ItemAt(cur).compressedLength) \in Int
  <2>1. PICK length \in Nat, from \in Int : length = ItemAt(cur).compressedLength /\ from = cur
    <3>1. ItemAt(cur).compressedLength \in Nat
      BY <1>5 DEF Records
    <3>2. PICK length \in Nat : length = ItemAt(cur).compressedLength
      BY <3>1
    <3>3. QED
      BY <1>1, <3>2
  <2>2. Size(ItemAt(cur)) = IF length > 1 THEN RecordHeader + length ELSE RecordHeader
    BY <1>3, <2>1 DEF Size
  <2>3. Behind(length) = from + RecordStruct + (IF length > 1 THEN length - 4 ELSE -4)
    BY <2>1 DEF Behind
  <2>4. PICK size \in Nat : size = IF length > 1 THEN RecordHeader + length ELSE RecordHeader
    BY DEF RecordHeader
  <2>5. Behind(length) = from + size /\ Behind(length) \in Int
    BY <2>3, <2>4 DEF RecordHeader, RecordStruct
  <2>6. QED
    BY <2>1, <2>2, <2>4, <2>5
<1>8. Told[n].data = Applied(Told[k].data, <<cur, ItemAt(cur)>>, windowSize)
  <2>1. Told[n].data = Applied(Told[n - 1].data, layout[n], windowSize)
    BY <1>1, <1>4, <1>5, ToldStep, Zenon
  <2>2. Applied(Told[n - 1].data, layout[n], windowSize) = Applied(Told[n - 1].data, <<cur, ItemAt(cur)>>, windowSize)
    BY <1>4 DEF Applied
  <2>3. n - 1 = k
    BY <1>4
  <2>4. QED
    BY <2>1, <2>2, <2>3
<1>9. QED
  BY <1>1, <1>2, <1>3, <1>4, <1>5, <1>6, <1>7, <1>8

(* A record without a payload is done in one step.                         *)
LEMMA RecordDone ==
    ASSUME WalkInv, AtRecord, cur' = Behind(ItemAt(cur).compressedLength),
           UNCHANGED <<inputVars, step, blockVars, patchEnd, lzxVars, libraryFailed, outcome>>,
           DOMAIN data' = DOMAIN data, data' = [a \in DOMAIN data |-> data'[a]],
           MovesApart => data' = Applied(data, <<cur, ItemAt(cur)>>, windowSize)
    PROVE  WalkInv'
<1>1. /\ InOrder(layout) /\ kind # "normal" /\ step = "record" /\ outcome = "none"
      /\ ~Terminator(ItemAt(cur)) /\ ItemAt(cur).kind = "record"
      /\ cur' = cur + Size(ItemAt(cur)) /\ cur' \in Int
  BY RecordRead, Zenon
<1>2. PICK j, k, l \in 1..Len(layout) :
         /\ Within(j, k, l) /\ Matched(j) /\ Done(k) /\ k + 1 \in 1..Len(layout)
         /\ Told[k + 1].data = Applied(Told[k].data, <<cur, ItemAt(cur)>>, windowSize)
  BY RecordRead, Zenon
<1>3. Within(j, k + 1, l)'
  BY <1>1, <1>2, ItemPassed
<1>4. /\ kind' = kind /\ layout' = layout /\ windowSize' = windowSize
      /\ Told' = Told /\ OldData' = OldData /\ (MovesApart' <=> MovesApart) /\ (Matched(j)' <=> Matched(j))
  BY FileStays
<1>5. Done(k + 1)'
  BY <1>1, <1>2, <1>4 DEF Done
<1>6. WalkTyped'
  <2>1. DOMAIN data' = 0..(DataSize - 1) /\ data' = [a \in 0..(DataSize - 1) |-> data'[a]]
    BY DEF WalkInv, WalkTyped
  <2>2. QED
    BY <1>1, <1>4, <2>1 DEF WalkInv, WalkTyped, blockVars, lzxVars
<1>7. AmongItems'
  BY <1>1, <1>2, <1>3, <1>4, <1>5 DEF AmongItems
<1>8. QED
  BY <1>1, <1>6, <1>7, GoingOn DEF WalkInv, AtBlock, InLibrary

LEMMA ZeroDataInv ==
    ASSUME WalkInv, ZeroData
    PROVE  WalkInv'
<1>1. AtRecord /\ ItemAt(cur).compressedLength = 0 /\ cur' = Behind(ItemAt(cur).compressedLength)
  BY DEF ZeroData
<1>2. UNCHANGED <<inputVars, step, blockVars, patchEnd, lzxVars, libraryFailed, outcome>>
  BY DEF ZeroData
<1>3. DOMAIN data' = DOMAIN data /\ data' = [a \in DOMAIN data |-> data'[a]]
  BY DEF ZeroData
<1>4. data' = Applied(data, <<cur, ItemAt(cur)>>, windowSize)
  <2>1. PICK r : r = ItemAt(cur)
    OBVIOUS
  <2>2. data' = [a \in DOMAIN data |->
                    IF a \in Span(r.newAddress, r.uncompressedLength) THEN <<"zero">> ELSE data[a]]
    BY <2>1 DEF ZeroData
  <2>3. QED
    BY <1>1, <2>1, <2>2 DEF Applied
<1>5. QED
  BY <1>1, <1>2, <1>3, <1>4, RecordDone

LEMMA MoveDataInv ==
    ASSUME WalkInv, MoveData
    PROVE  WalkInv'
<1>1. AtRecord /\ ItemAt(cur).compressedLength = 1 /\ cur' = Behind(ItemAt(cur).compressedLength)
  BY DEF MoveData
<1>2. UNCHANGED <<inputVars, step, blockVars, patchEnd, lzxVars, libraryFailed, outcome>>
  BY DEF MoveData
<1>3. DOMAIN data' = DOMAIN data /\ data' = [a \in DOMAIN data |-> data'[a]]
  BY DEF MoveData
<1>4. ASSUME MovesApart PROVE data' = Applied(data, <<cur, ItemAt(cur)>>, windowSize)
  <2>1. PICK r : r = ItemAt(cur)
    OBVIOUS
  <2>2. ~Overlapping(r)
    <3>1. PICK k : k + 1 \in 1..Len(layout) /\ layout[k + 1][2] = r
      BY <1>1, <2>1, RecordRead
    <3>2. r \in Records
      BY <1>1, <2>1, RecordRead
    <3>3. QED
      BY <1>1, <1>4, <2>1, <3>1, <3>2 DEF MovesApart
  <2>3. data' = [a \in DOMAIN data |->
                    IF a \notin Span(r.newAddress, r.uncompressedLength) THEN data[a]
                    ELSE data[r.oldAddress + (a - r.newAddress)]]
    BY <2>1, <2>2 DEF MoveData
  <2>4. QED
    BY <1>1, <2>1, <2>3 DEF Applied
<1>5. QED
  BY <1>1, <1>2, <1>3, <1>4, RecordDone

LEMMA PieceLength ==
    ASSUME NEW bytes, NEW at, NEW n \in Nat
    PROVE  Len(Piece(bytes, at, n)) = n
  BY DEF Piece

LEMMA DecompressDataInv ==
    ASSUME WalkInv, DecompressData
    PROVE  WalkInv'
<1> PICK r : r = ItemAt(cur)
  OBVIOUS
<1>1. AtRecord /\ r.compressedLength > 1 /\ cur' = Behind(ItemAt(cur).compressedLength)
  BY DEF DecompressData
<1>2. /\ UNCHANGED <<inputVars, blockVars, patchEnd, data, libraryFailed>>
      /\ stream' = BytesAt(cur + RecordHeader, r.compressedLength)
      /\ lzx' = [at |-> r.newAddress, length |-> r.uncompressedLength,
                 window |-> Piece(data, r.oldAddress, r.uncompressedLength), hasWindow |-> TRUE]
      /\ consumed' = <<>> /\ written' = 0
      /\ step' = "lzxDecompress" /\ outcome' = outcome
  BY DEF DecompressData, StartLzx, Go
<1>3. /\ InOrder(layout) /\ kind # "normal" /\ step = "record" /\ outcome = "none" /\ cur \in Int
      /\ ~Terminator(ItemAt(cur)) /\ ItemAt(cur).kind = "record" /\ r \in Records
      /\ cur' = cur + Size(ItemAt(cur)) /\ cur' \in Int
  BY <1>1, RecordRead, Zenon
<1>4. PICK j, k, l \in 1..Len(layout) :
         /\ Within(j, k, l) /\ Matched(j) /\ Done(k)
         /\ k + 1 \in 1..Len(layout) /\ layout[k + 1][1] = cur /\ layout[k + 1][2] = r
  BY <1>1, RecordRead, Zenon
<1>5. PICK n \in 1..Len(layout) : n = k + 1 /\ n - 1 = k /\ j < n /\ layout[n][1] = cur /\ layout[n][2] = r
  BY <1>4 DEF Within
<1>6. Within(j, n, l)'
  BY <1>2, <1>3, <1>4, <1>5, ItemPassed
<1>7. /\ kind' = kind /\ layout' = layout /\ windowSize' = windowSize
      /\ Told' = Told /\ OldData' = OldData /\ (MovesApart' <=> MovesApart) /\ (Matched(j)' <=> Matched(j))
  BY <1>2, FileStays
<1>8. /\ r.compressedLength \in Nat /\ r.uncompressedLength \in Nat /\ r.oldAddress \in Nat
      /\ r.newAddress \in Nat
  BY <1>3 DEF Records
<1>9. stream' \in Seq(Int)
  <2>1. cur + RecordHeader \in Int
    BY <1>3 DEF RecordHeader
  <2>2. QED
    BY <1>2, <1>8, <2>1, BytesTyped
<1>10. WalkTyped'
  BY <1>2, <1>3, <1>7, <1>9 DEF WalkInv, WalkTyped, blockVars
<1>11. /\ lzx'.at = r.newAddress /\ lzx'.length = r.uncompressedLength /\ lzx'.hasWindow
       /\ lzx'.window = Piece(data, r.oldAddress, r.uncompressedLength)
  BY <1>2
<1>12. Len(lzx'.window) = r.uncompressedLength
  BY <1>8, <1>11, PieceLength
<1>13. ASSUME MovesApart
       PROVE  Writing(Told[n - 1].data)' /\ lzx'.window = Piece(Told[n - 1].data, r.oldAddress, r.uncompressedLength)
  <2>1. data = Told[n - 1].data
    BY <1>3, <1>4, <1>5, <1>13 DEF Done
  <2>2. DOMAIN data = 0..(DataSize - 1) /\ data = [a \in 0..(DataSize - 1) |-> data[a]]
    BY DEF WalkInv, WalkTyped
  <2>3. \A a \in 0..(DataSize - 1) : a \notin Span(lzx'.at, written')
    BY <1>2, <1>8, <1>11 DEF Span
  <2>4. data' = data /\ (Told[n - 1].data)' = Told[n - 1].data
    BY <1>2, <1>7
  <2>5. Writing(Told[n - 1].data)'
    BY <2>1, <2>2, <2>3, <2>4 DEF Writing
  <2>6. QED
    BY <1>11, <2>1, <2>5, Zenon
<1>14. InRecord(j, n, l)'
  <2>1. stream' = BytesAt(layout[n][1] + RecordHeader, layout[n][2].compressedLength)
    BY <1>2, <1>5
  <2>2. /\ layout'[n][2] = r /\ layout'[n][1] = cur
        /\ (MovesApart' => Writing(Told[n - 1].data)'
                           /\ lzx'.window = Piece(Told'[n - 1].data, r.oldAddress, r.uncompressedLength))
    BY <1>5, <1>7, <1>13
  <2>3. QED
    BY <1>1, <1>2, <1>3, <1>4, <1>5, <1>6, <1>7, <1>11, <1>12, <2>1, <2>2 DEF InRecord
<1>15. InLibrary'
  <2>1. consumed' \in Seq(Int) /\ Len(consumed') = 0 /\ Len(stream') \in Nat
        /\ consumed' = SubSeq(stream', 1, Len(consumed'))
    BY <1>2, <1>9
  <2>2. lzx'.at \in Nat /\ lzx'.length \in Nat /\ written' \in 0..lzx'.length
    BY <1>2, <1>8, <1>11
  <2>3. \E a, b, c \in 1..Len(layout') : InRecord(a, b, c)'
    BY <1>7, <1>14
  <2>4. QED
    BY <1>2, <1>3, <1>7, <2>1, <2>2, <2>3 DEF InLibrary
<1>16. QED
  BY <1>2, <1>3, <1>10, <1>15, GoingOn DEF WalkInv, AtBlock, AmongItems

(* No cursor of a patch block loses track, and none does in a block whose  *)
(* items have an end.                                                      *)
LEMMA LoseTrackInv ==
    ASSUME WalkInv, LoseTrack
    PROVE  WalkInv'
<1>1. /\ UNCHANGED <<inputVars, blockVars, cur, patchEnd, data, lzxVars, libraryFailed, outcome>>
      /\ step' = "lost" /\ step \in {"record", "chunk"} /\ InOrder(layout) /\ outcome = "none"
      /\ kind \in {"header", "delta", "normal"} /\ Len(layout) \in Nat
  BY FileOrdered, StructuresTyped DEF LoseTrack, WalkInv, WalkTyped
<1>2. PICK j, k, l \in 1..Len(layout) : Within(j, k, l) /\ Matched(j) /\ Done(k)
  BY <1>1 DEF WalkInv, AmongItems
<1>3. /\ k # Len(layout) /\ j <= k /\ k < l /\ Block(layout, j, l)
      /\ \A m \in j..k : ~Terminator(layout[m][2])
      /\ cur = layout[k][1] + Size(layout[k][2])
  BY <1>1, <1>2 DEF Within
<1>4. PICK n \in 1..Len(layout) : n = k + 1
  BY <1>1, <1>3
<1>5. /\ layout[n][1] \in Int /\ cur \in Int
      /\ cur = layout[n][1] => ItemAt(cur) = layout[n][2]
      /\ cur # layout[n][1] => Edge(layout[n][2])
  BY <1>1, <1>3, <1>4, ItemBehind
<1>6. WellFormed([kind |-> kind, layout |-> layout])
  BY DEF WalkInv, WalkTyped
<1>7. n = l
  <2>1. SUFFICES ASSUME ~Edge(layout[n][2]) PROVE FALSE
    BY <1>1, <1>3, <1>4 DEF Block
  <2>2. ItemAt(cur) = layout[n][2]
    BY <1>5, <2>1
  <2>3. n \in 2..(Len(layout) - 1)
    BY <1>1, <1>4, <2>1, StructuresTyped
  <2>4. layout[n][2] \in Structures /\ layout[n][2] \notin Infos
    BY <2>1, <1>1, StructuresTyped DEF Edge
  <2>5. CASE kind = "normal"
    <3>1. layout[n][2].kind = "chunk"
      BY <1>6, <2>3, <2>4, <2>5, Kinds DEF WellFormed
    <3>2. step = "chunk"
      BY <1>1, <2>5 DEF WalkInv, AmongItems
    <3>3. QED
      BY <2>2, <3>1, <3>2 DEF LoseTrack
  <2>6. CASE kind # "normal"
    <3>1. layout[n][2].kind = "record"
      BY <1>6, <2>3, <2>4, <2>6, Kinds DEF WellFormed, HeaderFormed
    <3>2. step = "record"
      BY <1>1, <2>6 DEF WalkInv, AmongItems
    <3>3. QED
      BY <2>2, <3>1, <3>2 DEF LoseTrack
  <2>7. QED
    BY <2>5, <2>6
<1>8. kind # "delta"
  <2>1. SUFFICES ASSUME kind = "delta" PROVE FALSE
    OBVIOUS
  <2>2. step = "record" /\ cur < patchEnd /\ patchEnd = layout[n][1]
    BY <1>1, <1>2, <1>7, <2>1 DEF WalkInv, AmongItems, LoseTrack, Within
  <2>3. cur # layout[n][1]
    BY <1>5, <2>2
  <2>4. layout[k][2] = EndOfPatch
    <3>1. k \in 1..(Len(layout) - 1)
      BY <1>1, <1>3
    <3>2. \A i \in 1..(Len(layout) - 1) :
             layout[i][2] # EndOfPatch => layout[i][1] + Size(layout[i][2]) = layout[i + 1][1]
      BY <1>6, <2>1 DEF WellFormed
    <3>3. QED
      BY <1>3, <1>4, <2>3, <3>1, <3>2
  <2>5. k \in j..k
    BY <1>3
  <2>6. QED
    BY <1>3, <2>4, <2>5 DEF Terminator
<1>9. ASSUME NEW m \in 1..Len(layout), layout[m][1] \in Span(p, info.size), Terminator(layout[m][2])
      PROVE  FALSE
  <2>1. layout[m][1] \in Int /\ layout[j][1] \in Int /\ layout[l][1] \in Int /\ m # l
    BY <1>1, <1>3, <1>9, StructuresTyped, Kinds DEF Block
  <2>2. p \in Int /\ info.size \in Nat
    BY DEF WalkInv, WalkTyped, Infos
  <2>3. p <= layout[m][1] /\ layout[m][1] < p + info.size
    <3>1. PICK a \in Int, from \in Int, size \in Nat : a = layout[m][1] /\ from = p /\ size = info.size
      BY <2>1, <2>2
    <3>2. a \in Span(from, size) => from <= a /\ a < from + size
      BY DEF Span
    <3>3. QED
      BY <1>9, <3>1, <3>2
  <2>4. j <= m /\ m <= l
    <3>1. CASE kind = "header"
      BY <1>1, <1>2, <3>1 DEF Within
    <3>2. CASE kind # "header"
      <4>1. layout[j][1] <= layout[m][1] /\ layout[m][1] < layout[l][1]
        BY <1>2, <2>3, <3>2 DEF Within
      <4>2. ~(m < j) /\ ~(l < m)
        BY <1>1, <2>1, <4>1, StructuresApart
      <4>3. QED
        BY <1>1, <4>2
    <3>3. QED
      BY <3>1, <3>2
  <2>5. m \in j..k
    BY <1>1, <1>4, <1>7, <2>1, <2>4
  <2>6. QED
    BY <1>3, <1>9, <2>5
<1>10. WalkIsSound'
  <2>1. kind' = kind /\ layout' = layout /\ p' = p /\ info' = info /\ outcome' = "none"
    BY <1>1 DEF inputVars, blockVars
  <2>2. QED
    BY <1>1, <1>8, <1>9, <2>1 DEF WalkIsSound
<1>11. WalkTyped'
  BY <1>1 DEF WalkInv, WalkTyped, inputVars, blockVars, lzxVars
<1>12. PatchMeansRecords' /\ ImageIsDecodedChunks'
  BY <1>1 DEF PatchMeansRecords, ImageIsDecodedChunks
<1>13. QED
  BY <1>1, <1>10, <1>11, <1>12 DEF WalkInv, AtBlock, AmongItems, InLibrary

-----------------------------------------------------------------------------
(* lzxDecompress *)

(* As long as the library runs, the walk stays where it is.                *)
LEMMA WalkRests ==
    ASSUME UNCHANGED <<inputVars, blockVars, cur, patchEnd, stream>>,
           lzx'.at = lzx.at, lzx'.length = lzx.length, lzx'.hasWindow = lzx.hasWindow
    PROVE  /\ \A j, k, l : Within(j, k, l)' <=> Within(j, k, l)
           /\ \A j, k, l :
                 /\ InRecord(j, k, l)
                 /\ step' # "lzxDecompress"
                 /\ MovesApart =>
                       /\ Writing(Told[k - 1].data)'
                       /\ LET old == Piece(Told[k - 1].data, layout[k][2].oldAddress,
                                           layout[k][2].uncompressedLength) IN
                          lzx'.window = IF step' = "lzx" THEN PaddedWindow(old, windowSize) ELSE old
                 => InRecord(j, k, l)'
           /\ /\ InImage /\ Writing(OldData)'
              /\ lzx'.window = IF step' = "lzx" THEN EmptyWindow ELSE <<>>
              => InImage'
<1>1. /\ kind' = kind /\ layout' = layout /\ windowSize' = windowSize
      /\ Told' = Told /\ OldData' = OldData /\ WholeMeaning' = WholeMeaning
      /\ (MovesApart' <=> MovesApart) /\ (AllMatched' <=> AllMatched)
      /\ \A j : Matched(j)' <=> Matched(j)
  BY FileStays
<1>2. ASSUME NEW j, NEW k, NEW l PROVE Within(j, k, l)' <=> Within(j, k, l)
  BY <1>1, Zenon DEF Within, blockVars
<1>3. ASSUME NEW j, NEW k, NEW l,
             InRecord(j, k, l), step' # "lzxDecompress",
             MovesApart =>
                /\ Writing(Told[k - 1].data)'
                /\ LET old == Piece(Told[k - 1].data, layout[k][2].oldAddress,
                                    layout[k][2].uncompressedLength) IN
                   lzx'.window = IF step' = "lzx" THEN PaddedWindow(old, windowSize) ELSE old
      PROVE  InRecord(j, k, l)'
  <2>1. Within(j, k, l)' /\ Matched(j)'
    BY <1>1, <1>2, <1>3 DEF InRecord
  <2>2. stream' = stream
    OBVIOUS
  <2>3. QED
    BY <1>1, <1>3, <2>1, <2>2 DEF InRecord
<1>4. /\ InImage /\ Writing(OldData)'
      /\ lzx'.window = IF step' = "lzx" THEN EmptyWindow ELSE <<>>
      => InImage'
  BY <1>1, FileStays, Zenon DEF InImage
<1>5. QED
  BY <1>2, <1>3, <1>4

LEMMA OpenLzxInv ==
    ASSUME WalkInv, OpenLzx
    PROVE  WalkInv'
<1> DEFINE Refused  == windowSize = 0 \/ LowestBit(windowSize) \notin LibraryBits
           TooLarge == lzx.hasWindow /\ (Len(lzx.window) > windowSize \/ windowSize # LibraryWindow)
<1>1. /\ UNCHANGED <<inputVars, blockVars, cur, patchEnd, data, stream, consumed, written, libraryFailed>>
      /\ step = "lzxDecompress" /\ outcome = "none"
      /\ kind' = kind /\ layout' = layout /\ windowSize' = windowSize
  BY DEF OpenLzx, WalkInv, WalkTyped, Go, EndWalk, inputVars
<1>2. WalkTyped /\ InLibrary /\ consumed = <<>> /\ written = 0
  BY <1>1 DEF WalkInv, InLibrary
<1>3. CASE Refused
  <2>1. step' = "returned" /\ outcome' = "PatchFailed" /\ lzx' = lzx
    BY <1>3 DEF OpenLzx, EndWalk
  <2>2. WalkTyped'
    BY <1>1, <1>2, <2>1 DEF WalkTyped, blockVars
  <2>3. WalkIsSound' /\ PatchMeansRecords' /\ ImageIsDecodedChunks'
    BY <1>1, <1>3, <2>1 DEF WalkIsSound, PatchMeansRecords, ImageIsDecodedChunks
  <2>4. QED
    BY <2>1, <2>2, <2>3 DEF WalkInv, AtBlock, AmongItems, InLibrary
<1>4. CASE ~Refused /\ TooLarge
  <2>1. step' = "overrun" /\ outcome' = "none" /\ lzx' = lzx
    BY <1>1, <1>4 DEF OpenLzx, Go
  <2>2. WalkTyped'
    BY <1>1, <1>2, <2>1 DEF WalkTyped, blockVars
  <2>3. kind # "normal"
    BY <1>1, <1>2, <1>4 DEF InLibrary, InImage
  <2>4. PICK j, k, l \in 1..Len(layout) : InRecord(j, k, l)
    BY <1>1, <1>2, <2>3 DEF InLibrary
  <2>5. /\ layout[k][2] \in Records /\ layout[k][2].compressedLength > 1
        /\ layout[k][2].uncompressedLength > windowSize \/ windowSize # LibraryWindow
    BY <1>1, <1>4, <2>4 DEF InRecord
  <2>6. LibraryWindow' = LibraryWindow
    BY <1>1, FileStays
  <2>7. WalkIsSound' /\ PatchMeansRecords' /\ ImageIsDecodedChunks'
    BY <1>1, <2>1, <2>5, <2>6 DEF WalkIsSound, PatchMeansRecords, ImageIsDecodedChunks
  <2>8. QED
    BY <2>1, <2>2, <2>7 DEF WalkInv, AtBlock, AmongItems, InLibrary
<1>5. CASE ~Refused /\ ~TooLarge
  <2>1. /\ step' = "lzx" /\ outcome' = "none"
        /\ lzx' = [lzx EXCEPT !.window = PaddedWindow(lzx.window, LibraryWindow)]
    BY <1>1, <1>5 DEF OpenLzx, Go
  <2>2. /\ lzx'.at = lzx.at /\ lzx'.length = lzx.length /\ lzx'.hasWindow = lzx.hasWindow
        /\ lzx'.window = PaddedWindow(lzx.window, LibraryWindow)
        /\ lzx' = [at |-> lzx'.at, length |-> lzx'.length, window |-> lzx'.window, hasWindow |-> lzx'.hasWindow]
    <3> PICK w : w = PaddedWindow(lzx.window, LibraryWindow)
      OBVIOUS
    <3>1. lzx = [at |-> lzx.at, length |-> lzx.length, window |-> lzx.window, hasWindow |-> lzx.hasWindow]
      BY <1>2 DEF WalkTyped
    <3>2. lzx' = [at |-> lzx.at, length |-> lzx.length, window |-> w, hasWindow |-> lzx.hasWindow]
      BY <2>1, <3>1
    <3>3. QED
      BY <3>2
  <2>3. WalkTyped'
    BY <1>1, <1>2, <2>1, <2>2 DEF WalkTyped, blockVars
  <2>4. ASSUME NEW before, before' = before, Writing(before) PROVE Writing(before)'
    <3>1. \A a : a \notin Span(lzx.at, 0)
      BY <1>1, <1>2 DEF Span, InLibrary
    <3>2. data = [a \in 0..(DataSize - 1) |-> before[a]]
      BY <1>2, <2>4, <3>1 DEF Writing
    <3>3. data' = data /\ written' = 0 /\ lzx'.at = lzx.at
      BY <1>1, <1>2, <2>2
    <3>4. QED
      BY <2>4, <3>1, <3>2, <3>3 DEF Writing
  <2>5. Told' = Told /\ OldData' = OldData
    BY <1>1, FileStays
  <2>6. /\ lzx'.at \in Nat /\ lzx'.length \in Nat /\ written' \in 0..lzx'.length
        /\ consumed' \in Seq(Int) /\ Len(consumed') <= Len(stream')
        /\ consumed' = SubSeq(stream', 1, Len(consumed'))
    <3>1. /\ lzx.at \in Nat /\ lzx.length \in Nat /\ written \in 0..lzx.length
          /\ consumed \in Seq(Int) /\ Len(consumed) <= Len(stream)
          /\ consumed = SubSeq(stream, 1, Len(consumed))
      BY <1>1, <1>2 DEF InLibrary
    <3>2. written' = written /\ consumed' = consumed /\ stream' = stream
      BY <1>1
    <3>3. QED
      BY <2>2, <3>1, <3>2
  <2>7. ASSUME kind = "normal" PROVE InLibrary'
    <3>1. InImage /\ ~lzx.hasWindow
      BY <1>1, <1>2, <2>7 DEF InLibrary, InImage
    <3>2. Writing(OldData)' /\ lzx'.window = EmptyWindow
      BY <1>1, <2>2, <2>4, <2>5, <3>1 DEF InImage, EmptyWindow
    <3>3. InImage'
      BY <1>1, <2>1, <2>2, <3>1, <3>2, WalkRests
    <3>4. QED
      BY <1>1, <2>1, <2>7, <2>6, <3>3 DEF InLibrary
  <2>8. ASSUME kind # "normal" PROVE InLibrary'
    <3>1. PICK j, k, l \in 1..Len(layout) : InRecord(j, k, l)
      BY <1>1, <1>2, <2>8 DEF InLibrary
    <3>2. ASSUME MovesApart
          PROVE  /\ Writing(Told[k - 1].data)'
                 /\ lzx'.window = PaddedWindow(Piece(Told[k - 1].data, layout[k][2].oldAddress,
                                                     layout[k][2].uncompressedLength), windowSize)
      <4>1. Writing(Told[k - 1].data)
        BY <3>1, <3>2 DEF InRecord
      <4>2. Writing(Told[k - 1].data)'
        <5> PICK before : before = Told[k - 1].data
          OBVIOUS
        <5>1. before' = before /\ (Told[k - 1].data)' = before
          BY <2>5
        <5>2. QED
          BY <2>4, <4>1, <5>1
      <4>3. lzx.window = Piece(Told[k - 1].data, layout[k][2].oldAddress, layout[k][2].uncompressedLength)
        BY <1>1, <3>1, <3>2 DEF InRecord
      <4>4. lzx'.window = PaddedWindow(lzx.window, windowSize)
        BY <1>5, <2>2, <3>1 DEF InRecord
      <4>5. QED
        BY <4>2, <4>3, <4>4
    <3>3. InRecord(j, k, l)'
      BY <1>1, <2>1, <2>2, <3>1, <3>2, WalkRests
    <3>4. QED
      BY <1>1, <2>1, <2>8, <2>6, <3>3 DEF InLibrary
  <2>9. QED
    BY <2>1, <2>3, <2>7, <2>8, GoingOn DEF WalkInv, AtBlock, AmongItems
<1>6. QED
  BY <1>3, <1>4, <1>5

LEMMA PrefixGrows ==
    ASSUME NEW s \in Seq(Int), NEW m \in Nat, NEW n \in Nat, m + n <= Len(s)
    PROVE  /\ SubSeq(s, 1, m) \o SubSeq(s, m + 1, m + n) = SubSeq(s, 1, m + n)
           /\ SubSeq(s, 1, m + n) \in Seq(Int) /\ Len(SubSeq(s, 1, m + n)) = m + n
  OBVIOUS

(* What the library has read is always what comes first in the stream.     *)
LEMMA ReadInv ==
    ASSUME WalkInv, NEW chars \in 1..2, Len(consumed) < Len(stream), mspack_memory_read(chars)
    PROVE  WalkInv'
<1>1. /\ UNCHANGED <<inputVars, blockVars, cur, patchEnd, data, stream, lzx, written, libraryFailed>>
      /\ step = "lzx" /\ step' = "lzx" /\ outcome = "none" /\ outcome' = "none"
      /\ kind' = kind /\ layout' = layout /\ windowSize' = windowSize
  BY DEF mspack_memory_read, WalkInv, WalkTyped, Go, inputVars
<1>2. WalkTyped /\ InLibrary
  BY DEF WalkInv
<1>3. stream \in Seq(Int) /\ consumed \in Seq(Int) /\ Len(consumed) \in Nat /\ Len(stream) \in Nat
  BY <1>1, <1>2 DEF WalkTyped, InLibrary
<1>4. PICK m \in Nat, n \in Nat :
         /\ m = Len(consumed) /\ m + n <= Len(stream)
         /\ consumed' = consumed \o SubSeq(stream, m + 1, m + n)
  <2>1. PICK m \in Nat, full \in Nat : m = Len(consumed) /\ full = Len(stream) /\ m <= full
    BY <1>1, <1>2, <1>3 DEF InLibrary
  <2>2. PICK remaining \in Nat : remaining = full - m
    BY <2>1
  <2>3. PICK total \in Nat : total = (IF chars < remaining THEN chars ELSE remaining) /\ total <= remaining
    <3>1. CASE chars < remaining
      BY <2>2, <3>1
    <3>2. CASE ~(chars < remaining)
      BY <2>2, <3>2
    <3>3. QED
      BY <3>1, <3>2
  <2>4. consumed' = consumed \o SubSeq(stream, m + 1, m + total)
    BY <2>1, <2>2, <2>3 DEF mspack_memory_read
  <2>5. m + total <= full
    BY <2>2, <2>3
  <2>6. QED
    BY <2>1, <2>4, <2>5
<1>5. /\ consumed' = SubSeq(stream, 1, m + n) /\ consumed' \in Seq(Int) /\ Len(consumed') = m + n
  <2>1. consumed = SubSeq(stream, 1, m)
    BY <1>1, <1>2, <1>4 DEF InLibrary
  <2>2. /\ SubSeq(stream, 1, m) \o SubSeq(stream, m + 1, m + n) = SubSeq(stream, 1, m + n)
        /\ SubSeq(stream, 1, m + n) \in Seq(Int) /\ Len(SubSeq(stream, 1, m + n)) = m + n
    BY <1>3, <1>4, PrefixGrows
  <2>3. consumed' = SubSeq(stream, 1, m + n)
    BY <1>4, <2>1, <2>2, Zenon
  <2>4. QED
    BY <2>2, <2>3, Zenon
<1>6. stream' = stream /\ lzx' = lzx /\ written' = written /\ data' = data
  BY <1>1
<1>7. Told' = Told /\ OldData' = OldData
  BY <1>1, FileStays
<1>8. WalkTyped'
  BY <1>1, <1>2 DEF WalkTyped, blockVars
<1>9. InLibrary'
  <2>1. ASSUME NEW before, Writing(before) PROVE Writing(before)'
    BY <1>6, <2>1 DEF Writing
  <2>2. /\ lzx'.at \in Nat /\ lzx'.length \in Nat /\ written' \in 0..lzx'.length
    BY <1>1, <1>2, <1>6 DEF InLibrary
  <2>3. /\ consumed' \in Seq(Int) /\ Len(consumed') <= Len(stream')
        /\ consumed' = SubSeq(stream', 1, Len(consumed'))
    BY <1>4, <1>5, <1>6
  <2>4. ASSUME kind = "normal" PROVE InImage'
    <3>1. InImage
      BY <1>1, <1>2, <2>4 DEF InLibrary
    <3>2. Writing(OldData)'
      BY <1>6, <1>7, <3>1 DEF InImage, Writing
    <3>3. QED
      BY <1>1, <1>6, <3>1, <3>2, WalkRests DEF InImage
  <2>5. ASSUME kind # "normal" PROVE \E j, k, l \in 1..Len(layout) : InRecord(j, k, l)'
    <3>1. PICK j, k, l \in 1..Len(layout) : InRecord(j, k, l)
      BY <1>1, <1>2, <2>5 DEF InLibrary
    <3>2. PICK before : before = Told[k - 1].data
      OBVIOUS
    <3>3. (Told[k - 1].data)' = before
      BY <1>7, <3>2
    <3>4. ASSUME MovesApart PROVE Writing(Told[k - 1].data)'
      <4>1. Writing(before)
        BY <3>1, <3>2, <3>4 DEF InRecord
      <4>2. QED
        BY <2>1, <3>3, <4>1
    <3>5. ASSUME MovesApart
          PROVE  lzx'.window = PaddedWindow(Piece(Told[k - 1].data, layout[k][2].oldAddress,
                                                  layout[k][2].uncompressedLength), windowSize)
      BY <1>1, <1>6, <3>1, <3>5 DEF InRecord
    <3>6. InRecord(j, k, l)'
      BY <1>1, <1>6, <3>1, <3>4, <3>5, WalkRests
    <3>7. QED
      BY <3>6
  <2>6. QED
    BY <1>1, <2>2, <2>3, <2>4, <2>5 DEF InLibrary
<1>10. QED
  BY <1>1, <1>8, <1>9, GoingOn DEF WalkInv, AtBlock, AmongItems

(* What it writes is what the stream decodes to, one piece after the other.*)
LEMMA WriteInv ==
    ASSUME WalkInv, step = "lzx", NEW chars \in 1..(lzx.length - written), consumed # <<>>,
           mspack_memory_write(chars)
    PROVE  WalkInv'
<1>1. /\ UNCHANGED <<inputVars, blockVars, cur, patchEnd, stream, lzx, consumed, libraryFailed>>
      /\ step = "lzx" /\ step' = "lzx" /\ outcome = "none" /\ outcome' = "none"
      /\ kind' = kind /\ layout' = layout /\ windowSize' = windowSize
  BY DEF mspack_memory_write, WalkInv, WalkTyped, Go, inputVars
<1>2. WalkTyped /\ InLibrary
  BY DEF WalkInv
<1>3. lzx.at \in Nat /\ lzx.length \in Nat /\ written \in 0..lzx.length /\ written \in Nat
  BY <1>1, <1>2 DEF InLibrary
<1>4. PICK total \in Nat :
         /\ written' = written + total /\ written + total <= lzx.length
         /\ data' = [a \in DOMAIN data |->
                        IF a \in Span(lzx.at + written, total)
                        THEN Decoded(consumed, a - lzx.at, lzx.window) ELSE data[a]]
  <2>1. PICK remaining \in Nat : remaining = lzx.length - written
    BY <1>3
  <2>2. PICK total \in Nat : total = (IF chars < remaining THEN chars ELSE remaining) /\ total <= remaining
    BY <2>1
  <2>3. /\ written' = written + total
        /\ data' = [a \in DOMAIN data |->
                       IF a \in Span(lzx.at + written, total)
                       THEN Decoded(consumed, a - lzx.at, lzx.window) ELSE data[a]]
    BY <2>1, <2>2 DEF mspack_memory_write
  <2>4. written + total <= lzx.length
    BY <1>3, <2>1, <2>2
  <2>5. QED
    BY <2>3, <2>4
<1>5. ASSUME NEW i PROVE Decoded(consumed, i, lzx.window) = <<"lzx", stream, i, lzx.window>>
  BY <1>1, <1>2 DEF Decoded, InLibrary
<1>6. DOMAIN data = 0..(DataSize - 1)
  BY <1>2 DEF WalkTyped
<1>7. stream' = stream /\ lzx' = lzx /\ consumed' = consumed
  BY <1>1
<1>8. Told' = Told /\ OldData' = OldData
  BY <1>1, FileStays
<1>9. ASSUME NEW before, Writing(before) PROVE Writing(before)'
  <2> DEFINE New(a) == IF a \in Span(lzx.at, written') THEN <<"lzx", stream, a - lzx.at, lzx.window>>
                       ELSE before[a]
  <2>1. data = [a \in 0..(DataSize - 1) |->
                   IF a \in Span(lzx.at, written) THEN <<"lzx", stream, a - lzx.at, lzx.window>>
                   ELSE before[a]]
    BY <1>9 DEF Writing
  <2>2. ASSUME NEW a \in 0..(DataSize - 1) PROVE data'[a] = New(a)
    <3>1. data'[a] = IF a \in Span(lzx.at + written, total) THEN <<"lzx", stream, a - lzx.at, lzx.window>>
                     ELSE data[a]
      BY <1>4, <1>5, <1>6
    <3>2. data[a] = IF a \in Span(lzx.at, written) THEN <<"lzx", stream, a - lzx.at, lzx.window>>
                    ELSE before[a]
      BY <2>1
    <3>3. a \in Span(lzx.at, written') <=> a \in Span(lzx.at, written) \/ a \in Span(lzx.at + written, total)
      <4>1. PICK from \in Nat, old \in Nat : from = lzx.at /\ old = written
        BY <1>3
      <4>2. a \in Span(from, old + total) <=> a \in Span(from, old) \/ a \in Span(from + old, total)
        BY DEF Span
      <4>3. QED
        BY <1>4, <4>1, <4>2
    <3>4. QED
      BY <3>1, <3>2, <3>3
  <2>3. data' = [a \in 0..(DataSize - 1) |-> New(a)]
    <3>1. data' = [a \in 0..(DataSize - 1) |-> data'[a]]
      BY <1>4, <1>6
    <3> HIDE DEF New
    <3>2. QED
      BY <2>2, <3>1
  <2>4. QED
    BY <1>7, <1>9, <2>3 DEF Writing
<1>10. WalkTyped'
  <2>1. DOMAIN data' = 0..(DataSize - 1) /\ data' = [a \in 0..(DataSize - 1) |-> data'[a]]
    BY <1>4, <1>6
  <2>2. QED
    BY <1>1, <1>2, <2>1 DEF WalkTyped, blockVars
<1>11. InLibrary'
  <2>1. /\ lzx'.at \in Nat /\ lzx'.length \in Nat /\ written' \in 0..lzx'.length
    BY <1>3, <1>4, <1>7
  <2>2. /\ consumed' \in Seq(Int) /\ Len(consumed') <= Len(stream')
        /\ consumed' = SubSeq(stream', 1, Len(consumed'))
    BY <1>1, <1>2, <1>7 DEF InLibrary
  <2>3. ASSUME kind = "normal" PROVE InImage'
    <3>1. InImage
      BY <1>1, <1>2, <2>3 DEF InLibrary
    <3>2. PICK before : before = OldData
      OBVIOUS
    <3>3. Writing(before)'
      BY <1>9, <3>1, <3>2 DEF InImage
    <3>4. Writing(OldData)'
      BY <1>8, <3>2, <3>3
    <3>5. QED
      BY <1>1, <1>7, <3>1, <3>4, WalkRests DEF InImage
  <2>4. ASSUME kind # "normal" PROVE \E j, k, l \in 1..Len(layout) : InRecord(j, k, l)'
    <3>1. PICK j, k, l \in 1..Len(layout) : InRecord(j, k, l)
      BY <1>1, <1>2, <2>4 DEF InLibrary
    <3>2. PICK before : before = Told[k - 1].data
      OBVIOUS
    <3>3. (Told[k - 1].data)' = before
      BY <1>8, <3>2
    <3>4. ASSUME MovesApart PROVE Writing(Told[k - 1].data)'
      <4>1. Writing(before)
        BY <3>1, <3>2, <3>4 DEF InRecord
      <4>2. QED
        BY <1>9, <3>3, <4>1
    <3>5. ASSUME MovesApart
          PROVE  lzx'.window = PaddedWindow(Piece(Told[k - 1].data, layout[k][2].oldAddress,
                                                  layout[k][2].uncompressedLength), windowSize)
      BY <1>1, <1>7, <3>1, <3>5 DEF InRecord
    <3>6. InRecord(j, k, l)'
      BY <1>1, <1>7, <3>1, <3>4, <3>5, WalkRests
    <3>7. QED
      BY <3>6
  <2>5. QED
    BY <1>1, <2>1, <2>2, <2>3, <2>4 DEF InLibrary
<1>12. QED
  BY <1>1, <1>10, <1>11, GoingOn DEF WalkInv, AtBlock, AmongItems

LEMMA LibraryFailsInv ==
    ASSUME WalkInv, LibraryFails
    PROVE  WalkInv'
<1>1. step' = "returned" /\ outcome' = "PatchFailed" /\ libraryFailed'
  BY DEF LibraryFails, EndWalk
<1>2. WalkTyped'
  BY <1>1 DEF LibraryFails, WalkInv, WalkTyped, inputVars, blockVars, lzxVars
<1>3. WalkIsSound' /\ PatchMeansRecords' /\ ImageIsDecodedChunks'
  BY <1>1 DEF WalkIsSound, PatchMeansRecords, ImageIsDecodedChunks
<1>4. QED
  BY <1>1, <1>2, <1>3 DEF WalkInv, AtBlock, AmongItems, InLibrary

(* With all of it written, a record has done what it says, and an image is *)
(* what its chunks decode to.                                              *)
LEMMA CloseLzxInv ==
    ASSUME WalkInv, CloseLzx
    PROVE  WalkInv'
<1>1. /\ UNCHANGED <<inputVars, blockVars, cur, patchEnd, data, libraryFailed>>
      /\ step = "lzx" /\ outcome = "none" /\ written = lzx.length
      /\ stream' = <<>> /\ lzx' = NoLzx
      /\ kind' = kind /\ layout' = layout /\ windowSize' = windowSize
  BY DEF CloseLzx, WalkInv, WalkTyped, Go, EndWalk, inputVars
<1>2. WalkTyped /\ InLibrary
  BY DEF WalkInv
<1>3. /\ Told' = Told /\ OldData' = OldData /\ WholeMeaning' = WholeMeaning
      /\ (MovesApart' <=> MovesApart) /\ (AllMatched' <=> AllMatched)
      /\ \A j : Matched(j)' <=> Matched(j)
  BY <1>1, FileStays
<1>4. WalkTyped'
  <2>1. step' \in {"record", "returned"} /\ (step' # "returned" => outcome' = "none")
    BY <1>1 DEF CloseLzx, Go, EndWalk
  <2>2. stream' \in Seq(Int)
    BY <1>1
  <2>3. lzx' = [at |-> lzx'.at, length |-> lzx'.length, window |-> lzx'.window, hasWindow |-> lzx'.hasWindow]
    BY <1>1 DEF NoLzx
  <2>4. QED
    BY <1>1, <1>2, <2>1, <2>2, <2>3 DEF WalkTyped, blockVars
<1>5. CASE kind = "normal"
  <2>1. step' = "returned" /\ outcome' = "Success"
    BY <1>5 DEF CloseLzx, EndWalk
  <2>2. InImage
    BY <1>1, <1>2, <1>5 DEF InLibrary
  <2>3. data = [a \in 0..(DataSize - 1) |-> <<"lzx", WholeMeaning.chunks, a, EmptyWindow>>]
    <3>1. data = [a \in 0..(DataSize - 1) |->
                    IF a \in Span(0, DataSize) THEN <<"lzx", WholeMeaning.chunks, a - 0, EmptyWindow>>
                    ELSE OldData[a]]
      BY <1>1, <2>2 DEF InImage, Writing
    <3>2. \A a \in 0..(DataSize - 1) : a \in Span(0, DataSize) /\ a - 0 = a
      BY SizeAssumption DEF Span
    <3>3. QED
      BY <3>1, <3>2
  <2>4. ImageIsDecodedChunks'
    BY <1>1, <1>3, <2>3, FileStays DEF ImageIsDecodedChunks, EmptyWindow
  <2>5. WalkIsSound' /\ PatchMeansRecords'
    BY <1>1, <1>3, <1>5, <2>1, <2>2 DEF WalkIsSound, PatchMeansRecords, InImage, AllMatched
  <2>6. QED
    BY <1>4, <2>1, <2>4, <2>5 DEF WalkInv, AtBlock, AmongItems, InLibrary
<1>6. CASE kind # "normal"
  <2>1. step' = "record" /\ outcome' = "none"
    BY <1>1, <1>6 DEF CloseLzx, Go
  <2>2. PICK j, k, l \in 1..Len(layout) : InRecord(j, k, l)
    BY <1>1, <1>2, <1>6 DEF InLibrary
  <2>3. ASSUME MovesApart PROVE data = Told[k].data
    <3>1. PICK r, before : r = layout[k][2] /\ before = Told[k - 1].data
      OBVIOUS
    <3>2. r \in Records /\ r.compressedLength > 1 /\ r.compressedLength \in Nat
      BY <2>2, <3>1 DEF InRecord, Records
    <3>3. PICK w : w = PaddedWindow(Piece(before, r.oldAddress, r.uncompressedLength), windowSize)
      OBVIOUS
    <3>4. lzx.window = w
      BY <1>1, <2>2, <2>3, <3>1, <3>3 DEF InRecord
    <3>5. PICK s : s = BytesAt(layout[k][1] + RecordHeader, r.compressedLength)
      OBVIOUS
    <3>6. stream = s /\ lzx.at = r.newAddress /\ written = r.uncompressedLength
      BY <1>1, <2>2, <3>1, <3>5 DEF InRecord
    <3>7. /\ DOMAIN before = 0..(DataSize - 1)
          /\ data = [a \in 0..(DataSize - 1) |->
                        IF a \in Span(r.newAddress, r.uncompressedLength)
                        THEN <<"lzx", s, a - r.newAddress, w>> ELSE before[a]]
      <4>1. Writing(before)
        BY <2>2, <2>3, <3>1 DEF InRecord
      <4>2. QED
        BY <3>4, <3>6, <4>1 DEF Writing
    <3>8. Applied(before, layout[k], windowSize) =
             [a \in DOMAIN before |->
                 IF a \notin Span(r.newAddress, r.uncompressedLength) THEN before[a]
                 ELSE IF r.compressedLength = 0 THEN <<"zero">>
                 ELSE IF r.compressedLength = 1 THEN before[r.oldAddress + (a - r.newAddress)]
                 ELSE <<"lzx", s, a - r.newAddress, w>>]
      BY <3>1, <3>3, <3>5, Zenon DEF Applied
    <3>9. Told[k].data = Applied(before, layout[k], windowSize)
      BY <1>2, <3>1, <3>2, FileOrdered, ToldStep
    <3>10. QED
      BY <3>2, <3>7, <3>8, <3>9
  <2>4. Done(k)'
    BY <1>1, <1>3, <1>6, <2>3 DEF Done
  <2>5. Within(j, k, l)'
    BY <1>1, <2>2, Zenon DEF InRecord, Within, blockVars
  <2>6. Matched(j)'
    BY <1>3, <2>2 DEF InRecord
  <2>7. AmongItems'
    BY <1>1, <1>6, <2>1, <2>4, <2>5, <2>6 DEF AmongItems
  <2>8. QED
    BY <1>4, <2>1, <2>7, GoingOn DEF WalkInv, AtBlock, InLibrary
<1>7. QED
  BY <1>5, <1>6

LEMMA WalkStays == WalkInv /\ UNCHANGED walkVars => WalkInv'
<1> SUFFICES ASSUME WalkInv, UNCHANGED walkVars PROVE WalkInv'
  OBVIOUS
<1>1. /\ UNCHANGED <<inputVars, kind, layout, windowSize, step, p, info, nextInfo, cur, patchEnd, data,
                     stream, lzx, consumed, written, libraryFailed, outcome>>
  BY DEF walkVars, inputVars, blockVars, lzxVars
<1>2. Told' = Told /\ OldData' = OldData /\ WholeMeaning' = WholeMeaning
      /\ LibraryWindow' = LibraryWindow /\ EmptyWindow' = EmptyWindow
      /\ (MovesApart' <=> MovesApart) /\ (AllMatched' <=> AllMatched)
  BY <1>1, FileStays
<1>3. WalkTyped'
  BY <1>1 DEF WalkInv, WalkTyped
<1>4. ASSUME NEW j, NEW k, NEW l
      PROVE  (Within(j, k, l)' <=> Within(j, k, l)) /\ (Matched(j)' <=> Matched(j)) /\ (Done(k)' <=> Done(k))
  <2>1. Within(j, k, l)' <=> Within(j, k, l)
    BY <1>1, Zenon DEF Within
  <2>2. Matched(j)' <=> Matched(j)
    BY <1>1, Zenon DEF Matched
  <2>3. Done(k)' <=> Done(k)
    BY <1>1, <1>2 DEF Done
  <2>4. QED
    BY <2>1, <2>2, <2>3
<1>5. AtBlock' /\ AmongItems'
  BY <1>1, <1>4 DEF WalkInv, AtBlock, AmongItems
<1>6. InLibrary'
  <2>1. ASSUME NEW before, Writing(before) PROVE Writing(before)'
    BY <1>1, <2>1 DEF Writing
  <2>2. ASSUME NEW j, NEW k, NEW l, InRecord(j, k, l) PROVE InRecord(j, k, l)'
    <3>1. PICK before : before = Told[k - 1].data
      OBVIOUS
    <3>2. (Told[k - 1].data)' = before
      BY <1>2, <3>1
    <3>3. ASSUME MovesApart PROVE Writing(Told[k - 1].data)'
      <4>1. Writing(before)
        BY <2>2, <3>1, <3>3 DEF InRecord
      <4>2. QED
        BY <2>1, <3>2, <4>1
    <3>4. QED
      BY <1>1, <1>2, <1>4, <2>2, <3>3 DEF InRecord
  <2>3. InImage => InImage'
    <3>1. PICK before : before = OldData
      OBVIOUS
    <3>2. Writing(OldData) => Writing(OldData)'
      BY <1>2, <2>1, <3>1
    <3>3. QED
      BY <1>1, <1>2, <3>2 DEF InImage
  <2>4. QED
    BY <1>1, <2>2, <2>3 DEF WalkInv, InLibrary
<1>7. WalkIsSound' /\ PatchMeansRecords' /\ ImageIsDecodedChunks'
  BY <1>1, <1>2, Zenon DEF WalkInv, WalkIsSound, PatchMeansRecords, ImageIsDecodedChunks
<1>8. QED
  BY <1>3, <1>5, <1>6, <1>7 DEF WalkInv

LEMMA WalkNextInv == WalkInv /\ [WalkNext]_walkVars => WalkInv'
<1> SUFFICES ASSUME WalkInv, [WalkNext]_walkVars PROVE WalkInv'
  OBVIOUS
<1>1. CASE LastBlock \/ EnterBlock
  BY <1>1, LastBlockInv, EnterBlockInv
<1>2. CASE CopyChunk \/ ChunksDone \/ RecordsDone
  BY <1>2, CopyChunkInv, ChunksDoneInv, RecordsDoneInv
<1>3. CASE ZeroData \/ MoveData \/ DecompressData \/ LoseTrack
  BY <1>3, ZeroDataInv, MoveDataInv, DecompressDataInv, LoseTrackInv
<1>4. CASE OpenLzx \/ LibraryFails \/ CloseLzx
  BY <1>4, OpenLzxInv, LibraryFailsInv, CloseLzxInv
<1>5. CASE LibraryRuns
  <2>1. CASE \E chars \in 1..2 : Len(consumed) < Len(stream) /\ mspack_memory_read(chars)
    BY <2>1, ReadInv
  <2>2. CASE \E chars \in 1..(lzx.length - written) : consumed # <<>> /\ mspack_memory_write(chars)
    <3>1. PICK chars \in 1..(lzx.length - written) : consumed # <<>> /\ mspack_memory_write(chars)
      BY <2>2
    <3>2. step = "lzx"
      BY <3>1 DEF mspack_memory_write, Go
    <3>3. QED
      BY <3>1, <3>2, WriteInv
  <2>3. QED
    BY <1>5, <2>1, <2>2 DEF LibraryRuns
<1>6. CASE WalkEnded \/ UNCHANGED walkVars
  BY <1>6, WalkStays DEF WalkEnded
<1>7. QED
  BY <1>1, <1>2, <1>3, <1>4, <1>5, <1>6 DEF WalkNext

(* For files of any number of structures, WalkInv holds throughout: the    *)
(* cursor stands where it should, and what is done is what the structures  *)
(* before it say (xex_patcher.cpp:180-224, 503-531, xex.cpp:226-248).      *)
THEOREM WalkInvariant == WalkSpec => []WalkInv
  BY WalkInitInv, WalkNextInv, PTL DEF WalkSpec

(* For files of any number of blocks, and records of any sizes: a patch    *)
(* that was applied did to the data what its records say, one after the    *)
(* other, and nothing else (xex_patcher.cpp:180-224, 503-531).             *)
THEOREM PatchesMeanRecords == WalkSpec => []PatchMeansRecords
  BY WalkInvariant, PTL DEF WalkInv

(* For any number of blocks and chunks: an image is decoded from the bytes *)
(* of its chunks alone, in their order (xex.cpp:205-258).                  *)
THEOREM ImagesAreDecodedChunks == WalkSpec => []ImageIsDecodedChunks
  BY WalkInvariant, PTL DEF WalkInv

(* For files of any number of structures: no cursor of a patch block       *)
(* leaves them, others only where their end is missing, a bad hash is      *)
(* always found, and nothing is refused without a reason.                  *)
THEOREM WalksAreSound == WalkSpec => []WalkIsSound
  BY WalkInvariant, PTL DEF WalkInv
=============================================================================
