------------------------- MODULE BasicDecompressProofs -------------------------
(***************************************************************************)
(* Proofs about BasicDecompress, for every table of blocks, every buffer   *)
(* and every header size.                                                  *)
(***************************************************************************)
EXTENDS BasicDecompress, TLAPS

USE BlocksAssumption, SizesAssumption, RoomsAssumption, HeaderAssumption

(* The inductive invariant holds in the initial states.                    *)
LEMMA InitInv == Init => IndInv
<1> SUFFICES ASSUME Init PROVE IndInv
  OBVIOUS
<1>1. TypeOK
  BY DEF Init, TypeOK, Address, Block
<1>2. SumsRight /\ BlocksCover
  BY DEF Init, SumsRight, BlocksCover
<1>3. CursorsRight /\ MovedBlocksPlaced /\ LoaderRight
  BY DEF Init, CursorsRight, MovedBlocksPlaced, LoaderRight
<1>4. UnreadIntact /\ TailIntact
  BY DEF Init, UnreadIntact, TailIntact, Address
<1> QED
  BY <1>1, <1>2, <1>3, <1>4 DEF IndInv

(* Adding a block to the sums keeps the invariant.                         *)
LEMMA SumBlockInv == IndInv /\ SumBlock => IndInv'
<1> SUFFICES ASSUME IndInv, SumBlock PROVE IndInv'
  OBVIOUS
<1> USE DEF IndInv
<1> DEFINE b == blocks[summed + 1]
<1>0. /\ summed + 1 \in Block /\ b.dataSize \in Nat /\ b.zeroSize \in Nat
      /\ summed \in 0..NumBlocks /\ summed + 1 \in 1..NumBlocks
      /\ summed \in Nat /\ summed < NumBlocks
  <2>1. summed \in 0..NumBlocks /\ summed < NumBlocks
    BY DEF SumBlock, TypeOK
  <2>2. summed + 1 \in 1..NumBlocks /\ summed \in Nat
    BY <2>1
  <2>3. b \in [dataSize : Sizes, zeroSize : Sizes]
    BY <2>2 DEF TypeOK, Block
  <2> QED
    BY <2>1, <2>2, <2>3 DEF Block
<1>1. TypeOK'
  <2>1. dataEnd' \in [0..NumBlocks -> Nat] /\ imageEnd' \in [0..NumBlocks -> Nat]
    <3>1. dataEnd[summed] + b.dataSize \in Nat /\ imageEnd[summed] + b.dataSize + b.zeroSize \in Nat
      <4>1. dataEnd \in [0..NumBlocks -> Nat] /\ imageEnd \in [0..NumBlocks -> Nat]
        BY DEF TypeOK
      <4>2. dataEnd[summed] \in Nat /\ imageEnd[summed] \in Nat
        BY <4>1, <1>0
      <4> HIDE DEF b
      <4> QED
        BY <4>2, <1>0
    <3>2. /\ dataEnd' = [dataEnd EXCEPT ![summed + 1] = dataEnd[summed] + b.dataSize]
          /\ imageEnd' = [imageEnd EXCEPT ![summed + 1] = imageEnd[summed] + b.dataSize + b.zeroSize]
      BY DEF SumBlock
    <3> HIDE DEF b
    <3> QED
      BY <3>1, <3>2, <1>0 DEF TypeOK
  <2>2. loaderPc = "idle"
    BY <1>0 DEF LoaderRight
  <2>3. UNCHANGED <<blocks, room, pc, left, srcDataCursor, outDataCursor, out, loaderPc,
                    loaded, srcData, destData, result>>
    BY DEF SumBlock, patcherVars, loaderVars
  <2>4. summed' \in 0..NumBlocks
    BY <1>0 DEF SumBlock
  <2> QED
    BY <2>1, <2>2, <2>3, <2>4 DEF TypeOK, Address, Block
<1>2. SumsRight'
  <2>1. /\ summed' = summed + 1
        /\ \A i \in 0..summed : dataEnd'[i] = dataEnd[i] /\ imageEnd'[i] = imageEnd[i]
        /\ dataEnd'[summed + 1] = dataEnd[summed] + b.dataSize
        /\ imageEnd'[summed + 1] = imageEnd[summed] + b.dataSize + b.zeroSize
        /\ blocks' = blocks /\ pc' = "sum"
        /\ \A i \in 0..summed : dataEnd[i] \in Nat /\ imageEnd[i] \in Nat
    BY <1>0 DEF SumBlock, TypeOK, patcherVars
  <2>2. dataEnd'[0] = 0 /\ imageEnd'[0] = 0
    BY <2>1, <1>0 DEF SumsRight
  <2>3. ASSUME NEW i \in 1..(summed + 1)
        PROVE  /\ dataEnd'[i] = dataEnd'[i - 1] + blocks[i].dataSize
               /\ imageEnd'[i] = imageEnd'[i - 1] + blocks[i].dataSize + blocks[i].zeroSize
    <3>1. CASE i = summed + 1
      BY <3>1, <2>1, <1>0
    <3>2. CASE i # summed + 1
      <4>1. i \in 1..summed /\ i \in 0..summed /\ i - 1 \in 0..summed
        BY <3>2, <1>0
      <4> QED
        BY <4>1, <2>1 DEF SumsRight
    <3> QED
      BY <3>1, <3>2
  <2>4. \A i \in 0..(summed + 1) : dataEnd'[i] <= imageEnd'[i]
    <3> TAKE i \in 0..(summed + 1)
    <3>1. CASE i = summed + 1
      BY <3>1, <2>1, <1>0 DEF SumsRight
    <3>2. CASE i # summed + 1
      BY <3>2, <2>1, <1>0 DEF SumsRight
    <3> QED
      BY <3>1, <3>2
  <2>5. ASSUME NEW i \in 0..(summed + 1), NEW j \in 0..(summed + 1), i <= j
        PROVE  imageEnd'[i] <= imageEnd'[j]
    <3>1. CASE j # summed + 1
      BY <3>1, <2>1, <2>5, <1>0 DEF SumsRight
    <3>2. CASE j = summed + 1 /\ i # summed + 1
      <4>1. i \in 0..summed /\ i <= summed /\ summed \in 0..summed
        BY <3>2, <1>0
      <4>2. imageEnd[i] <= imageEnd[summed]
        BY <4>1 DEF SumsRight
      <4> QED
        BY <4>1, <4>2, <3>2, <2>1, <1>0
    <3>3. CASE j = summed + 1 /\ i = summed + 1
      BY <3>3, <2>1, <1>0
    <3> QED
      BY <3>1, <3>2, <3>3
  <2> QED
    BY <2>1, <2>2, <2>3, <2>4, <2>5, <1>0 DEF SumsRight
<1>2a. BlocksCover'
  <2> SUFFICES ASSUME NEW a \in 0..(imageEnd'[summed'] - 1)
               PROVE  \E i \in 1..summed' : imageEnd'[i - 1] <= a /\ a < imageEnd'[i]
    BY DEF BlocksCover
  <2>1. /\ summed' = summed + 1
        /\ \A i \in 0..summed : imageEnd'[i] = imageEnd[i]
        /\ \A i \in 0..(summed + 1) : imageEnd'[i] \in Nat
        /\ imageEnd[summed] \in Nat
    <3>1. imageEnd \in [0..NumBlocks -> Nat] /\ imageEnd' \in [0..NumBlocks -> Nat]
      BY <1>1 DEF TypeOK
    <3>2. /\ summed' = summed + 1
          /\ imageEnd' = [imageEnd EXCEPT ![summed + 1] = imageEnd[summed] + b.dataSize + b.zeroSize]
      BY DEF SumBlock
    <3> HIDE DEF b
    <3> QED
      BY SMTT(40), <3>1, <3>2, <1>0
  <2>2. CASE a < imageEnd[summed]
    <3>1. a \in 0..(imageEnd[summed] - 1)
      BY <2>1, <2>2
    <3>2. PICK i \in 1..summed : imageEnd[i - 1] <= a /\ a < imageEnd[i]
      BY <3>1 DEF BlocksCover
    <3>3. i \in 1..summed' /\ i \in 0..summed /\ i - 1 \in 0..summed
      BY <2>1, <1>0
    <3> QED
      BY <3>2, <3>3, <2>1
  <2>3. CASE ~(a < imageEnd[summed])
    <3>1. summed + 1 \in 1..summed' /\ summed \in 0..summed /\ (summed + 1) - 1 = summed
      BY <2>1, <1>0
    <3> QED
      BY <3>1, <2>1, <2>3
  <2> QED
    BY <2>2, <2>3
<1>3. CursorsRight' /\ MovedBlocksPlaced' /\ UnreadIntact'
  BY DEF SumBlock, patcherVars, CursorsRight, MovedBlocksPlaced, UnreadIntact, Address
<1>4. LoaderRight'
  BY <1>0 DEF SumBlock, loaderVars, LoaderRight
<1>5. TailIntact'
  BY DEF SumBlock, patcherVars, TailIntact, UnreadIntact, Address
<1> QED
  BY <1>1, <1>2, <1>2a, <1>3, <1>4, <1>5

(* The start of the second loop keeps it.                                  *)
LEMMA CheckRoomInv == IndInv /\ CheckRoom => IndInv'
<1> SUFFICES ASSUME IndInv, CheckRoom PROVE IndInv'
  OBVIOUS
<1> USE DEF IndInv
<1>0. /\ summed = NumBlocks /\ NumBlocks \in 0..NumBlocks
      /\ dataEnd[NumBlocks] \in Nat /\ imageEnd[NumBlocks] \in Nat
      /\ room \in Nat
  BY DEF CheckRoom, SumsRight, TypeOK
<1>1. TypeOK'
  <2>1. UNCHANGED <<blocks, room, summed, dataEnd, imageEnd, out, loaderPc,
                    loaded, srcData, destData, result>>
    BY DEF CheckRoom, sumVars, loaderVars
  <2>2. /\ pc' \in {"sum", "check", "move", "done", "invalid"}
        /\ left' \in 0..NumBlocks
        /\ srcDataCursor' \in Nat /\ outDataCursor' \in Nat
    BY <1>0 DEF CheckRoom
  <2> QED
    BY <2>1, <2>2 DEF TypeOK, Address, Block
<1>2. SumsRight' /\ BlocksCover'
  BY <1>0 DEF CheckRoom, sumVars, SumsRight, BlocksCover
<1>3. CursorsRight'
  BY <1>0 DEF CheckRoom, sumVars, CursorsRight
<1>4. UnreadIntact' /\ TailIntact'
  BY <1>0 DEF CheckRoom, sumVars, UnreadIntact, TailIntact, Address
<1>5. MovedBlocksPlaced'
  BY <1>0 DEF CheckRoom, MovedBlocksPlaced
<1>6. LoaderRight'
  BY DEF CheckRoom, sumVars, loaderVars, LoaderRight, Placed
<1> QED
  BY <1>1, <1>2, <1>3, <1>4, <1>5, <1>6

(* Where the cursors stand before and after one block is moved.            *)
LEMMA MoveBlockCursors ==
    ASSUME IndInv, MoveBlock
    PROVE  /\ left \in 1..NumBlocks /\ summed = NumBlocks
           /\ blocks[left].dataSize \in Nat /\ blocks[left].zeroSize \in Nat
           /\ dataEnd[left - 1] \in Nat /\ imageEnd[left - 1] \in Nat
           /\ dataEnd[left - 1] <= imageEnd[left - 1]
           /\ srcDataCursor = HeaderSize + dataEnd[left - 1] + blocks[left].dataSize
           /\ outDataCursor = HeaderSize + imageEnd[left - 1] + blocks[left].dataSize + blocks[left].zeroSize
           /\ srcDataCursor' = HeaderSize + dataEnd[left - 1]
           /\ outDataCursor' = HeaderSize + imageEnd[left - 1]
           /\ outDataCursor <= HeaderSize + imageEnd[NumBlocks]
           /\ imageEnd[NumBlocks] \in Nat
           /\ outDataCursor <= room /\ room \in Nat
<1> USE DEF IndInv
<1>1. left \in 1..NumBlocks /\ pc = "move" /\ summed = NumBlocks
  BY DEF MoveBlock, TypeOK, SumsRight
<1>2. blocks[left] \in [dataSize : Sizes, zeroSize : Sizes]
  BY <1>1 DEF TypeOK, Block
<1>3. left \in 0..NumBlocks /\ left - 1 \in 0..NumBlocks /\ NumBlocks \in 0..NumBlocks
      /\ left <= NumBlocks
  BY <1>1
<1>4. dataEnd \in [0..NumBlocks -> Nat] /\ imageEnd \in [0..NumBlocks -> Nat] /\ room \in Nat
  BY DEF TypeOK
<1>5. /\ dataEnd[left - 1] \in Nat /\ imageEnd[left - 1] \in Nat
      /\ dataEnd[left] \in Nat /\ imageEnd[left] \in Nat /\ imageEnd[NumBlocks] \in Nat
  BY <1>3, <1>4
<1>6. /\ dataEnd[left] = dataEnd[left - 1] + blocks[left].dataSize
      /\ imageEnd[left] = imageEnd[left - 1] + blocks[left].dataSize + blocks[left].zeroSize
      /\ dataEnd[left - 1] <= imageEnd[left - 1]
      /\ imageEnd[left] <= imageEnd[NumBlocks]
  BY <1>1, <1>3 DEF SumsRight
<1>7. /\ srcDataCursor = HeaderSize + dataEnd[left] /\ outDataCursor = HeaderSize + imageEnd[left]
      /\ HeaderSize + imageEnd[NumBlocks] <= room
  BY <1>1 DEF CursorsRight
<1>8. /\ srcDataCursor' = srcDataCursor - blocks[left].dataSize
      /\ outDataCursor' = outDataCursor - blocks[left].zeroSize - blocks[left].dataSize
  BY DEF MoveBlock
<1>9. blocks[left].dataSize \in Nat /\ blocks[left].zeroSize \in Nat
  BY <1>2
<1> DEFINE size == blocks[left].dataSize
           zeroes == blocks[left].zeroSize
<1> HIDE DEF size, zeroes
<1>10. /\ srcDataCursor = HeaderSize + dataEnd[left - 1] + size
       /\ outDataCursor = HeaderSize + imageEnd[left - 1] + size + zeroes
       /\ srcDataCursor' = HeaderSize + dataEnd[left - 1]
       /\ outDataCursor' = HeaderSize + imageEnd[left - 1]
       /\ outDataCursor <= HeaderSize + imageEnd[NumBlocks] /\ outDataCursor <= room
  <2>0. size \in Nat /\ zeroes \in Nat
    BY <1>9 DEF size, zeroes
  <2>1. dataEnd[left] = dataEnd[left - 1] + size /\ imageEnd[left] = imageEnd[left - 1] + size + zeroes
    BY <1>6 DEF size, zeroes
  <2>2. srcDataCursor' = srcDataCursor - size /\ outDataCursor' = outDataCursor - zeroes - size
    BY <1>8 DEF size, zeroes
  <2>3. srcDataCursor = HeaderSize + dataEnd[left - 1] + size /\ srcDataCursor' = HeaderSize + dataEnd[left - 1]
    BY <2>0, <2>1, <2>2, <1>5, <1>7
  <2>4. outDataCursor = HeaderSize + imageEnd[left - 1] + size + zeroes /\ outDataCursor' = HeaderSize + imageEnd[left - 1]
    BY <2>0, <2>1, <2>2, <1>5, <1>7
  <2>5. outDataCursor <= HeaderSize + imageEnd[NumBlocks] /\ outDataCursor <= room
    BY SMTT(40), <1>4, <1>5, <1>6, <1>7
  <2> QED
    BY <2>3, <2>4, <2>5
<1> QED
  BY <1>1, <1>4, <1>5, <1>6, <1>9, <1>10 DEF size, zeroes

(* What one iteration writes: the block's bytes, still as they were when   *)
(* the decompression began, and its zeroes.                                *)
LEMMA MoveBlockWrites ==
    ASSUME IndInv, MoveBlock
    PROVE  /\ out' \in [Address -> Address \cup {Zero}]
           /\ \A a \in Address :
                 out'[a] = IF a \in outDataCursor'..(outDataCursor' + blocks[left].dataSize - 1)
                           THEN srcDataCursor' + (a - outDataCursor')
                           ELSE IF a \in (outDataCursor' + blocks[left].dataSize)..(outDataCursor - 1)
                                THEN Zero
                                ELSE out[a]
<1> DEFINE to == outDataCursor'
           from == srcDataCursor'
           size == blocks[left].dataSize
           zeroes == blocks[left].zeroSize
           cleared == Cleared(out, outDataCursor - zeroes, zeroes)
<1>1. /\ to \in Nat /\ from \in Nat /\ size \in Nat /\ zeroes \in Nat /\ room \in Nat
      /\ from <= to
      /\ outDataCursor = to + size + zeroes /\ outDataCursor <= room
  BY MoveBlockCursors
<1>2. out \in [Address -> Address \cup {Zero}] /\ \A a \in Address : a < outDataCursor => out[a] = a
  BY DEF IndInv, TypeOK, UnreadIntact, MoveBlock
<1>3. out' = Moved(cleared, to, from, size)
  BY DEF MoveBlock
<1>4. DOMAIN cleared = Address /\ DOMAIN out' = Address
  BY <1>2, <1>3 DEF Cleared, Moved
<1>5. \A a \in Address :
          cleared[a] = IF a \in (to + size)..(outDataCursor - 1) THEN Zero ELSE out[a]
  BY <1>1, <1>2 DEF Cleared
<1>6. \A a \in Address :
          out'[a] = IF a \in to..(to + size - 1) THEN cleared[from + (a - to)] ELSE cleared[a]
  BY <1>3, <1>4 DEF Moved
<1> HIDE DEF to, from, size, zeroes, cleared
<1>7. ASSUME NEW a \in Address, a \in to..(to + size - 1)
      PROVE  cleared[from + (a - to)] = from + (a - to) /\ from + (a - to) \in Address
  <2>1. /\ from + (a - to) \in Address /\ from + (a - to) < to + size
        /\ from + (a - to) < outDataCursor
    BY <1>1, <1>7 DEF Address
  <2>2. ~(from + (a - to) \in (to + size)..(outDataCursor - 1))
    BY <2>1, <1>1, <1>7
  <2> QED
    BY <2>1, <2>2, <1>2, <1>5
<1>8. \A a \in Address :
          out'[a] = IF a \in to..(to + size - 1) THEN from + (a - to)
                    ELSE IF a \in (to + size)..(outDataCursor - 1) THEN Zero ELSE out[a]
  BY <1>5, <1>6, <1>7
<1>9. \A a \in Address : out'[a] \in Address \cup {Zero}
  BY <1>2, <1>7, <1>8
<1>10. out' \in [Address -> Address \cup {Zero}]
  <2>1. out' = [a \in Address |-> out'[a]]
    BY <1>3, <1>4 DEF Moved
  <2> QED
    BY <2>1, <1>9
<1> QED
  BY <1>8, <1>10 DEF to, from, size

(* Moving a block keeps the invariant.                                     *)
LEMMA MoveBlockInv == IndInv /\ MoveBlock => IndInv'
<1> SUFFICES ASSUME IndInv, MoveBlock PROVE IndInv'
  OBVIOUS
<1> DEFINE b == blocks[left]
<1>0. UNCHANGED <<blocks, room, pc, summed, dataEnd, imageEnd, loaderPc, loaded, srcData,
                  destData, result>> /\ left' = left - 1 /\ pc = "move"
  BY DEF MoveBlock, sumVars, loaderVars
<1>1. /\ left \in 1..NumBlocks /\ summed = NumBlocks
      /\ b.dataSize \in Nat /\ b.zeroSize \in Nat
      /\ dataEnd[left - 1] \in Nat /\ imageEnd[left - 1] \in Nat
      /\ srcDataCursor' = HeaderSize + dataEnd[left - 1]
      /\ outDataCursor' = HeaderSize + imageEnd[left - 1]
      /\ outDataCursor = outDataCursor' + b.dataSize + b.zeroSize
      /\ outDataCursor <= HeaderSize + imageEnd[NumBlocks]
      /\ imageEnd[NumBlocks] \in Nat /\ outDataCursor <= room /\ room \in Nat
  BY MoveBlockCursors
<1>2. /\ out' \in [Address -> Address \cup {Zero}]
      /\ \A a \in Address :
            out'[a] = IF a \in outDataCursor'..(outDataCursor' + b.dataSize - 1)
                      THEN srcDataCursor' + (a - outDataCursor')
                      ELSE IF a \in (outDataCursor' + b.dataSize)..(outDataCursor - 1)
                           THEN Zero
                           ELSE out[a]
  BY MoveBlockWrites
<1>t. TypeOK'
  <2>1. left' \in 0..NumBlocks /\ srcDataCursor' \in Nat /\ outDataCursor' \in Nat
    BY <1>0, <1>1
  <2> QED
    BY <2>1, <1>0, <1>2 DEF IndInv, TypeOK, Address, Block
<1>s. SumsRight' /\ BlocksCover'
  BY <1>0 DEF IndInv, SumsRight, BlocksCover
<1>c. CursorsRight'
  BY <1>0, <1>1 DEF IndInv, CursorsRight
<1> HIDE DEF b
<1>u. UnreadIntact'
  <2>1. ASSUME NEW a \in Address, a < outDataCursor'
        PROVE  out'[a] = a
    <3>1. a \in Int /\ a < outDataCursor /\ outDataCursor' \in Nat
      BY <2>1, <1>1 DEF Address
    <3>2. out[a] = a
      BY <3>1, <1>0 DEF IndInv, UnreadIntact
    <3> QED
      BY <2>1, <3>1, <3>2, <1>1, <1>2
  <2> QED
    BY <2>1, <1>0 DEF UnreadIntact, Address
<1>k. TailIntact'
  <2>1. ASSUME NEW a \in Address, a >= HeaderSize + imageEnd[NumBlocks]
        PROVE  out'[a] = a
    <3>1. a \in Int /\ a >= outDataCursor /\ outDataCursor' \in Nat
      BY <2>1, <1>1 DEF Address
    <3>2. out[a] = a
      BY <2>1 DEF IndInv, TailIntact
    <3> QED
      BY <2>1, <3>1, <3>2, <1>1, <1>2
  <2> QED
    BY <2>1, <1>0 DEF TailIntact, Address
<1>m. MovedBlocksPlaced'
  <2> SUFFICES ASSUME NEW i \in left..NumBlocks
               PROVE  Placed(out, HeaderSize, i)'
    BY <1>0, <1>1 DEF MovedBlocksPlaced
  <2>0. /\ i \in 1..NumBlocks /\ i \in 0..NumBlocks /\ i - 1 \in 0..NumBlocks
        /\ left \in 0..NumBlocks
    BY <1>1
  <2> DEFINE size == blocks[i].dataSize
             zeroes == blocks[i].zeroSize
  <2>1. size \in Nat /\ zeroes \in Nat
    <3>1. blocks[i] \in [dataSize : Sizes, zeroSize : Sizes]
      BY <2>0 DEF IndInv, TypeOK, Block
    <3> QED
      BY <3>1
  <2>2. imageEnd[i - 1] \in Nat /\ dataEnd[i - 1] \in Nat /\ imageEnd[i] \in Nat
    BY <2>0 DEF IndInv, TypeOK
  <2>3. imageEnd[i] = imageEnd[i - 1] + size + zeroes
    BY <2>0, <1>1 DEF IndInv, SumsRight
  <2>4. imageEnd[i] <= imageEnd[NumBlocks] /\ HeaderSize + imageEnd[NumBlocks] <= room
    BY <2>0, <1>0, <1>1 DEF IndInv, SumsRight, CursorsRight
  <2> HIDE DEF size, zeroes
  <2>5. /\ \A k \in 0..(size - 1) : HeaderSize + imageEnd[i - 1] + k \in Address
        /\ \A k \in 0..(zeroes - 1) : HeaderSize + imageEnd[i - 1] + size + k \in Address
    BY <2>1, <2>2, <2>3, <2>4, <1>1 DEF Address
  <2>6. /\ \A k \in 0..(size - 1) :
              out'[HeaderSize + imageEnd[i - 1] + k] = HeaderSize + dataEnd[i - 1] + k
        /\ \A k \in 0..(zeroes - 1) : out'[HeaderSize + imageEnd[i - 1] + size + k] = Zero
    <3>1. CASE i = left
      <4>1. size = b.dataSize /\ zeroes = b.zeroSize
        BY <3>1 DEF size, zeroes, b
      <4>2. ASSUME NEW k \in 0..(size - 1)
            PROVE  out'[HeaderSize + imageEnd[i - 1] + k] = HeaderSize + dataEnd[i - 1] + k
        BY <4>1, <4>2, <3>1, <2>1, <2>2, <2>5, <1>1, <1>2
      <4>3. ASSUME NEW k \in 0..(zeroes - 1)
            PROVE  out'[HeaderSize + imageEnd[i - 1] + size + k] = Zero
        BY <4>1, <4>3, <3>1, <2>1, <2>2, <2>5, <1>1, <1>2
      <4> QED
        BY <4>2, <4>3
    <3>2. CASE i # left
      <4>1. /\ left \in 0..NumBlocks /\ i - 1 \in 0..NumBlocks /\ left <= i - 1
            /\ i \in (left + 1)..NumBlocks
        BY <3>2, <1>1
      <4>2. HeaderSize + imageEnd[left] <= HeaderSize + imageEnd[i - 1]
        <5>1. imageEnd[left] <= imageEnd[i - 1] /\ imageEnd[left] \in Nat
          BY <4>1, <1>1 DEF IndInv, SumsRight, TypeOK
        <5> QED
          BY <5>1, <2>2
      <4>3. outDataCursor <= HeaderSize + imageEnd[i - 1]
        BY <4>2, <1>0 DEF IndInv, CursorsRight
      <4>4. ASSUME NEW a \in Address, a >= HeaderSize + imageEnd[i - 1]
            PROVE  out'[a] = out[a]
        <5>1. a \in Int /\ a >= outDataCursor /\ outDataCursor' \in Nat
          BY <4>3, <4>4, <1>1, <2>2 DEF Address
        <5> QED
          BY <5>1, <1>1, <1>2
      <4>5. Placed(out, HeaderSize, i)
        BY <4>1, <1>0 DEF IndInv, MovedBlocksPlaced
      <4>6. /\ \A k \in 0..(size - 1) : HeaderSize + imageEnd[i - 1] + k >= HeaderSize + imageEnd[i - 1]
            /\ \A k \in 0..(zeroes - 1) : HeaderSize + imageEnd[i - 1] + size + k >= HeaderSize + imageEnd[i - 1]
        BY <2>1, <2>2
      <4> QED
        BY <4>4, <4>5, <4>6, <2>5 DEF Placed, size, zeroes
    <3> QED
      BY <3>1, <3>2
  <2> QED
    BY <2>6, <1>0 DEF Placed, size, zeroes
<1>l. LoaderRight'
  BY <1>0 DEF IndInv, LoaderRight, Placed
<1> QED
  BY <1>t, <1>s, <1>c, <1>u, <1>k, <1>m, <1>l DEF IndInv

(* The loader's allocation keeps the invariant.                            *)
LEMMA LoaderAllocatesInv == IndInv /\ LoaderAllocates => IndInv'
<1> SUFFICES ASSUME IndInv, LoaderAllocates PROVE IndInv'
  OBVIOUS
<1>0. /\ UNCHANGED <<blocks, room, pc, summed, dataEnd, imageEnd, left, srcDataCursor,
                     outDataCursor, out, loaded, srcData, destData>>
      /\ summed = NumBlocks /\ loaderPc = "idle" /\ loaderPc' = "copy"
      /\ result' = [a \in 0..(imageEnd[NumBlocks] - 1) |-> Zero]
  BY DEF LoaderAllocates, sumVars, patcherVars
<1>1. loaded = 0
  BY <1>0 DEF IndInv, LoaderRight
<1>t. TypeOK'
  <2>1. result' \in [0..(imageEnd'[NumBlocks] - 1) -> Nat \cup {Zero}]
    BY <1>0
  <2> QED
    BY <2>1, <1>0 DEF IndInv, TypeOK, Address, Block
<1>p. /\ SumsRight' /\ BlocksCover' /\ CursorsRight' /\ UnreadIntact' /\ TailIntact'
      /\ MovedBlocksPlaced'
  BY <1>0 DEF IndInv, SumsRight, BlocksCover, CursorsRight, UnreadIntact, TailIntact,
              MovedBlocksPlaced, Placed, Address
<1>l. LoaderRight'
  BY <1>0, <1>1 DEF IndInv, LoaderRight, SumsRight
<1> QED
  BY <1>t, <1>p, <1>l DEF IndInv

(* Loading a block keeps it.                                               *)
LEMMA LoadBlockInv == IndInv /\ LoadBlock => IndInv'
<1> SUFFICES ASSUME IndInv, LoadBlock PROVE IndInv'
  OBVIOUS
<1> DEFINE size == blocks[loaded + 1].dataSize
           zeroes == blocks[loaded + 1].zeroSize
<1>0. /\ UNCHANGED <<blocks, room, pc, summed, dataEnd, imageEnd, left, srcDataCursor,
                     outDataCursor, out, loaderPc>>
      /\ loaderPc = "copy" /\ loaded < NumBlocks /\ loaded' = loaded + 1
      /\ srcData' = srcData + size /\ destData' = destData + size + zeroes
  BY DEF LoadBlock, sumVars, patcherVars
<1>1. /\ summed = NumBlocks /\ loaded \in Nat
      /\ loaded + 1 \in 1..NumBlocks /\ loaded \in 0..NumBlocks /\ loaded + 1 \in 0..NumBlocks
      /\ NumBlocks \in 0..NumBlocks
      /\ srcData = dataEnd[loaded] /\ destData = imageEnd[loaded]
      /\ srcData \in Nat /\ destData \in Nat
  BY <1>0 DEF IndInv, TypeOK, LoaderRight
<1>2. size \in Nat /\ zeroes \in Nat
  <2>1. blocks[loaded + 1] \in [dataSize : Sizes, zeroSize : Sizes]
    BY <1>1 DEF IndInv, TypeOK, Block
  <2> QED
    BY <2>1
<1>3. /\ dataEnd[loaded + 1] = dataEnd[loaded] + size
      /\ imageEnd[loaded + 1] = imageEnd[loaded] + size + zeroes
      /\ imageEnd[loaded + 1] <= imageEnd[NumBlocks]
  <2>1. (loaded + 1) - 1 = loaded /\ loaded + 1 <= NumBlocks
    BY <1>1
  <2> QED
    BY <2>1, <1>1 DEF IndInv, SumsRight
<1>4. /\ dataEnd \in [0..NumBlocks -> Nat] /\ imageEnd \in [0..NumBlocks -> Nat]
      /\ imageEnd[NumBlocks] \in Nat
  BY <1>1 DEF IndInv, TypeOK
<1> DEFINE Image == 0..(imageEnd[NumBlocks] - 1)
<1>5. result \in [Image -> Nat \cup {Zero}]
  BY <1>0 DEF IndInv, TypeOK
<1> HIDE DEF size, zeroes
<1>6. /\ result' \in [Image -> Nat \cup {Zero}]
      /\ \A a \in Image :
            result'[a] = IF a \in (destData + size)..(destData + size + zeroes - 1) THEN Zero
                         ELSE IF a \in destData..(destData + size - 1)
                              THEN HeaderSize + srcData + (a - destData)
                              ELSE result[a]
  <2> DEFINE copy == [a \in Image |-> IF a \in destData..(destData + size - 1)
                                      THEN HeaderSize + srcData + (a - destData)
                                      ELSE result[a]]
  <2>1. result' = Cleared(copy, destData + size, zeroes)
    BY <1>5 DEF LoadBlock, size, zeroes
  <2>2. result' = [a \in Image |-> IF a \in (destData + size)..(destData + size + zeroes - 1)
                                   THEN Zero ELSE copy[a]]
    BY <2>1 DEF Cleared
  <2>3. ASSUME NEW a \in Image PROVE copy[a] \in Nat \cup {Zero}
    <3>1. a \in Int /\ result[a] \in Nat \cup {Zero}
      BY <1>5
    <3>2. a \in destData..(destData + size - 1) => HeaderSize + srcData + (a - destData) \in Nat
      BY <3>1, <1>1, <1>2
    <3> QED
      BY <3>1, <3>2
  <2>4. \A a \in Image : copy[a] = IF a \in destData..(destData + size - 1)
                                   THEN HeaderSize + srcData + (a - destData) ELSE result[a]
    OBVIOUS
  <2> HIDE DEF copy
  <2>5. result' \in [Image -> Nat \cup {Zero}]
    BY <2>2, <2>3
  <2> QED
    BY <2>2, <2>4, <2>5
<1> HIDE DEF Image
<1>t. TypeOK'
  <2>1. result' \in [0..(imageEnd'[NumBlocks] - 1) -> Nat \cup {Zero}]
    BY <1>0, <1>6 DEF Image
  <2>2. loaded' \in 0..NumBlocks /\ srcData' \in Nat /\ destData' \in Nat
    BY <1>0, <1>1, <1>2
  <2> QED
    BY <2>1, <2>2, <1>0 DEF IndInv, TypeOK, Address, Block
<1>p. /\ SumsRight' /\ BlocksCover' /\ CursorsRight' /\ UnreadIntact' /\ TailIntact'
      /\ MovedBlocksPlaced'
  BY <1>0 DEF IndInv, SumsRight, BlocksCover, CursorsRight, UnreadIntact, TailIntact,
              MovedBlocksPlaced, Placed, Address
<1>l. LoaderRight'
  <2>1. ASSUME NEW i \in 1..(loaded + 1)
        PROVE  Placed(result, 0, i)'
    <3> DEFINE isize == blocks[i].dataSize
               izeroes == blocks[i].zeroSize
    <3>0. i \in 1..NumBlocks /\ i \in 0..NumBlocks /\ i - 1 \in 0..NumBlocks /\ i - 1 \in Nat
      BY <1>1
    <3>1. isize \in Nat /\ izeroes \in Nat
      <4>1. blocks[i] \in [dataSize : Sizes, zeroSize : Sizes]
        BY <3>0 DEF IndInv, TypeOK, Block
      <4> QED
        BY <4>1
    <3>2. imageEnd[i - 1] \in Nat /\ dataEnd[i - 1] \in Nat /\ imageEnd[i] \in Nat
      BY <3>0, <1>4
    <3>3. /\ imageEnd[i] = imageEnd[i - 1] + isize + izeroes
          /\ imageEnd[i] <= imageEnd[NumBlocks]
      BY <3>0, <1>1 DEF IndInv, SumsRight
    <3> HIDE DEF isize, izeroes
    <3>4. /\ \A k \in 0..(isize - 1) : 0 + imageEnd[i - 1] + k \in Image
          /\ \A k \in 0..(izeroes - 1) : 0 + imageEnd[i - 1] + isize + k \in Image
      <4> DEFINE start == imageEnd[i - 1]
                 end == imageEnd[NumBlocks]
      <4>1. start \in Nat /\ end \in Nat /\ start + isize + izeroes <= end
        BY <3>2, <3>3, <1>4
      <4> HIDE DEF start, end
      <4>2. /\ \A k \in 0..(isize - 1) : 0 + start + k \in 0..(end - 1)
            /\ \A k \in 0..(izeroes - 1) : 0 + start + isize + k \in 0..(end - 1)
        BY <3>1, <4>1
      <4> QED
        BY <4>2 DEF Image, start, end
    <3>5. /\ \A k \in 0..(isize - 1) :
                result'[0 + imageEnd[i - 1] + k] = HeaderSize + dataEnd[i - 1] + k
          /\ \A k \in 0..(izeroes - 1) : result'[0 + imageEnd[i - 1] + isize + k] = Zero
      <4>1. CASE i = loaded + 1
        <5>1. isize = size /\ izeroes = zeroes /\ imageEnd[i - 1] = destData /\ dataEnd[i - 1] = srcData
          BY <4>1, <1>1 DEF isize, izeroes, size, zeroes
        <5> QED
          BY <5>1, <3>1, <3>4, <1>1, <1>6
      <4>2. CASE i # loaded + 1
        <5>1. i \in 1..loaded /\ i <= loaded
          BY <4>2, <1>1
        <5>2. imageEnd[i] <= destData
          BY <5>1, <3>0, <1>1 DEF IndInv, SumsRight
        <5>3. Placed(result, 0, i)
          BY <5>1, <1>0 DEF IndInv, LoaderRight
        <5>4. ASSUME NEW a \in Image, a < destData
              PROVE  result'[a] = result[a]
          <6>1. a \in Int
            BY <1>4 DEF Image
          <6>2. /\ ~(a \in (destData + size)..(destData + size + zeroes - 1))
                /\ ~(a \in destData..(destData + size - 1))
            BY <5>4, <6>1, <1>1, <1>2
          <6> QED
            BY <6>2, <1>6
        <5>5. /\ \A k \in 0..(isize - 1) : 0 + imageEnd[i - 1] + k < destData
              /\ \A k \in 0..(izeroes - 1) : 0 + imageEnd[i - 1] + isize + k < destData
          BY <5>2, <3>1, <3>2, <3>3, <1>1
        <5> QED
          BY <5>3, <5>4, <5>5, <3>4 DEF Placed, isize, izeroes
      <4> QED
        BY <4>1, <4>2
    <3> QED
      BY <3>5, <1>0 DEF Placed, isize, izeroes
  <2>2. srcData' = dataEnd'[loaded'] /\ destData' = imageEnd'[loaded']
    BY <1>0, <1>1, <1>3
  <2> QED
    BY <2>1, <2>2, <1>0, <1>1 DEF LoaderRight
<1> QED
  BY <1>t, <1>p, <1>l DEF IndInv

(* Every other step changes a place only.                                  *)
LEMMA PlaceStepInv == IndInv /\ (SumDone \/ MoveDone \/ LoaderDone) => IndInv'
<1>1. ASSUME IndInv, SumDone PROVE IndInv'
  <2>0. /\ UNCHANGED <<blocks, room, summed, dataEnd, imageEnd, left, srcDataCursor, outDataCursor,
                       out, loaderPc, loaded, srcData, destData, result>>
        /\ pc = "sum" /\ pc' = "check" /\ summed = NumBlocks
    BY <1>1 DEF SumDone, sumVars, loaderVars
  <2>1. TypeOK'
    BY <1>1, <2>0 DEF IndInv, TypeOK, Address, Block
  <2>2. SumsRight' /\ BlocksCover' /\ LoaderRight'
    BY <1>1, <2>0 DEF IndInv, SumsRight, BlocksCover, LoaderRight, Placed
  <2>3. CursorsRight' /\ MovedBlocksPlaced' /\ UnreadIntact' /\ TailIntact'
    BY <1>1, <2>0 DEF IndInv, CursorsRight, MovedBlocksPlaced, UnreadIntact, TailIntact, Address
  <2> QED
    BY <2>1, <2>2, <2>3 DEF IndInv
<1>2. ASSUME IndInv, MoveDone PROVE IndInv'
  <2>0. /\ UNCHANGED <<blocks, room, summed, dataEnd, imageEnd, left, srcDataCursor, outDataCursor,
                       out, loaderPc, loaded, srcData, destData, result>>
        /\ pc = "move" /\ pc' = "done" /\ left = 0
    BY <1>2 DEF MoveDone, sumVars, loaderVars, patcherVars
  <2>1. TypeOK'
    BY <1>2, <2>0 DEF IndInv, TypeOK, Address, Block
  <2>2. SumsRight' /\ BlocksCover' /\ LoaderRight'
    BY <1>2, <2>0 DEF IndInv, SumsRight, BlocksCover, LoaderRight, Placed
  <2>3. CursorsRight' /\ MovedBlocksPlaced' /\ UnreadIntact' /\ TailIntact'
    BY <1>2, <2>0 DEF IndInv, CursorsRight, MovedBlocksPlaced, UnreadIntact, TailIntact, Placed, Address
  <2> QED
    BY <2>1, <2>2, <2>3 DEF IndInv
<1>3. ASSUME IndInv, LoaderDone PROVE IndInv'
  <2>0. /\ UNCHANGED <<blocks, room, summed, dataEnd, imageEnd, left, srcDataCursor, outDataCursor,
                       out, pc, loaded, srcData, destData, result>>
        /\ loaderPc = "copy" /\ loaderPc' = "done" /\ loaded = NumBlocks
    BY <1>3 DEF LoaderDone, sumVars, loaderVars, patcherVars
  <2>1. TypeOK'
    BY <1>3, <2>0 DEF IndInv, TypeOK, Address, Block
  <2>2. SumsRight' /\ BlocksCover' /\ LoaderRight'
    BY <1>3, <2>0 DEF IndInv, SumsRight, BlocksCover, LoaderRight, Placed
  <2>3. CursorsRight' /\ MovedBlocksPlaced' /\ UnreadIntact' /\ TailIntact'
    BY <1>3, <2>0 DEF IndInv, CursorsRight, MovedBlocksPlaced, UnreadIntact, TailIntact, Placed, Address
  <2> QED
    BY <2>1, <2>2, <2>3 DEF IndInv
<1> QED
  BY <1>1, <1>2, <1>3

(* The inductive invariant of both decompressions: nothing is written below *)
(* the patcher's write cursor, which never falls behind its read cursor.    *)
THEOREM Invariant == Spec => []IndInv
<1>1. IndInv /\ [Next]_vars => IndInv'
  <2> SUFFICES ASSUME IndInv, [Next]_vars PROVE IndInv'
    OBVIOUS
  <2>1. CASE SumBlock
    BY <2>1, SumBlockInv
  <2>2. CASE CheckRoom
    BY <2>2, CheckRoomInv
  <2>3. CASE MoveBlock
    BY <2>3, MoveBlockInv
  <2>4. CASE LoaderAllocates
    BY <2>4, LoaderAllocatesInv
  <2>5. CASE LoadBlock
    BY <2>5, LoadBlockInv
  <2>6. CASE SumDone \/ MoveDone \/ LoaderDone
    BY <2>6, PlaceStepInv
  <2>7. CASE UNCHANGED vars
    BY <2>7 DEF vars, sumVars, patcherVars, loaderVars, IndInv, TypeOK, SumsRight, BlocksCover,
                CursorsRight, UnreadIntact, TailIntact, MovedBlocksPlaced, LoaderRight, Placed,
                Address, Block
  <2> QED
    BY <2>1, <2>2, <2>3, <2>4, <2>5, <2>6, <2>7 DEF Next, Finished
<1> QED
  BY InitInv, <1>1, PTL DEF Spec

(* Every variable keeps its type: no cursor falls below 0.                 *)
THEOREM TypeCorrect == Spec => []TypeOK
<1>1. IndInv => TypeOK
  BY DEF IndInv
<1> QED
  BY <1>1, Invariant, PTL

(* The patcher's decompression in place is right for every block table.    *)
THEOREM InPlace == Spec => []DecompressedInPlace
<1>1. IndInv => DecompressedInPlace
  BY DEF IndInv, DecompressedInPlace, MovedBlocksPlaced, CursorsRight, Block
<1> QED
  BY <1>1, Invariant, PTL

(* It writes nowhere but in the image, and not at all when it refuses.     *)
THEOREM NothingElseWritten == Spec => []RestUntouched
<1>1. IndInv => RestUntouched
  <2> SUFFICES ASSUME IndInv, NEW a \in Address,
                      a < HeaderSize \/ a >= HeaderSize + imageEnd[NumBlocks] \/ pc = "invalid"
               PROVE  out[a] = a
    BY DEF RestUntouched
  <2>1. CASE pc \in {"sum", "check", "invalid"}
    BY <2>1 DEF IndInv, UnreadIntact
  <2>2. CASE a >= HeaderSize + imageEnd[NumBlocks]
    BY <2>2 DEF IndInv, TailIntact
  <2>3. CASE pc \in {"move", "done"} /\ a < HeaderSize
    <3>1. outDataCursor = HeaderSize + imageEnd[left] /\ imageEnd[left] \in Nat /\ a \in Int
      BY <2>3 DEF IndInv, TypeOK, CursorsRight, Address
    <3> QED
      BY <2>3, <3>1 DEF IndInv, UnreadIntact
  <2> QED
    BY <2>1, <2>2, <2>3 DEF IndInv, TypeOK
<1> QED
  BY <1>1, Invariant, PTL

(* Patcher and loader make the same image of the same blocks.              *)
THEOREM PatcherAgreesWithLoader == Spec => []SameImage
<1>1. IndInv => SameImage
  <2> SUFFICES ASSUME IndInv, pc = "done", loaderPc = "done", NEW a \in DOMAIN result
               PROVE  out[HeaderSize + a] = result[a]
    BY DEF SameImage
  <2>1. summed = NumBlocks /\ left = 0 /\ loaded = NumBlocks
    BY DEF IndInv, SumsRight, CursorsRight, LoaderRight
  <2>2. a \in 0..(imageEnd[NumBlocks] - 1)
    BY DEF IndInv, TypeOK
  <2>3. PICK i \in 1..NumBlocks : imageEnd[i - 1] <= a /\ a < imageEnd[i]
    BY <2>1, <2>2 DEF IndInv, BlocksCover
  <2>4. Placed(out, HeaderSize, i) /\ Placed(result, 0, i)
    BY <2>1 DEF IndInv, MovedBlocksPlaced, LoaderRight
  <2> DEFINE size == blocks[i].dataSize
             zeroes == blocks[i].zeroSize
             start == imageEnd[i - 1]
  <2>5. /\ size \in Nat /\ zeroes \in Nat /\ start \in Nat /\ a \in Nat
        /\ imageEnd[i] = start + size + zeroes
    <3>1. blocks[i] \in [dataSize : Sizes, zeroSize : Sizes]
      BY DEF IndInv, TypeOK, Block
    <3>2. i - 1 \in 0..NumBlocks /\ i \in 1..summed
      BY <2>1
    <3>3. imageEnd[i - 1] \in Nat /\ imageEnd[NumBlocks] \in Nat
      BY <3>2 DEF IndInv, TypeOK
    <3>4. imageEnd[i] = start + size + zeroes
      BY <3>2 DEF IndInv, SumsRight
    <3>5. size \in Nat /\ zeroes \in Nat
      BY <3>1
    <3> QED
      BY <3>3, <3>4, <3>5, <2>2
  <2>6. /\ \A k \in 0..(size - 1) : out[HeaderSize + start + k] = result[0 + start + k]
        /\ \A k \in 0..(zeroes - 1) : out[HeaderSize + start + size + k] = result[0 + start + size + k]
    BY <2>4 DEF Placed
  <2>7. start <= a /\ a < start + size + zeroes
    BY <2>3, <2>5
  <2> HIDE DEF size, zeroes, start
  <2>8. CASE a < start + size
    <3>1. a - start \in 0..(size - 1) /\ 0 + start + (a - start) = a
          /\ HeaderSize + start + (a - start) = HeaderSize + a
      BY <2>5, <2>7, <2>8
    <3> QED
      BY <3>1, <2>6
  <2>9. CASE ~(a < start + size)
    <3>1. a - start - size \in 0..(zeroes - 1) /\ 0 + start + size + (a - start - size) = a
          /\ HeaderSize + start + size + (a - start - size) = HeaderSize + a
      BY <2>5, <2>7, <2>9
    <3> QED
      BY <3>1, <2>6
  <2> QED
    BY <2>8, <2>9
<1> QED
  BY <1>1, Invariant, PTL
==============================================================================
