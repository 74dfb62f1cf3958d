------------------------------ MODULE MCXexBlocks ------------------------------
(* XexBlocks for TLC: every file of up to two blocks and two items. *)
EXTENDS XexBlocks, SequencesExt

Three == 3

Info(size, matches) == [kind |-> "info", size |-> size, matches |-> matches]
Chunk(length) == [kind |-> "chunk", length |-> length]
Record(compressed, length, old, new) ==
    [kind |-> "record", compressedLength |-> compressed, uncompressedLength |-> length,
     oldAddress |-> old, newAddress |-> new]

-----------------------------------------------------------------------------
(* A file from its blocks: their items, bytes behind them that nothing may *)
(* read, and whether the hash matches.                                     *)

BlockSize(block) ==
    FoldLeft(LAMBDA size, item : size + Size(item), BlockHeader + block.slack, block.items)

InfoOf(blocks, i) ==
    IF i \in 1..Len(blocks) THEN Info(BlockSize(blocks[i]), blocks[i].matches) ELSE Info(0, TRUE)

Place(placed, item) ==
    [at |-> placed.at + Size(item), items |-> Append(placed.items, <<placed.at, item>>)]

Layout(what, blocks) ==
    LET PlaceBlock(placed, i) ==
            LET start == IF what = "header" THEN placed ELSE Place(placed, InfoOf(blocks, i + 1))
                full  == FoldLeft(Place, start, blocks[i].items)
            IN  [full EXCEPT !.at = full.at + blocks[i].slack]
        first == Place([at |-> -BlockHeader, items |-> <<>>], InfoOf(blocks, 1))
    IN  Place(FoldLeft(PlaceBlock, first, [i \in 1..Len(blocks) |-> i]), EndOfFile).items

File(what, blocks) == [kind |-> what, layout |-> Layout(what, blocks)]

-----------------------------------------------------------------------------

AllRecords ==
    {Record(c, n, o, a) : c \in {0, 1, 3}, n \in 1..2, o \in 0..2, a \in 0..2}
Fitting == {r \in AllRecords : r.oldAddress + r.uncompressedLength <= Three
                            /\ r.newAddress + r.uncompressedLength <= Three}

Items(items, slack, matches) == [items |-> items, slack |-> slack, matches |-> matches]

(* With its terminator, and then bytes nobody may look at, or without. *)
RecordBlocks(items) == {Items(Append(items, EndOfPatch), 12, TRUE), Items(items, 0, TRUE)}
ChunkBlock(lengths, matches) ==
    Items([i \in 1..(Len(lengths) + 1) |-> IF i <= Len(lengths) THEN Chunk(lengths[i]) ELSE EndOfChunks],
          5, matches)

Singles == {<<r>> : r \in Fitting}
Pairs   == {<<r, s>> : r \in Fitting, s \in Fitting}

Headers ==
    {File("header", <<Items(Append(rs, EndOfPatch), 52, TRUE)>>) : rs \in Pairs}
      \cup {File("header", <<Items(r, 52, TRUE)>>) : r \in Singles}

Deltas ==
    LET one == UNION {RecordBlocks(rs) : rs \in Singles} IN
    {File("delta", <<b>>) : b \in UNION {RecordBlocks(rs) : rs \in Pairs}}
      \cup {File("delta", <<b, [c EXCEPT !.matches = ok]>>) :
               b \in one, c \in one, ok \in BOOLEAN}

Lengths == {<<>>} \cup {<<m>> : m \in 1..3} \cup {<<m, n>> : m \in 1..3, n \in 1..3}

Normals ==
    {File("normal", <<ChunkBlock(s, ok)>>) : s \in Lengths, ok \in BOOLEAN}
      \cup {File("normal", <<Items(<<Chunk(2)>>, 5, TRUE)>>),
            File("normal", <<ChunkBlock(<<1>>, TRUE), Items(<<Chunk(2)>>, 5, TRUE)>>)}
      \cup {File("normal", <<ChunkBlock(s, TRUE), ChunkBlock(t, ok)>>) :
               s \in Lengths, t \in Lengths, ok \in BOOLEAN}

Files == Headers \cup Deltas \cup Normals \cup {File(what, <<>>) : what \in {"delta", "normal"}}
Windows == {0, 1, 2, 4, 5}
Bits == {0, 2}
==============================================================================
