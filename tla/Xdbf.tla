--------------------------------- MODULE Xdbf ---------------------------------
(***************************************************************************)
(* XDBFWrapper: its constructor and its searches for resources, strings    *)
(* and achievements, walking over the bytes of a resource.                 *)
(*                                                                         *)
(* The bytes are kept as the structures that start at them, with their     *)
(* real sizes; a pointer that stands on none reads garbage.  A database    *)
(* says what was packed: blocks, each of a namespace and an id, behind a   *)
(* table with some spare entries and a table of free space.                *)
(***************************************************************************)
EXTENDS Integers, Sequences, FiniteSetsExt

HeaderSize      == 24   \* XDBFHeader
EntrySize       == 18   \* XDBFEntry, packed
FreeSpaceSize   == 8    \* XDBFFreeSpaceEntry
TableHeaderSize == 14   \* XSTRHeader and XACHHeader, packed
StringSize      == 4    \* XSTREntry, before its text
AchievementSize == 36   \* XACHEntry

Metadata == 1
Images   == 2
Strings  == 3
XACH     == 0           \* the id of the achievements

Text(id, length, text) == [kind |-> "string", id |-> id, length |-> length, text |-> text]
Achievement(id, nameID, unlockedDescID, lockedDescID, imageID) ==
    [kind |-> "achievement", id |-> id, nameID |-> nameID, unlockedDescID |-> unlockedDescID,
     lockedDescID |-> lockedDescID, imageID |-> imageID]
Block(ns, id, items) == [ns |-> ns, id |-> id, items |-> items]

Items ==
    [kind : {"string"}, id : Nat, length : Nat, text : STRING]
      \cup [kind : {"achievement"}, id : Nat, nameID : Nat, unlockedDescID : Nat,
            lockedDescID : Nat, imageID : Nat]
      \cup [kind : {"data"}, length : Nat]

(* The searches cast what they find: the namespace says what a block has.  *)
Packable(db) ==
    /\ {db.spare, db.free} \subseteq Nat
    /\ db.blocks \in Seq([ns : Nat, id : Nat, items : Seq(Items)])
    /\ \A n \in DOMAIN db.blocks : \A i \in DOMAIN db.blocks[n].items :
          LET block == db.blocks[n] IN
          /\ block.ns = Strings => block.items[i].kind = "string"
          /\ block.ns = Metadata /\ block.id = XACH => block.items[i].kind = "achievement"

ItemSize(item) ==
    CASE item.kind = "string" -> StringSize + item.length
      [] item.kind = "achievement" -> AchievementSize
      [] OTHER -> item.length

(* Where the n-th of things of these sizes begins, the first one at base. *)
Offset(base, sizes, n) ==
    LET at[i \in 1..(Len(sizes) + 1)] == IF i = 1 THEN base ELSE at[i - 1] + sizes[i - 1]
    IN  at[n]

ItemOffset(items, n) == Offset(TableHeaderSize, [i \in DOMAIN items |-> ItemSize(items[i])], n)

Length(block) == ItemOffset(block.items, Len(block.items) + 1)

BlockOffset(db, n) ==
    Offset(0, [i \in DOMAIN db.blocks |-> Length(db.blocks[i])], n)

(* Where the blocks begin: behind both whole tables. *)
ContentOffset(db) ==
    HeaderSize + EntrySize * (Len(db.blocks) + db.spare) + FreeSpaceSize * db.free

EntryOf(db, n) == [kind |-> "entry", ns |-> db.blocks[n].ns, id |-> db.blocks[n].id,
                   offset |-> BlockOffset(db, n), length |-> Length(db.blocks[n])]
TableOf(db, n) == [kind |-> "table", count |-> Len(db.blocks[n].items)]

Structures(db) ==
    {<<HeaderSize + EntrySize * (n - 1), EntryOf(db, n)>> : n \in DOMAIN db.blocks}
      \cup {<<ContentOffset(db) + BlockOffset(db, n), TableOf(db, n)>> : n \in DOMAIN db.blocks}
      \cup UNION {{<<ContentOffset(db) + BlockOffset(db, n) + ItemOffset(db.blocks[n].items, i),
                     db.blocks[n].items[i]>> : i \in DOMAIN db.blocks[n].items} :
                  n \in DOMAIN db.blocks}

Garbage == [kind |-> "garbage", id |-> 0, length |-> 0, text |-> "garbage"]

(* What stands at a pointer into the structures of a database. *)
StructureAt(bytes, pointer, kind) ==
    LET there == {s \in bytes : s[1] = pointer /\ s[2].kind = kind}
    IN  IF there = {} THEN Garbage ELSE (CHOOSE s \in there : TRUE)[2]

-----------------------------------------------------------------------------
NoWrapper == [pBuffer |-> FALSE, pEntries |-> 0, count |-> 0, pContent |-> 0]

(* The entries are passed over by their count, not by the length of their  *)
(* table; the free space is, by its table's.                               *)
XDBFWrapper(db) ==
    IF db.size <= HeaderSize \/ ~db.signed THEN NoWrapper
    ELSE [pBuffer  |-> TRUE, pEntries |-> HeaderSize, count |-> Len(db.blocks),
          pContent |-> HeaderSize + EntrySize * Len(db.blocks) + FreeSpaceSize * db.free]

(* The first of the indices at which a loop over 1.. finds what it seeks. *)
First(hits) == IF hits = {} THEN 0 ELSE Min(hits)

NoBlock == [pBuffer |-> 0, length |-> 0]

GetResource(bytes, w, ns, id) ==
    LET EntryAt(n) == StructureAt(bytes, w.pEntries + EntrySize * (n - 1), "entry")
        hit == First({n \in 1..w.count : EntryAt(n).ns = ns /\ EntryAt(n).id = id})
    IN  IF hit = 0 THEN NoBlock
        ELSE [pBuffer |-> w.pContent + EntryAt(hit).offset, length |-> EntryAt(hit).length]

Count(bytes, block) ==
    LET table == StructureAt(bytes, block.pBuffer, "table")
    IN  IF table.kind = "table" THEN table.count ELSE 0

(* Faulty: the text of an entry that is passed over is not. *)
GetString_TextNotSkipped(bytes, w, language, id) ==
    LET block == GetResource(bytes, w, Strings, language)
        count == Count(bytes, block)
        EntryAt(seek) == StructureAt(bytes, seek, "string")
        seek[i \in 1..count] ==
            IF i = 1 THEN block.pBuffer + TableHeaderSize
            ELSE seek[i - 1] + StringSize
        hit == First({i \in 1..count : EntryAt(seek[i]).id = id \/ EntryAt(seek[i]) = Garbage})
    IN  IF block = NoBlock \/ hit = 0 THEN "" ELSE EntryAt(seek[hit]).text

GetString(bytes, w, language, id) ==
    LET block == GetResource(bytes, w, Strings, language)
        count == Count(bytes, block)
        EntryAt(seek) == StructureAt(bytes, seek, "string")
        seek[i \in 1..count] ==
            IF i = 1 THEN block.pBuffer + TableHeaderSize
            ELSE seek[i - 1] + StringSize + EntryAt(seek[i - 1]).length
        hit == First({i \in 1..count : EntryAt(seek[i]).id = id \/ EntryAt(seek[i]) = Garbage})
    IN  IF block = NoBlock \/ hit = 0 THEN "" ELSE EntryAt(seek[hit]).text

Entries(bytes, w) ==
    LET block == GetResource(bytes, w, Metadata, XACH) IN
    [n \in 1..(IF block = NoBlock THEN 0 ELSE Count(bytes, block)) |->
        StructureAt(bytes, block.pBuffer + TableHeaderSize + AchievementSize * (n - 1), "achievement")]

(* An entry with its texts in one language, and its image. *)
Told(bytes, w, language, entry) ==
    [id |-> entry.id, name |-> GetString(bytes, w, language, entry.nameID),
     unlockedDesc |-> GetString(bytes, w, language, entry.unlockedDescID),
     lockedDesc |-> GetString(bytes, w, language, entry.lockedDescID),
     image |-> GetResource(bytes, w, Images, entry.imageID)]

NoAchievement ==
    [id |-> 0, name |-> "", unlockedDesc |-> "", lockedDesc |-> "", image |-> NoBlock]

GetAchievements(bytes, w, language) ==
    [n \in DOMAIN Entries(bytes, w) |-> Told(bytes, w, language, Entries(bytes, w)[n])]

GetAchievement(bytes, w, language, id) ==
    LET hit == First({n \in DOMAIN Entries(bytes, w) : Entries(bytes, w)[n].id = id})
    IN  IF hit = 0 THEN NoAchievement ELSE Told(bytes, w, language, Entries(bytes, w)[hit])

-----------------------------------------------------------------------------
(* What was packed *)

Packed(db, ns, id) ==
    First({n \in DOMAIN db.blocks : db.blocks[n].ns = ns /\ db.blocks[n].id = id})

PackedText(db, language, id) ==
    LET n == Packed(db, Strings, language)
        items == IF n = 0 THEN <<>> ELSE db.blocks[n].items
        i == First({j \in DOMAIN items : items[j].id = id})
    IN  IF i = 0 THEN "" ELSE items[i].text

PackedImage(db, id) ==
    LET n == Packed(db, Images, id) IN
    IF n = 0 THEN NoBlock
    ELSE [pBuffer |-> ContentOffset(db) + BlockOffset(db, n), length |-> Length(db.blocks[n])]

PackedAchievements(db, language) ==
    LET n == Packed(db, Metadata, XACH)
        Tell(a) == [id |-> a.id, name |-> PackedText(db, language, a.nameID),
                    unlockedDesc |-> PackedText(db, language, a.unlockedDescID),
                    lockedDesc |-> PackedText(db, language, a.lockedDescID),
                    image |-> PackedImage(db, a.imageID)]
    IN  IF n = 0 THEN <<>> ELSE [i \in DOMAIN db.blocks[n].items |-> Tell(db.blocks[n].items[i])]
==============================================================================
