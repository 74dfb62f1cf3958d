--------------------------------- MODULE Boot ---------------------------------
(***************************************************************************)
(* From main to the running game: Memory, LdrLoadModule with its           *)
(* BinaryReader, Image::ParseImage, Xex2LoadImage and the XDBF wrapper.    *)
(*                                                                         *)
(* Memory is in words.  A word is <<what, n, order>>: word n of the        *)
(* executable or of an import thunk, with its bytes in guest or host       *)
(* order.  Decompression is one step (BasicDecompress takes BASIC apart),  *)
(* and what the console, pads and the log do is left out.                  *)
(***************************************************************************)
EXTENDS Integers, Sequences, FiniteSets, Xdbf

CONSTANTS
    LoadAddress,    \* image base
    ImageSize,      \* words of the image
    ThunkWords,     \* 4 in the code
    SectionSets,    \* the RVAs that an executable's sections may have
    MaxImports,     \* bound on the import descriptors
    Databases,      \* resources that an executable without imports may have (a bound:
                    \* nothing relates the two)
    Entry           \* an entry point

ASSUME BootAssumption ==
    /\ {LoadAddress, ImageSize, ThunkWords, MaxImports, Entry} \subseteq Nat
    /\ Entry # 0 /\ ThunkWords > 0
    /\ SectionSets \subseteq SUBSET Nat

ASSUME DatabasesAssumption == \A db \in Databases : Packable(db)

Word == 0..(ImageSize - 1)
GuestAddress == 0..(LoadAddress + ImageSize - 1)

(* What an executable says of itself.  Its imports are descriptors, each    *)
(* with the word firstThunk is the address of; functions are the words      *)
(* whose thunk data has a type, known those whose ordinal the export tables *)
(* list.                                                                    *)
Files ==
    UNION {[entry : {0, Entry}, sections : SectionSets, imports : {is},
            functions : SUBSET {is[i] : i \in DOMAIN is}, known : {{}, Word}] :
               is \in UNION {[1..n -> Word] : n \in 0..MaxImports}}

NoDatabase == [size |-> 0, signed |-> FALSE, blocks |-> <<>>, spare |-> 0, free |-> 0]

NoFile == [entry |-> 0, sections |-> {}, imports |-> <<>>, functions |-> {}, known |-> {}]

VARIABLES
    pc,
    base,       \* g_memory.base is set
    file,       \* what the image's executable says; NoFile if it is empty
    m_file,     \* the reader's file is open
    data,       \* what the vector holds of it
    image,      \* image.data, from LoadAddress on; <<>> if there is none
    sections,   \* image.sections
    resolved,   \* import descriptors done
    symbols,    \* image.symbols, each [address, size]
    resource,   \* what is at image.resource_offset
    guest,      \* guest memory around the image
    wrapper,    \* g_xdbfWrapper
    entry       \* what LdrLoadModule has returned

imageVars == <<image, sections, resolved, symbols, resource>>
vars == <<pc, base, file, m_file, data, imageVars, guest, wrapper, entry>>

Zero == <<"zero", 0, "guest">>
Lost == <<"lost", 0, "guest">>
Contents == {Zero, Lost} \cup ({"exe", "thunk"} \X Nat \X {"guest", "host"})

TypeOK ==
    /\ pc \in {"memory", "heap", "open", "read", "close", "parse", "xex", "sections",
               "imports", "copy", "wrap", "start", "running", "loop", "exited", "fault"}
    /\ base \in BOOLEAN /\ m_file \in BOOLEAN
    /\ file \in Files \cup {NoFile}
    /\ data \in {"none", "empty", "cut", "whole"}
    /\ image # <<>> => DOMAIN image = Word /\ \A w \in Word : image[w] \in Contents
    /\ sections \subseteq [base : Nat, data : Nat]
    /\ resolved \in 0..Len(file.imports)
    /\ symbols \subseteq [address : GuestAddress, size : {ThunkWords}]
    /\ resource \in Databases \cup {NoDatabase}
    /\ wrapper \in {NoWrapper, XDBFWrapper(resource)}
    /\ DOMAIN guest = GuestAddress /\ \A a \in GuestAddress : guest[a] \in Contents
    /\ entry \in {0, Entry}
    /\ m_file <=> pc = "read"

Init ==
    /\ pc = "memory" /\ base = FALSE
    /\ file = NoFile /\ m_file = FALSE /\ data = "none"
    /\ image = <<>> /\ sections = {} /\ resolved = 0 /\ symbols = {}
    /\ resource = NoDatabase
    /\ guest = [a \in GuestAddress |-> Zero]
    /\ wrapper = NoWrapper /\ entry = 0

Goto(from, to) == pc = from /\ pc' = to

-----------------------------------------------------------------------------
(* Memory and heaps *)

MallocMemory ==
    /\ Goto("memory", "heap")
    /\ base' \in BOOLEAN
    /\ UNCHANGED <<file, m_file, data, imageVars, guest, wrapper, entry>>

(* main reports a null base, carries on, and o1heapInit writes its instance *)
(* to where the heap would be.                                              *)
HeapInit ==
    /\ Goto("heap", IF base THEN "open" ELSE "fault")
    /\ UNCHANGED <<base, file, m_file, data, imageVars, guest, wrapper, entry>>

-----------------------------------------------------------------------------
(* BinaryReader *)

(* LdrLoadModule returns 0 on every failure below. *)
OpenModule ==
    /\ \/ Goto("open", "read") /\ m_file' = TRUE
       \/ Goto("open", "start") /\ UNCHANGED m_file
    /\ UNCHANGED <<base, file, data, imageVars, guest, wrapper, entry>>

(* Faulty: what fread returns is not looked at. *)
ReadModule_Short ==
    /\ \/ Goto("read", "start") /\ UNCHANGED data
       \/ Goto("read", "close") /\ data' \in {"empty", "cut", "whole"}
    /\ m_file' = FALSE
    /\ UNCHANGED <<base, file, imageVars, guest, wrapper, entry>>

(* ReadAll, and Close on either path *)
ReadModule ==
    /\ \/ Goto("read", "start") /\ data' \in {"none", "cut"}
       \/ Goto("read", "close") /\ data' \in {"empty", "whole"}
    /\ m_file' = FALSE
    /\ UNCHANGED <<base, file, imageVars, guest, wrapper, entry>>

TestEmpty ==
    /\ Goto("close", IF data = "empty" THEN "start" ELSE "parse")
    /\ UNCHANGED <<base, file, m_file, data, imageVars, guest, wrapper, entry>>

-----------------------------------------------------------------------------
(* Image *)

Exe(w) == IF data = "cut" /\ w > ImageSize \div 2 THEN Lost ELSE <<"exe", w, "guest">>

(* The first four bytes decide.  A file that is neither ELF nor XEX2 makes *)
(* an empty image.  An ELF file is its own image, and has no imports; one  *)
(* of little-endian data fails an assertion, and a section without a name  *)
(* makes a string view of null.                                            *)
ParseImage ==
    /\ \/ \E f \in Files : file' = f /\ Goto("parse", "xex") /\ UNCHANGED image
       \/ \E f \in {g \in Files : g.imports = <<>>} :
             file' = f /\ Goto("parse", "copy") /\ image' = [w \in Word |-> Exe(w)]
       \/ Goto("parse", "copy") /\ UNCHANGED <<file, image>>
       \/ Goto("parse", "fault") /\ UNCHANGED <<file, image>>
    /\ UNCHANGED <<base, m_file, data, sections, resolved, symbols, resource, guest, wrapper, entry>>

(* A block that does not hash, or LZX that fails, makes an empty image.    *)
(* Without a file format, or with one that is not NONE, BASIC or NORMAL,   *)
(* the image has no data and its DOS header is read through null.          *)
Decompress ==
    /\ \/ /\ Goto("xex", "sections") /\ image' = [w \in Word |-> Exe(w)] /\ UNCHANGED file
          /\ resource' \in {NoDatabase} \cup (IF file.imports = <<>> THEN Databases ELSE {})
       \/ Goto("xex", "copy") /\ file' = NoFile /\ UNCHANGED <<image, resource>>
       \/ Goto("xex", "fault") /\ UNCHANGED <<file, image, resource>>
    /\ UNCHANGED <<base, m_file, data, sections, resolved, symbols, guest, wrapper, entry>>

(* Faulty: a section's data is sought behind the data of those before it. *)
Map_Packed(rva) == [base |-> LoadAddress + rva,
                    data |-> Cardinality({r \in file.sections : r < rva})]

Map(rva) == [base |-> LoadAddress + rva, data |-> rva]

MapSections ==
    /\ Goto("sections", "imports")
    /\ sections' = {Map(rva) : rva \in file.sections}
    /\ UNCHANGED <<base, file, m_file, data, image, resolved, symbols, resource, guest, wrapper, entry>>

(* std::prev(upper_bound(address)) *)
SectionBefore(address) ==
    CHOOSE s \in sections : /\ s.base <= address
                            /\ \A r \in sections : r.base <= address => r.base <= s.base

Find(address) == LET s == SectionBefore(address) IN s.data + (address - s.base)

ByteSwap(c) == <<c[1], c[2], IF c[3] = "guest" THEN "host" ELSE "guest">>

(* Whether swapped thunk data has a type: the file says so of its own words. *)
HasType(c) ==
    IF c[1] = "exe" /\ c[3] = "host" THEN {c[2] \in file.functions} ELSE BOOLEAN

Findable(address) == \E s \in sections : s.base <= address

(* The word at a descriptor's address, or the thunk it begins, which may    *)
(* reach past the end of the image.                                         *)
ResolveAt(address, at) ==
    LET swapped == [image EXCEPT ![at] = ByteSwap(@)]
        thunked == [w \in Word |-> IF w \in at..(at + ThunkWords - 1)
                                   THEN <<"thunk", w - at, "guest">> ELSE swapped[w]]
    IN
    \E function \in HasType(swapped[at]) :
       /\ image' = IF function THEN thunked ELSE swapped
       /\ symbols' = IF function /\ at \in file.known
                     THEN symbols \cup {[address |-> address, size |-> ThunkWords]} ELSE symbols
       /\ pc' = IF function /\ at + ThunkWords > ImageSize THEN "fault" ELSE pc

(* One descriptor.  Before the first section std::prev has nothing to give. *)
ResolveImport ==
    LET address == LoadAddress + file.imports[resolved + 1] IN
    /\ pc = "imports" /\ resolved < Len(file.imports) /\ Findable(address)
    /\ resolved' = resolved + 1
    /\ ResolveAt(address, Find(address))
    /\ UNCHANGED <<base, file, m_file, data, sections, resource, guest, wrapper, entry>>

FindFaults ==
    /\ resolved < Len(file.imports)
    /\ ~Findable(LoadAddress + file.imports[resolved + 1])
    /\ Goto("imports", "fault")
    /\ UNCHANGED <<base, file, m_file, data, imageVars, guest, wrapper, entry>>

ImportsDone ==
    /\ resolved = Len(file.imports)
    /\ Goto("imports", "copy")
    /\ UNCHANGED <<base, file, m_file, data, imageVars, guest, wrapper, entry>>

-----------------------------------------------------------------------------
(* The rest of LdrLoadModule and main *)

(* An empty image has size 0. *)
CopyImage ==
    /\ Goto("copy", "wrap")
    /\ guest' = IF image = <<>> THEN guest
                ELSE [a \in GuestAddress |->
                         IF a >= LoadAddress THEN image[a - LoadAddress] ELSE guest[a]]
    /\ UNCHANGED <<base, file, m_file, data, imageVars, wrapper, entry>>

(* Faulty: the entry point is taken for an offset into the image. *)
WrapResource_EntryIsRva ==
    /\ Goto("wrap", "start")
    /\ wrapper' = XDBFWrapper(resource)
    /\ entry' = IF file.entry = 0 THEN 0 ELSE LoadAddress + file.entry
    /\ UNCHANGED <<base, file, m_file, data, imageVars, guest>>

WrapResource ==
    /\ Goto("wrap", "start")
    /\ wrapper' = XDBFWrapper(resource)
    /\ entry' = file.entry
    /\ UNCHANGED <<base, file, m_file, data, imageVars, guest>>

(* main tests no entry, and GuestThread::Start calls whatever the table has *)
(* for it, on main's own thread.  The table ends at guest 0, so 0 has no    *)
(* function in it; another entry has one if the recompiled game has it.     *)
StartGame ==
    /\ \/ Goto("start", "running") /\ entry # 0
       \/ Goto("start", "fault")
    /\ UNCHANGED <<base, file, m_file, data, imageVars, guest, wrapper, entry>>

GameReturns ==
    /\ Goto("running", "loop")
    /\ UNCHANGED <<base, file, m_file, data, imageVars, guest, wrapper, entry>>

(* The loop ends when the applet does or Plus is pressed. *)
Exit ==
    /\ Goto("loop", "exited")
    /\ UNCHANGED <<base, file, m_file, data, imageVars, guest, wrapper, entry>>

Finished == pc \in {"exited", "fault"} /\ UNCHANGED vars

Next ==
    \/ MallocMemory \/ HeapInit
    \/ OpenModule \/ ReadModule \/ TestEmpty
    \/ ParseImage \/ Decompress \/ MapSections
    \/ ResolveImport \/ FindFaults \/ ImportsDone
    \/ CopyImage \/ WrapResource \/ StartGame \/ GameReturns \/ Exit
    \/ Finished

Spec == Init /\ [][Next]_vars

-----------------------------------------------------------------------------
(* Properties *)

Started == {"running", "loop", "exited"}

Imported == {file.imports[i] : i \in DOMAIN file.imports}
Covered(w) == IF w \in file.functions THEN w..(w + ThunkWords - 1) ELSE {w}

(* A linker's import table: no two descriptors reach the same word. *)
ImportsDisjoint ==
    \A i, j \in DOMAIN file.imports :
        i # j => Covered(file.imports[i]) \cap Covered(file.imports[j]) = {}

(* SymbolTable::find: equal_range by the address has left out every symbol *)
(* that begins elsewhere before any is asked whether it reaches there.     *)
SymbolsFound(address) ==
    {s \in symbols : s.address = address /\ address < s.address + s.size}

(* What an import's word, or any other, should be once imports are resolved. *)
Resolved(w) ==
    IF \E f \in file.functions : w \in Covered(f)
    THEN <<"thunk", w - (CHOOSE f \in file.functions : w \in Covered(f)), "guest">>
    ELSE <<"exe", w, IF w \in Imported THEN "host" ELSE "guest">>

(* The game runs only on a whole executable: no failure before it, of       *)
(* memory, of a read or of a decompression, ends in a running game, and     *)
(* every word behind the entry was read from the file or made a thunk       *)
(* (main.cpp:29-50, fs_helpers.cpp:136).                                    *)
GameWhole ==
    pc \in Started =>
        /\ entry # 0 /\ entry = file.entry /\ base
        /\ \A w \in Word : guest[LoadAddress + w][1] \in {"exe", "thunk"}

(* When no two import descriptors overlap, guest memory has each function's *)
(* thunk code, each variable's data swapped once, all else as in the file,  *)
(* and the symbol table finds the known functions, each at its first word; whatever *)
(* sections the imports lie in or between (image.cpp:15, xex.cpp:334-351,   *)
(* symbol_table.h:14).                                                     *)
ImportsResolved ==
    pc = "running" /\ image # <<>> /\ ImportsDisjoint =>
        /\ \A w \in Word : guest[LoadAddress + w] = Resolved(w)
        /\ \A a \in GuestAddress :
              SymbolsFound(a) # {} <=> a - LoadAddress \in file.functions \cap file.known

(* A wrapper that has kept its buffer answers every search with what was    *)
(* packed: the first text and achievement with the id, in the language      *)
(* asked for, and an achievement's own image, provided that the table of    *)
(* entries is full (xdbf_wrapper.cpp:23, 49-151).                           *)
LookupsAnswer ==
    pc = "start" /\ wrapper.pBuffer /\ resource.spare = 0 =>
        LET bytes == Structures(resource) IN
        \A language \in 1..2 :
            LET all == PackedAchievements(resource, language) IN
            /\ GetAchievements(bytes, wrapper, language) = all
            /\ \A id \in 1..3 :
                  /\ GetString(bytes, wrapper, language, id) = PackedText(resource, language, id)
                  /\ LET a == GetAchievement(bytes, wrapper, language, id)
                         has == {n \in DOMAIN all : all[n].id = id}
                     IN  IF has = {} THEN a = NoAchievement
                         ELSE \E n \in has : a = all[n] /\ \A k \in has : n <= k

(***************************************************************************)
(* The inductive strengthening: what main and LdrLoadModule know of the    *)
(* image at each step.                                                     *)
(***************************************************************************)
BeforeImage == {"memory", "heap", "open", "read", "close", "parse"}
AfterImage  == {"copy", "wrap", "start", "running", "loop", "exited"}

Intact == {"exe", "thunk"} \X Nat \X {"guest", "host"}

(* How far the steps have come: memory, the file, its image, the entry.     *)
Progress ==
    /\ pc \notin {"memory", "heap", "fault"} => base
    /\ pc = "close" => data \in {"empty", "whole"}
    /\ pc \in {"parse", "xex"} => data = "whole"
    /\ pc \in BeforeImage => file = NoFile
    /\ pc \in {"xex", "sections", "imports"} => file \in Files
    /\ pc \in BeforeImage \cup {"xex"} => image = <<>>
    /\ pc \in BeforeImage \cup {"xex", "sections"} => resolved = 0 /\ symbols = {}
    /\ pc = "imports" => sections = {Map(rva) : rva \in file.sections}
    /\ pc \in AfterImage /\ image # <<>> => resolved = Len(file.imports)
    /\ pc \notin Started \cup {"start", "fault"} => entry = 0 /\ wrapper = NoWrapper
    /\ pc \in Started => entry # 0
    /\ entry # 0 => entry = file.entry

(* Every word of the image was read from the file or is a thunk's, and the  *)
(* copy in guest memory is the image.                                       *)
ImageIntact ==
    /\ image # <<>> => \A w \in Word : image[w] \in Intact
    /\ pc \in {"sections", "imports"} => DOMAIN image = Word
    /\ pc \in AfterImage /\ file.entry # 0 => DOMAIN image = Word
    /\ pc \in {"wrap", "start", "running", "loop", "exited"} /\ image # <<>> =>
          \A w \in Word : guest[LoadAddress + w] = image[w]

(* The functions among the imports that are done, and all words of theirs.  *)
DoneFunctions == {file.imports[i] : i \in 1..resolved} \cap file.functions

(* Where no two imports reach the same word, each one done is resolved and  *)
(* nothing else has changed.                                                *)
ImportsSoFar ==
    image # <<>> /\ ImportsDisjoint /\ pc # "fault" =>
        /\ \A i \in 1..resolved :
              IF file.imports[i] \in file.functions
              THEN \A w \in Covered(file.imports[i]) :
                      w \in Word /\ image[w] = <<"thunk", w - file.imports[i], "guest">>
              ELSE image[file.imports[i]] = <<"exe", file.imports[i], "host">>
        /\ \A w \in Word :
              (\A i \in 1..resolved : w \notin Covered(file.imports[i])) => image[w] = <<"exe", w, "guest">>
        /\ symbols = {[address |-> LoadAddress + w, size |-> ThunkWords] :
                         w \in DoneFunctions \cap file.known}

(* What every step of the boot may rely on.                                 *)
IndInv ==
    /\ TypeOK
    /\ Progress
    /\ ImageIntact
    /\ ImportsSoFar
==============================================================================
