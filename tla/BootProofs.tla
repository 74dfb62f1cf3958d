------------------------------- MODULE BootProofs -------------------------------
(***************************************************************************)
(* Proofs about Boot, for images of any size, thunks of any length, any    *)
(* sections and any number of imports.                                     *)
(***************************************************************************)
EXTENDS Boot, TLAPS, WellFoundedInduction

-----------------------------------------------------------------------------
(* Files and sections *)

LEMMA FilesAre ==
    ASSUME NEW f \in Files
    PROVE  /\ f.entry \in {0, Entry} /\ f.sections \in SectionSets
           /\ f.imports \in Seq(Word) /\ Len(f.imports) \in Nat
           /\ DOMAIN f.imports = 1..Len(f.imports)
           /\ \A i \in DOMAIN f.imports : f.imports[i] \in Word
           /\ f.functions \subseteq {f.imports[i] : i \in DOMAIN f.imports}
<1>1. PICK is \in UNION {[1..n -> Word] : n \in 0..MaxImports} :
         f \in [entry : {0, Entry}, sections : SectionSets, imports : {is},
                functions : SUBSET {is[i] : i \in DOMAIN is}, known : {{}, Word}]
  BY DEF Files
<1>2. PICK n \in 0..MaxImports : is \in [1..n -> Word]
  BY <1>1
<1>3. n \in Nat /\ is \in Seq(Word) /\ Len(is) = n /\ DOMAIN is = 1..n
  BY <1>2, BootAssumption
<1>4. f.imports = is /\ f.functions \in SUBSET {is[i] : i \in DOMAIN is}
      /\ f.entry \in {0, Entry} /\ f.sections \in SectionSets
  BY <1>1
<1>5. QED
  BY <1>2, <1>3, <1>4

LEMMA NoFileIs ==
    NoFile.entry = 0 /\ NoFile.imports = <<>> /\ NoFile.functions = {} /\ Len(NoFile.imports) = 0
  BY DEF NoFile

(* Every nonempty set of numbers has a least one. *)
LEMMA LeastNatural ==
    ASSUME NEW T, T \subseteq Nat, T # {}
    PROVE  \E n \in T : \A m \in T : n <= m
<1>1. PICK n \in T : \A m \in T : ~(<<m, n>> \in OpToRel(<, Nat))
  BY NatLessThanWellFounded, WFMin
<1>2. \A m \in T : ~(m < n)
  BY <1>1 DEF OpToRel
<1>3. QED
  BY <1>2

(* The section that std::prev(upper_bound(address)) is of: the last one to *)
(* begin no later.                                                         *)
LEMMA LastSection ==
    ASSUME NEW rvas \in SUBSET Nat, sections = {Map(rva) : rva \in rvas},
           NEW address \in Nat, Findable(address)
    PROVE  \E rva \in rvas : SectionBefore(address) = Map(rva) /\ LoadAddress + rva <= address
<1> LoadAddress \in Nat
  BY BootAssumption
<1> DEFINE T == {address - (LoadAddress + rva) : rva \in {r \in rvas : LoadAddress + r <= address}}
<1>1. T \subseteq Nat
  OBVIOUS
<1>2. T # {}
  BY DEF Findable, Map
<1>3. PICK n \in T : \A m \in T : n <= m
  BY <1>1, <1>2, LeastNatural
<1>4. PICK rva \in rvas : LoadAddress + rva <= address /\ n = address - (LoadAddress + rva)
  BY <1>3
<1>5. /\ Map(rva) \in sections /\ Map(rva).base <= address
      /\ \A r \in sections : r.base <= address => r.base <= Map(rva).base
  <2>1. Map(rva) \in sections /\ Map(rva).base = LoadAddress + rva
    BY <1>4 DEF Map
  <2>2. ASSUME NEW r \in sections, r.base <= address PROVE r.base <= Map(rva).base
    <3>1. PICK q \in rvas : r = Map(q) /\ r.base = LoadAddress + q
      BY DEF Map
    <3>2. n <= address - (LoadAddress + q)
      BY <1>3, <2>2, <3>1
    <3>3. QED
      BY <1>4, <2>1, <3>1, <3>2
  <2>3. QED
    BY <1>4, <2>1, <2>2
<1>6. /\ SectionBefore(address) \in sections /\ SectionBefore(address).base <= address
  BY <1>5 DEF SectionBefore
<1>7. PICK q \in rvas : SectionBefore(address) = Map(q)
  BY <1>6
<1>8. QED
  BY <1>6, <1>7 DEF Map

(* Wherever the sections lie, Find leads to the image's own word. *)
LEMMA FindIsExact ==
    ASSUME NEW rvas \in SUBSET Nat, sections = {Map(rva) : rva \in rvas},
           NEW w \in Nat, Findable(LoadAddress + w)
    PROVE  Find(LoadAddress + w) = w
<1>1. LoadAddress \in Nat /\ LoadAddress + w \in Nat
  BY BootAssumption
<1>2. PICK rva \in rvas : SectionBefore(LoadAddress + w) = Map(rva)
  BY <1>1, LastSection
<1>3. QED
  BY <1>1, <1>2 DEF Find, Map

-----------------------------------------------------------------------------
(* The first state *)

LEMMA InitInv == Init => IndInv
<1> SUFFICES ASSUME Init PROVE IndInv
  OBVIOUS
<1>1. pc = "memory" /\ base = FALSE /\ file = NoFile /\ m_file = FALSE /\ data = "none"
  BY DEF Init
<1>2. image = <<>> /\ sections = {} /\ resolved = 0 /\ symbols = {} /\ entry = 0
  BY DEF Init
<1>3. DOMAIN guest = GuestAddress /\ \A a \in GuestAddress : guest[a] = Zero
  BY DEF Init
<1>4. Zero \in Contents
  BY DEF Contents
<1>5. resource \in Databases \cup {NoDatabase} /\ wrapper = NoWrapper
  BY DEF Init
<1>6. TypeOK
  <2>1. /\ m_file <=> pc = "read"
        /\ base \in BOOLEAN /\ m_file \in BOOLEAN
    BY <1>1
  <2>2. \A a \in GuestAddress : guest[a] \in Contents
    BY <1>3, <1>4, Zenon
  <2>3. resolved \in 0..Len(file.imports)
    BY <1>1, <1>2, NoFileIs
  <2>4. QED
    BY <1>1, <1>2, <1>3, <1>5, <2>1, <2>2, <2>3 DEF TypeOK
<1>7. Progress /\ ImageIntact
  BY <1>1, <1>2, <1>5 DEF Progress, ImageIntact, BeforeImage, AfterImage, Started
<1>8. ImportsSoFar
  BY <1>1, <1>2 DEF ImportsSoFar
<1>9. QED
  BY <1>6, <1>7, <1>8 DEF IndInv

-----------------------------------------------------------------------------
(* What the steps that make an image make of it *)

LEMMA WordsAre ==
    /\ LoadAddress \in Nat /\ ImageSize \in Nat /\ ThunkWords \in Nat /\ ThunkWords > 0
    /\ Entry \in Nat /\ Entry # 0
    /\ \A w \in Word : w \in Nat /\ LoadAddress + w \in GuestAddress
    /\ \A w \in Word : <<"exe", w, "guest">> \in Intact
    /\ Intact \subseteq Contents /\ Zero \in Contents
<1>1. /\ LoadAddress \in Nat /\ ImageSize \in Nat /\ ThunkWords \in Nat /\ ThunkWords > 0
      /\ Entry \in Nat /\ Entry # 0
  BY BootAssumption
<1>2. \A w \in Word : w \in Nat /\ LoadAddress + w \in GuestAddress
  BY <1>1 DEF Word, GuestAddress
<1>3. \A w \in Word : <<"exe", w, "guest">> \in Intact
  BY <1>2 DEF Intact
<1>4. Intact \subseteq Contents /\ Zero \in Contents
  BY DEF Intact, Contents
<1>5. QED
  BY <1>1, <1>2, <1>3, <1>4

(* A file that was read to its end decompresses to its own words. *)
LEMMA FreshImage ==
    ASSUME data = "whole", image' = [w \in Word |-> Exe(w)]
    PROVE  /\ DOMAIN image' = Word
           /\ \A w \in Word : image'[w] = <<"exe", w, "guest">>
           /\ \A w \in Word : image'[w] \in Intact
           /\ Word = {} <=> image' = <<>>
<1>1. DOMAIN image' = Word /\ \A w \in Word : image'[w] = <<"exe", w, "guest">>
  BY DEF Exe
<1>2. \A w \in Word : image'[w] \in Intact
  BY <1>1, WordsAre
<1>3. Word = {} => image' = <<>>
  OBVIOUS
<1>4. image' = <<>> => Word = {}
  BY <1>1
<1>5. QED
  BY <1>1, <1>2, <1>3, <1>4

(* Resolving the import at a word writes this word, or the thunk it begins. *)
Resolves(at, function) ==
    /\ at = file.imports[resolved + 1] /\ resolved + 1 \in DOMAIN file.imports
    /\ resolved' = resolved + 1
    /\ function \in HasType(ByteSwap(image[at]))
    /\ DOMAIN image' = Word
    /\ \A w \in Word :
          image'[w] = IF function /\ w \in at..(at + ThunkWords - 1)
                      THEN <<"thunk", w - at, "guest">>
                      ELSE IF w = at THEN ByteSwap(image[at]) ELSE image[w]
    /\ symbols' = IF function /\ at \in file.known
                  THEN symbols \cup {[address |-> LoadAddress + at, size |-> ThunkWords]}
                  ELSE symbols
    /\ pc' = IF function /\ at + ThunkWords > ImageSize THEN "fault" ELSE "imports"

LEMMA ResolveWrites ==
    ASSUME IndInv, ResolveImport
    PROVE  \E at \in Word : \E function \in BOOLEAN : Resolves(at, function)
<1>1. pc = "imports" /\ resolved < Len(file.imports)
  BY DEF ResolveImport
<1>2. /\ file \in Files /\ sections = {Map(rva) : rva \in file.sections}
      /\ resolved \in 0..Len(file.imports) /\ DOMAIN image = Word
  BY <1>1 DEF IndInv, TypeOK, Progress, ImageIntact
<1>3. resolved + 1 \in DOMAIN file.imports
  BY <1>1, <1>2, FilesAre
<1>4. PICK at \in Word : at = file.imports[resolved + 1]
  BY <1>2, <1>3, FilesAre
<1>5. Find(LoadAddress + file.imports[resolved + 1]) = at
  <2>1. file.sections \in SUBSET Nat
    BY <1>2, FilesAre, BootAssumption
  <2>2. Findable(LoadAddress + at) /\ at \in Nat
    BY <1>4, WordsAre DEF ResolveImport
  <2>3. QED
    BY <1>2, <1>4, <2>1, <2>2, FindIsExact
<1>6. ResolveAt(LoadAddress + at, at)
  BY <1>4, <1>5 DEF ResolveImport
<1>7. PICK swapped : swapped = [image EXCEPT ![at] = ByteSwap(@)]
  OBVIOUS
<1>8. /\ DOMAIN swapped = Word /\ swapped[at] = ByteSwap(image[at])
      /\ \A w \in Word : w # at => swapped[w] = image[w]
  BY <1>2, <1>7
<1>9. PICK function \in HasType(swapped[at]) :
         /\ image' = IF function
                     THEN [w \in Word |-> IF w \in at..(at + ThunkWords - 1)
                                          THEN <<"thunk", w - at, "guest">> ELSE swapped[w]]
                     ELSE swapped
         /\ symbols' = IF function /\ at \in file.known
                       THEN symbols \cup {[address |-> LoadAddress + at, size |-> ThunkWords]}
                       ELSE symbols
         /\ pc' = IF function /\ at + ThunkWords > ImageSize THEN "fault" ELSE pc
  BY <1>6, <1>7, Zenon DEF ResolveAt
<1>10. resolved' = resolved + 1
  BY DEF ResolveImport
<1>11. function \in BOOLEAN
  <2>1. HasType(swapped[at]) \subseteq BOOLEAN
    <3>1. \/ (swapped[at][2] \in file.functions) = TRUE
          \/ (swapped[at][2] \in file.functions) = FALSE
      OBVIOUS
    <3>2. QED
      BY <3>1, Zenon DEF HasType
  <2>2. QED
    BY <2>1, <1>9, Zenon
<1>12. DOMAIN image' = Word
  BY <1>8, <1>9, <1>11
<1>13. ASSUME NEW w \in Word
       PROVE  image'[w] = IF function /\ w \in at..(at + ThunkWords - 1)
                          THEN <<"thunk", w - at, "guest">>
                          ELSE IF w = at THEN ByteSwap(image[at]) ELSE image[w]
  BY <1>8, <1>9, <1>11
<1>14. function \in HasType(ByteSwap(image[at]))
  BY <1>8, <1>9, Zenon
<1>15. /\ symbols' = IF function /\ at \in file.known
                     THEN symbols \cup {[address |-> LoadAddress + at, size |-> ThunkWords]}
                     ELSE symbols
       /\ pc' = IF function /\ at + ThunkWords > ImageSize THEN "fault" ELSE "imports"
  BY <1>1, <1>9, Zenon
<1>16. WITNESS at \in Word
<1>17. WITNESS function \in BOOLEAN
<1>18. QED
  BY <1>3, <1>4, <1>10, <1>12, <1>13, <1>14, <1>15, Zenon DEF Resolves

-----------------------------------------------------------------------------
(* The steps that leave the image as it is *)

(* With the file, the image and guest memory as they were, what is known   *)
(* of them is known at the next place too.                                 *)
LEMMA ImageStays ==
    ASSUME IndInv, UNCHANGED <<file, image, resolved, symbols, guest>>,
           \/ pc' = pc
           \/ pc' = "fault"
           \/ pc \in BeforeImage /\ pc' \in BeforeImage \cup {"start"}
           \/ pc = "sections" /\ pc' = "imports"
           \/ pc = "imports" /\ pc' = "copy"
           \/ pc = "wrap" /\ pc' = "start"
           \/ pc \in {"start", "running", "loop"} /\ pc' \in {"running", "loop", "exited"}
    PROVE  ImageIntact' /\ ImportsSoFar'
<1>1. ImageIntact'
  BY NoFileIs DEF IndInv, ImageIntact, Progress, BeforeImage, AfterImage
<1>2. ImportsSoFar'
  <2>1. SUFFICES ASSUME pc' # "fault" PROVE ImportsSoFar'
    BY DEF ImportsSoFar
  <2>2. pc # "fault"
    BY <2>1 DEF BeforeImage
  <2>3. /\ ImportsDisjoint' <=> ImportsDisjoint
        /\ DoneFunctions' = DoneFunctions
        /\ \A w : Covered(w)' = Covered(w)
    BY DEF ImportsDisjoint, DoneFunctions, Covered
  <2>4. QED
    BY <2>1, <2>2, <2>3 DEF IndInv, ImportsSoFar, Covered
<1>3. QED
  BY <1>1, <1>2

(* Up to the parsing of the file *)
LEMMA ReadingSteps ==
    ASSUME IndInv, MallocMemory \/ HeapInit \/ OpenModule \/ ReadModule \/ TestEmpty
    PROVE  IndInv'
<1>1. /\ pc \in BeforeImage /\ pc' \in BeforeImage \cup {"start", "fault"}
      /\ UNCHANGED <<file, image, sections, resolved, symbols, resource, guest, wrapper, entry>>
      /\ base' \in BOOLEAN /\ data' \in {"none", "empty", "cut", "whole"}
      /\ pc' \notin {"memory", "heap", "fault"} => base'
      /\ pc' = "close" => data' \in {"empty", "whole"}
      /\ pc' \in {"parse", "xex"} => data' = "whole"
  <2> USE DEF Goto, imageVars, BeforeImage, IndInv, Progress, TypeOK
  <2>1. CASE MallocMemory
    BY <2>1 DEF MallocMemory
  <2>2. CASE HeapInit
    <3>1. CASE base
      BY <2>2, <3>1 DEF HeapInit
    <3>2. CASE ~base
      BY <2>2, <3>2 DEF HeapInit
    <3>3. QED
      BY <3>1, <3>2
  <2>3. CASE OpenModule
    BY <2>3 DEF OpenModule
  <2>4. CASE ReadModule
    BY <2>4 DEF ReadModule
  <2>5. CASE TestEmpty
    <3>1. /\ pc = "close" /\ pc' = IF data = "empty" THEN "start" ELSE "parse"
          /\ UNCHANGED <<base, file, data, image, sections, resolved, symbols, resource, guest, wrapper, entry>>
      BY <2>5 DEF TestEmpty
    <3>2. base /\ base \in BOOLEAN /\ data \in {"none", "empty", "cut", "whole"} /\ data \in {"empty", "whole"}
      BY <3>1
    <3>3. QED
      BY <3>1, <3>2
  <2>6. QED
    BY <2>1, <2>2, <2>3, <2>4, <2>5
<1>2. m_file' \in BOOLEAN /\ (m_file' <=> pc' = "read")
  <2>1. m_file \in BOOLEAN /\ (m_file <=> pc = "read")
    BY DEF IndInv, TypeOK
  <2>2. CASE m_file' = m_file /\ pc # "read" /\ pc' # "read"
    BY <2>1, <2>2
  <2>3. CASE OpenModule \/ ReadModule
    <3>1. \/ pc' = "read" /\ m_file' = TRUE
          \/ pc = "open" /\ pc' = "start" /\ m_file' = m_file
          \/ pc' \in {"start", "close"} /\ m_file' = FALSE
      BY <2>3 DEF OpenModule, ReadModule, Goto
    <3>2. CASE pc = "open" /\ pc' = "start" /\ m_file' = m_file
      BY <2>2, <3>2
    <3>3. CASE pc' = "read" /\ m_file' = TRUE
      BY <3>3
    <3>4. CASE pc' \in {"start", "close"} /\ m_file' = FALSE
      BY <3>4
    <3>5. QED
      BY <3>1, <3>2, <3>3, <3>4
  <2>4. CASE MallocMemory \/ HeapInit \/ TestEmpty
    <3>1. m_file' = m_file /\ pc \in {"memory", "heap", "close"} /\ pc' # "read"
      BY <2>4 DEF MallocMemory, HeapInit, TestEmpty, Goto
    <3>2. QED
      BY <2>2, <3>1
  <2>5. QED
    BY <2>3, <2>4
<1>3. TypeOK'
  BY <1>1, <1>2 DEF IndInv, TypeOK, BeforeImage
<1>4. Progress'
  BY <1>1 DEF IndInv, Progress, BeforeImage, AfterImage, Started
<1>5. ImageIntact' /\ ImportsSoFar'
  BY <1>1, ImageStays DEF BeforeImage
<1>6. QED
  BY <1>3, <1>4, <1>5 DEF IndInv

(* From the last import on *)
LEMMA LaterSteps ==
    ASSUME IndInv, FindFaults \/ ImportsDone \/ WrapResource \/ StartGame \/ GameReturns \/ Exit
    PROVE  IndInv'
<1>1. /\ \/ pc = "imports" /\ pc' = "fault" /\ FindFaults /\ UNCHANGED <<wrapper, entry>>
         \/ pc = "imports" /\ pc' = "copy" /\ resolved = Len(file.imports) /\ UNCHANGED <<wrapper, entry>>
         \/ pc = "wrap" /\ pc' = "start" /\ wrapper' = XDBFWrapper(resource) /\ entry' = file.entry
         \/ /\ \/ pc = "start" /\ pc' = "fault"
               \/ pc = "start" /\ pc' = "running" /\ entry # 0
               \/ pc \in {"running", "loop"} /\ pc' \in {"loop", "exited"}
            /\ UNCHANGED <<wrapper, entry>>
      /\ UNCHANGED <<base, file, m_file, data, image, sections, resolved, symbols, resource, guest>>
  BY DEF FindFaults, ImportsDone, WrapResource, StartGame, GameReturns, Exit, Goto, imageVars
<1>2. file \in Files \cup {NoFile}
  BY DEF IndInv, TypeOK
<1>3. file.entry \in {0, Entry}
  BY <1>2, FilesAre, NoFileIs
<1>4. TypeOK'
  BY <1>1, <1>3 DEF IndInv, TypeOK
<1>5. Progress'
  BY <1>1 DEF IndInv, Progress, BeforeImage, AfterImage, Started, Map
<1>6. ImageIntact' /\ ImportsSoFar'
  BY <1>1, ImageStays
<1>7. QED
  BY <1>4, <1>5, <1>6 DEF IndInv

LEMMA NoStep == ASSUME IndInv, UNCHANGED vars PROVE IndInv'
<1>1. TypeOK' /\ Progress'
  BY DEF vars, imageVars, IndInv, TypeOK, Progress, Started, Map
<1>2. ImageIntact' /\ ImportsSoFar'
  BY ImageStays DEF vars, imageVars
<1>3. QED
  BY <1>1, <1>2 DEF IndInv

-----------------------------------------------------------------------------
(* The steps that make the image *)

(* Where no import is done yet, every word is as the file has it. *)
LEMMA FreshImports ==
    ASSUME resolved' = 0, symbols' = {}, \A w \in Word : image'[w] = <<"exe", w, "guest">>
    PROVE  ImportsSoFar'
<1>1. 1..resolved' = {}
  OBVIOUS
<1>2. DoneFunctions' = {}
  BY <1>1 DEF DoneFunctions
<1>3. QED
  BY <1>1, <1>2 DEF ImportsSoFar

LEMMA ParseStep == ASSUME IndInv, ParseImage PROVE IndInv'
<1>1. /\ pc = "parse" /\ data = "whole" /\ file = NoFile /\ image = <<>> /\ base
      /\ resolved = 0 /\ symbols = {} /\ entry = 0 /\ wrapper = NoWrapper
  BY DEF ParseImage, Goto, IndInv, Progress, BeforeImage, Started
<1>2. UNCHANGED <<base, m_file, data, sections, resolved, symbols, resource, guest, wrapper, entry>>
  BY DEF ParseImage
<1>3. /\ file' \in Files \cup {NoFile}
      /\ \/ pc' = "xex" /\ file' \in Files /\ image' = <<>>
         \/ pc' = "copy" /\ file'.imports = <<>> /\ image' = [w \in Word |-> Exe(w)]
         \/ pc' \in {"copy", "fault"} /\ file' = NoFile /\ image' = <<>>
  BY <1>1 DEF ParseImage, Goto
<1>4. Len(file'.imports) \in Nat /\ (file'.imports = <<>> => Len(file'.imports) = 0)
  <2>1. CASE file' \in Files
    BY <2>1, FilesAre
  <2>2. CASE file' = NoFile
    BY <2>2, NoFileIs
  <2>3. QED
    BY <1>3, <2>1, <2>2
<1>5. image' # <<>> => /\ DOMAIN image' = Word
                       /\ \A w \in Word : image'[w] = <<"exe", w, "guest">>
                       /\ \A w \in Word : image'[w] \in Intact
  BY <1>1, <1>3, FreshImage
<1>6. TypeOK'
  <2>1. image' # <<>> => \A w \in Word : image'[w] \in Contents
    BY <1>5, WordsAre
  <2>2. m_file' \in BOOLEAN /\ (m_file' <=> pc' = "read")
    BY <1>1, <1>2, <1>3 DEF IndInv, TypeOK
  <2>3. QED
    BY <1>1, <1>2, <1>3, <1>4, <1>5, <2>1, <2>2 DEF IndInv, TypeOK
<1>7. Progress'
  BY <1>1, <1>2, <1>3, <1>4 DEF Progress, BeforeImage, AfterImage, Started
<1>8. ImageIntact'
  <2>1. pc' = "copy" /\ file'.entry # 0 => DOMAIN image' = Word
    BY <1>3, NoFileIs
  <2>2. QED
    BY <1>3, <1>5, <2>1 DEF ImageIntact, AfterImage
<1>9. ImportsSoFar'
  <2>1. CASE image' = <<>>
    BY <2>1 DEF ImportsSoFar
  <2>2. CASE image' # <<>>
    BY <1>1, <1>2, <1>5, <2>2, FreshImports
  <2>3. QED
    BY <2>1, <2>2
<1>10. QED
  BY <1>6, <1>7, <1>8, <1>9 DEF IndInv

LEMMA DecompressStep == ASSUME IndInv, Decompress PROVE IndInv'
<1>1. /\ pc = "xex" /\ data = "whole" /\ file \in Files /\ image = <<>> /\ base
      /\ resolved = 0 /\ symbols = {} /\ entry = 0 /\ wrapper = NoWrapper
  BY DEF Decompress, Goto, IndInv, Progress, Started
<1>2. UNCHANGED <<base, m_file, data, sections, resolved, symbols, guest, wrapper, entry>>
  BY DEF Decompress
<1>3. /\ \/ pc' = "sections" /\ file' = file /\ image' = [w \in Word |-> Exe(w)]
         \/ pc' = "copy" /\ file' = NoFile /\ image' = <<>>
         \/ pc' = "fault" /\ file' = file /\ image' = <<>>
      /\ resource' \in Databases \cup {NoDatabase}
  BY <1>1 DEF Decompress, Goto, IndInv, TypeOK
<1>4. Len(file'.imports) \in Nat /\ (file' = NoFile => Len(file'.imports) = 0)
  BY <1>1, <1>3, FilesAre, NoFileIs
<1>5. pc' = "sections" => /\ DOMAIN image' = Word
                          /\ \A w \in Word : image'[w] = <<"exe", w, "guest">>
                          /\ \A w \in Word : image'[w] \in Intact
  BY <1>1, <1>3, FreshImage
<1>6. TypeOK'
  <2>1. image' # <<>> => DOMAIN image' = Word /\ \A w \in Word : image'[w] \in Contents
    BY <1>3, <1>5, WordsAre
  <2>2. m_file' \in BOOLEAN /\ (m_file' <=> pc' = "read")
    BY <1>1, <1>2, <1>3 DEF IndInv, TypeOK
  <2>3. QED
    BY <1>1, <1>2, <1>3, <1>4, <2>1, <2>2 DEF IndInv, TypeOK
<1>7. Progress'
  BY <1>1, <1>2, <1>3, <1>4 DEF Progress, BeforeImage, AfterImage, Started
<1>8. ImageIntact'
  BY <1>3, <1>5, NoFileIs DEF ImageIntact, AfterImage
<1>9. ImportsSoFar'
  <2>1. CASE image' = <<>>
    BY <2>1 DEF ImportsSoFar
  <2>2. CASE image' # <<>>
    BY <1>1, <1>2, <1>3, <1>5, <2>2, FreshImports
  <2>3. QED
    BY <2>1, <2>2
<1>10. QED
  BY <1>6, <1>7, <1>8, <1>9 DEF IndInv

LEMMA MapStep == ASSUME IndInv, MapSections PROVE IndInv'
<1>1. /\ pc = "sections" /\ pc' = "imports"
      /\ sections' = {Map(rva) : rva \in file.sections}
      /\ UNCHANGED <<base, file, m_file, data, image, resolved, symbols, resource, guest, wrapper, entry>>
  BY DEF MapSections, Goto
<1>2. file \in Files
  BY <1>1 DEF IndInv, Progress
<1>3. sections' \subseteq [base : Nat, data : Nat]
  <2>1. file.sections \in SUBSET Nat /\ LoadAddress \in Nat
    BY <1>2, FilesAre, BootAssumption
  <2>2. QED
    BY <1>1, <2>1 DEF Map
<1>4. TypeOK'
  <2>1. m_file' \in BOOLEAN /\ (m_file' <=> pc' = "read")
    BY <1>1 DEF IndInv, TypeOK
  <2>2. QED
    BY <1>1, <1>3, <2>1 DEF IndInv, TypeOK
<1>5. \A rva : Map(rva)' = Map(rva)
  BY DEF Map
<1>6. Progress'
  BY <1>1, <1>5 DEF IndInv, Progress, BeforeImage, AfterImage, Started
<1>7. ImageIntact' /\ ImportsSoFar'
  BY <1>1, ImageStays
<1>8. QED
  BY <1>4, <1>6, <1>7 DEF IndInv

LEMMA CopyStep == ASSUME IndInv, CopyImage PROVE IndInv'
<1>1. /\ pc = "copy" /\ pc' = "wrap"
      /\ UNCHANGED <<base, file, m_file, data, image, sections, resolved, symbols, resource, wrapper, entry>>
  BY DEF CopyImage, Goto, imageVars
<1>2. /\ DOMAIN guest = GuestAddress /\ \A a \in GuestAddress : guest[a] \in Contents
      /\ image # <<>> => DOMAIN image = Word /\ \A w \in Word : image[w] \in Contents
  BY DEF IndInv, TypeOK
<1>3. \A a \in GuestAddress : a >= LoadAddress => a - LoadAddress \in Word
  BY BootAssumption DEF GuestAddress, Word
<1>4. image # <<>> => guest' = [a \in GuestAddress |->
                         IF a >= LoadAddress THEN image[a - LoadAddress] ELSE guest[a]]
  BY DEF CopyImage
<1>5. image = <<>> => guest' = guest
  BY DEF CopyImage
<1>6. DOMAIN guest' = GuestAddress /\ \A a \in GuestAddress : guest'[a] \in Contents
  <2>1. CASE image = <<>>
    BY <1>2, <1>5, <2>1
  <2>2. CASE image # <<>>
    BY <1>2, <1>3, <1>4, <2>2
  <2>3. QED
    BY <2>1, <2>2
<1>7. image # <<>> => \A w \in Word : guest'[LoadAddress + w] = image[w]
  <2>1. SUFFICES ASSUME image # <<>>, NEW w \in Word PROVE guest'[LoadAddress + w] = image[w]
    OBVIOUS
  <2>2. LoadAddress + w \in GuestAddress /\ LoadAddress + w >= LoadAddress
        /\ (LoadAddress + w) - LoadAddress = w
    BY WordsAre
  <2>3. QED
    BY <1>4, <2>1, <2>2
<1>8. TypeOK'
  BY <1>1, <1>6 DEF IndInv, TypeOK
<1>9. Progress'
  BY <1>1 DEF IndInv, Progress, BeforeImage, AfterImage, Started
<1>10. ImageIntact'
  BY <1>1, <1>7 DEF IndInv, ImageIntact, AfterImage
<1>11. ImportsSoFar'
  <2>1. /\ ImportsDisjoint' <=> ImportsDisjoint
        /\ DoneFunctions' = DoneFunctions
        /\ \A w : Covered(w)' = Covered(w)
    BY <1>1 DEF ImportsDisjoint, DoneFunctions, Covered
  <2>2. QED
    BY <1>1, <2>1 DEF IndInv, ImportsSoFar, Covered
<1>12. QED
  BY <1>8, <1>9, <1>10, <1>11 DEF IndInv

-----------------------------------------------------------------------------
(* Resolving an import *)

LEMMA ResolveKeepsImports ==
    ASSUME IndInv, ResolveImport PROVE ImportsSoFar'
<1>1. SUFFICES ASSUME ImportsDisjoint, pc' # "fault" PROVE ImportsSoFar'
  <2>1. UNCHANGED file
    BY DEF ResolveImport
  <2>2. ImportsDisjoint' <=> ImportsDisjoint
    BY <2>1 DEF ImportsDisjoint, Covered
  <2>3. QED
    BY <1>1, <2>2 DEF ImportsSoFar
<1>2. PICK at \in Word : \E function \in BOOLEAN : Resolves(at, function)
  BY ResolveWrites
<1>3. PICK function \in BOOLEAN : Resolves(at, function)
  BY <1>2
<1> USE DEF Resolves
<1>4. /\ pc = "imports" /\ file \in Files /\ DOMAIN image = Word /\ image # <<>>
      /\ resolved \in Nat /\ resolved + 1 \in 1..Len(file.imports) /\ Len(file.imports) \in Nat
  <2>1. pc = "imports"
    BY DEF ResolveImport
  <2>2. file \in Files /\ DOMAIN image = Word /\ resolved \in 0..Len(file.imports)
    BY <2>1 DEF IndInv, TypeOK, Progress, ImageIntact
  <2>3. image # <<>>
    BY <2>2
  <2>4. QED
    BY <1>3, <2>1, <2>2, <2>3, FilesAre
<1>5. at \in Nat /\ ThunkWords \in Nat /\ ThunkWords > 0 /\ ImageSize \in Nat
  BY WordsAre
<1>6. /\ \A i \in 1..resolved :
              IF file.imports[i] \in file.functions
              THEN \A w \in Covered(file.imports[i]) :
                      w \in Word /\ image[w] = <<"thunk", w - file.imports[i], "guest">>
              ELSE image[file.imports[i]] = <<"exe", file.imports[i], "host">>
      /\ \A w \in Word :
              (\A i \in 1..resolved : w \notin Covered(file.imports[i])) => image[w] = <<"exe", w, "guest">>
      /\ symbols = {[address |-> LoadAddress + w, size |-> ThunkWords] :
                         w \in DoneFunctions \cap file.known}
  BY <1>1, <1>4 DEF IndInv, ImportsSoFar
<1>7. at \in Covered(at)
  BY <1>5 DEF Covered
<1>8. \A i \in 1..resolved : Covered(file.imports[i]) \cap Covered(at) = {}
  <2>1. SUFFICES ASSUME NEW i \in 1..resolved PROVE Covered(file.imports[i]) \cap Covered(at) = {}
    OBVIOUS
  <2>2. i \in DOMAIN file.imports /\ i # resolved + 1
    BY <1>4, <2>1, FilesAre
  <2>3. QED
    BY <1>1, <1>3, <2>2 DEF ImportsDisjoint
(* The word is still the file's own, and so it says whether it has a type. *)
<1>9. image[at] = <<"exe", at, "guest">>
  BY <1>6, <1>7, <1>8
<1>10. ByteSwap(image[at]) = <<"exe", at, "host">>
  BY <1>9 DEF ByteSwap
<1>11. function = (at \in file.functions)
  <2>1. PICK c : c = <<"exe", at, "host">>
    OBVIOUS
  <2>2. c[1] = "exe" /\ c[2] = at /\ c[3] = "host"
    BY <2>1
  <2>3. HasType(c) = {c[2] \in file.functions}
    BY <2>2 DEF HasType
  <2>4. function \in HasType(c)
    BY <1>3, <1>10, <2>1, Zenon
  <2>5. function = (c[2] \in file.functions)
    BY <2>3, <2>4, Zenon
  <2>6. QED
    BY <2>2, <2>5, Zenon
<1>12. Covered(at) \subseteq Word
  <2>1. CASE function
    <3>1. at + ThunkWords <= ImageSize
      BY <1>1, <1>3, <1>5, <2>1
    <3>2. Covered(at) = at..(at + ThunkWords - 1)
      BY <1>11, <2>1 DEF Covered
    <3>3. QED
      BY <1>5, <3>1, <3>2 DEF Word
  <2>2. CASE ~function
    BY <1>11, <2>2 DEF Covered
  <2>3. QED
    BY <2>1, <2>2
<1>13. \A w \in Word : w \notin Covered(at) => image'[w] = image[w]
  <2>1. SUFFICES ASSUME NEW w \in Word, w \notin Covered(at) PROVE image'[w] = image[w]
    OBVIOUS
  <2>2. w # at
    BY <1>7, <2>1
  <2>3. CASE function
    <3>1. w \notin at..(at + ThunkWords - 1)
      BY <1>11, <2>1, <2>3 DEF Covered
    <3>2. QED
      BY <1>3, <2>2, <3>1
  <2>4. CASE ~function
    BY <1>3, <2>2, <2>4
  <2>5. QED
    BY <2>3, <2>4
<1>14. IF at \in file.functions
       THEN \A w \in Covered(at) : image'[w] = <<"thunk", w - at, "guest">>
       ELSE image'[at] = <<"exe", at, "host">>
  <2>1. CASE at \in file.functions
    <3>1. function /\ Covered(at) = at..(at + ThunkWords - 1)
      BY <1>11, <2>1 DEF Covered
    <3>2. QED
      BY <1>3, <1>12, <2>1, <3>1
  <2>2. CASE at \notin file.functions
    <3>1. ~function
      BY <1>11, <2>2
    <3>2. QED
      BY <1>3, <1>10, <2>2, <3>1
  <2>3. QED
    BY <2>1, <2>2
<1>15. 1..resolved' = 1..resolved \cup {resolved + 1} /\ file' = file
  <2>1. file' = file
    BY DEF ResolveImport
  <2>2. QED
    BY <1>3, <1>4, <2>1
<1>16. \A w : Covered(w)' = Covered(w)
  BY <1>15 DEF Covered
<1>17. ASSUME NEW i \in 1..resolved'
       PROVE  IF file.imports[i] \in file.functions
              THEN \A w \in Covered(file.imports[i]) :
                      w \in Word /\ image'[w] = <<"thunk", w - file.imports[i], "guest">>
              ELSE image'[file.imports[i]] = <<"exe", file.imports[i], "host">>
  <2>1. CASE i = resolved + 1
    BY <1>3, <1>12, <1>14, <2>1
  <2>2. CASE i \in 1..resolved
    <3>1. PICK v : v = file.imports[i]
      OBVIOUS
    <3>2. Covered(v) \cap Covered(at) = {} /\ v \in Word
      BY <1>4, <1>8, <2>2, <3>1, FilesAre
    <3>3. CASE v \in file.functions
      <4>1. \A w \in Covered(v) : w \in Word /\ image[w] = <<"thunk", w - v, "guest">>
        BY <1>6, <2>2, <3>1, <3>3
      <4>2. \A w \in Covered(v) : w \in Word /\ image'[w] = <<"thunk", w - v, "guest">>
        BY <1>13, <3>2, <4>1
      <4>3. QED
        BY <3>1, <3>3, <4>2
    <3>4. CASE v \notin file.functions
      <4>1. v \in Covered(v)
        BY <3>4 DEF Covered
      <4>2. image[v] = <<"exe", v, "host">>
        BY <1>6, <2>2, <3>1, <3>4
      <4>3. image'[v] = <<"exe", v, "host">>
        BY <1>13, <3>2, <4>1, <4>2
      <4>4. QED
        BY <3>1, <3>4, <4>3
    <3>5. QED
      BY <3>3, <3>4
  <2>3. QED
    BY <1>15, <2>1, <2>2
<1>18. ASSUME NEW w \in Word, \A i \in 1..resolved' : w \notin Covered(file.imports[i])
       PROVE  image'[w] = <<"exe", w, "guest">>
  <2>1. w \notin Covered(at) /\ \A i \in 1..resolved : w \notin Covered(file.imports[i])
    BY <1>3, <1>15, <1>18
  <2>2. QED
    BY <1>6, <1>13, <2>1
<1>19. DoneFunctions' = DoneFunctions \cup ({at} \cap file.functions)
  BY <1>3, <1>15 DEF DoneFunctions
<1>20. symbols' = {[address |-> LoadAddress + w, size |-> ThunkWords] :
                         w \in DoneFunctions' \cap file.known}
  <2>1. CASE at \in file.functions /\ at \in file.known
    <3>1. DoneFunctions' \cap file.known = (DoneFunctions \cap file.known) \cup {at}
      BY <1>19, <2>1
    <3>2. symbols' = symbols \cup {[address |-> LoadAddress + at, size |-> ThunkWords]}
      BY <1>3, <1>11, <2>1
    <3>3. QED
      BY <1>6, <3>1, <3>2
  <2>2. CASE ~(at \in file.functions /\ at \in file.known)
    <3>1. DoneFunctions' \cap file.known = DoneFunctions \cap file.known
      BY <1>19, <2>2
    <3>2. symbols' = symbols
      BY <1>3, <1>11, <2>2
    <3>3. QED
      BY <1>6, <3>1, <3>2
  <2>3. QED
    BY <2>1, <2>2
<1>21. QED
  BY <1>15, <1>16, <1>17, <1>18, <1>20 DEF ImportsSoFar

LEMMA ResolveStep == ASSUME IndInv, ResolveImport PROVE IndInv'
<1>1. PICK at \in Word : \E function \in BOOLEAN : Resolves(at, function)
  BY ResolveWrites
<1> USE DEF Resolves
<1>2. /\ pc = "imports"
      /\ UNCHANGED <<base, file, m_file, data, sections, resource, guest, wrapper, entry>>
  BY DEF ResolveImport
<1>3. /\ file \in Files /\ base /\ sections = {Map(rva) : rva \in file.sections}
      /\ resolved \in 0..Len(file.imports) /\ entry = 0 /\ wrapper = NoWrapper
      /\ DOMAIN image = Word /\ m_file = FALSE
      /\ symbols \subseteq [address : GuestAddress, size : {ThunkWords}]
  BY <1>2 DEF IndInv, TypeOK, Progress, ImageIntact, Started
<1>4. DOMAIN image' = Word /\ resolved' \in 0..Len(file.imports)
  <2>1. Len(file.imports) \in Nat /\ DOMAIN file.imports = 1..Len(file.imports)
    BY <1>3, FilesAre
  <2>2. QED
    BY <1>1, <1>3, <2>1
<1>5. pc' \in {"imports", "fault"}
  BY <1>1
<1>6. \A w \in Word : image'[w] \in Intact
  <2>1. SUFFICES ASSUME NEW w \in Word PROVE image'[w] \in Intact
    OBVIOUS
  <2>2. \A v \in Word : image[v] \in Intact
    BY <1>3 DEF IndInv, ImageIntact
  <2>3. ByteSwap(image[at]) \in Intact
    BY <2>2 DEF ByteSwap, Intact
  <2>4. w \in at..(at + ThunkWords - 1) => <<"thunk", w - at, "guest">> \in Intact
    BY WordsAre DEF Intact
  <2>5. \/ image'[w] = <<"thunk", w - at, "guest">> /\ w \in at..(at + ThunkWords - 1)
        \/ image'[w] = ByteSwap(image[at])
        \/ image'[w] = image[w]
    BY <1>1
  <2>6. QED
    BY <2>2, <2>3, <2>4, <2>5
<1>7. symbols' \subseteq [address : GuestAddress, size : {ThunkWords}]
  <2>1. LoadAddress + at \in GuestAddress
    BY WordsAre
  <2>2. symbols' \subseteq symbols \cup {[address |-> LoadAddress + at, size |-> ThunkWords]}
    BY <1>1
  <2>3. QED
    BY <1>3, <2>1, <2>2
<1>8. TypeOK'
  <2>1. \A w \in Word : image'[w] \in Contents
    BY <1>6, WordsAre
  <2>2. m_file' \in BOOLEAN /\ (m_file' <=> pc' = "read")
    BY <1>2, <1>3, <1>5
  <2>3. QED
    BY <1>2, <1>3, <1>4, <1>5, <1>7, <2>1, <2>2 DEF IndInv, TypeOK
<1>9. Progress'
  <2>1. \A rva : Map(rva)' = Map(rva)
    BY DEF Map
  <2>2. QED
    BY <1>2, <1>3, <1>5, <2>1 DEF Progress, BeforeImage, AfterImage, Started
<1>10. ImageIntact'
  BY <1>4, <1>5, <1>6 DEF ImageIntact, AfterImage
<1>11. ImportsSoFar'
  BY ResolveKeepsImports
<1>12. QED
  BY <1>8, <1>9, <1>10, <1>11 DEF IndInv

-----------------------------------------------------------------------------
(* The theorems *)

LEMMA NextInv == IndInv /\ [Next]_vars => IndInv'
<1> SUFFICES ASSUME IndInv, [Next]_vars PROVE IndInv'
  OBVIOUS
<1>1. CASE MallocMemory \/ HeapInit \/ OpenModule \/ ReadModule \/ TestEmpty
  BY <1>1, ReadingSteps
<1>2. CASE ParseImage
  BY <1>2, ParseStep
<1>3. CASE Decompress
  BY <1>3, DecompressStep
<1>4. CASE MapSections
  BY <1>4, MapStep
<1>5. CASE ResolveImport
  BY <1>5, ResolveStep
<1>6. CASE FindFaults \/ ImportsDone \/ WrapResource \/ StartGame \/ GameReturns \/ Exit
  BY <1>6, LaterSteps
<1>7. CASE CopyImage
  BY <1>7, CopyStep
<1>8. CASE UNCHANGED vars
  BY <1>8, NoStep
<1>9. QED
  BY <1>1, <1>2, <1>3, <1>4, <1>5, <1>6, <1>7, <1>8 DEF Next, Finished

(* Every step from main to the running game keeps what the later ones rely *)
(* on: the reader's file is open only while it is read, an image has been  *)
(* read whole, its imports are resolved one by one, and guest memory has a *)
(* copy of it.                                                             *)
THEOREM Invariant == Spec => []IndInv
<1>1. QED
  BY InitInv, NextInv, PTL DEF Spec

LEMMA WholeFromInv == IndInv => GameWhole
<1> SUFFICES ASSUME IndInv, pc \in Started
             PROVE  /\ entry # 0 /\ entry = file.entry /\ base
                    /\ \A w \in Word : guest[LoadAddress + w][1] \in {"exe", "thunk"}
  BY DEF GameWhole
<1>1. entry # 0 /\ entry = file.entry /\ base
  BY DEF IndInv, Progress, Started
<1>2. DOMAIN image = Word
  BY <1>1 DEF IndInv, ImageIntact, AfterImage, Started
<1>3. ASSUME NEW w \in Word PROVE guest[LoadAddress + w][1] \in {"exe", "thunk"}
  <2>1. image # <<>>
    BY <1>2
  <2>2. image[w] \in Intact /\ guest[LoadAddress + w] = image[w]
    BY <2>1 DEF IndInv, ImageIntact, Started
  <2>3. QED
    BY <2>2 DEF Intact
<1>4. QED
  BY <1>1, <1>2, <1>3

(* The game runs only on a whole executable, however memory, the read and  *)
(* the decompression fail (main.cpp:29-50, fs_helpers.cpp:136).            *)
THEOREM GameIsWhole == Spec => []GameWhole
<1>1. QED
  BY Invariant, WholeFromInv, PTL

LEMMA ResolvedFromInv == IndInv => ImportsResolved
<1> SUFFICES ASSUME IndInv, pc = "running", image # <<>>, ImportsDisjoint
             PROVE  /\ \A w \in Word : guest[LoadAddress + w] = Resolved(w)
                    /\ \A a \in GuestAddress :
                          SymbolsFound(a) # {} <=> a - LoadAddress \in file.functions \cap file.known
  BY DEF ImportsResolved
<1>1. /\ file \in Files \cup {NoFile} /\ resolved = Len(file.imports)
      /\ \A w \in Word : guest[LoadAddress + w] = image[w]
  BY DEF IndInv, TypeOK, Progress, ImageIntact, AfterImage
<1>2. /\ DOMAIN file.imports = 1..resolved
      /\ \A i \in 1..resolved : file.imports[i] \in Word
      /\ file.functions \subseteq Imported
  <2>1. CASE file \in Files
    BY <1>1, <2>1, FilesAre DEF Imported
  <2>2. CASE file = NoFile
    BY <1>1, <2>2, NoFileIs
  <2>3. QED
    BY <1>1, <2>1, <2>2
<1>3. /\ \A i \in 1..resolved :
              IF file.imports[i] \in file.functions
              THEN \A w \in Covered(file.imports[i]) :
                      w \in Word /\ image[w] = <<"thunk", w - file.imports[i], "guest">>
              ELSE image[file.imports[i]] = <<"exe", file.imports[i], "host">>
      /\ \A w \in Word :
              (\A i \in 1..resolved : w \notin Covered(file.imports[i])) => image[w] = <<"exe", w, "guest">>
      /\ symbols = {[address |-> LoadAddress + w, size |-> ThunkWords] :
                         w \in DoneFunctions \cap file.known}
  BY DEF IndInv, ImportsSoFar
<1>4. ASSUME NEW w \in Word PROVE image[w] = Resolved(w)
  <2>1. CASE \E f \in file.functions : w \in Covered(f)
    <3>1. PICK g : g = CHOOSE f \in file.functions : w \in Covered(f)
      OBVIOUS
    <3>2. g \in file.functions /\ w \in Covered(g)
      BY <2>1, <3>1
    <3>3. PICK i \in 1..resolved : file.imports[i] = g
      BY <1>2, <3>2 DEF Imported
    <3>4. image[w] = <<"thunk", w - g, "guest">>
      BY <1>3, <3>2, <3>3
    <3>5. QED
      BY <2>1, <3>1, <3>4 DEF Resolved
  <2>2. CASE ~\E f \in file.functions : w \in Covered(f)
    <3>1. Resolved(w) = <<"exe", w, IF w \in Imported THEN "host" ELSE "guest">>
      BY <2>2 DEF Resolved
    <3>2. CASE w \in Imported
      <4>1. PICK i \in 1..resolved : file.imports[i] = w
        BY <1>2, <3>2 DEF Imported
      <4>2. w \notin file.functions
        BY <2>2, WordsAre DEF Covered
      <4>3. QED
        BY <1>3, <3>1, <3>2, <4>1, <4>2
    <3>3. CASE w \notin Imported
      <4>1. \A i \in 1..resolved : w \notin Covered(file.imports[i])
        BY <1>2, <2>2, <3>3 DEF Covered, Imported
      <4>2. QED
        BY <1>3, <3>1, <3>3, <4>1
    <3>4. QED
      BY <3>2, <3>3
  <2>3. QED
    BY <2>1, <2>2
<1>5. DoneFunctions = file.functions
  BY <1>2 DEF DoneFunctions, Imported
<1>6. ASSUME NEW a \in GuestAddress
      PROVE  SymbolsFound(a) # {} <=> a - LoadAddress \in file.functions \cap file.known
  <2>1. a \in Nat /\ LoadAddress \in Nat /\ ThunkWords \in Nat /\ ThunkWords > 0
    BY BootAssumption DEF GuestAddress
  <2>2. \A w \in file.functions : w \in Nat
    BY <1>2, WordsAre DEF Imported
  <2>3. ASSUME a - LoadAddress \in file.functions \cap file.known PROVE SymbolsFound(a) # {}
    <3>1. PICK s : s = [address |-> LoadAddress + (a - LoadAddress), size |-> ThunkWords]
      OBVIOUS
    <3>2. s \in symbols
      BY <1>3, <1>5, <2>3, <3>1
    <3>3. s.address = a /\ a < s.address + s.size
      BY <2>1, <3>1
    <3>4. QED
      BY <3>2, <3>3 DEF SymbolsFound
  <2>4. ASSUME SymbolsFound(a) # {} PROVE a - LoadAddress \in file.functions \cap file.known
    <3>1. PICK s \in symbols : s.address = a
      BY <2>4 DEF SymbolsFound
    <3>2. PICK w \in file.functions \cap file.known : s.address = LoadAddress + w
      BY <1>3, <1>5, <3>1
    <3>3. w = a - LoadAddress
      BY <2>1, <2>2, <3>1, <3>2
    <3>4. QED
      BY <3>2, <3>3
  <2>5. QED
    BY <2>3, <2>4
<1>7. QED
  BY <1>1, <1>4, <1>6

(* When no two import descriptors overlap, the game runs with each of them *)
(* resolved once and nothing else written, whatever sections they lie in,  *)
(* and the symbol table finds exactly the known functions (image.cpp:15,   *)
(* xex.cpp:334-351, symbol_table.h:14).                                    *)
THEOREM ImportsAreResolved == Spec => []ImportsResolved
<1>1. QED
  BY Invariant, ResolvedFromInv, PTL

-----------------------------------------------------------------------------
(* Offsets *)

(* Induction over the numbers, as a statement about a set. *)
LEMMA EveryNatural ==
    ASSUME NEW T, 0 \in T, \A n \in Nat : n \in T => n + 1 \in T
    PROVE  Nat \subseteq T
<1>1. SUFFICES ASSUME Nat \ T # {} PROVE FALSE
  OBVIOUS
<1>2. PICK n \in Nat \ T : \A m \in Nat \ T : n <= m
  BY <1>1, LeastNatural
<1>3. n # 0 /\ n - 1 \in Nat
  BY <1>2
<1>4. n - 1 \in T
  BY <1>2, <1>3
<1>5. QED
  BY <1>2, <1>3, <1>4

(* A function that is defined by what it has before exists: the sums of a  *)
(* sequence's first numbers.                                               *)
LEMMA SumsExist ==
    ASSUME NEW first \in Nat, NEW sizes \in Seq(Nat)
    PROVE  \E f \in [1..(Len(sizes) + 1) -> Nat] :
              f = [i \in 1..(Len(sizes) + 1) |-> IF i = 1 THEN first ELSE f[i - 1] + sizes[i - 1]]
<1> DEFINE N == Len(sizes)
           Sums(f, k) == f[1] = first /\ \A i \in 1..k : f[i + 1] = f[i] + sizes[i]
           T == {k \in Nat : k <= N => \E f \in [1..(k + 1) -> Nat] : Sums(f, k)}
<1>1. N \in Nat /\ \A i \in 1..N : sizes[i] \in Nat
  OBVIOUS
<1>2. 0 \in T
  <2>1. [i \in 1..1 |-> first] \in [1..(0 + 1) -> Nat] /\ Sums([i \in 1..1 |-> first], 0)
    OBVIOUS
  <2>2. QED
    BY <2>1
<1>3. ASSUME NEW k \in Nat, k \in T PROVE k + 1 \in T
  <2>1. SUFFICES ASSUME k + 1 <= N PROVE \E g \in [1..((k + 1) + 1) -> Nat] : Sums(g, k + 1)
    <3>1. k + 1 \in Nat
      OBVIOUS
    <3> HIDE DEF Sums
    <3>2. QED
      BY <3>1, Zenon
  <2>2. PICK f \in [1..(k + 1) -> Nat] : Sums(f, k)
    <3>1. k <= N
      BY <1>1, <2>1
    <3> HIDE DEF Sums
    <3>2. QED
      BY <1>3, <3>1, Zenon
  <2>3. PICK g : g = [i \in 1..((k + 1) + 1) |-> IF i = k + 2 THEN f[k + 1] + sizes[k + 1] ELSE f[i]]
    OBVIOUS
  <2>4. sizes[k + 1] \in Nat /\ f[k + 1] \in Nat
    BY <1>1, <2>1, <2>2
  <2>5. g \in [1..((k + 1) + 1) -> Nat]
    BY <2>2, <2>3, <2>4
  <2>6. \A i \in 1..(k + 1) : g[i] = f[i]
    BY <2>3
  <2>7. g[k + 2] = g[k + 1] + sizes[k + 1]
    BY <2>3, <2>6
  <2>8. ASSUME NEW i \in 1..(k + 1) PROVE g[i + 1] = g[i] + sizes[i]
    <3>1. CASE i = k + 1
      BY <2>7, <3>1
    <3>2. CASE i # k + 1
      <4>1. i \in 1..k /\ i + 1 \in 1..(k + 1)
        BY <3>2
      <4>2. QED
        BY <2>2, <2>6, <4>1
    <3>3. QED
      BY <3>1, <3>2
  <2>9. g[1] = first
    BY <2>2, <2>6
  <2>10. QED
    BY <2>5, <2>8, <2>9
<1>4. N \in T
  <2>1. Nat \subseteq T
    <3> HIDE DEF T
    <3> QED
      BY <1>2, <1>3, EveryNatural
  <2>2. QED
    BY <1>1, <2>1
<1>5. PICK f \in [1..(N + 1) -> Nat] : Sums(f, N)
  BY <1>1, <1>4
<1>6. ASSUME NEW i \in 1..(N + 1) PROVE f[i] = IF i = 1 THEN first ELSE f[i - 1] + sizes[i - 1]
  <2>1. CASE i = 1
    BY <1>5, <2>1
  <2>2. CASE i # 1
    <3>1. i - 1 \in 1..N /\ (i - 1) + 1 = i
      BY <1>1, <2>2
    <3>2. QED
      BY <1>5, <2>2, <3>1
  <2>3. QED
    BY <2>1, <2>2
<1>7. QED
  BY <1>5, <1>6

LEMMA OffsetIs ==
    ASSUME NEW first \in Nat, NEW sizes \in Seq(Nat)
    PROVE  /\ Offset(first, sizes, 1) = first
           /\ \A n \in 1..Len(sizes) : Offset(first, sizes, n + 1) = Offset(first, sizes, n) + sizes[n]
           /\ \A n \in 1..(Len(sizes) + 1) : Offset(first, sizes, n) \in Nat
<1> DEFINE N == Len(sizes)
           Defined(f) ==
              f = [i \in 1..(Len(sizes) + 1) |-> IF i = 1 THEN first ELSE f[i - 1] + sizes[i - 1]]
           T == {k \in Nat : k + 1 \in 1..(N + 1) => Offset(first, sizes, k + 1) \in Nat}
<1>1. N \in Nat /\ \A i \in 1..N : sizes[i] \in Nat
  OBVIOUS
<1>2. PICK f : f = CHOOSE g : Defined(g)
  OBVIOUS
<1>3. \A n : Offset(first, sizes, n) = f[n]
  BY <1>2 DEF Offset
<1>4. Defined(f)
  <2>1. \E g : Defined(g)
    BY SumsExist
  <2>2. QED
    <3> HIDE DEF Defined
    <3> QED
      BY <1>2, <2>1
<1>5. f[1] = first /\ \A n \in 1..N : f[n + 1] = f[n] + sizes[n]
  <2>1. \A i \in 1..(N + 1) : f[i] = IF i = 1 THEN first ELSE f[i - 1] + sizes[i - 1]
    BY <1>4
  <2>2. f[1] = first
    BY <1>1, <2>1
  <2>3. ASSUME NEW n \in 1..N PROVE f[n + 1] = f[n] + sizes[n]
    <3>1. n + 1 \in 1..(N + 1) /\ n + 1 # 1 /\ (n + 1) - 1 = n
      BY <1>1
    <3>2. QED
      BY <2>1, <3>1
  <2>4. QED
    BY <2>2, <2>3
<1>6. 0 \in T
  BY <1>3, <1>5
<1>7. ASSUME NEW k \in Nat, k \in T PROVE k + 1 \in T
  <2>1. SUFFICES ASSUME (k + 1) + 1 \in 1..(N + 1) PROVE Offset(first, sizes, (k + 1) + 1) \in Nat
    OBVIOUS
  <2>2. k + 1 \in 1..N /\ Offset(first, sizes, k + 1) \in Nat
    BY <1>1, <1>7, <2>1
  <2>3. Offset(first, sizes, (k + 1) + 1) = f[k + 1] + sizes[k + 1]
    BY <1>3, <1>5, <2>2
  <2>4. f[k + 1] \in Nat /\ sizes[k + 1] \in Nat
    BY <1>1, <1>3, <2>2
  <2>5. QED
    BY <2>3, <2>4
<1>8. Nat \subseteq T
  <2> HIDE DEF T
  <2> QED
    BY <1>6, <1>7, EveryNatural
<1>9. ASSUME NEW n \in 1..(N + 1) PROVE Offset(first, sizes, n) \in Nat
  <2>1. PICK k \in Nat : n = k + 1
    BY <1>1
  <2>2. k \in T
    BY <1>8
  <2>3. QED
    BY <2>1, <2>2
<1>10. QED
  BY <1>1, <1>3, <1>5, <1>9

(* What begins later begins behind what begins sooner. *)
LEMMA OffsetsApart ==
    ASSUME NEW first \in Nat, NEW sizes \in Seq(Nat),
           NEW m \in 1..Len(sizes), NEW n \in 1..(Len(sizes) + 1), m < n
    PROVE  Offset(first, sizes, m) + sizes[m] <= Offset(first, sizes, n)
<1> DEFINE N == Len(sizes)
           T == {k \in Nat : m + 1 + k <= N + 1 =>
                    Offset(first, sizes, m) + sizes[m] <= Offset(first, sizes, m + 1 + k)}
<1>1. N \in Nat /\ \A i \in 1..N : sizes[i] \in Nat
  OBVIOUS
<1>2. \A i \in 1..N : /\ Offset(first, sizes, i) \in Nat /\ Offset(first, sizes, i + 1) \in Nat
                      /\ Offset(first, sizes, i + 1) = Offset(first, sizes, i) + sizes[i]
  <2>1. \A i \in 1..N : i \in 1..(N + 1) /\ i + 1 \in 1..(N + 1)
    BY <1>1
  <2>2. QED
    BY <2>1, OffsetIs
<1>3. 0 \in T
  BY <1>1, <1>2
<1>4. ASSUME NEW k \in Nat, k \in T PROVE k + 1 \in T
  <2>1. SUFFICES ASSUME m + 1 + (k + 1) <= N + 1
                 PROVE  Offset(first, sizes, m) + sizes[m] <= Offset(first, sizes, m + 1 + (k + 1))
    BY <1>1
  <2>2. PICK i \in 1..N : i = m + 1 + k
    BY <1>1, <2>1
  <2>3. m + 1 + (k + 1) = i + 1
    BY <1>1, <2>2
  <2>4. Offset(first, sizes, m) + sizes[m] <= Offset(first, sizes, i)
    BY <1>1, <1>4, <2>2
  <2>5. /\ Offset(first, sizes, m) \in Nat /\ Offset(first, sizes, i) \in Nat /\ sizes[m] \in Nat
        /\ Offset(first, sizes, i + 1) \in Nat
        /\ sizes[i] \in Nat /\ Offset(first, sizes, i + 1) = Offset(first, sizes, i) + sizes[i]
    BY <1>1, <1>2
  <2>6. PICK a \in Nat, b \in Nat, c \in Nat, s \in Nat, t \in Nat :
           /\ a = Offset(first, sizes, m) /\ b = Offset(first, sizes, i)
           /\ c = Offset(first, sizes, i + 1) /\ s = sizes[m] /\ t = sizes[i]
    BY <2>5, Zenon
  <2>7. a + s <= b /\ c = b + t
    BY <2>4, <2>5, <2>6, Zenon
  <2>8. a + s <= c
    BY <2>7
  <2>9. QED
    BY <2>3, <2>6, <2>8, Zenon
<1>5. Nat \subseteq T
  <2> HIDE DEF T
  <2> QED
    BY <1>3, <1>4, EveryNatural
<1>6. PICK k \in Nat : n = m + 1 + k
  BY <1>1
<1>7. k \in T
  BY <1>5
<1>8. QED
  BY <1>1, <1>6, <1>7

-----------------------------------------------------------------------------
(* What is packed where *)

LEMMA PackableIs ==
    ASSUME NEW db, Packable(db)
    PROVE  /\ Len(db.blocks) \in Nat /\ DOMAIN db.blocks = 1..Len(db.blocks)
           /\ \A n \in DOMAIN db.blocks : db.blocks[n].items \in Seq(Items)
           /\ db.spare \in Nat /\ db.free \in Nat
<1>1. PICK B : B = [ns : Nat, id : Nat, items : Seq(Items)]
  OBVIOUS
<1>2. db.blocks \in Seq(B) /\ db.spare \in Nat /\ db.free \in Nat
  BY <1>1 DEF Packable
<1>3. /\ Len(db.blocks) \in Nat /\ DOMAIN db.blocks = 1..Len(db.blocks)
      /\ \A n \in DOMAIN db.blocks : db.blocks[n] \in B
  BY <1>2
<1>4. QED
  BY <1>1, <1>2, <1>3

LEMMA ItemSizes ==
    ASSUME NEW items \in Seq(Items)
    PROVE  \A i \in 1..Len(items) :
              /\ ItemSize(items[i]) \in Nat
              /\ items[i].kind \in {"string", "achievement"} => ItemSize(items[i]) > 0
              /\ items[i].kind \in {"string", "achievement", "data"}
<1>1. \A item \in Items : /\ ItemSize(item) \in Nat
                          /\ item.kind \in {"string", "achievement"} => ItemSize(item) > 0
                          /\ item.kind \in {"string", "achievement", "data"}
  BY DEF Items, ItemSize, StringSize, AchievementSize
<1>2. \A i \in 1..Len(items) : items[i] \in Items
  OBVIOUS
<1>3. QED
  BY <1>1, <1>2

LEMMA ItemOffsets ==
    ASSUME NEW items \in Seq(Items)
    PROVE  /\ ItemOffset(items, 1) = TableHeaderSize
           /\ \A i \in 1..Len(items) : ItemOffset(items, i + 1) = ItemOffset(items, i) + ItemSize(items[i])
           /\ \A i \in 1..(Len(items) + 1) : ItemOffset(items, i) \in Nat /\ TableHeaderSize <= ItemOffset(items, i)
           /\ \A i \in 1..Len(items), j \in 1..(Len(items) + 1) :
                 i < j => ItemOffset(items, i) + ItemSize(items[i]) <= ItemOffset(items, j)
<1>1. PICK sizes : sizes = [i \in DOMAIN items |-> ItemSize(items[i])]
  OBVIOUS
<1>2. /\ sizes \in Seq(Nat) /\ Len(sizes) = Len(items) /\ Len(items) \in Nat
      /\ \A i \in 1..Len(items) : sizes[i] = ItemSize(items[i]) /\ sizes[i] \in Nat
  BY <1>1, ItemSizes
<1>3. \A i : ItemOffset(items, i) = Offset(TableHeaderSize, sizes, i)
  BY <1>1 DEF ItemOffset
<1>4. TableHeaderSize \in Nat
  BY DEF TableHeaderSize
<1>5. /\ ItemOffset(items, 1) = TableHeaderSize
      /\ \A i \in 1..Len(items) : ItemOffset(items, i + 1) = ItemOffset(items, i) + ItemSize(items[i])
      /\ \A i \in 1..(Len(items) + 1) : ItemOffset(items, i) \in Nat
  <2>1. /\ Offset(TableHeaderSize, sizes, 1) = TableHeaderSize
        /\ \A i \in 1..Len(sizes) : Offset(TableHeaderSize, sizes, i + 1)
                                    = Offset(TableHeaderSize, sizes, i) + sizes[i]
        /\ \A i \in 1..(Len(sizes) + 1) : Offset(TableHeaderSize, sizes, i) \in Nat
    BY <1>2, <1>4, OffsetIs
  <2>2. QED
    BY <1>2, <1>3, <2>1
<1>6. ASSUME NEW i \in 1..Len(items), NEW j \in 1..(Len(items) + 1), i < j
      PROVE  ItemOffset(items, i) + ItemSize(items[i]) <= ItemOffset(items, j)
  <2>1. Offset(TableHeaderSize, sizes, i) + sizes[i] <= Offset(TableHeaderSize, sizes, j)
    BY <1>2, <1>4, <1>6, OffsetsApart
  <2>2. QED
    BY <1>2, <1>3, <2>1
<1>7. ASSUME NEW i \in 1..(Len(items) + 1) PROVE TableHeaderSize <= ItemOffset(items, i)
  <2>1. CASE i = 1
    BY <1>4, <1>5, <2>1
  <2>2. CASE i # 1
    <3>1. 1 \in 1..Len(items) /\ 1 < i
      BY <1>2, <2>2
    <3>2. ItemOffset(items, 1) + ItemSize(items[1]) <= ItemOffset(items, i)
      BY <1>6, <3>1
    <3>3. PICK a \in Nat, s \in Nat, b \in Nat :
             a = ItemOffset(items, 1) /\ s = ItemSize(items[1]) /\ b = ItemOffset(items, i)
      <4>1. ItemSize(items[1]) \in Nat
        BY <1>2, <3>1
      <4>2. ItemOffset(items, 1) \in Nat /\ ItemOffset(items, i) \in Nat
        BY <1>4, <1>5
      <4>3. QED
        BY <4>1, <4>2, Zenon
    <3>4. a <= b
      <4>1. a + s <= b
        BY <3>2, <3>3, Zenon
      <4>2. QED
        BY <4>1
    <3>5. QED
      BY <1>5, <3>3, <3>4
  <2>3. QED
    BY <2>1, <2>2
<1>8. QED
  BY <1>5, <1>6, <1>7

LEMMA BlockOffsets ==
    ASSUME NEW db, Packable(db)
    PROVE  /\ \A n \in DOMAIN db.blocks :
                 /\ Length(db.blocks[n]) \in Nat /\ TableHeaderSize <= Length(db.blocks[n])
                 /\ BlockOffset(db, n) \in Nat
           /\ \A m, n \in DOMAIN db.blocks :
                 m < n => BlockOffset(db, m) + Length(db.blocks[m]) <= BlockOffset(db, n)
<1> DEFINE N == Len(db.blocks)
<1>1. N \in Nat /\ DOMAIN db.blocks = 1..N
  BY PackableIs
<1>2. ASSUME NEW n \in 1..N
      PROVE  Length(db.blocks[n]) \in Nat /\ TableHeaderSize <= Length(db.blocks[n])
  <2>1. PICK items \in Seq(Items) : items = db.blocks[n].items
    BY <1>1, PackableIs
  <2>2. Length(db.blocks[n]) = ItemOffset(items, Len(items) + 1)
    BY <2>1 DEF Length
  <2>3. Len(items) \in Nat /\ Len(items) + 1 \in 1..(Len(items) + 1)
    OBVIOUS
  <2>4. QED
    BY <2>2, <2>3, ItemOffsets
<1>3. PICK sizes : sizes = [i \in DOMAIN db.blocks |-> Length(db.blocks[i])]
  OBVIOUS
<1>4. /\ sizes \in Seq(Nat) /\ Len(sizes) = N
      /\ \A n \in 1..N : sizes[n] = Length(db.blocks[n])
  BY <1>1, <1>2, <1>3
<1>5. \A n : BlockOffset(db, n) = Offset(0, sizes, n)
  BY <1>3 DEF BlockOffset
<1>6. \A n \in 1..N : BlockOffset(db, n) \in Nat
  <2>1. \A n \in 1..N : n \in 1..(N + 1)
    BY <1>1
  <2>2. QED
    BY <1>4, <1>5, <2>1, OffsetIs
<1>7. ASSUME NEW m \in 1..N, NEW n \in 1..N, m < n
      PROVE  BlockOffset(db, m) + Length(db.blocks[m]) <= BlockOffset(db, n)
  <2>1. n \in 1..(N + 1)
    BY <1>1
  <2>2. Offset(0, sizes, m) + sizes[m] <= Offset(0, sizes, n)
    BY <1>4, <1>7, <2>1, OffsetsApart
  <2>3. QED
    BY <1>4, <1>5, <2>2
<1>8. QED
  BY <1>1, <1>2, <1>6, <1>7

(* No two things that have a size begin at the same place: items of other  *)
(* blocks, or of the same.                                                 *)
LEMMA BlocksApart ==
    ASSUME NEW db, Packable(db), NEW m \in DOMAIN db.blocks, NEW n \in DOMAIN db.blocks,
           NEW a \in Nat, NEW b \in Nat, a < Length(db.blocks[m]), b < Length(db.blocks[n]),
           BlockOffset(db, m) + a = BlockOffset(db, n) + b
    PROVE  m = n
<1>1. m \in Nat /\ n \in Nat
  BY PackableIs
<1>2. PICK p \in Nat, q \in Nat, k \in Nat, l \in Nat :
         /\ p = BlockOffset(db, m) /\ q = BlockOffset(db, n)
         /\ k = Length(db.blocks[m]) /\ l = Length(db.blocks[n])
  BY BlockOffsets
<1>3. p + a = q + b /\ a < k /\ b < l
  BY <1>2
<1>4. (m < n => p + k <= q) /\ (n < m => q + l <= p)
  BY <1>2, BlockOffsets, Zenon
<1>5. QED
  BY <1>1, <1>3, <1>4

LEMMA ItemsWithin ==
    ASSUME NEW db, Packable(db), NEW n \in DOMAIN db.blocks, NEW i \in DOMAIN db.blocks[n].items
    PROVE  /\ ItemOffset(db.blocks[n].items, i) \in Nat
           /\ ItemSize(db.blocks[n].items[i]) \in Nat
           /\ TableHeaderSize <= ItemOffset(db.blocks[n].items, i)
           /\ ItemOffset(db.blocks[n].items, i) + ItemSize(db.blocks[n].items[i]) <= Length(db.blocks[n])
<1>1. PICK items \in Seq(Items) : items = db.blocks[n].items
  BY PackableIs
<1>2. Len(items) \in Nat /\ i \in 1..Len(items) /\ Len(items) + 1 \in 1..(Len(items) + 1) /\ i < Len(items) + 1
  BY <1>1
<1>3. Length(db.blocks[n]) = ItemOffset(items, Len(items) + 1)
  BY <1>1 DEF Length
<1>4. i \in 1..(Len(items) + 1)
  BY <1>2
<1>5. QED
  BY <1>1, <1>2, <1>3, <1>4, ItemOffsets, ItemSizes

LEMMA ItemsApart ==
    ASSUME NEW db, Packable(db), NEW m \in DOMAIN db.blocks, NEW n \in DOMAIN db.blocks,
           NEW i \in DOMAIN db.blocks[m].items, NEW j \in DOMAIN db.blocks[n].items,
           ItemSize(db.blocks[m].items[i]) > 0, ItemSize(db.blocks[n].items[j]) > 0,
           BlockOffset(db, m) + ItemOffset(db.blocks[m].items, i)
             = BlockOffset(db, n) + ItemOffset(db.blocks[n].items, j)
    PROVE  m = n /\ i = j
<1>1. PICK a \in Nat, s \in Nat :
         a = ItemOffset(db.blocks[m].items, i) /\ s = ItemSize(db.blocks[m].items[i])
  BY ItemsWithin
<1>2. PICK b \in Nat, t \in Nat :
         b = ItemOffset(db.blocks[n].items, j) /\ t = ItemSize(db.blocks[n].items[j])
  BY ItemsWithin
<1>3. s > 0 /\ t > 0
  BY <1>1, <1>2
<1>4. m = n
  <2>1. PICK k \in Nat, l \in Nat : k = Length(db.blocks[m]) /\ l = Length(db.blocks[n])
    BY BlockOffsets
  <2>2. a + s <= k /\ b + t <= l
    BY <1>1, <1>2, <2>1, ItemsWithin
  <2>3. a < k /\ b < l
    BY <1>3, <2>2
  <2>4. BlockOffset(db, m) + a = BlockOffset(db, n) + b
    BY <1>1, <1>2
  <2>5. QED
    BY <2>1, <2>3, <2>4, BlocksApart
<1>5. i = j
  <2>1. PICK items \in Seq(Items) : items = db.blocks[n].items
    BY PackableIs
  <2>2. i \in 1..Len(items) /\ j \in 1..Len(items) /\ Len(items) \in Nat
    BY <1>4, <2>1
  <2>3. a = b
    <3>1. PICK p \in Nat : p = BlockOffset(db, n)
      BY BlockOffsets
    <3>2. p + a = p + b
      BY <1>1, <1>2, <1>4, <3>1
    <3>3. QED
      BY <3>2
  <2>4. i \in 1..(Len(items) + 1) /\ j \in 1..(Len(items) + 1)
    BY <2>2
  <2>5. (i < j => a + s <= b) /\ (j < i => b + t <= a)
    BY <1>1, <1>2, <1>4, <2>1, <2>2, <2>4, ItemOffsets, Zenon
  <2>6. QED
    BY <1>3, <2>2, <2>3, <2>5
<1>6. QED
  BY <1>4, <1>5

-----------------------------------------------------------------------------
(* What the searches read *)

LEMMA StructuresAre ==
    ASSUME NEW db, NEW s \in Structures(db)
    PROVE  \/ \E n \in DOMAIN db.blocks :
                 s[1] = HeaderSize + EntrySize * (n - 1) /\ s[2] = EntryOf(db, n)
           \/ \E n \in DOMAIN db.blocks :
                 s[1] = ContentOffset(db) + BlockOffset(db, n) /\ s[2] = TableOf(db, n)
           \/ \E n \in DOMAIN db.blocks : \E i \in DOMAIN db.blocks[n].items :
                 /\ s[1] = ContentOffset(db) + BlockOffset(db, n) + ItemOffset(db.blocks[n].items, i)
                 /\ s[2] = db.blocks[n].items[i]
  BY DEF Structures

LEMMA StructuresHave ==
    ASSUME NEW db, NEW n \in DOMAIN db.blocks
    PROVE  /\ <<HeaderSize + EntrySize * (n - 1), EntryOf(db, n)>> \in Structures(db)
           /\ <<ContentOffset(db) + BlockOffset(db, n), TableOf(db, n)>> \in Structures(db)
           /\ \A i \in DOMAIN db.blocks[n].items :
                 <<ContentOffset(db) + BlockOffset(db, n) + ItemOffset(db.blocks[n].items, i),
                   db.blocks[n].items[i]>> \in Structures(db)
  BY DEF Structures

LEMMA OnlyStructure ==
    ASSUME NEW bytes, NEW pointer, NEW kind, NEW v, v.kind = kind, <<pointer, v>> \in bytes,
           \A s \in bytes : s[1] = pointer /\ s[2].kind = kind => s[2] = v
    PROVE  StructureAt(bytes, pointer, kind) = v
<1> DEFINE there == {s \in bytes : s[1] = pointer /\ s[2].kind = kind}
<1>1. <<pointer, v>> \in there
  OBVIOUS
<1>2. PICK c : c = CHOOSE s \in there : TRUE
  OBVIOUS
<1>3. c \in there
  BY <1>1, <1>2
<1>4. StructureAt(bytes, pointer, kind) = c[2]
  <2>1. there # {}
    BY <1>1
  <2>2. QED
    BY <1>2, <2>1 DEF StructureAt
<1>5. QED
  BY <1>3, <1>4

LEMMA ContentIs ==
    ASSUME NEW db, Packable(db)
    PROVE  /\ ContentOffset(db) \in Nat /\ ContentOffset(db) > 0
           /\ \A n \in DOMAIN db.blocks : HeaderSize + EntrySize * (n - 1) \in Nat
<1>1. PICK l \in Nat, s \in Nat, f \in Nat : l = Len(db.blocks) /\ s = db.spare /\ f = db.free
  BY PackableIs
<1>2. ContentOffset(db) = 24 + 18 * (l + s) + 8 * f
  BY <1>1 DEF ContentOffset, HeaderSize, EntrySize, FreeSpaceSize
<1>3. ASSUME NEW n \in DOMAIN db.blocks PROVE HeaderSize + EntrySize * (n - 1) \in Nat
  <2>1. n - 1 \in Nat
    BY PackableIs
  <2>2. QED
    BY <2>1 DEF HeaderSize, EntrySize
<1>4. QED
  BY <1>2, <1>3

LEMMA EntryRead ==
    ASSUME NEW db, Packable(db), NEW n \in DOMAIN db.blocks
    PROVE  StructureAt(Structures(db), HeaderSize + EntrySize * (n - 1), "entry") = EntryOf(db, n)
<1>1. ASSUME NEW s \in Structures(db), s[1] = HeaderSize + EntrySize * (n - 1), s[2].kind = "entry"
      PROVE  s[2] = EntryOf(db, n)
  <2>1. CASE \E m \in DOMAIN db.blocks :
                s[1] = HeaderSize + EntrySize * (m - 1) /\ s[2] = EntryOf(db, m)
    <3>1. PICK m \in DOMAIN db.blocks :
             s[1] = HeaderSize + EntrySize * (m - 1) /\ s[2] = EntryOf(db, m)
      BY <2>1
    <3>2. m = n
      BY <1>1, <3>1, PackableIs DEF HeaderSize, EntrySize
    <3>3. QED
      BY <3>1, <3>2
  <2>2. CASE \E m \in DOMAIN db.blocks : s[2] = TableOf(db, m)
    BY <1>1, <2>2 DEF TableOf
  <2>3. CASE \E m \in DOMAIN db.blocks : \E i \in DOMAIN db.blocks[m].items : s[2] = db.blocks[m].items[i]
    <3>1. PICK m \in DOMAIN db.blocks : \E i \in DOMAIN db.blocks[m].items : s[2] = db.blocks[m].items[i]
      BY <2>3
    <3>2. PICK items \in Seq(Items) : items = db.blocks[m].items
      BY PackableIs
    <3>3. s[2].kind \in {"string", "achievement", "data"}
      BY <3>1, <3>2, ItemSizes
    <3>4. QED
      BY <1>1, <3>3
  <2>4. QED
    BY <2>1, <2>2, <2>3, StructuresAre
<1>2. EntryOf(db, n).kind = "entry"
  BY DEF EntryOf
<1>3. <<HeaderSize + EntrySize * (n - 1), EntryOf(db, n)>> \in Structures(db)
  BY StructuresHave
<1>4. QED
  BY <1>1, <1>2, <1>3, OnlyStructure

LEMMA TableRead ==
    ASSUME NEW db, Packable(db), NEW n \in DOMAIN db.blocks
    PROVE  StructureAt(Structures(db), ContentOffset(db) + BlockOffset(db, n), "table") = TableOf(db, n)
<1>1. ASSUME NEW s \in Structures(db), s[1] = ContentOffset(db) + BlockOffset(db, n), s[2].kind = "table"
      PROVE  s[2] = TableOf(db, n)
  <2>1. CASE \E m \in DOMAIN db.blocks : s[2] = EntryOf(db, m)
    BY <1>1, <2>1 DEF EntryOf
  <2>2. CASE \E m \in DOMAIN db.blocks :
                s[1] = ContentOffset(db) + BlockOffset(db, m) /\ s[2] = TableOf(db, m)
    <3>1. PICK m \in DOMAIN db.blocks :
             s[1] = ContentOffset(db) + BlockOffset(db, m) /\ s[2] = TableOf(db, m)
      BY <2>2
    <3>2. PICK c \in Nat, p \in Nat, q \in Nat :
             c = ContentOffset(db) /\ p = BlockOffset(db, m) /\ q = BlockOffset(db, n)
      BY ContentIs, BlockOffsets
    <3>3. c + p = c + q
      BY <1>1, <3>1, <3>2
    <3>4. BlockOffset(db, m) + 0 = BlockOffset(db, n) + 0
      BY <3>2, <3>3
    <3>5. 0 < Length(db.blocks[m]) /\ 0 < Length(db.blocks[n])
      BY BlockOffsets DEF TableHeaderSize
    <3>6. m = n
      BY <3>4, <3>5, BlocksApart
    <3>7. QED
      BY <3>1, <3>6
  <2>3. CASE \E m \in DOMAIN db.blocks : \E i \in DOMAIN db.blocks[m].items : s[2] = db.blocks[m].items[i]
    <3>1. PICK m \in DOMAIN db.blocks : \E i \in DOMAIN db.blocks[m].items : s[2] = db.blocks[m].items[i]
      BY <2>3
    <3>2. PICK items \in Seq(Items) : items = db.blocks[m].items
      BY PackableIs
    <3>3. s[2].kind \in {"string", "achievement", "data"}
      BY <3>1, <3>2, ItemSizes
    <3>4. QED
      BY <1>1, <3>3
  <2>4. QED
    BY <2>1, <2>2, <2>3, StructuresAre
<1>2. TableOf(db, n).kind = "table"
  BY DEF TableOf
<1>3. <<ContentOffset(db) + BlockOffset(db, n), TableOf(db, n)>> \in Structures(db)
  BY StructuresHave
<1>4. QED
  BY <1>1, <1>2, <1>3, OnlyStructure

LEMMA ItemRead ==
    ASSUME NEW db, Packable(db), NEW n \in DOMAIN db.blocks, NEW i \in DOMAIN db.blocks[n].items,
           NEW kind \in {"string", "achievement"}, db.blocks[n].items[i].kind = kind
    PROVE  StructureAt(Structures(db),
                       ContentOffset(db) + BlockOffset(db, n) + ItemOffset(db.blocks[n].items, i), kind)
             = db.blocks[n].items[i]
<1>1. \A m \in DOMAIN db.blocks : \A j \in DOMAIN db.blocks[m].items :
         db.blocks[m].items[j].kind = kind => ItemSize(db.blocks[m].items[j]) > 0
  <2>1. SUFFICES ASSUME NEW m \in DOMAIN db.blocks, NEW j \in DOMAIN db.blocks[m].items,
                        db.blocks[m].items[j].kind = kind
                 PROVE  ItemSize(db.blocks[m].items[j]) > 0
    OBVIOUS
  <2>2. PICK items \in Seq(Items) : items = db.blocks[m].items
    BY PackableIs
  <2>3. QED
    BY <2>1, <2>2, ItemSizes
<1>2. ASSUME NEW s \in Structures(db), s[2].kind = kind,
             s[1] = ContentOffset(db) + BlockOffset(db, n) + ItemOffset(db.blocks[n].items, i)
      PROVE  s[2] = db.blocks[n].items[i]
  <2>1. CASE \E m \in DOMAIN db.blocks : s[2] = EntryOf(db, m) \/ s[2] = TableOf(db, m)
    BY <1>2, <2>1 DEF EntryOf, TableOf
  <2>2. CASE \E m \in DOMAIN db.blocks : \E j \in DOMAIN db.blocks[m].items :
                /\ s[1] = ContentOffset(db) + BlockOffset(db, m) + ItemOffset(db.blocks[m].items, j)
                /\ s[2] = db.blocks[m].items[j]
    <3>1. PICK m \in DOMAIN db.blocks : \E j \in DOMAIN db.blocks[m].items :
                /\ s[1] = ContentOffset(db) + BlockOffset(db, m) + ItemOffset(db.blocks[m].items, j)
                /\ s[2] = db.blocks[m].items[j]
      BY <2>2
    <3>2. PICK j \in DOMAIN db.blocks[m].items :
                /\ s[1] = ContentOffset(db) + BlockOffset(db, m) + ItemOffset(db.blocks[m].items, j)
                /\ s[2] = db.blocks[m].items[j]
      BY <3>1
    <3>3. ItemSize(db.blocks[m].items[j]) > 0 /\ ItemSize(db.blocks[n].items[i]) > 0
      BY <1>1, <1>2, <3>2
    <3>4. PICK c \in Nat, p \in Nat, q \in Nat, a \in Nat, b \in Nat :
             /\ c = ContentOffset(db) /\ p = BlockOffset(db, m) /\ q = BlockOffset(db, n)
             /\ a = ItemOffset(db.blocks[m].items, j) /\ b = ItemOffset(db.blocks[n].items, i)
      BY ContentIs, BlockOffsets, ItemsWithin
    <3>5. c + p + a = c + q + b
      BY <1>2, <3>2, <3>4
    <3>6. p + a = q + b
      BY <3>5
    <3>7. BlockOffset(db, m) + ItemOffset(db.blocks[m].items, j)
             = BlockOffset(db, n) + ItemOffset(db.blocks[n].items, i)
      BY <3>4, <3>6
    <3>8. m = n /\ j = i
      BY <3>3, <3>7, ItemsApart
    <3>9. QED
      BY <3>2, <3>8
  <2>3. QED
    BY <2>1, <2>2, StructuresAre
<1>3. <<ContentOffset(db) + BlockOffset(db, n) + ItemOffset(db.blocks[n].items, i),
        db.blocks[n].items[i]>> \in Structures(db)
  BY StructuresHave
<1>4. QED
  BY <1>2, <1>3, OnlyStructure

-----------------------------------------------------------------------------
(* The searches *)

LEMMA FirstIs ==
    ASSUME NEW hits, hits \subseteq Nat \ {0}
    PROVE  /\ First(hits) = 0 <=> hits = {}
           /\ hits # {} => First(hits) \in hits /\ \A n \in hits : First(hits) <= n
<1>1. CASE hits = {}
  BY <1>1 DEF First
<1>2. CASE hits # {}
  <2>1. \E n \in hits : \A m \in hits : n <= m
    BY <1>2, LeastNatural
  <2>2. PICK c : c = CHOOSE n \in hits : \A m \in hits : n <= m
    OBVIOUS
  <2>3. First(hits) = c
    BY <1>2, <2>2 DEF First, Min
  <2>4. c \in hits /\ \A m \in hits : c <= m
    BY <2>1, <2>2
  <2>5. QED
    BY <1>2, <2>3, <2>4
<1>3. QED
  BY <1>1, <1>2

(* A wrapper that knows where the tables and the content of a database are. *)
Knows(w, db) ==
    w.pEntries = HeaderSize /\ w.count = Len(db.blocks) /\ w.pContent = ContentOffset(db)

LEMMA WrapperKnows ==
    ASSUME NEW db, Packable(db), XDBFWrapper(db).pBuffer, db.spare = 0
    PROVE  Knows(XDBFWrapper(db), db)
<1>1. ~(db.size <= HeaderSize \/ ~db.signed)
  <2>1. SUFFICES ASSUME db.size <= HeaderSize \/ ~db.signed PROVE FALSE
    OBVIOUS
  <2>2. XDBFWrapper(db) = NoWrapper
    BY <2>1, Zenon DEF XDBFWrapper
  <2>3. QED
    BY <2>2 DEF NoWrapper
<1>2. XDBFWrapper(db) =
         [pBuffer  |-> TRUE, pEntries |-> HeaderSize, count |-> Len(db.blocks),
          pContent |-> HeaderSize + EntrySize * Len(db.blocks) + FreeSpaceSize * db.free]
  BY <1>1, Zenon DEF XDBFWrapper
<1>3. ContentOffset(db) = HeaderSize + EntrySize * Len(db.blocks) + FreeSpaceSize * db.free
  BY PackableIs DEF ContentOffset
<1>4. QED
  BY <1>2, <1>3 DEF Knows

LEMMA PackedIs ==
    ASSUME NEW db, Packable(db), NEW ns, NEW id
    PROVE  /\ Packed(db, ns, id) = 0
                <=> {n \in DOMAIN db.blocks : db.blocks[n].ns = ns /\ db.blocks[n].id = id} = {}
           /\ Packed(db, ns, id) # 0 =>
                 /\ Packed(db, ns, id) \in DOMAIN db.blocks
                 /\ db.blocks[Packed(db, ns, id)].ns = ns /\ db.blocks[Packed(db, ns, id)].id = id
<1>1. PICK hits : hits = {n \in DOMAIN db.blocks : db.blocks[n].ns = ns /\ db.blocks[n].id = id}
  OBVIOUS
<1>2. hits \subseteq Nat \ {0}
  BY <1>1, PackableIs
<1>3. Packed(db, ns, id) = First(hits)
  BY <1>1 DEF Packed
<1>4. hits # {} => First(hits) \in hits
  BY <1>2, FirstIs
<1>5. First(hits) = 0 <=> hits = {}
  BY <1>2, FirstIs
<1>6. QED
  BY <1>1, <1>3, <1>4, <1>5

(* GetResource finds the block that was packed first. *)
LEMMA ResourceRead ==
    ASSUME NEW db, Packable(db), NEW w, Knows(w, db), NEW ns, NEW id, NEW n, n = Packed(db, ns, id)
    PROVE  /\ n = 0 => GetResource(Structures(db), w, ns, id) = NoBlock
           /\ n # 0 => GetResource(Structures(db), w, ns, id) =
                 [pBuffer |-> ContentOffset(db) + BlockOffset(db, n), length |-> Length(db.blocks[n])]
<1> DEFINE EntryAt(m) == StructureAt(Structures(db), w.pEntries + EntrySize * (m - 1), "entry")
<1>1. \A m \in DOMAIN db.blocks : EntryAt(m) = EntryOf(db, m)
  BY EntryRead DEF Knows
<1>2. {m \in 1..w.count : EntryAt(m).ns = ns /\ EntryAt(m).id = id}
         = {m \in DOMAIN db.blocks : db.blocks[m].ns = ns /\ db.blocks[m].id = id}
  <2>1. 1..w.count = DOMAIN db.blocks
    BY PackableIs DEF Knows
  <2> HIDE DEF EntryAt
  <2>2. \A m \in DOMAIN db.blocks : EntryAt(m).ns = db.blocks[m].ns /\ EntryAt(m).id = db.blocks[m].id
    BY <1>1 DEF EntryOf
  <2>3. QED
    BY <2>1, <2>2
<1>3. First({m \in 1..w.count : EntryAt(m).ns = ns /\ EntryAt(m).id = id}) = n
  <2> HIDE DEF EntryAt
  <2> QED
    BY <1>2 DEF Packed
<1>4. GetResource(Structures(db), w, ns, id) =
         IF n = 0 THEN NoBlock
         ELSE [pBuffer |-> w.pContent + EntryAt(n).offset, length |-> EntryAt(n).length]
  BY <1>3, Zenon DEF GetResource
<1>5. ASSUME n # 0 PROVE EntryAt(n) = EntryOf(db, n)
  BY <1>1, <1>5, PackedIs
<1>6. QED
  BY <1>4, <1>5 DEF EntryOf, Knows

(* What GetString defines its seek by *)
Seeks(f, bytes, start, count) ==
    f = [i \in 1..count |->
            IF i = 1 THEN start + TableHeaderSize
            ELSE f[i - 1] + StringSize + StructureAt(bytes, f[i - 1], "string").length]

(* It stands on one text after the other. *)
LEMMA SeekIs ==
    ASSUME NEW items \in Seq(Items), NEW start \in Nat, NEW bytes,
           \A i \in 1..Len(items) :
              /\ StructureAt(bytes, start + ItemOffset(items, i), "string") = items[i]
              /\ items[i].kind = "string"
    PROVE  /\ \E f : Seeks(f, bytes, start, Len(items))
           /\ \A f : Seeks(f, bytes, start, Len(items)) =>
                 \A i \in 1..Len(items) : f[i] = start + ItemOffset(items, i)
<1> DEFINE N == Len(items)
<1>1. N \in Nat /\ TableHeaderSize \in Nat /\ StringSize \in Nat
  BY DEF TableHeaderSize, StringSize
<1>2. \A i \in 1..N : items[i].length \in Nat /\ ItemSize(items[i]) = StringSize + items[i].length
  <2>1. \A item \in Items : item.kind = "string" =>
           item.length \in Nat /\ ItemSize(item) = StringSize + item.length
    BY DEF Items, ItemSize
  <2>2. QED
    BY <2>1
<1>3. ItemOffset(items, 1) = TableHeaderSize
  BY ItemOffsets
<1>4. ASSUME NEW i \in 1..N, i # 1
      PROVE  /\ i - 1 \in 1..N
             /\ start + ItemOffset(items, i) =
                   (start + ItemOffset(items, i - 1)) + StringSize + items[i - 1].length
  <2>1. PICK k \in 1..N : k = i - 1 /\ i = k + 1
    BY <1>1, <1>4
  <2>2. k \in 1..(Len(items) + 1)
    BY <1>1
  <2>3. ItemOffset(items, k) \in Nat /\ ItemOffset(items, k + 1) = ItemOffset(items, k) + ItemSize(items[k])
    BY <2>2, ItemOffsets
  <2>4. PICK a \in Nat, l \in Nat : a = ItemOffset(items, k) /\ l = items[k].length
    BY <1>2, <2>3
  <2>5. ItemOffset(items, i) = a + (4 + l)
    BY <1>2, <2>1, <2>3, <2>4 DEF StringSize
  <2>6. start + ItemOffset(items, i) = (start + a) + StringSize + l
    BY <2>5 DEF StringSize
  <2>7. QED
    BY <2>1, <2>4, <2>6
<1>5. PICK g : g = [i \in 1..N |-> start + ItemOffset(items, i)]
  OBVIOUS
<1>6. Seeks(g, bytes, start, N)
  <2>1. ASSUME NEW i \in 1..N
        PROVE  g[i] = IF i = 1 THEN start + TableHeaderSize
                      ELSE g[i - 1] + StringSize + StructureAt(bytes, g[i - 1], "string").length
    <3>1. CASE i = 1
      BY <1>3, <1>5, <3>1
    <3>2. CASE i # 1
      <4>1. i - 1 \in 1..N
        BY <1>4, <3>2
      <4>2. g[i] = start + ItemOffset(items, i) /\ g[i - 1] = start + ItemOffset(items, i - 1)
        BY <1>5, <4>1
      <4>3. StructureAt(bytes, g[i - 1], "string") = items[i - 1]
        BY <4>1, <4>2
      <4>4. QED
        BY <1>4, <3>2, <4>2, <4>3
    <3>3. QED
      BY <3>1, <3>2
  <2>2. QED
    BY <1>5, <2>1 DEF Seeks
<1>7. ASSUME NEW seek, Seeks(seek, bytes, start, N), NEW i \in 1..N PROVE seek[i] = start + ItemOffset(items, i)
  <2> DEFINE T == {k \in Nat : k + 1 \in 1..N => seek[k + 1] = start + ItemOffset(items, k + 1)}
  <2>1. \A j \in 1..N :
           seek[j] = IF j = 1 THEN start + TableHeaderSize
                     ELSE seek[j - 1] + StringSize + StructureAt(bytes, seek[j - 1], "string").length
    BY <1>7 DEF Seeks
  <2>2. 0 \in T
    BY <1>3, <2>1
  <2>3. ASSUME NEW k \in Nat, k \in T PROVE k + 1 \in T
    <3>1. SUFFICES ASSUME (k + 1) + 1 \in 1..N
                   PROVE  seek[(k + 1) + 1] = start + ItemOffset(items, (k + 1) + 1)
      OBVIOUS
    <3>2. PICK j \in 1..N : j = (k + 1) + 1 /\ j # 1 /\ j - 1 = k + 1 /\ j - 1 \in 1..N
      BY <1>1, <3>1
    <3>3. seek[j - 1] = start + ItemOffset(items, j - 1)
      BY <2>3, <3>2
    <3>4. StructureAt(bytes, seek[j - 1], "string") = items[j - 1]
      BY <3>2, <3>3
    <3>5. seek[j] = seek[j - 1] + StringSize + StructureAt(bytes, seek[j - 1], "string").length
      BY <2>1, <3>2
    <3>6. start + ItemOffset(items, j) = (start + ItemOffset(items, j - 1)) + StringSize + items[j - 1].length
      BY <1>4, <3>2
    <3>7. seek[j] = start + ItemOffset(items, j)
      BY <3>3, <3>4, <3>5, <3>6, Zenon
    <3>8. QED
      BY <3>2, <3>7
  <2>4. Nat \subseteq T
    <3> HIDE DEF T
    <3> QED
      BY <2>2, <2>3, EveryNatural
  <2>5. PICK k \in Nat : i = k + 1
    BY <1>1
  <2>6. k \in T
    BY <2>4
  <2>7. QED
    BY <2>5, <2>6
<1>8. QED
  BY <1>6, <1>7

LEMMA BlockRead ==
    ASSUME NEW db, Packable(db), NEW n \in DOMAIN db.blocks, NEW block,
           block = [pBuffer |-> ContentOffset(db) + BlockOffset(db, n), length |-> Length(db.blocks[n])]
    PROVE  /\ block # NoBlock
           /\ Count(Structures(db), block) = Len(db.blocks[n].items)
<1>1. block.pBuffer = ContentOffset(db) + BlockOffset(db, n) /\ NoBlock.pBuffer = 0
  BY DEF NoBlock
<1>2. block.pBuffer # 0
  BY <1>1, ContentIs, BlockOffsets
<1>3. StructureAt(Structures(db), block.pBuffer, "table") = TableOf(db, n)
  BY <1>1, TableRead
<1>4. Count(Structures(db), block) = TableOf(db, n).count
  BY <1>3 DEF Count, TableOf
<1>5. QED
  BY <1>1, <1>2, <1>4 DEF TableOf

LEMMA TextRead ==
    ASSUME NEW db, Packable(db), NEW w, Knows(w, db), NEW language, NEW id
    PROVE  GetString(Structures(db), w, language, id) = PackedText(db, language, id)
<1> DEFINE bytes == Structures(db)
           block == GetResource(bytes, w, Strings, language)
           count == Count(bytes, block)
           EntryAt(p) == StructureAt(bytes, p, "string")
<1>1. PICK n : n = Packed(db, Strings, language)
  OBVIOUS
<1>2. PICK seek : seek = CHOOSE f : f = [i \in 1..count |->
                     IF i = 1 THEN block.pBuffer + TableHeaderSize
                     ELSE f[i - 1] + StringSize + EntryAt(f[i - 1]).length]
  OBVIOUS
<1>3. PICK hit : hit = First({i \in 1..count : EntryAt(seek[i]).id = id \/ EntryAt(seek[i]) = Garbage})
  OBVIOUS
<1>4. GetString(bytes, w, language, id) = IF block = NoBlock \/ hit = 0 THEN "" ELSE EntryAt(seek[hit]).text
  BY <1>2, <1>3 DEF GetString
<1>5. PICK items : items = IF n = 0 THEN <<>> ELSE db.blocks[n].items
  OBVIOUS
<1>6. PICK first : first = First({j \in DOMAIN items : items[j].id = id})
  OBVIOUS
<1>7. PackedText(db, language, id) = IF first = 0 THEN "" ELSE items[first].text
  BY <1>1, <1>5, <1>6 DEF PackedText
<1>8. CASE n = 0
  <2>1. block = NoBlock
    BY <1>1, <1>8, ResourceRead
  <2>2. {j \in DOMAIN items : items[j].id = id} = {}
    BY <1>5, <1>8
  <2>3. first = 0
    BY <1>6, <2>2, FirstIs
  <2>4. QED
    BY <1>4, <1>7, <2>1, <2>3
<1>9. CASE n # 0
  <2>1. n \in DOMAIN db.blocks /\ db.blocks[n].ns = Strings
    BY <1>1, <1>9, PackedIs
  <2>2. block = [pBuffer |-> ContentOffset(db) + BlockOffset(db, n), length |-> Length(db.blocks[n])]
    BY <1>1, <1>9, ResourceRead
  <2>3. items \in Seq(Items) /\ items = db.blocks[n].items /\ DOMAIN items = 1..Len(items)
    BY <1>5, <1>9, <2>1, PackableIs
  <2>4. block # NoBlock /\ count = Len(items)
    <3> HIDE DEF block
    <3> QED
      BY <2>1, <2>2, <2>3, BlockRead
  <2>5. PICK start \in Nat : start = ContentOffset(db) + BlockOffset(db, n)
    BY <2>1, ContentIs, BlockOffsets
  <2>6. ASSUME NEW i \in 1..Len(items)
        PROVE  EntryAt(start + ItemOffset(items, i)) = items[i] /\ items[i].kind = "string"
    <3>1. i \in DOMAIN db.blocks[n].items /\ items[i].kind = "string"
      BY <2>1, <2>3 DEF Packable
    <3>2. QED
      BY <2>1, <2>3, <2>5, <3>1, ItemRead
  <2>7. \A i \in 1..Len(items) : seek[i] = start + ItemOffset(items, i)
    <3>1. block.pBuffer = start
      <4> HIDE DEF block
      <4> QED
        BY <2>2, <2>5
    <3>2. \A i \in 1..Len(items) :
             /\ StructureAt(bytes, start + ItemOffset(items, i), "string") = items[i]
             /\ items[i].kind = "string"
      BY <2>6
    <3>3. /\ \E f : Seeks(f, bytes, start, Len(items))
          /\ \A f : Seeks(f, bytes, start, Len(items)) =>
                \A i \in 1..Len(items) : f[i] = start + ItemOffset(items, i)
      <4> HIDE DEF bytes
      <4> QED
        BY <2>3, <3>2, SeekIs
    <3>4. Seeks(seek, bytes, start, Len(items))
      <4>1. seek = CHOOSE f : Seeks(f, bytes, start, Len(items))
        <5> HIDE DEF block, count, bytes
        <5> QED
          BY <1>2, <2>4, <3>1 DEF Seeks
      <4>2. QED
        BY <3>3, <4>1
    <3>5. QED
      BY <3>3, <3>4
  <2>8. \A i \in 1..Len(items) : EntryAt(seek[i]) = items[i] /\ items[i] # Garbage
    <3> HIDE DEF EntryAt
    <3> QED
      BY <2>6, <2>7 DEF Garbage
  <2>9. {i \in 1..count : EntryAt(seek[i]).id = id \/ EntryAt(seek[i]) = Garbage}
           = {j \in DOMAIN items : items[j].id = id}
    <3> HIDE DEF EntryAt, count
    <3> QED
      BY <2>3, <2>4, <2>8
  <2>10. hit = first
    <3> HIDE DEF EntryAt, count
    <3> QED
      BY <1>3, <1>6, <2>9
  <2>11. first # 0 => first \in 1..Len(items)
    <3>1. PICK hits : hits = {j \in DOMAIN items : items[j].id = id}
      OBVIOUS
    <3>2. hits \subseteq Nat \ {0} /\ hits \subseteq 1..Len(items)
      BY <2>3, <3>1
    <3>3. QED
      BY <1>6, <3>1, <3>2, FirstIs
  <2>12. QED
    <3> HIDE DEF EntryAt, block
    <3> QED
      BY <1>4, <1>7, <2>4, <2>8, <2>10, <2>11
<1>10. QED
  BY <1>8, <1>9

(* Achievements have a fixed size. *)
LEMMA EntryOffsets ==
    ASSUME NEW items \in Seq(Items), \A i \in 1..Len(items) : items[i].kind = "achievement"
    PROVE  \A i \in 1..Len(items) : ItemOffset(items, i) = TableHeaderSize + AchievementSize * (i - 1)
<1> DEFINE N == Len(items)
           T == {k \in Nat : k + 1 \in 1..N => ItemOffset(items, k + 1) = 14 + 36 * k}
<1>1. N \in Nat /\ \A i \in 1..N : ItemSize(items[i]) = 36
  BY DEF ItemSize, AchievementSize
<1>2. 0 \in T
  BY ItemOffsets DEF TableHeaderSize
<1>3. ASSUME NEW k \in Nat, k \in T PROVE k + 1 \in T
  <2>1. SUFFICES ASSUME (k + 1) + 1 \in 1..N PROVE ItemOffset(items, (k + 1) + 1) = 14 + 36 * (k + 1)
    OBVIOUS
  <2>2. PICK i \in 1..N : i = k + 1
    BY <1>1, <2>1
  <2>3. ItemOffset(items, i) = 14 + 36 * k
    BY <1>3, <2>2
  <2>4. ItemOffset(items, i + 1) = ItemOffset(items, i) + 36
    BY <1>1, <2>2, ItemOffsets
  <2>5. ItemOffset(items, i + 1) = 14 + 36 * (k + 1)
    BY <2>3, <2>4
  <2>6. QED
    BY <2>2, <2>5
<1>4. Nat \subseteq T
  <2> HIDE DEF T
  <2> QED
    BY <1>2, <1>3, EveryNatural
<1>5. ASSUME NEW i \in 1..N PROVE ItemOffset(items, i) = TableHeaderSize + AchievementSize * (i - 1)
  <2>1. PICK k \in Nat : i = k + 1
    BY <1>1
  <2>2. k \in T
    BY <1>4
  <2>3. QED
    BY <2>1, <2>2 DEF TableHeaderSize, AchievementSize
<1>6. QED
  BY <1>5

(* The loop over the achievements reads each of them. *)
LEMMA EntriesRead ==
    ASSUME NEW db, Packable(db), NEW w, Knows(w, db), NEW n, n = Packed(db, Metadata, XACH),
           NEW entries, entries = Entries(Structures(db), w)
    PROVE  /\ n = 0 => DOMAIN entries = {}
           /\ n # 0 => /\ n \in DOMAIN db.blocks
                       /\ DOMAIN entries = DOMAIN db.blocks[n].items
                       /\ \A i \in DOMAIN entries : entries[i] = db.blocks[n].items[i]
<1> DEFINE bytes == Structures(db)
           block == GetResource(bytes, w, Metadata, XACH)
           EntryAt(i) == StructureAt(bytes, block.pBuffer + TableHeaderSize + AchievementSize * (i - 1), "achievement")
<1>1. entries = [i \in 1..(IF block = NoBlock THEN 0 ELSE Count(bytes, block)) |-> EntryAt(i)]
  BY DEF Entries
<1>2. CASE n = 0
  <2>1. block = NoBlock
    BY <1>2, ResourceRead
  <2>2. QED
    <3> HIDE DEF block, EntryAt
    <3> QED
      BY <1>1, <1>2, <2>1
<1>3. CASE n # 0
  <2>1. n \in DOMAIN db.blocks /\ db.blocks[n].ns = Metadata /\ db.blocks[n].id = XACH
    BY <1>3, PackedIs
  <2>2. block = [pBuffer |-> ContentOffset(db) + BlockOffset(db, n), length |-> Length(db.blocks[n])]
    BY <1>3, ResourceRead
  <2>3. PICK items \in Seq(Items) : items = db.blocks[n].items /\ DOMAIN items = 1..Len(items)
    BY <2>1, PackableIs
  <2>4. block # NoBlock /\ Count(bytes, block) = Len(items)
    <3> HIDE DEF block
    <3> QED
      BY <2>1, <2>2, <2>3, BlockRead
  <2>5. DOMAIN entries = 1..Len(items) /\ \A i \in 1..Len(items) : entries[i] = EntryAt(i)
    <3> HIDE DEF block, EntryAt
    <3> QED
      BY <1>1, <2>4
  <2>6. \A i \in 1..Len(items) : items[i].kind = "achievement"
    BY <2>1, <2>3 DEF Packable
  <2>7. ASSUME NEW i \in 1..Len(items) PROVE EntryAt(i) = items[i]
    <3>1. PICK start \in Nat : start = ContentOffset(db) + BlockOffset(db, n)
      BY <2>1, ContentIs, BlockOffsets
    <3>2. block.pBuffer = start
      <4> HIDE DEF block
      <4> QED
        BY <2>2, <3>1
    <3>3. start + ItemOffset(items, i) = start + TableHeaderSize + AchievementSize * (i - 1)
      <4>1. ItemOffset(items, i) = TableHeaderSize + AchievementSize * (i - 1)
        BY <2>6, EntryOffsets
      <4>2. i \in Nat
        OBVIOUS
      <4>3. QED
        BY <4>1, <4>2 DEF TableHeaderSize, AchievementSize
    <3>4. StructureAt(bytes, start + ItemOffset(items, i), "achievement") = items[i]
      BY <2>1, <2>3, <2>6, <3>1, ItemRead
    <3>5. QED
      <4> HIDE DEF block, bytes
      <4> QED
        BY <3>2, <3>3, <3>4
  <2>8. QED
    <3> HIDE DEF EntryAt
    <3> QED
      BY <1>3, <2>1, <2>3, <2>5, <2>7
<1>4. QED
  BY <1>2, <1>3

(* What was packed of an achievement, and its texts and its image. *)
Tell(db, language, a) ==
    [id |-> a.id, name |-> PackedText(db, language, a.nameID),
     unlockedDesc |-> PackedText(db, language, a.unlockedDescID),
     lockedDesc |-> PackedText(db, language, a.lockedDescID),
     image |-> PackedImage(db, a.imageID)]

LEMMA ToldIs ==
    ASSUME NEW db, Packable(db), NEW w, Knows(w, db), NEW language, NEW a
    PROVE  Told(Structures(db), w, language, a) = Tell(db, language, a)
<1>1. \A id : GetString(Structures(db), w, language, id) = PackedText(db, language, id)
  BY TextRead
<1>2. GetResource(Structures(db), w, Images, a.imageID) = PackedImage(db, a.imageID)
  <2>1. PICK n : n = Packed(db, Images, a.imageID)
    OBVIOUS
  <2>2. PackedImage(db, a.imageID) =
           IF n = 0 THEN NoBlock
           ELSE [pBuffer |-> ContentOffset(db) + BlockOffset(db, n), length |-> Length(db.blocks[n])]
    BY <2>1 DEF PackedImage
  <2>3. QED
    BY <2>1, <2>2, ResourceRead
<1>3. QED
  BY <1>1, <1>2 DEF Told, Tell

LEMMA AchievementsRead ==
    ASSUME NEW db, Packable(db), NEW w, Knows(w, db), NEW language
    PROVE  GetAchievements(Structures(db), w, language) = PackedAchievements(db, language)
<1>1. PICK n : n = Packed(db, Metadata, XACH)
  OBVIOUS
<1>2. PICK entries : entries = Entries(Structures(db), w)
  OBVIOUS
<1>3. GetAchievements(Structures(db), w, language) =
         [i \in DOMAIN entries |-> Told(Structures(db), w, language, entries[i])]
  BY <1>2 DEF GetAchievements
<1>4. GetAchievements(Structures(db), w, language) = [i \in DOMAIN entries |-> Tell(db, language, entries[i])]
  BY <1>3, ToldIs
<1>5. PackedAchievements(db, language) =
         IF n = 0 THEN <<>> ELSE [i \in DOMAIN db.blocks[n].items |-> Tell(db, language, db.blocks[n].items[i])]
  BY <1>1 DEF PackedAchievements, Tell
<1>6. CASE n = 0
  <2>1. DOMAIN entries = {}
    BY <1>1, <1>2, <1>6, EntriesRead
  <2>2. QED
    BY <1>4, <1>5, <1>6, <2>1
<1>7. CASE n # 0
  <2>1. /\ DOMAIN entries = DOMAIN db.blocks[n].items
        /\ \A i \in DOMAIN entries : entries[i] = db.blocks[n].items[i]
    BY <1>1, <1>2, <1>7, EntriesRead
  <2>2. QED
    BY <1>4, <1>5, <1>7, <2>1
<1>8. QED
  BY <1>6, <1>7

LEMMA AchievementRead ==
    ASSUME NEW db, Packable(db), NEW w, Knows(w, db), NEW language, NEW id,
           NEW all, all = PackedAchievements(db, language),
           NEW a, a = GetAchievement(Structures(db), w, language, id),
           NEW has, has = {n \in DOMAIN all : all[n].id = id}
    PROVE  IF has = {} THEN a = NoAchievement
           ELSE \E n \in has : a = all[n] /\ \A k \in has : n <= k
<1>1. PICK entries : entries = Entries(Structures(db), w)
  OBVIOUS
<1>2. all = [i \in DOMAIN entries |-> Told(Structures(db), w, language, entries[i])]
  BY <1>1, AchievementsRead DEF GetAchievements
<1>3. \A i \in DOMAIN entries : all[i].id = entries[i].id
  BY <1>2 DEF Told
<1>4. has = {i \in DOMAIN entries : entries[i].id = id}
  BY <1>2, <1>3
<1>5. has \subseteq Nat \ {0}
  BY <1>1, <1>4 DEF Entries
<1>6. PICK hit : hit = First(has)
  OBVIOUS
<1>7. a = IF hit = 0 THEN NoAchievement ELSE Told(Structures(db), w, language, entries[hit])
  BY <1>1, <1>4, <1>6 DEF GetAchievement
<1>8. CASE has = {}
  BY <1>5, <1>6, <1>7, <1>8, FirstIs
<1>9. CASE has # {}
  <2>1. hit \in has /\ \A k \in has : hit <= k
    BY <1>5, <1>6, <1>9, FirstIs
  <2>2. hit # 0 /\ hit \in DOMAIN entries
    BY <1>4, <1>5, <2>1
  <2>3. a = all[hit]
    BY <1>2, <1>7, <2>2
  <2>4. QED
    BY <1>9, <2>1, <2>3
<1>10. QED
  BY <1>8, <1>9

(* Every search answers with what was packed. *)
Answers(bytes, w, db, language) ==
    LET all == PackedAchievements(db, language) IN
    /\ GetAchievements(bytes, w, language) = all
    /\ \A id \in 1..3 :
          /\ GetString(bytes, w, language, id) = PackedText(db, language, id)
          /\ LET a == GetAchievement(bytes, w, language, id)
                 has == {n \in DOMAIN all : all[n].id = id}
             IN  IF has = {} THEN a = NoAchievement
                 ELSE \E n \in has : a = all[n] /\ \A k \in has : n <= k

LEMMA SearchesAnswer ==
    ASSUME NEW db, Packable(db), NEW w, Knows(w, db), NEW language
    PROVE  Answers(Structures(db), w, db, language)
<1> DEFINE all == PackedAchievements(db, language)
<1>1. GetAchievements(Structures(db), w, language) = all
  BY AchievementsRead
<1>2. ASSUME NEW id \in 1..3
      PROVE  /\ GetString(Structures(db), w, language, id) = PackedText(db, language, id)
             /\ LET a == GetAchievement(Structures(db), w, language, id)
                    has == {n \in DOMAIN all : all[n].id = id}
                IN  IF has = {} THEN a = NoAchievement
                    ELSE \E n \in has : a = all[n] /\ \A k \in has : n <= k
  <2>1. GetString(Structures(db), w, language, id) = PackedText(db, language, id)
    BY TextRead
  <2>2. PICK a : a = GetAchievement(Structures(db), w, language, id)
    OBVIOUS
  <2>3. PICK has : has = {n \in DOMAIN all : all[n].id = id}
    OBVIOUS
  <2>4. IF has = {} THEN a = NoAchievement
        ELSE \E n \in has : a = all[n] /\ \A k \in has : n <= k
    <3>1. PICK told : told = all
      OBVIOUS
    <3>2. has = {n \in DOMAIN told : told[n].id = id} /\ told = PackedAchievements(db, language)
      BY <2>3, <3>1
    <3>3. IF has = {} THEN a = NoAchievement
          ELSE \E n \in has : a = told[n] /\ \A k \in has : n <= k
      BY <2>2, <3>2, AchievementRead
    <3>4. QED
      BY <3>1, <3>3, Zenon
  <2>5. QED
    BY <2>1, <2>2, <2>3, <2>4, Zenon
<1>3. QED
  BY <1>1, <1>2, Zenon DEF Answers

LEMMA LookupsFromInv == IndInv => LookupsAnswer
<1> SUFFICES ASSUME IndInv, pc = "start", wrapper.pBuffer, resource.spare = 0, NEW language \in 1..2
             PROVE  Answers(Structures(resource), wrapper, resource, language)
  BY Zenon DEF LookupsAnswer, Answers
<1>1. resource \in Databases \cup {NoDatabase} /\ wrapper \in {NoWrapper, XDBFWrapper(resource)}
  BY DEF IndInv, TypeOK
<1>2. wrapper = XDBFWrapper(resource)
  BY <1>1 DEF NoWrapper
<1>3. resource # NoDatabase
  BY <1>2 DEF NoDatabase, XDBFWrapper, NoWrapper, HeaderSize
<1>4. Packable(resource)
  BY <1>1, <1>3, DatabasesAssumption
<1>5. Knows(wrapper, resource)
  BY <1>2, <1>4, WrapperKnows
<1>6. QED
  BY <1>4, <1>5, SearchesAnswer

(* Whatever was packed, a wrapper that has kept its buffer finds it: the    *)
(* first text and the first achievement with an id, and the image of an     *)
(* achievement, if the table of entries is full (xdbf_wrapper.cpp:23,       *)
(* 49-151).                                                                *)
THEOREM LookupsAnswered == Spec => []LookupsAnswer
<1>1. QED
  BY Invariant, LookupsFromInv, PTL
==============================================================================
