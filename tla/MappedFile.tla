------------------------------ MODULE MappedFile ------------------------------
(***************************************************************************)
(* MemoryMappedFile (memory_mapped_file.cpp) as operators on the state of  *)
(* one object.  The Switch build reads the whole file into a buffer, the   *)
(* POSIX build maps it.                                                    *)
(***************************************************************************)
EXTENDS Integers

CONSTANT Platform   \* which open, close and isOpen are compiled

ASSUME PlatformAssumption == Platform \in {"switch", "posix"}

(* handle: the FILE or descriptor is open; view: buffer or fileView is set *)
MemoryMappedFile == [handle : BOOLEAN, view : BOOLEAN, size : Int]

Closed == [handle |-> FALSE, view |-> FALSE, size |-> 0]

(* fopen, fseek, ftell, malloc or fread may fail; every failure leaves the *)
(* object as closed, and so does reading an empty file.                    *)
SwitchOpen(size) ==
    {[file |-> Closed, opened |-> FALSE],
     [file |-> [handle |-> FALSE, view |-> size > 0, size |-> size], opened |-> TRUE]}

(* open, lseek and mmap may fail, and mmap does on an empty file.  What    *)
(* they leave in fileSize stays there.                                     *)
PosixOpen(size) ==
    {[file |-> [handle |-> FALSE, view |-> FALSE, size |-> s], opened |-> FALSE] : s \in {0, -1, size}}
        \cup {[file |-> [handle |-> TRUE, view |-> TRUE, size |-> s], opened |-> TRUE] : s \in {size} \ {0}}

Open(size) == IF Platform = "switch" THEN SwitchOpen(size) ELSE PosixOpen(size)

(* The POSIX build keeps fileSize. *)
Close(file) == IF Platform = "switch" THEN Closed
               ELSE [file EXCEPT !.handle = FALSE, !.view = FALSE]

IsOpen(file) == IF Platform = "switch" THEN file.view \/ file.size = 0 ELSE file.view
==============================================================================
