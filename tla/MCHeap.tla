---------------------------------- MODULE MCHeap ----------------------------------
(* Heap for TLC. *)
EXTENDS Heap, TLC

(* Threads and blocks are interchangeable; used by the safety runs only. *)
Symmetry == Permutations(Threads) \cup Permutations(Blocks)
==============================================================================
