---------------------------- MODULE MCKernelObject ----------------------------
(* KernelObject for TLC. *)
EXTENDS KernelObject, TLC

Symmetry == Permutations(Threads)
==============================================================================
