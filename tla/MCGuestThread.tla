----------------------------- MODULE MCGuestThread -----------------------------
(* GuestThread for TLC. *)
EXTENDS GuestThread, TLC

Symmetry == Permutations(Callers) \cup Permutations(Handles) \cup Permutations(Contexts)
==============================================================================
