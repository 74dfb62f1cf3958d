------------------------------ MODULE MCGuestCall ------------------------------
(* GuestCall for TLC. *)
EXTENDS GuestCall

TwoModes == {"nearest", "flush"}
==============================================================================
