--------------------------- MODULE MCBasicDecompress ---------------------------
(* BasicDecompress on every table of three blocks of up to two bytes each,  *)
(* in a buffer that is too small, exactly large enough, or too large.       *)
EXTENDS BasicDecompress
==============================================================================
