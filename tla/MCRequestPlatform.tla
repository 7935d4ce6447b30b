------------------------- MODULE MCRequestPlatform -------------------------
(* A small request platform for TLC. *)
EXTENDS RequestPlatform

CONSTANTS r1, c1, c2, boot
=============================================================================
