------------------------------ MODULE MCLeave ------------------------------
(***************************************************************************)
(* Instances of Leave for TLC.                                             *)
(***************************************************************************)
EXTENDS Leave, TLC

Symmetry == Permutations(Requests)
=============================================================================
