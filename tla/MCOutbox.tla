------------------------------ MODULE MCOutbox ------------------------------
(***************************************************************************)
(* Instances of Outbox for TLC.  Rows are numbers, so only the replicas    *)
(* are symmetric.                                                          *)
(***************************************************************************)
EXTENDS Outbox, TLC

ReplicaSymmetry == Permutations(Dispatchers)
=============================================================================
