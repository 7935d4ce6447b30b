------------------------- MODULE MCWorkflowService -------------------------
(***************************************************************************)
(* Instances of WorkflowService for TLC: a two-step definition whose steps *)
(* have different approvers, an owner who may step in, and one super       *)
(* administrator at most.                                                  *)
(***************************************************************************)
EXTENDS WorkflowService, TLC

CONSTANTS Lead, Manager, Owner, Admin

MCSteps     == {1, 3}
MCApprovers == (1 :> {Lead}) @@ (3 :> {Manager})

RequestSymmetry == Permutations(Requests)
=============================================================================
