----------------------------- MODULE MCPayroll -----------------------------
(* A small payroll for TLC.  The two callers are alike. *)
EXTENDS Payroll, TLC

CONSTANTS c1, c2, o1, i1, i2, i3

Symmetry == Permutations({c1, c2})
=============================================================================
