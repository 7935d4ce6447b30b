---------------------------- MODULE MCMonthlyOff ----------------------------
(***************************************************************************)
(* Instances of MonthlyOff for TLC: a request for two days, and one for a  *)
(* day they share, whose id a swap may take as long as it is not used.     *)
(***************************************************************************)
EXTENDS MonthlyOff, TLC

CONSTANTS Both, One, Monday, Friday, Sunday

MCChoices == (Both :> {{Monday, Friday}}) @@ (One :> {{Friday}})
=============================================================================
