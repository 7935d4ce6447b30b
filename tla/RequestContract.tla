-------------------------- MODULE RequestContract --------------------------
(***************************************************************************)
(* What the request platform promises about a request: what it does to the *)
(* rest of the system, its effect, is there only between the approval and  *)
(* the cancellation of the request.  A request hit by one of the           *)
(* irregularities that RequestPlatform names is "disturbed": nothing is    *)
(* promised about it any more.                                             *)
(***************************************************************************)
CONSTANT Requests

VARIABLE phase

Phases == {"none", "draft", "review", "accepted", "applied", "refused", "withdrawn",
           "disturbed"}

Init == phase = [r \in Requests |-> "none"]

Move(r, from, to) == phase[r] \in from /\ phase' = [phase EXCEPT ![r] = to]

Open(r)     == Move(r, {"none"}, "draft")
Submit(r)   == Move(r, {"none", "draft"}, "review")
Accept(r)   == Move(r, {"review"}, "accepted")
Refuse(r)   == Move(r, {"review"}, "refused")
Apply(r)    == Move(r, {"accepted"}, "applied")
Undo(r)     == Move(r, {"applied"}, "accepted")
Withdraw(r) == Move(r, {"draft", "review", "accepted"}, "withdrawn")
Disturb(r)  == Move(r, Phases, "disturbed")

Next == \E r \in Requests :
    Open(r) \/ Submit(r) \/ Accept(r) \/ Refuse(r) \/ Apply(r) \/ Undo(r) \/ Withdraw(r)
    \/ Disturb(r)

Spec == Init /\ [][Next]_phase
=============================================================================
