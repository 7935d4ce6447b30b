--------------------------- MODULE WorkflowEntity ---------------------------
(***************************************************************************)
(* The approval state machine of one workflow instance: the entity         *)
(* WorkflowInstance of                                                     *)
(* backend/src/modules/workflow/domain/entities/workflow.entity.ts.        *)
(* An instance is a record of its status and current step order; the       *)
(* operators are the entity's methods, each with the condition under which *)
(* the method returns instead of throwing.                                 *)
(***************************************************************************)
EXTENDS Naturals

CONSTANTS
    Steps,       \* the step orders of the workflow definition
    Escalatable  \* the steps whose allowEscalate flag is set

(***************************************************************************)
(* The steps are a finite list sorted by stepOrder, so any non-empty part  *)
(* of them has a least element.                                            *)
(***************************************************************************)
ASSUME StepsAssumption ==
    /\ Steps \subseteq Nat
    /\ Escalatable \subseteq Steps
    /\ \A S \in SUBSET Steps : S # {} => \E s \in S : \A t \in S : s <= t

Terminal == {"approved", "rejected", "cancelled"}
Open     == {"pending", "returned", "escalated"}
Statuses == Terminal \cup Open

Instance == [status : Statuses, step : Nat]

Least(S) == CHOOSE s \in S : \A t \in S : s <= t

FirstStep     == IF Steps = {} THEN 1 ELSE Least(Steps)
LaterSteps(w) == {t \in Steps : t > w.step}

IsResolved(w) == w.status \in Terminal

\* WorkflowInstance.start
Started == [status |-> "pending", step |-> FirstStep]
-----------------------------------------------------------------------------
\* Mutant: an approval resolves the instance whatever steps are left.
ApproveAtOnce(w) == [w EXCEPT !.status = "approved"]

\* The last approval resolves the instance, an earlier one moves it on.
Approve(w) ==
    IF LaterSteps(w) = {}
    THEN [w EXCEPT !.status = "approved"]
    ELSE [status |-> "pending", step |-> Least(LaterSteps(w))]

Reject(w) == [w EXCEPT !.status = "rejected"]

\* Back to the initiator, at the first step.
Return(w) == [status |-> "returned", step |-> FirstStep]

\* On to the next step, if there is one, without an approval.
Escalate(w) ==
    [status |-> "escalated",
     step   |-> IF LaterSteps(w) = {} THEN w.step ELSE Least(LaterSteps(w))]

\* Mutant: a status the enum of the table does not have.
CancelMisspelt(w) == [w EXCEPT !.status = "canceled"]

Cancel(w) == [w EXCEPT !.status = "cancelled"]

\* Owner override: straight to the given terminal status.
Override(w, to) == [w EXCEPT !.status = to]
-----------------------------------------------------------------------------
Decisions == {"approve", "reject", "return", "escalate", "cancel"}
Overrides == {"override_approved", "override_rejected"}
Actions   == Decisions \cup Overrides

\* Mutant: the terminal check is forgotten.
ActionableWhenResolved(w, action) == action = "escalate" => w.step \notin Steps \ Escalatable

\* The entity's guard: false where the method throws.
Actionable(w, action) ==
    /\ ~IsResolved(w)
    /\ action = "escalate" => w.step \notin Steps \ Escalatable

Apply(w, action) ==
    CASE action = "approve"           -> Approve(w)
      [] action = "reject"            -> Reject(w)
      [] action = "return"            -> Return(w)
      [] action = "escalate"          -> Escalate(w)
      [] action = "cancel"            -> Cancel(w)
      [] action = "override_approved" -> Override(w, "approved")
      [] action = "override_rejected" -> Override(w, "rejected")
=============================================================================
