------------------------------ MODULE Delivery ------------------------------
(***************************************************************************)
(* What the outbox promises the source contexts, without locks, replicas   *)
(* or transactions.  Every published event is settled after it has been    *)
(* delivered, or given up after MaxAttempts failures; it is delivered      *)
(* again only if a transaction that carried it was broken off, and then    *)
(* possibly after it was settled.  The events of the Swept entity type may *)
(* be settled unseen: a start of the application settles them.             *)
(***************************************************************************)
EXTENDS Naturals

CONSTANTS Rows, Swept, MaxAttempts

VARIABLES published, attempts, processed, delivered, broken

vars == <<published, attempts, processed, delivered, broken>>

\* Bound: deliveries are counted as none, one or many.
Many == 2

Open(r) == r \in published /\ ~processed[r] /\ attempts[r] < MaxAttempts

Init ==
    /\ published = {}
    /\ attempts = [r \in Rows |-> 0]
    /\ processed = [r \in Rows |-> FALSE]
    /\ delivered = [r \in Rows |-> 0]
    /\ broken = {}

Publish(r) ==
    /\ r \notin published
    /\ published' = published \cup {r}
    /\ UNCHANGED <<attempts, processed, delivered, broken>>

Deliver(r) ==
    /\ \/ Open(r) /\ delivered[r] = 0
       \/ r \in broken
    /\ delivered' = [delivered EXCEPT ![r] = IF @ < Many THEN @ + 1 ELSE @]
    /\ UNCHANGED <<published, attempts, processed, broken>>

Settle(r) ==
    /\ Open(r)
    /\ delivered[r] > 0
    /\ processed' = [processed EXCEPT ![r] = TRUE]
    /\ attempts' = [attempts EXCEPT ![r] = @ + 1]
    /\ UNCHANGED <<published, delivered, broken>>

Fail(r) ==
    /\ Open(r)
    /\ attempts' = [attempts EXCEPT ![r] = @ + 1]
    /\ UNCHANGED <<published, processed, delivered, broken>>

Break(r) ==
    /\ Open(r)
    /\ broken' = broken \cup {r}
    /\ UNCHANGED <<published, attempts, processed, delivered>>

Dismiss ==
    /\ processed' = [r \in Rows |-> processed[r] \/ r \in published \cap Swept]
    /\ UNCHANGED <<published, attempts, delivered, broken>>

Next ==
    \/ \E r \in Rows : Publish(r) \/ Deliver(r) \/ Settle(r) \/ Fail(r) \/ Break(r)
    \/ Dismiss

Spec == Init /\ [][Next]_vars
=============================================================================
