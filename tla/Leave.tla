------------------------------- MODULE Leave -------------------------------
(***************************************************************************)
(* LeaveService of the leave module, for one employee, one leave type and  *)
(* one balance period: requesting leave, the outbox handler that applies   *)
(* the decision of its workflow, and an administrator's update or deletion *)
(* of a request.  All of them keep two tables in step: the requests, which *)
(* are saved as whole rows from a copy read earlier, and the balance,      *)
(* which is read and written back in a transaction of its own that does    *)
(* not keep others from writing in between.                                *)
(*                                                                         *)
(* The workflow and the outbox are seen from here: a request is decided at *)
(* most once, its event is handled by one replica at a time, and handled   *)
(* again if the replica dies before the event is marked processed.         *)
(***************************************************************************)
EXTENDS Integers, FiniteSets, Functions

CONSTANTS
    Requests,   \* ids of leave requests
    Admins,     \* concurrent calls of updateLeaveRequest and deleteLeaveRequest
    Lengths,    \* the numbers of days a request may ask for
    Entitled,   \* days the balance grants
    MaxDisruptions, \* bound: updates, deletions and crashes, together
    Null

ASSUME LeaveAssumption ==
    /\ "outbox" \notin Admins
    /\ Lengths \subseteq Nat \ {0}
    /\ Entitled \in Nat
    /\ MaxDisruptions \in Nat

VARIABLES
    row,         \* the leave_requests table
    balance,     \* the leave_balances row: days used, and those borrowed
    workflow,    \* status of each request's workflow instance
    event,       \* where the outbox event of its resolution is
    submission,  \* the copy requestLeave will save once more
    job,         \* what the outbox handler and each administrator are doing
    disruptions, \* how many there were, up to MaxDisruptions
    crossed,     \* history: a copy was read while another job could write it
    broken,      \* history: a crash left one of the two tables behind
    charged      \* history: how often the handler charged each request

stores  == <<row, balance, workflow, event, submission>>
history == <<crossed, broken, charged>>
vars    == <<stores, job, disruptions, history>>

Callers == {"outbox"} \cup Admins

Row     == [status : {"pending", "approved", "rejected"}, days : Lengths,
            borrowed : BOOLEAN, deleted : BOOLEAN]
Balance == [used : Nat, borrowed : Nat]
Job     == [kind : {"approved", "rejected", "update", "delete"},
            at : {"saving", "consuming", "charging", "freeing", "releasing",
                  "deleting", "cancelling", "committing"},
            id : Requests, copy : Row, days : Lengths, read : Balance]

ASSUME NullAssumption == Null \notin Row /\ Null \notin Job

Decisions == {"approved", "rejected", "cancelled"}
Open      == {"pending", "returned"}   \* "returned" stands for "escalated" as well

\* What the handler makes of a decision.
Verdict(status) == IF status = "approved" THEN "approved" ELSE "rejected"

Live(q)      == row[q] # Null /\ ~row[q].deleted
ActiveOn(q)  == {c \in Callers : job[c] # Null /\ job[c].id = q}
Holders      == {c \in Callers : job[c] # Null /\ job[c].at \in {"charging", "releasing"}}
Remaining    == Entitled - balance.used
Borrowed(r)  == IF r.borrowed THEN r.days ELSE 0

\* Mutant: the balance is not kept from going below zero.
Unclamped(n) == n

NotBelow0(n) == IF n < 0 THEN 0 ELSE n
-----------------------------------------------------------------------------
Init ==
    /\ row = [q \in Requests |-> Null]
    /\ balance = [used |-> 0, borrowed |-> 0]
    /\ workflow = [q \in Requests |-> "none"]
    /\ event = [q \in Requests |-> "none"]
    /\ submission = [q \in Requests |-> Null]
    /\ job = [c \in Callers |-> Null]
    /\ disruptions = 0
    /\ crossed = FALSE
    /\ broken = FALSE
    /\ charged = [q \in Requests |-> 0]
-----------------------------------------------------------------------------
(***************************************************************************)
(* requestLeave                                                            *)
(***************************************************************************)
\* Pending requests reserve nothing; the balance is read a moment before the
\* insert, which only decides whether the days count as borrowed.
RequestLeave(q, days, wantsBorrow) ==
    LET new == [status |-> "pending", days |-> days,
                borrowed |-> wantsBorrow /\ days > Remaining, deleted |-> FALSE]
    IN
    /\ row[q] = Null
    /\ days > Remaining => wantsBorrow
    /\ row' = [row EXCEPT ![q] = new]
    /\ submission' = [submission EXCEPT ![q] = new]
    /\ UNCHANGED <<balance, workflow, event, job, disruptions, history>>

StartWorkflow(q) ==
    /\ submission[q] # Null
    /\ workflow[q] = "none"
    /\ workflow' = [workflow EXCEPT ![q] = "pending"]
    /\ UNCHANGED <<row, balance, event, submission, job, disruptions, history>>

\* attachWorkflow and the second save; deletedAt is not among its columns.
Attach(q) ==
    /\ submission[q] # Null
    /\ workflow[q] # "none"
    /\ row' = [row EXCEPT ![q] = [submission[q] EXCEPT !.deleted = row[q].deleted]]
    /\ submission' = [submission EXCEPT ![q] = Null]
    /\ UNCHANGED <<balance, workflow, event, job, disruptions, history>>
-----------------------------------------------------------------------------
\* WorkflowService.act and the publication of a decision.
Act(q, status) ==
    /\ workflow[q] \in Open
    /\ workflow' = [workflow EXCEPT ![q] = status]
    /\ event' = [event EXCEPT ![q] = IF status \in Decisions THEN "queued" ELSE @]
    /\ UNCHANGED <<row, balance, submission, job, disruptions, history>>
-----------------------------------------------------------------------------
(***************************************************************************)
(* Jobs: each starts with a copy of a request and goes on from there.      *)
(***************************************************************************)
Begin(c, q, kind, at, days) ==
    /\ job[c] = Null
    /\ job' = [job EXCEPT ![c] = [kind |-> kind, at |-> at, id |-> q, copy |-> row[q],
                                  days |-> days, read |-> balance]]
    /\ crossed' = (crossed \/ ActiveOn(q) # {} \/ submission[q] # Null)

Disrupt == disruptions < MaxDisruptions /\ disruptions' = disruptions + 1

Goto(c, at) == job' = [job EXCEPT ![c].at = at]
End(c)      == job' = [job EXCEPT ![c] = Null]

\* Mutant: the event is marked processed before it is handled.
DeliverMarked(q) ==
    /\ event[q] = "queued"
    /\ IF Live(q) THEN Begin("outbox", q, Verdict(workflow[q]), "saving", row[q].days)
                  ELSE job["outbox"] = Null /\ UNCHANGED <<job, crossed>>
    /\ event' = [event EXCEPT ![q] = "processed"]
    /\ UNCHANGED <<row, balance, workflow, submission, disruptions, broken, charged>>

\* LeaveService.onWorkflowResolved, called by the outbox.
Deliver(q) ==
    /\ event[q] = "queued"
    /\ IF Live(q)
       THEN Begin("outbox", q, Verdict(workflow[q]), "saving", row[q].days) /\ UNCHANGED event
       ELSE /\ job["outbox"] = Null
            /\ event' = [event EXCEPT ![q] = "processed"]
            /\ UNCHANGED <<job, crossed>>
    /\ UNCHANGED <<row, balance, workflow, submission, disruptions, broken, charged>>

\* updateLeaveRequest
Update(c, q, days) ==
    /\ c \in Admins
    /\ Disrupt
    /\ Live(q)
    /\ Begin(c, q, "update", IF row[q].status = "approved" THEN "freeing" ELSE "saving", days)
    /\ UNCHANGED <<stores, broken, charged>>

\* deleteLeaveRequest
Delete(c, q) ==
    /\ c \in Admins
    /\ Disrupt
    /\ Live(q)
    /\ Begin(c, q, "delete", IF row[q].status = "approved" THEN "freeing" ELSE "deleting",
             row[q].days)
    /\ UNCHANGED <<stores, broken, charged>>

\* saveRequest: the whole row, but for deletedAt.
Save(c) ==
    LET j   == job[c]
        new == IF j.kind = "update" THEN [j.copy EXCEPT !.days = j.days]
                                    ELSE [j.copy EXCEPT !.status = j.kind]
    IN
    /\ j # Null
    /\ j.at = "saving"
    /\ row' = [row EXCEPT ![j.id] = [new EXCEPT !.deleted = row[j.id].deleted]]
    /\ IF new.status = "approved"
       THEN job' = [job EXCEPT ![c].at = "consuming", ![c].copy = new]
       ELSE IF c = "outbox" THEN Goto(c, "committing") ELSE End(c)
    /\ UNCHANGED <<balance, workflow, event, submission, disruptions, history>>

\* applyConsumption and releaseConsumption: the read ...
ReadBalance(c) ==
    LET j == job[c] IN
    /\ j # Null
    /\ j.at \in {"consuming", "freeing"}
    /\ job' = [job EXCEPT ![c].read = balance,
                          ![c].at = IF j.at = "consuming" THEN "charging" ELSE "releasing"]
    /\ crossed' = (crossed \/ Holders # {})
    /\ UNCHANGED <<stores, disruptions, broken, charged>>

\* ... and the write of applyConsumption, ...
Charge(c) ==
    LET j == job[c] IN
    /\ j # Null
    /\ j.at = "charging"
    /\ balance' = [used |-> j.read.used + j.copy.days,
                   borrowed |-> j.read.borrowed + Borrowed(j.copy)]
    /\ charged' = [charged EXCEPT ![j.id] = IF c = "outbox" THEN @ + 1 ELSE @]
    /\ IF c = "outbox" THEN Goto(c, "committing") ELSE End(c)
    /\ UNCHANGED <<row, workflow, event, submission, disruptions, crossed, broken>>

\* Mutant: borrowed days are not given back.
ReleaseUsed(c) ==
    LET j == job[c] IN
    /\ j # Null
    /\ j.at = "releasing"
    /\ balance' = [balance EXCEPT !.used = NotBelow0(j.read.used - j.copy.days)]
    /\ Goto(c, IF j.kind = "update" THEN "saving" ELSE "deleting")
    /\ UNCHANGED <<row, workflow, event, submission, disruptions, history>>

\* ... and of releaseConsumption.
Release(c) ==
    LET j == job[c] IN
    /\ j # Null
    /\ j.at = "releasing"
    /\ balance' = [used |-> NotBelow0(j.read.used - j.copy.days),
                   borrowed |-> NotBelow0(j.read.borrowed - Borrowed(j.copy))]
    /\ Goto(c, IF j.kind = "update" THEN "saving" ELSE "deleting")
    /\ UNCHANGED <<row, workflow, event, submission, disruptions, history>>

\* softDeleteRequest
SoftDelete(c) ==
    /\ job[c] # Null
    /\ job[c].at = "deleting"
    /\ row' = [row EXCEPT ![job[c].id].deleted = TRUE]
    /\ Goto(c, "cancelling")
    /\ UNCHANGED <<balance, workflow, event, submission, disruptions, history>>

\* cancelLinkedApprovals
CancelLinked(c) ==
    /\ job[c] # Null
    /\ job[c].at = "cancelling"
    /\ workflow' = [workflow EXCEPT ![job[c].id] = IF @ = "pending" THEN "cancelled" ELSE @]
    /\ End(c)
    /\ UNCHANGED <<row, balance, event, submission, disruptions, history>>

\* The dispatcher marks the event processed.
Commit ==
    /\ job["outbox"] # Null
    /\ job["outbox"].at = "committing"
    /\ event' = [event EXCEPT ![job["outbox"].id] = "processed"]
    /\ End("outbox")
    /\ UNCHANGED <<row, balance, workflow, submission, disruptions, history>>

\* The process that runs the job ends; a job that has written nothing yet, or
\* everything, does no harm.
Harmless(j) ==
    \/ j.at \in {"freeing", "releasing", "cancelling"}
    \/ j.at \in {"saving", "deleting"} /\ (j.kind \in {"approved", "rejected"}
                                           \/ j.copy.status # "approved")
    \/ j.at = "committing" /\ j.kind = "rejected"

Crash(c) ==
    /\ job[c] # Null
    /\ Disrupt
    /\ broken' = (broken \/ ~Harmless(job[c]))
    /\ End(c)
    /\ UNCHANGED <<stores, crossed, charged>>
-----------------------------------------------------------------------------
Next ==
    \/ \E q \in Requests :
        \/ \E days \in Lengths, wantsBorrow \in BOOLEAN : RequestLeave(q, days, wantsBorrow)
        \/ StartWorkflow(q) \/ Attach(q) \/ Deliver(q)
        \/ \E status \in Decisions \cup {"returned"} : Act(q, status)
        \/ \E c \in Admins : Delete(c, q) \/ \E days \in Lengths : Update(c, q, days)
    \/ \E c \in Callers :
        Save(c) \/ ReadBalance(c) \/ Charge(c) \/ Release(c) \/ SoftDelete(c)
        \/ CancelLinked(c) \/ Crash(c)
    \/ Commit

Spec == Init /\ [][Next]_vars
-----------------------------------------------------------------------------
TypeOK ==
    /\ row \in [Requests -> Row \cup {Null}]
    /\ balance \in Balance
    /\ workflow \in [Requests -> Open \cup Decisions \cup {"none"}]
    /\ event \in [Requests -> {"none", "queued", "processed"}]
    /\ submission \in [Requests -> Row \cup {Null}]
    /\ job \in [Callers -> Job \cup {Null}]
    /\ disruptions \in 0..MaxDisruptions
    /\ crossed \in BOOLEAN
    /\ broken \in BOOLEAN
    /\ charged \in [Requests -> Nat]

\* The balance holds the days of the approved requests, no more and no less,
\* whenever nobody is at work, unless two jobs crossed or a crash came between
\* the two tables.
Approved == {q \in Requests : Live(q) /\ row[q].status = "approved"}

BalanceMatchesRequests ==
    ~crossed /\ ~broken /\ (\A c \in Callers : job[c] = Null) =>
        /\ balance.used = SumFunction([q \in Approved |-> row[q].days])
        /\ balance.borrowed = SumFunction([q \in Approved |-> Borrowed(row[q])])

\* Once its event is processed a request carries the decision of its workflow, a
\* cancellation as a rejection, whatever crashed on the way, unless two jobs crossed.
RequestFollowsWorkflow ==
    ~crossed => \A q \in Requests :
        event[q] = "processed" /\ Live(q) => row[q].status = Verdict(workflow[q])

\* A request charges the balance once, however often its event is handled.
\* ("Handler execution and processed_at update occur in the same transaction.")
ChargedOnce == \A q \in Requests : charged[q] <= 1
=============================================================================
