----------------------------- MODULE MonthlyOff -----------------------------
(***************************************************************************)
(* MonthlyOffService of the attendance module, for one employee of one     *)
(* company: booking days off, the approval workflow of a booking, the      *)
(* outbox event that carries the decision, the handler that applies it,    *)
(* the repair that every start of the application runs, the deletion and   *)
(* the change of a day by an administrator, and the approved swap of one.  *)
(*                                                                         *)
(* No database transaction spans two steps.  The approval workflow and the *)
(* outbox are the ones of WorkflowService and Outbox, seen from here: one  *)
(* decision at a time, and one replica that delivers events.  The days     *)
(* modelled are days without a check-in.                                   *)
(***************************************************************************)
EXTENDS Naturals, FiniteSets

CONSTANTS
    Requests,     \* ids of monthly-off requests
    Days,         \* dates of one payroll period
    Choices,      \* request -> the selections of days it may be submitted with
    Admins,       \* concurrent calls of adminDeleteOffDate, adminUpdateOffDate and
                  \* swapMonthlyOffDay
    Outcomes,     \* the statuses approvers give a workflow
    MaxAttempts,  \* MAX_ATTEMPTS of the outbox: 5 in the code
    MaxDisruptions,  \* bound: crashes, exceptions, starts and changes in all
    Null

Terminal == {"approved", "rejected", "cancelled"}
Open     == {"pending", "returned", "escalated"}

ASSUME MonthlyOffAssumption ==
    /\ Choices \in [Requests -> SUBSET ((SUBSET Days) \ {{}})]
    /\ Outcomes \subseteq Terminal \cup Open
    /\ MaxAttempts \in Nat \ {0}
    /\ MaxDisruptions \in Nat

VARIABLES
    row,         \* the monthly_off_requests table
    workflow,    \* status of each request's workflow instance
    event,       \* where the outbox event of its resolution is
    attempts,    \* the event's attempts column
    dayOff,      \* days with an off-day attendance record and a waived absence
    submission,  \* where each call of submit is
    resolver,    \* the calls of onWorkflowResolved, by the outbox and by a start
    start,       \* the repair of a start: its phase and what is left to do
    admin,       \* where each call that deletes, changes or swaps a day is
    disruptions, \* how many of these there were, up to MaxDisruptions
    crossed,     \* history: two calls were between check and booking, two changed
                 \* one request, or one took back a request that was being changed
    cut,         \* history: requests that were approved or changed without their
                 \* days off, since the call broke off or another one interfered
    missed,      \* history: resolved requests that the latest start found pending
    misjudged    \* history: a start took a workflow that was still open, returned or
                 \* escalated, for a rejection

table   == <<row, workflow, event, attempts, dayOff>>
history == <<crossed, cut, missed, misjudged>>
vars    == <<table, submission, resolver, start, admin, disruptions, history>>

Callers == {"outbox", "start"}

Row        == [status : {"pending", "approved", "rejected"}, days : SUBSET Days,
               linked : BOOLEAN, deleted : BOOLEAN]
Submission == [at : {"ready", "checked", "inserted", "started", "done", "swapped"},
               days : SUBSET Days]
Resolution == [at : {"reading", "writing", "syncing"}, id : Requests,
               status : {"approved", "rejected"}, days : SUBSET Days]
Change     == [kind : {"delete", "update", "swap"},
               at : {"checking", "reverting", "writing", "cancelling", "creating", "syncing"},
               id : Requests, day : Days, to : Days, days : SUBSET Days, approved : BOOLEAN]

ASSUME NullAssumption == Null \notin Row /\ Null \notin Resolution /\ Null \notin Change

Live(q)    == row[q] # Null /\ ~row[q].deleted
Pending(q) == Live(q) /\ row[q].status = "pending"
Booked(q)  == IF Live(q) /\ row[q].status # "rejected" THEN row[q].days ELSE {}

\* Mutant: only approved bookings are looked at.
ConflictsApproved(days, except) ==
    \E q \in Requests \ {except} : ~Pending(q) /\ Booked(q) \cap days # {}

\* EmployeeDayConflictService.findConflicts, among monthly-off requests.
Conflicts(days, except) == \E q \in Requests \ {except} : Booked(q) \cap days # {}

\* Mutants: the status of the workflow is taken over as it is; only a rejection rejects.
VerdictAsIs(status)           == status
VerdictUnlessRejected(status) == IF status = "rejected" THEN "rejected" ELSE "approved"

\* What a resolved workflow makes of a request.
Verdict(status) == IF status = "approved" THEN "approved" ELSE "rejected"
-----------------------------------------------------------------------------
Init ==
    /\ row = [q \in Requests |-> Null]
    /\ workflow = [q \in Requests |-> "none"]
    /\ event = [q \in Requests |-> "none"]
    /\ attempts = [q \in Requests |-> 0]
    /\ dayOff = {}
    /\ submission = [q \in Requests |-> [at |-> "ready", days |-> {}]]
    /\ resolver = [c \in Callers |-> Null]
    /\ start = [at |-> "off", todo |-> {}]
    /\ admin = [a \in Admins |-> Null]
    /\ disruptions = 0
    /\ crossed = FALSE
    /\ cut = {}
    /\ missed = {}
    /\ misjudged = FALSE

\* Calls that have checked a day and not booked it yet.
Booking(a) == /\ admin[a] # Null
              /\ \/ admin[a].kind = "update" /\ admin[a].at = "writing"
                 \/ admin[a].kind = "swap" /\ admin[a].at \in {"writing", "reverting", "creating"}

AboutToBook == {q \in Requests : submission[q].at = "checked"} \cup {a \in Admins : Booking(a)}

Changing(q) == {a \in Admins : admin[a] # Null /\ admin[a].id = q}

\* An exception, the end of the process that runs a step, a start, a change.
Disruption == disruptions < MaxDisruptions /\ disruptions' = disruptions + 1
-----------------------------------------------------------------------------
(***************************************************************************)
(* submit                                                                  *)
(***************************************************************************)
Advance(q, from, to) ==
    /\ submission[q].at = from
    /\ submission' = [submission EXCEPT ![q].at = to]

\* assertNoConflict
Check(q, days) ==
    /\ submission[q].at = "ready"
    /\ ~Conflicts(days, q)
    /\ submission' = [submission EXCEPT ![q] = [at |-> "checked", days |-> days]]
    /\ crossed' = (crossed \/ AboutToBook # {})
    /\ UNCHANGED <<table, resolver, start, admin, disruptions, cut, missed, misjudged>>

Insert(q) ==
    /\ submission[q].at = "checked"
    /\ submission' = [submission EXCEPT ![q] = [at |-> "inserted", days |-> {}]]
    /\ row' = [row EXCEPT ![q] = [status |-> "pending", days |-> submission[q].days,
                                  linked |-> FALSE, deleted |-> FALSE]]
    /\ UNCHANGED <<workflow, event, attempts, dayOff, resolver, start, admin, disruptions, history>>

\* WorkflowService.start
StartWorkflow(q) ==
    /\ Advance(q, "inserted", "started")
    /\ workflow' = [workflow EXCEPT ![q] = "pending"]
    /\ UNCHANGED <<row, event, attempts, dayOff, resolver, start, admin, disruptions, history>>

Link(q) ==
    /\ Advance(q, "started", "done")
    /\ row' = [row EXCEPT ![q].linked = TRUE]
    /\ UNCHANGED <<workflow, event, attempts, dayOff, resolver, start, admin, disruptions, history>>

\* The catch clause removes the row again ...
SubmitFails(q) ==
    /\ submission[q].at \in {"inserted", "started"}
    /\ Disruption
    /\ submission' = [submission EXCEPT ![q].at = "done"]
    /\ row' = [row EXCEPT ![q] = Null]
    /\ crossed' = (crossed \/ Changing(q) # {})
    /\ UNCHANGED <<workflow, event, attempts, dayOff, resolver, start, admin, cut, missed,
                   misjudged>>

\* ... a crash leaves it.
SubmitCrashes(q) ==
    /\ submission[q].at \in {"inserted", "started"}
    /\ Disruption
    /\ submission' = [submission EXCEPT ![q].at = "done"]
    /\ UNCHANGED <<table, resolver, start, admin, history>>
-----------------------------------------------------------------------------
(***************************************************************************)
(* WorkflowService.act: the decision is saved, then published.             *)
(***************************************************************************)
Act(q, status) ==
    /\ workflow[q] \in Open
    /\ workflow' = [workflow EXCEPT ![q] = status]
    /\ event' = [event EXCEPT ![q] = IF status \in Terminal THEN "unsent" ELSE @]
    /\ UNCHANGED <<row, attempts, dayOff, submission, resolver, start, admin, disruptions, history>>

Publish(q) ==
    /\ event[q] = "unsent"
    /\ event' = [event EXCEPT ![q] = "queued"]
    /\ UNCHANGED <<row, workflow, attempts, dayOff, submission, resolver, start, admin,
                   disruptions, history>>

LoseEvent(q) ==
    /\ event[q] = "unsent"
    /\ Disruption
    /\ event' = [event EXCEPT ![q] = "lost"]
    /\ UNCHANGED <<row, workflow, attempts, dayOff, submission, resolver, start, admin,
                   history>>
-----------------------------------------------------------------------------
(***************************************************************************)
(* onWorkflowResolved, called by the outbox and by the repair of a start.  *)
(***************************************************************************)
Call(c, q, status) ==
    /\ resolver[c] = Null
    /\ resolver' = [resolver EXCEPT ![c] = [at |-> "reading", id |-> q,
                                            status |-> Verdict(status), days |-> {}]]

\* The caller hears of the end of the call.
Return(c, ok) ==
    /\ resolver' = [resolver EXCEPT ![c] = Null]
    /\ IF c = "outbox"
       THEN /\ event' = [event EXCEPT ![resolver[c].id] = IF ok THEN "processed" ELSE @]
            /\ attempts' = [attempts EXCEPT ![resolver[c].id] = @ + 1]
       ELSE UNCHANGED <<event, attempts>>

\* The dispatcher claims an event and calls the handler.
Deliver(q) ==
    /\ event[q] = "queued"
    /\ attempts[q] < MaxAttempts
    /\ Call("outbox", q, workflow[q])
    /\ UNCHANGED <<table, submission, start, admin, disruptions, history>>

\* Missing, deleted and decided requests are left alone.
ReadRow(c) ==
    LET q == resolver[c].id IN
    /\ resolver[c] # Null
    /\ resolver[c].at = "reading"
    /\ IF Pending(q)
       THEN /\ resolver' = [resolver EXCEPT ![c].at = "writing", ![c].days = row[q].days]
            /\ UNCHANGED <<event, attempts>>
       ELSE Return(c, TRUE)
    /\ UNCHANGED <<row, workflow, dayOff, submission, start, admin, disruptions, history>>

\* The update names the row by its id only; a row that is gone makes it throw.
WriteRow(c) ==
    LET r == resolver[c] IN
    /\ r # Null
    /\ r.at = "writing"
    /\ IF row[r.id] = Null
       THEN Return(c, FALSE) /\ UNCHANGED row
       ELSE /\ row' = [row EXCEPT ![r.id].status = r.status]
            /\ IF r.status = "approved"
               THEN /\ resolver' = [resolver EXCEPT ![c].at = "syncing"]
                    /\ UNCHANGED <<event, attempts>>
               ELSE Return(c, TRUE)
    /\ UNCHANGED <<workflow, dayOff, submission, start, admin, disruptions, history>>

\* syncApprovedOffDays, day by day, for the days that were read.
SyncDay(c, d) ==
    /\ resolver[c] # Null
    /\ resolver[c].at = "syncing"
    /\ d \in resolver[c].days
    /\ dayOff' = dayOff \cup {d}
    /\ resolver' = [resolver EXCEPT ![c].days = @ \ {d}]
    /\ UNCHANGED <<row, workflow, event, attempts, submission, start, admin, disruptions, history>>

\* Mutant: the call does not wait for its days.
SyncEarly(c) ==
    /\ resolver[c] # Null
    /\ resolver[c].at = "syncing"
    /\ Return(c, TRUE)
    /\ UNCHANGED <<row, workflow, dayOff, submission, start, admin, disruptions, history>>

SyncDone(c) ==
    /\ resolver[c] # Null
    /\ resolver[c].at = "syncing"
    /\ resolver[c].days = {}
    /\ Return(c, TRUE)
    /\ UNCHANGED <<row, workflow, dayOff, submission, start, admin, disruptions, history>>

\* A start logs the exception and leaves the request as it is.
ResolverFails(c) ==
    LET r == resolver[c] IN
    /\ r # Null
    /\ Disruption
    /\ Return(c, FALSE)
    /\ cut' = IF r.at = "syncing" THEN cut \cup {r.id} ELSE cut
    /\ missed' = IF c = "start" THEN missed \ {r.id} ELSE missed
    /\ UNCHANGED <<row, workflow, dayOff, submission, start, admin, crossed, misjudged>>

\* The process ends: the outbox will claim the event again.
ResolverCrashes(c) ==
    LET r == resolver[c] IN
    /\ r # Null
    /\ Disruption
    /\ resolver' = [resolver EXCEPT ![c] = Null]
    /\ start' = IF c = "start" THEN [at |-> "off", todo |-> {}] ELSE start
    /\ cut' = IF r.at = "syncing" THEN cut \cup {r.id} ELSE cut
    /\ UNCHANGED <<table, submission, admin, crossed, missed, misjudged>>
-----------------------------------------------------------------------------
(***************************************************************************)
(* onModuleInit: reconcileResolvedWorkflows, then the sweep of the outbox. *)
(***************************************************************************)
\* Mutant: only approvals are repaired.
RepairableApproved == {q \in Requests : Pending(q) /\ row[q].linked /\ workflow[q] = "approved"}

Repairable == {q \in Requests : Pending(q) /\ row[q].linked /\ workflow[q] # "pending"}
Orphans    == {q \in Requests : Pending(q) /\ ~row[q].linked}

\* Every status but pending and approved counts as a rejection; with nothing
\* pending that has a workflow, orphans are not looked for.
Start ==
    /\ start.at = "off"
    /\ Disruption
    /\ start' = IF \E q \in Requests : Pending(q) /\ row[q].linked
                THEN [at |-> "repairing",
                      todo |-> {[id |-> q, status |-> workflow[q]] : q \in Repairable}]
                ELSE [at |-> "orphans", todo |-> {}]
    /\ missed' = {q \in Requests : Pending(q) /\ row[q].linked /\ workflow[q] \in Terminal}
    /\ misjudged' = (misjudged \/ \E q \in Repairable : workflow[q] \in Open)
    /\ UNCHANGED <<table, submission, resolver, admin, crossed, cut>>

Repair ==
    /\ start.at = "repairing"
    /\ \E t \in start.todo :
        /\ Call("start", t.id, t.status)
        /\ start' = [start EXCEPT !.todo = @ \ {t}]
    /\ UNCHANGED <<table, submission, admin, disruptions, history>>

FindOrphans ==
    /\ start = [at |-> "repairing", todo |-> {}]
    /\ resolver["start"] = Null
    /\ start' = [at |-> "orphans", todo |-> Orphans]
    /\ UNCHANGED <<table, submission, resolver, admin, disruptions, history>>

\* An orphan is dropped if its days are booked elsewhere.
CheckOrphan ==
    /\ start.at = "orphans"
    /\ \E q \in start.todo :
        /\ row[q] # Null
        /\ start' = [start EXCEPT !.todo = @ \ {q}]
        /\ row' = IF row[q].days = {} \/ Conflicts(row[q].days, q)
                  THEN [row EXCEPT ![q].status = "rejected", ![q].deleted = TRUE]
                  ELSE row
    /\ UNCHANGED <<workflow, event, attempts, dayOff, submission, resolver, admin, disruptions, history>>

\* The orphan's own submit has removed it: if the update is tried it throws,
\* and there is no sweep.
OrphanGone ==
    /\ start.at = "orphans"
    /\ \E q \in start.todo :
        /\ row[q] = Null
        /\ \/ start' = [start EXCEPT !.todo = @ \ {q}]
           \/ start' = [at |-> "off", todo |-> {}]
    /\ UNCHANGED <<table, submission, resolver, admin, disruptions, history>>

\* markStaleMonthlyOffOutboxProcessed; it waits for a claimed event.
Sweep ==
    /\ start = [at |-> "orphans", todo |-> {}]
    /\ resolver["outbox"] = Null
    /\ event' = [q \in Requests |-> IF event[q] = "queued" THEN "processed" ELSE event[q]]
    /\ start' = [at |-> "off", todo |-> {}]
    /\ UNCHANGED <<row, workflow, attempts, dayOff, submission, resolver, admin, disruptions, history>>
-----------------------------------------------------------------------------
(***************************************************************************)
(* adminDeleteOffDate, adminUpdateOffDate and swapMonthlyOffDay            *)
(***************************************************************************)
AdminGoto(a, at) == admin' = [admin EXCEPT ![a].at = at]
AdminEnd(a)      == admin' = [admin EXCEPT ![a] = Null]
AdminAt(a, at)   == admin[a] # Null /\ admin[a].at = at
Writing(a, kind) == AdminAt(a, "writing") /\ admin[a].kind = kind

\* All three work on a copy of the request; a deletion has no other day.
AdminRead(a, kind, q, d, to, at) ==
    /\ admin[a] = Null
    /\ Disruption
    /\ Live(q)
    /\ d \in row[q].days
    /\ admin' = [admin EXCEPT ![a] =
           [kind |-> kind, at |-> at, id |-> q, day |-> d, to |-> to, days |-> row[q].days,
            approved |-> row[q].status = "approved"]]
    /\ crossed' = (crossed \/ Changing(q) # {})
    /\ UNCHANGED <<table, submission, resolver, start, cut, missed, misjudged>>

DeleteRead(a, q, d) ==
    AdminRead(a, "delete", q, d, d,
              IF Live(q) /\ row[q].status = "approved" THEN "reverting" ELSE "writing")

UpdateRead(a, q, d, to) ==
    AdminRead(a, "update", q, d, to, "checking") /\ to \notin row[q].days

SwapRead(a, q, d, to) ==
    /\ AdminRead(a, "swap", q, d, to, "checking")
    /\ row[q].status # "rejected"
    /\ to \notin row[q].days

\* assertNoConflict
AdminCheck(a) ==
    /\ AdminAt(a, "checking")
    /\ IF Conflicts({admin[a].to}, admin[a].id)
       THEN AdminEnd(a) /\ UNCHANGED crossed
       ELSE AdminGoto(a, "writing") /\ crossed' = (crossed \/ AboutToBook # {})
    /\ UNCHANGED <<table, submission, resolver, start, disruptions, cut, missed, misjudged>>

\* revertOffDaySideEffects; an update and a swap have freed the day before, so that
\* it may be the day of another booking by now.
AdminRevert(a) ==
    LET c == admin[a] IN
    /\ AdminAt(a, "reverting")
    /\ dayOff' = dayOff \ {c.day}
    /\ AdminGoto(a, CASE c.kind = "delete" -> "writing"
                      [] c.kind = "update" -> "syncing"
                      [] c.kind = "swap"   -> "creating")
    /\ cut' = cut \cup {q \in Requests \ {c.id} : c.day \in Booked(q)
                                                  /\ row[q].status = "approved"}
    /\ UNCHANGED <<row, workflow, event, attempts, submission, resolver, start, disruptions,
                   crossed, missed, misjudged>>

\* The update names the row by its id only; a row that is gone makes it throw.
AdminWrite(a, new, at) ==
    /\ IF row[admin[a].id] = Null
       THEN AdminEnd(a) /\ UNCHANGED row
       ELSE /\ row' = [row EXCEPT ![admin[a].id] = new]
            /\ IF at = "done" THEN AdminEnd(a) ELSE AdminGoto(a, at)
    /\ UNCHANGED <<workflow, event, attempts, dayOff, submission, resolver, start, disruptions,
                   crossed, missed, misjudged>>

\* The last day takes the request with it.
DeleteWrite(a) ==
    LET old  == row[admin[a].id]
        rest == admin[a].days \ {admin[a].day}
    IN
    /\ Writing(a, "delete")
    /\ IF rest # {}
       THEN AdminWrite(a, [old EXCEPT !.days = rest], "done")
       ELSE AdminWrite(a, [old EXCEPT !.days = {}, !.status = "rejected",
                                      !.deleted = TRUE], "cancelling")
    /\ UNCHANGED cut

\* Recorded if the request was approved when it was read.
UpdateWrite(a) ==
    LET c == admin[a] IN
    /\ Writing(a, "update")
    /\ AdminWrite(a, [row[c.id] EXCEPT !.days = (c.days \ {c.day}) \cup {c.to}],
                  IF c.approved THEN "reverting" ELSE "done")
    /\ cut' = IF /\ ~c.approved
                 /\ \/ row[c.id] # Null /\ row[c.id].status = "approved"
                    \/ \E r \in Callers : /\ resolver[r] # Null
                                          /\ resolver[r].id = c.id
                                          /\ resolver[r].at = "writing"
              THEN cut \cup {c.id} ELSE cut

\* The last day leaves a rejected request.
SwapWrite(a) ==
    LET old  == row[admin[a].id]
        rest == admin[a].days \ {admin[a].day}
    IN
    /\ Writing(a, "swap")
    /\ AdminWrite(a, IF rest # {} THEN [old EXCEPT !.days = rest]
                             ELSE [old EXCEPT !.days = {}, !.status = "rejected"],
                  "reverting")
    /\ UNCHANGED cut

\* cancelLinkedApprovals
AdminCancel(a) ==
    /\ AdminAt(a, "cancelling")
    /\ workflow' = [workflow EXCEPT ![admin[a].id] = IF @ = "pending" THEN "cancelled" ELSE @]
    /\ AdminEnd(a)
    /\ UNCHANGED <<row, event, attempts, dayOff, submission, resolver, start, disruptions, history>>

\* A swap books the other day under a new id, as approved.
SwapCreate(a, q) ==
    /\ AdminAt(a, "creating")
    /\ submission[q].at = "ready"
    /\ submission' = [submission EXCEPT ![q].at = "swapped"]
    /\ row' = [row EXCEPT ![q] = [status |-> "approved", days |-> {admin[a].to},
                                  linked |-> FALSE, deleted |-> FALSE]]
    /\ admin' = [admin EXCEPT ![a].id = q, ![a].at = "syncing"]
    /\ UNCHANGED <<workflow, event, attempts, dayOff, resolver, start, disruptions, history>>

\* syncApprovedOffDays
AdminSync(a) ==
    /\ AdminAt(a, "syncing")
    /\ dayOff' = dayOff \cup {admin[a].to}
    /\ AdminEnd(a)
    /\ UNCHANGED <<row, workflow, event, attempts, submission, resolver, start, disruptions, history>>

\* The call breaks off.
AdminFails(a) ==
    /\ admin[a] # Null
    /\ Disruption
    /\ AdminEnd(a)
    /\ cut' = cut \cup {admin[a].id}
    /\ UNCHANGED <<table, submission, resolver, start, crossed, missed, misjudged>>
-----------------------------------------------------------------------------
Next ==
    \/ \E q \in Requests :
        \/ \E days \in Choices[q] : Check(q, days)
        \/ Insert(q) \/ StartWorkflow(q) \/ Link(q) \/ SubmitFails(q) \/ SubmitCrashes(q)
        \/ \E status \in Outcomes : Act(q, status)
        \/ Publish(q) \/ LoseEvent(q) \/ Deliver(q)
    \/ \E c \in Callers :
        \/ ReadRow(c) \/ WriteRow(c) \/ SyncDone(c) \/ ResolverFails(c) \/ ResolverCrashes(c)
        \/ \E d \in Days : SyncDay(c, d)
    \/ Start \/ Repair \/ FindOrphans \/ CheckOrphan \/ OrphanGone \/ Sweep
    \/ \E a \in Admins :
        \/ \E q \in Requests, d \in Days :
            DeleteRead(a, q, d) \/ \E to \in Days : UpdateRead(a, q, d, to) \/ SwapRead(a, q, d, to)
        \/ AdminCheck(a) \/ AdminRevert(a) \/ AdminCancel(a)
        \/ DeleteWrite(a) \/ UpdateWrite(a) \/ SwapWrite(a)
        \/ \E q \in Requests : SwapCreate(a, q)
        \/ AdminSync(a) \/ AdminFails(a)

Spec == Init /\ [][Next]_vars
-----------------------------------------------------------------------------
TypeOK ==
    /\ row \in [Requests -> Row \cup {Null}]
    /\ workflow \in [Requests -> Terminal \cup Open \cup {"none"}]
    /\ event \in [Requests -> {"none", "unsent", "queued", "lost", "processed"}]
    /\ attempts \in [Requests -> 0..MaxAttempts]
    /\ dayOff \subseteq Days
    /\ submission \in [Requests -> Submission]
    /\ resolver \in [Callers -> Resolution \cup {Null}]
    /\ start.at \in {"off", "repairing", "orphans"}
    /\ admin \in [Admins -> Change \cup {Null}]
    /\ disruptions \in 0..MaxDisruptions
    /\ crossed \in BOOLEAN
    /\ cut \subseteq Requests
    /\ missed \subseteq Requests
    /\ misjudged \in BOOLEAN

\* A day is booked once, whatever approvals, returns, repairs, deletions, changes
\* and swaps do to the bookings, unless calls crossed or a start gave up a request
\* whose workflow was still open: its days are free then, and booked again if the
\* request is approved after all by a handler that read it before.
NoDoubleBooking ==
    ~crossed /\ ~misjudged =>
        \A p, q \in Requests : p # q => Booked(p) \cap Booked(q) = {}

\* An approved request has its days off recorded, but for the days a call is
\* still to record, or when a call broke off or reverted a day it no longer held.
ApprovedIsSynced ==
    ~crossed => \A q \in Requests \ cut :
        Live(q) /\ row[q].status = "approved" =>
            \A d \in row[q].days :
                \/ d \in dayOff
                \/ \E c \in Callers : resolver[c] # Null /\ resolver[c].id = q
                                       /\ resolver[c].at = "syncing" /\ d \in resolver[c].days
                \/ \E a \in Changing(q) : d \in {admin[a].day, admin[a].to}

\* Requests that still have their days.  A swap makes one that has no workflow.
Decided(status) ==
    {q \in Requests : /\ Live(q) /\ row[q].status = status
                      /\ row[q].days # {} /\ submission[q].at # "swapped"}

\* A request is decided as its workflow was, never before it and never against it,
\* by the outbox and by a repair.  It is approved only if the workflow was, whatever
\* crosses; of two changes that cross one may give back a day to a request that the
\* other, a swap, had emptied and rejected, and a start rejects what is still open.
RowFollowsWorkflow ==
    /\ \A q \in Decided("approved") : workflow[q] = "approved"
    /\ ~crossed /\ ~misjudged =>
        \A q \in Decided("rejected") : workflow[q] \in {"rejected", "cancelled"}

\* "Repair monthly-off rows stuck in pending after workflow already resolved"
RepairsOnlyResolved == ~crossed => \A q \in Decided("rejected") : workflow[q] \notin Open

\* A start applies every decision whose event was lost, given up or not yet
\* delivered when it began, before it sweeps the outbox.
RepairedByStart ==
    start.at = "orphans" => \A q \in missed : ~Pending(q)
=============================================================================
