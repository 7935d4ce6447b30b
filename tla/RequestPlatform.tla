-------------------------- MODULE RequestPlatform --------------------------
(***************************************************************************)
(* The request platform: submitting, approving, rejecting and cancelling a *)
(* request, and the integration that gives an approved request its effect  *)
(* in another module: an approved leave and its charge, an advance, or an  *)
(* overtime record.                                                        *)
(*                                                                         *)
(* Every API call reads the request, decides, and writes later without     *)
(* looking again; the integration is a chain of separate writes, run by    *)
(* the approving call, by HR's retry, and by every replica that starts for *)
(* the requests whose integration is not complete.  What irregularities    *)
(* that lets in is recorded per request in hits.                           *)
(***************************************************************************)
EXTENDS Integers, FiniteSets

CONSTANTS
    Requests,    \* ids of requests
    Callers,     \* handlers of API calls
    Boot,        \* the start-up code of a replica
    Orders,      \* the step orders of the approval flow
    Submissions, \* bound: how often one request may be submitted
    Ids,         \* ids of leave requests, advances and overtime records
    MaxCalls,    \* bound: API calls on existing requests
    MaxDisruptions, \* bound: crashes, failures and deployments, together
    Null

ASSUME RequestAssumption ==
    /\ Boot \notin Callers
    /\ Orders \subseteq Nat
    /\ Orders # {}
    /\ Null \notin Ids
    /\ MaxCalls \in Nat
    /\ MaxDisruptions \in Nat

VARIABLES
    inst,    \* the request_instances table
    step,    \* the approval steps of each request: one set per submission
    row,     \* the leave requests, advances and overtime records made for requests
    balance, \* leave days used
    call,    \* what each caller is doing
    due,     \* a replica has to start
    calls,       \* API calls on existing requests so far, up to MaxCalls
    disruptions, \* disruptions so far, up to MaxDisruptions
    hits,    \* history: the irregularities that hit each request
    lost     \* history: the requests whose integration a call gave up without a word,
             \* as long as nobody takes them up again

tables == <<inst, step, row, balance>>
bounds == <<calls, disruptions>>
vars   == <<tables, call, due, bounds, hits, lost>>

Kinds      == {"leave", "advance", "overtime"}
Steps      == Submissions \X Orders
Everyone   == Callers \cup {Boot}
Status     == {"none", "draft", "in_review", "approved", "rejected", "cancelled"}
Instance   == [kind : Kinds, status : Status,
               integration : {"none", "pending", "failed", "completed", "cancelled"},
               entity : Ids \cup {Null}, staged : Ids \cup {Null}]
StepStatus == {"none", "pending", "approved", "rejected", "skipped", "cancelled"}
Entity     == [of : Requests \cup {Null},
               status : {"none", "pending", "approved", "rejected", "returned"}]
Irregular  == {"stale", "overlap", "crash", "partial"}

\* The places where a call is at work outside the request's own tables.
Domain == {"staging", "creating", "linking", "undoing", "freeing", "releasing", "erasing",
           "unlinking", "cancelling", "resetting", "claiming", "looking", "finding",
           "writing", "consuming", "charging", "marking"}
Integrating == {"checking", "claiming", "looking", "finding", "writing", "consuming",
                "charging", "marking"}
Places == Domain \cup {"submitting", "discarding", "approving", "rejecting", "unstaging",
                       "checking"}
Call   == [on : Requests, at : Places, seen : Status, step : Steps \cup {Null},
           id : Ids \cup {Null}, read : Nat, todo : SUBSET Requests]

\* A caller with nothing to do is not taken for one with a call.
ASSUME CallAssumption == Null \notin Call

Pending(r)    == {s \in Steps : step[r][s] = "pending"}
\* The pending step that findFirst returns; with a second submission there may
\* be two of the same order.
Lowest(r)     == {s \in Pending(r) : \A t \in Pending(r) : s[2] <= t[2]}
Integrated(r) == inst[r].integration = "completed" /\ inst[r].entity # Null
Effects(r)    == {id \in Ids : row[id].of = r /\ row[id].status = "approved"}
Live(r)       == {id \in Ids : row[id].of = r /\ row[id].status \in {"pending", "approved"}}
AtWork(r)     == {c \in Everyone : call[c] # Null /\ call[c].on = r /\ call[c].at \in Domain}
Holders       == {c \in Everyone : call[c] # Null /\ call[c].at \in {"charging", "releasing"}}
NewId         == CHOOSE id \in Ids : row[id].status = "none"

Idle == [kind |-> "leave", status |-> "none", integration |-> "none", entity |-> Null,
         staged |-> Null]

Init ==
    /\ inst = [r \in Requests |-> Idle]
    /\ step = [r \in Requests |-> [s \in Steps |-> "none"]]
    /\ row = [id \in Ids |-> [of |-> Null, status |-> "none"]]
    /\ balance = 0
    /\ call = [c \in Everyone |-> Null]
    /\ due = FALSE
    /\ calls = 0
    /\ disruptions = 0
    /\ hits = [r \in Requests |-> {}]
    /\ lost = {}
-----------------------------------------------------------------------------
(***************************************************************************)
(* The parts the actions are made of.                                      *)
(***************************************************************************)
At(c, place)  == call[c] # Null /\ call[c].at = place
Goto(c, place) == call' = [call EXCEPT ![c].at = place]

\* What the call has read before does not matter any more.
Fresh(r, place, todo) == [on |-> r, at |-> place, seen |-> "none", step |-> Null, id |-> Null,
                          read |-> 0, todo |-> todo]
GotoFresh(c, place) == call' = [call EXCEPT ![c] = Fresh(@.on, place, @.todo)]

\* A start-up goes on to the next request of its list.
Finish(c) ==
    IF call[c].todo = {}
    THEN call' = [call EXCEPT ![c] = Null]
    ELSE \E r \in call[c].todo :
            call' = [call EXCEPT ![c] = Fresh(r, "checking", @.todo \ {r})]

Occupy(c, r, place, s) ==
    /\ call[c] = Null
    /\ call' = [call EXCEPT ![c] = [Fresh(r, place, {}) EXCEPT !.seen = inst[r].status,
                                                               !.step = s]]

Begin(c, r, place, s) == Occupy(c, r, place, s) /\ calls < MaxCalls /\ calls' = calls + 1

Disrupt == disruptions < MaxDisruptions /\ disruptions' = disruptions + 1

Hit(r, what) == hits' = [hits EXCEPT ![r] = @ \cup what]

\* The caller writes a decision although the status is no longer the one it read.
Stale(c)   == IF inst[call[c].on].status # call[c].seen THEN {"stale"} ELSE {}
\* The caller goes to work for a request while another one is at it.
Overlap(c) == IF AtWork(call[c].on) \ {c} # {} THEN {"overlap"} ELSE {}
-----------------------------------------------------------------------------
(***************************************************************************)
(* RequestInstanceService: drafts, submission, cancellation                *)
(***************************************************************************)
CreateDraft(r, kind) ==
    /\ inst[r].status = "none"
    /\ inst' = [inst EXCEPT ![r].kind = kind, ![r].status = "draft"]
    /\ UNCHANGED <<step, row, balance, call, due, lost, bounds, hits>>

Assigned(r, n) == [s \in Steps |-> IF s[1] = n THEN "pending" ELSE step[r][s]]

\* createAndSubmitSystemRequest
CreateAndSubmit(c, r, kind, n) ==
    /\ c \in Callers
    /\ inst[r].status = "none"
    /\ inst' = [inst EXCEPT ![r].kind = kind, ![r].status = "in_review"]
    /\ step' = [step EXCEPT ![r] = Assigned(r, n)]
    /\ IF kind = "leave" THEN Occupy(c, r, "staging", Null) ELSE UNCHANGED call
    /\ UNCHANGED <<row, balance, due, lost, bounds, hits>>

BeginSubmit(c, r) ==
    /\ c \in Callers
    /\ inst[r].status = "draft"
    /\ Begin(c, r, "submitting", Null)
    /\ UNCHANGED <<tables, due, lost, disruptions, hits>>

\* The transaction of submit.  The flow has at least one step.
Submit(c, n) ==
    LET r == call[c].on IN
    /\ At(c, "submitting")
    /\ \A s \in Steps : s[1] = n => step[r][s] = "none"
    /\ step' = [step EXCEPT ![r] = Assigned(r, n)]
    /\ inst' = [inst EXCEPT ![r].status = "in_review"]
    /\ IF inst[r].kind = "leave"
       THEN Hit(r, Stale(c) \cup Overlap(c)) /\ Goto(c, "staging")
       ELSE Hit(r, Stale(c)) /\ Finish(c)
    /\ UNCHANGED <<row, balance, due, lost, bounds>>

\* stageLeaveOnSubmit: no other leave on these days, ...
CheckConflict(c) ==
    /\ At(c, "staging")
    /\ IF Live(call[c].on) = {} THEN Goto(c, "creating") ELSE Finish(c)
    /\ UNCHANGED <<tables, due, lost, bounds, hits>>

\* ... a pending leave request, ...
StageLeave(c) ==
    /\ At(c, "creating")
    /\ \E id \in Ids : row[id].status = "none"
    /\ row' = [row EXCEPT ![NewId] = [of |-> call[c].on, status |-> "pending"]]
    /\ call' = [call EXCEPT ![c].id = NewId, ![c].at = "linking"]
    /\ UNCHANGED <<inst, step, balance, due, lost, bounds, hits>>

\* ... and the timeline event by which it is found again.
LinkStaged(c) ==
    /\ At(c, "linking")
    /\ inst' = [inst EXCEPT ![call[c].on].staged = call[c].id]
    /\ Finish(c)
    /\ UNCHANGED <<step, row, balance, due, lost, bounds, hits>>

\* cancelDraft, and RequestDraftExpiryService.expireStaleDrafts
BeginDiscard(c, r) ==
    /\ c \in Callers
    /\ inst[r].status = "draft"
    /\ Begin(c, r, "discarding", Null)
    /\ UNCHANGED <<tables, due, lost, disruptions, hits>>

Discard(c) ==
    /\ At(c, "discarding")
    /\ inst' = [inst EXCEPT ![call[c].on].status = "cancelled"]
    /\ Hit(call[c].on, Stale(c))
    /\ Finish(c)
    /\ UNCHANGED <<step, row, balance, due, lost, bounds>>

BeginCancel(c, r) ==
    /\ c \in Callers
    /\ inst[r].status \notin {"none", "rejected", "cancelled"}
    /\ Begin(c, r, "undoing", Null)
    /\ Hit(r, IF AtWork(r) # {} THEN {"overlap"} ELSE {})
    /\ UNCHANGED <<tables, due, lost, disruptions>>

RejectedStaged(r) ==
    IF inst[r].kind = "leave" /\ inst[r].staged # Null /\ row[inst[r].staged].status = "pending"
    THEN [row EXCEPT ![inst[r].staged].status = "rejected"]
    ELSE row

\* processCancelledRequest: a request not approved yet, ...
UndoStaged(c) ==
    LET r == call[c].on IN
    /\ At(c, "undoing")
    /\ inst[r].status # "approved"
    /\ row' = RejectedStaged(r)
    /\ Goto(c, "cancelling")
    /\ UNCHANGED <<inst, step, balance, due, lost, bounds, hits>>

\* Mutants: the charged days are not given back; the effect stays.
UndoApprovedUncharged(c) ==
    LET r  == call[c].on
        id == inst[r].entity
    IN
    /\ At(c, "undoing")
    /\ inst[r].status = "approved"
    /\ IF inst[r].kind = "advance"
       THEN Finish(c)
       ELSE call' = [call EXCEPT ![c].seen = "approved", ![c].id = id, ![c].at =
                IF ~Integrated(r) THEN "cancelling"
                ELSE IF row[id].status # "approved" THEN "unlinking" ELSE "erasing"]
    /\ UNCHANGED <<tables, due, lost, bounds, hits>>

UndoApprovedNothing(c) ==
    /\ At(c, "undoing")
    /\ inst[call[c].on].status = "approved"
    /\ call' = [call EXCEPT ![c].seen = "approved", ![c].at = "cancelling"]
    /\ UNCHANGED <<tables, due, lost, bounds, hits>>

\* ... and an approved one: an advance stays, and only an integration known to
\* be complete is reverted.
UndoApproved(c) ==
    LET r  == call[c].on
        id == inst[r].entity
    IN
    /\ At(c, "undoing")
    /\ inst[r].status = "approved"
    /\ IF inst[r].kind = "advance"
       THEN Finish(c)
       ELSE call' = [call EXCEPT ![c].seen = "approved", ![c].id = id, ![c].at =
                IF ~Integrated(r) THEN "cancelling"
                ELSE IF row[id].status # "approved" THEN "unlinking"
                ELSE IF inst[r].kind = "leave" THEN "freeing" ELSE "erasing"]
    /\ UNCHANGED <<tables, due, lost, bounds, hits>>

\* revertApprovedLeave: restoreLeaveConsumption, ...
Release(c) ==
    /\ At(c, "releasing")
    /\ balance' = IF call[c].read > 0 THEN call[c].read - 1 ELSE 0
    /\ Goto(c, "erasing")
    /\ UNCHANGED <<inst, step, row, due, lost, bounds, hits>>

\* ... and the leave request, or revertApprovedOvertime.
Erase(c) ==
    /\ At(c, "erasing")
    /\ row' = [row EXCEPT ![call[c].id].status =
                  IF inst[call[c].on].kind = "leave" THEN "returned" ELSE "rejected"]
    /\ Goto(c, "unlinking")
    /\ UNCHANGED <<inst, step, balance, due, lost, bounds, hits>>

\* The overtime is on a payroll item of a cycle that is no longer open.
RefuseErase(c) ==
    /\ At(c, "erasing")
    /\ inst[call[c].on].kind = "overtime"
    /\ Finish(c)
    /\ UNCHANGED <<tables, due, lost, bounds, hits>>

Unlink(c) ==
    /\ At(c, "unlinking")
    /\ inst' = [inst EXCEPT ![call[c].on].integration = "cancelled"]
    /\ Goto(c, "cancelling")
    /\ UNCHANGED <<step, row, balance, due, lost, bounds, hits>>

\* The transaction of cancel.
Cancel(c) ==
    LET r == call[c].on IN
    /\ At(c, "cancelling")
    /\ inst' = [inst EXCEPT ![r].status = "cancelled"]
    /\ step' = [step EXCEPT ![r] = [s \in Steps |-> IF @[s] = "pending" THEN "cancelled"
                                                                         ELSE @[s]]]
    /\ Hit(r, Stale(c))
    /\ Finish(c)
    /\ UNCHANGED <<row, balance, due, lost, bounds>>
-----------------------------------------------------------------------------
(***************************************************************************)
(* RequestApprovalService                                                  *)
(***************************************************************************)
BeginDecide(c, r, place) ==
    /\ c \in Callers
    /\ inst[r].status = "in_review"
    /\ \E s \in Lowest(r) : Begin(c, r, place, s)
    /\ UNCHANGED <<tables, due, lost, disruptions, hits>>

\* The transaction of approve; the request is read again afterwards.
Approve(c) ==
    LET r    == call[c].on
        s    == call[c].step
        next == {t \in Pending(r) \ {s} : t[2] > s[2]}
    IN
    /\ At(c, "approving")
    /\ step' = [step EXCEPT ![r][s] = "approved"]
    /\ inst' = [inst EXCEPT ![r].status = IF next = {} THEN "approved" ELSE @]
    /\ Hit(r, Stale(c))
    /\ GotoFresh(c, "checking")
    /\ UNCHANGED <<row, balance, due, lost, bounds>>

\* Mutant: the staged leave request is forgotten.
RejectOnly(c) ==
    LET r == call[c].on
        s == call[c].step
    IN
    /\ At(c, "rejecting")
    /\ step' = [step EXCEPT ![r] = [t \in Steps |->
                   IF t = s THEN "rejected" ELSE IF @[t] = "pending" THEN "skipped" ELSE @[t]]]
    /\ inst' = [inst EXCEPT ![r].status = "rejected"]
    /\ Hit(r, Stale(c))
    /\ Finish(c)
    /\ UNCHANGED <<row, balance, due, lost, bounds>>

\* The transaction of reject.
Reject(c) ==
    LET r == call[c].on
        s == call[c].step
    IN
    /\ At(c, "rejecting")
    /\ step' = [step EXCEPT ![r] = [t \in Steps |->
                   IF t = s THEN "rejected" ELSE IF @[t] = "pending" THEN "skipped" ELSE @[t]]]
    /\ inst' = [inst EXCEPT ![r].status = "rejected"]
    /\ Hit(r, Stale(c))
    /\ GotoFresh(c, "unstaging")
    /\ UNCHANGED <<row, balance, due, lost, bounds>>

\* processRejectedRequest, when the request is still rejected.
Unstage(c) ==
    LET r == call[c].on IN
    /\ At(c, "unstaging")
    /\ row' = IF inst[r].status = "rejected" THEN RejectedStaged(r) ELSE row
    /\ Hit(r, Overlap(c))
    /\ Finish(c)
    /\ UNCHANGED <<inst, step, balance, due, lost, bounds>>
-----------------------------------------------------------------------------
(***************************************************************************)
(* RequestIntegrationService                                               *)
(***************************************************************************)
\* forceRetryIntegration
BeginRetry(c, r) ==
    /\ c \in Callers
    /\ inst[r].status = "approved"
    /\ ~Integrated(r)
    /\ Begin(c, r, "resetting", Null)
    /\ Hit(r, IF AtWork(r) # {} THEN {"overlap"} ELSE {})
    /\ UNCHANGED <<tables, due, lost, disruptions>>

Reset(c) ==
    /\ At(c, "resetting")
    /\ inst' = [inst EXCEPT ![call[c].on].integration = "none", ![call[c].on].entity = Null]
    /\ GotoFresh(c, "checking")
    /\ lost' = lost \ {call[c].on}
    /\ UNCHANGED <<step, row, balance, due, bounds, hits>>

\* Mutant: only what is known to have failed.
KnownFailed == {r \in Requests : inst[r].status = "approved" /\ inst[r].integration = "failed"}

\* onModuleInit: reconcileIncompleteIntegrations lists what is not complete.
Incomplete == {r \in Requests : /\ inst[r].status = "approved"
                                /\ inst[r].integration # "cancelled"
                                /\ ~Integrated(r)}

Start ==
    /\ due
    /\ call[Boot] = Null
    /\ IF Incomplete = {}
       THEN UNCHANGED call
       ELSE \E r \in Incomplete :
                call' = [call EXCEPT ![Boot] = Fresh(r, "checking", Incomplete \ {r})]
    /\ due' = FALSE
    /\ lost' = {}
    /\ UNCHANGED <<tables, bounds, hits>>

\* Mutants: the status is not looked at; neither is what is done already.
CheckAnyStatus(c) ==
    LET r == call[c].on IN
    /\ At(c, "checking")
    /\ IF ~Integrated(r)
       THEN Hit(r, Overlap(c)) /\ Goto(c, "claiming")
       ELSE UNCHANGED hits /\ Finish(c)
    /\ UNCHANGED <<tables, due, lost, bounds>>

CheckAgain(c) ==
    LET r == call[c].on IN
    /\ At(c, "checking")
    /\ IF inst[r].status = "approved" /\ Pending(r) = {}
       THEN Hit(r, Overlap(c)) /\ Goto(c, "claiming")
       ELSE UNCHANGED hits /\ Finish(c)
    /\ UNCHANGED <<tables, due, lost, bounds>>

\* processApprovedRequest: the read and its early returns, ...
Check(c) ==
    LET r == call[c].on IN
    /\ At(c, "checking")
    /\ IF inst[r].status = "approved" /\ Pending(r) = {} /\ ~Integrated(r)
       THEN Hit(r, Overlap(c)) /\ Goto(c, "claiming")
       ELSE UNCHANGED hits /\ Finish(c)
    /\ UNCHANGED <<tables, due, lost, bounds>>

\* Mutant: a status the column does not have.
ClaimRunning(c) ==
    /\ At(c, "claiming")
    /\ inst' = [inst EXCEPT ![call[c].on].integration = "running"]
    /\ Goto(c, "looking")
    /\ UNCHANGED <<step, row, balance, due, lost, bounds, hits>>

Claim(c) ==
    /\ At(c, "claiming")
    /\ inst' = [inst EXCEPT ![call[c].on].integration = "pending"]
    /\ Goto(c, "looking")
    /\ UNCHANGED <<step, row, balance, due, lost, bounds, hits>>

Failed(r) == inst' = [inst EXCEPT ![r].integration = "failed", ![r].entity = Null]

\* ... integrateByTypeKey: what is there already, ...
LookLeave(c) ==
    LET r == call[c].on IN
    /\ At(c, "looking")
    /\ inst[r].kind = "leave"
    /\ IF inst[r].staged = Null /\ Live(r) # {}
       THEN Failed(r) /\ Finish(c)
       ELSE /\ call' = [call EXCEPT ![c].id = inst[r].staged, ![c].at = "writing"]
            /\ UNCHANGED inst
    /\ UNCHANGED <<step, row, balance, due, lost, bounds, hits>>

\* An overtime record of that day is refused, ...
LookOvertime(c) ==
    LET r == call[c].on IN
    /\ At(c, "looking")
    /\ inst[r].kind = "overtime"
    /\ IF Live(r) # {}
       THEN Failed(r) /\ Finish(c)
       ELSE Goto(c, "finding") /\ UNCHANGED inst
    /\ UNCHANGED <<step, row, balance, due, lost, bounds, hits>>

\* ... but one that has appeared since is taken for the request's own.
FindOvertime(c) ==
    LET r == call[c].on IN
    /\ At(c, "finding")
    /\ inst[r].kind = "overtime"
    /\ IF Live(r) = {}
       THEN Goto(c, "writing") /\ UNCHANGED row
       ELSE \E id \in Live(r) :
               /\ row' = [row EXCEPT ![id].status = "approved"]
               /\ call' = [call EXCEPT ![c].id = id, ![c].at = "marking"]
    /\ UNCHANGED <<inst, step, balance, due, lost, bounds, hits>>

LookAdvance(c) ==
    /\ At(c, "looking")
    /\ inst[call[c].on].kind = "advance"
    /\ Goto(c, "writing")
    /\ UNCHANGED <<tables, due, lost, bounds, hits>>

\* ... the write: the staged leave request is approved, anything else is new, ...
Write(c) ==
    LET r  == call[c].on
        id == IF call[c].id # Null THEN call[c].id ELSE NewId
    IN
    /\ At(c, "writing")
    /\ call[c].id = Null => \E n \in Ids : row[n].status = "none"
    /\ row' = [row EXCEPT ![id] = [of |-> r, status |-> "approved"]]
    /\ call' = [call EXCEPT ![c].id = id,
                            ![c].at = IF inst[r].kind = "leave" THEN "consuming" ELSE "marking"]
    /\ UNCHANGED <<inst, step, balance, due, lost, bounds, hits>>

\* ... applyLeaveConsumption (and restoreLeaveConsumption): its read ...
ReadBalance(c) ==
    /\ call[c] # Null
    /\ call[c].at \in {"consuming", "freeing"}
    /\ call' = [call EXCEPT ![c].read = balance,
                            ![c].at = IF @ = "consuming" THEN "charging" ELSE "releasing"]
    /\ Hit(call[c].on, IF Holders # {} THEN {"overlap"} ELSE {})
    /\ UNCHANGED <<tables, due, lost, bounds>>

\* ... and its write, ...
Charge(c) ==
    /\ At(c, "charging")
    /\ balance' = call[c].read + 1
    /\ Goto(c, "marking")
    /\ UNCHANGED <<inst, step, row, due, lost, bounds, hits>>

\* ... and markIntegrationResult.
Mark(c) ==
    /\ At(c, "marking")
    /\ inst' = [inst EXCEPT ![call[c].on].integration = "completed",
                            ![call[c].on].entity = call[c].id]
    /\ Finish(c)
    /\ UNCHANGED <<step, row, balance, due, lost, bounds, hits>>

\* What the call has written elsewhere still wants another write of it.
Unfinished(c) ==
    \/ call[c].at \in {"linking", "consuming", "charging", "marking"}
    \/ call[c].at \in {"erasing", "unstaging"} /\ inst[call[c].on].kind = "leave"

\* An exception while integrating, before its first write or after.
Fail(c) ==
    LET r == call[c].on IN
    /\ call[c] # Null
    /\ call[c].at \in {"looking", "finding", "writing", "consuming", "charging", "marking"}
    /\ Disrupt
    /\ Failed(r)
    /\ Hit(r, IF Unfinished(c) THEN {"partial"} ELSE {})
    /\ Finish(c)
    /\ UNCHANGED <<step, row, balance, due, lost, calls>>

\* An exception that nothing records: before the integration is tried, while it
\* is being marked failed, or in any other part of a call.
Abort(c) ==
    LET r == call[c].on IN
    /\ call[c] # Null
    /\ Disrupt
    /\ Hit(r, IF Unfinished(c) THEN {"partial"} ELSE {})
    /\ lost' = IF call[c].at \in Integrating THEN lost \cup {r} ELSE lost
    /\ Finish(c)
    /\ UNCHANGED <<tables, due, calls>>
-----------------------------------------------------------------------------
(***************************************************************************)
(* Processes come and go.                                                  *)
(***************************************************************************)
\* A call ends with its process, and the process is started again.
Crash(c) ==
    /\ call[c] # Null
    /\ Disrupt
    /\ Hit(call[c].on, IF Unfinished(c) THEN {"crash"} ELSE {})
    /\ call' = [call EXCEPT ![c] = Null]
    /\ due' = TRUE
    /\ UNCHANGED <<tables, lost, calls>>

\* Another replica is started.
Deploy ==
    /\ ~due
    /\ Disrupt
    /\ due' = TRUE
    /\ UNCHANGED <<tables, call, calls, hits, lost>>
-----------------------------------------------------------------------------
\* What a call does once it has begun.
Progress(c) ==
    \/ \E n \in Submissions : Submit(c, n)
    \/ CheckConflict(c) \/ StageLeave(c) \/ LinkStaged(c) \/ Discard(c)
    \/ UndoStaged(c) \/ UndoApproved(c) \/ Release(c) \/ Erase(c) \/ RefuseErase(c)
    \/ Unlink(c) \/ Cancel(c) \/ Approve(c) \/ Reject(c) \/ Unstage(c) \/ Reset(c)
    \/ Check(c) \/ Claim(c) \/ LookLeave(c) \/ LookOvertime(c) \/ FindOvertime(c)
    \/ LookAdvance(c) \/ Write(c) \/ ReadBalance(c) \/ Charge(c) \/ Mark(c)

Arrive(c, r) ==
    \/ \E kind \in Kinds, n \in Submissions : CreateAndSubmit(c, r, kind, n)
    \/ BeginSubmit(c, r) \/ BeginDiscard(c, r) \/ BeginCancel(c, r) \/ BeginRetry(c, r)
    \/ BeginDecide(c, r, "approving") \/ BeginDecide(c, r, "rejecting")

Next ==
    \/ \E r \in Requests :
        \/ \E kind \in Kinds : CreateDraft(r, kind)
        \/ \E c \in Callers : Arrive(c, r)
    \/ \E c \in Everyone : Progress(c) \/ Fail(c) \/ Abort(c) \/ Crash(c)
    \/ Start \/ Deploy

\* A call that has begun goes on, and a process that has to start does start;
\* nobody has to call, and nothing has to fail.
Fairness == WF_vars(Start) /\ \A c \in Everyone : WF_vars(Progress(c))

Spec     == Init /\ [][Next]_vars
FairSpec == Spec /\ Fairness
-----------------------------------------------------------------------------
TypeOK ==
    /\ inst \in [Requests -> Instance]
    /\ step \in [Requests -> [Steps -> StepStatus]]
    /\ row \in [Ids -> Entity]
    /\ balance \in Nat
    /\ call \in [Everyone -> Call \cup {Null}]
    /\ due \in BOOLEAN
    /\ calls \in 0..MaxCalls
    /\ disruptions \in 0..MaxDisruptions
    /\ hits \in [Requests -> SUBSET Irregular]
    /\ lost \subseteq Requests

\* A request has an effect only when every step of its flow was approved, unless
\* a decision was written over a status it had not seen.
SignedOff ==
    \A r \in Requests : "stale" \notin hits[r] /\ Effects(r) # {} =>
        \A o \in Orders : \E n \in Submissions : step[r][<<n, o>>] = "approved"

\* A request has its effect once, however often it is approved, retried or
\* reconciled, unless two callers were at work for it at once, or one stopped
\* between its writes.
EffectOnce ==
    \A r \in Requests : hits[r] \subseteq {"stale"} => Cardinality(Effects(r)) <= 1

\* The balance holds the approved leave requests whenever nobody is at work and
\* nothing irregular happened.
LeaveEffects == UNION {Effects(r) : r \in {q \in Requests : inst[q].kind = "leave"}}

BalanceMatchesLeave ==
    (\A r \in Requests : hits[r] = {} /\ AtWork(r) = {}) => balance = Cardinality(LeaveEffects)

\* A request closed before its last approval leaves nothing behind in the other
\* modules, not even the leave staged for it, once the call that closed it has
\* ended, unless something irregular happened.  (Cancelled after its approval, a
\* request whose integration failed does leave a pending leave behind.)
ClosedLeavesNothing ==
    \A r \in Requests :
        /\ hits[r] = {}
        /\ inst[r].status \in {"rejected", "cancelled"}
        /\ \E s \in Steps : step[r][s] \in {"rejected", "cancelled"}
        /\ \A c \in Everyone : call[c] = Null \/ call[c].on # r
        => Live(r) = {}

\* An approved request with no step left is integrated in the end, or at least
\* marked failed for HR to see, whatever crashes or fails on the way; only one
\* that a call gave up without a word waits for HR's retry or the next start-up.
Settles ==
    \A r \in Requests :
        inst[r].status = "approved" /\ Pending(r) = {}
        ~> inst[r].integration \in {"completed", "failed", "cancelled"} \/ r \in lost
           \/ inst[r].status # "approved" \/ Pending(r) # {}

\* "The request is approved at every step", the timeline says when it is approved.
ApprovedAtEveryStep ==
    \A r \in Requests : inst[r].status = "approved" =>
        \A s \in Steps : step[r][s] \in {"none", "approved"}

Phase(r) ==
    LET status == inst[r].status IN
    IF hits[r] # {} THEN "disturbed"
    ELSE IF status = "approved" THEN IF Effects(r) = {} THEN "accepted" ELSE "applied"
    ELSE IF Effects(r) # {} THEN "leaked"
    ELSE CASE status = "in_review" -> "review"
           [] status = "rejected"  -> "refused"
           [] status = "cancelled" -> "withdrawn"
           [] OTHER                -> status

Contract == INSTANCE RequestContract WITH phase <- [r \in Requests |-> Phase(r)]

\* The platform keeps the contract: no effect without approval, none left after
\* a cancellation, at any moment.
KeepsContract == Contract!Spec
=============================================================================
