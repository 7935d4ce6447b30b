-------------------------- MODULE WorkflowService --------------------------
(***************************************************************************)
(* WorkflowService of the workflow module: approval requests that act on   *)
(* workflow instances.  WorkflowService.act runs as a sequence of          *)
(* independent database round trips (read, authorise, save, append to the  *)
(* action log, publish), with no transaction around them and no version    *)
(* check on the save, so requests interleave at every await and a request  *)
(* can be cut short at any of them.                                        *)
(*                                                                         *)
(* The outbox is the table system.outbox_events as its publisher fills it; *)
(* module Outbox models how it is emptied.                                 *)
(***************************************************************************)
EXTENDS WorkflowEntity, Sequences, FiniteSets

CONSTANTS
    Inst,         \* workflow instances
    Requests,     \* calls of act, each made at most once
    Users,        \* authenticated users
    Approvers,    \* step -> the users its approver rule resolves to
    Owners,       \* users whose business role is owner or secretary
    Bypass,       \* super administrators with all-company scope
    OwnerFlags,   \* values of the optional isOwnerOverride input
    Interrupted,  \* requests an exception or a crash may cut short
    Null          \* no instance yet, no input yet

ASSUME ServiceAssumption ==
    /\ Approvers \in [Steps -> SUBSET Users]
    /\ Owners \subseteq Users
    /\ Bypass \subseteq Users
    /\ OwnerFlags \subseteq BOOLEAN
    /\ Interrupted \subseteq Requests
    /\ Null \notin Instance

VARIABLES
    inst,       \* the instances table
    pc,         \* where each request is in act
    call,       \* the input of each running request and the instance it read
    actionLog,  \* the append-only action log
    outbox,     \* the events published, oldest first
    signed,     \* history: the steps an approval or escalation was saved for
    contended   \* history: the instances two writers were active on at once

vars == <<inst, pc, call, actionLog, outbox, signed, contended>>
history == <<signed, contended>>

Call     == [inst : Inst, user : Users, action : Actions,
             asOwner : BOOLEAN, read : Instance]
LogEntry == [inst : Inst, step : Nat, action : Actions, user : Users, asOwner : BOOLEAN]
Event    == [inst : Inst, status : Terminal]

InFlight(r) == pc[r] \notin {"ready", "done"}
ActiveOn(i) == {r \in Requests : InFlight(r) /\ call[r].inst = i}

\* The instance the request is about to write, or has written.
Result(r) == Apply(call[r].read, call[r].action)
-----------------------------------------------------------------------------
(***************************************************************************)
(* WorkflowApproverService                                                 *)
(***************************************************************************)
\* Mutant: an approver of any step will do.
IsActorSomeApprover(u, i) ==
    /\ inst[i].status = "pending"
    /\ \E s \in Steps : u \in Approvers[s]

\* Reads the instance again; only a pending one has a current approver.
IsActorCurrentApprover(u, i) ==
    /\ inst[i].status = "pending"
    /\ inst[i].step \in Steps
    /\ u \in Approvers[inst[i].step]

\* An approval that an owner or secretary makes in the approver's place.
InOwnersName(c) ==
    /\ c.user \notin Bypass
    /\ ~IsActorCurrentApprover(c.user, c.inst)
    /\ c.user \in Owners
    /\ c.action \in {"approve", "reject"}

IsOverride(c) == c.action \in Overrides \/ c.asOwner

MayAct(c) ==
    \/ c.user \in Bypass
    \/ IsOverride(c)
    \/ IsActorCurrentApprover(c.user, c.inst)
    \/ InOwnersName(c)
-----------------------------------------------------------------------------
Init ==
    /\ inst = [i \in Inst |-> Null]
    /\ pc = [r \in Requests |-> "ready"]
    /\ call = [r \in Requests |-> Null]
    /\ actionLog = {}
    /\ outbox = << >>
    /\ signed = [i \in Inst |-> {}]
    /\ contended = [i \in Inst |-> FALSE]

Goto(r, label) == pc' = [pc EXCEPT ![r] = label]

\* The request is over, answered or not.
Finish(r) ==
    /\ Goto(r, "done")
    /\ call' = [call EXCEPT ![r] = Null]

\* WorkflowService.start: one insert, on behalf of the source record.
Start(i) ==
    /\ inst[i] = Null
    /\ inst' = [inst EXCEPT ![i] = Started]
    /\ UNCHANGED <<pc, call, actionLog, outbox, history>>

\* act, first round trip: findInstanceById.  The web never sets asOwner, the
\* Telegram bot for an owner whom it found not to be the approver.
Read(r, i, u, action, asOwner) ==
    /\ pc[r] = "ready"
    /\ asOwner => u \in Owners /\ action \in {"approve", "reject"}
    /\ inst[i] # Null
    /\ call' = [call EXCEPT ![r] = [inst |-> i, user |-> u, action |-> action,
                                    asOwner |-> asOwner, read |-> inst[i]]]
    /\ Goto(r, "authorising")
    /\ contended' = [contended EXCEPT ![i] = @ \/ ActiveOn(i) # {}]
    /\ UNCHANGED <<inst, actionLog, outbox, signed>>

\* The approver check, then the entity's transition on the copy that was read.
Authorise(r) ==
    LET c == call[r] IN
    /\ pc[r] = "authorising"
    /\ IF MayAct(c) /\ Actionable(c.read, c.action)
       THEN /\ Goto(r, "saving")
            /\ call' = [call EXCEPT ![r].asOwner = IsOverride(c) \/ InOwnersName(c)]
       ELSE Finish(r)
    /\ UNCHANGED <<inst, actionLog, outbox, history>>

\* Mutant: a resolved instance goes straight to the outbox, unlogged.
SaveThenPublish(r) ==
    /\ pc[r] = "saving"
    /\ inst' = [inst EXCEPT ![call[r].inst] = Result(r)]
    /\ Goto(r, IF IsResolved(Result(r)) THEN "publishing" ELSE "logging")
    /\ UNCHANGED <<call, actionLog, outbox, history>>

\* saveInstance: an unconditional update of status and current step.
Save(r) ==
    LET c == call[r] IN
    /\ pc[r] = "saving"
    /\ inst' = [inst EXCEPT ![c.inst] = Result(r)]
    /\ Goto(r, "logging")
    /\ signed' = [signed EXCEPT ![c.inst] = @ \cup
           CASE c.action \in {"approve", "escalate"} -> {c.read.step}
             [] c.action = "override_approved"       -> Steps
             [] OTHER                                -> {}]
    /\ UNCHANGED <<call, actionLog, outbox, contended>>

\* Mutant: only approvals are published.
LogThenPublishApproved(r) ==
    LET c == call[r] IN
    /\ pc[r] = "logging"
    /\ actionLog' = actionLog \cup {[inst |-> c.inst, step |-> c.read.step,
                                     action |-> c.action, user |-> c.user,
                                     asOwner |-> c.asOwner]}
    /\ IF Result(r).status = "approved"
       THEN Goto(r, "publishing") /\ UNCHANGED call
       ELSE Finish(r)
    /\ UNCHANGED <<inst, outbox, history>>

\* appendAction; audit and notifications follow, and a resolved instance is
\* still to be published.
LogAction(r) ==
    LET c == call[r] IN
    /\ pc[r] = "logging"
    /\ actionLog' = actionLog \cup {[inst |-> c.inst, step |-> c.read.step,
                                     action |-> c.action, user |-> c.user,
                                     asOwner |-> c.asOwner]}
    /\ IF IsResolved(Result(r))
       THEN Goto(r, "publishing") /\ UNCHANGED call
       ELSE Finish(r)
    /\ UNCHANGED <<inst, outbox, history>>

\* publishResolved: an insert into the outbox.
Publish(r) ==
    /\ pc[r] = "publishing"
    /\ outbox' = Append(outbox, [inst |-> call[r].inst, status |-> Result(r).status])
    /\ Finish(r)
    /\ UNCHANGED <<inst, actionLog, history>>

\* An exception in a round trip, or the end of the process.
Interrupt(r) ==
    /\ r \in Interrupted
    /\ InFlight(r)
    /\ Finish(r)
    /\ UNCHANGED <<inst, actionLog, outbox, history>>

\* Mutant: deleting the source record cancels a resolved instance too.
CancelLinkedAnyStatus(i) ==
    /\ inst[i] # Null
    /\ inst' = [inst EXCEPT ![i] = Cancel(@)]
    /\ contended' = [contended EXCEPT ![i] = @ \/ ActiveOn(i) # {}]
    /\ UNCHANGED <<pc, call, actionLog, outbox, signed>>

\* cancelLinkedApprovals, when the source record is deleted: a conditional
\* update of pending instances, with no event and no log entry.
CancelLinked(i) ==
    /\ inst[i] # Null
    /\ inst[i].status = "pending"
    /\ inst' = [inst EXCEPT ![i] = Cancel(@)]
    /\ contended' = [contended EXCEPT ![i] = @ \/ ActiveOn(i) # {}]
    /\ UNCHANGED <<pc, call, actionLog, outbox, signed>>

Step(r) == Authorise(r) \/ Save(r) \/ LogAction(r) \/ Publish(r)

Next ==
    \/ \E i \in Inst : Start(i) \/ CancelLinked(i)
    \/ \E r \in Requests :
        \/ \E i \in Inst, u \in Users, action \in Actions, asOwner \in OwnerFlags :
               Read(r, i, u, action, asOwner)
        \/ Step(r)
        \/ Interrupt(r)

\* A request that is running goes on running: Node resumes every settled await.
Fairness == \A r \in Requests : WF_vars(Step(r))

Spec == Init /\ [][Next]_vars /\ Fairness
-----------------------------------------------------------------------------
TypeOK ==
    /\ \A i \in Inst : inst[i] # Null => inst[i] \in Instance
    /\ DOMAIN inst = Inst
    /\ pc \in [Requests -> {"ready", "authorising", "saving", "logging",
                            "publishing", "done"}]
    /\ \A r \in Requests : IF InFlight(r) THEN call[r] \in Call ELSE call[r] = Null
    /\ DOMAIN call = Requests
    /\ actionLog \subseteq LogEntry
    /\ outbox \in Seq(Event)
    /\ signed \in [Inst -> SUBSET Nat]
    /\ contended \in [Inst -> BOOLEAN]

\* However approvals, returns, escalations and lost updates interleave, no
\* step is jumped: every step before the current one was approved or escalated
\* at some time, and an approved instance has all its steps (approve only
\* resolves when no later step is left, workflow.entity.ts).
NoStepSkipped ==
    \A i \in Inst : inst[i] # Null =>
        /\ \A s \in Steps : s < inst[i].step => s \in signed[i]
        /\ inst[i].status = "approved" => Steps \subseteq signed[i]

\* A source service is never told of a decision the audit trail does not
\* hold: each published event follows a logged action that leads to its status.
LeadsTo(action) ==
    CASE action \in {"approve", "override_approved"} -> {"approved"}
      [] action \in {"reject", "override_rejected"}  -> {"rejected"}
      [] action = "cancel"                           -> {"cancelled"}
      [] OTHER                                       -> {}

EventsAreLogged ==
    \A k \in DOMAIN outbox : \E l \in actionLog :
        l.inst = outbox[k].inst /\ outbox[k].status \in LeadsTo(l.action)

\* The guard of the entity (WorkflowAlreadyResolvedError) is enough as long as
\* writers of one instance do not overlap: then at most one decision is
\* published and it is the one the instance carries.
UncontendedDecisionIsFinal ==
    \A i \in Inst : ~contended[i] =>
        \A k \in DOMAIN outbox : outbox[k].inst = i =>
            /\ inst[i].status = outbox[k].status
            /\ \A j \in DOMAIN outbox : outbox[j].inst = i => j = k

\* The audit trail is right about who decided: an action not marked as an
\* override, and not made by a super administrator, was taken by an approver of
\* the step it names.  (The approver check reads the instance a second time, so
\* with overlapping writers it may look at another step than the one decided.)
DecidedByItsApprover ==
    \A l \in actionLog :
        ~contended[l.inst] /\ ~l.asOwner /\ l.user \notin Bypass
            => l.step \in Steps /\ l.user \in Approvers[l.step]

\* A resolved instance changes only through a request that read it before it
\* was resolved (the lost update of an unconditional save).
ResolvedUnlessStale ==
    [][\A i \in Inst :
          inst[i] # Null /\ IsResolved(inst[i]) /\ inst'[i] # inst[i]
              => \E r \in ActiveOn(i) : pc[r] = "saving" /\ ~IsResolved(call[r].read)
      ]_vars

\* A decision that act has saved is published, whatever else happens to the
\* instance: the promise of an outbox that "survives crashes".
Published(i, status) == \E k \in DOMAIN outbox : outbox[k] = [inst |-> i, status |-> status]

DecisionReachesOutbox ==
    \A i \in Inst : \A status \in {"approved", "rejected"} :
        (inst[i] # Null /\ inst[i].status = status) ~> Published(i, status)
=============================================================================
