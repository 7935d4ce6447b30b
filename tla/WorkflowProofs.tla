--------------------------- MODULE WorkflowProofs ---------------------------
(***************************************************************************)
(* Theorems about WorkflowService, for every set of instances, requests    *)
(* and users and every workflow definition: its types, and that no step of *)
(* a definition is ever jumped however requests overlap or break off.      *)
(***************************************************************************)
EXTENDS WorkflowService, TLAPS

-----------------------------------------------------------------------------
(***************************************************************************)
(* The entity.                                                             *)
(***************************************************************************)
\* Least picks the smallest of a set of steps.
LEMMA LeastStep ==
    ASSUME NEW S \in SUBSET Steps, S # {}
    PROVE  /\ Least(S) \in S
           /\ \A t \in S : Least(S) <= t
BY StepsAssumption DEF Least

\* The first step is a number, and no step is before it.
LEMMA FirstStepIsFirst == FirstStep \in Nat /\ \A s \in Steps : ~(s < FirstStep)
<1>1. CASE Steps = {}
  BY <1>1 DEF FirstStep
<1>2. CASE Steps # {}
  <2>1. FirstStep \in Steps /\ \A t \in Steps : FirstStep <= t
    BY <1>2, LeastStep DEF FirstStep
  <2> QED BY <2>1, StepsAssumption
<1> QED BY <1>1, <1>2

\* The next step, where there is one, is the successor of the current one.
LEMMA NextStep ==
    ASSUME NEW w \in Instance, LaterSteps(w) # {}
    PROVE  /\ Least(LaterSteps(w)) \in Nat
           /\ \A s \in Steps : s < Least(LaterSteps(w)) => s <= w.step
<1> DEFINE L == LaterSteps(w)
<1>1. L \in SUBSET Steps /\ L # {}
  BY DEF LaterSteps
<1>2. Least(L) \in L /\ \A t \in L : Least(L) <= t
  BY <1>1, LeastStep
<1>3. Least(L) \in Nat
  BY <1>1, <1>2, StepsAssumption
<1>4. ASSUME NEW s \in Steps, s < Least(L)
      PROVE  s <= w.step
  <2>1. s \in Nat /\ w.step \in Nat
    BY StepsAssumption DEF Instance
  <2>2. s \notin L
    BY <1>2, <1>3, <1>4, <2>1
  <2> QED BY <2>1, <2>2 DEF LaterSteps
<1> QED BY <1>3, <1>4

\* Every method of the entity returns an instance.
LEMMA ApplyType ==
    ASSUME NEW w \in Instance, NEW action \in Actions
    PROVE  Apply(w, action) \in Instance
<1>1. FirstStep \in Nat
  BY FirstStepIsFirst
<1>2. LaterSteps(w) # {} => Least(LaterSteps(w)) \in Nat
  BY NextStep
<1> QED BY <1>1, <1>2 DEF Apply, Actions, Decisions, Overrides, Instance, Statuses, Open, Terminal,
           Approve, Reject, Return, Escalate, Cancel, Override

\* The steps before the new current step were before the old one, or are the
\* step just approved or escalated.
LEMMA ApplyKeepsOrder ==
    ASSUME NEW w \in Instance, NEW action \in Actions, NEW s \in Steps,
           s < Apply(w, action).step
    PROVE  s < w.step \/ (s = w.step /\ action \in {"approve", "escalate"})
<1>0. s \in Nat /\ w.step \in Nat
  BY StepsAssumption DEF Instance
<1>1. CASE action = "approve"
  <2>1. CASE LaterSteps(w) = {}
    BY <1>1, <2>1 DEF Apply, Approve, Instance
  <2>2. CASE LaterSteps(w) # {}
    BY <1>0, <1>1, <2>2, NextStep DEF Apply, Approve
  <2> QED BY <2>1, <2>2
<1>2. CASE action = "escalate"
  <2>1. CASE LaterSteps(w) = {}
    BY <1>2, <2>1 DEF Apply, Escalate
  <2>2. CASE LaterSteps(w) # {}
    BY <1>0, <1>2, <2>2, NextStep DEF Apply, Escalate
  <2> QED BY <2>1, <2>2
<1>3. CASE action = "return"
  BY <1>3, FirstStepIsFirst DEF Apply, Return
<1>4. CASE action \in {"reject", "cancel"} \cup Overrides
  BY <1>4 DEF Apply, Reject, Cancel, Override, Overrides, Instance
<1> QED BY <1>1, <1>2, <1>3, <1>4 DEF Actions, Decisions

\* An approval resolves the instance only when no step is left after it.
LEMMA ApplyApproves ==
    ASSUME NEW w \in Instance, NEW action \in Actions, ~IsResolved(w),
           Apply(w, action).status = "approved"
    PROVE  \/ action = "override_approved"
           \/ action = "approve" /\ LaterSteps(w) = {}
BY DEF Apply, Actions, Decisions, Overrides, Instance, IsResolved, Terminal,
       Approve, Reject, Return, Escalate, Cancel, Override

\* A terminal status is the one the action leads to.
LEMMA ApplyLeadsTo ==
    ASSUME NEW w \in Instance, NEW action \in Actions, ~IsResolved(w),
           IsResolved(Apply(w, action))
    PROVE  Apply(w, action).status \in LeadsTo(action)
BY DEF Apply, Actions, Decisions, Overrides, Instance, IsResolved, Terminal, LeadsTo,
       Approve, Reject, Return, Escalate, Cancel, Override
-----------------------------------------------------------------------------
(***************************************************************************)
(* Types.  The outbox holds terminal statuses only, because a request that *)
(* publishes has resolved an instance that it read unresolved.             *)
(***************************************************************************)
Phases ==
    \A r \in Requests :
        /\ pc[r] \in {"saving", "logging", "publishing"} => ~IsResolved(call[r].read)
        /\ pc[r] = "publishing" => IsResolved(Result(r))

TypeInv == TypeOK /\ Phases

\* A request that runs has an input.
LEMMA CallType ==
    ASSUME TypeOK, NEW r \in Requests, InFlight(r)
    PROVE  /\ call[r] \in Call
           /\ call[r].inst \in Inst
           /\ call[r].action \in Actions
           /\ call[r].read \in Instance
           /\ Result(r) \in Instance
<1>1. call[r] \in Call
  BY DEF TypeOK
<1>2. call[r].inst \in Inst /\ call[r].action \in Actions /\ call[r].read \in Instance
  BY <1>1 DEF Call
<1> QED BY <1>1, <1>2, ApplyType DEF Result

\* A refused or finished request forgets its input, an authorised one keeps it.
LEMMA AuthoriseEffect ==
    ASSUME TypeOK, NEW r \in Requests, Authorise(r)
    PROVE  /\ Actionable(call[r].read, call[r].action) \/ Finish(r)
           /\ \/ Finish(r)
              \/ /\ Goto(r, "saving")
                 /\ call'[r] \in Call
                 /\ call'[r].read = call[r].read
                 /\ call'[r].inst = call[r].inst
                 /\ call'[r].action = call[r].action
                 /\ call' = [call EXCEPT ![r] = call'[r]]
<1> DEFINE b == IsOverride(call[r]) \/ InOwnersName(call[r])
<1>1. call[r] \in Call
  BY CallType DEF Authorise, InFlight
<1>2. b \in BOOLEAN
  OBVIOUS
<1> HIDE DEF b
<1>3. /\ [call[r] EXCEPT !.asOwner = b] \in Call
      /\ [call[r] EXCEPT !.asOwner = b].read = call[r].read
      /\ [call[r] EXCEPT !.asOwner = b].inst = call[r].inst
      /\ [call[r] EXCEPT !.asOwner = b].action = call[r].action
  BY <1>1, <1>2 DEF Call
<1>4. \/ Finish(r)
      \/ /\ Goto(r, "saving")
         /\ Actionable(call[r].read, call[r].action)
         /\ call' = [call EXCEPT ![r] = [call[r] EXCEPT !.asOwner = b]]
  BY DEF Authorise, b
<1> QED BY <1>3, <1>4 DEF TypeOK

LEMMA TypeInit == Init => TypeInv
BY DEF Init, TypeInv, TypeOK, Phases, InFlight

LEMMA TypeStep == TypeInv /\ [Next]_vars => TypeInv'
<1> SUFFICES ASSUME TypeInv, [Next]_vars
             PROVE  TypeOK' /\ Phases'
  BY DEF TypeInv
<1> USE DEF TypeInv
<1>1. ASSUME NEW i \in Inst, Start(i)
      PROVE  TypeOK' /\ Phases'
  <2>1. Started \in Instance
    BY FirstStepIsFirst DEF Started, Instance, Statuses, Open
  <2> QED BY <1>1, <2>1 DEF Start, history, InFlight, TypeOK, Phases, Result
<1>2. ASSUME NEW i \in Inst, CancelLinked(i)
      PROVE  TypeOK' /\ Phases'
  <2>1. Cancel(inst[i]) \in Instance
    BY <1>2 DEF CancelLinked, Cancel, Instance, Statuses, Terminal, TypeOK
  <2> QED BY <1>2, <2>1 DEF CancelLinked, InFlight, TypeOK, Phases, Result
<1>3. ASSUME NEW r \in Requests, NEW i \in Inst, NEW u \in Users, NEW action \in Actions,
             NEW asOwner \in OwnerFlags, Read(r, i, u, action, asOwner)
      PROVE  TypeOK' /\ Phases'
  <2>1. [inst |-> i, user |-> u, action |-> action, asOwner |-> asOwner, read |-> inst[i]] \in Call
    BY <1>3, ServiceAssumption DEF Read, Call, TypeOK
  <2>2. TypeOK'
    BY <1>3, <2>1 DEF Read, Goto, InFlight, TypeOK
  <2>3. Phases'
    BY <1>3 DEF Read, Goto, TypeOK, Phases, Result
  <2> QED BY <2>2, <2>3
<1>4. ASSUME NEW r \in Requests, Authorise(r)
      PROVE  TypeOK' /\ Phases'
  <2>1. TypeOK'
    BY <1>4, AuthoriseEffect DEF Authorise, Goto, Finish, InFlight, history, TypeOK
  <2>2. Phases'
    BY <1>4, AuthoriseEffect DEF Authorise, Goto, Finish, TypeOK, Phases, Result, Actionable
  <2> QED BY <2>1, <2>2
<1>5. ASSUME NEW r \in Requests, Save(r)
      PROVE  TypeOK' /\ Phases'
  <2>1. Result(r) \in Instance /\ call[r].inst \in Inst /\ call[r].read.step \in Nat
    BY <1>5, CallType DEF Save, InFlight, Instance
  <2>2. signed' \in [Inst -> SUBSET Nat]
    BY <1>5, <2>1, StepsAssumption DEF Save, TypeOK
  <2>3. TypeOK'
    BY <1>5, <2>1, <2>2 DEF Save, Goto, InFlight, TypeOK
  <2>4. Phases'
    BY <1>5 DEF Save, Goto, TypeOK, Phases, Result
  <2> QED BY <2>3, <2>4
<1>6. ASSUME NEW r \in Requests, LogAction(r)
      PROVE  TypeOK' /\ Phases'
  <2>1. call[r] \in Call
    BY <1>6, CallType DEF LogAction, InFlight
  <2>2. actionLog' \subseteq LogEntry
    BY <1>6, <2>1 DEF LogAction, LogEntry, Call, Instance, TypeOK
  <2>3. TypeOK'
    BY <1>6, <2>2 DEF LogAction, Goto, Finish, InFlight, history, TypeOK
  <2>4. Phases'
    BY <1>6 DEF LogAction, Goto, Finish, TypeOK, Phases, Result
  <2> QED BY <2>3, <2>4
<1>7. ASSUME NEW r \in Requests, Publish(r)
      PROVE  TypeOK' /\ Phases'
  <2>1. call[r].inst \in Inst /\ Result(r).status \in Terminal
    BY <1>7, CallType DEF Publish, InFlight, Phases, IsResolved
  <2>2. outbox' \in Seq(Event)
    BY <1>7, <2>1 DEF Publish, Event, TypeOK
  <2>3. TypeOK'
    BY <1>7, <2>2 DEF Publish, Finish, Goto, InFlight, history, TypeOK
  <2>4. Phases'
    BY <1>7 DEF Publish, Finish, Goto, TypeOK, Phases, Result
  <2> QED BY <2>3, <2>4
<1>8. ASSUME NEW r \in Requests, Interrupt(r)
      PROVE  TypeOK' /\ Phases'
  BY <1>8 DEF Interrupt, Finish, Goto, InFlight, history, TypeOK, Phases, Result
<1>9. ASSUME UNCHANGED vars
      PROVE  TypeOK' /\ Phases'
  BY <1>9 DEF vars, InFlight, TypeOK, Phases, Result
<1> QED BY <1>1, <1>2, <1>3, <1>4, <1>5, <1>6, <1>7, <1>8, <1>9 DEF Next, Step

\* Every record of the service keeps its type; in particular only terminal
\* statuses are ever published to the source contexts.
THEOREM TypeCorrect == Spec => []TypeOK
<1>1. TypeInv => TypeOK
  BY DEF TypeInv
<1> QED BY TypeInit, TypeStep, <1>1, PTL DEF Spec
-----------------------------------------------------------------------------
(***************************************************************************)
(* No step is skipped.  What a request read may be stale when it is        *)
(* written back, so the invariant holds of the copies in flight as well:   *)
(* because no step is ever unsigned, a copy that was in order stays so.    *)
(***************************************************************************)
Reached(w, S) ==
    /\ \A s \in Steps : s < w.step => s \in S
    /\ w.status = "approved" => Steps \subseteq S

CopiesInOrder == \A r \in Requests : InFlight(r) => Reached(call[r].read, signed[call[r].inst])

OrderInv == TypeInv /\ NoStepSkipped /\ CopiesInOrder

\* What Save signs is what the written instance needs in addition to the copy.
LEMMA ApplyReached ==
    ASSUME NEW w \in Instance, NEW action \in Actions, NEW S, ~IsResolved(w), Reached(w, S)
    PROVE  Reached(Apply(w, action),
                   S \cup CASE action \in {"approve", "escalate"} -> {w.step}
                            [] action = "override_approved"       -> Steps
                            [] OTHER                              -> {})
<1> DEFINE T == S \cup CASE action \in {"approve", "escalate"} -> {w.step}
                         [] action = "override_approved"       -> Steps
                         [] OTHER                              -> {}
<1>1. S \subseteq T
  OBVIOUS
<1>2. action \in {"approve", "escalate"} => w.step \in T
  OBVIOUS
<1>3. action = "override_approved" => Steps \subseteq T
  OBVIOUS
<1> HIDE DEF T
<1>4. ASSUME NEW s \in Steps, s < Apply(w, action).step
      PROVE  s \in T
  BY <1>1, <1>2, <1>4, ApplyKeepsOrder DEF Reached
<1>5. ASSUME Apply(w, action).status = "approved", action # "override_approved", NEW s \in Steps
      PROVE  s \in T
  <2>1. action = "approve" /\ LaterSteps(w) = {}
    BY <1>5, ApplyApproves
  <2>2. s \in Nat /\ w.step \in Nat /\ ~(s > w.step)
    BY <2>1, StepsAssumption DEF LaterSteps, Instance
  <2>3. s = w.step \/ s < w.step
    BY <2>2
  <2> QED BY <1>1, <1>2, <2>1, <2>3 DEF Reached
<1>6. Reached(Apply(w, action), T)
  BY <1>3, <1>4, <1>5 DEF Reached
<1> QED BY <1>6 DEF T

\* Signatures are never taken back.
LEMMA SignedGrows ==
    ASSUME TypeInv, [Next]_vars, NEW i \in Inst
    PROVE  signed[i] \subseteq signed'[i]
<1>1. ASSUME NEW r \in Requests, Save(r)
      PROVE  signed[i] \subseteq signed'[i]
  BY <1>1 DEF Save, TypeInv, TypeOK
<1>2. ASSUME ~\E r \in Requests : Save(r)
      PROVE  signed' = signed
  BY <1>2 DEF Next, Step, Start, CancelLinked, Read, Authorise, LogAction, Publish, Interrupt,
              Finish, vars, history
<1> QED BY <1>1, <1>2

LEMMA OrderInit == Init => OrderInv
<1> SUFFICES ASSUME Init PROVE OrderInv
  OBVIOUS
<1> QED BY TypeInit DEF Init, OrderInv, NoStepSkipped, CopiesInOrder, InFlight

LEMMA OrderStep == OrderInv /\ [Next]_vars => OrderInv'
<1> SUFFICES ASSUME OrderInv, [Next]_vars
             PROVE  NoStepSkipped' /\ CopiesInOrder'
  BY TypeStep DEF OrderInv
<1> USE DEF OrderInv
<1>0. TypeInv' /\ \A i \in Inst : signed[i] \subseteq signed'[i]
  BY TypeStep, SignedGrows
<1>a. ASSUME NEW i \in Inst, inst[i] # Null
      PROVE  Reached(inst[i], signed[i])
  BY <1>a DEF NoStepSkipped, Reached
\* Both conjuncts follow for an instance or a copy that the step does not write.
<1>b. ASSUME NEW w, NEW i \in Inst, Reached(w, signed[i])
      PROVE  Reached(w, signed'[i])
  BY <1>0, <1>b DEF Reached
<1>c. ASSUME NEW i \in Inst, inst'[i] = inst[i], inst[i] # Null
      PROVE  Reached(inst'[i], signed'[i])
  BY <1>a, <1>b, <1>c
<1>d. ASSUME NEW r \in Requests, InFlight(r), call'[r].read = call[r].read, call'[r].inst = call[r].inst
      PROVE  Reached(call'[r].read, signed'[call'[r].inst])
  BY <1>b, <1>d, CallType DEF CopiesInOrder, TypeInv
<1>e. (\A i \in Inst : inst'[i] # Null => Reached(inst'[i], signed'[i])) => NoStepSkipped'
  BY DEF NoStepSkipped, Reached
<1>1. ASSUME NEW i \in Inst, Start(i)
      PROVE  NoStepSkipped' /\ CopiesInOrder'
  <2>1. Reached(Started, signed'[i])
    BY FirstStepIsFirst DEF Reached, Started
  <2>2. NoStepSkipped'
    BY <1>1, <1>c, <1>e, <2>1 DEF Start, TypeInv, TypeOK
  <2>3. CopiesInOrder'
    BY <1>1, <1>d DEF Start, CopiesInOrder, InFlight
  <2> QED BY <2>2, <2>3
<1>2. ASSUME NEW i \in Inst, CancelLinked(i)
      PROVE  NoStepSkipped' /\ CopiesInOrder'
  <2>1. inst[i] \in Instance /\ Reached(inst[i], signed[i])
    BY <1>2, <1>a DEF CancelLinked, TypeInv, TypeOK
  <2>2. Reached(Cancel(inst[i]), signed'[i])
    BY <1>2, <2>1 DEF CancelLinked, Cancel, Reached, Instance, history
  <2>3. NoStepSkipped'
    BY <1>2, <1>c, <1>e, <2>2 DEF CancelLinked, TypeInv, TypeOK
  <2>4. CopiesInOrder'
    BY <1>2, <1>d DEF CancelLinked, CopiesInOrder, InFlight
  <2> QED BY <2>3, <2>4
<1>3. ASSUME NEW r \in Requests, NEW i \in Inst, NEW u \in Users, NEW action \in Actions,
             NEW asOwner \in OwnerFlags, Read(r, i, u, action, asOwner)
      PROVE  NoStepSkipped' /\ CopiesInOrder'
  <2>1. NoStepSkipped'
    BY <1>3, <1>c, <1>e DEF Read
  <2>2. call'[r].read = inst[i] /\ call'[r].inst = i /\ Reached(inst[i], signed'[i])
    BY <1>3, <1>a, <1>b DEF Read, TypeInv, TypeOK
  <2>3. \A q \in Requests \ {r} : call'[q] = call[q] /\ pc'[q] = pc[q]
    BY <1>3 DEF Read, Goto, TypeInv, TypeOK
  <2>4. CopiesInOrder'
    BY <1>d, <2>2, <2>3 DEF CopiesInOrder, InFlight
  <2> QED BY <2>1, <2>4
<1>4. ASSUME NEW r \in Requests, Authorise(r) \/ LogAction(r) \/ Publish(r) \/ Interrupt(r)
      PROVE  NoStepSkipped' /\ CopiesInOrder'
  <2>1. inst' = inst /\ InFlight(r)
    BY <1>4 DEF Authorise, LogAction, Publish, Interrupt, Finish, InFlight
  <2>2. NoStepSkipped'
    BY <1>c, <1>e, <2>1
  <2>3. \/ pc'[r] = "done"
        \/ call'[r].read = call[r].read /\ call'[r].inst = call[r].inst
    <3>1. CASE Authorise(r)
      BY <3>1, AuthoriseEffect DEF Finish, Goto, TypeInv, TypeOK
    <3>2. CASE LogAction(r) \/ Publish(r) \/ Interrupt(r)
      BY <3>2 DEF LogAction, Publish, Interrupt, Finish, Goto, TypeInv, TypeOK
    <3> QED BY <1>4, <3>1, <3>2
  <2>4. \A q \in Requests \ {r} : call'[q] = call[q] /\ pc'[q] = pc[q]
    BY <1>4 DEF Authorise, LogAction, Publish, Interrupt, Finish, Goto, TypeInv, TypeOK
  <2>5. CopiesInOrder'
    BY <1>d, <2>1, <2>3, <2>4 DEF CopiesInOrder, InFlight
  <2> QED BY <2>2, <2>5
<1>5. ASSUME NEW r \in Requests, Save(r)
      PROVE  NoStepSkipped' /\ CopiesInOrder'
  <2> DEFINE i == call[r].inst
  <2>1. /\ InFlight(r)
        /\ i \in Inst
        /\ call[r].action \in Actions
        /\ call[r].read \in Instance
        /\ ~IsResolved(call[r].read)
        /\ Reached(call[r].read, signed[i])
    BY <1>5, CallType DEF Save, InFlight, TypeInv, Phases, CopiesInOrder
  <2>2. Reached(Result(r), signed'[i])
    BY <1>5, <2>1, ApplyReached DEF Save, Result, TypeInv, TypeOK
  <2>3. inst'[i] = Result(r) /\ \A j \in Inst \ {i} : inst'[j] = inst[j]
    BY <1>5, <2>1 DEF Save, TypeInv, TypeOK
  <2>4. NoStepSkipped'
    BY <1>c, <1>e, <2>2, <2>3
  <2>5. CopiesInOrder'
    BY <1>5, <1>d, <2>1 DEF Save, Goto, CopiesInOrder, InFlight, TypeInv, TypeOK
  <2> QED BY <2>4, <2>5
<1>6. ASSUME UNCHANGED vars
      PROVE  NoStepSkipped' /\ CopiesInOrder'
  BY <1>6 DEF vars, NoStepSkipped, CopiesInOrder, InFlight
<1> QED BY <1>1, <1>2, <1>3, <1>4, <1>5, <1>6 DEF Next, Step

\* No step of a definition is jumped, and an approved instance has them all,
\* for any number of overlapping and interrupted requests.
THEOREM StepsInOrder == Spec => []NoStepSkipped
<1>1. OrderInv => NoStepSkipped
  BY DEF OrderInv
<1> QED BY OrderInit, OrderStep, <1>1, PTL DEF Spec
-----------------------------------------------------------------------------
(***************************************************************************)
(* The audit trail is ahead of the outbox.  The event is published from    *)
(* the copy that was read, so the log entry is found through the request   *)
(* that is about to publish, not through the instance.                     *)
(***************************************************************************)
Logged(r) ==
    pc[r] = "publishing" =>
        \E l \in actionLog : l.inst = call[r].inst /\ Result(r).status \in LeadsTo(l.action)

PublishersLogged == \A r \in Requests : Logged(r)

LogInv == TypeInv /\ EventsAreLogged /\ PublishersLogged

LEMMA LogInit == Init => LogInv
BY TypeInit DEF Init, LogInv, EventsAreLogged, PublishersLogged, Logged

LEMMA LogStep == LogInv /\ [Next]_vars => LogInv'
<1> SUFFICES ASSUME LogInv, [Next]_vars
             PROVE  EventsAreLogged' /\ PublishersLogged'
  BY TypeStep DEF LogInv
<1> USE DEF LogInv
<1>a. ASSUME actionLog \subseteq actionLog', outbox' = outbox
      PROVE  EventsAreLogged'
  BY <1>a DEF EventsAreLogged
<1>b. ASSUME NEW r \in Requests, actionLog \subseteq actionLog',
             call'[r] = call[r], pc'[r] = pc[r]
      PROVE  Logged(r)'
  BY <1>b DEF PublishersLogged, Logged, Result
<1>1. ASSUME NEW i \in Inst, Start(i) \/ CancelLinked(i)
      PROVE  EventsAreLogged' /\ PublishersLogged'
  BY <1>1, <1>a, <1>b DEF Start, CancelLinked, history, PublishersLogged
<1>2. ASSUME NEW r \in Requests,
             \/ \E i \in Inst, u \in Users, action \in Actions, asOwner \in OwnerFlags :
                    Read(r, i, u, action, asOwner)
             \/ Authorise(r) \/ Save(r) \/ Interrupt(r)
      PROVE  EventsAreLogged' /\ PublishersLogged'
  <2>1. UNCHANGED <<actionLog, outbox>> /\ pc'[r] # "publishing"
    BY <1>2 DEF Read, Authorise, Save, Interrupt, Finish, Goto, TypeInv, TypeOK
  <2>2. \A q \in Requests \ {r} : call'[q] = call[q] /\ pc'[q] = pc[q]
    BY <1>2 DEF Read, Authorise, Save, Interrupt, Finish, Goto, TypeInv, TypeOK
  <2>3. Logged(r)'
    BY <2>1 DEF Logged
  <2> QED BY <1>a, <1>b, <2>1, <2>2, <2>3 DEF PublishersLogged
<1>3. ASSUME NEW r \in Requests, LogAction(r)
      PROVE  EventsAreLogged' /\ PublishersLogged'
  <2> DEFINE c == call[r]
             l == [inst |-> c.inst, step |-> c.read.step, action |-> c.action,
                   user |-> c.user, asOwner |-> c.asOwner]
  <2>1. actionLog' = actionLog \cup {l} /\ outbox' = outbox
    BY <1>3 DEF LogAction
  <2>2. Logged(r)'
    <3> SUFFICES ASSUME pc'[r] = "publishing"
                 PROVE  Logged(r)'
      BY DEF Logged
    <3>1. IsResolved(Result(r)) /\ call' = call
      BY <1>3 DEF LogAction, Finish, Goto, TypeInv, TypeOK
    <3>2. Result(r).status \in LeadsTo(c.action)
      BY <1>3, <3>1, CallType, ApplyLeadsTo DEF LogAction, InFlight, Result, TypeInv, Phases
    <3>3. l \in actionLog' /\ l.inst = call[r].inst /\ l.action = c.action
      BY <2>1
    <3>4. \E k \in actionLog' : k.inst = call[r].inst /\ Result(r).status \in LeadsTo(k.action)
      BY <3>2, <3>3
    <3> QED BY <3>1, <3>4 DEF Logged, Result
  <2>3. \A q \in Requests \ {r} : call'[q] = call[q] /\ pc'[q] = pc[q]
    BY <1>3 DEF LogAction, Finish, Goto, TypeInv, TypeOK
  <2>4. EventsAreLogged'
    BY <1>a, <2>1
  <2>5. PublishersLogged'
    BY <1>b, <2>1, <2>2, <2>3 DEF PublishersLogged
  <2> QED BY <2>4, <2>5
<1>4. ASSUME NEW r \in Requests, Publish(r)
      PROVE  EventsAreLogged' /\ PublishersLogged'
  <2> DEFINE e == [inst |-> call[r].inst, status |-> Result(r).status]
  <2>1. /\ outbox \in Seq(Event)
        /\ outbox' = Append(outbox, e)
        /\ actionLog' = actionLog
        /\ \E l \in actionLog : l.inst = e.inst /\ e.status \in LeadsTo(l.action)
    BY <1>4 DEF Publish, history, TypeInv, TypeOK, PublishersLogged, Logged
  <2>2. EventsAreLogged'
    <3> SUFFICES ASSUME NEW k \in DOMAIN outbox'
                 PROVE  \E l \in actionLog : l.inst = outbox'[k].inst
                                            /\ outbox'[k].status \in LeadsTo(l.action)
      BY <2>1 DEF EventsAreLogged
    <3>1. outbox'[k] = e \/ (k \in DOMAIN outbox /\ outbox'[k] = outbox[k])
      <4> HIDE DEF e
      <4> QED BY <2>1
    <3> QED BY <2>1, <3>1 DEF EventsAreLogged
  <2>3. pc'[r] # "publishing" /\ \A q \in Requests \ {r} : call'[q] = call[q] /\ pc'[q] = pc[q]
    BY <1>4 DEF Publish, Finish, Goto, TypeInv, TypeOK
  <2>4. PublishersLogged'
    BY <1>b, <2>1, <2>3 DEF PublishersLogged, Logged
  <2> QED BY <2>2, <2>4
<1>5. ASSUME UNCHANGED vars
      PROVE  EventsAreLogged' /\ PublishersLogged'
  BY <1>5 DEF vars, EventsAreLogged, PublishersLogged, Logged, Result
<1> QED BY <1>1, <1>2, <1>3, <1>4, <1>5 DEF Next, Step

\* No source service is ever told of a decision that the audit trail does not
\* hold: appendAction comes before publishResolved, whatever breaks off.
THEOREM LoggedFirst == Spec => []EventsAreLogged
<1>1. LogInv => EventsAreLogged
  BY DEF LogInv
<1> QED BY LogInit, LogStep, <1>1, PTL DEF Spec
-----------------------------------------------------------------------------
\* Only the unconditional save of a request that had read the instance before
\* its resolution changes a resolved instance; deleting the source record never
\* does (cancelLinkedApprovals updates pending instances only).
THEOREM OnlyStaleWrites == Spec => ResolvedUnlessStale
<1> DEFINE Stale(i) == \E r \in ActiveOn(i) : pc[r] = "saving" /\ ~IsResolved(call[r].read)
<1>1. ASSUME TypeInv, [Next]_vars, NEW i \in Inst,
             inst[i] # Null, IsResolved(inst[i]), inst'[i] # inst[i]
      PROVE  Stale(i)
  <2>1. CASE \E r \in Requests : Save(r)
    <3>1. PICK r \in Requests : Save(r)
      BY <2>1
    <3>2. call[r].inst = i
      BY <1>1, <3>1 DEF Save, TypeInv, TypeOK
    <3>3. r \in ActiveOn(i) /\ pc[r] = "saving"
      BY <3>1, <3>2 DEF Save, ActiveOn, InFlight
    <3> QED BY <1>1, <3>3 DEF TypeInv, Phases
  <2>2. CASE ~\E r \in Requests : Save(r)
    <3>1. inst' = inst \/ \E j \in Inst : Start(j) \/ CancelLinked(j)
      BY <1>1, <2>2 DEF Next, Step, Read, Authorise, LogAction, Publish, Interrupt, vars
    <3>2. PICK j \in Inst : Start(j) \/ CancelLinked(j)
      BY <1>1, <3>1
    <3>3. i = j
      BY <1>1, <3>2 DEF Start, CancelLinked, TypeInv, TypeOK
    <3> QED BY <1>1, <3>2, <3>3 DEF Start, CancelLinked, IsResolved, Terminal
  <2> QED BY <2>1, <2>2
<1>2. TypeInv /\ [Next]_vars =>
          [\A i \in Inst : inst[i] # Null /\ IsResolved(inst[i]) /\ inst'[i] # inst[i] => Stale(i)]_vars
  BY <1>1
<1> QED BY TypeInit, TypeStep, <1>2, PTL DEF Spec, ResolvedUnlessStale
-----------------------------------------------------------------------------
(***************************************************************************)
(* Writers that do not overlap.  On an instance without contention the one *)
(* request at work has a fresh copy until it saves, and its own result in  *)
(* the table after that; nobody has published a decision yet, and it has   *)
(* the right to the step that it decides.                                  *)
(***************************************************************************)
NoEvent(i) == \A k \in DOMAIN outbox : outbox[k].inst # i

OwnRight(c) == ~c.asOwner /\ c.user \notin Bypass => c.read.step \in Steps /\ c.user \in Approvers[c.read.step]

Undisturbed(r) ==
    InFlight(r) /\ ~contended[call[r].inst] =>
        /\ \A q \in Requests : InFlight(q) /\ call[q].inst = call[r].inst => q = r
        /\ pc[r] \in {"authorising", "saving"} => inst[call[r].inst] = call[r].read
        /\ pc[r] \in {"logging", "publishing"} =>
               inst[call[r].inst] = Result(r) /\ NoEvent(call[r].inst)
        /\ pc[r] \in {"saving", "logging"} => OwnRight(call[r])

Serial == \A r \in Requests : Undisturbed(r)

\* Requests and events are about instances that exist.
Present ==
    /\ \A r \in Requests : InFlight(r) => inst[call[r].inst] # Null
    /\ \A k \in DOMAIN outbox : inst[outbox[k].inst] # Null

SerialInv == TypeInv /\ Serial /\ Present /\ DecidedByItsApprover /\ UncontendedDecisionIsFinal

LEMMA SerialInit == Init => SerialInv
BY TypeInit DEF Init, SerialInv, Serial, Undisturbed, Present, InFlight, DecidedByItsApprover,
                UncontendedDecisionIsFinal

\* A request keeps its state if the step leaves it, its instance and the events
\* of that instance alone, and puts no other request to work on it.
LEMMA SerialFrame ==
    ASSUME SerialInv, NEW q \in Requests,
           pc'[q] = pc[q], call'[q] = call[q],
           InFlight(q) => /\ inst'[call[q].inst] = inst[call[q].inst]
                          /\ contended[call[q].inst] => contended'[call[q].inst]
                          /\ NoEvent(call[q].inst) => NoEvent(call[q].inst)'
                          /\ \A p \in Requests : pc'[p] \notin {"ready", "done"} /\ call'[p].inst = call[q].inst
                                                   => InFlight(p) /\ call[p].inst = call[q].inst
    PROVE  Undisturbed(q)'
BY DEF SerialInv, Serial, Undisturbed, InFlight, OwnRight, Result, NoEvent

LEMMA SerialStep == SerialInv /\ [Next]_vars => SerialInv'
<1> SUFFICES ASSUME SerialInv, [Next]_vars
             PROVE  (Serial /\ Present /\ DecidedByItsApprover /\ UncontendedDecisionIsFinal)'
  BY TypeStep DEF SerialInv
<1> DEFINE Goal == Serial /\ Present /\ DecidedByItsApprover /\ UncontendedDecisionIsFinal
<1> HIDE DEF Goal
<1>0. /\ TypeInv /\ TypeOK /\ TypeInv' /\ Serial /\ Present
      /\ \A r \in Requests : InFlight(r) => call[r] \in Call /\ call[r].inst \in Inst
  BY TypeStep, CallType DEF SerialInv, TypeInv
<1>e. /\ outbox \in Seq(Event)
      /\ \A k \in DOMAIN outbox : outbox[k].inst \in Inst /\ outbox[k].status \in Terminal
  <2>1. outbox \in Seq(Event)
    BY <1>0 DEF TypeOK
  <2>2. \A k \in DOMAIN outbox : outbox[k] \in Event
    BY <2>1
  <2> QED BY <2>1, <2>2 DEF Event
<1>1. ASSUME NEW i \in Inst, Start(i)
      PROVE  Goal'
  <2>1. /\ inst[i] = Null
        /\ inst' = [inst EXCEPT ![i] = Started]
        /\ UNCHANGED <<pc, call, actionLog, outbox, contended>>
    BY <1>1 DEF Start, history
  <2>2. Started # Null
    BY FirstStepIsFirst, ServiceAssumption DEF Started, Instance, Statuses, Open
  <2>3. \A j \in Inst : inst[j] # Null => inst'[j] = inst[j]
    BY <1>0, <2>1 DEF TypeOK
  <2>4. Serial'
    BY <1>0, <2>1, <2>3, SerialFrame DEF Serial, Present, InFlight, NoEvent
  <2>5. Present'
    BY <1>0, <1>e, <2>1, <2>3 DEF Present, InFlight
  <2>6. DecidedByItsApprover'
    BY <2>1 DEF SerialInv, DecidedByItsApprover
  <2>7. UncontendedDecisionIsFinal'
    BY <1>0, <1>e, <2>1, <2>3 DEF SerialInv, Present, UncontendedDecisionIsFinal
  <2> QED BY <2>4, <2>5, <2>6, <2>7 DEF Goal
<1>2. ASSUME NEW i \in Inst, CancelLinked(i)
      PROVE  Goal'
  <2>1. /\ inst[i] # Null
        /\ inst[i].status = "pending"
        /\ inst' = [inst EXCEPT ![i] = Cancel(inst[i])]
        /\ contended' = [contended EXCEPT ![i] = contended[i] \/ ActiveOn(i) # {}]
        /\ UNCHANGED <<pc, call, actionLog, outbox>>
    BY <1>2 DEF CancelLinked
  <2>2. Cancel(inst[i]) # Null
    BY <1>0, <2>1, ServiceAssumption DEF TypeOK, Cancel, Instance, Statuses, Terminal
  <2>3. /\ \A j \in Inst \ {i} : inst'[j] = inst[j] /\ contended'[j] = contended[j]
        /\ inst'[i] # Null
        /\ contended[i] => contended'[i]
        /\ \A r \in Requests : InFlight(r) /\ call[r].inst = i => contended'[i]
    BY <1>0, <2>1, <2>2 DEF TypeOK, ActiveOn
  <2>4. ASSUME NEW r \in Requests
        PROVE  Undisturbed(r)'
    <3>1. CASE InFlight(r) /\ call[r].inst = i
      BY <2>1, <2>3, <3>1 DEF Undisturbed
    <3>2. CASE ~(InFlight(r) /\ call[r].inst = i)
      BY <1>0, <2>1, <2>3, <3>2, SerialFrame DEF InFlight, NoEvent
    <3> QED BY <3>1, <3>2
  <2>5. Present'
    BY <1>0, <1>e, <2>1, <2>3 DEF Present, InFlight
  <2>6. DecidedByItsApprover'
    BY <1>0, <2>1, <2>3 DEF SerialInv, DecidedByItsApprover, TypeOK, LogEntry
  <2>7. ~contended'[i] => NoEvent(i)
    BY <1>e, <2>1, <2>3 DEF SerialInv, UncontendedDecisionIsFinal, NoEvent, Terminal
  <2>8. UncontendedDecisionIsFinal'
    BY <2>1, <2>3, <2>7 DEF SerialInv, UncontendedDecisionIsFinal, NoEvent
  <2> QED BY <2>4, <2>5, <2>6, <2>8 DEF Goal, Serial
<1>3. ASSUME NEW r \in Requests, NEW i \in Inst, NEW u \in Users, NEW action \in Actions,
             NEW asOwner \in OwnerFlags, Read(r, i, u, action, asOwner)
      PROVE  Goal'
  <2>1. /\ pc[r] = "ready"
        /\ inst[i] # Null
        /\ pc'[r] = "authorising"
        /\ call'[r].inst = i
        /\ call'[r].read = inst[i]
        /\ \A q \in Requests \ {r} : pc'[q] = pc[q] /\ call'[q] = call[q]
        /\ contended' = [contended EXCEPT ![i] = contended[i] \/ ActiveOn(i) # {}]
        /\ UNCHANGED <<inst, actionLog, outbox>>
    BY <1>0, <1>3 DEF Read, Goto, TypeOK
  <2>2. /\ \A j \in Inst \ {i} : contended'[j] = contended[j]
        /\ contended[i] => contended'[i]
        /\ \A q \in Requests : InFlight(q) /\ call[q].inst = i => contended'[i]
    BY <1>0, <2>1 DEF TypeOK, ActiveOn
  <2>3. ASSUME NEW q \in Requests
        PROVE  Undisturbed(q)'
    <3>1. CASE q = r
      BY <2>1, <2>2, <3>1 DEF Undisturbed, InFlight
    <3>2. CASE q # r /\ InFlight(q) /\ call[q].inst = i
      BY <2>1, <2>2, <3>2 DEF Undisturbed
    <3>3. CASE q # r /\ ~(InFlight(q) /\ call[q].inst = i)
      BY <1>0, <2>1, <2>2, <3>3, SerialFrame DEF InFlight, NoEvent
    <3> QED BY <3>1, <3>2, <3>3
  <2>4. Present'
    BY <1>0, <2>1 DEF Present, InFlight
  <2>5. DecidedByItsApprover' /\ UncontendedDecisionIsFinal'
    BY <1>0, <2>1, <2>2 DEF SerialInv, DecidedByItsApprover, UncontendedDecisionIsFinal, TypeOK, LogEntry
  <2> QED BY <2>3, <2>4, <2>5 DEF Goal, Serial
<1>4. ASSUME NEW r \in Requests, Authorise(r) \/ Interrupt(r)
      PROVE  Goal'
  <2>1. /\ UNCHANGED <<inst, actionLog, outbox, contended>>
        /\ InFlight(r)
        /\ \A q \in Requests \ {r} : pc'[q] = pc[q] /\ call'[q] = call[q]
    BY <1>0, <1>4 DEF Authorise, Interrupt, InFlight, Finish, Goto, history, TypeOK
  <2>2. CASE pc'[r] = "done"
    <3>1. ASSUME NEW q \in Requests
          PROVE  Undisturbed(q)'
      <4>1. CASE q = r
        BY <2>2, <4>1 DEF Undisturbed, InFlight
      <4>2. CASE q # r
        BY <2>1, <2>2, <4>2, SerialFrame DEF InFlight, NoEvent
      <4> QED BY <4>1, <4>2
    <3>2. Present'
      BY <1>0, <2>1, <2>2 DEF Present, InFlight
    <3> QED BY <2>1, <3>1, <3>2 DEF Goal, Serial, SerialInv, DecidedByItsApprover, UncontendedDecisionIsFinal
  <2>3. CASE pc'[r] # "done"
    <3>1. pc[r] = "authorising" /\ pc'[r] = "saving" /\ MayAct(call[r])
      BY <1>0, <1>4, <2>3 DEF Authorise, Interrupt, Finish, Goto, TypeOK
    <3>2. /\ call'[r].inst = call[r].inst
          /\ call'[r].read = call[r].read
          /\ call'[r].user = call[r].user
          /\ call'[r].asOwner = (IsOverride(call[r]) \/ InOwnersName(call[r]))
      <4>1. call' = [call EXCEPT ![r].asOwner = IsOverride(call[r]) \/ InOwnersName(call[r])]
        BY <1>0, <1>4, <2>3 DEF Authorise, Interrupt, Finish, Goto, TypeOK
      <4>2. r \in DOMAIN call /\ call[r] \in Call
        BY <1>0, <2>1 DEF TypeOK
      <4> QED BY <4>1, <4>2 DEF Call
    <3>3. ASSUME ~contended[call[r].inst]
          PROVE  OwnRight(call'[r])
      <4>1. inst[call[r].inst] = call[r].read
        BY <1>0, <2>1, <3>1, <3>3 DEF Serial, Undisturbed
      <4> QED BY <3>1, <3>2, <4>1 DEF OwnRight, MayAct, IsActorCurrentApprover
    <3>4. Undisturbed(r)'
      BY <1>0, <2>1, <3>1, <3>2, <3>3 DEF Serial, Undisturbed, InFlight, OwnRight
    <3>5. \A q \in Requests \ {r} : Undisturbed(q)'
      BY <2>1, <3>2, SerialFrame DEF InFlight, NoEvent
    <3>6. Present'
      BY <1>0, <2>1, <3>2 DEF Present, InFlight
    <3> QED BY <2>1, <3>4, <3>5, <3>6 DEF Goal, Serial, SerialInv, DecidedByItsApprover, UncontendedDecisionIsFinal
  <2> QED BY <2>2, <2>3
<1>5. ASSUME NEW r \in Requests, Save(r)
      PROVE  Goal'
  <2> DEFINE i == call[r].inst
  <2>1. /\ pc[r] = "saving"
        /\ InFlight(r)
        /\ i \in Inst
        /\ Result(r) \in Instance
        /\ pc'[r] = "logging"
        /\ inst' = [inst EXCEPT ![i] = Result(r)]
        /\ \A q \in Requests \ {r} : pc'[q] = pc[q]
        /\ UNCHANGED <<call, actionLog, outbox, contended>>
    BY <1>0, <1>5, CallType DEF Save, Goto, InFlight, TypeOK
  <2>2. inst'[i] = Result(r) /\ \A j \in Inst \ {i} : inst'[j] = inst[j]
    BY <1>0, <2>1 DEF TypeOK
  <2>3. Result(r) # Null
    BY <2>1, ServiceAssumption
  <2> HIDE DEF i
  <2>4. ~contended[i] => NoEvent(i)
    <3>1. ASSUME ~contended[i], NEW k \in DOMAIN outbox, outbox[k].inst = i
          PROVE  FALSE
      <4>1. inst[i] = call[r].read /\ ~IsResolved(call[r].read)
        BY <1>0, <2>1, <3>1 DEF Serial, Undisturbed, TypeInv, Phases, i
      <4>2. inst[i].status \in Terminal
        BY <1>e, <2>1, <3>1 DEF SerialInv, UncontendedDecisionIsFinal
      <4> QED BY <4>1, <4>2 DEF IsResolved
    <3> QED BY <3>1 DEF NoEvent
  <2>5. Undisturbed(r)'
    <3>1. ASSUME ~contended[i]
          PROVE  /\ OwnRight(call[r])
                 /\ \A q \in Requests : InFlight(q) /\ call[q].inst = i => q = r
      BY <1>0, <2>1, <3>1 DEF Serial, Undisturbed, i
    <3> QED BY <2>1, <2>2, <2>4, <3>1 DEF Undisturbed, InFlight, Result, NoEvent, OwnRight, i
  <2>6. ASSUME NEW q \in Requests \ {r}
        PROVE  Undisturbed(q)'
    <3>1. CASE InFlight(q) /\ call[q].inst = i
      BY <1>0, <2>1, <3>1 DEF Serial, Undisturbed, i
    <3>2. CASE ~(InFlight(q) /\ call[q].inst = i)
      BY <1>0, <2>1, <2>2, <3>2, SerialFrame DEF InFlight, NoEvent
    <3> QED BY <3>1, <3>2
  <2>7. Present'
    BY <1>0, <1>e, <2>1, <2>2, <2>3 DEF Present, InFlight
  <2>8. DecidedByItsApprover'
    BY <2>1 DEF SerialInv, DecidedByItsApprover
  <2>9. UncontendedDecisionIsFinal'
    BY <2>1, <2>2, <2>4 DEF SerialInv, UncontendedDecisionIsFinal, NoEvent
  <2> QED BY <2>5, <2>6, <2>7, <2>8, <2>9 DEF Goal, Serial
<1>6. ASSUME NEW r \in Requests, LogAction(r)
      PROVE  Goal'
  <2> DEFINE l == [inst |-> call[r].inst, step |-> call[r].read.step, action |-> call[r].action,
                   user |-> call[r].user, asOwner |-> call[r].asOwner]
  <2>1. /\ pc[r] = "logging"
        /\ InFlight(r)
        /\ actionLog' = actionLog \cup {l}
        /\ \A q \in Requests \ {r} : pc'[q] = pc[q] /\ call'[q] = call[q]
        /\ pc'[r] = "done" \/ (pc'[r] = "publishing" /\ call'[r] = call[r])
        /\ UNCHANGED <<inst, outbox, contended>>
    BY <1>0, <1>6 DEF LogAction, InFlight, Finish, Goto, history, TypeOK
  <2>2. ~contended[call[r].inst] => OwnRight(call[r])
    BY <1>0, <2>1 DEF Serial, Undisturbed
  <2>3. ~contended[l.inst] /\ ~l.asOwner /\ l.user \notin Bypass =>
            l.step \in Steps /\ l.user \in Approvers[l.step]
    BY <2>2 DEF OwnRight
  <2> HIDE DEF l
  <2>4. DecidedByItsApprover'
    BY <2>1, <2>3 DEF SerialInv, DecidedByItsApprover
  <2>5. UncontendedDecisionIsFinal'
    BY <2>1 DEF SerialInv, UncontendedDecisionIsFinal
  <2>6. Undisturbed(r)'
    <3>1. CASE pc'[r] = "done"
      BY <3>1 DEF Undisturbed, InFlight
    <3>2. CASE pc'[r] = "publishing" /\ call'[r] = call[r]
      <4>1. ASSUME ~contended[call[r].inst]
            PROVE  /\ inst[call[r].inst] = Result(r)
                   /\ NoEvent(call[r].inst)
                   /\ \A q \in Requests : InFlight(q) /\ call[q].inst = call[r].inst => q = r
        BY <1>0, <2>1, <4>1 DEF Serial, Undisturbed
      <4> QED BY <2>1, <3>2, <4>1 DEF Undisturbed, InFlight, Result, NoEvent
    <3> QED BY <2>1, <3>1, <3>2
  <2>7. \A q \in Requests \ {r} : Undisturbed(q)'
    BY <2>1, SerialFrame DEF InFlight, NoEvent
  <2>8. Present'
    BY <1>0, <2>1 DEF Present, InFlight
  <2> QED BY <2>4, <2>5, <2>6, <2>7, <2>8 DEF Goal, Serial
<1>7. ASSUME NEW r \in Requests, Publish(r)
      PROVE  Goal'
  <2> DEFINE i == call[r].inst
             e == [inst |-> i, status |-> Result(r).status]
  <2>1. /\ pc[r] = "publishing"
        /\ InFlight(r)
        /\ i \in Inst
        /\ inst[i] # Null
        /\ outbox' = Append(outbox, e)
        /\ pc'[r] = "done"
        /\ \A q \in Requests \ {r} : pc'[q] = pc[q] /\ call'[q] = call[q]
        /\ UNCHANGED <<inst, actionLog, contended>>
    BY <1>0, <1>7 DEF Publish, InFlight, Finish, Goto, history, TypeOK, Present
  <2>2. e.inst = i /\ e.status = Result(r).status
    OBVIOUS
  <2>3. ~contended[i] => inst[i] = Result(r) /\ NoEvent(i)
    BY <1>0, <2>1 DEF Serial, Undisturbed
  <2> HIDE DEF i, e
  <2>4. /\ \A k \in DOMAIN outbox' : k \in DOMAIN outbox \/ k = Len(outbox) + 1
        /\ \A k \in DOMAIN outbox : outbox'[k] = outbox[k] /\ k # Len(outbox) + 1
        /\ outbox'[Len(outbox) + 1] = e
    BY <1>e, <2>1
  <2>5. \A j \in Inst \ {i} : NoEvent(j) => NoEvent(j)'
    BY <2>2, <2>4 DEF NoEvent
  <2>6. ASSUME NEW q \in Requests \ {r}
        PROVE  Undisturbed(q)'
    <3>1. CASE InFlight(q) /\ call[q].inst = i
      BY <1>0, <2>1, <3>1 DEF Serial, Undisturbed, i
    <3>2. CASE ~(InFlight(q) /\ call[q].inst = i)
      BY <1>0, <2>1, <2>5, <3>2, SerialFrame DEF InFlight
    <3> QED BY <3>1, <3>2
  <2>7. Undisturbed(r)'
    BY <2>1 DEF Undisturbed, InFlight
  <2>8. Present'
    BY <1>0, <2>1, <2>2, <2>4 DEF Present, InFlight
  <2>9. UncontendedDecisionIsFinal'
    <3> SUFFICES ASSUME NEW j \in Inst, ~contended[j], NEW k \in DOMAIN outbox', outbox'[k].inst = j
                 PROVE  /\ inst[j].status = outbox'[k].status
                        /\ \A m \in DOMAIN outbox' : outbox'[m].inst = j => m = k
      BY <2>1 DEF UncontendedDecisionIsFinal
    <3>1. CASE j = i
      BY <2>2, <2>3, <2>4, <3>1 DEF NoEvent
    <3>2. CASE j # i
      BY <2>2, <2>4, <3>2 DEF SerialInv, UncontendedDecisionIsFinal
    <3> QED BY <3>1, <3>2
  <2>10. DecidedByItsApprover'
    BY <2>1 DEF SerialInv, DecidedByItsApprover
  <2> QED BY <2>6, <2>7, <2>8, <2>9, <2>10 DEF Goal, Serial
<1>8. ASSUME UNCHANGED vars
      PROVE  Goal'
  BY <1>8 DEF vars, Goal, SerialInv, Serial, Undisturbed, Present, InFlight, Result, NoEvent, OwnRight,
              DecidedByItsApprover, UncontendedDecisionIsFinal
<1> QED BY <1>1, <1>2, <1>3, <1>4, <1>5, <1>6, <1>7, <1>8 DEF Next, Step, Goal

\* While writers of an instance do not overlap, the guard of the entity is
\* enough: at most one decision is published, and the instance carries it.
THEOREM DecidedOnce == Spec => []UncontendedDecisionIsFinal
<1>1. SerialInv => UncontendedDecisionIsFinal
  BY DEF SerialInv
<1> QED BY SerialInit, SerialStep, <1>1, PTL DEF Spec

\* While writers of an instance do not overlap, an action that is not marked as
\* an override was taken by an approver of the step it names: the second read
\* in isActorCurrentApprover sees what the first one saw.
THEOREM ApproverDecides == Spec => []DecidedByItsApprover
<1>1. SerialInv => DecidedByItsApprover
  BY DEF SerialInv
<1> QED BY SerialInit, SerialStep, <1>1, PTL DEF Spec
=============================================================================
