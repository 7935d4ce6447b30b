---------------------------- MODULE RequestProofs ----------------------------
(***************************************************************************)
(* The types of RequestPlatform, and no effect without approval, for every *)
(* set of requests, handlers, steps, submissions and ids.                  *)
(*                                                                         *)
(* For the types there is one lemma for each way in which a call goes on   *)
(* (Goto, GotoFresh, Finish, Occupy), one for each table it updates, and one*)
(* step for each action.                                                   *)
(***************************************************************************)
EXTENDS RequestPlatform, TLAPS

\* Nobody is at work, or on a call of the right type.
CallOK == call \in [Everyone -> Call \cup {Null}]

\* The constants are what the ids, steps and callers are made of.
LEMMA Constants ==
    /\ Boot \notin Callers
    /\ Null \notin Ids
    /\ Callers \subseteq Everyone
    /\ Boot \in Everyone
    /\ Domain \subseteq Places
BY RequestAssumption DEF Everyone, Places

\* A call that begins anew is of the right type.
LEMMA FreshType ==
    ASSUME NEW r \in Requests, NEW place \in Places, NEW todo \in SUBSET Requests
    PROVE  Fresh(r, place, todo) \in Call
BY DEF Fresh, Call, Status

\* Ending a call keeps the type, with or without further requests to do.
LEMMA FinishType ==
    ASSUME CallOK, NEW c \in Everyone, call[c] # Null, Finish(c)
    PROVE  CallOK'
<1>1. call[c] \in Call /\ call[c].todo \in SUBSET Requests
  BY DEF CallOK, Call
<1>2. CASE call[c].todo = {}
  BY <1>2 DEF Finish, CallOK
<1>3. CASE call[c].todo # {}
  <2>1. PICK r \in call[c].todo :
           call' = [call EXCEPT ![c] = Fresh(r, "checking", call[c].todo \ {r})]
    BY <1>3 DEF Finish, CallOK
  <2>2. Fresh(r, "checking", call[c].todo \ {r}) \in Call
    BY <1>1, <2>1, FreshType DEF Places
  <2> QED BY <2>1, <2>2 DEF CallOK
<1> QED BY <1>2, <1>3

\* So does going on to another place, ...
LEMMA GotoType ==
    ASSUME CallOK, NEW c \in Everyone, call[c] # Null, NEW place \in Places, Goto(c, place)
    PROVE  CallOK'
<1>1. call[c] \in Call
  BY DEF CallOK
<1>2. [call[c] EXCEPT !.at = place] \in Call
  BY <1>1 DEF Call
<1> QED BY <1>2 DEF Goto, CallOK

\* ... starting afresh on a request, ...
LEMMA GotoFreshType ==
    ASSUME CallOK, NEW c \in Everyone, call[c] # Null, NEW place \in Places, GotoFresh(c, place)
    PROVE  CallOK'
<1>1. call[c] \in Call /\ call[c].todo \in SUBSET Requests /\ call[c].on \in Requests
  BY DEF CallOK, Call
<1>2. Fresh(call[c].on, place, call[c].todo) \in Call
  BY <1>1, FreshType
<1> QED BY <1>2 DEF GotoFresh, CallOK

\* ... and taking one on.
LEMMA OccupyType ==
    ASSUME TypeOK, NEW c \in Everyone, NEW r \in Requests, NEW place \in Places,
           NEW s \in Steps \cup {Null}, Occupy(c, r, place, s)
    PROVE  CallOK'
<1>1. inst[r].status \in Status
  BY DEF TypeOK, Instance
<1>2. Fresh(r, place, {}) \in Call
  BY FreshType
<1>3. [Fresh(r, place, {}) EXCEPT !.seen = inst[r].status, !.step = s] \in Call
  BY <1>1, <1>2 DEF Call
<1> QED BY <1>3 DEF Occupy, TypeOK, CallOK

\* TypeOK, in the parts that a step disturbs separately: the tables ...
TablesOK ==
    /\ inst \in [Requests -> Instance]
    /\ step \in [Requests -> [Steps -> StepStatus]]
    /\ row \in [Ids -> Entity]
    /\ balance \in Nat

\* ... and what bounds and remembers.
RestOK ==
    /\ due \in BOOLEAN
    /\ calls \in 0..MaxCalls
    /\ disruptions \in 0..MaxDisruptions
    /\ hits \in [Requests -> SUBSET Irregular]
    /\ lost \subseteq Requests

\* The parts make up the whole.
LEMMA TypeParts == TypeOK <=> TablesOK /\ CallOK /\ RestOK
BY DEF TypeOK, TablesOK, CallOK, RestOK

\* Remembering an irregularity keeps the type.
LEMMA HitType ==
    ASSUME RestOK, NEW r \in Requests, NEW what \in SUBSET Irregular, Hit(r, what)
    PROVE  hits' \in [Requests -> SUBSET Irregular]
BY DEF Hit, RestOK

\* Stale and Overlap give irregularities.
LEMMA Irregularities ==
    ASSUME NEW c
    PROVE  Stale(c) \in SUBSET Irregular /\ Overlap(c) \in SUBSET Irregular
BY DEF Stale, Overlap, Irregular

\* A new id is one of the ids.
LEMMA NewIdType ==
    ASSUME NEW n \in Ids, row[n].status = "none"
    PROVE  NewId \in Ids /\ row[NewId].status = "none"
BY DEF NewId

\* A call at some place is a call of the right type.
CallParts(c) ==
    /\ call[c] \in Call
    /\ call[c].on \in Requests
    /\ call[c].id \in Ids \cup {Null}
    /\ call[c].read \in Nat
    /\ call[c].step \in Steps \cup {Null}

\* Whoever is at work has such a call.
LEMMA AtType ==
    ASSUME CallOK, NEW c \in Everyone, call[c] # Null
    PROVE  CallParts(c)
BY DEF CallOK, Call, CallParts

\* Updating the columns of a request keeps the table's type.
LEMMA InstType ==
    ASSUME TablesOK, NEW r \in Requests
    PROVE  /\ \A s \in Status : [inst EXCEPT ![r].status = s] \in [Requests -> Instance]
           /\ \A s \in Ids \cup {Null} : [inst EXCEPT ![r].staged = s] \in [Requests -> Instance]
           /\ \A s \in {"none", "pending", "failed", "completed", "cancelled"} :
                 /\ [inst EXCEPT ![r].integration = s] \in [Requests -> Instance]
                 /\ \A e \in Ids \cup {Null} :
                       [inst EXCEPT ![r].integration = s, ![r].entity = e] \in [Requests -> Instance]
<1>1. inst[r] \in Instance
  BY DEF TablesOK
<1>2. \A s \in Status : [inst[r] EXCEPT !.status = s] \in Instance
  BY <1>1 DEF Instance
<1>3. \A s \in Ids \cup {Null} : [inst[r] EXCEPT !.staged = s] \in Instance
  BY <1>1 DEF Instance
<1>4. \A s \in {"none", "pending", "failed", "completed", "cancelled"} :
        [inst[r] EXCEPT !.integration = s] \in Instance
  BY <1>1 DEF Instance
<1>5. \A s \in {"none", "pending", "failed", "completed", "cancelled"}, e \in Ids \cup {Null} :
        [inst[r] EXCEPT !.integration = s, !.entity = e] \in Instance
  BY <1>1 DEF Instance
<1> QED BY <1>2, <1>3, <1>4, <1>5 DEF TablesOK

\* So does the status of a row, and the rejection of a staged leave gives no effect.
LEMMA RowType ==
    ASSUME TablesOK, NEW id, NEW s \in {"none", "pending", "approved", "rejected", "returned"}
    PROVE  [row EXCEPT ![id].status = s] \in [Ids -> Entity]
<1>1. \A n \in Ids : [row[n] EXCEPT !.status = s] \in Entity
  BY DEF TablesOK, Entity
<1> QED BY <1>1 DEF TablesOK

\* The row of a rejected staged leave is a row.
LEMMA StagedRejected ==
    ASSUME TablesOK, NEW r \in Requests
    PROVE  /\ RejectedStaged(r) \in [Ids -> Entity]
           /\ \A id \in Ids : \/ RejectedStaged(r)[id] = row[id]
                              \/ RejectedStaged(r)[id].status # "approved"
<1>1. [row EXCEPT ![inst[r].staged].status = "rejected"] \in [Ids -> Entity]
  BY RowType
<1>2. \A id \in Ids : \/ [row EXCEPT ![inst[r].staged].status = "rejected"][id] = row[id]
                      \/ [row EXCEPT ![inst[r].staged].status = "rejected"][id].status # "approved"
  BY DEF TablesOK, Entity
<1> QED BY <1>1, <1>2 DEF RejectedStaged, TablesOK

\* The initial tables have their types.
LEMMA TypeInit == Init => TypeOK
<1> SUFFICES ASSUME Init PROVE TypeOK
  OBVIOUS
<1>0. Idle \in Instance
  BY DEF Idle, Instance, Status, Kinds
<1>1. inst \in [Requests -> Instance]
  BY <1>0 DEF Init
<1>2. step \in [Requests -> [Steps -> StepStatus]]
  BY DEF Init, StepStatus
<1>3. row \in [Ids -> Entity] /\ balance \in Nat
  BY DEF Init, Entity
<1>4. call \in [Everyone -> Call \cup {Null}] /\ due \in BOOLEAN
  BY DEF Init
<1>5. calls \in 0..MaxCalls /\ disruptions \in 0..MaxDisruptions
  BY RequestAssumption DEF Init
<1>6. hits \in [Requests -> SUBSET Irregular] /\ lost \subseteq Requests
  BY DEF Init
<1> QED BY <1>1, <1>2, <1>3, <1>4, <1>5, <1>6 DEF TypeOK

\* Every step keeps the types, one action at a time.
LEMMA TypeStep == TypeOK /\ [Next]_vars => TypeOK'
<1> SUFFICES ASSUME TypeOK, [Next]_vars
             PROVE  TypeOK'
  OBVIOUS
<1> TablesOK /\ CallOK /\ RestOK
  BY TypeParts
<1> SUFFICES TablesOK' /\ CallOK' /\ RestOK'
  BY DEF TypeOK, TablesOK, CallOK, RestOK
<1>1. ASSUME NEW r \in Requests, NEW kind \in Kinds, CreateDraft(r, kind)
      PROVE  TablesOK' /\ CallOK' /\ RestOK'
  <2>1. TablesOK'
    BY <1>1 DEF CreateDraft, TablesOK, Instance, Status
  <2>2. CallOK' /\ RestOK'
    BY <1>1 DEF CreateDraft, CallOK, RestOK, bounds
  <2> QED BY <2>1, <2>2
<1>2. ASSUME NEW c \in Callers, NEW r \in Requests, NEW kind \in Kinds, NEW n \in Submissions, CreateAndSubmit(c, r, kind, n)
      PROVE  TablesOK' /\ CallOK' /\ RestOK'
  <2> c \in Everyone
    BY Constants
  <2>1. TablesOK'
    BY <1>2 DEF CreateAndSubmit, Assigned, TablesOK, Instance, Status, StepStatus
  <2>2. CallOK'
    <3>1. CASE kind = "leave"
      BY <3>1, <1>2, Constants, TypeParts, OccupyType DEF CreateAndSubmit, Domain
    <3>2. CASE kind # "leave"
      BY <3>2, <1>2 DEF CreateAndSubmit, CallOK
    <3> QED BY <3>1, <3>2
  <2>3. RestOK'
    BY <1>2 DEF CreateAndSubmit, RestOK, bounds
  <2> QED BY <2>1, <2>2, <2>3
<1>3. ASSUME NEW c \in Callers, NEW r \in Requests, BeginSubmit(c, r)
      PROVE  TablesOK' /\ CallOK' /\ RestOK'
  <2> c \in Everyone
    BY Constants
  <2>1. TablesOK'
    BY <1>3 DEF BeginSubmit, TablesOK, tables
  <2>2. CallOK'
    BY <1>3, Constants, TypeParts, OccupyType DEF BeginSubmit, Begin, Places, Domain
  <2>3. RestOK'
    BY <1>3, RequestAssumption DEF BeginSubmit, Begin, RestOK
  <2> QED BY <2>1, <2>2, <2>3
<1>4. ASSUME NEW c \in Callers, NEW r \in Requests, BeginDiscard(c, r)
      PROVE  TablesOK' /\ CallOK' /\ RestOK'
  <2> c \in Everyone
    BY Constants
  <2>1. TablesOK'
    BY <1>4 DEF BeginDiscard, TablesOK, tables
  <2>2. CallOK'
    BY <1>4, Constants, TypeParts, OccupyType DEF BeginDiscard, Begin, Places, Domain
  <2>3. RestOK'
    BY <1>4, RequestAssumption DEF BeginDiscard, Begin, RestOK
  <2> QED BY <2>1, <2>2, <2>3
<1>5. ASSUME NEW c \in Callers, NEW r \in Requests, BeginCancel(c, r)
      PROVE  TablesOK' /\ CallOK' /\ RestOK'
  <2> c \in Everyone
    BY Constants
  <2>1. TablesOK'
    BY <1>5 DEF BeginCancel, TablesOK, tables
  <2>2. CallOK'
    BY <1>5, Constants, TypeParts, OccupyType DEF BeginCancel, Begin, Places, Domain
  <2>3. hits' \in [Requests -> SUBSET Irregular]
    BY <1>5, HitType DEF BeginCancel, Irregular
  <2>4. RestOK'
    BY <1>5, <2>3, RequestAssumption DEF BeginCancel, Begin, RestOK
  <2> QED BY <2>1, <2>2, <2>4
<1>6. ASSUME NEW c \in Callers, NEW r \in Requests, BeginRetry(c, r)
      PROVE  TablesOK' /\ CallOK' /\ RestOK'
  <2> c \in Everyone
    BY Constants
  <2>1. TablesOK'
    BY <1>6 DEF BeginRetry, TablesOK, tables
  <2>2. CallOK'
    BY <1>6, Constants, TypeParts, OccupyType DEF BeginRetry, Begin, Places, Domain
  <2>3. hits' \in [Requests -> SUBSET Irregular]
    BY <1>6, HitType DEF BeginRetry, Irregular
  <2>4. RestOK'
    BY <1>6, <2>3, RequestAssumption DEF BeginRetry, Begin, RestOK
  <2> QED BY <2>1, <2>2, <2>4
<1>7. ASSUME NEW c \in Callers, NEW r \in Requests, NEW place \in {"approving", "rejecting"}, BeginDecide(c, r, place)
      PROVE  TablesOK' /\ CallOK' /\ RestOK'
  <2> c \in Everyone
    BY Constants
  <2>1. TablesOK'
    BY <1>7 DEF BeginDecide, Begin, TablesOK, tables
  <2>2. CallOK'
    <3>1. PICK s \in Lowest(r) : Begin(c, r, place, s)
      BY <1>7 DEF BeginDecide
    <3>2. s \in Steps \cup {Null}
      BY DEF Lowest, Pending
    <3>3. place \in Places
      BY DEF Places
    <3> QED BY <3>1, <3>2, <3>3, Constants, TypeParts, OccupyType DEF Begin
  <2>3. RestOK'
    BY <1>7, RequestAssumption DEF BeginDecide, Begin, RestOK
  <2> QED BY <2>1, <2>2, <2>3
<1>8. ASSUME NEW c \in Everyone, NEW n \in Submissions, Submit(c, n)
      PROVE  TablesOK' /\ CallOK' /\ RestOK'
  <2>1. call[c] # Null
    BY <1>8 DEF Submit, At
  <2>2. CallParts(c)
    BY <2>1, AtType
  <2>3. TablesOK'
    <3>1. inst' \in [Requests -> Instance]
      BY <1>8, <2>2, InstType DEF Submit, Status, CallParts
    <3>2. step' \in [Requests -> [Steps -> StepStatus]]
      BY <1>8, <2>2 DEF Submit, Assigned, TablesOK, StepStatus, CallParts
    <3> QED BY <3>1, <3>2, <1>8 DEF Submit, TablesOK
  <2>4. CallOK'
    BY <1>8, <2>1, GotoType, FinishType DEF Submit, Places, Domain
  <2>5. hits' \in [Requests -> SUBSET Irregular]
    BY <1>8, <2>2, Irregularities, HitType DEF Submit, CallParts
  <2>6. RestOK'
    BY <1>8, <2>5, RequestAssumption DEF Submit, RestOK, bounds
  <2> QED BY <2>3, <2>4, <2>6
<1>9. ASSUME NEW c \in Everyone, CheckConflict(c)
      PROVE  TablesOK' /\ CallOK' /\ RestOK'
  <2>1. call[c] # Null
    BY <1>9 DEF CheckConflict, At
  <2>2. CallParts(c)
    BY <2>1, AtType
  <2>3. TablesOK'
    BY <1>9, <2>2 DEF CheckConflict, TablesOK, tables, CallParts
  <2>4. CallOK'
    BY <1>9, <2>1, GotoType, FinishType DEF CheckConflict, Places, Domain
  <2>5. RestOK'
    BY <1>9 DEF CheckConflict, RestOK, bounds
  <2> QED BY <2>3, <2>4, <2>5
<1>10. ASSUME NEW c \in Everyone, StageLeave(c)
      PROVE  TablesOK' /\ CallOK' /\ RestOK'
  <2>1. call[c] # Null
    BY <1>10 DEF StageLeave, At
  <2>2. CallParts(c)
    BY <2>1, AtType
  <2>3. TablesOK'
    BY <1>10, <2>2 DEF StageLeave, TablesOK, Entity, CallParts
  <2>4. CallOK'
    <3>1. PICK n \in Ids : row[n].status = "none"
      BY <1>10 DEF StageLeave
    <3>2. NewId \in Ids
      BY <3>1, NewIdType
    <3>3. [call[c] EXCEPT !.id = NewId, !.at = "linking"] \in Call
      BY <2>2, <3>2 DEF Call, Places, Domain, CallParts
    <3> QED BY <1>10, <3>3 DEF StageLeave, CallOK
  <2>5. RestOK'
    BY <1>10 DEF StageLeave, RestOK, bounds
  <2> QED BY <2>3, <2>4, <2>5
<1>11. ASSUME NEW c \in Everyone, LinkStaged(c)
      PROVE  TablesOK' /\ CallOK' /\ RestOK'
  <2>1. call[c] # Null
    BY <1>11 DEF LinkStaged, At
  <2>2. CallParts(c)
    BY <2>1, AtType
  <2>3. TablesOK'
    <3>1. inst' \in [Requests -> Instance]
      BY <1>11, <2>2, InstType DEF LinkStaged, Status, CallParts
    <3> QED BY <3>1, <1>11 DEF LinkStaged, TablesOK
  <2>4. CallOK'
    BY <1>11, <2>1, FinishType DEF LinkStaged
  <2>5. RestOK'
    BY <1>11 DEF LinkStaged, RestOK, bounds
  <2> QED BY <2>3, <2>4, <2>5
<1>12. ASSUME NEW c \in Everyone, Discard(c)
      PROVE  TablesOK' /\ CallOK' /\ RestOK'
  <2>1. call[c] # Null
    BY <1>12 DEF Discard, At
  <2>2. CallParts(c)
    BY <2>1, AtType
  <2>3. TablesOK'
    <3>1. inst' \in [Requests -> Instance]
      BY <1>12, <2>2, InstType DEF Discard, Status, CallParts
    <3> QED BY <3>1, <1>12 DEF Discard, TablesOK
  <2>4. CallOK'
    BY <1>12, <2>1, FinishType DEF Discard
  <2>5. hits' \in [Requests -> SUBSET Irregular]
    BY <1>12, <2>2, Irregularities, HitType DEF Discard, CallParts
  <2>6. RestOK'
    BY <1>12, <2>5, RequestAssumption DEF Discard, RestOK, bounds
  <2> QED BY <2>3, <2>4, <2>6
<1>13. ASSUME NEW c \in Everyone, UndoStaged(c)
      PROVE  TablesOK' /\ CallOK' /\ RestOK'
  <2>1. call[c] # Null
    BY <1>13 DEF UndoStaged, At
  <2>2. CallParts(c)
    BY <2>1, AtType
  <2>3. TablesOK'
    BY <1>13, <2>2, StagedRejected DEF UndoStaged, TablesOK, CallParts
  <2>4. CallOK'
    BY <1>13, <2>1, GotoType DEF UndoStaged, Places, Domain
  <2>5. RestOK'
    BY <1>13 DEF UndoStaged, RestOK, bounds
  <2> QED BY <2>3, <2>4, <2>5
<1>14. ASSUME NEW c \in Everyone, UndoApproved(c)
      PROVE  TablesOK' /\ CallOK' /\ RestOK'
  <2>1. call[c] # Null
    BY <1>14 DEF UndoApproved, At
  <2>2. CallParts(c)
    BY <2>1, AtType
  <2>3. TablesOK'
    BY <1>14, <2>2 DEF UndoApproved, TablesOK, tables, CallParts
  <2>4. CallOK'
    <3> DEFINE at == IF ~Integrated(call[c].on) THEN "cancelling"
                     ELSE IF row[inst[call[c].on].entity].status # "approved" THEN "unlinking"
                     ELSE IF inst[call[c].on].kind = "leave" THEN "freeing" ELSE "erasing"
    <3>1. at \in Places
      BY DEF Places, Domain
    <3>2. inst[call[c].on].entity \in Ids \cup {Null}
      BY <2>2 DEF TablesOK, Instance, CallParts
    <3> HIDE DEF at
    <3>3. [call[c] EXCEPT !.seen = "approved", !.id = inst[call[c].on].entity, !.at = at] \in Call
      BY <2>2, <3>1, <3>2 DEF Call, Status, CallParts
    <3>4. CASE inst[call[c].on].kind = "advance"
      BY <3>4, <1>14, <2>1, FinishType DEF UndoApproved
    <3>5. CASE inst[call[c].on].kind # "advance"
      <4>1. call' = [call EXCEPT ![c].seen = "approved", ![c].id = inst[call[c].on].entity, ![c].at = at]
        BY <3>5, <1>14 DEF UndoApproved, at
      <4> QED BY <3>3, <4>1 DEF CallOK
    <3> QED BY <3>4, <3>5
  <2>5. RestOK'
    BY <1>14 DEF UndoApproved, RestOK, bounds
  <2> QED BY <2>3, <2>4, <2>5
<1>15. ASSUME NEW c \in Everyone, Release(c)
      PROVE  TablesOK' /\ CallOK' /\ RestOK'
  <2>1. call[c] # Null
    BY <1>15 DEF Release, At
  <2>2. CallParts(c)
    BY <2>1, AtType
  <2>3. TablesOK'
    BY <1>15, <2>2 DEF Release, TablesOK, tables, CallParts
  <2>4. CallOK'
    BY <1>15, <2>1, GotoType DEF Release, Places, Domain
  <2>5. RestOK'
    BY <1>15 DEF Release, RestOK, bounds
  <2> QED BY <2>3, <2>4, <2>5
<1>16. ASSUME NEW c \in Everyone, Erase(c)
      PROVE  TablesOK' /\ CallOK' /\ RestOK'
  <2>1. call[c] # Null
    BY <1>16 DEF Erase, At
  <2>2. CallParts(c)
    BY <2>1, AtType
  <2>3. TablesOK'
    BY <1>16, <2>2, RowType DEF Erase, TablesOK, CallParts
  <2>4. CallOK'
    BY <1>16, <2>1, GotoType DEF Erase, Places, Domain
  <2>5. RestOK'
    BY <1>16 DEF Erase, RestOK, bounds
  <2> QED BY <2>3, <2>4, <2>5
<1>17. ASSUME NEW c \in Everyone, RefuseErase(c)
      PROVE  TablesOK' /\ CallOK' /\ RestOK'
  <2>1. call[c] # Null
    BY <1>17 DEF RefuseErase, At
  <2>2. CallParts(c)
    BY <2>1, AtType
  <2>3. TablesOK'
    BY <1>17, <2>2 DEF RefuseErase, TablesOK, tables, CallParts
  <2>4. CallOK'
    BY <1>17, <2>1, FinishType DEF RefuseErase
  <2>5. RestOK'
    BY <1>17 DEF RefuseErase, RestOK, bounds
  <2> QED BY <2>3, <2>4, <2>5
<1>18. ASSUME NEW c \in Everyone, Unlink(c)
      PROVE  TablesOK' /\ CallOK' /\ RestOK'
  <2>1. call[c] # Null
    BY <1>18 DEF Unlink, At
  <2>2. CallParts(c)
    BY <2>1, AtType
  <2>3. TablesOK'
    BY <1>18, <2>2, InstType DEF Unlink, TablesOK, CallParts
  <2>4. CallOK'
    BY <1>18, <2>1, GotoType DEF Unlink, Places, Domain
  <2>5. RestOK'
    BY <1>18 DEF Unlink, RestOK, bounds
  <2> QED BY <2>3, <2>4, <2>5
<1>19. ASSUME NEW c \in Everyone, Cancel(c)
      PROVE  TablesOK' /\ CallOK' /\ RestOK'
  <2>1. call[c] # Null
    BY <1>19 DEF Cancel, At
  <2>2. CallParts(c)
    BY <2>1, AtType
  <2>3. TablesOK'
    <3>1. inst' \in [Requests -> Instance]
      BY <1>19, <2>2, InstType DEF Cancel, Status, CallParts
    <3>2. step' \in [Requests -> [Steps -> StepStatus]]
      BY <1>19, <2>2 DEF Cancel, TablesOK, StepStatus, CallParts
    <3> QED BY <3>1, <3>2, <1>19 DEF Cancel, TablesOK
  <2>4. CallOK'
    BY <1>19, <2>1, FinishType DEF Cancel
  <2>5. hits' \in [Requests -> SUBSET Irregular]
    BY <1>19, <2>2, Irregularities, HitType DEF Cancel, CallParts
  <2>6. RestOK'
    BY <1>19, <2>5, RequestAssumption DEF Cancel, RestOK, bounds
  <2> QED BY <2>3, <2>4, <2>6
<1>20. ASSUME NEW c \in Everyone, Approve(c)
      PROVE  TablesOK' /\ CallOK' /\ RestOK'
  <2>1. call[c] # Null
    BY <1>20 DEF Approve, At
  <2>2. CallParts(c)
    BY <2>1, AtType
  <2>3. TablesOK'
    <3>0. inst[call[c].on].status \in Status
      BY <2>2 DEF TablesOK, Instance, CallParts
    <3> DEFINE new == IF {t \in Pending(call[c].on) \ {call[c].step} : t[2] > call[c].step[2]} = {}
                      THEN "approved" ELSE inst[call[c].on].status
    <3>4. new \in Status
      BY <3>0 DEF Status
    <3>5. inst' = [inst EXCEPT ![call[c].on].status = new]
      BY <1>20, <2>2 DEF Approve, TablesOK, CallParts
    <3> HIDE DEF new
    <3>1. inst' \in [Requests -> Instance]
      BY <2>2, <3>4, <3>5, InstType DEF CallParts
    <3>2. step' \in [Requests -> [Steps -> StepStatus]]
      BY <1>20, <2>2 DEF Approve, TablesOK, StepStatus, CallParts
    <3> QED BY <3>1, <3>2, <1>20 DEF Approve, TablesOK
  <2>4. CallOK'
    BY <1>20, <2>1, GotoFreshType DEF Approve, Places, Domain
  <2>5. hits' \in [Requests -> SUBSET Irregular]
    BY <1>20, <2>2, Irregularities, HitType DEF Approve, CallParts
  <2>6. RestOK'
    BY <1>20, <2>5, RequestAssumption DEF Approve, RestOK, bounds
  <2> QED BY <2>3, <2>4, <2>6
<1>21. ASSUME NEW c \in Everyone, Reject(c)
      PROVE  TablesOK' /\ CallOK' /\ RestOK'
  <2>1. call[c] # Null
    BY <1>21 DEF Reject, At
  <2>2. CallParts(c)
    BY <2>1, AtType
  <2>3. TablesOK'
    <3>1. inst' \in [Requests -> Instance]
      BY <1>21, <2>2, InstType DEF Reject, Status, CallParts
    <3>2. step' \in [Requests -> [Steps -> StepStatus]]
      BY <1>21, <2>2 DEF Reject, TablesOK, StepStatus, CallParts
    <3> QED BY <3>1, <3>2, <1>21 DEF Reject, TablesOK
  <2>4. CallOK'
    BY <1>21, <2>1, GotoFreshType DEF Reject, Places, Domain
  <2>5. hits' \in [Requests -> SUBSET Irregular]
    BY <1>21, <2>2, Irregularities, HitType DEF Reject, CallParts
  <2>6. RestOK'
    BY <1>21, <2>5, RequestAssumption DEF Reject, RestOK, bounds
  <2> QED BY <2>3, <2>4, <2>6
<1>22. ASSUME NEW c \in Everyone, Unstage(c)
      PROVE  TablesOK' /\ CallOK' /\ RestOK'
  <2>1. call[c] # Null
    BY <1>22 DEF Unstage, At
  <2>2. CallParts(c)
    BY <2>1, AtType
  <2>3. TablesOK'
    BY <1>22, <2>2, StagedRejected DEF Unstage, TablesOK, CallParts
  <2>4. CallOK'
    BY <1>22, <2>1, FinishType DEF Unstage
  <2>5. hits' \in [Requests -> SUBSET Irregular]
    BY <1>22, <2>2, Irregularities, HitType DEF Unstage, CallParts
  <2>6. RestOK'
    BY <1>22, <2>5, RequestAssumption DEF Unstage, RestOK, bounds
  <2> QED BY <2>3, <2>4, <2>6
<1>23. ASSUME NEW c \in Everyone, Reset(c)
      PROVE  TablesOK' /\ CallOK' /\ RestOK'
  <2>1. call[c] # Null
    BY <1>23 DEF Reset, At
  <2>2. CallParts(c)
    BY <2>1, AtType
  <2>3. TablesOK'
    BY <1>23, <2>2 DEF Reset, TablesOK, Instance, CallParts
  <2>4. CallOK'
    BY <1>23, <2>1, GotoFreshType DEF Reset, Places, Domain
  <2>5. RestOK'
    BY <1>23 DEF Reset, RestOK, bounds
  <2> QED BY <2>3, <2>4, <2>5
<1>24. ASSUME NEW c \in Everyone, Check(c)
      PROVE  TablesOK' /\ CallOK' /\ RestOK'
  <2>1. call[c] # Null
    BY <1>24 DEF Check, At
  <2>2. CallParts(c)
    BY <2>1, AtType
  <2>3. TablesOK'
    BY <1>24, <2>2 DEF Check, TablesOK, tables, CallParts
  <2>4. CallOK'
    BY <1>24, <2>1, GotoType, FinishType DEF Check, Places, Domain
  <2>5. hits' \in [Requests -> SUBSET Irregular]
    BY <1>24, <2>2, Irregularities, HitType DEF Check, RestOK, CallParts
  <2>6. RestOK'
    BY <1>24, <2>5, RequestAssumption DEF Check, RestOK, bounds
  <2> QED BY <2>3, <2>4, <2>6
<1>25. ASSUME NEW c \in Everyone, Claim(c)
      PROVE  TablesOK' /\ CallOK' /\ RestOK'
  <2>1. call[c] # Null
    BY <1>25 DEF Claim, At
  <2>2. CallParts(c)
    BY <2>1, AtType
  <2>3. TablesOK'
    BY <1>25, <2>2, InstType DEF Claim, TablesOK, CallParts
  <2>4. CallOK'
    BY <1>25, <2>1, GotoType DEF Claim, Places, Domain
  <2>5. RestOK'
    BY <1>25 DEF Claim, RestOK, bounds
  <2> QED BY <2>3, <2>4, <2>5
<1>26. ASSUME NEW c \in Everyone, LookLeave(c)
      PROVE  TablesOK' /\ CallOK' /\ RestOK'
  <2>1. call[c] # Null
    BY <1>26 DEF LookLeave, At
  <2>2. CallParts(c)
    BY <2>1, AtType
  <2>3. TablesOK'
    <3>1. CASE Failed(call[c].on)
      BY <3>1, <1>26, <2>2, InstType DEF LookLeave, Failed, TablesOK, CallParts
    <3>2. CASE UNCHANGED inst
      BY <3>2, <1>26 DEF LookLeave, TablesOK
    <3> QED BY <3>1, <3>2, <1>26 DEF LookLeave
  <2>4. CallOK'
    <3>1. inst[call[c].on].staged \in Ids \cup {Null}
      BY <2>2 DEF TablesOK, Instance, CallParts
    <3>2. [call[c] EXCEPT !.id = inst[call[c].on].staged, !.at = "writing"] \in Call
      BY <2>2, <3>1 DEF Call, Places, Domain, CallParts
    <3>3. CASE Finish(c)
      BY <3>3, <2>1, FinishType
    <3>4. CASE ~Finish(c)
      BY <3>4, <3>2, <1>26 DEF LookLeave, CallOK
    <3> QED BY <3>3, <3>4
  <2>5. RestOK'
    BY <1>26 DEF LookLeave, RestOK, bounds
  <2> QED BY <2>3, <2>4, <2>5
<1>27. ASSUME NEW c \in Everyone, LookOvertime(c)
      PROVE  TablesOK' /\ CallOK' /\ RestOK'
  <2>1. call[c] # Null
    BY <1>27 DEF LookOvertime, At
  <2>2. CallParts(c)
    BY <2>1, AtType
  <2>3. TablesOK'
    <3>1. CASE Failed(call[c].on)
      BY <3>1, <1>27, <2>2, InstType DEF LookOvertime, Failed, TablesOK, CallParts
    <3>2. CASE UNCHANGED inst
      BY <3>2, <1>27 DEF LookOvertime, TablesOK
    <3> QED BY <3>1, <3>2, <1>27 DEF LookOvertime
  <2>4. CallOK'
    BY <1>27, <2>1, GotoType, FinishType DEF LookOvertime, Places, Domain
  <2>5. RestOK'
    BY <1>27 DEF LookOvertime, RestOK, bounds
  <2> QED BY <2>3, <2>4, <2>5
<1>38. ASSUME NEW c \in Everyone, FindOvertime(c)
      PROVE  TablesOK' /\ CallOK' /\ RestOK'
  <2>1. call[c] # Null
    BY <1>38 DEF FindOvertime, At
  <2>2. CallParts(c)
    BY <2>1, AtType
  <2>3. CASE Live(call[c].on) = {}
    <3>1. TablesOK'
      BY <1>38, <2>3 DEF FindOvertime, TablesOK
    <3>2. CallOK'
      BY <1>38, <2>1, <2>3, GotoType DEF FindOvertime, Places, Domain
    <3> QED BY <1>38, <3>1, <3>2 DEF FindOvertime, RestOK, bounds
  <2>4. CASE Live(call[c].on) # {}
    <3>1. PICK id \in Live(call[c].on) :
             /\ row' = [row EXCEPT ![id].status = "approved"]
             /\ call' = [call EXCEPT ![c].id = id, ![c].at = "marking"]
      BY <1>38, <2>4 DEF FindOvertime
    <3>2. TablesOK'
      BY <1>38, <3>1, RowType DEF FindOvertime, TablesOK
    <3>3. [call[c] EXCEPT !.id = id, !.at = "marking"] \in Call
      BY <2>2, <3>1 DEF Live, Call, Places, Domain, CallParts
    <3>4. CallOK'
      BY <3>1, <3>3 DEF CallOK
    <3> QED BY <1>38, <3>2, <3>4 DEF FindOvertime, RestOK, bounds
  <2> QED BY <2>3, <2>4
<1>28. ASSUME NEW c \in Everyone, LookAdvance(c)
      PROVE  TablesOK' /\ CallOK' /\ RestOK'
  <2>1. call[c] # Null
    BY <1>28 DEF LookAdvance, At
  <2>2. CallParts(c)
    BY <2>1, AtType
  <2>3. TablesOK'
    BY <1>28, <2>2 DEF LookAdvance, TablesOK, tables, CallParts
  <2>4. CallOK'
    BY <1>28, <2>1, GotoType DEF LookAdvance, Places, Domain
  <2>5. RestOK'
    BY <1>28 DEF LookAdvance, RestOK, bounds
  <2> QED BY <2>3, <2>4, <2>5
<1>29. ASSUME NEW c \in Everyone, Write(c)
      PROVE  TablesOK' /\ CallOK' /\ RestOK'
  <2>1. call[c] # Null
    BY <1>29 DEF Write, At
  <2>2. CallParts(c)
    BY <2>1, AtType
  <2>3. TablesOK'
    BY <1>29, <2>2 DEF Write, TablesOK, Entity, CallParts
  <2>4. CallOK'
    <3> DEFINE id == IF call[c].id # Null THEN call[c].id ELSE NewId
    <3> DEFINE at == IF inst[call[c].on].kind = "leave" THEN "consuming" ELSE "marking"
    <3>1. call' = [call EXCEPT ![c].id = id, ![c].at = at]
      BY <1>29 DEF Write
    <3>2. id \in Ids
      BY <1>29, <2>2, NewIdType DEF Write, CallParts
    <3>3. at \in Places
      BY DEF Places, Domain
    <3> HIDE DEF id, at
    <3>4. [call[c] EXCEPT !.id = id, !.at = at] \in Call
      BY <2>2, <3>2, <3>3 DEF Call, CallParts
    <3> QED BY <3>1, <3>4 DEF CallOK
  <2>5. RestOK'
    BY <1>29 DEF Write, RestOK, bounds
  <2> QED BY <2>3, <2>4, <2>5
<1>30. ASSUME NEW c \in Everyone, ReadBalance(c)
      PROVE  TablesOK' /\ CallOK' /\ RestOK'
  <2>1. call[c] # Null
    BY <1>30 DEF ReadBalance, At
  <2>2. CallParts(c)
    BY <2>1, AtType
  <2>3. TablesOK'
    BY <1>30, <2>2 DEF ReadBalance, TablesOK, tables, CallParts
  <2>4. CallOK'
    <3> DEFINE at == IF call[c].at = "consuming" THEN "charging" ELSE "releasing"
    <3>1. call' = [call EXCEPT ![c].read = balance, ![c].at = at]
      BY <1>30, <2>2 DEF ReadBalance, CallOK, Call, CallParts
    <3>3. at \in Places
      BY DEF Places, Domain
    <3> HIDE DEF at
    <3>4. [call[c] EXCEPT !.read = balance, !.at = at] \in Call
      BY <2>2, <3>3 DEF Call, TablesOK, CallParts
    <3> QED BY <3>1, <3>4 DEF CallOK
  <2>5. hits' \in [Requests -> SUBSET Irregular]
    BY <1>30, <2>2, HitType DEF ReadBalance, Irregular, CallParts
  <2>6. RestOK'
    BY <1>30, <2>5, RequestAssumption DEF ReadBalance, RestOK, bounds
  <2> QED BY <2>3, <2>4, <2>6
<1>31. ASSUME NEW c \in Everyone, Charge(c)
      PROVE  TablesOK' /\ CallOK' /\ RestOK'
  <2>1. call[c] # Null
    BY <1>31 DEF Charge, At
  <2>2. CallParts(c)
    BY <2>1, AtType
  <2>3. TablesOK'
    BY <1>31, <2>2 DEF Charge, TablesOK, tables, CallParts
  <2>4. CallOK'
    BY <1>31, <2>1, GotoType DEF Charge, Places, Domain
  <2>5. RestOK'
    BY <1>31 DEF Charge, RestOK, bounds
  <2> QED BY <2>3, <2>4, <2>5
<1>32. ASSUME NEW c \in Everyone, Mark(c)
      PROVE  TablesOK' /\ CallOK' /\ RestOK'
  <2>1. call[c] # Null
    BY <1>32 DEF Mark, At
  <2>2. CallParts(c)
    BY <2>1, AtType
  <2>3. TablesOK'
    <3>1. inst' \in [Requests -> Instance]
      BY <1>32, <2>2, InstType DEF Mark, Status, CallParts
    <3> QED BY <3>1, <1>32 DEF Mark, TablesOK
  <2>4. CallOK'
    BY <1>32, <2>1, FinishType DEF Mark
  <2>5. RestOK'
    BY <1>32 DEF Mark, RestOK, bounds
  <2> QED BY <2>3, <2>4, <2>5
<1>33. ASSUME NEW c \in Everyone, Fail(c)
      PROVE  TablesOK' /\ CallOK' /\ RestOK'
  <2>1. call[c] # Null
    BY <1>33 DEF Fail, At
  <2>2. CallParts(c)
    BY <2>1, AtType
  <2>3. TablesOK'
    <3>1. inst' \in [Requests -> Instance]
      BY <1>33, <2>2, InstType DEF Fail, Failed, Status, CallParts
    <3> QED BY <3>1, <1>33 DEF Fail, TablesOK
  <2>4. CallOK'
    BY <1>33, <2>1, FinishType DEF Fail
  <2>5. hits' \in [Requests -> SUBSET Irregular]
    BY <1>33, <2>2, HitType DEF Fail, Irregular, CallParts
  <2>6. RestOK'
    BY <1>33, <2>5, RequestAssumption DEF Fail, RestOK, Disrupt
  <2> QED BY <2>3, <2>4, <2>6
<1>39. ASSUME NEW c \in Everyone, Abort(c)
      PROVE  TablesOK' /\ CallOK' /\ RestOK'
  <2>1. call[c] # Null
    BY <1>39 DEF Abort
  <2>2. CallParts(c)
    BY <2>1, AtType
  <2>3. TablesOK'
    BY <1>39, <2>2 DEF Abort, TablesOK, tables, CallParts
  <2>4. CallOK'
    BY <1>39, <2>1, FinishType DEF Abort
  <2>5. hits' \in [Requests -> SUBSET Irregular]
    BY <1>39, <2>2, HitType DEF Abort, Irregular, CallParts
  <2>6. lost' \subseteq Requests
    BY <1>39, <2>2 DEF Abort, RestOK, CallParts
  <2>7. RestOK'
    BY <1>39, <2>5, <2>6, RequestAssumption DEF Abort, RestOK, Disrupt
  <2> QED BY <2>3, <2>4, <2>7
<1>34. ASSUME NEW c \in Everyone, Crash(c)
      PROVE  TablesOK' /\ CallOK' /\ RestOK'
  <2>1. call[c] # Null
    BY <1>34 DEF Crash, At
  <2>2. CallParts(c)
    BY <2>1, AtType
  <2>3. TablesOK'
    BY <1>34, <2>2 DEF Crash, TablesOK, tables, CallParts
  <2>4. CallOK'
    BY <1>34 DEF Crash, CallOK
  <2>5. hits' \in [Requests -> SUBSET Irregular]
    BY <1>34, <2>2, HitType DEF Crash, Irregular, CallParts
  <2>6. RestOK'
    BY <1>34, <2>5, RequestAssumption DEF Crash, RestOK, Disrupt
  <2> QED BY <2>3, <2>4, <2>6
<1>35. CASE Start
  <2>1. Boot \in Everyone
    BY Constants
  <2>2. CallOK'
    <3>1. CASE Incomplete = {}
      BY <1>35, <3>1 DEF Start, CallOK
    <3>2. CASE Incomplete # {}
      <4>1. PICK r \in Incomplete : call' = [call EXCEPT ![Boot] = Fresh(r, "checking", Incomplete \ {r})]
        BY <1>35, <3>2 DEF Start
      <4>2. Fresh(r, "checking", Incomplete \ {r}) \in Call
        BY FreshType DEF Incomplete, Places
      <4> QED BY <2>1, <4>1, <4>2 DEF CallOK
    <3> QED BY <3>1, <3>2
  <2> QED BY <1>35, <2>2 DEF Start, tables, bounds, TablesOK, RestOK
<1>36. CASE Deploy
  BY <1>36, RequestAssumption DEF Deploy, Disrupt, tables, TablesOK, CallOK, RestOK
<1>37. CASE UNCHANGED vars
  BY <1>37 DEF vars, tables, bounds, TablesOK, CallOK, RestOK
<1> QED
  BY <1>1, <1>2, <1>3, <1>4, <1>5, <1>6, <1>7, <1>8, <1>9, <1>10, <1>11, <1>12, <1>13, <1>14,
    <1>15, <1>16, <1>17, <1>18, <1>19, <1>20, <1>21, <1>22, <1>23, <1>24, <1>25, <1>26, <1>27,
    <1>28, <1>29, <1>30, <1>31, <1>32, <1>33, <1>34, <1>35, <1>36, <1>37, <1>38, <1>39
     DEF Next, Arrive, Progress

\* Every table and every call keeps its type, for any number of requests, handlers,
\* steps and submissions; in particular the days used are never negative.
THEOREM TypeCorrect == Spec => []TypeOK
<1> QED BY TypeInit, TypeStep, PTL DEF Spec
-----------------------------------------------------------------------------
(***************************************************************************)
(* No effect without approval.  A decision is written by a call that chose *)
(* its step earlier, so the invariant says what may be relied on as long as*)
(* nobody wrote over a status it had not seen: which submission is in      *)
(* review, that a call about to decide is at a step of it whose predecessors*)
(* are approved, and that a request somebody is integrating was approved at*)
(* every step.  Most steps decide nothing; the lemma Frame treats them alike.*)
(***************************************************************************)
Deciding == {"approving", "rejecting"}
Drafting == {"submitting", "discarding"}
Holding  == {"claiming", "looking", "finding", "writing"}
Watched  == Deciding \cup Drafting \cup Holding

\* What a call saw when it began.
Fits(c) ==
    /\ call[c].at \in Deciding =>
          /\ call[c].seen = "in_review"
          /\ call[c].step \in Steps
          /\ inst[call[c].on].status \notin {"none", "draft"}
    /\ call[c].at \in Drafting => call[c].seen = "draft"

WorkFits == \A c \in Everyone : call[c] # Null => Fits(c)

\* Every step was approved, in some submission.
Signed(r) == \A o \in Orders : \E n \in Submissions : step[r][<<n, o>>] = "approved"

\* The steps of submission n are being decided, in their order.
Round(r, n) ==
    /\ \A s \in Steps : step[r][s] \in IF s[1] = n THEN {"pending", "approved"} ELSE {"none"}
    /\ \A c \in Everyone :
          call[c] # Null /\ call[c].on = r /\ call[c].at \in Deciding =>
              /\ call[c].step[1] = n
              /\ \A o \in Orders : o < call[c].step[2] => step[r][<<n, o>>] = "approved"

\* The integration of the request is past its check.
Held(r) == \E c \in Everyone : call[c] # Null /\ call[c].on = r /\ call[c].at \in Holding

\* Steps are decided in their order, and an effect needs all of them.
Orderly(r) ==
    /\ inst[r].status \in {"none", "draft"} => \A s \in Steps : step[r][s] = "none"
    /\ inst[r].status = "in_review" => \E n \in Submissions : Round(r, n)
    /\ inst[r].status = "approved" => Signed(r)
    /\ Effects(r) # {} \/ Held(r) => Signed(r) /\ inst[r].status \in {"approved", "cancelled"}

\* The invariant, for requests no decision of which was written over another.
OrderlyUnlessStale(r) == "stale" \notin hits[r] => Orderly(r)

OrderInv == TypeOK /\ WorkFits /\ \A r \in Requests : OrderlyUnlessStale(r)

\* How a step of caller c leaves the calls.
Only(c)   == \A d \in Everyone \ {c} : call'[d] = call[d]
Leaves(c) == call'[c] = Null \/ call'[c].at \notin Watched
Stays(c)  == /\ call[c] # Null
             /\ call[c].at \in Holding
             /\ call'[c].at \in Holding
             /\ call'[c].on = call[c].on

\* Going on or ending moves only the own call.
LEMMA Moves ==
    ASSUME CallOK, NEW c \in Everyone, call[c] # Null
    PROVE  /\ Finish(c) => Only(c) /\ Leaves(c)
           /\ \A place \in Places : Goto(c, place) =>
                 /\ Only(c)
                 /\ call'[c].at = place
                 /\ call'[c].on = call[c].on
           /\ \A place \in Places : GotoFresh(c, place) => Only(c) /\ call'[c].at = place
<1>1. call[c] \in Call
  BY DEF CallOK
<1>2. Finish(c) => Only(c) /\ Leaves(c)
  BY DEF Finish, CallOK, Only, Leaves, Fresh, Watched, Deciding, Drafting, Holding
<1>3. \A place \in Places : Goto(c, place) =>
          Only(c) /\ call'[c].at = place /\ call'[c].on = call[c].on
  BY <1>1 DEF Goto, CallOK, Call, Only
<1>4. \A place \in Places : GotoFresh(c, place) => Only(c) /\ call'[c].at = place
  BY DEF GotoFresh, Fresh, CallOK, Only
<1> QED BY <1>2, <1>3, <1>4

\* So does beginning one.
LEMMA BeginMoves ==
    ASSUME CallOK, NEW c \in Everyone, NEW r \in Requests, NEW place \in Places,
           NEW s \in Steps \cup {Null}, Occupy(c, r, place, s)
    PROVE  /\ Only(c)
           /\ call'[c].at = place
           /\ call'[c].on = r
           /\ call'[c].seen = inst[r].status
           /\ call'[c].step = s
BY DEF Occupy, Fresh, CallOK, Only

\* A request has no new effect when nothing in the other modules is newly approved.
LEMMA NoNewEffect ==
    ASSUME \A id \in Ids : row'[id] = row[id] \/ row'[id].status # "approved"
    PROVE  \A r \in Requests : Effects(r)' # {} => Effects(r) # {}
BY DEF Effects

\* A step that neither decides nor gives a request an effect leaves it orderly.
LEMMA OrderlyFrame ==
    ASSUME NEW r \in Requests, NEW c \in Everyone, OrderlyUnlessStale(r),
           inst'[r].status = inst[r].status,
           step'[r] = step[r],
           hits[r] \subseteq hits'[r],
           Effects(r)' # {} => Effects(r) # {},
           Only(c),
           call'[c].on # r \/ Leaves(c) \/ Stays(c) \/ call'[c].at \in Drafting
    PROVE  OrderlyUnlessStale(r)'
<1> SUFFICES ASSUME "stale" \notin hits'[r] PROVE Orderly(r)'
  BY DEF OrderlyUnlessStale
<1>1. Orderly(r)
  BY DEF OrderlyUnlessStale
<1>2. Held(r)' => Held(r)
  BY DEF Held, Only, Leaves, Stays, Watched, Deciding, Drafting, Holding
<1>3. ASSUME NEW n \in Submissions, Round(r, n) PROVE Round(r, n)'
  <2>1. \A s \in Steps : step'[r][s] \in IF s[1] = n THEN {"pending", "approved"} ELSE {"none"}
    BY <1>3 DEF Round
  <2>2. ASSUME NEW d \in Everyone, call'[d] # Null, call'[d].on = r, call'[d].at \in Deciding
        PROVE  /\ call'[d].step[1] = n
               /\ \A o \in Orders : o < call'[d].step[2] => step'[r][<<n, o>>] = "approved"
    <3>1. d # c
      BY <2>2 DEF Leaves, Stays, Watched, Deciding, Drafting, Holding
    <3>2. call'[d] = call[d]
      BY <3>1 DEF Only
    <3> QED BY <1>3, <2>2, <3>2 DEF Round
  <2> QED BY <2>1, <2>2 DEF Round
<1>4. Signed(r) => Signed(r)'
  BY DEF Signed
<1> QED BY <1>1, <1>2, <1>3, <1>4 DEF Orderly

\* What calls saw stays true of calls the step does not move.
LEMMA WorkFrame ==
    ASSUME WorkFits, TypeOK, NEW c \in Everyone, Only(c),
           \A r \in Requests : inst[r].status \notin {"none", "draft"}
                                => inst'[r].status \notin {"none", "draft"},
           Leaves(c) \/ Stays(c) \/ Fits(c)'
    PROVE  WorkFits'
<1> SUFFICES ASSUME NEW d \in Everyone, call'[d] # Null PROVE Fits(d)'
  BY DEF WorkFits
<1>1. CASE d = c
  BY <1>1 DEF Leaves, Stays, Fits, Watched, Deciding, Drafting, Holding
<1>2. CASE d # c
  <2>1. call'[d] = call[d] /\ Fits(d)
    BY <1>2 DEF Only, WorkFits
  <2>2. call[d].on \in Requests
    BY <1>2, <2>1 DEF TypeOK, Call
  <2> QED BY <2>1, <2>2 DEF Fits
<1> QED BY <1>1, <1>2

\* Most steps decide nothing.
LEMMA Frame ==
    ASSUME OrderInv, TypeOK', NEW c \in Everyone, Only(c),
           Leaves(c) \/ Stays(c),
           \A r \in Requests : inst'[r].status = inst[r].status,
           step' = step,
           \A r \in Requests : hits[r] \subseteq hits'[r],
           \A id \in Ids : row'[id] = row[id] \/ row'[id].status # "approved"
    PROVE  OrderInv'
<1>1. WorkFits'
  BY WorkFrame DEF OrderInv
<1>2. ASSUME NEW r \in Requests PROVE OrderlyUnlessStale(r)'
  BY NoNewEffect, OrderlyFrame DEF OrderInv
<1> QED BY <1>1, <1>2 DEF OrderInv

\* A step that moves no call and decides nothing keeps the invariant.
LEMMA OrderUnchanged ==
    ASSUME OrderInv, TypeOK', UNCHANGED <<inst, step, row, call, hits>>
    PROVE  OrderInv'
<1>1. WorkFits'
  BY DEF OrderInv, WorkFits, Fits
<1>2. ASSUME NEW r \in Requests PROVE OrderlyUnlessStale(r)'
  <2>1. (Effects(r)' = Effects(r)) /\ (Held(r)' <=> Held(r)) /\ (Signed(r)' <=> Signed(r))
    BY DEF Effects, Held, Signed
  <2>2. \A n \in Submissions : Round(r, n)' <=> Round(r, n)
    BY DEF Round
  <2> QED BY <2>1, <2>2 DEF OrderInv, OrderlyUnlessStale, Orderly
<1> QED BY <1>1, <1>2 DEF OrderInv

\* Nothing is decided at first.
LEMMA OrderInit == Init => OrderInv
<1> SUFFICES ASSUME Init PROVE OrderInv
  OBVIOUS
<1>1. TypeOK
  BY TypeInit
<1>2. \A c \in Everyone : call[c] = Null
  BY DEF Init
<1>3. \A r \in Requests : Effects(r) = {}
  BY DEF Init, Effects
<1>4. ASSUME NEW r \in Requests PROVE Orderly(r)
  <2>1. inst[r].status = "none" /\ \A s \in Steps : step[r][s] = "none"
    BY DEF Init, Idle
  <2> QED BY <1>2, <1>3, <2>1 DEF Orderly, Held
<1> QED BY <1>1, <1>2, <1>4 DEF OrderInv, WorkFits, OrderlyUnlessStale

\* A new draft has no steps and no effect.
LEMMA OrderDraft ==
    ASSUME OrderInv, TypeOK', NEW q \in Requests, NEW kind \in Kinds, CreateDraft(q, kind)
    PROVE  OrderInv'
<1>1. /\ inst'[q].status = "draft" /\ inst[q].status = "none"
      /\ \A r \in Requests \ {q} : inst'[r].status = inst[r].status
      /\ UNCHANGED <<step, row, call, hits>>
  BY DEF CreateDraft, OrderInv, TypeOK, Instance
<1>2. WorkFits'
  BY <1>1 DEF OrderInv, TypeOK, Call, WorkFits, Fits
<1>3. ASSUME NEW r \in Requests PROVE OrderlyUnlessStale(r)'
  <2>1. OrderlyUnlessStale(r)
    BY DEF OrderInv
  <2>2. (Effects(r)' = Effects(r)) /\ (Held(r)' <=> Held(r)) /\ (Signed(r)' <=> Signed(r))
    BY <1>1 DEF Effects, Held, Signed
  <2>3. \A n \in Submissions : Round(r, n)' <=> Round(r, n)
    BY <1>1 DEF Round
  <2>4. CASE r = q
    BY <1>1, <2>1, <2>2, <2>4 DEF OrderlyUnlessStale, Orderly
  <2>5. CASE r # q
    BY <1>1, <2>1, <2>2, <2>3, <2>5 DEF OrderlyUnlessStale, Orderly
  <2> QED BY <2>4, <2>5
<1> QED BY <1>2, <1>3 DEF OrderInv

\* A submission assigns steps where there were none, and nobody decides yet.
LEMMA OrderAssigned ==
    ASSUME OrderInv, TypeOK', NEW r \in Requests, NEW n \in Submissions, NEW c \in Everyone,
           "stale" \notin hits[r],
           inst[r].status \in {"none", "draft"},
           inst'[r].status = "in_review",
           step'[r] = Assigned(r, n),
           row' = row,
           Only(c),
           Leaves(c) \/ UNCHANGED call
    PROVE  Orderly(r)'
<1>1. Orderly(r)
  BY DEF OrderInv, OrderlyUnlessStale
<1>2. \A s \in Steps : step'[r][s] = IF s[1] = n THEN "pending" ELSE "none"
  BY <1>1 DEF Assigned, Orderly
<1>3. ASSUME NEW d \in Everyone, call'[d] # Null, call'[d].on = r PROVE call'[d].at \notin Deciding
  BY <1>3 DEF OrderInv, WorkFits, Fits, Only, Leaves, Watched
<1>4. Round(r, n)'
  BY <1>2, <1>3 DEF Round
<1>5. Effects(r) = {} /\ ~Held(r)
  BY <1>1 DEF Orderly
<1>6. Effects(r)' = {} /\ ~Held(r)'
  BY <1>5 DEF Effects, Held, Only, Leaves, Watched
<1> QED BY <1>4, <1>6 DEF Orderly

\* A request created and submitted at once has a first submission.
LEMMA OrderCreateAndSubmit ==
    ASSUME OrderInv, TypeOK', NEW c \in Callers, NEW q \in Requests, NEW kind \in Kinds,
           NEW n \in Submissions, CreateAndSubmit(c, q, kind, n)
    PROVE  OrderInv'
<1> c \in Everyone
  BY Constants
<1>1. /\ inst'[q].status = "in_review" /\ inst[q].status = "none"
      /\ \A r \in Requests \ {q} : inst'[r].status = inst[r].status /\ step'[r] = step[r]
      /\ step'[q] = Assigned(q, n)
      /\ UNCHANGED <<row, hits>>
  BY DEF CreateAndSubmit, OrderInv, TypeOK, Instance
<1>2. Only(c) /\ (Leaves(c) \/ UNCHANGED call)
  <2>1. CASE kind = "leave"
    <3>1. Occupy(c, q, "staging", Null)
      BY <2>1 DEF CreateAndSubmit
    <3>2. "staging" \in Places /\ "staging" \notin Watched
      BY DEF Places, Domain, Watched, Deciding, Drafting, Holding
    <3> QED BY <3>1, <3>2, BeginMoves DEF OrderInv, TypeOK, CallOK, Leaves
  <2>2. CASE kind # "leave"
    BY <2>2 DEF CreateAndSubmit, Only
  <2> QED BY <2>1, <2>2
<1>3. WorkFits'
  <2>1. \A r \in Requests : inst[r].status \notin {"none", "draft"}
                             => inst'[r].status \notin {"none", "draft"}
    BY <1>1
  <2>2. CASE Leaves(c)
    BY <1>2, <2>1, <2>2, WorkFrame DEF OrderInv
  <2>3. CASE UNCHANGED call
    BY <2>1, <2>3 DEF OrderInv, TypeOK, Call, WorkFits, Fits
  <2> QED BY <1>2, <2>2, <2>3
<1>4. ASSUME NEW r \in Requests PROVE OrderlyUnlessStale(r)'
  <2>1. CASE r = q
    BY <1>1, <1>2, <2>1, OrderAssigned DEF OrderlyUnlessStale
  <2>2. CASE r # q
    <3>1. Effects(r)' # {} => Effects(r) # {}
      BY <1>1 DEF Effects
    <3>2. CASE Leaves(c)
      BY <1>1, <1>2, <2>2, <3>1, <3>2, OrderlyFrame DEF OrderInv
    <3>3. CASE UNCHANGED call
      <4>1. (Held(r)' <=> Held(r)) /\ (Signed(r)' <=> Signed(r))
        BY <1>1, <2>2, <3>3 DEF Held, Signed
      <4>2. \A m \in Submissions : Round(r, m)' <=> Round(r, m)
        BY <1>1, <2>2, <3>3 DEF Round
      <4> QED BY <1>1, <2>2, <3>1, <4>1, <4>2 DEF OrderInv, OrderlyUnlessStale, Orderly
    <3> QED BY <1>2, <3>2, <3>3
  <2> QED BY <2>1, <2>2
<1> QED BY <1>3, <1>4 DEF OrderInv

\* A draft, or a request sent back, is submitted anew.
LEMMA OrderSubmit ==
    ASSUME OrderInv, TypeOK', NEW c \in Everyone, NEW n \in Submissions, Submit(c, n)
    PROVE  OrderInv'
<1>a. call[c] # Null /\ CallOK
  BY DEF Submit, At, OrderInv, TypeOK, CallOK
<1>b. PICK q \in Requests : q = call[c].on
  BY <1>a, AtType DEF CallParts
<1>0. call[c] # Null /\ q \in Requests /\ q = call[c].on /\ call[c].at = "submitting" /\ CallOK
  BY <1>a, <1>b DEF Submit, At, OrderInv, TypeOK, Call, CallOK
<1>1. /\ inst'[q].status = "in_review"
      /\ \A r \in Requests \ {q} : inst'[r].status = inst[r].status /\ step'[r] = step[r]
                                    /\ hits'[r] = hits[r]
      /\ step'[q] = Assigned(q, n)
      /\ hits[q] \subseteq hits'[q]
      /\ inst[q].status # call[c].seen => "stale" \in hits'[q]
      /\ row' = row
  BY <1>0 DEF Submit, OrderInv, TypeOK, Instance, Hit, Stale
<1>2. Only(c) /\ Leaves(c)
  <2>1. "staging" \in Places /\ "staging" \notin Watched
    BY DEF Places, Domain, Watched, Deciding, Drafting, Holding
  <2> QED BY <1>0, <2>1, Moves DEF Submit, Leaves
<1>3. WorkFits'
  BY <1>1, <1>2, WorkFrame DEF OrderInv
<1>4. ASSUME NEW r \in Requests PROVE OrderlyUnlessStale(r)'
  <2>1. CASE r = q
    <3> SUFFICES ASSUME "stale" \notin hits'[q] PROVE Orderly(q)'
      BY <2>1 DEF OrderlyUnlessStale
    <3>1. inst[q].status = "draft" /\ "stale" \notin hits[q]
      BY <1>0, <1>1 DEF OrderInv, WorkFits, Fits, Drafting
    <3> QED BY <1>0, <1>1, <1>2, <3>1, OrderAssigned
  <2>2. CASE r # q
    <3>1. Effects(r)' # {} => Effects(r) # {}
      BY <1>1 DEF Effects
    <3> QED BY <1>1, <1>2, <2>2, <3>1, OrderlyFrame DEF OrderInv
  <2> QED BY <2>1, <2>2
<1> QED BY <1>3, <1>4 DEF OrderInv

\* A call that begins saw the status the request has.
LEMMA OrderBegin ==
    ASSUME OrderInv, TypeOK', NEW c \in Callers, NEW q \in Requests, NEW place \in Drafting,
           inst[q].status = "draft", Begin(c, q, place, Null), UNCHANGED tables, UNCHANGED hits
    PROVE  OrderInv'
<1> c \in Everyone
  BY Constants
<1>1. Only(c) /\ call'[c].at = place /\ call'[c].on = q /\ call'[c].seen = "draft"
  <2>1. place \in Places
    BY DEF Drafting, Places
  <2>2. CallOK /\ Null \in Steps \cup {Null} /\ Occupy(c, q, place, Null)
    BY DEF Begin, OrderInv, TypeOK, CallOK
  <2> QED BY <2>1, <2>2, BeginMoves
<1>2. WorkFits'
  <2>1. Fits(c)'
    BY <1>1 DEF Fits, Drafting, Deciding
  <2> QED BY <1>1, <2>1, WorkFrame DEF OrderInv, tables
<1>3. ASSUME NEW r \in Requests PROVE OrderlyUnlessStale(r)'
  <2>1. Effects(r)' # {} => Effects(r) # {}
    BY DEF Effects, tables
  <2> QED BY <1>1, <2>1, OrderlyFrame DEF OrderInv, tables
<1> QED BY <1>2, <1>3 DEF OrderInv

\* A decision begins at the lowest pending step of the submission in review.
LEMMA OrderBeginDecide ==
    ASSUME OrderInv, TypeOK', NEW c \in Callers, NEW q \in Requests, NEW place \in Deciding,
           BeginDecide(c, q, place)
    PROVE  OrderInv'
<1> c \in Everyone
  BY Constants
<1>1. PICK s \in Lowest(q) : Begin(c, q, place, s)
  BY DEF BeginDecide
<1>2. s \in Steps /\ step[q][s] = "pending" /\ \A t \in Pending(q) : s[2] <= t[2]
  BY DEF Lowest, Pending
<1>3. Only(c) /\ call'[c].at = place /\ call'[c].on = q /\ call'[c].seen = "in_review"
      /\ call'[c].step = s
  <2>1. place \in Places
    BY DEF Deciding, Places
  <2>2. CallOK /\ s \in Steps \cup {Null} /\ Occupy(c, q, place, s) /\ inst[q].status = "in_review"
    BY <1>1, <1>2 DEF BeginDecide, Begin, OrderInv, TypeOK, CallOK
  <2> QED BY <2>1, <2>2, BeginMoves
<1>4. inst[q].status = "in_review" /\ UNCHANGED <<inst, step, row, hits>>
  BY DEF BeginDecide, tables
<1>5. WorkFits'
  <2>1. Fits(c)'
    BY <1>2, <1>3, <1>4 DEF Fits, Drafting, Deciding
  <2> QED BY <1>3, <1>4, <2>1, WorkFrame DEF OrderInv
<1>6. ASSUME NEW r \in Requests PROVE OrderlyUnlessStale(r)'
  <2>1. Effects(r)' # {} => Effects(r) # {}
    BY <1>4 DEF Effects
  <2>2. CASE r # q
    BY <1>3, <1>4, <2>1, <2>2, OrderlyFrame DEF OrderInv
  <2>3. CASE r = q
    <3> SUFFICES ASSUME "stale" \notin hits[q] PROVE Orderly(q)'
      BY <1>4, <2>3 DEF OrderlyUnlessStale
    <3>1. Orderly(q)
      BY DEF OrderInv, OrderlyUnlessStale
    <3>2. PICK n \in Submissions : Round(q, n)
      BY <1>4, <3>1 DEF Orderly
    <3>3. s[1] = n
      BY <1>2, <3>2 DEF Round
    <3>4. ASSUME NEW o \in Orders, o < s[2] PROVE step[q][<<n, o>>] = "approved"
      <4>1. <<n, o>> \in Steps /\ <<n, o>>[1] = n /\ <<n, o>>[2] = o
        BY DEF Steps
      <4>2. <<n, o>> \notin Pending(q)
        <5>1. s[2] \in Nat /\ o \in Nat
          BY <1>2, RequestAssumption DEF Steps
        <5> QED BY <1>2, <3>4, <4>1, <5>1
      <4> QED BY <3>2, <4>1, <4>2 DEF Round, Pending
    <3>5. Round(q, n)'
      <4>1. ASSUME NEW d \in Everyone, call'[d] # Null, call'[d].on = q, call'[d].at \in Deciding
            PROVE  /\ call'[d].step[1] = n
                   /\ \A o \in Orders : o < call'[d].step[2] => step'[q][<<n, o>>] = "approved"
        <5>1. CASE d = c
          BY <1>3, <1>4, <3>3, <3>4, <5>1
        <5>2. CASE d # c
          BY <1>3, <1>4, <3>2, <4>1, <5>2 DEF Only, Round
        <5> QED BY <5>1, <5>2
      <4> QED BY <1>4, <3>2, <4>1 DEF Round
    <3>6. ~Held(q)' /\ Effects(q)' = {}
      <4>1. ~Held(q) /\ Effects(q) = {}
        BY <1>4, <3>1 DEF Orderly
      <4> QED BY <1>3, <2>1, <2>3, <4>1 DEF Held, Only, Deciding, Holding
    <3> QED BY <1>4, <3>5, <3>6 DEF Orderly
  <2> QED BY <2>2, <2>3
<1> QED BY <1>5, <1>6 DEF OrderInv

\* A draft is discarded before it had steps.
LEMMA OrderDiscard ==
    ASSUME OrderInv, TypeOK', NEW c \in Everyone, Discard(c)
    PROVE  OrderInv'
<1>a. call[c] # Null /\ CallOK
  BY DEF Discard, At, OrderInv, TypeOK, CallOK
<1>b. PICK q \in Requests : q = call[c].on
  BY <1>a, AtType DEF CallParts
<1>0. call[c] # Null /\ q \in Requests /\ q = call[c].on /\ call[c].at = "discarding" /\ CallOK
  BY <1>a, <1>b DEF Discard, At, OrderInv, TypeOK, Call, CallOK
<1>1. /\ inst'[q].status = "cancelled"
      /\ \A r \in Requests \ {q} : inst'[r].status = inst[r].status /\ hits'[r] = hits[r]
      /\ hits[q] \subseteq hits'[q]
      /\ inst[q].status # call[c].seen => "stale" \in hits'[q]
      /\ row' = row /\ step' = step
  BY <1>0 DEF Discard, OrderInv, TypeOK, Instance, Hit, Stale
<1>2. Only(c) /\ Leaves(c)
  BY <1>0, Moves DEF Discard
<1>3. WorkFits'
  BY <1>1, <1>2, WorkFrame DEF OrderInv
<1>4. ASSUME NEW r \in Requests PROVE OrderlyUnlessStale(r)'
  <2>0. Effects(r)' # {} => Effects(r) # {}
    BY <1>1 DEF Effects
  <2>1. CASE r = q
    <3> SUFFICES ASSUME "stale" \notin hits'[q] PROVE Orderly(q)'
      BY <2>1 DEF OrderlyUnlessStale
    <3>1. inst[q].status = "draft" /\ "stale" \notin hits[q]
      BY <1>0, <1>1 DEF OrderInv, WorkFits, Fits, Drafting
    <3>2. Orderly(q)
      BY <1>0, <3>1 DEF OrderInv, OrderlyUnlessStale
    <3>3. ~Held(q) /\ Effects(q) = {}
      BY <3>1, <3>2 DEF Orderly
    <3>4. ~Held(q)'
      BY <1>2, <3>3 DEF Held, Only, Leaves, Watched
    <3> QED BY <1>1, <2>0, <2>1, <3>3, <3>4 DEF Orderly
  <2>2. CASE r # q
    BY <1>1, <1>2, <2>0, <2>2, OrderlyFrame DEF OrderInv
  <2> QED BY <2>1, <2>2
<1> QED BY <1>3, <1>4 DEF OrderInv

\* A cancellation leaves the approved steps as they are.
LEMMA OrderCancel ==
    ASSUME OrderInv, TypeOK', NEW c \in Everyone, Cancel(c)
    PROVE  OrderInv'
<1>a. call[c] # Null /\ CallOK
  BY DEF Cancel, At, OrderInv, TypeOK, CallOK
<1>b. PICK q \in Requests : q = call[c].on
  BY <1>a, AtType DEF CallParts
<1>0. call[c] # Null /\ q \in Requests /\ q = call[c].on /\ CallOK
  BY <1>a, <1>b DEF Cancel, At, OrderInv, TypeOK, Call, CallOK
<1>1. /\ inst'[q].status = "cancelled"
      /\ \A r \in Requests \ {q} : inst'[r].status = inst[r].status /\ hits'[r] = hits[r]
                                    /\ step'[r] = step[r]
      /\ \A s \in Steps : step[q][s] = "approved" => step'[q][s] = "approved"
      /\ hits[q] \subseteq hits'[q]
      /\ row' = row
  BY <1>0 DEF Cancel, OrderInv, TypeOK, Instance, Hit
<1>2. Only(c) /\ Leaves(c)
  BY <1>0, Moves DEF Cancel
<1>3. WorkFits'
  BY <1>1, <1>2, WorkFrame DEF OrderInv
<1>4. ASSUME NEW r \in Requests PROVE OrderlyUnlessStale(r)'
  <2>0. Effects(r)' # {} => Effects(r) # {}
    BY <1>1 DEF Effects
  <2>1. CASE r = q
    <3> SUFFICES ASSUME "stale" \notin hits'[q] PROVE Orderly(q)'
      BY <2>1 DEF OrderlyUnlessStale
    <3>1. Orderly(q)
      BY <1>0, <1>1 DEF OrderInv, OrderlyUnlessStale
    <3>2. Signed(q) => Signed(q)'
      BY <1>1 DEF Signed, Steps
    <3>3. Held(q)' => Held(q)
      BY <1>2 DEF Held, Only, Leaves, Watched
    <3> QED BY <1>1, <2>0, <2>1, <3>1, <3>2, <3>3 DEF Orderly
  <2>2. CASE r # q
    BY <1>1, <1>2, <2>0, <2>2, OrderlyFrame DEF OrderInv
  <2> QED BY <2>1, <2>2
<1> QED BY <1>3, <1>4 DEF OrderInv

\* The last approval finds every other step of the submission approved.
LEMMA OrderApprove ==
    ASSUME OrderInv, TypeOK', NEW c \in Everyone, Approve(c)
    PROVE  OrderInv'
<1>a. call[c] # Null /\ CallOK
  BY DEF Approve, At, OrderInv, TypeOK, CallOK
<1>b. PICK q \in Requests : q = call[c].on
  BY <1>a, AtType DEF CallParts
<1> DEFINE s == call[c].step
<1> DEFINE next == {t \in Pending(q) \ {s} : t[2] > s[2]}
<1>0. call[c] # Null /\ q \in Requests /\ q = call[c].on /\ call[c].at = "approving" /\ CallOK
      /\ s \in Steps /\ call[c].seen = "in_review"
      /\ inst[q].status \notin {"none", "draft"}
  BY <1>a, <1>b DEF Approve, At, OrderInv, TypeOK, Call, CallOK, WorkFits, Fits, Deciding
<1>1. /\ inst'[q].status = IF next = {} THEN "approved" ELSE inst[q].status
      /\ \A r \in Requests \ {q} : inst'[r].status = inst[r].status /\ hits'[r] = hits[r]
                                    /\ step'[r] = step[r]
      /\ step'[q] = [step[q] EXCEPT ![s] = "approved"]
      /\ hits[q] \subseteq hits'[q]
      /\ inst[q].status # "in_review" => "stale" \in hits'[q]
      /\ row' = row
  BY <1>0 DEF Approve, OrderInv, TypeOK, Instance, Hit, Stale
<1>2. Only(c) /\ Leaves(c)
  BY <1>0, Moves DEF Approve, Places, Leaves, Watched, Deciding, Drafting, Holding
<1>3. WorkFits'
  BY <1>0, <1>1, <1>2, WorkFrame DEF OrderInv
<1>4. ASSUME NEW r \in Requests PROVE OrderlyUnlessStale(r)'
  <2>0. Effects(r)' # {} => Effects(r) # {}
    BY <1>1 DEF Effects
  <2>1. CASE r = q
    <3> SUFFICES ASSUME "stale" \notin hits'[q] PROVE Orderly(q)'
      BY <2>1 DEF OrderlyUnlessStale
    <3>1. inst[q].status = "in_review" /\ Orderly(q)
      BY <1>0, <1>1 DEF OrderInv, OrderlyUnlessStale
    <3>2. PICK n \in Submissions : Round(q, n)
      BY <3>1 DEF Orderly
    <3>3. s[1] = n /\ \A o \in Orders : o < s[2] => step[q][<<n, o>>] = "approved"
      BY <1>0, <3>2 DEF Round, Deciding
    <3>4. \A t \in Steps : step'[q][t] = IF t = s THEN "approved" ELSE step[q][t]
      BY <1>0, <1>1 DEF OrderInv, TypeOK
    <3>5. Round(q, n)'
      <4>1. \A t \in Steps : step'[q][t] \in IF t[1] = n THEN {"pending", "approved"} ELSE {"none"}
        BY <3>2, <3>3, <3>4 DEF Round
      <4>2. ASSUME NEW d \in Everyone, call'[d] # Null, call'[d].on = q, call'[d].at \in Deciding
            PROVE  /\ call'[d].step[1] = n
                   /\ \A o \in Orders : o < call'[d].step[2] => step'[q][<<n, o>>] = "approved"
        <5>1. d # c /\ call'[d] = call[d]
          BY <1>2, <4>2 DEF Only, Leaves, Watched
        <5>2. call[d].step[1] = n
              /\ \A o \in Orders : o < call[d].step[2] => step[q][<<n, o>>] = "approved"
          BY <3>2, <4>2, <5>1 DEF Round
        <5>3. \A o \in Orders : <<n, o>> \in Steps
          BY DEF Steps
        <5> QED BY <3>4, <5>1, <5>2, <5>3
      <4> QED BY <4>1, <4>2 DEF Round
    <3>6. ~Held(q)' /\ Effects(q)' = {}
      <4>1. ~Held(q) /\ Effects(q) = {}
        BY <3>1 DEF Orderly
      <4> QED BY <1>2, <2>0, <2>1, <4>1 DEF Held, Only, Leaves, Watched
    <3>7. ASSUME next = {} PROVE Signed(q)'
      <4> SUFFICES ASSUME NEW o \in Orders PROVE step'[q][<<n, o>>] = "approved"
        BY DEF Signed
      <4>1. <<n, o>> \in Steps /\ <<n, o>>[1] = n /\ <<n, o>>[2] = o
        BY DEF Steps
      <4>2. s = <<n, s[2]>> /\ s[2] \in Nat /\ o \in Nat
        <5>1. PICK m \in Submissions, p \in Orders : s = <<m, p>>
          BY <1>0 DEF Steps
        <5>2. m = n /\ s[2] = p
          BY <3>3, <5>1
        <5> QED BY <5>1, <5>2, RequestAssumption
      <4>3. CASE o = s[2]
        BY <3>4, <4>1, <4>2, <4>3
      <4>4. CASE o < s[2]
        BY <3>3, <3>4, <4>1, <4>4
      <4>5. CASE o > s[2]
        <5>1. <<n, o>> # s /\ <<n, o>> \notin Pending(q)
          BY <3>7, <4>1, <4>2, <4>5
        <5> QED BY <3>2, <3>4, <4>1, <5>1 DEF Round, Pending
      <4> QED BY <4>2, <4>3, <4>4, <4>5
    <3> QED BY <1>1, <3>1, <3>5, <3>6, <3>7 DEF Orderly
  <2>2. CASE r # q
    BY <1>1, <1>2, <2>0, <2>2, OrderlyFrame DEF OrderInv
  <2> QED BY <2>1, <2>2
<1> QED BY <1>3, <1>4 DEF OrderInv

\* Nothing that is in review has an effect, so a rejection refuses it in time.
LEMMA OrderReject ==
    ASSUME OrderInv, TypeOK', NEW c \in Everyone, Reject(c)
    PROVE  OrderInv'
<1>a. call[c] # Null /\ CallOK
  BY DEF Reject, At, OrderInv, TypeOK, CallOK
<1>b. PICK q \in Requests : q = call[c].on
  BY <1>a, AtType DEF CallParts
<1>0. call[c] # Null /\ q \in Requests /\ q = call[c].on /\ CallOK /\ call[c].seen = "in_review"
  BY <1>a, <1>b DEF Reject, At, OrderInv, TypeOK, Call, CallOK, WorkFits, Fits, Deciding
<1>1. /\ inst'[q].status = "rejected"
      /\ \A r \in Requests \ {q} : inst'[r].status = inst[r].status /\ hits'[r] = hits[r]
                                    /\ step'[r] = step[r]
      /\ hits[q] \subseteq hits'[q]
      /\ inst[q].status # "in_review" => "stale" \in hits'[q]
      /\ row' = row
  BY <1>0 DEF Reject, OrderInv, TypeOK, Instance, Hit, Stale
<1>2. Only(c) /\ Leaves(c)
  BY <1>0, Moves DEF Reject, Places, Leaves, Watched, Deciding, Drafting, Holding
<1>3. WorkFits'
  BY <1>1, <1>2, WorkFrame DEF OrderInv
<1>4. ASSUME NEW r \in Requests PROVE OrderlyUnlessStale(r)'
  <2>0. Effects(r)' # {} => Effects(r) # {}
    BY <1>1 DEF Effects
  <2>1. CASE r = q
    <3> SUFFICES ASSUME "stale" \notin hits'[q] PROVE Orderly(q)'
      BY <2>1 DEF OrderlyUnlessStale
    <3>1. inst[q].status = "in_review" /\ Orderly(q)
      BY <1>0, <1>1 DEF OrderInv, OrderlyUnlessStale
    <3>2. ~Held(q) /\ Effects(q) = {}
      BY <3>1 DEF Orderly
    <3>3. ~Held(q)'
      BY <1>2, <3>2 DEF Held, Only, Leaves, Watched
    <3> QED BY <1>1, <2>0, <2>1, <3>2, <3>3 DEF Orderly
  <2>2. CASE r # q
    BY <1>1, <1>2, <2>0, <2>2, OrderlyFrame DEF OrderInv
  <2> QED BY <2>1, <2>2
<1> QED BY <1>3, <1>4 DEF OrderInv

\* The integration goes on only with a request that is approved.
LEMMA OrderCheck ==
    ASSUME OrderInv, TypeOK', NEW c \in Everyone, Check(c)
    PROVE  OrderInv'
<1>a. call[c] # Null /\ CallOK
  BY DEF Check, At, OrderInv, TypeOK, CallOK
<1>b. PICK q \in Requests : q = call[c].on
  BY <1>a, AtType DEF CallParts
<1>0. call[c] # Null /\ q \in Requests /\ q = call[c].on /\ CallOK
  BY <1>a, <1>b DEF Check, At, OrderInv, TypeOK, Call, CallOK
<1>1. UNCHANGED <<inst, step, row>> /\ \A r \in Requests : hits[r] \subseteq hits'[r]
  BY <1>0 DEF Check, tables, Hit, OrderInv, TypeOK
<1>2. CASE Finish(c)
  BY <1>0, <1>1, <1>2, Moves, Frame DEF OrderInv
<1>3. CASE ~Finish(c)
  <2>1. inst[q].status = "approved" /\ Only(c) /\ call'[c].at = "claiming" /\ call'[c].on = q
    BY <1>0, <1>3, Moves DEF Check, Places, Domain
  <2>2. WorkFits'
    <3>1. Fits(c)'
      BY <2>1 DEF Fits, Deciding, Drafting
    <3> QED BY <1>1, <2>1, <3>1, WorkFrame DEF OrderInv
  <2>3. ASSUME NEW r \in Requests PROVE OrderlyUnlessStale(r)'
    <3>1. (Effects(r)' = Effects(r)) /\ (Signed(r)' <=> Signed(r))
      BY <1>1 DEF Effects, Signed
    <3>2. CASE r # q
      BY <1>1, <2>1, <3>1, <3>2, OrderlyFrame DEF OrderInv
    <3>3. CASE r = q
      BY <1>1, <2>1, <3>1, <3>3 DEF OrderInv, OrderlyUnlessStale, Orderly
    <3> QED BY <3>2, <3>3
  <2> QED BY <2>2, <2>3 DEF OrderInv
<1> QED BY <1>2, <1>3

\* The effect is that of a request whose integration is under way.
LEMMA OrderWrite ==
    ASSUME OrderInv, TypeOK', NEW c \in Everyone, Write(c)
    PROVE  OrderInv'
<1>a. call[c] # Null /\ CallOK
  BY DEF Write, At, OrderInv, TypeOK, CallOK
<1>b. PICK q \in Requests : q = call[c].on
  BY <1>a, AtType DEF CallParts
<1> DEFINE id == IF call[c].id # Null THEN call[c].id ELSE NewId
<1> DEFINE at == IF inst[q].kind = "leave" THEN "consuming" ELSE "marking"
<1>0. call[c] # Null /\ q \in Requests /\ q = call[c].on /\ call[c].at = "writing" /\ call[c] \in Call
  BY <1>a, <1>b DEF Write, At, OrderInv, TypeOK, Call
<1>1. UNCHANGED <<inst, step, hits>> /\ row' = [row EXCEPT ![id] = [of |-> q, status |-> "approved"]]
  BY <1>0 DEF Write
<1>2. Only(c) /\ Leaves(c)
  <2>1. call' = [call EXCEPT ![c].id = id, ![c].at = at]
    BY <1>0 DEF Write
  <2>2. at \notin Watched
    BY DEF Watched, Deciding, Drafting, Holding
  <2> HIDE DEF id, at
  <2> QED BY <1>0, <2>1, <2>2 DEF OrderInv, TypeOK, Call, Only, Leaves
<1> HIDE DEF id, at
<1>3. WorkFits'
  BY <1>1, <1>2, WorkFrame DEF OrderInv
<1>4. ASSUME NEW r \in Requests PROVE OrderlyUnlessStale(r)'
  <2>1. CASE r = q
    <3> SUFFICES ASSUME "stale" \notin hits[q] PROVE Orderly(q)'
      BY <1>1, <2>1 DEF OrderlyUnlessStale
    <3>1. Orderly(q)
      BY <1>0 DEF OrderInv, OrderlyUnlessStale
    <3>2. Signed(q) /\ inst[q].status \in {"approved", "cancelled"}
      BY <1>0, <3>1 DEF Orderly, Held, Holding
    <3>3. Signed(q)' /\ inst'[q].status \in {"approved", "cancelled"}
      BY <1>1, <3>2 DEF Signed
    <3> QED BY <3>3 DEF Orderly
  <2>2. CASE r # q
    <3>1. Effects(r)' # {} => Effects(r) # {}
      BY <1>1, <2>2 DEF Effects, OrderInv, TypeOK
    <3> QED BY <1>1, <1>2, <2>2, <3>1, OrderlyFrame DEF OrderInv
  <2> QED BY <2>1, <2>2
<1> QED BY <1>3, <1>4 DEF OrderInv

\* So is an overtime record that is found and approved instead.
LEMMA OrderFind ==
    ASSUME OrderInv, TypeOK', NEW c \in Everyone, FindOvertime(c)
    PROVE  OrderInv'
<1>a. call[c] # Null /\ CallOK
  BY DEF FindOvertime, At, OrderInv, TypeOK, CallOK
<1>b. PICK q \in Requests : q = call[c].on
  BY <1>a, AtType DEF CallParts
<1>0. /\ call[c] # Null /\ q \in Requests /\ q = call[c].on
      /\ call[c].at = "finding" /\ call[c] \in Call
  BY <1>a, <1>b DEF FindOvertime, At, OrderInv, TypeOK, Call
<1>1. UNCHANGED <<inst, step, hits>>
  BY DEF FindOvertime
<1>2. CASE Live(q) = {}
  <2>1. "finding" \in Holding /\ "writing" \in Holding /\ "writing" \in Places
    BY DEF Holding, Places, Domain
  <2>2. Only(c) /\ Stays(c) /\ row' = row
    BY <1>0, <1>a, <1>2, <2>1, Moves DEF FindOvertime, Stays
  <2> QED BY <1>1, <2>2, Frame
<1>3. CASE Live(q) # {}
  <2>1. PICK id \in Live(q) :
           /\ row' = [row EXCEPT ![id].status = "approved"]
           /\ call' = [call EXCEPT ![c].id = id, ![c].at = "marking"]
    BY <1>0, <1>3 DEF FindOvertime
  <2>2. Only(c) /\ Leaves(c)
    BY <1>0, <2>1 DEF OrderInv, TypeOK, Call, Only, Leaves, Watched, Deciding, Drafting, Holding
  <2>3. WorkFits'
    BY <1>1, <2>2, WorkFrame DEF OrderInv
  <2>4. ASSUME NEW r \in Requests PROVE OrderlyUnlessStale(r)'
    <3>1. CASE r = q
      <4> SUFFICES ASSUME "stale" \notin hits[q] PROVE Orderly(q)'
        BY <1>1, <3>1 DEF OrderlyUnlessStale
      <4>1. Orderly(q)
        BY <1>0 DEF OrderInv, OrderlyUnlessStale
      <4>2. Signed(q) /\ inst[q].status \in {"approved", "cancelled"}
        BY <1>0, <4>1 DEF Orderly, Held, Holding
      <4>3. Signed(q)' /\ inst'[q].status \in {"approved", "cancelled"}
        BY <1>1, <4>2 DEF Signed
      <4> QED BY <4>3 DEF Orderly
    <3>2. CASE r # q
      <4>1. Effects(r)' # {} => Effects(r) # {}
        BY <2>1, <3>2 DEF Effects, Live, OrderInv, TypeOK, Entity
      <4> QED BY <1>1, <2>2, <3>2, <4>1, OrderlyFrame DEF OrderInv
    <3> QED BY <3>1, <3>2
  <2> QED BY <2>3, <2>4 DEF OrderInv
<1> QED BY <1>2, <1>3

\* Every step keeps the invariant, one action at a time.
LEMMA OrderStep == OrderInv /\ [Next]_vars => OrderInv'
<1> SUFFICES ASSUME OrderInv, [Next]_vars
             PROVE  OrderInv'
  OBVIOUS
<1> TypeOK /\ TypeOK' /\ CallOK
  BY TypeStep DEF OrderInv, TypeOK, CallOK
<1>1. ASSUME NEW r \in Requests, NEW kind \in Kinds, CreateDraft(r, kind)
      PROVE  OrderInv'
  BY <1>1, OrderDraft
<1>2. ASSUME NEW c \in Callers, NEW r \in Requests, NEW kind \in Kinds, NEW n \in Submissions,
             CreateAndSubmit(c, r, kind, n)
      PROVE  OrderInv'
  BY <1>2, OrderCreateAndSubmit
<1>3. ASSUME NEW c \in Callers, NEW r \in Requests, BeginSubmit(c, r)
      PROVE  OrderInv'
  BY <1>3, OrderBegin DEF BeginSubmit, Drafting
<1>4. ASSUME NEW c \in Callers, NEW r \in Requests, BeginDiscard(c, r)
      PROVE  OrderInv'
  BY <1>4, OrderBegin DEF BeginDiscard, Drafting
<1>5. ASSUME NEW c \in Callers, NEW r \in Requests, NEW place \in Deciding,
             BeginDecide(c, r, place)
      PROVE  OrderInv'
  BY <1>5, OrderBeginDecide
<1>6. ASSUME NEW c \in Callers, NEW r \in Requests, BeginCancel(c, r)
      PROVE  OrderInv'
  <2>1. c \in Everyone
    BY Constants
  <2>2. "undoing" \in Places /\ "undoing" \notin Watched
    BY DEF Places, Domain, Watched, Deciding, Drafting, Holding
  <2>3. Only(c) /\ Leaves(c)
    BY <1>6, <2>1, <2>2, BeginMoves DEF BeginCancel, Begin, Leaves
  <2>4. \A q \in Requests : hits[q] \subseteq hits'[q]
    BY <1>6 DEF BeginCancel, Hit, TypeOK
  <2> QED BY <1>6, <2>1, <2>3, <2>4, Frame DEF BeginCancel, tables
<1>7. ASSUME NEW c \in Callers, NEW r \in Requests, BeginRetry(c, r)
      PROVE  OrderInv'
  <2>1. c \in Everyone
    BY Constants
  <2>2. "resetting" \in Places /\ "resetting" \notin Watched
    BY DEF Places, Domain, Watched, Deciding, Drafting, Holding
  <2>3. Only(c) /\ Leaves(c)
    BY <1>7, <2>1, <2>2, BeginMoves DEF BeginRetry, Begin, Leaves
  <2>4. \A q \in Requests : hits[q] \subseteq hits'[q]
    BY <1>7 DEF BeginRetry, Hit, TypeOK
  <2> QED BY <1>7, <2>1, <2>3, <2>4, Frame DEF BeginRetry, tables
<1>8. ASSUME NEW c \in Everyone, NEW n \in Submissions, Submit(c, n) PROVE OrderInv'
  BY <1>8, OrderSubmit
<1>9. ASSUME NEW c \in Everyone, Discard(c) PROVE OrderInv'
  BY <1>9, OrderDiscard
<1>10. ASSUME NEW c \in Everyone, Cancel(c) PROVE OrderInv'
  BY <1>10, OrderCancel
<1>11. ASSUME NEW c \in Everyone, Approve(c) PROVE OrderInv'
  BY <1>11, OrderApprove
<1>12. ASSUME NEW c \in Everyone, Reject(c) PROVE OrderInv'
  BY <1>12, OrderReject
<1>13. ASSUME NEW c \in Everyone, Check(c) PROVE OrderInv'
  BY <1>13, OrderCheck
<1>14. ASSUME NEW c \in Everyone, Write(c) PROVE OrderInv'
  BY <1>14, OrderWrite
<1>15. ASSUME NEW c \in Everyone, CheckConflict(c) PROVE OrderInv'
  <2>1. call[c] # Null /\ call[c] \in Call /\ call[c].on \in Requests
    BY <1>15 DEF CheckConflict, At, CallOK, Call
  <2>2. Only(c) /\ Leaves(c)
    BY <1>15, <2>1, Moves DEF CheckConflict, Leaves, Places, Domain, Watched, Deciding, Drafting,
      Holding
  <2>3. \A r \in Requests : inst'[r].status = inst[r].status
    BY <1>15 DEF CheckConflict, tables
  <2>4. \A r \in Requests : hits[r] \subseteq hits'[r]
    BY <1>15 DEF CheckConflict
  <2>5. \A id \in Ids : row'[id] = row[id] \/ row'[id].status # "approved"
    BY <1>15 DEF CheckConflict, tables
  <2>6. step' = step
    BY <1>15 DEF CheckConflict, tables
  <2> QED BY <2>2, <2>3, <2>4, <2>5, <2>6, Frame
<1>16. ASSUME NEW c \in Everyone, StageLeave(c) PROVE OrderInv'
  <2>1. call[c] # Null /\ call[c] \in Call /\ call[c].on \in Requests
    BY <1>16 DEF StageLeave, At, CallOK, Call
  <2>2. Only(c) /\ Leaves(c)
    BY <1>16, <2>1 DEF StageLeave, Only, Leaves, CallOK, Call, Watched, Deciding, Drafting, Holding
  <2>3. \A r \in Requests : inst'[r].status = inst[r].status
    BY <1>16 DEF StageLeave, tables
  <2>4. \A r \in Requests : hits[r] \subseteq hits'[r]
    BY <1>16 DEF StageLeave
  <2>5. \A id \in Ids : row'[id] = row[id] \/ row'[id].status # "approved"
    BY <1>16 DEF StageLeave, TypeOK, Entity
  <2>6. step' = step
    BY <1>16 DEF StageLeave, tables
  <2> QED BY <2>2, <2>3, <2>4, <2>5, <2>6, Frame
<1>17. ASSUME NEW c \in Everyone, LinkStaged(c) PROVE OrderInv'
  <2>1. call[c] # Null /\ call[c] \in Call /\ call[c].on \in Requests
    BY <1>17 DEF LinkStaged, At, CallOK, Call
  <2>2. Only(c) /\ Leaves(c)
    BY <1>17, <2>1, Moves DEF LinkStaged, Leaves, Places, Domain, Watched, Deciding, Drafting,
      Holding
  <2>3. \A r \in Requests : inst'[r].status = inst[r].status
    BY <1>17 DEF LinkStaged, TypeOK, Instance
  <2>4. \A r \in Requests : hits[r] \subseteq hits'[r]
    BY <1>17 DEF LinkStaged
  <2>5. \A id \in Ids : row'[id] = row[id] \/ row'[id].status # "approved"
    BY <1>17 DEF LinkStaged, tables
  <2>6. step' = step
    BY <1>17 DEF LinkStaged, tables
  <2> QED BY <2>2, <2>3, <2>4, <2>5, <2>6, Frame
<1>18. ASSUME NEW c \in Everyone, UndoStaged(c) PROVE OrderInv'
  <2>1. call[c] # Null /\ call[c] \in Call /\ call[c].on \in Requests
    BY <1>18 DEF UndoStaged, At, CallOK, Call
  <2>2. Only(c) /\ Leaves(c)
    BY <1>18, <2>1, Moves DEF UndoStaged, Leaves, Places, Domain, Watched, Deciding, Drafting,
      Holding
  <2>3. \A r \in Requests : inst'[r].status = inst[r].status
    BY <1>18 DEF UndoStaged, tables
  <2>4. \A r \in Requests : hits[r] \subseteq hits'[r]
    BY <1>18 DEF UndoStaged
  <2>5. \A id \in Ids : row'[id] = row[id] \/ row'[id].status # "approved"
    BY <1>18, <2>1, TypeParts, StagedRejected DEF UndoStaged, tables
  <2>6. step' = step
    BY <1>18 DEF UndoStaged, tables
  <2> QED BY <2>2, <2>3, <2>4, <2>5, <2>6, Frame
<1>19. ASSUME NEW c \in Everyone, UndoApproved(c) PROVE OrderInv'
  <2>1. call[c] # Null /\ call[c] \in Call /\ call[c].on \in Requests
    BY <1>19 DEF UndoApproved, At, CallOK, Call
  <2>2. Only(c) /\ Leaves(c)
    <3> DEFINE at == IF ~Integrated(call[c].on) THEN "cancelling"
                     ELSE IF row[inst[call[c].on].entity].status # "approved" THEN "unlinking"
                     ELSE IF inst[call[c].on].kind = "leave" THEN "freeing" ELSE "erasing"
    <3>1. at \notin Watched
      BY DEF Watched, Deciding, Drafting, Holding
    <3> HIDE DEF at
    <3>2. CASE inst[call[c].on].kind = "advance"
      BY <3>2, <1>19, <2>1, Moves DEF UndoApproved
    <3>3. CASE inst[call[c].on].kind # "advance"
      <4>1. call' = [call EXCEPT ![c].seen = "approved", ![c].id = inst[call[c].on].entity, ![c].at = at]
        BY <3>3, <1>19 DEF UndoApproved, at
      <4> QED BY <2>1, <3>1, <4>1 DEF CallOK, Call, Only, Leaves
    <3> QED BY <3>2, <3>3
  <2>3. \A r \in Requests : inst'[r].status = inst[r].status
    BY <1>19 DEF UndoApproved, tables
  <2>4. \A r \in Requests : hits[r] \subseteq hits'[r]
    BY <1>19 DEF UndoApproved
  <2>5. \A id \in Ids : row'[id] = row[id] \/ row'[id].status # "approved"
    BY <1>19 DEF UndoApproved, tables
  <2>6. step' = step
    BY <1>19 DEF UndoApproved, tables
  <2> QED BY <2>2, <2>3, <2>4, <2>5, <2>6, Frame
<1>20. ASSUME NEW c \in Everyone, Release(c) PROVE OrderInv'
  <2>1. call[c] # Null /\ call[c] \in Call /\ call[c].on \in Requests
    BY <1>20 DEF Release, At, CallOK, Call
  <2>2. Only(c) /\ Leaves(c)
    BY <1>20, <2>1, Moves DEF Release, Leaves, Places, Domain, Watched, Deciding, Drafting, Holding
  <2>3. \A r \in Requests : inst'[r].status = inst[r].status
    BY <1>20 DEF Release, tables
  <2>4. \A r \in Requests : hits[r] \subseteq hits'[r]
    BY <1>20 DEF Release
  <2>5. \A id \in Ids : row'[id] = row[id] \/ row'[id].status # "approved"
    BY <1>20 DEF Release, tables
  <2>6. step' = step
    BY <1>20 DEF Release, tables
  <2> QED BY <2>2, <2>3, <2>4, <2>5, <2>6, Frame
<1>21. ASSUME NEW c \in Everyone, Erase(c) PROVE OrderInv'
  <2>1. call[c] # Null /\ call[c] \in Call /\ call[c].on \in Requests
    BY <1>21 DEF Erase, At, CallOK, Call
  <2>2. Only(c) /\ Leaves(c)
    BY <1>21, <2>1, Moves DEF Erase, Leaves, Places, Domain, Watched, Deciding, Drafting, Holding
  <2>3. \A r \in Requests : inst'[r].status = inst[r].status
    BY <1>21 DEF Erase, tables
  <2>4. \A r \in Requests : hits[r] \subseteq hits'[r]
    BY <1>21 DEF Erase
  <2>5. \A id \in Ids : row'[id] = row[id] \/ row'[id].status # "approved"
    BY <1>21 DEF Erase, TypeOK, Entity
  <2>6. step' = step
    BY <1>21 DEF Erase, tables
  <2> QED BY <2>2, <2>3, <2>4, <2>5, <2>6, Frame
<1>22. ASSUME NEW c \in Everyone, RefuseErase(c) PROVE OrderInv'
  <2>1. call[c] # Null /\ call[c] \in Call /\ call[c].on \in Requests
    BY <1>22 DEF RefuseErase, At, CallOK, Call
  <2>2. Only(c) /\ Leaves(c)
    BY <1>22, <2>1, Moves DEF RefuseErase, Leaves, Places, Domain, Watched, Deciding, Drafting,
      Holding
  <2>3. \A r \in Requests : inst'[r].status = inst[r].status
    BY <1>22 DEF RefuseErase, tables
  <2>4. \A r \in Requests : hits[r] \subseteq hits'[r]
    BY <1>22 DEF RefuseErase
  <2>5. \A id \in Ids : row'[id] = row[id] \/ row'[id].status # "approved"
    BY <1>22 DEF RefuseErase, tables
  <2>6. step' = step
    BY <1>22 DEF RefuseErase, tables
  <2> QED BY <2>2, <2>3, <2>4, <2>5, <2>6, Frame
<1>23. ASSUME NEW c \in Everyone, Unlink(c) PROVE OrderInv'
  <2>1. call[c] # Null /\ call[c] \in Call /\ call[c].on \in Requests
    BY <1>23 DEF Unlink, At, CallOK, Call
  <2>2. Only(c) /\ Leaves(c)
    BY <1>23, <2>1, Moves DEF Unlink, Leaves, Places, Domain, Watched, Deciding, Drafting, Holding
  <2>3. \A r \in Requests : inst'[r].status = inst[r].status
    BY <1>23 DEF Unlink, TypeOK, Instance
  <2>4. \A r \in Requests : hits[r] \subseteq hits'[r]
    BY <1>23 DEF Unlink
  <2>5. \A id \in Ids : row'[id] = row[id] \/ row'[id].status # "approved"
    BY <1>23 DEF Unlink, tables
  <2>6. step' = step
    BY <1>23 DEF Unlink, tables
  <2> QED BY <2>2, <2>3, <2>4, <2>5, <2>6, Frame
<1>24. ASSUME NEW c \in Everyone, Unstage(c) PROVE OrderInv'
  <2>1. call[c] # Null /\ call[c] \in Call /\ call[c].on \in Requests
    BY <1>24 DEF Unstage, At, CallOK, Call
  <2>2. Only(c) /\ Leaves(c)
    BY <1>24, <2>1, Moves DEF Unstage, Leaves, Places, Domain, Watched, Deciding, Drafting, Holding
  <2>3. \A r \in Requests : inst'[r].status = inst[r].status
    BY <1>24 DEF Unstage, tables
  <2>4. \A r \in Requests : hits[r] \subseteq hits'[r]
    BY <1>24, <2>1 DEF Unstage, Hit, TypeOK
  <2>5. \A id \in Ids : row'[id] = row[id] \/ row'[id].status # "approved"
    BY <1>24, <2>1, TypeParts, StagedRejected DEF Unstage, tables
  <2>6. step' = step
    BY <1>24 DEF Unstage, tables
  <2> QED BY <2>2, <2>3, <2>4, <2>5, <2>6, Frame
<1>25. ASSUME NEW c \in Everyone, Reset(c) PROVE OrderInv'
  <2>1. call[c] # Null /\ call[c] \in Call /\ call[c].on \in Requests
    BY <1>25 DEF Reset, At, CallOK, Call
  <2>2. Only(c) /\ Leaves(c)
    BY <1>25, <2>1, Moves DEF Reset, Leaves, Places, Domain, Watched, Deciding, Drafting, Holding
  <2>3. \A r \in Requests : inst'[r].status = inst[r].status
    BY <1>25 DEF Reset, TypeOK, Instance
  <2>4. \A r \in Requests : hits[r] \subseteq hits'[r]
    BY <1>25 DEF Reset
  <2>5. \A id \in Ids : row'[id] = row[id] \/ row'[id].status # "approved"
    BY <1>25 DEF Reset, tables
  <2>6. step' = step
    BY <1>25 DEF Reset, tables
  <2> QED BY <2>2, <2>3, <2>4, <2>5, <2>6, Frame
<1>26. ASSUME NEW c \in Everyone, Claim(c) PROVE OrderInv'
  <2>1. call[c] # Null /\ call[c] \in Call /\ call[c].on \in Requests
    BY <1>26 DEF Claim, At, CallOK, Call
  <2>2. Only(c) /\ Stays(c)
    <3>1. "looking" \in Places /\ call[c].at \in Holding /\ "looking" \in Holding
      BY <1>26 DEF Claim, At, Places, Domain, Holding
    <3> QED BY <1>26, <2>1, <3>1, Moves DEF Claim, Stays
  <2>3. \A r \in Requests : inst'[r].status = inst[r].status
    BY <1>26 DEF Claim, TypeOK, Instance
  <2>4. \A r \in Requests : hits[r] \subseteq hits'[r]
    BY <1>26 DEF Claim
  <2>5. \A id \in Ids : row'[id] = row[id] \/ row'[id].status # "approved"
    BY <1>26 DEF Claim, tables
  <2>6. step' = step
    BY <1>26 DEF Claim, tables
  <2> QED BY <2>2, <2>3, <2>4, <2>5, <2>6, Frame
<1>27. ASSUME NEW c \in Everyone, LookLeave(c) PROVE OrderInv'
  <2>1. call[c] # Null /\ call[c] \in Call /\ call[c].on \in Requests
    BY <1>27 DEF LookLeave, At, CallOK, Call
  <2>2. Only(c) /\ (Leaves(c) \/ Stays(c))
    <3>1. CASE Finish(c)
      BY <3>1, <2>1, Moves
    <3>2. CASE ~Finish(c)
      BY <3>2, <1>27, <2>1 DEF LookLeave, At, Only, Stays, CallOK, Call, Holding
    <3> QED BY <3>1, <3>2
  <2>3. \A r \in Requests : inst'[r].status = inst[r].status
    <3>1. CASE Failed(call[c].on)
      BY <3>1 DEF Failed, TypeOK, Instance
    <3>2. CASE UNCHANGED inst
      BY <3>2
    <3> QED BY <1>27, <3>1, <3>2 DEF LookLeave
  <2>4. \A r \in Requests : hits[r] \subseteq hits'[r]
    BY <1>27 DEF LookLeave
  <2>5. \A id \in Ids : row'[id] = row[id] \/ row'[id].status # "approved"
    BY <1>27 DEF LookLeave, tables
  <2>6. step' = step
    BY <1>27 DEF LookLeave, tables
  <2> QED BY <2>2, <2>3, <2>4, <2>5, <2>6, Frame
<1>28. ASSUME NEW c \in Everyone, LookOvertime(c) PROVE OrderInv'
  <2>1. call[c] # Null /\ call[c] \in Call /\ call[c].on \in Requests
    BY <1>28 DEF LookOvertime, At, CallOK, Call
  <2>2. Only(c) /\ (Leaves(c) \/ Stays(c))
    <3>1. CASE Finish(c)
      BY <3>1, <2>1, Moves
    <3>2. CASE Goto(c, "finding")
      <4>1. "finding" \in Places /\ "finding" \in Holding /\ "looking" \in Holding
        BY DEF Places, Domain, Holding
      <4> QED BY <3>2, <4>1, <1>28, <2>1, Moves DEF LookOvertime, At, Stays
    <3> QED BY <3>1, <3>2, <1>28 DEF LookOvertime
  <2>3. \A r \in Requests : inst'[r].status = inst[r].status
    <3>1. CASE Failed(call[c].on)
      BY <3>1 DEF Failed, TypeOK, Instance
    <3>2. CASE UNCHANGED inst
      BY <3>2
    <3> QED BY <1>28, <3>1, <3>2 DEF LookOvertime
  <2>4. \A r \in Requests : hits[r] \subseteq hits'[r]
    BY <1>28 DEF LookOvertime
  <2>5. \A id \in Ids : row'[id] = row[id] \/ row'[id].status # "approved"
    BY <1>28 DEF LookOvertime
  <2>6. step' = step
    BY <1>28 DEF LookOvertime
  <2> QED BY <2>2, <2>3, <2>4, <2>5, <2>6, Frame
<1>38. ASSUME NEW c \in Everyone, FindOvertime(c) PROVE OrderInv'
  BY <1>38, OrderFind
<1>29. ASSUME NEW c \in Everyone, LookAdvance(c) PROVE OrderInv'
  <2>1. call[c] # Null /\ call[c] \in Call /\ call[c].on \in Requests
    BY <1>29 DEF LookAdvance, At, CallOK, Call
  <2>2. Only(c) /\ Stays(c)
    <3>1. "writing" \in Places /\ call[c].at \in Holding /\ "writing" \in Holding
      BY <1>29 DEF LookAdvance, At, Places, Domain, Holding
    <3> QED BY <1>29, <2>1, <3>1, Moves DEF LookAdvance, Stays
  <2>3. \A r \in Requests : inst'[r].status = inst[r].status
    BY <1>29 DEF LookAdvance, tables
  <2>4. \A r \in Requests : hits[r] \subseteq hits'[r]
    BY <1>29 DEF LookAdvance
  <2>5. \A id \in Ids : row'[id] = row[id] \/ row'[id].status # "approved"
    BY <1>29 DEF LookAdvance, tables
  <2>6. step' = step
    BY <1>29 DEF LookAdvance, tables
  <2> QED BY <2>2, <2>3, <2>4, <2>5, <2>6, Frame
<1>30. ASSUME NEW c \in Everyone, ReadBalance(c) PROVE OrderInv'
  <2>1. call[c] # Null /\ call[c] \in Call /\ call[c].on \in Requests
    BY <1>30 DEF ReadBalance, At, CallOK, Call
  <2>2. Only(c) /\ Leaves(c)
    <3> DEFINE at == IF call[c].at = "consuming" THEN "charging" ELSE "releasing"
    <3>1. call' = [call EXCEPT ![c].read = balance, ![c].at = at]
      BY <1>30, <2>1 DEF ReadBalance, CallOK, Call
    <3>2. at \notin Watched
      BY DEF Watched, Deciding, Drafting, Holding
    <3> HIDE DEF at
    <3> QED BY <2>1, <3>1, <3>2 DEF CallOK, Call, Only, Leaves
  <2>3. \A r \in Requests : inst'[r].status = inst[r].status
    BY <1>30 DEF ReadBalance, tables
  <2>4. \A r \in Requests : hits[r] \subseteq hits'[r]
    BY <1>30, <2>1 DEF ReadBalance, Hit, TypeOK
  <2>5. \A id \in Ids : row'[id] = row[id] \/ row'[id].status # "approved"
    BY <1>30 DEF ReadBalance, tables
  <2>6. step' = step
    BY <1>30 DEF ReadBalance, tables
  <2> QED BY <2>2, <2>3, <2>4, <2>5, <2>6, Frame
<1>31. ASSUME NEW c \in Everyone, Charge(c) PROVE OrderInv'
  <2>1. call[c] # Null /\ call[c] \in Call /\ call[c].on \in Requests
    BY <1>31 DEF Charge, At, CallOK, Call
  <2>2. Only(c) /\ Leaves(c)
    BY <1>31, <2>1, Moves DEF Charge, Leaves, Places, Domain, Watched, Deciding, Drafting, Holding
  <2>3. \A r \in Requests : inst'[r].status = inst[r].status
    BY <1>31 DEF Charge, tables
  <2>4. \A r \in Requests : hits[r] \subseteq hits'[r]
    BY <1>31 DEF Charge
  <2>5. \A id \in Ids : row'[id] = row[id] \/ row'[id].status # "approved"
    BY <1>31 DEF Charge, tables
  <2>6. step' = step
    BY <1>31 DEF Charge, tables
  <2> QED BY <2>2, <2>3, <2>4, <2>5, <2>6, Frame
<1>32. ASSUME NEW c \in Everyone, Mark(c) PROVE OrderInv'
  <2>1. call[c] # Null /\ call[c] \in Call /\ call[c].on \in Requests
    BY <1>32 DEF Mark, At, CallOK, Call
  <2>2. Only(c) /\ Leaves(c)
    BY <1>32, <2>1, Moves DEF Mark, Leaves, Places, Domain, Watched, Deciding, Drafting, Holding
  <2>3. \A r \in Requests : inst'[r].status = inst[r].status
    BY <1>32 DEF Mark, TypeOK, Instance
  <2>4. \A r \in Requests : hits[r] \subseteq hits'[r]
    BY <1>32 DEF Mark
  <2>5. \A id \in Ids : row'[id] = row[id] \/ row'[id].status # "approved"
    BY <1>32 DEF Mark, tables
  <2>6. step' = step
    BY <1>32 DEF Mark, tables
  <2> QED BY <2>2, <2>3, <2>4, <2>5, <2>6, Frame
<1>33. ASSUME NEW c \in Everyone, Fail(c) PROVE OrderInv'
  <2>1. call[c] # Null /\ call[c] \in Call /\ call[c].on \in Requests
    BY <1>33 DEF Fail, At, CallOK, Call
  <2>2. Only(c) /\ Leaves(c)
    BY <1>33, <2>1, Moves DEF Fail, Leaves, Places, Domain, Watched, Deciding, Drafting, Holding
  <2>3. \A r \in Requests : inst'[r].status = inst[r].status
    BY <1>33 DEF Fail, Failed, TypeOK, Instance
  <2>4. \A r \in Requests : hits[r] \subseteq hits'[r]
    BY <1>33, <2>1 DEF Fail, Hit, TypeOK
  <2>5. \A id \in Ids : row'[id] = row[id] \/ row'[id].status # "approved"
    BY <1>33 DEF Fail, tables
  <2>6. step' = step
    BY <1>33 DEF Fail, tables
  <2> QED BY <2>2, <2>3, <2>4, <2>5, <2>6, Frame
<1>39. ASSUME NEW c \in Everyone, Abort(c) PROVE OrderInv'
  <2>1. call[c] # Null /\ call[c] \in Call /\ call[c].on \in Requests
    BY <1>39 DEF Abort, CallOK, Call
  <2>2. Only(c) /\ Leaves(c)
    BY <1>39, <2>1, Moves DEF Abort
  <2>3. \A r \in Requests : inst'[r].status = inst[r].status
    BY <1>39 DEF Abort, tables
  <2>4. \A r \in Requests : hits[r] \subseteq hits'[r]
    BY <1>39, <2>1 DEF Abort, Hit, TypeOK
  <2>5. \A id \in Ids : row'[id] = row[id] \/ row'[id].status # "approved"
    BY <1>39 DEF Abort, tables
  <2>6. step' = step
    BY <1>39 DEF Abort, tables
  <2> QED BY <2>2, <2>3, <2>4, <2>5, <2>6, Frame
<1>34. ASSUME NEW c \in Everyone, Crash(c) PROVE OrderInv'
  <2>1. call[c] # Null /\ call[c] \in Call /\ call[c].on \in Requests
    BY <1>34 DEF Crash, At, CallOK, Call
  <2>2. Only(c) /\ Leaves(c)
    BY <1>34 DEF Crash, CallOK, Only, Leaves
  <2>3. \A r \in Requests : inst'[r].status = inst[r].status
    BY <1>34 DEF Crash, tables
  <2>4. \A r \in Requests : hits[r] \subseteq hits'[r]
    BY <1>34, <2>1 DEF Crash, Hit, TypeOK
  <2>5. \A id \in Ids : row'[id] = row[id] \/ row'[id].status # "approved"
    BY <1>34 DEF Crash, tables
  <2>6. step' = step
    BY <1>34 DEF Crash, tables
  <2> QED BY <2>2, <2>3, <2>4, <2>5, <2>6, Frame
<1>35. CASE Start
  <2>1. Boot \in Everyone
    BY Constants
  <2>2. Only(Boot) /\ (Leaves(Boot) \/ UNCHANGED call)
    <3>1. CASE Incomplete = {}
      BY <1>35, <3>1 DEF Start, Only
    <3>2. CASE Incomplete # {}
      BY <1>35, <3>2, <2>1 DEF Start, Fresh, CallOK, Only, Leaves, Watched, Deciding, Drafting,
        Holding
    <3> QED BY <3>1, <3>2
  <2>3. CASE Leaves(Boot)
    BY <1>35, <2>1, <2>2, <2>3, Frame DEF Start, tables
  <2>4. CASE UNCHANGED call
    BY <1>35, <2>4, OrderUnchanged DEF Start, tables
  <2> QED BY <2>2, <2>3, <2>4
<1>36. CASE Deploy
  BY <1>36, OrderUnchanged DEF Deploy, tables
<1>37. CASE UNCHANGED vars
  BY <1>37, OrderUnchanged DEF vars, tables, bounds
<1> QED
  BY <1>1, <1>2, <1>3, <1>4, <1>5, <1>6, <1>7, <1>8, <1>9, <1>10, <1>11, <1>12, <1>13, <1>14,
    <1>15, <1>16, <1>17, <1>18, <1>19, <1>20, <1>21, <1>22, <1>23, <1>24, <1>25, <1>26, <1>27,
    <1>28, <1>29, <1>30, <1>31, <1>32, <1>33, <1>34, <1>35, <1>36, <1>37, <1>38, <1>39
     DEF Next, Arrive, Progress, Deciding

\* No request has an effect in another module before every step of its flow was
\* approved, whatever the number of requests, handlers, steps and crashes, as long
\* as no decision was written over a status the call had not seen.
THEOREM ApprovedBeforeEffect == Spec => []SignedOff
<1>1. OrderInv => SignedOff
  BY DEF OrderInv, OrderlyUnlessStale, Orderly, Signed, SignedOff
<1> QED BY <1>1, OrderInit, OrderStep, PTL DEF Spec
=============================================================================
