-------------------------- MODULE MonthlyOffProofs --------------------------
(***************************************************************************)
(* Proofs about MonthlyOff, for any sets of requests, days and calls.      *)
(*                                                                         *)
(* The invariants build on each other: TypeInv (types), Repairing (what a  *)
(* start has still to repair), Flow (requests follow their workflows, as   *)
(* long as approvers only approve, reject or cancel), Copies (the copy a   *)
(* call works on is the request), and on these Books (what is booked or    *)
(* about to be) and Synced (what is recorded or owed).  Each has a lemma   *)
(* ...Step with one step per action; the actions it takes an argument to   *)
(* get through have lemmas of their own before it.                         *)
(***************************************************************************)
EXTENDS MonthlyOff, TLAPS

\* What a start can have listed.
Todo == [id : Requests, status : Terminal \cup Open \cup {"none"}]

\* The phases of a start, and which requests are in the table.
Shape ==
    /\ start \in [at : {"off", "repairing"}, todo : SUBSET Todo]
                 \cup [at : {"orphans"}, todo : SUBSET Requests]
    /\ \A q \in Requests : submission[q].at \in {"ready", "checked"} => row[q] = Null
    /\ \A q \in Requests : submission[q].at \in {"inserted", "started"} => row[q] # Null
    /\ resolver["outbox"] # Null => attempts[resolver["outbox"].id] < MaxAttempts

TypeInv == TypeOK /\ Shape

\* The end of a call of onWorkflowResolved.
LEMMA ReturnTyped ==
  ASSUME NEW c \in Callers, NEW ok \in BOOLEAN, resolver[c] # Null, TypeInv, Return(c, ok)
  PROVE  /\ resolver' \in [Callers -> Resolution \cup {Null}]
         /\ event' \in [Requests -> {"none", "unsent", "queued", "lost", "processed"}]
         /\ attempts' \in [Requests -> 0..MaxAttempts]
         /\ resolver'["outbox"] # Null =>
              attempts'[resolver'["outbox"].id] < MaxAttempts
<1>1. resolver[c] \in Resolution  BY DEF TypeInv, TypeOK
<1>2. CASE c = "outbox"
  <2>1. resolver[c].id \in Requests  BY <1>1 DEF Resolution
  <2>2. attempts[resolver[c].id] < MaxAttempts  BY <1>2 DEF TypeInv, Shape
  <2>3. attempts[resolver[c].id] + 1 \in 0..MaxAttempts  
    BY <2>1, <2>2, MonthlyOffAssumption DEF TypeInv, TypeOK
  <2> QED  BY <1>2, <2>1, <2>3 DEF Return, TypeInv, TypeOK, Callers
<1>3. CASE c # "outbox"
  BY <1>3 DEF Return, TypeInv, TypeOK, Shape, Callers
<1> QED  BY <1>2, <1>3

\* onWorkflowResolved reads: the types.
LEMMA TypeReadRow ==
  ASSUME NEW c \in Callers, ReadRow(c), TypeInv PROVE TypeInv'
<1>1. resolver[c] \in Resolution /\ resolver[c].id \in Requests  BY DEF ReadRow, TypeInv, TypeOK, Resolution
<1>2. CASE Pending(resolver[c].id)
  <2>1. row[resolver[c].id] \in Row  BY <1>1, <1>2 DEF TypeInv, TypeOK, Pending, Live
  <2>2. row[resolver[c].id].days \in SUBSET Days  BY <2>1 DEF Row
  <2>3. [resolver[c] EXCEPT !.at = "writing", !.days = row[resolver[c].id].days] \in Resolution
    BY <1>1, <2>2 DEF Resolution
  <2>4. resolver' \in [Callers -> Resolution \cup {Null}]
    BY <1>2, <2>3 DEF ReadRow, TypeInv, TypeOK
  <2>5. resolver["outbox"] # Null /\ resolver'["outbox"] # Null => resolver'["outbox"].id = resolver["outbox"].id
    BY <1>2, <1>1 DEF ReadRow, TypeInv, TypeOK, Callers, Resolution
  <2>6. resolver["outbox"] = Null => resolver'["outbox"] = Null
    BY <1>2, <1>1 DEF ReadRow, TypeInv, TypeOK, Callers, Resolution
  <2> QED  BY <1>2, <2>4, <2>5, <2>6 DEF ReadRow, TypeInv, TypeOK, Shape, history
<1>3. CASE ~Pending(resolver[c].id)
  <2>1. Return(c, TRUE) /\ resolver[c] # Null  BY <1>3 DEF ReadRow
  <2>2. UNCHANGED <<row, workflow, dayOff, submission, start, admin, disruptions, history>>
    BY DEF ReadRow
  <2> QED  BY <2>1, <2>2, ReturnTyped DEF TypeInv, TypeOK, Shape, history
<1> QED  BY <1>2, <1>3

\* onWorkflowResolved writes: the types.
LEMMA TypeWriteRow ==
  ASSUME NEW c \in Callers, WriteRow(c), TypeInv PROVE TypeInv'
<1> DEFINE r == resolver[c]
<1>1. r \in Resolution /\ r.id \in Requests /\ r.status \in {"approved", "rejected"} /\ r # Null
  BY DEF WriteRow, TypeInv, TypeOK, Resolution
<1>2. UNCHANGED <<workflow, dayOff, submission, start, admin, disruptions, history>>
  BY DEF WriteRow
<1>3. CASE row[r.id] = Null
  <2>1. Return(c, FALSE) /\ UNCHANGED row  BY <1>3 DEF WriteRow
  <2> QED  BY <1>1, <1>2, <2>1, ReturnTyped DEF TypeInv, TypeOK, Shape, history
<1>4. CASE row[r.id] # Null
  <2>1. [row[r.id] EXCEPT !.status = r.status] \in Row
    BY <1>1, <1>4 DEF TypeInv, TypeOK, Row
  <2>2. row' = [row EXCEPT ![r.id] = [row[r.id] EXCEPT !.status = r.status]]  BY <1>4 DEF WriteRow
  <2>3. row' \in [Requests -> Row \cup {Null}]  BY <2>1, <2>2 DEF TypeInv, TypeOK
  <2>4. submission[r.id].at \notin {"ready", "checked"}  BY <1>1, <1>4 DEF TypeInv, Shape
  <2>5. \A q \in Requests : q # r.id => row'[q] = row[q]  BY <2>2 DEF TypeInv, TypeOK
  <2>6. \A q \in Requests : submission[q].at \in {"ready", "checked"} => row'[q] = Null
    BY <2>4, <2>5 DEF TypeInv, Shape
  <2>7. row'[r.id] # Null  BY <1>1, <2>1, <2>2, NullAssumption DEF TypeInv, TypeOK
  <2>8. \A q \in Requests : submission[q].at \in {"inserted", "started"} => row'[q] # Null
    BY <2>5, <2>7 DEF TypeInv, Shape
  <2>9. CASE r.status = "approved"
    <3>1. resolver' = [resolver EXCEPT ![c].at = "syncing"] /\ UNCHANGED <<event, attempts>>
      BY <1>4, <2>9 DEF WriteRow
    <3>2. [resolver[c] EXCEPT !.at = "syncing"] \in Resolution  BY <1>1 DEF Resolution
    <3>3. resolver' \in [Callers -> Resolution \cup {Null}]  BY <3>1, <3>2 DEF TypeInv, TypeOK
    <3>4. resolver'["outbox"] # Null => resolver["outbox"] # Null /\ resolver'["outbox"].id = resolver["outbox"].id
      BY <3>1, <1>1 DEF TypeInv, TypeOK, Callers, Resolution
    <3> QED  BY <1>2, <2>3, <2>6, <2>8, <3>1, <3>3, <3>4 DEF TypeInv, TypeOK, Shape, history
  <2>10. CASE r.status # "approved"
    <3>1. Return(c, TRUE)  BY <1>4, <2>10 DEF WriteRow
    <3> QED  BY <1>1, <1>2, <2>3, <2>6, <2>8, <3>1, ReturnTyped DEF TypeInv, TypeOK, Shape, history
  <2> QED  BY <2>9, <2>10
<1> QED  BY <1>3, <1>4
\* The table after one of its rows was rewritten.
LEMMA RowTyped ==
  ASSUME NEW q \in Requests, NEW new \in Row, row[q] # Null, TypeInv,
         row' = [row EXCEPT ![q] = new], UNCHANGED submission
  PROVE  /\ row' \in [Requests -> Row \cup {Null}]
         /\ \A p \in Requests : submission'[p].at \in {"ready", "checked"} => row'[p] = Null
         /\ \A p \in Requests : submission'[p].at \in {"inserted", "started"} => row'[p] # Null
<1>1. row' \in [Requests -> Row \cup {Null}] /\ row'[q] = new /\ new # Null
  BY NullAssumption DEF TypeInv, TypeOK
<1>2. \A p \in Requests : p # q => row'[p] = row[p]  BY DEF TypeInv, TypeOK
<1> QED  BY <1>1, <1>2 DEF TypeInv, Shape

\* All days are recorded: the types.
LEMMA TypeSyncDone ==
  ASSUME NEW c \in Callers, SyncDone(c), TypeInv PROVE TypeInv'
BY ReturnTyped DEF SyncDone, TypeInv, TypeOK, Shape, history

\* A resolution throws: the types.
LEMMA TypeResolverFails ==
  ASSUME NEW c \in Callers, ResolverFails(c), TypeInv PROVE TypeInv'
<1>1. resolver[c] # Null /\ resolver[c].id \in Requests
  BY DEF ResolverFails, TypeInv, TypeOK, Resolution
<1>2. Return(c, FALSE)  BY DEF ResolverFails
<1>3. cut' \subseteq Requests /\ missed' \subseteq Requests /\ disruptions' \in 0..MaxDisruptions
  BY <1>1, MonthlyOffAssumption DEF ResolverFails, Disruption, TypeInv, TypeOK
<1> QED  BY <1>1, <1>2, <1>3, ReturnTyped DEF ResolverFails, TypeInv, TypeOK, Shape

\* submit inserts: the types.
LEMMA TypeInsert ==
  ASSUME NEW q \in Requests, Insert(q), TypeInv PROVE TypeInv'
<1> DEFINE new == [status |-> "pending", days |-> submission[q].days, linked |-> FALSE,
                   deleted |-> FALSE]
<1>0. submission[q].days \in SUBSET Days  BY DEF TypeInv, TypeOK, Submission
<1>1. new \in Row  BY <1>0 DEF Row
<1> HIDE DEF new
<1>7. new # Null  BY <1>1, NullAssumption
<1>2. row' \in [Requests -> Row \cup {Null}] /\ row'[q] = new /\ \A p \in Requests \ {q} : row'[p] = row[p]
  BY <1>1 DEF Insert, TypeInv, TypeOK, new
<1>3. submission' \in [Requests -> Submission] /\ submission'[q].at = "inserted"
  BY DEF Insert, TypeInv, TypeOK, Submission
<1>4. \A p \in Requests \ {q} : submission'[p] = submission[p]  BY DEF Insert, TypeInv, TypeOK
<1>5. \A p \in Requests : submission'[p].at \in {"ready", "checked"} => row'[p] = Null
  BY <1>2, <1>3, <1>4 DEF TypeInv, Shape
<1>6. \A p \in Requests : submission'[p].at \in {"inserted", "started"} => row'[p] # Null
  BY <1>7, <1>2, <1>4 DEF TypeInv, Shape
<1> QED  BY <1>2, <1>3, <1>5, <1>6 DEF Insert, TypeInv, TypeOK, Shape, history

\* submit links the workflow: the types.
LEMMA TypeLink ==
  ASSUME NEW q \in Requests, Link(q), TypeInv PROVE TypeInv'
<1>1. row[q] \in Row /\ row[q] # Null  BY DEF Link, Advance, TypeInv, TypeOK, Shape
<1> DEFINE new == [row[q] EXCEPT !.linked = TRUE]
<1>2. new \in Row /\ new # Null  BY <1>1, NullAssumption DEF Row
<1>3. row' \in [Requests -> Row \cup {Null}] /\ row'[q] = new /\ \A p \in Requests \ {q} : row'[p] = row[p]
  BY <1>2 DEF Link, TypeInv, TypeOK
<1>4. submission' \in [Requests -> Submission] /\ submission'[q].at = "done"
  BY DEF Link, Advance, TypeInv, TypeOK, Submission
<1>5. \A p \in Requests \ {q} : submission'[p] = submission[p]  BY DEF Link, Advance, TypeInv, TypeOK
<1>6. \A p \in Requests : submission'[p].at \in {"ready", "checked"} => row'[p] = Null
  BY <1>3, <1>4, <1>5 DEF TypeInv, Shape
<1>7. \A p \in Requests : submission'[p].at \in {"inserted", "started"} => row'[p] # Null
  BY <1>2, <1>3, <1>5 DEF TypeInv, Shape
<1> HIDE DEF new
<1> QED  BY <1>3, <1>4, <1>6, <1>7 DEF Link, TypeInv, TypeOK, Shape, history

\* A start looks at an orphan: the types.
LEMMA TypeCheckOrphan ==
  ASSUME CheckOrphan, TypeInv PROVE TypeInv'
<1>1. PICK q \in start.todo :
        /\ row[q] # Null
        /\ start' = [start EXCEPT !.todo = @ \ {q}]
        /\ row' = IF row[q].days = {} \/ Conflicts(row[q].days, q)
                  THEN [row EXCEPT ![q].status = "rejected", ![q].deleted = TRUE]
                  ELSE row
  BY DEF CheckOrphan
<1>2. q \in Requests /\ start.todo \subseteq Requests /\ start = [at |-> "orphans", todo |-> start.todo]
  BY DEF CheckOrphan, TypeInv, Shape
<1>3. start' \in [at : {"orphans"}, todo : SUBSET Requests]  BY <1>1, <1>2
<1>4. UNCHANGED <<workflow, event, attempts, dayOff, submission, resolver, admin, disruptions, history>>
  BY DEF CheckOrphan
<1>5. CASE row' = row  BY <1>3, <1>4, <1>5 DEF TypeInv, TypeOK, Shape, history
<1>6. CASE row' = [row EXCEPT ![q].status = "rejected", ![q].deleted = TRUE]
  <2>0. row[q] \in Row  BY <1>1, <1>2 DEF TypeInv, TypeOK
  <2>1. [row[q] EXCEPT !.status = "rejected", !.deleted = TRUE] \in Row  BY <2>0 DEF Row
  <2>2. row' = [row EXCEPT ![q] = [row[q] EXCEPT !.status = "rejected", !.deleted = TRUE]]
    BY <1>6, <1>2 DEF TypeInv, TypeOK
  <2> QED  BY <1>1, <1>2, <1>3, <1>4, <2>1, <2>2, RowTyped, ZenonT(30) DEF TypeInv, TypeOK, Shape, history
<1> QED  BY <1>1, <1>5, <1>6

\* A call that goes on or ends.
LEMMA GotoTyped ==
  ASSUME NEW a \in Admins, admin[a] # Null, TypeInv,
         NEW at \in {"checking", "reverting", "writing", "cancelling", "creating", "syncing"},
         AdminGoto(a, at) \/ AdminEnd(a)
  PROVE  admin' \in [Admins -> Change \cup {Null}]
<1>1. [admin[a] EXCEPT !.at = at] \in Change  BY DEF TypeInv, TypeOK, Change
<1> QED  BY <1>1 DEF AdminGoto, AdminEnd, TypeInv, TypeOK

\* A change checks its day: the types.
LEMMA TypeAdminCheck ==
  ASSUME NEW a \in Admins, AdminCheck(a), TypeInv PROVE TypeInv'
<1>1. admin[a] # Null /\ (AdminGoto(a, "writing") \/ AdminEnd(a)) /\ crossed' \in BOOLEAN
  BY DEF AdminCheck, AdminAt, TypeInv, TypeOK
<1>2. UNCHANGED <<table, submission, resolver, start, disruptions, cut, missed, misjudged>>
  BY DEF AdminCheck
<1> QED  BY <1>1, <1>2, GotoTyped DEF TypeInv, TypeOK, Shape, table

\* The write of a call that changes a request.
LEMMA WriteTyped ==
  ASSUME NEW a \in Admins, AdminAt(a, "writing"), TypeInv, NEW new,
         row[admin[a].id] # Null => new \in Row,
         NEW at \in {"done", "reverting", "cancelling"},
         AdminWrite(a, new, at), cut' \subseteq Requests
  PROVE  TypeInv'
<1>1. admin[a] # Null /\ admin[a].id \in Requests  BY DEF AdminAt, TypeInv, TypeOK, Change
<1>2. UNCHANGED <<workflow, event, attempts, dayOff, submission, resolver, start, disruptions,
                  crossed, missed, misjudged>>
  BY DEF AdminWrite
<1>3. CASE row[admin[a].id] = Null
  <2>1. AdminEnd(a) /\ UNCHANGED row  BY <1>3 DEF AdminWrite
  <2> QED  BY <1>1, <1>2, <2>1, GotoTyped DEF TypeInv, TypeOK, Shape
<1>4. CASE row[admin[a].id] # Null
  <2>1. row' = [row EXCEPT ![admin[a].id] = new] /\ new \in Row  BY <1>4 DEF AdminWrite
  <2>2. AdminEnd(a) \/ (at \in {"reverting", "cancelling"} /\ AdminGoto(a, at))
    BY <1>4 DEF AdminWrite
  <2>3. admin' \in [Admins -> Change \cup {Null}]  BY <1>1, <2>2, GotoTyped
  <2> QED  BY <1>1, <1>2, <1>4, <2>1, <2>3, RowTyped DEF TypeInv, TypeOK, Shape
<1> QED  BY <1>3, <1>4

\* A deletion writes: the types.
LEMMA TypeDeleteWrite ==
  ASSUME NEW a \in Admins, DeleteWrite(a), TypeInv PROVE TypeInv'
<1> DEFINE old  == row[admin[a].id]
           rest == admin[a].days \ {admin[a].day}
           kept == [old EXCEPT !.days = rest]
           gone == [old EXCEPT !.days = {}, !.status = "rejected", !.deleted = TRUE]
<1>1. AdminAt(a, "writing") /\ admin[a] \in Change /\ cut' \subseteq Requests
  BY DEF DeleteWrite, Writing, AdminAt, TypeInv, TypeOK
<1>2. old # Null => kept \in Row /\ gone \in Row
  <2>1. rest \in SUBSET Days /\ {} \in SUBSET Days  BY <1>1 DEF Change
  <2>2. old # Null => old \in Row  BY <1>1 DEF TypeInv, TypeOK, Change
  <2> QED  BY <2>1, <2>2 DEF Row
<1>3. AdminWrite(a, kept, "done") \/ AdminWrite(a, gone, "cancelling")  BY DEF DeleteWrite
<1> HIDE DEF kept, gone
<1> QED  BY <1>1, <1>2, <1>3, WriteTyped

\* A change writes: the types.
LEMMA TypeUpdateWrite ==
  ASSUME NEW a \in Admins, UpdateWrite(a), TypeInv PROVE TypeInv'
<1> DEFINE new == [row[admin[a].id] EXCEPT !.days = (admin[a].days \ {admin[a].day}) \cup {admin[a].to}]
<1>1. AdminAt(a, "writing") /\ admin[a] \in Change /\ admin[a].id \in Requests
  BY DEF UpdateWrite, Writing, AdminAt, TypeInv, TypeOK, Change
<1>2. cut' \subseteq Requests  BY <1>1 DEF UpdateWrite, TypeInv, TypeOK
<1>3. row[admin[a].id] # Null => new \in Row  BY <1>1 DEF TypeInv, TypeOK, Change, Row
<1>4. AdminWrite(a, new, "reverting") \/ AdminWrite(a, new, "done")  BY DEF UpdateWrite
<1> HIDE DEF new
<1> QED  BY <1>1, <1>2, <1>3, <1>4, WriteTyped

\* A swap writes: the types.
LEMMA TypeSwapWrite ==
  ASSUME NEW a \in Admins, SwapWrite(a), TypeInv PROVE TypeInv'
<1> DEFINE old  == row[admin[a].id]
           rest == admin[a].days \ {admin[a].day}
           new  == IF rest # {} THEN [old EXCEPT !.days = rest]
                   ELSE [old EXCEPT !.days = {}, !.status = "rejected"]
<1>1. AdminAt(a, "writing") /\ admin[a] \in Change /\ cut' \subseteq Requests
  BY DEF SwapWrite, Writing, AdminAt, TypeInv, TypeOK
<1>2. old # Null => new \in Row
  <2>1. rest \in SUBSET Days /\ {} \in SUBSET Days  BY <1>1 DEF Change
  <2>2. old # Null => old \in Row  BY <1>1 DEF TypeInv, TypeOK, Change
  <2> QED  BY <2>1, <2>2 DEF Row
<1>3. AdminWrite(a, new, "reverting")  BY DEF SwapWrite
<1> HIDE DEF new
<1> QED  BY <1>1, <1>2, <1>3, WriteTyped

\* Every step: the types.
LEMMA TypeStep ==
  TypeInv /\ [Next]_vars => TypeInv'
<1> SUFFICES ASSUME TypeInv, [Next]_vars PROVE TypeInv'
  OBVIOUS
<1>1. ASSUME NEW q \in Requests, NEW days \in Choices[q], Check(q, days) PROVE TypeInv'
  BY <1>1, MonthlyOffAssumption, NullAssumption
  DEF Check, TypeInv, TypeOK, Shape, table, Submission
<1>2. ASSUME NEW q \in Requests, Insert(q) PROVE TypeInv'
  BY <1>2, TypeInsert
<1>3. ASSUME NEW q \in Requests, StartWorkflow(q) PROVE TypeInv'
  BY <1>3, MonthlyOffAssumption, NullAssumption
  DEF StartWorkflow, Advance, TypeInv, TypeOK, Shape, history, Submission, Open
<1>4. ASSUME NEW q \in Requests, Link(q) PROVE TypeInv'
  BY <1>4, TypeLink
<1>5. ASSUME NEW q \in Requests, SubmitFails(q) PROVE TypeInv'
  BY <1>5, MonthlyOffAssumption, NullAssumption
  DEF SubmitFails, Disruption, TypeInv, TypeOK, Shape, Submission
<1>6. ASSUME NEW q \in Requests, SubmitCrashes(q) PROVE TypeInv'
  BY <1>6, MonthlyOffAssumption, NullAssumption
  DEF SubmitCrashes, Disruption, TypeInv, TypeOK, Shape, table, history, Submission
<1>7. ASSUME NEW q \in Requests, NEW status \in Outcomes, Act(q, status) PROVE TypeInv'
  BY <1>7, MonthlyOffAssumption, NullAssumption
  DEF Act, TypeInv, TypeOK, Shape, history
<1>8. ASSUME NEW q \in Requests, Publish(q) PROVE TypeInv'
  BY <1>8, MonthlyOffAssumption, NullAssumption
  DEF Publish, TypeInv, TypeOK, Shape, history
<1>9. ASSUME NEW q \in Requests, LoseEvent(q) PROVE TypeInv'
  BY <1>9, MonthlyOffAssumption, NullAssumption
  DEF LoseEvent, Disruption, TypeInv, TypeOK, Shape, history
<1>10. ASSUME NEW q \in Requests, Deliver(q) PROVE TypeInv'
  BY <1>10, MonthlyOffAssumption, NullAssumption
  DEF Deliver, Call, Verdict, TypeInv, TypeOK, Shape, table, history, Resolution, Callers
<1>11. ASSUME NEW c \in Callers, ReadRow(c) PROVE TypeInv'
  BY <1>11, TypeReadRow
<1>12. ASSUME NEW c \in Callers, WriteRow(c) PROVE TypeInv'
  BY <1>12, TypeWriteRow
<1>13. ASSUME NEW c \in Callers, NEW d \in Days, SyncDay(c, d) PROVE TypeInv'
  BY <1>13, MonthlyOffAssumption, NullAssumption
  DEF SyncDay, TypeInv, TypeOK, Shape, history, Resolution
<1>14. ASSUME NEW c \in Callers, SyncDone(c) PROVE TypeInv'
  BY <1>14, TypeSyncDone
<1>15. ASSUME NEW c \in Callers, ResolverFails(c) PROVE TypeInv'
  BY <1>15, TypeResolverFails
<1>16. ASSUME NEW c \in Callers, ResolverCrashes(c) PROVE TypeInv'
  BY <1>16, MonthlyOffAssumption, NullAssumption
  DEF ResolverCrashes, Disruption, TypeInv, TypeOK, Shape, table, Resolution
<1>17. ASSUME Start PROVE TypeInv'
  BY <1>17, MonthlyOffAssumption, NullAssumption
  DEF Start, Disruption, Repairable, TypeInv, TypeOK, Shape, table, Todo
<1>18. ASSUME Repair PROVE TypeInv'
  BY <1>18, MonthlyOffAssumption, NullAssumption
  DEF Repair, Call, TypeInv, TypeOK, Shape, table, history, Resolution, Callers, Todo, Verdict
<1>19. ASSUME FindOrphans PROVE TypeInv'
  BY <1>19, MonthlyOffAssumption, NullAssumption
  DEF FindOrphans, Orphans, TypeInv, TypeOK, Shape, table, history
<1>20. ASSUME CheckOrphan PROVE TypeInv'
  BY <1>20, TypeCheckOrphan
<1>21. ASSUME OrphanGone PROVE TypeInv'
  BY <1>21, MonthlyOffAssumption, NullAssumption
  DEF OrphanGone, TypeInv, TypeOK, Shape, table, history
<1>22. ASSUME Sweep PROVE TypeInv'
  BY <1>22, MonthlyOffAssumption, NullAssumption
  DEF Sweep, TypeInv, TypeOK, Shape, history
<1>23. ASSUME NEW a \in Admins, AdminCheck(a) PROVE TypeInv'
  BY <1>23, TypeAdminCheck
<1>24. ASSUME NEW a \in Admins, NEW q \in Requests, NEW d \in Days, DeleteRead(a, q, d) PROVE TypeInv'
  BY <1>24, MonthlyOffAssumption, NullAssumption
  DEF DeleteRead, AdminRead, Disruption, TypeInv, TypeOK, Shape, table, Row, Change, Live
<1>25. ASSUME NEW a \in Admins, NEW q \in Requests, NEW d \in Days, NEW to \in Days, UpdateRead(a, q, d, to) PROVE TypeInv'
  BY <1>25, MonthlyOffAssumption, NullAssumption
  DEF UpdateRead, AdminRead, Disruption, TypeInv, TypeOK, Shape, table, Row, Change, Live
<1>26. ASSUME NEW a \in Admins, NEW q \in Requests, NEW d \in Days, NEW to \in Days, SwapRead(a, q, d, to) PROVE TypeInv'
  BY <1>26, MonthlyOffAssumption, NullAssumption
  DEF SwapRead, AdminRead, Disruption, TypeInv, TypeOK, Shape, table, Row, Change, Live
<1>27. ASSUME NEW a \in Admins, AdminRevert(a) PROVE TypeInv'
  BY <1>27, MonthlyOffAssumption, NullAssumption
  DEF AdminRevert, AdminAt, AdminGoto, TypeInv, TypeOK, Shape, Change
<1>28. ASSUME NEW a \in Admins, AdminCancel(a) PROVE TypeInv'
  BY <1>28, MonthlyOffAssumption, NullAssumption
  DEF AdminCancel, AdminEnd, TypeInv, TypeOK, Shape, history, Terminal
<1>29. ASSUME NEW a \in Admins, DeleteWrite(a) PROVE TypeInv'
  BY <1>29, TypeDeleteWrite
<1>30. ASSUME NEW a \in Admins, UpdateWrite(a) PROVE TypeInv'
  BY <1>30, TypeUpdateWrite
<1>31. ASSUME NEW a \in Admins, SwapWrite(a) PROVE TypeInv'
  BY <1>31, TypeSwapWrite
<1>32. ASSUME NEW a \in Admins, NEW q \in Requests, SwapCreate(a, q) PROVE TypeInv'
  BY <1>32, MonthlyOffAssumption, NullAssumption
  DEF SwapCreate, AdminAt, TypeInv, TypeOK, Change
<1>33. ASSUME NEW a \in Admins, AdminSync(a) PROVE TypeInv'
  BY <1>33, MonthlyOffAssumption, NullAssumption
  DEF AdminSync, AdminAt, AdminEnd, TypeInv, TypeOK, Shape, history, Change
<1>34. ASSUME NEW a \in Admins, AdminFails(a) PROVE TypeInv'
  BY <1>34, MonthlyOffAssumption, NullAssumption
  DEF AdminFails, AdminEnd, Disruption, TypeInv, TypeOK, Shape, table, Change
<1>35. CASE UNCHANGED vars
  BY <1>35 DEF vars, table, history, TypeInv, TypeOK, Shape
<1> QED
  BY <1>1, <1>2, <1>3, <1>4, <1>5, <1>6, <1>7, <1>8, <1>9, <1>10, <1>11, <1>12,
     <1>13, <1>14, <1>15, <1>16, <1>17, <1>18, <1>19, <1>20, <1>21, <1>22, <1>23,
     <1>24, <1>25, <1>26, <1>27, <1>28, <1>29, <1>30, <1>31, <1>32, <1>33, <1>34,
     <1>35
  DEF Next

\* The initial state has the types.
LEMMA InitTyped == Init => TypeInv
<1> SUFFICES ASSUME Init PROVE TypeInv
  OBVIOUS
<1>1. [at |-> "ready", days |-> {}] \in Submission  BY DEF Submission
<1>2. /\ row \in [Requests -> Row \cup {Null}]
      /\ resolver \in [Callers -> Resolution \cup {Null}]
      /\ admin \in [Admins -> Change \cup {Null}]
  BY DEF Init
<1>3. /\ workflow \in [Requests -> Terminal \cup Open \cup {"none"}]
      /\ event \in [Requests -> {"none", "unsent", "queued", "lost", "processed"}]
      /\ submission \in [Requests -> Submission]
  BY <1>1 DEF Init
<1>4. attempts \in [Requests -> 0..MaxAttempts] /\ disruptions \in 0..MaxDisruptions
  BY MonthlyOffAssumption DEF Init
<1>5. /\ dayOff \subseteq Days
      /\ start.at \in {"off", "repairing", "orphans"}
      /\ crossed \in BOOLEAN
      /\ cut \subseteq Requests
      /\ missed \subseteq Requests
      /\ misjudged \in BOOLEAN
  BY DEF Init
<1>6. TypeOK  BY <1>2, <1>3, <1>4, <1>5 DEF TypeOK
<1>7. start \in [at : {"off", "repairing"}, todo : SUBSET Todo]  BY DEF Init
<1>8. resolver["outbox"] = Null /\ \A q \in Requests : row[q] = Null /\ submission[q].at = "ready"
  BY DEF Init, Callers
<1>9. Shape  BY <1>7, <1>8 DEF Shape
<1> QED  BY <1>6, <1>9 DEF TypeInv


\* Every variable keeps its type.  (No column ever holds anything but what the
\* schema allows, and no event is attempted more often than MaxAttempts.)
THEOREM TypeCorrect == Spec => []TypeOK
<1>1. TypeInv => TypeOK  BY DEF TypeInv
<1> QED  BY <1>1, InitTyped, TypeStep, PTL DEF Spec
-----------------------------------------------------------------------------
(*****************************************************************************)
(* What single steps leave of the requests, of the calls that resolve       *)
(* them, and of the calls that change them.                                 *)
(*****************************************************************************)

\* A call that has returned is gone; the others are as before.
LEMMA ReturnEnds ==
  ASSUME NEW c \in Callers, NEW ok, TypeInv, Return(c, ok)
  PROVE  resolver'[c] = Null /\ \A d \in Callers \ {c} : resolver'[d] = resolver[d]
BY DEF Return, TypeInv, TypeOK

\* What the writes of the three calls leave of the request.
LEMMA Writes ==
  ASSUME NEW a \in Admins, DeleteWrite(a) \/ UpdateWrite(a) \/ SwapWrite(a), TypeInv
  PROVE  /\ admin[a] \in Change /\ admin[a].id \in Requests
         /\ \A p \in Requests \ {admin[a].id} : row'[p] = row[p]
         /\ row[admin[a].id] = Null => row'[admin[a].id] = Null
         /\ row[admin[a].id] # Null =>
              /\ row'[admin[a].id] # Null
              /\ row'[admin[a].id].status \in {row[admin[a].id].status, "rejected"}
              /\ row'[admin[a].id].linked = row[admin[a].id].linked
              /\ row[admin[a].id].deleted => row'[admin[a].id].deleted
<1> DEFINE q    == admin[a].id
           old  == row[q]
           rest == admin[a].days \ {admin[a].day}
<1>1. admin[a] \in Change /\ q \in Requests
  BY DEF DeleteWrite, UpdateWrite, SwapWrite, Writing, AdminAt, TypeInv, TypeOK, Change
<1>2. CASE old = Null
  <2>1. row' = row
    BY <1>2 DEF DeleteWrite, UpdateWrite, SwapWrite, AdminWrite
  <2> QED  BY <1>1, <1>2, <2>1
<1>3. CASE old # Null
  <2>1. old \in Row  BY <1>1, <1>3 DEF TypeInv, TypeOK
  <2>2. PICK new :
          /\ row' = [row EXCEPT ![q] = new]
          /\ \/ new = [old EXCEPT !.days = rest]
             \/ new = [old EXCEPT !.days = {}, !.status = "rejected", !.deleted = TRUE]
             \/ new = [old EXCEPT !.days = rest \cup {admin[a].to}]
             \/ new = [old EXCEPT !.days = {}, !.status = "rejected"]
    BY <1>3 DEF DeleteWrite, UpdateWrite, SwapWrite, AdminWrite
  <2>3. rest \in SUBSET Days /\ rest \cup {admin[a].to} \in SUBSET Days  BY <1>1 DEF Change
  <2>4. /\ new \in Row
        /\ new.status \in {old.status, "rejected"}
        /\ new.linked = old.linked
        /\ old.deleted => new.deleted
    BY <2>1, <2>2, <2>3 DEF Row
  <2>5. row'[q] = new /\ \A p \in Requests \ {q} : row'[p] = row[p]
    BY <1>1, <2>2 DEF TypeInv, TypeOK
  <2>6. new # Null  BY <2>4, NullAssumption
  <2> QED  BY <1>1, <1>3, <2>4, <2>5, <2>6
<1> QED  BY <1>2, <1>3

\* What single steps leave of the requests and of the calls that change them.
LEMMA LinkEffect ==
  ASSUME NEW q \in Requests, Link(q), TypeInv
  PROVE  /\ \A p \in Requests \ {q} : row'[p] = row[p]
         /\ row'[q] # Null /\ row[q] # Null /\ row'[q].status = row[q].status
         /\ row'[q].days = row[q].days /\ row'[q].deleted = row[q].deleted
<1>1. row[q] \in Row /\ row[q] # Null
  BY DEF Link, Advance, TypeInv, TypeOK, Shape
<1>2. /\ row'[q] = [row[q] EXCEPT !.linked = TRUE]
      /\ \A p \in Requests \ {q} : row'[p] = row[p]
  BY DEF Link, TypeInv, TypeOK
<1>3. row'[q] \in Row  BY <1>1, <1>2 DEF Row
<1>4. row'[q] # Null  BY <1>3, NullAssumption
<1> QED  BY <1>1, <1>2, <1>4 DEF Row

\* A resolution changes the status of one request, if it is there.
LEMMA ResolveEffect ==
  ASSUME NEW c \in Callers, WriteRow(c), TypeInv
  PROVE  /\ resolver[c] \in Resolution /\ resolver[c] # Null /\ resolver[c].id \in Requests
         /\ resolver[c].at = "writing"
         /\ \A p \in Requests \ {resolver[c].id} : row'[p] = row[p]
         /\ row[resolver[c].id] = Null => row'[resolver[c].id] = Null
         /\ row[resolver[c].id] # Null =>
              /\ row'[resolver[c].id] # Null
              /\ row'[resolver[c].id].status = resolver[c].status
              /\ row'[resolver[c].id].days = row[resolver[c].id].days
              /\ row'[resolver[c].id].deleted = row[resolver[c].id].deleted
<1>1. /\ resolver[c] \in Resolution /\ resolver[c] # Null /\ resolver[c].id \in Requests
      /\ resolver[c].at = "writing"
  BY DEF WriteRow, TypeInv, TypeOK, Resolution
<1>2. CASE row[resolver[c].id] = Null  BY <1>1, <1>2 DEF WriteRow
<1>3. CASE row[resolver[c].id] # Null
  <2>1. row' = [row EXCEPT ![resolver[c].id].status = resolver[c].status]
    BY <1>3 DEF WriteRow
  <2>2. row[resolver[c].id] \in Row  BY <1>1, <1>3 DEF TypeInv, TypeOK
  <2>3. /\ \A p \in Requests \ {resolver[c].id} : row'[p] = row[p]
        /\ row'[resolver[c].id] = [row[resolver[c].id] EXCEPT !.status = resolver[c].status]
    BY <1>1, <2>1 DEF TypeInv, TypeOK
  <2>4. row'[resolver[c].id] \in Row  BY <1>1, <2>2, <2>3 DEF Row, Resolution
  <2>5. row'[resolver[c].id] # Null  BY <2>4, NullAssumption
  <2> QED  BY <1>1, <1>3, <2>2, <2>3, <2>5 DEF Row
<1> QED  BY <1>2, <1>3

\* An orphan is left alone or dropped.
LEMMA OrphanEffect ==
  ASSUME CheckOrphan, TypeInv
  PROVE  \A p \in Requests :
           \/ row'[p] = row[p]
           \/ /\ row[p] # Null /\ row'[p] # Null /\ row'[p].status = "rejected"
              /\ row'[p].deleted
              /\ row'[p].days = row[p].days
<1>1. PICK q \in start.todo :
        /\ row[q] # Null
        /\ row' = IF row[q].days = {} \/ Conflicts(row[q].days, q)
                  THEN [row EXCEPT ![q].status = "rejected", ![q].deleted = TRUE] ELSE row
  BY DEF CheckOrphan
<1>2. q \in Requests  BY <1>1 DEF CheckOrphan, TypeInv, Shape
<1>3. CASE row' = row  BY <1>3
<1>4. CASE row' = [row EXCEPT ![q].status = "rejected", ![q].deleted = TRUE]
  <2>1. row[q] \in Row  BY <1>1, <1>2 DEF TypeInv, TypeOK
  <2>2. /\ row'[q] = [row[q] EXCEPT !.status = "rejected", !.deleted = TRUE]
        /\ \A p \in Requests \ {q} : row'[p] = row[p]
    BY <1>2, <1>4 DEF TypeInv, TypeOK
  <2>3. row'[q] \in Row  BY <2>1, <2>2 DEF Row
  <2>4. row'[q] # Null  BY <2>3, NullAssumption
  <2>5. row'[q].status = "rejected" /\ row'[q].deleted /\ row'[q].days = row[q].days
    BY <2>1, <2>2 DEF Row
  <2> QED  BY <1>1, <2>2, <2>4, <2>5
<1> QED  BY <1>1, <1>3, <1>4

\* A call goes on, with its copy.
LEMMA GotoEffect ==
  ASSUME NEW a \in Admins, admin[a] # Null, TypeInv,
         NEW at \in {"checking", "reverting", "writing", "cancelling", "creating", "syncing"},
         AdminGoto(a, at)
  PROVE  /\ admin[a] \in Change /\ admin'[a] # Null /\ admin'[a] = [admin[a] EXCEPT !.at = at]
         /\ admin'[a].at = at /\ admin'[a].id = admin[a].id /\ admin'[a].kind = admin[a].kind
         /\ admin'[a].day = admin[a].day /\ admin'[a].to = admin[a].to
         /\ admin'[a].days = admin[a].days /\ admin'[a].approved = admin[a].approved
         /\ \A b \in Admins \ {a} : admin'[b] = admin[b]
<1>1. admin[a] \in Change  BY DEF TypeInv, TypeOK
<1>2. /\ admin'[a] = [admin[a] EXCEPT !.at = at]
      /\ \A b \in Admins \ {a} : admin'[b] = admin[b]
  BY DEF AdminGoto, TypeInv, TypeOK
<1>3. admin'[a].at = at /\ admin'[a].id = admin[a].id  BY <1>1, <1>2 DEF Change
<1>4. admin'[a] # Null
  <2>1. admin'[a] \in Change  BY <1>1, <1>2 DEF Change
  <2> QED  BY <2>1, NullAssumption
<1> QED  BY <1>1, <1>2, <1>3, <1>4 DEF Change

\* A call ends.
LEMMA EndEffect ==
  ASSUME NEW a \in Admins, AdminEnd(a), TypeInv
  PROVE  admin'[a] = Null /\ \A b \in Admins \ {a} : admin'[b] = admin[b]
BY DEF AdminEnd, TypeInv, TypeOK

\* A write of a call that changes its request, or that finds it gone.
LEMMA ChangeEffect ==
  ASSUME NEW a \in Admins, DeleteWrite(a) \/ UpdateWrite(a) \/ SwapWrite(a), TypeInv,
         row[admin[a].id] # Null
  PROVE  /\ admin[a].at = "writing" /\ admin[a] # Null
         /\ \A p \in Requests \ {admin[a].id} : row'[p] = row[p]
         /\ \A b \in Admins \ {a} : admin'[b] = admin[b]
         /\ \/ admin'[a] = Null
            \/ /\ admin'[a] # Null /\ admin'[a].id = admin[a].id
               /\ admin'[a].kind = admin[a].kind /\ admin'[a].day = admin[a].day
               /\ admin'[a].to = admin[a].to /\ admin'[a].days = admin[a].days
               /\ admin'[a].approved = admin[a].approved
         /\ \/ /\ admin[a].kind = "delete" /\ admin'[a] = Null
               /\ row'[admin[a].id].status = row[admin[a].id].status
               /\ row'[admin[a].id].days = admin[a].days \ {admin[a].day}
            \/ /\ admin[a].kind = "delete"
               /\ admin'[a] # Null /\ admin'[a].at = "cancelling"
               /\ row'[admin[a].id].deleted
            \/ /\ admin[a].kind = "update"
               /\ IF admin[a].approved THEN admin'[a] # Null /\ admin'[a].at = "reverting"
                                       ELSE admin'[a] = Null
               /\ row'[admin[a].id].status = row[admin[a].id].status
               /\ row'[admin[a].id].days = (admin[a].days \ {admin[a].day}) \cup {admin[a].to}
            \/ /\ admin[a].kind = "swap"
               /\ admin'[a] # Null /\ admin'[a].at = "reverting"
               /\ row'[admin[a].id].days = admin[a].days \ {admin[a].day}
               /\ \/ row'[admin[a].id].status = row[admin[a].id].status
                     /\ row'[admin[a].id].days # {}
                  \/ row'[admin[a].id].status = "rejected" /\ row'[admin[a].id].days = {}
<1> DEFINE q    == admin[a].id
           old  == row[q]
           rest == admin[a].days \ {admin[a].day}
<1>1. admin[a].at = "writing" /\ admin[a] # Null /\ admin[a] \in Change /\ q \in Requests /\ old \in Row
  BY DEF DeleteWrite, UpdateWrite, SwapWrite, Writing, AdminAt, TypeInv, TypeOK, Change
<1>2. ASSUME NEW new \in Row, row' = [row EXCEPT ![q] = new]
      PROVE  row'[q] = new /\ \A p \in Requests \ {q} : row'[p] = row[p]
  BY <1>1, <1>2 DEF TypeInv, TypeOK
<1>3. rest \in SUBSET Days /\ rest \cup {admin[a].to} \in SUBSET Days  BY <1>1 DEF Change
<1>4. CASE DeleteWrite(a) /\ rest # {}
  <2>1. row' = [row EXCEPT ![q] = [old EXCEPT !.days = rest]] /\ AdminEnd(a) /\ admin[a].kind = "delete"
    BY <1>4 DEF DeleteWrite, AdminWrite, Writing
  <2>2. [old EXCEPT !.days = rest] \in Row  BY <1>1, <1>3 DEF Row
  <2>7. row'[q] = [old EXCEPT !.days = rest]  BY <1>2, <2>1, <2>2
  <2>3. row'[q].status = old.status /\ row'[q].days = rest
    BY <1>1, <2>7 DEF Row
  <2>4. admin'[a] = Null /\ \A b \in Admins \ {a} : admin'[b] = admin[b]  BY <2>1, EndEffect
  <2> QED  BY <1>1, <1>2, <2>1, <2>2, <2>3, <2>4
<1>5. CASE DeleteWrite(a) /\ rest = {}
  <2>1. /\ row' = [row EXCEPT ![q] = [old EXCEPT !.days = {}, !.status = "rejected", !.deleted = TRUE]]
        /\ AdminGoto(a, "cancelling") /\ admin[a].kind = "delete"
    BY <1>5 DEF DeleteWrite, AdminWrite, Writing
  <2>2. [old EXCEPT !.days = {}, !.status = "rejected", !.deleted = TRUE] \in Row  BY <1>1 DEF Row
  <2>3. row'[q].deleted  BY <1>1, <1>2, <2>1, <2>2 DEF Row
  <2> QED  BY <1>1, <1>2, <2>1, <2>2, <2>3, GotoEffect
<1>6. CASE UpdateWrite(a)
  <2>1. /\ row' = [row EXCEPT ![q] = [old EXCEPT !.days = rest \cup {admin[a].to}]]
        /\ admin[a].kind = "update"
        /\ IF admin[a].approved THEN AdminGoto(a, "reverting") ELSE AdminEnd(a)
    BY <1>6 DEF UpdateWrite, AdminWrite, Writing
  <2>2. [old EXCEPT !.days = rest \cup {admin[a].to}] \in Row  BY <1>1, <1>3 DEF Row
  <2>7. row'[q] = [old EXCEPT !.days = rest \cup {admin[a].to}]  BY <1>2, <2>1, <2>2
  <2>3. row'[q].status = old.status /\ row'[q].days = rest \cup {admin[a].to}
    BY <1>1, <2>7 DEF Row
  <2>4. CASE admin[a].approved
    BY <1>1, <1>2, <2>1, <2>2, <2>3, <2>4, GotoEffect
  <2>5. CASE ~admin[a].approved
    BY <1>1, <1>2, <2>1, <2>2, <2>3, <2>5, EndEffect
  <2> QED  BY <2>4, <2>5
<1>7. CASE SwapWrite(a)
  <2> DEFINE new == IF rest # {} THEN [old EXCEPT !.days = rest]
                                 ELSE [old EXCEPT !.days = {}, !.status = "rejected"]
  <2>1. row' = [row EXCEPT ![q] = new] /\ AdminGoto(a, "reverting") /\ admin[a].kind = "swap"
    BY <1>7 DEF SwapWrite, AdminWrite, Writing
  <2>2. new \in Row  BY <1>1, <1>3 DEF Row
  <2>3. /\ new.days = rest
        /\ \/ new.status = old.status /\ new.days # {}
           \/ new.status = "rejected" /\ new.days = {}
    BY <1>1 DEF Row
  <2>4. row'[q] = new  BY <1>2, <2>1, <2>2
  <2> HIDE DEF new
  <2> QED  BY <1>1, <1>2, <2>1, <2>2, <2>3, <2>4, GotoEffect
<1> QED  BY <1>4, <1>5, <1>6, <1>7

\* A swap has booked its day.
LEMMA CreateEffect ==
  ASSUME NEW a \in Admins, NEW q \in Requests, SwapCreate(a, q), TypeInv
  PROVE  /\ admin[a] # Null /\ admin[a] \in Change /\ admin[a].at = "creating" /\ row[q] = Null
         /\ submission[q].at = "ready" /\ submission'[q].at = "swapped"
         /\ \A p \in Requests \ {q} : row'[p] = row[p] /\ submission'[p] = submission[p]
         /\ row'[q] # Null /\ row'[q].status = "approved" /\ row'[q].days = {admin[a].to}
         /\ ~row'[q].deleted
         /\ \A b \in Admins \ {a} : admin'[b] = admin[b]
         /\ admin'[a] # Null /\ admin'[a].id = q /\ admin'[a].at = "syncing"
         /\ admin'[a].kind = admin[a].kind /\ admin'[a].day = admin[a].day
         /\ admin'[a].to = admin[a].to /\ admin'[a].days = admin[a].days
<1>1. /\ admin[a] # Null /\ admin[a] \in Change /\ admin[a].at = "creating"
      /\ submission[q].at = "ready" /\ row[q] = Null
  BY DEF SwapCreate, AdminAt, TypeInv, TypeOK, Shape
<1>2. /\ row'[q] = [status |-> "approved", days |-> {admin[a].to}, linked |-> FALSE, deleted |-> FALSE]
      /\ submission'[q].at = "swapped"
      /\ \A p \in Requests \ {q} : row'[p] = row[p] /\ submission'[p] = submission[p]
  BY DEF SwapCreate, TypeInv, TypeOK, Submission
<1>3. row'[q] \in Row  BY <1>1, <1>2 DEF Row, Change
<1>4. row'[q] # Null  BY <1>3, NullAssumption
<1>5. /\ admin'[a] = [admin[a] EXCEPT !.id = q, !.at = "syncing"]
      /\ \A b \in Admins \ {a} : admin'[b] = admin[b]
  BY DEF SwapCreate, TypeInv, TypeOK
<1>6. admin'[a] \in Change  BY <1>1, <1>5 DEF Change
<1>7. admin'[a] # Null  BY <1>6, NullAssumption
<1>8. /\ admin'[a].id = q /\ admin'[a].at = "syncing"
      /\ admin'[a].kind = admin[a].kind /\ admin'[a].day = admin[a].day
      /\ admin'[a].to = admin[a].to /\ admin'[a].days = admin[a].days
  BY <1>1, <1>5 DEF Change
<1> QED  BY <1>1, <1>2, <1>4, <1>5, <1>7, <1>8

\* A call has taken its copy.
LEMMA ReadEffect ==
  ASSUME NEW a \in Admins, NEW kind \in {"delete", "update", "swap"}, NEW q \in Requests,
         NEW d \in Days, NEW to \in Days, NEW at \in {"checking", "reverting", "writing"},
         AdminRead(a, kind, q, d, to, at), TypeInv
  PROVE  /\ UNCHANGED <<table, submission, resolver, start, cut, missed>>
         /\ row[q] # Null /\ d \in row[q].days
         /\ ~crossed' => ~crossed /\ Changing(q) = {}
         /\ admin[a] = Null
         /\ \A b \in Admins \ {a} : admin'[b] = admin[b]
         /\ admin'[a] # Null /\ admin'[a].id = q /\ admin'[a].at = at
         /\ admin'[a].kind = kind /\ admin'[a].day = d /\ admin'[a].to = to
         /\ admin'[a].days = row[q].days /\ (admin'[a].approved <=> row[q].status = "approved")
<1> DEFINE new == [kind |-> kind, at |-> at, id |-> q, day |-> d, to |-> to, days |-> row[q].days,
                   approved |-> row[q].status = "approved"]
<1>1. row[q] \in Row /\ row[q] # Null  BY DEF AdminRead, Live, TypeInv, TypeOK
<1>2. admin'[a] = new /\ \A b \in Admins \ {a} : admin'[b] = admin[b]
  BY DEF AdminRead, TypeInv, TypeOK
<1>3. new \in Change  BY <1>1 DEF Change, Row
<1>4. admin'[a] # Null  BY <1>2, <1>3, NullAssumption
<1>5. ~crossed' => ~crossed /\ Changing(q) = {}  BY DEF AdminRead, TypeInv, TypeOK
<1>6. /\ UNCHANGED <<table, submission, resolver, start, cut, missed>>
      /\ d \in row[q].days /\ admin[a] = Null
  BY DEF AdminRead
<1>7. /\ admin'[a].id = q /\ admin'[a].at = at
      /\ admin'[a].kind = kind /\ admin'[a].day = d /\ admin'[a].to = to
      /\ admin'[a].days = row[q].days /\ admin'[a].approved = (row[q].status = "approved")
  BY <1>2
<1> QED  BY <1>1, <1>2, <1>4, <1>5, <1>6, <1>7
-----------------------------------------------------------------------------
(*****************************************************************************)
(* The repair of a start: what it found stays listed, or in its hands,      *)
(* until it is not pending any more. No other step makes a request pending  *)
(* that is not just being inserted.                                         *)
(*****************************************************************************)

\* What a start has still to repair.
Repairing ==
    /\ resolver["start"] # Null => start.at = "repairing"
    /\ \A q \in Requests : resolver["start"] # Null /\ resolver["start"].id = q /\ resolver["start"].at = "syncing"
         => submission[q].at \notin {"ready", "checked"} /\ ~Pending(q)
    /\ \A q \in missed : submission[q].at \notin {"ready", "checked"}
    /\ start.at = "repairing" => \A q \in missed :
             \/ ~Pending(q)
             \/ \E t \in start.todo : t.id = q
             \/ resolver["start"] # Null /\ resolver["start"].id = q
    /\ start.at = "orphans" => \A q \in missed : ~Pending(q)

\* A request that is not waiting to be inserted does not become pending.
Settling == \A q \in Requests : submission[q].at \notin {"ready", "checked"} =>
    /\ submission'[q].at \notin {"ready", "checked"}
    /\ (Pending(q))' => Pending(q)

\* A step of somebody else.
Idle == UNCHANGED <<start, missed>> /\ resolver'["start"] = resolver["start"]

\* onWorkflowResolved writes: which requests are pending.
LEMMA SettlingWriteRow ==
  ASSUME NEW c \in Callers, WriteRow(c), TypeInv PROVE Settling
<1>1. resolver[c] \in Resolution /\ resolver[c].id \in Requests /\ resolver[c].status # "pending"
  BY DEF WriteRow, TypeInv, TypeOK, Resolution
<1>2. submission' = submission  BY DEF WriteRow
<1>3. CASE row' = row  BY <1>2, <1>3 DEF Settling, Pending, Live
<1>4. CASE row[resolver[c].id] # Null /\ row' = [row EXCEPT ![resolver[c].id].status = resolver[c].status]
  <2>1. row[resolver[c].id] \in Row  BY <1>1, <1>4 DEF TypeInv, TypeOK
  <2>2. row'[resolver[c].id].status = resolver[c].status  BY <1>1, <1>4, <2>1 DEF TypeInv, TypeOK, Row
  <2>3. \A p \in Requests \ {resolver[c].id} : row'[p] = row[p]  BY <1>4 DEF TypeInv, TypeOK
  <2> QED  BY <1>1, <1>2, <2>2, <2>3 DEF Settling, Pending, Live
<1> QED  BY <1>3, <1>4 DEF WriteRow

\* A start lists what to repair: which requests are pending.
LEMMA SettlingStart ==
  ASSUME Start, TypeInv PROVE Settling
<1>1. row' = row /\ submission' = submission  BY DEF Start, table
<1> QED  BY <1>1 DEF Settling, Pending, Live

\* A deletion, a change or a swap writes: which requests are pending.
LEMMA SettlingWrites ==
  ASSUME NEW a \in Admins, DeleteWrite(a) \/ UpdateWrite(a) \/ SwapWrite(a), TypeInv
  PROVE  Settling
<1>1. submission' = submission  BY DEF DeleteWrite, UpdateWrite, SwapWrite, AdminWrite
<1>2. \A p \in Requests : p # admin[a].id => ((Pending(p))' => Pending(p))
  BY Writes DEF Pending, Live
<1>3. \A p \in Requests : p = admin[a].id => ((Pending(p))' => Pending(p))
  BY Writes DEF Pending, Live
<1> QED  BY <1>1, <1>2, <1>3 DEF Settling

\* Only the insertion of a request makes it pending.
LEMMA SettlingStep ==
  ASSUME TypeInv, [Next]_vars PROVE Settling
<1>1. ASSUME NEW q \in Requests, NEW days \in Choices[q], Check(q, days) PROVE Settling
  BY <1>1, MonthlyOffAssumption DEF Check, table, Settling, Pending, Live
<1>2. ASSUME NEW q \in Requests, Insert(q) PROVE Settling
  BY <1>2, MonthlyOffAssumption DEF Insert, Settling, Pending, Live
<1>3. ASSUME NEW q \in Requests, StartWorkflow(q) PROVE Settling
  BY <1>3, MonthlyOffAssumption DEF StartWorkflow, Advance, Settling, Pending, Live
<1>4. ASSUME NEW q \in Requests, Link(q) PROVE Settling
  BY <1>4, MonthlyOffAssumption DEF Link, Advance, TypeInv, Shape, Settling, Pending, Live
<1>5. ASSUME NEW q \in Requests, SubmitFails(q) PROVE Settling
  BY <1>5, MonthlyOffAssumption DEF SubmitFails, Settling, Pending, Live
<1>6. ASSUME NEW q \in Requests, SubmitCrashes(q) PROVE Settling
  BY <1>6, MonthlyOffAssumption DEF SubmitCrashes, table, Settling, Pending, Live
<1>7. ASSUME NEW q \in Requests, NEW status \in Outcomes, Act(q, status) PROVE Settling
  BY <1>7, MonthlyOffAssumption DEF Act, Settling, Pending, Live
<1>8. ASSUME NEW q \in Requests, Publish(q) PROVE Settling
  BY <1>8, MonthlyOffAssumption DEF Publish, Settling, Pending, Live
<1>9. ASSUME NEW q \in Requests, LoseEvent(q) PROVE Settling
  BY <1>9, MonthlyOffAssumption DEF LoseEvent, Settling, Pending, Live
<1>10. ASSUME NEW q \in Requests, Deliver(q) PROVE Settling
  BY <1>10, MonthlyOffAssumption DEF Deliver, table, Settling, Pending, Live
<1>11. ASSUME NEW c \in Callers, ReadRow(c) PROVE Settling
  BY <1>11, MonthlyOffAssumption DEF ReadRow, Settling, Pending, Live
<1>12. ASSUME NEW c \in Callers, WriteRow(c) PROVE Settling
  BY <1>12, SettlingWriteRow
<1>13. ASSUME NEW c \in Callers, NEW d \in Days, SyncDay(c, d) PROVE Settling
  BY <1>13, MonthlyOffAssumption DEF SyncDay, Settling, Pending, Live
<1>14. ASSUME NEW c \in Callers, SyncDone(c) PROVE Settling
  BY <1>14, MonthlyOffAssumption DEF SyncDone, Settling, Pending, Live
<1>15. ASSUME NEW c \in Callers, ResolverFails(c) PROVE Settling
  BY <1>15, MonthlyOffAssumption DEF ResolverFails, Settling, Pending, Live
<1>16. ASSUME NEW c \in Callers, ResolverCrashes(c) PROVE Settling
  BY <1>16, MonthlyOffAssumption DEF ResolverCrashes, table, Settling, Pending, Live
<1>17. ASSUME Start PROVE Settling
  BY <1>17, SettlingStart
<1>18. ASSUME Repair PROVE Settling
  BY <1>18, MonthlyOffAssumption DEF Repair, table, Settling, Pending, Live
<1>19. ASSUME FindOrphans PROVE Settling
  BY <1>19, MonthlyOffAssumption DEF FindOrphans, table, Settling, Pending, Live
<1>20. ASSUME CheckOrphan PROVE Settling
  BY <1>20, MonthlyOffAssumption DEF CheckOrphan, TypeInv, TypeOK, Settling, Pending, Live
<1>21. ASSUME OrphanGone PROVE Settling
  BY <1>21, MonthlyOffAssumption DEF OrphanGone, table, Settling, Pending, Live
<1>22. ASSUME Sweep PROVE Settling
  BY <1>22, MonthlyOffAssumption DEF Sweep, Settling, Pending, Live
<1>23. ASSUME NEW a \in Admins, AdminCheck(a) PROVE Settling
  BY <1>23, MonthlyOffAssumption DEF AdminCheck, table, Settling, Pending, Live
<1>24. ASSUME NEW a \in Admins, NEW q \in Requests, NEW d \in Days, DeleteRead(a, q, d)
      PROVE  Settling
  BY <1>24, MonthlyOffAssumption DEF DeleteRead, AdminRead, table, Settling, Pending, Live
<1>25. ASSUME NEW a \in Admins, NEW q \in Requests, NEW d \in Days, NEW to \in Days, UpdateRead(a, q, d, to)
      PROVE  Settling
  BY <1>25, MonthlyOffAssumption DEF UpdateRead, AdminRead, table, Settling, Pending, Live
<1>26. ASSUME NEW a \in Admins, NEW q \in Requests, NEW d \in Days, NEW to \in Days, SwapRead(a, q, d, to)
      PROVE  Settling
  BY <1>26, MonthlyOffAssumption DEF SwapRead, AdminRead, table, Settling, Pending, Live
<1>27. ASSUME NEW a \in Admins, AdminRevert(a) PROVE Settling
  BY <1>27, MonthlyOffAssumption DEF AdminRevert, Settling, Pending, Live
<1>28. ASSUME NEW a \in Admins, AdminCancel(a) PROVE Settling
  BY <1>28, MonthlyOffAssumption DEF AdminCancel, Settling, Pending, Live
<1>29. ASSUME NEW a \in Admins, DeleteWrite(a) PROVE Settling
  BY <1>29, SettlingWrites
<1>30. ASSUME NEW a \in Admins, UpdateWrite(a) PROVE Settling
  BY <1>30, SettlingWrites
<1>31. ASSUME NEW a \in Admins, SwapWrite(a) PROVE Settling
  BY <1>31, SettlingWrites
<1>32. ASSUME NEW a \in Admins, NEW q \in Requests, SwapCreate(a, q) PROVE Settling
  BY <1>32, MonthlyOffAssumption DEF SwapCreate, Settling, Pending, Live
<1>33. ASSUME NEW a \in Admins, AdminSync(a) PROVE Settling
  BY <1>33, MonthlyOffAssumption DEF AdminSync, Settling, Pending, Live
<1>34. ASSUME NEW a \in Admins, AdminFails(a) PROVE Settling
  BY <1>34, MonthlyOffAssumption DEF AdminFails, table, Settling, Pending, Live
<1>35. CASE UNCHANGED vars
  BY <1>35 DEF vars, table, history, Settling, Pending, Live
<1> QED
  BY <1>1, <1>2, <1>3, <1>4, <1>5, <1>6, <1>7, <1>8, <1>9, <1>10, <1>11, <1>12, <1>13, <1>14,
    <1>15, <1>16, <1>17, <1>18, <1>19, <1>20, <1>21, <1>22, <1>23, <1>24, <1>25, <1>26, <1>27,
    <1>28, <1>29, <1>30, <1>31, <1>32, <1>33, <1>34, <1>35 DEF Next

\* Steps of others.
LEMMA RepairingKept ==
  ASSUME TypeInv, Settling, Idle, Repairing PROVE Repairing'
<1>1. missed \subseteq Requests  BY DEF TypeInv, TypeOK
<1> QED  BY <1>1 DEF Settling, Idle, Repairing

\* The call of the repair is still about the same request.
LEMMA RepairingCalled ==
  ASSUME TypeInv, Settling, Repairing, UNCHANGED <<start, missed>>,
         resolver["start"] # Null <=> resolver'["start"] # Null,
         resolver["start"] # Null => resolver'["start"].id = resolver["start"].id,
         \A q \in Requests : resolver["start"] # Null /\ q = resolver["start"].id =>
            \/ resolver'["start"].at # "syncing"
            \/ resolver["start"].at = "syncing"
            \/ submission'[q].at \notin {"ready", "checked"} /\ ~(Pending(q))'
  PROVE  Repairing'
<1>1. missed \subseteq Requests  BY DEF TypeInv, TypeOK
<1> QED  BY <1>1 DEF Settling, Repairing

\* The call of the repair has ended, and its request is not pending.
LEMMA RepairingReturned ==
  ASSUME TypeInv, Settling, Repairing, UNCHANGED <<start, missed>>,
         resolver["start"] # Null, resolver'["start"] = Null,
         NEW q \in Requests, q = resolver["start"].id, ~(Pending(q))'
  PROVE  Repairing'
<1>1. missed \subseteq Requests  BY DEF TypeInv, TypeOK
<1> QED  BY <1>1 DEF Settling, Repairing

\* onWorkflowResolved reads: the repair.
LEMMA RepairingReadRow ==
  ASSUME NEW c \in Callers, ReadRow(c), TypeInv, Settling, Repairing PROVE Repairing'
<1>1. UNCHANGED <<row, start, missed>> /\ resolver[c] \in Resolution /\ resolver[c] # Null
  BY DEF ReadRow, history, TypeInv, TypeOK
<1>2. "start" \in Callers  BY DEF Callers
<1>3. CASE Pending(resolver[c].id)
  <2>1. resolver' = [resolver EXCEPT ![c].at = "writing", ![c].days = row[resolver[c].id].days]
    BY <1>3 DEF ReadRow
  <2>2. resolver'[c] # Null /\ resolver'[c].id = resolver[c].id /\ resolver'[c].at = "writing" /\ \A d \in Callers \ {c} : resolver'[d] = resolver[d]
    <3>1. row[resolver[c].id].days \in SUBSET Days
      BY <1>1, <1>3 DEF Pending, Live, TypeInv, TypeOK, Resolution, Row
    <3>2. [resolver[c] EXCEPT !.at = "writing", !.days = row[resolver[c].id].days] \in Resolution
      BY <1>1, <3>1 DEF Resolution
    <3> QED  BY <1>1, <2>1, <3>2, NullAssumption DEF TypeInv, TypeOK, Resolution
  <2> QED  BY <1>1, <1>2, <2>2, RepairingCalled
<1>4. CASE ~Pending(resolver[c].id)
  <2>1. resolver'[c] = Null /\ \A d \in Callers \ {c} : resolver'[d] = resolver[d]
    BY <1>4, ReturnEnds DEF ReadRow
  <2>2. CASE c = "start"
    <3>1. PICK q \in Requests : q = resolver[c].id  BY <1>1 DEF Resolution
    <3>2. ~(Pending(q))'  BY <1>1, <1>4, <3>1 DEF Pending, Live
    <3> QED  BY <1>1, <2>1, <2>2, <3>1, <3>2, RepairingReturned
  <2>3. CASE c # "start"
    BY <1>1, <1>2, <2>1, <2>3, RepairingKept DEF Idle
  <2> QED  BY <2>2, <2>3
<1> QED  BY <1>3, <1>4

\* onWorkflowResolved writes: the repair.
LEMMA RepairingWriteRow ==
  ASSUME NEW c \in Callers, WriteRow(c), TypeInv, Settling, Repairing PROVE Repairing'
<1>1. UNCHANGED <<start, missed>> /\ resolver[c] \in Resolution /\ resolver[c] # Null /\ "start" \in Callers
  BY DEF WriteRow, history, TypeInv, TypeOK, Callers
<1>2. PICK q \in Requests : q = resolver[c].id  BY <1>1 DEF Resolution
<1>3. ~(Pending(q))'
  <2>1. CASE row[q] = Null
    BY <1>2, <2>1 DEF WriteRow, Pending, Live
  <2>2. CASE row[q] # Null
    <3>1. row' = [row EXCEPT ![q].status = resolver[c].status] /\ row[q] \in Row
      BY <1>2, <2>2 DEF WriteRow, TypeInv, TypeOK
    <3>2. row'[q].status = resolver[c].status  BY <3>1 DEF TypeInv, TypeOK, Row
    <3> QED  BY <1>1, <3>2 DEF Pending, Resolution
  <2> QED  BY <2>1, <2>2
<1>4. CASE resolver' = [resolver EXCEPT ![c].at = "syncing"] /\ row[q] # Null
  <2>1. resolver'[c] # Null /\ resolver'[c].id = resolver[c].id /\ \A d \in Callers \ {c} : resolver'[d] = resolver[d]
    <3>1. [resolver[c] EXCEPT !.at = "syncing"] \in Resolution  BY <1>1 DEF Resolution
    <3> QED  BY <1>1, <1>4, <3>1, NullAssumption DEF TypeInv, TypeOK, Resolution
  <2>2. submission'[q].at \notin {"ready", "checked"}  BY <1>4 DEF WriteRow, TypeInv, Shape
  <2> QED  BY <1>1, <1>2, <1>3, <2>1, <2>2, RepairingCalled
<1>5. CASE Return(c, TRUE) \/ Return(c, FALSE)
  <2>1. resolver'[c] = Null /\ \A d \in Callers \ {c} : resolver'[d] = resolver[d]
    BY <1>5, ReturnEnds
  <2>2. CASE c = "start"
    BY <1>1, <1>2, <1>3, <2>1, <2>2, RepairingReturned
  <2>3. CASE c # "start"
    BY <1>1, <2>1, <2>3, RepairingKept DEF Idle
  <2> QED  BY <2>2, <2>3
<1> QED  BY <1>2, <1>4, <1>5 DEF WriteRow

\* A day is recorded: the repair.
LEMMA RepairingSyncDay ==
  ASSUME NEW c \in Callers, NEW d \in Days, SyncDay(c, d), TypeInv, Settling, Repairing PROVE Repairing'
<1>1. UNCHANGED <<start, missed>> /\ resolver[c] \in Resolution /\ resolver[c] # Null /\ "start" \in Callers
  BY DEF SyncDay, history, TypeInv, TypeOK, Callers
<1>2. [resolver[c] EXCEPT !.days = @ \ {d}] \in Resolution  BY <1>1 DEF Resolution
<1>3. resolver'[c] # Null /\ resolver'[c].id = resolver[c].id /\ resolver[c].at = "syncing" /\ \A b \in Callers \ {c} : resolver'[b] = resolver[b]
  BY <1>1, <1>2, NullAssumption DEF SyncDay, TypeInv, TypeOK, Resolution
<1> QED  BY <1>1, <1>3, RepairingCalled

\* All days are recorded: the repair.
LEMMA RepairingSyncDone ==
  ASSUME NEW c \in Callers, SyncDone(c), TypeInv, Settling, Repairing PROVE Repairing'
<1>1. UNCHANGED <<row, start, missed>> /\ resolver[c] \in Resolution /\ resolver[c] # Null /\ "start" \in Callers
  BY DEF SyncDone, history, TypeInv, TypeOK, Callers
<1>2. resolver'[c] = Null /\ \A d \in Callers \ {c} : resolver'[d] = resolver[d]
  BY ReturnEnds DEF SyncDone
<1>3. CASE c = "start"
  <2>1. PICK q \in Requests : q = resolver[c].id  BY <1>1 DEF Resolution
  <2>2. ~(Pending(q))'  BY <1>1, <1>3, <2>1 DEF SyncDone, Repairing, Pending, Live
  <2> QED  BY <1>1, <1>2, <1>3, <2>1, <2>2, RepairingReturned
<1>4. CASE c # "start"
  BY <1>1, <1>2, <1>4, RepairingKept DEF Idle
<1> QED  BY <1>3, <1>4

\* A start lists what to repair: the repair.
LEMMA RepairingStart ==
  ASSUME Start, TypeInv, Repairing PROVE Repairing'
<1>1. UNCHANGED <<row, submission, resolver, workflow>> /\ resolver["start"] = Null
  BY DEF Start, table, Repairing
<1>2. \A q \in Requests : Pending(q) => submission[q].at \notin {"ready", "checked"}
  BY DEF TypeInv, Shape, Pending, Live
<1>3. missed' \subseteq {q \in Requests : Pending(q) /\ row[q].linked /\ workflow[q] \in Terminal}
  BY DEF Start
<1>4. CASE \E q \in Requests : Pending(q) /\ row[q].linked
  <2>1. start' = [at |-> "repairing", todo |-> {[id |-> q, status |-> workflow[q]] : q \in Repairable}]
    BY <1>4 DEF Start
  <2>2. \A q \in missed' : q \in Repairable  BY <1>3 DEF Repairable, Terminal
  <2>3. start'.todo = {[id |-> q, status |-> workflow[q]] : q \in Repairable}  BY <2>1
  <2>4. \A q \in Repairable : [id |-> q, status |-> workflow[q]] \in start'.todo  BY <2>3
  <2>5. \A q \in missed' : \E t \in start'.todo : t.id = q  BY <2>2, <2>4
  <2>6. start'.at = "repairing"  BY <2>1
  <2> QED  BY <1>1, <1>2, <1>3, <2>5, <2>6 DEF Repairing
<1>5. CASE ~\E q \in Requests : Pending(q) /\ row[q].linked
  BY <1>1, <1>3, <1>5 DEF Repairing
<1> QED  BY <1>4, <1>5

\* The repair takes the next request: the repair.
LEMMA RepairingRepair ==
  ASSUME Repair, TypeInv, TypeInv', Settling, Repairing PROVE Repairing'
<1>1. PICK t \in start.todo : Call("start", t.id, t.status) /\ start' = [start EXCEPT !.todo = @ \ {t}]
  BY DEF Repair
<1>2. start.at = "repairing" /\ start'.at = "repairing" /\ start'.todo = start.todo \ {t} /\ missed' = missed
  BY <1>1 DEF Repair, history, TypeInv, Shape
<1>3. resolver["start"] = Null /\ resolver'["start"].id = t.id /\ resolver'["start"].at = "reading" /\ resolver'["start"] # Null
  <2>1. resolver' = [resolver EXCEPT !["start"] = [at |-> "reading", id |-> t.id,
                                            status |-> Verdict(t.status), days |-> {}]]
    BY <1>1 DEF Call
  <2>2. resolver'["start"] = [at |-> "reading", id |-> t.id, status |-> Verdict(t.status), days |-> {}]
    BY <2>1 DEF TypeInv, TypeOK, Callers
  <2>3. t.id \in Requests  BY <1>2 DEF TypeInv, Shape, Todo
  <2>4. resolver'["start"] \in Resolution  BY <2>2, <2>3 DEF Resolution, Verdict
  <2> QED  BY <1>1, <2>2, <2>4, NullAssumption DEF Call
<1>4. missed \subseteq Requests  BY DEF TypeInv, TypeOK
<1>5. \A q \in missed : ~(Pending(q))' \/ (\E u \in start'.todo : u.id = q) \/ resolver'["start"].id = q
  BY <1>2, <1>3, <1>4 DEF Settling, Repairing
<1> QED  BY <1>2, <1>3, <1>4, <1>5 DEF Settling, Repairing

\* The repair is through: the repair.
LEMMA RepairingFindOrphans ==
  ASSUME FindOrphans, TypeInv, Settling, Repairing PROVE Repairing'
<1>1. /\ start.at = "repairing" /\ start.todo = {} /\ start'.at = "orphans"
      /\ resolver["start"] = Null /\ UNCHANGED <<resolver, missed>>
  BY DEF FindOrphans, history
<1>2. missed \subseteq Requests  BY DEF TypeInv, TypeOK
<1> QED  BY <1>1, <1>2 DEF Settling, Repairing

\* Every step keeps Repairing.
LEMMA RepairingStep ==
  ASSUME TypeInv, TypeInv', Settling, Repairing, [Next]_vars PROVE Repairing'
<1>1. ASSUME NEW q \in Requests, NEW days \in Choices[q], Check(q, days) PROVE Repairing'
  BY <1>1, RepairingKept DEF Check, Idle
<1>2. ASSUME NEW q \in Requests, Insert(q) PROVE Repairing'
  BY <1>2, RepairingKept DEF Insert, history, Idle
<1>3. ASSUME NEW q \in Requests, StartWorkflow(q) PROVE Repairing'
  BY <1>3, RepairingKept DEF StartWorkflow, history, Idle
<1>4. ASSUME NEW q \in Requests, Link(q) PROVE Repairing'
  BY <1>4, RepairingKept DEF Link, history, Idle
<1>5. ASSUME NEW q \in Requests, SubmitFails(q) PROVE Repairing'
  BY <1>5, RepairingKept DEF SubmitFails, Idle
<1>6. ASSUME NEW q \in Requests, SubmitCrashes(q) PROVE Repairing'
  BY <1>6, RepairingKept DEF SubmitCrashes, history, Idle
<1>7. ASSUME NEW q \in Requests, NEW status \in Outcomes, Act(q, status) PROVE Repairing'
  BY <1>7, RepairingKept DEF Act, history, Idle
<1>8. ASSUME NEW q \in Requests, Publish(q) PROVE Repairing'
  BY <1>8, RepairingKept DEF Publish, history, Idle
<1>9. ASSUME NEW q \in Requests, LoseEvent(q) PROVE Repairing'
  BY <1>9, RepairingKept DEF LoseEvent, history, Idle
<1>10. ASSUME NEW q \in Requests, Deliver(q) PROVE Repairing'
  BY <1>10, RepairingKept DEF Deliver, Call, history, Idle
<1>11. ASSUME NEW c \in Callers, ReadRow(c) PROVE Repairing'
  BY <1>11, RepairingReadRow
<1>12. ASSUME NEW c \in Callers, WriteRow(c) PROVE Repairing'
  BY <1>12, RepairingWriteRow
<1>13. ASSUME NEW c \in Callers, NEW d \in Days, SyncDay(c, d) PROVE Repairing'
  BY <1>13, RepairingSyncDay
<1>14. ASSUME NEW c \in Callers, SyncDone(c) PROVE Repairing'
  BY <1>14, RepairingSyncDone
<1>15. ASSUME NEW c \in Callers, ResolverFails(c) PROVE Repairing'
  BY <1>15 DEF ResolverFails, Return, TypeInv, TypeOK, Settling, Repairing
<1>16. ASSUME NEW c \in Callers, ResolverCrashes(c) PROVE Repairing'
  BY <1>16 DEF ResolverCrashes, TypeInv, TypeOK, Settling, Repairing
<1>17. ASSUME Start PROVE Repairing'
  BY <1>17, RepairingStart
<1>18. ASSUME Repair PROVE Repairing'
  BY <1>18, RepairingRepair
<1>19. ASSUME FindOrphans PROVE Repairing'
  BY <1>19, RepairingFindOrphans
<1>20. ASSUME CheckOrphan PROVE Repairing'
  BY <1>20 DEF CheckOrphan, TypeInv, TypeOK, history, Settling, Repairing
<1>21. ASSUME OrphanGone PROVE Repairing'
  BY <1>21 DEF OrphanGone, TypeInv, TypeOK, history, Settling, Repairing
<1>22. ASSUME Sweep PROVE Repairing'
  BY <1>22 DEF Sweep, history, Repairing
<1>23. ASSUME NEW a \in Admins, AdminCheck(a) PROVE Repairing'
  BY <1>23, RepairingKept DEF AdminCheck, Idle
<1>24. ASSUME NEW a \in Admins, NEW q \in Requests, NEW d \in Days, DeleteRead(a, q, d)
      PROVE  Repairing'
  BY <1>24, RepairingKept DEF DeleteRead, AdminRead, Idle
<1>25. ASSUME NEW a \in Admins, NEW q \in Requests, NEW d \in Days, NEW to \in Days, UpdateRead(a, q, d, to)
      PROVE  Repairing'
  BY <1>25, RepairingKept DEF UpdateRead, AdminRead, Idle
<1>26. ASSUME NEW a \in Admins, NEW q \in Requests, NEW d \in Days, NEW to \in Days, SwapRead(a, q, d, to)
      PROVE  Repairing'
  BY <1>26, RepairingKept DEF SwapRead, AdminRead, Idle
<1>27. ASSUME NEW a \in Admins, AdminRevert(a) PROVE Repairing'
  BY <1>27, RepairingKept DEF AdminRevert, Idle
<1>28. ASSUME NEW a \in Admins, AdminCancel(a) PROVE Repairing'
  BY <1>28, RepairingKept DEF AdminCancel, history, Idle
<1>29. ASSUME NEW a \in Admins, DeleteWrite(a) PROVE Repairing'
  BY <1>29, RepairingKept DEF DeleteWrite, AdminWrite, Idle
<1>30. ASSUME NEW a \in Admins, UpdateWrite(a) PROVE Repairing'
  BY <1>30, RepairingKept DEF UpdateWrite, AdminWrite, Idle
<1>31. ASSUME NEW a \in Admins, SwapWrite(a) PROVE Repairing'
  BY <1>31, RepairingKept DEF SwapWrite, AdminWrite, Idle
<1>32. ASSUME NEW a \in Admins, NEW q \in Requests, SwapCreate(a, q) PROVE Repairing'
  BY <1>32, RepairingKept DEF SwapCreate, history, Idle
<1>33. ASSUME NEW a \in Admins, AdminSync(a) PROVE Repairing'
  BY <1>33, RepairingKept DEF AdminSync, history, Idle
<1>34. ASSUME NEW a \in Admins, AdminFails(a) PROVE Repairing'
  BY <1>34, RepairingKept DEF AdminFails, Idle
<1>35. CASE UNCHANGED vars
  BY <1>35 DEF vars, table, history, Repairing, Pending, Live
<1> QED
  BY <1>1, <1>2, <1>3, <1>4, <1>5, <1>6, <1>7, <1>8, <1>9, <1>10, <1>11, <1>12, <1>13, <1>14,
    <1>15, <1>16, <1>17, <1>18, <1>19, <1>20, <1>21, <1>22, <1>23, <1>24, <1>25, <1>26, <1>27,
    <1>28, <1>29, <1>30, <1>31, <1>32, <1>33, <1>34, <1>35 DEF Next

\* A start applies every decision it found unapplied before it sweeps the outbox.
\* (reconcileResolvedWorkflows, then markStaleMonthlyOffOutboxProcessed: no event is
\* settled whose decision the repair saw and did not apply.)
THEOREM RepairedOnStart == Spec => []RepairedByStart
<1>1. Init => Repairing
  BY DEF Init, Repairing, Callers
<1>2. TypeInv /\ Repairing /\ [Next]_vars => Repairing'
  BY TypeStep, SettlingStep, RepairingStep
<1>3. TypeInv /\ Repairing => RepairedByStart
  BY DEF TypeInv, TypeOK, Repairing, RepairedByStart
<1> QED  BY <1>1, <1>2, <1>3, InitTyped, TypeStep, PTL DEF Spec
-----------------------------------------------------------------------------
(*****************************************************************************)
(* The way of a decision from the workflow to the request.                  *)
(*****************************************************************************)

\* What the workflow and its event can be.
Deciding ==
    /\ \A q \in Requests :
        submission[q].at \in {"ready", "checked", "inserted", "swapped"} => workflow[q] = "none"
    /\ \A q \in Requests : submission[q].at = "started" => workflow[q] # "none"
    /\ \A q \in Requests : event[q] # "none" => workflow[q] \in Terminal

\* The decision that a caller was told: it approves only what is approved, and
\* is the final one unless a start took an open workflow for a rejected one.
Heard(q, status) ==
    /\ workflow[q] # "none"
    /\ status = "approved" => workflow[q] = "approved"
    /\ ~misjudged => workflow[q] \in Terminal /\ status = Verdict(workflow[q])

\* Who applies a decision has heard it.
Told ==
    /\ \A c \in Callers : resolver[c] # Null => Heard(resolver[c].id, resolver[c].status)
    /\ resolver["outbox"] # Null => workflow[resolver["outbox"].id] \in Terminal
    /\ start.at = "repairing" => \A t \in start.todo : Heard(t.id, Verdict(t.status))

\* The requests follow their workflows.
Followed == \A q \in Requests :
    /\ Live(q) /\ row[q].linked => workflow[q] # "none"
    /\ submission[q].at = "swapped" => row[q] # Null /\ row[q].status # "pending"
    /\ Live(q) /\ submission[q].at # "swapped" /\ row[q].status = "approved"
         => workflow[q] = "approved"

Flow == Deciding /\ Told /\ Followed

\* A call of onWorkflowResolved returns.
LEMMA FlowReturn ==
  ASSUME NEW c \in Callers, NEW ok, resolver[c] # Null, TypeInv, Flow, Return(c, ok),
         UNCHANGED <<workflow, submission, start, misjudged>>
  PROVE  Deciding' /\ Told'
<1>1. resolver'[c] = Null /\ \A d \in Callers \ {c} : resolver'[d] = resolver[d]  BY ReturnEnds
<1>2. Told'  BY <1>1 DEF Flow, Told, Heard, Callers
<1>3. resolver[c].id \in Requests  BY DEF TypeInv, TypeOK, Resolution
<1>4. event' = event \/ (c = "outbox" /\ \E new : event' = [event EXCEPT ![resolver[c].id] = new])
  BY DEF Return
<1>5. Deciding'  BY <1>3, <1>4 DEF Flow, Deciding, Told, TypeInv, TypeOK
<1> QED  BY <1>2, <1>5

\* The call goes on with the same request and the same decision.
LEMMA FlowGoesOn ==
  ASSUME NEW c \in Callers, resolver[c] # Null, TypeInv, Flow,
         resolver'[c].id = resolver[c].id, resolver'[c].status = resolver[c].status,
         \A d \in Callers \ {c} : resolver'[d] = resolver[d],
         UNCHANGED <<workflow, event, submission, start, misjudged>>
  PROVE  Deciding' /\ Told'
<1>1. Deciding'  BY DEF Flow, Deciding
<1>2. Told'  BY DEF Flow, Told, Heard, Callers
<1> QED  BY <1>1, <1>2

\* onWorkflowResolved reads: decisions and requests.
LEMMA FlowReadRow ==
  ASSUME NEW c \in Callers, ReadRow(c), TypeInv, Flow PROVE Flow'
<1>1. UNCHANGED <<workflow, row, submission, start, misjudged>> /\ resolver[c] # Null
      /\ resolver[c] \in Resolution
  BY DEF ReadRow, history, TypeInv, TypeOK
<1>2. Followed'  BY <1>1 DEF Flow, Followed, Live
<1>3. CASE Pending(resolver[c].id)
  <2>1. resolver' = [resolver EXCEPT ![c].at = "writing", ![c].days = row[resolver[c].id].days] /\ event' = event
    BY <1>3 DEF ReadRow
  <2>2. /\ resolver'[c].id = resolver[c].id /\ resolver'[c].status = resolver[c].status
        /\ \A d \in Callers \ {c} : resolver'[d] = resolver[d]
    BY <1>1, <2>1 DEF TypeInv, TypeOK, Resolution
  <2> QED  BY <1>1, <1>2, <2>1, <2>2, FlowGoesOn DEF Flow
<1>4. CASE ~Pending(resolver[c].id)
  BY <1>1, <1>2, <1>4, FlowReturn DEF ReadRow, Flow
<1> QED  BY <1>3, <1>4

\* onWorkflowResolved writes: decisions and requests.
LEMMA FlowWriteRow ==
  ASSUME NEW c \in Callers, WriteRow(c), TypeInv, Flow PROVE Flow'
<1>1. UNCHANGED <<workflow, submission, start, misjudged>> /\ resolver[c] # Null
      /\ resolver[c] \in Resolution
  BY DEF WriteRow, history, TypeInv, TypeOK
<1>2. PICK q \in Requests : q = resolver[c].id  BY <1>1 DEF Resolution
<1>3. workflow[q] # "none" /\ (resolver[c].status = "approved" => workflow[q] = "approved")
  BY <1>1, <1>2 DEF Flow, Told, Heard
<1>4. CASE row[q] = Null
  BY <1>1, <1>2, <1>4, FlowReturn DEF WriteRow, Flow, Followed, Live
<1>5. CASE row[q] # Null
  <2>1. row' = [row EXCEPT ![q].status = resolver[c].status] /\ row[q] \in Row
    BY <1>2, <1>5 DEF WriteRow, TypeInv, TypeOK
  <2>2. /\ \A p \in Requests \ {q} : row'[p] = row[p]
        /\ row'[q] = [row[q] EXCEPT !.status = resolver[c].status] /\ row'[q] \in Row
    BY <1>1, <2>1 DEF TypeInv, TypeOK, Row, Resolution
  <2>3. row'[q] # Null /\ row'[q].status = resolver[c].status /\ row'[q].linked = row[q].linked /\ row'[q].deleted = row[q].deleted
    BY <2>1, <2>2, NullAssumption DEF Row
  <2>4. workflow[q] # "none" /\ submission[q].at # "swapped"
    BY <1>3 DEF Flow, Deciding
  <2>5. resolver[c].status = "approved" => workflow[q] = "approved"  BY <1>3
  <2>6. Followed'
    BY <1>1, <2>2, <2>3, <2>4, <2>5, ZenonT(30) DEF Flow, Followed, Live
  <2>7. CASE Return(c, TRUE)
    BY <1>1, <2>6, <2>7, FlowReturn DEF Flow
  <2>8. CASE resolver' = [resolver EXCEPT ![c].at = "syncing"] /\ event' = event
    <3>1. /\ resolver'[c].id = resolver[c].id /\ resolver'[c].status = resolver[c].status
          /\ \A d \in Callers \ {c} : resolver'[d] = resolver[d]
      BY <1>1, <2>8 DEF TypeInv, TypeOK, Resolution
    <3> QED  BY <1>1, <2>6, <2>8, <3>1, FlowGoesOn DEF Flow
  <2> QED  BY <1>2, <1>5, <2>7, <2>8 DEF WriteRow
<1> QED  BY <1>4, <1>5

\* All days are recorded: decisions and requests.
LEMMA FlowSyncDone ==
  ASSUME NEW c \in Callers, SyncDone(c), TypeInv, Flow PROVE Flow'
BY FlowReturn DEF SyncDone, history, Flow, Followed, Live

\* An event is lost: decisions and requests.
LEMMA FlowLoseEvent ==
  ASSUME NEW q \in Requests, LoseEvent(q), TypeInv, Flow PROVE Flow'
<1>1. Deciding'  BY DEF LoseEvent, Flow, Deciding, TypeInv, TypeOK
<1>2. UNCHANGED <<workflow, row, submission, start, resolver, misjudged>>  BY DEF LoseEvent, history
<1>3. Told' /\ Followed'  BY <1>2 DEF Flow, Told, Heard, Followed, Live
<1> QED  BY <1>1, <1>3 DEF Flow

\* A start lists what to repair: decisions and requests.
LEMMA FlowStart ==
  ASSUME Start, TypeInv, Flow PROVE Flow'
<1>1. UNCHANGED <<workflow, row, event, submission, resolver>>  BY DEF Start, table
<1>2. Deciding' /\ Followed'  BY <1>1 DEF Flow, Deciding, Followed, Live
<1>3. ~misjudged' => ~misjudged /\ \A q \in Repairable : workflow[q] \notin Open
  BY DEF Start, TypeInv, TypeOK
<1>4. \A q \in Repairable :
        /\ workflow[q] # "none"
        /\ workflow[q] \notin Open => workflow[q] \in Terminal
  BY DEF Repairable, Pending, Flow, Followed, TypeInv, TypeOK
<1>5. start'.at = "repairing" => start'.todo = {[id |-> q, status |-> workflow[q]] : q \in Repairable}
  BY DEF Start
<1>6. ASSUME NEW q \in Repairable, NEW v, v = Verdict(workflow[q]) PROVE Heard(q, v)'
  <2>1. /\ workflow'[q] = workflow[q]
        /\ workflow[q] # "none"
        /\ ~misjudged' => workflow[q] \in Terminal
    BY <1>1, <1>3, <1>4
  <2>2. v = "approved" => workflow[q] = "approved"  BY <1>6 DEF Verdict
  <2>3. v = Verdict(workflow'[q])  BY <1>6, <2>1
  <2> QED  BY <2>1, <2>2, <2>3 DEF Heard
<1>7. ASSUME start'.at = "repairing", NEW t \in start'.todo PROVE Heard(t.id, Verdict(t.status))'
  <2>1. PICK q \in Repairable : t = [id |-> q, status |-> workflow[q]]  BY <1>5, <1>7
  <2>2. t.id = q /\ Verdict(t.status) = Verdict(workflow[q])  BY <2>1
  <2> QED  BY <1>6, <2>2
<1>8. Told'  BY <1>1, <1>3, <1>7 DEF Flow, Told, Heard
<1> QED  BY <1>2, <1>8 DEF Flow

\* A deletion, a change or a swap writes: decisions and requests.
LEMMA FlowWrites ==
  ASSUME NEW a \in Admins, DeleteWrite(a) \/ UpdateWrite(a) \/ SwapWrite(a), TypeInv, Flow
  PROVE  Flow'
<1>1. UNCHANGED <<workflow, event, submission, resolver, start, misjudged>>
  BY DEF DeleteWrite, UpdateWrite, SwapWrite, AdminWrite
<1>2. Deciding' /\ Told'  BY <1>1 DEF Flow, Deciding, Told, Heard
<1>3. PICK q \in Requests : q = admin[a].id  BY Writes
<1>4. Followed'  BY <1>1, <1>3, Writes DEF Flow, Followed, Live
<1> QED  BY <1>2, <1>4 DEF Flow

\* submit links the workflow: decisions and requests.
LEMMA FlowLink ==
  ASSUME NEW q \in Requests, Link(q), TypeInv, Flow PROVE Flow'
<1>1. UNCHANGED <<workflow, event, resolver, start, misjudged>>  BY DEF Link, history
<1>2. row[q] \in Row /\ row[q] # Null /\ submission[q].at = "started"
  BY DEF Link, Advance, TypeInv, TypeOK, Shape
<1>3. /\ row'[q] = [row[q] EXCEPT !.linked = TRUE] /\ submission'[q].at = "done"
      /\ \A p \in Requests \ {q} : row'[p] = row[p] /\ submission'[p] = submission[p]
  BY DEF Link, Advance, TypeInv, TypeOK, Submission
<1>4. row'[q].status = row[q].status /\ row'[q].deleted = row[q].deleted
  BY <1>2, <1>3 DEF Row
<1>5. workflow[q] # "none"  BY <1>2 DEF Flow, Deciding
<1>6. Deciding' /\ Told'  BY <1>1, <1>3 DEF Flow, Deciding, Told, Heard
<1>7. /\ submission[q].at # "swapped" /\ submission'[q].at # "swapped"
      /\ row'[q].status = "approved" /\ ~row'[q].deleted => workflow[q] = "approved"
  BY <1>2, <1>3, <1>4 DEF Flow, Followed, Live
<1>8. ASSUME NEW p \in Requests
      PROVE  /\ Live(p)' /\ row'[p].linked => workflow'[p] # "none"
             /\ submission'[p].at = "swapped" => row'[p] # Null /\ row'[p].status # "pending"
             /\ Live(p)' /\ submission'[p].at # "swapped" /\ row'[p].status = "approved"
                  => workflow'[p] = "approved"
  <2>1. CASE p = q  BY <1>1, <1>5, <1>7, <2>1 DEF Live
  <2>2. CASE p # q
    <3>1. row'[p] = row[p] /\ submission'[p] = submission[p]  BY <1>3, <2>2
    <3> QED  BY <1>1, <3>1 DEF Flow, Followed, Live
  <2> QED  BY <2>1, <2>2
<1>9. Followed'  BY <1>8 DEF Followed, Live
<1> QED  BY <1>6, <1>9 DEF Flow

\* A start looks at an orphan: decisions and requests.
LEMMA FlowCheckOrphan ==
  ASSUME CheckOrphan, TypeInv, TypeInv', Flow PROVE Flow'
<1>1. PICK q \in start.todo :
        /\ row[q] # Null
        /\ start' = [start EXCEPT !.todo = @ \ {q}]
        /\ row' = IF row[q].days = {} \/ Conflicts(row[q].days, q)
                  THEN [row EXCEPT ![q].status = "rejected", ![q].deleted = TRUE] ELSE row
  BY DEF CheckOrphan
<1>2. UNCHANGED <<workflow, event, submission, resolver, misjudged>> /\ start.at = "orphans"
  BY DEF CheckOrphan, history
<1>3. q \in Requests  BY <1>1, <1>2 DEF TypeInv, Shape
<1>4. start'.at = "orphans"  BY <1>1, <1>2 DEF TypeInv, Shape
<1>5. Deciding' /\ Told'  BY <1>2, <1>4 DEF Flow, Deciding, Told, Heard
<1>6. CASE row' = row  BY <1>2, <1>5, <1>6 DEF Flow, Followed, Live
<1>7. CASE row' = [row EXCEPT ![q].status = "rejected", ![q].deleted = TRUE]
  <2>1. row[q] \in Row /\ \A p \in Requests \ {q} : row'[p] = row[p]
    BY <1>1, <1>3, <1>7 DEF TypeInv, TypeOK
  <2>2. row'[q] = [row[q] EXCEPT !.status = "rejected", !.deleted = TRUE]
    BY <1>3, <1>7 DEF TypeInv, TypeOK
  <2>3. row'[q].status = "rejected" /\ row'[q].deleted = TRUE /\ row'[q] \in Row
    BY <2>1, <2>2 DEF Row
  <2>4. row'[q] # Null  BY <2>3, NullAssumption
  <2>5. Followed'  BY <1>2, <1>3, <2>1, <2>3, <2>4 DEF Flow, Followed, Live
  <2> QED  BY <1>5, <2>5 DEF Flow
<1> QED  BY <1>1, <1>6, <1>7

\* A swap books its day: decisions and requests.
LEMMA FlowSwapCreate ==
  ASSUME NEW a \in Admins, NEW q \in Requests, SwapCreate(a, q), TypeInv, TypeInv', Flow PROVE Flow'
<1>1. UNCHANGED <<workflow, event, resolver, start, misjudged>> /\ submission[q].at = "ready"
  BY DEF SwapCreate, history
<1>2. /\ row'[q] = [status |-> "approved", days |-> {admin[a].to}, linked |-> FALSE, deleted |-> FALSE]
      /\ submission'[q].at = "swapped"
      /\ \A p \in Requests \ {q} : row'[p] = row[p] /\ submission'[p] = submission[p]
  BY DEF SwapCreate, TypeInv, TypeOK, Submission
<1>3. row'[q] \in Row \cup {Null}  BY DEF TypeInv, TypeOK
<1>4. row'[q] # Null
  <2>1. admin[a].to \in Days  BY DEF SwapCreate, AdminAt, TypeInv, TypeOK, Change
  <2>2. row'[q] \in Row  BY <1>2, <2>1 DEF Row
  <2> QED  BY <2>2, NullAssumption
<1>5. workflow[q] = "none"  BY <1>1 DEF Flow, Deciding
<1>6. Deciding' /\ Told'  BY <1>1, <1>2, <1>5 DEF Flow, Deciding, Told, Heard
<1>7. Followed'  BY <1>1, <1>2, <1>4, <1>5 DEF Flow, Followed, Live
<1> QED  BY <1>6, <1>7 DEF Flow

\* Every step keeps Flow.
LEMMA FlowStep ==
  ASSUME TypeInv, TypeInv', Flow, [Next]_vars PROVE Flow'
<1>1. ASSUME NEW q \in Requests, NEW days \in Choices[q], Check(q, days) PROVE Flow'
  BY <1>1, MonthlyOffAssumption DEF Check, table, Flow, Deciding, Told, Heard, Callers, history, Followed, Live
<1>2. ASSUME NEW q \in Requests, Insert(q) PROVE Flow'
  BY <1>2, MonthlyOffAssumption DEF Insert, Flow, Deciding, Told, Heard, Callers, history, Followed, Live
<1>3. ASSUME NEW q \in Requests, StartWorkflow(q) PROVE Flow'
  BY <1>3, MonthlyOffAssumption DEF StartWorkflow, Advance, TypeInv, TypeOK, Flow, Deciding,
    Told, Heard, Callers, history, Followed, Live, Terminal
<1>4. ASSUME NEW q \in Requests, Link(q) PROVE Flow'
  BY <1>4, FlowLink
<1>5. ASSUME NEW q \in Requests, SubmitFails(q) PROVE Flow'
  BY <1>5, MonthlyOffAssumption DEF SubmitFails, Flow, Deciding, Told, Heard, Callers, history, Followed, Live
<1>6. ASSUME NEW q \in Requests, SubmitCrashes(q) PROVE Flow'
  BY <1>6, MonthlyOffAssumption DEF SubmitCrashes, table, Flow, Deciding, Told, Heard, Callers, history, Followed, Live
<1>7. ASSUME NEW q \in Requests, NEW status \in Outcomes, Act(q, status) PROVE Flow'
  BY <1>7, MonthlyOffAssumption DEF Act, Terminal, Open, TypeInv, TypeOK, Flow, Deciding, Told, Heard, Callers, history,
    Followed, Live
<1>8. ASSUME NEW q \in Requests, Publish(q) PROVE Flow'
  BY <1>8, MonthlyOffAssumption DEF Publish, Flow, Deciding, Told, Heard, Callers, history, Followed, Live
<1>9. ASSUME NEW q \in Requests, LoseEvent(q) PROVE Flow'
  BY <1>9, FlowLoseEvent
<1>10. ASSUME NEW q \in Requests, Deliver(q) PROVE Flow'
  <2>1. /\ UNCHANGED <<table, submission, start, misjudged>> /\ event[q] = "queued"
        /\ \A c \in Callers \ {"outbox"} : resolver'[c] = resolver[c]
        /\ resolver'["outbox"] = [at |-> "reading", id |-> q, status |-> Verdict(workflow[q]), days |-> {}]
    BY <1>10 DEF Deliver, Call, history, Callers, TypeInv, TypeOK
  <2>2. resolver'["outbox"].id = q /\ resolver'["outbox"].status = Verdict(workflow[q])
    BY <2>1
  <2>3. workflow[q] \in Terminal  BY <2>1 DEF Flow, Deciding
  <2>4. Told'
    BY <2>1, <2>2, <2>3 DEF table, Flow, Told, Heard, Verdict, Terminal
  <2> QED  BY <2>1, <2>4 DEF table, Flow, Deciding, Followed, Live
<1>11. ASSUME NEW c \in Callers, ReadRow(c) PROVE Flow'
  BY <1>11, FlowReadRow
<1>12. ASSUME NEW c \in Callers, WriteRow(c) PROVE Flow'
  BY <1>12, FlowWriteRow
<1>13. ASSUME NEW c \in Callers, NEW d \in Days, SyncDay(c, d) PROVE Flow'
  BY <1>13, MonthlyOffAssumption, NullAssumption DEF SyncDay, Flow, Deciding, Told, Heard, Callers, history, Followed,
    Live
<1>14. ASSUME NEW c \in Callers, SyncDone(c) PROVE Flow'
  BY <1>14, FlowSyncDone
<1>15. ASSUME NEW c \in Callers, ResolverFails(c) PROVE Flow'
  BY <1>15, MonthlyOffAssumption DEF ResolverFails, Return, TypeInv, TypeOK, Flow, Deciding,
    Told, Heard, Callers, history, Followed, Live
<1>16. ASSUME NEW c \in Callers, ResolverCrashes(c) PROVE Flow'
  BY <1>16, MonthlyOffAssumption DEF ResolverCrashes, table, Flow, Deciding, Told, Heard, Callers, history, Followed,
    Live
<1>17. ASSUME Start PROVE Flow'
  BY <1>17, FlowStart
<1>18. ASSUME Repair PROVE Flow'
  BY <1>18, MonthlyOffAssumption DEF Repair, Call, table, Flow, Deciding, Told, Heard, Callers, history, Followed, Live
<1>19. ASSUME FindOrphans PROVE Flow'
  BY <1>19, MonthlyOffAssumption DEF FindOrphans, table, Flow, Deciding, Told, Heard, Callers, history, Followed, Live
<1>20. ASSUME CheckOrphan PROVE Flow'
  BY <1>20, FlowCheckOrphan
<1>21. ASSUME OrphanGone PROVE Flow'
  BY <1>21, MonthlyOffAssumption DEF OrphanGone, TypeInv, Shape, table, Flow, Deciding, Told, Heard, Callers, history,
    Followed, Live
<1>22. ASSUME Sweep PROVE Flow'
  BY <1>22, MonthlyOffAssumption DEF Sweep, Flow, Deciding, Told, Heard, Callers, history, Followed, Live
<1>23. ASSUME NEW a \in Admins, AdminCheck(a) PROVE Flow'
  BY <1>23, MonthlyOffAssumption DEF AdminCheck, table, Flow, Deciding, Told, Heard, Callers, history, Followed, Live
<1>24. ASSUME NEW a \in Admins, NEW q \in Requests, NEW d \in Days, DeleteRead(a, q, d)
      PROVE  Flow'
  BY <1>24, MonthlyOffAssumption DEF DeleteRead, AdminRead, table, Flow, Deciding, Told, Heard, Callers, history,
    Followed, Live
<1>25. ASSUME NEW a \in Admins, NEW q \in Requests, NEW d \in Days, NEW to \in Days, UpdateRead(a, q, d, to)
      PROVE  Flow'
  BY <1>25, MonthlyOffAssumption DEF UpdateRead, AdminRead, table, Flow, Deciding, Told, Heard, Callers, history,
    Followed, Live
<1>26. ASSUME NEW a \in Admins, NEW q \in Requests, NEW d \in Days, NEW to \in Days, SwapRead(a, q, d, to)
      PROVE  Flow'
  BY <1>26, MonthlyOffAssumption DEF SwapRead, AdminRead, table, Flow, Deciding, Told, Heard, Callers, history, Followed,
    Live
<1>27. ASSUME NEW a \in Admins, AdminRevert(a) PROVE Flow'
  BY <1>27, MonthlyOffAssumption DEF AdminRevert, Flow, Deciding, Told, Heard, Callers, history, Followed, Live
<1>28. ASSUME NEW a \in Admins, AdminCancel(a) PROVE Flow'
  BY <1>28, MonthlyOffAssumption, NullAssumption DEF AdminCancel, Shape, table, Flow,
    Deciding, Told, Heard, Callers, history, Followed, Live, Terminal, Verdict
<1>29. ASSUME NEW a \in Admins, DeleteWrite(a) PROVE Flow'
  BY <1>29, FlowWrites
<1>30. ASSUME NEW a \in Admins, UpdateWrite(a) PROVE Flow'
  BY <1>30, FlowWrites
<1>31. ASSUME NEW a \in Admins, SwapWrite(a) PROVE Flow'
  BY <1>31, FlowWrites
<1>32. ASSUME NEW a \in Admins, NEW q \in Requests, SwapCreate(a, q) PROVE Flow'
  BY <1>32, FlowSwapCreate
<1>33. ASSUME NEW a \in Admins, AdminSync(a) PROVE Flow'
  BY <1>33, MonthlyOffAssumption DEF AdminSync, Flow, Deciding, Told, Heard, Callers, history, Followed, Live
<1>34. ASSUME NEW a \in Admins, AdminFails(a) PROVE Flow'
  BY <1>34, MonthlyOffAssumption DEF AdminFails, table, Flow, Deciding, Told, Heard, Callers, history, Followed, Live
<1>35. CASE UNCHANGED vars
  BY <1>35 DEF vars, table, history, Flow, Deciding, Told, Heard, Followed, Live
<1> QED
  BY <1>1, <1>2, <1>3, <1>4, <1>5, <1>6, <1>7, <1>8, <1>9, <1>10, <1>11, <1>12, <1>13, <1>14,
    <1>15, <1>16, <1>17, <1>18, <1>19, <1>20, <1>21, <1>22, <1>23, <1>24, <1>25, <1>26, <1>27,
    <1>28, <1>29, <1>30, <1>31, <1>32, <1>33, <1>34, <1>35 DEF Next
-----------------------------------------------------------------------------
(*****************************************************************************)
(* The copies that deletions, changes and swaps work on.                    *)
(*****************************************************************************)

\* At most one call changes a request, ...
Alone == ~crossed => \A a, b \in Admins :
    admin[a] # Null /\ admin[b] # Null /\ admin[a].id = admin[b].id => a = b

\* ... so that its copy is the request until it writes, ...
Copying(c) == \/ c.at \in {"checking", "writing"}
              \/ c.at = "reverting" /\ c.kind = "delete"
Copied == ~crossed => \A a \in Admins : admin[a] # Null =>
    /\ row[admin[a].id] # Null
    /\ Copying(admin[a]) => /\ row[admin[a].id].days = admin[a].days
                            /\ admin[a].approved => row[admin[a].id].status # "pending"
    /\ admin[a].kind = "swap" /\ admin[a].at \in {"reverting", "creating"}
         => row[admin[a].id].days \subseteq admin[a].days \ {admin[a].day}
    /\ admin[a].kind = "update" /\ admin[a].at = "reverting"
         => admin[a].day \notin row[admin[a].id].days

\* ... it moves to a day the request does not have, ...
Moving == \A a \in Admins : admin[a] # Null =>
    /\ admin[a].kind # "delete" => admin[a].to \notin admin[a].days /\ admin[a].to # admin[a].day
    /\ admin[a].kind = "delete" => /\ admin[a].at \in {"reverting", "writing", "cancelling"}
                                   /\ admin[a].to = admin[a].day
    /\ admin[a].at = "creating" => admin[a].kind = "swap"

\* ... and a rejected request keeps its days only if its workflow rejected it.
Turned == ~crossed => \A q \in Requests : Live(q) /\ row[q].status = "rejected" =>
    \/ workflow[q] \in {"rejected", "cancelled"}
    \/ /\ row[q].days = {}
       /\ \A a \in Changing(q) : admin[a].kind = "swap" /\ admin[a].at \in {"reverting", "creating"}

Copies == Alone /\ Copied /\ Moving /\ Turned

\* A second call for a request crosses the first.
LEMMA AloneRead ==
  ASSUME NEW a \in Admins, NEW kind \in {"delete", "update", "swap"}, NEW q \in Requests,
         NEW d \in Days, NEW to \in Days, NEW at \in {"checking", "reverting", "writing"},
         AdminRead(a, kind, q, d, to, at), TypeInv, Alone
  PROVE  Alone'
<1> SUFFICES ASSUME ~crossed' PROVE Alone'
  BY DEF Alone
<1>2. ~crossed /\ Changing(q) = {}  BY ReadEffect
<1>3. \A b \in Admins \ {a} : admin[b] # Null => admin[b].id # q  BY <1>2 DEF Changing
<1> QED  BY <1>2, <1>3, ReadEffect DEF Alone

\* A day is checked: the copies.
LEMMA CopiesCheck ==
  ASSUME NEW a \in Admins, AdminCheck(a), TypeInv, Copies PROVE Copies'
<1>1. UNCHANGED <<row, workflow>> /\ admin[a] # Null /\ admin[a].at = "checking"
  BY DEF AdminCheck, AdminAt, table
<1>2. ~crossed' => ~crossed  BY DEF AdminCheck, TypeInv, TypeOK
<1>3. CASE AdminEnd(a)
  <2>1. admin'[a] = Null /\ \A b \in Admins \ {a} : admin'[b] = admin[b]  BY <1>3, EndEffect
  <2>2. Alone' /\ Copied'  BY <1>1, <1>2, <2>1 DEF Copies, Alone, Copied, Copying
  <2>3. Moving' /\ Turned'  BY <1>1, <1>2, <2>1 DEF Copies, Moving, Turned, Changing, Live
  <2> QED  BY <2>2, <2>3 DEF Copies
<1>4. CASE AdminGoto(a, "writing")
  <2>1. /\ admin'[a] # Null /\ admin'[a].at = "writing" /\ admin'[a].id = admin[a].id
        /\ admin'[a].kind = admin[a].kind /\ admin'[a].day = admin[a].day
        /\ admin'[a].to = admin[a].to /\ admin'[a].days = admin[a].days
        /\ admin'[a].approved = admin[a].approved
        /\ \A b \in Admins \ {a} : admin'[b] = admin[b]
    BY <1>1, <1>4, GotoEffect
  <2>2. Alone'  BY <1>1, <1>2, <2>1 DEF Copies, Alone
  <2>3. Copied'  BY <1>1, <1>2, <2>1 DEF Copies, Copied, Copying
  <2>4. Moving'  BY <1>1, <2>1 DEF Copies, Moving
  <2>5. Turned'  BY <1>1, <1>2, <2>1 DEF Copies, Turned, Changing, Live
  <2> QED  BY <2>2, <2>3, <2>4, <2>5 DEF Copies
<1> QED  BY <1>3, <1>4 DEF AdminCheck

\* A step that leaves the calls alone, and days and rejections of the requests
\* they work on, ...
LEMMA CopiedKept ==
  ASSUME TypeInv, Copied, UNCHANGED admin, ~crossed' => ~crossed,
         ~crossed' => \A a \in Admins : admin[a] # Null /\ row[admin[a].id] # Null =>
            /\ row'[admin[a].id] # Null
            /\ row'[admin[a].id].days = row[admin[a].id].days
            /\ row[admin[a].id].status # "pending" => row'[admin[a].id].status # "pending"
  PROVE  Copied'
BY DEF Copied, Copying

\* submit inserts: the copies.
LEMMA CopiedInsert ==
  ASSUME NEW q \in Requests, Insert(q), TypeInv, Copied PROVE Copied'
<1>1. row[q] = Null /\ \A p \in Requests \ {q} : row'[p] = row[p]
  BY DEF Insert, TypeInv, TypeOK, Shape
<1>2. \A a \in Admins : admin[a] # Null => admin[a].id \in Requests  BY DEF TypeInv, TypeOK, Change
<1>3. UNCHANGED <<admin, crossed>>  BY DEF Insert, history
<1> QED  BY <1>1, <1>2, <1>3, CopiedKept

\* submit links the workflow: the copies.
LEMMA CopiedLink ==
  ASSUME NEW q \in Requests, Link(q), TypeInv, Copied PROVE Copied'
<1>1. \A a \in Admins : admin[a] # Null => admin[a].id \in Requests  BY DEF TypeInv, TypeOK, Change
<1>2. UNCHANGED <<admin, crossed>>  BY DEF Link, history
<1> QED  BY <1>1, <1>2, LinkEffect, CopiedKept

\* submit takes its row back: the copies.
LEMMA CopiedSubmitFails ==
  ASSUME NEW q \in Requests, SubmitFails(q), TypeInv, Copied PROVE Copied'
<1>1. \A p \in Requests \ {q} : row'[p] = row[p]  BY DEF SubmitFails, TypeInv, TypeOK
<1>2. \A a \in Admins : admin[a] # Null => admin[a].id \in Requests  BY DEF TypeInv, TypeOK, Change
<1>3. UNCHANGED admin /\ (~crossed' => ~crossed /\ Changing(q) = {})
  BY DEF SubmitFails, TypeInv, TypeOK
<1>4. ~crossed' => \A a \in Admins : admin[a] # Null => admin[a].id # q
  BY <1>3 DEF Changing
<1> QED  BY <1>1, <1>2, <1>3, <1>4, CopiedKept

\* onWorkflowResolved writes: the copies.
LEMMA CopiedWriteRow ==
  ASSUME NEW c \in Callers, WriteRow(c), TypeInv, Copied PROVE Copied'
<1>1. \A a \in Admins : admin[a] # Null => admin[a].id \in Requests  BY DEF TypeInv, TypeOK, Change
<1>2. UNCHANGED <<admin, crossed>>  BY DEF WriteRow, history
<1>3. resolver[c] \in Resolution => resolver[c].status # "pending"  BY DEF Resolution
<1> QED  BY <1>1, <1>2, <1>3, ResolveEffect, CopiedKept

\* A start looks at an orphan: the copies.
LEMMA CopiedCheckOrphan ==
  ASSUME CheckOrphan, TypeInv, Copied PROVE Copied'
<1>1. \A a \in Admins : admin[a] # Null => admin[a].id \in Requests  BY DEF TypeInv, TypeOK, Change
<1>2. UNCHANGED <<admin, crossed>>  BY DEF CheckOrphan, history
<1> QED  BY <1>1, <1>2, OrphanEffect, CopiedKept

\* The record of a day is reverted: the copies.
LEMMA CopiedRevert ==
  ASSUME NEW a \in Admins, AdminRevert(a), TypeInv, Copied PROVE Copied'
<1>1. admin[a] # Null /\ admin[a].at = "reverting" /\ UNCHANGED <<row, crossed>>
  BY DEF AdminRevert, AdminAt
<1>2. admin[a].kind \in {"delete", "update", "swap"}  BY <1>1 DEF TypeInv, TypeOK, Change
<1> DEFINE next == CASE admin[a].kind = "delete" -> "writing"
                     [] admin[a].kind = "update" -> "syncing"
                     [] admin[a].kind = "swap"   -> "creating"
<1>3. AdminGoto(a, next)  BY DEF AdminRevert
<1>4. next \in {"writing", "syncing", "creating"} /\ (next = "writing" => admin[a].kind = "delete")
      /\ (next = "creating" => admin[a].kind = "swap")
  BY <1>2
<1> HIDE DEF next
<1>5. /\ admin'[a] # Null /\ admin'[a].at = next /\ admin'[a].id = admin[a].id
      /\ admin'[a].kind = admin[a].kind /\ admin'[a].day = admin[a].day
      /\ admin'[a].days = admin[a].days
      /\ admin'[a].approved = admin[a].approved
      /\ \A b \in Admins \ {a} : admin'[b] = admin[b]
  BY <1>1, <1>3, <1>4, GotoEffect
<1> QED  BY <1>1, <1>2, <1>4, <1>5 DEF Copied, Copying

\* A deletion, a change or a swap writes: the copies.
LEMMA CopiedWrites ==
  ASSUME NEW a \in Admins, DeleteWrite(a) \/ UpdateWrite(a) \/ SwapWrite(a), TypeInv, Copies
  PROVE  Copied'
<1>1. crossed' = crossed  BY DEF DeleteWrite, UpdateWrite, SwapWrite, AdminWrite
<1> SUFFICES ASSUME ~crossed, NEW b \in Admins, admin'[b] # Null
             PROVE  /\ row'[admin'[b].id] # Null
                    /\ Copying(admin'[b]) =>
                         /\ row'[admin'[b].id].days = admin'[b].days
                         /\ admin'[b].approved => row'[admin'[b].id].status # "pending"
                    /\ admin'[b].kind = "swap" /\ admin'[b].at \in {"reverting", "creating"}
                         => row'[admin'[b].id].days \subseteq admin'[b].days \ {admin'[b].day}
                    /\ admin'[b].kind = "update" /\ admin'[b].at = "reverting"
                         => admin'[b].day \notin row'[admin'[b].id].days
  BY <1>1 DEF Copied, Copying
<1>2. admin[a] # Null /\ row[admin[a].id] # Null /\ admin[a].id \in Requests
  BY Writes DEF DeleteWrite, UpdateWrite, SwapWrite, Writing, AdminAt, Copies, Copied
<1>3. CASE b = a
  <2>1. admin[a].kind = "update" => admin[a].to # admin[a].day  BY <1>2 DEF Copies, Moving
  <2> QED  BY <1>2, <1>3, <2>1, ChangeEffect, Writes DEF Copying
<1>4. CASE b # a
  <2>1. admin'[b] = admin[b]  BY <1>2, <1>4, ChangeEffect
  <2>2. admin[b].id # admin[a].id /\ admin[b].id \in Requests
    BY <1>2, <1>4, <2>1 DEF Copies, Alone, TypeInv, TypeOK, Change
  <2>3. row'[admin[b].id] = row[admin[b].id]  BY <1>2, <2>2, ChangeEffect
  <2> QED  BY <2>1, <2>3 DEF Copies, Copied, Copying
<1> QED  BY <1>3, <1>4

\* A swap books its day: the copies.
LEMMA CopiedCreate ==
  ASSUME NEW a \in Admins, NEW q \in Requests, SwapCreate(a, q), TypeInv, Copied PROVE Copied'
<1>1. crossed' = crossed  BY DEF SwapCreate, history
<1>2. \A b \in Admins : admin[b] # Null => admin[b].id \in Requests  BY DEF TypeInv, TypeOK, Change
<1> QED  BY <1>1, <1>2, CreateEffect DEF Copied, Copying

\* onWorkflowResolved writes: the rejected requests.
LEMMA TurnedWriteRow ==
  ASSUME NEW c \in Callers, WriteRow(c), TypeInv, Flow, ~misjudged, Turned PROVE Turned'
<1>1. UNCHANGED <<admin, crossed, workflow>>  BY DEF WriteRow, history
<1>2. PICK q \in Requests : q = resolver[c].id  BY ResolveEffect
<1>3. resolver[c].status = "rejected" => workflow[q] \in {"rejected", "cancelled"}
  BY <1>2, ResolveEffect DEF Flow, Told, Heard, Verdict, Terminal
<1>4. resolver[c].status \in {"approved", "rejected"}  BY ResolveEffect DEF Resolution
<1> QED  BY <1>1, <1>2, <1>3, <1>4, ResolveEffect DEF Turned, Live, Changing

\* A deletion, a change or a swap writes: the rejected requests.
LEMMA TurnedWrites ==
  ASSUME NEW a \in Admins, DeleteWrite(a) \/ UpdateWrite(a) \/ SwapWrite(a), TypeInv, Copies
  PROVE  Turned'
<1>1. UNCHANGED <<crossed, workflow>>  BY DEF DeleteWrite, UpdateWrite, SwapWrite, AdminWrite
<1> SUFFICES ASSUME ~crossed, NEW p \in Requests, Live(p)', row'[p].status = "rejected"
             PROVE  \/ workflow[p] \in {"rejected", "cancelled"}
                    \/ /\ row'[p].days = {}
                       /\ \A b \in Changing(p)' : admin'[b].kind = "swap"
                                                  /\ admin'[b].at \in {"reverting", "creating"}
  BY <1>1 DEF Turned
<1>2. admin[a] # Null /\ row[admin[a].id] # Null /\ admin[a].id \in Requests
  BY Writes DEF DeleteWrite, UpdateWrite, SwapWrite, Writing, AdminAt, Copies, Copied
<1>3. admin[a].at = "writing"  BY <1>2, ChangeEffect
<1>4. CASE p # admin[a].id
  <2>1. row'[p] = row[p]  BY <1>2, <1>4, ChangeEffect
  <2>2. \A b \in Changing(p)' : b \in Changing(p) /\ admin'[b] = admin[b]
    BY <1>2, <1>4, ChangeEffect DEF Changing
  <2> QED  BY <2>1, <2>2 DEF Copies, Turned, Live
<1>5. CASE p = admin[a].id
  <2>1. CASE row'[p].status = row[p].status
    <3>1. Live(p) /\ row[p].status = "rejected"  BY <1>2, <1>5, <2>1, Writes DEF Live
    <3>2. a \in Changing(p)  BY <1>2, <1>5 DEF Changing
    <3> QED  BY <1>3, <3>1, <3>2 DEF Copies, Turned
  <2>2. CASE row'[p].status # row[p].status
    <3>1. /\ row'[p].days = {} /\ admin'[a] # Null /\ admin'[a].kind = "swap"
          /\ admin'[a].at = "reverting"
      BY <1>2, <1>5, <2>2, ChangeEffect DEF Live
    <3>2. \A b \in Changing(p)' : b = a
      BY <1>2, <1>5, ChangeEffect DEF Changing, Copies, Alone
    <3> QED  BY <3>1, <3>2
  <2> QED  BY <2>1, <2>2
<1> QED  BY <1>4, <1>5

\* A deletion takes its copy: the copies.
LEMMA CopiedDeleteRead ==
  ASSUME NEW a \in Admins, NEW q \in Requests, NEW d \in Days, DeleteRead(a, q, d), TypeInv, Copied
  PROVE  Copied'
<1> DEFINE at == IF Live(q) /\ row[q].status = "approved" THEN "reverting" ELSE "writing"
<1>1. AdminRead(a, "delete", q, d, d, at) /\ at \in {"checking", "reverting", "writing"}
  BY DEF DeleteRead
<1> HIDE DEF at
<1>2. /\ row' = row /\ row[q] # Null /\ (~crossed' => ~crossed)
      /\ \A b \in Admins \ {a} : admin'[b] = admin[b]
      /\ admin'[a].id = q /\ admin'[a].kind = "delete"
      /\ admin'[a].days = row[q].days /\ (admin'[a].approved <=> row[q].status = "approved")
  BY <1>1, ReadEffect DEF table
<1> QED  BY <1>2 DEF Copied, Copying

\* A change breaks off: the copies.
LEMMA CopiedFails ==
  ASSUME NEW a \in Admins, AdminFails(a), TypeInv, Copied PROVE Copied'
<1>1. admin'[a] = Null /\ \A b \in Admins \ {a} : admin'[b] = admin[b]
  BY EndEffect DEF AdminFails
<1>2. UNCHANGED <<row, crossed>>  BY DEF AdminFails, table
<1> QED  BY <1>1, <1>2 DEF Copied, Copying

\* The record of a day is reverted: the rejected requests.
LEMMA TurnedRevert ==
  ASSUME NEW a \in Admins, AdminRevert(a), TypeInv, Turned PROVE Turned'
<1>1. /\ UNCHANGED <<row, workflow, crossed>> /\ admin[a] # Null /\ admin[a].at = "reverting"
      /\ admin[a].kind \in {"delete", "update", "swap"}
  BY DEF AdminRevert, AdminAt, TypeInv, TypeOK, Change
<1> DEFINE next == CASE admin[a].kind = "delete" -> "writing"
                     [] admin[a].kind = "update" -> "syncing"
                     [] admin[a].kind = "swap"   -> "creating"
<1>2. AdminGoto(a, next)  BY DEF AdminRevert
<1>3. next \in {"writing", "syncing", "creating"} /\ (admin[a].kind = "swap" => next = "creating")
  BY <1>1
<1> HIDE DEF next
<1>4. /\ admin'[a].at = next /\ admin'[a].id = admin[a].id /\ admin'[a].kind = admin[a].kind
      /\ \A b \in Admins \ {a} : admin'[b] = admin[b]
  BY <1>1, <1>2, <1>3, GotoEffect
<1>5. \A q \in Requests : Changing(q)' \subseteq Changing(q)  BY <1>1, <1>4 DEF Changing
<1>6. \A q \in Requests : \A b \in Changing(q)' :
        /\ admin'[b].kind = admin[b].kind
        /\ admin[b].kind = "swap" /\ admin[b].at \in {"reverting", "creating"} =>
             admin'[b].at \in {"reverting", "creating"}
  BY <1>1, <1>3, <1>4 DEF Changing
<1> QED  BY <1>1, <1>5, <1>6 DEF Turned, Live

\* Every step keeps Copies.
LEMMA CopiesStep ==
  ASSUME TypeInv, TypeInv', Flow, ~misjudged, Copies, [Next]_vars PROVE Copies'
<1>1. ASSUME NEW q \in Requests, NEW days \in Choices[q], Check(q, days) PROVE Copies'
  BY <1>1, NullAssumption DEF Check, TypeInv, TypeOK, Shape, table, Copies, Alone, Copied,
    Moving, Turned, Changing, Live, Terminal, Flow, Deciding
<1>2. ASSUME NEW q \in Requests, Insert(q) PROVE Copies'
  BY <1>2, MonthlyOffAssumption, NullAssumption DEF Insert, TypeInv, Shape, history, Copies,
    Alone, Copied, Moving, Turned, Changing, Live, Change, Terminal, Flow, Deciding
<1>3. ASSUME NEW q \in Requests, StartWorkflow(q) PROVE Copies'
  BY <1>3 DEF StartWorkflow, Advance, history, Copies, Alone, Copied, Moving, Turned, Changing,
    Live, Flow, Deciding
<1>4. ASSUME NEW q \in Requests, Link(q) PROVE Copies'
  <2>1. Alone'
    BY <1>4 DEF Link, history, Copies, Alone
  <2>2. Copied'
    BY <1>4, CopiedLink DEF Copies
  <2>3. Moving'
    BY <1>4 DEF Link, Copies, Moving
  <2>4. Turned'
    BY <1>4 DEF Link, Advance, TypeInv, Shape, history, Copies, Turned, Changing, Live
  <2> QED  BY <2>1, <2>2, <2>3, <2>4 DEF Copies
<1>5. ASSUME NEW q \in Requests, SubmitFails(q) PROVE Copies'
  <2>1. Alone'
    BY <1>5 DEF SubmitFails, TypeInv, TypeOK, Copies, Alone
  <2>2. Copied'
    BY <1>5, CopiedSubmitFails DEF Copies
  <2>3. Moving'
    BY <1>5 DEF SubmitFails, Copies, Moving
  <2>4. Turned'
    BY <1>5 DEF SubmitFails, TypeInv, TypeOK, Copies, Turned, Changing, Live
  <2> QED  BY <2>1, <2>2, <2>3, <2>4 DEF Copies
<1>6. ASSUME NEW q \in Requests, SubmitCrashes(q) PROVE Copies'
  BY <1>6, MonthlyOffAssumption, NullAssumption DEF SubmitCrashes, table, history, Copies,
    Alone, Copied, Moving, Turned, Changing, Live, Deciding
<1>7. ASSUME NEW q \in Requests, NEW status \in Outcomes, Act(q, status) PROVE Copies'
  BY <1>7, NullAssumption DEF Act, Open, history, Copies, Alone, Copied, Moving, Turned,
    Copying, Changing, Live, Callers, Flow, Deciding
<1>8. ASSUME NEW q \in Requests, Publish(q) PROVE Copies'
  BY <1>8, MonthlyOffAssumption, NullAssumption DEF Publish, history, Copies, Alone, Copied,
    Moving, Turned, Changing, Live, Terminal, Flow
<1>9. ASSUME NEW q \in Requests, LoseEvent(q) PROVE Copies'
  BY <1>9, NullAssumption DEF LoseEvent, history, Copies, Alone, Copied, Moving, Turned,
    Changing, Live, Terminal
<1>10. ASSUME NEW q \in Requests, Deliver(q) PROVE Copies'
  BY <1>10, MonthlyOffAssumption, NullAssumption DEF Deliver, table, history, Copies, Alone,
    Copied, Moving, Turned, Copying, Changing, Live, Terminal, Flow
<1>11. ASSUME NEW c \in Callers, ReadRow(c) PROVE Copies'
  BY <1>11, NullAssumption DEF ReadRow, history, Copies, Alone, Copied, Moving, Turned,
    Changing, Live, Terminal, Flow, Deciding
<1>12. ASSUME NEW c \in Callers, WriteRow(c) PROVE Copies'
  <2>1. Alone'
    BY <1>12 DEF WriteRow, history, Copies, Alone
  <2>2. Copied'
    BY <1>12, CopiedWriteRow DEF Copies
  <2>3. Moving'
    BY <1>12 DEF WriteRow, Copies, Moving
  <2>4. Turned'
    BY <1>12, TurnedWriteRow DEF Copies
  <2> QED  BY <2>1, <2>2, <2>3, <2>4 DEF Copies
<1>13. ASSUME NEW c \in Callers, NEW d \in Days, SyncDay(c, d) PROVE Copies'
  BY <1>13, MonthlyOffAssumption, NullAssumption DEF SyncDay, history, Copies, Alone, Copied,
    Moving, Turned, Copying, Changing, Live, Terminal, Flow, Deciding
<1>14. ASSUME NEW c \in Callers, SyncDone(c) PROVE Copies'
  BY <1>14, MonthlyOffAssumption, NullAssumption DEF SyncDone, history, Copies, Alone, Copied,
    Moving, Turned, Changing, Live, Terminal, Deciding
<1>15. ASSUME NEW c \in Callers, ResolverFails(c) PROVE Copies'
  BY <1>15, NullAssumption DEF ResolverFails, Copies, Alone, Copied, Moving, Turned, Changing,
    Live, Change, Terminal, Flow, Deciding
<1>16. ASSUME NEW c \in Callers, ResolverCrashes(c) PROVE Copies'
  BY <1>16, NullAssumption DEF ResolverCrashes, table, Copies, Alone, Copied, Moving, Turned,
    Changing, Live, Change, Flow
<1>17. ASSUME Start PROVE Copies'
  BY <1>17, NullAssumption DEF Start, table, Copies, Alone, Copied, Moving, Turned, Changing,
    Live, Flow, Deciding
<1>18. ASSUME Repair PROVE Copies'
  BY <1>18 DEF Repair, table, history, Copies, Alone, Copied, Copying, Moving, Turned, Changing,
    Live
<1>19. ASSUME FindOrphans PROVE Copies'
  BY <1>19, MonthlyOffAssumption, NullAssumption DEF FindOrphans, table, history, Copies, Alone,
    Copied, Moving, Turned, Changing, Live, Flow
<1>20. ASSUME CheckOrphan PROVE Copies'
  <2>1. Alone'
    BY <1>20 DEF CheckOrphan, history, Copies, Alone
  <2>2. Copied'
    BY <1>20, CopiedCheckOrphan DEF Copies
  <2>3. Moving'
    BY <1>20 DEF CheckOrphan, Copies, Moving
  <2>4. Turned'
    BY <1>20 DEF CheckOrphan, TypeInv, TypeOK, history, Copies, Turned, Changing, Live
  <2> QED  BY <2>1, <2>2, <2>3, <2>4 DEF Copies
<1>21. ASSUME OrphanGone PROVE Copies'
  BY <1>21, MonthlyOffAssumption, NullAssumption DEF OrphanGone, TypeOK, Shape, table, history,
    Copies, Alone, Copied, Moving, Turned, Changing, Live, Flow, Deciding
<1>22. ASSUME Sweep PROVE Copies'
  BY <1>22 DEF Sweep, history, Copies, Alone, Copied, Moving, Turned, Changing, Live, Flow
<1>23. ASSUME NEW a \in Admins, AdminCheck(a) PROVE Copies'
  BY <1>23, CopiesCheck
<1>24. ASSUME NEW a \in Admins, NEW q \in Requests, NEW d \in Days, DeleteRead(a, q, d)
      PROVE  Copies'
  <2>1. Alone'
    BY <1>24, AloneRead DEF DeleteRead, Copies
  <2>2. Copied'
    BY <1>24, CopiedDeleteRead DEF Copies
  <2>3. Moving'
    BY <1>24 DEF DeleteRead, AdminRead, Copies, Moving
  <2>4. Turned'
    BY <1>24 DEF DeleteRead, AdminRead, TypeInv, TypeOK, table, Copies, Turned, Changing, Live
  <2> QED  BY <2>1, <2>2, <2>3, <2>4 DEF Copies
<1>25. ASSUME NEW a \in Admins, NEW q \in Requests, NEW d \in Days, NEW to \in Days, UpdateRead(a, q, d, to)
      PROVE  Copies'
  <2>1. Alone'
    BY <1>25, AloneRead DEF UpdateRead, Copies
  <2>2. Copied'
    BY <1>25 DEF UpdateRead, AdminRead, TypeInv, TypeOK, table, Copies, Copied, Live
  <2>3. Moving'
    BY <1>25 DEF UpdateRead, AdminRead, Copies, Moving
  <2>4. Turned'
    BY <1>25 DEF UpdateRead, AdminRead, TypeInv, TypeOK, table, Copies, Turned, Changing, Live
  <2> QED  BY <2>1, <2>2, <2>3, <2>4 DEF Copies
<1>26. ASSUME NEW a \in Admins, NEW q \in Requests, NEW d \in Days, NEW to \in Days, SwapRead(a, q, d, to)
      PROVE  Copies'
  <2>1. Alone'
    BY <1>26, AloneRead DEF SwapRead, Copies
  <2>2. Copied'
    BY <1>26 DEF SwapRead, AdminRead, TypeInv, TypeOK, table, Copies, Copied, Live
  <2>3. Moving'
    BY <1>26 DEF SwapRead, AdminRead, Copies, Moving
  <2>4. Turned'
    BY <1>26 DEF SwapRead, AdminRead, TypeInv, TypeOK, table, Copies, Turned, Changing, Live
  <2> QED  BY <2>1, <2>2, <2>3, <2>4 DEF Copies
<1>27. ASSUME NEW a \in Admins, AdminRevert(a) PROVE Copies'
  <2>1. Alone'
    BY <1>27 DEF AdminRevert, AdminAt, AdminGoto, Copies, Alone
  <2>2. Copied'
    BY <1>27, CopiedRevert DEF Copies
  <2>3. Moving'
    BY <1>27 DEF AdminRevert, AdminAt, AdminGoto, TypeInv, TypeOK, Copies, Moving, Change
  <2>4. Turned'
    BY <1>27, TurnedRevert DEF Copies
  <2> QED  BY <2>1, <2>2, <2>3, <2>4 DEF Copies
<1>28. ASSUME NEW a \in Admins, AdminCancel(a) PROVE Copies'
  BY <1>28, MonthlyOffAssumption, NullAssumption DEF AdminCancel, AdminEnd, TypeOK, Shape,
    history, Copies, Alone, Copied, Moving, Turned, Copying, Changing, Live, Change, Terminal,
    Flow, Deciding
<1>29. ASSUME NEW a \in Admins, DeleteWrite(a) PROVE Copies'
  <2>1. Alone'
    BY <1>29 DEF DeleteWrite, AdminWrite, Writing, AdminAt, AdminGoto, AdminEnd, TypeInv,
      TypeOK, Copies, Alone, Change
  <2>2. Copied'
    BY <1>29, CopiedWrites DEF Copies
  <2>3. Moving'
    BY <1>29 DEF DeleteWrite, AdminWrite, Writing, AdminAt, AdminGoto, AdminEnd, TypeInv,
      TypeOK, Copies, Moving, Change
  <2>4. Turned'
    BY <1>29, TurnedWrites DEF Copies
  <2> QED  BY <2>1, <2>2, <2>3, <2>4 DEF Copies
<1>30. ASSUME NEW a \in Admins, UpdateWrite(a) PROVE Copies'
  <2>1. Alone'
    BY <1>30 DEF UpdateWrite, AdminWrite, Writing, AdminAt, AdminGoto, AdminEnd, TypeInv,
      TypeOK, Copies, Alone, Change
  <2>2. Copied'
    BY <1>30, CopiedWrites DEF Copies
  <2>3. Moving'
    BY <1>30, SMTT(30) DEF UpdateWrite, AdminWrite, Writing, AdminAt, AdminGoto, AdminEnd, TypeInv,
      TypeOK, Copies, Moving, Change
  <2>4. Turned'
    BY <1>30, TurnedWrites DEF Copies
  <2> QED  BY <2>1, <2>2, <2>3, <2>4 DEF Copies
<1>31. ASSUME NEW a \in Admins, SwapWrite(a) PROVE Copies'
  <2>1. Alone'
    BY <1>31 DEF SwapWrite, AdminWrite, Writing, AdminAt, AdminGoto, AdminEnd, TypeInv, TypeOK,
      Copies, Alone, Change
  <2>2. Copied'
    BY <1>31, CopiedWrites DEF Copies
  <2>3. Moving'
    BY <1>31, NullAssumption DEF SwapWrite, AdminWrite, Writing, AdminAt, AdminGoto, AdminEnd,
      TypeInv, TypeOK, Copies, Moving, Change
  <2>4. Turned'
    BY <1>31, TurnedWrites DEF Copies
  <2> QED  BY <2>1, <2>2, <2>3, <2>4 DEF Copies
<1>32. ASSUME NEW a \in Admins, NEW q \in Requests, SwapCreate(a, q) PROVE Copies'
  <2>1. Alone'
    BY <1>32 DEF SwapCreate, AdminAt, TypeInv, TypeOK, Change
  <2>2. Copied'
    BY <1>32, CopiedCreate DEF Copies
  <2>3. Moving'
    BY <1>32 DEF SwapCreate, AdminAt, TypeInv, TypeOK, Copies, Moving
  <2>4. Turned'
    BY <1>32, MonthlyOffAssumption, NullAssumption DEF SwapCreate, TypeInv, TypeOK, history,
      Copies, Turned, Changing, Live, Terminal
  <2> QED  BY <2>1, <2>2, <2>3, <2>4 DEF Copies
<1>33. ASSUME NEW a \in Admins, AdminSync(a) PROVE Copies'
  BY <1>33, MonthlyOffAssumption, NullAssumption DEF AdminSync, AdminEnd, TypeOK, Shape,
    history, Copies, Alone, Copied, Moving, Turned, Copying, Changing, Live, Change, Callers,
    Flow, Deciding
<1>34. ASSUME NEW a \in Admins, AdminFails(a) PROVE Copies'
  BY <1>34, MonthlyOffAssumption, NullAssumption DEF AdminFails, AdminEnd, Shape, table, Copies,
    Alone, Copied, Moving, Turned, Copying, Changing, Live, Change, Terminal, Flow, Deciding
<1>35. CASE UNCHANGED vars
  BY <1>35 DEF vars, table, history, Copies, Alone, Copied, Copying, Moving, Turned, Changing,
    Live
<1> QED
  BY <1>1, <1>2, <1>3, <1>4, <1>5, <1>6, <1>7, <1>8, <1>9, <1>10, <1>11, <1>12, <1>13, <1>14,
    <1>15, <1>16, <1>17, <1>18, <1>19, <1>20, <1>21, <1>22, <1>23, <1>24, <1>25, <1>26, <1>27,
    <1>28, <1>29, <1>30, <1>31, <1>32, <1>33, <1>34, <1>35 DEF Next

\* Types, workflows and copies, from the first state on.
LEMMA FlowInit == Init => Flow /\ Copies
BY DEF Init, Flow, Deciding, Told, Heard, Followed, Live, Callers, Copies, Alone, Copied, Moving, Turned

\* A start that takes an open workflow for rejected cannot be undone.
LEMMA MisjudgedStays ==
  ASSUME TypeInv, [Next]_vars, ~misjudged' PROVE ~misjudged
<1>1. CASE Start  BY <1>1 DEF Start, TypeInv, TypeOK
<1>2. ASSUME NEW q \in Requests,
             \/ \E days \in Choices[q] : Check(q, days)
             \/ Insert(q) \/ StartWorkflow(q) \/ Link(q) \/ SubmitFails(q) \/ SubmitCrashes(q)
             \/ \E status \in Outcomes : Act(q, status)
             \/ Publish(q) \/ LoseEvent(q) \/ Deliver(q)
      PROVE  misjudged' = misjudged
  BY <1>2 DEF history, Check, Insert, StartWorkflow, Link, SubmitFails, SubmitCrashes, Act,
    Publish, LoseEvent, Deliver
<1>3. ASSUME NEW c \in Callers,
             \/ ReadRow(c) \/ WriteRow(c) \/ SyncDone(c) \/ ResolverFails(c) \/ ResolverCrashes(c)
             \/ \E d \in Days : SyncDay(c, d)
      PROVE  misjudged' = misjudged
  BY <1>3 DEF history, ReadRow, WriteRow, SyncDay, SyncDone, ResolverFails, ResolverCrashes
<1>4. CASE Repair \/ FindOrphans \/ CheckOrphan \/ OrphanGone \/ Sweep
  BY <1>4 DEF history, Repair, FindOrphans, CheckOrphan, OrphanGone, Sweep
<1>5. ASSUME NEW a \in Admins, NEW q \in Requests, NEW d \in Days,
             \/ DeleteRead(a, q, d)
             \/ \E to \in Days : UpdateRead(a, q, d, to) \/ SwapRead(a, q, d, to)
      PROVE  misjudged' = misjudged
  BY <1>5 DEF DeleteRead, UpdateRead, SwapRead, AdminRead
<1>6. ASSUME NEW a \in Admins,
             \/ AdminCheck(a) \/ AdminRevert(a) \/ AdminCancel(a)
             \/ DeleteWrite(a) \/ UpdateWrite(a) \/ SwapWrite(a)
             \/ \E q \in Requests : SwapCreate(a, q)
             \/ AdminSync(a) \/ AdminFails(a)
      PROVE  misjudged' = misjudged
  BY <1>6 DEF history, AdminCheck, AdminRevert, AdminCancel, DeleteWrite, UpdateWrite, SwapWrite,
    AdminWrite, SwapCreate, AdminSync, AdminFails
<1>7. CASE UNCHANGED vars  BY <1>7 DEF vars, history
<1> QED  BY <1>1, <1>2, <1>3, <1>4, <1>5, <1>6, <1>7 DEF Next

\* A request is approved only if its workflow was, and rejected only if that was
\* rejected or cancelled, unless a start took an open workflow for rejected (run
\* MonthlyOffReturned) or calls crossed.
THEOREM FollowsWorkflow == Spec => []RowFollowsWorkflow
<1> DEFINE Inv == Flow /\ (~misjudged => Copies)
<1>1. TypeInv /\ Inv /\ [Next]_vars => Inv'
  BY TypeStep, FlowStep, CopiesStep, MisjudgedStays
<1>2. Inv => RowFollowsWorkflow
  BY DEF Flow, Followed, Copies, Turned, Decided, RowFollowsWorkflow
<1>3. Init => Inv
  BY FlowInit
<1> QED  BY <1>1, <1>2, <1>3, InitTyped, TypeStep, PTL DEF Spec
-----------------------------------------------------------------------------
(*****************************************************************************)
(* Bookings, and calls that have checked a day and will book it.            *)
(*****************************************************************************)

\* Who is about to book is alone, and its days are free.
Books == ~crossed =>
    /\ \A p, q \in Requests : submission[p].at = "checked" /\ submission[q].at = "checked" => p = q
    /\ \A p \in Requests, a \in Admins : ~(submission[p].at = "checked" /\ Booking(a))
    /\ \A a, b \in Admins : Booking(a) /\ Booking(b) => a = b
    /\ \A p, q \in Requests : submission[q].at = "checked" => Booked(p) \cap submission[q].days = {}
    /\ \A a \in Admins, p \in Requests : Booking(a) /\ p # admin[a].id => admin[a].to \notin Booked(p)
    /\ \A p, q \in Requests : p # q => Booked(p) \cap Booked(q) = {}

\* Bookings that shrink break nothing.
LEMMA BooksShrink ==
  ASSUME Books, ~crossed' => ~crossed, UNCHANGED submission,
         ~crossed' => \A p \in Requests : Booked(p)' \subseteq Booked(p),
         ~crossed' => \A a \in Admins : Booking(a)' => Booking(a) /\ admin'[a].id = admin[a].id
                                                       /\ admin'[a].to = admin[a].to
  PROVE  Books'
<1> SUFFICES ASSUME ~crossed', ~crossed PROVE Books'
  BY DEF Books
<1>1. \A p, q \in Requests : submission'[q].at = "checked" => Booked(p)' \cap submission'[q].days = {}
  BY DEF Books
<1>2. \A a \in Admins, p \in Requests : Booking(a)' /\ p # admin'[a].id => admin'[a].to \notin Booked(p)'
  BY DEF Books
<1>3. \A p, q \in Requests : p # q => Booked(p)' \cap Booked(q)' = {}
  BY DEF Books
<1>4. /\ \A p, q \in Requests : submission'[p].at = "checked" /\ submission'[q].at = "checked" => p = q
      /\ \A p \in Requests, a \in Admins : ~(submission'[p].at = "checked" /\ Booking(a)')
      /\ \A a, b \in Admins : Booking(a)' /\ Booking(b)' => a = b
  BY DEF Books
<1> QED  BY <1>1, <1>2, <1>3, <1>4 DEF Books

\* A day is checked: the bookings.
LEMMA BooksCheck ==
  ASSUME NEW q \in Requests, NEW days \in Choices[q], Check(q, days), TypeInv, Books
  PROVE  Books'
<1> SUFFICES ASSUME ~crossed' PROVE Books'
  BY DEF Books
<1>1. ~crossed /\ AboutToBook = {} /\ UNCHANGED <<row, admin>>  BY DEF Check, TypeInv, TypeOK, table
<1>2. /\ \A p \in Requests : submission[p].at # "checked"
      /\ \A a \in Admins : ~Booking(a)
  BY <1>1 DEF AboutToBook
<1>3. /\ submission'[q].days = days
      /\ \A p \in Requests \ {q} : submission'[p] = submission[p]
  BY DEF Check, TypeInv, TypeOK
<1>4. \A p \in Requests : Booked(p) \cap days = {}
  <2>1. Booked(q) = {}  BY DEF Check, TypeInv, Shape, Booked, Live
  <2> QED  BY <2>1 DEF Check, Conflicts
<1>5. \A p \in Requests : Booked(p)' = Booked(p)  BY <1>1 DEF Booked, Live
<1>6. \A a \in Admins : ~Booking(a)'  BY <1>1, <1>2 DEF Booking
<1>7. \A p \in Requests : submission'[p].at = "checked" => p = q  BY <1>2, <1>3
<1> QED  BY <1>1, <1>3, <1>4, <1>5, <1>6, <1>7 DEF Books

\* onWorkflowResolved writes: the bookings.
LEMMA BooksWriteRow ==
  ASSUME NEW c \in Callers, WriteRow(c), TypeInv, Flow, Copies, Books PROVE Books'
<1>1. UNCHANGED <<admin, crossed, submission>>  BY DEF WriteRow, history
<1>2. PICK q \in Requests : q = resolver[c].id  BY ResolveEffect
<1>3. resolver[c].status = "approved" => workflow[q] = "approved"
  BY <1>2, ResolveEffect DEF Flow, Told, Heard, Verdict, Terminal
<1>4. ~crossed => \A p \in Requests : Booked(p)' \subseteq Booked(p)
  <2> SUFFICES ASSUME ~crossed, NEW p \in Requests PROVE Booked(p)' \subseteq Booked(p)
    OBVIOUS
  <2>1. CASE p # q  BY <1>2, <2>1, ResolveEffect DEF Booked, Live
  <2>2. CASE p = q
    <3>1. CASE row[q] = Null  BY <1>2, <2>2, <3>1, ResolveEffect DEF Booked, Live
    <3>2. CASE row[q] # Null /\ row[q].status = "rejected" /\ ~row[q].deleted
      <4>1. resolver[c].status = "approved" => row[q].days = {}
        BY <1>3, <3>2 DEF Copies, Turned, Live
      <4>2. resolver[c].status \in {"approved", "rejected"}  BY ResolveEffect DEF Resolution
      <4> QED  BY <1>2, <2>2, <3>2, <4>1, <4>2, ResolveEffect DEF Booked, Live
    <3>3. CASE row[q] # Null /\ ~(row[q].status = "rejected" /\ ~row[q].deleted)
      BY <1>2, <2>2, <3>3, ResolveEffect DEF Booked, Live
    <3> QED  BY <3>1, <3>2, <3>3
  <2> QED  BY <2>1, <2>2
<1>5. \A a \in Admins : Booking(a)' => Booking(a)  BY <1>1 DEF Booking
<1> QED  BY <1>1, <1>4, <1>5, BooksShrink

\* A change checks its day: the bookings.
LEMMA BooksAdminCheck ==
  ASSUME NEW a \in Admins, AdminCheck(a), TypeInv, Books PROVE Books'
<1>1. UNCHANGED <<row, submission>> /\ admin[a] # Null /\ admin[a].at = "checking"
  BY DEF AdminCheck, AdminAt, table
<1>2. \A p \in Requests : Booked(p)' = Booked(p)  BY <1>1 DEF Booked, Live
<1>3. CASE AdminEnd(a) /\ UNCHANGED crossed
  <2>1. \A b \in Admins : Booking(b)' => Booking(b) /\ admin'[b] = admin[b]
    BY <1>3, EndEffect DEF Booking
  <2> QED  BY <1>1, <1>2, <1>3, <2>1, BooksShrink
<1>4. CASE /\ ~Conflicts({admin[a].to}, admin[a].id) /\ AdminGoto(a, "writing")
           /\ crossed' = (crossed \/ AboutToBook # {})
  <2> SUFFICES ASSUME ~crossed' PROVE Books'
    BY DEF Books
  <2>1. ~crossed /\ AboutToBook = {}  BY <1>4
  <2>2. /\ \A p \in Requests : submission[p].at # "checked"
        /\ \A b \in Admins : ~Booking(b)
    BY <2>1 DEF AboutToBook
  <2>3. /\ admin'[a].id = admin[a].id /\ admin'[a].to = admin[a].to
        /\ \A b \in Admins \ {a} : admin'[b] = admin[b]
    BY <1>1, <1>4, GotoEffect
  <2>4. \A b \in Admins : Booking(b)' => b = a  BY <2>2, <2>3 DEF Booking
  <2>5. \A p \in Requests : p # admin'[a].id => admin'[a].to \notin Booked(p)'
    BY <1>2, <1>4, <2>3 DEF Conflicts
  <2> QED  BY <1>1, <1>2, <2>1, <2>2, <2>4, <2>5 DEF Books
<1> QED  BY <1>3, <1>4 DEF AdminCheck

\* A deletion, a change or a swap writes: the bookings.
LEMMA BooksWrites ==
  ASSUME NEW a \in Admins, DeleteWrite(a) \/ UpdateWrite(a) \/ SwapWrite(a), TypeInv, Copies, Books
  PROVE  Books'
<1>1. UNCHANGED <<crossed, submission>>  BY DEF DeleteWrite, UpdateWrite, SwapWrite, AdminWrite
<1> SUFFICES ASSUME ~crossed PROVE Books'
  BY <1>1 DEF Books
<1>2. PICK q \in Requests : q = admin[a].id  BY Writes
<1>3. admin[a] # Null /\ row[q] # Null /\ admin[a].at = "writing"
  BY <1>2 DEF DeleteWrite, UpdateWrite, SwapWrite, Writing, AdminAt, Copies, Copied
<1>4. row[q].days = admin[a].days  BY <1>2, <1>3 DEF Copies, Copied, Copying
<1>5. \A p \in Requests \ {q} : Booked(p)' = Booked(p)
  BY <1>2, <1>3, ChangeEffect DEF Booked, Live
<1>6. CASE admin[a].kind # "update"
  <2>1. Booked(q)' \subseteq Booked(q)
    BY <1>2, <1>3, <1>4, <1>6, ChangeEffect, Writes, SMTT(30) DEF Booked, Live
  <2>2. \A b \in Admins : Booking(b)' => Booking(b) /\ admin'[b].id = admin[b].id
                                         /\ admin'[b].to = admin[b].to
    BY <1>2, <1>3, <1>6, ChangeEffect DEF Booking
  <2> QED  BY <1>1, <1>5, <2>1, <2>2, BooksShrink
<1>7. CASE admin[a].kind = "update"
  <2>1. Booking(a)  BY <1>3, <1>7 DEF Booking
  <2>2. Booked(q)' \subseteq Booked(q) \cup {admin[a].to}
    BY <1>2, <1>3, <1>4, <1>7, ChangeEffect, Writes, SMTT(30) DEF Booked, Live
  <2>3. \A p \in Requests : submission[p].at # "checked"  BY <2>1 DEF Books
  <2>4. \A b \in Admins : ~Booking(b)'
    <3>1. ~Booking(a)'  BY <1>2, <1>3, <1>7, ChangeEffect DEF Booking
    <3>2. \A b \in Admins \ {a} : Booking(b)' => Booking(b)
      BY <1>2, <1>3, ChangeEffect DEF Booking
    <3> QED  BY <2>1, <3>1, <3>2 DEF Books
  <2>5. \A p \in Requests : p # q => admin[a].to \notin Booked(p)  BY <1>2, <2>1 DEF Books
  <2>6. \A p, r \in Requests : p # r => Booked(p)' \cap Booked(r)' = {}
    BY <1>5, <2>2, <2>5 DEF Books
  <2> QED  BY <1>1, <2>3, <2>4, <2>6 DEF Books
<1> QED  BY <1>6, <1>7

\* A swap books its day: the bookings.
LEMMA BooksCreate ==
  ASSUME NEW a \in Admins, NEW q \in Requests, SwapCreate(a, q), TypeInv, Copies, Books
  PROVE  Books'
<1>1. crossed' = crossed  BY DEF SwapCreate, history
<1> SUFFICES ASSUME ~crossed PROVE Books'
  BY <1>1 DEF Books
<1>2. /\ admin[a] # Null /\ admin[a] \in Change /\ admin[a].at = "creating"
      /\ \A p \in Requests \ {q} : row'[p] = row[p] /\ submission'[p] = submission[p]
      /\ row'[q] # Null /\ row'[q].days = {admin[a].to} /\ submission'[q].at = "swapped"
      /\ \A b \in Admins \ {a} : admin'[b] = admin[b]
      /\ admin'[a].at = "syncing"
  BY CreateEffect
<1>3. admin[a].kind = "swap"  BY <1>2 DEF Copies, Moving
<1>4. Booking(a)  BY <1>2, <1>3 DEF Booking
<1>5. \A p \in Requests : submission'[p].at # "checked"
  BY <1>2, <1>4 DEF Books
<1>6. \A b \in Admins : ~Booking(b)'
  BY <1>2, <1>4 DEF Books, Booking
<1>7. \A p \in Requests \ {q} : Booked(p)' = Booked(p)  BY <1>2 DEF Booked, Live
<1>8. Booked(q)' \subseteq {admin[a].to}  BY <1>2 DEF Booked
<1>9. \A p \in Requests : admin[a].to \notin Booked(p)
  <2>1. row[admin[a].id].days \subseteq admin[a].days /\ admin[a].to \notin admin[a].days
    BY <1>2, <1>3 DEF Copies, Copied, Moving
  <2>2. admin[a].to \notin Booked(admin[a].id)  BY <2>1 DEF Booked
  <2> QED  BY <1>4, <2>2 DEF Books
<1> QED  BY <1>1, <1>5, <1>6, <1>7, <1>8, <1>9 DEF Books

\* Every step keeps Books.
LEMMA BooksStep ==
  ASSUME TypeInv, TypeInv', Flow, Copies, Books, [Next]_vars PROVE Books'
<1>1. ASSUME NEW q \in Requests, NEW days \in Choices[q], Check(q, days) PROVE Books'
  BY <1>1, BooksCheck
<1>2. ASSUME NEW q \in Requests, Insert(q) PROVE Books'
  BY <1>2, MonthlyOffAssumption, NullAssumption DEF Insert, TypeInv, TypeOK, history, Books,
    Booked, Booking, Live
<1>3. ASSUME NEW q \in Requests, StartWorkflow(q) PROVE Books'
  BY <1>3 DEF StartWorkflow, Advance, history, Books, Booked, Booking, Live
<1>4. ASSUME NEW q \in Requests, Link(q) PROVE Books'
  BY <1>4 DEF Link, Advance, TypeInv, Shape, history, Books, Booked, Booking, Live
<1>5. ASSUME NEW q \in Requests, SubmitFails(q) PROVE Books'
  BY <1>5 DEF SubmitFails, TypeInv, TypeOK, Books, Booked, Booking, Live
<1>6. ASSUME NEW q \in Requests, SubmitCrashes(q) PROVE Books'
  BY <1>6 DEF SubmitCrashes, table, history, Books, Booked, Booking, Live
<1>7. ASSUME NEW q \in Requests, NEW status \in Outcomes, Act(q, status) PROVE Books'
  BY <1>7 DEF Act, history, Books, Booked, Booking, Live
<1>8. ASSUME NEW q \in Requests, Publish(q) PROVE Books'
  BY <1>8 DEF Publish, history, Books, Booked, Booking, Live
<1>9. ASSUME NEW q \in Requests, LoseEvent(q) PROVE Books'
  BY <1>9 DEF LoseEvent, history, Books, Booked, Booking, Live
<1>10. ASSUME NEW q \in Requests, Deliver(q) PROVE Books'
  BY <1>10 DEF Deliver, table, history, Books, Booked, Booking, Live
<1>11. ASSUME NEW c \in Callers, ReadRow(c) PROVE Books'
  BY <1>11 DEF ReadRow, history, Books, Booked, Booking, Live
<1>12. ASSUME NEW c \in Callers, WriteRow(c) PROVE Books'
  BY <1>12, BooksWriteRow
<1>13. ASSUME NEW c \in Callers, NEW d \in Days, SyncDay(c, d) PROVE Books'
  BY <1>13 DEF SyncDay, history, Books, Booked, Booking, Live
<1>14. ASSUME NEW c \in Callers, SyncDone(c) PROVE Books'
  BY <1>14 DEF SyncDone, history, Books, Booked, Booking, Live
<1>15. ASSUME NEW c \in Callers, ResolverFails(c) PROVE Books'
  BY <1>15 DEF ResolverFails, Books, Booked, Booking, Live
<1>16. ASSUME NEW c \in Callers, ResolverCrashes(c) PROVE Books'
  BY <1>16 DEF ResolverCrashes, table, Books, Booked, Booking, Live
<1>17. ASSUME Start PROVE Books'
  BY <1>17 DEF Start, table, Books, Booked, Booking, Live
<1>18. ASSUME Repair PROVE Books'
  BY <1>18 DEF Repair, table, history, Books, Booked, Booking, Live
<1>19. ASSUME FindOrphans PROVE Books'
  BY <1>19 DEF FindOrphans, table, history, Books, Booked, Booking, Live
<1>20. ASSUME CheckOrphan PROVE Books'
  BY <1>20, MonthlyOffAssumption, NullAssumption, SMTT(30) DEF CheckOrphan, TypeInv, TypeOK, Shape, table,
    history, Books, Booked, Booking, Live, Copies, Moving, Callers
<1>21. ASSUME OrphanGone PROVE Books'
  BY <1>21 DEF OrphanGone, table, history, Books, Booked, Booking, Live
<1>22. ASSUME Sweep PROVE Books'
  BY <1>22 DEF Sweep, history, Books, Booked, Booking, Live
<1>23. ASSUME NEW a \in Admins, AdminCheck(a) PROVE Books'
  BY <1>23, BooksAdminCheck
<1>24. ASSUME NEW a \in Admins, NEW q \in Requests, NEW d \in Days, DeleteRead(a, q, d)
      PROVE  Books'
  BY <1>24, MonthlyOffAssumption, NullAssumption DEF DeleteRead, AdminRead, Disruption, TypeInv,
    TypeOK, table, Books, Booked, Booking, Live, Copies, Callers
<1>25. ASSUME NEW a \in Admins, NEW q \in Requests, NEW d \in Days, NEW to \in Days, UpdateRead(a, q, d, to)
      PROVE  Books'
  BY <1>25, MonthlyOffAssumption, NullAssumption DEF UpdateRead, AdminRead, TypeInv, TypeOK,
    table, Books, Booked, Booking, Live, Moving, Callers
<1>26. ASSUME NEW a \in Admins, NEW q \in Requests, NEW d \in Days, NEW to \in Days, SwapRead(a, q, d, to)
      PROVE  Books'
  BY <1>26, MonthlyOffAssumption, NullAssumption DEF SwapRead, AdminRead, TypeInv, TypeOK,
    table, Books, Booked, Booking, Live, Moving, Callers
<1>27. ASSUME NEW a \in Admins, AdminRevert(a) PROVE Books'
  BY <1>27, MonthlyOffAssumption, NullAssumption, SMTT(30) DEF AdminRevert, AdminAt, AdminGoto, TypeInv,
    TypeOK, Shape, table, history, Books, Booked, Booking, Live, Copies, Moving, Callers
<1>28. ASSUME NEW a \in Admins, AdminCancel(a) PROVE Books'
  BY <1>28 DEF AdminCancel, AdminEnd, history, Books, Booked, Booking, Live, Callers
<1>29. ASSUME NEW a \in Admins, DeleteWrite(a) PROVE Books'
  BY <1>29, BooksWrites
<1>30. ASSUME NEW a \in Admins, UpdateWrite(a) PROVE Books'
  BY <1>30, BooksWrites
<1>31. ASSUME NEW a \in Admins, SwapWrite(a) PROVE Books'
  BY <1>31, BooksWrites
<1>32. ASSUME NEW a \in Admins, NEW q \in Requests, SwapCreate(a, q) PROVE Books'
  BY <1>32, BooksCreate
<1>33. ASSUME NEW a \in Admins, AdminSync(a) PROVE Books'
  BY <1>33, MonthlyOffAssumption DEF AdminSync, AdminEnd, history, Books, Booked, Booking, Live
<1>34. ASSUME NEW a \in Admins, AdminFails(a) PROVE Books'
  BY <1>34 DEF AdminFails, AdminEnd, table, Books, Booked, Booking, Live
<1>35. CASE UNCHANGED vars
  BY <1>35 DEF vars, table, history, Books, Booked, Booking, Live
<1> QED
  BY <1>1, <1>2, <1>3, <1>4, <1>5, <1>6, <1>7, <1>8, <1>9, <1>10, <1>11, <1>12, <1>13, <1>14,
    <1>15, <1>16, <1>17, <1>18, <1>19, <1>20, <1>21, <1>22, <1>23, <1>24, <1>25, <1>26, <1>27,
    <1>28, <1>29, <1>30, <1>31, <1>32, <1>33, <1>34, <1>35 DEF Next

\* No day is booked by two requests, unless two calls were between check and
\* booking or changed one request, or a start took an open workflow for rejected.  (EmployeeDayConflictService is asked before
\* each booking, never in one transaction with it.)
THEOREM BookedOnce == Spec => []NoDoubleBooking
<1> DEFINE Inv == Flow /\ (~misjudged => Copies /\ Books)
<1>1. Init => Inv
  BY FlowInit DEF Init, Books, Booked, Booking, Live
<1>2. TypeInv /\ Inv /\ [Next]_vars => Inv'
  BY TypeStep, FlowStep, CopiesStep, BooksStep, MisjudgedStays
<1>3. Inv => NoDoubleBooking
  BY DEF Books, NoDoubleBooking
<1> QED  BY <1>1, <1>2, <1>3, InitTyped, TypeStep, PTL DEF Spec
-----------------------------------------------------------------------------
(*****************************************************************************)
(* The records of the days off.                                             *)
(*****************************************************************************)

\* The days whose records a call is still to make.
Owed(a) == {d \in Days :
    \/ admin[a].kind = "delete" /\ admin[a].at = "writing" /\ d = admin[a].day
    \/ admin[a].kind = "update" /\ admin[a].at \in {"reverting", "syncing"} /\ d = admin[a].to
    \/ admin[a].kind = "swap" /\ admin[a].at = "syncing" /\ d = admin[a].to}

Resolving(q, at) == {c \in Callers : resolver[c] # Null /\ resolver[c].id = q /\ resolver[c].at = at}

\* Who approves a request has read all its days, ...
Reads == ~crossed => \A q \in Requests \ cut :
    Pending(q) =>
        \A c \in Resolving(q, "writing") : row[q].days \subseteq resolver[c].days

\* ... and the days of an approved one are recorded or owed.
Recorded == ~crossed => \A q \in Requests \ cut :
    Live(q) /\ row[q].status = "approved" =>
        \A d \in row[q].days :
            \/ d \in dayOff
            \/ \E c \in Resolving(q, "syncing") : d \in resolver[c].days
            \/ \E a \in Changing(q) : d \in Owed(a)

Synced == Reads /\ Recorded

\* submit inserts: the days read.
LEMMA ReadsInsert ==
  ASSUME NEW q \in Requests, Insert(q), TypeInv, Flow, Synced PROVE Reads'
<1>1. workflow[q] = "none"  BY DEF Insert, Flow, Deciding
<1>2. \A c \in Callers : resolver[c] # Null => resolver[c].id # q
  BY <1>1 DEF Flow, Told, Heard
<1>3. \A p \in Requests \ {q} : row'[p] = row[p]  BY DEF Insert, TypeInv, TypeOK
<1>4. UNCHANGED <<resolver, crossed, cut>>  BY DEF Insert, history
<1> QED  BY <1>2, <1>3, <1>4 DEF Synced, Reads, Pending, Live, Resolving

\* onWorkflowResolved reads: the days read.
LEMMA ReadsReadRow ==
  ASSUME NEW c \in Callers, ReadRow(c), TypeInv, Synced PROVE Reads'
<1>1. UNCHANGED <<row, crossed, cut>> /\ resolver[c] # Null /\ resolver[c] \in Resolution
  BY DEF ReadRow, history, TypeInv, TypeOK
<1>2. CASE Pending(resolver[c].id)
  <2>1. resolver' = [resolver EXCEPT ![c].at = "writing", ![c].days = row[resolver[c].id].days]
    BY <1>2 DEF ReadRow
  <2>2. /\ \A d \in Callers \ {c} : resolver'[d] = resolver[d]
        /\ resolver'[c].id = resolver[c].id /\ resolver'[c].days = row[resolver[c].id].days
    BY <1>1, <2>1 DEF TypeInv, TypeOK, Resolution
  <2> QED  BY <1>1, <2>2 DEF Synced, Reads, Pending, Live, Resolving
<1>3. CASE Return(c, TRUE)
  <2>1. resolver'[c] = Null /\ \A d \in Callers \ {c} : resolver'[d] = resolver[d]
    BY <1>3, ReturnEnds
  <2> QED  BY <1>1, <2>1 DEF Synced, Reads, Pending, Live, Resolving
<1> QED  BY <1>2, <1>3 DEF ReadRow

\* After the write, the call records the days or is over.
LEMMA ResolverAfterWrite ==
  ASSUME NEW c \in Callers, WriteRow(c), TypeInv
  PROVE  /\ \A d \in Callers \ {c} : resolver'[d] = resolver[d]
         /\ \/ /\ resolver'[c] = Null
               /\ row[resolver[c].id] # Null => row'[resolver[c].id].status # "approved"
            \/ /\ resolver'[c] # Null /\ resolver'[c].id = resolver[c].id
               /\ resolver'[c].at = "syncing" /\ resolver'[c].days = resolver[c].days
<1>1. resolver[c] \in Resolution /\ resolver[c] # Null  BY ResolveEffect
<1>2. CASE Return(c, TRUE) \/ Return(c, FALSE)
  <2>1. resolver'[c] = Null /\ \A d \in Callers \ {c} : resolver'[d] = resolver[d]
    BY <1>2, ReturnEnds
  <2>2. row[resolver[c].id] # Null => resolver[c].status # "approved"
    <3>1. resolver[c].status = "approved" /\ row[resolver[c].id] # Null
            => resolver' = [resolver EXCEPT ![c].at = "syncing"]
      BY DEF WriteRow
    <3>2. [resolver[c] EXCEPT !.at = "syncing"] \in Resolution  BY <1>1 DEF Resolution
    <3>3. [resolver[c] EXCEPT !.at = "syncing"] # Null  BY <3>2, NullAssumption
    <3>4. resolver' = [resolver EXCEPT ![c].at = "syncing"] => resolver'[c] = [resolver[c] EXCEPT !.at = "syncing"]
      BY DEF TypeInv, TypeOK
    <3> QED  BY <2>1, <3>1, <3>3, <3>4
  <2> QED  BY <2>1, <2>2, ResolveEffect
<1>3. CASE resolver' = [resolver EXCEPT ![c].at = "syncing"]
  <2>1. /\ resolver'[c] = [resolver[c] EXCEPT !.at = "syncing"]
        /\ \A d \in Callers \ {c} : resolver'[d] = resolver[d]
    BY <1>3 DEF TypeInv, TypeOK
  <2>2. resolver'[c] \in Resolution  BY <1>1, <2>1 DEF Resolution
  <2>3. resolver'[c] # Null  BY <2>2, NullAssumption
  <2>4. resolver'[c].id = resolver[c].id /\ resolver'[c].at = "syncing" /\ resolver'[c].days = resolver[c].days
    BY <1>1, <2>1 DEF Resolution
  <2> QED  BY <2>1, <2>3, <2>4
<1> QED  BY <1>2, <1>3 DEF WriteRow

\* onWorkflowResolved writes: the days read and the records.
LEMMA SyncedWriteRow ==
  ASSUME NEW c \in Callers, WriteRow(c), TypeInv, Flow, Copies, Synced PROVE Synced'
<1>1. UNCHANGED <<admin, dayOff, crossed, cut, workflow>>  BY DEF WriteRow, history
<1> SUFFICES ASSUME ~crossed PROVE Synced'
  BY <1>1 DEF Synced, Reads, Recorded
<1>2. PICK q \in Requests : q = resolver[c].id  BY ResolveEffect
<1>3. resolver[c].status \in {"approved", "rejected"}  BY ResolveEffect DEF Resolution
<1>4. c \in Resolving(q, "writing")  BY <1>2, ResolveEffect DEF Resolving
<1>5. \A p \in Requests, d \in Callers : d \in Resolving(p, "writing")' => d \in Resolving(p, "writing") /\ resolver'[d] = resolver[d]
  BY <1>2, ResolverAfterWrite DEF Resolving
<1>6. Reads'
  <2>1. \A p \in Requests : row'[p] # Null /\ row'[p].status = "pending" => row'[p] = row[p]
    BY <1>2, <1>3, ResolveEffect
  <2>2. ASSUME NEW p \in Requests \ cut, row'[p] # Null, ~row'[p].deleted,
               row'[p].status = "pending", NEW d \in Resolving(p, "writing")'
        PROVE  row'[p].days \subseteq resolver'[d].days
    <3>1. d \in Callers  BY DEF Resolving
    <3>2. d \in Resolving(p, "writing") /\ resolver'[d] = resolver[d]  BY <1>5, <3>1
    <3>3. row'[p] = row[p]  BY <2>1, <2>2
    <3> QED  BY <2>2, <3>2, <3>3 DEF Synced, Reads, Pending, Live
  <2> QED  BY <1>1, <2>2 DEF Reads, Pending, Live
<1>7. \A p \in Requests, d \in Callers : d \in Resolving(p, "syncing") => d \in Resolving(p, "syncing")' /\ resolver'[d] = resolver[d]
  BY <1>2, ResolverAfterWrite, ResolveEffect DEF Resolving
<1>8. \A p \in Requests : Changing(p)' = Changing(p) /\ \A a \in Admins : Owed(a)' = Owed(a)
  BY <1>1 DEF Changing, Owed
<1>9. ASSUME NEW p \in Requests \ cut, Live(p)', row'[p].status = "approved", NEW d \in row'[p].days
      PROVE  \/ d \in dayOff
             \/ \E e \in Resolving(p, "syncing")' : d \in resolver'[e].days
             \/ \E a \in Changing(p)' : d \in Owed(a)'
  <2>1. CASE Live(p) /\ row[p].status = "approved" /\ row'[p].days = row[p].days
    <3>1. \/ d \in dayOff
          \/ \E e \in Resolving(p, "syncing") : d \in resolver[e].days
          \/ \E a \in Changing(p) : d \in Owed(a)
      BY <1>9, <2>1 DEF Synced, Recorded
    <3>2. ASSUME NEW e \in Resolving(p, "syncing"), d \in resolver[e].days
          PROVE  e \in Resolving(p, "syncing")' /\ d \in resolver'[e].days
      <4>1. e \in Callers  BY DEF Resolving
      <4> QED  BY <1>7, <3>2, <4>1
    <3>3. ASSUME NEW a \in Changing(p), d \in Owed(a)
          PROVE  a \in Changing(p)' /\ d \in Owed(a)'
      <4>1. a \in Admins  BY DEF Changing
      <4> QED  BY <1>8, <3>3, <4>1
    <3> QED  BY <3>1, <3>2, <3>3
  <2>2. CASE ~(Live(p) /\ row[p].status = "approved" /\ row'[p].days = row[p].days)
    <3>1. p = q /\ row[q] # Null /\ resolver[c].status = "approved" /\ ~row[q].deleted
          /\ row'[q].days = row[q].days /\ row[q].status # "approved"
      BY <1>2, <1>9, <2>2, ResolveEffect DEF Live
    <3>2. row[q].status = "pending"
      <4>1. row[q] \in Row  BY <3>1 DEF TypeInv, TypeOK
      <4>2. workflow[q] = "approved"
        BY <1>2, <3>1, ResolveEffect DEF Flow, Told, Heard, Verdict
      <4>3. row[q].status # "rejected"
        BY <1>9, <3>1, <4>2 DEF Copies, Turned, Live
      <4> QED  BY <3>1, <4>1, <4>3 DEF Row
    <3>3. row[q].days \subseteq resolver[c].days
      BY <1>4, <1>9, <3>1, <3>2 DEF Synced, Reads, Pending, Live
    <3>4. resolver'[c] # Null /\ resolver'[c].id = q /\ resolver'[c].at = "syncing" /\ resolver'[c].days = resolver[c].days
      BY <1>2, <1>9, <3>1, ResolverAfterWrite
    <3>5. c \in Resolving(p, "syncing")'  BY <3>1, <3>4 DEF Resolving
    <3> QED  BY <1>9, <3>1, <3>3, <3>4, <3>5
  <2> QED  BY <2>1, <2>2
<1>10. Recorded'  BY <1>1, <1>9 DEF Recorded
<1> QED  BY <1>6, <1>10 DEF Synced

\* A day is recorded: the records.
LEMMA RecordedSyncDay ==
  ASSUME NEW c \in Callers, NEW d \in Days, SyncDay(c, d), TypeInv, Synced PROVE Recorded'
<1>1. UNCHANGED <<row, admin, crossed, cut>> /\ resolver[c] \in Resolution /\ resolver[c] # Null
      /\ dayOff' = dayOff \cup {d}
  BY DEF SyncDay, history, TypeInv, TypeOK
<1>2. /\ resolver'[c] = [resolver[c] EXCEPT !.days = @ \ {d}]
      /\ \A e \in Callers \ {c} : resolver'[e] = resolver[e]
  BY DEF SyncDay, TypeInv, TypeOK
<1>3. resolver'[c].id = resolver[c].id /\ resolver'[c].at = resolver[c].at
      /\ resolver'[c].days = resolver[c].days \ {d}
  BY <1>1, <1>2 DEF Resolution
<1>4. resolver'[c] # Null
  <2>1. resolver'[c] \in Resolution  BY <1>1, <1>2 DEF Resolution
  <2> QED  BY <2>1, NullAssumption
<1>5. \A p \in Requests, e \in Callers : e \in Resolving(p, "syncing") =>
        e \in Resolving(p, "syncing")' /\ resolver[e].days \subseteq resolver'[e].days \cup {d}
  BY <1>2, <1>3, <1>4 DEF Resolving
<1>6. \A p \in Requests : Changing(p)' = Changing(p) /\ \A a \in Admins : Owed(a)' = Owed(a)
  BY <1>1 DEF Changing, Owed
<1> SUFFICES ASSUME ~crossed, NEW p \in Requests \ cut, Live(p), row[p].status = "approved",
                    NEW e \in row[p].days
             PROVE  \/ e \in dayOff'
                    \/ \E f \in Resolving(p, "syncing")' : e \in resolver'[f].days
                    \/ \E a \in Changing(p)' : e \in Owed(a)'
  BY <1>1 DEF Recorded, Live
<1>7. \/ e \in dayOff
      \/ \E f \in Resolving(p, "syncing") : e \in resolver[f].days
      \/ \E a \in Changing(p) : e \in Owed(a)
  BY DEF Synced, Recorded
<1>8. ASSUME NEW f \in Resolving(p, "syncing"), e \in resolver[f].days
      PROVE  e \in dayOff' \/ (f \in Resolving(p, "syncing")' /\ e \in resolver'[f].days)
  <2>1. f \in Callers  BY DEF Resolving
  <2>2. f \in Resolving(p, "syncing")' /\ resolver[f].days \subseteq resolver'[f].days \cup {d}
    BY <1>5, <2>1
  <2> QED  BY <1>1, <1>8, <2>2
<1>9. ASSUME NEW a \in Changing(p), e \in Owed(a)
      PROVE  a \in Changing(p)' /\ e \in Owed(a)'
  <2>1. a \in Admins  BY DEF Changing
  <2> QED  BY <1>6, <1>9, <2>1
<1> QED  BY <1>1, <1>7, <1>8, <1>9

\* What the calls that change a request leave of the records, if they leave the
\* resolving calls alone and each approved request with days that were recorded,
\* being recorded, or owed.
LEMMA RecordedOwed ==
  ASSUME TypeInv, Synced, UNCHANGED resolver, ~crossed' => ~crossed, cut \subseteq cut',
         ~crossed' => \A p \in Requests \ cut' : Live(p)' /\ row'[p].status = "approved" =>
            \A d \in row'[p].days :
               \/ \E a \in Changing(p)' : d \in Owed(a)'
               \/ /\ Live(p) /\ row[p].status = "approved" /\ d \in row[p].days
                  /\ d \in dayOff => d \in dayOff'
                  /\ \A a \in Changing(p) : d \in Owed(a) =>
                        d \in dayOff' \/ (a \in Changing(p)' /\ d \in Owed(a)')
  PROVE  Recorded'
<1> SUFFICES ASSUME ~crossed', NEW p \in Requests \ cut', Live(p)', row'[p].status = "approved",
                    NEW d \in row'[p].days
             PROVE  \/ d \in dayOff'
                    \/ \E c \in Resolving(p, "syncing")' : d \in resolver'[c].days
                    \/ \E a \in Changing(p)' : d \in Owed(a)'
  BY DEF Recorded
<1>1. CASE \E a \in Changing(p)' : d \in Owed(a)'  BY <1>1
<1>2. CASE /\ Live(p) /\ row[p].status = "approved" /\ d \in row[p].days
           /\ d \in dayOff => d \in dayOff'
           /\ \A a \in Changing(p) : d \in Owed(a) =>
                 d \in dayOff' \/ (a \in Changing(p)' /\ d \in Owed(a)')
  <2>1. p \in Requests \ cut  OBVIOUS
  <2>2. \/ d \in dayOff
        \/ \E c \in Resolving(p, "syncing") : d \in resolver[c].days
        \/ \E a \in Changing(p) : d \in Owed(a)
    BY <1>2, <2>1 DEF Synced, Recorded
  <2>3. Resolving(p, "syncing")' = Resolving(p, "syncing")  BY DEF Resolving
  <2> QED  BY <1>2, <2>2, <2>3
<1> QED  BY <1>1, <1>2

\* A day is checked: the records.
LEMMA RecordedCheck ==
  ASSUME NEW a \in Admins, AdminCheck(a), TypeInv, Copies, Synced PROVE Recorded'
<1>1. UNCHANGED <<row, dayOff, resolver, cut>> /\ admin[a] # Null /\ admin[a].at = "checking"
      /\ (~crossed' => ~crossed)
  BY DEF AdminCheck, AdminAt, table, TypeInv, TypeOK
<1>2. \A b \in Admins \ {a} : admin'[b] = admin[b]
  <2>1. AdminEnd(a) \/ AdminGoto(a, "writing")  BY DEF AdminCheck
  <2> QED  BY <1>1, <2>1, EndEffect, GotoEffect
<1>3. Owed(a) = {}  BY <1>1 DEF Owed
<1>4. \A p \in Requests, b \in Admins, d \in Days : b \in Changing(p) /\ d \in Owed(b) =>
        b \in Changing(p)' /\ d \in Owed(b)'
  BY <1>2, <1>3 DEF Changing, Owed
<1>5. \A p \in Requests : \A d \in row[p].days : \A b \in Changing(p) : d \in Owed(b) =>
        b \in Changing(p)' /\ d \in Owed(b)'
  BY <1>4 DEF Changing, Owed
<1> QED  BY <1>1, <1>5, RecordedOwed DEF Live

\* The record of a day is reverted: the records.
LEMMA RecordedRevert ==
  ASSUME NEW a \in Admins, AdminRevert(a), TypeInv, Copies, Synced PROVE Recorded'
<1>1. /\ UNCHANGED <<row, resolver, crossed>> /\ admin[a] # Null /\ admin[a].at = "reverting"
      /\ dayOff' = dayOff \ {admin[a].day}
      /\ cut' = cut \cup {q \in Requests \ {admin[a].id} : admin[a].day \in Booked(q)
                                                        /\ row[q].status = "approved"}
  BY DEF AdminRevert, AdminAt
<1>2. admin[a] \in Change  BY <1>1 DEF TypeInv, TypeOK
<1> DEFINE next == CASE admin[a].kind = "delete" -> "writing"
                     [] admin[a].kind = "update" -> "syncing"
                     [] admin[a].kind = "swap"   -> "creating"
<1>3. AdminGoto(a, next)  BY DEF AdminRevert
<1>4. next \in {"writing", "syncing", "creating"} /\ (admin[a].kind = "delete" => next = "writing")
      /\ (admin[a].kind = "update" => next = "syncing")
  BY <1>2 DEF Change
<1> HIDE DEF next
<1>5. /\ admin'[a] # Null /\ admin'[a].at = next /\ admin'[a].id = admin[a].id
      /\ admin'[a].kind = admin[a].kind /\ admin'[a].day = admin[a].day
      /\ admin'[a].to = admin[a].to
      /\ \A b \in Admins \ {a} : admin'[b] = admin[b]
  BY <1>1, <1>3, <1>4, GotoEffect
<1>6. Owed(a) \subseteq Owed(a)'  BY <1>1, <1>4, <1>5 DEF Owed
<1>7. \A p \in Requests : \A b \in Changing(p) : b \in Changing(p)' /\ Owed(b) \subseteq Owed(b)'
  BY <1>5, <1>6 DEF Changing, Owed
<1> SUFFICES ASSUME ~crossed, NEW p \in Requests \ cut', Live(p), row[p].status = "approved",
                    NEW d \in row[p].days
             PROVE  \/ \E b \in Changing(p)' : d \in Owed(b)'
                    \/ d \in dayOff => d \in dayOff'
  BY <1>1, <1>7, RecordedOwed DEF Live
<1>8. CASE d # admin[a].day  BY <1>1, <1>8
<1>9. CASE d = admin[a].day
  <2>1. p = admin[a].id
    BY <1>1, <1>9 DEF Booked
  <2>2. admin[a].kind = "delete"
    BY <1>1, <1>2, <1>9, <2>1 DEF Copies, Copied, Change
  <2>3. a \in Changing(p)' /\ d \in Owed(a)'
    BY <1>2, <1>4, <1>5, <1>9, <2>1, <2>2 DEF Changing, Owed, Change
  <2> QED  BY <2>3
<1> QED  BY <1>8, <1>9

\* A swap books its day: the records.
LEMMA RecordedCreate ==
  ASSUME NEW a \in Admins, NEW q \in Requests, SwapCreate(a, q), TypeInv, Copies, Synced
  PROVE  Recorded'
<1>1. UNCHANGED <<resolver, dayOff, crossed, cut>>  BY DEF SwapCreate, history
<1>2. admin[a].kind = "swap" /\ admin[a].to \in Days  BY CreateEffect DEF Copies, Moving, Change
<1>3. Owed(a) = {}  BY <1>2, CreateEffect DEF Owed
<1>4. a \in Changing(q)' /\ admin[a].to \in Owed(a)'
  BY <1>2, CreateEffect DEF Changing, Owed
<1>5. \A p \in Requests : \A b \in Changing(p) : \A d \in Owed(b) : b \in Changing(p)' /\ d \in Owed(b)'
  BY <1>3, CreateEffect DEF Changing, Owed
<1>6. \A p \in Requests \ {q} : row'[p] = row[p]  BY CreateEffect
<1>7. row'[q].days = {admin[a].to}  BY CreateEffect
<1> QED  BY <1>1, <1>4, <1>5, <1>6, <1>7, RecordedOwed DEF Live

\* A deletion, a change or a swap writes: the days read and the records.
LEMMA SyncedWrites ==
  ASSUME NEW a \in Admins, DeleteWrite(a) \/ UpdateWrite(a) \/ SwapWrite(a), TypeInv, Copies, Synced
  PROVE  Synced'
<1>1. UNCHANGED <<crossed, resolver, dayOff>>
  BY DEF DeleteWrite, UpdateWrite, SwapWrite, AdminWrite
<1>2. cut \subseteq cut'  BY DEF DeleteWrite, UpdateWrite, SwapWrite
<1> SUFFICES ASSUME ~crossed PROVE Synced'
  BY <1>1 DEF Synced, Reads, Recorded
<1>3. PICK q \in Requests : q = admin[a].id  BY Writes
<1>4. admin[a] # Null /\ row[q] # Null /\ admin[a].at = "writing" /\ admin[a] \in Change
  BY <1>3, Writes DEF DeleteWrite, UpdateWrite, SwapWrite, Writing, AdminAt, Copies, Copied
<1>5. row[q].days = admin[a].days /\ (admin[a].approved => row[q].status # "pending")
  BY <1>3, <1>4 DEF Copies, Copied, Copying
<1>6. /\ \A p \in Requests \ {q} : row'[p] = row[p]
      /\ \A b \in Admins \ {a} : admin'[b] = admin[b]
  BY <1>3, <1>4, ChangeEffect
<1>7. \A p \in Requests : Resolving(p, "writing")' = Resolving(p, "writing")  BY <1>1 DEF Resolving
<1>8. \A b \in Changing(q) : b = a  BY <1>3, <1>4 DEF Changing, Copies, Alone
<1>9. \A p \in Requests \ {q} : \A b \in Changing(p) : \A d \in Owed(b) :
        b \in Changing(p)' /\ d \in Owed(b)'
  BY <1>3, <1>6 DEF Changing, Owed
<1>10. CASE admin[a].kind # "update"
  <2>1. q \in Requests \ cut' /\ Live(q)' /\ row'[q].status # "rejected" =>
          /\ row'[q].status = row[q].status /\ Live(q)
          /\ row'[q].days = row[q].days \ {admin[a].day}
    BY <1>3, <1>4, <1>5, <1>10, ChangeEffect, Writes DEF Live
  <2>2. Owed(a) \subseteq {admin[a].day}  BY <1>4, <1>10 DEF Owed
  <2>3. Reads'
    BY <1>1, <1>2, <1>6, <1>7, <2>1 DEF Synced, Reads, Pending, Live
  <2>4. Recorded'
    BY <1>1, <1>2, <1>6, <1>8, <1>9, <2>1, <2>2, RecordedOwed DEF Live
  <2> QED  BY <2>3, <2>4 DEF Synced
<1>11. CASE admin[a].kind = "update"
  <2>1. row'[q].status = row[q].status /\ (Live(q)' => Live(q))
        /\ row'[q].days = (row[q].days \ {admin[a].day}) \cup {admin[a].to}
    BY <1>3, <1>4, <1>5, <1>11, ChangeEffect, Writes DEF Live
  <2>2. Owed(a) = {}  BY <1>4, <1>11 DEF Owed
  <2>3. CASE admin[a].approved
    <3>1. /\ admin'[a] # Null /\ admin'[a].id = q /\ admin'[a].kind = "update"
          /\ admin'[a].at = "reverting" /\ admin'[a].to = admin[a].to
      BY <1>3, <1>4, <1>11, <2>3, ChangeEffect
    <3>2. a \in Changing(q)' /\ admin[a].to \in Owed(a)'
      BY <1>4, <3>1 DEF Changing, Owed, Change
    <3>3. Reads'
      BY <1>1, <1>2, <1>5, <1>6, <1>7, <2>1, <2>3 DEF Synced, Reads, Pending, Live
    <3>4. Recorded'
      BY <1>1, <1>2, <1>6, <1>8, <1>9, <2>1, <2>2, <3>2, RecordedOwed DEF Live
    <3> QED  BY <3>3, <3>4 DEF Synced
  <2>4. CASE ~admin[a].approved
    <3>1. q \notin cut' => row[q].status # "approved" /\ Resolving(q, "writing") = {}
      BY <1>3, <1>4, <1>11, <2>4 DEF UpdateWrite, DeleteWrite, SwapWrite, Writing, Resolving
    <3>2. Reads'
      BY <1>1, <1>2, <1>6, <1>7, <3>1 DEF Synced, Reads, Pending, Live
    <3>3. Recorded'
      BY <1>1, <1>2, <1>6, <1>9, <2>1, <3>1, RecordedOwed DEF Live
    <3> QED  BY <3>2, <3>3 DEF Synced
  <2> QED  BY <2>3, <2>4
<1> QED  BY <1>10, <1>11

\* A start looks at an orphan: the records.
LEMMA RecordedOrphan ==
  ASSUME CheckOrphan, TypeInv, Synced PROVE Recorded'
<1>1. UNCHANGED <<admin, resolver, dayOff, crossed, cut>>  BY DEF CheckOrphan, history
<1>2. \A p \in Requests : Live(p)' => row'[p] = row[p]  BY OrphanEffect DEF Live
<1>3. \A p \in Requests : Changing(p)' = Changing(p) /\ \A a \in Admins : Owed(a)' = Owed(a)
  BY <1>1 DEF Changing, Owed
<1>4. \A p \in Requests : \A a \in Changing(p) : a \in Admins  BY DEF Changing
<1> QED  BY <1>1, <1>2, <1>3, <1>4, RecordedOwed DEF Live

\* Every step keeps Synced.
LEMMA SyncedStep ==
  ASSUME TypeInv, TypeInv', Flow, Copies, Synced, [Next]_vars PROVE Synced'
<1>1. ASSUME NEW q \in Requests, NEW days \in Choices[q], Check(q, days) PROVE Synced'
  <2>1. Reads'
    BY <1>1 DEF Check, TypeInv, TypeOK, table, Synced, Reads, Resolving, Pending, Live
  <2>2. Recorded'
    BY <1>1 DEF Check, TypeInv, TypeOK, table, Synced, Recorded, Resolving, Changing, Owed, Live
  <2> QED  BY <2>1, <2>2 DEF Synced
<1>2. ASSUME NEW q \in Requests, Insert(q) PROVE Synced'
  <2>1. Reads'
    BY <1>2, ReadsInsert
  <2>2. Recorded'
    BY <1>2 DEF Insert, history, Synced, Recorded, Resolving, Changing, Owed, Live
  <2> QED  BY <2>1, <2>2 DEF Synced
<1>3. ASSUME NEW q \in Requests, StartWorkflow(q) PROVE Synced'
  <2>1. Reads'
    BY <1>3 DEF StartWorkflow, history, Synced, Reads, Resolving, Pending, Live
  <2>2. Recorded'
    BY <1>3 DEF StartWorkflow, history, Synced, Recorded, Resolving, Changing, Owed, Live
  <2> QED  BY <2>1, <2>2 DEF Synced
<1>4. ASSUME NEW q \in Requests, Link(q) PROVE Synced'
  <2>1. Reads'
    BY <1>4 DEF Link, Advance, TypeInv, Shape, history, Synced, Reads, Resolving, Pending, Live
  <2>2. Recorded'
    BY <1>4 DEF Link, Advance, TypeInv, Shape, history, Synced, Recorded, Resolving, Changing,
      Owed, Live
  <2> QED  BY <2>1, <2>2 DEF Synced
<1>5. ASSUME NEW q \in Requests, SubmitFails(q) PROVE Synced'
  <2>1. Reads'
    BY <1>5 DEF SubmitFails, TypeInv, TypeOK, Synced, Reads, Resolving, Pending, Live
  <2>2. Recorded'
    BY <1>5 DEF SubmitFails, TypeInv, TypeOK, Synced, Recorded, Resolving, Changing, Owed, Live
  <2> QED  BY <2>1, <2>2 DEF Synced
<1>6. ASSUME NEW q \in Requests, SubmitCrashes(q) PROVE Synced'
  <2>1. Reads'
    BY <1>6 DEF SubmitCrashes, table, history, Synced, Reads, Resolving, Pending, Live
  <2>2. Recorded'
    BY <1>6 DEF SubmitCrashes, table, history, Synced, Recorded, Resolving, Changing, Owed, Live
  <2> QED  BY <2>1, <2>2 DEF Synced
<1>7. ASSUME NEW q \in Requests, NEW status \in Outcomes, Act(q, status) PROVE Synced'
  <2>1. Reads'
    BY <1>7 DEF Act, history, Synced, Reads, Resolving, Pending, Live
  <2>2. Recorded'
    BY <1>7 DEF Act, history, Synced, Recorded, Resolving, Changing, Owed, Live
  <2> QED  BY <2>1, <2>2 DEF Synced
<1>8. ASSUME NEW q \in Requests, Publish(q) PROVE Synced'
  <2>1. Reads'
    BY <1>8 DEF Publish, history, Synced, Reads, Resolving, Pending, Live
  <2>2. Recorded'
    BY <1>8 DEF Publish, history, Synced, Recorded, Resolving, Changing, Owed, Live
  <2> QED  BY <2>1, <2>2 DEF Synced
<1>9. ASSUME NEW q \in Requests, LoseEvent(q) PROVE Synced'
  <2>1. Reads'
    BY <1>9 DEF LoseEvent, history, Synced, Reads, Resolving, Pending, Live
  <2>2. Recorded'
    BY <1>9 DEF LoseEvent, history, Synced, Recorded, Resolving, Changing, Owed, Live
  <2> QED  BY <2>1, <2>2 DEF Synced
<1>10. ASSUME NEW q \in Requests, Deliver(q) PROVE Synced'
  <2>1. Reads'
    BY <1>10 DEF Deliver, Call, table, history, Synced, Reads, Resolving, Pending, Live
  <2>2. Recorded'
    BY <1>10 DEF Deliver, Call, table, history, Synced, Recorded, Resolving, Changing, Owed,
      Live
  <2> QED  BY <2>1, <2>2 DEF Synced
<1>11. ASSUME NEW c \in Callers, ReadRow(c) PROVE Synced'
  <2>1. Reads'
    BY <1>11, ReadsReadRow
  <2>2. Recorded'
    BY <1>11 DEF ReadRow, Return, TypeInv, TypeOK, history, Synced, Recorded, Resolving,
      Changing, Owed, Live
  <2> QED  BY <2>1, <2>2 DEF Synced
<1>12. ASSUME NEW c \in Callers, WriteRow(c) PROVE Synced'
  BY <1>12, SyncedWriteRow
<1>13. ASSUME NEW c \in Callers, NEW d \in Days, SyncDay(c, d) PROVE Synced'
  <2>1. Reads'
    BY <1>13 DEF SyncDay, history, Synced, Reads, Resolving, Pending, Live
  <2>2. Recorded'
    BY <1>13, RecordedSyncDay
  <2> QED  BY <2>1, <2>2 DEF Synced
<1>14. ASSUME NEW c \in Callers, SyncDone(c) PROVE Synced'
  <2>1. Reads'
    BY <1>14 DEF SyncDone, Return, history, Synced, Reads, Resolving, Pending, Live
  <2>2. Recorded'
    BY <1>14 DEF SyncDone, Return, history, Synced, Recorded, Resolving, Changing, Owed, Live
  <2> QED  BY <2>1, <2>2 DEF Synced
<1>15. ASSUME NEW c \in Callers, ResolverFails(c) PROVE Synced'
  <2>1. Reads'
    BY <1>15 DEF ResolverFails, Return, Synced, Reads, Resolving, Pending, Live
  <2>2. Recorded'
    BY <1>15 DEF ResolverFails, Return, Synced, Recorded, Resolving, Changing, Owed, Live
  <2> QED  BY <2>1, <2>2 DEF Synced
<1>16. ASSUME NEW c \in Callers, ResolverCrashes(c) PROVE Synced'
  <2>1. Reads'
    BY <1>16 DEF ResolverCrashes, table, Synced, Reads, Resolving, Pending, Live
  <2>2. Recorded'
    BY <1>16 DEF ResolverCrashes, table, Synced, Recorded, Resolving, Changing, Owed, Live
  <2> QED  BY <2>1, <2>2 DEF Synced
<1>17. ASSUME Start PROVE Synced'
  <2>1. Reads'
    BY <1>17 DEF Start, table, Synced, Reads, Resolving, Pending, Live
  <2>2. Recorded'
    BY <1>17 DEF Start, table, Synced, Recorded, Resolving, Changing, Owed, Live
  <2> QED  BY <2>1, <2>2 DEF Synced
<1>18. ASSUME Repair PROVE Synced'
  <2>1. Reads'
    BY <1>18 DEF Repair, Call, table, history, Synced, Reads, Resolving, Pending, Live
  <2>2. Recorded'
    BY <1>18 DEF Repair, Call, table, history, Synced, Recorded, Resolving, Changing, Owed, Live
  <2> QED  BY <2>1, <2>2 DEF Synced
<1>19. ASSUME FindOrphans PROVE Synced'
  <2>1. Reads'
    BY <1>19 DEF FindOrphans, table, history, Synced, Reads, Resolving, Pending, Live
  <2>2. Recorded'
    BY <1>19 DEF FindOrphans, table, history, Synced, Recorded, Resolving, Changing, Owed, Live
  <2> QED  BY <2>1, <2>2 DEF Synced
<1>20. ASSUME CheckOrphan PROVE Synced'
  <2>1. Reads'
    BY <1>20 DEF CheckOrphan, TypeInv, TypeOK, history, Synced, Reads, Resolving, Pending, Live
  <2>2. Recorded'
    BY <1>20, RecordedOrphan
  <2> QED  BY <2>1, <2>2 DEF Synced
<1>21. ASSUME OrphanGone PROVE Synced'
  <2>1. Reads'
    BY <1>21 DEF OrphanGone, table, history, Synced, Reads, Resolving, Pending, Live
  <2>2. Recorded'
    BY <1>21 DEF OrphanGone, table, history, Synced, Recorded, Resolving, Changing, Owed, Live
  <2> QED  BY <2>1, <2>2 DEF Synced
<1>22. ASSUME Sweep PROVE Synced'
  <2>1. Reads'
    BY <1>22 DEF Sweep, history, Synced, Reads, Resolving, Pending, Live
  <2>2. Recorded'
    BY <1>22 DEF Sweep, history, Synced, Recorded, Resolving, Changing, Owed, Live
  <2> QED  BY <2>1, <2>2 DEF Synced
<1>23. ASSUME NEW a \in Admins, AdminCheck(a) PROVE Synced'
  <2>1. Reads'
    BY <1>23 DEF AdminCheck, TypeInv, TypeOK, table, Synced, Reads, Resolving, Pending, Live
  <2>2. Recorded'
    BY <1>23, RecordedCheck
  <2> QED  BY <2>1, <2>2 DEF Synced
<1>24. ASSUME NEW a \in Admins, NEW q \in Requests, NEW d \in Days, DeleteRead(a, q, d)
      PROVE  Synced'
  <2>1. Reads'
    BY <1>24 DEF DeleteRead, AdminRead, TypeInv, TypeOK, table, Synced, Reads, Resolving,
      Pending, Live
  <2>2. Recorded'
    BY <1>24, MonthlyOffAssumption, NullAssumption DEF DeleteRead, AdminRead, TypeInv, TypeOK,
      table, Synced, Recorded, Resolving, Changing, Owed, Live, Copying
  <2> QED  BY <2>1, <2>2 DEF Synced
<1>25. ASSUME NEW a \in Admins, NEW q \in Requests, NEW d \in Days, NEW to \in Days, UpdateRead(a, q, d, to)
      PROVE  Synced'
  <2>1. Reads'
    BY <1>25 DEF UpdateRead, AdminRead, TypeInv, TypeOK, table, Synced, Reads, Resolving,
      Pending, Live
  <2>2. Recorded'
    BY <1>25 DEF UpdateRead, AdminRead, TypeInv, TypeOK, table, Synced, Recorded, Resolving,
      Changing, Owed, Live, Copying
  <2> QED  BY <2>1, <2>2 DEF Synced
<1>26. ASSUME NEW a \in Admins, NEW q \in Requests, NEW d \in Days, NEW to \in Days, SwapRead(a, q, d, to)
      PROVE  Synced'
  <2>1. Reads'
    BY <1>26 DEF SwapRead, AdminRead, TypeInv, TypeOK, table, Synced, Reads, Resolving, Pending,
      Live
  <2>2. Recorded'
    BY <1>26 DEF SwapRead, AdminRead, TypeInv, TypeOK, table, Synced, Recorded, Resolving,
      Changing, Owed, Live, Copying
  <2> QED  BY <2>1, <2>2 DEF Synced
<1>27. ASSUME NEW a \in Admins, AdminRevert(a) PROVE Synced'
  <2>1. Reads'
    BY <1>27 DEF AdminRevert, Synced, Reads, Resolving, Pending, Live
  <2>2. Recorded'
    BY <1>27, RecordedRevert
  <2> QED  BY <2>1, <2>2 DEF Synced
<1>28. ASSUME NEW a \in Admins, AdminCancel(a) PROVE Synced'
  <2>1. Reads'
    BY <1>28 DEF AdminCancel, history, Synced, Reads, Resolving, Pending, Live
  <2>2. Recorded'
    BY <1>28 DEF AdminCancel, AdminAt, AdminEnd, history, Synced, Recorded, Resolving, Changing,
      Owed, Live
  <2> QED  BY <2>1, <2>2 DEF Synced
<1>29. ASSUME NEW a \in Admins, DeleteWrite(a) PROVE Synced'
  BY <1>29, SyncedWrites
<1>30. ASSUME NEW a \in Admins, UpdateWrite(a) PROVE Synced'
  BY <1>30, SyncedWrites
<1>31. ASSUME NEW a \in Admins, SwapWrite(a) PROVE Synced'
  BY <1>31, SyncedWrites
<1>32. ASSUME NEW a \in Admins, NEW q \in Requests, SwapCreate(a, q) PROVE Synced'
  <2>1. Reads'
    BY <1>32 DEF SwapCreate, history, Synced, Reads, Resolving, Pending, Live
  <2>2. Recorded'
    BY <1>32, RecordedCreate
  <2> QED  BY <2>1, <2>2 DEF Synced
<1>33. ASSUME NEW a \in Admins, AdminSync(a) PROVE Synced'
  <2>1. Reads'
    BY <1>33 DEF AdminSync, history, Synced, Reads, Resolving, Pending, Live
  <2>2. Recorded'
    BY <1>33 DEF AdminSync, AdminAt, AdminEnd, history, Synced, Recorded, Resolving, Changing,
      Owed, Live
  <2> QED  BY <2>1, <2>2 DEF Synced
<1>34. ASSUME NEW a \in Admins, AdminFails(a) PROVE Synced'
  <2>1. Reads'
    BY <1>34 DEF AdminFails, table, Synced, Reads, Resolving, Pending, Live
  <2>2. Recorded'
    BY <1>34 DEF AdminFails, AdminEnd, table, Synced, Recorded, Resolving, Changing, Owed, Live
  <2> QED  BY <2>1, <2>2 DEF Synced
<1>35. CASE UNCHANGED vars
  BY <1>35 DEF vars, table, history, Synced, Reads, Recorded, Resolving, Changing, Owed,
    Pending, Live
<1> QED
  BY <1>1, <1>2, <1>3, <1>4, <1>5, <1>6, <1>7, <1>8, <1>9, <1>10, <1>11, <1>12, <1>13, <1>14,
    <1>15, <1>16, <1>17, <1>18, <1>19, <1>20, <1>21, <1>22, <1>23, <1>24, <1>25, <1>26, <1>27,
    <1>28, <1>29, <1>30, <1>31, <1>32, <1>33, <1>34, <1>35 DEF Next

\* Each day of an approved request is recorded or about to be, unless a call broke
\* off or reverted a day it had freed before, or a start took an open workflow for
\* rejected.  (onWorkflowResolved approves the request before syncApprovedOffDays
\* records its days.)
THEOREM SyncedWhenApproved == Spec => [](~misjudged => ApprovedIsSynced)
<1> DEFINE Inv == Flow /\ (~misjudged => Copies /\ Synced)
<1>1. Init => Inv
  BY FlowInit DEF Init, Synced, Reads, Recorded, Pending, Live
<1>2. TypeInv /\ Inv /\ [Next]_vars => Inv'
  BY TypeStep, FlowStep, CopiesStep, SyncedStep, MisjudgedStays
<1>3. Inv => (~misjudged => ApprovedIsSynced)
  BY DEF Synced, Recorded, Resolving, Owed, ApprovedIsSynced
<1> QED  BY <1>1, <1>2, <1>3, InitTyped, TypeStep, PTL DEF Spec
=============================================================================
