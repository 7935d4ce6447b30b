----------------------------- MODULE LeaveProofs -----------------------------
(***************************************************************************)
(* Proofs about Leave, for any sets of requests, administrators and        *)
(* lengths: the types of the tables, the agreement of a request with its   *)
(* workflow, and that of the balance with the requests.                    *)
(*                                                                         *)
(* A request is saved as a whole row, so it keeps its decision only if     *)
(* nobody saves a copy from before the decision.  TypeInv says what the    *)
(* handler and the administrators work on; Agreement, which holds as long  *)
(* as no two copies of a request were about at once, says that the copies  *)
(* that may still be saved have the status of the request.                 *)
(*                                                                         *)
(* The balance is written from what was read of it, plus or minus the days *)
(* of one request.  Account says which requests are in it while jobs are   *)
(* on their way, and that what a job has read is still so when it writes.  *)
(***************************************************************************)
EXTENDS Leave, SumProofs, TLAPS

\* An event tells of a decision.
Decided == \A q \in Requests : event[q] # "none" => workflow[q] \in Decisions

\* The handler applies a decision whose event is still to be marked, ...
Handled == job["outbox"] # Null =>
    /\ event[job["outbox"].id] = "queued"
    /\ job["outbox"].kind = Verdict(workflow[job["outbox"].id])
    /\ job["outbox"].at \in {"saving", "consuming", "charging", "committing"}

\* ... and an administrator's call is where its kind may be.
Updating == {"freeing", "releasing", "saving", "consuming", "charging"}
Deleting == {"freeing", "releasing", "deleting", "cancelling"}

Placed == \A c \in Admins : job[c] # Null =>
    \/ job[c].kind = "update" /\ job[c].at \in Updating
    \/ job[c].kind = "delete" /\ job[c].at \in Deleting

\* A request with a workflow, or with a copy to be saved or changed, is in the table.
Present ==
    /\ \A q \in Requests : submission[q] # Null \/ workflow[q] # "none" => row[q] # Null
    /\ \A c \in Callers : job[c] # Null => row[job[c].id] # Null

TypeInv == TypeOK /\ Decided /\ Handled /\ Placed /\ Present

\* As long as no two copies of a request were about at once, ...
Alone == ~crossed =>
    /\ \A c, d \in Callers : job[c] # Null /\ job[d] # Null /\ job[c].id = job[d].id => c = d
    /\ \A c \in Callers : job[c] # Null => submission[job[c].id] = Null

\* ... an administrator's copy has the status of the request, ...
Copied == ~crossed => \A c \in Admins : job[c] # Null => job[c].copy.status = row[job[c].id].status

\* ... the handler has given it the decision when it goes on to the balance, ...
Given == ~crossed => (job["outbox"] # Null /\ job["outbox"].at # "saving" =>
                        row[job["outbox"].id].status = job["outbox"].kind)

\* ... and it keeps the decision.
Kept == ~crossed => \A q \in Requests : event[q] = "processed" /\ Live(q) =>
                              row[q].status = Verdict(workflow[q]) /\ submission[q] = Null

Agreement == Alone /\ Copied /\ Given /\ Kept
-----------------------------------------------------------------------------
Places == {"saving", "consuming", "charging", "freeing", "releasing",
           "deleting", "cancelling", "committing"}

Others(c) == \A d \in Callers \ {c} : job'[d] = job[d]

\* The job of c goes on, as it is.
Moved(c, at) ==
    /\ job'[c] # Null
    /\ job'[c].at = at
    /\ job'[c].kind = job[c].kind
    /\ job'[c].id = job[c].id
    /\ Others(c)

Ended(c) == job'[c] = Null /\ Others(c)

\* The handler is not an administrator.
LEMMA Apart ==
  /\ "outbox" \in Callers
  /\ \A c \in Admins : c \in Callers /\ c # "outbox"
  /\ \A c \in Callers : c # "outbox" => c \in Admins
BY LeaveAssumption DEF Callers

\* A job that goes on, ...
LEMMA GotoMoves ==
  ASSUME TypeOK, NEW c \in Callers, job[c] # Null, NEW at \in Places, Goto(c, at)
  PROVE  job' \in [Callers -> Job \cup {Null}] /\ Moved(c, at) /\ job'[c].copy = job[c].copy
<1>1. job[c] \in Job  BY DEF TypeOK
<1>2. [job[c] EXCEPT !.at = at] \in Job  BY <1>1 DEF Job, Places
<1>3. job'[c] = [job[c] EXCEPT !.at = at] /\ Others(c)
  BY DEF Goto, TypeOK, Others
<1>4. job' \in [Callers -> Job \cup {Null}]  BY <1>2 DEF Goto, TypeOK
<1>5. job'[c] # Null  BY <1>2, <1>3, NullAssumption
<1> QED  BY <1>1, <1>3, <1>4, <1>5 DEF Moved, Job

\* ... ends, ...
LEMMA EndEnds ==
  ASSUME TypeOK, NEW c \in Callers, End(c)
  PROVE  job' \in [Callers -> Job \cup {Null}] /\ Ended(c)
BY DEF End, TypeOK, Ended, Others

Begun(c, q, kind, at) ==
    /\ job[c] = Null
    /\ job'[c] # Null
    /\ job'[c].at = at
    /\ job'[c].kind = kind
    /\ job'[c].id = q
    /\ job'[c].copy = row[q]
    /\ Others(c)

\* ... or begins.
LEMMA BeginBegins ==
  ASSUME TypeOK, NEW c \in Callers, NEW q \in Requests, row[q] # Null,
         NEW kind \in {"approved", "rejected", "update", "delete"}, NEW at \in Places,
         NEW days \in Lengths, Begin(c, q, kind, at, days)
  PROVE  /\ job' \in [Callers -> Job \cup {Null}]
         /\ Begun(c, q, kind, at)
         /\ crossed' \in BOOLEAN
         /\ ~crossed' => /\ ~crossed
                         /\ submission[q] = Null
                         /\ \A d \in Callers : job[d] # Null => job[d].id # q
<1> DEFINE new == [kind |-> kind, at |-> at, id |-> q, copy |-> row[q], days |-> days,
                   read |-> balance]
<1>1. new \in Job  BY DEF TypeOK, Job, Places
<1>2. job[c] = Null /\ job'[c] = new /\ Others(c) /\ job' \in [Callers -> Job \cup {Null}]
  BY <1>1 DEF Begin, TypeOK, Others
<1>3. new # Null  BY <1>1, NullAssumption
<1>4. ~crossed' => /\ ~crossed
                   /\ submission[q] = Null
                   /\ \A d \in Callers : job[d] # Null => job[d].id # q
  BY DEF Begin, ActiveOn, TypeOK
<1>5. crossed' \in BOOLEAN  BY DEF Begin, TypeOK
<1> QED  BY <1>2, <1>3, <1>4, <1>5 DEF Begun

\* saveRequest writes the status it means to, and goes on or ends.
LEMMA SaveEffect ==
  ASSUME TypeInv, NEW c \in Callers, Save(c)
  PROVE  LET q == job[c].id IN
         /\ job[c] # Null /\ job[c].at = "saving" /\ q \in Requests /\ row[q] # Null
         /\ job' \in [Callers -> Job \cup {Null}]
         /\ row' \in [Requests -> Row \cup {Null}]
         /\ row'[q] # Null
         /\ row'[q].deleted = row[q].deleted
         /\ c = "outbox" => row'[q].status = job[c].kind
         /\ c # "outbox" => row'[q].status = job[c].copy.status
         /\ \A p \in Requests \ {q} : row'[p] = row[p]
         /\ \/ Moved(c, "consuming") /\ job'[c].copy.status = row'[q].status
            \/ c = "outbox" /\ Moved(c, "committing")
            \/ c # "outbox" /\ Ended(c)
<1> DEFINE j   == job[c]
           q   == job[c].id
           new == IF j.kind = "update" THEN [j.copy EXCEPT !.days = j.days]
                                       ELSE [j.copy EXCEPT !.status = j.kind]
           rec == [new EXCEPT !.deleted = row[q].deleted]
           nxt == [[j EXCEPT !.at = "consuming"] EXCEPT !.copy = new]
<1>1. j # Null /\ j \in Job /\ j.at = "saving" /\ q \in Requests /\ row[q] # Null /\ row[q] \in Row
  BY DEF Save, TypeInv, TypeOK, Job, Present
<1>2. c = "outbox" => j.kind \in {"approved", "rejected"}
  BY <1>1 DEF TypeInv, TypeOK, Job, Handled, Verdict
<1>3. c # "outbox" => j.kind = "update"
  BY <1>1 DEF TypeInv, Placed, Deleting, Callers
<1>4. new \in Row
  <2>1. CASE j.kind = "update"
    <3>1. [j.copy EXCEPT !.days = j.days] \in Row  BY <1>1 DEF Job, Row
    <3> QED  BY <2>1, <3>1
  <2>2. CASE j.kind \in {"approved", "rejected"}
    <3>1. [j.copy EXCEPT !.status = j.kind] \in Row  BY <1>1, <2>2 DEF Job, Row
    <3> QED  BY <2>2, <3>1
  <2> QED  BY <1>2, <1>3, <2>1, <2>2
<1>5. new.status = IF c = "outbox" THEN j.kind ELSE j.copy.status
  <2>1. CASE c = "outbox"
    <3>1. [j.copy EXCEPT !.status = j.kind].status = j.kind  BY <1>1 DEF Job, Row
    <3> QED  BY <1>2, <2>1, <3>1
  <2>2. CASE c # "outbox"
    <3>1. [j.copy EXCEPT !.days = j.days].status = j.copy.status  BY <1>1 DEF Job, Row
    <3> QED  BY <1>3, <2>2, <3>1
  <2> QED  BY <2>1, <2>2
<1>6. /\ row' = [row EXCEPT ![q] = rec]
      /\ IF new.status = "approved"
         THEN job' = [job EXCEPT ![c] = nxt]
         ELSE IF c = "outbox" THEN Goto(c, "committing") ELSE End(c)
  BY <1>1 DEF Save, TypeInv, TypeOK
<1> HIDE DEF new
<1>7. rec \in Row /\ rec.status = new.status /\ rec.deleted = row[q].deleted
  BY <1>1, <1>4 DEF Row
<1>8. nxt \in Job /\ nxt.at = "consuming" /\ nxt.kind = j.kind /\ nxt.id = q /\ nxt.copy = new
  BY <1>1, <1>4 DEF Job
<1> HIDE DEF rec, nxt
<1>9. /\ row' \in [Requests -> Row \cup {Null}]
      /\ row'[q] = rec
      /\ \A p \in Requests \ {q} : row'[p] = row[p]
  BY <1>1, <1>6, <1>7 DEF TypeInv, TypeOK
<1>10. rec # Null /\ nxt # Null  BY <1>7, <1>8, NullAssumption
<1>11. /\ job' \in [Callers -> Job \cup {Null}]
       /\ \/ Moved(c, "consuming") /\ job'[c].copy.status = new.status
          \/ c = "outbox" /\ Moved(c, "committing")
          \/ c # "outbox" /\ Ended(c)
  <2>1. CASE new.status = "approved"
    <3>1. job' \in [Callers -> Job \cup {Null}] /\ job'[c] = nxt /\ Others(c)
      BY <1>6, <1>8, <2>1 DEF TypeInv, TypeOK, Others
    <3> QED  BY <1>8, <1>10, <3>1 DEF Moved
  <2>2. CASE new.status # "approved" /\ c = "outbox"
    BY <1>1, <1>6, <2>2, GotoMoves DEF TypeInv, Places
  <2>3. CASE new.status # "approved" /\ c # "outbox"
    BY <1>1, <1>6, <2>3, EndEnds DEF TypeInv
  <2> QED  BY <2>1, <2>2, <2>3
<1> QED  BY <1>1, <1>5, <1>7, <1>9, <1>10, <1>11

\* The read of the balance is kept in the job.
LEMMA ReadEffect ==
  ASSUME TypeInv, NEW c \in Callers, ReadBalance(c)
  PROVE  /\ job[c] # Null
         /\ job' \in [Callers -> Job \cup {Null}]
         /\ job'[c].copy = job[c].copy
         /\ \/ job[c].at = "consuming" /\ Moved(c, "charging")
            \/ job[c].at = "freeing" /\ Moved(c, "releasing")
<1> DEFINE at  == IF job[c].at = "consuming" THEN "charging" ELSE "releasing"
           nxt == [[job[c] EXCEPT !.read = balance] EXCEPT !.at = at]
<1>1. job[c] # Null /\ job[c] \in Job /\ job[c].at \in {"consuming", "freeing"} /\ balance \in Balance
  BY DEF ReadBalance, TypeInv, TypeOK
<1>2. nxt \in Job /\ nxt.at = at /\ nxt.kind = job[c].kind /\ nxt.id = job[c].id /\ nxt.copy = job[c].copy
  BY <1>1 DEF Job
<1>3. job' = [job EXCEPT ![c] = nxt]  BY <1>1 DEF ReadBalance, TypeInv, TypeOK
<1> HIDE DEF nxt
<1>4. job' \in [Callers -> Job \cup {Null}] /\ job'[c] = nxt /\ Others(c)
  BY <1>2, <1>3 DEF TypeInv, TypeOK, Others
<1>5. nxt # Null  BY <1>2, NullAssumption
<1> QED  BY <1>1, <1>2, <1>4, <1>5 DEF Moved

\* The balance keeps its type.
LEMMA BalanceTyped ==
  ASSUME TypeInv, NEW c \in Callers, Charge(c) \/ Release(c)
  PROVE  balance' \in Balance
<1>1. /\ job[c] \in Job /\ job[c].read.used \in Nat /\ job[c].read.borrowed \in Nat
      /\ job[c].copy.days \in Nat /\ Borrowed(job[c].copy) \in Nat
  BY LeaveAssumption DEF Charge, Release, TypeInv, TypeOK, Job, Balance, Row, Borrowed
<1>2. \A n \in Int : NotBelow0(n) \in Nat  BY DEF NotBelow0
<1>3. CASE Charge(c)
  BY <1>1, <1>3 DEF Charge, Balance
<1>4. CASE Release(c)
  BY <1>1, <1>2, <1>4 DEF Release, Balance
<1> QED  BY <1>3, <1>4

\* A request is inserted, and a copy of it kept.
LEMMA RequestEffect ==
  ASSUME TypeInv, NEW q \in Requests, NEW days \in Lengths, NEW wants \in BOOLEAN,
         RequestLeave(q, days, wants)
  PROVE  /\ row[q] = Null
         /\ row' \in [Requests -> Row \cup {Null}] /\ submission' \in [Requests -> Row \cup {Null}]
         /\ row'[q] # Null
         /\ \A p \in Requests \ {q} : row'[p] = row[p] /\ submission'[p] = submission[p]
<1> DEFINE new == [status |-> "pending", days |-> days,
                   borrowed |-> wants /\ days > Remaining, deleted |-> FALSE]
<1>1. (wants /\ days > Remaining) \in BOOLEAN  OBVIOUS
<1>2. new \in Row  BY <1>1 DEF Row
<1>3. row[q] = Null /\ row' = [row EXCEPT ![q] = new] /\ submission' = [submission EXCEPT ![q] = new]
  BY DEF RequestLeave
<1> HIDE DEF new
<1> QED  BY <1>2, <1>3, NullAssumption DEF TypeInv, TypeOK

\* The copy is saved over the request, and gone.
LEMMA AttachEffect ==
  ASSUME TypeInv, NEW q \in Requests, Attach(q)
  PROVE  /\ submission[q] # Null /\ row[q] # Null
         /\ row' \in [Requests -> Row \cup {Null}] /\ submission' \in [Requests -> Row \cup {Null}]
         /\ row'[q] # Null /\ row'[q].deleted = row[q].deleted
         /\ submission'[q] = Null
         /\ \A p \in Requests \ {q} : row'[p] = row[p] /\ submission'[p] = submission[p]
<1> DEFINE new == [submission[q] EXCEPT !.deleted = row[q].deleted]
<1>1. submission[q] # Null /\ submission[q] \in Row /\ row[q] # Null /\ row[q] \in Row
  BY DEF Attach, TypeInv, TypeOK, Present
<1>2. new \in Row /\ new.deleted = row[q].deleted  BY <1>1 DEF Row
<1>3. row' = [row EXCEPT ![q] = new] /\ submission' = [submission EXCEPT ![q] = Null]
  BY DEF Attach
<1> HIDE DEF new
<1> QED  BY <1>1, <1>2, <1>3, NullAssumption DEF TypeInv, TypeOK

\* A deletion changes nothing but the mark.
LEMMA DeleteEffect ==
  ASSUME TypeInv, NEW c \in Callers, SoftDelete(c)
  PROVE  LET q == job[c].id IN
         /\ job[c] # Null /\ job[c].at = "deleting" /\ q \in Requests /\ row[q] # Null
         /\ row' \in [Requests -> Row \cup {Null}]
         /\ row'[q] # Null /\ row'[q].deleted /\ row'[q].status = row[q].status
         /\ \A p \in Requests \ {q} : row'[p] = row[p]
         /\ job' \in [Callers -> Job \cup {Null}] /\ Moved(c, "cancelling")
         /\ job'[c].copy = job[c].copy
<1> DEFINE q   == job[c].id
           new == [row[q] EXCEPT !.deleted = TRUE]
<1>1. job[c] # Null /\ job[c].at = "deleting" /\ q \in Requests /\ row[q] # Null /\ row[q] \in Row
  BY DEF SoftDelete, TypeInv, TypeOK, Job, Present
<1>2. new \in Row /\ new.deleted /\ new.status = row[q].status  BY <1>1 DEF Row
<1>3. row' = [row EXCEPT ![q] = new]  BY <1>1 DEF SoftDelete, TypeInv, TypeOK
<1> HIDE DEF new
<1>4. /\ row' \in [Requests -> Row \cup {Null}] /\ row'[q] = new
      /\ \A p \in Requests \ {q} : row'[p] = row[p]
  BY <1>1, <1>2, <1>3 DEF TypeInv, TypeOK
<1>5. new # Null  BY <1>2, NullAssumption
<1>6. /\ job' \in [Callers -> Job \cup {Null}] /\ Moved(c, "cancelling")
      /\ job'[c].copy = job[c].copy
  BY <1>1, GotoMoves DEF SoftDelete, TypeInv, Places
<1> QED  BY <1>1, <1>2, <1>4, <1>5, <1>6

\* The balance was charged, and the job goes on or ends.
LEMMA ChargeEffect ==
  ASSUME TypeInv, NEW c \in Callers, Charge(c)
  PROVE  /\ job[c] # Null /\ job[c].at = "charging" /\ job[c].id \in Requests
         /\ job' \in [Callers -> Job \cup {Null}]
         /\ \/ c = "outbox" /\ Moved(c, "committing")
            \/ c # "outbox" /\ Ended(c)
BY GotoMoves, EndEnds DEF Charge, TypeInv, TypeOK, Job, Places

\* The balance was given back, and the job goes on.
LEMMA ReleaseEffect ==
  ASSUME TypeInv, NEW c \in Callers, Release(c)
  PROVE  /\ job[c] # Null /\ job[c].at = "releasing"
         /\ job' \in [Callers -> Job \cup {Null}]
         /\ job'[c].copy = job[c].copy
         /\ \/ job[c].kind = "update" /\ Moved(c, "saving")
            \/ job[c].kind # "update" /\ Moved(c, "deleting")
BY GotoMoves DEF Release, TypeInv, Places

\* The handler takes a live request up, or its event is done with.
LEMMA DeliverEffect ==
  ASSUME TypeInv, NEW q \in Requests, Deliver(q)
  PROVE  \/ /\ Live(q) /\ event' = event
            /\ job' \in [Callers -> Job \cup {Null}]
            /\ Begun("outbox", q, Verdict(workflow[q]), "saving")
            /\ crossed' \in BOOLEAN
            /\ ~crossed' => /\ ~crossed
                            /\ submission[q] = Null
                            /\ \A d \in Callers : job[d] # Null => job[d].id # q
         \/ /\ ~Live(q) /\ job["outbox"] = Null /\ UNCHANGED <<job, crossed>>
            /\ event' = [event EXCEPT ![q] = "processed"]
<1>1. "outbox" \in Callers  BY DEF Callers
<1>2. Verdict(workflow[q]) \in {"approved", "rejected"} /\ "saving" \in Places
  BY DEF Verdict, Places
<1>3. CASE Live(q)
  <2>1. row[q] # Null /\ row[q].days \in Lengths  BY <1>3 DEF Live, TypeInv, TypeOK, Row
  <2>2. Begin("outbox", q, Verdict(workflow[q]), "saving", row[q].days) /\ event' = event
    BY <1>3 DEF Deliver
  <2> QED  BY <1>1, <1>2, <1>3, <2>1, <2>2, BeginBegins DEF TypeInv
<1>4. CASE ~Live(q)
  BY <1>4 DEF Deliver
<1> QED  BY <1>3, <1>4

\* An administrator takes a live request up.
LEMMA ChangeEffect ==
  ASSUME TypeInv, NEW c \in Admins, NEW q \in Requests,
         (\E days \in Lengths : Update(c, q, days)) \/ Delete(c, q)
  PROVE  /\ Live(q) /\ row[q] # Null
         /\ job' \in [Callers -> Job \cup {Null}]
         /\ \/ Begun(c, q, "update", "freeing") \/ Begun(c, q, "update", "saving")
            \/ Begun(c, q, "delete", "freeing") \/ Begun(c, q, "delete", "deleting")
         /\ crossed' \in BOOLEAN
         /\ ~crossed' => /\ ~crossed
                         /\ submission[q] = Null
                         /\ \A d \in Callers : job[d] # Null => job[d].id # q
<1>1. Live(q) /\ row[q] # Null /\ row[q].days \in Lengths /\ c \in Callers
  BY DEF Update, Delete, Live, TypeInv, TypeOK, Row, Callers
<1>2. {"freeing", "saving", "deleting"} \subseteq Places  BY DEF Places
<1>3. ASSUME NEW days \in Lengths, Update(c, q, days)
      PROVE  /\ job' \in [Callers -> Job \cup {Null}]
             /\ Begun(c, q, "update", "freeing") \/ Begun(c, q, "update", "saving")
             /\ crossed' \in BOOLEAN
             /\ ~crossed' => /\ ~crossed
                             /\ submission[q] = Null
                             /\ \A d \in Callers : job[d] # Null => job[d].id # q
  BY <1>1, <1>2, <1>3, BeginBegins DEF Update, TypeInv
<1>4. CASE Delete(c, q)
  BY <1>1, <1>2, <1>4, BeginBegins DEF Delete, TypeInv
<1>5. (\E days \in Lengths : Update(c, q, days)) \/ Delete(c, q)  OBVIOUS
<1> QED  BY <1>1, <1>3, <1>4, <1>5

\* The balance is charged.
LEMMA ChargeTyped ==
  ASSUME NEW c \in Callers, Charge(c), TypeInv PROVE TypeOK'
<1>1. balance' \in Balance /\ job' \in [Callers -> Job \cup {Null}]  BY BalanceTyped, ChargeEffect
<1>2. charged' \in [Requests -> Nat]
  <2>1. \A q \in Requests : charged[q] \in Nat /\ charged[q] + 1 \in Nat  BY DEF TypeInv, TypeOK
  <2>2. charged' = [charged EXCEPT ![job[c].id] = IF c = "outbox" THEN @ + 1 ELSE @]  BY DEF Charge
  <2> QED  BY <2>1, <2>2 DEF TypeInv, TypeOK
<1> QED  BY <1>1, <1>2 DEF Charge, TypeInv, TypeOK

\* A charge keeps the invariants.
LEMMA ChargeKeeps ==
  ASSUME NEW c \in Callers, Charge(c), TypeInv, Agreement
  PROVE  Placed' /\ Present' /\ Alone' /\ Copied'
<1>1. /\ job[c] # Null /\ job[c].at = "charging"
      /\ \/ c = "outbox" /\ Moved(c, "committing")
         \/ c # "outbox" /\ Ended(c)
  BY ChargeEffect
<1>2. UNCHANGED <<row, workflow, event, submission, crossed>>  BY DEF Charge
<1>3. \A d \in Callers : job'[d] # Null => job[d] # Null /\ job'[d].id = job[d].id
  BY <1>1 DEF Moved, Ended, Others
<1>4. \A d \in Admins : job'[d] # Null => job'[d] = job[d]
  BY <1>1, Apart DEF Moved, Ended, Others
<1>5. Present'  BY <1>2, <1>3 DEF TypeInv, Present
<1>6. Alone'  BY <1>2, <1>3 DEF Agreement, Alone
<1>7. Copied'  BY <1>2, <1>4 DEF Agreement, Copied
<1>8. Placed'  BY <1>4 DEF TypeInv, Placed
<1> QED  BY <1>5, <1>6, <1>7, <1>8

\* saveRequest keeps the invariants.
LEMMA SaveKeeps ==
  ASSUME NEW c \in Callers, Save(c), TypeInv, Agreement
  PROVE  Handled' /\ Placed' /\ Present' /\ Alone' /\ Copied' /\ Given' /\ Kept'
<1>1. PICK q \in Requests : q = job[c].id  BY DEF Save, TypeInv, TypeOK, Job
<1>2. /\ job[c] # Null /\ job[c].at = "saving" /\ row[q] # Null
      /\ row'[q] # Null
      /\ row'[q].deleted = row[q].deleted
      /\ c = "outbox" => row'[q].status = job[c].kind
      /\ c # "outbox" => row'[q].status = job[c].copy.status
      /\ \A p \in Requests \ {q} : row'[p] = row[p]
      /\ \/ Moved(c, "consuming") /\ job'[c].copy.status = row'[q].status
         \/ c = "outbox" /\ Moved(c, "committing")
         \/ c # "outbox" /\ Ended(c)
  BY <1>1, SaveEffect
<1>3. UNCHANGED <<workflow, event, submission, crossed>>  BY DEF Save, history
<1>4. \A d \in Callers : job'[d] # Null =>
        /\ job[d] # Null /\ job'[d].id = job[d].id /\ job'[d].kind = job[d].kind
        /\ d # c => job'[d] = job[d]
  BY <1>2 DEF Moved, Ended, Others
<1>5. job'[c] # Null => job'[c].at \in {"consuming", "committing"}  BY <1>2 DEF Moved, Ended
<1>6. \A d \in Callers : job[d] # Null => job[d].id \in Requests  BY DEF TypeInv, TypeOK, Job
<1>7. ~crossed => \A d \in Callers : job[d] # Null /\ job[d].id = q => d = c
  BY <1>1, <1>2 DEF Agreement, Alone
<1>8. Handled'  BY <1>3, <1>4, <1>5, Apart DEF TypeInv, Handled
<1>9. Present'
  <2>1. \A p \in Requests : row[p] # Null => row'[p] # Null  BY <1>2
  <2> QED  BY <1>3, <1>4, <1>6, <2>1 DEF TypeInv, Present
<1>10. Alone'  BY <1>3, <1>4 DEF Agreement, Alone
<1>11. Copied'
  <2> SUFFICES ASSUME ~crossed, NEW d \in Admins, job'[d] # Null
               PROVE  job'[d].copy.status = row'[job'[d].id].status
    BY <1>3 DEF Copied
  <2>1. CASE d = c
    BY <1>1, <1>2, <1>4, <2>1, Apart DEF Moved, Ended
  <2>2. CASE d # c
    BY <1>2, <1>4, <1>6, <1>7, <2>2, Apart DEF Agreement, Copied
  <2> QED  BY <2>1, <2>2
<1>12. Given'
  <2> SUFFICES ASSUME ~crossed, job'["outbox"] # Null, job'["outbox"].at # "saving"
               PROVE  row'[job'["outbox"].id].status = job'["outbox"].kind
    BY <1>3 DEF Given
  <2>1. CASE c = "outbox"
    BY <1>1, <1>2, <1>4, <2>1
  <2>2. CASE c # "outbox"
    BY <1>2, <1>4, <1>6, <1>7, <2>2, Apart DEF Agreement, Given
  <2> QED  BY <2>1, <2>2
<1>13. Kept'
  <2> SUFFICES ASSUME ~crossed, NEW p \in Requests, event[p] = "processed", Live(p)'
               PROVE  row'[p].status = Verdict(workflow[p]) /\ submission[p] = Null
    BY <1>3 DEF Kept
  <2>1. Live(p)  BY <1>2 DEF Live
  <2>2. row[p].status = Verdict(workflow[p]) /\ submission[p] = Null  BY <2>1 DEF Agreement, Kept
  <2>3. CASE p = q
    <3>1. c # "outbox"  BY <1>1, <1>2, <2>3 DEF TypeInv, Handled
    <3>2. job[c].copy.status = row[q].status  BY <1>1, <1>2, <3>1, Apart DEF Agreement, Copied
    <3> QED  BY <1>2, <2>2, <2>3, <3>1, <3>2
  <2>4. CASE p # q
    BY <1>2, <2>2, <2>4
  <2> QED  BY <2>3, <2>4
<1>14. Placed'
  <2>1. c # "outbox" => job[c].kind = "update"  BY <1>2, Apart DEF TypeInv, Placed, Deleting
  <2>2. c # "outbox" /\ job'[c] # Null => job'[c].at = "consuming"  BY <1>2 DEF Moved, Ended
  <2> SUFFICES ASSUME NEW d \in Admins, job'[d] # Null
               PROVE  \/ job'[d].kind = "update" /\ job'[d].at \in Updating
                      \/ job'[d].kind = "delete" /\ job'[d].at \in Deleting
    BY DEF Placed
  <2>3. CASE d = c
    BY <1>4, <2>1, <2>2, <2>3, Apart DEF Updating
  <2>4. CASE d # c
    BY <1>4, <2>4, Apart DEF TypeInv, Placed
  <2> QED  BY <2>3, <2>4
<1> QED  BY <1>8, <1>9, <1>10, <1>11, <1>12, <1>13, <1>14

\* A deletion keeps the invariants.
LEMMA SoftDeleteKeeps ==
  ASSUME NEW c \in Callers, SoftDelete(c), TypeInv, Agreement
  PROVE  Placed' /\ Present' /\ Alone' /\ Copied' /\ Given'
<1>1. PICK q \in Requests : q = job[c].id  BY DEF SoftDelete, TypeInv, TypeOK, Job
<1>2. /\ job[c] # Null /\ job[c].at = "deleting"
      /\ row'[q] # Null /\ row'[q].status = row[q].status
      /\ \A p \in Requests \ {q} : row'[p] = row[p]
      /\ Moved(c, "cancelling") /\ job'[c].copy = job[c].copy
  BY <1>1, DeleteEffect
<1>3. UNCHANGED <<workflow, event, submission, crossed>>  BY DEF SoftDelete, history
<1>4. \A d \in Callers : job'[d] # Null =>
        /\ job[d] # Null /\ job'[d].id = job[d].id /\ job'[d].kind = job[d].kind
        /\ job'[d].copy = job[d].copy
        /\ d # c => job'[d] = job[d]
  BY <1>2 DEF Moved, Others
<1>5. \A d \in Callers : job[d] # Null => job[d].id \in Requests  BY DEF TypeInv, TypeOK, Job
<1>6. c # "outbox"  BY <1>2 DEF TypeInv, Handled
<1>7. \A p \in Requests : row'[p].status = row[p].status /\ (row[p] # Null => row'[p] # Null)
  BY <1>2
<1>8. Present'  BY <1>3, <1>4, <1>5, <1>7 DEF TypeInv, Present
<1>9. Alone'  BY <1>3, <1>4 DEF Agreement, Alone
<1>10. Copied'  BY <1>3, <1>4, <1>5, <1>7, Apart DEF Agreement, Copied
<1>11. Given'  BY <1>3, <1>4, <1>5, <1>6, <1>7, Apart DEF Agreement, Given
<1>12. Placed'
  <2>1. job[c].kind = "delete"  BY <1>2, <1>6, Apart DEF TypeInv, Placed, Updating
  <2>2. job'[c].at = "cancelling"  BY <1>2 DEF Moved
  <2> QED  BY <1>4, <2>1, <2>2, Apart DEF TypeInv, Placed, Deleting
<1> QED  BY <1>8, <1>9, <1>10, <1>11, <1>12

\* The cancellation finds nothing decided by then to change.
LEMMA CancelKeeps ==
  ASSUME NEW c \in Callers, CancelLinked(c), TypeInv PROVE Handled'
<1>1. job[c] # Null /\ job[c].at = "cancelling" /\ c # "outbox"
  BY DEF CancelLinked, TypeInv, Handled
<1>2. job'["outbox"] = job["outbox"] /\ event' = event
  BY <1>1, Apart, EndEnds DEF CancelLinked, TypeInv, Ended, Others
<1>3. \A q \in Requests : workflow[q] # "pending" => workflow'[q] = workflow[q]
  BY DEF CancelLinked, TypeInv, TypeOK
<1>4. job["outbox"] # Null => /\ job["outbox"].id \in Requests
                              /\ workflow[job["outbox"].id] # "pending"
  BY Apart DEF TypeInv, TypeOK, Job, Handled, Decided, Decisions
<1> QED  BY <1>2, <1>3, <1>4 DEF TypeInv, Handled
-----------------------------------------------------------------------------
IInv == TypeInv /\ Agreement

\* Initially nobody works and nothing is decided.
LEMMA InitHolds == Init => IInv
<1> SUFFICES ASSUME Init PROVE IInv
  OBVIOUS
<1>1. TypeOK
  <2>1. [used |-> 0, borrowed |-> 0] \in Balance  BY DEF Balance
  <2>2. 0 \in 0..MaxDisruptions  BY LeaveAssumption
  <2> QED  BY <2>1, <2>2 DEF Init, TypeOK
<1>2. Decided /\ Handled /\ Placed /\ Present
  BY Apart DEF Init, Decided, Handled, Placed, Present
<1>3. Agreement  BY Apart DEF Init, Agreement, Alone, Copied, Given, Kept
<1> QED  BY <1>1, <1>2, <1>3 DEF IInv, TypeInv

\* Every step keeps the invariant, one action at a time.
LEMMA Step == IInv /\ [Next]_vars => IInv'
<1> SUFFICES ASSUME TypeInv, Agreement, [Next]_vars PROVE IInv'
  BY DEF IInv
<1>1. ASSUME NEW q \in Requests, NEW days \in Lengths, NEW wants \in BOOLEAN,  RequestLeave(q,
  days, wants) PROVE IInv'
  <2>1. TypeOK'  BY <1>1, RequestEffect DEF RequestLeave, TypeInv, TypeOK, history
  <2>2. Decided'  BY <1>1 DEF RequestLeave, TypeInv, Decided
  <2>3. Handled'  BY <1>1 DEF RequestLeave, TypeInv, Handled
  <2>4. Placed'  BY <1>1 DEF RequestLeave, TypeInv, Placed
  <2>5. Present'  BY <1>1 DEF RequestLeave, TypeInv, TypeOK, Present
  <2>6. TypeInv'  BY <2>1, <2>2, <2>3, <2>4, <2>5 DEF TypeInv
  <2>7. Alone'  BY <1>1, <2>6 DEF RequestLeave, TypeInv, Present, Alone, history, Agreement
  <2>8. Copied'
    BY <1>1, <2>6, Apart DEF RequestLeave, TypeInv, Present, Agreement, Copied, history
  <2>9. Given'
    BY <1>1, <2>6 DEF RequestLeave, TypeInv, Present, Agreement, Given, history, Callers
  <2>10. Kept'
    <3>1. \A p \in Requests : event[p] = "processed" => row[p] # Null /\ p # q
      BY <1>1 DEF RequestLeave, TypeInv, Decided, Decisions, Present
    <3> QED
      BY <1>1, <3>1 DEF RequestLeave, TypeInv, TypeOK, Agreement, Kept, history, Live, Verdict
  <2> QED  BY <2>6, <2>7, <2>8, <2>9, <2>10 DEF IInv, Agreement
<1>2. ASSUME NEW q \in Requests, StartWorkflow(q) PROVE IInv'
  <2>1. TypeOK'  BY <1>2 DEF StartWorkflow, TypeInv, TypeOK, Open, history
  <2>2. Decided'  BY <1>2 DEF StartWorkflow, TypeInv, TypeOK, Decided, Decisions
  <2>3. Handled'
    <3>1. \A p \in Requests : event[p] = "queued" => workflow'[p] = workflow[p]
      BY <1>2 DEF StartWorkflow, TypeInv, TypeOK, Decided, Decisions
    <3>2. job["outbox"] # Null => job["outbox"].id \in Requests
      BY Apart DEF TypeInv, TypeOK, Job
    <3> QED  BY <1>2, <3>1, <3>2 DEF StartWorkflow, TypeInv, Handled, Verdict
  <2>4. Placed'  BY <1>2 DEF StartWorkflow, TypeInv, Placed, Moved, Ended, Begun, Others
  <2>5. Present'  BY <1>2 DEF StartWorkflow, TypeInv, Present, Moved, Ended, Begun, Others
  <2>6. TypeInv'  BY <2>1, <2>2, <2>3, <2>4, <2>5 DEF TypeInv
  <2>7. Alone'
    BY <1>2, <2>6 DEF StartWorkflow, Alone, history, Moved, Ended, Begun, Others, Agreement
  <2>8. Copied'
    BY <1>2, <2>6 DEF StartWorkflow, Agreement, Copied, history, Moved, Ended, Begun, Others
  <2>9. Given'
    BY <1>2, <2>6 DEF StartWorkflow, Agreement, Given, history, Moved, Ended, Begun, Others
  <2>10. Kept'
    <3>1. \A p \in Requests : event[p] = "processed" => workflow'[p] = workflow[p]
      BY <1>2 DEF StartWorkflow, TypeInv, TypeOK, Decided, Decisions
    <3> QED  BY <1>2, <3>1 DEF StartWorkflow, Agreement, Kept, history, Live, Verdict
  <2> QED  BY <2>6, <2>7, <2>8, <2>9, <2>10 DEF IInv, Agreement
<1>3. ASSUME NEW q \in Requests, Attach(q) PROVE IInv'
  <2>1. TypeOK'  BY <1>3, AttachEffect DEF Attach, TypeInv, TypeOK, history
  <2>2. Decided'  BY <1>3 DEF Attach, TypeInv, Decided
  <2>3. Handled'  BY <1>3 DEF Attach, TypeInv, Handled
  <2>4. Placed'  BY <1>3 DEF Attach, TypeInv, Placed
  <2>5. Present'
    <3>1. /\ submission[q] # Null /\ row[q] # Null /\ row'[q] # Null /\ submission'[q] = Null
          /\ \A p \in Requests \ {q} : row'[p] = row[p] /\ submission'[p] = submission[p]
      BY <1>3, AttachEffect
    <3>2. UNCHANGED <<workflow, job>>  BY <1>3 DEF Attach
    <3>3. \A c \in Callers : job[c] # Null => job[c].id \in Requests
      BY DEF TypeInv, TypeOK, Job
    <3> QED  BY <3>1, <3>2, <3>3 DEF TypeInv, Present
  <2>6. TypeInv'  BY <2>1, <2>2, <2>3, <2>4, <2>5 DEF TypeInv
  <2>7. Alone'  BY <1>3, <2>6 DEF Attach, Alone, history, Agreement
  <2>8. Copied'  BY <1>3, <2>6 DEF Attach, Agreement, Alone, Copied, history, Callers
  <2>9. Given'  BY <1>3, <2>6 DEF Attach, Agreement, Alone, Given, history, Callers
  <2>10. Kept'
    BY <1>3, <2>6, AttachEffect, ZenonT(90) DEF Attach, Agreement, Kept, history, Live
  <2> QED  BY <2>6, <2>7, <2>8, <2>9, <2>10 DEF IInv, Agreement
<1>4. ASSUME NEW q \in Requests, NEW status \in Decisions \cup {"returned"}, Act(q, status) PROVE
  IInv'
  <2>1. TypeOK'  BY <1>4 DEF Act, TypeInv, TypeOK, Open, Decisions, history
  <2>2. Decided'  BY <1>4 DEF Act, TypeInv, TypeOK, Decided, Open, Decisions
  <2>3. Handled'
    <3>1. \A p \in Requests : event[p] = "queued" =>
            workflow'[p] = workflow[p] /\ event'[p] = "queued"
      BY <1>4 DEF Act, TypeInv, TypeOK, Decided, Open, Decisions
    <3>2. job["outbox"] # Null => job["outbox"].id \in Requests
      BY Apart DEF TypeInv, TypeOK, Job
    <3> QED  BY <1>4, <3>1, <3>2 DEF Act, TypeInv, Handled, Verdict
  <2>4. Placed'  BY <1>4 DEF Act, TypeInv, Placed, Moved, Ended, Begun, Others
  <2>5. Present'  BY <1>4 DEF Act, TypeInv, TypeOK, Open, Present
  <2>6. TypeInv'  BY <2>1, <2>2, <2>3, <2>4, <2>5 DEF TypeInv
  <2>7. Alone'  BY <1>4, <2>6 DEF Act, Alone, history, Moved, Ended, Begun, Others, Agreement
  <2>8. Copied'  BY <1>4, <2>6 DEF Act, Agreement, Copied, history, Moved, Ended, Begun, Others
  <2>9. Given'  BY <1>4, <2>6 DEF Act, Agreement, Given, history, Moved, Ended, Begun, Others
  <2>10. Kept'
    <3>1. \A p \in Requests : event'[p] = "processed" =>
            event[p] = "processed" /\ workflow'[p] = workflow[p]
      BY <1>4 DEF Act, TypeInv, TypeOK, Decided, Open, Decisions
    <3> QED  BY <1>4, <3>1 DEF Act, Agreement, Kept, history, Live, Verdict
  <2> QED  BY <2>6, <2>7, <2>8, <2>9, <2>10 DEF IInv, Agreement
<1>5. ASSUME NEW q \in Requests, Deliver(q) PROVE IInv'
  <2>1. TypeOK'  BY <1>5, DeliverEffect DEF Deliver, TypeInv, TypeOK, history
  <2>2. Decided'  BY <1>5 DEF Deliver, TypeInv, TypeOK, Decided
  <2>3. Handled'  BY <1>5, DeliverEffect DEF Deliver, Handled, Begun
  <2>4. Placed'
    <3>1. \A c \in Admins : job'[c] = job[c]  BY <1>5, DeliverEffect, Apart DEF Begun, Others
    <3> QED  BY <3>1 DEF TypeInv, Placed
  <2>5. Present'
    <3>1. \A c \in Callers : job'[c] # Null => job'[c] = job[c] \/ (job'[c].id = q /\ Live(q))
      BY <1>5, DeliverEffect, Apart DEF Begun, Others
    <3>2. UNCHANGED <<row, workflow, submission>>  BY <1>5 DEF Deliver
    <3> QED  BY <3>1, <3>2 DEF TypeInv, Present, Live
  <2>6. TypeInv'  BY <2>1, <2>2, <2>3, <2>4, <2>5 DEF TypeInv
  <2>7. Alone'
    BY <1>5, <2>6, DeliverEffect DEF Deliver, Alone, history, Moved, Ended, Begun, Others,
      Agreement
  <2>8. Copied'
    BY <1>5, <2>6, DeliverEffect DEF Deliver, Agreement, Copied, history, Callers, Moved, Ended,
      Begun, Others
  <2>9. Given'  BY <1>5, <2>6, DeliverEffect DEF Deliver, Given, Begun
  <2>10. Kept'  BY <1>5, <2>6, DeliverEffect DEF Deliver, TypeInv, TypeOK, Agreement, Kept, Live
  <2> QED  BY <2>6, <2>7, <2>8, <2>9, <2>10 DEF IInv, Agreement
<1>6. ASSUME NEW c \in Admins, NEW q \in Requests, NEW days \in Lengths, Update(c, q, days)
  PROVE IInv'
  <2>1. TypeOK'
    BY <1>6, ChangeEffect, LeaveAssumption DEF Update, Disrupt, stores, TypeInv, TypeOK,
      history, Goto, End
  <2>2. Decided'  BY <1>6 DEF Update, stores, TypeInv, Decided
  <2>3. Handled'
    BY <1>6, ChangeEffect, Apart DEF Update, stores, TypeInv, Handled, history, Moved, Ended,
      Begun, Others
  <2>4. Placed'
    BY <1>6, ChangeEffect, Apart DEF Update, TypeInv, Placed, Updating, Deleting, Moved, Ended,
      Begun, Others
  <2>5. Present'
    BY <1>6, ChangeEffect DEF Update, stores, TypeInv, Present, history, Moved, Ended, Begun,
      Others
  <2>6. TypeInv'  BY <2>1, <2>2, <2>3, <2>4, <2>5 DEF TypeInv
  <2>7. Alone'
    BY <1>6, <2>6, ChangeEffect DEF Update, stores, Alone, history, Moved, Ended, Begun, Others,
      Agreement
  <2>8. Copied'
    BY <1>6, <2>6, ChangeEffect, Apart DEF Update, stores, Agreement, Copied, Moved, Ended,
      Begun, Others
  <2>9. Given'
    BY <1>6, <2>6, ChangeEffect DEF Update, stores, TypeInv, Handled, Agreement, Given, Callers,
      Moved, Ended, Begun, Others
  <2>10. Kept'  BY <1>6, <2>6, ChangeEffect DEF Update, stores, Agreement, Kept, history, Live
  <2> QED  BY <2>6, <2>7, <2>8, <2>9, <2>10 DEF IInv, Agreement
<1>7. ASSUME NEW c \in Admins, NEW q \in Requests, Delete(c, q) PROVE IInv'
  <2>1. TypeOK'
    BY <1>7, ChangeEffect, LeaveAssumption DEF Delete, Disrupt, stores, TypeInv, TypeOK,
      history, Goto, End
  <2>2. Decided'  BY <1>7 DEF Delete, stores, TypeInv, Decided
  <2>3. Handled'
    BY <1>7, ChangeEffect, Apart DEF Delete, stores, TypeInv, Handled, history, Moved, Ended,
      Begun, Others
  <2>4. Placed'
    BY <1>7, ChangeEffect, Apart DEF Delete, TypeInv, Placed, Updating, Deleting, Moved, Ended,
      Begun, Others
  <2>5. Present'
    BY <1>7, ChangeEffect DEF Delete, stores, TypeInv, Present, history, Moved, Ended, Begun,
      Others
  <2>6. TypeInv'  BY <2>1, <2>2, <2>3, <2>4, <2>5 DEF TypeInv
  <2>7. Alone'
    BY <1>7, <2>6, ChangeEffect DEF Delete, stores, Alone, history, Moved, Ended, Begun, Others,
      Agreement
  <2>8. Copied'
    BY <1>7, <2>6, ChangeEffect, Apart DEF Delete, stores, Agreement, Copied, Moved, Ended,
      Begun, Others
  <2>9. Given'
    BY <1>7, <2>6, ChangeEffect DEF Delete, stores, TypeInv, Handled, Agreement, Given, Callers,
      Moved, Ended, Begun, Others
  <2>10. Kept'  BY <1>7, <2>6, ChangeEffect DEF Delete, stores, Agreement, Kept, history, Live
  <2> QED  BY <2>6, <2>7, <2>8, <2>9, <2>10 DEF IInv, Agreement
<1>8. ASSUME NEW c \in Callers, Save(c) PROVE IInv'
  <2>1. TypeOK'  BY <1>8, SaveEffect DEF Save, TypeInv, TypeOK, history
  <2>2. Decided'  BY <1>8 DEF Save, TypeInv, Decided
  <2>3. Handled'  BY <1>8, SaveKeeps
  <2>4. Placed'  BY <1>8, SaveKeeps
  <2>5. Present'  BY <1>8, SaveKeeps
  <2>6. TypeInv'  BY <2>1, <2>2, <2>3, <2>4, <2>5 DEF TypeInv
  <2>7. Alone'  BY <1>8, SaveKeeps
  <2>8. Copied'  BY <1>8, SaveKeeps
  <2>9. Given'  BY <1>8, SaveKeeps
  <2>10. Kept'  BY <1>8, SaveKeeps
  <2> QED  BY <2>6, <2>7, <2>8, <2>9, <2>10 DEF IInv, Agreement
<1>9. ASSUME NEW c \in Callers, ReadBalance(c) PROVE IInv'
  <2>1. TypeOK'  BY <1>9, ReadEffect DEF ReadBalance, stores, TypeInv, TypeOK, history
  <2>2. Decided'  BY <1>9 DEF ReadBalance, stores, TypeInv, Decided
  <2>3. Handled'  BY <1>9 DEF ReadBalance, stores, TypeInv, TypeOK, Handled, Callers
  <2>4. Placed'
    <3>1. /\ job[c] # Null
          /\ \/ job[c].at = "consuming" /\ Moved(c, "charging")
             \/ job[c].at = "freeing" /\ Moved(c, "releasing")
      BY <1>9, ReadEffect
    <3> QED  BY <3>1, Apart DEF TypeInv, Placed, Updating, Deleting, Moved, Others
  <2>5. Present'  BY <1>9 DEF ReadBalance, stores, TypeInv, TypeOK, Present
  <2>6. TypeInv'  BY <2>1, <2>2, <2>3, <2>4, <2>5 DEF TypeInv
  <2>7. Alone'  BY <1>9, <2>6 DEF ReadBalance, stores, TypeInv, TypeOK, Alone, Agreement
  <2>8. Copied'
    BY <1>9, <2>6 DEF ReadBalance, stores, TypeInv, TypeOK, Agreement, Copied, Callers
  <2>9. Given'
    <3>1. UNCHANGED <<row, workflow, event, submission>> /\ (crossed => crossed')
      BY <1>9 DEF ReadBalance, stores
    <3>2. /\ job[c] # Null
          /\ \/ job[c].at = "consuming" /\ Moved(c, "charging")
             \/ job[c].at = "freeing" /\ Moved(c, "releasing")
      BY <1>9, ReadEffect
    <3> QED  BY <3>1, <3>2, Apart DEF Agreement, Given, Moved, Others
  <2>10. Kept'
    BY <1>9, <2>6, ReadEffect DEF ReadBalance, stores, Agreement, Kept, history, Live
  <2> QED  BY <2>6, <2>7, <2>8, <2>9, <2>10 DEF IInv, Agreement
<1>10. ASSUME NEW c \in Callers, Charge(c) PROVE IInv'
  <2>1. TypeOK'  BY <1>10, ChargeTyped
  <2>2. Decided'  BY <1>10 DEF Charge, TypeInv, Decided
  <2>3. Handled'
    <3>1. /\ job[c] # Null
          /\ \/ c = "outbox" /\ Moved(c, "committing")
             \/ c # "outbox" /\ Ended(c)
      BY <1>10, ChargeEffect
    <3>2. UNCHANGED <<workflow, event>>  BY <1>10 DEF Charge
    <3> QED  BY <3>1, <3>2, Apart DEF TypeInv, Handled, Moved, Ended, Others
  <2>4. Placed'  BY <1>10, ChargeKeeps
  <2>5. Present'  BY <1>10, ChargeKeeps
  <2>6. TypeInv'  BY <2>1, <2>2, <2>3, <2>4, <2>5 DEF TypeInv
  <2>7. Alone'  BY <1>10, ChargeKeeps
  <2>8. Copied'  BY <1>10, ChargeKeeps
  <2>9. Given'
    BY <1>10, <2>6, BalanceTyped, ChargeEffect DEF Charge, Agreement, Alone, Given, history,
      Callers, Moved, Ended, Begun, Others
  <2>10. Kept'  BY <1>10, <2>6 DEF Charge, Agreement, Kept, Live
  <2> QED  BY <2>6, <2>7, <2>8, <2>9, <2>10 DEF IInv, Agreement
<1>11. ASSUME NEW c \in Callers, Release(c) PROVE IInv'
  <2>1. TypeOK'  BY <1>11, BalanceTyped, ReleaseEffect DEF Release, TypeInv, TypeOK, history
  <2>2. Decided'  BY <1>11 DEF Release, TypeInv, Decided
  <2>3. Handled'  BY <1>11, ReleaseEffect DEF Release, TypeInv, Handled, Callers, Moved, Others
  <2>4. Placed'
    <3>1. /\ job[c] # Null /\ job[c].at = "releasing"
          /\ \/ job[c].kind = "update" /\ Moved(c, "saving")
             \/ job[c].kind # "update" /\ Moved(c, "deleting")
      BY <1>11, ReleaseEffect
    <3> QED  BY <3>1, Apart DEF TypeInv, Placed, Updating, Deleting, Moved, Others
  <2>5. Present'  BY <1>11, ReleaseEffect DEF Release, TypeInv, Present, Moved, Others
  <2>6. TypeInv'  BY <2>1, <2>2, <2>3, <2>4, <2>5 DEF TypeInv
  <2>7. Alone'
    BY <1>11, <2>6, ReleaseEffect DEF Release, Alone, history, Moved, Others, Agreement
  <2>8. Copied'
    <3>1. UNCHANGED row /\ (crossed' <=> crossed)  BY <1>11 DEF Release, history
    <3>2. /\ job[c] # Null /\ job'[c].copy = job[c].copy
          /\ \/ job[c].kind = "update" /\ Moved(c, "saving")
             \/ job[c].kind # "update" /\ Moved(c, "deleting")
      BY <1>11, ReleaseEffect
    <3> QED  BY <3>1, <3>2, Apart DEF Agreement, Copied, Moved, Others
  <2>9. Given'
    BY <1>11, <2>6, ReleaseEffect DEF Release, Agreement, Given, history, Callers, Moved, Others
  <2>10. Kept'  BY <1>11, <2>6 DEF Release, Agreement, Kept, history, Live
  <2> QED  BY <2>6, <2>7, <2>8, <2>9, <2>10 DEF IInv, Agreement
<1>12. ASSUME NEW c \in Callers, SoftDelete(c) PROVE IInv'
  <2>1. TypeOK'  BY <1>12, DeleteEffect DEF SoftDelete, TypeInv, TypeOK, history
  <2>2. Decided'  BY <1>12 DEF SoftDelete, TypeInv, Decided
  <2>3. Handled'
    BY <1>12, DeleteEffect, ZenonT(90) DEF SoftDelete, TypeInv, Handled, history, Callers,
      Moved, Ended, Begun, Others
  <2>4. Placed'  BY <1>12, SoftDeleteKeeps
  <2>5. Present'  BY <1>12, SoftDeleteKeeps
  <2>6. TypeInv'  BY <2>1, <2>2, <2>3, <2>4, <2>5 DEF TypeInv
  <2>7. Alone'  BY <1>12, SoftDeleteKeeps
  <2>8. Copied'  BY <1>12, SoftDeleteKeeps
  <2>9. Given'  BY <1>12, SoftDeleteKeeps
  <2>10. Kept'  BY <1>12, <2>6 DEF SoftDelete, Agreement, Kept, history, Live
  <2> QED  BY <2>6, <2>7, <2>8, <2>9, <2>10 DEF IInv, Agreement
<1>13. ASSUME NEW c \in Callers, CancelLinked(c) PROVE IInv'
  <2>1. TypeOK'
    BY <1>13, EndEnds DEF CancelLinked, TypeInv, TypeOK, Open, Decisions, history
  <2>2. Decided'  BY <1>13 DEF CancelLinked, TypeInv, TypeOK, Decided, Decisions
  <2>3. Handled'  BY <1>13, CancelKeeps
  <2>4. Placed'
    BY <1>13, EndEnds DEF CancelLinked, TypeInv, Placed, Updating, Deleting, Callers, history,
      Moved, Ended, Begun, Others
  <2>5. Present'
    BY <1>13, EndEnds DEF CancelLinked, TypeInv, Present, Moved, Ended, Begun, Others
  <2>6. TypeInv'  BY <2>1, <2>2, <2>3, <2>4, <2>5 DEF TypeInv
  <2>7. Alone'
    BY <1>13, <2>6, EndEnds DEF CancelLinked, TypeInv, Alone, history, Moved, Ended, Begun,
      Others, Agreement
  <2>8. Copied'
    BY <1>13, <2>6, EndEnds, Apart DEF CancelLinked, TypeInv, Agreement, Copied, history, Live,
      Moved, Ended, Begun, Others
  <2>9. Given'
    BY <1>13, <2>6, EndEnds DEF CancelLinked, TypeInv, Agreement, Given, history, Callers, Live,
      Moved, Ended, Begun, Others
  <2>10. Kept'
    <3>1. \A p \in Requests : event[p] = "processed" => workflow'[p] = workflow[p]
      BY <1>13 DEF CancelLinked, TypeInv, TypeOK, Decided, Decisions
    <3> QED
      BY <1>13, <3>1 DEF CancelLinked, Agreement, Kept, history, Live, Verdict
  <2> QED  BY <2>6, <2>7, <2>8, <2>9, <2>10 DEF IInv, Agreement
<1>14. ASSUME Commit PROVE IInv'
  <2>1. TypeOK'
    BY <1>14, EndEnds, LeaveAssumption DEF Commit, TypeInv, TypeOK, history, Goto, End
  <2>2. Decided'  BY <1>14 DEF Commit, TypeInv, Decided, Handled
  <2>3. Handled'  BY <1>14, EndEnds DEF Commit, TypeInv, Handled, Callers, Ended
  <2>4. Placed'
    BY <1>14, EndEnds DEF Commit, TypeInv, Placed, Updating, Deleting, Callers, history, Moved,
      Ended, Begun, Others
  <2>5. Present'
    BY <1>14, EndEnds DEF Commit, TypeInv, TypeOK, Present, Callers, Moved, Ended, Begun, Others
  <2>6. TypeInv'  BY <2>1, <2>2, <2>3, <2>4, <2>5 DEF TypeInv
  <2>7. Alone'
    <3>1. UNCHANGED submission /\ (crossed' <=> crossed) /\ Ended("outbox")
      BY <1>14, EndEnds, Apart DEF Commit, history, TypeInv
    <3> QED  BY <3>1, Apart DEF Agreement, Alone, Ended, Others
  <2>8. Copied'
    BY <1>14, <2>6, EndEnds, Apart DEF Commit, TypeInv, Agreement, Copied, history, Live, Moved,
      Ended, Begun, Others
  <2>9. Given'  BY <1>14, <2>6, EndEnds DEF Commit, TypeInv, Given, Callers, Ended
  <2>10. Kept'
    BY <1>14, <2>6 DEF Commit, TypeInv, Handled, Agreement, Alone, Kept, Given, history,
      Callers, Live
  <2> QED  BY <2>6, <2>7, <2>8, <2>9, <2>10 DEF IInv, Agreement
<1>15. ASSUME NEW c \in Callers, Crash(c) PROVE IInv'
  <2>1. TypeOK'  BY <1>15, LeaveAssumption DEF Crash, Disrupt, stores, TypeInv, TypeOK, End
  <2>2. Decided'  BY <1>15 DEF Crash, stores, TypeInv, Decided
  <2>3. Handled'
    BY <1>15, EndEnds DEF Crash, stores, TypeInv, Handled, history, Callers, Moved, Ended,
      Begun, Others
  <2>4. Placed'
    BY <1>15, EndEnds DEF Crash, Disrupt, TypeInv, Placed, Updating, Deleting, Callers, history,
      Moved, Ended, Begun, Others
  <2>5. Present'
    BY <1>15, EndEnds DEF Crash, stores, TypeInv, Present, history, Moved, Ended, Begun, Others
  <2>6. TypeInv'  BY <2>1, <2>2, <2>3, <2>4, <2>5 DEF TypeInv
  <2>7. Alone'
    BY <1>15, <2>6, EndEnds DEF Crash, stores, TypeInv, Alone, Moved, Ended, Begun, Others,
      Agreement
  <2>8. Copied'
    BY <1>15, <2>6, EndEnds, ZenonT(90) DEF Crash, Disrupt, stores, TypeInv, TypeOK, Present,
      Agreement, Alone, Copied, history, Callers, Live, Moved, Ended, Begun, Others
  <2>9. Given'
    BY <1>15, <2>6, EndEnds DEF Crash, stores, TypeInv, Agreement, Given, history, Callers,
      Live, Moved, Ended, Begun, Others
  <2>10. Kept'  BY <1>15, <2>6 DEF Crash, stores, Agreement, Kept, Live
  <2> QED  BY <2>6, <2>7, <2>8, <2>9, <2>10 DEF IInv, Agreement
<1>16. CASE UNCHANGED vars
  <2>1. TypeOK'  BY <1>16 DEF vars, stores, history, TypeInv, TypeOK
  <2>2. Decided'  BY <1>16 DEF vars, stores, history, TypeInv, Decided
  <2>3. Handled'  BY <1>16 DEF vars, stores, history, TypeInv, Handled
  <2>4. Placed'  BY <1>16 DEF vars, stores, history, TypeInv, Placed
  <2>5. Present'  BY <1>16 DEF vars, stores, history, TypeInv, Present
  <2>7. Alone'  BY <1>16 DEF vars, stores, history, Agreement, Alone
  <2>8. Copied'  BY <1>16 DEF vars, stores, history, Agreement, Copied
  <2>9. Given'  BY <1>16 DEF vars, stores, history, Agreement, Given
  <2>10. Kept'  BY <1>16 DEF vars, stores, history, Agreement, Kept, Live
  <2> QED  BY <2>1, <2>2, <2>3, <2>4, <2>5, <2>7, <2>8, <2>9, <2>10 DEF IInv, TypeInv, Agreement
<1> QED
  BY <1>1, <1>2, <1>3, <1>4, <1>5, <1>6, <1>7, <1>8, <1>9, <1>10, <1>11, <1>12, <1>13, <1>14,
    <1>15, <1>16 DEF Next, vars

\* Both tables and every job keep their types; in particular the days used and the
\* days borrowed are never negative.
THEOREM TypeCorrect == Spec => []TypeOK
<1>1. IInv => TypeOK  BY DEF IInv, TypeInv
<1> QED  BY <1>1, InitHolds, Step, PTL DEF Spec

\* Unless two copies of a request were about at once, a request whose event is
\* processed carries the decision of its workflow, in spite of crashes and
\* redeliveries.  (onWorkflowResolved saves the decision before it goes on to the
\* balance, and the event is processed only when it has returned.)
THEOREM FollowsWorkflow == Spec => []RequestFollowsWorkflow
<1>1. IInv => RequestFollowsWorkflow
  BY DEF IInv, Agreement, Kept, RequestFollowsWorkflow
<1> QED  BY <1>1, InitHolds, Step, PTL DEF Spec
-----------------------------------------------------------------------------
(***************************************************************************)
(* The balance.  Account ties it to the requests as long as no two copies  *)
(* were about at once and no crash left one of the two tables behind: it   *)
(* has the days of the requests that are approved, but for those of a      *)
(* request some job has taken out or is going to add.                      *)
(***************************************************************************)
\* The request a job works on is its copy, ...
Writing == {"saving", "consuming", "charging", "freeing", "releasing", "deleting"}
Moving  == {"consuming", "charging", "freeing", "releasing"}

Mirrors(c) == job[c] # Null /\ job[c].at \in Writing =>
    /\ row[job[c].id] = job[c].copy
    /\ ~job[c].copy.deleted
    /\ job[c].at \in Moving => job[c].copy.status = "approved"

Copies == ~crossed => \A c \in Callers : Mirrors(c)

\* ... and so is the one that is saved once more; ...
Submitted == \A q \in Requests : submission[q] # Null =>
    /\ submission[q].status = "pending"
    /\ ~crossed => row[q] = submission[q]

\* ... a job that is going to write the balance is alone, and knows it; ...
Holds(c) == job[c] # Null /\ job[c].at \in {"charging", "releasing"}

Reads == ~crossed => \A c \in Callers : Holds(c) =>
    /\ job[c].read = balance
    /\ \A d \in Callers : Holds(d) => c = d

\* ... a request is not approved before the handler is at it, ...
Undisturbed == ~crossed /\ ~broken

Waiting == Undisturbed => \A q \in Requests :
    /\ event[q] # "processed"
    /\ row[q] # Null
    /\ row[q].status = "approved"
    => /\ job["outbox"] # Null
       /\ job["outbox"].id = q
       /\ job["outbox"].at \in {"consuming", "charging", "committing"}

\* ... and the sums are those of the requests that count, ...
Without == {"saving", "consuming", "charging", "deleting"}

Blocks(c, q) == job[c] # Null /\ job[c].id = q /\ job[c].at \in Without
Counts(q)    == Live(q) /\ row[q].status = "approved" /\ \A c \in Callers : ~Blocks(c, q)
Counting     == {q \in Requests : Counts(q)}

Balanced == Undisturbed =>
    /\ balance.used = SumFunction([q \in Counting |-> row[q].days])
    /\ balance.borrowed = SumFunction([q \in Counting |-> Borrowed(row[q])])

\* ... of which there are as many as were ever inserted.
Finite == IsFiniteSet({q \in Requests : row[q] # Null})

Account == Copies /\ Submitted /\ Reads /\ Waiting /\ Balanced /\ Finite
-----------------------------------------------------------------------------
\* The numbers that are added are natural, and finitely many.
LEMMA Addends ==
  ASSUME TypeOK, Finite
  PROVE  /\ IsFiniteSet(Counting)
         /\ \A q \in Counting : q \in Requests /\ row[q] \in Row
         /\ \A q \in Counting : row[q].days \in Nat /\ Borrowed(row[q]) \in Nat
         /\ balance.used \in Nat /\ balance.borrowed \in Nat
<1>1. Counting \subseteq {q \in Requests : row[q] # Null}  BY DEF Counting, Counts, Live
<1>2. IsFiniteSet(Counting)  BY <1>1, FS_Subset DEF Finite
<1>3. \A q \in Counting : q \in Requests /\ row[q] \in Row  BY <1>1 DEF TypeOK
<1>4. \A r \in Row : r.days \in Nat /\ Borrowed(r) \in Nat  BY LeaveAssumption DEF Row, Borrowed
<1> QED  BY <1>2, <1>3, <1>4 DEF TypeOK, Balance

\* A step that moves no request in or out of the balance, and leaves those in it.
LEMMA CountingStays ==
  ASSUME NEW c \in Callers, Others(c),
         \A q \in Requests : \/ row'[q] = row[q] /\ (Blocks(c, q)' <=> Blocks(c, q))
                             \/ ~Counts(q) /\ ~Counts(q)'
  PROVE  Counting' = Counting /\ \A q \in Counting : row'[q] = row[q]
<1>1. ASSUME NEW q \in Requests, row'[q] = row[q], Blocks(c, q)' <=> Blocks(c, q)
      PROVE  Counts(q)' <=> Counts(q)
  <2>1. \A d \in Callers \ {c} : Blocks(d, q)' <=> Blocks(d, q)  BY DEF Others, Blocks
  <2>2. (\A d \in Callers : ~Blocks(d, q)') <=> (\A d \in Callers : ~Blocks(d, q))
    BY <1>1, <2>1
  <2> QED  BY <1>1, <2>2 DEF Counts, Live
<1>2. \A q \in Requests : Counts(q)' <=> Counts(q)  BY <1>1
<1>3. \A q \in Requests : Counts(q) => row'[q] = row[q]  BY <1>1
<1> QED  BY <1>2, <1>3 DEF Counting

LEMMA BalancedStays ==
  ASSUME Balanced, UNCHANGED balance, Undisturbed' => Undisturbed,
         Undisturbed' => Counting' = Counting /\ \A q \in Counting : row'[q] = row[q]
  PROVE  Balanced'
<1> SUFFICES ASSUME Undisturbed' PROVE Balanced'
  BY DEF Balanced
<1>1. Counting' = Counting  OBVIOUS
<1>2. /\ [q \in Counting' |-> row'[q].days] = [q \in Counting |-> row[q].days]
      /\ [q \in Counting' |-> Borrowed(row'[q])] = [q \in Counting |-> Borrowed(row[q])]
  BY <1>1
<1> QED  BY <1>2 DEF Balanced, Borrowed

\* What a job works on is a request of the table, and nobody else works on it.
LEMMA Own ==
  ASSUME IInv, NEW c \in Callers, job[c] # Null
  PROVE  /\ job[c] \in Job /\ job[c].id \in Requests /\ job[c].copy \in Row
         /\ row[job[c].id] # Null /\ row[job[c].id] \in Row
         /\ ~crossed => /\ submission[job[c].id] = Null
                        /\ \A d \in Callers : job[d] # Null /\ job[d].id = job[c].id => d = c
<1>1. job[c] \in Job /\ job[c].id \in Requests /\ job[c].copy \in Row
  BY DEF IInv, TypeInv, TypeOK, Job
<1>2. row[job[c].id] # Null  BY DEF IInv, TypeInv, Present
<1>3. row[job[c].id] \in Row  BY <1>1, <1>2 DEF IInv, TypeInv, TypeOK
<1> QED  BY <1>1, <1>2, <1>3 DEF IInv, Agreement, Alone

\* A copy stays like its request when nobody else writes the request.
LEMMA CopiesStays ==
  ASSUME IInv, Copies, NEW c \in Callers, Others(c), crossed => crossed',
         ~crossed' => Mirrors(c)',
         ~crossed' => \A d \in Callers \ {c} : job[d] # Null => row'[job[d].id] = row[job[d].id]
  PROVE  Copies'
<1> SUFFICES ASSUME ~crossed', NEW d \in Callers, d # c PROVE Mirrors(d)'
  BY DEF Copies
<1>1. job'[d] = job[d] /\ Mirrors(d)  BY DEF Others, Copies
<1> QED  BY <1>1 DEF Mirrors

\* Nobody but the holder writes the balance.
LEMMA ReadsStays ==
  ASSUME Reads, NEW c \in Callers, Others(c), crossed => crossed',
         ~crossed' => \/ ~Holds(c)' /\ (UNCHANGED balance \/ Holds(c))
                      \/ /\ UNCHANGED balance /\ job'[c].read = balance
                         /\ \A d \in Callers \ {c} : ~Holds(d)
  PROVE  Reads'
<1> SUFFICES ASSUME ~crossed' PROVE Reads'
  BY DEF Reads
<1>1. \A d \in Callers \ {c} : job'[d] = job[d] /\ (Holds(d)' <=> Holds(d))
  BY DEF Others, Holds
<1>2. CASE ~Holds(c)' /\ UNCHANGED balance  BY <1>1, <1>2 DEF Reads
<1>3. CASE ~Holds(c)' /\ Holds(c)  BY <1>1, <1>3 DEF Reads
<1>4. CASE UNCHANGED balance /\ job'[c].read = balance /\ \A d \in Callers \ {c} : ~Holds(d)
  BY <1>1, <1>4 DEF Reads
<1> QED  BY <1>2, <1>3, <1>4

\* The rows stay finitely many when one is inserted, and when none is.
LEMMA FiniteStays ==
  ASSUME Finite, NEW p, \A q \in Requests \ {p} : row'[q] # Null => row[q] # Null
  PROVE  Finite'
<1> DEFINE S == {q \in Requests : row[q] # Null}
<1>1. {q \in Requests : row'[q] # Null} \subseteq S \cup {p}  OBVIOUS
<1>2. IsFiniteSet(S \cup {p})  BY FS_AddElement DEF Finite
<1> QED  BY <1>1, <1>2, FS_Subset DEF Finite

-----------------------------------------------------------------------------
\* A request is inserted, pending.
LEMMA RequestAccount ==
  ASSUME IInv, IInv', Account, NEW q \in Requests, NEW days \in Lengths, NEW wants \in BOOLEAN,
         RequestLeave(q, days, wants)
  PROVE  Account'
<1> DEFINE new == [status |-> "pending", days |-> days,
                   borrowed |-> wants /\ days > Remaining, deleted |-> FALSE]
<1>1. /\ row[q] = Null /\ row' = [row EXCEPT ![q] = new]
      /\ submission' = [submission EXCEPT ![q] = new]
      /\ UNCHANGED <<balance, workflow, event, job, history>>
  BY DEF RequestLeave
<1>2. new.status = "pending"  OBVIOUS
<1> HIDE DEF new
<1>3. /\ row'[q] = new /\ submission'[q] = new
      /\ \A p \in Requests \ {q} : row'[p] = row[p] /\ submission'[p] = submission[p]
  BY <1>1 DEF IInv, TypeInv, TypeOK
<1>4. \A c \in Callers : job[c] # Null => job[c].id # q  BY <1>1, Own
<1>5. "outbox" \in Callers /\ Others("outbox")  BY <1>1, Apart DEF Others
<1>6. Copies'
  <2>1. \A c \in Callers : job[c] # Null => row'[job[c].id] = row[job[c].id]
    BY <1>3, <1>4, Own
  <2> QED  BY <1>1, <2>1 DEF history, Account, Copies, Mirrors
<1>7. Submitted'  BY <1>1, <1>2, <1>3 DEF history, Account, Submitted
<1>8. Reads'  BY <1>1 DEF history, Account, Reads, Holds
<1>9. Waiting'  BY <1>1, <1>2, <1>3 DEF history, Undisturbed, Account, Waiting
<1>10. Balanced'
  <2>1. \A p \in Requests : \/ row'[p] = row[p] /\ (Blocks("outbox", p)' <=> Blocks("outbox", p))
                            \/ ~Counts(p) /\ ~Counts(p)'
    BY <1>1, <1>2, <1>3 DEF Blocks, Counts, Live
  <2>2. Counting' = Counting /\ \A p \in Counting : row'[p] = row[p]
    BY <1>5, <2>1, CountingStays
  <2> QED  BY <1>1, <2>2, BalancedStays DEF history, Undisturbed, Account
<1>11. Finite'  BY <1>3, FiniteStays DEF Account
<1> QED  BY <1>6, <1>7, <1>8, <1>9, <1>10, <1>11 DEF Account

\* The second save of a request writes what is there.
LEMMA AttachAccount ==
  ASSUME IInv, IInv', Account, NEW q \in Requests, Attach(q)
  PROVE  Account'
<1> DEFINE new == [submission[q] EXCEPT !.deleted = row[q].deleted]
<1>1. /\ submission[q] # Null /\ row' = [row EXCEPT ![q] = new]
      /\ submission' = [submission EXCEPT ![q] = Null]
      /\ UNCHANGED <<balance, workflow, event, job, history>>
  BY DEF Attach
<1>2. submission[q] \in Row /\ row[q] # Null /\ row[q] \in Row
  BY <1>1 DEF IInv, TypeInv, TypeOK, Present
<1>3. new \in Row /\ new.status = submission[q].status
      /\ (row[q] = submission[q] => new = row[q])
  BY <1>2 DEF Row
<1> HIDE DEF new
<1>4. /\ row'[q] = new /\ submission'[q] = Null
      /\ \A p \in Requests \ {q} : row'[p] = row[p] /\ submission'[p] = submission[p]
  BY <1>1 DEF IInv, TypeInv, TypeOK
<1>5. submission[q].status = "pending" /\ (~crossed => row[q] = submission[q])
  BY <1>1 DEF Account, Submitted
<1>6. ~crossed => row' = row
  BY <1>1, <1>3, <1>5 DEF IInv, TypeInv, TypeOK
<1>7. Copies'  BY <1>1, <1>6 DEF history, Account, Copies, Mirrors
<1>8. Submitted'  BY <1>1, <1>4 DEF history, Account, Submitted
<1>9. Reads'  BY <1>1 DEF history, Account, Reads, Holds
<1>10. Waiting'  BY <1>1, <1>6 DEF history, Undisturbed, Account, Waiting
<1>11. Balanced'
  <2>1. Undisturbed' => Counting' = Counting
    BY <1>1, <1>6 DEF history, Undisturbed, Counting, Counts, Live, Blocks
  <2> QED  BY <1>1, <1>6, <2>1, BalancedStays DEF history, Undisturbed, Account
<1>12. Finite'  BY <1>1, <1>4, FiniteStays DEF Account
<1> QED  BY <1>7, <1>8, <1>9, <1>10, <1>11, <1>12 DEF Account

\* The workflow goes on without the tables.
LEMMA WorkflowAccount ==
  ASSUME IInv, IInv', Account, NEW q \in Requests,
         StartWorkflow(q) \/ \E status \in Decisions \cup {"returned"} : Act(q, status)
  PROVE  Account'
<1>1. /\ UNCHANGED <<row, balance, submission, job, history>>
      /\ \A p \in Requests : event'[p] # "processed" => event[p] # "processed"
  <2>1. CASE StartWorkflow(q)  BY <2>1 DEF StartWorkflow
  <2>2. ASSUME NEW status \in Decisions \cup {"returned"}, Act(q, status)
        PROVE  /\ UNCHANGED <<row, balance, submission, job, history>>
               /\ \A p \in Requests : event'[p] # "processed" => event[p] # "processed"
    <3>1. event[q] # "processed"  BY <2>2 DEF Act, IInv, TypeInv, Decided, Open, Decisions
    <3> QED  BY <2>2, <3>1 DEF Act, IInv, TypeInv, TypeOK
  <2> QED  BY <2>1, <2>2
<1>2. Copies'  BY <1>1 DEF history, Account, Copies, Mirrors
<1>3. Submitted'  BY <1>1 DEF history, Account, Submitted
<1>4. Reads'  BY <1>1 DEF history, Account, Reads, Holds
<1>5. Waiting'  BY <1>1 DEF history, Undisturbed, Account, Waiting
<1>6. Balanced'
  <2>1. Counting' = Counting  BY <1>1 DEF Counting, Counts, Live, Blocks
  <2> QED  BY <1>1, <2>1, BalancedStays DEF history, Undisturbed, Account
<1>7. Finite'  BY <1>1, FiniteStays DEF Account
<1> QED  BY <1>2, <1>3, <1>4, <1>5, <1>6, <1>7 DEF Account

\* A job begins with the request as it is, and takes out only what is in.
LEMMA BegunAccount ==
  ASSUME IInv, IInv', Account, NEW c \in Callers, NEW q \in Requests, NEW kind,
         NEW at \in {"saving", "deleting", "freeing"}, Begun(c, q, kind, at), Live(q),
         at = "freeing" => row[q].status = "approved",
         Undisturbed' /\ at # "freeing" => row[q].status # "approved",
         UNCHANGED <<row, balance, event, submission, broken>>, crossed => crossed'
  PROVE  Account'
<1>1. /\ job[c] = Null /\ job'[c] # Null /\ job'[c].at = at
      /\ job'[c].id = q /\ job'[c].copy = row[q] /\ Others(c)
  BY DEF Begun
<1>2. Copies'
  <2>1. ~crossed' => Mirrors(c)'  BY <1>1 DEF Mirrors, Moving, Live
  <2> QED  BY <1>1, <2>1, CopiesStays DEF Account
<1>3. Submitted'  BY DEF Account, Submitted
<1>4. Reads'
  <2>1. ~Holds(c)'  BY <1>1 DEF Holds
  <2> QED  BY <1>1, <2>1, ReadsStays DEF Account
<1>5. Waiting'
  BY <1>1, Apart DEF Undisturbed, Others, Account, Waiting
<1>6. Balanced'
  <2>1. Undisturbed' =>
          \A p \in Requests : \/ row'[p] = row[p] /\ (Blocks(c, p)' <=> Blocks(c, p))
                              \/ ~Counts(p) /\ ~Counts(p)'
    BY <1>1 DEF Blocks, Without, Counts
  <2>2. Undisturbed' => Counting' = Counting /\ \A p \in Counting : row'[p] = row[p]
    BY <1>1, <2>1, CountingStays
  <2> QED  BY <2>2, BalancedStays DEF Undisturbed, Account
<1>7. Finite'  BY FiniteStays DEF Account
<1> QED  BY <1>2, <1>3, <1>4, <1>5, <1>6, <1>7 DEF Account

\* The handler finds a request that is not approved yet, or none.
LEMMA DeliverAccount ==
  ASSUME IInv, IInv', Account, NEW q \in Requests, Deliver(q)
  PROVE  Account'
<1>1. event[q] = "queued" /\ UNCHANGED <<row, balance, submission, broken>>
      /\ "outbox" \in Callers
  BY Apart DEF Deliver
<1>2. CASE Live(q)
  <2>1. Begun("outbox", q, Verdict(workflow[q]), "saving") /\ event' = event /\ (crossed => crossed')
    BY <1>2, DeliverEffect DEF IInv, TypeInv, TypeOK
  <2>2. Undisturbed' => row[q].status # "approved"
    BY <1>1, <1>2, <2>1 DEF Begun, Undisturbed, Live, Account, Waiting
  <2> QED  BY <1>1, <1>2, <2>1, <2>2, BegunAccount
<1>3. CASE ~Live(q)
  <2>1. UNCHANGED <<job, crossed>> /\ event' = [event EXCEPT ![q] = "processed"]
    BY <1>3, DeliverEffect DEF IInv
  <2>2. \A p \in Requests : event'[p] # "processed" => event[p] # "processed"
    BY <2>1 DEF IInv, TypeInv, TypeOK
  <2>3. Copies'  BY <1>1, <2>1 DEF Account, Copies, Mirrors
  <2>4. Submitted'  BY <1>1, <2>1 DEF Account, Submitted
  <2>5. Reads'  BY <1>1, <2>1 DEF Account, Reads, Holds
  <2>6. Waiting'  BY <1>1, <2>1, <2>2 DEF Undisturbed, Account, Waiting
  <2>7. Balanced'
    <3>1. Counting' = Counting  BY <1>1, <2>1 DEF Counting, Counts, Live, Blocks
    <3> QED  BY <1>1, <2>1, <3>1, BalancedStays DEF Undisturbed, Account
  <2>8. Finite'  BY <1>1, FiniteStays DEF Account
  <2> QED  BY <2>3, <2>4, <2>5, <2>6, <2>7, <2>8 DEF Account
<1> QED  BY <1>2, <1>3

\* An administrator frees an approved request first.
LEMMA ChangeAccount ==
  ASSUME IInv, IInv', Account, NEW c \in Admins, NEW q \in Requests,
         (\E days \in Lengths : Update(c, q, days)) \/ Delete(c, q)
  PROVE  Account'
<1>1. /\ c \in Callers /\ Live(q) /\ UNCHANGED <<row, balance, event, submission, broken>>
      /\ crossed => crossed'
  BY Apart DEF Update, Delete, Begin, stores
<1>2. job'[c].at = "freeing" <=> row[q].status = "approved"
  <2>1. c \in Callers /\ job \in [Callers -> Job \cup {Null}]
    BY Apart DEF IInv, TypeInv, TypeOK
  <2>2. ASSUME NEW days \in Lengths, Update(c, q, days)
        PROVE  job'[c].at = "freeing" <=> row[q].status = "approved"
    BY <2>1, <2>2 DEF Update, Begin
  <2>3. CASE Delete(c, q)  BY <2>1, <2>3 DEF Delete, Begin
  <2> QED  BY <2>2, <2>3
<1>3. PICK kind \in {"update", "delete"}, at \in {"saving", "deleting", "freeing"} :
        Begun(c, q, kind, at)
  BY ChangeEffect DEF IInv
<1>4. at = "freeing" <=> row[q].status = "approved"  BY <1>3, <1>2 DEF Begun
<1> QED  BY <1>1, <1>3, <1>4, BegunAccount

\* A request that is saved from a copy like it differs from the copy in what is meant
\* only, and the job goes on with what it saved.
LEMMA SaveCopies ==
  ASSUME IInv, Account, NEW c \in Callers, Save(c), ~crossed
  PROVE  \/ /\ Moved(c, "consuming") /\ row'[job[c].id] = job'[c].copy
            /\ row'[job[c].id].status = "approved" /\ ~row'[job[c].id].deleted
         \/ /\ Moved(c, "committing") \/ Ended(c)
            /\ row'[job[c].id].status # "approved"
<1> DEFINE j   == job[c]
           q   == job[c].id
           new == IF j.kind = "update" THEN [j.copy EXCEPT !.days = j.days]
                                       ELSE [j.copy EXCEPT !.status = j.kind]
           rec == [new EXCEPT !.deleted = row[q].deleted]
<1>1. /\ j # Null /\ j \in Job /\ j.at = "saving" /\ q \in Requests
      /\ row[q] = j.copy /\ ~j.copy.deleted /\ j.copy \in Row
  BY Own DEF Save, Account, Copies, Mirrors, Writing
<1>2. new \in [status : {"pending", "approved", "rejected", "update", "delete"}, days : Lengths,
               borrowed : BOOLEAN, deleted : BOOLEAN] /\ ~new.deleted
  BY <1>1 DEF Job, Row
<1>3. rec = new  BY <1>1, <1>2
<1>4. row'[q] = new
  BY <1>1, <1>3 DEF Save, IInv, TypeInv, TypeOK
<1>5. CASE new.status = "approved"
  <2>1. job'[c] = [[j EXCEPT !.at = "consuming"] EXCEPT !.copy = new]
    BY <1>1, <1>5 DEF Save, IInv, TypeInv, TypeOK
  <2>2. job'[c].copy = new  BY <1>1, <2>1 DEF Job
  <2>3. job'[c].at = "consuming"  BY <1>1, <2>1 DEF Job
  <2>4. job' \in [Callers -> Job \cup {Null}] /\ Others(c)
    BY SaveEffect DEF IInv, Moved, Ended
  <2>5. job'[c].kind = j.kind /\ job'[c].id = q  BY <1>1, <2>1 DEF Job
  <2>6. job'[c] # Null
    <3>1. new \in Row  BY <1>2, <1>5 DEF Row
    <3> HIDE DEF new
    <3>2. job'[c] \in Job  BY <1>1, <2>1, <3>1 DEF Job
    <3> QED  BY <3>2, NullAssumption
  <2>7. Moved(c, "consuming")  BY <2>3, <2>4, <2>5, <2>6 DEF Moved
  <2> QED  BY <1>2, <1>4, <1>5, <2>2, <2>7
<1>6. CASE new.status # "approved"
  <2>1. Moved(c, "committing") \/ Ended(c)
    BY <1>1, <1>6, GotoMoves, EndEnds DEF Save, IInv, TypeInv, Places
  <2> QED  BY <1>4, <1>6, <2>1
<1> QED  BY <1>5, <1>6

\* Saving a request neither adds its days to the balance nor takes them out.
LEMMA SaveAccount ==
  ASSUME IInv, IInv', Account, NEW c \in Callers, Save(c)
  PROVE  Account'
<1> DEFINE q == job[c].id
<1>1. /\ job[c] # Null /\ job[c].at = "saving" /\ q \in Requests
      /\ row[q] # Null /\ row'[q] # Null
      /\ \A p \in Requests \ {q} : row'[p] = row[p]
      /\ UNCHANGED <<balance, event, submission, history>>
  BY SaveEffect DEF Save, IInv
<1>2. Others(c) /\ ~Holds(c)' /\ (job'[c] # Null => job'[c].id = q)
  BY SaveEffect DEF IInv, Moved, Ended, Holds
<1>3. ~crossed => \/ /\ Moved(c, "consuming") /\ row'[q] = job'[c].copy
                     /\ row'[q].status = "approved" /\ ~row'[q].deleted
                  \/ /\ Moved(c, "committing") \/ Ended(c)
                     /\ row'[q].status # "approved"
  BY SaveCopies
<1>4. ~crossed => /\ submission[q] = Null /\ row[q] = job[c].copy
                  /\ \A d \in Callers : job[d] # Null /\ job[d].id = q => d = c
  BY <1>1, Own DEF Account, Copies, Mirrors, Writing
<1>5. Copies'
  <2>1. ~crossed => Mirrors(c)'
    BY <1>1, <1>3 DEF Moved, Ended, Mirrors, Writing
  <2>2. ~crossed => \A d \in Callers \ {c} : job[d] # Null => row'[job[d].id] = row[job[d].id]
    BY <1>1, <1>4, Own
  <2> QED  BY <1>1, <1>2, <2>1, <2>2, CopiesStays DEF history, Account
<1>6. Submitted'  BY <1>1, <1>4 DEF history, Account, Submitted
<1>7. Reads'  BY <1>1, <1>2, ReadsStays DEF history, Account
<1>8. Waiting'
  <2>1. CASE c = "outbox"
    <3>1. \A p \in Requests \ {q} : row'[p] = row[p]  BY <1>1
    <3> QED  BY <1>1, <1>2, <1>3, <2>1 DEF history, Undisturbed, Moved, Ended, Account, Waiting
  <2>2. CASE c # "outbox"
    <3>1. job'["outbox"] = job["outbox"]  BY <1>2, <2>2, Apart DEF Others
    <3>2. row'[q].status = job[c].copy.status  BY <2>2, SaveEffect DEF IInv
    <3> QED  BY <1>1, <1>4, <3>1, <3>2 DEF history, Undisturbed, Account, Waiting
  <2> QED  BY <2>1, <2>2
<1>9. Balanced'
  <2>1. ~crossed => \A p \in Requests : p = q => ~Counts(p)'
    BY <1>2, <1>3 DEF Moved, Ended, Counts, Blocks, Without
  <2>2. ~Counts(q)  BY <1>1 DEF Counts, Blocks, Without
  <2>3. \A p \in Requests \ {q} : Blocks(c, p)' <=> Blocks(c, p)
    BY <1>1, <1>2 DEF Blocks
  <2>4. ~crossed => Counting' = Counting /\ \A p \in Counting : row'[p] = row[p]
    BY <1>1, <1>2, <2>1, <2>2, <2>3, CountingStays
  <2> QED  BY <1>1, <2>4, BalancedStays DEF history, Undisturbed, Account
<1>10. Finite'  BY <1>1, FiniteStays DEF Account
<1> QED  BY <1>5, <1>6, <1>7, <1>8, <1>9, <1>10 DEF Account

\* The read of the balance crosses with a write that is under way, or is up to date.
LEMMA ReadAccount ==
  ASSUME IInv, IInv', Account, NEW c \in Callers, ReadBalance(c)
  PROVE  Account'
<1>1. /\ job[c] # Null /\ job'[c].copy = job[c].copy /\ job'[c].read = balance
      /\ \/ job[c].at = "consuming" /\ Moved(c, "charging")
         \/ job[c].at = "freeing" /\ Moved(c, "releasing")
      /\ UNCHANGED <<row, balance, event, submission, broken>>
      /\ crossed' = (crossed \/ Holders # {})
  <2>1. job'[c].read = balance
    <3>1. job \in [Callers -> Job \cup {Null}]  BY DEF IInv, TypeInv, TypeOK
    <3>2. job[c] # Null /\ job[c] \in Job  BY <3>1 DEF ReadBalance
    <3> QED  BY <3>1, <3>2 DEF ReadBalance, Job
  <2> QED  BY <2>1, ReadEffect DEF ReadBalance, stores, IInv
<1>2. Others(c) /\ job'[c] # Null /\ job'[c].id = job[c].id  BY <1>1 DEF Moved
<1>3. Copies'
  <2>1. ~crossed' => Mirrors(c)'
    BY <1>1 DEF Moved, Account, Copies, Mirrors, Writing, Moving
  <2> QED  BY <1>1, <1>2, <2>1, CopiesStays DEF Account
<1>4. Submitted'  BY <1>1 DEF Account, Submitted
<1>5. Reads'
  <2>1. ~crossed' => \A d \in Callers : ~Holds(d)  BY <1>1 DEF Holders, Holds
  <2> QED  BY <1>1, <1>2, <2>1, ReadsStays DEF Account
<1>6. Waiting'  BY <1>1, <1>2, Apart DEF Moved, Others, Undisturbed, Account, Waiting
<1>7. Balanced'
  <2>1. \A p \in Requests : Blocks(c, p)' <=> Blocks(c, p)
    BY <1>1 DEF Moved, Blocks, Without
  <2>2. Counting' = Counting /\ \A p \in Counting : row'[p] = row[p]
    BY <1>1, <1>2, <2>1, CountingStays
  <2> QED  BY <1>1, <2>2, BalancedStays DEF Undisturbed, Account
<1>8. Finite'  BY <1>1, FiniteStays DEF Account
<1> QED  BY <1>3, <1>4, <1>5, <1>6, <1>7, <1>8 DEF Account

\* Any request that is in the sums can be taken out of them.
LEMMA TakenOut ==
  ASSUME TypeOK, Finite, NEW T, T \subseteq {p \in Requests : row[p] # Null}, NEW q \in T
  PROVE  /\ SumFunction([p \in T |-> row[p].days])
              = row[q].days + SumFunction([p \in T \ {q} |-> row[p].days])
         /\ SumFunction([p \in T |-> Borrowed(row[p])])
              = Borrowed(row[q]) + SumFunction([p \in T \ {q} |-> Borrowed(row[p])])
         /\ SumFunction([p \in T \ {q} |-> row[p].days]) \in Nat
         /\ SumFunction([p \in T \ {q} |-> Borrowed(row[p])]) \in Nat
<1>1. IsFiniteSet(T) /\ IsFiniteSet(T \ {q})  BY FS_Subset, FS_RemoveElement DEF Finite
<1>2. \A p \in T : row[p].days \in Nat /\ Borrowed(row[p]) \in Nat
  BY LeaveAssumption DEF TypeOK, Row, Borrowed
<1>3. ASSUME NEW f \in [T -> Nat], NEW g \in [T \ {q} -> Nat], \A p \in T \ {q} : g[p] = f[p]
      PROVE  SumFunction(f) = f[q] + SumFunction(g) /\ SumFunction(g) \in Nat
  <2>1. f \in [T -> Int] /\ g \in [T \ {q} -> Int]  BY <1>3
  <2> QED  BY <1>1, <1>3, <2>1, SumSplit, SumNat
<1>4. /\ SumFunction([p \in T |-> row[p].days])
           = row[q].days + SumFunction([p \in T \ {q} |-> row[p].days])
      /\ SumFunction([p \in T \ {q} |-> row[p].days]) \in Nat
  <2> DEFINE f == [p \in T |-> row[p].days]
             g == [p \in T \ {q} |-> row[p].days]
  <2>1. f \in [T -> Nat] /\ g \in [T \ {q} -> Nat] /\ \A p \in T \ {q} : g[p] = f[p]
    BY <1>2
  <2>2. f[q] = row[q].days  OBVIOUS
  <2> HIDE DEF f, g
  <2> QED  BY <1>3, <2>1, <2>2 DEF f, g
<1>5. /\ SumFunction([p \in T |-> Borrowed(row[p])])
           = Borrowed(row[q]) + SumFunction([p \in T \ {q} |-> Borrowed(row[p])])
      /\ SumFunction([p \in T \ {q} |-> Borrowed(row[p])]) \in Nat
  <2> DEFINE f == [p \in T |-> Borrowed(row[p])]
             g == [p \in T \ {q} |-> Borrowed(row[p])]
  <2>1. f \in [T -> Nat] /\ g \in [T \ {q} -> Nat] /\ \A p \in T \ {q} : g[p] = f[p]
    BY <1>2
  <2>2. f[q] = Borrowed(row[q])  OBVIOUS
  <2> HIDE DEF f, g
  <2> QED  BY <1>3, <2>1, <2>2 DEF f, g
<1> QED  BY <1>4, <1>5

\* A charge adds the days of a request that was not in the balance.
LEMMA ChargeAccount ==
  ASSUME IInv, IInv', Account, NEW c \in Callers, Charge(c)
  PROVE  Account'
<1> DEFINE j == job[c]
           q == job[c].id
<1>1. /\ j # Null /\ j.at = "charging" /\ q \in Requests
      /\ UNCHANGED <<row, event, submission, crossed, broken>>
      /\ balance' = [used |-> j.read.used + j.copy.days,
                     borrowed |-> j.read.borrowed + Borrowed(j.copy)]
  BY ChargeEffect DEF Charge, IInv
<1>2. \/ c = "outbox" /\ Moved(c, "committing")
      \/ c # "outbox" /\ Ended(c)
  BY ChargeEffect DEF IInv
<1>3. ~crossed => /\ row[q] = j.copy /\ Live(q) /\ row[q].status = "approved"
                  /\ j.read = balance
                  /\ \A d \in Callers : job[d] # Null /\ job[d].id = q => d = c
  BY <1>1, Own DEF Account, Copies, Mirrors, Writing, Moving, Reads, Holds, Live
<1>4. Others(c) /\ ~Holds(c)'  BY <1>2 DEF Moved, Ended, Holds
<1>5. Copies'
  <2>1. Mirrors(c)'  BY <1>2 DEF Moved, Ended, Mirrors, Writing
  <2> QED  BY <1>1, <1>4, <2>1, CopiesStays DEF Account
<1>6. Submitted'  BY <1>1 DEF Account, Submitted
<1>7. Reads'
  <2>1. Holds(c)  BY <1>1 DEF Holds
  <2> QED  BY <1>1, <1>4, <2>1, ReadsStays DEF Account
<1>8. Waiting'
  <2>1. CASE c = "outbox"  BY <1>1, <1>2, <2>1 DEF Moved, Undisturbed, Account, Waiting
  <2>2. CASE c # "outbox"
    <3>1. job'["outbox"] = job["outbox"]  BY <1>4, <2>2, Apart DEF Others
    <3> QED  BY <1>1, <3>1 DEF Undisturbed, Account, Waiting
  <2> QED  BY <2>1, <2>2
<1>9. Balanced'
  <2> SUFFICES ASSUME Undisturbed' PROVE Balanced'
    BY DEF Balanced
  <2>1. Undisturbed /\ ~crossed  BY <1>1 DEF Undisturbed
  <2>2. \A p \in Requests : Counts(p)' <=> Counts(p) \/ p = q
    <3>1. \A p \in Requests, d \in Callers : Blocks(d, p)' <=> Blocks(d, p) /\ d # c
      BY <1>1, <1>2, <1>4 DEF Moved, Ended, Others, Blocks, Without
    <3>2. \A p \in Requests : Blocks(c, p) <=> p = q  BY <1>1 DEF Blocks, Without
    <3>3. \A d \in Callers : Blocks(d, q) => d = c  BY <1>3, <2>1 DEF Blocks
    <3> QED  BY <1>1, <1>3, <2>1, <3>1, <3>2, <3>3 DEF Counts, Live
  <2>3. ~Counts(q)  BY <1>1 DEF Counts, Blocks, Without
  <2> DEFINE T == Counting'
  <2>4. T \ {q} = Counting /\ q \in T /\ T \subseteq {p \in Requests : row[p] # Null}
    BY <1>1, <2>2, <2>3 DEF Counting, Counts, Live
  <2> HIDE DEF T
  <2>5. /\ SumFunction([p \in T |-> row[p].days])
             = row[q].days + SumFunction([p \in Counting |-> row[p].days])
        /\ SumFunction([p \in T |-> Borrowed(row[p])])
             = Borrowed(row[q]) + SumFunction([p \in Counting |-> Borrowed(row[p])])
    BY <2>4, TakenOut DEF IInv, TypeInv, Account
  <2>6. /\ balance'.used = balance.used + row[q].days
        /\ balance'.borrowed = balance.borrowed + Borrowed(row[q])
    BY <1>1, <1>3, <2>1
  <2>7. /\ row[q].days \in Nat /\ Borrowed(row[q]) \in Nat
        /\ balance.used \in Nat /\ balance.borrowed \in Nat
    BY <2>4, LeaveAssumption DEF IInv, TypeInv, TypeOK, Row, Balance, Borrowed
  <2>8. row' = row  BY <1>1
  <2> QED  BY <2>1, <2>5, <2>6, <2>7, <2>8 DEF T, Account, Balanced, Borrowed
<1>10. Finite'  BY <1>1, FiniteStays DEF Account
<1> QED  BY <1>5, <1>6, <1>7, <1>8, <1>9, <1>10 DEF Account

\* A release takes out the days of a request that was in the balance.
LEMMA ReleaseAccount ==
  ASSUME IInv, IInv', Account, NEW c \in Callers, Release(c)
  PROVE  Account'
<1> DEFINE j == job[c]
           q == job[c].id
<1>1. /\ j # Null /\ j.at = "releasing" /\ q \in Requests /\ job'[c].copy = j.copy
      /\ UNCHANGED <<row, event, submission, crossed, broken>>
      /\ balance' = [used |-> NotBelow0(j.read.used - j.copy.days),
                     borrowed |-> NotBelow0(j.read.borrowed - Borrowed(j.copy))]
  BY ReleaseEffect, Own DEF Release, IInv, history
<1>2. Moved(c, "saving") \/ Moved(c, "deleting")
  BY ReleaseEffect DEF IInv
<1>3. ~crossed => /\ row[q] = j.copy /\ Live(q) /\ row[q].status = "approved"
                  /\ j.read = balance
                  /\ \A d \in Callers : job[d] # Null /\ job[d].id = q => d = c
  BY <1>1, Own DEF Account, Copies, Mirrors, Writing, Moving, Reads, Holds, Live
<1>4. Others(c) /\ ~Holds(c)' /\ job'[c].id = q  BY <1>2 DEF Moved, Holds
<1>5. Copies'
  <2>1. ~crossed' => Mirrors(c)'
    BY <1>1, <1>2, <1>3 DEF Moved, Mirrors, Writing, Moving, Live
  <2> QED  BY <1>1, <1>4, <2>1, CopiesStays DEF Account
<1>6. Submitted'  BY <1>1 DEF Account, Submitted
<1>7. Reads'
  <2>1. Holds(c)  BY <1>1 DEF Holds
  <2> QED  BY <1>1, <1>4, <2>1, ReadsStays DEF Account
<1>8. Waiting'
  <2>1. c # "outbox"  BY <1>1 DEF IInv, TypeInv, Handled
  <2>2. job'["outbox"] = job["outbox"]  BY <1>4, <2>1, Apart DEF Others
  <2> QED  BY <1>1, <2>2 DEF Undisturbed, Account, Waiting
<1>9. Balanced'
  <2> SUFFICES ASSUME Undisturbed' PROVE Balanced'
    BY DEF Balanced
  <2>1. Undisturbed /\ ~crossed  BY <1>1 DEF Undisturbed
  <2>2. \A p \in Requests : Counts(p)' <=> Counts(p) /\ p # q
    <3>1. \A p \in Requests, d \in Callers : Blocks(d, p)' <=> Blocks(d, p) \/ (d = c /\ p = q)
      BY <1>1, <1>2, <1>4 DEF Moved, Others, Blocks, Without
    <3> QED  BY <1>1, <3>1 DEF Counts, Live
  <2>3. Counts(q)
    <3>1. ~Blocks(c, q)  BY <1>1 DEF Blocks, Without
    <3> QED  BY <1>3, <2>1, <3>1 DEF Counts, Blocks
  <2>4. Counting \ {q} = Counting' /\ q \in Counting
        /\ Counting \subseteq {p \in Requests : row[p] # Null}
    BY <1>1, <2>2, <2>3 DEF Counting, Counts, Live
  <2> DEFINE T    == Counting'
             used == SumFunction([p \in T |-> row[p].days])
             lent == SumFunction([p \in T |-> Borrowed(row[p])])
  <2>5. /\ balance.used = row[q].days + used
        /\ balance.borrowed = Borrowed(row[q]) + lent
        /\ used \in Nat /\ lent \in Nat
    BY <2>1, <2>4, TakenOut DEF IInv, TypeInv, Account, Balanced
  <2>6. row[q].days \in Nat /\ Borrowed(row[q]) \in Nat
    BY <2>4, LeaveAssumption DEF IInv, TypeInv, TypeOK, Row, Borrowed
  <2>7. /\ balance'.used = NotBelow0(balance.used - row[q].days)
        /\ balance'.borrowed = NotBelow0(balance.borrowed - Borrowed(row[q]))
    BY <1>1, <1>3, <2>1
  <2>8. row' = row  BY <1>1
  <2> HIDE DEF T
  <2>9. balance'.used = used /\ balance'.borrowed = lent
    <3> HIDE DEF used, lent
    <3> QED  BY <2>5, <2>6, <2>7 DEF NotBelow0
  <2> QED  BY <2>8, <2>9 DEF T, Balanced, Borrowed
<1>10. Finite'  BY <1>1, FiniteStays DEF Account
<1> QED  BY <1>5, <1>6, <1>7, <1>8, <1>9, <1>10 DEF Account

\* A request is deleted when its days are out of the balance, or never were in it.
LEMMA SoftDeleteAccount ==
  ASSUME IInv, IInv', Account, NEW c \in Callers, SoftDelete(c)
  PROVE  Account'
<1> DEFINE q == job[c].id
<1>1. /\ job[c] # Null /\ job[c].at = "deleting" /\ q \in Requests
      /\ row[q] # Null /\ row'[q] # Null /\ row'[q].deleted /\ row'[q].status = row[q].status
      /\ \A p \in Requests \ {q} : row'[p] = row[p]
      /\ Moved(c, "cancelling")
      /\ UNCHANGED <<balance, event, submission, history>>
  BY DeleteEffect DEF SoftDelete, IInv
<1>2. Others(c) /\ ~Holds(c)' /\ Mirrors(c)'  BY <1>1 DEF Moved, Holds, Mirrors, Writing
<1>3. ~crossed => /\ submission[q] = Null
                  /\ \A d \in Callers : job[d] # Null /\ job[d].id = q => d = c
  BY <1>1, Own
<1>4. Copies'
  <2>1. ~crossed => \A d \in Callers \ {c} : job[d] # Null => row'[job[d].id] = row[job[d].id]
    BY <1>1, <1>3, Own
  <2> QED  BY <1>1, <1>2, <2>1, CopiesStays DEF history, Account
<1>5. Submitted'  BY <1>1, <1>3 DEF history, Account, Submitted
<1>6. Reads'  BY <1>1, <1>2, ReadsStays DEF history, Account
<1>7. Waiting'
  <2>1. c # "outbox"  BY <1>1 DEF IInv, TypeInv, Handled
  <2>2. job'["outbox"] = job["outbox"]  BY <1>2, <2>1, Apart DEF Others
  <2> QED  BY <1>1, <2>2 DEF history, Undisturbed, Account, Waiting
<1>8. Balanced'
  <2>1. \A p \in Requests : p = q => ~Counts(p) /\ ~Counts(p)'
    BY <1>1 DEF Counts, Live, Blocks, Without
  <2>2. \A p \in Requests \ {q} : Blocks(c, p)' <=> Blocks(c, p)
    BY <1>1 DEF Moved, Blocks
  <2>3. Counting' = Counting /\ \A p \in Counting : row'[p] = row[p]
    BY <1>1, <1>2, <2>1, <2>2, CountingStays
  <2> QED  BY <1>1, <2>3, BalancedStays DEF history, Undisturbed, Account
<1>9. Finite'  BY <1>1, FiniteStays DEF Account
<1> QED  BY <1>4, <1>5, <1>6, <1>7, <1>8, <1>9 DEF Account

\* A job ends without a trace when the request it leaves is in the balance already, or
\* was never meant to be.
LEMMA EndAccount ==
  ASSUME IInv, IInv', Account, NEW c \in Callers, job[c] # Null, Ended(c),
         UNCHANGED <<row, balance, submission, crossed>>, Undisturbed' => Undisturbed, Waiting',
         Undisturbed' /\ job[c].at \in Without => row[job[c].id].status # "approved"
  PROVE  Account'
<1>1. Others(c) /\ ~Holds(c)' /\ Mirrors(c)'  BY DEF Ended, Holds, Mirrors
<1>2. Copies'  BY <1>1, CopiesStays DEF Account
<1>3. Submitted'  BY DEF Account, Submitted
<1>4. Reads'  BY <1>1, ReadsStays DEF Account
<1>5. Balanced'
  <2> SUFFICES ASSUME Undisturbed' PROVE Balanced'
    BY DEF Balanced
  <2>1. \A p \in Requests : p # job[c].id => (Blocks(c, p)' <=> Blocks(c, p))
    BY DEF Ended, Blocks
  <2>2. \A p \in Requests : p = job[c].id =>
           (Blocks(c, p)' <=> Blocks(c, p)) \/ (~Counts(p) /\ ~Counts(p)')
    <3>1. CASE job[c].at \in Without  BY <3>1 DEF Counts
    <3>2. CASE job[c].at \notin Without  BY <3>2 DEF Ended, Blocks
    <3> QED  BY <3>1, <3>2
  <2>3. Counting' = Counting /\ \A p \in Counting : row'[p] = row[p]
    BY <1>1, <2>1, <2>2, CountingStays
  <2> QED  BY <2>3, BalancedStays DEF Account
<1>6. Finite'  BY FiniteStays DEF Account
<1> QED  BY <1>2, <1>3, <1>4, <1>5, <1>6 DEF Account

\* cancelLinkedApprovals comes after the deletion, ...
LEMMA CancelAccount ==
  ASSUME IInv, IInv', Account, NEW c \in Callers, CancelLinked(c)
  PROVE  Account'
<1>1. /\ job[c] # Null /\ job[c].at = "cancelling" /\ Ended(c)
      /\ UNCHANGED <<row, balance, event, submission, history>>
  BY EndEnds DEF CancelLinked, IInv, TypeInv
<1>2. Waiting'
  <2>1. c # "outbox"  BY <1>1 DEF IInv, TypeInv, Handled
  <2>2. job'["outbox"] = job["outbox"]  BY <1>1, <2>1, Apart DEF Ended, Others
  <2> QED  BY <1>1, <2>2 DEF history, Undisturbed, Account, Waiting
<1> QED  BY <1>1, <1>2, EndAccount DEF history, Undisturbed, Without

\* ... and the event is marked after the request was charged.
LEMMA CommitAccount ==
  ASSUME IInv, IInv', Account, Commit
  PROVE  Account'
<1> DEFINE q == job["outbox"].id
<1>1. /\ job["outbox"] # Null /\ job["outbox"].at = "committing" /\ Ended("outbox")
      /\ q \in Requests /\ event' = [event EXCEPT ![q] = "processed"]
      /\ UNCHANGED <<row, balance, submission, history>> /\ "outbox" \in Callers
  BY Apart, EndEnds, Own DEF Commit, IInv, TypeInv
<1>2. Waiting'
  <2>1. event'[q] = "processed" /\ \A p \in Requests \ {q} : event'[p] = event[p]
    BY <1>1 DEF IInv, TypeInv, TypeOK
  <2> QED  BY <1>1, <2>1 DEF history, Undisturbed, Account, Waiting
<1> QED  BY <1>1, <1>2, EndAccount DEF history, Undisturbed, Without

\* A harmless crash leaves the two tables as they would be without the job.
LEMMA CrashAccount ==
  ASSUME IInv, IInv', Account, NEW c \in Callers, Crash(c)
  PROVE  Account'
<1> DEFINE j == job[c]
           q == job[c].id
<1>1. /\ j # Null /\ Ended(c)
      /\ UNCHANGED <<row, balance, event, submission, crossed>>
      /\ broken' = (broken \/ ~Harmless(j))
  BY EndEnds DEF Crash, stores, IInv, TypeInv
<1>2. Undisturbed' => Undisturbed /\ Harmless(j)  BY <1>1 DEF Undisturbed
<1>3. Undisturbed' /\ (j.at \in Without \/ c = "outbox") => row[q].status # "approved"
  <2> SUFFICES ASSUME Undisturbed', j.at \in Without \/ c = "outbox"
               PROVE  row[q].status # "approved"
    OBVIOUS
  <2>1. Undisturbed /\ Harmless(j) /\ q \in Requests /\ row[q] # Null
    BY <1>1, <1>2, Own
  <2>2. CASE c = "outbox" /\ j.at = "saving"
    BY <1>1, <2>1, <2>2 DEF Account, Waiting, IInv, TypeInv, Handled
  <2>3. CASE c = "outbox" /\ j.at # "saving"
    <3>1. j.at = "committing" /\ j.kind = "rejected"
      BY <1>1, <2>1, <2>3 DEF Harmless, IInv, TypeInv, Handled
    <3> QED  BY <1>1, <2>1, <2>3, <3>1 DEF Undisturbed, IInv, Agreement, Given
  <2>4. CASE c # "outbox"
    <3>1. c \in Admins  BY <2>4, Apart
    <3>2. j.kind \in {"update", "delete"}  BY <1>1, <3>1 DEF IInv, TypeInv, Placed
    <3>3. j.at \in {"saving", "deleting"} /\ j.copy.status # "approved"
      BY <2>1, <2>4, <3>2 DEF Harmless, Without
    <3> QED  BY <1>1, <2>1, <3>1, <3>3 DEF Undisturbed, IInv, Agreement, Copied
  <2> QED  BY <2>2, <2>3, <2>4
<1>4. Waiting'
  <2>1. CASE c = "outbox"  BY <1>1, <1>2, <1>3, <2>1 DEF Account, Waiting
  <2>2. CASE c # "outbox"
    <3>1. job'["outbox"] = job["outbox"]  BY <1>1, <2>2, Apart DEF Ended, Others
    <3> QED  BY <1>1, <1>2, <3>1 DEF Account, Waiting
  <2> QED  BY <2>1, <2>2
<1> QED  BY <1>1, <1>2, <1>3, <1>4, EndAccount
-----------------------------------------------------------------------------
\* At first there is nothing to add up.
LEMMA AccountInit == Init => Account
<1> SUFFICES ASSUME Init PROVE Account
  OBVIOUS
<1>1. Copies /\ Submitted /\ Reads /\ Waiting
  BY DEF Init, Copies, Mirrors, Submitted, Reads, Holds, Waiting
<1>2. Counting = {}  BY DEF Init, Counting, Counts, Live
<1>3. SumFunction([q \in {} |-> row[q].days]) = 0
  BY SumOfNone
<1>4. SumFunction([q \in {} |-> Borrowed(row[q])]) = 0
  BY SumOfNone
<1>5. Balanced  BY <1>2, <1>3, <1>4 DEF Init, Balanced
<1>6. {q \in Requests : row[q] # Null} = {}  BY DEF Init
<1>7. Finite  BY <1>6, FS_EmptySet DEF Finite
<1> QED  BY <1>1, <1>5, <1>7 DEF Account

\* Every step keeps the account.
LEMMA AccountStep == IInv /\ IInv' /\ Account /\ [Next]_vars => Account'
<1> SUFFICES ASSUME IInv, IInv', Account, [Next]_vars PROVE Account'
  OBVIOUS
<1>1. ASSUME NEW q \in Requests,
             \/ \E days \in Lengths, wants \in BOOLEAN : RequestLeave(q, days, wants)
             \/ Attach(q) \/ Deliver(q)
      PROVE  Account'
  BY <1>1, RequestAccount, AttachAccount, DeliverAccount
<1>2. ASSUME NEW q \in Requests,
             StartWorkflow(q) \/ \E status \in Decisions \cup {"returned"} : Act(q, status)
      PROVE  Account'
  BY <1>2, WorkflowAccount
<1>3. ASSUME NEW q \in Requests, NEW c \in Admins,
             Delete(c, q) \/ \E days \in Lengths : Update(c, q, days)
      PROVE  Account'
  BY <1>3, ChangeAccount
<1>4. ASSUME NEW c \in Callers,
             Save(c) \/ ReadBalance(c) \/ Charge(c) \/ Release(c) \/ SoftDelete(c)
               \/ CancelLinked(c) \/ Crash(c)
      PROVE  Account'
  BY <1>4, SaveAccount, ReadAccount, ChargeAccount, ReleaseAccount, SoftDeleteAccount,
     CancelAccount, CrashAccount
<1>5. CASE Commit  BY <1>5, CommitAccount
<1>6. CASE UNCHANGED vars
  <2>1. /\ Copies' <=> Copies
        /\ Submitted' <=> Submitted
        /\ Reads' <=> Reads
        /\ Waiting' <=> Waiting
        /\ Finite' <=> Finite
    BY <1>6 DEF vars, stores, history, Copies, Mirrors, Submitted, Reads, Holds, Undisturbed,
                Waiting, Finite
  <2>2. Counting' = Counting
    BY <1>6 DEF vars, stores, history, Counting, Counts, Live, Blocks
  <2>3. Balanced'
    BY <1>6, <2>2, BalancedStays DEF vars, stores, history, Undisturbed, Account
  <2> QED  BY <2>1, <2>3 DEF Account
<1> QED  BY <1>1, <1>2, <1>3, <1>4, <1>5, <1>6 DEF Next

\* Whenever nobody is at work the balance holds the days of the approved requests, no
\* more and no less, and of those the borrowed ones; unless two jobs crossed, or a crash
\* came between the two tables.  (applyConsumption and releaseConsumption write what
\* they read plus or minus the days of one request, which updateLeaveRequest,
\* deleteLeaveRequest and onWorkflowResolved call around the save of that request.)
THEOREM BalanceKept == Spec => []BalanceMatchesRequests
<1>1. IInv /\ Account => BalanceMatchesRequests
  <2> SUFFICES ASSUME Account, ~crossed, ~broken, \A c \in Callers : job[c] = Null
               PROVE  /\ balance.used = SumFunction([q \in Approved |-> row[q].days])
                      /\ balance.borrowed = SumFunction([q \in Approved |-> Borrowed(row[q])])
    BY DEF BalanceMatchesRequests
  <2>1. Counting = Approved  BY DEF Counting, Counts, Blocks, Approved
  <2> QED  BY <2>1 DEF Account, Balanced, Undisturbed
<1>2. Init => IInv /\ Account  BY InitHolds, AccountInit
<1>3. IInv /\ Account /\ [Next]_vars => IInv' /\ Account'  BY Step, AccountStep
<1> QED  BY <1>1, <1>2, <1>3, PTL DEF Spec
=============================================================================
