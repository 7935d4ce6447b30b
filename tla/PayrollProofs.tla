---------------------------- MODULE PayrollProofs ----------------------------
(***************************************************************************)
(* Proofs about Payroll, for any sets of cycles, callers, items and        *)
(* overtime records, any amounts and any cap.                              *)
(*                                                                         *)
(* Every call looks first and writes later.  Posted and Held say what it   *)
(* saw when it began and which item it works on.  Closing, Collected,      *)
(* Linked and Built say what holds from the look to the write of the calls *)
(* of one kind, as long as no two of them overlapped; Booked, that the     *)
(* deposits deducted are those in the ledger and on the way there; and     *)
(* Slipped, that a payslip adds up until somebody changes an item and goes *)
(* on to invalidate it.                                                    *)
(***************************************************************************)
EXTENDS Payroll, SumProofs

\* The types of the tables, of the calls, and of what is counted.
CallsOK == call \in [Callers -> Call \cup {Null}]

Shape ==
    /\ cycle \in [Cycles -> Status]
    /\ item \in [Items -> Item]
    /\ ledger \in [rows : Nat, running : Nat]
    /\ ot \in [Overtimes -> [status : {"pending", "approved"}, item : Items \cup {Null}]]
    /\ CallsOK

\* A call knows its cycle, which was open if it is going to change items, who it works
\* for, and an item of that cycle if it is going to change one.
Early  == {"computing", "listing", "finding", "upserting", "seeking", "refreshing"}
Closers == {"locking", "paying"}
Blind  == {"locking", "paying", "summing", "choosing"}
Manual == Blind \cup {"adding", "editing", "deleting", "invalidating"}

Posted == \A c \in Callers : call[c] # Null =>
    /\ call[c].at # "choosing" => call[c].on \in Cycles
    /\ call[c].at \notin Blind => call[c].seen = "open"
    /\ call[c].at \in Manual => call[c].by = "manual"
    /\ call[c].at \in Early => call[c].by = "builder"

Held == \A c \in Callers : call[c] # Null =>
    /\ call[c].at \in {"editing", "deleting", "refreshing"} =>
         call[c].id \in Items /\ item[call[c].id].on = call[c].on
    /\ call[c].at = "upserting" =>
         IF call[c].id = Null
         THEN call[c].amount # 0
         ELSE /\ call[c].id \in Items /\ item[call[c].id].on = call[c].on
              /\ item[call[c].id].type = "meal_allowance"

Counted ==
    /\ payslip \in [Cycles -> Slip \cup {Null}]
    /\ calls \in 0..MaxCalls
    /\ crashes \in 0..MaxCrashes
    /\ hits \in SUBSET Irregular

TypeInv == Shape /\ Counted /\ Posted /\ Held

\* A cycle that is being locked is open, and one that is being paid is locked.
Closing == "lock" \notin hits => \A c \in Callers : call[c] # Null /\ call[c].at \in Closers =>
    /\ cycle[call[c].on] = IF call[c].at = "locking" THEN "open" ELSE "locked"
    /\ \A d \in Callers : /\ call[d] # Null
                          /\ call[d].at \in Closers
                          /\ call[c].on = call[d].on
                          => c = d

\* Whoever collects a deposit is alone, found room under the cap, and knows the balance.
Collecting == {"collecting", "booking", "entering"}

Collected == "deposit" \notin hits =>
    /\ ledger.running = ledger.rows
    /\ ledger.rows <= Cap
    /\ \A c \in Callers : call[c] # Null /\ call[c].at \in Collecting =>
         /\ ledger.rows + 1 <= Cap
         /\ call[c].at = "entering" => call[c].read = ledger.running
         /\ \A d \in Callers : call[d] # Null /\ call[d].at \in Collecting => c = d

\* A record that is not linked is not paid, and no two calls are about to link it.
Pays(i, o) == item[i].on # Null /\ item[i].ot = o /\ ~item[i].deleted

Linking == {"choosing", "linking"}

Linked == "overtime" \notin hits =>
    /\ \A o \in Overtimes, i \in Items : Pays(i, o) =>
         /\ ot[o].item # Null
         /\ \A j \in Items : Pays(j, o) => i = j
    /\ \A c \in Callers : call[c] # Null /\ call[c].at \in Linking =>
         \A o \in call[c].todo :
           /\ ot[o].item = Null
           /\ \A d \in Callers : call[d] # Null /\ call[d].at \in Linking /\ o \in call[d].todo
                                   => c = d

\* A build that is going to write an item is alone, and found none of its own or the
\* one it is going to change.
Own(i, k, type) == /\ item[i].on = k /\ item[i].type = type
                   /\ item[i].by = "builder" /\ ~item[i].deleted

Building == {"upserting", "refreshing", "capping", "collecting"}
Builds(c) == call[c] # Null /\ call[c].at \in Building /\ call[c].by = "builder"

Built == "builder" \notin hits =>
    /\ \A k \in Cycles, type \in {"meal_allowance", "deposit"}, i, j \in Items :
         Own(i, k, type) /\ Own(j, k, type) => i = j
    /\ \A c \in Callers : Builds(c) =>
         /\ call[c].at = "upserting" /\ call[c].id = Null =>
              \A i \in Items : ~Own(i, call[c].on, "meal_allowance")
         /\ \/ call[c].at = "upserting" /\ call[c].id # Null
            \/ call[c].at = "refreshing"
            => item[call[c].id].by = "builder"
         /\ call[c].at \in {"capping", "collecting"} =>
              \A i \in Items : ~Own(i, call[c].on, "deposit")
         /\ \A d \in Callers : Builds(d) /\ call[c].on = call[d].on => c = d
-----------------------------------------------------------------------------
\* What a step does to the calls ...
Others(c) == \A d \in Callers \ {c} : call'[d] = call[d]

Same(c) ==
    /\ call'[c].on = call[c].on /\ call'[c].seen = call[c].seen
    /\ call'[c].by = call[c].by /\ call'[c].id = call[c].id
    /\ call'[c].read = call[c].read

Went(c, place)  == /\ call'[c] # Null /\ call'[c].at = place /\ Same(c)
                   /\ call'[c].todo = call[c].todo /\ Others(c)
Ended(c)        == call'[c] = Null /\ Others(c)
Came(c, k, place, by) ==
    /\ call[c] = Null
    /\ call'[c].on = k /\ call'[c].at = place /\ call'[c].by = by
    /\ call'[c].seen = IF k = Null THEN "none" ELSE cycle[k]
    /\ Others(c)

\* ... and to the items.
Made(k, type, by, o) == \E n \in Items :
    /\ item[n].on = Null
    /\ item'[n].on = k /\ item'[n].type = type /\ item'[n].by = by
    /\ item'[n].ot = o /\ ~item'[n].deleted
    /\ \A i \in Items \ {n} : item'[i] = item[i]

Gained == \E n \in Items :
    /\ item[n].on = Null
    /\ item'[n].on # Null /\ item'[n].collected /\ ~item'[n].deleted
    /\ \A i \in Items \ {n} : item'[i] = item[i]

\* What is deducted as monthly deposits.
Deducts(i) == item[i].on # Null /\ item[i].collected /\ ~item[i].deleted

Changed(n, by) ==
    /\ item'[n].on = item[n].on /\ item'[n].type = item[n].type
    /\ item'[n].by = by
    /\ item'[n].ot = item[n].ot /\ item'[n].deleted = item[n].deleted
    /\ item'[n].collected = item[n].collected
    /\ \A i \in Items \ {n} : item'[i] = item[i]

Removed(n) ==
    /\ item'[n].on = item[n].on /\ item'[n].type = item[n].type
    /\ item'[n].by = item[n].by
    /\ item'[n].ot = item[n].ot /\ item'[n].deleted
    /\ item'[n].collected = item[n].collected
    /\ \A i \in Items \ {n} : item'[i] = item[i]
-----------------------------------------------------------------------------
\* What the fields of a call are.
LEMMA CallTyped ==
  ASSUME CallsOK, NEW c \in Callers, call[c] # Null
  PROVE  /\ call[c] \in Call
         /\ call[c].on \in Cycles \cup {Null} /\ call[c].at \in Places
         /\ call[c].by \in {"builder", "manual"} /\ call[c].id \in Items \cup {Null}
         /\ call[c].todo \subseteq Overtimes /\ call[c].amount \in Amounts \cup {0, 1}
         /\ call[c].read \in Nat /\ call[c].slip \in Slip
BY DEF CallsOK, Call

\* A call goes on with another field or two, ...
LEMMA SetTyped ==
  ASSUME CallsOK, NEW c \in Callers, NEW new \in Call, call' = [call EXCEPT ![c] = new]
  PROVE  CallsOK' /\ call'[c] = new /\ Others(c)
BY DEF CallsOK, Others

\* ... goes on to another place, ...
LEMMA GotoWent ==
  ASSUME CallsOK, NEW c \in Callers, call[c] # Null, NEW p \in Places, Goto(c, p)
  PROVE  CallsOK' /\ Went(c, p)
<1>1. call[c] \in Call  BY CallTyped
<1>2. [call[c] EXCEPT !.at = p] \in Call  BY <1>1 DEF Call
<1>3. call' = [call EXCEPT ![c] = [call[c] EXCEPT !.at = p]]  BY DEF Goto, CallsOK
<1>4. CallsOK' /\ call'[c] = [call[c] EXCEPT !.at = p] /\ Others(c)
  BY <1>2, <1>3, SetTyped
<1> QED  BY <1>1, <1>2, <1>4, NullAssumption DEF Went, Same, Call

\* ... ends, ...
LEMMA EndEnded ==
  ASSUME CallsOK, NEW c \in Callers, End(c)
  PROVE  CallsOK' /\ Ended(c)
BY DEF CallsOK, End, Ended, Others

\* ... or begins.
LEMMA EnterCame ==
  ASSUME CallsOK, NEW c \in Callers, NEW new \in Call, Enter(c, new)
  PROVE  CallsOK' /\ call[c] = Null /\ call'[c] = new /\ Others(c)
BY SetTyped DEF Enter

\* A fresh call is typed.
LEMMA FreshTyped ==
  ASSUME Shape, NEW k \in Cycles \cup {Null}, NEW p \in Places, NEW by \in {"builder", "manual"}
  PROVE  /\ Fresh(k, p, by) \in Call
         /\ Fresh(k, p, by).on = k /\ Fresh(k, p, by).at = p /\ Fresh(k, p, by).by = by
         /\ Fresh(k, p, by).seen = IF k = Null THEN "none" ELSE cycle[k]
BY DEF Fresh, Call, Slip, Shape, Status

\* A payslip is made of sums of amounts.
LEMMA TotalsTyped ==
  ASSUME item \in [Items -> Item], NEW k
  PROVE  Totals(k) \in Slip
<1>1. ASSUME NEW S, S \subseteq Items PROVE Total(S) \in Nat
  <2>1. \A i \in S : item[i].amount \in Nat
    <3> SUFFICES ASSUME NEW i \in S PROVE item[i].amount \in Nat
      OBVIOUS
    <3>1. item[i] \in Item  BY <1>1
    <3>2. item[i].amount \in Amounts \cup {1}  BY <3>1 DEF Item
    <3>3. \A x \in Amounts \cup {1} : x \in Nat  BY PayrollAssumption
    <3> QED  BY <3>2, <3>3
  <2>2. [i \in S |-> item[i].amount] \in [S -> Nat]  BY <2>1
  <2>3. IsFiniteSet(S)  BY <1>1, FS_Subset, PayrollAssumption
  <2> QED  BY <2>2, <2>3, SumNat DEF Total
<1>2. Live(k) \ Of(k, "deposit") \subseteq Items /\ Of(k, "deposit") \subseteq Items
  BY DEF Live, Of
<1> QED  BY <1>1, <1>2 DEF Totals, Slip

\* A call begins on a cycle.
LEMMA BeginCame ==
  ASSUME Shape, NEW k \in Cycles, NEW c \in Callers, NEW p \in Places,
         NEW by \in {"builder", "manual"}, Begin(c, k, p, by)
  PROVE  CallsOK' /\ Came(c, k, p, by)
<1>1. Fresh(k, p, by) \in Call  BY FreshTyped
<1>2. CallsOK' /\ call[c] = Null /\ call'[c] = Fresh(k, p, by) /\ Others(c)
  BY <1>1, EnterCame DEF Begin, Shape
<1> QED  BY <1>2, FreshTyped DEF Came

\* A new item.
LEMMA CreateMade ==
  ASSUME item \in [Items -> Item], NEW k \in Cycles \cup {Null}, NEW type \in Types,
         NEW by \in {"builder", "manual"}, NEW amount \in Amounts \cup {1},
         NEW o \in Overtimes \cup {Null}, NEW b \in BOOLEAN, b => type = "deposit",
         Create(k, type, by, amount, o, b)
  PROVE  item' \in [Items -> Item] /\ Made(k, type, by, o) /\ NewItem \in Items
<1> DEFINE new == [on |-> k, type |-> type, by |-> by, amount |-> amount, ot |-> o,
                   collected |-> b, deleted |-> FALSE]
<1>1. NewItem \in Items /\ item[NewItem].on = Null
  BY DEF Create, NewItem
<1>2. new \in Item  BY DEF Item
<1>3. item' = [item EXCEPT ![NewItem] = new]  BY DEF Create
<1>4. item'[NewItem] = new /\ \A i \in Items \ {NewItem} : item'[i] = item[i]  BY <1>1, <1>3
<1>5. item' \in [Items -> Item]  BY <1>1, <1>2, <1>3
<1> QED  BY <1>1, <1>4, <1>5 DEF Made

\* It is deducted as a monthly deposit if it is made as one, ...
LEMMA CreateGained ==
  ASSUME item \in [Items -> Item], NEW k \in Cycles, NEW type, NEW by, NEW amount, NEW o,
         Create(k, type, by, amount, o, TRUE)
  PROVE  Gained
<1>1. NewItem \in Items /\ item[NewItem].on = Null
  BY DEF Create, NewItem
<1>2. /\ item'[NewItem].on = k /\ item'[NewItem].collected /\ ~item'[NewItem].deleted
      /\ \A i \in Items \ {NewItem} : item'[i] = item[i]
  BY <1>1 DEF Create
<1> QED  BY <1>1, <1>2, PayrollAssumption DEF Gained

\* ... and not otherwise.
LEMMA CreateKeeps ==
  ASSUME item \in [Items -> Item], NEW k, NEW type, NEW by, NEW amount, NEW o,
         Create(k, type, by, amount, o, FALSE)
  PROVE  \A i \in Items : Deducts(i)' <=> Deducts(i)
<1>1. NewItem \in Items /\ item[NewItem].on = Null
  BY DEF Create, NewItem
<1>2. /\ ~item'[NewItem].collected
      /\ \A i \in Items \ {NewItem} : item'[i] = item[i]
  BY <1>1 DEF Create
<1> QED  BY <1>1, <1>2 DEF Deducts

\* An item with another amount, ...
LEMMA EditChanged ==
  ASSUME item \in [Items -> Item], NEW n \in Items, NEW amount \in Amounts \cup {1},
         NEW by \in {"builder", "manual"}, item' = [item EXCEPT ![n].amount = amount, ![n].by = by]
  PROVE  item' \in [Items -> Item] /\ Changed(n, by)
<1> DEFINE new == [[item[n] EXCEPT !.amount = amount] EXCEPT !.by = by]
<1>1. item[n] \in Item  OBVIOUS
<1>2. new \in Item /\ new.on = item[n].on /\ new.type = item[n].type /\ new.by = by
      /\ new.ot = item[n].ot /\ new.deleted = item[n].deleted
      /\ new.collected = item[n].collected
  BY <1>1 DEF Item
<1>3. item' = [item EXCEPT ![n] = new]  OBVIOUS
<1> HIDE DEF new
<1>4. item'[n] = new /\ \A i \in Items \ {n} : item'[i] = item[i]  BY <1>3
<1>5. item' \in [Items -> Item]  BY <1>2, <1>3
<1> QED  BY <1>2, <1>4, <1>5 DEF Changed

\* ... and one that is deleted.
LEMMA DeleteRemoved ==
  ASSUME item \in [Items -> Item], NEW n \in Items, item' = [item EXCEPT ![n].deleted = TRUE]
  PROVE  item' \in [Items -> Item] /\ Removed(n)
<1> DEFINE new == [item[n] EXCEPT !.deleted = TRUE]
<1>1. item[n] \in Item  OBVIOUS
<1>2. new \in Item /\ new.on = item[n].on /\ new.type = item[n].type /\ new.by = item[n].by
      /\ new.ot = item[n].ot /\ new.deleted /\ new.collected = item[n].collected
  BY <1>1 DEF Item
<1>3. item' = [item EXCEPT ![n] = new]  OBVIOUS
<1> HIDE DEF new
<1>4. item'[n] = new /\ \A i \in Items \ {n} : item'[i] = item[i]  BY <1>3
<1>5. item' \in [Items -> Item]  BY <1>2, <1>3
<1> QED  BY <1>2, <1>4, <1>5 DEF Removed
-----------------------------------------------------------------------------
\* What each step does, as far as the invariants see it.
LEMMA EditBegins ==
  ASSUME TypeInv, NEW c \in Callers, NEW k \in Cycles, NEW i \in Items,
         NEW place \in {"editing", "deleting"}, BeginEdit(c, k, i, place)
  PROVE  /\ CallsOK' /\ Came(c, k, place, "manual") /\ call'[c].id = i
         /\ cycle[k] = "open" /\ item[i].on = k
<1> DEFINE old == Fresh(k, place, "manual")
           new == [old EXCEPT !.id = i]
<1>1. old \in Call /\ old.on = k /\ old.at = place /\ old.by = "manual"
      /\ old.seen = IF k = Null THEN "none" ELSE cycle[k]
  BY FreshTyped DEF TypeInv, Places
<1> HIDE DEF old
<1>2. new \in Call /\ new.on = k /\ new.at = place /\ new.by = "manual" /\ new.id = i
      /\ new.seen = old.seen
  BY <1>1 DEF Call
<1>3. Enter(c, new)  BY DEF BeginEdit, old
<1> HIDE DEF new
<1>4. CallsOK' /\ call[c] = Null /\ call'[c] = new /\ Others(c)
  BY <1>2, <1>3, EnterCame DEF TypeInv, Shape
<1> QED  BY <1>1, <1>2, <1>4 DEF Came, BeginEdit, Live

\* generatePayslip begins with the sums of the items there are.
LEMMA PayslipBegins ==
  ASSUME TypeInv, NEW c \in Callers, NEW k \in Cycles, BeginPayslip(c, k)
  PROVE  CallsOK' /\ Came(c, k, "summing", "manual") /\ call'[c].slip = Totals(k)
<1> DEFINE old == Fresh(k, "summing", "manual")
           new == [old EXCEPT !.slip = Totals(k)]
<1>1. old \in Call /\ old.on = k /\ old.at = "summing" /\ old.by = "manual"
      /\ old.seen = IF k = Null THEN "none" ELSE cycle[k]
  BY FreshTyped DEF TypeInv, Places
<1> HIDE DEF old
<1>2. new \in Call /\ new.on = k /\ new.at = "summing" /\ new.by = "manual"
      /\ new.seen = old.seen /\ new.slip = Totals(k)
  BY <1>1, TotalsTyped DEF Call, TypeInv, Shape
<1>3. Enter(c, new)  BY DEF BeginPayslip, old
<1> HIDE DEF new
<1>4. CallsOK' /\ call[c] = Null /\ call'[c] = new /\ Others(c)
  BY <1>2, <1>3, EnterCame DEF TypeInv, Shape
<1> QED  BY <1>1, <1>2, <1>4 DEF Came

\* linkApprovedOvertime of one record has that record on its list.
LEMMA LinkBegins ==
  ASSUME TypeInv, NEW c \in Callers, NEW o \in Overtimes, BeginLink(c, o)
  PROVE  /\ CallsOK' /\ Came(c, Null, "choosing", "manual") /\ call'[c].todo = {o}
         /\ ot[o].item = Null
<1> DEFINE old == Fresh(Null, "choosing", "manual")
           new == [old EXCEPT !.todo = {o}]
<1>1. old \in Call /\ old.on = Null /\ old.at = "choosing" /\ old.by = "manual"
      /\ old.seen = "none"
  BY FreshTyped DEF TypeInv, Places
<1> HIDE DEF old
<1>2. new \in Call /\ new.on = Null /\ new.at = "choosing" /\ new.by = "manual"
      /\ new.seen = old.seen /\ new.todo = {o}
  BY <1>1 DEF Call
<1>3. Enter(c, new) /\ ot[o].item = Null  BY DEF BeginLink, old
<1> HIDE DEF new
<1>4. CallsOK' /\ call[c] = Null /\ call'[c] = new /\ Others(c)
  BY <1>2, <1>3, EnterCame DEF TypeInv, Shape
<1> QED  BY <1>1, <1>2, <1>3, <1>4 DEF Came

\* lockCycle and markPaid write the next status.
LEMMA SaveEffect ==
  ASSUME TypeInv, NEW c \in Callers, SaveCycle(c)
  PROVE  /\ call[c] # Null /\ call[c].at \in Closers /\ call[c].on \in Cycles
         /\ CallsOK' /\ Ended(c)
         /\ cycle' \in [Cycles -> Status]
         /\ cycle'[call[c].on] = IF call[c].at = "locking" THEN "locked" ELSE "paid"
         /\ \A k \in Cycles \ {call[c].on} : cycle'[k] = cycle[k]
<1>1. call[c] # Null /\ call[c].at \in Closers /\ call[c].on \in Cycles
  BY DEF SaveCycle, Closers, TypeInv, Posted
<1>2. CallsOK' /\ Ended(c)  BY EndEnded DEF SaveCycle, TypeInv, Shape
<1> QED  BY <1>1, <1>2 DEF SaveCycle, TypeInv, Shape, Status

\* deleteItem marks the item and goes on to the payslip.
LEMMA DeleteEffect ==
  ASSUME TypeInv, NEW c \in Callers, DeleteItem(c)
  PROVE  /\ call[c] # Null /\ call[c].at = "deleting" /\ call[c].id \in Items
         /\ CallsOK' /\ Went(c, "invalidating")
         /\ item' \in [Items -> Item] /\ Removed(call[c].id)
<1>1. call[c] # Null /\ call[c].at = "deleting" /\ call[c].id \in Items
  BY DEF DeleteItem, At, TypeInv, Held
<1>2. CallsOK' /\ Went(c, "invalidating")
  BY <1>1, GotoWent DEF DeleteItem, TypeInv, Shape, Places
<1>3. item' \in [Items -> Item] /\ Removed(call[c].id)
  BY <1>1, DeleteRemoved DEF DeleteItem, TypeInv, Shape
<1> QED  BY <1>1, <1>2, <1>3

\* updateItem makes the item one that was entered by hand.
LEMMA UpdateEffect ==
  ASSUME TypeInv, NEW c \in Callers, NEW amount \in Amounts, UpdateItem(c, amount)
  PROVE  /\ call[c] # Null /\ call[c].at = "editing" /\ call[c].id \in Items
         /\ CallsOK' /\ Went(c, "invalidating")
         /\ item' \in [Items -> Item] /\ Changed(call[c].id, "manual")
<1>1. call[c] # Null /\ call[c].at = "editing" /\ call[c].id \in Items
  BY DEF UpdateItem, At, TypeInv, Held
<1>2. CallsOK' /\ Went(c, "invalidating")
  BY <1>1, GotoWent DEF UpdateItem, TypeInv, Shape, Places
<1>3. amount \in Amounts \cup {1}  OBVIOUS
<1>4. item' \in [Items -> Item] /\ Changed(call[c].id, "manual")
  BY <1>1, <1>3, EditChanged DEF UpdateItem, TypeInv, Shape
<1> QED  BY <1>1, <1>2, <1>4

\* addItem makes an item by hand.
LEMMA AddEffect ==
  ASSUME TypeInv, NEW c \in Callers, NEW type \in Entered,
         NEW amount \in Amounts,
         AddItem(c, type, amount)
  PROVE  /\ call[c] # Null /\ call[c].at = "adding" /\ call[c].on \in Cycles
         /\ CallsOK' /\ Went(c, "invalidating")
         /\ item' \in [Items -> Item] /\ Made(call[c].on, type, "manual", Null)
         /\ \A i \in Items : Deducts(i)' <=> Deducts(i)
<1>1. call[c] # Null /\ call[c].at = "adding" /\ call[c].on \in Cycles
  BY DEF AddItem, At, TypeInv, Posted
<1>2. CallsOK' /\ Went(c, "invalidating")
  BY <1>1, GotoWent DEF AddItem, TypeInv, Shape, Places
<1>3. amount \in Amounts \cup {1} /\ type \in Types  BY PayrollAssumption DEF Types
<1>4. /\ item' \in [Items -> Item] /\ Made(call[c].on, type, "manual", Null)
      /\ \A i \in Items : Deducts(i)' <=> Deducts(i)
  BY <1>1, <1>3, CreateMade, CreateKeeps DEF AddItem, TypeInv, Shape
<1> QED  BY <1>1, <1>2, <1>4

\* The cap is checked, and the call goes on or ends.
LEMMA CapEffect ==
  ASSUME TypeInv, NEW c \in Callers, CheckCap(c)
  PROVE  /\ call[c] # Null /\ call[c].at = "capping" /\ CallsOK'
         /\ \/ ledger.running + 1 <= Cap /\ Went(c, "collecting")
            \/ Ended(c)
BY GotoWent, EndEnded DEF CheckCap, At, TypeInv, Shape, Places

\* The deposit item is made before the ledger is read.
LEMMA DepositEffect ==
  ASSUME TypeInv, NEW c \in Callers, CreateDeposit(c)
  PROVE  /\ call[c] # Null /\ call[c].at = "collecting" /\ call[c].on \in Cycles
         /\ CallsOK' /\ Went(c, "booking")
         /\ item' \in [Items -> Item] /\ Made(call[c].on, "deposit", call[c].by, Null)
         /\ Gained
<1>1. call[c] # Null /\ call[c].at = "collecting" /\ call[c].on \in Cycles
  BY DEF CreateDeposit, At, TypeInv, Posted, Blind
<1>2. CallsOK' /\ Went(c, "booking")
  BY <1>1, GotoWent DEF CreateDeposit, TypeInv, Shape, Places
<1>3. call[c].by \in {"builder", "manual"}  BY <1>1, CallTyped DEF TypeInv, Shape
<1>4. item' \in [Items -> Item] /\ Made(call[c].on, "deposit", call[c].by, Null) /\ Gained
  BY <1>1, <1>3, CreateMade, CreateGained DEF CreateDeposit, TypeInv, Shape, Types
<1> QED  BY <1>1, <1>2, <1>4

\* The running balance is kept in the call.
LEMMA ReadEffect ==
  ASSUME TypeInv, NEW c \in Callers, ReadRunning(c)
  PROVE  /\ call[c] # Null /\ call[c].at = "booking" /\ CallsOK' /\ Others(c)
         /\ call'[c] # Null /\ call'[c].at = "entering" /\ call'[c].read = ledger.running
         /\ call'[c].on = call[c].on /\ call'[c].seen = call[c].seen /\ call'[c].by = call[c].by
<1> DEFINE new == [[call[c] EXCEPT !.read = ledger.running] EXCEPT !.at = "entering"]
<1>1. CallsOK  BY DEF TypeInv, Shape
<1>2. call[c] # Null /\ call[c].at = "booking" /\ call[c] \in Call /\ ledger.running \in Nat
  BY <1>1 DEF ReadRunning, At, TypeInv, Shape, CallsOK
<1>3. new \in Call /\ new.at = "entering" /\ new.read = ledger.running
      /\ new.on = call[c].on /\ new.seen = call[c].seen /\ new.by = call[c].by
  BY <1>2 DEF Call, Places
<1>4. call' = [call EXCEPT ![c] = new]  BY <1>1 DEF ReadRunning, CallsOK
<1> HIDE DEF new
<1> QED  BY <1>1, <1>2, <1>3, <1>4, SetTyped, NullAssumption

\* The ledger row follows what was read.
LEMMA EnterEffect ==
  ASSUME TypeInv, NEW c \in Callers, EnterDeposit(c)
  PROVE  /\ call[c] # Null /\ call[c].at = "entering" /\ CallsOK' /\ Ended(c)
         /\ ledger' \in [rows : Nat, running : Nat]
         /\ ledger'.rows = ledger.rows + 1 /\ ledger'.running = call[c].read + 1
<1>1. call[c] # Null /\ call[c].at = "entering" /\ call[c].read \in Nat
  BY CallTyped DEF EnterDeposit, At, TypeInv, Shape
<1>2. CallsOK' /\ Ended(c)  BY EndEnded DEF EnterDeposit, TypeInv, Shape
<1> QED  BY <1>1, <1>2 DEF EnterDeposit, TypeInv, Shape

\* The cycle, what it saw and who it works for.
Alike(c) == call'[c].on = call[c].on /\ call'[c].seen = call[c].seen /\ call'[c].by = call[c].by

\* A build computes what it will look for, and an amount for it.
LEMMA ComputeEffect ==
  ASSUME TypeInv, NEW c \in Callers, NEW amount \in Amounts \cup {0}, NEW due \in BOOLEAN,
         Compute(c, amount, due)
  PROVE  /\ call[c] # Null /\ call[c].at = "computing" /\ CallsOK'
         /\ Alike(c) /\ call'[c].at = "listing" /\ Others(c)
<1> DEFINE new == [[[[call[c] EXCEPT !.amount = amount] EXCEPT !.due = due] EXCEPT !.id = Null]
                    EXCEPT !.at = "listing"]
<1>1. CallsOK  BY DEF TypeInv, Shape
<1>2. call[c] # Null /\ call[c].at = "computing" /\ call[c] \in Call
  BY <1>1 DEF Compute, At, CallsOK
<1>3. new \in Call /\ new.at = "listing" /\ new.on = call[c].on /\ new.seen = call[c].seen
      /\ new.by = call[c].by
  BY <1>2 DEF Call, Places
<1>4. call' = [call EXCEPT ![c] = new]  BY <1>1 DEF Compute, CallsOK
<1> HIDE DEF new
<1>5. CallsOK' /\ call'[c] = new /\ Others(c)  BY <1>1, <1>3, <1>4, SetTyped
<1> QED  BY <1>2, <1>3, <1>5, NullAssumption DEF Alike

\* An item that was scheduled is made, and the call notes it.
LEMMA ApplyEffect ==
  ASSUME TypeInv, NEW c \in Callers, NEW type \in Scheduled, ApplyScheduled(c, type)
  PROVE  /\ call[c] # Null /\ call[c].at = "computing" /\ call[c].on \in Cycles /\ CallsOK'
         /\ Alike(c) /\ call'[c].at = "computing" /\ Others(c) /\ call'[c] # call[c]
         /\ item' \in [Items -> Item] /\ Made(call[c].on, type, "manual", Null)
         /\ \A i \in Items : Deducts(i)' <=> Deducts(i)
<1> DEFINE new == [call[c] EXCEPT !.id = NewItem]
<1>1. CallsOK  BY DEF TypeInv, Shape
<1>2. /\ call[c] # Null /\ call[c].at = "computing" /\ call[c] \in Call /\ call[c].id = Null
      /\ call[c].on \in Cycles
  BY <1>1 DEF ApplyScheduled, At, CallsOK, TypeInv, Posted
<1>3. type \in Types /\ 1 \in Amounts \cup {1}  BY PayrollAssumption DEF Types
<1>4. /\ item' \in [Items -> Item] /\ Made(call[c].on, type, "manual", Null)
      /\ NewItem \in Items
      /\ \A i \in Items : Deducts(i)' <=> Deducts(i)
  BY <1>2, <1>3, CreateMade, CreateKeeps DEF ApplyScheduled, TypeInv, Shape
<1>5. new \in Call /\ new.at = "computing" /\ new.on = call[c].on /\ new.seen = call[c].seen
      /\ new.by = call[c].by /\ new.id # call[c].id
  BY <1>2, <1>4, PayrollAssumption DEF Call
<1>6. call' = [call EXCEPT ![c] = new]  BY <1>1 DEF ApplyScheduled, CallsOK
<1> HIDE DEF new
<1>7. CallsOK' /\ call'[c] = new /\ Others(c)  BY <1>1, <1>5, <1>6, SetTyped
<1> QED  BY <1>2, <1>4, <1>5, <1>7, NullAssumption DEF Alike

\* A build lists the records that are not linked.
LEMMA ListEffect ==
  ASSUME TypeInv, NEW c \in Callers, ListOvertime(c)
  PROVE  /\ call[c] # Null /\ call[c].at = "listing" /\ CallsOK' /\ Others(c) /\ Alike(c)
         /\ call'[c].at \in {"finding", "linking"} /\ call'[c].todo = Unlinked
<1> DEFINE at == IF Unlinked = {} THEN "finding" ELSE "linking"
           new == [[call[c] EXCEPT !.todo = Unlinked] EXCEPT !.at = at]
<1>1. CallsOK  BY DEF TypeInv, Shape
<1>2. call[c] # Null /\ call[c].at = "listing" /\ call[c] \in Call /\ Unlinked \subseteq Overtimes
  BY <1>1 DEF ListOvertime, At, CallsOK, Unlinked
<1>3. at \in {"finding", "linking"}  OBVIOUS
<1> HIDE DEF at
<1>4. new \in Call /\ new.at = at /\ new.on = call[c].on /\ new.seen = call[c].seen
      /\ new.by = call[c].by /\ new.todo = Unlinked
  BY <1>2, <1>3 DEF Call, Places
<1>5. call' = [call EXCEPT ![c] = new]  BY <1>1 DEF ListOvertime, CallsOK, at
<1> HIDE DEF new
<1>6. CallsOK' /\ call'[c] = new /\ Others(c)  BY <1>1, <1>4, <1>5, SetTyped
<1> QED  BY <1>2, <1>3, <1>4, <1>6 DEF Alike

\* A link without a cycle looks for an open one.
LEMMA ChooseEffect ==
  ASSUME TypeInv, NEW c \in Callers, ChooseCycle(c)
  PROVE  /\ call[c] # Null /\ call[c].at = "choosing" /\ CallsOK' /\ Others(c)
         /\ ot' \in [Overtimes -> [status : {"pending", "approved"}, item : Items \cup {Null}]]
         /\ \A o \in Overtimes : ot'[o].item = ot[o].item
         /\ \/ Ended(c)
            \/ /\ call'[c].on \in Cycles /\ call'[c].seen = "open" /\ call'[c].at = "linking"
               /\ call'[c].by = call[c].by /\ call'[c].todo = call[c].todo
<1>1. CallsOK  BY DEF TypeInv, Shape
<1>2. call[c] # Null /\ call[c].at = "choosing" /\ call[c] \in Call
  BY <1>1 DEF ChooseCycle, At, CallsOK
<1>3. CASE OpenCycles = {}
  <2>1. CallsOK' /\ Ended(c)  BY <1>3, EndEnded DEF ChooseCycle, TypeInv, Shape
  <2>2. ot' = [o \in Overtimes |-> IF o \in call[c].todo THEN [ot[o] EXCEPT !.status = "approved"]
                                                         ELSE ot[o]]
    BY <1>3 DEF ChooseCycle
  <2>3. \A o \in Overtimes : /\ [ot[o] EXCEPT !.status = "approved"]
                                  \in [status : {"pending", "approved"}, item : Items \cup {Null}]
                             /\ [ot[o] EXCEPT !.status = "approved"].item = ot[o].item
    BY DEF TypeInv, Shape
  <2>4. /\ ot' \in [Overtimes -> [status : {"pending", "approved"}, item : Items \cup {Null}]]
        /\ \A o \in Overtimes : ot'[o].item = ot[o].item
    BY <2>2, <2>3 DEF TypeInv, Shape
  <2> QED  BY <1>2, <2>1, <2>4 DEF Ended
<1>4. CASE OpenCycles # {}
  <2>1. PICK k \in OpenCycles :
          call' = [call EXCEPT ![c].on = k, ![c].seen = cycle[k], ![c].at = "linking"]
    BY <1>4 DEF ChooseCycle
  <2> DEFINE new == [[[call[c] EXCEPT !.on = k] EXCEPT !.seen = cycle[k]] EXCEPT !.at = "linking"]
  <2>2. k \in Cycles /\ cycle[k] = "open"  BY DEF OpenCycles
  <2>3. new \in Call /\ new.at = "linking" /\ new.on = k /\ new.seen = "open"
        /\ new.by = call[c].by /\ new.todo = call[c].todo
    BY <1>2, <2>2 DEF Call, Places, Status
  <2>4. call' = [call EXCEPT ![c] = new]  BY <1>1, <2>1 DEF CallsOK
  <2> HIDE DEF new
  <2>5. CallsOK' /\ call'[c] = new /\ Others(c)  BY <1>1, <2>3, <2>4, SetTyped
  <2>6. ot' = ot  BY <1>4 DEF ChooseCycle
  <2> QED  BY <1>2, <2>2, <2>3, <2>5, <2>6 DEF TypeInv, Shape
<1> QED  BY <1>3, <1>4

\* A record gets its item, and the call goes on to the next record, or on, or ends.
LEMMA LinkEffect ==
  ASSUME TypeInv, NEW c \in Callers, NEW o \in Overtimes, Link(c, o)
  PROVE  /\ call[c] # Null /\ call[c].at = "linking" /\ call[c].on \in Cycles /\ o \in call[c].todo
         /\ CallsOK' /\ Others(c)
         /\ item' \in [Items -> Item] /\ Made(call[c].on, "ot", call[c].by, o)
         /\ \A i \in Items : Deducts(i)' <=> Deducts(i)
         /\ ot' \in [Overtimes -> [status : {"pending", "approved"}, item : Items \cup {Null}]]
         /\ ot'[o].item # Null
         /\ \A p \in Overtimes \ {o} : ot'[p] = ot[p]
         /\ \/ Ended(c)
            \/ /\ Alike(c) /\ call'[c].at \in {"linking", "finding"}
               /\ call'[c].todo = call[c].todo \ {o}
               /\ call'[c].at = "finding" => call[c].by = "builder"
<1>1. CallsOK  BY DEF TypeInv, Shape
<1>2. call[c] # Null /\ call[c].at = "linking" /\ call[c] \in Call /\ o \in call[c].todo
      /\ call[c].on \in Cycles /\ call[c].by \in {"builder", "manual"}
  BY <1>1, CallTyped DEF Link, At, CallsOK, TypeInv, Posted, Shape
<1>3. /\ item' \in [Items -> Item] /\ Made(call[c].on, "ot", call[c].by, o) /\ NewItem \in Items
      /\ \A i \in Items : Deducts(i)' <=> Deducts(i)
  BY <1>2, CreateMade, CreateKeeps DEF Link, TypeInv, Shape, Types
<1>4. ot' = [ot EXCEPT ![o] = [status |-> "approved", item |-> NewItem]]  BY DEF Link
<1>5. /\ ot' \in [Overtimes -> [status : {"pending", "approved"}, item : Items \cup {Null}]]
      /\ ot'[o].item # Null
      /\ \A p \in Overtimes \ {o} : ot'[p] = ot[p]
  BY <1>3, <1>4, PayrollAssumption DEF TypeInv, Shape
<1>6. CallsOK' /\ Others(c) /\ (\/ Ended(c)
            \/ /\ Alike(c) /\ call'[c].at \in {"linking", "finding"}
               /\ call'[c].todo = call[c].todo \ {o}
               /\ call'[c].at = "finding" => call[c].by = "builder")
  <2>1. CASE call[c].todo # {o}
    <3> DEFINE new == [call[c] EXCEPT !.todo = call[c].todo \ {o}]
    <3>1. new \in Call /\ new.at = "linking" /\ new.on = call[c].on /\ new.seen = call[c].seen
          /\ new.by = call[c].by /\ new.todo = call[c].todo \ {o}
      BY <1>2 DEF Call
    <3>2. call' = [call EXCEPT ![c] = new]  BY <1>1, <2>1 DEF Link, CallsOK
    <3> HIDE DEF new
    <3>3. CallsOK' /\ call'[c] = new /\ Others(c)  BY <1>1, <3>1, <3>2, SetTyped
    <3> QED  BY <3>1, <3>3 DEF Alike
  <2>2. CASE call[c].todo = {o} /\ call[c].by = "builder"
    <3> DEFINE new == [[call[c] EXCEPT !.todo = {}] EXCEPT !.at = "finding"]
    <3>1. new \in Call /\ new.at = "finding" /\ new.on = call[c].on /\ new.seen = call[c].seen
          /\ new.by = call[c].by /\ new.todo = {}
      BY <1>2 DEF Call, Places
    <3>2. call' = [call EXCEPT ![c] = new]  BY <1>1, <2>2 DEF Link, CallsOK
    <3> HIDE DEF new
    <3>3. CallsOK' /\ call'[c] = new /\ Others(c)  BY <1>1, <3>1, <3>2, SetTyped
    <3> QED  BY <2>2, <3>1, <3>3 DEF Alike
  <2>3. CASE call[c].todo = {o} /\ call[c].by # "builder"
    <3>1. End(c)  BY <2>3 DEF Link
    <3> QED  BY <3>1, EndEnded DEF TypeInv, Shape, Ended
  <2> QED  BY <2>1, <2>2, <2>3
<1> QED  BY <1>2, <1>3, <1>5, <1>6

\* A build looks for the meal allowance it made before.
LEMMA FindEffect ==
  ASSUME TypeInv, NEW c \in Callers, Find(c)
  PROVE  /\ call[c] # Null /\ call[c].at = "finding" /\ CallsOK' /\ Others(c) /\ Alike(c)
         /\ call'[c].at \in {"upserting", "seeking"}
         /\ call'[c].at = "upserting" =>
              \/ /\ call'[c].id = Null /\ call'[c].amount # 0
                 /\ \A i \in Items : ~Own(i, call[c].on, "meal_allowance")
              \/ /\ call'[c].id \in Items /\ item[call'[c].id].on = call[c].on
                 /\ item[call'[c].id].by = "builder"
                 /\ item[call'[c].id].type = "meal_allowance"
<1>1. CallsOK  BY DEF TypeInv, Shape
<1>2. call[c] # Null /\ call[c].at = "finding" /\ call[c] \in Call
  BY <1>1 DEF Find, At, CallsOK
<1>3. ASSUME NEW i \in Items \cup {Null}, NEW at \in {"upserting", "seeking"},
             call' = [call EXCEPT ![c].id = i, ![c].at = at]
      PROVE  CallsOK' /\ Others(c) /\ Alike(c) /\ call'[c].at = at /\ call'[c].id = i
             /\ call'[c].amount = call[c].amount
  <2> DEFINE new == [[call[c] EXCEPT !.id = i] EXCEPT !.at = at]
  <2>1. new \in Call /\ new.at = at /\ new.on = call[c].on /\ new.seen = call[c].seen
        /\ new.by = call[c].by /\ new.id = i /\ new.amount = call[c].amount
    BY <1>2 DEF Call, Places
  <2>2. call' = [call EXCEPT ![c] = new]  BY <1>1, <1>3 DEF CallsOK
  <2> HIDE DEF new
  <2>3. CallsOK' /\ call'[c] = new /\ Others(c)  BY <1>1, <2>1, <2>2, SetTyped
  <2> QED  BY <2>1, <2>3 DEF Alike
<1>4. CASE Of(call[c].on, "meal_allowance") = {}
  <2> DEFINE at == IF call[c].amount > 0 THEN "upserting" ELSE "seeking"
  <2>1. call' = [call EXCEPT ![c].id = Null, ![c].at = at]  BY <1>4 DEF Find
  <2>2. at \in {"upserting", "seeking"} /\ (at = "upserting" => call[c].amount # 0)  OBVIOUS
  <2> HIDE DEF at
  <2>3. CallsOK' /\ Others(c) /\ Alike(c) /\ call'[c].at = at /\ call'[c].id = Null
        /\ call'[c].amount = call[c].amount
    BY <1>3, <2>1, <2>2
  <2>4. \A i \in Items : ~Own(i, call[c].on, "meal_allowance")  BY <1>4 DEF Of, Live, Own
  <2> QED  BY <1>2, <2>2, <2>3, <2>4
<1>5. CASE Of(call[c].on, "meal_allowance") # {}
  <2>1. PICK i \in Of(call[c].on, "meal_allowance") :
          call' = [call EXCEPT ![c].id = i,
                     ![c].at = IF item[i].by = "builder" THEN "upserting" ELSE "seeking"]
    BY <1>5 DEF Find
  <2> DEFINE at == IF item[i].by = "builder" THEN "upserting" ELSE "seeking"
  <2>2. at \in {"upserting", "seeking"} /\ (at = "upserting" => item[i].by = "builder")  OBVIOUS
  <2>3. i \in Items /\ item[i].on = call[c].on /\ item[i].type = "meal_allowance"  BY DEF Of, Live
  <2>4. call' = [call EXCEPT ![c].id = i, ![c].at = at]  BY <2>1
  <2> HIDE DEF at
  <2>5. CallsOK' /\ Others(c) /\ Alike(c) /\ call'[c].at = at /\ call'[c].id = i
    BY <1>3, <2>2, <2>3, <2>4
  <2> QED  BY <1>2, <2>2, <2>3, <2>5
<1> QED  BY <1>4, <1>5

\* A build makes the meal allowance, or changes or removes the one it found.
LEMMA UpsertEffect ==
  ASSUME TypeInv, NEW c \in Callers, Upsert(c)
  PROVE  /\ call[c] # Null /\ call[c].at = "upserting" /\ call[c].on \in Cycles
         /\ CallsOK' /\ Went(c, "seeking") /\ item' \in [Items -> Item]
         /\ \/ /\ call[c].id = Null /\ Made(call[c].on, "meal_allowance", "builder", Null)
               /\ \A i \in Items : Deducts(i)' <=> Deducts(i)
            \/ /\ call[c].id # Null /\ call[c].id \in Items
               /\ item[call[c].id].type = "meal_allowance"
               /\ Removed(call[c].id) \/ Changed(call[c].id, "builder")
<1>1. call[c] # Null /\ call[c].at = "upserting" /\ call[c].on \in Cycles
      /\ (call[c].id # Null => call[c].id \in Items /\ item[call[c].id].type = "meal_allowance")
      /\ (call[c].id = Null => call[c].amount # 0) /\ call[c].amount \in Amounts \cup {0, 1}
  BY CallTyped DEF Upsert, At, TypeInv, Posted, Held, Blind, Shape
<1>2. CallsOK' /\ Went(c, "seeking")
  BY <1>1, GotoWent DEF Upsert, TypeInv, Shape, Places
<1>3. CASE call[c].id = Null
  <2>1. Create(call[c].on, "meal_allowance", "builder", call[c].amount, Null, FALSE)
    BY <1>3 DEF Upsert
  <2>2. /\ item' \in [Items -> Item] /\ Made(call[c].on, "meal_allowance", "builder", Null)
        /\ \A i \in Items : Deducts(i)' <=> Deducts(i)
    BY <1>1, <1>3, <2>1, CreateMade, CreateKeeps DEF TypeInv, Shape, Types
  <2> QED  BY <1>1, <1>2, <1>3, <2>2
<1>4. CASE call[c].id # Null /\ call[c].amount = 0
  <2>1. item' = [item EXCEPT ![call[c].id].deleted = TRUE]  BY <1>4 DEF Upsert
  <2>2. item' \in [Items -> Item] /\ Removed(call[c].id)
    BY <1>1, <1>4, <2>1, DeleteRemoved DEF TypeInv, Shape
  <2> QED  BY <1>1, <1>2, <1>4, <2>2
<1>5. CASE call[c].id # Null /\ call[c].amount # 0
  <2>1. item' = [item EXCEPT ![call[c].id].amount = call[c].amount, ![call[c].id].by = "builder"]
    BY <1>5 DEF Upsert
  <2>2. item' \in [Items -> Item] /\ Changed(call[c].id, "builder")
    BY <1>1, <1>5, <2>1, EditChanged DEF TypeInv, Shape
  <2> QED  BY <1>1, <1>2, <1>5, <2>2
<1> QED  BY <1>3, <1>4, <1>5

\* A build looks for the deposit it made before.
LEMMA SeekEffect ==
  ASSUME TypeInv, NEW c \in Callers, Seek(c)
  PROVE  /\ call[c] # Null /\ call[c].at = "seeking" /\ CallsOK' /\ Others(c)
         /\ \/ Ended(c)
            \/ Went(c, "capping") /\ \A i \in Items : ~Own(i, call[c].on, "deposit")
            \/ /\ Alike(c) /\ call'[c].at = "refreshing"
               /\ call'[c].id \in Items /\ item[call'[c].id].on = call[c].on
               /\ item[call'[c].id].by = "builder"
<1>1. CallsOK  BY DEF TypeInv, Shape
<1>2. call[c] # Null /\ call[c].at = "seeking" /\ call[c] \in Call
  BY <1>1 DEF Seek, At, CallsOK
<1>3. CASE End(c)
  BY <1>2, <1>3, EndEnded DEF TypeInv, Shape, Ended
<1>4. CASE Of(call[c].on, "deposit") = {} /\ Goto(c, "capping")
  <2>1. CallsOK' /\ Went(c, "capping")  BY <1>2, <1>4, GotoWent DEF TypeInv, Shape, Places
  <2>2. \A i \in Items : ~Own(i, call[c].on, "deposit")  BY <1>4 DEF Of, Live, Own
  <2> QED  BY <1>2, <2>1, <2>2 DEF Went
<1>5. CASE \E i \in Of(call[c].on, "deposit") :
             /\ item[i].by = "builder"
             /\ call' = [call EXCEPT ![c].id = i, ![c].at = "refreshing"]
  <2>1. PICK i \in Of(call[c].on, "deposit") :
             /\ item[i].by = "builder"
             /\ call' = [call EXCEPT ![c].id = i, ![c].at = "refreshing"]
    BY <1>5
  <2> DEFINE new == [[call[c] EXCEPT !.id = i] EXCEPT !.at = "refreshing"]
  <2>2. i \in Items /\ item[i].on = call[c].on  BY DEF Of, Live
  <2>3. new \in Call /\ new.at = "refreshing" /\ new.on = call[c].on /\ new.seen = call[c].seen
        /\ new.by = call[c].by /\ new.id = i
    BY <1>2, <2>2 DEF Call, Places
  <2>4. call' = [call EXCEPT ![c] = new]  BY <1>1, <2>1 DEF CallsOK
  <2> HIDE DEF new
  <2>5. CallsOK' /\ call'[c] = new /\ Others(c)  BY <1>1, <2>3, <2>4, SetTyped
  <2> QED  BY <1>2, <2>1, <2>2, <2>3, <2>5 DEF Alike
<1> QED  BY <1>3, <1>4, <1>5 DEF Seek

\* A build changes the deposit it found.
LEMMA RefreshEffect ==
  ASSUME TypeInv, NEW c \in Callers, Refresh(c)
  PROVE  /\ call[c] # Null /\ call[c].at = "refreshing" /\ call[c].id \in Items
         /\ CallsOK' /\ Ended(c)
         /\ item' \in [Items -> Item] /\ Changed(call[c].id, "builder")
<1>1. call[c] # Null /\ call[c].at = "refreshing" /\ call[c].id \in Items
  BY DEF Refresh, At, TypeInv, Held
<1>2. CallsOK' /\ Ended(c)  BY EndEnded DEF Refresh, TypeInv, Shape
<1>3. item' \in [Items -> Item] /\ Changed(call[c].id, "builder")
  BY <1>1, EditChanged DEF Refresh, TypeInv, Shape
<1> QED  BY <1>1, <1>2, <1>3

\* The rejection of a bonus removes its item.
LEMMA ResolveEffect ==
  ASSUME TypeInv, NEW k \in Cycles, NEW i \in Items, ResolveBonus(k, i)
  PROVE  item' \in [Items -> Item] /\ Removed(i)
BY DeleteRemoved DEF ResolveBonus, TypeInv, Shape

\* A call by hand ends when it has invalidated the payslip.
LEMMA InvalidateEffect ==
  ASSUME TypeInv, NEW c \in Callers, InvalidatePayslip(c)
  PROVE  call[c] # Null /\ call[c].at = "invalidating" /\ CallsOK' /\ Ended(c)
BY EndEnded DEF InvalidatePayslip, At, TypeInv, Shape

\* The payslip is written at the end.
LEMMA WriteEffect ==
  ASSUME TypeInv, NEW c \in Callers, WritePayslip(c)
  PROVE  call[c] # Null /\ call[c].at = "summing" /\ CallsOK' /\ Ended(c)
BY EndEnded DEF WritePayslip, At, TypeInv, Shape

\* A crash ends the call.
LEMMA CrashEffect ==
  ASSUME TypeInv, NEW c \in Callers, Crash(c)
  PROVE  call[c] # Null /\ CallsOK' /\ Ended(c)
BY EndEnded DEF Crash, TypeInv, Shape

\* What each step leaves alone, and what it tells of the other calls unless it is
\* counted: lockCycle and markPaid that nobody else locks or pays the cycle, ...
LEMMA LockRest ==
  ASSUME TypeInv, NEW c \in Callers, NEW k \in Cycles, BeginLock(c, k)
  PROVE  /\ CallsOK' /\ Came(c, k, "locking", "manual")
         /\ UNCHANGED <<cycle, item, ledger, ot>> /\ hits \subseteq hits'
         /\ cycle[k] = "open"
         /\ "lock" \notin hits' =>
              \A d \in Callers : call[d] # Null /\ call[d].on = k => call[d].at \notin Closers
BY BeginCame DEF BeginLock, tables, Note, On, Closers, TypeInv, Places

\* ... markPaid the same, ...
LEMMA PayRest ==
  ASSUME TypeInv, NEW c \in Callers, NEW k \in Cycles, BeginPay(c, k)
  PROVE  /\ CallsOK' /\ Came(c, k, "paying", "manual")
         /\ UNCHANGED <<cycle, item, ledger, ot>> /\ hits \subseteq hits'
         /\ cycle[k] = "locked"
         /\ "lock" \notin hits' =>
              \A d \in Callers : call[d] # Null /\ call[d].on = k => call[d].at \notin Closers
BY BeginCame DEF BeginPay, tables, Note, On, Closers, TypeInv, Places

\* ... addItem nothing, ...
LEMMA BeginAddRest ==
  ASSUME TypeInv, NEW c \in Callers, NEW k \in Cycles, BeginAdd(c, k)
  PROVE  /\ CallsOK' /\ Came(c, k, "adding", "manual")
         /\ UNCHANGED <<cycle, item, ledger, ot, hits>>
         /\ cycle[k] = "open"
BY BeginCame DEF BeginAdd, tables, TypeInv, Places

\* ... nor a deposit, ...
LEMMA BeginDepositRest ==
  ASSUME TypeInv, NEW c \in Callers, NEW k \in Cycles, BeginDeposit(c, k)
  PROVE  /\ CallsOK' /\ Came(c, k, "capping", "manual")
         /\ UNCHANGED <<cycle, item, ledger, ot, hits>>
         /\ cycle[k] = "open"
BY BeginCame DEF BeginDeposit, tables, TypeInv, Places

\* ... nor a build, ...
LEMMA BeginBuildRest ==
  ASSUME TypeInv, NEW c \in Callers, NEW k \in Cycles, BeginBuild(c, k)
  PROVE  /\ CallsOK' /\ Came(c, k, "computing", "builder")
         /\ UNCHANGED <<cycle, item, ledger, ot, hits>>
         /\ cycle[k] = "open"
BY BeginCame DEF BeginBuild, tables, TypeInv, Places

\* ... nor a payslip, ...
LEMMA BeginPayslipRest ==
  ASSUME NEW c \in Callers, NEW k \in Cycles, BeginPayslip(c, k)
  PROVE  /\ UNCHANGED <<cycle, item, ledger, ot>> /\ hits \subseteq hits'
BY DEF BeginPayslip, tables, Note

\* ... nor an edit, ...
LEMMA BeginEditRest ==
  ASSUME NEW c \in Callers, NEW k \in Cycles, NEW i \in Items, NEW place, BeginEdit(c, k, i, place)
  PROVE  /\ UNCHANGED <<cycle, item, ledger, ot, hits>>
BY DEF BeginEdit, tables

\* ... a link that nobody else is about to link the record, ...
LEMMA BeginLinkRest ==
  ASSUME NEW c \in Callers, NEW o \in Overtimes, BeginLink(c, o)
  PROVE  /\ UNCHANGED <<cycle, item, ledger, ot>> /\ hits \subseteq hits'
         /\ "overtime" \notin hits' =>
              \A d \in Callers \ {c} :
                call[d] # Null /\ call[d].at \in Linking => o \notin call[d].todo
BY DEF BeginLink, tables, Note, Taken, In, Linking

\* ... the write of the status nothing, ...
LEMMA SaveRest ==
  ASSUME NEW c \in Callers, SaveCycle(c)
  PROVE  /\ UNCHANGED <<item, ledger, ot, hits>>
BY DEF SaveCycle

\* ... deleteItem nothing, ...
LEMMA DeleteRest ==
  ASSUME NEW c \in Callers, DeleteItem(c)
  PROVE  /\ UNCHANGED <<cycle, ledger, ot>> /\ hits \subseteq hits'
BY DEF DeleteItem

\* ... updateItem that no build is at the cycle, ...
LEMMA UpdateRest ==
  ASSUME NEW c \in Callers, NEW amount, UpdateItem(c, amount)
  PROVE  /\ UNCHANGED <<cycle, ledger, ot>> /\ hits \subseteq hits'
         /\ "builder" \notin hits' => \A d \in Callers : ~(Builds(d) /\ call[d].on = call[c].on)
BY DEF UpdateItem, Builders, On, Builds, Building

\* ... addItem nothing, ...
LEMMA AddRest ==
  ASSUME NEW c \in Callers, NEW type, NEW amount, AddItem(c, type, amount)
  PROVE  /\ UNCHANGED <<cycle, ledger, ot>> /\ hits \subseteq hits'
BY DEF AddItem, Note

\* ... nor an item that was scheduled, ...
LEMMA ApplyRest ==
  ASSUME NEW c \in Callers, NEW type, ApplyScheduled(c, type)
  PROVE  /\ UNCHANGED <<cycle, ledger, ot>> /\ hits \subseteq hits'
BY DEF ApplyScheduled, Note

\* ... nor the invalidation of a payslip, ...
LEMMA InvalidateRest ==
  ASSUME NEW c \in Callers, InvalidatePayslip(c)
  PROVE  /\ UNCHANGED <<cycle, item, ledger, ot, hits>>
BY DEF InvalidatePayslip

\* ... nor its write, ...
LEMMA WriteRest ==
  ASSUME NEW c \in Callers, WritePayslip(c)
  PROVE  /\ UNCHANGED <<cycle, item, ledger, ot, hits>>
BY DEF WritePayslip

\* ... the check of the cap that nobody else collects a deposit, ...
LEMMA CapRest ==
  ASSUME NEW c \in Callers, CheckCap(c)
  PROVE  /\ UNCHANGED <<cycle, item, ledger, ot>> /\ hits \subseteq hits'
         /\ "deposit" \notin hits' =>
              \A d \in Callers : call[d] # Null => call[d].at \notin Collecting
BY DEF CheckCap, tables, Note, In, Collecting

\* ... the deposit item nothing, ...
LEMMA DepositRest ==
  ASSUME NEW c \in Callers, CreateDeposit(c)
  PROVE  /\ UNCHANGED <<cycle, ledger, ot>> /\ hits \subseteq hits'
BY DEF CreateDeposit, Note

\* ... nor the read of the ledger, ...
LEMMA ReadRest ==
  ASSUME NEW c \in Callers, ReadRunning(c)
  PROVE  /\ UNCHANGED <<cycle, item, ledger, ot, hits>>
BY DEF ReadRunning, tables

\* ... nor its new row, ...
LEMMA EnterRest ==
  ASSUME NEW c \in Callers, EnterDeposit(c)
  PROVE  /\ UNCHANGED <<cycle, item, ot, hits>>
BY DEF EnterDeposit

\* ... a build that nobody else is about to link the records it lists, ...
LEMMA ListRest ==
  ASSUME NEW c \in Callers, ListOvertime(c)
  PROVE  /\ UNCHANGED <<cycle, item, ledger, ot>> /\ hits \subseteq hits'
         /\ "overtime" \notin hits' =>
              \A d \in Callers \ {c} : call[d] # Null /\ call[d].at \in Linking =>
                \A o \in call[d].todo : o \notin Unlinked
BY DEF ListOvertime, tables, Note, Taken, In, Linking

\* ... and that no other build is at the cycle when it looks for an item, ...
LEMMA FindRest ==
  ASSUME NEW c \in Callers, Find(c)
  PROVE  /\ UNCHANGED <<cycle, item, ledger, ot>> /\ hits \subseteq hits'
         /\ "builder" \notin hits' => \A d \in Callers \ {c} : Builds(d) => call[d].on # call[c].on
BY DEF Find, tables, Note, Builders, On, Builds, Building

\* ... for the meal allowance or the deposit.
LEMMA SeekRest ==
  ASSUME NEW c \in Callers, Seek(c)
  PROVE  /\ UNCHANGED <<cycle, item, ledger, ot>> /\ hits \subseteq hits'
         /\ "builder" \notin hits' => \A d \in Callers \ {c} : Builds(d) => call[d].on # call[c].on
BY DEF Seek, tables, Note, Builders, On, Builds, Building

\* The writes of a build, ...
LEMMA UpsertRest ==
  ASSUME NEW c \in Callers, Upsert(c)
  PROVE  /\ UNCHANGED <<cycle, ledger, ot>> /\ hits \subseteq hits'
BY DEF Upsert, Note

\* ... of the deposit too, ...
LEMMA RefreshRest ==
  ASSUME NEW c \in Callers, Refresh(c)
  PROVE  /\ UNCHANGED <<cycle, ledger, ot>> /\ hits \subseteq hits'
BY DEF Refresh, Note

\* ... the choice of a cycle, ...
LEMMA ChooseRest ==
  ASSUME NEW c \in Callers, ChooseCycle(c)
  PROVE  /\ UNCHANGED <<cycle, item, ledger, hits>>
BY DEF ChooseCycle

\* ... a crash, ...
LEMMA CrashRest ==
  ASSUME NEW c \in Callers, Crash(c)
  PROVE  /\ UNCHANGED <<cycle, item, ledger, ot>> /\ hits \subseteq hits'
BY DEF Crash, tables

\* ... the computation, ...
LEMMA ComputeRest ==
  ASSUME NEW c \in Callers, NEW amount, NEW due, Compute(c, amount, due)
  PROVE  /\ UNCHANGED <<cycle, item, ledger, ot, hits>>
BY DEF Compute, tables

\* ... and a link tell nothing.
LEMMA LinkRest ==
  ASSUME NEW c \in Callers, NEW o, Link(c, o)
  PROVE  /\ UNCHANGED <<cycle, ledger>> /\ hits \subseteq hits'
BY DEF Link, Note
-----------------------------------------------------------------------------
\* What does not disturb an invariant.
LEMMA HeldStays ==
  ASSUME TypeInv, NEW c \in Callers, Others(c),
         \A i \in Items : item[i].on # Null =>
           item'[i].on = item[i].on /\ item'[i].type = item[i].type,
         call'[c] # Null =>
           /\ call'[c].at \in {"editing", "deleting", "refreshing"} =>
                call'[c].id \in Items /\ item'[call'[c].id].on = call'[c].on
           /\ call'[c].at = "upserting" =>
                IF call'[c].id = Null
                THEN call'[c].amount # 0
                ELSE /\ call'[c].id \in Items /\ item'[call'[c].id].on = call'[c].on
                     /\ item'[call'[c].id].type = "meal_allowance"
  PROVE  Held'
<1>1. \A d \in Callers \ {c} : call[d] # Null /\ call[d].at # "choosing" => call[d].on # Null
  BY PayrollAssumption DEF TypeInv, Posted
<1> QED  BY <1>1 DEF TypeInv, Held, Others

\* Closing, by a step that locks and pays nothing; ...
LEMMA ClosingStays ==
  ASSUME Closing, NEW c \in Callers, Others(c), UNCHANGED cycle, hits \subseteq hits',
         call'[c] # Null => call'[c].at \notin Closers
  PROVE  Closing'
BY DEF Closing, Others

\* ... Collected, by one that collects nothing; ...
LEMMA CollectedStays ==
  ASSUME Collected, NEW c \in Callers, Others(c), UNCHANGED ledger, hits \subseteq hits',
         call'[c] # Null => call'[c].at \notin Collecting
  PROVE  Collected'
BY DEF Collected, Others

\* ... Linked, by one that links nothing and pays no more; ...
LEMMA LinkedStays ==
  ASSUME Linked, NEW c \in Callers, Others(c), hits \subseteq hits',
         \A o \in Overtimes : ot'[o].item = ot[o].item,
         \A i \in Items, o \in Overtimes : Pays(i, o)' => Pays(i, o),
         call'[c] # Null /\ call'[c].at \in Linking =>
           call[c] # Null /\ call[c].at \in Linking /\ call'[c].todo \subseteq call[c].todo,
         CallsOK'
  PROVE  Linked'
<1>1. \A d \in Callers : call'[d] # Null => call'[d].todo \subseteq Overtimes
  BY DEF CallsOK, Call
<1>2. \A d \in Callers : call'[d] # Null /\ call'[d].at \in Linking =>
        call[d] # Null /\ call[d].at \in Linking /\ call'[d].todo \subseteq call[d].todo
  BY DEF Others
<1> QED  BY <1>1, <1>2 DEF Linked

\* ... and Built, by one that builds nothing and makes no item look built.
LEMMA BuiltStays ==
  ASSUME TypeInv, Built, NEW c \in Callers, Others(c), hits \subseteq hits', ~Builds(c)',
         \A i \in Items, k \in Cycles, type \in {"meal_allowance", "deposit"} :
           Own(i, k, type)' => Own(i, k, type),
         \A i \in Items : item[i].on # Null => item'[i].by \in {item[i].by, "builder"}
  PROVE  Built'
<1>1. \A d \in Callers : Builds(d)' =>
        d # c /\ call'[d] = call[d] /\ Builds(d) /\ call[d].on \in Cycles
  BY DEF Others, Builds, Building, TypeInv, Posted
<1>2. \A d \in Callers : Builds(d) /\ (\/ call[d].at = "upserting" /\ call[d].id # Null
                                       \/ call[d].at = "refreshing")
        => call[d].id \in Items /\ item[call[d].id].on # Null
  BY PayrollAssumption DEF Builds, Building, TypeInv, Posted, Held
<1> QED  BY <1>1, <1>2 DEF Built

\* What the changes of an item leave.
LEMMA MadeLeaves ==
  ASSUME item' \in [Items -> Item], NEW k \in Cycles, NEW type, NEW by, NEW o, Made(k, type, by, o)
  PROVE  /\ \A i \in Items : item[i].on # Null => item'[i] = item[i]
         /\ o = Null => \A i \in Items, p \in Overtimes : Pays(i, p)' => Pays(i, p)
         /\ type \notin {"meal_allowance", "deposit"} \/ by = "manual" =>
              \A i \in Items, j \in Cycles, t \in {"meal_allowance", "deposit"} :
                Own(i, j, t)' => Own(i, j, t)
BY PayrollAssumption DEF Made, Pays, Own

\* A change of the amount leaves the cycle and the type, ...
LEMMA ChangedLeaves ==
  ASSUME NEW n \in Items, NEW by, Changed(n, by)
  PROVE  /\ \A i \in Items : item'[i].on = item[i].on /\ item'[i].type = item[i].type
         /\ \A i \in Items, p \in Overtimes : Pays(i, p)' => Pays(i, p)
         /\ by # "builder" \/ item[n].by = by =>
              \A i \in Items, j \in Cycles, t \in {"meal_allowance", "deposit"} :
                Own(i, j, t)' => Own(i, j, t)
BY DEF Changed, Pays, Own

\* ... and a removal all but the mark.
LEMMA RemovedLeaves ==
  ASSUME NEW n \in Items, Removed(n)
  PROVE  /\ \A i \in Items : /\ item'[i].on = item[i].on /\ item'[i].type = item[i].type
                             /\ item'[i].by = item[i].by
         /\ \A i \in Items, p \in Overtimes : Pays(i, p)' => Pays(i, p)
         /\ \A i \in Items, j \in Cycles, t \in {"meal_allowance", "deposit"} :
              Own(i, j, t)' => Own(i, j, t)
BY DEF Removed, Pays, Own

\* The one build that is about to write an item of a type, and found none, makes it.
LEMMA BuiltMade ==
  ASSUME TypeInv, Built, NEW c \in Callers, Builds(c), Others(c), ~Builds(c)', hits \subseteq hits',
         NEW type \in {"meal_allowance", "deposit"}, Made(call[c].on, type, "builder", Null),
         "builder" \notin hits => \A i \in Items : ~Own(i, call[c].on, type)
  PROVE  Built'
<1> SUFFICES ASSUME "builder" \notin hits' PROVE Built'
  BY DEF Built
<1>1. "builder" \notin hits  OBVIOUS
<1>2. PICK n \in Items :
        /\ item[n].on = Null
        /\ item'[n].on = call[c].on /\ item'[n].type = type /\ item'[n].by = "builder"
        /\ \A i \in Items \ {n} : item'[i] = item[i]
  BY DEF Made
<1>3. \A i \in Items, k \in Cycles, t \in {"meal_allowance", "deposit"} : Own(i, k, t)' =>
        \/ i = n /\ k = call[c].on /\ t = type
        \/ i # n /\ Own(i, k, t)
  BY <1>2 DEF Own
<1>4. \A i, j \in Items, k \in Cycles, t \in {"meal_allowance", "deposit"} :
        Own(i, k, t)' /\ Own(j, k, t)' => i = j
  BY <1>1, <1>3 DEF Built
<1>5. \A d \in Callers : Builds(d)' =>
        d # c /\ call'[d] = call[d] /\ Builds(d) /\ call[d].on \in Cycles /\ call[d].on # call[c].on
  BY <1>1 DEF Others, Builds, Building, TypeInv, Posted, Blind, Built
<1>6. \A d \in Callers : Builds(d) /\ (\/ call[d].at = "upserting" /\ call[d].id # Null
                                       \/ call[d].at = "refreshing")
        => call[d].id \in Items /\ item[call[d].id].on \in Cycles
  BY DEF Builds, Building, TypeInv, Posted, Blind, Held
<1>7. \A d \in Callers, i \in Items, t \in {"meal_allowance", "deposit"} :
        Builds(d)' /\ Own(i, call[d].on, t)' => Own(i, call[d].on, t)
  BY <1>3, <1>5
<1>8. \A d \in Callers : Builds(d)' /\ (\/ call[d].at = "upserting" /\ call[d].id # Null
                                        \/ call[d].at = "refreshing")
        => item'[call[d].id].by = item[call[d].id].by
  BY <1>2, <1>5, <1>6, PayrollAssumption
<1> QED  BY <1>1, <1>4, <1>5, <1>7, <1>8 DEF Built

\* The deposit of a build is made so, ...
LEMMA DepositBuilt ==
  ASSUME TypeInv, Built, NEW c \in Callers, CreateDeposit(c) PROVE Built'
<1>1. /\ call[c] # Null /\ call[c].at = "collecting" /\ call[c].on \in Cycles
      /\ Went(c, "booking") /\ Made(call[c].on, "deposit", call[c].by, Null)
      /\ item' \in [Items -> Item] /\ hits \subseteq hits'
      /\ call[c].by \in {"builder", "manual"}
  BY DepositEffect, DepositRest, CallTyped DEF TypeInv, Shape
<1>2. Others(c) /\ ~Builds(c)'  BY <1>1 DEF Went, Builds, Building
<1>3. CASE call[c].by = "builder"
  <2>1. Builds(c)  BY <1>1, <1>3 DEF Builds, Building
  <2>2. "builder" \notin hits => \A i \in Items : ~Own(i, call[c].on, "deposit")
    BY <1>1, <2>1 DEF Built
  <2> QED  BY <1>1, <1>2, <1>3, <2>1, <2>2, BuiltMade
<1>4. CASE call[c].by = "manual"
  BY <1>1, <1>2, <1>4, MadeLeaves, BuiltStays
<1> QED  BY <1>1, <1>3, <1>4

\* ... and so is its meal allowance, ...
LEMMA UpsertBuilt ==
  ASSUME TypeInv, Built, NEW c \in Callers, Upsert(c) PROVE Built'
<1>1. /\ call[c] # Null /\ call[c].at = "upserting" /\ call[c].on \in Cycles
      /\ Went(c, "seeking") /\ item' \in [Items -> Item] /\ hits \subseteq hits'
      /\ \/ call[c].id = Null /\ Made(call[c].on, "meal_allowance", "builder", Null)
         \/ /\ call[c].id # Null /\ call[c].id \in Items
            /\ Removed(call[c].id) \/ Changed(call[c].id, "builder")
  BY UpsertEffect, UpsertRest
<1>2. Others(c) /\ ~Builds(c)'  BY <1>1 DEF Went, Builds, Building
<1>3. Builds(c)  BY <1>1 DEF TypeInv, Posted, Early, Builds, Building
<1>4. CASE call[c].id = Null /\ Made(call[c].on, "meal_allowance", "builder", Null)
  <2>1. "builder" \notin hits => \A i \in Items : ~Own(i, call[c].on, "meal_allowance")
    BY <1>1, <1>3, <1>4 DEF Built
  <2> QED  BY <1>1, <1>2, <1>3, <1>4, <2>1, BuiltMade
<1>5. CASE call[c].id \in Items /\ Removed(call[c].id)
  BY <1>1, <1>2, <1>5, RemovedLeaves, BuiltStays
<1>6. CASE call[c].id # Null /\ call[c].id \in Items /\ Changed(call[c].id, "builder")
  <2>1. CASE "builder" \in hits  BY <1>1, <2>1 DEF Built
  <2>2. CASE "builder" \notin hits
    <3>1. item[call[c].id].by = "builder"  BY <1>1, <1>3, <1>6, <2>2 DEF Built
    <3>2. \A i \in Items : item'[i].by \in {item[i].by, "builder"}  BY <1>6 DEF Changed
    <3> QED  BY <1>1, <1>2, <1>6, <3>1, <3>2, ChangedLeaves, BuiltStays
  <2> QED  BY <2>1, <2>2
<1> QED  BY <1>1, <1>4, <1>5, <1>6

\* ... or the item it found is changed and stays its own.
LEMMA RefreshBuilt ==
  ASSUME TypeInv, Built, NEW c \in Callers, Refresh(c) PROVE Built'
<1>1. /\ call[c] # Null /\ call[c].at = "refreshing" /\ call[c].id \in Items
      /\ Ended(c) /\ Changed(call[c].id, "builder") /\ hits \subseteq hits'
  BY RefreshEffect, RefreshRest
<1>2. Others(c) /\ ~Builds(c)'  BY <1>1 DEF Ended, Builds
<1>3. CASE "builder" \in hits  BY <1>1, <1>3 DEF Built
<1>4. CASE "builder" \notin hits
  <2>1. Builds(c)  BY <1>1 DEF TypeInv, Posted, Early, Builds, Building
  <2>2. item[call[c].id].by = "builder"  BY <1>1, <1>4, <2>1 DEF Built
  <2>3. \A i \in Items : item'[i].by \in {item[i].by, "builder"}  BY <1>1 DEF Changed
  <2> QED  BY <1>1, <1>2, <2>2, <2>3, ChangedLeaves, BuiltStays
<1> QED  BY <1>3, <1>4

\* An item that is edited by hand is no longer one of a build.
LEMMA UpdateBuilt ==
  ASSUME TypeInv, Built, NEW c \in Callers, NEW amount \in Amounts, UpdateItem(c, amount)
  PROVE  Built'
<1> SUFFICES ASSUME "builder" \notin hits' PROVE Built'
  BY DEF Built
<1>1. /\ call[c] # Null /\ call[c].at = "editing" /\ call[c].id \in Items
      /\ Went(c, "invalidating") /\ Changed(call[c].id, "manual") /\ hits \subseteq hits'
      /\ \A d \in Callers : ~(Builds(d) /\ call[d].on = call[c].on)
  BY UpdateEffect, UpdateRest
<1>2. "builder" \notin hits /\ item[call[c].id].on = call[c].on  BY <1>1 DEF TypeInv, Held
<1>3. \A d \in Callers : Builds(d)' =>
        d # c /\ call'[d] = call[d] /\ Builds(d) /\ call[d].on \in Cycles
  BY <1>1 DEF Went, Others, Builds, Building, TypeInv, Posted, Blind
<1>4. \A d \in Callers : Builds(d) /\ (\/ call[d].at = "upserting" /\ call[d].id # Null
                                       \/ call[d].at = "refreshing")
        => call[d].id \in Items /\ item'[call[d].id].by = item[call[d].id].by
  <2>1. \A d \in Callers : Builds(d) /\ (\/ call[d].at = "upserting" /\ call[d].id # Null
                                         \/ call[d].at = "refreshing")
          => call[d].id \in Items /\ item[call[d].id].on = call[d].on
    BY DEF Builds, Building, TypeInv, Held
  <2>2. \A i \in Items \ {call[c].id} : item'[i] = item[i]  BY <1>1 DEF Changed
  <2> QED  BY <1>1, <1>2, <2>1, <2>2
<1>5. \A i \in Items, k \in Cycles, t \in {"meal_allowance", "deposit"} :
        Own(i, k, t)' => Own(i, k, t)
  BY <1>1, ChangedLeaves
<1> QED  BY <1>2, <1>3, <1>4, <1>5 DEF Built

\* What a build finds is its own, or there is none.
LEMMA FindBuilt ==
  ASSUME TypeInv, Built, NEW c \in Callers, Find(c) PROVE Built'
<1> SUFFICES ASSUME "builder" \notin hits' PROVE Built'
  BY DEF Built
<1>1. /\ call[c] # Null /\ call[c].at = "finding" /\ Others(c) /\ Alike(c)
      /\ call'[c].at \in {"upserting", "seeking"}
      /\ call'[c].at = "upserting" =>
           \/ call'[c].id = Null /\ \A i \in Items : ~Own(i, call[c].on, "meal_allowance")
           \/ call'[c].id \in Items /\ item[call'[c].id].by = "builder"
      /\ UNCHANGED item /\ hits \subseteq hits'
      /\ \A d \in Callers \ {c} : Builds(d) => call[d].on # call[c].on
  BY FindEffect, FindRest
<1>2. "builder" \notin hits  BY <1>1
<1>3. \A d \in Callers \ {c} : call'[d] = call[d] /\ (Builds(d)' <=> Builds(d))
  BY <1>1 DEF Others, Builds
<1>4. \A i, k, t : Own(i, k, t)' <=> Own(i, k, t)  BY <1>1 DEF Own
<1>5. \A d, e \in Callers : Builds(d)' /\ Builds(e)' /\ call'[d].on = call'[e].on => d = e
  BY <1>1, <1>2, <1>3 DEF Built, Alike
<1>6. Builds(c)' =>
        /\ call'[c].at = "upserting" /\ call'[c].id = Null =>
             \A i \in Items : ~Own(i, call'[c].on, "meal_allowance")
        /\ \/ call'[c].at = "upserting" /\ call'[c].id # Null
           \/ call'[c].at = "refreshing"
           => item[call'[c].id].by = "builder"
        /\ call'[c].at \notin {"capping", "collecting"}
  BY <1>1, PayrollAssumption DEF Alike
<1> QED  BY <1>1, <1>2, <1>3, <1>4, <1>5, <1>6 DEF Built

\* A record is linked by the only call that was about to.
LEMMA LinkLinked ==
  ASSUME TypeInv, TypeInv', Linked, NEW c \in Callers, NEW o \in Overtimes, Link(c, o) PROVE Linked'
<1> SUFFICES ASSUME "overtime" \notin hits' PROVE Linked'
  BY DEF Linked
<1>1. /\ call[c] # Null /\ call[c].at = "linking" /\ o \in call[c].todo /\ Others(c)
      /\ Made(call[c].on, "ot", call[c].by, o)
      /\ ot'[o].item # Null /\ \A p \in Overtimes \ {o} : ot'[p] = ot[p]
      /\ \/ Ended(c)
         \/ call'[c].todo = call[c].todo \ {o}
      /\ hits \subseteq hits'
  BY LinkEffect, LinkRest
<1>2. "overtime" \notin hits  BY <1>1
<1>3. PICK n \in Items : /\ item[n].on = Null
                         /\ item'[n].ot = o
                         /\ \A i \in Items \ {n} : item'[i] = item[i]
  BY <1>1 DEF Made
<1>4. \A i \in Items : ~Pays(i, o)  BY <1>1, <1>2 DEF Linked, Linking
<1>5. \A i \in Items, p \in Overtimes : Pays(i, p)' =>
        (i = n /\ p = o) \/ (p # o /\ i # n /\ Pays(i, p))
  BY <1>3, <1>4 DEF Pays
<1>6. \A i \in Items, p \in Overtimes : Pays(i, p)' =>
        ot'[p].item # Null /\ \A j \in Items : Pays(j, p)' => i = j
  BY <1>1, <1>2, <1>5 DEF Linked
<1>7. \A d \in Callers : call'[d] # Null /\ call'[d].at \in Linking =>
        /\ call[d] # Null /\ call[d].at \in Linking
        /\ call'[d].todo \subseteq call[d].todo \ {o}
  BY <1>1, <1>2 DEF Ended, Others, Linked, Linking
<1>8. \A d \in Callers : call[d] # Null => call[d].todo \subseteq Overtimes
  BY CallTyped DEF TypeInv, Shape
<1> QED  BY <1>1, <1>2, <1>6, <1>7, <1>8 DEF Linked
-----------------------------------------------------------------------------
\* What is deducted changes only with a monthly deposit that is made or removed.
LEMMA CollectedTyped ==
  ASSUME item \in [Items -> Item], NEW i \in Items
  PROVE  item[i].collected => item[i].type = "deposit"
BY DEF Item

Deducted   == {i \in Items : Deducts(i)}
Entering   == {"booking", "entering"}

Booked == "uncollected" \notin hits =>
    Cardinality(Deducted) = ledger.rows + Cardinality(In(Entering))

\* Booked, by a step that makes and enters no deposit.
LEMMA BookedStays ==
  ASSUME Booked, NEW c \in Callers, Others(c), UNCHANGED ledger, hits \subseteq hits',
         \A i \in Items : Deducts(i)' <=> Deducts(i),
         (call'[c] # Null /\ call'[c].at \in Entering)
           <=> (call[c] # Null /\ call[c].at \in Entering)
  PROVE  Booked'
<1>1. Deducted' = Deducted  BY DEF Deducted
<1>2. In(Entering)' = In(Entering)  BY DEF In, Others
<1> QED  BY <1>1, <1>2 DEF Booked

\* A change of the amount is no deduction, ...
LEMMA ChangedDeducts ==
  ASSUME NEW n \in Items, NEW by, Changed(n, by)
  PROVE  \A i \in Items : Deducts(i)' <=> Deducts(i)
BY DEF Changed, Deducts

\* ... and neither is the removal of an item that was not collected.
LEMMA RemovedDeducts ==
  ASSUME NEW n \in Items, Removed(n), ~item[n].collected
  PROVE  \A i \in Items : Deducts(i)' <=> Deducts(i)
BY DEF Removed, Deducts

\* The sets that are counted are finite.
LEMMA Finite ==
  /\ IsFiniteSet(Deducted) /\ Cardinality(Deducted) \in Nat
  /\ \A S : IsFiniteSet(In(S)) /\ Cardinality(In(S)) \in Nat
<1>1. Deducted \subseteq Items /\ \A S : In(S) \subseteq Callers  BY DEF Deducted, In
<1> QED  BY <1>1, FS_Subset, FS_CardinalityType, PayrollAssumption

\* A deposit is made by a call that is going to enter it in the ledger, ...
LEMMA DepositBooked ==
  ASSUME TypeInv, Booked, NEW c \in Callers, CreateDeposit(c) PROVE Booked'
<1> SUFFICES ASSUME "uncollected" \notin hits
             PROVE  Cardinality(Deducted') = ledger'.rows + Cardinality(In(Entering)')
  BY DepositRest DEF Booked
<1>1. /\ call[c] # Null /\ call[c].at = "collecting" /\ call[c].on \in Cycles
      /\ Went(c, "booking") /\ Gained /\ UNCHANGED ledger /\ CallsOK'
  BY DepositEffect, DepositRest
<1>2. PICK n \in Items :
        /\ item[n].on = Null
        /\ item'[n].on # Null /\ item'[n].collected /\ ~item'[n].deleted
        /\ \A i \in Items \ {n} : item'[i] = item[i]
  BY <1>1 DEF Gained
<1>3. n \notin Deducted /\ Deducted' = Deducted \cup {n}
  BY <1>1, <1>2, PayrollAssumption DEF Deducted, Deducts
<1>4. c \notin In(Entering) /\ In(Entering)' = In(Entering) \cup {c}
  BY <1>1 DEF Went, Others, In, Entering
<1>5. Cardinality(Deducted \cup {n}) = Cardinality(Deducted) + 1  BY <1>3, Finite, FS_AddElement
<1>6. Cardinality(In(Entering) \cup {c}) = Cardinality(In(Entering)) + 1
  BY <1>4, Finite, FS_AddElement
<1>7. Cardinality(Deducted) = ledger.rows + Cardinality(In(Entering)) /\ ledger.rows \in Nat
  BY DEF Booked, TypeInv, Shape
<1> QED  BY <1>1, <1>3, <1>4, <1>5, <1>6, <1>7, Finite

\* ... which it does once.
LEMMA EnterBooked ==
  ASSUME TypeInv, Booked, NEW c \in Callers, EnterDeposit(c) PROVE Booked'
<1> SUFFICES ASSUME "uncollected" \notin hits
             PROVE  Cardinality(Deducted') = ledger'.rows + Cardinality(In(Entering)')
  BY EnterRest DEF Booked
<1>1. /\ call[c] # Null /\ call[c].at = "entering" /\ Ended(c) /\ UNCHANGED item
      /\ ledger'.rows = ledger.rows + 1
  BY EnterEffect, EnterRest
<1>2. Deducted' = Deducted  BY <1>1 DEF Deducted, Deducts
<1>3. c \in In(Entering) /\ In(Entering)' = In(Entering) \ {c}
  BY <1>1 DEF Ended, Others, In, Entering
<1>4. Cardinality(In(Entering) \ {c}) = Cardinality(In(Entering)) - 1
  BY <1>3, Finite, FS_RemoveElement
<1>5. Cardinality(Deducted) = ledger.rows + Cardinality(In(Entering)) /\ ledger.rows \in Nat
  BY DEF Booked, TypeInv, Shape
<1> QED  BY <1>1, <1>2, <1>3, <1>4, <1>5, Finite
-----------------------------------------------------------------------------
\* A payslip that nobody is about to invalidate adds up the items as they are, and so
\* does the one that is being written.
Quiet(k) == \A d \in Callers : call[d] # Null /\ call[d].on = k => call[d].at # "summing"
Stale(k) == \E d \in Callers : call[d] # Null /\ call[d].on = k /\ call[d].at = "invalidating"

Slipped == "payslip" \notin hits =>
    /\ \A k \in Cycles : payslip[k] # Null /\ ~Stale(k) => payslip[k] = Totals(k)
    /\ \A k \in Cycles, c \in Callers :
         call[c] # Null /\ call[c].on = k /\ call[c].at = "summing" => call[c].slip = Totals(k)

\* It does as long as the items of a cycle change only when there is no payslip, or
\* when it is going to be invalidated.
LEMMA SlippedStays ==
  ASSUME TypeInv, Slipped, hits \subseteq hits', UNCHANGED payslip,
         "payslip" \notin hits' => \A d \in Callers :
           /\ call'[d] # Null /\ call'[d].at = "summing" => call'[d] = call[d]
           /\ call[d] # Null /\ call[d].at = "invalidating" => call'[d] = call[d],
         "payslip" \notin hits' => \A k \in Cycles :
           \/ Totals(k)' = Totals(k)
           \/ Quiet(k) /\ (payslip[k] = Null \/ Stale(k)')
  PROVE  Slipped'
<1> SUFFICES ASSUME "payslip" \notin hits' PROVE Slipped'
  BY DEF Slipped
<1>1. "payslip" \notin hits  OBVIOUS
<1>2. \A k \in Cycles : Stale(k) => Stale(k)'  BY DEF Stale
<1>3. ASSUME NEW k \in Cycles, payslip'[k] # Null, ~Stale(k)' PROVE payslip'[k] = Totals(k)'
  BY <1>1, <1>2, <1>3 DEF Slipped
<1>4. ASSUME NEW k \in Cycles, NEW d \in Callers,
             call'[d] # Null, call'[d].on = k, call'[d].at = "summing"
      PROVE  call'[d].slip = Totals(k)'
  <2>1. call'[d] = call[d] /\ ~Quiet(k)  BY <1>4 DEF Quiet
  <2>2. Totals(k)' = Totals(k)  BY <2>1
  <2> QED  BY <1>1, <1>4, <2>1, <2>2 DEF Slipped
<1> QED  BY <1>3, <1>4 DEF Slipped

\* The totals of a cycle are those of its items.
LEMMA TotalsSame ==
  ASSUME NEW k, \A i \in Items : item[i].on = k \/ item'[i].on = k => item'[i] = item[i]
  PROVE  Totals(k)' = Totals(k)
<1>1. Live(k)' = Live(k) /\ Of(k, "deposit")' = Of(k, "deposit")  BY DEF Live, Of
<1>2. ASSUME NEW S, S \subseteq Live(k)
      PROVE  [i \in S |-> item'[i].amount] = [i \in S |-> item[i].amount]
  BY <1>2 DEF Live
<1>3. Live(k) \ Of(k, "deposit") \subseteq Live(k) /\ Of(k, "deposit") \subseteq Live(k)  BY DEF Of
<1>4. [i \in Live(k) \ Of(k, "deposit") |-> item'[i].amount]
        = [i \in Live(k) \ Of(k, "deposit") |-> item[i].amount]
  BY <1>2, <1>3
<1>5. [i \in Of(k, "deposit") |-> item'[i].amount] = [i \in Of(k, "deposit") |-> item[i].amount]
  BY <1>2, <1>3
<1> QED  BY <1>1, <1>4, <1>5 DEF Totals, Total

\* A new item is in the totals of its cycle alone, ...
LEMMA MadeTotals ==
  ASSUME NEW k \in Cycles, NEW type, NEW by, NEW o, Made(k, type, by, o)
  PROVE  \A j \in Cycles \ {k} : Totals(j)' = Totals(j)
<1> SUFFICES ASSUME NEW j \in Cycles \ {k} PROVE Totals(j)' = Totals(j)
  OBVIOUS
<1>1. \A i \in Items : item[i].on = j \/ item'[i].on = j => item'[i] = item[i]
  BY PayrollAssumption DEF Made
<1> QED  BY <1>1, TotalsSame

\* ... and so is one that is changed or removed.
LEMMA ChangedTotals ==
  ASSUME NEW n \in Items, NEW by, Changed(n, by) \/ Removed(n)
  PROVE  \A j \in Cycles \ {item[n].on} : Totals(j)' = Totals(j)
<1> SUFFICES ASSUME NEW j \in Cycles \ {item[n].on} PROVE Totals(j)' = Totals(j)
  OBVIOUS
<1>1. \A i \in Items : item[i].on = j \/ item'[i].on = j => item'[i] = item[i]
  BY DEF Changed, Removed
<1> QED  BY <1>1, TotalsSame

\* So it does when a step changes no item and sums nothing up, ...
LEMMA SlippedQuiet ==
  ASSUME TypeInv, Slipped, NEW c \in Callers, Others(c), hits \subseteq hits',
         UNCHANGED <<item, payslip>>,
         "payslip" \notin hits' => ~(call[c] # Null /\ call[c].at = "invalidating"),
         call'[c] # Null => call'[c].at # "summing"
  PROVE  Slipped'
<1>1. \A k : Totals(k)' = Totals(k)  BY TotalsSame
<1> QED  BY <1>1, SlippedStays DEF Others

\* ... an edit by hand, ...
LEMMA SlippedEdited ==
  ASSUME TypeInv, Slipped, NEW c \in Callers, call[c] # Null, call[c].on \in Cycles,
         call[c].at # "invalidating", Went(c, "invalidating"),
         hits \subseteq hits', UNCHANGED payslip, "payslip" \notin hits' => Quiet(call[c].on),
         \A j \in Cycles \ {call[c].on} : Totals(j)' = Totals(j)
  PROVE  Slipped'
<1>1. \A j : j = call[c].on => Stale(j)'  BY DEF Went, Same, Stale
<1>2. \A d \in Callers : /\ call'[d] # Null /\ call'[d].at = "summing" => call'[d] = call[d]
                         /\ call[d] # Null /\ call[d].at = "invalidating" => call'[d] = call[d]
  BY DEF Went, Others
<1> QED  BY <1>1, <1>2, SlippedStays

\* ... a change that does not invalidate, ...
LEMMA SlippedUnseen ==
  ASSUME TypeInv, Slipped, NEW k \in Cycles, hits \subseteq hits', UNCHANGED payslip,
         \A d \in Callers : /\ call'[d] # Null /\ call'[d].at = "summing" => call'[d] = call[d]
                            /\ call[d] # Null /\ call[d].at = "invalidating" => call'[d] = call[d],
         Note(Unseen(k), "payslip"), \A j \in Cycles \ {k} : Totals(j)' = Totals(j)
  PROVE  Slipped'
<1>1. "payslip" \notin hits' => payslip[k] = Null /\ Quiet(k)
  BY DEF Note, Unseen, Quiet, On
<1> QED  BY <1>1, SlippedStays

\* An edit by hand that is not counted comes while nobody sums up.
LEMMA EditRest ==
  ASSUME NEW c \in Callers,
         \/ DeleteItem(c)
         \/ \E amount : UpdateItem(c, amount) \/ \E type : AddItem(c, type, amount)
  PROVE  UNCHANGED payslip /\ ("payslip" \notin hits' => Quiet(call[c].on))
BY DEF AddItem, UpdateItem, DeleteItem, Note, On, Quiet

\* addItem, ...
LEMMA AddSlipped ==
  ASSUME TypeInv, Slipped, NEW c \in Callers, NEW type \in Entered,
         NEW amount \in Amounts, AddItem(c, type, amount)
  PROVE  Slipped'
<1>1. \A j \in Cycles \ {call[c].on} : Totals(j)' = Totals(j)  BY AddEffect, MadeTotals
<1> QED  BY <1>1, AddEffect, AddRest, EditRest, SlippedEdited

\* ... updateItem, ...
LEMMA UpdateSlipped ==
  ASSUME TypeInv, Slipped, NEW c \in Callers, NEW amount \in Amounts, UpdateItem(c, amount)
  PROVE  Slipped'
<1>1. item[call[c].id].on = call[c].on /\ call[c].on \in Cycles
  BY UpdateEffect DEF TypeInv, Held, Posted
<1>2. \A j \in Cycles \ {call[c].on} : Totals(j)' = Totals(j)
  BY <1>1, UpdateEffect, ChangedTotals
<1> QED  BY <1>1, <1>2, UpdateEffect, UpdateRest, EditRest, SlippedEdited

\* ... and deleteItem invalidate the payslip.
LEMMA DeleteSlipped ==
  ASSUME TypeInv, Slipped, NEW c \in Callers, DeleteItem(c)
  PROVE  Slipped'
<1>1. item[call[c].id].on = call[c].on /\ call[c].on \in Cycles
  BY DeleteEffect DEF TypeInv, Held, Posted
<1>2. \A j \in Cycles \ {call[c].on} : Totals(j)' = Totals(j)
  BY <1>1, DeleteEffect, ChangedTotals
<1> QED  BY <1>1, <1>2, DeleteEffect, DeleteRest, EditRest, SlippedEdited

\* The rejection of a bonus does not, ...
LEMMA ResolveSlipped ==
  ASSUME TypeInv, Slipped, NEW k \in Cycles, NEW i \in Items, ResolveBonus(k, i)
  PROVE  Slipped'
<1>1. item[i].on = k  BY DEF ResolveBonus, Of, Live
<1>2. \A j \in Cycles \ {k} : Totals(j)' = Totals(j)  BY <1>1, ResolveEffect, ChangedTotals
<1>3. /\ UNCHANGED <<payslip, call>> /\ Note(Unseen(k), "payslip") /\ hits \subseteq hits'
  BY DEF ResolveBonus, Note
<1> QED  BY <1>2, <1>3, SlippedUnseen

\* ... nor does a deposit, ...
LEMMA DepositSlipped ==
  ASSUME TypeInv, Slipped, NEW c \in Callers, CreateDeposit(c)
  PROVE  Slipped'
<1>1. \A j \in Cycles \ {call[c].on} : Totals(j)' = Totals(j)  BY DepositEffect, MadeTotals
<1>2. UNCHANGED payslip /\ Note(Unseen(call[c].on), "payslip")  BY DEF CreateDeposit
<1> QED  BY <1>1, <1>2, DepositEffect, DepositRest, SlippedUnseen DEF Went, Others

\* ... an item that was scheduled, ...
LEMMA ApplySlipped ==
  ASSUME TypeInv, Slipped, NEW c \in Callers, NEW type \in Scheduled, ApplyScheduled(c, type)
  PROVE  Slipped'
<1>1. \A j \in Cycles \ {call[c].on} : Totals(j)' = Totals(j)  BY ApplyEffect, MadeTotals
<1>2. UNCHANGED payslip /\ Note(Unseen(call[c].on), "payslip")  BY DEF ApplyScheduled
<1> QED  BY <1>1, <1>2, ApplyEffect, ApplyRest, SlippedUnseen DEF Others

\* ... a meal allowance, ...
LEMMA UpsertSlipped ==
  ASSUME TypeInv, Slipped, NEW c \in Callers, Upsert(c)
  PROVE  Slipped'
<1>1. call[c].id # Null => item[call[c].id].on = call[c].on  BY UpsertEffect DEF TypeInv, Held
<1>2. \A j \in Cycles \ {call[c].on} : Totals(j)' = Totals(j)
  BY <1>1, UpsertEffect, MadeTotals, ChangedTotals
<1>3. UNCHANGED payslip /\ Note(Unseen(call[c].on), "payslip")  BY DEF Upsert
<1> QED  BY <1>2, <1>3, UpsertEffect, UpsertRest, SlippedUnseen DEF Went, Others

\* ... a deposit that is changed, ...
LEMMA RefreshSlipped ==
  ASSUME TypeInv, Slipped, NEW c \in Callers, Refresh(c)
  PROVE  Slipped'
<1>1. item[call[c].id].on = call[c].on /\ call[c].on \in Cycles
  BY RefreshEffect DEF TypeInv, Held, Posted
<1>2. \A j \in Cycles \ {call[c].on} : Totals(j)' = Totals(j)
  BY <1>1, RefreshEffect, ChangedTotals
<1>3. UNCHANGED payslip /\ Note(Unseen(call[c].on), "payslip")  BY DEF Refresh
<1> QED  BY <1>1, <1>2, <1>3, RefreshEffect, RefreshRest, SlippedUnseen DEF Ended, Others

\* ... or the pay of a record.
LEMMA LinkSlipped ==
  ASSUME TypeInv, Slipped, NEW c \in Callers, NEW o \in Overtimes, Link(c, o)
  PROVE  Slipped'
<1>1. \A j \in Cycles \ {call[c].on} : Totals(j)' = Totals(j)  BY LinkEffect, MadeTotals
<1>2. UNCHANGED payslip /\ Note(Unseen(call[c].on), "payslip")  BY DEF Link
<1>3. call'[c] # Null => call'[c].at # "summing"  BY LinkEffect DEF Ended
<1> QED  BY <1>1, <1>2, <1>3, LinkEffect, LinkRest, SlippedUnseen DEF Others

\* ... and the making of a payslip.
LEMMA PayslipSlipped ==
  ASSUME TypeInv, Slipped, NEW c \in Callers, NEW k \in Cycles, BeginPayslip(c, k)
  PROVE  Slipped'
<1>1. /\ UNCHANGED <<item, payslip>> /\ hits \subseteq hits'
      /\ Came(c, k, "summing", "manual") /\ call'[c].slip = Totals(k)
  BY PayslipBegins DEF BeginPayslip, tables, Note
<1>2. \A j : Totals(j)' = Totals(j)  BY <1>1, TotalsSame
<1>3. \A j : Stale(j) => Stale(j)'  BY <1>1 DEF Came, Others, Stale
<1> QED  BY <1>1, <1>2, <1>3 DEF Slipped, Came, Others

\* A payslip is written as it was summed up, ...
LEMMA WriteSlipped ==
  ASSUME TypeInv, Slipped, NEW c \in Callers, WritePayslip(c)
  PROVE  Slipped'
<1>1. /\ call[c] # Null /\ call[c].at = "summing" /\ call[c].on \in Cycles /\ Ended(c)
      /\ UNCHANGED <<item, hits>>
      /\ payslip' = [payslip EXCEPT ![call[c].on] = call[c].slip]
  BY WriteEffect DEF WritePayslip, TypeInv, Posted
<1>2. \A j : Totals(j)' = Totals(j)  BY <1>1, TotalsSame
<1>3. \A j : Stale(j) => Stale(j)'  BY <1>1 DEF Ended, Others, Stale
<1>4. \A j \in Cycles : payslip'[j] = IF j = call[c].on THEN call[c].slip ELSE payslip[j]
  BY <1>1 DEF TypeInv, Counted
<1> QED  BY <1>1, <1>2, <1>3, <1>4 DEF Slipped, Ended, Others

\* ... and one that does not add up is invalidated.
LEMMA InvalidateSlipped ==
  ASSUME TypeInv, Slipped, NEW c \in Callers, InvalidatePayslip(c)
  PROVE  Slipped'
<1>1. /\ call[c] # Null /\ call[c].on \in Cycles /\ Ended(c) /\ UNCHANGED <<item, hits>>
      /\ payslip' = [payslip EXCEPT ![call[c].on] = Null]
  BY InvalidateEffect DEF InvalidatePayslip, TypeInv, Posted
<1>2. \A j : Totals(j)' = Totals(j)  BY <1>1, TotalsSame
<1>3. \A j \in Cycles : j # call[c].on /\ Stale(j) => Stale(j)'  BY <1>1 DEF Ended, Others, Stale
<1>4. \A j \in Cycles : payslip'[j] = IF j = call[c].on THEN Null ELSE payslip[j]
  BY <1>1 DEF TypeInv, Counted
<1> QED  BY <1>1, <1>2, <1>3, <1>4 DEF Slipped, Ended, Others
-----------------------------------------------------------------------------
(***************************************************************************)
(* The invariant holds initially, and every step keeps it.                 *)
(***************************************************************************)
IInv ==
    /\ TypeInv
    /\ Closing /\ Collected /\ Linked /\ Built
    /\ Booked /\ Slipped

\* Initially there are no items, no calls and no payslips.
LEMMA InitHolds == Init => IInv
<1> SUFFICES ASSUME Init PROVE IInv
  OBVIOUS
<1>1. 0 \in 0..MaxCalls /\ 0 \in 0..MaxCrashes /\ 0 <= Cap /\ 0 \in Nat  BY PayrollAssumption
<1>2. /\ \A c \in Callers : call[c] = Null
      /\ \A i \in Items : item[i].on = Null
      /\ \A k \in Cycles : payslip[k] = Null
  BY DEF Init
<1>3. Shape
  <2>1. cycle \in [Cycles -> Status]  BY DEF Init, Status
  <2>2. item \in [Items -> Item]  BY DEF Init, Item, Types
  <2> QED  BY <1>1, <2>1, <2>2 DEF Init, Shape, CallsOK
<1>4. Counted  BY <1>1 DEF Init, Counted, Irregular
<1>5. TypeInv  BY <1>2, <1>3, <1>4 DEF TypeInv, Posted, Held
<1>6. Closing  BY <1>2 DEF Closing
<1>7. Collected  BY <1>1, <1>2 DEF Init, Collected
<1>8. Linked  BY <1>2 DEF Linked, Pays
<1>9. Built  BY <1>2, PayrollAssumption DEF Built, Own, Builds
<1>10. Booked
  <2>1. Deducted = {} /\ In(Entering) = {}
    BY <1>2, PayrollAssumption DEF Deducted, Deducts, In
  <2>2. Cardinality(Deducted) = 0 /\ Cardinality(In(Entering)) = 0  BY <2>1, FS_EmptySet
  <2> QED  BY <2>2 DEF Init, Booked
<1>11. Slipped  BY <1>2 DEF Slipped
<1> QED  BY <1>5, <1>6, <1>7, <1>8, <1>9, <1>10, <1>11 DEF IInv

\* Every step keeps the invariant, one action at a time.
LEMMA Step == IInv /\ [Next]_vars => IInv'
<1> SUFFICES ASSUME IInv, [Next]_vars PROVE IInv'
  OBVIOUS
<1>1. TypeInv /\ Closing /\ Collected /\ Linked /\ Built /\ Booked /\ Slipped
  BY DEF IInv
<1>2. ASSUME NEW k \in Cycles, OpenCycle(k) PROVE IInv'
  <2>1. Shape'
    BY <1>1, <1>2, PayrollAssumption, CallTyped DEF OpenCycle, TypeInv, Shape, CallsOK, Status
  <2>2. Counted'
    BY <1>1, <1>2, PayrollAssumption DEF OpenCycle, TypeInv, Counted, tables, bounds, Irregular,
      Note, Enter, Begin
  <2>3. Posted'  BY <1>1, <1>2 DEF OpenCycle, TypeInv, Posted
  <2>4. Held'  BY <1>1, <1>2 DEF OpenCycle, TypeInv, Held, Removed
  <2>5. TypeInv'  BY <2>1, <2>2, <2>3, <2>4 DEF TypeInv
  <2>6. Closing'  BY <1>1, <1>2, <2>5 DEF OpenCycle, Closing
  <2>7. Collected'  BY <1>1, <1>2, <2>5 DEF OpenCycle, Collected
  <2>8. Linked'
    BY <1>1, <1>2, <2>5 DEF OpenCycle, TypeInv, Linked, Pays, Removed, Own, Builds, Building
  <2>9. Built'  BY <1>1, <1>2, <2>5 DEF OpenCycle, TypeInv, Built, Pays, Own, Builds
  <2>10. Booked'  BY <1>1, <1>2, <2>5 DEF OpenCycle, Booked, Deducted, Deducts, In
  <2>11. Slipped'  BY <1>1, <1>2, <2>5, SlippedStays, TotalsSame DEF OpenCycle
  <2> QED  BY <2>5, <2>6, <2>7, <2>8, <2>9, <2>10, <2>11 DEF IInv
<1>3. ASSUME NEW k \in Cycles, NEW i \in Items, ResolveBonus(k, i) PROVE IInv'
  <2>1. Shape'
    BY <1>1, <1>3, ResolveEffect, PayrollAssumption, CallTyped DEF ResolveBonus, TypeInv, Shape,
      Note, Posted, Held, CallsOK
  <2>2. Counted'
    BY <1>1, <1>3, PayrollAssumption DEF ResolveBonus, TypeInv, Counted, tables, bounds,
      Irregular, Note, Enter, Begin
  <2>3. Posted'  BY <1>1, <1>3, ResolveEffect DEF ResolveBonus, TypeInv, Posted
  <2>4. Held'  BY <1>1, <1>3, ResolveEffect DEF ResolveBonus, TypeInv, Held
  <2>5. TypeInv'  BY <2>1, <2>2, <2>3, <2>4 DEF TypeInv
  <2>6. Closing'  BY <1>1, <1>3, <2>5 DEF ResolveBonus, Closing, Note
  <2>7. Collected'  BY <1>1, <1>3, <2>5 DEF ResolveBonus, Collected, Note
  <2>8. Linked'
    BY <1>1, <1>3, <2>5, ResolveEffect, RemovedLeaves DEF ResolveBonus, TypeInv, Linked, Note,
      Pays, Builds, Building
  <2>9. Built'
    BY <1>1, <1>3, <2>5, ResolveEffect, RemovedLeaves DEF ResolveBonus, TypeInv, Built, Note,
      Pays, Own, Builds
  <2>10. Booked'
    BY <1>1, <1>3, <2>5, ResolveEffect, RemovedDeducts, CollectedTyped DEF ResolveBonus, Booked, Note, Of,
      TypeInv, Shape,
      Deducted, In
  <2>11. Slipped'  BY <1>1, <1>3, <2>5, ResolveSlipped
  <2> QED  BY <2>5, <2>6, <2>7, <2>8, <2>9, <2>10, <2>11 DEF IInv
<1>4. ASSUME NEW o \in Overtimes, ApproveOvertime(o) PROVE IInv'
  <2>1. Shape'
    BY <1>1, <1>4, PayrollAssumption, CallTyped DEF ApproveOvertime, TypeInv, Shape, CallsOK
  <2>2. Counted'
    BY <1>1, <1>4, PayrollAssumption DEF ApproveOvertime, TypeInv, Counted, tables, bounds,
      Irregular, Note, Enter, Begin
  <2>3. Posted'  BY <1>1, <1>4 DEF ApproveOvertime, TypeInv, Posted
  <2>4. Held'  BY <1>1, <1>4 DEF ApproveOvertime, TypeInv, Held, Removed
  <2>5. TypeInv'  BY <2>1, <2>2, <2>3, <2>4 DEF TypeInv
  <2>6. Closing'  BY <1>1, <1>4, <2>5 DEF ApproveOvertime, Closing
  <2>7. Collected'  BY <1>1, <1>4, <2>5 DEF ApproveOvertime, Collected
  <2>8. Linked'
    BY <1>1, <1>4, <2>5 DEF ApproveOvertime, TypeInv, Linked, Pays, Removed, Own, Builds,
      Building
  <2>9. Built'  BY <1>1, <1>4, <2>5 DEF ApproveOvertime, TypeInv, Built, Pays, Own, Builds
  <2>10. Booked'  BY <1>1, <1>4, <2>5 DEF ApproveOvertime, Booked, Deducted, Deducts, In
  <2>11. Slipped'  BY <1>1, <1>4, <2>5, SlippedStays, TotalsSame DEF ApproveOvertime
  <2> QED  BY <2>5, <2>6, <2>7, <2>8, <2>9, <2>10, <2>11 DEF IInv
<1>5. ASSUME NEW c \in Callers, NEW k \in Cycles, BeginLock(c, k) PROVE IInv'
  <2>1. Shape'  BY <1>1, <1>5, LockRest DEF TypeInv, Shape
  <2>2. Counted'
    BY <1>1, <1>5, PayrollAssumption DEF BeginLock, TypeInv, Counted, tables, bounds, Irregular,
      Note, Enter, Begin
  <2>3. Posted'  BY <1>1, <1>5, LockRest DEF Came, Others, TypeInv, Posted, Blind, Early
  <2>4. Held'  BY <1>1, <1>5, LockRest, HeldStays DEF Came, Others
  <2>5. TypeInv'  BY <2>1, <2>2, <2>3, <2>4 DEF TypeInv
  <2>6. Closing'  BY <1>1, <1>5, <2>5, LockRest, ClosingStays DEF Came, Others, Closing
  <2>7. Collected'  BY <1>1, <1>5, <2>5, LockRest, CollectedStays DEF Came, Collecting
  <2>8. Linked'  BY <1>1, <1>5, <2>5, LockRest, LinkedStays DEF Came, Linking, Pays
  <2>9. Built'
    BY <1>1, <1>5, <2>5, LockRest, BuiltStays DEF Came, Others, Builds, Building, Own
  <2>10. Booked'  BY <1>1, <1>5, <2>5, LockRest, BookedStays DEF Came, Others, Entering, Deducts
  <2>11. Slipped'
    BY <1>1, <1>5, <2>5, LockRest, SlippedQuiet DEF Came, Others, BeginLock, tables
  <2> QED  BY <2>5, <2>6, <2>7, <2>8, <2>9, <2>10, <2>11 DEF IInv
<1>6. ASSUME NEW c \in Callers, NEW k \in Cycles, BeginPay(c, k) PROVE IInv'
  <2>1. Shape'  BY <1>1, <1>6, PayRest DEF TypeInv, Shape
  <2>2. Counted'
    BY <1>1, <1>6, PayrollAssumption DEF BeginPay, TypeInv, Counted, tables, bounds, Irregular,
      Note, Enter, Begin
  <2>3. Posted'  BY <1>1, <1>6, PayRest DEF Came, Others, TypeInv, Posted, Blind, Early
  <2>4. Held'  BY <1>1, <1>6, PayRest, HeldStays DEF Came, Others
  <2>5. TypeInv'  BY <2>1, <2>2, <2>3, <2>4 DEF TypeInv
  <2>6. Closing'  BY <1>1, <1>6, <2>5, PayRest, ClosingStays DEF Came, Others, Closing
  <2>7. Collected'  BY <1>1, <1>6, <2>5, PayRest, CollectedStays DEF Came, Collecting
  <2>8. Linked'  BY <1>1, <1>6, <2>5, PayRest, LinkedStays DEF Came, Linking, Pays
  <2>9. Built'  BY <1>1, <1>6, <2>5, PayRest, BuiltStays DEF Came, Others, Builds, Building, Own
  <2>10. Booked'  BY <1>1, <1>6, <2>5, PayRest, BookedStays DEF Came, Others, Entering, Deducts
  <2>11. Slipped'  BY <1>1, <1>6, <2>5, PayRest, SlippedQuiet DEF Came, Others, BeginPay, tables
  <2> QED  BY <2>5, <2>6, <2>7, <2>8, <2>9, <2>10, <2>11 DEF IInv
<1>7. ASSUME NEW c \in Callers, NEW k \in Cycles, BeginAdd(c, k) PROVE IInv'
  <2>1. Shape'  BY <1>1, <1>7, BeginAddRest DEF TypeInv, Shape
  <2>2. Counted'
    BY <1>1, <1>7, PayrollAssumption DEF BeginAdd, TypeInv, Counted, tables, bounds, Irregular,
      Note, Enter, Begin
  <2>3. Posted'
    BY <1>1, <1>7, BeginAddRest, PayrollAssumption DEF Came, Others, TypeInv, Posted, Early
  <2>4. Held'  BY <1>1, <1>7, BeginAddRest, HeldStays DEF Came, Others
  <2>5. TypeInv'  BY <2>1, <2>2, <2>3, <2>4 DEF TypeInv
  <2>6. Closing'  BY <1>1, <1>7, <2>5, BeginAddRest, ClosingStays DEF Came, Closers
  <2>7. Collected'  BY <1>1, <1>7, <2>5, BeginAddRest, CollectedStays DEF Came, Collecting
  <2>8. Linked'  BY <1>1, <1>7, <2>5, BeginAddRest, LinkedStays DEF Came, Linking, Pays
  <2>9. Built'
    BY <1>1, <1>7, <2>5, BeginAddRest, BuiltStays DEF Came, Others, Builds, Building, Own
  <2>10. Booked'
    BY <1>1, <1>7, <2>5, BeginAddRest, BookedStays DEF Came, Others, Entering, Deducts
  <2>11. Slipped'
    BY <1>1, <1>7, <2>5, BeginAddRest, SlippedQuiet DEF Came, Others, BeginAdd, tables
  <2> QED  BY <2>5, <2>6, <2>7, <2>8, <2>9, <2>10, <2>11 DEF IInv
<1>8. ASSUME NEW c \in Callers, NEW k \in Cycles, BeginDeposit(c, k) PROVE IInv'
  <2>1. Shape'  BY <1>1, <1>8, BeginDepositRest DEF TypeInv, Shape
  <2>2. Counted'
    BY <1>1, <1>8, PayrollAssumption DEF BeginDeposit, TypeInv, Counted, tables, bounds,
      Irregular, Note, Enter, Begin
  <2>3. Posted'
    BY <1>1, <1>8, BeginDepositRest, PayrollAssumption DEF Came, Others, TypeInv, Posted, Early
  <2>4. Held'  BY <1>1, <1>8, BeginDepositRest, HeldStays DEF Came, Others
  <2>5. TypeInv'  BY <2>1, <2>2, <2>3, <2>4 DEF TypeInv
  <2>6. Closing'  BY <1>1, <1>8, <2>5, BeginDepositRest, ClosingStays DEF Came, Closers
  <2>7. Collected'  BY <1>1, <1>8, <2>5, BeginDepositRest, CollectedStays DEF Came, Collecting
  <2>8. Linked'  BY <1>1, <1>8, <2>5, BeginDepositRest, LinkedStays DEF Came, Linking, Pays
  <2>9. Built'
    BY <1>1, <1>8, <2>5, BeginDepositRest, BuiltStays DEF Came, Others, Builds, Building, Own
  <2>10. Booked'
    BY <1>1, <1>8, <2>5, BeginDepositRest, BookedStays DEF Came, Others, Entering, Deducts
  <2>11. Slipped'
    BY <1>1, <1>8, <2>5, BeginDepositRest, SlippedQuiet DEF Came, Others, BeginDeposit, tables
  <2> QED  BY <2>5, <2>6, <2>7, <2>8, <2>9, <2>10, <2>11 DEF IInv
<1>9. ASSUME NEW c \in Callers, NEW k \in Cycles, BeginBuild(c, k) PROVE IInv'
  <2>1. Shape'  BY <1>1, <1>9, BeginBuildRest DEF TypeInv, Shape
  <2>2. Counted'
    BY <1>1, <1>9, PayrollAssumption DEF BeginBuild, TypeInv, Counted, tables, bounds,
      Irregular, Note, Enter, Begin
  <2>3. Posted'
    BY <1>1, <1>9, BeginBuildRest, PayrollAssumption DEF Came, Others, TypeInv, Posted, Blind,
      Manual
  <2>4. Held'  BY <1>1, <1>9, BeginBuildRest, HeldStays DEF Came, Others
  <2>5. TypeInv'  BY <2>1, <2>2, <2>3, <2>4 DEF TypeInv
  <2>6. Closing'  BY <1>1, <1>9, <2>5, BeginBuildRest, ClosingStays DEF Came, Closers
  <2>7. Collected'  BY <1>1, <1>9, <2>5, BeginBuildRest, CollectedStays DEF Came, Collecting
  <2>8. Linked'  BY <1>1, <1>9, <2>5, BeginBuildRest, LinkedStays DEF Came, Linking, Pays
  <2>9. Built'
    BY <1>1, <1>9, <2>5, BeginBuildRest, BuiltStays DEF Came, Others, Builds, Building, Own
  <2>10. Booked'
    BY <1>1, <1>9, <2>5, BeginBuildRest, BookedStays DEF Came, Others, Entering, Deducts
  <2>11. Slipped'
    BY <1>1, <1>9, <2>5, BeginBuildRest, SlippedQuiet DEF Came, Others, BeginBuild, tables
  <2> QED  BY <2>5, <2>6, <2>7, <2>8, <2>9, <2>10, <2>11 DEF IInv
<1>10. ASSUME NEW c \in Callers, NEW k \in Cycles, BeginPayslip(c, k) PROVE IInv'
  <2>1. Shape'  BY <1>1, <1>10, PayslipBegins, BeginPayslipRest DEF TypeInv, Shape
  <2>2. Counted'
    BY <1>1, <1>10, PayrollAssumption DEF BeginPayslip, TypeInv, Counted, tables, bounds,
      Irregular, Note, Enter, Begin
  <2>3. Posted'
    BY <1>1, <1>10, PayslipBegins, BeginPayslipRest DEF Came, Others, TypeInv, Posted, Blind,
      Early
  <2>4. Held'  BY <1>1, <1>10, PayslipBegins, BeginPayslipRest, HeldStays DEF Came, Others
  <2>5. TypeInv'  BY <2>1, <2>2, <2>3, <2>4 DEF TypeInv
  <2>6. Closing'
    BY <1>1, <1>10, <2>5, PayslipBegins, BeginPayslipRest, ClosingStays DEF Came, Closers
  <2>7. Collected'
    BY <1>1, <1>10, <2>5, PayslipBegins, BeginPayslipRest, CollectedStays DEF Came, Collecting
  <2>8. Linked'
    BY <1>1, <1>10, <2>5, PayslipBegins, BeginPayslipRest, LinkedStays DEF Came, Linking, Pays
  <2>9. Built'
    BY <1>1, <1>10, <2>5, PayslipBegins, BeginPayslipRest, BuiltStays DEF Came, Others, Builds,
      Building, Own
  <2>10. Booked'
    BY <1>1, <1>10, <2>5, PayslipBegins, BeginPayslipRest, BookedStays DEF Came, Others,
      Entering, Deducts
  <2>11. Slipped'  BY <1>1, <1>10, <2>5, PayslipSlipped
  <2> QED  BY <2>5, <2>6, <2>7, <2>8, <2>9, <2>10, <2>11 DEF IInv
<1>11. ASSUME NEW c \in Callers, NEW k \in Cycles, NEW i \in Items, NEW place \in {"editing",
  "deleting"}, BeginEdit(c, k, i, place) PROVE IInv'
  <2>1. Shape'  BY <1>1, <1>11, EditBegins, BeginEditRest DEF TypeInv, Shape
  <2>2. Counted'
    BY <1>1, <1>11, PayrollAssumption DEF BeginEdit, TypeInv, Counted, tables, bounds,
      Irregular, Note, Enter, Begin
  <2>3. Posted'
    BY <1>1, <1>11, EditBegins, BeginEditRest, PayrollAssumption DEF Came, Others, TypeInv,
      Posted, Early
  <2>4. Held'  BY <1>1, <1>11, EditBegins, BeginEditRest, HeldStays DEF Came, Others
  <2>5. TypeInv'  BY <2>1, <2>2, <2>3, <2>4 DEF TypeInv
  <2>6. Closing'
    BY <1>1, <1>11, <2>5, EditBegins, BeginEditRest, ClosingStays DEF Came, Closers
  <2>7. Collected'
    BY <1>1, <1>11, <2>5, EditBegins, BeginEditRest, CollectedStays DEF Came, Collecting
  <2>8. Linked'
    BY <1>1, <1>11, <2>5, EditBegins, BeginEditRest, LinkedStays DEF Came, Linking, Pays
  <2>9. Built'
    BY <1>1, <1>11, <2>5, EditBegins, BeginEditRest, BuiltStays DEF Came, Others, Builds,
      Building, Own
  <2>10. Booked'
    BY <1>1, <1>11, <2>5, EditBegins, BeginEditRest, BookedStays DEF Came, Others, Entering,
      Deducts
  <2>11. Slipped'
    BY <1>1, <1>11, <2>5, EditBegins, BeginEditRest, SlippedQuiet DEF Came, Others, BeginEdit,
      tables
  <2> QED  BY <2>5, <2>6, <2>7, <2>8, <2>9, <2>10, <2>11 DEF IInv
<1>12. ASSUME NEW c \in Callers, NEW o \in Overtimes, BeginLink(c, o) PROVE IInv'
  <2>1. Shape'  BY <1>1, <1>12, LinkBegins, BeginLinkRest DEF TypeInv, Shape
  <2>2. Counted'
    BY <1>1, <1>12, PayrollAssumption DEF BeginLink, TypeInv, Counted, tables, bounds,
      Irregular, Note, Enter, Begin
  <2>3. Posted'
    BY <1>1, <1>12, LinkBegins, BeginLinkRest DEF Came, Others, TypeInv, Posted, Blind, Early
  <2>4. Held'  BY <1>1, <1>12, LinkBegins, BeginLinkRest, HeldStays DEF Came, Others
  <2>5. TypeInv'  BY <2>1, <2>2, <2>3, <2>4 DEF TypeInv
  <2>6. Closing'
    BY <1>1, <1>12, <2>5, LinkBegins, BeginLinkRest, ClosingStays DEF Came, Closers
  <2>7. Collected'
    BY <1>1, <1>12, <2>5, LinkBegins, BeginLinkRest, CollectedStays DEF Came, Collecting
  <2>8. Linked'
    BY <1>1, <1>12, <2>5, LinkBegins, BeginLinkRest, LinkedStays DEF Came, Others, Linking,
      Linked, Pays, Made, Unlinked
  <2>9. Built'
    BY <1>1, <1>12, <2>5, LinkBegins, BeginLinkRest, BuiltStays DEF Came, Others, Builds,
      Building, Own
  <2>10. Booked'
    BY <1>1, <1>12, <2>5, LinkBegins, BeginLinkRest, BookedStays DEF Came, Others, Entering,
      Deducts
  <2>11. Slipped'
    BY <1>1, <1>12, <2>5, LinkBegins, BeginLinkRest, SlippedQuiet DEF Came, Others, BeginLink,
      tables
  <2> QED  BY <2>5, <2>6, <2>7, <2>8, <2>9, <2>10, <2>11 DEF IInv
<1>13. ASSUME NEW c \in Callers, SaveCycle(c) PROVE IInv'
  <2>1. Shape'  BY <1>1, <1>13, SaveEffect, SaveRest DEF TypeInv, Shape
  <2>2. Counted'
    BY <1>1, <1>13, PayrollAssumption DEF SaveCycle, TypeInv, Counted, tables, bounds,
      Irregular, Note, Enter, Begin
  <2>3. Posted'  BY <1>1, <1>13, SaveEffect, SaveRest DEF Ended, Others, TypeInv, Posted
  <2>4. Held'  BY <1>1, <1>13, SaveEffect, SaveRest, HeldStays DEF Ended, Others
  <2>5. TypeInv'  BY <2>1, <2>2, <2>3, <2>4 DEF TypeInv
  <2>6. Closing'
    BY <1>1, <1>13, <2>5, SaveEffect, SaveRest, ClosingStays DEF Ended, Others, Closers,
      Closing, TypeInv, Posted
  <2>7. Collected'  BY <1>1, <1>13, <2>5, SaveEffect, SaveRest, CollectedStays DEF Ended
  <2>8. Linked'  BY <1>1, <1>13, <2>5, SaveEffect, SaveRest, LinkedStays DEF Ended, Pays
  <2>9. Built'
    BY <1>1, <1>13, <2>5, SaveEffect, SaveRest, BuiltStays DEF Ended, Others, Builds, Building,
      Own
  <2>10. Booked'
    BY <1>1, <1>13, <2>5, SaveEffect, SaveRest, BookedStays DEF Ended, Others, Entering,
      Deducts, Closers
  <2>11. Slipped'
    BY <1>1, <1>13, <2>5, SaveEffect, SaveRest, SlippedQuiet DEF Ended, Others, SaveCycle,
      tables
  <2> QED  BY <2>5, <2>6, <2>7, <2>8, <2>9, <2>10, <2>11 DEF IInv
<1>14. ASSUME NEW c \in Callers, DeleteItem(c) PROVE IInv'
  <2>1. Shape'  BY <1>1, <1>14, DeleteEffect, DeleteRest DEF TypeInv, Shape
  <2>2. Counted'
    BY <1>1, <1>14, PayrollAssumption DEF DeleteItem, TypeInv, Counted, tables, bounds,
      Irregular, Note, Enter, Begin
  <2>3. Posted'
    BY <1>1, <1>14, DeleteEffect, DeleteRest DEF Went, Same, Others, TypeInv, Posted, Blind,
      Manual, Early
  <2>4. Held'
    BY <1>1, <1>14, DeleteEffect, DeleteRest, HeldStays, RemovedLeaves DEF Went, Same, Others
  <2>5. TypeInv'  BY <2>1, <2>2, <2>3, <2>4 DEF TypeInv
  <2>6. Closing'  BY <1>1, <1>14, <2>5, DeleteEffect, DeleteRest, ClosingStays DEF Went, Closers
  <2>7. Collected'
    BY <1>1, <1>14, <2>5, DeleteEffect, DeleteRest, CollectedStays DEF Went, Collecting
  <2>8. Linked'
    BY <1>1, <1>14, <2>5, DeleteEffect, DeleteRest, LinkedStays, RemovedLeaves DEF Went, Linking
  <2>9. Built'
    BY <1>1, <1>14, <2>5, DeleteEffect, DeleteRest, BuiltStays, RemovedLeaves DEF Went, Same,
      Others, Builds, Building
  <2>10. Booked'
    BY <1>1, <1>14, <2>5, DeleteEffect, DeleteRest, BookedStays, RemovedDeducts DEF Went, Same,
      Others, Entering, DeleteItem, Booked
  <2>11. Slipped'  BY <1>1, <1>14, <2>5, DeleteSlipped
  <2> QED  BY <2>5, <2>6, <2>7, <2>8, <2>9, <2>10, <2>11 DEF IInv
<1>15. ASSUME NEW c \in Callers, InvalidatePayslip(c) PROVE IInv'
  <2>1. Shape'  BY <1>1, <1>15, InvalidateEffect, InvalidateRest DEF TypeInv, Shape
  <2>2. Counted'
    BY <1>1, <1>15, PayrollAssumption DEF InvalidatePayslip, TypeInv, Counted, tables, bounds,
      Irregular, Note, Enter, Begin
  <2>3. Posted'
    BY <1>1, <1>15, InvalidateEffect, InvalidateRest DEF Ended, Others, TypeInv, Posted
  <2>4. Held'  BY <1>1, <1>15, InvalidateEffect, InvalidateRest, HeldStays DEF Ended, Others
  <2>5. TypeInv'  BY <2>1, <2>2, <2>3, <2>4 DEF TypeInv
  <2>6. Closing'  BY <1>1, <1>15, <2>5, InvalidateEffect, InvalidateRest, ClosingStays DEF Ended
  <2>7. Collected'
    BY <1>1, <1>15, <2>5, InvalidateEffect, InvalidateRest, CollectedStays DEF Ended
  <2>8. Linked'
    BY <1>1, <1>15, <2>5, InvalidateEffect, InvalidateRest, LinkedStays DEF Ended, Pays
  <2>9. Built'
    BY <1>1, <1>15, <2>5, InvalidateEffect, InvalidateRest, BuiltStays DEF Ended, Others,
      Builds, Building, Own
  <2>10. Booked'
    BY <1>1, <1>15, <2>5, InvalidateEffect, InvalidateRest, BookedStays DEF Ended, Others,
      Entering, Deducts
  <2>11. Slipped'  BY <1>1, <1>15, <2>5, InvalidateSlipped
  <2> QED  BY <2>5, <2>6, <2>7, <2>8, <2>9, <2>10, <2>11 DEF IInv
<1>16. ASSUME NEW c \in Callers, WritePayslip(c) PROVE IInv'
  <2>1. Shape'  BY <1>1, <1>16, WriteEffect, WriteRest DEF TypeInv, Shape
  <2>2. Counted'
    BY <1>1, <1>16, WriteEffect, WriteRest, CallTyped, PayrollAssumption DEF WritePayslip,
      TypeInv, Counted, tables, bounds, Irregular, Note, Enter, Begin, Shape, Posted
  <2>3. Posted'  BY <1>1, <1>16, WriteEffect, WriteRest DEF Ended, Others, TypeInv, Posted
  <2>4. Held'  BY <1>1, <1>16, WriteEffect, WriteRest, HeldStays DEF Ended, Others
  <2>5. TypeInv'  BY <2>1, <2>2, <2>3, <2>4 DEF TypeInv
  <2>6. Closing'  BY <1>1, <1>16, <2>5, WriteEffect, WriteRest, ClosingStays DEF Ended
  <2>7. Collected'  BY <1>1, <1>16, <2>5, WriteEffect, WriteRest, CollectedStays DEF Ended
  <2>8. Linked'  BY <1>1, <1>16, <2>5, WriteEffect, WriteRest, LinkedStays DEF Ended, Pays
  <2>9. Built'
    BY <1>1, <1>16, <2>5, WriteEffect, WriteRest, BuiltStays DEF Ended, Others, Builds,
      Building, Own
  <2>10. Booked'
    BY <1>1, <1>16, <2>5, WriteEffect, WriteRest, BookedStays DEF Ended, Others, Entering,
      Deducts
  <2>11. Slipped'  BY <1>1, <1>16, <2>5, WriteSlipped
  <2> QED  BY <2>5, <2>6, <2>7, <2>8, <2>9, <2>10, <2>11 DEF IInv
<1>17. ASSUME NEW c \in Callers, CheckCap(c) PROVE IInv'
  <2>1. Shape'  BY <1>1, <1>17, CapEffect, CapRest DEF TypeInv, Shape
  <2>2. Counted'
    BY <1>1, <1>17, PayrollAssumption DEF CheckCap, TypeInv, Counted, tables, bounds, Irregular,
      Note, Enter, Begin
  <2>3. Posted'
    BY <1>1, <1>17, CapEffect, CapRest DEF Went, Ended, Same, Others, TypeInv, Posted, Blind,
      Manual, Early
  <2>4. Held'  BY <1>1, <1>17, CapEffect, CapRest, HeldStays DEF Went, Ended, Same, Others
  <2>5. TypeInv'  BY <2>1, <2>2, <2>3, <2>4 DEF TypeInv
  <2>6. Closing'
    BY <1>1, <1>17, <2>5, CapEffect, CapRest, ClosingStays DEF Went, Ended, Closers
  <2>7. Collected'
    BY <1>1, <1>17, <2>5, CapEffect, CapRest, CollectedStays DEF Went, Ended, Others, Collected
  <2>8. Linked'
    BY <1>1, <1>17, <2>5, CapEffect, CapRest, LinkedStays DEF Went, Ended, Linking, Pays
  <2>9. Built'
    BY <1>1, <1>17, <2>5, CapEffect, CapRest, BuiltStays DEF Went, Ended, Same, Others, Builds,
      Building, Own, TypeInv, Built
  <2>10. Booked'
    BY <1>1, <1>17, <2>5, CapEffect, CapRest, BookedStays DEF Went, Ended, Same, Others,
      Entering, Deducts
  <2>11. Slipped'
    BY <1>1, <1>17, <2>5, CapEffect, CapRest, SlippedQuiet DEF Went, Ended, Same, Others,
      CheckCap, tables
  <2> QED  BY <2>5, <2>6, <2>7, <2>8, <2>9, <2>10, <2>11 DEF IInv
<1>18. ASSUME NEW c \in Callers, CreateDeposit(c) PROVE IInv'
  <2>1. Shape'  BY <1>1, <1>18, DepositEffect, DepositRest DEF TypeInv, Shape
  <2>2. Counted'
    BY <1>1, <1>18, PayrollAssumption DEF CreateDeposit, TypeInv, Counted, tables, bounds,
      Irregular, Note, Enter, Begin
  <2>3. Posted'
    BY <1>1, <1>18, DepositEffect, DepositRest DEF Went, Same, Others, TypeInv, Posted, Blind,
      Manual, Early
  <2>4. Held'
    BY <1>1, <1>18, DepositEffect, DepositRest, HeldStays, MadeLeaves DEF Went, Same, Others
  <2>5. TypeInv'  BY <2>1, <2>2, <2>3, <2>4 DEF TypeInv
  <2>6. Closing'
    BY <1>1, <1>18, <2>5, DepositEffect, DepositRest, ClosingStays DEF Went, Closers
  <2>7. Collected'
    BY <1>1, <1>18, <2>5, DepositEffect, DepositRest, CollectedStays DEF Went, Others,
      Collecting, Collected
  <2>8. Linked'
    BY <1>1, <1>18, <2>5, DepositEffect, DepositRest, LinkedStays, MadeLeaves DEF Went, Linking
  <2>9. Built'  BY <1>1, <1>18, <2>5, DepositBuilt
  <2>10. Booked'  BY <1>1, <1>18, <2>5, DepositBooked
  <2>11. Slipped'  BY <1>1, <1>18, <2>5, DepositSlipped
  <2> QED  BY <2>5, <2>6, <2>7, <2>8, <2>9, <2>10, <2>11 DEF IInv
<1>19. ASSUME NEW c \in Callers, ReadRunning(c) PROVE IInv'
  <2>1. Shape'  BY <1>1, <1>19, ReadEffect, ReadRest DEF TypeInv, Shape
  <2>2. Counted'
    BY <1>1, <1>19, PayrollAssumption DEF ReadRunning, TypeInv, Counted, tables, bounds,
      Irregular, Note, Enter, Begin
  <2>3. Posted'
    BY <1>1, <1>19, ReadEffect, ReadRest DEF Others, TypeInv, Posted, Blind, Manual, Early
  <2>4. Held'  BY <1>1, <1>19, ReadEffect, ReadRest, HeldStays DEF Others
  <2>5. TypeInv'  BY <2>1, <2>2, <2>3, <2>4 DEF TypeInv
  <2>6. Closing'  BY <1>1, <1>19, <2>5, ReadEffect, ReadRest, ClosingStays DEF Closers
  <2>7. Collected'
    BY <1>1, <1>19, <2>5, ReadEffect, ReadRest, CollectedStays DEF Others, Collecting, Collected
  <2>8. Linked'  BY <1>1, <1>19, <2>5, ReadEffect, ReadRest, LinkedStays DEF Linking, Pays
  <2>9. Built'
    BY <1>1, <1>19, <2>5, ReadEffect, ReadRest, BuiltStays DEF Others, Builds, Building, Own
  <2>10. Booked'
    BY <1>1, <1>19, <2>5, ReadEffect, ReadRest, BookedStays DEF Others, Entering, Deducts
  <2>11. Slipped'
    BY <1>1, <1>19, <2>5, ReadEffect, ReadRest, SlippedQuiet DEF Others, ReadRunning, tables
  <2> QED  BY <2>5, <2>6, <2>7, <2>8, <2>9, <2>10, <2>11 DEF IInv
<1>20. ASSUME NEW c \in Callers, EnterDeposit(c) PROVE IInv'
  <2>1. Shape'  BY <1>1, <1>20, EnterEffect, EnterRest DEF TypeInv, Shape
  <2>2. Counted'
    BY <1>1, <1>20, PayrollAssumption DEF EnterDeposit, TypeInv, Counted, tables, bounds,
      Irregular, Note, Enter, Begin
  <2>3. Posted'  BY <1>1, <1>20, EnterEffect, EnterRest DEF Ended, Others, TypeInv, Posted
  <2>4. Held'  BY <1>1, <1>20, EnterEffect, EnterRest, HeldStays DEF Ended, Others
  <2>5. TypeInv'  BY <2>1, <2>2, <2>3, <2>4 DEF TypeInv
  <2>6. Closing'  BY <1>1, <1>20, <2>5, EnterEffect, EnterRest, ClosingStays DEF Ended
  <2>7. Collected'
    BY <1>1, <1>20, <2>5, EnterEffect, EnterRest, CollectedStays DEF Ended, Others, Collecting,
      Collected
  <2>8. Linked'  BY <1>1, <1>20, <2>5, EnterEffect, EnterRest, LinkedStays DEF Ended, Pays
  <2>9. Built'
    BY <1>1, <1>20, <2>5, EnterEffect, EnterRest, BuiltStays DEF Ended, Others, Builds,
      Building, Own
  <2>10. Booked'  BY <1>1, <1>20, <2>5, EnterBooked
  <2>11. Slipped'
    BY <1>1, <1>20, <2>5, EnterEffect, EnterRest, SlippedQuiet DEF Ended, Others, EnterDeposit,
      tables
  <2> QED  BY <2>5, <2>6, <2>7, <2>8, <2>9, <2>10, <2>11 DEF IInv
<1>21. ASSUME NEW c \in Callers, ListOvertime(c) PROVE IInv'
  <2>1. Shape'  BY <1>1, <1>21, ListEffect, ListRest DEF TypeInv, Shape
  <2>2. Counted'
    BY <1>1, <1>21, PayrollAssumption DEF ListOvertime, TypeInv, Counted, tables, bounds,
      Irregular, Note, Enter, Begin
  <2>3. Posted'
    BY <1>1, <1>21, ListEffect, ListRest DEF Alike, Others, TypeInv, Posted, Blind, Manual,
      Early
  <2>4. Held'  BY <1>1, <1>21, ListEffect, ListRest, HeldStays DEF Alike, Others
  <2>5. TypeInv'  BY <2>1, <2>2, <2>3, <2>4 DEF TypeInv
  <2>6. Closing'  BY <1>1, <1>21, <2>5, ListEffect, ListRest, ClosingStays DEF Closers
  <2>7. Collected'  BY <1>1, <1>21, <2>5, ListEffect, ListRest, CollectedStays DEF Collecting
  <2>8. Linked'
    BY <1>1, <1>21, <2>5, ListEffect, ListRest, LinkedStays DEF Alike, Others, Linking, Linked,
      Pays, Made, Unlinked
  <2>9. Built'
    BY <1>1, <1>21, <2>5, ListEffect, ListRest, BuiltStays DEF Alike, Others, Builds, Building,
      Own
  <2>10. Booked'
    BY <1>1, <1>21, <2>5, ListEffect, ListRest, BookedStays DEF Alike, Others, Entering, Deducts
  <2>11. Slipped'
    BY <1>1, <1>21, <2>5, ListEffect, ListRest, SlippedQuiet DEF Alike, Others, ListOvertime,
      tables
  <2> QED  BY <2>5, <2>6, <2>7, <2>8, <2>9, <2>10, <2>11 DEF IInv
<1>22. ASSUME NEW c \in Callers, Find(c) PROVE IInv'
  <2>1. Shape'  BY <1>1, <1>22, FindEffect, FindRest DEF TypeInv, Shape
  <2>2. Counted'
    BY <1>1, <1>22, PayrollAssumption DEF Find, TypeInv, Counted, tables, bounds, Irregular,
      Note, Enter, Begin
  <2>3. Posted'
    BY <1>1, <1>22, FindEffect, FindRest DEF Alike, Others, TypeInv, Posted, Blind, Manual,
      Early
  <2>4. Held'
    BY <1>1, <1>22, FindEffect, FindRest, HeldStays, PayrollAssumption DEF Alike, Others
  <2>5. TypeInv'  BY <2>1, <2>2, <2>3, <2>4 DEF TypeInv
  <2>6. Closing'  BY <1>1, <1>22, <2>5, FindEffect, FindRest, ClosingStays DEF Closers
  <2>7. Collected'  BY <1>1, <1>22, <2>5, FindEffect, FindRest, CollectedStays DEF Collecting
  <2>8. Linked'  BY <1>1, <1>22, <2>5, FindEffect, FindRest, LinkedStays DEF Linking, Pays
  <2>9. Built'  BY <1>1, <1>22, <2>5, FindBuilt
  <2>10. Booked'
    BY <1>1, <1>22, <2>5, FindEffect, FindRest, BookedStays DEF Alike, Others, Entering, Deducts
  <2>11. Slipped'
    BY <1>1, <1>22, <2>5, FindEffect, FindRest, SlippedQuiet DEF Alike, Others, Find, tables
  <2> QED  BY <2>5, <2>6, <2>7, <2>8, <2>9, <2>10, <2>11 DEF IInv
<1>23. ASSUME NEW c \in Callers, Upsert(c) PROVE IInv'
  <2>1. Shape'  BY <1>1, <1>23, UpsertEffect, UpsertRest DEF TypeInv, Shape
  <2>2. Counted'
    BY <1>1, <1>23, PayrollAssumption DEF Upsert, TypeInv, Counted, tables, bounds, Irregular,
      Note, Enter, Begin
  <2>3. Posted'
    BY <1>1, <1>23, UpsertEffect, UpsertRest DEF Went, Same, Others, TypeInv, Posted, Blind,
      Manual, Early
  <2>4. Held'
    BY <1>1, <1>23, UpsertEffect, UpsertRest, HeldStays, MadeLeaves, ChangedLeaves,
      RemovedLeaves DEF Went, Same, Others
  <2>5. TypeInv'  BY <2>1, <2>2, <2>3, <2>4 DEF TypeInv
  <2>6. Closing'  BY <1>1, <1>23, <2>5, UpsertEffect, UpsertRest, ClosingStays DEF Went, Closers
  <2>7. Collected'
    BY <1>1, <1>23, <2>5, UpsertEffect, UpsertRest, CollectedStays DEF Went, Collecting
  <2>8. Linked'
    BY <1>1, <1>23, <2>5, UpsertEffect, UpsertRest, LinkedStays, MadeLeaves, ChangedLeaves,
      RemovedLeaves DEF Went, Linking
  <2>9. Built'  BY <1>1, <1>23, <2>5, UpsertBuilt
  <2>10. Booked'
    BY <1>1, <1>23, <2>5, UpsertEffect, UpsertRest, BookedStays, ChangedDeducts,
      RemovedDeducts, CollectedTyped DEF Went, Same, Others, Entering, TypeInv, Shape
  <2>11. Slipped'  BY <1>1, <1>23, <2>5, UpsertSlipped
  <2> QED  BY <2>5, <2>6, <2>7, <2>8, <2>9, <2>10, <2>11 DEF IInv
<1>24. ASSUME NEW c \in Callers, Seek(c) PROVE IInv'
  <2>1. Shape'  BY <1>1, <1>24, SeekEffect, SeekRest DEF TypeInv, Shape
  <2>2. Counted'
    BY <1>1, <1>24, PayrollAssumption DEF Seek, TypeInv, Counted, tables, bounds, Irregular,
      Note, Enter, Begin
  <2>3. Posted'
    BY <1>1, <1>24, SeekEffect, SeekRest DEF Went, Ended, Alike, Same, Others, TypeInv, Posted,
      Blind, Manual, Early
  <2>4. Held'
    BY <1>1, <1>24, SeekEffect, SeekRest, HeldStays DEF Went, Ended, Alike, Same, Others
  <2>5. TypeInv'  BY <2>1, <2>2, <2>3, <2>4 DEF TypeInv
  <2>6. Closing'
    BY <1>1, <1>24, <2>5, SeekEffect, SeekRest, ClosingStays DEF Went, Ended, Closers
  <2>7. Collected'
    BY <1>1, <1>24, <2>5, SeekEffect, SeekRest, CollectedStays DEF Went, Ended, Collecting
  <2>8. Linked'
    BY <1>1, <1>24, <2>5, SeekEffect, SeekRest, LinkedStays DEF Went, Ended, Linking, Pays
  <2>9. Built'
    BY <1>1, <1>24, <2>5, SeekEffect, SeekRest, BuiltStays DEF Went, Ended, Alike, Same, Others,
      Builds, Building, Own, TypeInv, Built
  <2>10. Booked'
    BY <1>1, <1>24, <2>5, SeekEffect, SeekRest, BookedStays DEF Went, Ended, Alike, Same,
      Others, Entering, Deducts
  <2>11. Slipped'
    BY <1>1, <1>24, <2>5, SeekEffect, SeekRest, SlippedQuiet DEF Went, Ended, Alike, Same,
      Others, Seek, tables
  <2> QED  BY <2>5, <2>6, <2>7, <2>8, <2>9, <2>10, <2>11 DEF IInv
<1>25. ASSUME NEW c \in Callers, Refresh(c) PROVE IInv'
  <2>1. Shape'  BY <1>1, <1>25, RefreshEffect, RefreshRest DEF TypeInv, Shape
  <2>2. Counted'
    BY <1>1, <1>25, PayrollAssumption DEF Refresh, TypeInv, Counted, tables, bounds, Irregular,
      Note, Enter, Begin
  <2>3. Posted'  BY <1>1, <1>25, RefreshEffect, RefreshRest DEF Ended, Others, TypeInv, Posted
  <2>4. Held'
    BY <1>1, <1>25, RefreshEffect, RefreshRest, HeldStays, ChangedLeaves DEF Ended, Others
  <2>5. TypeInv'  BY <2>1, <2>2, <2>3, <2>4 DEF TypeInv
  <2>6. Closing'  BY <1>1, <1>25, <2>5, RefreshEffect, RefreshRest, ClosingStays DEF Ended
  <2>7. Collected'  BY <1>1, <1>25, <2>5, RefreshEffect, RefreshRest, CollectedStays DEF Ended
  <2>8. Linked'
    BY <1>1, <1>25, <2>5, RefreshEffect, RefreshRest, LinkedStays, ChangedLeaves DEF Ended
  <2>9. Built'  BY <1>1, <1>25, <2>5, RefreshBuilt
  <2>10. Booked'
    BY <1>1, <1>25, <2>5, RefreshEffect, RefreshRest, BookedStays, ChangedDeducts DEF Ended,
      Others, Entering
  <2>11. Slipped'  BY <1>1, <1>25, <2>5, RefreshSlipped
  <2> QED  BY <2>5, <2>6, <2>7, <2>8, <2>9, <2>10, <2>11 DEF IInv
<1>26. ASSUME NEW c \in Callers, ChooseCycle(c) PROVE IInv'
  <2>1. Shape'  BY <1>1, <1>26, ChooseEffect, ChooseRest DEF TypeInv, Shape
  <2>2. Counted'
    BY <1>1, <1>26, PayrollAssumption DEF ChooseCycle, TypeInv, Counted, tables, bounds,
      Irregular, Note, Enter, Begin
  <2>3. Posted'
    BY <1>1, <1>26, ChooseEffect, ChooseRest DEF Ended, Others, TypeInv, Posted, Blind, Manual,
      Early
  <2>4. Held'  BY <1>1, <1>26, ChooseEffect, ChooseRest, HeldStays DEF Ended, Others
  <2>5. TypeInv'  BY <2>1, <2>2, <2>3, <2>4 DEF TypeInv
  <2>6. Closing'
    BY <1>1, <1>26, <2>5, ChooseEffect, ChooseRest, ClosingStays DEF Ended, Closers
  <2>7. Collected'
    BY <1>1, <1>26, <2>5, ChooseEffect, ChooseRest, CollectedStays DEF Ended, Collecting
  <2>8. Linked'
    BY <1>1, <1>26, <2>5, ChooseEffect, ChooseRest, LinkedStays DEF Ended, Linking, Pays
  <2>9. Built'
    BY <1>1, <1>26, <2>5, ChooseEffect, ChooseRest, BuiltStays DEF Ended, Others, Builds,
      Building, Own
  <2>10. Booked'
    BY <1>1, <1>26, <2>5, ChooseEffect, ChooseRest, BookedStays DEF Ended, Others, Entering,
      Deducts
  <2>11. Slipped'
    BY <1>1, <1>26, <2>5, ChooseEffect, ChooseRest, SlippedQuiet DEF Ended, Others, ChooseCycle,
      tables
  <2> QED  BY <2>5, <2>6, <2>7, <2>8, <2>9, <2>10, <2>11 DEF IInv
<1>27. ASSUME NEW c \in Callers, Crash(c) PROVE IInv'
  <2>1. Shape'  BY <1>1, <1>27, CrashEffect, CrashRest DEF TypeInv, Shape
  <2>2. Counted'
    BY <1>1, <1>27, PayrollAssumption DEF Crash, TypeInv, Counted, tables, bounds, Irregular,
      Note, Enter, Begin
  <2>3. Posted'  BY <1>1, <1>27, CrashEffect, CrashRest DEF Ended, Others, TypeInv, Posted
  <2>4. Held'  BY <1>1, <1>27, CrashEffect, CrashRest, HeldStays DEF Ended, Others
  <2>5. TypeInv'  BY <2>1, <2>2, <2>3, <2>4 DEF TypeInv
  <2>6. Closing'  BY <1>1, <1>27, <2>5, CrashEffect, CrashRest, ClosingStays DEF Ended
  <2>7. Collected'  BY <1>1, <1>27, <2>5, CrashEffect, CrashRest, CollectedStays DEF Ended
  <2>8. Linked'  BY <1>1, <1>27, <2>5, CrashEffect, CrashRest, LinkedStays DEF Ended, Pays
  <2>9. Built'
    BY <1>1, <1>27, <2>5, CrashEffect, CrashRest, BuiltStays DEF Ended, Others, Builds,
      Building, Own
  <2>10. Booked'
    BY <1>1, <1>27, <2>5, CrashEffect, CrashRest, BookedStays DEF Ended, Others, Entering,
      Deducts, Crash, Booked
  <2>11. Slipped'
    BY <1>1, <1>27, <2>5, CrashEffect, CrashRest, SlippedQuiet DEF Ended, Others, Crash, tables
  <2> QED  BY <2>5, <2>6, <2>7, <2>8, <2>9, <2>10, <2>11 DEF IInv
<1>28. ASSUME NEW c \in Callers, NEW type \in Entered, NEW amount \in
  Amounts, AddItem(c, type, amount) PROVE IInv'
  <2>1. Shape'  BY <1>1, <1>28, AddEffect, AddRest DEF TypeInv, Shape
  <2>2. Counted'
    BY <1>1, <1>28, PayrollAssumption DEF AddItem, TypeInv, Counted, tables, bounds, Irregular,
      Note, Enter, Begin
  <2>3. Posted'
    BY <1>1, <1>28, AddEffect, AddRest DEF Went, Same, Others, TypeInv, Posted, Blind, Manual,
      Early
  <2>4. Held'  BY <1>1, <1>28, AddEffect, AddRest, HeldStays, MadeLeaves DEF Went, Same, Others
  <2>5. TypeInv'  BY <2>1, <2>2, <2>3, <2>4 DEF TypeInv
  <2>6. Closing'  BY <1>1, <1>28, <2>5, AddEffect, AddRest, ClosingStays DEF Went, Closers
  <2>7. Collected'
    BY <1>1, <1>28, <2>5, AddEffect, AddRest, CollectedStays DEF Went, Collecting
  <2>8. Linked'
    BY <1>1, <1>28, <2>5, AddEffect, AddRest, LinkedStays, MadeLeaves DEF Went, Linking
  <2>9. Built'
    BY <1>1, <1>28, <2>5, AddEffect, AddRest, BuiltStays, MadeLeaves DEF Went, Same, Others,
      Builds, Building
  <2>10. Booked'
    BY <1>1, <1>28, <2>5, AddEffect, AddRest, BookedStays DEF Went, Same, Others,
      Entering
  <2>11. Slipped'  BY <1>1, <1>28, <2>5, AddSlipped
  <2> QED  BY <2>5, <2>6, <2>7, <2>8, <2>9, <2>10, <2>11 DEF IInv
<1>29. ASSUME NEW c \in Callers, NEW amount \in Amounts, UpdateItem(c, amount) PROVE IInv'
  <2>1. Shape'  BY <1>1, <1>29, UpdateEffect, UpdateRest DEF TypeInv, Shape
  <2>2. Counted'
    BY <1>1, <1>29, PayrollAssumption DEF UpdateItem, TypeInv, Counted, tables, bounds,
      Irregular, Note, Enter, Begin
  <2>3. Posted'
    BY <1>1, <1>29, UpdateEffect, UpdateRest DEF Went, Same, Others, TypeInv, Posted, Blind,
      Manual, Early
  <2>4. Held'
    BY <1>1, <1>29, UpdateEffect, UpdateRest, HeldStays, ChangedLeaves DEF Went, Same, Others
  <2>5. TypeInv'  BY <2>1, <2>2, <2>3, <2>4 DEF TypeInv
  <2>6. Closing'  BY <1>1, <1>29, <2>5, UpdateEffect, UpdateRest, ClosingStays DEF Went, Closers
  <2>7. Collected'
    BY <1>1, <1>29, <2>5, UpdateEffect, UpdateRest, CollectedStays DEF Went, Collecting
  <2>8. Linked'
    BY <1>1, <1>29, <2>5, UpdateEffect, UpdateRest, LinkedStays, ChangedLeaves DEF Went, Linking
  <2>9. Built'  BY <1>1, <1>29, <2>5, UpdateBuilt
  <2>10. Booked'
    BY <1>1, <1>29, <2>5, UpdateEffect, UpdateRest, BookedStays, ChangedDeducts DEF Went, Same,
      Others, Entering
  <2>11. Slipped'  BY <1>1, <1>29, <2>5, UpdateSlipped
  <2> QED  BY <2>5, <2>6, <2>7, <2>8, <2>9, <2>10, <2>11 DEF IInv
<1>30. ASSUME NEW c \in Callers, NEW amount \in Amounts \cup {0}, NEW due \in BOOLEAN,
  Compute(c, amount, due) PROVE IInv'
  <2>1. Shape'  BY <1>1, <1>30, ComputeEffect, ComputeRest DEF TypeInv, Shape
  <2>2. Counted'
    BY <1>1, <1>30, PayrollAssumption DEF Compute, TypeInv, Counted, tables, bounds, Irregular,
      Note, Enter, Begin
  <2>3. Posted'
    BY <1>1, <1>30, ComputeEffect, ComputeRest DEF Alike, Others, TypeInv, Posted, Blind,
      Manual, Early
  <2>4. Held'  BY <1>1, <1>30, ComputeEffect, ComputeRest, HeldStays DEF Alike, Others
  <2>5. TypeInv'  BY <2>1, <2>2, <2>3, <2>4 DEF TypeInv
  <2>6. Closing'
    BY <1>1, <1>30, <2>5, ComputeEffect, ComputeRest, ClosingStays DEF Closers
  <2>7. Collected'
    BY <1>1, <1>30, <2>5, ComputeEffect, ComputeRest, CollectedStays DEF Collecting
  <2>8. Linked'
    BY <1>1, <1>30, <2>5, ComputeEffect, ComputeRest, LinkedStays DEF Linking, Pays
  <2>9. Built'
    BY <1>1, <1>30, <2>5, ComputeEffect, ComputeRest, BuiltStays DEF Alike, Others, Builds,
      Building, Own
  <2>10. Booked'
    BY <1>1, <1>30, <2>5, ComputeEffect, ComputeRest, BookedStays DEF Alike, Others,
      Entering, Deducts
  <2>11. Slipped'
    BY <1>1, <1>30, <2>5, ComputeEffect, ComputeRest, SlippedQuiet DEF Alike, Others,
      Compute, tables
  <2> QED  BY <2>5, <2>6, <2>7, <2>8, <2>9, <2>10, <2>11 DEF IInv
<1>31. ASSUME NEW c \in Callers, NEW o \in Overtimes, Link(c, o) PROVE IInv'
  <2>1. Shape'  BY <1>1, <1>31, LinkEffect, LinkRest DEF TypeInv, Shape
  <2>2. Counted'
    BY <1>1, <1>31, PayrollAssumption DEF Link, TypeInv, Counted, tables, bounds, Irregular,
      Note, Enter, Begin
  <2>3. Posted'
    BY <1>1, <1>31, LinkEffect, LinkRest DEF Ended, Alike, Others, TypeInv, Posted, Blind,
      Manual
  <2>4. Held'
    BY <1>1, <1>31, LinkEffect, LinkRest, HeldStays, MadeLeaves DEF Ended, Alike, Others
  <2>5. TypeInv'  BY <2>1, <2>2, <2>3, <2>4 DEF TypeInv
  <2>6. Closing'  BY <1>1, <1>31, <2>5, LinkEffect, LinkRest, ClosingStays DEF Ended, Closers
  <2>7. Collected'
    BY <1>1, <1>31, <2>5, LinkEffect, LinkRest, CollectedStays DEF Ended, Collecting
  <2>8. Linked'  BY <1>1, <1>31, <2>5, LinkLinked
  <2>9. Built'
    BY <1>1, <1>31, <2>5, LinkEffect, LinkRest, BuiltStays, MadeLeaves DEF Ended, Alike, Others,
      Builds, Building
  <2>10. Booked'
    BY <1>1, <1>31, <2>5, LinkEffect, LinkRest, BookedStays DEF Ended, Alike,
      Others, Entering
  <2>11. Slipped'  BY <1>1, <1>31, <2>5, LinkSlipped
  <2> QED  BY <2>5, <2>6, <2>7, <2>8, <2>9, <2>10, <2>11 DEF IInv
<1>32. ASSUME NEW c \in Callers, NEW type \in Scheduled, ApplyScheduled(c, type) PROVE IInv'
  <2>1. Shape'  BY <1>1, <1>32, ApplyEffect, ApplyRest DEF TypeInv, Shape
  <2>2. Counted'
    BY <1>1, <1>32, PayrollAssumption DEF ApplyScheduled, TypeInv, Counted, bounds, Irregular, Note
  <2>3. Posted'
    BY <1>1, <1>32, ApplyEffect, ApplyRest DEF Alike, Others, TypeInv, Posted, Blind, Manual, Early
  <2>4. Held'  BY <1>1, <1>32, ApplyEffect, ApplyRest, HeldStays, MadeLeaves DEF Alike, Others
  <2>5. TypeInv'  BY <2>1, <2>2, <2>3, <2>4 DEF TypeInv
  <2>6. Closing'  BY <1>1, <1>32, <2>5, ApplyEffect, ApplyRest, ClosingStays DEF Closers
  <2>7. Collected'
    BY <1>1, <1>32, <2>5, ApplyEffect, ApplyRest, CollectedStays DEF Collecting
  <2>8. Linked'
    BY <1>1, <1>32, <2>5, ApplyEffect, ApplyRest, LinkedStays, MadeLeaves DEF Linking
  <2>9. Built'
    BY <1>1, <1>32, <2>5, ApplyEffect, ApplyRest, BuiltStays, MadeLeaves DEF Alike, Others,
      Builds, Building
  <2>10. Booked'
    BY <1>1, <1>32, <2>5, ApplyEffect, ApplyRest, BookedStays DEF Alike, Others,
      Entering
  <2>11. Slipped'  BY <1>1, <1>32, <2>5, ApplySlipped
  <2> QED  BY <2>5, <2>6, <2>7, <2>8, <2>9, <2>10, <2>11 DEF IInv
<1>33. CASE UNCHANGED vars
  <2>1. Shape'  BY <1>1, <1>33 DEF vars, tables, bounds, TypeInv, Shape, CallsOK
  <2>2. Counted'  BY <1>1, <1>33 DEF vars, tables, bounds, TypeInv, Counted
  <2>3. Posted'  BY <1>1, <1>33 DEF vars, tables, bounds, TypeInv, Posted
  <2>4. Held'  BY <1>1, <1>33 DEF vars, tables, bounds, TypeInv, Held
  <2>5. TypeInv'  BY <2>1, <2>2, <2>3, <2>4 DEF TypeInv
  <2>6. Closing'  BY <1>1, <1>33 DEF vars, tables, bounds, TypeInv, Closing
  <2>7. Collected'  BY <1>1, <1>33 DEF vars, tables, bounds, TypeInv, Collected
  <2>8. Linked'  BY <1>1, <1>33 DEF vars, tables, bounds, TypeInv, Linked, Pays
  <2>9. Built'  BY <1>1, <1>33 DEF vars, tables, bounds, TypeInv, Built, Own, Builds
  <2>10. Booked'  BY <1>1, <1>33 DEF vars, tables, bounds, TypeInv, Booked, Deducted, Deducts,
    Entering, In
  <2>11. Slipped'
    <3>1. \A k \in Cycles : Totals(k)' = Totals(k)  BY <1>33, TotalsSame DEF vars, tables
    <3> QED  BY <1>1, <1>33, <3>1 DEF vars, tables, bounds, Slipped, Stale, Quiet, In, On
  <2> QED  BY <2>5, <2>6, <2>7, <2>8, <2>9, <2>10, <2>11 DEF IInv
<1> QED
  BY <1>2, <1>3, <1>4, <1>5, <1>6, <1>7, <1>8, <1>9, <1>10, <1>11, <1>12, <1>13, <1>14, <1>15,
    <1>16, <1>17, <1>18, <1>19, <1>20, <1>21, <1>22, <1>23, <1>24, <1>25, <1>26, <1>27, <1>28,
    <1>29, <1>30, <1>31, <1>32, <1>33 DEF Next, Arrive, Progress
-----------------------------------------------------------------------------
\* Only a few steps change the status of a cycle ...
LEMMA CycleSteps ==
  ASSUME Next
  PROVE  \/ UNCHANGED cycle
         \/ \E k \in Cycles : OpenCycle(k)
         \/ \E c \in Callers : SaveCycle(c)
<1>1. CASE \E k \in Cycles, i \in Items : ResolveBonus(k, i)  BY <1>1 DEF ResolveBonus
<1>2. CASE \E o \in Overtimes : ApproveOvertime(o)  BY <1>2 DEF ApproveOvertime
<1>3. CASE \E c \in Callers, k \in Cycles : Arrive(c, k)
  BY <1>3 DEF Arrive, BeginLock, BeginPay, BeginAdd, BeginPayslip, BeginDeposit, BeginBuild,
              BeginEdit, tables
<1>4. CASE \E c \in Callers, o \in Overtimes : BeginLink(c, o)  BY <1>4 DEF BeginLink, tables
<1>5. CASE \E c \in Callers : Crash(c)  BY <1>5 DEF Crash, tables
<1>6. ASSUME NEW c \in Callers, Progress(c), ~SaveCycle(c) PROVE UNCHANGED cycle
  BY <1>6, DeleteRest, InvalidateRest, WriteRest, CapRest, DepositRest, ReadRest, EnterRest,
     ListRest, FindRest, UpsertRest, SeekRest, RefreshRest, ChooseRest, AddRest, UpdateRest,
     ComputeRest, LinkRest, ApplyRest
  DEF Progress
<1> QED  BY <1>1, <1>2, <1>3, <1>4, <1>5, <1>6 DEF Next

\* ... or the items.
Writes(c) ==
    \/ DeleteItem(c) \/ CreateDeposit(c) \/ Upsert(c) \/ Refresh(c)
    \/ \E type \in Entered, amount \in Amounts : AddItem(c, type, amount)
    \/ \E amount \in Amounts : UpdateItem(c, amount)
    \/ \E o \in Overtimes : Link(c, o)
    \/ \E type \in Scheduled : ApplyScheduled(c, type)

\* The items change only by a write of a call, or by a rejection.
LEMMA ItemSteps ==
  ASSUME Next
  PROVE  \/ UNCHANGED item
         \/ \E k \in Cycles, i \in Items : ResolveBonus(k, i)
         \/ \E c \in Callers : Writes(c)
<1>1. CASE \E k \in Cycles : OpenCycle(k)  BY <1>1 DEF OpenCycle
<1>2. CASE \E o \in Overtimes : ApproveOvertime(o)  BY <1>2 DEF ApproveOvertime
<1>3. CASE \E c \in Callers, k \in Cycles : Arrive(c, k)
  BY <1>3 DEF Arrive, BeginLock, BeginPay, BeginAdd, BeginPayslip, BeginDeposit, BeginBuild,
              BeginEdit, tables
<1>4. CASE \E c \in Callers, o \in Overtimes : BeginLink(c, o)  BY <1>4 DEF BeginLink, tables
<1>5. CASE \E c \in Callers : Crash(c)  BY <1>5 DEF Crash, tables
<1>6. ASSUME NEW c \in Callers, Progress(c), ~Writes(c) PROVE UNCHANGED item
  BY <1>6, SaveRest, InvalidateRest, WriteRest, CapRest, ReadRest, EnterRest, ListRest,
     FindRest, SeekRest, ChooseRest, ComputeRest
  DEF Progress, Writes
<1> QED  BY <1>1, <1>2, <1>3, <1>4, <1>5, <1>6 DEF Next

\* Whoever changes an item goes on, and has seen its cycle open.
LEMMA WriterSaw ==
  ASSUME TypeInv, NEW c \in Callers, Writes(c)
  PROVE  /\ call[c] # Null /\ call'[c] # call[c] /\ Others(c) /\ call[c].seen = "open"
         /\ \A i \in Items : item'[i] # item[i] => item'[i].on = call[c].on
<1>1. CASE DeleteItem(c)
  BY <1>1, DeleteEffect DEF Went, Removed, TypeInv, Posted, Held, Blind
<1>2. CASE CreateDeposit(c)
  BY <1>2, DepositEffect DEF Went, Made, TypeInv, Posted, Blind
<1>3. CASE Upsert(c)
  BY <1>3, UpsertEffect DEF Went, Made, Removed, Changed, TypeInv, Posted, Held, Blind
<1>4. CASE Refresh(c)
  BY <1>4, RefreshEffect DEF Ended, Changed, TypeInv, Posted, Held, Blind
<1>5. CASE \E type \in Entered, amount \in Amounts : AddItem(c, type, amount)
  BY <1>5, AddEffect DEF Went, Made, TypeInv, Posted, Blind
<1>6. CASE \E amount \in Amounts : UpdateItem(c, amount)
  BY <1>6, UpdateEffect DEF Went, Changed, TypeInv, Posted, Held, Blind
<1>7. CASE \E o \in Overtimes : Link(c, o)
  BY <1>7, LinkEffect DEF Ended, Made, TypeInv, Posted, Blind
<1>8. CASE \E type \in Scheduled : ApplyScheduled(c, type)
  BY <1>8, ApplyEffect DEF Made, TypeInv, Posted, Blind
<1> QED  BY <1>1, <1>2, <1>3, <1>4, <1>5, <1>6, <1>7, <1>8 DEF Writes

\* The builder makes new items and changes those it found to be its own.
LEMMA BuilderKeeps ==
  ASSUME TypeInv, Built, "builder" \notin hits, NEW c \in Callers, Writes(c),
         call[c].by = "builder", NEW i \in Items, item[i].on # Null, item[i].by = "manual"
  PROVE  item'[i] = item[i]
<1>1. CASE DeleteItem(c)  BY <1>1, DeleteEffect DEF TypeInv, Posted, Manual
<1>2. CASE CreateDeposit(c)  BY <1>2, DepositEffect DEF Made
<1>3. CASE Upsert(c)
  <2>1. Builds(c)  BY <1>3, UpsertEffect DEF Builds, Building
  <2>2. call[c].id # Null => item[call[c].id].by = "builder"
    BY <1>3, <2>1, UpsertEffect DEF Built
  <2> QED  BY <1>3, <2>2, UpsertEffect DEF Made, Removed, Changed
<1>4. CASE Refresh(c)
  <2>1. Builds(c)  BY <1>4, RefreshEffect DEF Builds, Building
  <2>2. item[call[c].id].by = "builder"  BY <1>4, <2>1, RefreshEffect DEF Built
  <2> QED  BY <1>4, <2>2, RefreshEffect DEF Changed
<1>5. CASE \E type \in Entered, amount \in Amounts : AddItem(c, type, amount)
  BY <1>5, AddEffect DEF TypeInv, Posted, Manual
<1>6. CASE \E amount \in Amounts : UpdateItem(c, amount)
  BY <1>6, UpdateEffect DEF TypeInv, Posted, Manual
<1>7. CASE \E o \in Overtimes : Link(c, o)
  BY <1>7, LinkEffect DEF Made
<1>8. CASE \E type \in Scheduled : ApplyScheduled(c, type)
  BY <1>8, ApplyEffect DEF Made
<1> QED  BY <1>1, <1>2, <1>3, <1>4, <1>5, <1>6, <1>7, <1>8 DEF Writes

\* A set whose members are all the same has one at most.
LEMMA AtMostOne ==
  ASSUME NEW S, \A x, y \in S : x = y
  PROVE  Cardinality(S) <= 1
<1>1. CASE S = {}  BY <1>1, FS_EmptySet
<1>2. CASE S # {}
  <2>1. PICK x \in S : S = {x}  BY <1>2
  <2> QED  BY <2>1, FS_Singleton
<1> QED  BY <1>1, <1>2
-----------------------------------------------------------------------------
\* Every table and every call keeps its type; in particular no item is without an
\* amount, and no payslip has anything but sums of amounts.
THEOREM TypeCorrect == Spec => []TypeOK
<1>1. IInv => TypeOK  BY DEF IInv, TypeInv, Shape, Counted, CallsOK, TypeOK
<1> QED  BY <1>1, InitHolds, Step, PTL DEF Spec

\* Unless two collections overlapped, no more is collected than the cap allows, and
\* the running total is the number of deposits.  (create reads the last running total
\* and adds the deposit to it; the cap was compared with it before.)
THEOREM CapKept == Spec => []DepositCap
<1>1. IInv => DepositCap  BY DEF IInv, Collected, DepositCap
<1> QED  BY <1>1, InitHolds, Step, PTL DEF Spec

\* Unless a call broke off in between or one was deleted by hand, the ledger has a row for
\* each monthly deposit among the items, but for those that are being entered, whatever
\* deposits HR entered as items, by hand or by schedule.
THEOREM LedgerComplete == Spec => []LedgerMatchesItems
<1>1. Deposits = Deducted  BY DEF Deposits, Deducted, Deducts
<1>2. IInv => LedgerMatchesItems  BY <1>1 DEF IInv, Booked, Entering, LedgerMatchesItems
<1> QED  BY <1>2, InitHolds, Step, PTL DEF Spec

\* Unless two calls were about to link it at once, an overtime record has one item that
\* pays it at most.  (syncApprovedOvertime and linkApprovedOtToOpenPayroll pick records
\* without a payrollItemId, and set it with the item they create.)
THEOREM PaidOnce == Spec => []OvertimePaidOnce
<1>1. ASSUME Linked, "overtime" \notin hits, NEW o \in Overtimes PROVE Cardinality(Paying(o)) <= 1
  <2>1. \A i, j \in Paying(o) : i = j  BY <1>1 DEF Linked, Pays, Paying
  <2> QED  BY <2>1, AtMostOne
<1>2. IInv => OvertimePaidOnce  BY <1>1 DEF IInv, OvertimePaidOnce
<1> QED  BY <1>2, InitHolds, Step, PTL DEF Spec

\* Unless two builds overlapped, a cycle has one item of the builder's of each type,
\* however often it is built.  (upsertBuilderItem and upsertDeposit look for one first.)
THEOREM NoDuplicates == Spec => []BuiltOnce
<1>1. ASSUME Built, "builder" \notin hits, NEW k \in Cycles,
             NEW type \in {"meal_allowance", "deposit"}
      PROVE  Cardinality({i \in Of(k, type) : item[i].by = "builder"}) <= 1
  <2>1. \A i, j \in {n \in Of(k, type) : item[n].by = "builder"} : i = j
    BY <1>1 DEF Built, Own, Of, Live
  <2> QED  BY <2>1, AtMostOne
<1>2. IInv => BuiltOnce  BY <1>1 DEF IInv, BuiltOnce
<1> QED  BY <1>2, InitHolds, Step, PTL DEF Spec

\* Unless an edit came while it was computed, a call broke off before it invalidated, or
\* something that does not invalidate changed the items, a payslip adds up the items of
\* its cycle as they are.
THEOREM PayslipAddsUp == Spec => []PayslipMatches
<1>1. \A k : On(k, {"invalidating"}) = {} => ~Stale(k)  BY DEF On, Stale
<1>2. IInv => PayslipMatches  BY <1>1 DEF IInv, Slipped, PayslipMatches
<1> QED  BY <1>2, InitHolds, Step, PTL DEF Spec

\* Unless two calls that close it overlapped, a cycle goes from open to locked to paid.
\* (lockCycle and markPaid assert the status and save it later.)
THEOREM NeverBack == Spec => StatusAdvances
<1> DEFINE Advances == \A k \in Cycles : Rank(cycle'[k]) < Rank(cycle[k]) => "lock" \in hits
<1>1. IInv /\ [Next]_vars => [Advances]_vars
  <2> SUFFICES ASSUME IInv, Next PROVE Advances
    OBVIOUS
  <2>1. \A k \in Cycles : cycle[k] \in Status  BY DEF IInv, TypeInv, Shape
  <2>2. \A s \in Status : ~(Rank(s) < Rank(s))  BY DEF Rank, Status
  <2>3. CASE UNCHANGED cycle  BY <2>1, <2>2, <2>3
  <2>4. ASSUME NEW k \in Cycles, OpenCycle(k) PROVE Advances
    <3>1. \A j \in Cycles : \/ cycle'[j] = cycle[j]
                            \/ cycle[j] = "none" /\ cycle'[j] = "open"
      BY <2>4 DEF OpenCycle, IInv, TypeInv, Shape
    <3> QED  BY <2>1, <2>2, <3>1 DEF Rank
  <2>5. ASSUME NEW c \in Callers, SaveCycle(c), "lock" \notin hits PROVE Advances
    <3>1. cycle[call[c].on] = IF call[c].at = "locking" THEN "open" ELSE "locked"
      BY <2>5, SaveEffect DEF IInv, Closing
    <3>2. \A j \in Cycles : \/ cycle'[j] = cycle[j]
                            \/ cycle[j] = "open" /\ cycle'[j] = "locked"
                            \/ cycle[j] = "locked" /\ cycle'[j] = "paid"
      BY <2>5, <3>1, SaveEffect DEF IInv
    <3> QED  BY <2>1, <2>2, <3>2 DEF Rank
  <2> QED  BY <2>3, <2>4, <2>5, CycleSteps
<1> QED  BY <1>1, InitHolds, Step, PTL DEF Spec, StatusAdvances

\* The items of a cycle that is not open change only through a call that saw it open, or
\* with the rejection of a bonus.  (Each service call asserts the status of the cycle
\* before it writes, and does not look again.)
THEOREM ClosedKept == Spec => ClosedUnchanged
<1> DEFINE Excused ==
      \A i \in Items :
          /\ item'[i].on # Null
          /\ item'[i] # item[i]
          /\ cycle[item'[i].on] # "open"
          => \/ item'[i].type = "bonus" /\ item'[i].deleted
             \/ \E c \in Callers : /\ call[c] # Null
                                   /\ call'[c] # call[c]
                                   /\ call[c].on = item'[i].on
                                   /\ call[c].seen = "open"
<1>1. IInv /\ [Next]_vars => [Excused]_vars
  <2> SUFFICES ASSUME IInv, Next PROVE Excused
    OBVIOUS
  <2>1. CASE UNCHANGED item  BY <2>1
  <2>2. CASE \E k \in Cycles, i \in Items : ResolveBonus(k, i)
    BY <2>2, ResolveEffect DEF IInv, ResolveBonus, Of, Removed
  <2>3. CASE \E c \in Callers : Writes(c)
    BY <2>3, WriterSaw DEF IInv
  <2> QED  BY <2>1, <2>2, <2>3, ItemSteps
<1> QED  BY <1>1, InitHolds, Step, PTL DEF Spec, ClosedUnchanged

\* Unless an edit came between its look and its write, the builder leaves what was entered
\* or edited by hand as it is.  (Its items are told by their note.)
THEOREM ManualKept == Spec => ManualSurvives
<1> DEFINE Spared ==
      \A c \in Callers :
          /\ call[c] # Null
          /\ call[c].by = "builder"
          /\ call'[c] # call[c]
          /\ "builder" \notin hits
          => \A i \in Items : item[i].on # Null /\ item[i].by = "manual" => item'[i] = item[i]
<1>1. IInv /\ [Next]_vars => [Spared]_vars
  <2> SUFFICES ASSUME IInv, Next PROVE Spared
    OBVIOUS
  <2>1. CASE UNCHANGED item  BY <2>1
  <2>2. CASE \E k \in Cycles, i \in Items : ResolveBonus(k, i)
    BY <2>2 DEF ResolveBonus
  <2>3. CASE \E c \in Callers : Writes(c)
    BY <2>3, WriterSaw, BuilderKeeps DEF IInv, Others
  <2> QED  BY <2>1, <2>2, <2>3, ItemSteps
<1> QED  BY <1>1, InitHolds, Step, PTL DEF Spec, ManualSurvives
=============================================================================
