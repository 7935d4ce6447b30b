------------------------------ MODULE Payroll ------------------------------
(***************************************************************************)
(* The payroll cycles of one company, seen from one of its employees: the  *)
(* life of a cycle, the items HR enters by hand, the monthly deposit and   *)
(* its ledger, the builder that computes the items of an open cycle, the   *)
(* link from approved overtime to its item, and the payslip.               *)
(*                                                                         *)
(* Every call asserts the status of the cycle when it starts and writes    *)
(* later without looking again, one table after another.                   *)
(***************************************************************************)
EXTENDS Integers, FiniteSets, Functions

CONSTANTS
    Cycles,     \* ids of payroll cycles, by the order of their periods
    Callers,    \* handlers of API calls and outbox events
    Items,      \* ids of payroll items
    Overtimes,  \* ids of overtime records
    Amounts,    \* amounts an item may have
    Entered,    \* types of the items HR enters by hand
    Scheduled,  \* types of the items HR has scheduled
    Cap,        \* the maximum balance, in monthly deposits
    MaxCalls,   \* bound: calls
    MaxCrashes, \* bound: calls that break off
    Null

ASSUME PayrollAssumption ==
    /\ Cycles \subseteq Nat
    /\ Amounts \subseteq Nat \ {0}
    /\ Entered \cup Scheduled \subseteq {"bonus", "meal_allowance", "deposit", "ot"}
    /\ Cap \in Nat
    /\ MaxCalls \in Nat
    /\ MaxCrashes \in Nat
    /\ IsFiniteSet(Items) /\ IsFiniteSet(Callers)
    /\ Null \notin Items \cup Overtimes \cup Cycles

VARIABLES
    cycle,   \* status of each cycle
    item,    \* the payroll_items table
    ledger,  \* the deposits table: its rows, and the last row's runningTotal
    ot,      \* status and payrollItemId of each overtime record
    payslip, \* the payslip of each cycle
    call,    \* what each caller is doing
    calls,   \* calls so far, up to MaxCalls
    crashes, \* calls broken off so far, up to MaxCrashes
    hits     \* history: the irregularities that happened

tables == <<cycle, item, ledger, ot, payslip>>
bounds == <<calls, crashes>>
vars   == <<tables, call, bounds, hits>>

Types     == {"bonus", "meal_allowance", "deposit", "ot"}
Status    == {"none", "open", "locked", "paid"}
Irregular == {"lock", "deposit", "uncollected", "overtime", "builder", "payslip"}
\* An item is collected if it was made as the monthly deposit (history: it keeps apart
\* deposits that HR entered as items), and it names the record it was linked to.
Item      == {i \in [on : Cycles \cup {Null}, type : Types, by : {"builder", "manual"},
                     amount : Amounts \cup {1}, ot : Overtimes \cup {Null},
                     collected : BOOLEAN, deleted : BOOLEAN] :
                 i.collected => i.type = "deposit"}
Slip      == [gross : Nat, deductions : Nat]
Places    == {"locking", "paying", "adding", "editing", "deleting", "invalidating",
              "computing", "listing", "choosing", "linking", "finding", "upserting",
              "seeking", "refreshing", "capping", "collecting", "booking", "entering",
              "summing"}
Call      == [on : Cycles \cup {Null}, at : Places, seen : Status, by : {"builder", "manual"},
              id : Items \cup {Null}, todo : SUBSET Overtimes,
              amount : Amounts \cup {0, 1}, due : BOOLEAN, read : Nat, slip : Slip]

ASSUME NullAssumption == Null \notin Call

Live(k)       == {i \in Items : item[i].on = k /\ ~item[i].deleted}
Of(k, type)   == {i \in Live(k) : item[i].type = type}
Deposits      == {i \in Items : item[i].on # Null /\ item[i].collected /\ ~item[i].deleted}
Paying(o)     == {i \in Items : item[i].on # Null /\ item[i].ot = o /\ ~item[i].deleted}
Total(S)      == SumFunction([i \in S |-> item[i].amount])
Totals(k)     == [gross      |-> Total(Live(k) \ Of(k, "deposit")),
                  deductions |-> Total(Of(k, "deposit"))]
On(k, places) == {c \in Callers : call[c] # Null /\ call[c].on = k /\ call[c].at \in places}
In(places)    == {c \in Callers : call[c] # Null /\ call[c].at \in places}
Builders(k)   == {c \in On(k, {"upserting", "refreshing", "capping", "collecting"}) :
                    call[c].by = "builder"}
NewItem       == CHOOSE i \in Items : item[i].on = Null
OpenCycles    == {k \in Cycles : cycle[k] = "open"}

Init ==
    /\ cycle = [k \in Cycles |-> "none"]
    /\ item = [i \in Items |-> [on |-> Null, type |-> "bonus", by |-> "manual", amount |-> 1,
                                ot |-> Null, collected |-> FALSE, deleted |-> FALSE]]
    /\ ledger = [rows |-> 0, running |-> 0]
    /\ ot = [o \in Overtimes |-> [status |-> "pending", item |-> Null]]
    /\ payslip = [k \in Cycles |-> Null]
    /\ call = [c \in Callers |-> Null]
    /\ calls = 0
    /\ crashes = 0
    /\ hits = {}
-----------------------------------------------------------------------------
(***************************************************************************)
(* The parts the actions are made of.                                      *)
(***************************************************************************)
At(c, place)   == call[c] # Null /\ call[c].at = place
Goto(c, place) == call' = [call EXCEPT ![c].at = place]
End(c)         == call' = [call EXCEPT ![c] = Null]

Fresh(k, place, by) ==
    [on |-> k, at |-> place, seen |-> IF k = Null THEN "none" ELSE cycle[k], by |-> by,
     id |-> Null, todo |-> {}, amount |-> 1, due |-> FALSE, read |-> 0,
     slip |-> [gross |-> 0, deductions |-> 0]]

Enter(c, new) ==
    /\ call[c] = Null
    /\ calls < MaxCalls
    /\ calls' = calls + 1
    /\ call' = [call EXCEPT ![c] = new]

Begin(c, k, place, by) == Enter(c, Fresh(k, place, by))

\* What happened is irregular if the condition holds.
Note(condition, what) == hits' = IF condition THEN hits \cup {what} ELSE hits

\* Items of the cycle change, and the payslip will not be invalidated or is
\* being computed.
Unseen(k) == payslip[k] # Null \/ On(k, {"summing"}) # {}

Create(k, type, by, amount, o, collected) ==
    /\ \E i \in Items : item[i].on = Null
    /\ item' = [item EXCEPT ![NewItem] = [on |-> k, type |-> type, by |-> by,
                                          amount |-> amount, ot |-> o,
                                          collected |-> collected, deleted |-> FALSE]]
-----------------------------------------------------------------------------
(***************************************************************************)
(* The life of a cycle.                                                    *)
(***************************************************************************)
OpenCycle(k) ==
    /\ cycle[k] = "none"
    /\ cycle' = [cycle EXCEPT ![k] = "open"]
    /\ UNCHANGED <<item, ledger, ot, payslip, call, bounds, hits>>

\* Mutant: a cycle is locked whatever its status.
BeginLockAny(c, k) ==
    /\ cycle[k] # "none"
    /\ Begin(c, k, "locking", "manual")
    /\ Note(On(k, {"locking", "paying"}) # {}, "lock")
    /\ UNCHANGED <<tables, crashes>>

BeginLock(c, k) ==
    /\ cycle[k] = "open"
    /\ Begin(c, k, "locking", "manual")
    /\ Note(On(k, {"locking", "paying"}) # {}, "lock")
    /\ UNCHANGED <<tables, crashes>>

BeginPay(c, k) ==
    /\ cycle[k] = "locked"
    /\ Begin(c, k, "paying", "manual")
    /\ Note(On(k, {"locking", "paying"}) # {}, "lock")
    /\ UNCHANGED <<tables, crashes>>

SaveCycle(c) ==
    /\ call[c] # Null
    /\ call[c].at \in {"locking", "paying"}
    /\ cycle' = [cycle EXCEPT ![call[c].on] = IF call[c].at = "locking" THEN "locked"
                                                                        ELSE "paid"]
    /\ End(c)
    /\ UNCHANGED <<item, ledger, ot, payslip, bounds, hits>>
-----------------------------------------------------------------------------
(***************************************************************************)
(* Items entered by hand; each edit ends with invalidatePayslip.           *)
(***************************************************************************)
\* Mutant: the status of the cycle is not asserted.
BeginAddAny(c, k) ==
    /\ cycle[k] # "none"
    /\ Begin(c, k, "adding", "manual")
    /\ UNCHANGED <<tables, crashes, hits>>

BeginAdd(c, k) ==
    /\ cycle[k] = "open"
    /\ Begin(c, k, "adding", "manual")
    /\ UNCHANGED <<tables, crashes, hits>>

AddItem(c, type, amount) ==
    LET k == call[c].on IN
    /\ At(c, "adding")
    /\ Create(k, type, "manual", amount, Null, FALSE)
    /\ Goto(c, "invalidating")
    /\ Note(On(k, {"summing"}) # {}, "payslip")
    /\ UNCHANGED <<cycle, ledger, ot, payslip, bounds>>

BeginEdit(c, k, i, place) ==
    /\ cycle[k] = "open"
    /\ i \in Live(k)
    /\ Enter(c, [Fresh(k, place, "manual") EXCEPT !.id = i])
    /\ UNCHANGED <<tables, crashes, hits>>

\* Mutant: the payslip is not invalidated.
UpdateOnly(c, amount) ==
    /\ At(c, "editing")
    /\ item' = [item EXCEPT ![call[c].id].amount = amount, ![call[c].id].by = "manual"]
    /\ End(c)
    /\ hits' = hits \cup (IF On(call[c].on, {"summing"}) # {} THEN {"payslip"} ELSE {})
                    \cup (IF Builders(call[c].on) # {} THEN {"builder"} ELSE {})
    /\ UNCHANGED <<cycle, ledger, ot, payslip, bounds>>

UpdateItem(c, amount) ==
    LET k == call[c].on IN
    /\ At(c, "editing")
    /\ item' = [item EXCEPT ![call[c].id].amount = amount, ![call[c].id].by = "manual"]
    /\ Goto(c, "invalidating")
    /\ hits' = hits \cup (IF On(k, {"summing"}) # {} THEN {"payslip"} ELSE {})
                    \cup (IF Builders(k) # {} THEN {"builder"} ELSE {})
    /\ UNCHANGED <<cycle, ledger, ot, payslip, bounds>>

\* The ledger row of a monthly deposit and the link of an overtime record stay.
DeleteItem(c) ==
    LET k == call[c].on IN
    /\ At(c, "deleting")
    /\ item' = [item EXCEPT ![call[c].id].deleted = TRUE]
    /\ Goto(c, "invalidating")
    /\ hits' = hits \cup (IF On(k, {"summing"}) # {} THEN {"payslip"} ELSE {})
                    \cup (IF item[call[c].id].collected THEN {"uncollected"} ELSE {})
    /\ UNCHANGED <<cycle, ledger, ot, payslip, bounds>>

InvalidatePayslip(c) ==
    /\ At(c, "invalidating")
    /\ payslip' = [payslip EXCEPT ![call[c].on] = Null]
    /\ End(c)
    /\ UNCHANGED <<cycle, item, ledger, ot, bounds, hits>>

\* onBonusWorkflowResolved: a rejected bonus goes, whatever the cycle's status.  (An
\* approved one gets a note, which never makes it the builder's.)
ResolveBonus(k, i) ==
    /\ i \in Of(k, "bonus")
    /\ item' = [item EXCEPT ![i].deleted = TRUE]
    /\ Note(Unseen(k), "payslip")
    /\ UNCHANGED <<cycle, ledger, ot, payslip, call, bounds>>
-----------------------------------------------------------------------------
(***************************************************************************)
(* generatePayslip                                                         *)
(***************************************************************************)
BeginPayslip(c, k) ==
    /\ Live(k) # {}
    /\ Enter(c, [Fresh(k, "summing", "manual") EXCEPT !.slip = Totals(k)])
    /\ Note(On(k, {"summing"}) # {}, "payslip")
    /\ UNCHANGED <<tables, crashes>>

WritePayslip(c) ==
    /\ At(c, "summing")
    /\ payslip' = [payslip EXCEPT ![call[c].on] = call[c].slip]
    /\ End(c)
    /\ UNCHANGED <<cycle, item, ledger, ot, bounds, hits>>
-----------------------------------------------------------------------------
(***************************************************************************)
(* The monthly deposit: addDeposit, and upsertDeposit of the builder.      *)
(***************************************************************************)
BeginDeposit(c, k) ==
    /\ cycle[k] = "open"
    /\ Begin(c, k, "capping", "manual")
    /\ UNCHANGED <<tables, crashes, hits>>

\* Mutant: only the balance so far is compared with the cap.
CheckCapBefore(c) ==
    /\ At(c, "capping")
    /\ IF ledger.running <= Cap THEN Goto(c, "collecting") ELSE End(c)
    /\ Note(In({"collecting", "booking", "entering"}) # {}, "deposit")
    /\ UNCHANGED <<tables, bounds>>

CheckCap(c) ==
    /\ At(c, "capping")
    /\ IF ledger.running + 1 <= Cap THEN Goto(c, "collecting") ELSE End(c)
    /\ Note(In({"collecting", "booking", "entering"}) # {}, "deposit")
    /\ UNCHANGED <<tables, bounds>>

CreateDeposit(c) ==
    LET k == call[c].on IN
    /\ At(c, "collecting")
    /\ Create(k, "deposit", call[c].by, 1, Null, TRUE)
    /\ Goto(c, "booking")
    /\ Note(Unseen(k), "payslip")
    /\ UNCHANGED <<cycle, ledger, ot, payslip, bounds>>

\* PrismaDepositRepository.create
ReadRunning(c) ==
    /\ At(c, "booking")
    /\ call' = [call EXCEPT ![c].read = ledger.running, ![c].at = "entering"]
    /\ UNCHANGED <<tables, bounds, hits>>

EnterDeposit(c) ==
    /\ At(c, "entering")
    /\ ledger' = [rows |-> ledger.rows + 1, running |-> call[c].read + 1]
    /\ End(c)
    /\ UNCHANGED <<cycle, item, ot, payslip, bounds, hits>>
-----------------------------------------------------------------------------
(***************************************************************************)
(* PayrollBuilderService.buildCycle                                        *)
(***************************************************************************)
BeginBuild(c, k) ==
    /\ cycle[k] = "open"
    /\ Begin(c, k, "computing", "builder")
    /\ UNCHANGED <<tables, crashes, hits>>

\* applyForCycle: an item HR has scheduled is entered like one by hand.
ApplyScheduled(c, type) ==
    LET k == call[c].on IN
    /\ At(c, "computing")
    /\ call[c].id = Null
    /\ Create(k, type, "manual", 1, Null, FALSE)
    /\ call' = [call EXCEPT ![c].id = NewItem]
    /\ Note(Unseen(k), "payslip")
    /\ UNCHANGED <<cycle, ledger, ot, payslip, bounds>>

\* computeEmployee: the allowance, and whether a deposit is due.  It may be
\* deferred when too little would be left to pay out.
Compute(c, amount, due) ==
    /\ At(c, "computing")
    /\ due => ledger.running + 1 <= Cap
    /\ call' = [call EXCEPT ![c].amount = amount, ![c].due = due, ![c].id = Null,
                            ![c].at = "listing"]
    /\ UNCHANGED <<tables, bounds, hits>>

\* Mutant: the link is not looked at.
ApprovedAny == {o \in Overtimes : ot[o].status = "approved"}

Unlinked == {o \in Overtimes : ot[o].status = "approved" /\ ot[o].item = Null}

\* The overtime records another call is about to link.
Taken(c) == UNION {call[d].todo : d \in In({"choosing", "linking"}) \ {c}}

\* syncApprovedOvertime: the records to link, ...
ListOvertime(c) ==
    /\ At(c, "listing")
    /\ call' = [call EXCEPT ![c].todo = Unlinked,
                            ![c].at = IF Unlinked = {} THEN "finding" ELSE "linking"]
    /\ Note(Unlinked \cap Taken(c) # {}, "overtime")
    /\ UNCHANGED <<tables, bounds>>

\* ... and one transaction for each; also that of linkApprovedOtToOpenPayroll.
Link(c, o) ==
    LET k == call[c].on IN
    /\ At(c, "linking")
    /\ o \in call[c].todo
    /\ Create(k, "ot", call[c].by, 1, o, FALSE)
    /\ ot' = [ot EXCEPT ![o] = [status |-> "approved", item |-> NewItem]]
    /\ IF call[c].todo # {o}
       THEN call' = [call EXCEPT ![c].todo = @ \ {o}]
       ELSE IF call[c].by = "builder"
       THEN call' = [call EXCEPT ![c].todo = {}, ![c].at = "finding"]
       ELSE End(c)
    /\ Note(Unseen(k), "payslip")
    /\ UNCHANGED <<cycle, ledger, payslip, bounds>>

\* Mutant: whose note it is does not matter.
FindAny(c) ==
    LET k == call[c].on IN
    /\ At(c, "finding")
    /\ IF Of(k, "meal_allowance") = {}
       THEN call' = [call EXCEPT ![c].id = Null,
                                 ![c].at = IF call[c].amount > 0 THEN "upserting" ELSE "seeking"]
       ELSE \E i \in Of(k, "meal_allowance") :
               call' = [call EXCEPT ![c].id = i, ![c].at = "upserting"]
    /\ Note(Builders(k) \ {c} # {}, "builder")
    /\ UNCHANGED <<tables, bounds>>

\* upsertBuilderItem: an item whose note is not the builder's is left alone.
Find(c) ==
    LET k == call[c].on IN
    /\ At(c, "finding")
    /\ IF Of(k, "meal_allowance") = {}
       THEN call' = [call EXCEPT ![c].id = Null,
                                 ![c].at = IF call[c].amount > 0 THEN "upserting" ELSE "seeking"]
       ELSE \E i \in Of(k, "meal_allowance") :
               call' = [call EXCEPT ![c].id = i,
                           ![c].at = IF item[i].by = "builder" THEN "upserting" ELSE "seeking"]
    /\ Note(Builders(k) \ {c} # {}, "builder")
    /\ UNCHANGED <<tables, bounds>>

\* Mutant: an item that is not due any more stays, with nothing.
UpsertZero(c) ==
    LET k == call[c].on
        i == call[c].id
    IN
    /\ At(c, "upserting")
    /\ IF i = Null
       THEN Create(k, "meal_allowance", "builder", call[c].amount, Null, FALSE)
       ELSE item' = [item EXCEPT ![i].amount = call[c].amount, ![i].by = "builder"]
    /\ Goto(c, "seeking")
    /\ Note(Unseen(k), "payslip")
    /\ UNCHANGED <<cycle, ledger, ot, payslip, bounds>>

\* ... update, create, or removeBuilderItem.
Upsert(c) ==
    LET k == call[c].on
        i == call[c].id
    IN
    /\ At(c, "upserting")
    /\ IF i = Null
       THEN Create(k, "meal_allowance", "builder", call[c].amount, Null, FALSE)
       ELSE IF call[c].amount = 0
       THEN item' = [item EXCEPT ![i].deleted = TRUE]
       ELSE item' = [item EXCEPT ![i].amount = call[c].amount, ![i].by = "builder"]
    /\ Goto(c, "seeking")
    /\ Note(Unseen(k), "payslip")
    /\ UNCHANGED <<cycle, ledger, ot, payslip, bounds>>

\* Mutant: the deposit of an earlier build is not looked for.
SeekNothing(c) ==
    /\ At(c, "seeking")
    /\ IF call[c].due THEN Goto(c, "capping") ELSE End(c)
    /\ Note(Builders(call[c].on) \ {c} # {}, "builder")
    /\ UNCHANGED <<tables, bounds>>

\* upsertDeposit
Seek(c) ==
    LET k == call[c].on IN
    /\ At(c, "seeking")
    /\ IF ~call[c].due
       THEN End(c)
       ELSE IF Of(k, "deposit") = {}
       THEN Goto(c, "capping")
       ELSE \E i \in Of(k, "deposit") :
               IF item[i].by = "builder"
               THEN call' = [call EXCEPT ![c].id = i, ![c].at = "refreshing"]
               ELSE End(c)
    /\ Note(Builders(k) \ {c} # {}, "builder")
    /\ UNCHANGED <<tables, bounds>>

\* Mutant: a deposit that is only updated is entered in the ledger again.
RefreshAndBook(c) ==
    /\ At(c, "refreshing")
    /\ item' = [item EXCEPT ![call[c].id].amount = 1, ![call[c].id].by = "builder"]
    /\ Goto(c, "booking")
    /\ Note(Unseen(call[c].on), "payslip")
    /\ UNCHANGED <<cycle, ledger, ot, payslip, bounds>>

Refresh(c) ==
    LET k == call[c].on IN
    /\ At(c, "refreshing")
    /\ item' = [item EXCEPT ![call[c].id].amount = 1, ![call[c].id].by = "builder"]
    /\ End(c)
    /\ Note(Unseen(k), "payslip")
    /\ UNCHANGED <<cycle, ledger, ot, payslip, bounds>>
-----------------------------------------------------------------------------
(***************************************************************************)
(* AttendanceService: linkApprovedOtToOpenPayroll                          *)
(***************************************************************************)
\* The request platform approves an existing record without linking it.
ApproveOvertime(o) ==
    /\ ot[o].status = "pending"
    /\ ot' = [ot EXCEPT ![o].status = "approved"]
    /\ UNCHANGED <<cycle, item, ledger, payslip, call, bounds, hits>>

BeginLink(c, o) ==
    /\ ot[o].item = Null
    /\ Enter(c, [Fresh(Null, "choosing", "manual") EXCEPT !.todo = {o}])
    /\ Note(o \in Taken(c), "overtime")
    /\ UNCHANGED <<tables, crashes>>

\* The open cycle with the latest period.
ChooseCycle(c) ==
    /\ At(c, "choosing")
    /\ IF OpenCycles = {}
       THEN /\ ot' = [o \in Overtimes |-> IF o \in call[c].todo
                                          THEN [ot[o] EXCEPT !.status = "approved"] ELSE ot[o]]
            /\ End(c)
       ELSE /\ \E k \in OpenCycles :
                  /\ \A j \in OpenCycles : j <= k
                  /\ call' = [call EXCEPT ![c].on = k, ![c].seen = cycle[k], ![c].at = "linking"]
            /\ UNCHANGED ot
    /\ UNCHANGED <<cycle, item, ledger, payslip, bounds, hits>>
-----------------------------------------------------------------------------
\* A call breaks off.
Crash(c) ==
    /\ call[c] # Null
    /\ crashes < MaxCrashes
    /\ crashes' = crashes + 1
    /\ hits' = hits \cup CASE call[c].at \in {"booking", "entering"} -> {"uncollected"}
                           [] call[c].at = "invalidating"            -> {"payslip"}
                           [] OTHER                                  -> {}
    /\ End(c)
    /\ UNCHANGED <<tables, calls>>

Arrive(c, k) ==
    \/ BeginLock(c, k) \/ BeginPay(c, k) \/ BeginAdd(c, k) \/ BeginPayslip(c, k)
    \/ BeginDeposit(c, k) \/ BeginBuild(c, k)
    \/ \E i \in Items, place \in {"editing", "deleting"} : BeginEdit(c, k, i, place)

Progress(c) ==
    \/ SaveCycle(c) \/ DeleteItem(c) \/ InvalidatePayslip(c) \/ WritePayslip(c)
    \/ CheckCap(c) \/ CreateDeposit(c) \/ ReadRunning(c) \/ EnterDeposit(c)
    \/ ListOvertime(c) \/ Find(c) \/ Upsert(c) \/ Seek(c) \/ Refresh(c) \/ ChooseCycle(c)
    \/ \E type \in Scheduled : ApplyScheduled(c, type)
    \/ \E type \in Entered, amount \in Amounts : AddItem(c, type, amount)
    \/ \E amount \in Amounts : UpdateItem(c, amount)
    \/ \E amount \in Amounts \cup {0}, due \in BOOLEAN : Compute(c, amount, due)
    \/ \E o \in Overtimes : Link(c, o)

Next ==
    \/ \E k \in Cycles : OpenCycle(k) \/ \E i \in Items : ResolveBonus(k, i)
    \/ \E o \in Overtimes : ApproveOvertime(o)
    \/ \E c \in Callers :
        \/ \E k \in Cycles : Arrive(c, k)
        \/ \E o \in Overtimes : BeginLink(c, o)
        \/ Progress(c) \/ Crash(c)

Spec == Init /\ [][Next]_vars
-----------------------------------------------------------------------------
TypeOK ==
    /\ cycle \in [Cycles -> Status]
    /\ item \in [Items -> Item]
    /\ ledger \in [rows : Nat, running : Nat]
    /\ ot \in [Overtimes -> [status : {"pending", "approved"}, item : Items \cup {Null}]]
    /\ payslip \in [Cycles -> Slip \cup {Null}]
    /\ call \in [Callers -> Call \cup {Null}]
    /\ calls \in 0..MaxCalls
    /\ crashes \in 0..MaxCrashes
    /\ hits \in SUBSET Irregular

\* A cycle never goes back, from paid to locked or from locked to open, unless two
\* calls that close it overlapped.
Rank(status) == CASE status = "none" -> 0 [] status = "open" -> 1
                  [] status = "locked" -> 2 [] OTHER -> 3

StatusAdvances ==
    [][\A k \in Cycles : Rank(cycle'[k]) < Rank(cycle[k]) => "lock" \in hits]_vars

\* The items of a locked or paid cycle change only through a call that saw it open,
\* a rejected bonus apart.
ClosedUnchanged ==
    [][\A i \in Items :
          /\ item'[i].on # Null
          /\ item'[i] # item[i]
          /\ cycle[item'[i].on] # "open"
          => \/ item'[i].type = "bonus" /\ item'[i].deleted
             \/ \E c \in Callers : /\ call[c] # Null
                                   /\ call'[c] # call[c]
                                   /\ call[c].on = item'[i].on
                                   /\ call[c].seen = "open"]_vars

\* No more is collected than the cap allows, and the ledger adds up, unless two
\* collections overlapped.
DepositCap ==
    "deposit" \notin hits => ledger.running = ledger.rows /\ ledger.rows <= Cap

\* Every monthly deposit that stands among the items is in the ledger and the other way
\* round, however deposits that HR enters as items, by hand or by schedule, mix with
\* them, unless a call broke off in between or one was deleted by hand.
LedgerMatchesItems ==
    "uncollected" \notin hits =>
        Cardinality(Deposits) = ledger.rows + Cardinality(In({"booking", "entering"}))

\* An overtime record is linked to one item at most, however often it is looked at,
\* unless two calls were about to link it at once.
OvertimePaidOnce ==
    "overtime" \notin hits => \A o \in Overtimes : Cardinality(Paying(o)) <= 1

\* Building a cycle again leaves one item of a type, unless two builds overlapped.
BuiltOnce ==
    "builder" \notin hits =>
        \A k \in Cycles, type \in {"meal_allowance", "deposit"} :
            Cardinality({i \in Of(k, type) : item[i].by = "builder"}) <= 1

\* The builder never changes an item entered or edited by hand, unless the edit came
\* between its look and its write.
ManualSurvives ==
    [][\A c \in Callers :
          /\ call[c] # Null
          /\ call[c].by = "builder"
          /\ call'[c] # call[c]
          /\ "builder" \notin hits
          => \A i \in Items : item[i].on # Null /\ item[i].by = "manual" => item'[i] = item[i]]_vars

\* After an edit by hand there is no payslip, or one that adds up the items as they
\* are, unless the edit came while it was computed, a call broke off, or something
\* that does not invalidate it changed the items.
PayslipMatches ==
    \A k \in Cycles :
        payslip[k] # Null /\ "payslip" \notin hits /\ On(k, {"invalidating"}) = {} =>
            payslip[k] = Totals(k)
=============================================================================
