------------------------------- MODULE Outbox -------------------------------
(***************************************************************************)
(* OutboxDispatcherService: every API replica polls system.outbox_events   *)
(* and hands each unprocessed row to its handler inside a transaction that *)
(* holds the row's lock (FOR UPDATE SKIP LOCKED) and is given 120 seconds. *)
(* The handler works through its own database client, so what it did       *)
(* stays when the transaction is rolled back, and it goes on running when  *)
(* the transaction times out.                                              *)
(*                                                                         *)
(* Rows are numbered in the order of occurred_at.  All event types that    *)
(* are published have a handler.  A start of the application also settles  *)
(* the monthly-off rows (MonthlyOffService.onModuleInit).                  *)
(***************************************************************************)
EXTENDS Naturals, FiniteSets

CONSTANTS
    Rows,         \* the events that will be published
    Swept,        \* those of entity type monthly_off
    Dispatchers,  \* the API replicas
    MaxAttempts,  \* MAX_ATTEMPTS: 5 in the code
    BatchSize,    \* BATCH_SIZE: 50 in the code
    Null          \* no row, no dispatcher

ASSUME OutboxAssumption ==
    /\ Rows \subseteq Nat
    /\ Swept \subseteq Rows
    /\ MaxAttempts \in Nat \ {0}
    /\ BatchSize \in Nat \ {0}
    /\ Null \notin Rows \cup Dispatchers
    /\ \A S \in SUBSET Rows : S # {} => \E r \in S : \A s \in S : r <= s

VARIABLES
    published,  \* the rows of the table
    attempts,   \* their attempts column
    processed,  \* whether processed_at is set
    lock,       \* the dispatcher whose open transaction locks the row
    phase,      \* where each dispatcher is in poll
    row,        \* the row it claimed last
    batch,      \* the loop counter of poll
    sweeping,   \* the replicas whose start-up sweep is still to come
    delivered,  \* history: completed calls of the handler by row, counted up to Many
    broken      \* history: rows with a transaction that was broken off

table   == <<published, attempts, processed>>
worker  == <<phase, row, batch>>
history == <<delivered, broken>>
vars    == <<table, lock, worker, sweeping, history>>

\* Bound: the history only tells none, one and more than one delivery apart.
Many == 2

Working(d) == phase[d] \in {"handling", "handled", "failed"}
Holds(d)   == Working(d) /\ lock[row[d]] = d
Oldest(S)  == CHOOSE r \in S : \A s \in S : r <= s

\* Mutants: one attempt too many; the lock is not looked at.
ClaimableOnceMore == {r \in published : ~processed[r] /\ attempts[r] <= MaxAttempts /\ lock[r] = Null}
ClaimableLocked   == {r \in published : ~processed[r] /\ attempts[r] < MaxAttempts}

Claimable == {r \in published : ~processed[r] /\ attempts[r] < MaxAttempts /\ lock[r] = Null}
-----------------------------------------------------------------------------
Init ==
    /\ published = {}
    /\ attempts = [r \in Rows |-> 0]
    /\ processed = [r \in Rows |-> FALSE]
    /\ lock = [r \in Rows |-> Null]
    /\ phase = [d \in Dispatchers |-> "idle"]
    /\ row = [d \in Dispatchers |-> Null]
    /\ batch = [d \in Dispatchers |-> 0]
    /\ sweeping = Dispatchers
    /\ delivered = [r \in Rows |-> 0]
    /\ broken = {}

Goto(d, p) == phase' = [phase EXCEPT ![d] = p]
Unlock(r)  == lock' = [lock EXCEPT ![r] = Null]
Forget(d)  == row' = [row EXCEPT ![d] = Null]

\* poll is over, its local variables with it.
Idle(d) ==
    /\ Goto(d, "idle")
    /\ Forget(d)
    /\ batch' = [batch EXCEPT ![d] = 0]

\* OutboxWorkflowEventPublisher.publishResolved.
Publish(r) ==
    /\ r \notin published
    /\ \A s \in Rows : s < r => s \in published
    /\ published' = published \cup {r}
    /\ UNCHANGED <<attempts, processed, lock, worker, sweeping, history>>

\* The timer fires and no poll of this replica is running.
Poll(d) ==
    /\ phase[d] = "idle"
    /\ Goto(d, "polling")
    /\ UNCHANGED <<table, lock, row, batch, sweeping, history>>

\* SELECT ... ORDER BY occurred_at LIMIT 1 FOR UPDATE SKIP LOCKED.
Claim(d) ==
    LET r == Oldest(Claimable) IN
    /\ phase[d] = "polling"
    /\ batch[d] < BatchSize
    /\ Claimable # {}
    /\ lock' = [lock EXCEPT ![r] = d]
    /\ row' = [row EXCEPT ![d] = r]
    /\ Goto(d, "handling")
    /\ UNCHANGED <<table, batch, sweeping, history>>

\* Nothing to claim, or the batch is full; checkRetryStorm only raises alerts.
EndPoll(d) ==
    /\ phase[d] = "polling"
    /\ Claimable = {} \/ batch[d] = BatchSize
    /\ Idle(d)
    /\ UNCHANGED <<table, lock, sweeping, history>>

\* handler.handle returns.
Handle(d) ==
    /\ phase[d] = "handling"
    /\ Goto(d, "handled")
    /\ delivered' = [delivered EXCEPT ![row[d]] = IF @ < Many THEN @ + 1 ELSE @]
    /\ UNCHANGED <<table, lock, row, batch, sweeping, broken>>

\* handler.handle throws.
HandlerFails(d) ==
    /\ phase[d] = "handling"
    /\ Goto(d, "failed")
    /\ UNCHANGED <<table, lock, row, batch, sweeping, history>>

EndTransaction(d) ==
    /\ Unlock(row[d])
    /\ Forget(d)
    /\ Goto(d, "polling")
    /\ batch' = [batch EXCEPT ![d] = @ + 1]
    /\ UNCHANGED <<published, sweeping, history>>

\* Mutant: the row is marked processed in a finally clause.
CommitProcessed(d) ==
    /\ phase[d] \in {"handled", "failed"}
    /\ Holds(d)
    /\ attempts' = [attempts EXCEPT ![row[d]] = @ + 1]
    /\ processed' = [processed EXCEPT ![row[d]] = TRUE]
    /\ EndTransaction(d)

\* Mutant: a failure is not counted as an attempt.
CommitUncounted(d) ==
    /\ phase[d] \in {"handled", "failed"}
    /\ Holds(d)
    /\ attempts' = [attempts EXCEPT ![row[d]] = IF phase[d] = "handled" THEN @ + 1 ELSE @]
    /\ processed' = [processed EXCEPT ![row[d]] = @ \/ phase[d] = "handled"]
    /\ EndTransaction(d)

\* The update after the handler, and the commit.
Commit(d) ==
    /\ phase[d] \in {"handled", "failed"}
    /\ Holds(d)
    /\ attempts' = [attempts EXCEPT ![row[d]] = @ + 1]
    /\ processed' = [processed EXCEPT ![row[d]] = @ \/ phase[d] = "handled"]
    /\ EndTransaction(d)

\* The transaction is gone: both updates throw, the poll ends.
Rollback(d) ==
    /\ phase[d] \in {"handled", "failed"}
    /\ ~Holds(d)
    /\ Idle(d)
    /\ UNCHANGED <<table, lock, sweeping, history>>

\* 120 seconds are over, or the connection is lost; the handler goes on.  The
\* rollback takes the attempt with it, so this can happen any number of times.
Timeout(d) ==
    /\ Holds(d)
    /\ Unlock(row[d])
    /\ broken' = broken \cup {row[d]}
    /\ UNCHANGED <<table, worker, sweeping, delivered>>

\* The process ends and is started again; the database frees its locks.
Restart(d) ==
    /\ Idle(d)
    /\ lock' = [r \in Rows |-> IF lock[r] = d THEN Null ELSE lock[r]]
    /\ broken' = broken \cup {r \in Rows : lock[r] = d}
    /\ sweeping' = sweeping \cup {d}
    /\ UNCHANGED <<table, delivered>>

\* Mutant: the filter on the entity type is missing.
SweepAll(d) ==
    /\ d \in sweeping
    /\ \A r \in Rows : lock[r] = Null
    /\ processed' = [r \in Rows |-> processed[r] \/ r \in published]
    /\ sweeping' = sweeping \ {d}
    /\ UNCHANGED <<published, attempts, lock, worker, history>>

\* markStaleMonthlyOffOutboxProcessed: one update, which waits for locked rows.
Sweep(d) ==
    /\ d \in sweeping
    /\ \A r \in Swept : lock[r] = Null
    /\ processed' = [r \in Rows |-> processed[r] \/ r \in published \cap Swept]
    /\ sweeping' = sweeping \ {d}
    /\ UNCHANGED <<published, attempts, lock, worker, history>>

Finish(d) == Handle(d) \/ HandlerFails(d)
Run(d)    == Claim(d) \/ EndPoll(d) \/ Finish(d) \/ Commit(d) \/ Rollback(d)

Next ==
    \/ \E r \in Rows : Publish(r)
    \/ \E d \in Dispatchers : Poll(d) \/ Run(d) \/ Timeout(d) \/ Restart(d) \/ Sweep(d)

\* The timer keeps firing, and every handler call ends.
Fairness == \A d \in Dispatchers : WF_vars(Poll(d)) /\ WF_vars(Run(d))

Spec == Init /\ [][Next]_vars /\ Fairness
-----------------------------------------------------------------------------
TypeOK ==
    /\ published \subseteq Rows
    /\ attempts \in [Rows -> 0..MaxAttempts]
    /\ processed \in [Rows -> BOOLEAN]
    /\ lock \in [Rows -> Dispatchers \cup {Null}]
    /\ phase \in [Dispatchers -> {"idle", "polling", "handling", "handled", "failed"}]
    /\ row \in [Dispatchers -> Rows \cup {Null}]
    /\ batch \in [Dispatchers -> 0..BatchSize]
    /\ sweeping \subseteq Dispatchers
    /\ delivered \in [Rows -> 0..Many]
    /\ broken \subseteq Rows

\* Replicas do not deliver an event twice as long as no transaction on it was
\* broken off: the row lock, processed_at and the attempts column together
\* stand for "exactly once".
ExactlyOnceUnlessBroken ==
    \A r \in Rows : r \notin broken => delivered[r] <= 1

\* No event is settled unseen, but for the start-up sweep of monthly_off rows.
ProcessedWasDelivered ==
    \A r \in Rows \ Swept : processed[r] => delivered[r] >= 1

\* An event is never left in between: it is processed or has used all its
\* attempts at last, unless replicas are restarted for ever or transactions run
\* over 120 seconds for ever on it or on an event before it.  A rollback counts no
\* attempt, so a handler that is always too slow starves its own event and those
\* behind it; the events before it are settled all the same.
Settled(r) == processed[r] \/ attempts[r] = MaxAttempts
Disturbs(d, r) == Restart(d) \/ (Timeout(d) /\ row[d] <= r)
EveryEventSettles ==
    \A r \in Rows :
        <>[][~\E d \in Dispatchers : Disturbs(d, r)]_vars => (r \in published ~> Settled(r))

\* The dispatcher implements the delivery contract.
Contract == INSTANCE Delivery
DeliversAsPromised == Contract!Spec

\* "multiple API replicas never process the same row concurrently"
NeverHandledConcurrently ==
    \A d, e \in Dispatchers :
        phase[d] = "handling" /\ phase[e] = "handling" /\ row[d] = row[e] => d = e
=============================================================================
