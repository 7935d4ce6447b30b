---------------------------- MODULE OutboxProofs ----------------------------
(***************************************************************************)
(* Theorems about Outbox, for every set of rows and replicas and every     *)
(* bound on attempts and batches: its types, that an event is delivered    *)
(* once unless a transaction on it broke off, that nothing is settled      *)
(* unseen, and that the dispatcher implements Delivery.                    *)
(*                                                                         *)
(* All of them rest on one invariant: what the row lock means.  A locked   *)
(* row is in the hands of exactly the replica that locked it, is still     *)
(* open, and a delivery that is not yet on record is that replica's.       *)
(***************************************************************************)
EXTENDS Outbox, TLAPS

\* A replica at work has a published row, locked unless its transaction broke.
Workers ==
    \A d \in Dispatchers :
        IF Working(d)
        THEN row[d] \in published /\ batch[d] < BatchSize /\ (lock[row[d]] = d \/ row[d] \in broken)
        ELSE row[d] = Null

\* A locked row is open, and its holder is at work on it.
Locks ==
    \A r \in Rows : lock[r] # Null =>
        /\ Working(lock[r])
        /\ row[lock[r]] = r
        /\ r \in published
        /\ ~processed[r]
        /\ attempts[r] < MaxAttempts

\* A row without broken transactions was delivered at most once, and then it is
\* processed or its holder is about to say so.
Deliveries ==
    /\ \A d \in Dispatchers : phase[d] = "handled" => delivered[row[d]] > 0
    /\ \A r \in Rows \ broken :
        \/ delivered[r] = 0
        \/ delivered[r] = 1 /\ (processed[r] \/ (lock[r] # Null /\ phase[lock[r]] = "handled"))
    /\ ProcessedWasDelivered

LockInv == TypeOK /\ Workers /\ Locks /\ Deliveries
-----------------------------------------------------------------------------
\* The row that Claim picks is claimable.
LEMMA OldestClaimable ==
    ASSUME TypeOK, Claimable # {}
    PROVE  Oldest(Claimable) \in Claimable /\ Oldest(Claimable) \in Rows
<1>1. Claimable \in SUBSET Rows
  BY DEF Claimable, TypeOK
<1>2. \E r \in Claimable : \A s \in Claimable : r <= s
  BY <1>1, OutboxAssumption
<1> QED BY <1>1, <1>2 DEF Oldest

\* A replica that holds a lock is at work on a row of the table.
LEMMA HolderWorks ==
    ASSUME LockInv, NEW d \in Dispatchers, Working(d)
    PROVE  /\ row[d] \in Rows
           /\ row[d] \in published
           /\ batch[d] < BatchSize
           /\ Holds(d) \/ row[d] \in broken
           /\ Holds(d) => /\ lock[row[d]] # Null
                          /\ ~processed[row[d]]
                          /\ attempts[row[d]] < MaxAttempts
<1>1. /\ row[d] \in published
      /\ batch[d] < BatchSize
      /\ lock[row[d]] = d \/ row[d] \in broken
  BY DEF LockInv, Workers
<1>2. row[d] \in Rows
  BY <1>1 DEF LockInv, TypeOK
<1>3. Holds(d) => lock[row[d]] # Null
  BY OutboxAssumption DEF Holds
<1>4. lock[row[d]] # Null => ~processed[row[d]] /\ attempts[row[d]] < MaxAttempts
  BY <1>2 DEF LockInv, Locks
<1> QED BY <1>1, <1>2, <1>3, <1>4 DEF Holds

LEMMA LockInit == Init => LockInv
BY OutboxAssumption DEF Init, LockInv, TypeOK, Many, Workers, Locks, Deliveries, Working, ProcessedWasDelivered

LEMMA LockStep == LockInv /\ [Next]_vars => LockInv'
<1> SUFFICES ASSUME LockInv, [Next]_vars
             PROVE  LockInv'
  OBVIOUS
<1> USE OutboxAssumption
<1>1. ASSUME NEW r \in Rows, Publish(r)
      PROVE  LockInv'
  BY <1>1 DEF Publish, worker, history, LockInv, TypeOK, Workers, Locks, Deliveries,
              Working, ProcessedWasDelivered
<1>2. ASSUME NEW d \in Dispatchers, Poll(d)
      PROVE  LockInv'
  BY <1>2 DEF Poll, Goto, table, history, LockInv, TypeOK, Workers, Locks, Deliveries,
              Working, ProcessedWasDelivered
<1>3. ASSUME NEW d \in Dispatchers, Claim(d)
      PROVE  LockInv'
  <2> DEFINE r == Oldest(Claimable)
  <2>1. r \in Rows /\ r \in published /\ ~processed[r] /\ attempts[r] < MaxAttempts /\ lock[r] = Null
    BY <1>3, OldestClaimable DEF Claim, Claimable, LockInv
  <2>2. /\ phase[d] = "polling"
        /\ batch[d] < BatchSize
        /\ lock' = [lock EXCEPT ![r] = d]
        /\ row' = [row EXCEPT ![d] = r]
        /\ phase' = [phase EXCEPT ![d] = "handling"]
        /\ UNCHANGED <<table, batch, sweeping, history>>
    BY <1>3 DEF Claim, Goto
  <2> HIDE DEF r
  <2>3. TypeOK'
    BY <2>1, <2>2 DEF table, history, LockInv, TypeOK
  <2>4. Workers'
    BY <2>1, <2>2 DEF table, history, LockInv, TypeOK, Workers, Working
  <2>5. Locks'
    BY <2>1, <2>2 DEF table, history, LockInv, TypeOK, Locks, Working
  <2>6. Deliveries'
    BY <2>1, <2>2 DEF table, history, LockInv, TypeOK, Locks, Deliveries, ProcessedWasDelivered
  <2> QED BY <2>3, <2>4, <2>5, <2>6 DEF LockInv
<1>4. ASSUME NEW d \in Dispatchers, EndPoll(d)
      PROVE  LockInv'
  BY <1>4 DEF EndPoll, Idle, Goto, Forget, table, history, LockInv, TypeOK, Workers, Locks,
              Deliveries, Working, ProcessedWasDelivered
<1>5. ASSUME NEW d \in Dispatchers, Handle(d)
      PROVE  LockInv'
  <2>1. /\ phase[d] = "handling"
        /\ Working(d)
        /\ phase' = [phase EXCEPT ![d] = "handled"]
        /\ delivered' = [delivered EXCEPT ![row[d]] = IF @ < Many THEN @ + 1 ELSE @]
        /\ UNCHANGED <<table, lock, row, batch, sweeping, broken>>
    BY <1>5 DEF Handle, Goto, Working
  <2>2. row[d] \in Rows /\ (Holds(d) \/ row[d] \in broken)
    BY <2>1, HolderWorks
  <2> DEFINE n == IF delivered[row[d]] < Many THEN delivered[row[d]] + 1 ELSE delivered[row[d]]
  <2>d. delivered[row[d]] \in 0..Many /\ delivered' = [delivered EXCEPT ![row[d]] = n]
    BY <2>1, <2>2 DEF LockInv, TypeOK
  <2>n. n \in 0..Many /\ n > 0 /\ (delivered[row[d]] = 0 => n = 1)
    BY <2>d DEF Many
  <2> HIDE DEF n
  <2>t. delivered' \in [Rows -> 0..Many] /\ delivered'[row[d]] = n
    BY <2>2, <2>d, <2>n DEF LockInv, TypeOK
  <2>3. TypeOK'
    BY <2>1, <2>t DEF table, LockInv, TypeOK
  <2>4. Workers' /\ Locks'
    BY <2>1, <2>2 DEF table, LockInv, TypeOK, Workers, Locks, Working
  <2>5. \A r \in Rows \ broken :
            r = row[d] => lock[r] = d /\ delivered[r] = 0
    BY <2>1, <2>2, HolderWorks DEF Holds, LockInv, TypeOK, Deliveries
  <2>6. Deliveries'
    <3>1. \A e \in Dispatchers : phase'[e] = "handled" => delivered'[row'[e]] > 0
      <4> SUFFICES ASSUME NEW e \in Dispatchers, phase'[e] = "handled"
                   PROVE  delivered'[row[e]] > 0
        BY <2>1
      <4>1. CASE row[e] = row[d]
        BY <2>t, <2>n, <4>1
      <4>2. CASE row[e] # row[d]
        BY <2>1, <2>2, <4>2 DEF LockInv, TypeOK, Deliveries
      <4> QED BY <4>1, <4>2
    <3>2. ASSUME NEW r \in Rows \ broken
          PROVE  \/ delivered'[r] = 0
                 \/ delivered'[r] = 1 /\ (processed'[r] \/ (lock'[r] # Null /\ phase'[lock'[r]] = "handled"))
      <4>1. CASE r = row[d]
        <5>1. delivered'[r] = 1
          BY <2>5, <2>t, <2>n, <4>1
        <5>2. lock'[r] = d /\ phase'[d] = "handled" /\ d # Null
          BY <2>1, <2>5, <4>1 DEF LockInv, TypeOK
        <5> QED BY <5>1, <5>2
      <4>2. CASE r # row[d]
        BY <2>1, <4>2 DEF table, LockInv, TypeOK, Deliveries
      <4> QED BY <4>1, <4>2
    <3>3. ProcessedWasDelivered'
      BY <2>1, <2>2 DEF table, LockInv, TypeOK, Deliveries, ProcessedWasDelivered
    <3> QED BY <2>1, <3>1, <3>2, <3>3 DEF Deliveries
  <2> QED BY <2>3, <2>4, <2>6 DEF LockInv
<1>6. ASSUME NEW d \in Dispatchers, HandlerFails(d)
      PROVE  LockInv'
  BY <1>6 DEF HandlerFails, Goto, table, history, LockInv, TypeOK, Workers, Locks, Deliveries,
              Working, ProcessedWasDelivered
<1>7. ASSUME NEW d \in Dispatchers, Commit(d)
      PROVE  LockInv'
  <2>1. /\ phase[d] \in {"handled", "failed"}
        /\ Working(d)
        /\ Holds(d)
        /\ attempts' = [attempts EXCEPT ![row[d]] = @ + 1]
        /\ processed' = [processed EXCEPT ![row[d]] = @ \/ phase[d] = "handled"]
        /\ lock' = [lock EXCEPT ![row[d]] = Null]
        /\ row' = [row EXCEPT ![d] = Null]
        /\ phase' = [phase EXCEPT ![d] = "polling"]
        /\ batch' = [batch EXCEPT ![d] = @ + 1]
        /\ UNCHANGED <<published, sweeping, history>>
    BY <1>7 DEF Commit, EndTransaction, Unlock, Forget, Goto, Working
  <2>2. /\ row[d] \in Rows
        /\ lock[row[d]] = d
        /\ ~processed[row[d]]
        /\ attempts[row[d]] < MaxAttempts
        /\ batch[d] < BatchSize
    BY <2>1, HolderWorks DEF Holds
  <2> DEFINE a == attempts[row[d]] + 1
             b == batch[d] + 1
  <2>a. a \in 0..MaxAttempts /\ attempts' = [attempts EXCEPT ![row[d]] = a]
    <3>1. attempts[row[d]] \in 0..MaxAttempts
      BY <2>2 DEF LockInv, TypeOK
    <3>2. a \in 0..MaxAttempts
      BY <2>2, <3>1
    <3> QED BY <2>1, <3>2
  <2>b. b \in 0..BatchSize /\ batch' = [batch EXCEPT ![d] = b]
    BY <2>1, <2>2 DEF LockInv, TypeOK
  <2> HIDE DEF a, b
  <2>t. attempts' \in [Rows -> 0..MaxAttempts] /\ batch' \in [Dispatchers -> 0..BatchSize]
    BY <2>a, <2>b DEF LockInv, TypeOK
  <2>3. TypeOK'
    BY <2>1, <2>2, <2>t DEF history, LockInv, TypeOK
  <2>4. \A e \in Dispatchers \ {d} : Working(e) /\ row[e] = row[d] => row[e] \in broken
    BY <2>2, HolderWorks DEF Holds
  <2>5. Workers'
    BY <2>1, <2>2, <2>4 DEF history, LockInv, TypeOK, Workers, Working
  <2>6. Locks'
    BY <2>1, <2>2 DEF history, LockInv, TypeOK, Locks, Working
  <2>7. Deliveries'
    <3>1. \A e \in Dispatchers : phase'[e] = "handled" => delivered'[row'[e]] > 0
      BY <2>1 DEF history, LockInv, TypeOK, Deliveries
    <3>2. ASSUME NEW r \in Rows \ broken
          PROVE  \/ delivered'[r] = 0
                 \/ delivered'[r] = 1 /\ (processed'[r] \/ (lock'[r] # Null /\ phase'[lock'[r]] = "handled"))
      <4>1. CASE r = row[d]
        <5>1. delivered[r] = 0 \/ (delivered[r] = 1 /\ phase[d] = "handled")
          BY <2>2, <3>2, <4>1 DEF LockInv, Deliveries
        <5>2. phase[d] = "handled" => processed'[r]
          <6>1. row[d] \in DOMAIN processed
            BY <2>2 DEF LockInv, TypeOK
          <6>2. processed'[row[d]] = (processed[row[d]] \/ phase[d] = "handled")
            BY <2>1, <6>1, Zenon
          <6> QED BY <4>1, <6>2
        <5> QED BY <2>1, <5>1, <5>2 DEF history
      <4>2. CASE r # row[d]
        BY <2>1, <2>2, <4>2 DEF history, LockInv, TypeOK, Deliveries, Locks
      <4> QED BY <4>1, <4>2
    <3>3. ProcessedWasDelivered'
      BY <2>1, <2>2 DEF history, LockInv, TypeOK, Deliveries, ProcessedWasDelivered
    <3> QED BY <2>1, <3>1, <3>2, <3>3 DEF history, Deliveries
  <2> QED BY <2>3, <2>5, <2>6, <2>7 DEF LockInv
<1>8. ASSUME NEW d \in Dispatchers, Rollback(d)
      PROVE  LockInv'
  <2>1. /\ Working(d)
        /\ ~Holds(d)
        /\ row' = [row EXCEPT ![d] = Null]
        /\ phase' = [phase EXCEPT ![d] = "idle"]
        /\ batch' = [batch EXCEPT ![d] = 0]
        /\ UNCHANGED <<table, lock, sweeping, history>>
    BY <1>8 DEF Rollback, Idle, Goto, Forget, Working
  <2>2. \A r \in Rows : lock[r] # d
    BY <2>1 DEF Holds, LockInv, Locks, TypeOK
  <2>3. TypeOK' /\ Workers'
    BY <2>1 DEF table, history, LockInv, TypeOK, Workers, Working
  <2>4. Locks' /\ Deliveries'
    BY <2>1, <2>2 DEF table, history, LockInv, TypeOK, Locks, Deliveries, Working, ProcessedWasDelivered
  <2> QED BY <2>3, <2>4 DEF LockInv
<1>9. ASSUME NEW d \in Dispatchers, Timeout(d)
      PROVE  LockInv'
  <2>1. /\ Working(d)
        /\ Holds(d)
        /\ lock' = [lock EXCEPT ![row[d]] = Null]
        /\ broken' = broken \cup {row[d]}
        /\ UNCHANGED <<table, worker, sweeping, delivered>>
    BY <1>9 DEF Timeout, Unlock, Holds
  <2>2. row[d] \in Rows /\ lock[row[d]] = d
    BY <2>1, HolderWorks DEF Holds
  <2>l. lock' \in [Rows -> Dispatchers \cup {Null}]
    BY <2>1 DEF LockInv, TypeOK
  <2>a. broken \subseteq Rows
    BY DEF LockInv, TypeOK
  <2>b. broken' \subseteq Rows
    BY <2>1, <2>2, <2>a
  <2>t. TypeOK'
    BY <2>1, <2>l, <2>b DEF table, worker, LockInv, TypeOK
  <2>3. Workers'
    BY <2>1, <2>2 DEF table, worker, LockInv, TypeOK, Workers, Working
  <2>4. Locks'
    BY <2>1, <2>2 DEF table, worker, LockInv, TypeOK, Locks, Working
  <2>5. Deliveries'
    BY <2>1, <2>2 DEF table, worker, LockInv, TypeOK, Deliveries, ProcessedWasDelivered
  <2> QED BY <2>t, <2>3, <2>4, <2>5 DEF LockInv
<1>10. ASSUME NEW d \in Dispatchers, Restart(d)
       PROVE  LockInv'
  <2>1. /\ row' = [row EXCEPT ![d] = Null]
        /\ phase' = [phase EXCEPT ![d] = "idle"]
        /\ batch' = [batch EXCEPT ![d] = 0]
        /\ lock' = [r \in Rows |-> IF lock[r] = d THEN Null ELSE lock[r]]
        /\ broken' = broken \cup {r \in Rows : lock[r] = d}
        /\ sweeping' = sweeping \cup {d}
        /\ UNCHANGED <<table, delivered>>
    BY <1>10 DEF Restart, Idle, Goto, Forget
  <2>b. batch' \in [Dispatchers -> 0..BatchSize]
    BY <2>1 DEF LockInv, TypeOK
  <2>l. lock' \in [Rows -> Dispatchers \cup {Null}] /\ broken' \subseteq Rows
    BY <2>1 DEF LockInv, TypeOK
  <2>2. TypeOK'
    BY <2>1, <2>b, <2>l DEF table, LockInv, TypeOK
  <2>3. Workers'
    BY <2>1 DEF table, LockInv, TypeOK, Workers, Working
  <2>4. Locks'
    BY <2>1 DEF table, LockInv, TypeOK, Locks, Working
  <2>5. Deliveries'
    BY <2>1 DEF table, LockInv, TypeOK, Deliveries, ProcessedWasDelivered
  <2> QED BY <2>2, <2>3, <2>4, <2>5 DEF LockInv
<1>11. ASSUME NEW d \in Dispatchers, Sweep(d)
       PROVE  LockInv'
  <2>1. /\ \A r \in Swept : lock[r] = Null
        /\ processed' = [r \in Rows |-> processed[r] \/ r \in published \cap Swept]
        /\ sweeping' = sweeping \ {d}
        /\ UNCHANGED <<published, attempts, lock, worker, history>>
    BY <1>11 DEF Sweep
  <2>2. processed' \in [Rows -> BOOLEAN] /\ \A r \in Rows : processed[r] => processed'[r]
    BY <2>1 DEF LockInv, TypeOK
  <2>3. \A r \in Rows \ Swept : processed'[r] = processed[r]
    BY <2>1 DEF LockInv, TypeOK
  <2>4. TypeOK' /\ Workers'
    BY <2>1, <2>2 DEF worker, history, LockInv, TypeOK, Workers, Working
  <2>5. Locks'
    BY <2>1, <2>3 DEF worker, history, LockInv, Locks, Working
  <2>6. Deliveries'
    BY <2>1, <2>2, <2>3 DEF worker, history, LockInv, Deliveries, ProcessedWasDelivered
  <2> QED BY <2>4, <2>5, <2>6 DEF LockInv
<1>12. ASSUME UNCHANGED vars
       PROVE  LockInv'
  BY <1>12 DEF vars, table, worker, history, LockInv, TypeOK, Workers, Locks, Deliveries,
               Working, ProcessedWasDelivered
<1> QED BY <1>1, <1>2, <1>3, <1>4, <1>5, <1>6, <1>7, <1>8, <1>9, <1>10, <1>11, <1>12
        DEF Next, Run, Finish

\* The lock invariant holds of every behaviour.
LEMMA LockInvariant == Spec => []LockInv
BY LockInit, LockStep, PTL DEF Spec
-----------------------------------------------------------------------------
\* Every column of the table and every variable of the replicas keeps its type;
\* in particular no row is attempted more than MaxAttempts times.
THEOREM TypeCorrect == Spec => []TypeOK
<1>1. LockInv => TypeOK
  BY DEF LockInv
<1> QED BY LockInvariant, <1>1, PTL

\* Row locks, processed_at and attempts together deliver an event once, for any
\* number of replicas, as long as no transaction on it is broken off.
THEOREM DeliveredOnce == Spec => []ExactlyOnceUnlessBroken
<1>1. LockInv => ExactlyOnceUnlessBroken
  BY DEF LockInv, TypeOK, Deliveries, ExactlyOnceUnlessBroken
<1> QED BY LockInvariant, <1>1, PTL

\* Only the start-up sweep settles an event that no handler has seen.
THEOREM SettledWasSeen == Spec => []ProcessedWasDelivered
<1>1. LockInv => ProcessedWasDelivered
  BY DEF LockInv, Deliveries
<1> QED BY LockInvariant, <1>1, PTL
-----------------------------------------------------------------------------
(***************************************************************************)
(* Refinement.  Polling, claiming, failing and rolling back are invisible  *)
(* to the contract; a commit settles or counts a failure; a timeout or a   *)
(* restart breaks off at most the one transaction of its replica.          *)
(***************************************************************************)
LEMMA ContractStep ==
    ASSUME LockInv, [Next]_vars
    PROVE  [Contract!Next]_(Contract!vars)
<1> USE DEF Contract!Next, Contract!vars, Contract!Open
<1>1. ASSUME NEW r \in Rows, Publish(r)
      PROVE  Contract!Publish(r)
  BY <1>1 DEF Publish, history, Contract!Publish
<1>2. ASSUME NEW d \in Dispatchers,
             Poll(d) \/ Claim(d) \/ EndPoll(d) \/ HandlerFails(d) \/ Rollback(d)
      PROVE  UNCHANGED Contract!vars
  BY <1>2 DEF Poll, Claim, EndPoll, HandlerFails, Rollback, table, history
<1>3. ASSUME NEW d \in Dispatchers, Handle(d)
      PROVE  row[d] \in Rows /\ Contract!Deliver(row[d])
  <2>1. Working(d)
    BY <1>3 DEF Handle, Working
  <2>2. /\ row[d] \in Rows
        /\ row[d] \in published
        /\ Holds(d) \/ row[d] \in broken
        /\ Holds(d) => ~processed[row[d]] /\ attempts[row[d]] < MaxAttempts /\ lock[row[d]] = d
    BY <2>1, HolderWorks DEF Holds
  <2>3. row[d] \notin broken => delivered[row[d]] = 0
    BY <1>3, <2>2 DEF Handle, LockInv, Deliveries
  <2> QED BY <1>3, <2>2, <2>3 DEF Handle, table, Many, Contract!Deliver, Contract!Many
<1>4. ASSUME NEW d \in Dispatchers, Commit(d)
      PROVE  row[d] \in Rows /\ (Contract!Settle(row[d]) \/ Contract!Fail(row[d]))
  <2>1. Working(d) /\ Holds(d)
    BY <1>4 DEF Commit, Working
  <2>2. /\ row[d] \in Rows
        /\ row[d] \in published
        /\ ~processed[row[d]]
        /\ attempts[row[d]] < MaxAttempts
    BY <2>1, HolderWorks
  <2>3. UNCHANGED <<published, delivered, broken>>
    BY <1>4 DEF Commit, EndTransaction, history
  <2>4. CASE phase[d] = "handled"
    <3>1. delivered[row[d]] > 0
      BY <2>4 DEF LockInv, Deliveries
    <3>2. processed' = [processed EXCEPT ![row[d]] = TRUE]
      BY <1>4, <2>4 DEF Commit
    <3> QED BY <1>4, <2>2, <2>3, <3>1, <3>2 DEF Commit, Contract!Settle
  <2>5. CASE phase[d] = "failed"
    <3>1. processed' = processed
      BY <1>4, <2>2, <2>5 DEF Commit, LockInv, TypeOK
    <3> QED BY <1>4, <2>2, <2>3, <3>1 DEF Commit, Contract!Fail
  <2> QED BY <1>4, <2>4, <2>5 DEF Commit
<1>5. ASSUME NEW d \in Dispatchers, Timeout(d)
      PROVE  row[d] \in Rows /\ Contract!Break(row[d])
  <2>1. Working(d) /\ Holds(d)
    BY <1>5 DEF Timeout, Holds
  <2> QED BY <1>5, <2>1, HolderWorks DEF Timeout, table, Contract!Break
<1>6. ASSUME NEW d \in Dispatchers, Restart(d)
      PROVE  UNCHANGED Contract!vars \/ \E r \in Rows : Contract!Break(r)
  <2>1. /\ broken' = broken \cup {r \in Rows : lock[r] = d}
        /\ UNCHANGED <<published, attempts, processed, delivered>>
    BY <1>6 DEF Restart, table
  <2>2. CASE \A r \in Rows : lock[r] # d
    BY <2>1, <2>2
  <2>3. ASSUME NEW r \in Rows, lock[r] = d
        PROVE  Contract!Break(r)
    <3>1. /\ r \in published /\ ~processed[r] /\ attempts[r] < MaxAttempts
          /\ \A s \in Rows : lock[s] = d => s = r
      BY <2>3, OutboxAssumption DEF LockInv, Locks
    <3>2. broken' = broken \cup {r}
      BY <2>1, <2>3, <3>1
    <3> QED BY <2>1, <3>1, <3>2 DEF Contract!Break
  <2> QED BY <2>2, <2>3
<1>7. ASSUME NEW d \in Dispatchers, Sweep(d)
      PROVE  Contract!Dismiss
  BY <1>7 DEF Sweep, history, Contract!Dismiss
<1>8. ASSUME UNCHANGED vars
      PROVE  UNCHANGED Contract!vars
  BY <1>8 DEF vars, table, history
<1> QED BY <1>1, <1>2, <1>3, <1>4, <1>5, <1>6, <1>7, <1>8 DEF Next, Run, Finish

\* The dispatcher implements the delivery contract.
THEOREM ImplementsContract == Spec => DeliversAsPromised
<1>1. Init => Contract!Init
  BY DEF Init, Contract!Init
<1> QED BY <1>1, LockInvariant, ContractStep, PTL DEF Spec, DeliversAsPromised, Contract!Spec
=============================================================================
