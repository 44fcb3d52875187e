-------------------------- MODULE EvidenceQueueProofs --------------------------
(***************************************************************************)
(* Theorems about EvidenceQueue.tla, for any finite set of items, any      *)
(* limits, and any number of crashes, alarms and failing head writes.      *)
(***************************************************************************)
EXTENDS EvidenceQueue, FiniteSetTheorems, TLAPS

(* Least is the smaller of two numbers. *)
LEMMA LeastType ==
  ASSUME NEW a \in Nat, NEW b \in Nat
  PROVE  Least(a, b) \in 0..a /\ Least(a, b) \in 0..b
  BY DEF Least

(* The retry delay is a positive number of ticks up to the cap. *)
LEMMA DelayType == ASSUME NEW n \in Nat PROVE Delay(n) \in 1..MaxDelay
  <1>1. Least(n, 8) \in 0..8
    BY LeastType
  <1>2. \A k \in 0..8 : 2 ^ k \in Nat \ {0}
    <2> SUFFICES ASSUME NEW k \in 0..8 PROVE 2 ^ k \in Nat \ {0}
      OBVIOUS
    <2>0. CASE k = 0
      <3>1. 2 ^ 0 = 1
        OBVIOUS
      <3>2. 2 ^ k = 1
        BY <2>0, <3>1, Zenon
      <3> QED
        BY <3>2
    <2>1. CASE k = 1
      <3>1. 2 ^ 1 = 2
        OBVIOUS
      <3>2. 2 ^ k = 2
        BY <2>1, <3>1, Zenon
      <3> QED
        BY <3>2
    <2>2. CASE k = 2
      <3>1. 2 ^ 2 = 4
        OBVIOUS
      <3>2. 2 ^ k = 4
        BY <2>2, <3>1, Zenon
      <3> QED
        BY <3>2
    <2>3. CASE k = 3
      <3>1. 2 ^ 3 = 8
        OBVIOUS
      <3>2. 2 ^ k = 8
        BY <2>3, <3>1, Zenon
      <3> QED
        BY <3>2
    <2>4. CASE k = 4
      <3>1. 2 ^ 4 = 16
        OBVIOUS
      <3>2. 2 ^ k = 16
        BY <2>4, <3>1, Zenon
      <3> QED
        BY <3>2
    <2>5. CASE k = 5
      <3>1. 2 ^ 5 = 32
        OBVIOUS
      <3>2. 2 ^ k = 32
        BY <2>5, <3>1, Zenon
      <3> QED
        BY <3>2
    <2>6. CASE k = 6
      <3>1. 2 ^ 6 = 64
        OBVIOUS
      <3>2. 2 ^ k = 64
        BY <2>6, <3>1, Zenon
      <3> QED
        BY <3>2
    <2>7. CASE k = 7
      <3>1. 2 ^ 7 = 128
        OBVIOUS
      <3>2. 2 ^ k = 128
        BY <2>7, <3>1, Zenon
      <3> QED
        BY <3>2
    <2>8. CASE k = 8
      <3>1. 2 ^ 8 = 256
        OBVIOUS
      <3>2. 2 ^ k = 256
        BY <2>8, <3>1, Zenon
      <3> QED
        BY <3>2
    <2> QED
      BY <2>0, <2>1, <2>2, <2>3, <2>4, <2>5, <2>6, <2>7, <2>8
  <1>3. 2 ^ Least(n, 8) \in Nat \ {0}
    BY <1>1, <1>2
  <1> QED
    BY <1>3, LimitsAssumption DEF Delay, Least

(* Sets of items are finite, and counted by natural numbers. *)
LEMMA ItemsCounted ==
  ASSUME NEW S \in SUBSET Items
  PROVE  IsFiniteSet(S) /\ Cardinality(S) \in Nat
  BY ItemsAssumption, FS_Subset, FS_CardinalityType

(* Fewer items count less, and as many only when they are the same. *)
LEMMA SmallerCounted ==
  ASSUME NEW S \in SUBSET Items, NEW T \in SUBSET S
  PROVE  Cardinality(T) <= Cardinality(S) /\ (Cardinality(T) = Cardinality(S) => T = S)
  BY ItemsCounted, FS_Subset

(* Taking an item of a set of items counts one less. *)
LEMMA OneLess ==
  ASSUME NEW S \in SUBSET Items, NEW i \in S
  PROVE  Cardinality(S \ {i}) = Cardinality(S) - 1
  BY ItemsCounted, FS_RemoveElement

---------------------------------------------------------------------------
(* What a step of the worker is made of keeps the types.                   *)

LEMMA SettleType ==
  ASSUME TypeOK, NEW i \in Items, NEW s \in States, Settle(i, s)
  PROVE  state' \in [Items -> States] /\ terminals' \in [Items -> Nat]
  BY DEF TypeOK, Settle

LEMMA SettleFailedType ==
  ASSUME TypeOK, AttemptsInv, NEW i \in Items, state[i] = "pending", SettleFailed(i)
  PROVE  /\ state' \in [Items -> States] /\ terminals' \in [Items -> Nat]
         /\ attempts' \in [Items -> 0..MaxAttempts]
  <1>1. state' \in [Items -> States] /\ terminals' \in [Items -> Nat]
    BY SettleType DEF SettleFailed, States
  <1>2. attempts[i] + 1 \in 0..MaxAttempts
    BY LimitsAssumption DEF TypeOK, AttemptsInv
  <1> QED
    BY <1>1, <1>2 DEF TypeOK, SettleFailed

LEMMA StoreType ==
  ASSUME TypeOK, Stored \/ StoredHeadLost \/ Refused
  PROVE  health' \in {"ok", "alarm", "lost"} /\ losses' \in Nat
  BY BoundsAssumption DEF TypeOK, Stored, StoredHeadLost, Refused

(* The worker is back at an end of its loop, with nothing in hand. *)
LEMMA IdleType ==
  ASSUME NEW w \in Places, Idle(w)
  PROVE  /\ worker' = w /\ item' = NoItem /\ batch' = {} /\ expired' = {}
         /\ lag' = 0 /\ processed' = 0
         /\ lag' \in 0..MaxDelay /\ processed' \in 0..BatchSize
  BY LimitsAssumption DEF Idle

(* Type correctness of one step. *)
LEMMA TypeStep == TypeOK /\ BatchInv /\ AttemptsInv /\ [Next]_vars => TypeOK'
<1> SUFFICES ASSUME TypeOK, BatchInv, AttemptsInv, [Next]_vars PROVE TypeOK'
  OBVIOUS
<1> USE LimitsAssumption, BoundsAssumption
<1>1. CASE LoopTop
  BY <1>1 DEF TypeOK, LoopTop, Places, rows, ghost
<1>2. CASE Drain
  <2> DEFINE due == {i \in Pending : delay[i] = 0}
  <2>1. CASE health # "ok" \/ due = {}
    <3>1. EndBatch
      BY <1>2, <2>1 DEF Drain
    <3> QED
      BY <1>2, <3>1, IdleType DEF TypeOK, Drain, EndBatch, Idle, Places, rows, ghost
  <2>2. CASE ~(health # "ok" \/ due = {})
    <3>1. batch' \in SUBSET due /\ expired' \subseteq batch' /\ lag' = 0 /\ worker' = "rows"
      BY <1>2, <2>2 DEF Drain
    <3>2. due \subseteq Items
      BY DEF Pending
    <3> QED
      BY <1>2, <2>2, <3>1, <3>2 DEF TypeOK, Drain, Places, rows, ghost
  <2> QED
    BY <2>1, <2>2
<1>3. CASE EndRows
  BY <1>3, IdleType DEF TypeOK, EndRows, EndBatch, Idle, Places, rows, ghost
<1>4. CASE Decide
  <2>1. item \in Items /\ worker = "evaluating"
    BY <1>4 DEF Decide, BatchInv
  <2>2. state' \in [Items -> States] /\ terminals' \in [Items -> Nat]
    BY <1>4, <2>1, SettleType DEF Decide, States
  <2>3. health' \in {"ok", "alarm", "lost"} /\ losses' \in Nat
    BY <1>4, StoreType DEF Decide
  <2>4. processed + 1 \in 0..BatchSize
    BY <2>1, ItemsCounted DEF TypeOK, BatchInv
  <2> QED
    BY <1>4, <2>1, <2>2, <2>3, <2>4 DEF TypeOK, Decide, NextRow, Places
<1>5. CASE EvaluationFails
  BY <1>5 DEF TypeOK, EvaluationFails, Places, rows, ghost
<1>6. CASE RecordFailure
  <2>1. item \in Items /\ worker = "failing"
    BY <1>6 DEF RecordFailure, BatchInv
  <2>2. CASE state[item] # "pending"
    BY <1>6, <2>2 DEF TypeOK, RecordFailure, NextRow, Places, rows
  <2> DEFINE terminal == attempts[item] + 1 >= MaxAttempts \/ item \in expired
  <2>3. CASE state[item] = "pending" /\ terminal
    <3>1. UNCHANGED <<age, delay, wake, unnotified, evals, crashes, alarms>>
      BY <1>6, <2>3 DEF RecordFailure
    <3>2. CASE Stored /\ SettleFailed(item) /\ NextRow /\ UNCHANGED processed
      BY <2>1, <2>3, <3>1, <3>2, SettleFailedType, StoreType DEF TypeOK, NextRow, Places
    <3>3. CASE StoredHeadLost /\ SettleFailed(item) /\ Raise
      <4>1. Idle("waiting")
        BY <3>3 DEF Raise
      <4> QED
        BY <2>1, <2>3, <3>1, <3>3, <4>1, IdleType, SettleFailedType, StoreType DEF TypeOK, Places
    <3>4. CASE Refused /\ Raise /\ UNCHANGED <<state, terminals, attempts>>
      <4>1. Idle("waiting")
        BY <3>4 DEF Raise
      <4> QED
        BY <3>1, <3>4, <4>1, IdleType, StoreType DEF TypeOK, Places
    <3> QED
      BY <1>6, <2>3, <3>2, <3>3, <3>4 DEF RecordFailure
  <2>4. CASE state[item] = "pending" /\ ~terminal
    <3> DEFINE n == attempts[item] + 1
               left == IF Delay(n) > lag THEN Delay(n) - lag ELSE 0
    <3>1. n \in 0..MaxAttempts
      BY <2>1, <2>4 DEF TypeOK
    <3>2. left \in 0..MaxDelay
      BY <3>1, DelayType DEF TypeOK
    <3>3. /\ attempts' = [attempts EXCEPT ![item] = n]
          /\ delay' = [delay EXCEPT ![item] = left]
          /\ NextRow
          /\ UNCHANGED <<state, age, health, processed, terminals, losses>>
          /\ UNCHANGED <<wake, unnotified, evals, crashes, alarms>>
      BY <1>6, <2>4 DEF RecordFailure
    <3> HIDE DEF n, left
    <3> QED
      BY <3>1, <3>2, <3>3 DEF TypeOK, NextRow, Places
  <2> QED
    BY <2>2, <2>3, <2>4
<1>7. CASE WakeUp
  BY <1>7 DEF TypeOK, WakeUp, Places, rows, ghost
<1>8. ASSUME NEW i \in Items, TakeRow(i) PROVE TypeOK'
  BY <1>8 DEF TypeOK, TakeRow, Places, rows
<1>9. ASSUME NEW i \in Items, ExpireRow(i) PROVE TypeOK'
  <2>1. state[i] = "pending"
    BY <1>9 DEF ExpireRow, BatchInv, Pending
  <2>2. batch' \in SUBSET Items /\ item' \in Items \cup {NoItem} /\ worker' \in Places
    BY <1>9 DEF TypeOK, ExpireRow, Places
  <2>3. health' \in {"ok", "alarm", "lost"} /\ losses' \in Nat
    BY <1>9, StoreType DEF ExpireRow
  <2>4. /\ state' \in [Items -> States] /\ terminals' \in [Items -> Nat]
        /\ attempts' \in [Items -> 0..MaxAttempts]
    <3>1. SettleFailed(i) \/ UNCHANGED <<state, terminals, attempts>>
      BY <1>9 DEF ExpireRow
    <3> QED
      BY <2>1, <3>1, SettleFailedType DEF TypeOK
  <2> QED
    BY <1>9, <2>2, <2>3, <2>4 DEF TypeOK, ExpireRow
<1>10. ASSUME NEW i \in Items, Capture(i) PROVE TypeOK'
  <2>1. health' \in {"ok", "alarm", "lost"} /\ losses' \in Nat
    BY <1>10, StoreType DEF Capture
  <2> QED
    BY <1>10, <2>1 DEF TypeOK, Capture, States, local
<1>11. ASSUME NEW i \in Items, Notify(i) PROVE TypeOK'
  BY <1>11 DEF TypeOK, Notify, rows, local, ghost
<1>12. CASE Tick
  <2>1. \A i \in Items : Least(age[i] + 1, MaxAge) \in 0..MaxAge
    BY DEF TypeOK, Least
  <2>2. Least(lag + 1, MaxDelay) \in 0..MaxDelay
    BY DEF TypeOK, Least
  <2>3. age' \in [Items -> 0..MaxAge]
    BY <1>12, <2>1 DEF TypeOK, Tick
  <2>4. delay' \in [Items -> 0..MaxDelay]
    BY <1>12 DEF TypeOK, Tick
  <2> QED
    BY <1>12, <2>2, <2>3, <2>4 DEF TypeOK, Tick, ghost
<1>13. CASE Alarm
  BY <1>13 DEF TypeOK, Alarm, rows, local
<1>14. CASE AlarmClears \/ LossForgotten
  BY <1>14 DEF TypeOK, AlarmClears, LossForgotten, rows, local, ghost
<1>15. CASE Crash
  <2>1. Idle("down") /\ "down" \in Places
    BY <1>15 DEF Crash, Places
  <2>2. /\ worker' \in Places /\ item' = NoItem /\ batch' = {} /\ expired' = {}
        /\ lag' \in 0..MaxDelay /\ processed' \in 0..BatchSize
    BY <2>1, IdleType
  <2>3. /\ UNCHANGED <<state, attempts, age, delay, health, terminals, evals, alarms, losses>>
        /\ wake' = FALSE /\ unnotified' = {} /\ crashes' = crashes + 1
    BY <1>15 DEF Crash, rows
  <2>4. crashes' \in Nat
    BY <2>3 DEF TypeOK
  <2>5. wake' \in BOOLEAN
    BY <2>3
  <2>6. batch' \in SUBSET Items /\ expired' \in SUBSET Items /\ unnotified' \in SUBSET Items
    BY <2>2, <2>3
  <2> QED
    BY <2>2, <2>3, <2>4, <2>5, <2>6 DEF TypeOK
<1>16. CASE Restart
  BY <1>16 DEF TypeOK, Restart, Places, rows, ghost
<1>17. CASE UNCHANGED vars
  BY <1>17 DEF TypeOK, vars, rows, local, ghost
<1>18. CASE WorkerStep
  BY <1>18, <1>1, <1>2, <1>3, <1>4, <1>5, <1>6, <1>7, <1>8, <1>9, Zenon DEF WorkerStep
<1> QED
  BY <1>10, <1>11, <1>12, <1>13, <1>14, <1>15, <1>16, <1>17, <1>18, Zenon DEF Next

---------------------------------------------------------------------------
(* The parts of the invariant, one step at a time.                         *)

(* Rows that wait still wait when only other rows change. *)
LEMMA StillPending ==
  ASSUME TypeOK, NEW S \in SUBSET Pending, \A i \in S : state'[i] = state[i]
  PROVE  S \subseteq Pending'
  BY DEF Pending

(* A settled row is the only one whose state changes. *)
LEMMA SettleChanges ==
  ASSUME TypeOK, NEW i \in Items, NEW s \in States, Settle(i, s)
  PROVE  state'[i] = s /\ \A j \in Items \ {i} : state'[j] = state[j]
  BY DEF TypeOK, Settle

(* An end of the worker's loop leaves nothing in hand. *)
LEMMA IdleBatch ==
  ASSUME NEW w \in Places \ {"rows", "evaluating", "failing"}, Idle(w)
  PROVE  BatchInv'
  <1>1. batch' = {} /\ processed' = 0 /\ worker' = w
    BY DEF Idle
  <1>2. Cardinality(batch') = 0
    BY <1>1, FS_EmptySet
  <1> QED
    BY <1>1, <1>2, LimitsAssumption DEF BatchInv, Places

LEMMA EndBatchIdle ==
  ASSUME EndBatch
  PROVE  \E w \in {"top", "waiting"} : Idle(w)
  BY DEF EndBatch

LEMMA BatchStep == TypeOK /\ BatchInv /\ [Next]_vars => BatchInv'
<1> SUFFICES ASSUME TypeOK, BatchInv, [Next]_vars PROVE BatchInv'
  OBVIOUS
<1> USE LimitsAssumption
<1>0. Cardinality(batch) \in Nat /\ processed \in Nat /\ BatchSize \in Nat
  BY ItemsCounted DEF TypeOK
<1>1. CASE LoopTop
  BY <1>1 DEF BatchInv, Pending, LoopTop, rows
<1>2. CASE Drain
  <2> DEFINE due == {i \in Pending : delay[i] = 0}
  <2>1. CASE health # "ok" \/ due = {}
    <3>1. EndBatch
      BY <1>2, <2>1 DEF Drain
    <3> QED
      BY <3>1, EndBatchIdle, IdleBatch DEF Places
  <2>2. CASE ~(health # "ok" \/ due = {})
    <3>1. /\ batch' \in SUBSET due /\ worker' = "rows" /\ UNCHANGED <<item, processed, state>>
          /\ Cardinality(batch') = Least(BatchSize, Cardinality(due))
      BY <1>2, <2>2 DEF Drain, rows
    <3>2. due \in SUBSET Items
      BY DEF Pending
    <3>3. Cardinality(batch') <= BatchSize
      BY <3>1, <3>2, ItemsCounted DEF Least
    <3>4. processed = 0
      BY <1>2 DEF Drain, BatchInv
    <3>5. Cardinality(batch') \in Nat
      BY <3>1, <3>2, ItemsCounted
    <3> QED
      BY <3>1, <3>3, <3>4, <3>5 DEF BatchInv, Pending
  <2> QED
    BY <2>1, <2>2
<1>3. CASE EndRows
  <2>1. EndBatch
    BY <1>3 DEF EndRows
  <2> QED
    BY <2>1, EndBatchIdle, IdleBatch DEF Places
<1>4. CASE Decide
  <2>1. item \in Items \ batch /\ worker = "evaluating" /\ Settle(item, "done")
    BY <1>4 DEF Decide, BatchInv
  <2>2. \A i \in Items \ {item} : state'[i] = state[i]
    BY <2>1, SettleChanges DEF States
  <2>3. batch \subseteq Pending'
    BY <2>1, <2>2, StillPending DEF BatchInv, Pending
  <2>4. Cardinality(batch) + processed + 1 <= BatchSize
    BY <2>1 DEF BatchInv
  <2>5. /\ batch' = batch
        /\ \/ worker' = "rows" /\ processed' = processed + 1
           \/ worker' = "failing" /\ processed' = processed /\ item' = item
    BY <1>4 DEF Decide, NextRow
  <2> QED
    BY <1>0, <2>1, <2>3, <2>4, <2>5 DEF BatchInv
<1>5. CASE EvaluationFails
  BY <1>0, <1>5 DEF BatchInv, Pending, EvaluationFails, rows
<1>6. CASE RecordFailure
  <2>1. item \in Items \ batch /\ worker = "failing"
    BY <1>6 DEF RecordFailure, BatchInv
  <2>2. CASE Raise
    BY <2>2, IdleBatch DEF Raise, Places
  <2>3. CASE NextRow /\ UNCHANGED processed /\ (SettleFailed(item) \/ UNCHANGED state)
    <3>1. \A i \in Items \ {item} : state'[i] = state[i]
      BY <2>1, <2>3, SettleChanges DEF States, SettleFailed
    <3>2. batch \subseteq Pending'
      BY <2>1, <3>1, StillPending DEF BatchInv, Pending
    <3> QED
      BY <1>0, <2>1, <2>3, <3>2 DEF BatchInv, NextRow
  <2> QED
    BY <1>6, <2>2, <2>3 DEF RecordFailure, rows
<1>7. CASE WakeUp
  BY <1>7 DEF BatchInv, Pending, WakeUp, rows
<1>8. ASSUME NEW i \in Items, TakeRow(i) PROVE BatchInv'
  <2>1. i \in batch /\ batch \in SUBSET Items
    BY <1>8 DEF TakeRow, TypeOK
  <2>2. Cardinality(batch \ {i}) = Cardinality(batch) - 1
    BY <2>1, OneLess
  <2> QED
    BY <1>0, <1>8, <2>1, <2>2 DEF BatchInv, Pending, TakeRow, rows
<1>9. ASSUME NEW i \in Items, ExpireRow(i) PROVE BatchInv'
  <2>1. i \in batch /\ batch \in SUBSET Items /\ worker = "rows" /\ batch' = batch \ {i}
    BY <1>9 DEF ExpireRow, TypeOK
  <2>2. Cardinality(batch \ {i}) = Cardinality(batch) - 1
    BY <2>1, OneLess
  <2>3. SettleFailed(i) \/ UNCHANGED state
    BY <1>9 DEF ExpireRow
  <2>4. \A j \in Items \ {i} : state'[j] = state[j]
    BY <2>3, SettleChanges DEF States, SettleFailed
  <2>5. batch \ {i} \subseteq Pending'
    BY <2>4, StillPending DEF BatchInv, Pending
  <2>6. /\ UNCHANGED processed
        /\ \/ UNCHANGED <<worker, item>>
           \/ worker' = "failing" /\ item' = i
    BY <1>9 DEF ExpireRow
  <2> QED
    BY <1>0, <2>1, <2>2, <2>5, <2>6 DEF BatchInv
<1>10. ASSUME NEW i \in Items, Capture(i) PROVE BatchInv'
  <2>1. state[i] = "new" /\ UNCHANGED <<worker, item, batch, processed>>
    BY <1>10 DEF Capture, local
  <2>2. \A j \in Items \ {i} : state'[j] = state[j]
    BY <1>10 DEF Capture, TypeOK
  <2>3. batch \subseteq Pending'
    BY <2>1, <2>2, StillPending DEF BatchInv, Pending
  <2> QED
    BY <1>0, <2>1, <2>2, <2>3 DEF BatchInv, Pending
<1>11. ASSUME NEW i \in Items, Notify(i) PROVE BatchInv'
  BY <1>11 DEF BatchInv, Pending, Notify, rows, local
<1>12. CASE Tick
  BY <1>12 DEF BatchInv, Pending, Tick
<1>13. CASE Alarm
  BY <1>13 DEF BatchInv, Pending, Alarm, rows, local
<1>14. CASE AlarmClears \/ LossForgotten
  BY <1>14 DEF BatchInv, Pending, AlarmClears, LossForgotten, rows, local
<1>15. CASE Crash
  BY <1>15, IdleBatch DEF Crash, Places
<1>16. CASE Restart
  BY <1>16 DEF BatchInv, Pending, Restart, rows
<1>17. CASE UNCHANGED vars
  BY <1>17 DEF BatchInv, Pending, vars, rows, local
<1>18. CASE WorkerStep
  BY <1>18, <1>1, <1>2, <1>3, <1>4, <1>5, <1>6, <1>7, <1>8, <1>9, Zenon DEF WorkerStep
<1> QED
  BY <1>10, <1>11, <1>12, <1>13, <1>14, <1>15, <1>16, <1>17, <1>18, Zenon DEF Next

(* What can happen to a row in one step.                                   *)

RowStays(i) ==
  /\ state'[i] = state[i] /\ attempts'[i] = attempts[i] /\ terminals'[i] = terminals[i]
  /\ delay'[i] <= delay[i]

RowSettles(i) ==
  /\ state[i] = "pending" /\ state'[i] \in {"failed", "done"}
  /\ terminals'[i] = terminals[i] + 1
  /\ attempts'[i] \in {attempts[i], attempts[i] + 1}
  /\ delay'[i] = delay[i]

RowRetries(i) ==
  /\ state[i] = "pending" /\ state'[i] = "pending"
  /\ terminals'[i] = terminals[i]
  /\ attempts'[i] = attempts[i] + 1 /\ attempts[i] + 1 < MaxAttempts

RowStep(i) == RowStays(i) \/ Capture(i) \/ RowSettles(i) \/ RowRetries(i)

(* An item that is settled is the only one whose row changes. *)
LEMMA SettleRows ==
  ASSUME TypeOK, NEW i \in Items, state[i] = "pending", UNCHANGED delay,
         \/ SettleFailed(i)
         \/ Settle(i, "done") /\ UNCHANGED attempts
         \/ UNCHANGED <<state, terminals, attempts>>,
         NEW j \in Items
  PROVE  RowStep(j)
  BY DEF TypeOK, SettleFailed, Settle, RowStep, RowStays, RowSettles

(* Every step does to every row one of the four things. *)
LEMMA RowSteps ==
  ASSUME TypeOK, BatchInv, [Next]_vars, NEW j \in Items
  PROVE  RowStep(j)
<1>0. delay[j] \in Nat /\ delay[j] <= delay[j]
  BY LimitsAssumption DEF TypeOK
<1>1. ASSUME UNCHANGED <<rows, terminals>> PROVE RowStep(j)
  BY <1>0, <1>1 DEF RowStep, RowStays, rows
<1>2. CASE Decide
  <2>1. item \in Items /\ state[item] = "pending"
    BY <1>2 DEF Decide, BatchInv
  <2> QED
    BY <1>2, <2>1, SettleRows DEF Decide
<1>3. CASE RecordFailure
  <2>1. item \in Items
    BY <1>3 DEF RecordFailure, BatchInv
  <2> DEFINE terminal == attempts[item] + 1 >= MaxAttempts \/ item \in expired
  <2>2. CASE state[item] # "pending"
    BY <1>1, <1>3, <2>2 DEF RecordFailure, rows
  <2>3. CASE state[item] = "pending" /\ terminal
    <3>1. UNCHANGED delay /\ (SettleFailed(item) \/ UNCHANGED <<state, terminals, attempts>>)
      BY <1>3, <2>3 DEF RecordFailure
    <3> QED
      BY <2>1, <2>3, <3>1, SettleRows
  <2>4. CASE state[item] = "pending" /\ ~terminal
    <3> DEFINE n == attempts[item] + 1
    <3>1. /\ attempts' = [attempts EXCEPT ![item] = n]
          /\ \E d : delay' = [delay EXCEPT ![item] = d]
          /\ UNCHANGED <<state, terminals>>
      BY <1>3, <2>4 DEF RecordFailure
    <3>2. n < MaxAttempts
      BY <2>1, <2>4, LimitsAssumption DEF TypeOK
    <3>3. CASE j = item
      BY <2>1, <2>4, <3>1, <3>2, <3>3 DEF TypeOK, RowStep, RowRetries
    <3>4. CASE j # item
      BY <1>0, <2>1, <3>1, <3>4 DEF TypeOK, RowStep, RowStays
    <3> QED
      BY <3>3, <3>4
  <2> QED
    BY <2>2, <2>3, <2>4
<1>4. ASSUME NEW i \in Items, ExpireRow(i) PROVE RowStep(j)
  <2>1. state[i] = "pending" /\ UNCHANGED delay
    BY <1>4 DEF ExpireRow, BatchInv, Pending
  <2>2. SettleFailed(i) \/ UNCHANGED <<state, terminals, attempts>>
    BY <1>4 DEF ExpireRow
  <2> QED
    BY <2>1, <2>2, SettleRows
<1>5. ASSUME NEW i \in Items, Capture(i) PROVE RowStep(j)
  <2>1. CASE j = i
    BY <1>5, <2>1 DEF RowStep
  <2>2. CASE j # i
    BY <1>0, <1>5, <2>2 DEF TypeOK, Capture, RowStep, RowStays
  <2> QED
    BY <2>1, <2>2
<1>6. CASE Tick
  <2>1. delay'[j] <= delay[j]
    BY <1>0, <1>6 DEF Tick
  <2> QED
    BY <1>6, <2>1 DEF Tick, ghost, RowStep, RowStays
<1>7. CASE LoopTop \/ Drain \/ EndRows \/ EvaluationFails \/ WakeUp
  BY <1>1, <1>7, Zenon DEF LoopTop, Drain, EndRows, EvaluationFails, WakeUp, ghost
<1>8. ASSUME NEW i \in Items, TakeRow(i) \/ Notify(i) PROVE RowStep(j)
  BY <1>1, <1>8, Zenon DEF TakeRow, Notify, ghost
<1>9. CASE Alarm \/ AlarmClears \/ LossForgotten \/ Crash \/ Restart
  BY <1>1, <1>9, Zenon DEF Alarm, AlarmClears, LossForgotten, Crash, Restart, ghost
<1>10. CASE UNCHANGED vars
  BY <1>1, <1>10, Zenon DEF vars, ghost
<1> QED
  BY <1>2, <1>3, <1>4, <1>5, <1>6, <1>7, <1>8, <1>9, <1>10, Zenon DEF Next, WorkerStep

LEMMA AttemptsStep == TypeOK /\ BatchInv /\ AttemptsInv /\ [Next]_vars => AttemptsInv'
<1> SUFFICES ASSUME TypeOK, BatchInv, AttemptsInv, [Next]_vars, NEW i \in Items
             PROVE  /\ state'[i] \in {"new", "pending"} => attempts'[i] < MaxAttempts
                    /\ attempts'[i] = 0 => delay'[i] = 0
  BY DEF AttemptsInv
<1>1. attempts[i] \in Nat /\ delay[i] \in Nat /\ delay'[i] \in Nat
  BY TypeStep, LimitsAssumption DEF TypeOK
<1>2. CASE RowStays(i)
  BY <1>1, <1>2 DEF AttemptsInv, RowStays
<1>3. CASE Capture(i)
  BY <1>3 DEF AttemptsInv, Capture
<1>4. CASE RowSettles(i)
  BY <1>1, <1>4 DEF AttemptsInv, RowSettles
<1>5. CASE RowRetries(i)
  BY <1>1, <1>5 DEF RowRetries
<1> QED
  BY <1>2, <1>3, <1>4, <1>5, RowSteps DEF RowStep

LEMMA SettledStep == TypeOK /\ BatchInv /\ SettledOnce /\ [Next]_vars => SettledOnce'
<1> SUFFICES ASSUME TypeOK, BatchInv, SettledOnce, [Next]_vars, NEW i \in Items
             PROVE  terminals'[i] = IF state'[i] \in {"failed", "done"} THEN 1 ELSE 0
  BY DEF SettledOnce
<1>1. CASE RowStays(i)
  BY <1>1 DEF SettledOnce, RowStays
<1>2. CASE Capture(i)
  BY <1>2 DEF TypeOK, SettledOnce, Capture
<1>3. CASE RowSettles(i)
  BY <1>3 DEF SettledOnce, RowSettles
<1>4. CASE RowRetries(i)
  BY <1>4 DEF SettledOnce, RowRetries
<1> QED
  BY <1>1, <1>2, <1>3, <1>4, RowSteps DEF RowStep

LEMMA CapacityStep == TypeOK /\ BatchInv /\ CapacityHeld /\ [Next]_vars => CapacityHeld'
<1> SUFFICES ASSUME TypeOK, BatchInv, CapacityHeld, [Next]_vars PROVE CapacityHeld'
  OBVIOUS
<1>1. Pending \in SUBSET Items /\ Cardinality(Pending) \in Nat
  BY ItemsCounted DEF Pending
<1>2. CASE \E i \in Items : Capture(i)
  <2>1. PICK i \in Items : Capture(i)
    BY <1>2
  <2>2. Pending' = Pending \cup {i}
    BY <2>1 DEF TypeOK, Pending, Capture
  <2>3. Cardinality(Pending \cup {i}) <= Cardinality(Pending) + 1
    BY <1>1, ItemsCounted, FS_AddElement
  <2>4. Cardinality(Pending) < MaxItems
    BY <2>1 DEF Capture
  <2>5. Cardinality(Pending \cup {i}) \in Nat
    BY <1>1, ItemsCounted
  <2> QED
    BY <1>1, <2>2, <2>3, <2>4, <2>5, LimitsAssumption DEF CapacityHeld
<1>3. CASE ~ \E i \in Items : Capture(i)
  <2>1. Pending' \in SUBSET Pending
    BY <1>3, RowSteps DEF RowStep, RowStays, RowSettles, RowRetries, Pending
  <2>2. Cardinality(Pending') <= Cardinality(Pending) /\ Cardinality(Pending') \in Nat
    BY <1>1, <2>1, SmallerCounted, ItemsCounted
  <2> QED
    BY <1>1, <2>2, LimitsAssumption DEF CapacityHeld
<1> QED
  BY <1>2, <1>3

LEMMA HealthStep == TypeOK /\ HealthInv /\ [Next]_vars => HealthInv'
<1> SUFFICES ASSUME TypeOK, HealthInv, [Next]_vars PROVE HealthInv'
  OBVIOUS
<1>1. ASSUME UNCHANGED <<health, alarms, losses>> PROVE HealthInv'
  BY <1>1 DEF HealthInv
<1>2. ASSUME Stored \/ StoredHeadLost \/ Refused, UNCHANGED alarms PROVE HealthInv'
  BY <1>2 DEF TypeOK, HealthInv, Stored, StoredHeadLost, Refused
<1>3. CASE Alarm
  BY <1>3 DEF TypeOK, HealthInv, Alarm
<1>4. CASE AlarmClears \/ LossForgotten \/ Restart
  BY <1>4 DEF HealthInv, AlarmClears, LossForgotten, Restart, ghost
<1>5. CASE Decide
  BY <1>2, <1>5, Zenon DEF Decide
<1>6. CASE RecordFailure
  BY <1>1, <1>2, <1>6, Zenon DEF RecordFailure
<1>7. ASSUME NEW i \in Items, ExpireRow(i) \/ Capture(i) PROVE HealthInv'
  BY <1>2, <1>7, Zenon DEF ExpireRow, Capture
<1>8. ASSUME NEW i \in Items, TakeRow(i) \/ Notify(i) PROVE HealthInv'
  BY <1>1, <1>8, Zenon DEF TakeRow, Notify, ghost
<1>9. CASE LoopTop \/ Drain \/ EndRows \/ EvaluationFails \/ WakeUp
  BY <1>1, <1>9, Zenon DEF LoopTop, Drain, EndRows, EvaluationFails, WakeUp, ghost
<1>10. CASE Tick \/ Crash
  BY <1>1, <1>10, Zenon DEF Tick, Crash, ghost
<1>11. CASE UNCHANGED vars
  BY <1>1, <1>11, Zenon DEF vars, ghost
<1> QED
  BY <1>3, <1>4, <1>5, <1>6, <1>7, <1>8, <1>9, <1>10, <1>11, Zenon DEF Next, WorkerStep

---------------------------------------------------------------------------
(* Evaluations.                                                            *)

Slack == IF health # "ok" /\ Busy THEN 1 ELSE 0

Hidden(i) == IF Uncounted(i) THEN 1 ELSE 0

(* What CountInv says of one item. *)
CountedItem(i) ==
  /\ state[i] = "new" => evals[i] = 0
  /\ state[i] = "pending" => evals[i] + Slack <= attempts[i] + Faults + Hidden(i)
  /\ state[i] \in {"failed", "done"} => evals[i] <= MaxAttempts + Faults

LEMMA FaultsType == ASSUME TypeOK PROVE Faults \in Nat
  BY DEF TypeOK, Faults

LEMMA CountsAreNumbers ==
  ASSUME TypeOK, NEW i \in Items
  PROVE  /\ evals[i] \in Nat /\ attempts[i] \in Nat /\ Faults \in Nat
         /\ MaxAttempts \in Nat /\ Slack \in {0, 1} /\ Hidden(i) \in {0, 1}
         /\ state[i] \in States
  BY FaultsType, LimitsAssumption DEF TypeOK, Slack, Hidden

(* An item whose evaluations are counted has had few enough of them. *)
LEMMA CountedBounds ==
  ASSUME TypeOK, AttemptsInv, NEW i \in Items, CountedItem(i)
  PROVE  evals[i] <= MaxAttempts + Faults
<1>1. state[i] = "pending" => attempts[i] < MaxAttempts
  BY DEF AttemptsInv
<1> QED
  BY <1>1, CountsAreNumbers DEF CountedItem, States

(* No fault is forgotten, and an append that fails behind its commit is one. *)
LEMMA FaultsGrow ==
  ASSUME TypeOK, UNCHANGED <<crashes, alarms>>, Stored \/ StoredHeadLost \/ Refused
  PROVE  /\ Faults' \in Nat /\ Faults' >= Faults
         /\ StoredHeadLost => Faults' = Faults + 1
         /\ health' # "ok" => health # "ok" \/ Faults' = Faults + 1
  BY BoundsAssumption DEF TypeOK, Faults, Stored, StoredHeadLost, Refused

(* A step that counts no evaluation of an item, and hides none, keeps it counted. *)
LEMMA CountKept ==
  ASSUME TypeOK, TypeOK', AttemptsInv, NEW i \in Items, CountedItem(i), RowStep(i),
         evals'[i] = evals[i], Faults' \in Nat, Faults' >= Faults,
         state[i] = "pending" /\ state'[i] = "pending" =>
           Slack' + Hidden(i) + attempts[i] + Faults
             <= Slack + Hidden(i)' + attempts'[i] + Faults',
         Capture(i) => Slack' <= Faults'
  PROVE  CountedItem(i)'
<1>1. /\ evals[i] \in Nat /\ attempts[i] \in Nat /\ Faults \in Nat
      /\ MaxAttempts \in Nat /\ Slack \in {0, 1} /\ Hidden(i) \in {0, 1}
  BY CountsAreNumbers
<1>2. attempts'[i] \in Nat /\ Slack' \in {0, 1} /\ Hidden(i)' \in {0, 1}
  BY LimitsAssumption DEF TypeOK, Slack, Hidden
<1>3. evals[i] <= MaxAttempts + Faults
  BY CountedBounds
<1>4. CASE RowStays(i)
  BY <1>1, <1>2, <1>3, <1>4 DEF CountedItem, RowStays
<1>5. CASE Capture(i)
  <2>1. state[i] = "new" /\ state'[i] = "pending"
    BY <1>5 DEF Capture, TypeOK
  <2> QED
    BY <1>1, <1>2, <1>5, <2>1 DEF CountedItem
<1>6. CASE RowSettles(i)
  BY <1>1, <1>2, <1>3, <1>6 DEF CountedItem, RowSettles
<1>7. CASE RowRetries(i)
  BY <1>1, <1>2, <1>7 DEF CountedItem, RowRetries
<1> QED
  BY <1>4, <1>5, <1>6, <1>7 DEF RowStep

LEMMA CountStep ==
  TypeOK /\ BatchInv /\ AttemptsInv /\ CountInv /\ [Next]_vars => CountInv'
<1> SUFFICES ASSUME TypeOK, BatchInv, AttemptsInv, CountInv, [Next]_vars, NEW i \in Items
             PROVE  CountedItem(i)'
  BY DEF CountInv, CountedItem, Slack, Hidden
<1>a. CountedItem(i)
  BY DEF CountInv, CountedItem, Slack, Hidden
<1>b. TypeOK' /\ RowStep(i)
  BY TypeStep, RowSteps
<1>c. /\ evals[i] \in Nat /\ attempts[i] \in Nat /\ Faults \in Nat
      /\ MaxAttempts \in Nat /\ Slack \in {0, 1} /\ Hidden(i) \in {0, 1}
  BY CountsAreNumbers
<1>d. attempts'[i] \in Nat /\ Slack' \in {0, 1} /\ Hidden(i)' \in {0, 1}
  BY <1>b, LimitsAssumption DEF TypeOK, Slack, Hidden
<1>e. attempts'[i] >= attempts[i]
  BY <1>b, <1>c DEF RowStep, RowStays, Capture, RowSettles, RowRetries
(* Most steps count nothing: it is enough to look at what hides an attempt. *)
<1>f. ASSUME UNCHANGED evals, Faults' \in Nat, Faults' >= Faults,
             Slack' + Hidden(i) + Faults <= Slack + Hidden(i)' + Faults',
             Capture(i) => Slack' <= Faults'
      PROVE  CountedItem(i)'
  BY <1>a, <1>b, <1>c, <1>d, <1>e, <1>f, CountKept
<1>g. ASSUME UNCHANGED <<crashes, alarms, losses>> PROVE Faults' = Faults
  BY <1>g DEF Faults
<1>1. CASE LoopTop
  <2>1. UNCHANGED <<state, evals, Faults>>
    BY <1>1, <1>g DEF LoopTop, rows, ghost
  <2>2. Slack' = 0 /\ (Hidden(i) = 1 => Hidden(i)' = 1)
    BY <1>1 DEF LoopTop, Slack, Hidden, Uncounted, Busy, ghost
  <2> QED
    BY <1>c, <1>d, <1>f, <2>1, <2>2
<1>2. CASE Drain \/ EndRows
  <2>1. UNCHANGED <<state, evals, Faults, health>>
    BY <1>2, <1>g DEF Drain, EndRows, rows, ghost
  <2>2. Hidden(i) = 0
    BY <1>2 DEF Drain, EndRows, Hidden, Uncounted
  <2>3. Slack' <= Slack
    BY <1>2, <1>c, <1>d, <2>1 DEF Drain, EndRows, Slack, Busy
  <2>4. ~Capture(i)
    BY <2>1 DEF Capture, TypeOK
  <2> QED
    BY <1>c, <1>d, <1>f, <2>1, <2>2, <2>3, <2>4
<1>3. CASE Decide
  <2>1. UNCHANGED <<evals, crashes, alarms>> /\ worker = "evaluating" /\ item \in Items
    BY <1>3 DEF Decide, BatchInv
  <2>2. (Stored \/ StoredHeadLost) /\ Faults' \in Nat /\ Faults' >= Faults
    BY <1>3, <2>1, FaultsGrow DEF Decide
  <2>3. CASE i = item
    <3>1. state'[i] = "done"
      BY <1>3, <2>1, <2>3, SettleChanges DEF Decide, States
    <3>2. evals'[i] <= MaxAttempts + Faults'
      BY <1>a, <1>c, <2>1, <2>2, CountedBounds
    <3> QED
      BY <3>1, <3>2 DEF CountedItem
  <2>4. CASE i # item
    <3>1. Hidden(i) = 0
      BY <2>1, <2>4 DEF Hidden, Uncounted
    <3>2. Slack' + Faults <= Faults'
      BY <1>c, <1>d, <2>1, <2>2, FaultsGrow DEF Stored, Slack
    <3>3. ~Capture(i)
      BY <1>3 DEF Decide, Capture, local, NextRow
    <3> QED
      BY <1>c, <1>d, <1>f, <2>1, <2>2, <3>1, <3>2, <3>3
  <2> QED
    BY <2>3, <2>4
<1>4. CASE EvaluationFails
  <2>1. UNCHANGED <<state, evals, Faults, health, item>>
    BY <1>4, <1>g DEF EvaluationFails, rows, ghost
  <2>2. Slack' = Slack /\ Hidden(i)' = Hidden(i)
    BY <1>4 DEF EvaluationFails, Slack, Hidden, Uncounted, Busy
  <2>3. ~Capture(i)
    BY <1>4 DEF EvaluationFails, Capture, local
  <2> QED
    BY <1>c, <1>d, <1>f, <2>1, <2>2, <2>3
<1>5. CASE RecordFailure
  <2>1. UNCHANGED <<evals, crashes, alarms>> /\ worker = "failing" /\ item \in Items
    BY <1>5 DEF RecordFailure, BatchInv
  <2>2. ~Capture(i)
    BY <1>5 DEF RecordFailure, Capture, NextRow, Raise, Idle, local
  <2>7. \/ Stored \/ StoredHeadLost \/ Refused
        \/ UNCHANGED <<health, losses>>
    BY <1>5 DEF RecordFailure
  <2>8. /\ Faults' \in Nat /\ Faults' >= Faults
        /\ health' # "ok" => health # "ok" \/ Faults' = Faults + 1
    BY <1>c, <1>g, <2>1, <2>7, FaultsGrow
  <2> DEFINE terminal == attempts[item] + 1 >= MaxAttempts \/ item \in expired
  <2>3. CASE i # item
    <3>1. Hidden(i) = 0 /\ (health # "ok" => Slack = 1) /\ (health' = "ok" => Slack' = 0)
      BY <2>1, <2>3 DEF Slack, Hidden, Uncounted, Busy
    <3>2. Slack' + Hidden(i) + Faults <= Slack + Hidden(i)' + Faults'
      BY <1>c, <1>d, <2>8, <3>1
    <3> QED
      BY <1>f, <2>1, <2>2, <2>8, <3>2
  <2>4. CASE i = item /\ state[i] # "pending"
    <3>1. UNCHANGED state
      BY <1>5, <2>4 DEF RecordFailure, rows
    <3> QED
      BY <1>a, <1>c, <2>1, <2>4, <2>8, <3>1 DEF CountedItem
  <2>5. CASE i = item /\ state[i] = "pending" /\ ~terminal
    <3>1. /\ attempts'[i] = attempts[i] + 1 /\ UNCHANGED <<health, losses>>
          /\ worker' = "rows"
      BY <1>5, <2>1, <2>5 DEF RecordFailure, NextRow, TypeOK
    <3>2. Slack' = Slack /\ Faults' = Faults
      BY <1>g, <2>1, <3>1 DEF Slack, Busy
    <3> QED
      BY <1>a, <1>b, <1>c, <1>d, <2>1, <2>2, <3>1, <3>2, CountKept
  <2>6. CASE i = item /\ state[i] = "pending" /\ terminal
    <3>1. \/ SettleFailed(i)
          \/ Refused /\ Raise /\ UNCHANGED <<state, terminals, attempts>>
      BY <1>5, <2>6 DEF RecordFailure
    <3>2. CASE SettleFailed(i)
      <4>1. state'[i] = "failed"
        BY <3>2, SettleChanges DEF SettleFailed, States
      <4>2. evals'[i] <= MaxAttempts + Faults'
        BY <1>a, <1>c, <2>1, <2>8, CountedBounds
      <4> QED
        BY <4>1, <4>2 DEF CountedItem
    <3>3. CASE Refused /\ Raise
      <4>1. health # "ok" /\ worker' = "waiting"
        BY <3>3 DEF Refused, Raise, Idle
      <4>2. Slack' = 0 /\ Slack = 1
        BY <2>1, <4>1 DEF Slack, Busy
      <4> QED
        BY <1>c, <1>d, <1>f, <2>1, <2>2, <2>8, <4>2
    <3> QED
      BY <3>1, <3>2, <3>3
  <2> QED
    BY <2>3, <2>4, <2>5, <2>6
<1>6. CASE WakeUp
  <2>1. UNCHANGED <<evals, Faults, health, item>>
    BY <1>6, <1>g DEF WakeUp, ghost
  <2>2. Slack' = Slack /\ Hidden(i)' = Hidden(i)
    BY <1>6 DEF WakeUp, Slack, Hidden, Uncounted, Busy
  <2>3. ~Capture(i)
    BY <1>6 DEF WakeUp, Capture, local
  <2> QED
    BY <1>c, <1>d, <1>f, <2>1, <2>2, <2>3
<1>7. ASSUME NEW j \in Items, TakeRow(j) PROVE CountedItem(i)'
  <2>1. /\ UNCHANGED <<state, attempts, Faults, health>>
        /\ worker = "rows" /\ worker' = "evaluating" /\ item' = j
        /\ evals' = [evals EXCEPT ![j] = @ + 1]
    BY <1>7, <1>g DEF TakeRow, rows
  <2>2. Slack' = Slack /\ Hidden(i) = 0 /\ (i = j => Hidden(i)' = 1)
    BY <2>1 DEF Slack, Hidden, Uncounted, Busy
  <2>3. CASE i = j
    <3>1. state[i] = "pending" /\ evals'[i] = evals[i] + 1
      BY <1>7, <2>1, <2>3 DEF TakeRow, BatchInv, Pending, TypeOK
    <3> QED
      BY <1>a, <1>c, <1>d, <2>1, <2>2, <2>3, <3>1 DEF CountedItem
  <2>4. CASE i # j
    <3>1. evals'[i] = evals[i]
      BY <2>1, <2>4 DEF TypeOK
    <3> QED
      BY <1>a, <1>c, <1>d, <2>1, <2>2, <3>1 DEF CountedItem
  <2> QED
    BY <2>3, <2>4
<1>8. ASSUME NEW j \in Items, ExpireRow(j) PROVE CountedItem(i)'
  <2>1. /\ UNCHANGED <<evals, crashes, alarms>> /\ worker = "rows"
        /\ Stored \/ StoredHeadLost \/ Refused
    BY <1>8 DEF ExpireRow
  <2>2. /\ Faults' \in Nat /\ Faults' >= Faults
        /\ health' # "ok" => health # "ok" \/ Faults' = Faults + 1
    BY <2>1, FaultsGrow
  <2>3. Hidden(i) = 0 /\ (health # "ok" => Slack = 1) /\ (health' = "ok" => Slack' = 0)
    BY <2>1 DEF Slack, Hidden, Uncounted, Busy
  <2>4. Slack' + Hidden(i) + Faults <= Slack + Hidden(i)' + Faults'
    BY <1>c, <1>d, <2>2, <2>3
  <2>5. ~Capture(i)
    BY <1>8 DEF ExpireRow, Capture, local
  <2> QED
    BY <1>f, <2>1, <2>2, <2>4, <2>5
<1>9. ASSUME NEW j \in Items, Capture(j) PROVE CountedItem(i)'
  <2>1. /\ UNCHANGED <<evals, crashes, alarms, worker, item>>
        /\ Stored \/ StoredHeadLost
    BY <1>9 DEF Capture, local
  <2>2. Faults' \in Nat /\ Faults' >= Faults /\ Slack' + Faults <= Faults'
    BY <1>c, <1>d, <2>1, FaultsGrow DEF Stored, Slack
  <2>3. Hidden(i)' = Hidden(i)
    BY <2>1 DEF Hidden, Uncounted
  <2> QED
    BY <1>c, <1>d, <1>f, <2>1, <2>2, <2>3
<1>10. ASSUME UNCHANGED <<evals, crashes, alarms, losses, worker, item, health, state>>
       PROVE  CountedItem(i)'
  <2>1. Slack' = Slack /\ Hidden(i)' = Hidden(i) /\ Faults' = Faults
    BY <1>10, <1>g DEF Slack, Hidden, Uncounted, Busy
  <2>2. ~Capture(i)
    BY <1>10 DEF Capture, TypeOK
  <2> QED
    BY <1>c, <1>d, <1>f, <1>10, <2>1, <2>2
<1>11. ASSUME NEW j \in Items, Notify(j) PROVE CountedItem(i)'
  BY <1>10, <1>11, Zenon DEF Notify, rows, local, ghost
<1>12. CASE Tick
  BY <1>10, <1>12, Zenon DEF Tick, ghost
<1>13. CASE Alarm
  <2>1. UNCHANGED <<evals, worker, item, state>> /\ Faults' = Faults + 1
    BY <1>13 DEF Alarm, local, rows, TypeOK, Faults
  <2>2. Hidden(i)' = Hidden(i)
    BY <2>1 DEF Hidden, Uncounted
  <2>3. ~Capture(i)
    BY <2>1 DEF Capture, TypeOK
  <2> QED
    BY <1>c, <1>d, <1>f, <2>1, <2>2, <2>3
<1>14. CASE AlarmClears \/ LossForgotten
  <2>1. UNCHANGED <<evals, Faults, worker, item>> /\ health' = "ok"
    BY <1>14, <1>g DEF AlarmClears, LossForgotten, local, ghost
  <2>2. Slack' = 0 /\ Hidden(i)' = Hidden(i)
    BY <2>1 DEF Slack, Hidden, Uncounted
  <2> QED
    BY <1>c, <1>d, <1>f, <2>1, <2>2
<1>15. CASE Crash
  <2>1. UNCHANGED <<evals, alarms, losses>> /\ worker' = "down" /\ crashes' = crashes + 1
    BY <1>15 DEF Crash, Idle
  <2>2. Slack' = 0 /\ Faults' = Faults + 1
    BY <2>1 DEF Slack, Busy, Faults, TypeOK
  <2> QED
    BY <1>c, <1>d, <1>f, <2>1, <2>2
<1>16. CASE Restart
  <2>1. UNCHANGED <<evals, Faults, item>> /\ worker = "down" /\ worker' = "top"
    BY <1>16, <1>g DEF Restart, ghost
  <2>2. Slack' = 0 /\ (Hidden(i) = 1 => Hidden(i)' = 1)
    BY <2>1 DEF Slack, Hidden, Uncounted, Busy
  <2> QED
    BY <1>c, <1>d, <1>f, <2>1, <2>2
<1>17. CASE UNCHANGED vars
  BY <1>10, <1>17, Zenon DEF vars, rows, local, ghost
<1>18. CASE WorkerStep
  BY <1>18, <1>1, <1>2, <1>3, <1>4, <1>5, <1>6, <1>7, <1>8, Zenon DEF WorkerStep
<1> QED
  BY <1>9, <1>11, <1>12, <1>13, <1>14, <1>15, <1>16, <1>17, <1>18, Zenon DEF Next

---------------------------------------------------------------------------
(* The worker's event.                                                     *)

(* With no alarm and no loss the store takes what it is given. *)
LEMMA Undisturbed ==
  ASSUME TypeOK, HealthInv, [Next]_vars, alarms' = 0, losses' = 0
  PROVE  alarms = 0 /\ losses = 0 /\ health = "ok"
<1>1. /\ alarms \in Nat /\ losses \in Nat
      /\ health \in {"ok", "alarm", "lost"}
  BY DEF TypeOK
<1>2. alarms' = alarms \/ alarms' = alarms + 1
  BY DEF Next, WorkerStep, LoopTop, Drain, EndRows, Decide, EvaluationFails, RecordFailure,
         WakeUp, TakeRow, ExpireRow, Capture, Notify, Tick, Alarm, AlarmClears,
         LossForgotten, Crash, Restart, vars, ghost
<1>3. losses' = losses \/ losses' = losses + 1
  <2>1. ASSUME Stored \/ StoredHeadLost \/ Refused PROVE losses' = losses \/ losses' = losses + 1
    BY <2>1 DEF Stored, StoredHeadLost, Refused
  <2> QED
    BY <2>1 DEF Next, WorkerStep, LoopTop, Drain, EndRows, Decide, EvaluationFails,
           RecordFailure, WakeUp, TakeRow, ExpireRow, Capture, Notify, Tick, Alarm,
           AlarmClears, LossForgotten, Crash, Restart, vars, ghost
<1> QED
  BY <1>1, <1>2, <1>3 DEF HealthInv

(* What WakeInv says of a row the worker was told of. *)
Noticed(i) ==
  \/ attempts[i] > 0
  \/ i \in batch
  \/ worker \in {"evaluating", "failing"} /\ item = i

LEMMA WakeStep ==
  TypeOK /\ BatchInv /\ AttemptsInv /\ HealthInv /\ CapacityHeld /\ WakeInv /\ [Next]_vars
    => WakeInv'
<1> SUFFICES ASSUME TypeOK, BatchInv, AttemptsInv, HealthInv, CapacityHeld, WakeInv, [Next]_vars,
                    alarms' = 0, losses' = 0, MaxItems <= BatchSize, ~wake',
                    worker' \in {"rows", "evaluating", "failing", "waiting"},
                    NEW i \in Items, state'[i] = "pending", i \notin unnotified'
             PROVE  Noticed(i)'
  BY DEF WakeInv, Noticed, Pending
<1>a. alarms = 0 /\ losses = 0 /\ health = "ok"
  BY Undisturbed
<1>b. ASSUME ~wake, worker \in {"rows", "evaluating", "failing", "waiting"},
             state[i] = "pending", i \notin unnotified
      PROVE  Noticed(i)
  BY <1>a, <1>b DEF WakeInv, Noticed, Pending
<1>1. CASE Drain
  <2> DEFINE due == {r \in Pending : delay[r] = 0}
  <2>1. state[i] = "pending" /\ UNCHANGED attempts /\ attempts[i] \in Nat
    BY <1>1, LimitsAssumption DEF Drain, rows, TypeOK
  <2>2. delay[i] # 0 => attempts[i] > 0
    BY <2>1 DEF AttemptsInv
  <2>3. CASE due = {}
    BY <2>1, <2>2, <2>3 DEF Pending, Noticed
  <2>4. CASE due # {}
    <3>1. batch' \in SUBSET due /\ Cardinality(batch') = Least(BatchSize, Cardinality(due))
      BY <1>1, <1>a, <2>4 DEF Drain
    <3>2. due \in SUBSET Pending /\ Pending \in SUBSET Items /\ due \in SUBSET Items
      BY DEF Pending
    <3>3. Cardinality(due) <= Cardinality(Pending)
      BY <3>2, SmallerCounted
    <3>4. Cardinality(due) \in Nat /\ Cardinality(Pending) \in Nat
      BY <3>2, ItemsCounted
    <3>5. Cardinality(batch') = Cardinality(due)
      BY <3>1, <3>3, <3>4, LimitsAssumption DEF CapacityHeld, Least
    <3>6. batch' = due
      BY <3>1, <3>2, <3>5, SmallerCounted
    <3> QED
      BY <2>1, <2>2, <3>6 DEF Pending, Noticed
  <2> QED
    BY <2>3, <2>4
<1>2. CASE EndRows
  BY <1>2, <1>b DEF EndRows, Noticed, rows
<1>3. CASE Decide
  <2>1. Stored /\ NextRow /\ worker = "evaluating" /\ Settle(item, "done") /\ item \in Items
    BY <1>3, <1>a DEF Decide, StoredHeadLost, BatchInv
  <2>2. i # item /\ state[i] = "pending"
    BY <2>1, SettleChanges DEF States
  <2> QED
    BY <1>3, <1>b, <2>1, <2>2 DEF Decide, NextRow, Noticed
<1>4. CASE EvaluationFails
  BY <1>4, <1>b DEF EvaluationFails, Noticed, rows
<1>5. CASE RecordFailure
  <2>1. worker = "failing" /\ item \in Items /\ UNCHANGED <<wake, unnotified>>
    BY <1>5 DEF RecordFailure, BatchInv
  <2> DEFINE terminal == attempts[item] + 1 >= MaxAttempts \/ item \in expired
  <2>2. CASE state[item] # "pending"
    BY <1>5, <1>b, <2>1, <2>2 DEF RecordFailure, NextRow, Noticed, rows
  <2>3. CASE state[item] = "pending" /\ terminal
    <3>1. SettleFailed(item) /\ NextRow
      BY <1>5, <1>a, <2>3 DEF RecordFailure, Refused, StoredHeadLost
    <3>2. i # item /\ state[i] = "pending" /\ attempts'[i] = attempts[i]
      BY <2>1, <3>1, SettleChanges DEF SettleFailed, States, TypeOK
    <3> QED
      BY <1>b, <2>1, <3>1, <3>2 DEF NextRow, Noticed
  <2>4. CASE state[item] = "pending" /\ ~terminal
    <3>1. NextRow /\ UNCHANGED state /\ attempts' = [attempts EXCEPT ![item] = attempts[item] + 1]
      BY <1>5, <2>4 DEF RecordFailure
    <3>2. CASE i = item
      <4>1. attempts'[i] = attempts[i] + 1 /\ attempts[i] \in Nat
        BY <2>1, <3>1, <3>2, LimitsAssumption DEF TypeOK
      <4> QED
        BY <4>1 DEF Noticed
    <3>3. CASE i # item
      BY <1>b, <2>1, <3>1, <3>3 DEF NextRow, Noticed, TypeOK
    <3> QED
      BY <3>2, <3>3
  <2> QED
    BY <2>2, <2>3, <2>4
<1>6. ASSUME NEW j \in Items, TakeRow(j) PROVE Noticed(i)'
  BY <1>6, <1>b DEF TakeRow, Noticed, rows
<1>7. ASSUME NEW j \in Items, ExpireRow(j) PROVE Noticed(i)'
  <2>1. /\ SettleFailed(j) /\ worker = "rows" /\ batch' = batch \ {j}
        /\ UNCHANGED <<wake, unnotified>>
    BY <1>7, <1>a DEF ExpireRow, Refused
  <2>2. i # j /\ state[i] = "pending" /\ attempts'[i] = attempts[i]
    BY <2>1, SettleChanges DEF SettleFailed, States, TypeOK
  <2> QED
    BY <1>b, <2>1, <2>2 DEF Noticed
<1>8. ASSUME NEW j \in Items, Capture(j) PROVE Noticed(i)'
  <2>1. /\ unnotified' = unnotified \cup {j} /\ UNCHANGED <<worker, item, batch, attempts, wake>>
        /\ state' = [state EXCEPT ![j] = "pending"]
    BY <1>8, <1>a DEF Capture, StoredHeadLost, local
  <2>2. i # j /\ state[i] = "pending"
    BY <2>1 DEF TypeOK
  <2> QED
    BY <1>b, <2>1, <2>2 DEF Noticed
<1>9. CASE Tick
  BY <1>9, <1>b DEF Tick, Noticed
<1>10. CASE UNCHANGED vars
  BY <1>10, <1>b DEF vars, rows, local, Noticed
<1>11. CASE LoopTop \/ WakeUp \/ Crash \/ Restart
  BY <1>11 DEF LoopTop, WakeUp, Crash, Idle, Restart
<1>12. CASE Alarm \/ AlarmClears \/ LossForgotten
  BY <1>12, <1>a DEF Alarm, AlarmClears, LossForgotten
<1>13. ASSUME NEW j \in Items, Notify(j) PROVE Noticed(i)'
  BY <1>13 DEF Notify
<1>14. CASE WorkerStep
  BY <1>14, <1>1, <1>2, <1>3, <1>4, <1>5, <1>6, <1>7, <1>11, Zenon DEF WorkerStep
<1> QED
  BY <1>8, <1>9, <1>10, <1>11, <1>12, <1>13, <1>14, Zenon DEF Next

---------------------------------------------------------------------------
(* The theorems.                                                           *)

LEMMA InitInv == Init => IInv
<1> SUFFICES ASSUME Init PROVE IInv
  OBVIOUS
<1>1. TypeOK
  <2>1. /\ state \in [Items -> States]
        /\ attempts \in [Items -> 0..MaxAttempts]
        /\ age \in [Items -> 0..MaxAge]
        /\ delay \in [Items -> 0..MaxDelay]
    BY LimitsAssumption DEF Init, States
  <2>2. terminals \in [Items -> Nat] /\ evals \in [Items -> Nat]
    BY DEF Init
  <2>3. /\ worker \in Places /\ item \in Items \cup {NoItem} /\ wake \in BOOLEAN
        /\ health \in {"ok", "alarm", "lost"}
    BY DEF Init, Places
  <2>4. /\ lag \in 0..MaxDelay /\ processed \in 0..BatchSize
        /\ crashes \in Nat /\ alarms \in Nat /\ losses \in Nat
    BY LimitsAssumption DEF Init
  <2>5. /\ batch \in SUBSET Items /\ expired \in SUBSET Items /\ unnotified \in SUBSET Items
    BY DEF Init
  <2> QED
    BY <2>1, <2>2, <2>3, <2>4, <2>5 DEF TypeOK
<1>2. Pending = {} /\ Cardinality({}) = 0
  BY FS_EmptySet DEF Init, Pending
<1>3. BatchInv
  BY <1>2, LimitsAssumption DEF Init, BatchInv
<1>4. CapacityHeld
  BY <1>2, LimitsAssumption DEF CapacityHeld
<1>5. AttemptsInv /\ HealthInv /\ SettledOnce
  BY LimitsAssumption DEF Init, AttemptsInv, HealthInv, SettledOnce
<1>6. CountInv
  BY DEF Init, CountInv
<1>7. WakeInv
  BY <1>2 DEF WakeInv
<1> QED
  BY <1>1, <1>3, <1>4, <1>5, <1>6, <1>7 DEF IInv

(* The inductive invariant of the queue holds in every state: the batch is *)
(* made of waiting rows, every evaluation is counted by an attempt, a      *)
(* crash, an alarm or a lost head, the queue keeps its limit, and no row   *)
(* told of is overlooked.                                                  *)
THEOREM InvariantHolds == Spec => []IInv
<1>1. IInv /\ [Next]_vars => IInv'
  BY TypeStep, BatchStep, AttemptsStep, HealthStep, SettledStep, CapacityStep, CountStep,
     WakeStep DEF IInv
<1> QED
  BY InitInv, <1>1, PTL DEF Spec

(* Every variable keeps its type; in particular no row is tried more than  *)
(* MaxAttempts times and no batch yields more outcomes than it has rows.   *)
THEOREM TypeCorrect == Spec => []TypeOK
<1>1. IInv => TypeOK
  BY DEF IInv
<1> QED
  BY InvariantHolds, <1>1, PTL

(* An item that left the queue has one signed record of its outcome or     *)
(* failure, and one that waits has none, whatever crashes, alarms and      *)
(* failing head writes come between.                                       *)
THEOREM ItemsSettleOnce == Spec => []SettledOnce
<1>1. IInv => SettledOnce
  BY DEF IInv
<1> QED
  BY InvariantHolds, <1>1, PTL

(* An item is evaluated at most MaxAttempts times, and once more for each  *)
(* crash, each alarm and each append that lost its head, also when a later *)
(* verification finds the store healthy again.                             *)
THEOREM EvaluationsBounded == Spec => []EvaluationsCounted
<1>1. IInv => EvaluationsCounted
  <2> SUFFICES ASSUME IInv, NEW i \in Items
               PROVE  evals[i] <= MaxAttempts + Faults
    BY DEF EvaluationsCounted
  <2>1. CountedItem(i)
    BY DEF IInv, CountInv, CountedItem, Slack, Hidden
  <2> QED
    BY <2>1, CountedBounds DEF IInv
<1> QED
  BY InvariantHolds, <1>1, PTL

(* While the worker sleeps unwoken, every row it was notified of has been  *)
(* tried: with an undisturbed store and batches that hold the whole queue. *)
THEOREM WakeupsAreKept == Spec => []NoLostWakeup
<1>1. IInv => NoLostWakeup
  <2> SUFFICES ASSUME IInv, alarms = 0, losses = 0, MaxItems <= BatchSize,
                      worker = "waiting", ~wake, NEW i \in Pending \ unnotified
               PROVE  attempts[i] > 0
    BY DEF NoLostWakeup
  <2>1. batch = {}
    BY DEF IInv, BatchInv
  <2> QED
    BY <2>1 DEF IInv, WakeInv
<1> QED
  BY InvariantHolds, <1>1, PTL
================================================================================
