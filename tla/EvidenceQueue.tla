------------------------------ MODULE EvidenceQueue ----------------------------
(***************************************************************************)
(* The durable evidence queue: hook evidence is captured into the table    *)
(* pending_evidence (memory/service.py, enqueue_evidence) and one worker   *)
(* task of the daemon (daemon/evidence_queue.py) evaluates it, deletes the *)
(* row with the outcome events, retries with a growing delay, and records  *)
(* a terminal failure after too many attempts or at too great an age.      *)
(*                                                                         *)
(* Abstractions.  The signed store is its health: "ok", "alarm" (a         *)
(* verification overlapped an append; a later one clears it) or "lost" (a  *)
(* verification finds a tail without its head; only one that overlapped    *)
(* the failed append clears it), as EventStore.tla shows.  An append is    *)
(* one step: it commits its events and its projection or it does neither.  *)
(* SQLite itself does not fail.  Times are relative: a row's age and       *)
(* the delay left before it is due again, in ticks, saturating at MaxAge   *)
(* and MaxDelay; "lag" is the time since the running batch read the clock. *)
(* Rows have the signed content they were captured with.  The rows of a    *)
(* batch are taken in any order, for ORDER BY enqueued_at.                 *)
(***************************************************************************)
EXTENDS Integers, FiniteSets

CONSTANTS
  Items,            \* the pieces of evidence the hooks deliver
  MaxItems,         \* pending_evidence_max_items
  MaxAttempts,      \* pending_evidence_max_attempts
  MaxAge,           \* pending_evidence_max_age_seconds, in ticks
  MaxDelay,         \* the cap on the retry delay, in ticks
  BatchSize,        \* EvidenceQueueWorker.batch_size
  MaxCrashes,       \* bound on stops of the daemon
  MaxAlarms,        \* bound on verifications that raise a false alarm
  MaxLosses         \* bound on appends that lose their head write

ASSUME LimitsAssumption ==
  /\ MaxItems \in Nat \ {0} /\ MaxAttempts \in Nat \ {0} /\ MaxAge \in Nat \ {0}
  /\ MaxDelay \in Nat \ {0} /\ BatchSize \in Nat \ {0}
ASSUME BoundsAssumption == MaxCrashes \in Nat /\ MaxAlarms \in Nat /\ MaxLosses \in Nat
ASSUME ItemsAssumption == IsFiniteSet(Items)

VARIABLES
  state,            \* per item: its row in pending_evidence, "done" once deleted
  attempts,         \* per item: column attempts
  age, delay,       \* per item: time since enqueued_at, time until next_attempt_at
  health,           \* the signed store's health
  worker,           \* where the worker's loop is
  item,             \* the item under evaluation, where there is one
  batch,            \* the rows selected and not yet taken
  expired,          \* the items of the batch too old when it read the clock
  lag,              \* time since the batch read the clock
  processed,        \* rows of the batch evaluated to an outcome
  wake,             \* the worker's asyncio.Event
  unnotified,       \* items captured by a request that has not called notify()
  terminals,        \* history: per item, outcome and failure records in the ledger
  evals,            \* history: per item, evaluations begun
  crashes, alarms, losses

rows  == <<state, attempts, age, delay>>
local == <<worker, item, batch, expired, lag, processed>>
ghost == <<terminals, evals, crashes, alarms, losses>>
vars  == <<rows, health, local, wake, unnotified, ghost>>

States == {"new", "pending", "failed", "done"}
Places == {"down", "top", "drain", "rows", "evaluating", "failing", "waiting", "gone"}
NoItem == "none"

TypeOK ==
  /\ state \in [Items -> States]
  /\ attempts \in [Items -> 0..MaxAttempts]
  /\ age \in [Items -> 0..MaxAge]
  /\ delay \in [Items -> 0..MaxDelay]
  /\ health \in {"ok", "alarm", "lost"}
  /\ worker \in Places
  /\ item \in Items \cup {NoItem}
  /\ batch \in SUBSET Items
  /\ expired \in SUBSET Items
  /\ lag \in 0..MaxDelay
  /\ processed \in 0..BatchSize
  /\ wake \in BOOLEAN
  /\ unnotified \in SUBSET Items
  /\ terminals \in [Items -> Nat]
  /\ evals \in [Items -> Nat]
  /\ crashes \in Nat /\ alarms \in Nat /\ losses \in Nat

Least(a, b) == IF a < b THEN a ELSE b

Init ==
  /\ state = [i \in Items |-> "new"]
  /\ attempts = [i \in Items |-> 0]
  /\ age = [i \in Items |-> 0]
  /\ delay = [i \in Items |-> 0]
  /\ health = "ok"
  /\ worker = "top"
  /\ item = NoItem /\ batch = {} /\ expired = {} /\ lag = 0 /\ processed = 0
  /\ wake = FALSE
  /\ unnotified = {}
  /\ terminals = [i \in Items |-> 0]
  /\ evals = [i \in Items |-> 0]
  /\ crashes = 0 /\ alarms = 0 /\ losses = 0

Pending == {i \in Items : state[i] = "pending"}

Running == worker # "down"

---------------------------------------------------------------------------
(* What an append to the signed store does to its health: nothing, or the  *)
(* batch commits and its head is lost, which the caller sees as an error.  *)
(* An OSError marks the store; anything else raised there does not.        *)
Stored == health = "ok" /\ UNCHANGED <<health, losses>>

StoredHeadLost ==
  /\ health = "ok" /\ losses < MaxLosses
  /\ health' \in {"ok", "lost"}
  /\ losses' = losses + 1

Refused == health # "ok" /\ UNCHANGED <<health, losses>>

(* An item leaves the queue with a signed record of it. *)
Settle(i, s) ==
  /\ state' = [state EXCEPT ![i] = s]
  /\ terminals' = [terminals EXCEPT ![i] = @ + 1]

(* project_failure: the attempt is counted with the terminal failure. *)
SettleFailed(i) ==
  /\ Settle(i, "failed")
  /\ attempts' = [attempts EXCEPT ![i] = @ + 1]

---------------------------------------------------------------------------
(* The hook endpoint.                                                      *)

(* enqueue_evidence: the capacity is checked in the transaction that       *)
(* inserts the row.  The response, and notify(), come after it.            *)
Capture(i) ==
  /\ Running /\ state[i] = "new"
  /\ Cardinality(Pending) < MaxItems
  /\ state' = [state EXCEPT ![i] = "pending"]
  /\ \/ Stored /\ unnotified' = unnotified \cup {i}
     \/ StoredHeadLost /\ UNCHANGED unnotified
  /\ UNCHANGED <<attempts, age, delay, local, wake, terminals, evals, crashes, alarms>>

(* hook_evidence after idempotency.run returned. *)
Notify(i) ==
  /\ i \in unnotified
  /\ wake' = TRUE
  /\ unnotified' = unnotified \ {i}
  /\ UNCHANGED <<rows, health, local, ghost>>

---------------------------------------------------------------------------
(* The worker.                                                             *)

(* The loop's head: an unhealthy store ends the task; the event is cleared *)
(* before the queue is read.                                               *)
LoopTop ==
  /\ worker = "top"
  /\ IF health # "ok" THEN worker' = "gone" /\ UNCHANGED wake
                      ELSE worker' = "drain" /\ wake' = FALSE
  /\ UNCHANGED <<rows, health, item, batch, expired, lag, processed, unnotified, ghost>>

Idle(w) ==
  /\ worker' = w
  /\ item' = NoItem /\ batch' = {} /\ expired' = {} /\ lag' = 0 /\ processed' = 0

(* The batch ends: a full one is followed by another at once. *)
EndBatch == Idle(IF processed >= BatchSize THEN "top" ELSE "waiting")

(* verify_pending_evidence_integrity, the clock and the SELECT of due rows.*)
Drain ==
  /\ worker = "drain"
  /\ LET due == {i \in Pending : delay[i] = 0} IN
     IF health # "ok" \/ due = {}
       THEN EndBatch
       ELSE /\ batch' \in {b \in SUBSET due :
                             Cardinality(b) = Least(BatchSize, Cardinality(due))}
            /\ expired' = {i \in batch' : age[i] = MaxAge}
            /\ lag' = 0
            /\ worker' = "rows"
            /\ UNCHANGED <<item, processed>>
  /\ UNCHANGED <<rows, health, wake, unnotified, ghost>>

(* Back to the loop over the rows. *)
NextRow ==
  /\ worker' = "rows" /\ item' = NoItem
  /\ UNCHANGED <<batch, expired, lag>>

(* The exception leaves process_pending_evidence; the worker swallows it.  *)
Raise == Idle("waiting")

TakeRow(i) ==
  /\ worker = "rows" /\ i \in batch \ expired
  /\ worker' = "evaluating" /\ item' = i
  /\ batch' = batch \ {i}
  /\ evals' = [evals EXCEPT ![i] = @ + 1]
  /\ UNCHANGED <<rows, health, expired, lag, processed, wake, unnotified,
                 terminals, crashes, alarms, losses>>

(* A row too old when the clock was read: a terminal failure is recorded.  *)
(* An error goes to the same handler as a failing evaluation.              *)
ExpireRow(i) ==
  /\ worker = "rows" /\ i \in batch \cap expired
  /\ batch' = batch \ {i}
  /\ \/ Stored /\ SettleFailed(i) /\ UNCHANGED <<worker, item>>
     \/ /\ StoredHeadLost /\ SettleFailed(i)
        /\ worker' = "failing" /\ item' = i
     \/ /\ Refused /\ UNCHANGED <<state, terminals, attempts>>
        /\ worker' = "failing" /\ item' = i
  /\ UNCHANGED <<age, delay, expired, lag, processed, wake, unnotified,
                 evals, crashes, alarms>>

(* Mutant: the event is cleared after the drain instead of before it. *)
EndRowsClears ==
  /\ worker = "rows" /\ batch = {}
  /\ EndBatch
  /\ wake' = FALSE
  /\ UNCHANGED <<rows, health, unnotified, ghost>>

EndRows ==
  /\ worker = "rows" /\ batch = {}
  /\ EndBatch
  /\ UNCHANGED <<rows, health, wake, unnotified, ghost>>

(* Mutant: the outcome commits without the deletion of the row. *)
DecideKeepsRow ==
  /\ worker = "evaluating"
  /\ terminals' = [terminals EXCEPT ![item] = @ + 1]
  /\ Stored /\ NextRow /\ processed' = processed + 1
  /\ UNCHANGED <<rows, wake, unnotified, evals, crashes, alarms>>

(* The evaluation ends with an outcome: its events (or the record that     *)
(* there is no candidate) and the row's deletion commit together.          *)
Decide ==
  /\ worker = "evaluating"
  /\ Settle(item, "done")
  /\ \/ Stored /\ NextRow /\ processed' = processed + 1
     \/ /\ StoredHeadLost
        /\ worker' = "failing" /\ UNCHANGED <<item, batch, expired, lag, processed>>
  /\ UNCHANGED <<attempts, age, delay, wake, unnotified, evals, crashes, alarms>>

(* The evaluation raises, or the store refuses its outcome. *)
EvaluationFails ==
  /\ worker = "evaluating"
  /\ worker' = "failing"
  /\ UNCHANGED <<rows, health, item, batch, expired, lag, processed, wake, unnotified, ghost>>

Delay(n) == Least(MaxDelay, 2 ^ Least(n, 8))

(* Mutant: a retry is scheduled without counting the attempt. *)
RecordFailureUncounted ==
  /\ worker = "failing"
  /\ \/ /\ state[item] # "pending" \/ (attempts[item] + 1 < MaxAttempts /\ item \notin expired)
        /\ NextRow
        /\ UNCHANGED <<state, attempts, health, processed, terminals, losses>>
     \/ /\ state[item] = "pending" /\ Stored /\ SettleFailed(item) /\ NextRow
        /\ attempts[item] + 1 >= MaxAttempts \/ item \in expired
        /\ UNCHANGED processed
  /\ UNCHANGED <<age, delay, wake, unnotified, evals, crashes, alarms>>

(* _record_pending_failure(evaluation_error).  The attempt is counted in   *)
(* the retry's UPDATE, which asks nothing of the store's health, or in the *)
(* projection of the terminal failure, which does.  Times are the batch's. *)
RecordFailure ==
  LET i == item
      n == attempts[i] + 1
      terminal == n >= MaxAttempts \/ i \in expired
  IN
  /\ worker = "failing"
  /\ \/ /\ state[i] # "pending"
        /\ NextRow
        /\ UNCHANGED <<rows, health, processed, terminals, losses>>
     \/ /\ state[i] = "pending" /\ terminal
        /\ \/ Stored /\ SettleFailed(i) /\ NextRow /\ UNCHANGED processed
           \/ StoredHeadLost /\ SettleFailed(i) /\ Raise
           \/ Refused /\ Raise /\ UNCHANGED <<state, terminals, attempts>>
        /\ UNCHANGED <<age, delay>>
     \/ /\ state[i] = "pending" /\ ~terminal
        /\ attempts' = [attempts EXCEPT ![i] = n]
        /\ delay' = [delay EXCEPT ![i] = IF Delay(n) > lag THEN Delay(n) - lag ELSE 0]
        /\ NextRow
        /\ UNCHANGED <<state, age, health, processed, terminals, losses>>
  /\ UNCHANGED <<wake, unnotified, evals, crashes, alarms>>

(* Mutant: the wait has no poll timeout. *)
WakeUpByEventOnly ==
  /\ worker = "waiting" /\ wake
  /\ worker' = "top"
  /\ UNCHANGED <<rows, health, item, batch, expired, lag, processed, wake, unnotified, ghost>>

(* wait_for(wake.wait(), poll interval): woken, or timed out. *)
WakeUp ==
  /\ worker = "waiting"
  /\ worker' = "top"
  /\ UNCHANGED <<rows, health, item, batch, expired, lag, processed, wake, unnotified, ghost>>

---------------------------------------------------------------------------
(* The world around the queue.                                             *)

(* Time passes.  It matters to rows that wait. *)
Tick ==
  /\ \E i \in Pending : age[i] < MaxAge \/ delay[i] > 0
  /\ age' = [i \in Items |-> IF i \in Pending THEN Least(age[i] + 1, MaxAge) ELSE age[i]]
  /\ delay' = [i \in Items |-> IF i \in Pending /\ delay[i] > 0 THEN delay[i] - 1 ELSE delay[i]]
  /\ lag' = IF worker \in {"rows", "evaluating", "failing"} THEN Least(lag + 1, MaxDelay) ELSE lag
  /\ UNCHANGED <<state, attempts, health, worker, item, batch, expired, processed, wake,
                 unnotified, ghost>>

(* A verification elsewhere in the daemon overlaps an append: a false      *)
(* alarm; or it finds the tail that lost its head.                         *)
Alarm ==
  /\ Running /\ health = "ok" /\ alarms < MaxAlarms
  /\ \/ health' = "alarm"
     \/ losses > 0 /\ health' = "lost"
  /\ alarms' = alarms + 1
  /\ UNCHANGED <<rows, local, wake, unnotified, terminals, evals, crashes, losses>>

(* A later verification succeeds. *)
AlarmClears ==
  /\ Running /\ health = "alarm"
  /\ health' = "ok"
  /\ UNCHANGED <<rows, local, wake, unnotified, ghost>>

(* A verification that read the events before the batch that lost its head *)
(* meets the old head and finds the store healthy.                         *)
LossForgotten ==
  /\ Running /\ health = "lost"
  /\ health' = "ok"
  /\ UNCHANGED <<rows, local, wake, unnotified, ghost>>

(* The daemon stops anywhere; an open transaction rolls back. *)
Crash ==
  /\ Running /\ crashes < MaxCrashes
  /\ crashes' = crashes + 1
  /\ Idle("down")
  /\ wake' = FALSE
  /\ unnotified' = {}
  /\ UNCHANGED <<rows, health, terminals, evals, alarms, losses>>

(* create_app starts the worker; the boot verification clears an alarm and *)
(* finds a tail whose head was lost and never covered.                     *)
Restart ==
  /\ worker = "down"
  /\ worker' = "top"
  /\ \/ health # "lost" /\ health' = "ok"
     \/ losses > 0 /\ health' = "lost"
  /\ UNCHANGED <<rows, item, batch, expired, lag, processed, wake, unnotified, ghost>>

---------------------------------------------------------------------------
WorkerStep ==
  \/ LoopTop \/ Drain \/ EndRows \/ Decide \/ EvaluationFails \/ RecordFailure \/ WakeUp
  \/ \E i \in Items : TakeRow(i) \/ ExpireRow(i)

Next ==
  \/ WorkerStep
  \/ \E i \in Items : Capture(i) \/ Notify(i)
  \/ Tick \/ Alarm \/ AlarmClears \/ LossForgotten \/ Crash \/ Restart

(* The event loop runs the worker whenever it can run, timers fire, the    *)
(* daemon is restarted, and somebody verifies the ledger again.            *)
Fairness ==
  /\ WF_vars(WorkerStep) /\ WF_vars(Tick) /\ WF_vars(Restart) /\ WF_vars(AlarmClears)

Spec == Init /\ [][Next]_vars /\ Fairness

---------------------------------------------------------------------------
(* Properties.                                                             *)

(* What disturbed the worker or its store so far. *)
Faults == crashes + alarms + losses

(* Whatever crashes, alarms and failing head writes come between, an item  *)
(* is settled once: it has one outcome or failure record in the ledger if  *)
(* it left the queue, and none while its row waits.                        *)
SettledOnce ==
  \A i \in Items : terminals[i] = IF state[i] \in {"failed", "done"} THEN 1 ELSE 0

(* Attempts survive crashes: an item is evaluated MaxAttempts times, plus  *)
(* one for every crash, every alarm and every lost head that hid an        *)
(* attempt (an attempt is counted when its failure is recorded).           *)
EvaluationsCounted == \A i \in Items : evals[i] <= MaxAttempts + Faults

(* A notification is not lost between the end of one drain and the wait:   *)
(* while the worker sleeps unwoken, no row it was told of has never been   *)
(* tried (with an undisturbed store and batches that hold the whole queue).*)
NoLostWakeup ==
  alarms = 0 /\ losses = 0 /\ MaxItems <= BatchSize /\ worker = "waiting" /\ ~wake =>
    \A i \in Pending \ unnotified : attempts[i] > 0

(* The inductive invariant.                                                *)

(* The rows of the batch are waiting rows, taken once; the item under      *)
(* evaluation still waits, and one whose failure is to be recorded waits   *)
(* unless the store kept its record and lost the head.                     *)
BatchInv ==
  /\ batch \subseteq Pending
  /\ worker \in {"evaluating", "failing"} => item \in Items \ batch
  /\ worker = "evaluating" => state[item] = "pending"
  /\ worker # "rows" /\ worker # "evaluating" /\ worker # "failing" =>
       batch = {} /\ processed = 0
  /\ Cardinality(batch) + processed + (IF worker = "evaluating" THEN 1 ELSE 0) <= BatchSize

(* A waiting row has an attempt left; one never tried is due. *)
AttemptsInv ==
  \A i \in Items :
    /\ state[i] \in {"new", "pending"} => attempts[i] < MaxAttempts
    /\ attempts[i] = 0 => delay[i] = 0

(* An unhealthy store has had an alarm or a loss. *)
HealthInv ==
  /\ health = "alarm" => alarms > 0
  /\ health = "lost" => losses > 0

(* The queue holds no more rows than its limit, which NoLostWakeup needs. *)
CapacityHeld == Cardinality(Pending) <= MaxItems

Busy == worker \in {"drain", "rows", "evaluating", "failing"}

(* The evaluation that is not counted yet is in flight. *)
Uncounted(i) == worker \in {"evaluating", "failing"} /\ item = i

(* An unhealthy store the worker has not met yet can hide one attempt. *)
CountInv ==
  \A i \in Items :
    /\ state[i] = "new" => evals[i] = 0
    /\ state[i] = "pending" =>
         evals[i] + (IF health # "ok" /\ Busy THEN 1 ELSE 0)
           <= attempts[i] + Faults + (IF Uncounted(i) THEN 1 ELSE 0)
    /\ state[i] \in {"failed", "done"} => evals[i] <= MaxAttempts + Faults

(* While a batch runs, a row never tried is of the batch or its item, its  *)
(* request has yet to notify, or the event is set.                         *)
WakeInv ==
  alarms = 0 /\ losses = 0 /\ MaxItems <= BatchSize /\ ~wake
  /\ worker \in {"rows", "evaluating", "failing", "waiting"} =>
    \A i \in Pending \ unnotified :
      \/ attempts[i] > 0
      \/ i \in batch
      \/ worker \in {"evaluating", "failing"} /\ item = i

IInv ==
  /\ TypeOK /\ BatchInv /\ AttemptsInv /\ HealthInv
  /\ SettledOnce /\ CapacityHeld /\ CountInv /\ WakeInv

(* Every captured item is decided or failed in the end. *)
EventuallySettled == \A i \in Items : state[i] = "pending" ~> state[i] # "pending"

(* ... whatever crashes and alarms come between, as long as the worker's   *)
(* loop has not ended and no head was lost: the queue is empty, or one of  *)
(* these two has come, again and again.                                    *)
DrainedUnlessStopped == []<>(Pending = {} \/ worker = "gone" \/ health = "lost")
================================================================================
