------------------------------- MODULE EventStore ------------------------------
(***************************************************************************)
(* The signed event store: SQLiteEventStore (ledger/store.py) and the part *)
(* of LedgerVerifier.verify (ledger/verify.py) that decides the store's    *)
(* health.  Several processes (the daemon and CLI commands) open the same  *)
(* SQLite file and the same ledger-head.json sidecar; inside a process,    *)
(* asyncio tasks share one store object with its write lock and its health *)
(* flag.  A batch commits in one SQLite transaction; the sidecar is a      *)
(* separate file written after that transaction, under the process's lock  *)
(* and under no lock any other process sees.  Between the two the append   *)
(* can be cancelled, and then nothing marks the store unhealthy.           *)
(*                                                                         *)
(* Abstractions.  An event is its kind.  SQLite gives each committed event *)
(* the next sequence number, and a hash chain over an append-only log      *)
(* determines the hash of position n, so a head is the sequence number it  *)
(* names.  verify() reads the events, then the projections, then the       *)
(* sidecar, in separate statements with awaits between and no snapshot;    *)
(* the projection reads are taken together here.  Tampering with the       *)
(* files from outside is not modelled, but for its trace in the evidence   *)
(* queue, a "queueFailure" event: any other verification that fails here   *)
(* fails on what the program itself wrote.  The appends build_runtime      *)
(* makes itself (the first policy) are appends of a running process here.  *)
(***************************************************************************)
EXTENDS Integers, Sequences, FiniteSets

CONSTANTS
  Procs,            \* processes that open the store
  Tasks,            \* asyncio tasks
  ProcOf,           \* the process each task runs in
  Batches,          \* the batches of event kinds one append may carry
  None,             \* no task
  ExclusiveOwner,   \* an operator never runs two processes on one store at a time
  MaxEvents,        \* bound on the length of the log
  MaxStops,         \* bound on process stops (crash, kill or shutdown)
  MaxFaults,        \* bound on failing sidecar writes (OSError)
  MaxInterrupts     \* bound on appends cancelled between COMMIT and sidecar

(* "stream" events (StreamStarted, ...) have no projection verify() checks; *)
(* "capture" events do; "queueFailure" is the signed record of a queue      *)
(* integrity failure, after which the appender marks the store unhealthy.   *)
Kinds == {"stream", "capture", "queueFailure"}

ASSUME ProcOfAssumption == ProcOf \in [Tasks -> Procs]
ASSUME NoneAssumption == None \notin Tasks
ASSUME BatchesAssumption == Batches \subseteq Seq(Kinds) \ {<<>>}
ASSUME ExclusiveAssumption == ExclusiveOwner \in BOOLEAN
ASSUME BoundsAssumption ==
  MaxEvents \in Nat /\ MaxStops \in Nat /\ MaxFaults \in Nat /\ MaxInterrupts \in Nat

VARIABLES
  log,              \* table events, in sequence_number order
  head,             \* sequence number in ledger-head.json, Missing before it exists
  status,           \* per process: where build_runtime is
  opened,           \* per process: the last sequence number initialize() read
  healthy,          \* per process: store.healthy
  error,            \* per process: store.health_error
  lock,             \* per process: the task holding store._write_lock
  pc,               \* per task: the step of the append or verify it runs
  seq,              \* per task: tail it committed, or tail its verify() read
  prior,            \* per task: its verify() captured a queue failure
  drain,            \* per task: its verify() precedes a persisted-failure check
  orphans,          \* history: committed tails whose head write never succeeded
  stranded,         \* history: orphans the head did not cover when a process stopped
  acked,            \* history: highest sequence number returned to a caller
  stops, faults, interrupts   \* counters behind the bounds of those names

disk  == <<log, head>>
procs == <<status, opened, healthy, error, lock>>
tasks == <<pc, seq, prior, drain>>
ghost == <<orphans, stranded, acked, stops, faults, interrupts>>
vars  == <<disk, procs, tasks, ghost>>

Missing == -1
Statuses == {"down", "opening", "booting", "checking", "up"}
Errors == {"none", "expected_head_mismatch", "expected_head_update_failed",
           "projection_drift", "queued_evidence"}
Steps == {"idle", "appending", "committed", "verifying", "eventsRead", "viewRead",
          "queueCheck"}

TypeOK ==
  /\ log \in Seq(Kinds)
  /\ head \in Nat \cup {Missing}
  /\ status \in [Procs -> Statuses]
  /\ opened \in [Procs -> Nat]
  /\ healthy \in [Procs -> BOOLEAN]
  /\ error \in [Procs -> Errors]
  /\ lock \in [Procs -> Tasks \cup {None}]
  /\ pc \in [Tasks -> Steps]
  /\ seq \in [Tasks -> Nat]
  /\ prior \in [Tasks -> BOOLEAN]
  /\ drain \in [Tasks -> BOOLEAN]
  /\ orphans \in SUBSET Nat
  /\ stranded \in SUBSET orphans
  /\ acked \in Nat
  /\ stops \in Nat
  /\ faults \in Nat
  /\ interrupts \in Nat

Init ==
  /\ log = <<>>
  /\ head = Missing
  /\ status = [p \in Procs |-> "down"]
  /\ opened = [p \in Procs |-> 0]
  /\ healthy = [p \in Procs |-> FALSE]
  /\ error = [p \in Procs |-> "none"]
  /\ lock = [p \in Procs |-> None]
  /\ pc = [t \in Tasks |-> "idle"]
  /\ seq = [t \in Tasks |-> 0]
  /\ prior = [t \in Tasks |-> FALSE]
  /\ drain = [t \in Tasks |-> FALSE]
  /\ orphans = {}
  /\ stranded = {}
  /\ acked = 0
  /\ stops = 0
  /\ faults = 0
  /\ interrupts = 0

Alive(p) == status[p] \in {"booting", "checking", "up"}

TasksOf(p) == {t \in Tasks : ProcOf[t] = p}

MarkUnhealthy(p, reason) ==
  /\ healthy' = [healthy EXCEPT ![p] = FALSE]
  /\ error' = [error EXCEPT ![p] = reason]

MarkHealthy(p) ==
  /\ healthy' = [healthy EXCEPT ![p] = TRUE]
  /\ error' = [error EXCEPT ![p] = "none"]

(* The operation of task t returns or raises: its locals are gone. *)
Finish(t) ==
  /\ pc' = [pc EXCEPT ![t] = "idle"]
  /\ seq' = [seq EXCEPT ![t] = 0]
  /\ prior' = [prior EXCEPT ![t] = FALSE]
  /\ drain' = [drain EXCEPT ![t] = FALSE]

---------------------------------------------------------------------------
(* Opening the store.                                                      *)

(* initialize(): create the schema and read the last event; the connection *)
(* is closed, with a suspension, before the sidecar is looked at.          *)
Open(p) ==
  /\ status[p] = "down"
  /\ ExclusiveOwner => \A q \in Procs : status[q] = "down"
  /\ status' = [status EXCEPT ![p] = "opening"]
  /\ opened' = [opened EXCEPT ![p] = Len(log)]
  /\ UNCHANGED <<disk, healthy, error, lock, tasks, ghost>>

(* Mutant: a failure class that no reader of health_error knows. *)
OpenHeadUnknownClass(p) ==
  /\ status[p] = "opening"
  /\ status' = [status EXCEPT ![p] = "booting"]
  /\ head' = IF head = Missing /\ opened[p] = 0 THEN 0 ELSE head
  /\ IF head' = opened[p]
       THEN MarkHealthy(p)
       ELSE MarkUnhealthy(p, "head_mismatch")
  /\ UNCHANGED <<log, opened, lock, tasks, ghost>>

(* initialize(), second half: a new ledger gets head 0; otherwise the head *)
(* is compared with the tail that was read before.                         *)
OpenHead(p) ==
  /\ status[p] = "opening"
  /\ status' = [status EXCEPT ![p] = "booting"]
  /\ head' = IF head = Missing /\ opened[p] = 0 THEN 0 ELSE head
  /\ IF head' = opened[p]
       THEN MarkHealthy(p)
       ELSE MarkUnhealthy(p, "expected_head_mismatch")
  /\ UNCHANGED <<log, opened, lock, tasks, ghost>>

---------------------------------------------------------------------------
(* _append_with_projection.                                                *)

(* Mutant: the health of the store is not checked. *)
AppendBeginUnchecked(t) ==
  LET p == ProcOf[t] IN
  /\ pc[t] = "idle" /\ status[p] = "up"
  /\ lock[p] = None
  /\ lock' = [lock EXCEPT ![p] = t]
  /\ pc' = [pc EXCEPT ![t] = "appending"]
  /\ UNCHANGED <<disk, status, opened, healthy, error, seq, prior, drain, ghost>>

(* Mutant: the write lock is not waited for. *)
AppendBeginUnlocked(t) ==
  LET p == ProcOf[t] IN
  /\ pc[t] = "idle" /\ status[p] = "up"
  /\ healthy[p]
  /\ lock' = [lock EXCEPT ![p] = t]
  /\ pc' = [pc EXCEPT ![t] = "appending"]
  /\ UNCHANGED <<disk, status, opened, healthy, error, seq, prior, drain, ghost>>

(* The write lock is acquired and health is checked under it. *)
AppendBegin(t) ==
  LET p == ProcOf[t] IN
  /\ pc[t] = "idle" /\ status[p] = "up"
  /\ lock[p] = None
  /\ healthy[p]
  /\ lock' = [lock EXCEPT ![p] = t]
  /\ pc' = [pc EXCEPT ![t] = "appending"]
  /\ UNCHANGED <<disk, status, opened, healthy, error, seq, prior, drain, ghost>>

(* Mutant: the lock covers the transaction and not the head write. *)
AppendCommitUnlocks(t) ==
  /\ pc[t] = "appending"
  /\ \E batch \in Batches :
       /\ Len(log) + Len(batch) <= MaxEvents
       /\ log' = log \o batch
  /\ seq' = [seq EXCEPT ![t] = Len(log')]
  /\ pc' = [pc EXCEPT ![t] = "committed"]
  /\ lock' = [lock EXCEPT ![ProcOf[t]] = None]
  /\ UNCHANGED <<head, status, opened, healthy, error, prior, drain, ghost>>

(* BEGIN IMMEDIATE ... COMMIT: tail read, events inserted, projector run. *)
AppendCommit(t) ==
  /\ pc[t] = "appending"
  /\ \E batch \in Batches :
       /\ Len(log) + Len(batch) <= MaxEvents
       /\ log' = log \o batch
  /\ seq' = [seq EXCEPT ![t] = Len(log')]
  /\ pc' = [pc EXCEPT ![t] = "committed"]
  /\ UNCHANGED <<head, procs, prior, drain, ghost>>

(* Anything raised inside the transaction rolls it back. *)
AppendReject(t) ==
  /\ pc[t] = "appending"
  /\ Finish(t)
  /\ lock' = [lock EXCEPT ![ProcOf[t]] = None]
  /\ UNCHANGED <<disk, status, opened, healthy, error, ghost>>

(* The rolled-back append was to record a queue failure: its finally clause *)
(* marks the store although no event says so.                               *)
QueueFailureUnrecorded(t) ==
  /\ pc[t] = "appending"
  /\ <<"queueFailure">> \in Batches
  /\ Finish(t)
  /\ lock' = [lock EXCEPT ![ProcOf[t]] = None]
  /\ MarkUnhealthy(ProcOf[t], "queued_evidence")
  /\ UNCHANGED <<disk, status, opened, ghost>>

IsQueueFailure(t) == log[seq[t]] = "queueFailure"

(* The sidecar is replaced and the lock released.  A queue failure marks   *)
(* the store in the same uninterrupted stretch of code (a finally clause). *)
AppendHead(t) ==
  LET p == ProcOf[t] IN
  /\ pc[t] = "committed"
  /\ head' = seq[t]
  /\ acked' = IF seq[t] > acked THEN seq[t] ELSE acked
  /\ Finish(t)
  /\ lock' = [lock EXCEPT ![p] = None]
  /\ IF IsQueueFailure(t)
       THEN MarkUnhealthy(p, "queued_evidence")
       ELSE UNCHANGED <<healthy, error>>
  /\ UNCHANGED <<log, status, opened, orphans, stranded, stops, faults, interrupts>>

(* The sidecar write raises OSError after the commit, before or after it   *)
(* replaced the file: the caller gets a LedgerError, the event stays, the   *)
(* store is marked unhealthy.                                              *)
AppendHeadFails(t) ==
  LET p == ProcOf[t] IN
  /\ pc[t] = "committed"
  /\ faults < MaxFaults
  /\ faults' = faults + 1
  /\ \/ head' = seq[t] /\ UNCHANGED orphans
     \/ head' = head /\ orphans' = orphans \cup {seq[t]}
  /\ Finish(t)
  /\ lock' = [lock EXCEPT ![p] = None]
  /\ MarkUnhealthy(p, IF IsQueueFailure(t) THEN "queued_evidence"
                                           ELSE "expected_head_update_failed")
  /\ UNCHANGED <<log, status, opened, stranded, acked, stops, interrupts>>

(* The append is cancelled, or raises anything but OSError, after COMMIT   *)
(* and before the sidecar is replaced: at the commit's own await, while    *)
(* the connection closes, or while the head is signed.  The lock is        *)
(* released and the store is as healthy as it was.                         *)
AppendInterrupted(t) ==
  LET p == ProcOf[t] IN
  /\ pc[t] = "committed"
  /\ interrupts < MaxInterrupts
  /\ interrupts' = interrupts + 1
  /\ orphans' = orphans \cup {seq[t]}
  /\ Finish(t)
  /\ lock' = [lock EXCEPT ![p] = None]
  /\ IF IsQueueFailure(t)
       THEN MarkUnhealthy(p, "queued_evidence")
       ELSE UNCHANGED <<healthy, error>>
  /\ UNCHANGED <<disk, status, opened, stranded, acked, stops, faults>>

---------------------------------------------------------------------------
(* LedgerVerifier.verify.  It takes no lock.                               *)

Quiet(p) == \A t \in TasksOf(p) : pc[t] = "idle"

(* build_runtime verifies once, and verifies again before it checks the    *)
(* queue for persisted failures; a running daemon verifies at any time,    *)
(* and the queue worker and session start add that check (d).              *)
VerifyBegin(t, d) ==
  LET p == ProcOf[t] IN
  /\ pc[t] = "idle"
  /\ \/ status[p] = "up"
     \/ status[p] = "booting" /\ Quiet(p) /\ ~d
     \/ status[p] = "checking" /\ Quiet(p) /\ d
  /\ d => healthy[p]
  /\ prior' = [prior EXCEPT ![t] = ~healthy[p] /\ error[p] = "queued_evidence"]
  /\ drain' = [drain EXCEPT ![t] = d]
  /\ pc' = [pc EXCEPT ![t] = "verifying"]
  /\ UNCHANGED <<disk, procs, seq, ghost>>

(* _load_rows: the events as they are now. *)
VerifyEvents(t) ==
  /\ pc[t] = "verifying"
  /\ seq' = [seq EXCEPT ![t] = Len(log)]
  /\ pc' = [pc EXCEPT ![t] = "eventsRead"]
  /\ UNCHANGED <<disk, procs, prior, drain, ghost>>

(* The boot sequence moves on when its verification ends: a store that     *)
(* verified is checked for persisted queue failures, any other is served   *)
(* read-only.                                                              *)
AfterVerify(p, ok) ==
  CASE status[p] = "booting" -> IF ok THEN "checking" ELSE "up"
    [] status[p] = "checking" -> IF ok THEN "checking" ELSE "up"
    [] OTHER -> status[p]

VerifyFails(t, reason) ==
  LET p == ProcOf[t] IN
  /\ MarkUnhealthy(p, reason)
  /\ status' = [status EXCEPT ![p] = AfterVerify(p, FALSE)]
  /\ Finish(t)

Unseen(t) == {i \in DOMAIN log : i > seq[t]}

(* The projections as they are now, against a replay of the events read.   *)
VerifyView(t) ==
  /\ pc[t] = "eventsRead"
  /\ IF \E i \in Unseen(t) : log[i] # "stream"
       THEN VerifyFails(t, "projection_drift")
       ELSE /\ pc' = [pc EXCEPT ![t] = "viewRead"]
            /\ UNCHANGED <<status, healthy, error, seq, prior, drain>>
  /\ UNCHANGED <<disk, opened, lock, ghost>>

(* Mutant: the head is read and not compared with the last event. *)
VerifyHeadUncompared(t) ==
  LET p == ProcOf[t] IN
  /\ pc[t] = "viewRead"
  /\ MarkHealthy(p)
  /\ status' = [status EXCEPT ![p] = AfterVerify(p, TRUE)]
  /\ IF drain[t]
       THEN /\ pc' = [pc EXCEPT ![t] = "queueCheck"]
            /\ UNCHANGED <<seq, prior, drain>>
       ELSE Finish(t)
  /\ UNCHANGED <<disk, opened, lock, ghost>>

(* The sidecar as it is now, against the last event read.  A queue failure *)
(* known when verify() began survives it; otherwise the store is healthy.  *)
VerifyHead(t) ==
  LET p == ProcOf[t] IN
  /\ pc[t] = "viewRead"
  /\ \/ /\ head # seq[t]
        /\ VerifyFails(t, "expected_head_mismatch")
     \/ /\ head = seq[t] /\ prior[t]
        /\ status' = [status EXCEPT ![p] = AfterVerify(p, FALSE)]
        /\ Finish(t)
        /\ UNCHANGED <<healthy, error>>
     \/ /\ head = seq[t] /\ ~prior[t]
        /\ MarkHealthy(p)
        /\ status' = [status EXCEPT ![p] = AfterVerify(p, TRUE)]
        /\ IF drain[t]
             THEN /\ pc' = [pc EXCEPT ![t] = "queueCheck"]
                  /\ UNCHANGED <<seq, prior, drain>>
             ELSE Finish(t)
  /\ UNCHANGED <<disk, opened, lock, ghost>>

QueueFailureRecorded == \E i \in DOMAIN log : log[i] = "queueFailure"

(* Mutant: a persisted queue failure is not looked for. *)
QueueCheckInMemory(t) ==
  /\ pc[t] = "queueCheck"
  /\ status' = [status EXCEPT ![ProcOf[t]] = "up"]
  /\ Finish(t)
  /\ UNCHANGED <<disk, opened, healthy, error, lock, ghost>>

(* verify_pending_evidence_integrity after its verify(): a failed row with *)
(* queue_integrity_error keeps the store unhealthy.                        *)
QueueCheck(t) ==
  LET p == ProcOf[t] IN
  /\ pc[t] = "queueCheck"
  /\ IF QueueFailureRecorded /\ healthy[p]
       THEN MarkUnhealthy(p, "queued_evidence")
       ELSE UNCHANGED <<healthy, error>>
  /\ status' = [status EXCEPT ![p] = "up"]
  /\ Finish(t)
  /\ UNCHANGED <<disk, opened, lock, ghost>>

---------------------------------------------------------------------------
(* A process stops: killed, crashed, or shut down with its tasks cancelled.*)
(* An open transaction rolls back; a committed batch whose head was not    *)
(* written stays committed.  What the head does not cover now is stranded: *)
(* no running process wrote it.                                            *)
Stop(p) ==
  /\ status[p] # "down"
  /\ stops < MaxStops
  /\ stops' = stops + 1
  /\ status' = [status EXCEPT ![p] = "down"]
  /\ healthy' = [healthy EXCEPT ![p] = FALSE]
  /\ error' = [error EXCEPT ![p] = "none"]
  /\ lock' = [lock EXCEPT ![p] = None]
  /\ pc' = [t \in Tasks |-> IF ProcOf[t] = p THEN "idle" ELSE pc[t]]
  /\ seq' = [t \in Tasks |-> IF ProcOf[t] = p THEN 0 ELSE seq[t]]
  /\ prior' = [t \in Tasks |-> ProcOf[t] # p /\ prior[t]]
  /\ drain' = [t \in Tasks |-> ProcOf[t] # p /\ drain[t]]
  /\ opened' = [opened EXCEPT ![p] = 0]
  /\ orphans' = orphans \cup {seq[t] : t \in {u \in TasksOf(p) : pc[u] = "committed"}}
  /\ stranded' = stranded \cup {n \in orphans' : head < n}
  /\ UNCHANGED <<disk, acked, faults, interrupts>>

---------------------------------------------------------------------------
AppendStep(t) ==
  \/ AppendBegin(t) \/ AppendCommit(t) \/ AppendReject(t) \/ QueueFailureUnrecorded(t)
  \/ AppendHead(t) \/ AppendHeadFails(t) \/ AppendInterrupted(t)

VerifyStep(t) ==
  \/ \E d \in BOOLEAN : VerifyBegin(t, d)
  \/ VerifyEvents(t) \/ VerifyView(t) \/ VerifyHead(t) \/ QueueCheck(t)

Next ==
  \/ \E p \in Procs : Open(p) \/ OpenHead(p) \/ Stop(p)
  \/ \E t \in Tasks : AppendStep(t) \/ VerifyStep(t)

Spec == Init /\ [][Next]_vars

---------------------------------------------------------------------------
(* Properties.                                                             *)

InFlight(p) == \E t \in TasksOf(p) : pc[t] = "committed"

Quiescent == \A t \in Tasks : pc[t] = "idle"

(* Whenever a process reports a healthy store and none of its appends is   *)
(* between its commit and its sidecar write, the signed head covers the    *)
(* whole log, but for one case: the tail is of an append of this very run  *)
(* of the process that failed or was cancelled behind its commit.  The     *)
(* read-only fallback after a restart behind a lost head write, and every  *)
(* later verification, rest on it.                                         *)
HealthyMeansAnchored ==
  \A p \in Procs :
    Alive(p) /\ healthy[p] /\ ~InFlight(p) /\ head # Len(log) =>
      Len(log) \in orphans \ stranded

(* A sequence number returned to a caller stays covered by the head, over  *)
(* later appends, restarts and other tasks.                                *)
AckedStaysAnchored == head # Missing => acked <= head

(* "A failed sidecar update after a database commit is a fail-safe health  *)
(* error; the daemon does not silently bless the newer database head": no  *)
(* later head ever covers a tail whose own head write was lost.            *)
OrphanNeverBlessed == \A n \in orphans : head < n

(* What the store keeps of that promise: once the process that lost the    *)
(* head write has stopped, no head of any later run covers that tail,      *)
(* whatever is verified, appended, cancelled or stopped after it.          *)
StrandedNeverBlessed == \A n \in stranded : head < n

(* "Append concurrently: unique contiguous sequences and a fully           *)
(* verifiable committed order": once every task is idle, a tail the head   *)
(* does not cover is one whose own append lost its head write.  No         *)
(* interleaving of tasks that all return leaves an older head behind.      *)
ConcurrentAppendsVerifiable ==
  Quiescent /\ head # Missing /\ head # Len(log) => Len(log) \in orphans

(* A recorded queue integrity failure keeps the store unhealthy after a    *)
(* restart: no boot sequence completes healthy behind one that was in the  *)
(* log when the process opened it.                                         *)
QueueFailureSurvivesRestart ==
  [][\A p \in Procs :
       /\ status[p] # "up" /\ status'[p] = "up"
       /\ \E i \in 1..opened[p] : log[i] = "queueFailure"
       => ~healthy'[p]]_vars

(* One owner at a time: the abstract log of AnchoredLog.tla. *)
Anchor == IF head = Missing THEN 0 ELSE head

TailState ==
  CASE Anchor = Len(log) -> "anchored"
    [] Anchor # Len(log) /\ stranded # {} -> "stranded"
    [] Anchor # Len(log) /\ stranded = {} /\ (\E t \in Tasks : pc[t] = "committed") -> "pending"
    [] OTHER -> "lost"

Anchored == INSTANCE AnchoredLog WITH anchor <- Anchor, tail <- TailState

ImplementsAnchoredLog == Anchored!Spec

---------------------------------------------------------------------------
(* The inductive invariant behind the theorems of EventStoreProofs.tla,    *)
(* for exclusive owners.                                                   *)

Writing(t) == pc[t] \in {"appending", "committed"}

(* One process runs; its write lock is held by its one appending task; a   *)
(* committed batch is the tail; the head is never ahead of the log.        *)
OwnerInv ==
  /\ \A p, q \in Procs : status[p] # "down" /\ status[q] # "down" => p = q
  /\ \A p \in Procs, t \in Tasks : lock[p] = t <=> ProcOf[t] = p /\ Writing(t)
  /\ \A t \in Tasks : status[ProcOf[t]] \in {"down", "opening"} => pc[t] = "idle"
  /\ \A t \in Tasks : pc[t] = "committed" => seq[t] = Len(log)
  /\ \A p \in Procs : status[p] = "opening" => opened[p] = Len(log)
  /\ head <= Len(log)
  /\ head = Missing => log = <<>> /\ \A p \in Procs : ~Alive(p)
  /\ acked = 0 \/ acked <= head

(* For any owners: a process that is not up yet runs at most one task, a   *)
(* verification, and one that began behind a queue failure finds the store *)
(* as unhealthy as it was; what initialize() read is still in the log.     *)
BootInv ==
  /\ \A p \in Procs : opened[p] <= Len(log)
  /\ \A t \in Tasks : status[ProcOf[t]] \in {"down", "opening"} => pc[t] = "idle"
  /\ \A t \in Tasks : status[ProcOf[t]] # "up" => ~Writing(t)
  /\ \A t, u \in Tasks :
       ProcOf[t] = ProcOf[u] /\ status[ProcOf[t]] # "up" /\ pc[t] # "idle" /\ pc[u] # "idle"
         => t = u
  /\ \A t \in Tasks :
       status[ProcOf[t]] # "up" /\ pc[t] \in {"verifying", "eventsRead", "viewRead"} /\ prior[t]
         => ~healthy[ProcOf[t]]

(* An append starts behind an anchored tail or behind one this run of the  *)
(* process lost; a tail that is neither anchored nor in flight was lost;   *)
(* and behind a stranded tail nobody writes, no process is healthy and     *)
(* every verification has read that tail.                                  *)
AnchorInv ==
  /\ \A t \in Tasks : pc[t] = "committed" => head < Len(log)
  /\ (\A t \in Tasks : pc[t] # "committed") /\ head \notin {Missing, Len(log)} =>
       Len(log) \in orphans
  /\ \A n \in orphans : 0 <= head /\ n <= Len(log)
  /\ stranded # {} =>
       /\ Len(log) \in stranded
       /\ \A n \in stranded : head < n
       /\ \A t \in Tasks : ~Writing(t)
       /\ \A p \in Procs : Alive(p) => ~healthy[p]
       /\ \A t \in Tasks : pc[t] \in {"eventsRead", "viewRead"} => seq[t] = Len(log)

IInv == TypeOK /\ BootInv /\ OwnerInv /\ AnchorInv
================================================================================
