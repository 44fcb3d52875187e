------------------------------- MODULE MemoryView ------------------------------
(***************************************************************************)
(* The materialized memory view and everything that changes it: outcomes   *)
(* of evaluations (memory/service.py), operator approval, block and        *)
(* revocation (memory/trust_actions.py), the expiry sweep of session start *)
(* (memory/service.py, daemon/app.py), retroactive rescan                  *)
(* (memory/rescan.py) and rebuild (memory/materializer.py), against the    *)
(* replay of the signed history that verify() compares the view with       *)
(* (ledger/verify.py).                                                     *)
(*                                                                         *)
(* "replay" is replay_memory_state of the committed events: that function  *)
(* is a left fold and the log is append-only, so every append applies its  *)
(* event to it.  "view" is the three tables, which each append changes by  *)
(* its own projector in the same transaction, and which rebuild replaces.  *)
(*                                                                         *)
(* Abstractions.  A row of active_memories is its memory, because its      *)
(* record is fixed by the commit event; a row of memory_inventory is its   *)
(* status and last_event_sequence; a row of quarantined_memories is its    *)
(* candidate.  The events of one append share one sequence number.  An     *)
(* append is one step, and a verification is one step at the instant of    *)
(* its last read, which may fail though nothing is wrong: both are         *)
(* detailed in EventStore.tla.  The evaluation inside a rescan is its      *)
(* decision; PolicyActivated is left to another module.                    *)
(***************************************************************************)
EXTENDS Integers, FiniteSets

CONSTANTS
  Cands,            \* memory candidates
  Mems,             \* memory identifiers
  Timed,            \* those minted with an expires_at
  Tasks,            \* requests and commands, each one operation at a time
  Lane,             \* the way each task enters the program
  Offered,          \* the operations taken through each lane
  MaxEvents,        \* bound on the number of appends
  MaxStops          \* bound on stops of a process and last verifications cut off

(* "http": the daemon's mutations, one at a time under the lock of         *)
(* IdempotencyStore.run.  "session": its endpoints that take no lock,      *)
(* session start and the verification of the ledger, with the view or of   *)
(* the chain alone.  "cli": commands, each a process with its own store.   *)
Lanes == {"http", "session", "cli"}
Ops == {"revoke", "approve", "block", "rebuild", "dryRun", "rescan", "session",
        "verifyLedger", "verifyChain"}

ASSUME LaneAssumption == Lane \in [Tasks -> Lanes]

(* What each lane can ask for at all: the endpoints and the commands. *)
Surface ==
  [http |-> {"revoke", "approve", "block", "rebuild", "dryRun"},
   session |-> {"session", "verifyLedger", "verifyChain"},
   cli |-> {"revoke", "rescan", "rebuild", "dryRun"}]

ASSUME OfferedAssumption ==
  Offered \in [Lanes -> SUBSET Ops] /\ \A l \in Lanes : Offered[l] \subseteq Surface[l]
ASSUME TimedAssumption == Timed \subseteq Mems
ASSUME BoundsAssumption == MaxEvents \in Nat /\ MaxStops \in Nat

VARIABLES
  replay,           \* replay_memory_state of the committed events
  view,             \* the tables active_memories, memory_inventory, quarantined_memories
  seq,              \* last sequence number
  elapsed,          \* memories whose expires_at has passed
  healthy,          \* per process: store.healthy
  op,               \* per task: the operation it runs
  at,               \* per task: where in it
  arg,              \* per task: the memories or candidates it read for it
  copy,             \* per task: the state a rebuild replayed
  gone,             \* history: memories ended or elapsed when the request began
  misled,           \* history: sessions given an old view between verifying and rendering
  compared,         \* history: the daemon's last verdict compared the view it has
  fate,             \* history: what the signed events say of each candidate
  injected,         \* history: memories injected although in "gone", misled sessions apart
  stops             \* counter behind MaxStops

tables == <<replay, view, seq, fate>>
health == <<healthy, compared>>
local  == <<op, at, arg, copy, gone, misled>>
vars   == <<tables, elapsed, health, local, injected, stops>>

Procs == {"daemon", "cli"}
ProcOf(t) == IF Lane[t] = "cli" THEN "cli" ELSE "daemon"

Statuses == {"absent", "active", "redacted", "revoked", "expired"}
Row(status, n) == [status |-> status, seq |-> n]
Views == [active : SUBSET Mems, quarantine : SUBSET Cands,
          inventory : [Mems -> [status : Statuses, seq : Nat]]]
NoRows == [active |-> {}, quarantine |-> {},
           inventory |-> [m \in Mems |-> Row("absent", 0)]]

Fates == {"new", "admitted", "quarantined", "approved", "blocked"}
Places == {"idle", "queued", "verify", "find", "append", "render", "write", "check"}

TypeOK ==
  /\ replay \in Views
  /\ view \in Views
  /\ seq \in Nat
  /\ elapsed \in SUBSET Mems
  /\ healthy \in [Procs -> BOOLEAN]
  /\ op \in [Tasks -> Ops \cup {"none"}]
  /\ at \in [Tasks -> Places]
  /\ arg \in [Tasks -> SUBSET (Mems \cup Cands)]
  /\ copy \in [Tasks -> Views]
  /\ gone \in [Tasks -> SUBSET Mems]
  /\ misled \in SUBSET Tasks
  /\ compared \in BOOLEAN
  /\ fate \in [Cands -> Fates]
  /\ injected \in SUBSET Mems
  /\ stops \in Nat

Init ==
  /\ replay = NoRows /\ view = NoRows
  /\ seq = 0
  /\ elapsed = {}
  /\ healthy = [p \in Procs |-> TRUE]
  /\ op = [t \in Tasks |-> "none"]
  /\ at = [t \in Tasks |-> "idle"]
  /\ arg = [t \in Tasks |-> {}]
  /\ copy = [t \in Tasks |-> NoRows]
  /\ gone = [t \in Tasks |-> {}]
  /\ misled = {}
  /\ compared = TRUE
  /\ fate = [c \in Cands |-> "new"]
  /\ injected = {}
  /\ stops = 0

---------------------------------------------------------------------------
(* replay_memory_state, one event at a time.                               *)

ReplayCommit(v, m, status, n) ==
  [v EXCEPT !.active = @ \cup {m}, !.inventory[m] = Row(status, n)]

ReplayApproved(v, c, m, n) ==
  [ReplayCommit(v, m, "active", n) EXCEPT !.quarantine = @ \ {c}]

ReplayQuarantined(v, c) == [v EXCEPT !.quarantine = @ \cup {c}]

ReplayBlocked(v, c) == [v EXCEPT !.quarantine = @ \ {c}]

Known(v, m) == v.inventory[m].status # "absent"

ReplayEnded(v, S, status, n) ==
  [v EXCEPT !.active = @ \ S,
            !.inventory = [m \in Mems |-> IF m \in S /\ Known(v, m)
                                            THEN Row(status, n) ELSE @[m]]]

(* The projectors, which run in the appending transaction.                 *)

ProjectCommit(v, m, status, n) ==
  [v EXCEPT !.active = @ \cup {m}, !.inventory[m] = Row(status, n)]

ProjectQuarantine(v, c) == [v EXCEPT !.quarantine = @ \cup {c}]

(* Mutant: the approved candidate is left in quarantine. *)
ProjectApprovalKeeps(v, c, m, n) == ProjectCommit(v, m, "active", n)

ProjectApproval(v, c, m, n) ==
  [ProjectCommit(v, m, "active", n) EXCEPT !.quarantine = @ \ {c}]

ProjectBlock(v, c) == [v EXCEPT !.quarantine = @ \ {c}]

(* Mutant: the wrong status constant. *)
ProjectSuperseded(v, S, status, n) ==
  [v EXCEPT !.active = @ \ S,
            !.inventory = [m \in Mems |-> IF m \in S THEN Row("superseded", n) ELSE @[m]]]

(* DELETE and UPDATE, whatever state the row is in: the projectors of      *)
(* revocation and of the expiry sweep.                                     *)
ProjectEnded(v, S, status, n) ==
  [v EXCEPT !.active = @ \ S,
            !.inventory = [m \in Mems |-> IF m \in S /\ Known(v, m)
                                            THEN Row(status, n) ELSE @[m]]]

---------------------------------------------------------------------------
(* Steps that operations share.                                            *)

Finish(t) ==
  /\ op' = [op EXCEPT ![t] = "none"]
  /\ at' = [at EXCEPT ![t] = "idle"]
  /\ arg' = [arg EXCEPT ![t] = {}]
  /\ copy' = [copy EXCEPT ![t] = NoRows]
  /\ gone' = [gone EXCEPT ![t] = {}]
  /\ misled' = misled \ {t}

GoTo(t, place, S) ==
  /\ at' = [at EXCEPT ![t] = place]
  /\ arg' = [arg EXCEPT ![t] = S]
  /\ UNCHANGED <<op, copy, gone, misled>>

(* verify(): the view against the replay.  It fails also when an append    *)
(* overlaps it.                                                            *)
Verified(t, ok) ==
  /\ ok => view = replay
  /\ healthy' = [healthy EXCEPT ![ProcOf(t)] = ok]
  /\ compared' = (compared \/ ProcOf(t) = "daemon")

(* verify(verify_view=False): whatever the view is, success marks the      *)
(* store healthy.                                                          *)
ChainVerified(t, ok) ==
  /\ healthy' = [healthy EXCEPT ![ProcOf(t)] = ok]
  /\ compared' = (compared /\ ProcOf(t) # "daemon")

Writable(t) == healthy[ProcOf(t)] /\ seq < MaxEvents

NextSeq == seq' = seq + 1

Fresh(m) == ~Known(replay, m)

Ended == {m \in Mems : replay.inventory[m].status \in {"revoked", "expired"}}

---------------------------------------------------------------------------
(* Requests.                                                               *)

(* A mutation's health is checked before it waits for the lock of          *)
(* IdempotencyStore.run; session start and commands have no such lock.     *)
Begin(t, o) ==
  /\ at[t] = "idle"
  /\ o \in Offered[Lane[t]]
  /\ Lane[t] = "http" => healthy["daemon"]
  /\ op' = [op EXCEPT ![t] = o]
  /\ at' = [at EXCEPT ![t] = IF Lane[t] = "http" THEN "queued" ELSE "verify"]
  /\ gone' = [gone EXCEPT ![t] = IF o = "session" THEN Ended \cup elapsed ELSE {}]
  /\ UNCHANGED <<tables, elapsed, health, arg, copy, misled, injected, stops>>

(* Mutant: the lock is released while the action runs. *)
AcquireUnlocked(t) ==
  /\ at[t] = "queued"
  /\ GoTo(t, "verify", {})
  /\ UNCHANGED <<tables, elapsed, health, injected, stops>>

Acquire(t) ==
  /\ at[t] = "queued"
  /\ \A u \in Tasks \ {t} : Lane[u] = "http" => at[u] \in {"idle", "queued"}
  /\ GoTo(t, "verify", {})
  /\ UNCHANGED <<tables, elapsed, health, injected, stops>>

(* A rebuild of the daemon that has written the view and not verified it.  *)
Rewritten(t) == ProcOf(t) = "daemon" /\ op[t] = "rebuild" /\ at[t] = "check"

(* Not found, a refused append, a rolled-back transaction, or the end of a *)
(* dry run: the operation ends and leaves the tables alone.                *)
Abandon(t) ==
  /\ at[t] \in {"queued", "verify", "find", "append", "render", "write"}
  /\ Finish(t)
  /\ UNCHANGED <<tables, elapsed, health, injected, stops>>

(* The verification that ends an operation is cancelled or raises: nobody  *)
(* knows whether the view that a rebuild has written replays.              *)
CutOff(t) ==
  /\ at[t] = "check"
  /\ stops < MaxStops
  /\ stops' = stops + 1
  /\ Finish(t)
  /\ compared' = (compared /\ ~Rewritten(t))
  /\ UNCHANGED <<tables, elapsed, healthy, injected>>

(* Mutant: a session start verifies the chain alone. *)
VerifyHistoryUncompared(t) ==
  /\ at[t] = "verify" /\ op[t] \notin {"rebuild", "dryRun", "verifyLedger", "verifyChain"}
  /\ \E ok \in BOOLEAN :
       /\ ChainVerified(t, ok)
       /\ IF ok THEN GoTo(t, "find", {}) ELSE Finish(t)
  /\ UNCHANGED <<tables, elapsed, injected, stops>>

(* _require_verified_history, _load_verified_target, session_start. *)
VerifyHistory(t) ==
  /\ at[t] = "verify" /\ op[t] \notin {"rebuild", "dryRun", "verifyLedger", "verifyChain"}
  /\ \E ok \in BOOLEAN :
       /\ Verified(t, ok)
       /\ IF ok THEN GoTo(t, "find", {}) ELSE Finish(t)
  /\ UNCHANGED <<tables, elapsed, injected, stops>>

(* _rebuild verifies the chain and not the view. *)
VerifyChain(t) ==
  /\ at[t] = "verify" /\ op[t] \in {"rebuild", "dryRun"}
  /\ \E ok \in BOOLEAN :
       /\ ChainVerified(t, ok)
       /\ IF ok THEN GoTo(t, "find", {}) ELSE Finish(t)
  /\ UNCHANGED <<tables, elapsed, injected, stops>>

(* POST /api/v1/ledger/verify, at any time and whatever the health was.    *)
VerifyLedger(t) ==
  /\ at[t] = "verify" /\ op[t] \in {"verifyLedger", "verifyChain"}
  /\ \E ok \in BOOLEAN :
       \/ op[t] = "verifyLedger" /\ Verified(t, ok)
       \/ op[t] = "verifyChain" /\ ChainVerified(t, ok)
  /\ Finish(t)
  /\ UNCHANGED <<tables, elapsed, injected, stops>>

---------------------------------------------------------------------------
(* Trust actions.                                                          *)

FindActive(t) ==
  /\ at[t] = "find" /\ op[t] = "revoke"
  /\ \E m \in view.active : GoTo(t, "append", {m})
  /\ UNCHANGED <<tables, elapsed, health, injected, stops>>

(* Approve and block list the quarantined candidates that are there now. *)
FindQuarantined(t) ==
  /\ at[t] = "find" /\ op[t] \in {"approve", "block"}
  /\ \E c \in view.quarantine : GoTo(t, "append", {c})
  /\ UNCHANGED <<tables, elapsed, health, injected, stops>>

(* The row is not read again: it is ended even if it has ended since.  The *)
(* UPDATE must find the inventory row.                                     *)
Revoke(t) ==
  /\ at[t] = "append" /\ op[t] = "revoke"
  /\ Writable(t)
  /\ \A m \in arg[t] : Known(view, m)
  /\ NextSeq
  /\ replay' = ReplayEnded(replay, arg[t], "revoked", seq')
  /\ view' = ProjectEnded(view, arg[t], "revoked", seq')
  /\ GoTo(t, "check", {})
  /\ UNCHANGED <<fate, elapsed, health, injected, stops>>

(* Approval mints a new memory identifier, without an expires_at. *)
Approve(t) ==
  /\ at[t] = "append" /\ op[t] = "approve"
  /\ Writable(t)
  /\ NextSeq
  /\ \E c \in arg[t], m \in Mems :
       /\ Fresh(m) /\ m \notin Timed
       /\ replay' = ReplayApproved(replay, c, m, seq')
       /\ view' = ProjectApproval(view, c, m, seq')
       /\ fate' = [fate EXCEPT ![c] = "approved"]
  /\ Finish(t)
  /\ UNCHANGED <<elapsed, health, injected, stops>>

Block(t) ==
  /\ at[t] = "append" /\ op[t] = "block"
  /\ Writable(t)
  /\ NextSeq
  /\ \E c \in arg[t] :
       /\ replay' = ReplayBlocked(replay, c)
       /\ view' = ProjectBlock(view, c)
       /\ fate' = [fate EXCEPT ![c] = "blocked"]
  /\ Finish(t)
  /\ UNCHANGED <<elapsed, health, injected, stops>>

---------------------------------------------------------------------------
(* Retroactive rescan.                                                     *)

(* The target is taken from a replay of the events, not from the view. *)
FindRescanned(t) ==
  /\ at[t] = "find" /\ op[t] = "rescan"
  /\ \E m \in replay.active : GoTo(t, "append", {m})
  /\ UNCHANGED <<tables, elapsed, health, injected, stops>>

Unchanged(m) ==
  m \in view.active /\ view.inventory[m].status \in {"active", "redacted"}

(* Mutant: the revocation does not look at the rows again. *)
RescanRevokesUnchecked(t) ==
  /\ at[t] = "append" /\ op[t] = "rescan"
  /\ Writable(t)
  /\ NextSeq
  /\ replay' = ReplayEnded(replay, arg[t], "revoked", seq')
  /\ view' = ProjectEnded(view, arg[t], "revoked", seq')
  /\ GoTo(t, "check", {})
  /\ UNCHANGED <<fate, elapsed, health, injected, stops>>

(* Unsafe under the present policy: the evaluation and the revocation are  *)
(* one append, whose projector refuses a row that has changed.             *)
RescanRevokes(t) ==
  /\ at[t] = "append" /\ op[t] = "rescan"
  /\ Writable(t)
  /\ \A m \in arg[t] : Unchanged(m)
  /\ NextSeq
  /\ replay' = ReplayEnded(replay, arg[t], "revoked", seq')
  /\ view' = ProjectEnded(view, arg[t], "revoked", seq')
  /\ GoTo(t, "check", {})
  /\ UNCHANGED <<fate, elapsed, health, injected, stops>>

(* Still allowed: the evaluation alone is appended. *)
RescanKeeps(t) ==
  /\ at[t] = "append" /\ op[t] = "rescan"
  /\ Writable(t)
  /\ arg[t] \subseteq view.active
  /\ NextSeq
  /\ GoTo(t, "check", {})
  /\ UNCHANGED <<replay, view, fate, elapsed, health, injected, stops>>

---------------------------------------------------------------------------
(* Session start.                                                          *)

(* Mutant: the sweep looks for expired memories and finds none. *)
SweepNothing(t) ==
  /\ at[t] = "find" /\ op[t] = "session"
  /\ healthy["daemon"]
  /\ GoTo(t, "render", {})
  /\ UNCHANGED <<tables, elapsed, health, injected, stops>>

(* expire_due_memories: list the active memories that are due. *)
Sweep(t) ==
  /\ at[t] = "find" /\ op[t] = "session"
  /\ healthy["daemon"]
  /\ LET due == view.active \cap elapsed
     IN  GoTo(t, IF due = {} THEN "render" ELSE "append", due)
  /\ UNCHANGED <<tables, elapsed, health, injected, stops>>

Expire(t) ==
  /\ at[t] = "append" /\ op[t] = "session"
  /\ Writable(t)
  /\ NextSeq
  /\ replay' = ReplayEnded(replay, arg[t], "expired", seq')
  /\ view' = ProjectEnded(view, arg[t], "expired", seq')
  /\ GoTo(t, "render", {})
  /\ UNCHANGED <<fate, elapsed, health, injected, stops>>

(* The context is rendered from the rows that are active now. *)
Render(t) ==
  /\ at[t] = "render" /\ op[t] = "session"
  /\ healthy["daemon"]
  /\ GoTo(t, "check", view.active)
  /\ UNCHANGED <<tables, elapsed, health, injected, stops>>

(* Mutant: the context is returned whatever the last verification says. *)
InjectUnverified(t) ==
  /\ at[t] = "check" /\ op[t] = "session"
  /\ \E ok \in BOOLEAN : Verified(t, ok)
  /\ injected' = IF t \in misled THEN injected ELSE injected \cup (arg[t] \cap gone[t])
  /\ Finish(t)
  /\ UNCHANGED <<tables, elapsed, stops>>

(* The endpoint verifies once more and drops the context if that fails. *)
Inject(t) ==
  /\ at[t] = "check" /\ op[t] = "session"
  /\ \E ok \in BOOLEAN :
       /\ Verified(t, ok)
       /\ injected' = IF ok /\ t \notin misled THEN injected \cup (arg[t] \cap gone[t])
                                            ELSE injected
  /\ Finish(t)
  /\ UNCHANGED <<tables, elapsed, stops>>

---------------------------------------------------------------------------
(* Rebuild.                                                                *)

ReadHistory(t) ==
  /\ at[t] = "find" /\ op[t] = "rebuild"
  /\ copy' = [copy EXCEPT ![t] = replay]
  /\ at' = [at EXCEPT ![t] = "write"]
  /\ UNCHANGED <<tables, elapsed, health, op, arg, gone, misled, injected, stops>>

Preparing(u) == op[u] = "session" /\ at[u] \in {"find", "append", "render"}

(* One transaction replaces the three tables with what was replayed.       *)
WriteView(t) ==
  /\ at[t] = "write" /\ op[t] = "rebuild"
  /\ view' = copy[t]
  /\ misled' = IF copy[t] = replay THEN misled ELSE misled \cup {u \in Tasks : Preparing(u)}
  /\ compared' = (compared /\ ProcOf(t) = "daemon")
  /\ at' = [at EXCEPT ![t] = "check"]
  /\ arg' = [arg EXCEPT ![t] = {}]
  /\ UNCHANGED <<replay, seq, fate, elapsed, healthy, op, copy, gone, injected, stops>>

(* Mutant: rebuild trusts what it wrote. *)
CheckSkipped(t) ==
  /\ at[t] = "check" /\ op[t] # "session"
  /\ Finish(t)
  /\ UNCHANGED <<tables, elapsed, health, injected, stops>>

(* Revocation, rescan and rebuild verify again and report the result. *)
Check(t) ==
  /\ at[t] = "check" /\ op[t] # "session"
  /\ \E ok \in BOOLEAN : Verified(t, ok)
  /\ Finish(t)
  /\ UNCHANGED <<tables, elapsed, injected, stops>>

---------------------------------------------------------------------------
(* The rest of the program.                                                *)

(* The outcome of an evaluation, by the queue worker or a stream's commit. *)
Admit(c, m, status) ==
  /\ fate[c] = "new" /\ Fresh(m)
  /\ healthy["daemon"] /\ seq < MaxEvents
  /\ NextSeq
  /\ replay' = ReplayCommit(replay, m, status, seq')
  /\ view' = ProjectCommit(view, m, status, seq')
  /\ fate' = [fate EXCEPT ![c] = "admitted"]
  /\ UNCHANGED <<elapsed, health, local, injected, stops>>

Quarantine(c) ==
  /\ fate[c] = "new"
  /\ healthy["daemon"] /\ seq < MaxEvents
  /\ NextSeq
  /\ replay' = ReplayQuarantined(replay, c)
  /\ view' = ProjectQuarantine(view, c)
  /\ fate' = [fate EXCEPT ![c] = "quarantined"]
  /\ UNCHANGED <<elapsed, health, local, injected, stops>>

(* A blocked outcome has no projection; its replay drops a quarantined row *)
(* that a new candidate does not have.                                     *)
BlockOutcome(c) ==
  /\ fate[c] = "new"
  /\ healthy["daemon"] /\ seq < MaxEvents
  /\ NextSeq
  /\ replay' = ReplayBlocked(replay, c)
  /\ fate' = [fate EXCEPT ![c] = "blocked"]
  /\ UNCHANGED <<view, elapsed, health, local, injected, stops>>

(* Time passes the expires_at that the policy's time to live gave a memory. *)
Elapse(m) ==
  /\ m \in Timed /\ Known(replay, m) /\ m \notin elapsed
  /\ elapsed' = elapsed \cup {m}
  /\ UNCHANGED <<tables, health, local, injected, stops>>

(* A process stops, and its next start verifies the store. *)
Restart(p) ==
  /\ stops < MaxStops
  /\ stops' = stops + 1
  /\ \E ok \in BOOLEAN :
       /\ ok => view = replay
       /\ healthy' = [healthy EXCEPT ![p] = ok]
       /\ compared' = (compared \/ p = "daemon")
  /\ op' = [t \in Tasks |-> IF ProcOf(t) = p THEN "none" ELSE op[t]]
  /\ at' = [t \in Tasks |-> IF ProcOf(t) = p THEN "idle" ELSE at[t]]
  /\ arg' = [t \in Tasks |-> IF ProcOf(t) = p THEN {} ELSE arg[t]]
  /\ copy' = [t \in Tasks |-> IF ProcOf(t) = p THEN NoRows ELSE copy[t]]
  /\ gone' = [t \in Tasks |-> IF ProcOf(t) = p THEN {} ELSE gone[t]]
  /\ misled' = {t \in misled : ProcOf(t) # p}
  /\ UNCHANGED <<tables, elapsed, injected>>

RequestStep(t) ==
  \/ \E o \in Ops : Begin(t, o)
  \/ Acquire(t) \/ Abandon(t) \/ CutOff(t) \/ VerifyHistory(t) \/ VerifyChain(t)
  \/ VerifyLedger(t) \/ Check(t)

TrustStep(t) ==
  \/ FindActive(t) \/ Revoke(t)
  \/ FindQuarantined(t) \/ Approve(t) \/ Block(t)
  \/ FindRescanned(t) \/ RescanRevokes(t) \/ RescanKeeps(t)

ViewStep(t) ==
  \/ Sweep(t) \/ Expire(t) \/ Render(t) \/ Inject(t)
  \/ ReadHistory(t) \/ WriteView(t)

OutcomeStep ==
  \/ \E c \in Cands, m \in Mems, s \in {"active", "redacted"} : Admit(c, m, s)
  \/ \E c \in Cands : Quarantine(c) \/ BlockOutcome(c)

Next ==
  \/ \E t \in Tasks : RequestStep(t) \/ TrustStep(t) \/ ViewStep(t)
  \/ OutcomeStep
  \/ \E m \in Mems : Elapse(m)
  \/ \E p \in Procs : Restart(p)

Spec == Init /\ [][Next]_vars

---------------------------------------------------------------------------
(* Properties.                                                             *)

(* Projectors and replay agree: whatever the order in which operations     *)
(* read and append, the view is the replay of the signed history (while    *)
(* nobody rebuilds it from a history that has grown since).                *)
ViewIsReplay == view = replay

(* "Materialized view differs from replay: disable commits that depend on  *)
(* the inconsistent view; rebuild transactionally, then re-verify before   *)
(* re-enabling": a daemon that accepts appends has a view that replays,    *)
(* but while a rebuild that has written it is being verified.              *)
DriftIsKnown ==
  healthy["daemon"] /\ (\A t \in Tasks : ~Rewritten(t)) => view = replay

(* A drift that a rebuild left behind is caught by the verification that   *)
(* ends it, and nothing that is appended, swept or verified afterwards     *)
(* hides it again, but a verification of the chain alone, a command that   *)
(* replaces the view beside the daemon, or the end of a rebuild that was   *)
(* cut off before its verification: a healthy daemon whose last verdict    *)
(* compared the view has one that replays, while no rebuild of its own is  *)
(* between its replacement and its verification.                           *)
DriftIsCaught ==
  healthy["daemon"] /\ compared /\ (\A t \in Tasks : ~Rewritten(t)) => view = replay

(* "Any mismatch disables injection", and the sweep runs before the        *)
(* rendering: no session is given a memory that the history had ended, or  *)
(* whose time had elapsed, when the session asked, also while the view is  *)
(* rebuilt, unless an old view replaced the one it had verified before it  *)
(* rendered.                                                               *)
NothingGoneInjected == injected = {}

(* A rescan revokes a live memory or nothing: never one that was revoked   *)
(* or expired between its evaluation and its append.                       *)
RescanRevokesLive ==
  [][\A t \in Tasks :
       op[t] = "rescan" /\ at[t] = "append" /\ at'[t] = "check" /\ replay' # replay
         => arg[t] \subseteq replay.active]_vars

(* The lifecycle of candidates and memories (MemoryLifecycle.tla): no      *)
(* candidate is decided twice, none goes from blocked to approved or back, *)
(* and no memory that ended is live again, whatever read its row before.   *)
LifeOf(status) ==
  CASE status = "absent" -> "none"
    [] status \in {"active", "redacted"} -> "live"
    [] OTHER -> "ended"

Lifecycle == INSTANCE MemoryLifecycle
  WITH fates <- fate, memories <- [m \in Mems |-> LifeOf(replay.inventory[m].status)]

ImplementsLifecycle == Lifecycle!Spec

---------------------------------------------------------------------------
(* The inductive invariant behind the theorems of MemoryViewProofs.tla,    *)
(* where no lane offers a rebuild.                                         *)

InAction(t) == at[t] \notin {"idle", "queued"}

(* The daemon runs one mutation at a time; a task runs what it was offered. *)
LockInv ==
  /\ \A t \in Tasks : at[t] # "idle" => op[t] \in Offered[Lane[t]]
  /\ \A t, u \in Tasks :
       Lane[t] = "http" /\ Lane[u] = "http" /\ InAction(t) /\ InAction(u) => t = u

(* What is quarantined is what the history says; a candidate about to be   *)
(* approved or blocked is still quarantined, because the lock keeps every  *)
(* other resolution out; a memory about to be ended exists.                *)
TargetInv ==
  /\ replay.quarantine = {c \in Cands : fate[c] = "quarantined"}
  /\ \A t \in Tasks : at[t] = "append" =>
       IF op[t] \in {"approve", "block"}
         THEN arg[t] \subseteq replay.quarantine
         ELSE arg[t] \subseteq {m \in Mems : Known(replay, m)}
  /\ \A m \in replay.active : Known(replay, m)

(* An ended memory is not active; time passes for known memories only; so  *)
(* what had ended or elapsed when a session asked is never active anew.    *)
LiveInv ==
  /\ replay.active \cap Ended = {}
  /\ elapsed \subseteq {m \in Mems : Known(replay, m)}

(* A session that verified and was not misled has the replay before it     *)
(* renders.  What it must not be given is swept, and is not rendered.      *)
Spared(t) ==
  /\ gone[t] \subseteq Ended \cup elapsed
  /\ Preparing(t) /\ t \notin misled => view = replay
  /\ op[t] = "session" /\ t \notin misled =>
       CASE at[t] = "append" -> gone[t] \cap view.active \subseteq arg[t]
         [] at[t] = "render" -> gone[t] \cap view.active = {}
         [] at[t] = "check"  -> gone[t] \cap arg[t] = {}
         [] OTHER            -> TRUE

GoneInv == LiveInv /\ (\A t \in Tasks : Spared(t)) /\ NothingGoneInjected

IInv == TypeOK /\ LockInv /\ ViewIsReplay /\ TargetInv /\ GoneInv

(* The part that needs no lock and survives rebuilds. *)
RebuildInv ==
  /\ TypeOK
  /\ replay.quarantine = {c \in Cands : fate[c] = "quarantined"}
  /\ GoneInv /\ DriftIsCaught
================================================================================
