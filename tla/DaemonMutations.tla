----------------------------- MODULE DaemonMutations -----------------------------
(***************************************************************************)
(* The authenticated mutations of the daemon (daemon/app.py): every one is *)
(* an action under IdempotencyStore.run, one at a time.  Modelled with it: *)
(* transactional streams (streaming/service.py) with the evaluation they   *)
(* commit, and policy activation (policies/repository.py, runtime.py).     *)
(*                                                                         *)
(* An append to the ledger succeeds, raises or is cancelled, and raises or *)
(* is cancelled before or after its batch went in.  Raised after it is the *)
(* failed head write, which leaves the store unhealthy.  EventStore models *)
(* the head; here it matches the last event or does not.                   *)
(*                                                                         *)
(* Abstractions.  A call waits for the idempotency lock without effect, so *)
(* only the one that has it is a state.  A key seen before is answered     *)
(* without effect: no action.  Chunks are counted up to MaxChunks and      *)
(* effects up to MaxEffects.  The text of a stream is what extraction,     *)
(* detectors and the provider make of it, a member of Contents.            *)
(***************************************************************************)
EXTENDS PolicyEngine, Sequences

CONSTANTS
  Keys,             \* idempotency keys
  Streams,          \* stream identifiers
  Policies,         \* policies an operator may activate, by name
  PolicyOf,         \* the policy of each name
  Initial,          \* the one of the first start (ensure_initial)
  Offered,          \* the requests clients make
  Contents,         \* texts of streams: sets of candidates with their verdicts
  None,             \* no request, no stream, no policy
  MaxChunks,        \* bound on the chunks of a stream
  MaxEffects        \* bound on counted effects

ASSUME BoundAssumption == MaxChunks \in Nat \ {0} /\ MaxEffects \in Nat \ {0, 1}

StreamOps == {"append", "commit", "abort"}
Requests == [key : Keys, op : StreamOps \cup {"begin", "activate"},
             stream : Streams \cup {None}, policy : Policies \cup {None}]

(* A key stands for one request: another under it is a conflict.           *)
ASSUME OfferedAssumption ==
  /\ Offered \subseteq Requests
  /\ \A r \in Offered : r.op \in StreamOps => r.stream \in Streams
  /\ \A r, q \in Offered : r.key = q.key => r = q
  /\ None \notin Requests /\ None \notin Streams /\ None \notin Policies

ASSUME PolicyAssumption ==
  Initial \in Policies /\ \A p \in Policies : ConformingPolicy(PolicyOf[p])

ASSUME ContentsAssumption ==
  \A text \in Contents : \A c \in text :
    c.candidate \in Candidates /\ c.raws \in Seq(Raws) /\ c.reply \in Replies

VARIABLES
  keys,             \* idempotency_keys: the reservation or response under a key
  rows,             \* the table of streams
  memory,           \* streams whose candidates were admitted to memory
  active,           \* the active row of the table of policies
  anchored,         \* the expected head matches the last event
  healthy,          \* event_store.healthy
  registry,         \* _streams, in the daemon's memory
  engine,           \* the policy the running engine was built from
  valid,            \* policy_validation_state
  run,              \* the request under the idempotency lock
  pc,               \* where in it
  found,            \* the text of the stream that is committed, as judged
  ends,             \* history: terminal events of each stream
  effects,          \* history: how often a key's request took effect
  raised,           \* history: keys whose action raised after its effect
  late,             \* history: streams whose commit was cancelled after its batch went in
  lost,             \* history: streams left open by a failed append or a stop
  torn              \* history: an activation took effect and did not return

tables == <<rows, memory, active>>
health == <<anchored, healthy>>
deciding == <<engine, valid>>
streamHistory == <<ends, late, lost>>
keyHistory == <<effects, raised>>
vars == <<keys, tables, health, registry, deciding, run, pc, found,
          streamHistory, keyHistory, torn>>

Terminals == {"committed", "blocked", "aborted"}
Places == {"idle", "act", "capture", "judge", "terminal", "record", "undo", "respond", "release"}

Entries == [state : Terminals \cup {"none", "open", "committing"}, chunks : 0..MaxChunks]

TypeOK ==
  /\ keys \in [Keys -> {"free", "progress", "done"}]
  /\ rows \in [Streams -> Terminals \cup {"none", "open"}]
  /\ memory \in SUBSET Streams
  /\ active \in Policies /\ engine \in Policies /\ valid \in BOOLEAN
  /\ anchored \in BOOLEAN /\ healthy \in BOOLEAN
  /\ registry \in [Streams -> Entries]
  /\ run \in Offered \cup {None}
  /\ pc \in Places
  /\ found = {} \/ found \in Contents
  /\ ends \in [Streams -> 0..2]
  /\ effects \in [Keys -> 0..MaxEffects]
  /\ raised \in SUBSET Keys
  /\ late \in SUBSET Streams /\ lost \in SUBSET Streams
  /\ torn \in BOOLEAN

NoStream == [state |-> "none", chunks |-> 0]

Init ==
  /\ keys = [k \in Keys |-> "free"]
  /\ rows = [s \in Streams |-> "none"]
  /\ memory = {}
  /\ active = Initial /\ engine = Initial /\ valid = TRUE
  /\ anchored = TRUE /\ healthy = TRUE
  /\ registry = [s \in Streams |-> NoStream]
  /\ run = None /\ pc = "idle" /\ found = {}
  /\ ends = [s \in Streams |-> 0]
  /\ effects = [k \in Keys |-> 0]
  /\ raised = {} /\ late = {} /\ lost = {} /\ torn = FALSE

---------------------------------------------------------------------------
(* How an append can end, and whether its batch is in the ledger then.     *)
Outcomes == {o \in [end : {"ok", "raised", "cancelled"}, done : BOOLEAN] :
               o.end = "ok" => o.done}

(* _append_with_projection, by a store whose health is h. *)
Appended(h, o) ==
  /\ o.done => h
  /\ healthy' = (h /\ ~(o.done /\ o.end = "raised"))
  /\ anchored' \in (IF ~o.done THEN {anchored}
                    ELSE IF o.end = "ok" THEN {TRUE} ELSE BOOLEAN)

(* History of the request that has the lock: it takes effect, it raises.   *)
Counts(takes, raises) ==
  /\ effects' = IF takes THEN [effects EXCEPT ![run.key] = @ + 1] ELSE effects
  /\ raised' = IF raises THEN raised \cup {run.key} ELSE raised

At(place, ops) == pc = place /\ run.op \in ops
Answer(good) == pc' = IF good THEN "respond" ELSE "release"

SetState(s, state) == registry' = [registry EXCEPT ![s].state = state]

---------------------------------------------------------------------------
(* Mutant: a reservation of unknown completion is taken over. *)
MayReserveAgain(r) ==
  /\ keys[r.key] \in {"free", "progress"}
  /\ r.op = "begin" => \E s \in Streams : rows[s] = "none"
  /\ effects[r.key] < MaxEffects

(* The key is unknown; a stream to begin is left; bound on effects.        *)
MayReserve(r) ==
  /\ keys[r.key] = "free"
  /\ r.op = "begin" => \E s \in Streams : rows[s] = "none"
  /\ effects[r.key] < MaxEffects

(* run: the reservation is inserted.  The health check comes before the    *)
(* wait for the lock, so that it says nothing here.                        *)
Reserve(r) ==
  /\ run = None
  /\ MayReserve(r)
  /\ run' = r /\ pc' = "act"
  /\ keys' = [keys EXCEPT ![r.key] = "progress"]
  /\ UNCHANGED <<tables, health, registry, deciding, found, streamHistory, keyHistory, torn>>

(* The response is stored, or the store of it fails and the reservation    *)
(* stays.                                                                  *)
Respond ==
  /\ pc = "respond"
  /\ keys' \in {keys, [keys EXCEPT ![run.key] = "done"]}
  /\ run' = None /\ pc' = "idle"
  /\ UNCHANGED <<tables, health, registry, deciding, found, streamHistory, keyHistory, torn>>

(* _release_failed_reservation *)
Release ==
  /\ pc = "release"
  /\ keys' \in {keys, [keys EXCEPT ![run.key] = "free"]}
  /\ run' = None /\ pc' = "idle"
  /\ UNCHANGED <<tables, health, registry, deciding, found, streamHistory, keyHistory, torn>>

---------------------------------------------------------------------------
(* begin_write: the row with its event, then the registry. *)
BeginWrite(s, o) ==
  /\ At("act", {"begin"})
  /\ rows[s] = "none"
  /\ Appended(healthy, o)
  /\ rows' = IF o.done THEN [rows EXCEPT ![s] = "open"] ELSE rows
  /\ registry' = IF o.end = "ok" THEN [registry EXCEPT ![s].state = "open"] ELSE registry
  /\ lost' = IF o.done /\ o.end # "ok" THEN lost \cup {s} ELSE lost
  /\ Counts(o.done, o.done /\ o.end # "ok")
  /\ Answer(o.end = "ok")
  /\ UNCHANGED <<keys, memory, active, deciding, run, found, ends, late, torn>>

(* The stream is unknown or terminal, has no chunk to commit, or is not at *)
(* the chunk the request names.                                            *)
Refuse ==
  /\ At("act", StreamOps)
  /\ Answer(FALSE)
  /\ UNCHANGED <<keys, tables, health, registry, deciding, run, found,
                 streamHistory, keyHistory, torn>>

(* The guard of append, abort and commit. *)
Open(op) == At("act", {op}) /\ registry[run.stream].state = "open"

(* append: the chunk is kept, and its window may show a risk.              *)
AppendChunk(risk) ==
  /\ Open("append") /\ registry[run.stream].chunks < MaxChunks
  /\ registry' = [registry EXCEPT ![run.stream] =
                    [state |-> IF risk THEN "blocked" ELSE "open", chunks |-> @.chunks + 1]]
  /\ pc' = IF risk THEN "record" ELSE "respond"
  /\ Counts(TRUE, FALSE)
  /\ UNCHANGED <<keys, tables, health, deciding, run, found, streamHistory, torn>>

(* append: the chunk exceeds a limit.  The call records that and raises.   *)
ExceedLimit ==
  /\ Open("append")
  /\ SetState(run.stream, "aborted")
  /\ pc' = "undo"
  /\ Counts(TRUE, TRUE)
  /\ UNCHANGED <<keys, tables, health, deciding, run, found, streamHistory, torn>>

(* abort *)
Abort ==
  /\ Open("abort")
  /\ SetState(run.stream, "aborted")
  /\ pc' = "record"
  /\ Counts(TRUE, FALSE)
  /\ UNCHANGED <<keys, tables, health, deciding, run, found, streamHistory, torn>>

---------------------------------------------------------------------------
(* commit: the whole text shows a risk, or it goes to the evaluation.      *)
Commit(risk) ==
  /\ Open("commit") /\ registry[run.stream].chunks > 0
  /\ SetState(run.stream, IF risk THEN "blocked" ELSE "committing")
  /\ pc' = IF risk THEN "record" ELSE "capture"
  /\ Counts(risk, FALSE)
  /\ UNCHANGED <<keys, tables, health, deciding, run, found, streamHistory, torn>>

(* Mutant: a commit that failed may be tried again. *)
GiveUpOpen(s) ==
  /\ SetState(s, "open")
  /\ pc' = IF healthy' THEN "undo" ELSE "release"
  /\ lost' = IF ~healthy' /\ rows'[s] = "open" THEN lost \cup {s} ELSE lost

(* Mutant: a commit that failed before its batch leaves no event. *)
GiveUpSilently(s) ==
  /\ SetState(s, "aborted")
  /\ pc' = "release"
  /\ lost' = lost

(* The two handlers of commit: what raised or was cancelled aborts the     *)
(* stream, and is recorded when the store is healthy.                      *)
GiveUp(s) ==
  /\ SetState(s, "aborted")
  /\ pc' = IF healthy' THEN "undo" ELSE "release"
  /\ lost' = IF ~healthy' /\ rows'[s] = "open" THEN lost \cup {s} ELSE lost

(* _capture_evidence *)
Capture(o) ==
  /\ pc = "capture"
  /\ Appended(healthy, o)
  /\ UNCHANGED <<keys, tables, deciding, run, found, ends, late, keyHistory, torn>>
  /\ \/ o.end = "ok" /\ pc' = "judge" /\ UNCHANGED <<registry, lost>>
     \/ o.end # "ok" /\ GiveUp(run.stream)

(* Extraction, detectors, provider and engine, or a failure of extraction. *)
Judge ==
  /\ pc = "judge"
  /\ \/ found' \in Contents /\ pc' = "terminal" /\ UNCHANGED <<tables, health, registry, lost>>
     \/ UNCHANGED <<tables, health, found>> /\ GiveUp(run.stream)
  /\ UNCHANGED <<keys, deciding, run, ends, late, keyHistory, torn>>

Keeps(p, c) == Decided(PolicyOf[p], c.candidate, c.raws, c.reply) \in Kept

(* All or nothing: one candidate that is not kept blocks the stream.       *)
Accepted == \A c \in found : Keeps(engine, c)

(* _commit_outcomes: every decision with the terminal event, in one batch  *)
(* that requires the row to be open.                                       *)
CommitOutcomes(o) ==
  LET s == run.stream
      state == IF Accepted THEN "committed" ELSE "blocked"
  IN
  /\ pc = "terminal"
  /\ Appended(healthy, o)
  /\ o.done => rows[s] = "open"
  /\ rows' = IF o.done THEN [rows EXCEPT ![s] = state] ELSE rows
  /\ memory' = IF o.done /\ Accepted THEN memory \cup {s} ELSE memory
  /\ ends' = IF o.done THEN [ends EXCEPT ![s] = @ + 1] ELSE ends
  /\ late' = IF o.done /\ o.end = "cancelled" THEN late \cup {s} ELSE late
  /\ Counts(o.done, o.done /\ o.end # "ok")
  /\ found' = {}
  /\ \/ o.end = "ok" /\ SetState(s, state) /\ pc' = "respond" /\ UNCHANGED lost
     \/ o.end # "ok" /\ GiveUp(s)
  /\ UNCHANGED <<keys, active, deciding, run, torn>>

(* _record_abort: the row takes the registry's state, whatever it had.     *)
RecordAbort(o) ==
  LET s == run.stream IN
  /\ pc \in {"record", "undo"}
  /\ Appended(healthy, o)
  /\ rows' = IF o.done THEN [rows EXCEPT ![s] = registry[s].state] ELSE rows
  /\ ends' = IF o.done THEN [ends EXCEPT ![s] = @ + 1] ELSE ends
  /\ lost' = IF ~o.done /\ rows[s] = "open" THEN lost \cup {s} ELSE lost
  /\ Counts(FALSE, pc = "record" /\ o.end # "ok")
  /\ Answer(pc = "record" /\ o.end = "ok")
  /\ UNCHANGED <<keys, memory, active, registry, deciding, run, found, late, torn>>

---------------------------------------------------------------------------
(* Mutant: the engine goes on with the policy it had. *)
ReplacedLater(p) == engine

(* replace_policy *)
Replaced(p) == p

(* activate_raw of a valid policy: a verified ledger, the row with its     *)
(* event, then the running engine, with detectors that may fail to load    *)
(* before it counts as valid, then a read that may fail.                   *)
Activate(o) ==
  /\ At("act", {"activate"}) /\ run.policy \in Policies
  /\ anchored
  /\ Appended(TRUE, o)
  /\ active' = IF o.done THEN run.policy ELSE active
  /\ engine' = IF o.end = "ok" THEN Replaced(run.policy) ELSE engine
  /\ valid' \in {valid, valid \/ o.end = "ok"}
  /\ torn' = (o.end # "ok" /\ (torn \/ o.done))
  /\ \E good \in BOOLEAN :
       /\ good => o.end = "ok" /\ valid'
       /\ Answer(good)
       /\ Counts(o.done, o.done /\ ~good)
  /\ UNCHANGED <<keys, rows, memory, registry, run, found, streamHistory>>

(* activate_raw: the ledger does not verify. *)
Unverified ==
  /\ At("act", {"activate"}) /\ run.policy \in Policies
  /\ ~anchored
  /\ healthy' = FALSE /\ Answer(FALSE)
  /\ UNCHANGED <<keys, tables, anchored, registry, deciding, run, found,
                 streamHistory, keyHistory, torn>>

(* record_rejection: the policy does not validate. *)
RejectPolicy(o) ==
  /\ At("act", {"activate"}) /\ run.policy = None
  /\ Appended(healthy, o) /\ Answer(FALSE)
  /\ UNCHANGED <<keys, tables, registry, deciding, run, found, streamHistory, keyHistory, torn>>

---------------------------------------------------------------------------
(* Every route that reports the state verifies, at any time.               *)
Verify ==
  /\ healthy' = anchored
  /\ UNCHANGED <<keys, tables, anchored, registry, deciding, run, pc, found,
                 streamHistory, keyHistory, torn>>

(* Tasks outside the lock append too. *)
AppendElsewhere ==
  /\ healthy /\ anchored' = TRUE
  /\ UNCHANGED <<keys, tables, healthy, registry, deciding, run, pc, found,
                 streamHistory, keyHistory, torn>>

(* The process stops anywhere.  build_runtime takes the active policy when *)
(* the ledger verifies and the configuration is valid; otherwise it starts *)
(* unhealthy with the configured policy, or an enforced built-in one when  *)
(* the configuration is what is invalid.  The next verification that       *)
(* succeeds makes the store healthy whatever the reason was.               *)
Restart ==
  /\ valid' \in {FALSE, anchored}
  /\ healthy' = valid'
  /\ engine' \in (IF valid' THEN {active}
                 ELSE {p \in Policies : anchored => PolicyOf[p].mode = "enforce"})
  /\ registry' = [s \in Streams |-> NoStream]
  /\ run' = None /\ pc' = "idle" /\ found' = {}
  /\ lost' = lost \cup {s \in Streams : rows[s] = "open"}
  /\ torn' = FALSE
  /\ UNCHANGED <<keys, tables, anchored, ends, late, keyHistory>>

---------------------------------------------------------------------------
Next ==
  \/ \E r \in Offered : Reserve(r)
  \/ Respond \/ Release \/ Refuse
  \/ \E o \in Outcomes : \/ \E s \in Streams : BeginWrite(s, o)
                         \/ Capture(o) \/ CommitOutcomes(o) \/ RecordAbort(o)
                         \/ Activate(o) \/ RejectPolicy(o)
  \/ \E risk \in BOOLEAN : AppendChunk(risk) \/ Commit(risk)
  \/ ExceedLimit \/ Abort \/ Judge
  \/ Unverified \/ Verify \/ AppendElsewhere \/ Restart

Spec == Init /\ [][Next]_vars

---------------------------------------------------------------------------
(* The request under the lock holds its reservation and is where its       *)
(* operation can be, below the bound on effects before it has its own; only*)
(* the commit that runs has a committing stream.                           *)
Placed ==
  /\ (run = None) = (pc = "idle")
  /\ run # None => keys[run.key] = "progress"
  /\ pc \in {"act", "capture", "judge", "terminal"} => effects[run.key] < MaxEffects
  /\ pc \in {"capture", "judge", "terminal", "record", "undo"} => run.op \in StreamOps
  /\ \A s \in Streams :
       (registry[s].state = "committing")
         = (pc \in {"capture", "judge", "terminal"} /\ run.stream = s)

(* The table and the registry agree on what is open.                       *)
KnownFor(s) ==
  /\ registry[s].state \in {"open", "committing"} => rows[s] = "open"
  /\ rows[s] = "open" =>
       \/ s \in lost \/ registry[s].state \in {"open", "committing"}
       \/ pc \in {"record", "undo"} /\ run.stream = s
  /\ rows[s] = "none" => registry[s].state = "none"
  /\ s \in late => rows[s] \in Terminals

Ending ==
  pc \in {"record", "undo"} =>
    /\ registry[run.stream].state \in {"aborted", "blocked"}
    /\ rows[run.stream] = "open" \/ run.stream \in late
    /\ ends[run.stream] <= 1

Known == (\A s \in Streams : KnownFor(s)) /\ Ending

(* A stream has one terminal event when its row is terminal and none       *)
(* before, and is memory exactly when its row says committed: never half a *)
(* stream, a stream under an aborted row, or a stream ended twice.  The    *)
(* exception is the commit that was cancelled after its batch went in      *)
(* (StreamingMemoryService.commit, _record_abort).                         *)
StreamMemory ==
  \A s \in Streams \ late :
    /\ ends[s] = IF rows[s] \in Terminals THEN 1 ELSE 0
    /\ (s \in memory) = (rows[s] = "committed")

(* A key that did not raise has had its effect only when it is on its way  *)
(* to a response or past it; a request for a stream that took effect and   *)
(* raised has left the stream where no other can have an effect.           *)
CountedFor(r) ==
  /\ r.key \in raised \/ (run = r /\ pc = "record") => effects[r.key] >= 1
  /\ r.key \notin raised =>
       /\ effects[r.key] <= 1
       /\ keys[r.key] = "free" => effects[r.key] = 0
       /\ run = r /\ pc \notin {"respond", "record"} => effects[r.key] = 0
  /\ r.key \in raised /\ r.op \in StreamOps =>
       /\ effects[r.key] <= 1
       /\ effects[r.key] = 1 =>
            /\ registry[r.stream].state \notin {"open", "committing"}
            /\ rows[r.stream] # "none"

Counted == \A r \in Offered : CountedFor(r)

(* A request takes effect at most once whatever is retried, cancelled,     *)
(* stopped or not answered; only one whose action raised after its effect  *)
(* may be repeated, and it must begin a stream or activate a policy: one   *)
(* about a stream finds it ended (IdempotencyStore.run).                   *)
EffectOnce ==
  \A r \in Offered :
    effects[r.key] <= 1 \/ (r.key \in raised /\ r.op \in {"begin", "activate"})

(* The engine decides by the policy that the ledger says is active, unless *)
(* an activation was torn, or it was never valid: the daemon started with  *)
(* a fallback and nothing has been activated since (activate_policy,       *)
(* replace_policy, build_runtime).                                         *)
EngineFollowsTable == engine = active \/ torn \/ ~valid

IInv == TypeOK /\ Placed /\ Known /\ StreamMemory /\ Counted /\ EngineFollowsTable

(* Under an enforced policy no candidate becomes memory with a stream that *)
(* the reference of PolicyEngine does not let be kept: one among its       *)
(* companions, whatever its detectors and the provider came to             *)
(* (evaluate_transactional_stream, DetectorRunner, PolicyEngine).          *)
DecisionsHold ==
  [][\A s \in memory' \ memory :
       PolicyOf[engine].mode = "enforce" =>
         \A c \in found : MayKeep(PolicyOf[engine], c.candidate, c.raws, c.reply)]_vars
=============================================================================
