# Verity Cordon: verification project

TLA+ models, model-checking configurations and machine-checked proofs for
Verity Cordon, a local memory firewall for Codex (`src/verity_cordon`, Python,
about 21,500 lines). Hooks of Codex post what a task saw to a daemon on the
loopback interface; the daemon extracts memory candidates, examines them,
applies a policy and records every decision in a signed, hash-chained SQLite
ledger; sessions are given only memories that ledger and view agree on.

File names below are relative to `src/verity_cordon/` of the repository.

## 1. Inventory

| Component | State | Operations | Module |
|---|---|---|---|
| Signed event store, `ledger/store.py` | table `events`, sidecar `ledger-head.json`, per process `healthy`, `health_error`, the write lock | `initialize`, `append`, `append_with_projection`, head write | `EventStore` |
| Ledger verifier, `ledger/verify.py` | none of its own; sets the store's health | `verify` with or without the view, the queue check | `EventStore`, its verdict in `MemoryView` |
| Durable evidence queue and worker, `memory/service.py`, `daemon/evidence_queue.py` | table `pending_evidence`, wake event, worker loop | capture, notify, drain, evaluate, retry, fail, complete | `EvidenceQueue` |
| Memory view and trust actions, `memory/trust_actions.py`, `memory/service.py`, `daemon/app.py` | `active_memories`, `memory_inventory`, `quarantined_memories` | outcome, approve, block, revoke, expiry sweep, session start | `MemoryView` |
| Retroactive rescan, `memory/rescan.py` | the same tables | list, evaluate, revoke or confirm | `MemoryView` |
| View rebuild, `memory/materializer.py` | the same tables | replay, replace, verify, dry run | `MemoryView` |
| Codex integration installer, `codex/installer.py` | receipt, four marketplace trees, `config.toml`, Codex's registry | install, upgrade, resume, uninstall | `CodexInstaller` |
| Daemon mutations, `daemon/idempotency.py`, `daemon/app.py` | table `idempotency_keys`, one lock | reserve, act, respond, release | `DaemonMutations`, the lock also in `MemoryView` |
| Streaming writes, `streaming/service.py` | registry of streams in memory, table `streams` | begin, append, commit, abort | `DaemonMutations` |
| Policy repository and activation, `policies/repository.py`, `daemon/runtime.py` | table `policies`, the running engine, its validation state | activate, reject, start-up | `DaemonMutations` |
| Policy engine, `policies/engine.py`; detectors, `detectors/runner.py`; assessment, `semantic/base.py` | none | what becomes of one candidate | `PolicyEngine` |
| Memory evaluation, `memory/service.py` | none | extract, detect, assess, decide | with the policy in `DaemonMutations`, its outcome in `EvidenceQueue` and `MemoryView` |
| Codex subscription runner, `semantic/codex_subscription.py` | operation lock, child process group, cleanup failure | probe, ask, cancel, clean up | `SubscriptionRunner` |
| Desktop demo installer, `codex/demo_installer.py` | write-ahead receipt, archive, artifact, `config.toml` | setup, recovery, teardown | `DesktopDemo` |
| Control Room authentication, `daemon/security.py` | challenges, sessions, failure window, cooldown | challenge, session, authorise | see section 8 |
| Hooks, CLI, queries, rendering, keys, configuration, Control Room UI, demo, examples, evaluations | none, or read-only | | see section 8 |

How they interact:

- Hooks and the Control Room call the daemon over HTTP. Mutations (approve,
  block, revoke, rebuild, policy activation, stream calls, the capture of a
  hook's evidence) run one at a time under the lock of `IdempotencyStore.run`;
  session start and ledger verification do not take it, nor does the queue
  worker.
- Every CLI command is a process of its own with its own store object, health
  flag and write lock over the same SQLite file and the same sidecar.
- Inside the daemon, requests and the queue worker are asyncio tasks that share
  one store; they interleave at every `await`.
- The store's health flag couples everything: an append refuses, a session
  gets no memory and the worker ends when it is false; every `verify` sets it.

What is hard: the ledger is two files that are written one after the other;
verification reads without a lock; targets are read, awaited upon and used;
batches are retried after crashes; an append can be cancelled before or after
its batch went in; a child process can outlive every attempt to end it; and the
steps of the two installers cannot be one transaction. `PROJECT.json` lists
these hazards at their lines.

What makes each part correct, in one line: no later run of a process covers a
tail whose head write was lost; a queue row is settled once; the view is the
replay of the history, and a rebuild that made it differ is caught; a candidate
is decided once and an ended memory never returns; a session is given nothing
that had ended when it asked; a stream is memory as a whole or not at all, and
ends once; a request takes effect once under its key; an engine decides by the
policy the ledger names and keeps only what it may; an answer of the
subscription comes only from a clean child; what an interrupted installation
leaves is always accounted for and resumable.

## 2. Modules and how they correspond to the code

### AnchoredLog, EventStore (proofs: EventStoreProofs)

`AnchoredLog` is what a user of the store is promised: a log that only grows,
an anchor that only moves to its end, and a log that is frozen for good behind a
tail whose head was still missing when the process that wrote it stopped.
`EventStore` is the code. `log` is the table, `head` the sequence number the
sidecar names. An append is three steps, as in `append_with_projection`:
`AppendBegin` (health check, lock), `AppendCommit` (the transaction, which reads
the tail from the table and never looks at the sidecar), and one of
`AppendHead`, `AppendHeadFails` and `AppendInterrupted`. The second is an
`OSError`, before or after the file is replaced, and marks the store unhealthy.
The third is a cancellation or any other exception behind `COMMIT`: the lock is
released, and the store stays as healthy as it was over a tail without its head.
`verify` is one step for each group of reads it awaits: `VerifyBegin`,
`VerifyEvents`, `VerifyView`, `VerifyHead`. `Stop` kills a process anywhere. A
hash chain over an append-only log makes a head equivalent to a position, which
is the model's main abstraction. The history variables `orphans` (tails whose
head write was lost) and `stranded` (those still uncovered when a process
stopped) tell apart what the code does not keep from what it does.

### EvidenceQueue (proofs: EvidenceQueueProofs)

One action per step of `EvidenceQueueWorker.run` and of the service's capture,
selection, evaluation and settlement; rows carry attempts, age and delay. The
store is its health: "ok", "alarm" (a verification overlapped an append), "lost"
(a head write failed), which are the three cases `EventStore` shows.
`AlarmClears` and `LossForgotten` are the verifications that set it healthy
again, the second one the case of `store_bless`. `Crash` stops the daemon at any
step and `Restart` starts it again.

### MemoryLifecycle, MemoryView (proofs: MemoryViewProofs)

`MemoryLifecycle` is the transition system the data model promises: a candidate
is decided once, an ended memory stays ended. `MemoryView` has two copies of
the tables: `replay`, the fold of the signed history, and `view`, which each
append changes through its own projector. The two are written separately in the
code (`_project_*` against `replay_memory_state`), so they are separate
operators here, and their agreement is a theorem and not an assumption. Each
request is a task in a lane: "http" (under the lock), "session" (session start
and `POST /api/v1/ledger/verify`, with the view or of the chain alone: no lock),
"cli" (a process of its own). `Verified` and `ChainVerified` are the two forms of
`verify`: the second sets the store healthy without a look at the view.

### CodexInstaller (proofs: CodexInstallerProofs)

`receipt` is the JSON journal with its state, config heads, tree digests,
strategy and completed commands; `trees` are the active, staging, retired and
removal trees; `registered` and `plugin` are Codex's side, modelled from the
commands the installer runs and from the strict runner of
`tests/contract/test_codex_hooks.py`: adding what is present and removing what
is absent fail. Install is `InstallBegin`, `Prepare`, `Converge`, `Stage`,
`Retire`, `Activate`, `Clean`, `CompareConfig`, `WriteConfig`, `WriteInstalled`,
the commands with `Journal`, and `InstallEnd`; uninstall is `UninstallBegin` to
`Unlink`, with `CompareBound` and `Restore` for the config. The comparison and
the replacement in `_atomic_write` are two steps: an edit between them is lost,
and `raced` says that there was one. An interpreter upgraded in place is a choice
of `InstallBegin`, which then prepares the same version anew.
`GiveUp` ends an operation before any step (an exception, a refusal by Codex, a
kill), `Tear` inside a deletion or a write of many files, `Edit` is somebody
else's edit of `config.toml`.

### PolicyEngine, DaemonMutations (proofs: DaemonMutationsProofs)

`PolicyEngine` has no state: `Findings` is the detector runner, `Assessed` the
semantic assessment and `Actual` the engine, and `Decided` composes them as the
evaluation of a candidate does. `MayKeep` is the reference, stated of what went
in and not of how the code goes about it.

`DaemonMutations` is the daemon under the lock of `IdempotencyStore.run`, with
the two components whose every change goes through it. `Reserve`, then one
operation, then `Respond` or `Release`: the order of the code, so that a stop,
an exception or a cancellation falls between any two. Every append takes an
outcome: it succeeds, raises or is cancelled, and in the last two cases before
or after its batch went in (`Outcomes`). Streams are the two records the code
keeps of them, `registry` in memory and `rows` in the table; a commit is
`Commit`, `Capture`, `Judge`, `CommitOutcomes`, and `GiveUp` with `RecordAbort`
are its two exception handlers. `Activate` moves the table and then the running
engine; `valid` is `policy_validation_state`. `Verify` and `AppendElsewhere`
are the tasks outside the lock, and `Restart` is a stop with the start after
it. A call whose key is known is answered without effect, and so is no action.

### SubscriptionRunner (proofs: SubscriptionRunnerProofs)

One child at a time: `queue` and `holder` are the operation lock, `stage` the
child (version, login status, exec), `phase` the place in `_execute`, whose
`finally` is `Terminate`, `Kill` and `Drain`. `Event` is a line of the exec
child through `_EventStreamValidator.consume`. `flag` is
`last_cleanup_failure`. `CancelHolder` is a cancellation delivered at one of
the awaits, `Change` an update of Codex or a new login. What really happened
is kept beside what the runner believes: `did` and `items` beside `stream`,
`strays` beside `flag`, `asked` beside `error`.

### DesktopDemo (proofs: DesktopDemoProofs)

`receipt`, `history` (the archive), `files` (staging) and `config` are the
files; `SetupBegin` to `Install`, `RecoverBegin` into the middle of it, and
`TeardownBegin` to `Close` are the two commands step by step. The last check
before a change is a step of its own wherever something else can come between:
`Stage` and `Write`, `Compare` and `Replace`, `CompareUnset` and `ReplaceUnset`,
`Unlink` and `Delete`, `CheckOriginal` and `Restore`, `Finish` (the rmdir),
`CheckRemoved` and `Close`. `Quarantine` is check and rename in one, because the
file that was moved is looked at again. `intruded` says that a file changed since
the check that the next step relies on. `GiveUp` stops an
operation anywhere, `StageKilled` inside a write of many blocks. `Edit`,
`Drift` and `Tamper` are others: the operator's editor, upgrades, somebody in
the staging directory. `wanted` follows what the operator wants of the config.

### MC modules

The `MC` modules extend their specification with the model values and the few
functions the configurations substitute for constants. They define no
behaviour. `SubscriptionRunner` needs none and is run as it is.

## 3. Runs

| Run | Configuration | Shows |
|---|---|---|
| `store_exclusive` | `EventStoreExclusive.cfg` | Daemon and CLI taking turns, every kind of batch, two stops, a failing head write, an append cancelled behind its commit: a healthy store has its head on the tail or lost it in this very run, a stranded tail is never covered, acknowledged events stay covered, a recorded queue failure makes every later boot unhealthy, and `EventStore` implements `AnchoredLog`. |
| `store_bless` (violation) | `EventStoreBless.cfg` | A verification makes a store healthy again after a failed head write, and the next head covers the orphan. |
| `queue_faults` | `EvidenceQueueFaults.cfg` | A crash, an alarm and a failing head write anywhere, the lost head remembered or forgotten: rows are settled once, attempts are bounded, no notification is lost, and the queue is drained in the end unless the worker's loop has ended or a head was lost. |
| `queue_exit` (violation) | `EvidenceQueueExit.cfg` | After one alarm that is cleared again, the worker has ended and the item stays pending. |
| `view_actions` | `MemoryViewActions.cfg` | Two serialised mutations, a session and a command: view equals replay, lifecycle implemented, nothing ended is injected. |
| `view_rebuild` | `MemoryViewRebuild.cfg` | Rebuilds by the daemon and by a command, sessions, both verifications of the ledger, revocations and a stop: what a rebuild leaves is caught by its verification, forgotten by one of the chain alone at most, and no session that was not misled is given what had ended. |
| `view_rebuilds` (violation) | `MemoryViewRebuilds.cfg` | A second rebuild waits behind the first: the daemon is healthy again over a view that is wrong. |
| `installer_cycle` | `CodexInstallerCycle.cfg` | Install, upgrade, resume, uninstall with stops, edits (also between comparison and replacement) and partial deletions. |
| `daemon_mutations` | `DaemonMutations.cfg` | Begin, append, commit, abort, activation and rejection with failing and cancelled appends and stops: streams are whole, effects happen once, the engine follows the table, and only what the reference allows becomes memory. |
| `subscription_calls` | `SubscriptionRunnerCalls.cfg` | A probe and an asker compete, children hang, misbehave or outlive their termination, calls are cancelled: only clean results, no child after a failed cleanup, every call ends. |
| `desktop_cycle` | `DesktopDemoCycle.cfg` | Setup, recovery, teardown and setup again, stopped anywhere, beside edits and interference: write-ahead, resumable, the operator's config and others' files kept. |

Bounds, and why they are enough:

- *EventStore*: three events and two or three tasks. The races are between one
  append and one verification, or two appends; the third event is the one whose
  head would bless an orphan. Batches of one and two events distinguish a tail
  from the batch before it. Two stops, so that a run can end over a lost head and
  the next one, too; one failing and one interrupted head write, so that they
  meet in both orders.
- *EvidenceQueue*: two items for a queue of two, two attempts (a retry and a last
  one), a longest delay of two ticks and an age of three: a row can be tried, wait
  for its retry and be tried again before it is too old, or grow too old while it
  waits, in a batch of its own or of both. One crash, one alarm and one lost head
  meet in one behaviour, in every order; the invariants are proved for any number
  of each. The violation run has one item and an age of two ticks.
- *MemoryView*: one candidate that two mutations compete for and two memories,
  one with an expiry; four appends. `view_rebuild` has one request, one task
  without the lock and one command, so that a rebuild meets each of a session, a
  verification and a revocation, and one stop or cut-off verification. `view_rebuilds` has two
  candidates, two requests and no stops.
- *CodexInstaller*: three interchangeable versions (an upgrade from an upgrade),
  two edits (one before and one after a head is bound), one partial deletion;
  the number of stops is not bounded.
- *DaemonMutations*: one stream with a request of every kind for it, since
  requests hold one lock and streams share nothing else; two policies, so that
  the engine can have the wrong one; two effects of a key, the second being the
  repetition. Stops, verifications and failing appends are not bounded. Texts
  are empty, or one harmless candidate with one of 140 cases (seven kinds of
  candidates, five verdicts of two detectors, four answers), so that one
  candidate may fail the whole stream.
- *SubscriptionRunner*: a probe and an asker, that may call any number of times;
  two items of two types, so that items interleave and types can be confused.
  The second attempt at a termination is the last the code makes.
- *DesktopDemo*: two installations (the first is archived), two edits, one other
  disturbance, stops without bound; two values of everything that can drift.

Deadlock is checked in `daemon_mutations`, `subscription_calls` and the three runs
of the view, where nothing that matters runs out. The other configurations set
`CHECK_DEADLOCK FALSE`, because their bounds on events, stops and edits end the
behaviours and not the program.

## 4. Fairness

`EvidenceQueue` states fairness only of what the program schedules itself:
`WorkerStep` (the worker task is always runnable or waiting on its event with a
timeout), `Tick` (time passes), `Restart` (the operator starts a daemon that
stopped) and `AlarmClears` (a later verification succeeds; the Control Room and
every policy activation run one). Captures, notifications, crashes, alarms and
failing writes are not fair: nothing makes them happen. An evaluation that fails
is a choice and may fail every time; that the item is settled all the same comes
from the limits on attempts and age. `DrainedUnlessStopped` names the two ways
out that the code leaves open: a loop that ended (`queue_exit` shows that
nothing starts it again) and a lost head; no fairness is assumed of
`LossForgotten`, which needs a race.

`SubscriptionRunner` states it of `RunnerStep`: the code between two awaits, and
the deadlines that bound every await on a child (`Timeout`, the grace periods,
the wait for readers). Children, callers and updates are not fair: a child that
says nothing and never exits is a behaviour, and `CallsEnd` says that its caller
comes back all the same, and those queued behind it.

## 5. Theorems

TLAPS proves these for every value of the constants: any number of processes,
tasks, batches, candidates, memories and stops.

*EventStoreProofs.* Without further assumption, type correctness and
`QueueFailureSurvivesRestart`: any number of processes may run, stop and fail.
Its invariant `BootInv` says that a process that is not up yet runs one task, a
verification, which finds the store as `initialize` left it. For one owner at a
time (`ExclusiveOwner`), with any number of stops, failing head writes and
cancelled appends: acknowledged events stay covered (`AckedStaysAnchored`); a
healthy store without an append in flight has its head on the tail, unless this
run of its process lost it (`HealthyMeansAnchored`); when every task is idle the
same is true of any store (`ConcurrentAppendsVerifiable`); a stranded tail is
never covered (`StrandedNeverBlessed`); and the store implements `AnchoredLog`.
The invariant `IInv` says who may be inside an append (`OwnerInv`: the holder of
the lock in the running process, and no task of a stopped one) and what head, log
and health look like (`AnchorInv`): a tail that is neither covered nor in flight
lost its own head write, and behind a stranded one nobody writes, nobody is
healthy and every verification under way has read that tail, so that none can
match it with the old head. None of this is inductive by itself: that a
verification's old tail cannot meet an old head after a restart follows only from
the lock, the running process and the order of its reads. The assumption is
necessary: without it `ConcurrentAppendsVerifiable` fails. That *no* orphan is
ever covered (`OrphanNeverBlessed`) is what `store_bless` refutes.

*EvidenceQueueProofs.* For any items, limits and bounds on crashes, alarms and
losses: `SettledOnce`, `EvaluationsCounted` and `NoLostWakeup`. `BatchInv` keeps
the rows of a batch, its item and the processed ones apart: a row is in one
place. `CountInv` is the strengthening of `EvaluationsCounted`: an evaluation not
yet paid for by an attempt is in flight, or an unhealthy store that the worker has
not met yet can still hide it; crashes, alarms and lost heads pay for the rest,
one each, also when a verification sets the store healthy again while the worker
is in its batch. `WakeInv` says the same of `NoLostWakeup` while a batch runs: a
row told of and never tried is in the batch, or the wake event is set.

*MemoryViewProofs.* Whatever is offered to whom, rebuilds by the daemon and by
commands, chain-only verifications and stops included: type correctness;
`DriftIsCaught`, that a healthy daemon whose last verdict compared the view has
one that replays, but while a rebuild of its own is verified (one whose
verification is cancelled or raises, `CutOff`, leaves a view nobody has compared);
and
`NothingGoneInjected`, that no session is given what had ended or elapsed when it
asked, unless an old view replaced the one it had verified before it rendered
(`misled`). Their invariant `RebuildInv` follows what a session must not be given
through its start (`GoneInv`: among those it sweeps, then gone from the view, then
absent from its text), and says that a session that was not misled has the replay
until it renders. A misled session is refused by its last verification as long
as the drift is there; if another rebuild repairs the view first, the old text is
returned.

Where nobody rebuilds (`NeverRebuilt`) the view is the replay (`ViewIsReplay`),
rescans revoke only live memories, and every behaviour is one of
`MemoryLifecycle`. The invariant `IInv` adds to `ViewIsReplay` that at most one
mutation is inside its action (`LockInv`) and that whatever a task is about to
append is still quarantined or known (`TargetInv`). The operations read their
target long before they append, and the lock and the projectors' guards together
are what keeps that reading good. `ProjectorsReplay` is the key lemma: from equal
tables every projector does what the replay does. That a drift is always known
(`DriftIsKnown`) is what `view_rebuilds` refutes.

*CodexInstallerProofs.* Every property of the module, for any versions, edits
and stops; assumed of the constants is only that the values for "no receipt",
"no tree" and "a part of a tree" differ from receipts and versions. None is
inductive alone, and `IInv` has a part for each thing they rest on. `PlaceInv` and
`PhaseInv` tie the step to the receipt: a step between the two receipts of an
installation has one in "prepared" for the version being installed, staging
holds that version whole before it is activated, and a command is unjournaled in
one step only. `TreeInv` says which trees each phase can have on disk, which is
what recovery converges (`Resumable`) and what `TreesBound` forgets when the
receipt forgets the previous version. `ConfigInv` says that `config.toml` is one
of the heads the receipt binds until somebody edits it, and that those heads
differ in the controls alone (`EditsKept`); at the replacement that is so
unless an edit fell behind the comparison (`raced`). `JournalInv` says that the journal
stays readable when the command that has run is entered, and `CodexInv` that what
Codex has is what the journal and that command say; `JournalKept`,
`ControlsGuardPlugin`, `CompleteIsCurrent` and `UninstallLeavesNothing` follow.
`Kinds` sorts the steps by what they write, `Transitions` says what each writes in
the receipt, and each part of `IInv` has a lemma with one case for each kind.

*DaemonMutationsProofs.* For any keys, streams, conforming policies, requests
and texts: `StreamMemory`, `EffectOnce`, `EngineFollowsTable` and, of every
step, `DecisionsHold`. Assumed is what the module assumes: a key stands for one
request, policies are validated ones. The invariant has a part for each thing
that the properties take for granted: a request under the lock holds its
reservation (`Placed`); what the registry calls open is open in the table, and
an open row without an entry was lost to a failure or a stop (`KnownFor`); the
end of a stream is about to be recorded for a row that is open, or was committed
by a cancelled call (`Ending`); and a key without an exception has its effect
exactly from its operation to its response (`CountedFor`). `EffectOnce` needs
all of them: that a repeated commit has no effect rests on the stream being
terminal, which rests on the order of registry and table. `EngineKeeps` is the
lemma about the policy engine: for any rules, what `Actual` keeps `MayKeep`
allows. It goes by the ways a candidate can be kept: no guard, no failure on a
high-risk candidate (`FailureKeepsNothing`), and no review before the winning
rule (`ReviewComesFirst`).

*SubscriptionRunnerProofs.* For any callers, items and types: what is left
behind is reported (`LeftoversFlagged`), no child follows a failed cleanup, and
`ResultsAreClean`. `Owned` ties lock, phase, group and directory together, and
`StreamFollowed` ties the validator's state to what the child did, as long as
nothing was refused; a result needs both. `Waiting` says that nobody waits
twice, for which the proof has a lemma on removal from a sequence.

*DesktopDemoProofs.* Every property of the module, for any bounds and any
interference: `WriteAhead`, `HistoryKept`, `ForeignKept`, `OperatorConfigKept` and
`Resumable`. Assumed is only that "no file", "no receipt" and a foreign file
differ from what they stand beside. `StepInv` gives the state of the receipt at
every step; with it each step is a small fact. `WindowInv` says that until
somebody intrudes the files are as the last check left them, which is all that
`ForeignKept` rests on. `PlanInv` says that the file an
operation compares with is the one its receipt binds, `TableInv` that while the
entry is there the receipt knows whether its table was there before it, which
is what lets teardown give the operator an empty table back. `CalmInv` lists the
states an undisturbed installation can be in, step by step: that the failure of
a projection is not among them is the lemma `EntryProjected` about setting the
entry.

Only model-checked: everything temporal under fairness (`DrainedUnlessStopped`,
`CallsEnd`), which the prover does not cover. Proved under an assumption on the
constants are the store's promises for one owner at a time (`ExclusiveOwner`) and,
where nobody rebuilds, the view's equality with the replay and its lifecycle; the
runs that check them have constants of that kind. The violations are
counterexamples, by nature.

## 6. Where code and documents disagree

The three violation runs are findings; `PROJECT.json` quotes the sentence each
contradicts. In short: a concurrent verification can bless an orphaned tail, the
worker never resumes after a passing alarm, and of two queued rebuilds the second
one forgets that the first one drifted the view. The first and the last
have a shorter way, too:

- *A cancelled append leaves a healthy store.* Only an `OSError` of the head write
  marks the store unhealthy (`ledger/store.py:442-445`). A cancellation, or another
  exception, behind `COMMIT` leaves it healthy over a tail without its head, and
  the next append's head covers a batch whose caller got no answer.
  `data-model.md:418`: "the daemon does not silently bless the newer database
  head". `AppendInterrupted` is that step; `HealthyMeansAnchored` and the others
  say what is left: it is the same run of the process, or the store is unhealthy
  for good.
- *A verification of the chain heals a drift.* `POST /api/v1/ledger/verify` with
  `verify_materialized_view` false (`daemon/app.py:658-664`) takes no lock and sets
  the store healthy (`ledger/verify.py:849`) whatever the view is. `DriftIsCaught`
  excepts what such a verdict leaves. A rebuild whose last verification is
  cancelled (`memory/materializer.py:183`) marks nothing either.

Other disagreements the models show, or that were met while reading. They have
no run of their own; a property that meets one names it as an exception.

- *A fallback policy decides.* With an invalid policy configuration the daemon
  starts unhealthy (`daemon/runtime.py:103`), but the next successful
  verification, such as the one of every status request, makes the store healthy
  (`ledger/verify.py:849`), and from then on the built-in policy decides
  captures and streams although the signed active policy is another one. Only
  injection looks at `policy_validation_state`. `spec.md:398` (001, SFR-004):
  "New commits MUST fail closed when the active policy is invalid ... no valid
  policy means no commit and no injection." `EngineFollowsTable` excepts it.
- *A queue failure is forgotten.* A verification remembers the failure it found
  at its start and sets healthy at its end (`ledger/verify.py:687`, `849`); one
  marked in between is overwritten. `docs/security/threat-model.md:564`: "Sticky
  critical integrity state".
- *A rebuild heals what it drifted* (run `view_rebuilds`). Of two queued rebuilds
  the second one passed its health check before the first one failed
  (`daemon/idempotency.py:33`), and its verification without the view marks the
  store healthy (`memory/materializer.py:93`). `threat-model.md:567`: "Rebuild
  transactionally, then re-verify before re-enabling". A session that stands
  between its first verification and its text when the old view comes may be given
  what had ended, if the view is repaired before it verifies again (`misled`).
- *The installer's journal is reset.* A reinstall of the same version forgets
  commands Codex has executed (`codex/installer.py:1434`), while
  `contracts/codex-hook-contract.md:97` says "A retry MUST skip each recorded
  success".
- *An interpreter upgraded in place.* The hook's interpreter is compared where
  only commands are left (`codex/installer.py:1737-1745`) and not where the
  strategy is planned (`1416-1427`). A reinstall of a completed version is then
  prepared with the strategy "complete" and a journal without its `plugin_add`
  (`1430-1437`), which no later run can read (`1110-1113`). `InstallBegin` has
  the choice, and the properties except it with every other reset of the journal
  (`cleared`).
- *Checked, then replaced.* In both installers the last check of a file and the
  step that relies on it are two system calls: an edit of `config.toml` between
  them is lost (`codex/installer.py:455-456`, `codex/demo_installer.py:700-708`), a
  file placed under the artifact's name is overwritten, one swapped in under the
  quarantine name is deleted (`2704-2713`), and one placed after the rmdir stays
  under a closed receipt (`3556-3591`). `EditsKept`, `OperatorConfigKept` and
  `ForeignKept` except exactly these windows (`raced`, `intruded`); `WriteAhead`
  holds in them, too.
- *A prepared demo receipt without a way out.* When setup cannot be resumed,
  because the integration was upgraded or the config edited, teardown refuses
  the receipt, too (`codex/demo_installer.py:3394`). `spec.md:137` (002):
  "Given completed or partially completed setup, When teardown is confirmed,
  Then demo-only integration is removed safely".
- *A temporary file of a killed write* keeps the demo's staging directory from
  being removed, and so every later teardown from ending (`StageKilled`).
- *A cancellation is dropped.* One that arrives while a failed child is cleaned
  up loses to the failure (`semantic/codex_subscription.py:989`), although the
  comment at 841 says "Preserve cancellation at the outer boundary after bounded
  cleanup." `EvidenceQueueWorker.stop` cancels once and waits.
- *A committed stream becomes aborted.* A commit cancelled after its batch went
  in runs the handler of a failed one (`streaming/service.py:362`), which
  overwrites the row and appends a second terminal event; its memories stay.
  `plan.md:264` (001): cancellation produces "an auditable terminal event and no
  active memory". `StreamMemory` excepts exactly these streams (`late`).
- *A reservation is released after the effect* when the action raised behind its
  append (`daemon/idempotency.py:85`), and a retry repeats it. `plan.md:135`:
  an indeterminate reservation "is refused on retry". `EffectOnce` shows
  that this can repeat only a begin or an activation.
- *An activation is torn* when it is cancelled or raises between the ledger and
  the engine (`daemon/app.py:643`), while `cli/main.py:599` counts on engine and
  ledger to "change atomically". `EngineFollowsTable` excepts it (`torn`).
- Two processes appending at once can write the sidecar in the wrong order and
  leave it behind the tail (`EventStore` with `ExclusiveOwner = FALSE` violates
  `ConcurrentAppendsVerifiable`); no later boot accepts that ledger.
- A verification that overlaps an append can raise a false alarm; this is the
  "alarm" of `EvidenceQueue`.
- The attempts of an evaluation are counted when its failure is recorded, so a
  crash repeats one uncounted (`EvaluationsCounted` has the exact bound); the
  age of a row is compared with a clock read once for its batch.
- A memory revoked while the expiry sweep is under way is relabelled expired.
- A retired tree or tombstone that was deleted in part makes every later
  install or uninstall refuse; `Resumable` exempts it, and says so.
- A Codex command whose effect was not journaled: the contract names the
  ambiguity, and a later uninstall journals the removal without running it.

## 7. Plan

What is left, in the order of its worth:

1. The policy under which the queue worker decides: `EvidenceQueue` composed
   with the activation of `DaemonMutations`, whose lock the worker does not take.
2. Receipts of earlier versions and a `config.toml` that does not exist yet, in
   both installers.
3. `ViewIsReplay` and the lifecycle where the daemon rebuilds, for which a
   mutation's target must be followed across a replacement of the view.

## 8. Not modelled, and why

- Tampering from outside: the checks that detect an altered row, signature or
  key are sequential validation. Its trace in the queue ("queueFailure") is in.
- Signing, canonical encoding, redaction, detector patterns, prompts, rendering
  and formatting: data that no property here tells apart.
- Hooks: a process per call without state that always answers with a
  continuation. Queries, the Control Room's UI, telemetry, examples and
  evaluations change nothing. Configuration, owners and modes of files and the
  trust of executables are validation without state.
- Control Room authentication: each handler changes challenges, failures and
  sessions under an asyncio lock without an await inside, so that nothing
  interleaves; what is left is bookkeeping that a unit test reaches.
- The evaluation in the queue worker under a changing policy (section 7), the
  Windows branch of the subscription runner, and a cancellation inside the
  creation of a process, which is one step in the model.
- Of the installers: `doctor`, previews and probes, receipts of earlier
  schemas, backups of the config, a `config.toml` that does not exist yet, and
  commands the operator runs by hand after `run_codex_commands=False`.
- Of the store: paths and permissions, schema creation beyond its tables, and
  SQLite's own atomicity and locking, which are assumed.

## 9. Running

    tlc -config EventStoreExclusive.cfg MCEventStore.tla
    tlc -config CodexInstallerCycle.cfg MCCodexInstaller.tla
    tlc -config SubscriptionRunnerCalls.cfg SubscriptionRunner.tla
    tlapm MemoryViewProofs.tla

Every configuration is named after its specification, and the module to run it
with is the MC module of that name, or the specification where it has none. No
run takes more than three minutes with two workers.
Mutated operators ("Mutant: ..." comments) stand before the definition they
vary; they are not part of the specification and record, for each property, one
plausible bug that it catches.
