------------------------------- MODULE DesktopDemo ------------------------------
(***************************************************************************)
(* The Desktop demo installer (codex/demo_installer.py): setup_desktop_demo*)
(* stages one synthetic server, adds one entry to Codex's config.toml and  *)
(* keeps a write-ahead receipt; teardown_desktop_demo removes exactly what *)
(* the receipt binds, the artifact by way of a planned quarantine name.    *)
(*                                                                         *)
(* Abstractions.  A file is its content; a fixture, a runtime and a normal *)
(* integration receipt are the identity their digests stand for.  Of       *)
(* config.toml the model has the managed entry, the mcp_servers table      *)
(* around it and the rest.  One operation runs at a time (_operation_lock) *)
(* and nobody else writes the receipt, so the assertions about its head    *)
(* hold.  A confirmed operation begins in a state whose digest is the one  *)
(* reviewed: the preview is that state.  Others do not place a file under  *)
(* the quarantine name, which has an identifier of its own.  Left out: a   *)
(* config.toml that does not exist yet, modes, owners and links, receipts  *)
(* of earlier versions.                                                    *)
(***************************************************************************)
EXTENDS Naturals, FiniteSets

CONSTANTS
  Rests,            \* what the operator may have in the rest of config.toml
  Fixtures,         \* versions of the synthetic server in the repository
  Runtimes,         \* identities of the Codex and Python executables
  Normals,          \* receipts of the normal integration
  None,             \* no file, no receipt
  Drifted,          \* a file with content this program did not write
  MaxInstalls,      \* bound on installation identifiers
  MaxEdits,         \* bound on edits of config.toml by others
  MaxDrifts         \* bound on other changes by others

ASSUME FileAssumption == None \notin Fixtures /\ Drifted \notin Fixtures /\ None # Drifted
ASSUME BoundAssumption == MaxInstalls \in Nat /\ MaxEdits \in Nat /\ MaxDrifts \in Nat

VARIABLES
  config,           \* config.toml
  receipt,          \* the demo receipt
  history,          \* installations whose removed receipt is archived
  files,            \* the staging directory
  world,            \* fixture source, runtimes and normal integration
  op,               \* the operation under the operation lock
  pc,               \* where in it
  plan,             \* what it read when it began
  seen,             \* config.toml as last read again
  intruded,         \* history: a file changed since the check that the next step relies on
  installs,         \* installation identifiers given out
  wanted,           \* history: what the operator wants beside the entry
  raced,            \* history: an edit fell between comparison and replacement
  calm,             \* history: nobody disturbed this installation since it began
  edits, drifts     \* counters behind MaxEdits and MaxDrifts

local == <<op, pc, plan, seen, intruded>>
ghost == <<wanted, raced, calm, edits, drifts>>
vars  == <<config, receipt, history, files, world, local, installs, ghost>>

(* The table mcp_servers without the managed entry: "empty" when it is     *)
(* there with no other server in it.                                       *)
Tables == {"none", "empty", "used"}
Configs == {c \in [managed : {"absent", "exact", "drifted"}, table : Tables, rest : Rests] :
              c.managed # "absent" => c.table # "none"}
Contents == Fixtures \cup {None, Drifted}
States == {"prepared", "failed", "installed", "removing", "removed"}
Steps == {"idle", "archive", "prepare", "stage", "write", "compare", "replace", "verify",
          "failure", "final", "install", "plan", "unset", "removed_entry", "check",
          "quarantine", "unlink", "delete", "restore", "finish", "closing", "close"}

(* Steps that rely on a check of the files made before. *)
Windows == {"write", "delete", "restore", "closing", "close"}

Receipts == [id : 1..MaxInstalls, state : States, before : Configs, fixture : Fixtures,
             runtime : Runtimes, normal : Normals]
Worlds == [fixture : Fixtures, runtime : Runtimes, normal : Normals, ready : BOOLEAN]
Plans == [config : Configs, write : BOOLEAN, again : BOOLEAN, world : Worlds]

ASSUME ReceiptAssumption == None \notin Receipts /\ None \notin Plans /\ None \notin Configs

TypeOK ==
  /\ config \in Configs
  /\ receipt \in Receipts \cup {None}
  /\ history \in SUBSET (1..MaxInstalls)
  /\ files \in [artifact : Contents, quarantine : Contents, extra : BOOLEAN]
  /\ world \in Worlds
  /\ op \in {"none", "setup", "teardown"}
  /\ pc \in Steps
  /\ plan \in Plans \cup {None}
  /\ seen \in Configs \cup {None}
  /\ installs \in 0..MaxInstalls
  /\ wanted \in [table : Tables \cup {"any"}, rest : Rests]
  /\ intruded \in BOOLEAN /\ raced \in BOOLEAN /\ calm \in BOOLEAN
  /\ edits \in Nat /\ drifts \in Nat

Init ==
  /\ config \in {c \in Configs : c.managed = "absent"}
  /\ receipt = None /\ history = {}
  /\ files = [artifact |-> None, quarantine |-> None, extra |-> FALSE]
  /\ world \in Worlds
  /\ op = "none" /\ pc = "idle" /\ plan = None /\ seen = None /\ intruded = FALSE
  /\ installs = 0
  /\ wanted = [table |-> config.table, rest |-> config.rest]
  /\ raced = FALSE /\ calm = TRUE /\ edits = 0 /\ drifts = 0

---------------------------------------------------------------------------
(* config.toml.                                                            *)

(* _unrelated_config_values: a table that holds nothing else counts as     *)
(* part of the entry unless it was there before it.                        *)
Unrelated(c, parent) ==
  [table |-> IF c.table = "empty" /\ ~parent THEN "none" ELSE c.table, rest |-> c.rest]

(* _set_managed *)
WithEntry(c) ==
  [c EXCEPT !.managed = "exact", !.table = IF @ = "none" THEN "empty" ELSE @]

(* Mutant: the table stays behind. *)
WithoutEntryOnly(c, parent) == [c EXCEPT !.managed = "absent"]

(* _remove_managed *)
WithoutEntry(c, parent) ==
  [c EXCEPT !.managed = "absent", !.table = IF @ = "empty" /\ ~parent THEN "none" ELSE @]

HadTable(c) == c.table # "none"

---------------------------------------------------------------------------
(* Steps of an operation.                                                  *)

GoTo(step) ==
  /\ pc' = step
  /\ intruded' = (intruded /\ step = "close")
  /\ UNCHANGED <<op, plan>>

Leave ==
  /\ op' = "none" /\ pc' = "idle" /\ plan' = None /\ seen' = None
  /\ intruded' = FALSE

(* The operation raises, refuses at a check or is killed. *)
GiveUp ==
  /\ op # "none"
  /\ Leave
  /\ UNCHANGED <<config, receipt, history, files, world, installs, ghost>>

(* _require_normal_binding: the doctor is asked again before every change. *)
Bound == world.ready /\ world.normal = plan.world.normal

(* Mutant: a file under its quarantine name is never accepted. *)
ArtifactsValidInPlace ==
  /\ files.artifact # None => files.artifact = receipt.fixture
  /\ files.quarantine = None

(* _artifact_removal_state *)
ArtifactsValid ==
  /\ files.artifact # None => files.artifact = receipt.fixture /\ files.quarantine = None
  /\ files.quarantine # None => receipt.state = "removing" /\ files.quarantine = receipt.fixture

RuntimesIntact == world.runtime = receipt.runtime

Transition(state) == receipt' = [receipt EXCEPT !.state = state]

StagingEmpty == files.artifact = None /\ files.quarantine = None /\ ~files.extra

---------------------------------------------------------------------------
(* setup_desktop_demo, from nothing or from a removed receipt.             *)

SetupAccepts ==
  /\ config.managed = "absent"
  /\ world.ready
  /\ receipt # None => receipt.state = "removed" /\ StagingEmpty

SetupBegin ==
  /\ op = "none" /\ installs < MaxInstalls
  /\ SetupAccepts
  /\ op' = "setup" /\ seen' = None
  /\ plan' = [config |-> config, write |-> TRUE, again |-> FALSE, world |-> world]
  /\ pc' = IF receipt = None THEN "prepare" ELSE "archive"
  /\ calm' = (files.artifact = None)
  /\ UNCHANGED <<config, receipt, history, files, world, installs, intruded, wanted, raced,
                 edits, drifts>>

(* Mutant: a new installation writes over the removed receipt. *)
ArchiveNothing ==
  /\ pc = "archive" /\ Bound
  /\ GoTo("prepare")
  /\ UNCHANGED <<config, receipt, history, files, world, seen, installs, ghost>>

(* _archive_removed_receipt: a copy that is already there is accepted. *)
Archive ==
  /\ pc = "archive" /\ Bound
  /\ history' = history \cup {receipt.id}
  /\ GoTo("prepare")
  /\ UNCHANGED <<config, receipt, files, world, seen, installs, ghost>>

(* Mutant: the receipt of a reinstall keeps the removed installation's identifier. *)
PrepareSameId ==
  /\ pc = "prepare" /\ Bound
  /\ config = plan.config
  /\ installs' = installs + 1
  /\ receipt' = [id |-> IF receipt = None THEN 1 ELSE receipt.id, state |-> "prepared",
                 before |-> config,
                 fixture |-> plan.world.fixture, runtime |-> plan.world.runtime,
                 normal |-> plan.world.normal]
  /\ GoTo("stage")
  /\ UNCHANGED <<config, history, files, world, seen, ghost>>

(* The write-ahead receipt, under an identifier of its own. *)
Prepare ==
  /\ pc = "prepare" /\ Bound
  /\ config = plan.config
  /\ installs' = installs + 1
  /\ receipt' = [id |-> installs + 1, state |-> "prepared", before |-> config,
                 fixture |-> plan.world.fixture, runtime |-> plan.world.runtime,
                 normal |-> plan.world.normal]
  /\ GoTo("stage")
  /\ UNCHANGED <<config, history, files, world, seen, ghost>>

---------------------------------------------------------------------------
(* Both kinds of setup from here on; _setup_recovery enters from a receipt *)
(* in "prepared", after it has classified config and artifact.             *)

ArtifactIntact == ArtifactsValid /\ files.artifact # None

Projected(c) == Unrelated(c, HadTable(receipt.before)) = Unrelated(receipt.before, HadTable(receipt.before))

RecoverAccepts ==
  /\ receipt # None /\ receipt.state = "prepared"
  /\ world.ready /\ world.normal = receipt.normal
  /\ RuntimesIntact /\ ArtifactsValid
  /\ \/ config.managed = "absent" /\ config = receipt.before
     \/ config.managed = "exact" /\ (Projected(config) \/ ArtifactIntact)

RecoverBegin ==
  /\ op = "none"
  /\ RecoverAccepts
  /\ op' = "setup"
  /\ plan' = [config |-> config, write |-> config.managed = "absent", again |-> TRUE,
              world |-> [fixture |-> receipt.fixture, runtime |-> receipt.runtime,
                         normal |-> receipt.normal, ready |-> TRUE]]
  /\ IF config.managed = "exact" /\ ~Projected(config)
     THEN pc' = "failure" /\ seen' = config
     ELSE /\ pc' = IF files.artifact = None THEN "stage" ELSE "compare"
          /\ seen' = None
  /\ UNCHANGED <<config, receipt, history, files, world, installs, intruded, ghost>>

(* _stage_fixture: a file that is there must be the one expected and is    *)
(* left alone; if there is none, it is written, ...                        *)
Stage ==
  /\ pc = "stage" /\ Bound
  /\ world.fixture = plan.world.fixture
  /\ \/ files.artifact = plan.world.fixture /\ GoTo("compare")
     \/ files.artifact = None /\ GoTo("write")
  /\ UNCHANGED <<config, receipt, history, files, world, seen, installs, ghost>>

(* ... over whatever is there by the time of os.replace. *)
Write ==
  /\ pc = "write"
  /\ files' = [files EXCEPT !.artifact = plan.world.fixture]
  /\ GoTo("compare")
  /\ UNCHANGED <<config, receipt, history, world, seen, installs, ghost>>

(* The process is killed inside _atomic_write and its temporary file stays. *)
StageKilled ==
  /\ pc = "write"
  /\ files' = [files EXCEPT !.extra = TRUE]
  /\ Leave
  /\ UNCHANGED <<config, receipt, history, world, installs, ghost>>

(* _assert_expected_write_target, the last look before os.replace. *)
Compare ==
  /\ pc = "compare" /\ plan.write /\ Bound
  /\ plan.again => ArtifactIntact
  /\ config = plan.config
  /\ GoTo("replace")
  /\ UNCHANGED <<config, receipt, history, files, world, seen, installs, ghost>>

(* os.replace: an edit since the comparison is lost. *)
Replace ==
  /\ pc = "replace"
  /\ config' = WithEntry(plan.config)
  /\ raced' = (raced \/ config # plan.config)
  /\ GoTo("verify")
  /\ UNCHANGED <<receipt, history, files, world, seen, installs, wanted, calm, edits, drifts>>

(* The config is read again; an unrelated difference is a failure. *)
Verify ==
  /\ pc = "verify"
  /\ config.managed = "exact"
  /\ seen' = config
  /\ GoTo(IF Projected(config) THEN "final" ELSE "failure")
  /\ UNCHANGED <<config, receipt, history, files, world, installs, ghost>>

(* A recovery that finds the entry in place only reads. *)
Recheck ==
  /\ pc = "compare" /\ ~plan.write
  /\ ArtifactIntact
  /\ config.managed = "exact" /\ Projected(config)
  /\ GoTo("final")
  /\ UNCHANGED <<config, receipt, history, files, world, seen, installs, ghost>>

(* _persist_projection_failure *)
Failure ==
  /\ pc = "failure"
  /\ config = seen
  /\ Transition("failed")
  /\ Leave
  /\ UNCHANGED <<config, history, files, world, installs, ghost>>

Final ==
  /\ pc = "final" /\ Bound
  /\ ArtifactIntact
  /\ config.managed = "exact" /\ Projected(config)
  /\ GoTo("install")
  /\ UNCHANGED <<config, receipt, history, files, world, seen, installs, ghost>>

Install ==
  /\ pc = "install" /\ Bound
  /\ Transition("installed")
  /\ Leave
  /\ UNCHANGED <<config, history, files, world, installs, ghost>>

---------------------------------------------------------------------------
(* teardown_desktop_demo.                                                  *)

TeardownAccepts ==
  /\ receipt # None /\ receipt.state \in {"failed", "installed", "removing"}
  /\ \/ config.managed = "exact"
     \/ config.managed = "absent" /\ receipt.state = "removing"
  /\ ArtifactsValid
  /\ files.artifact # None \/ receipt.state = "removing"
  /\ RuntimesIntact

TeardownBegin ==
  /\ op = "none"
  /\ TeardownAccepts
  /\ op' = "teardown"
  /\ plan' = [config |-> config, write |-> config.managed = "exact", again |-> FALSE,
              world |-> world]
  /\ seen' = None
  /\ pc' = IF receipt.state # "removing" THEN "plan"
           ELSE IF config.managed = "exact" THEN "unset" ELSE "check"
  /\ UNCHANGED <<config, receipt, history, files, world, installs, intruded, ghost>>

(* Mutant: the removal goes ahead without the receipt's plan. *)
PlanNothing ==
  /\ pc = "plan"
  /\ config = plan.config
  /\ GoTo("unset")
  /\ UNCHANGED <<config, receipt, history, files, world, seen, installs, ghost>>

(* The receipt plans the removal, by quarantine names, before it happens. *)
PlanRemoval ==
  /\ pc = "plan"
  /\ config = plan.config
  /\ Transition("removing")
  /\ GoTo("unset")
  /\ UNCHANGED <<config, history, files, world, seen, installs, ghost>>

CompareUnset ==
  /\ pc = "unset"
  /\ config = plan.config
  /\ GoTo("removed_entry")
  /\ UNCHANGED <<config, receipt, history, files, world, seen, installs, ghost>>

ReplaceUnset ==
  /\ pc = "removed_entry"
  /\ config' = WithoutEntry(plan.config, HadTable(receipt.before))
  /\ raced' = (raced \/ config # plan.config)
  /\ GoTo("check")
  /\ UNCHANGED <<receipt, history, files, world, seen, installs, wanted, calm, edits, drifts>>

SameUnrelated(c, d) ==
  Unrelated(c, HadTable(receipt.before)) = Unrelated(d, HadTable(receipt.before))

CheckUnset ==
  /\ pc = "check"
  /\ config.managed = "absent" /\ SameUnrelated(plan.config, config)
  /\ seen' = config
  /\ GoTo(IF files.artifact = None /\ files.quarantine = None THEN "finish"
          ELSE IF files.artifact = None THEN "unlink" ELSE "quarantine")
  /\ UNCHANGED <<config, receipt, history, files, world, installs, ghost>>

(* _anchored_remove_artifact: the rename to the planned name, ... *)
Quarantine ==
  /\ pc = "quarantine"
  /\ files.artifact = receipt.fixture /\ files.quarantine = None
  /\ files' = [files EXCEPT !.quarantine = files.artifact, !.artifact = None]
  /\ GoTo("unlink")
  /\ UNCHANGED <<config, receipt, history, world, seen, installs, ghost>>

(* ... the last look at the file that was moved, ... *)
Unlink ==
  /\ pc = "unlink"
  /\ files.quarantine = receipt.fixture
  /\ GoTo("delete")
  /\ UNCHANGED <<config, receipt, history, files, world, seen, installs, ghost>>

(* ... and the deletion, of whatever has its name by then. *)
Delete ==
  /\ pc = "delete"
  /\ files.quarantine # None
  /\ files' = [files EXCEPT !.quarantine = None]
  /\ GoTo("finish")
  /\ UNCHANGED <<config, receipt, history, world, seen, installs, ghost>>

(* _restore_quarantined_entry: the file that was moved is another one, or  *)
(* the system fails; it goes back if its first name is free, ...           *)
CheckOriginal ==
  /\ pc \in {"unlink", "delete"}
  /\ files.artifact = None
  /\ GoTo("restore")
  /\ UNCHANGED <<config, receipt, history, files, world, seen, installs, ghost>>

(* ... over whatever has that name by then. *)
Restore ==
  /\ pc = "restore"
  /\ files.quarantine # None
  /\ files' = [files EXCEPT !.artifact = files.quarantine, !.quarantine = None]
  /\ Leave
  /\ UNCHANGED <<config, receipt, history, world, installs, ghost>>

(* Mutant: the end of the removal goes on over a directory that is not empty. *)
FinishAnyway ==
  /\ pc = "finish"
  /\ GoTo("closing")
  /\ UNCHANGED <<config, receipt, history, files, world, seen, installs, ghost>>

(* rmdir of the staging directory, which must be empty; ... *)
Finish ==
  /\ pc = "finish"
  /\ StagingEmpty
  /\ GoTo("closing")
  /\ UNCHANGED <<config, receipt, history, files, world, seen, installs, ghost>>

(* ... artifacts and config.toml are looked at again; ... *)
CheckRemoved ==
  /\ pc = "closing"
  /\ ArtifactsValid /\ files.artifact = None
  /\ config.managed = "absent" /\ SameUnrelated(seen, config)
  /\ GoTo("close")
  /\ UNCHANGED <<config, receipt, history, files, world, seen, installs, ghost>>

(* ... then the receipt is closed. *)
Close ==
  /\ pc = "close"
  /\ Transition("removed")
  /\ Leave
  /\ UNCHANGED <<config, history, files, world, installs, ghost>>

---------------------------------------------------------------------------
(* Others: an editor of config.toml, somebody in the staging directory,    *)
(* upgrades of the repository, of the executables and of the integration.  *)

(* The table beside an entry that is there is "empty" at least; what an    *)
(* operator who empties it would have without the entry is not known.      *)
WantedTable(c) ==
  IF c.managed = "absent" THEN c.table
  ELSE IF c.table = config.table THEN wanted.table
  ELSE IF c.table = "empty" THEN "any" ELSE c.table

Edit ==
  /\ edits < MaxEdits
  /\ \E c \in Configs \ {config} :
       /\ c.managed = "exact" => config.managed = "exact"
       /\ c.managed = "drifted" => config.managed # "absent"
       /\ config' = c
       /\ wanted' = [table |-> WantedTable(c), rest |-> c.rest]
  /\ edits' = edits + 1 /\ calm' = FALSE
  /\ UNCHANGED <<receipt, history, files, world, local, installs, raced, drifts>>

Disturb ==
  /\ drifts < MaxDrifts
  /\ drifts' = drifts + 1 /\ calm' = FALSE
  /\ UNCHANGED <<config, receipt, history, op, pc, plan, seen, installs, wanted, raced, edits>>

Drift ==
  /\ Disturb
  /\ \E w \in Worlds \ {world} : world' = w
  /\ UNCHANGED <<files, intruded>>

Tamper ==
  /\ Disturb
  /\ \/ \E f \in {None, Drifted} :
          files.artifact # f /\ files' = [files EXCEPT !.artifact = f]
     \/ \E f \in {None, Drifted} :
          files.quarantine \notin {None, f} /\ files' = [files EXCEPT !.quarantine = f]
     \/ files' = [files EXCEPT !.extra = ~@]
  /\ intruded' = (intruded \/ pc \in Windows)
  /\ UNCHANGED world

SetupStep ==
  \/ SetupBegin \/ Archive \/ Prepare \/ RecoverBegin \/ Stage \/ Write \/ StageKilled
  \/ Compare \/ Replace \/ Verify \/ Recheck \/ Failure \/ Final \/ Install

TeardownStep ==
  \/ TeardownBegin \/ PlanRemoval \/ CompareUnset \/ ReplaceUnset \/ CheckUnset
  \/ Quarantine \/ Unlink \/ Delete \/ CheckOriginal \/ Restore
  \/ Finish \/ CheckRemoved \/ Close

Others == Edit \/ Drift \/ Tamper

Next == SetupStep \/ TeardownStep \/ GiveUp \/ Others

Spec == Init /\ [][Next]_vars

---------------------------------------------------------------------------
(* Properties.                                                             *)

(* Nothing of the demo is anywhere without a receipt that leads to it:     *)
(* whatever is interrupted, an entry in config.toml and a file in staging  *)
(* belong to an installation that is not closed, and a file under its      *)
(* quarantine name to one whose removal is on record.                      *)
WriteAhead ==
  /\ config.managed # "absent" \/ files.artifact \in Fixtures =>
       receipt # None /\ receipt.state # "removed"
  /\ files.quarantine # None => receipt # None /\ receipt.state = "removing"

(* Where an operation is, the receipt is in the state it presumes, and     *)
(* nothing of the program's is left when it comes to close it.             *)
StepInv ==
  /\ op = "none" <=> pc = "idle"
  /\ pc # "idle" => plan # None
  /\ IF receipt = None THEN installs = 0 ELSE receipt.id = installs
  /\ pc \in {"archive", "prepare"} => installs < MaxInstalls
  /\ pc = "archive" => receipt # None /\ receipt.state = "removed"
  /\ pc = "prepare" => receipt = None \/ (receipt.state = "removed" /\ receipt.id \in history)
  /\ pc \in {"stage", "write", "compare", "replace", "verify", "failure", "final", "install"} =>
       receipt # None /\ receipt.state = "prepared" /\ receipt.fixture = plan.world.fixture
  /\ pc = "plan" => receipt # None /\ receipt.state \in {"failed", "installed"}
  /\ pc \in {"unset", "removed_entry", "check", "quarantine", "unlink", "delete", "restore",
             "finish", "closing", "close"} => receipt # None /\ receipt.state = "removing"
  /\ pc \in {"failure", "quarantine", "unlink", "delete", "finish", "closing"} => seen # None
  /\ pc \in {"closing", "close"} => files.quarantine = None /\ files.artifact \notin Fixtures
  /\ pc = "close" => config.managed = "absent"

(* Every installation but the current one is in the archive: no removed    *)
(* receipt is lost to the next setup.                                      *)
HistoryKept ==
  \A i \in 1..installs : i \in history \/ (receipt # None /\ receipt.id = i)

(* Through any sequence of setups, recoveries, removals and interruptions  *)
(* the operator's own configuration is what the operator made it, down to  *)
(* an empty table, unless an edit fell between a comparison and the        *)
(* replacement that follows it.                                            *)
OperatorConfigKept ==
  raced \/ /\ config.rest = wanted.rest
           /\ (wanted.table # "any" /\ config.managed = "absent") => config.table = wanted.table

(* An operation that was interrupted anywhere is accepted again, as long   *)
(* as nobody has disturbed the installation since its setup began.         *)
Resumable ==
  op = "none" /\ calm /\ receipt # None =>
    /\ receipt.state = "prepared" => RecoverAccepts
    /\ receipt.state \in {"failed", "installed", "removing"} => TeardownAccepts
    /\ receipt.state = "removed" /\ world.ready => SetupAccepts

(* A file this program did not write is never overwritten or deleted but   *)
(* moved under its other name at most, and a receipt is not closed while   *)
(* one is in the staging directory, unless the file came between a check   *)
(* of the directory and the step that relies on it.                        *)
ForeignKept ==
  [][~intruded /\ ~Tamper =>
       /\ files.artifact = Drifted /\ files'.artifact # Drifted =>
            files'.quarantine = Drifted /\ files.quarantine # Drifted
       /\ files.quarantine = Drifted /\ files'.quarantine # Drifted =>
            files'.artifact = Drifted /\ files.artifact # Drifted
       /\ files.extra => files'.extra
       /\ receipt' # receipt /\ receipt'.state = "removed" => StagingEmpty ]_vars

---------------------------------------------------------------------------
(* The inductive invariant of DesktopDemoProofs.                           *)

(* The receipts and the files of the installations, archived ones too. *)
RecordInv == TypeOK /\ StepInv /\ WriteAhead /\ HistoryKept

(* A receipt binds a config.toml without the entry; the operation that     *)
(* adds the entry starts from that one, and one that removes it from a     *)
(* config.toml that has it.                                                *)
PlanInv ==
  /\ receipt # None => receipt.before.managed = "absent"
  /\ pc \in {"stage", "write", "compare", "replace"} /\ plan.write => plan.config = receipt.before
  /\ pc = "replace" => plan.write
  /\ pc \in {"plan", "unset", "removed_entry"} => plan.config.managed = "exact"

(* While the entry is there, the receipt says what its table would be      *)
(* without it.                                                             *)
TableInv ==
  raced \/ /\ config.rest = wanted.rest
           /\ wanted.table \in
                {"any", IF config.managed = "absent" \/ config.table = "used" THEN config.table
                        ELSE IF HadTable(receipt.before) THEN "empty" ELSE "none"}

(* Until somebody intrudes, the files are as the check left them. *)
WindowInv ==
  IF intruded
  THEN pc \in Windows /\ ~calm
  ELSE /\ pc = "write" => files.artifact = None
       /\ pc = "delete" => files.quarantine = receipt.fixture
       /\ pc = "restore" => files.artifact = None
       /\ pc \in {"closing", "close"} => StagingEmpty

(* What nobody has disturbed is in one of the states that the program      *)
(* itself goes through.                                                    *)
CalmInv ==
  calm =>
    /\ pc \in {"archive", "prepare"} => plan.world = world /\ world.ready /\ files.artifact = None
    /\ pc \in {"compare", "replace", "verify", "final", "install"} => files.artifact # None
    /\ pc \in {"verify", "final", "install"} => config.managed = "exact"
    /\ pc # "failure"
    /\ receipt # None =>
         IF receipt.state = "removed" THEN StagingEmpty
         ELSE /\ world.ready /\ world.normal = receipt.normal /\ RuntimesIntact /\ ArtifactsValid
              /\ receipt.state # "failed"
              /\ receipt.state = "prepared" => config \in {receipt.before, WithEntry(receipt.before)}
              /\ receipt.state = "installed" => config.managed = "exact" /\ files.artifact # None
              /\ receipt.state = "removing" => config.managed # "drifted"

(* The receipt is in the state that the step of the operation presumes,    *)
(* config.toml is what the receipt and the operator make of it, the files  *)
(* are what the step relies on unless somebody intruded, and an undisturbed*)
(* installation is where the program left it.                              *)
IInv == RecordInv /\ PlanInv /\ TableInv /\ WindowInv /\ CalmInv
================================================================================
