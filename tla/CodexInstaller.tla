----------------------------- MODULE CodexInstaller ----------------------------
(***************************************************************************)
(* The Codex integration installer (codex/installer.py): install_codex and *)
(* uninstall_codex change a receipt, four marketplace trees, Codex's own   *)
(* config.toml and, through external commands, Codex's plugin registry.    *)
(* None of it is one transaction: the receipt is the journal from which a  *)
(* later run resumes what an interrupted one left.                         *)
(*                                                                         *)
(* Abstractions.  A tree is the version of the plugin it holds, Torn when  *)
(* only a part of it is there.  A version stands for the digests of the    *)
(* artifacts; that the interpreter behind one was upgraded in place is a   *)
(* choice of InstallBegin.  config.toml is the state of the controls the   *)
(* program manages and the rest of the file; its digest is that pair.  One *)
(* operation runs at a time: both take the private operation lock and read *)
(* everything again under it.  The preview digest, the config backups,     *)
(* receipts of schema 1.0.0, unsafe owners, modes and links are left out;  *)
(* so is a config.toml that does not exist yet.                            *)
(***************************************************************************)
EXTENDS Naturals, FiniteSets

CONSTANTS
  Versions,         \* versions of the plugin the operator may install
  None,             \* no tree, no plugin, no receipt, no plan
  Torn,             \* a tree of which a deletion or a write left a part
  MaxEdits,         \* bound on edits of config.toml by others
  MaxTears          \* bound on operations that stop inside a deletion or a write

ASSUME NoneAssumption == None \notin Versions /\ Torn \notin Versions /\ None # Torn
ASSUME BoundsAssumption == MaxEdits \in Nat /\ MaxTears \in Nat

VARIABLES
  config,           \* config.toml
  receipt,          \* codex-integration-receipt.json
  trees,            \* the active, staging, retired and removal trees
  registered,       \* external: Codex knows the local marketplace
  plugin,           \* external: the version Codex has cached of the plugin
  op,               \* the operation under the operation lock
  pc,               \* where in it
  plan,             \* the version it installs
  seen,             \* config.toml when it began
  command,          \* the external command that has run and is not journaled
  edited,           \* history: config.toml was edited since a receipt bound its head
  raced,            \* history: it was edited between its comparison and its replacement
  unjournaled,      \* history: a command took effect and was never journaled
  cleared,          \* history: a reinstall of the same version reset the journal
  edits, tears      \* counters behind MaxEdits and MaxTears

codex == <<registered, plugin>>
local == <<op, pc, plan, seen, command>>
ghost == <<edited, raced, unjournaled, cleared, edits, tears>>
vars  == <<config, receipt, trees, codex, local, ghost>>

(* "user" is what the operator had, "required" what the program sets,      *)
(* "mixed" neither.                                                        *)
Controls == {"user", "required", "mixed"}
Configs == [controls : Controls, rest : Nat]
Roots == {"active", "staging", "retired", "removal"}
States == {"prepared", "installed", "uninstall_commands", "uninstall_config",
           "uninstall_tree", "uninstall_receipt"}
Strategies == {"install", "refresh_plugin", "complete"}
Commands == {"marketplace_add", "plugin_refresh_remove", "plugin_add",
             "plugin_remove", "marketplace_remove"}
Steps == {"idle", "prepare", "converge", "stage", "retire", "activate", "clean",
          "config", "replace", "installed", "commands", "journal", "start", "remove",
          "restore", "rewrite", "restored", "sweep", "tombstone", "delete", "deleted", "unlink"}

Receipts ==
  [state : States, before : Configs, after : Configs, controls : Controls,
   staged : Versions, previous : Versions \cup {None}, strategy : Strategies,
   done : SUBSET Commands, bound : BOOLEAN, restored : Configs]

ASSUME ReceiptAssumption == None \notin Receipts

TypeOK ==
  /\ config \in Configs
  /\ receipt \in Receipts \cup {None}
  /\ trees \in [Roots -> Versions \cup {None, Torn}]
  /\ registered \in BOOLEAN
  /\ plugin \in Versions \cup {None}
  /\ op \in {"none", "install", "uninstall"}
  /\ pc \in Steps
  /\ plan \in Versions \cup {None}
  /\ seen \in Configs
  /\ command \in Commands \cup {"none"}
  /\ edited \in BOOLEAN /\ raced \in BOOLEAN /\ unjournaled \in BOOLEAN /\ cleared \in BOOLEAN
  /\ edits \in Nat /\ tears \in Nat

Blank == [controls |-> "required", rest |-> 0]

Init ==
  /\ config \in {[controls |-> c, rest |-> 0] : c \in {"user", "required"}}
  /\ receipt = None
  /\ trees = [r \in Roots |-> None]
  /\ registered = FALSE /\ plugin = None
  /\ op = "none" /\ pc = "idle" /\ plan = None /\ seen = Blank /\ command = "none"
  /\ edited = FALSE /\ raced = FALSE /\ unjournaled = FALSE /\ cleared = FALSE
  /\ edits = 0 /\ tears = 0

Done(c) == c \in receipt.done

Required(cfg) == cfg.controls = "required"

Original(cfg) == cfg.controls = receipt.controls

(* What a receipt says of the plugin Codex has.                            *)
PluginPresent ==
  \/ Done("plugin_add")
  \/ receipt.strategy = "refresh_plugin" /\ ~Done("plugin_refresh_remove")

(* _read_receipt: what it accepts of what this program writes. *)
Readable ==
  /\ Done("marketplace_remove") => Done("plugin_remove")
  /\ receipt.state \in {"prepared", "installed"} =>
       ~Done("plugin_remove") /\ ~Done("marketplace_remove")
  /\ receipt.state \in {"uninstall_config", "uninstall_tree", "uninstall_receipt"} =>
       Done("plugin_remove") /\ Done("marketplace_remove")
  /\ Done("plugin_add") => Done("marketplace_add")
  /\ receipt.strategy = "install" => ~Done("plugin_refresh_remove")
  /\ receipt.strategy = "refresh_plugin" /\ Done("plugin_add") => Done("plugin_refresh_remove")
  /\ receipt.strategy = "complete" => Done("marketplace_add") /\ Done("plugin_add")
  /\ receipt.bound <=> receipt.state \in {"uninstall_config", "uninstall_tree",
                                          "uninstall_receipt"}
  /\ receipt.previous # None => receipt.state = "prepared"

---------------------------------------------------------------------------
(* Steps of an operation.                                                  *)

GoTo(step) ==
  /\ pc' = step
  /\ UNCHANGED <<op, plan, seen>>

Leave ==
  /\ op' = "none" /\ pc' = "idle" /\ plan' = None /\ seen' = Blank

(* The operation raises, is refused by a check or by Codex, or is killed.  *)
(* An effect of Codex that was not journaled is known to nobody.           *)
GiveUp ==
  /\ op # "none"
  /\ Leave
  /\ command' = "none"
  /\ unjournaled' = (unjournaled \/ command # "none")
  /\ raced' = FALSE
  /\ UNCHANGED <<config, receipt, trees, codex, edited, cleared, edits, tears>>

(* The tree that a step deletes or writes file by file. *)
Target ==
  CASE pc = "stage" -> "staging" [] pc = "clean" -> "retired" [] pc = "delete" -> "removal"
    [] OTHER -> "active"

(* Mutant: the active tree is deleted in place. *)
TearActive ==
  /\ pc \in {"stage", "clean", "delete", "tombstone"}
  /\ tears < MaxTears
  /\ tears' = tears + 1
  /\ (pc # "stage") => trees[Target] # None
  /\ trees' = [trees EXCEPT ![Target] = Torn]
  /\ Leave
  /\ UNCHANGED <<config, receipt, codex, command, edited, raced, unjournaled, cleared, edits>>

(* An operation stops inside such a step. *)
Tear ==
  /\ pc \in {"stage", "clean", "delete"}
  /\ tears < MaxTears
  /\ tears' = tears + 1
  /\ (pc # "stage") => trees[Target] # None
  /\ trees' = [trees EXCEPT ![Target] = Torn]
  /\ Leave
  /\ UNCHANGED <<config, receipt, codex, command, edited, raced, unjournaled, cleared, edits>>

Rewrite(new) ==
  /\ receipt' = new
  /\ UNCHANGED <<config, trees, codex, raced, unjournaled, edits, tears>>

---------------------------------------------------------------------------
(* install_codex.                                                          *)

InstallAccepts(v) ==
  IF receipt = None THEN trees["active"] = None
  ELSE /\ Readable
       /\ \/ /\ receipt.state = "installed"
             /\ Required(config) \/ Original(config)
             /\ trees["active"] = receipt.staged
          \/ /\ receipt.state = "prepared" /\ receipt.staged = v
             /\ \/ config = receipt.before /\ Original(config)
                \/ config = receipt.after

(* Only the commands are left of an installation of the same version.      *)
OnlyCommandsLeft(v) ==
  /\ receipt.staged = v /\ Required(config)
  /\ \A r \in Roots \ {"active"} : trees[r] = None

(* The interpreter of the hook may have been upgraded in place: the same   *)
(* version is then prepared anew.                                          *)
InstallBegin(v) ==
  /\ op = "none"
  /\ InstallAccepts(v)
  /\ op' = "install" /\ plan' = v /\ seen' = config
  /\ \/ receipt # None /\ receipt.state = "prepared" /\ pc' = "converge"
     \/ receipt # None /\ receipt.state = "installed" /\ OnlyCommandsLeft(v) /\ pc' = "commands"
     \/ (receipt # None => receipt.state = "installed") /\ pc' = "prepare"
  /\ UNCHANGED <<config, receipt, trees, codex, command, ghost>>

(* _planned_install_strategy and _prepared_command_progress. *)
PlannedStrategy ==
  IF receipt = None THEN "install"
  ELSE IF receipt.staged = plan THEN receipt.strategy
  ELSE IF PluginPresent THEN "refresh_plugin" ELSE "install"

(* Mutant: a registered marketplace is forgotten by a reinstall. *)
PreparedProgressNone == {}

PreparedProgress ==
  IF receipt # None /\ Done("marketplace_add") THEN {"marketplace_add"} ELSE {}

(* Mutant: the receipt does not bind the tree it replaces. *)
PrepareForgets ==
  /\ pc = "prepare" /\ op = "install"
  /\ Rewrite([state |-> "prepared", before |-> seen,
              after |-> [seen EXCEPT !.controls = "required"],
              controls |-> IF receipt = None THEN seen.controls ELSE receipt.controls,
              staged |-> plan,
              previous |-> None,
              strategy |-> PlannedStrategy, done |-> PreparedProgress,
              bound |-> FALSE, restored |-> Blank])
  /\ edited' = (config # seen)
  /\ cleared' = (cleared \/ (receipt # None /\ receipt.staged = plan))
  /\ GoTo("converge")
  /\ UNCHANGED command

(* The write-ahead receipt: it binds the trees and config heads, old and   *)
(* new, before any of them changes.  (A first installation sweeps the      *)
(* trees no receipt accounts for; TreesBound says there are none.)         *)
Prepare ==
  /\ pc = "prepare" /\ op = "install"
  /\ Rewrite([state |-> "prepared", before |-> seen,
              after |-> [seen EXCEPT !.controls = "required"],
              controls |-> IF receipt = None THEN seen.controls ELSE receipt.controls,
              staged |-> plan,
              previous |-> IF receipt = None THEN None ELSE receipt.staged,
              strategy |-> PlannedStrategy, done |-> PreparedProgress,
              bound |-> FALSE, restored |-> Blank])
  /\ edited' = (config # seen)
  /\ cleared' = (cleared \/ (receipt # None /\ receipt.staged = plan))
  /\ GoTo("converge")
  /\ UNCHANGED command

---------------------------------------------------------------------------
(* _converge_marketplace, from whatever an earlier attempt left.           *)

HasTree(r) == trees[r] # None

IsPrevious(r) == receipt.previous # None /\ trees[r] = receipt.previous

Convergent ==
  /\ ~HasTree("removal")
  /\ HasTree("retired") => IsPrevious("retired")
  /\ HasTree("active") => trees["active"] = receipt.staged \/ IsPrevious("active")
  /\ HasTree("active") \/ receipt.previous = None \/ IsPrevious("retired")

Converge ==
  /\ pc = "converge"
  /\ Convergent
  /\ GoTo(IF trees["active"] = receipt.staged THEN "clean" ELSE "stage")
  /\ UNCHANGED <<config, receipt, trees, codex, command, ghost>>

(* A staging tree that does not match is removed and written again. *)
Stage ==
  /\ pc = "stage"
  /\ trees' = [trees EXCEPT !["staging"] = plan]
  /\ GoTo(IF IsPrevious("active") THEN "retire" ELSE "activate")
  /\ UNCHANGED <<config, receipt, codex, command, ghost>>

(* A duplicate of the prior tree is deleted before the active one takes its place. *)
Retire ==
  /\ pc = "retire"
  /\ trees' = [trees EXCEPT !["retired"] = trees["active"], !["active"] = None]
  /\ GoTo("activate")
  /\ UNCHANGED <<config, receipt, codex, command, ghost>>

Activate ==
  /\ pc = "activate"
  /\ ~HasTree("active")
  /\ trees' = [trees EXCEPT !["active"] = trees["staging"], !["staging"] = None]
  /\ GoTo("clean")
  /\ UNCHANGED <<config, receipt, codex, command, ghost>>

(* Mutant: the replaced tree is left behind. *)
CleanStagingOnly ==
  /\ pc = "clean"
  /\ trees' = [trees EXCEPT !["staging"] = None]
  /\ GoTo("config")
  /\ UNCHANGED <<config, receipt, codex, command, ghost>>

Clean ==
  /\ pc = "clean"
  /\ trees' = [trees EXCEPT !["staging"] = None, !["retired"] = None]
  /\ GoTo("config")
  /\ UNCHANGED <<config, receipt, codex, command, ghost>>

---------------------------------------------------------------------------
(* Mutant: the controls are written over whatever the file is now. *)
CompareConfigSkipped ==
  /\ pc = "config"
  /\ \/ seen = receipt.after /\ GoTo("installed")
     \/ seen = receipt.before /\ GoTo("replace")
  /\ UNCHANGED <<config, receipt, trees, codex, command, ghost>>

(* _atomic_write compares the file with the one that was read.  A file     *)
(* that needs no change is compared alone, and by a resumed installation   *)
(* written all the same.                                                   *)
CompareConfig ==
  /\ pc = "config"
  /\ config = seen
  /\ \/ seen = receipt.after /\ GoTo("installed")
     \/ seen = receipt.before /\ GoTo("replace")
  /\ UNCHANGED <<config, receipt, trees, codex, command, ghost>>

(* It replaces whatever is there by then.                                  *)
Replace(new) ==
  /\ config' = new
  /\ raced' = FALSE
  /\ UNCHANGED <<receipt, trees, codex, command, edited, unjournaled, cleared, edits, tears>>

WriteConfig ==
  /\ pc = "replace"
  /\ Replace(receipt.after)
  /\ GoTo("installed")

(* Tree and config are verified, and the receipt becomes "installed". *)
WriteInstalled ==
  /\ pc = "installed"
  /\ trees["active"] = plan /\ config = receipt.after
  /\ Rewrite([receipt EXCEPT !.state = "installed", !.previous = None])
  /\ GoTo("commands")
  /\ UNCHANGED <<command, edited, cleared>>

---------------------------------------------------------------------------
(* External commands.  Codex refuses to add what is present and to remove  *)
(* what is absent; a refusal, a failure or a timeout ends the operation.   *)

Ran(c) ==
  /\ command' = c
  /\ GoTo("journal")
  /\ UNCHANGED <<config, receipt, trees, ghost>>

MarketplaceAdd ==
  /\ pc = "commands" /\ ~Done("marketplace_add")
  /\ ~registered /\ registered' = TRUE
  /\ Ran("marketplace_add")
  /\ UNCHANGED plugin

RefreshRemove ==
  /\ pc = "commands" /\ Done("marketplace_add")
  /\ receipt.strategy = "refresh_plugin" /\ ~Done("plugin_refresh_remove")
  /\ plugin # None /\ plugin' = None
  /\ Ran("plugin_refresh_remove")
  /\ UNCHANGED registered

(* Mutant: the plugin is added without the refresh's removal. *)
PluginAddStale ==
  /\ pc = "commands" /\ Done("marketplace_add") /\ ~Done("plugin_add")
  /\ registered /\ plugin' = IF plugin = None THEN trees["active"] ELSE plugin
  /\ Ran("plugin_add")
  /\ UNCHANGED registered

PluginAdd ==
  /\ pc = "commands" /\ Done("marketplace_add") /\ ~Done("plugin_add")
  /\ receipt.strategy = "refresh_plugin" => Done("plugin_refresh_remove")
  /\ registered /\ plugin = None /\ plugin' = trees["active"]
  /\ Ran("plugin_add")
  /\ UNCHANGED registered

(* Mutant: the command is forgotten before it is journaled. *)
JournalCleared ==
  /\ pc = "journal"
  /\ command' = "none"
  /\ Rewrite([receipt EXCEPT !.done = @ \cup {command'}])
  /\ GoTo(IF op = "install" THEN "commands" ELSE "remove")
  /\ UNCHANGED <<edited, cleared>>

(* _transition_receipt after a command that succeeded. *)
Journal ==
  /\ pc = "journal"
  /\ Rewrite([receipt EXCEPT !.done = @ \cup {command}])
  /\ command' = "none"
  /\ GoTo(IF op = "install" THEN "commands" ELSE "remove")
  /\ UNCHANGED <<edited, cleared>>

InstallEnd ==
  /\ pc = "commands" /\ op = "install"
  /\ Done("marketplace_add") /\ Done("plugin_add")
  /\ Rewrite([receipt EXCEPT !.strategy = "complete"])
  /\ Leave
  /\ UNCHANGED <<command, edited, cleared>>

---------------------------------------------------------------------------
(* uninstall_codex.                                                        *)

TreesRemovable ==
  CASE receipt.state = "uninstall_tree" ->
         /\ HasTree("active") => (trees["active"] = receipt.staged /\ ~HasTree("removal"))
         /\ HasTree("removal") => trees["removal"] = receipt.staged
    [] receipt.state = "uninstall_receipt" -> \A r \in Roots : ~HasTree(r)
    [] OTHER -> trees["active"] = receipt.staged /\ ~HasTree("removal")

UninstallBegin ==
  /\ op = "none"
  /\ receipt # None /\ Readable /\ receipt.state # "prepared"
  /\ TreesRemovable
  /\ receipt.state \in {"installed", "uninstall_commands"} => Required(config)
  /\ op' = "uninstall"
  /\ pc' = CASE receipt.state = "installed" -> "start"
             [] receipt.state = "uninstall_commands" -> "remove"
             [] receipt.state = "uninstall_config" -> "restore"
             [] receipt.state = "uninstall_tree" -> "sweep"
             [] OTHER -> "unlink"
  /\ UNCHANGED <<config, receipt, trees, codex, plan, seen, command, ghost>>

Start ==
  /\ pc = "start"
  /\ Rewrite([receipt EXCEPT !.state = "uninstall_commands"])
  /\ GoTo("remove")
  /\ UNCHANGED <<command, edited, cleared>>

(* _run_uninstall_commands.  What the journal says was never added is      *)
(* journaled as removed without a command.                                 *)
PluginRemove ==
  /\ pc = "remove" /\ ~Done("plugin_remove")
  /\ PluginPresent
  /\ plugin # None /\ plugin' = None
  /\ Ran("plugin_remove")
  /\ UNCHANGED registered

MarketplaceRemove ==
  /\ pc = "remove" /\ Done("plugin_remove") /\ ~Done("marketplace_remove")
  /\ Done("marketplace_add")
  /\ registered /\ registered' = FALSE
  /\ Ran("marketplace_remove")
  /\ UNCHANGED plugin

RemoveNothing ==
  /\ pc = "remove"
  /\ \E c \in {"plugin_remove", "marketplace_remove"} :
       /\ ~Done(c)
       /\ IF c = "plugin_remove" THEN ~PluginPresent
          ELSE Done("plugin_remove") /\ ~Done("marketplace_add")
       /\ Rewrite([receipt EXCEPT !.done = @ \cup {c}])
  /\ GoTo("remove")
  /\ UNCHANGED <<command, edited, cleared>>

(* Mutant: the config is bound, and restored, before the plugin is removed. *)
BindEarly ==
  /\ pc = "remove"
  /\ Required(config)
  /\ Rewrite([receipt EXCEPT !.state = "uninstall_config", !.bound = TRUE, !.before = config,
                             !.restored = [config EXCEPT !.controls = receipt.controls]])
  /\ edited' = FALSE
  /\ GoTo("restore")
  /\ UNCHANGED <<command, cleared>>

(* The config is read again; both its heads are bound before it changes. *)
Bind ==
  /\ pc = "remove" /\ Done("plugin_remove") /\ Done("marketplace_remove")
  /\ Required(config)
  /\ Rewrite([receipt EXCEPT !.state = "uninstall_config", !.bound = TRUE, !.before = config,
                             !.restored = [config EXCEPT !.controls = receipt.controls]])
  /\ edited' = FALSE
  /\ GoTo("restore")
  /\ UNCHANGED <<command, cleared>>

IsRestored == config = receipt.restored /\ Original(config)

(* A restored file is left alone; the bound head is compared again and     *)
(* replaced.                                                               *)
CompareBound ==
  /\ pc = "restore"
  /\ \/ config = receipt.before /\ Required(config) /\ GoTo("rewrite")
     \/ config # receipt.before /\ IsRestored /\ GoTo("restored")
  /\ UNCHANGED <<config, receipt, trees, codex, command, ghost>>

Restore ==
  /\ pc = "rewrite"
  /\ Replace(receipt.restored)
  /\ GoTo("restored")

Restored ==
  /\ pc = "restored"
  /\ Rewrite([receipt EXCEPT !.state = "uninstall_tree"])
  /\ GoTo("sweep")
  /\ UNCHANGED <<command, edited, cleared>>

Sweep ==
  /\ pc = "sweep"
  /\ IsRestored
  /\ trees' = [trees EXCEPT !["staging"] = None, !["retired"] = None]
  /\ GoTo("tombstone")
  /\ UNCHANGED <<config, receipt, codex, command, ghost>>

(* The active tree is renamed before it is deleted. *)
Tombstone ==
  /\ pc = "tombstone"
  /\ trees' = IF HasTree("active")
                THEN [trees EXCEPT !["removal"] = trees["active"], !["active"] = None]
                ELSE trees
  /\ GoTo("delete")
  /\ UNCHANGED <<config, receipt, codex, command, ghost>>

Delete ==
  /\ pc = "delete"
  /\ trees' = [trees EXCEPT !["removal"] = None]
  /\ GoTo("deleted")
  /\ UNCHANGED <<config, receipt, codex, command, ghost>>

Deleted ==
  /\ pc = "deleted"
  /\ Rewrite([receipt EXCEPT !.state = "uninstall_receipt"])
  /\ GoTo("unlink")
  /\ UNCHANGED <<command, edited, cleared>>

(* Mutant: the receipt goes whatever the file says. *)
UnlinkUnchecked ==
  /\ pc = "unlink"
  /\ Rewrite(None)
  /\ Leave
  /\ UNCHANGED <<command, edited, cleared>>

Unlink ==
  /\ pc = "unlink"
  /\ IsRestored
  /\ \A r \in Roots : ~HasTree(r)
  /\ Rewrite(None)
  /\ Leave
  /\ UNCHANGED <<command, edited, cleared>>

---------------------------------------------------------------------------
(* The operator, or Codex, edits config.toml at any time. *)
Edit ==
  /\ edits < MaxEdits
  /\ edits' = edits + 1
  /\ \E c \in Controls : config' = [controls |-> c, rest |-> config.rest + 1]
  /\ edited' = TRUE
  /\ raced' = (raced \/ pc \in {"replace", "rewrite"})
  /\ UNCHANGED <<receipt, trees, codex, local, unjournaled, cleared, tears>>

InstallStep ==
  \/ \E v \in Versions : InstallBegin(v)
  \/ Prepare \/ Converge \/ Stage \/ Retire \/ Activate \/ Clean \/ CompareConfig
  \/ WriteConfig \/ WriteInstalled \/ MarketplaceAdd \/ RefreshRemove \/ PluginAdd \/ InstallEnd

UninstallStep ==
  \/ UninstallBegin \/ Start \/ PluginRemove \/ MarketplaceRemove \/ RemoveNothing
  \/ Bind \/ CompareBound \/ Restore \/ Restored \/ Sweep \/ Tombstone \/ Delete \/ Deleted \/ Unlink

Next == InstallStep \/ UninstallStep \/ Journal \/ GiveUp \/ Tear \/ Edit

Spec == Init /\ [][Next]_vars

---------------------------------------------------------------------------
(* Properties.                                                             *)

(* "Recovery MUST classify, converge, or safely sweep every one of those   *)
(* paths": no executable tree is left that the receipt does not account    *)
(* for, whatever was interrupted, and the active tree is never a part of   *)
(* one.                                                                    *)
TreesBound ==
  /\ trees["active"] # Torn
  /\ \A r \in Roots : trees[r] \in Versions =>
       receipt # None /\ trees[r] \in {receipt.staged, receipt.previous}
  /\ \A r \in Roots : trees[r] = Torn => receipt # None

(* "Failures MUST all be retryable from exact state": what an operation    *)
(* leaves behind, a later run accepts, unless config.toml was edited in    *)
(* between, a retired tree or tombstone was left in part, or a reinstall   *)
(* reset the journal.                                                      *)
Resumable ==
  op = "none" /\ receipt # None /\ ~cleared /\ Torn \notin {trees["retired"], trees["removal"]}
    => /\ Readable
       /\ IF receipt.state = "prepared"
            THEN /\ Convergent
                 /\ ~edited => InstallAccepts(receipt.staged)
            ELSE /\ TreesRemovable
                 /\ ~edited /\ receipt.bound =>
                      config = receipt.before \/ config = receipt.restored

(* "A retry MUST skip each recorded success": between operations the       *)
(* journal says what Codex has registered, but for commands that took      *)
(* effect and could not be journaled, and where no reinstall of the same   *)
(* version reset the journal.                                              *)
JournalKept ==
  op = "none" /\ ~unjournaled /\ ~cleared =>
    /\ registered <=>
         (receipt # None /\ Done("marketplace_add") /\ ~Done("marketplace_remove"))
    /\ (plugin # None) <=> (receipt # None /\ PluginPresent /\ ~Done("plugin_remove"))

(* Codex has the plugin only while the controls that turn its own memory   *)
(* off are in place, unless somebody else changed them: they are written   *)
(* before the plugin is added and restored after it is removed.            *)
ControlsGuardPlugin ==
  plugin # None /\ ~edited /\ ~unjournaled /\ ~cleared =>
    /\ receipt # None
    /\ receipt.state # "prepared" => Required(config)

ReportsComplete ==
  /\ op = "none" /\ receipt # None
  /\ receipt.state = "installed" /\ receipt.strategy = "complete"

(* An installation that reports itself complete has Codex on the version   *)
(* that was reviewed and staged, upgrades included.                        *)
CompleteIsCurrent ==
  ReportsComplete /\ ~cleared /\ ~unjournaled =>
    plugin = receipt.staged /\ trees["active"] = receipt.staged /\ registered

(* The end of an uninstall leaves nothing of the program behind, and the   *)
(* operator's controls as they were before the first installation.         *)
UninstallLeavesNothing ==
  [][receipt # None /\ receipt' = None =>
       /\ \A r \in Roots : trees[r] = None
       /\ config.controls = receipt.controls
       /\ ~unjournaled /\ ~cleared => plugin = None /\ ~registered]_vars

(* "Never overwrite an unexpected config": no step of the program loses an *)
(* edit made to the rest of config.toml while it was running or stopped,   *)
(* but the one that falls between the comparison of the file and its       *)
(* replacement.                                                            *)
EditsKept == [][~raced => config'.rest >= config.rest]_vars

---------------------------------------------------------------------------
(* The inductive invariant behind the theorems of CodexInstallerProofs.tla. *)

(* Steps of an installation between its two receipts. *)
Converging ==
  {"converge", "stage", "retire", "activate", "clean", "config", "replace", "installed"}

(* What holds of journal and trees at each step of an operation.           *)
PlaceInv ==
  /\ pc = "prepare" => plan \in Versions /\ (receipt = None \/ receipt.state = "installed")
  /\ pc \notin {"idle", "prepare"} =>
       receipt # None /\ (receipt.state = "prepared" <=> pc \in Converging)
  /\ receipt # None /\ receipt.state # "prepared" => receipt.previous = None
  /\ pc \in Converging => plan = receipt.staged
  /\ pc \in Converging \ {"converge"} => ~HasTree("removal")
  /\ pc \in {"retire", "activate"} => trees["staging"] = receipt.staged
  /\ pc \in {"config", "replace", "installed"} => ~HasTree("staging") /\ ~HasTree("retired")
  /\ pc = "journal" => command \in Commands

(* The receipt's phase is that of the step, and a command waits for its    *)
(* journal entry in that step alone.                                       *)
PhaseInv ==
  /\ op = "none" <=> pc = "idle"
  /\ pc \in Converging \cup {"prepare", "commands"} => op = "install"
  /\ pc \in {"start", "remove"} => op = "uninstall"
  /\ pc \in {"commands", "start"} => receipt.state = "installed"
  /\ pc = "remove" => receipt.state = "uninstall_commands"
  /\ pc = "journal" =>
       receipt.state = IF op = "install" THEN "installed" ELSE "uninstall_commands"
  /\ pc \in {"restore", "rewrite", "restored"} => receipt.state = "uninstall_config"
  /\ pc \in {"sweep", "tombstone", "delete", "deleted"} => receipt.state = "uninstall_tree"
  /\ pc = "unlink" => receipt.state = "uninstall_receipt"
  /\ command = "none" <=> pc # "journal"

(* The trees of each phase, and of the steps that move them. *)
TreeInv ==
  /\ receipt # None =>
       CASE receipt.state \in {"installed", "uninstall_commands", "uninstall_config"} ->
              trees["active"] = receipt.staged /\ \A r \in Roots \ {"active"} : ~HasTree(r)
         [] receipt.state = "prepared" ->
              /\ ~HasTree("removal")
              /\ trees["retired"] \in {None, Torn, receipt.previous}
              /\ ~HasTree("active") /\ receipt.previous # None => IsPrevious("retired")
         [] receipt.state = "uninstall_tree" -> ~HasTree("active") \/ ~HasTree("removal")
         [] OTHER -> \A r \in Roots : ~HasTree(r)
  /\ pc = "retire" => IsPrevious("active")
  /\ pc \in {"clean", "config", "replace", "installed"} => trees["active"] = receipt.staged
  /\ pc \in {"tombstone", "delete", "deleted"} => ~HasTree("staging") /\ ~HasTree("retired")
  /\ pc \in {"delete", "deleted"} => ~HasTree("active")
  /\ pc = "deleted" => ~HasTree("removal")

(* The heads of config.toml that the receipt binds, and the file itself as *)
(* long as nobody else edits it.                                           *)
ConfigInv ==
  /\ receipt # None =>
       /\ receipt.bound <=> receipt.state \in {"uninstall_config", "uninstall_tree",
                                               "uninstall_receipt"}
       /\ receipt.state = "prepared" =>
            receipt.after.rest = receipt.before.rest /\ Required(receipt.after)
       /\ receipt.bound =>
            receipt.restored.rest = receipt.before.rest
       /\ ~edited =>
            /\ receipt.state = "prepared" =>
                 config = receipt.after \/ (config = receipt.before /\ Original(config))
            /\ receipt.state \in {"installed", "uninstall_commands"} => Required(config)
            /\ receipt.bound => config \in {receipt.before, receipt.restored}
  /\ pc = "prepare" /\ receipt # None => Required(seen) \/ Original(seen)
  /\ pc \in Converging => seen.rest = receipt.after.rest
  /\ IF pc \in {"replace", "rewrite"}
       THEN ~raced => config.rest = receipt.before.rest
       ELSE ~raced

(* What the journal says is consistent, and stays so when the command that *)
(* has run is added to it.                                                 *)
JournalInv ==
  ~cleared =>
    /\ receipt # None => Readable
    /\ command \in {"marketplace_add", "plugin_refresh_remove", "plugin_add"} => op = "install"
    /\ command \in {"plugin_remove", "marketplace_remove"} => op = "uninstall"
    /\ command = "plugin_refresh_remove" => receipt.strategy = "refresh_plugin"
    /\ command = "plugin_add" =>
         /\ Done("marketplace_add")
         /\ receipt.strategy = "refresh_plugin" => Done("plugin_refresh_remove")
    /\ command = "marketplace_remove" => Done("plugin_remove")

(* What Codex has is what the journal and the command that has run say. *)
Taken(c) == Done(c) \/ command = c

CodexInv ==
  ~cleared /\ ~unjournaled =>
    /\ registered <=>
         receipt # None /\ Taken("marketplace_add") /\ ~Taken("marketplace_remove")
    /\ plugin # None <=>
         /\ receipt # None /\ ~Taken("plugin_remove")
         /\ \/ Taken("plugin_add")
            \/ receipt.strategy = "refresh_plugin" /\ ~Taken("plugin_refresh_remove")
    /\ receipt # None /\ Taken("plugin_add") /\ ~Taken("plugin_remove") => plugin = receipt.staged

(* An operation past its first step has a receipt whose phase is that of   *)
(* the step; before the receipt is rewritten nothing but the trees it      *)
(* binds is there, and the tree that becomes active was staged whole; its  *)
(* heads are those of the file, and its journal is what Codex knows.       *)
IInv ==
  /\ TypeOK /\ PlaceInv /\ TreesBound
  /\ PhaseInv /\ TreeInv /\ ConfigInv /\ JournalInv /\ CodexInv
================================================================================
