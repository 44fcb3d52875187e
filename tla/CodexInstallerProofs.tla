-------------------------- MODULE CodexInstallerProofs -------------------------
(***************************************************************************)
(* Theorems about CodexInstaller.tla, for any number of versions, edits    *)
(* and stops, inside deletions or between steps.                           *)
(***************************************************************************)
EXTENDS CodexInstaller, TLAPS

(* The fields a transition of the receipt writes keep it a receipt.        *)
LEMMA ReceiptUpdates ==
  ASSUME NEW r \in Receipts, NEW s \in States, NEW c \in Commands, NEW cfg \in Configs
  PROVE  /\ [r EXCEPT !.state = s] \in Receipts
         /\ [r EXCEPT !.state = s, !.previous = None] \in Receipts
         /\ [r EXCEPT !.strategy = "complete"] \in Receipts
         /\ [r EXCEPT !.done = @ \cup {c}] \in Receipts
         /\ [r EXCEPT !.state = s, !.bound = TRUE, !.before = cfg,
                      !.restored = [cfg EXCEPT !.controls = r.controls]] \in Receipts
<1>1. [cfg EXCEPT !.controls = r.controls] \in Configs
  BY DEF Receipts, Configs
<1>2. r.done \cup {c} \in SUBSET Commands
  BY DEF Receipts
<1>3. [r EXCEPT !.done = @ \cup {c}] \in Receipts
  BY <1>2 DEF Receipts
<1>4. "complete" \in Strategies
  BY DEF Strategies
<1> QED  BY <1>1, <1>3, <1>4 DEF Receipts

(* The write-ahead receipt of an installation is a receipt.                *)
LEMMA PreparedReceipt ==
  ASSUME TypeOK, plan \in Versions
  PROVE  [state |-> "prepared", before |-> seen,
          after |-> [seen EXCEPT !.controls = "required"],
          controls |-> IF receipt = None THEN seen.controls ELSE receipt.controls,
          staged |-> plan,
          previous |-> IF receipt = None THEN None ELSE receipt.staged,
          strategy |-> PlannedStrategy, done |-> PreparedProgress,
          bound |-> FALSE, restored |-> Blank] \in Receipts
<1>1. seen \in Configs /\ seen.controls \in Controls
      /\ [seen EXCEPT !.controls = "required"] \in Configs /\ Blank \in Configs
  BY DEF TypeOK, Configs, Controls, Blank
<1>2. receipt # None => receipt \in Receipts
  BY DEF TypeOK
<1>3. receipt # None => receipt.controls \in Controls /\ receipt.staged \in Versions
                        /\ receipt.strategy \in Strategies
  BY <1>2 DEF Receipts
<1>4. PlannedStrategy \in Strategies
  BY <1>3 DEF PlannedStrategy, Strategies
<1>5. PreparedProgress \in SUBSET Commands
  BY DEF PreparedProgress, Commands
<1>6. "prepared" \in States
  BY DEF States
<1> QED  BY <1>1, <1>3, <1>4, <1>5, <1>6 DEF Receipts

(* TypeOK in three parts: what operations leave behind, where they are,    *)
(* and the history.                                                        *)
WorldType ==
  /\ config \in Configs
  /\ receipt \in Receipts \cup {None}
  /\ trees \in [Roots -> Versions \cup {None, Torn}]
  /\ registered \in BOOLEAN
  /\ plugin \in Versions \cup {None}

LocalType ==
  /\ op \in {"none", "install", "uninstall"}
  /\ pc \in Steps
  /\ plan \in Versions \cup {None}
  /\ seen \in Configs
  /\ command \in Commands \cup {"none"}

GhostType ==
  /\ edited \in BOOLEAN /\ raced \in BOOLEAN /\ unjournaled \in BOOLEAN /\ cleared \in BOOLEAN
  /\ edits \in Nat /\ tears \in Nat

PartsTyped == WorldType /\ LocalType /\ GhostType

Parts == PartsTyped /\ PlaceInv /\ TreesBound

(* The parts are the whole.                                                *)
LEMMA TypeParts == TypeOK <=> PartsTyped
  BY DEF TypeOK, PartsTyped, WorldType, LocalType, GhostType

(* The end of an operation, and a move inside one, keep the locals typed.  *)
LEMMA LocalMoves ==
  ASSUME LocalType, command' \in Commands \cup {"none"}
  PROVE  /\ Leave => LocalType'
         /\ \A s \in Steps : GoTo(s) => LocalType'
<1>1. Blank \in Configs /\ "idle" \in Steps
  BY DEF Blank, Configs, Controls, Steps
<1> QED  BY <1>1 DEF LocalType, Leave, GoTo

(* An installation's steps keep the types.                                 *)
LEMMA InstallType == Parts /\ InstallStep => PartsTyped'
<1> SUFFICES ASSUME Parts, InstallStep PROVE PartsTyped'
  OBVIOUS
<1> USE DEF Parts, PartsTyped
<1>1. CASE \E v \in Versions : InstallBegin(v)
  <2>1. LocalType'
    BY <1>1 DEF InstallBegin, LocalType, WorldType, Steps
  <2> QED  BY <1>1, <2>1 DEF InstallBegin, WorldType, GhostType, codex, ghost
<1>2. CASE Prepare
  <2>1. LocalType'
    BY <1>2, LocalMoves DEF Prepare, LocalType, Steps
  <2>2. receipt' \in Receipts
    BY <1>2, PreparedReceipt, TypeParts DEF Prepare, Rewrite, PlaceInv
  <2> QED  BY <1>2, <2>1, <2>2 DEF Prepare, Rewrite, WorldType, GhostType, codex
<1>3. CASE Converge \/ CompareConfig
  <2>1. LocalType'
    BY <1>3, LocalMoves DEF Converge, CompareConfig, LocalType, Steps
  <2> QED  BY <1>3, <2>1 DEF Converge, CompareConfig, WorldType, GhostType, codex, ghost
<1>4. CASE Stage
  <2>1. LocalType'
    BY <1>4, LocalMoves DEF Stage, LocalType, Steps
  <2>2. plan \in Versions \cup {None}
    BY DEF LocalType
  <2> QED  BY <1>4, <2>1, <2>2 DEF Stage, WorldType, GhostType, codex, ghost, Roots
<1>5. CASE Retire
  <2>1. LocalType'
    BY <1>5, LocalMoves DEF Retire, LocalType, Steps
  <2> QED  BY <1>5, <2>1 DEF Retire, WorldType, GhostType, codex, ghost, Roots
<1>6. CASE Activate
  <2>1. LocalType'
    BY <1>6, LocalMoves DEF Activate, LocalType, Steps
  <2> QED  BY <1>6, <2>1 DEF Activate, WorldType, GhostType, codex, ghost, Roots
<1>7. CASE Clean
  <2>1. LocalType'
    BY <1>7, LocalMoves DEF Clean, LocalType, Steps
  <2> QED  BY <1>7, <2>1 DEF Clean, WorldType, GhostType, codex, ghost, Roots
<1>8. CASE WriteConfig
  <2>1. LocalType'
    BY <1>8, LocalMoves DEF WriteConfig, Replace, LocalType, Steps
  <2>2. receipt.after \in Configs
    BY <1>8 DEF WriteConfig, PlaceInv, WorldType, Receipts
  <2> QED  BY <1>8, <2>1, <2>2 DEF WriteConfig, Replace, WorldType, GhostType, codex
<1>9. CASE WriteInstalled
  <2>1. LocalType'
    BY <1>9, LocalMoves DEF WriteInstalled, LocalType, Steps
  <2>2. receipt \in Receipts
    BY <1>9 DEF WriteInstalled, PlaceInv, WorldType
  <2>3. receipt' \in Receipts
    BY <1>9, <2>2 DEF WriteInstalled, Rewrite, Receipts, States
  <2> QED  BY <1>9, <2>1, <2>3 DEF WriteInstalled, Rewrite, WorldType, GhostType, codex
<1>10. CASE MarketplaceAdd \/ RefreshRemove \/ PluginAdd
  <2>1. LocalType'
    BY <1>10, LocalMoves
    DEF MarketplaceAdd, RefreshRemove, PluginAdd, Ran, LocalType, Steps, Commands
  <2>2. \A c \in {"marketplace_add", "plugin_refresh_remove", "plugin_add"} :
          Ran(c) => GhostType' /\ UNCHANGED <<config, receipt, trees>>
    BY DEF Ran, GhostType, ghost
  <2>3. PluginAdd => trees["active"] \in Versions \cup {None}
    BY DEF PluginAdd, PlaceInv, WorldType, TreesBound, Roots
  <2> QED  BY <1>10, <2>1, <2>2, <2>3 DEF MarketplaceAdd, RefreshRemove, PluginAdd, WorldType
<1>11. CASE InstallEnd
  <2>1. LocalType'
    BY <1>11, LocalMoves DEF InstallEnd, LocalType, Steps
  <2>2. receipt \in Receipts
    BY <1>11 DEF InstallEnd, PlaceInv, WorldType
  <2>3. receipt' \in Receipts
    BY <1>11, <2>2 DEF InstallEnd, Rewrite, Receipts, Strategies
  <2> QED  BY <1>11, <2>1, <2>3 DEF InstallEnd, Rewrite, WorldType, GhostType, codex
<1> QED  BY <1>1, <1>2, <1>3, <1>4, <1>5, <1>6, <1>7, <1>8, <1>9, <1>10, <1>11 DEF InstallStep

(* An uninstallation's steps keep the types.                               *)
LEMMA UninstallType == Parts /\ UninstallStep => PartsTyped'
<1> SUFFICES ASSUME Parts, UninstallStep PROVE PartsTyped'
  OBVIOUS
<1> USE DEF Parts, PartsTyped
<1>1. CASE UninstallBegin
  <2>1. LocalType'
    BY <1>1 DEF UninstallBegin, LocalType, Steps
  <2> QED  BY <1>1, <2>1 DEF UninstallBegin, WorldType, GhostType, codex, ghost
<1>2. CASE Start \/ Restored \/ Deleted
  <2>1. LocalType'
    BY <1>2, LocalMoves DEF Start, Restored, Deleted, LocalType, Steps
  <2>2. receipt \in Receipts
    BY <1>2 DEF Start, Restored, Deleted, PlaceInv, WorldType
  <2>3. \A s \in States : [receipt EXCEPT !.state = s] \in Receipts
    BY <2>2 DEF Receipts
  <2>4. receipt' \in Receipts
    BY <1>2, <2>3 DEF Start, Restored, Deleted, Rewrite, States
  <2> QED
    BY <1>2, <2>1, <2>4 DEF Start, Restored, Deleted, Rewrite, WorldType, GhostType, codex
<1>3. CASE PluginRemove \/ MarketplaceRemove
  <2>1. LocalType'
    BY <1>3, LocalMoves DEF PluginRemove, MarketplaceRemove, Ran, LocalType, Steps, Commands
  <2> QED
    BY <1>3, <2>1 DEF PluginRemove, MarketplaceRemove, Ran, WorldType, GhostType, ghost
<1>4. CASE RemoveNothing
  <2>1. LocalType'
    BY <1>4, LocalMoves DEF RemoveNothing, LocalType, Steps
  <2>2. receipt \in Receipts
    BY <1>4 DEF RemoveNothing, PlaceInv, WorldType
  <2>3. \A c \in Commands : [receipt EXCEPT !.done = @ \cup {c}] \in Receipts
    BY <2>2, ReceiptUpdates DEF WorldType, States
  <2>4. receipt' \in Receipts
    BY <1>4, <2>3 DEF RemoveNothing, Rewrite, Commands
  <2> QED  BY <1>4, <2>1, <2>4 DEF RemoveNothing, Rewrite, WorldType, GhostType, codex
<1>5. CASE Bind
  <2>1. LocalType'
    BY <1>5, LocalMoves DEF Bind, LocalType, Steps
  <2>2. receipt \in Receipts /\ config \in Configs
    BY <1>5 DEF Bind, PlaceInv, WorldType
  <2>3. receipt' \in Receipts
    BY <1>5, <2>2, ReceiptUpdates DEF Bind, Rewrite, States, Commands
  <2> QED  BY <1>5, <2>1, <2>3 DEF Bind, Rewrite, WorldType, GhostType, codex
<1>6. CASE Restore
  <2>1. LocalType'
    BY <1>6, LocalMoves DEF Restore, Replace, LocalType, Steps
  <2>2. receipt.restored \in Configs
    BY <1>6 DEF Restore, PlaceInv, WorldType, Receipts
  <2> QED  BY <1>6, <2>1, <2>2 DEF Restore, Replace, WorldType, GhostType, codex
<1>7. CASE Sweep \/ Tombstone \/ Delete
  <2>1. LocalType'
    BY <1>7, LocalMoves DEF Sweep, Tombstone, Delete, LocalType, Steps
  <2>2. trees' \in [Roots -> Versions \cup {None, Torn}]
    BY <1>7 DEF Sweep, Tombstone, Delete, WorldType, Roots
  <2> QED
    BY <1>7, <2>1, <2>2 DEF Sweep, Tombstone, Delete, WorldType, GhostType, codex, ghost
<1>8. CASE Unlink
  <2>1. LocalType'
    BY <1>8, LocalMoves DEF Unlink, LocalType, Steps
  <2> QED  BY <1>8, <2>1 DEF Unlink, Rewrite, WorldType, GhostType, codex
<1>9. CASE CompareBound
  <2>1. LocalType'
    BY <1>9, LocalMoves DEF CompareBound, LocalType, Steps
  <2> QED  BY <1>9, <2>1 DEF CompareBound, WorldType, GhostType, codex, ghost
<1> QED  BY <1>1, <1>2, <1>3, <1>4, <1>5, <1>6, <1>7, <1>8, <1>9 DEF UninstallStep

(* The journal, stops and edits keep the types.                            *)
LEMMA OtherType == Parts /\ (Journal \/ GiveUp \/ Tear \/ Edit) => PartsTyped'
<1> SUFFICES ASSUME Parts, Journal \/ GiveUp \/ Tear \/ Edit PROVE PartsTyped'
  OBVIOUS
<1> USE DEF Parts, PartsTyped
<1>1. CASE Journal
  <2>1. LocalType'
    BY <1>1, LocalMoves DEF Journal, LocalType, Steps
  <2>2. receipt \in Receipts /\ command \in Commands
    BY <1>1 DEF Journal, PlaceInv, WorldType
  <2>3. receipt' \in Receipts
    BY <1>1, <2>2, ReceiptUpdates DEF Journal, Rewrite, WorldType, States
  <2> QED  BY <1>1, <2>1, <2>3 DEF Journal, Rewrite, WorldType, GhostType, codex
<1>2. CASE GiveUp
  <2>1. LocalType'
    BY <1>2, LocalMoves DEF GiveUp
  <2> QED  BY <1>2, <2>1 DEF GiveUp, WorldType, GhostType, codex
<1>3. CASE Tear
  <2>1. LocalType'
    BY <1>3, LocalMoves DEF Tear, LocalType
  <2>2. trees' \in [Roots -> Versions \cup {None, Torn}]
    BY <1>3 DEF Tear, WorldType
  <2> QED  BY <1>3, <2>1, <2>2 DEF Tear, WorldType, GhostType, codex
<1>4. CASE Edit
  <2>1. \A c \in Controls : [controls |-> c, rest |-> config.rest + 1] \in Configs
    BY DEF WorldType, Configs
  <2> QED  BY <1>4, <2>1 DEF Edit, WorldType, LocalType, GhostType, codex, local
<1> QED  BY <1>1, <1>2, <1>3, <1>4

---------------------------------------------------------------------------
(* What a transition of the receipt changes, and what it leaves.           *)
LEMMA ReceiptFields ==
  ASSUME NEW r \in Receipts
  PROVE  /\ \A s \in States :
              LET n == [r EXCEPT !.state = s]
              IN  n # None /\ n.state = s /\ n.staged = r.staged /\ n.previous = r.previous
         /\ LET n == [r EXCEPT !.state = "installed", !.previous = None]
            IN  n # None /\ n.state = "installed" /\ n.staged = r.staged /\ n.previous = None
         /\ LET n == [r EXCEPT !.strategy = "complete"]
            IN  n # None /\ n.state = r.state /\ n.staged = r.staged /\ n.previous = r.previous
         /\ \A c \in Commands :
              LET n == [r EXCEPT !.done = @ \cup {c}]
              IN  n # None /\ n.state = r.state /\ n.staged = r.staged /\ n.previous = r.previous
         /\ \A cfg \in Configs :
              LET n == [r EXCEPT !.state = "uninstall_config", !.bound = TRUE, !.before = cfg,
                                 !.restored = [cfg EXCEPT !.controls = r.controls]]
              IN  /\ n # None /\ n.state = "uninstall_config"
                  /\ n.staged = r.staged /\ n.previous = r.previous
<1> USE ReceiptAssumption
<1>1. /\ "installed" \in States /\ "uninstall_config" \in States
      /\ \E c \in Commands : TRUE
      /\ r.before \in Configs
  BY DEF States, Commands, Receipts
<1>2. \A s \in States, c \in Commands, cfg \in Configs :
        /\ [r EXCEPT !.state = s] # None
        /\ [r EXCEPT !.state = s, !.previous = None] # None
        /\ [r EXCEPT !.strategy = "complete"] # None
        /\ [r EXCEPT !.done = @ \cup {c}] # None
        /\ [r EXCEPT !.state = s, !.bound = TRUE, !.before = cfg,
                     !.restored = [cfg EXCEPT !.controls = r.controls]] # None
  <2> TAKE s \in States, c \in Commands, cfg \in Configs
  <2>1. \A n \in Receipts : n # None
    OBVIOUS
  <2>2. /\ [r EXCEPT !.state = s] \in Receipts
        /\ [r EXCEPT !.state = s, !.previous = None] \in Receipts
        /\ [r EXCEPT !.strategy = "complete"] \in Receipts
        /\ [r EXCEPT !.done = @ \cup {c}] \in Receipts
        /\ [r EXCEPT !.state = s, !.bound = TRUE, !.before = cfg,
                     !.restored = [cfg EXCEPT !.controls = r.controls]] \in Receipts
    BY ReceiptUpdates
  <2> QED  BY <2>1, <2>2, Zenon
<1> QED  BY <1>1, <1>2 DEF Receipts

(* An installation's steps keep journal, trees and place in agreement.     *)
LEMMA InstallPlace == Parts /\ InstallStep => PlaceInv' /\ TreesBound'
<1> SUFFICES ASSUME Parts, InstallStep PROVE PlaceInv' /\ TreesBound'
  OBVIOUS
<1> USE NoneAssumption, ReceiptAssumption DEF Parts, PartsTyped
<1>0. /\ receipt # None => receipt \in Receipts
      /\ \A r \in Roots : trees[r] \in Versions \/ trees[r] = None \/ trees[r] = Torn
  BY DEF WorldType
<1>1. CASE \E v \in Versions : InstallBegin(v)
  <2> PICK v \in Versions : InstallBegin(v)
    BY <1>1
  <2>1. receipt' = receipt /\ trees' = trees /\ command' = command
    BY DEF InstallBegin
  <2>2. TreesBound'
    BY <2>1 DEF TreesBound
  <2>3. receipt # None => \/ receipt.state = "installed"
                          \/ receipt.state = "prepared" /\ receipt.staged = v
    <3>1. InstallAccepts(v)
      BY DEF InstallBegin
    <3> QED  BY <3>1 DEF InstallAccepts
  <2>4. PlaceInv'
    BY <2>1, <2>3 DEF InstallBegin, PlaceInv, Converging, HasTree
  <2> QED  BY <2>2, <2>4
<1>2. CASE Prepare
  <2>1. receipt' \in Receipts
    BY <1>2, PreparedReceipt, TypeParts DEF Prepare, Rewrite, PlaceInv
  <2>2. /\ receipt'.state = "prepared" /\ receipt'.staged = plan
        /\ receipt'.previous = IF receipt = None THEN None ELSE receipt.staged
    BY <1>2 DEF Prepare, Rewrite
  <2>3. receipt' # None
    BY <2>1
  <2>4. plan' = plan /\ trees' = trees /\ pc' = "converge"
    BY <1>2 DEF Prepare, Rewrite, GoTo
  <2>5. receipt = None \/ receipt.previous = None
    BY <1>2 DEF Prepare, PlaceInv
  <2>6. TreesBound'
    BY <1>0, <2>2, <2>3, <2>4, <2>5 DEF TreesBound
  <2>7. PlaceInv'
    BY <2>2, <2>3, <2>4 DEF PlaceInv, Converging
  <2> QED  BY <2>6, <2>7
<1>3. CASE Converge
  <2>1. UNCHANGED <<receipt, trees, plan, command>> /\ pc' \in {"clean", "stage"}
    BY <1>3 DEF Converge, GoTo
  <2>2. TreesBound'
    BY <2>1 DEF TreesBound
  <2>3. ~HasTree("removal")
    BY <1>3 DEF Converge, Convergent
  <2>4. PlaceInv'
    BY <1>3, <2>1, <2>3 DEF Converge, PlaceInv, Converging, HasTree
  <2> QED  BY <2>2, <2>4
<1>4. CASE Stage
  <2>1. /\ UNCHANGED <<receipt, plan, command>> /\ pc' \in {"retire", "activate"}
        /\ trees' = [trees EXCEPT !["staging"] = plan]
    BY <1>4 DEF Stage, GoTo
  <2>2. receipt # None /\ plan = receipt.staged /\ plan \in Versions
    BY <1>0, <1>4 DEF Stage, PlaceInv, Converging, Receipts
  <2>3. /\ trees'["staging"] = plan
        /\ \A r \in Roots \ {"staging"} : trees'[r] = trees[r]
    BY <2>1 DEF WorldType, Roots
  <2>4. TreesBound'
    BY <2>1, <2>2, <2>3 DEF TreesBound, Roots
  <2>5. PlaceInv'
    BY <1>4, <2>1, <2>2, <2>3 DEF Stage, PlaceInv, Converging, HasTree, Roots
  <2> QED  BY <2>4, <2>5
<1>5. CASE Retire
  <2>1. UNCHANGED <<receipt, plan, command>> /\ pc' = "activate"
    BY <1>5 DEF Retire, GoTo
  <2>2. /\ trees'["retired"] = trees["active"] /\ trees'["active"] = None
        /\ trees'["staging"] = trees["staging"] /\ trees'["removal"] = trees["removal"]
    BY <1>5 DEF Retire, WorldType, Roots
  <2>3. TreesBound'
    BY <2>1, <2>2 DEF TreesBound, Roots
  <2>4. PlaceInv'
    BY <1>5, <2>1, <2>2 DEF Retire, PlaceInv, Converging, HasTree
  <2> QED  BY <2>3, <2>4
<1>6. CASE Activate
  <2>1. UNCHANGED <<receipt, plan, command>> /\ pc' = "clean"
    BY <1>6 DEF Activate, GoTo
  <2>2. /\ trees'["active"] = trees["staging"] /\ trees'["staging"] = None
        /\ trees'["retired"] = trees["retired"] /\ trees'["removal"] = trees["removal"]
    BY <1>6 DEF Activate, WorldType, Roots
  <2>3. receipt # None /\ trees["staging"] = receipt.staged /\ receipt.staged \in Versions
    BY <1>0, <1>6 DEF Activate, PlaceInv, Converging, Receipts
  <2>4. TreesBound'
    BY <2>1, <2>2, <2>3 DEF TreesBound, Roots
  <2>5. PlaceInv'
    BY <1>6, <2>1, <2>2 DEF Activate, PlaceInv, Converging, HasTree
  <2> QED  BY <2>4, <2>5
<1>7. CASE Clean
  <2>1. UNCHANGED <<receipt, plan, command>> /\ pc' = "config"
    BY <1>7 DEF Clean, GoTo
  <2>2. /\ trees'["staging"] = None /\ trees'["retired"] = None
        /\ trees'["active"] = trees["active"] /\ trees'["removal"] = trees["removal"]
    BY <1>7 DEF Clean, WorldType, Roots
  <2>3. TreesBound'
    BY <2>1, <2>2 DEF TreesBound, Roots
  <2>4. PlaceInv'
    BY <1>7, <2>1, <2>2 DEF Clean, PlaceInv, Converging, HasTree
  <2> QED  BY <2>3, <2>4
<1>8. CASE CompareConfig \/ WriteConfig
  <2>1. /\ UNCHANGED <<receipt, trees, plan, command>>
        /\ pc \in {"config", "replace"} /\ pc' \in {"replace", "installed"}
    BY <1>8 DEF CompareConfig, WriteConfig, Replace, GoTo
  <2>2. TreesBound'
    BY <2>1 DEF TreesBound
  <2>3. PlaceInv'
    BY <2>1 DEF PlaceInv, Converging, HasTree
  <2> QED  BY <2>2, <2>3
<1>9. CASE WriteInstalled
  <2>1. UNCHANGED <<trees, plan, command>> /\ pc' = "commands"
    BY <1>9 DEF WriteInstalled, Rewrite, GoTo
  <2>2. receipt \in Receipts /\ plan = receipt.staged /\ trees["active"] = plan
    BY <1>0, <1>9 DEF WriteInstalled, PlaceInv, Converging
  <2>3. \A r \in Roots \ {"active"} : trees[r] = None
    BY <1>9 DEF WriteInstalled, PlaceInv, Converging, HasTree, Roots
  <2>4. /\ receipt' # None /\ receipt'.state = "installed"
        /\ receipt'.staged = receipt.staged /\ receipt'.previous = None
    BY <1>9, <2>2, ReceiptFields DEF WriteInstalled, Rewrite
  <2>5. TreesBound'
    BY <2>1, <2>2, <2>3, <2>4 DEF TreesBound
  <2>6. PlaceInv'
    BY <2>1, <2>4 DEF PlaceInv, Converging
  <2> QED  BY <2>5, <2>6
<1>10. CASE MarketplaceAdd \/ RefreshRemove \/ PluginAdd
  <2>1. /\ UNCHANGED <<receipt, trees, plan>> /\ pc' = "journal" /\ command' \in Commands
        /\ pc = "commands"
    BY <1>10 DEF MarketplaceAdd, RefreshRemove, PluginAdd, Ran, GoTo, Commands
  <2>2. TreesBound'
    BY <2>1 DEF TreesBound
  <2>3. PlaceInv'
    BY <2>1 DEF PlaceInv, Converging
  <2> QED  BY <2>2, <2>3
<1>11. CASE InstallEnd
  <2>1. UNCHANGED trees /\ pc' = "idle" /\ receipt # None /\ receipt.state # "prepared"
    BY <1>11 DEF InstallEnd, Rewrite, Leave, PlaceInv, Converging
  <2>2. /\ receipt' # None /\ receipt'.state = receipt.state
        /\ receipt'.staged = receipt.staged /\ receipt'.previous = receipt.previous
    BY <1>0, <1>11, <2>1, ReceiptFields DEF InstallEnd, Rewrite
  <2>3. TreesBound'
    BY <2>1, <2>2 DEF TreesBound
  <2>4. PlaceInv'
    BY <2>1, <2>2 DEF PlaceInv, Converging
  <2> QED  BY <2>3, <2>4
<1> QED  BY <1>1, <1>2, <1>3, <1>4, <1>5, <1>6, <1>7, <1>8, <1>9, <1>10, <1>11 DEF InstallStep

(* An uninstallation's steps keep them in agreement.                       *)
LEMMA UninstallPlace == Parts /\ UninstallStep => PlaceInv' /\ TreesBound'
<1> SUFFICES ASSUME Parts, UninstallStep PROVE PlaceInv' /\ TreesBound'
  OBVIOUS
<1> USE NoneAssumption, ReceiptAssumption DEF Parts, PartsTyped
<1>0. receipt # None => receipt \in Receipts
  BY DEF WorldType
<1>1. CASE UninstallBegin
  <2>1. /\ UNCHANGED <<receipt, trees, command>> /\ receipt # None /\ receipt.state # "prepared"
        /\ pc' \in {"start", "remove", "restore", "sweep", "unlink"}
    BY <1>1 DEF UninstallBegin
  <2>2. TreesBound'
    BY <2>1 DEF TreesBound
  <2>3. PlaceInv'
    BY <2>1 DEF PlaceInv, Converging
  <2> QED  BY <2>2, <2>3
<1>2. CASE Start \/ Restored \/ Deleted \/ RemoveNothing \/ Bind
  <2>1. /\ UNCHANGED <<trees, plan, command>> /\ pc' \in {"remove", "sweep", "unlink", "restore"}
        /\ pc \in {"start", "restored", "deleted", "remove"}
    BY <1>2 DEF Start, Restored, Deleted, RemoveNothing, Bind, Rewrite, GoTo
  <2>2. receipt # None /\ receipt.state # "prepared"
    BY <2>1 DEF PlaceInv, Converging
  <2>3. /\ receipt' # None /\ receipt'.state # "prepared"
        /\ receipt'.staged = receipt.staged /\ receipt'.previous = receipt.previous
    <3>1. receipt \in Receipts
      BY <1>0, <2>2
    <3>2. CASE Start \/ Restored \/ Deleted
      <4>1. PICK s \in States \ {"prepared"} : receipt' = [receipt EXCEPT !.state = s]
        BY <3>2 DEF Start, Restored, Deleted, Rewrite, States
      <4> QED  BY <2>2, <3>1, <4>1, ReceiptFields
    <3>3. CASE RemoveNothing
      <4>1. PICK c \in Commands : receipt' = [receipt EXCEPT !.done = @ \cup {c}]
        BY <3>3 DEF RemoveNothing, Rewrite, Commands
      <4> QED  BY <2>2, <3>1, <4>1, ReceiptFields
    <3>4. CASE Bind
      BY <2>2, <3>1, <3>4, ReceiptFields DEF Bind, Rewrite, WorldType
    <3> QED  BY <1>2, <3>2, <3>3, <3>4
  <2>4. TreesBound'
    BY <2>1, <2>2, <2>3 DEF TreesBound
  <2>5. PlaceInv'
    BY <2>1, <2>2, <2>3 DEF PlaceInv, Converging
  <2> QED  BY <2>4, <2>5
<1>3. CASE PluginRemove \/ MarketplaceRemove
  <2>1. /\ UNCHANGED <<receipt, trees, plan>> /\ pc' = "journal" /\ command' \in Commands
        /\ pc = "remove"
    BY <1>3 DEF PluginRemove, MarketplaceRemove, Ran, GoTo, Commands
  <2>2. TreesBound'
    BY <2>1 DEF TreesBound
  <2>3. PlaceInv'
    BY <2>1 DEF PlaceInv, Converging
  <2> QED  BY <2>2, <2>3
<1>4. CASE CompareBound \/ Restore
  <2>1. /\ UNCHANGED <<receipt, trees, plan, command>>
        /\ pc \in {"restore", "rewrite"} /\ pc' \in {"rewrite", "restored"}
    BY <1>4 DEF CompareBound, Restore, Replace, GoTo
  <2>2. TreesBound'
    BY <2>1 DEF TreesBound
  <2>3. PlaceInv'
    BY <2>1 DEF PlaceInv, Converging
  <2> QED  BY <2>2, <2>3
<1>5. CASE Sweep \/ Tombstone \/ Delete
  <2>1. /\ UNCHANGED <<receipt, plan, command>> /\ pc' \in {"tombstone", "delete", "deleted"}
        /\ pc \in {"sweep", "tombstone", "delete"}
    BY <1>5 DEF Sweep, Tombstone, Delete, GoTo
  <2>2. \A r \in Roots : \/ trees'[r] \in {trees[r], None}
                         \/ r = "removal" /\ trees'[r] = trees["active"]
    <3>1. CASE Sweep \/ Delete
      BY <3>1 DEF Sweep, Delete, WorldType
    <3>2. CASE Tombstone
      BY <3>2 DEF Tombstone, WorldType, Roots
    <3> QED  BY <1>5, <3>1, <3>2
  <2>3. TreesBound'
    BY <2>1, <2>2 DEF TreesBound, Roots
  <2>4. PlaceInv'
    BY <2>1 DEF PlaceInv, Converging
  <2> QED  BY <2>3, <2>4
<1>6. CASE Unlink
  <2>1. /\ receipt' = None /\ pc' = "idle" /\ trees' = trees
        /\ \A r \in Roots : trees[r] = None
    BY <1>6 DEF Unlink, Rewrite, Leave, HasTree
  <2>2. TreesBound'
    BY <2>1 DEF TreesBound, Roots
  <2>3. PlaceInv'
    BY <2>1 DEF PlaceInv, Converging
  <2> QED  BY <2>2, <2>3
<1> QED  BY <1>1, <1>2, <1>3, <1>4, <1>5, <1>6 DEF UninstallStep

(* The journal, stops and edits keep them in agreement.                    *)
LEMMA OtherPlace == Parts /\ (Journal \/ GiveUp \/ Tear \/ Edit) => PlaceInv' /\ TreesBound'
<1> SUFFICES ASSUME Parts, Journal \/ GiveUp \/ Tear \/ Edit PROVE PlaceInv' /\ TreesBound'
  OBVIOUS
<1> USE NoneAssumption, ReceiptAssumption DEF Parts, PartsTyped
<1>1. CASE Journal
  <2>1. /\ UNCHANGED trees /\ pc' \in {"commands", "remove"}
        /\ receipt \in Receipts /\ receipt.state # "prepared"
    BY <1>1 DEF Journal, Rewrite, GoTo, PlaceInv, Converging, WorldType
  <2>2. /\ receipt' # None /\ receipt'.state = receipt.state
        /\ receipt'.staged = receipt.staged /\ receipt'.previous = receipt.previous
    BY <1>1, <2>1, ReceiptFields DEF Journal, Rewrite, PlaceInv
  <2>3. receipt # None
    BY <1>1 DEF Journal, PlaceInv
  <2>4. TreesBound'
    BY <2>1, <2>2, <2>3 DEF TreesBound
  <2>5. PlaceInv'
    BY <2>1, <2>2, <2>3 DEF PlaceInv, Converging
  <2> QED  BY <2>4, <2>5
<1>2. CASE GiveUp
  <2>1. UNCHANGED <<receipt, trees>> /\ pc' = "idle"
    BY <1>2 DEF GiveUp, Leave
  <2> QED  BY <2>1 DEF TreesBound, PlaceInv, Converging
<1>3. CASE Tear
  <2>1. UNCHANGED receipt /\ pc' = "idle" /\ receipt # None
    BY <1>3 DEF Tear, Leave, PlaceInv
  <2>2. \A r \in Roots : \/ trees'[r] = trees[r]
                         \/ r # "active" /\ trees'[r] = Torn
    <3>1. Target \in Roots \ {"active"}
      BY <1>3 DEF Tear, Target, Roots
    <3> QED  BY <1>3, <3>1 DEF Tear, WorldType
  <2>3. TreesBound'
    BY <2>1, <2>2 DEF TreesBound, Roots
  <2>4. PlaceInv'
    BY <2>1 DEF PlaceInv, Converging
  <2> QED  BY <2>3, <2>4
<1>4. CASE Edit
  <2>1. UNCHANGED <<receipt, trees, pc, plan, command>>
    BY <1>4 DEF Edit, local
  <2> QED  BY <2>1 DEF TreesBound, PlaceInv, HasTree
<1> QED  BY <1>1, <1>2, <1>3, <1>4

---------------------------------------------------------------------------
(* What each transition of the receipt writes, and what it keeps.          *)

SameTrees == receipt'.staged = receipt.staged /\ receipt'.previous = receipt.previous

SameHeads == /\ receipt'.before = receipt.before /\ receipt'.after = receipt.after
             /\ receipt'.controls = receipt.controls
             /\ receipt'.bound = receipt.bound /\ receipt'.restored = receipt.restored

SameJournal == receipt'.strategy = receipt.strategy /\ receipt'.done = receipt.done

(* A move to another state writes nothing else. *)
LEMMA StateMoves ==
  ASSUME receipt \in Receipts, NEW s \in States, receipt' = [receipt EXCEPT !.state = s]
  PROVE  receipt' # None /\ receipt'.state = s /\ SameTrees /\ SameHeads /\ SameJournal
<1>1. receipt' # None
  BY ReceiptFields
<1> QED  BY <1>1 DEF Receipts, SameTrees, SameHeads, SameJournal

(* The end of a convergence forgets the previous version. *)
LEMMA InstalledMoves ==
  ASSUME receipt \in Receipts,
         receipt' = [receipt EXCEPT !.state = "installed", !.previous = None]
  PROVE  /\ receipt' # None /\ receipt'.state = "installed"
         /\ receipt'.staged = receipt.staged /\ receipt'.previous = None
         /\ SameHeads /\ SameJournal
<1>1. receipt' # None
  BY ReceiptFields
<1> QED  BY <1>1 DEF Receipts, SameHeads, SameJournal

(* A journal entry adds a command. *)
LEMMA EntryMoves ==
  ASSUME receipt \in Receipts, NEW c \in Commands,
         receipt' = [receipt EXCEPT !.done = @ \cup {c}]
  PROVE  /\ receipt' # None /\ receipt'.state = receipt.state /\ SameTrees /\ SameHeads
         /\ receipt'.strategy = receipt.strategy /\ receipt'.done = receipt.done \cup {c}
<1>1. receipt' # None
  BY ReceiptFields
<1> QED  BY <1>1 DEF Receipts, SameTrees, SameHeads

(* The end of an installation completes the strategy. *)
LEMMA CompleteMoves ==
  ASSUME receipt \in Receipts, receipt' = [receipt EXCEPT !.strategy = "complete"]
  PROVE  /\ receipt' # None /\ receipt'.state = receipt.state /\ SameTrees /\ SameHeads
         /\ receipt'.strategy = "complete" /\ receipt'.done = receipt.done
<1>1. receipt' # None
  BY ReceiptFields
<1> QED  BY <1>1 DEF Receipts, SameTrees, SameHeads

(* The binding of an uninstallation takes the heads from the file. *)
LEMMA BindMoves ==
  ASSUME receipt \in Receipts, config \in Configs,
         receipt' = [receipt EXCEPT !.state = "uninstall_config", !.bound = TRUE,
                                    !.before = config,
                                    !.restored = [config EXCEPT !.controls = receipt.controls]]
  PROVE  /\ receipt' # None /\ receipt'.state = "uninstall_config" /\ SameTrees /\ SameJournal
         /\ receipt'.bound = TRUE /\ receipt'.before = config
         /\ receipt'.controls = receipt.controls
         /\ receipt'.restored.rest = config.rest
<1>1. receipt' # None
  BY ReceiptFields
<1> QED  BY <1>1 DEF Receipts, Configs, SameTrees, SameJournal

(* Every step, by what it does to the receipt. *)
Quiet == UNCHANGED receipt

LEMMA Typed ==
  ASSUME Parts
  PROVE  /\ receipt # None => receipt \in Receipts
         /\ config \in Configs /\ seen \in Configs
         /\ trees \in [Roots -> Versions \cup {None, Torn}]
         /\ pc \in Steps /\ op \in {"none", "install", "uninstall"}
         /\ command \in Commands \cup {"none"}
  BY DEF Parts, PartsTyped, WorldType, LocalType

(* A step past the first has a receipt. *)
LEMMA HasReceipt ==
  ASSUME Parts, pc \notin {"idle", "prepare"}
  PROVE  receipt \in Receipts /\ receipt # None
  BY Typed DEF Parts, PlaceInv

(* The state that each transition of the receipt writes. *)
LEMMA Transitions ==
  ASSUME Parts, Next
  PROVE  \/ Quiet
         \/ Prepare /\ receipt'.state = "prepared" /\ receipt' # None
         \/ Unlink /\ receipt' = None
         \/ /\ WriteInstalled /\ receipt \in Receipts /\ receipt' # None
            /\ receipt'.state = "installed" /\ receipt'.previous = None
            /\ receipt'.staged = receipt.staged /\ SameHeads /\ SameJournal
         \/ /\ Start /\ receipt \in Receipts /\ receipt' # None
            /\ receipt'.state = "uninstall_commands" /\ SameTrees /\ SameHeads /\ SameJournal
         \/ /\ Restored /\ receipt \in Receipts /\ receipt' # None
            /\ receipt'.state = "uninstall_tree" /\ SameTrees /\ SameHeads /\ SameJournal
         \/ /\ Deleted /\ receipt \in Receipts /\ receipt' # None
            /\ receipt'.state = "uninstall_receipt" /\ SameTrees /\ SameHeads /\ SameJournal
         \/ /\ Bind /\ receipt \in Receipts /\ receipt' # None
            /\ receipt'.state = "uninstall_config" /\ SameTrees /\ SameJournal
            /\ receipt'.bound = TRUE /\ receipt'.before = config
            /\ receipt'.controls = receipt.controls /\ receipt'.restored.rest = config.rest
         \/ /\ InstallEnd /\ receipt \in Receipts /\ receipt' # None
            /\ receipt'.state = receipt.state /\ SameTrees /\ SameHeads
            /\ receipt'.strategy = "complete" /\ receipt'.done = receipt.done
         \/ /\ Journal /\ receipt \in Receipts /\ receipt' # None
            /\ receipt'.state = receipt.state /\ SameTrees /\ SameHeads
            /\ receipt'.strategy = receipt.strategy
            /\ receipt'.done = receipt.done \cup {command}
         \/ /\ RemoveNothing /\ receipt \in Receipts /\ receipt' # None
            /\ receipt'.state = receipt.state /\ SameTrees /\ SameHeads
            /\ receipt'.strategy = receipt.strategy
            /\ \E c \in {"plugin_remove", "marketplace_remove"} :
                 receipt'.done = receipt.done \cup {c}
<1>1. CASE Prepare
  <2>1. receipt' \in Receipts
    BY <1>1, PreparedReceipt, TypeParts DEF Prepare, Rewrite, PlaceInv, Parts
  <2> QED  BY <1>1, <2>1, ReceiptAssumption DEF Prepare, Rewrite
<1>2. CASE WriteInstalled
  BY <1>2, HasReceipt, InstalledMoves DEF WriteInstalled, Rewrite
<1>3. CASE Start \/ Restored \/ Deleted
  BY <1>3, HasReceipt, StateMoves DEF Start, Restored, Deleted, Rewrite, States
<1>4. CASE Bind
  BY <1>4, HasReceipt, Typed, BindMoves DEF Bind, Rewrite
<1>5. CASE InstallEnd
  BY <1>5, HasReceipt, CompleteMoves DEF InstallEnd, Rewrite
<1>6. CASE Journal
  <2>1. command \in Commands /\ receipt \in Receipts
    BY <1>6, HasReceipt DEF Journal, Parts, PlaceInv
  <2> QED  BY <1>6, <2>1, EntryMoves DEF Journal, Rewrite
<1>7. CASE RemoveNothing
  <2>1. receipt \in Receipts
    BY <1>7, HasReceipt DEF RemoveNothing
  <2>2. PICK c \in {"plugin_remove", "marketplace_remove"} :
          receipt' = [receipt EXCEPT !.done = @ \cup {c}]
    BY <1>7 DEF RemoveNothing, Rewrite
  <2>3. c \in Commands
    BY DEF Commands
  <2> QED  BY <1>7, <2>1, <2>2, <2>3, EntryMoves
<1>8. CASE Unlink
  BY <1>8 DEF Unlink, Rewrite
<1>9. CASE InstallStep /\ ~Prepare /\ ~WriteInstalled /\ ~InstallEnd
  BY <1>9 DEF InstallStep, InstallBegin, Converge, Stage, Retire, Activate, Clean, CompareConfig,
              WriteConfig, Replace, MarketplaceAdd, RefreshRemove, PluginAdd, Ran, Quiet
<1>10. CASE \/ UninstallBegin \/ PluginRemove \/ MarketplaceRemove \/ CompareBound \/ Restore
            \/ Sweep \/ Tombstone \/ Delete \/ GiveUp \/ Tear \/ Edit
  BY <1>10 DEF UninstallBegin, PluginRemove, MarketplaceRemove, Ran, CompareBound, Restore,
               Replace, Sweep, Tombstone, Delete, GiveUp, Tear, Edit, Quiet
<1> QED
  BY <1>1, <1>2, <1>3, <1>4, <1>5, <1>6, <1>7, <1>8, <1>9, <1>10, Zenon
  DEF Next, InstallStep, UninstallStep

---------------------------------------------------------------------------
(* Where the steps of each kind lead. *)
Forward ==
  \/ Converge \/ Stage \/ Retire \/ Activate \/ Clean \/ CompareConfig \/ WriteConfig
  \/ CompareBound \/ Restore \/ Sweep \/ Tombstone \/ Delete

(* Those that compare config.toml or replace it. *)
Writing == CompareConfig \/ WriteConfig \/ CompareBound \/ Restore

Commanding ==
  MarketplaceAdd \/ RefreshRemove \/ PluginAdd \/ PluginRemove \/ MarketplaceRemove

Leaving == InstallEnd \/ Unlink \/ GiveUp \/ Tear

(* The steps, by kind. *)
LEMMA Kinds ==
  ASSUME Parts, Next
  PROVE  \/ \E v \in Versions : InstallBegin(v)
         \/ UninstallBegin \/ Prepare \/ WriteInstalled \/ Start \/ RemoveNothing \/ Bind
         \/ Restored \/ Deleted \/ Journal \/ Edit
         \/ Forward \/ Commanding \/ Leaving
  BY Zenon DEF Next, InstallStep, UninstallStep, Forward, Commanding, Leaving

(* The phase follows the step. *)
LEMMA PhaseSteps == Parts /\ PhaseInv /\ Next => PhaseInv'
<1> SUFFICES ASSUME Parts, PhaseInv, Next PROVE PhaseInv'
  OBVIOUS
<1> USE DEF PhaseInv, Converging
<1>1. ASSUME NEW v \in Versions, InstallBegin(v) PROVE PhaseInv'
  <2>1. receipt # None => receipt.state \in {"installed", "prepared"}
    BY <1>1 DEF InstallBegin, InstallAccepts
  <2>2. /\ UNCHANGED <<receipt, command>> /\ op = "none" /\ op' = "install"
        /\ pc' \in {"prepare", "converge", "commands"}
        /\ pc' = "commands" => receipt.state = "installed"
    BY <1>1, <2>1 DEF InstallBegin
  <2> QED  BY <2>2
<1>2. CASE UninstallBegin
  <2>1. receipt \in Receipts /\ receipt.state \in States
    BY <1>2, Typed DEF UninstallBegin, Receipts
  <2>2. /\ UNCHANGED <<receipt, command>> /\ op = "none" /\ op' = "uninstall"
        /\ \/ pc' = "start" /\ receipt.state = "installed"
           \/ pc' = "remove" /\ receipt.state = "uninstall_commands"
           \/ pc' = "restore" /\ receipt.state = "uninstall_config"
           \/ pc' = "sweep" /\ receipt.state = "uninstall_tree"
           \/ pc' = "unlink" /\ receipt.state = "uninstall_receipt"
    BY <1>2, <2>1 DEF UninstallBegin, States
  <2> QED  BY <2>2
<1>3. CASE Prepare \/ WriteInstalled \/ Start \/ RemoveNothing \/ Bind \/ Restored \/ Deleted
  <2>1. /\ UNCHANGED <<op, command>>
        /\ \/ pc = "prepare" /\ pc' = "converge"
           \/ pc = "installed" /\ pc' = "commands" /\ receipt'.state = "installed"
           \/ pc = "start" /\ pc' = "remove" /\ receipt'.state = "uninstall_commands"
           \/ pc = "remove" /\ pc' = "remove" /\ receipt'.state = receipt.state
           \/ pc = "remove" /\ pc' = "restore" /\ receipt'.state = "uninstall_config"
           \/ pc = "restored" /\ pc' = "sweep" /\ receipt'.state = "uninstall_tree"
           \/ pc = "deleted" /\ pc' = "unlink" /\ receipt'.state = "uninstall_receipt"
    <3>1. CASE Prepare
      BY <3>1 DEF Prepare, GoTo
    <3>2. CASE WriteInstalled
      BY <3>2, HasReceipt, InstalledMoves DEF WriteInstalled, GoTo, Rewrite
    <3>3. CASE Start \/ Restored \/ Deleted
      BY <3>3, HasReceipt, StateMoves DEF Start, Restored, Deleted, GoTo, Rewrite, States
    <3>4. CASE Bind
      BY <3>4, HasReceipt, Typed, BindMoves DEF Bind, GoTo, Rewrite
    <3>5. CASE RemoveNothing
      <4>1. receipt \in Receipts
        BY <3>5, HasReceipt DEF RemoveNothing
      <4>2. PICK c \in {"plugin_remove", "marketplace_remove"} :
              receipt' = [receipt EXCEPT !.done = @ \cup {c}]
        BY <3>5 DEF RemoveNothing, Rewrite
      <4>3. receipt'.state = receipt.state
        BY <4>1, <4>2, EntryMoves DEF Commands
      <4> QED  BY <3>5, <4>3 DEF RemoveNothing, GoTo
    <3> QED  BY <1>3, <3>1, <3>2, <3>3, <3>4, <3>5
  <2> QED  BY <2>1
<1>4. CASE Journal
  <2>1. receipt \in Receipts /\ command \in Commands
    BY <1>4, HasReceipt DEF Journal, Parts, PlaceInv
  <2>2. receipt'.state = receipt.state
    BY <1>4, <2>1, EntryMoves DEF Journal, Rewrite
  <2>3. op \in {"install", "uninstall"}
    BY <1>4, Typed DEF Journal
  <2> QED  BY <1>4, <2>2, <2>3 DEF Journal, GoTo
<1>5. CASE Edit
  BY <1>5 DEF Edit, local
<1>6. CASE Forward
  <2>1. UNCHANGED <<receipt, op, command>>
    BY <1>6 DEF Forward, Converge, Stage, Retire, Activate, Clean, CompareConfig, WriteConfig,
                CompareBound, Restore, Replace, Sweep, Tombstone, Delete, GoTo
  <2>2. \/ pc \in Converging /\ pc' \in Converging
        \/ pc \in {"restore", "rewrite"} /\ pc' \in {"rewrite", "restored"}
        \/ pc \in {"sweep", "tombstone", "delete"} /\ pc' \in {"tombstone", "delete", "deleted"}
    BY <1>6 DEF Forward, Converge, Stage, Retire, Activate, Clean, CompareConfig, WriteConfig,
                CompareBound, Restore, Replace, Sweep, Tombstone, Delete, GoTo
  <2> QED  BY <2>1, <2>2
<1>7. CASE Commanding
  <2>1. /\ UNCHANGED <<receipt, op>> /\ pc' = "journal" /\ command' # "none"
        /\ pc \in {"commands", "remove"}
    BY <1>7 DEF Commanding, MarketplaceAdd, RefreshRemove, PluginAdd, PluginRemove,
                MarketplaceRemove, Ran, GoTo
  <2> QED  BY <2>1
<1>8. CASE Leaving
  <2>1. /\ pc' = "idle" /\ op' = "none"
        /\ command' = "none" \/ (command' = command /\ pc # "journal")
    BY <1>8 DEF Leaving, InstallEnd, Unlink, GiveUp, Tear, Leave
  <2> QED  BY <2>1
<1> QED  BY <1>1, <1>2, <1>3, <1>4, <1>5, <1>6, <1>7, <1>8, Kinds

(* The trees follow the phase and the step. *)
LEMMA TreeSteps == Parts /\ PhaseInv /\ TreeInv /\ Next => TreeInv'
<1> SUFFICES ASSUME Parts, PhaseInv, TreeInv, Next PROVE TreeInv'
  OBVIOUS
<1> USE NoneAssumption DEF HasTree, IsPrevious
<1>0. /\ receipt # None => receipt.staged \in Versions /\ receipt.state \in States
      /\ trees \in [Roots -> Versions \cup {None, Torn}]
      /\ Roots = {"active", "staging", "retired", "removal"}
  BY Typed DEF Receipts, Roots
<1>1. ASSUME NEW v \in Versions, InstallBegin(v) PROVE TreeInv'
  BY <1>1 DEF InstallBegin, TreeInv
<1>2. CASE UninstallBegin
  <2>1. UNCHANGED <<receipt, trees>> /\ pc' \in {"start", "remove", "restore", "sweep", "unlink"}
    BY <1>2 DEF UninstallBegin
  <2> QED  BY <2>1 DEF TreeInv
<1>3. CASE Prepare
  <2>1. /\ receipt'.state = "prepared" /\ receipt'.staged = plan
        /\ receipt'.previous = IF receipt = None THEN None ELSE receipt.staged
        /\ trees' = trees /\ pc' = "converge"
    BY <1>3 DEF Prepare, Rewrite, GoTo
  <2>2. CASE receipt = None
    <3>1. \A r \in Roots : trees[r] = None
      BY <1>0, <2>2 DEF Parts, TreesBound
    <3> QED  BY <1>0, <2>1, <2>2, <3>1 DEF TreeInv
  <2>3. CASE receipt # None
    <3>1. receipt.state = "installed"
      BY <1>3, <2>3 DEF Prepare, Parts, PlaceInv
    <3>2. trees["active"] = receipt.staged /\ \A r \in Roots \ {"active"} : trees[r] = None
      BY <2>3, <3>1 DEF TreeInv
    <3> QED  BY <1>0, <2>1, <2>3, <3>2 DEF TreeInv
  <2> QED  BY <2>2, <2>3
<1>4. CASE Converge \/ CompareConfig \/ WriteConfig \/ CompareBound \/ Restore
  <2>1. /\ UNCHANGED <<receipt, trees>>
        /\ pc' \in {"clean", "stage", "replace", "installed", "rewrite", "restored"}
        /\ pc' \in {"clean", "replace", "installed"} => trees["active"] = receipt.staged
    BY <1>4
    DEF Converge, CompareConfig, WriteConfig, CompareBound, Restore, Replace, GoTo, TreeInv
  <2> QED  BY <2>1 DEF TreeInv
<1>5. CASE Stage \/ Retire \/ Activate \/ Clean
  <2>1. /\ receipt # None /\ receipt.state = "prepared" /\ receipt' = receipt
        /\ pc' \in {"retire", "activate", "clean", "config"}
    BY <1>5 DEF Stage, Retire, Activate, Clean, GoTo, Parts, PlaceInv, Converging
  <2>2. /\ trees["removal"] = None /\ trees["retired"] \in {None, Torn, receipt.previous}
        /\ trees["active"] = None /\ receipt.previous # None => IsPrevious("retired")
        /\ pc = "retire" => IsPrevious("active")
        /\ pc = "clean" => trees["active"] = receipt.staged
    BY <2>1 DEF TreeInv
  <2>3. /\ trees'["removal"] = None /\ trees'["retired"] \in {None, Torn, receipt.previous}
        /\ trees'["active"] = None /\ receipt.previous # None => trees'["retired"] = receipt.previous
        /\ pc' = "retire" => receipt.previous # None /\ trees'["active"] = receipt.previous
        /\ pc' \in {"clean", "config"} => trees'["active"] = receipt.staged
    <3>1. CASE Stage
      BY <1>0, <2>2, <3>1 DEF Stage, GoTo
    <3>2. CASE Retire
      BY <1>0, <2>2, <3>2 DEF Retire, GoTo
    <3>3. CASE Activate
      <4>1. trees["staging"] = receipt.staged
        BY <3>3 DEF Activate, Parts, PlaceInv
      <4> QED  BY <1>0, <2>1, <2>2, <3>3, <4>1 DEF Activate, GoTo
    <3>4. CASE Clean
      BY <1>0, <2>1, <2>2, <3>4 DEF Clean, GoTo
    <3> QED  BY <1>5, <3>1, <3>2, <3>3, <3>4
  <2> QED  BY <2>1, <2>3 DEF TreeInv
<1>6. CASE WriteInstalled
  <2>1. \A r \in Roots \ {"active"} : trees[r] = None
    BY <1>6 DEF WriteInstalled, Parts, PlaceInv, Converging, Roots
  <2>2. trees["active"] = receipt.staged
    BY <1>6 DEF WriteInstalled, TreeInv
  <2>3. /\ receipt' # None /\ receipt'.state = "installed" /\ receipt'.staged = receipt.staged
        /\ trees' = trees /\ pc' = "commands"
    BY <1>6, HasReceipt, InstalledMoves DEF WriteInstalled, Rewrite, GoTo
  <2> QED  BY <2>1, <2>2, <2>3 DEF TreeInv
<1>7. CASE Start \/ Bind \/ InstallEnd \/ Journal \/ RemoveNothing
  <2>1. /\ receipt # None /\ receipt.state \in {"installed", "uninstall_commands"}
        /\ trees' = trees /\ pc' \in {"remove", "restore", "idle", "commands"}
    BY <1>7, HasReceipt DEF Start, Bind, InstallEnd, Journal, RemoveNothing, PhaseInv, GoTo,
                            Rewrite, Leave
  <2>2. /\ receipt'.state \in {"installed", "uninstall_commands", "uninstall_config"}
        /\ receipt' # None /\ receipt'.staged = receipt.staged
    <3>1. CASE Start
      BY <3>1, HasReceipt, StateMoves DEF Start, Rewrite, States, SameTrees
    <3>2. CASE Bind
      BY <3>2, HasReceipt, Typed, BindMoves DEF Bind, Rewrite, SameTrees
    <3>3. CASE InstallEnd
      BY <2>1, <3>3, HasReceipt, CompleteMoves DEF InstallEnd, Rewrite, SameTrees
    <3>4. CASE Journal
      <4>1. command \in Commands
        BY <3>4 DEF Journal, Parts, PlaceInv
      <4> QED  BY <2>1, <3>4, <4>1, HasReceipt, EntryMoves DEF Journal, Rewrite, SameTrees
    <3>5. CASE RemoveNothing
      <4>1. PICK c \in Commands : receipt' = [receipt EXCEPT !.done = @ \cup {c}]
        BY <3>5 DEF RemoveNothing, Rewrite, Commands
      <4> QED  BY <2>1, <3>5, <4>1, HasReceipt, EntryMoves DEF RemoveNothing, SameTrees
    <3> QED  BY <1>7, <3>1, <3>2, <3>3, <3>4, <3>5
  <2>3. trees["active"] = receipt.staged /\ \A r \in Roots \ {"active"} : trees[r] = None
    BY <2>1 DEF TreeInv
  <2> QED  BY <2>1, <2>2, <2>3 DEF TreeInv
<1>8. CASE Restored \/ Deleted
  <2>1. /\ receipt # None /\ trees' = trees
        /\ receipt' # None /\ receipt'.staged = receipt.staged
        /\ \/ pc = "restored" /\ receipt'.state = "uninstall_tree" /\ pc' = "sweep"
              /\ receipt.state = "uninstall_config"
           \/ pc = "deleted" /\ receipt'.state = "uninstall_receipt" /\ pc' = "unlink"
    BY <1>8, HasReceipt, StateMoves DEF Restored, Deleted, Rewrite, States, SameTrees, PhaseInv, GoTo
  <2>2. pc = "restored" => trees["removal"] = None
    BY <1>0, <2>1 DEF TreeInv
  <2>3. pc = "deleted" => \A r \in Roots : trees[r] = None
    BY <1>0 DEF TreeInv
  <2> QED  BY <2>1, <2>2, <2>3 DEF TreeInv
<1>9. CASE Sweep \/ Tombstone \/ Delete
  <2>1. /\ receipt # None /\ receipt.state = "uninstall_tree" /\ receipt' = receipt
        /\ pc' \in {"tombstone", "delete", "deleted"}
    BY <1>9, HasReceipt DEF Sweep, Tombstone, Delete, GoTo, PhaseInv
  <2>2. trees["active"] = None \/ trees["removal"] = None
    BY <2>1 DEF TreeInv
  <2>3. /\ trees'["staging"] = None /\ trees'["retired"] = None
        /\ trees'["active"] = None \/ trees'["removal"] = None
        /\ pc' \in {"delete", "deleted"} => trees'["active"] = None
        /\ pc' = "deleted" => trees'["removal"] = None
    <3>1. CASE Sweep
      BY <1>0, <2>2, <3>1 DEF Sweep, GoTo
    <3>2. CASE Tombstone
      BY <1>0, <2>2, <3>2 DEF Tombstone, GoTo, TreeInv
    <3>3. CASE Delete
      BY <1>0, <3>3 DEF Delete, GoTo, TreeInv
    <3> QED  BY <1>9, <3>1, <3>2, <3>3
  <2> QED  BY <2>1, <2>3 DEF TreeInv
<1>10. CASE Unlink
  BY <1>10 DEF Unlink, Rewrite, Leave, TreeInv
<1>11. CASE GiveUp \/ Edit
  BY <1>11 DEF GiveUp, Edit, Leave, local, TreeInv
<1>12. CASE Tear
  <2>1. /\ receipt # None /\ receipt' = receipt /\ pc' = "idle" /\ pc \in {"stage", "clean", "delete"}
        /\ trees' = [trees EXCEPT ![Target] = Torn]
    BY <1>12, HasReceipt DEF Tear, Leave
  <2>2. /\ pc \in {"stage", "clean"} => receipt.state = "prepared"
        /\ pc = "delete" => receipt.state = "uninstall_tree"
    BY <2>1 DEF Parts, PlaceInv, PhaseInv, Converging
  <2>3. CASE pc = "stage"
    BY <1>0, <2>1, <2>2, <2>3 DEF Target, TreeInv
  <2>4. CASE pc = "clean"
    BY <1>0, <2>1, <2>2, <2>4 DEF Target, TreeInv
  <2>5. CASE pc = "delete"
    BY <1>0, <2>1, <2>2, <2>5 DEF Target, TreeInv
  <2> QED  BY <2>1, <2>3, <2>4, <2>5
<1>13. CASE Commanding
  <2>1. UNCHANGED <<receipt, trees>> /\ pc' = "journal"
    BY <1>13 DEF Commanding, MarketplaceAdd, RefreshRemove, PluginAdd, PluginRemove,
                 MarketplaceRemove, Ran, GoTo
  <2> QED  BY <2>1 DEF TreeInv
<1> QED
  BY <1>1, <1>2, <1>3, <1>4, <1>5, <1>6, <1>7, <1>8, <1>9, <1>10, <1>11, <1>12, <1>13, Kinds, Zenon
  DEF Forward, Leaving

(* The heads that the receipt binds follow the phase and the file. *)
LEMMA ConfigSteps == Parts /\ PhaseInv /\ ConfigInv /\ Next => ConfigInv'
<1> SUFFICES ASSUME Parts, PhaseInv, ConfigInv, Next PROVE ConfigInv'
  OBVIOUS
<1> USE DEF Required, Original
<1>0. edited \in BOOLEAN /\ raced \in BOOLEAN
  BY DEF Parts, PartsTyped, GhostType
<1>1. ASSUME NEW v \in Versions, InstallBegin(v) PROVE ConfigInv'
  <2>1. UNCHANGED <<config, receipt, edited>> /\ seen' = config /\ ~raced'
    BY <1>1 DEF InstallBegin, ghost, PhaseInv, ConfigInv
  <2>2. /\ receipt # None => receipt.state \in {"installed", "prepared"}
        /\ receipt # None /\ receipt.state = "installed" => Required(config) \/ Original(config)
        /\ receipt # None /\ receipt.state = "prepared" =>
             config = receipt.before \/ config = receipt.after
    BY <1>1 DEF InstallBegin, InstallAccepts
  <2>3. /\ pc' \in {"prepare", "converge", "commands"}
        /\ pc' = "converge" => receipt # None /\ receipt.state = "prepared"
        /\ pc' = "prepare" => receipt = None \/ receipt.state # "prepared"
    BY <1>1 DEF InstallBegin
  <2>4. pc' = "converge" => seen'.rest = receipt.after.rest
    BY <2>1, <2>2, <2>3 DEF ConfigInv
  <2> QED  BY <2>1, <2>2, <2>3, <2>4 DEF ConfigInv, Converging
<1>2. CASE Prepare
  <2> DEFINE after == [seen EXCEPT !.controls = "required"]
  <2>1. /\ receipt'.state = "prepared" /\ receipt'.before = seen /\ receipt'.after = after
        /\ receipt'.controls = IF receipt = None THEN seen.controls ELSE receipt.controls
        /\ receipt'.bound = FALSE /\ config' = config /\ edited' = (config # seen)
        /\ seen' = seen /\ pc' = "converge" /\ ~raced'
    BY <1>2 DEF Prepare, Rewrite, GoTo, ConfigInv
  <2>2. /\ after.rest = seen.rest /\ after.controls = "required"
        /\ Required(seen) => after = seen
    BY Typed DEF Configs
  <2>3. Required(seen) \/ seen.controls = receipt'.controls
    BY <1>2, <2>1 DEF Prepare, ConfigInv
  <2>4. ~edited' => config = after \/ (config = seen /\ config.controls = receipt'.controls)
    BY <2>1, <2>2, <2>3
  <2> HIDE DEF after
  <2> QED  BY <2>1, <2>2, <2>4 DEF ConfigInv, Converging
<1>3. CASE WriteConfig
  <2>1. /\ UNCHANGED <<receipt, edited, seen>> /\ config' = receipt.after /\ pc' = "installed"
        /\ receipt # None /\ receipt.state = "prepared" /\ seen.rest = receipt.after.rest
        /\ raced' = FALSE
    BY <1>3, HasReceipt DEF WriteConfig, Replace, GoTo, Parts, PlaceInv, Converging, ConfigInv
  <2> QED  BY <2>1 DEF ConfigInv, Converging
<1>4. CASE Restore
  <2>1. /\ UNCHANGED <<receipt, edited, seen>> /\ config' = receipt.restored /\ pc' = "restored"
        /\ receipt # None /\ receipt.state = "uninstall_config" /\ raced' = FALSE
    BY <1>4, HasReceipt DEF Restore, Replace, GoTo, PhaseInv
  <2> QED  BY <2>1 DEF ConfigInv, Converging
<1>5. CASE WriteInstalled
  <2>1. /\ UNCHANGED <<config, edited, seen>> /\ pc' = "commands" /\ SameHeads
        /\ receipt' # None /\ receipt'.state = "installed" /\ config = receipt.after /\ ~raced'
    BY <1>5, HasReceipt, InstalledMoves DEF WriteInstalled, Rewrite, GoTo, ConfigInv
  <2>2. receipt # None /\ receipt.state = "prepared"
    BY <1>5, HasReceipt DEF WriteInstalled, Parts, PlaceInv, Converging
  <2>3. Required(config) /\ ~receipt'.bound
    <3>1. receipt \in Receipts /\ receipt.bound \in BOOLEAN
      BY <1>5, HasReceipt DEF WriteInstalled, Receipts
    <3> QED  BY <2>1, <2>2, <3>1 DEF ConfigInv, SameHeads
  <2> QED  BY <2>1, <2>3 DEF ConfigInv, Converging
<1>6. CASE Start \/ InstallEnd \/ Journal \/ RemoveNothing
  <2>1. /\ receipt # None /\ receipt.state \in {"installed", "uninstall_commands"}
        /\ UNCHANGED <<config, edited>> /\ pc' \in {"remove", "idle", "commands"} /\ ~raced'
    BY <1>6, HasReceipt DEF Start, InstallEnd, Journal, RemoveNothing, PhaseInv, GoTo,
                            Rewrite, Leave, ConfigInv
  <2>2. /\ receipt'.state \in {"installed", "uninstall_commands"}
        /\ receipt' # None /\ SameHeads
    <3>1. CASE Start
      BY <3>1, HasReceipt, StateMoves DEF Start, Rewrite, States
    <3>2. CASE InstallEnd
      BY <2>1, <3>2, HasReceipt, CompleteMoves DEF InstallEnd, Rewrite
    <3>3. CASE Journal
      <4>1. command \in Commands
        BY <3>3 DEF Journal, Parts, PlaceInv
      <4> QED  BY <2>1, <3>3, <4>1, HasReceipt, EntryMoves DEF Journal, Rewrite
    <3>4. CASE RemoveNothing
      <4>1. PICK c \in Commands : receipt' = [receipt EXCEPT !.done = @ \cup {c}]
        BY <3>4 DEF RemoveNothing, Rewrite, Commands
      <4> QED  BY <2>1, <3>4, <4>1, HasReceipt, EntryMoves DEF RemoveNothing
    <3> QED  BY <1>6, <3>1, <3>2, <3>3, <3>4
  <2>3. ~receipt.bound /\ (~edited => Required(config))
    BY <2>1 DEF ConfigInv
  <2> QED  BY <2>1, <2>2, <2>3 DEF ConfigInv, Converging, SameHeads
<1>7. CASE Bind
  <2>1. /\ config' = config /\ pc' = "restore" /\ receipt' # None
        /\ receipt'.state = "uninstall_config" /\ receipt'.bound = TRUE
        /\ receipt'.before = config /\ receipt'.restored.rest = config.rest /\ ~raced'
    BY <1>7, HasReceipt, Typed, BindMoves DEF Bind, Rewrite, GoTo, ConfigInv
  <2> QED  BY <2>1 DEF ConfigInv, Converging
<1>8. CASE Restored \/ Deleted
  <2>1. /\ UNCHANGED <<config, edited>> /\ pc' \in {"sweep", "unlink"} /\ receipt # None
        /\ receipt.state \in {"uninstall_config", "uninstall_tree"}
        /\ receipt' # None /\ receipt'.state \in {"uninstall_tree", "uninstall_receipt"}
        /\ SameHeads /\ ~raced'
    BY <1>8, HasReceipt, StateMoves
    DEF Restored, Deleted, Rewrite, States, PhaseInv, GoTo, ConfigInv
  <2> QED  BY <2>1 DEF ConfigInv, Converging, SameHeads
<1>9. CASE Leaving /\ ~InstallEnd
  <2>1. CASE Unlink
    BY <2>1 DEF Unlink, Rewrite, Leave, ConfigInv, Converging
  <2>2. CASE GiveUp \/ Tear
    BY <2>2 DEF GiveUp, Tear, Leave, ConfigInv, Converging
  <2> QED  BY <1>9, <2>1, <2>2 DEF Leaving
<1>10. CASE Edit
  <2>1. /\ UNCHANGED <<receipt, pc, seen>> /\ edited' = TRUE
        /\ raced' = (raced \/ pc \in {"replace", "rewrite"})
    BY <1>10 DEF Edit, local
  <2> QED  BY <1>0, <2>1 DEF ConfigInv
<1>11. CASE UninstallBegin \/ Commanding \/ (Forward /\ ~Writing)
  <2>1. /\ UNCHANGED <<config, receipt, edited, raced, seen>> /\ pc' # "prepare"
        /\ pc' \in Converging => pc \in Converging
        /\ pc \notin {"replace", "rewrite"} /\ pc' \notin {"replace", "rewrite"}
    <3>1. CASE UninstallBegin
      BY <3>1 DEF UninstallBegin, ghost, Converging, PhaseInv
    <3>2. CASE Commanding
      BY <3>2 DEF Commanding, MarketplaceAdd, RefreshRemove, PluginAdd, PluginRemove,
                  MarketplaceRemove, Ran, GoTo, ghost, Converging
    <3>3. CASE Forward /\ ~Writing
      BY <3>3 DEF Forward, Writing, Converge, Stage, Retire, Activate, Clean, Sweep, Tombstone,
                  Delete, GoTo, ghost, Converging
    <3> QED  BY <1>11, <3>1, <3>2, <3>3
  <2> QED  BY <2>1 DEF ConfigInv
<1>12. CASE CompareConfig
  <2>1. /\ UNCHANGED <<config, receipt, edited, raced, seen>> /\ pc' \in {"replace", "installed"}
        /\ config = seen /\ pc = "config"
    BY <1>12 DEF CompareConfig, GoTo, ghost
  <2>2. receipt # None /\ receipt.state = "prepared"
    BY <1>12, HasReceipt DEF CompareConfig, Parts, PlaceInv, Converging
  <2>3. config.rest = receipt.before.rest
    BY <2>1, <2>2 DEF ConfigInv, Converging
  <2> QED  BY <2>1, <2>3 DEF ConfigInv, Converging
<1>13. CASE CompareBound
  <2>1. /\ UNCHANGED <<config, receipt, edited, raced, seen>> /\ pc = "restore"
        /\ pc' \in {"rewrite", "restored"}
        /\ pc' = "rewrite" => config = receipt.before
    BY <1>13 DEF CompareBound, GoTo, ghost
  <2> QED  BY <2>1 DEF ConfigInv, Converging
<1> QED
  BY <1>1, <1>2, <1>3, <1>4, <1>5, <1>6, <1>7, <1>8, <1>9, <1>10, <1>11, <1>12, <1>13, Kinds, Zenon
  DEF Writing

(* A reset of the journal, or a command that was lost, is remembered. *)
LEMMA HistoryKept ==
  ASSUME Parts, Next
  PROVE  (cleared => cleared') /\ (unjournaled => unjournaled')
<1>1. CASE GiveUp
  BY <1>1 DEF GiveUp, Parts, PartsTyped, GhostType
<1>2. CASE Prepare
  BY <1>2 DEF Prepare, Rewrite, Parts, PartsTyped, GhostType
<1>3. ASSUME \/ \E v \in Versions : InstallBegin(v)
             \/ UninstallBegin \/ Edit \/ Forward \/ Commanding \/ Tear
      PROVE  UNCHANGED <<cleared, unjournaled>>
  BY <1>3
  DEF InstallBegin, UninstallBegin, Edit, Forward, Converge, Stage, Retire, Activate, Clean,
      CompareConfig, WriteConfig, CompareBound, Restore, Replace, Sweep, Tombstone, Delete,
      Commanding, MarketplaceAdd, RefreshRemove, PluginAdd, PluginRemove, MarketplaceRemove, Ran,
      Tear, ghost
<1>4. ASSUME \/ WriteInstalled \/ Start \/ RemoveNothing \/ Bind \/ Restored \/ Deleted \/ Journal
             \/ InstallEnd \/ Unlink
      PROVE  UNCHANGED <<cleared, unjournaled>>
  BY <1>4 DEF WriteInstalled, Start, RemoveNothing, Bind, Restored, Deleted, Journal, InstallEnd,
              Unlink, Rewrite
<1>5. Prepare \/ GiveUp \/ UNCHANGED <<cleared, unjournaled>>
  BY <1>3, <1>4, Kinds DEF Leaving
<1> QED  BY <1>1, <1>2, <1>5

(* The journal stays consistent. *)
LEMMA JournalSteps == Parts /\ PhaseInv /\ JournalInv /\ Next => JournalInv'
<1> SUFFICES ASSUME Parts, PhaseInv, JournalInv, Next, ~cleared' PROVE JournalInv'
  BY DEF JournalInv
<1> USE DEF Done
<1>0. ~cleared
  BY HistoryKept
<1>1. receipt # None => Readable
  BY <1>0 DEF JournalInv
<1>2. ASSUME receipt' # None => Readable', command' = "none" PROVE JournalInv'
  BY <1>2 DEF JournalInv
<1>3. CASE (\E v \in Versions : InstallBegin(v)) \/ UninstallBegin
  <2>1. UNCHANGED <<receipt, command>> /\ command = "none"
    BY <1>3 DEF InstallBegin, UninstallBegin, PhaseInv
  <2>2. receipt' # None => Readable'
    BY <1>1, <2>1 DEF Readable
  <2> QED  BY <1>2, <2>1, <2>2
<1>4. CASE Prepare
  <2>1. /\ receipt'.state = "prepared" /\ receipt'.done = PreparedProgress
        /\ receipt'.strategy = PlannedStrategy /\ receipt'.bound = FALSE
        /\ receipt = None \/ receipt.staged # plan
    BY <1>4 DEF Prepare, Rewrite
  <2>2. command' = "none"
    BY <1>4 DEF Prepare, PhaseInv
  <2>3. /\ PreparedProgress \in SUBSET {"marketplace_add"}
        /\ PlannedStrategy \in {"install", "refresh_plugin"}
    BY <2>1 DEF PreparedProgress, PlannedStrategy
  <2>4. Readable'
    BY <2>1, <2>3 DEF Readable
  <2> QED  BY <1>2, <2>2, <2>4
<1>5. CASE WriteInstalled
  <2>1. /\ command' = "none" /\ receipt # None /\ receipt.state = "prepared"
        /\ receipt'.state = "installed" /\ receipt'.previous = None /\ SameHeads /\ SameJournal
    BY <1>5, HasReceipt, InstalledMoves
    DEF WriteInstalled, Rewrite, PhaseInv, Parts, PlaceInv, Converging
  <2>2. Readable'
    BY <1>1, <2>1 DEF Readable, SameHeads, SameJournal
  <2> QED  BY <1>2, <2>1, <2>2
<1>6. CASE Start \/ Restored \/ Deleted
  <2>1. /\ command' = "none" /\ receipt # None /\ SameTrees /\ SameHeads /\ SameJournal
        /\ \/ receipt.state = "installed" /\ receipt'.state = "uninstall_commands"
           \/ receipt.state = "uninstall_config" /\ receipt'.state = "uninstall_tree"
           \/ receipt.state = "uninstall_tree" /\ receipt'.state = "uninstall_receipt"
    BY <1>6, HasReceipt, StateMoves DEF Start, Restored, Deleted, Rewrite, States, PhaseInv
  <2>2. Readable'
    BY <1>1, <2>1 DEF Readable, SameTrees, SameHeads, SameJournal
  <2> QED  BY <1>2, <2>1, <2>2
<1>7. CASE Bind
  <2>1. /\ command' = "none" /\ receipt # None /\ receipt.state = "uninstall_commands"
        /\ receipt'.state = "uninstall_config" /\ SameTrees /\ SameJournal
        /\ receipt'.bound = TRUE /\ Done("plugin_remove") /\ Done("marketplace_remove")
    BY <1>7, HasReceipt, Typed, BindMoves DEF Bind, Rewrite, PhaseInv
  <2>2. Readable'
    BY <1>1, <2>1 DEF Readable, SameTrees, SameJournal
  <2> QED  BY <1>2, <2>1, <2>2
<1>8. CASE InstallEnd
  <2>1. /\ command' = "none" /\ receipt # None /\ receipt.state = "installed"
        /\ receipt'.state = receipt.state /\ SameTrees /\ SameHeads
        /\ receipt'.strategy = "complete" /\ receipt'.done = receipt.done
        /\ Done("marketplace_add") /\ Done("plugin_add")
    BY <1>8, HasReceipt, CompleteMoves DEF InstallEnd, Rewrite, PhaseInv
  <2>2. Readable'
    BY <1>1, <2>1 DEF Readable, SameTrees, SameHeads
  <2> QED  BY <1>2, <2>1, <2>2
<1>9. CASE Journal
  <2>1. command \in Commands /\ receipt # None /\ receipt \in Receipts
    BY <1>9, HasReceipt DEF Journal, Parts, PlaceInv
  <2>2. /\ command' = "none" /\ receipt'.state = receipt.state /\ SameTrees /\ SameHeads
        /\ receipt'.strategy = receipt.strategy /\ receipt'.done = receipt.done \cup {command}
    BY <1>9, <2>1, EntryMoves DEF Journal, Rewrite
  <2>3. receipt.state = IF op = "install" THEN "installed" ELSE "uninstall_commands"
    BY <1>9 DEF Journal, PhaseInv
  <2>4. /\ command \in {"plugin_remove", "marketplace_remove"} => receipt.state = "uninstall_commands"
        /\ command = "plugin_refresh_remove" => receipt.strategy = "refresh_plugin"
        /\ command = "plugin_add" =>
             /\ Done("marketplace_add")
             /\ receipt.strategy = "refresh_plugin" => Done("plugin_refresh_remove")
        /\ command = "marketplace_remove" => Done("plugin_remove")
    BY <1>0, <2>3 DEF JournalInv
  <2>5. receipt.state \in {"installed", "uninstall_commands"}
    BY <2>3
  <2>6. Readable'
    BY <1>1, <2>1, <2>2, <2>4, <2>5 DEF Readable, SameTrees, SameHeads
  <2> QED  BY <1>2, <2>2, <2>6
<1>10. CASE RemoveNothing
  <2>1. receipt \in Receipts /\ receipt # None /\ receipt.state = "uninstall_commands"
    BY <1>10, HasReceipt DEF RemoveNothing, PhaseInv
  <2>2. PICK c \in {"plugin_remove", "marketplace_remove"} :
          /\ c = "marketplace_remove" => Done("plugin_remove")
          /\ receipt' = [receipt EXCEPT !.done = @ \cup {c}]
    BY <1>10 DEF RemoveNothing, Rewrite
  <2>3. /\ receipt'.state = receipt.state /\ SameTrees /\ SameHeads
        /\ receipt'.strategy = receipt.strategy /\ receipt'.done = receipt.done \cup {c}
    BY <2>1, <2>2, EntryMoves DEF Commands
  <2>4. Readable'
    BY <1>1, <2>1, <2>2, <2>3 DEF Readable, SameTrees, SameHeads
  <2>5. command' = "none"
    BY <1>10 DEF RemoveNothing, PhaseInv
  <2> QED  BY <1>2, <2>4, <2>5
<1>11. CASE Commanding
  <2>1. UNCHANGED <<receipt, op>> /\ receipt # None
    BY <1>11, HasReceipt DEF Commanding, MarketplaceAdd, RefreshRemove, PluginAdd, PluginRemove,
                             MarketplaceRemove, Ran, GoTo
  <2>2. Readable'
    BY <1>1, <2>1 DEF Readable
  <2>3. CASE MarketplaceAdd \/ RefreshRemove \/ PluginAdd
    <3>1. op = "install"
      BY <2>3 DEF MarketplaceAdd, RefreshRemove, PluginAdd, PhaseInv
    <3> QED  BY <2>1, <2>2, <2>3, <3>1 DEF MarketplaceAdd, RefreshRemove, PluginAdd, Ran, JournalInv
  <2>4. CASE PluginRemove \/ MarketplaceRemove
    <3>1. op = "uninstall"
      BY <2>4 DEF PluginRemove, MarketplaceRemove, PhaseInv
    <3> QED  BY <2>1, <2>2, <2>4, <3>1 DEF PluginRemove, MarketplaceRemove, Ran, JournalInv
  <2> QED  BY <1>11, <2>3, <2>4 DEF Commanding
<1>12. CASE Leaving /\ ~InstallEnd
  <2>1. command' = "none"
    BY <1>12 DEF Leaving, Unlink, GiveUp, Tear, PhaseInv
  <2>2. receipt' \in {receipt, None}
    BY <1>12 DEF Leaving, Unlink, Rewrite, GiveUp, Tear
  <2>3. receipt' # None => Readable'
    BY <1>1, <2>2 DEF Readable
  <2> QED  BY <1>2, <2>1, <2>3
<1>13. CASE Forward \/ Edit
  <2>1. UNCHANGED <<receipt, op, command>>
    BY <1>13 DEF Forward, Converge, Stage, Retire, Activate, Clean, CompareConfig, WriteConfig,
                 CompareBound, Restore, Replace, Sweep, Tombstone, Delete, GoTo, Edit, local
  <2>2. receipt' # None => Readable'
    BY <1>1, <2>1 DEF Readable
  <2> QED  BY <1>0, <2>1, <2>2 DEF JournalInv
<1> QED
  BY <1>3, <1>4, <1>5, <1>6, <1>7, <1>8, <1>9, <1>10, <1>11, <1>12, <1>13, Kinds, Zenon

(* What Codex has follows the journal and the command that has run. *)
LEMMA CodexSteps == Parts /\ PhaseInv /\ TreeInv /\ JournalInv /\ CodexInv /\ Next => CodexInv'
<1> SUFFICES ASSUME Parts, PhaseInv, TreeInv, JournalInv, CodexInv, Next, ~cleared', ~unjournaled'
             PROVE  CodexInv'
  BY DEF CodexInv
<1> USE DEF Done
<1>0. ~cleared /\ ~unjournaled
  BY HistoryKept
<1>1. receipt # None => Readable
  BY <1>0 DEF JournalInv
<1>2. /\ registered <=>
           receipt # None /\ Taken("marketplace_add") /\ ~Taken("marketplace_remove")
      /\ plugin # None <=>
           /\ receipt # None /\ ~Taken("plugin_remove")
           /\ \/ Taken("plugin_add")
              \/ receipt.strategy = "refresh_plugin" /\ ~Taken("plugin_refresh_remove")
      /\ receipt # None /\ Taken("plugin_add") /\ ~Taken("plugin_remove") => plugin = receipt.staged
  BY <1>0 DEF CodexInv
<1>3. CASE Prepare
  <2>1. /\ receipt'.done = PreparedProgress /\ receipt'.strategy = PlannedStrategy
        /\ receipt = None \/ (receipt.staged # plan /\ receipt.state = "installed")
        /\ command' = command /\ command = "none" /\ UNCHANGED <<registered, plugin>>
    BY <1>3 DEF Prepare, Rewrite, PhaseInv, Parts, PlaceInv, codex
  <2>2. receipt' # None
    <3>1. receipt' \in Receipts
      BY <1>3, PreparedReceipt, TypeParts DEF Prepare, Rewrite, PlaceInv, Parts
    <3> QED  BY <3>1, ReceiptAssumption
  <2>3. CASE receipt = None
    <3>1. receipt'.done = {} /\ receipt'.strategy = "install"
      BY <2>1, <2>3 DEF PreparedProgress, PlannedStrategy
    <3> QED  BY <1>2, <2>1, <2>3, <3>1 DEF CodexInv, Taken
  <2>4. CASE receipt # None
    <3>1. /\ receipt'.done = IF Done("marketplace_add") THEN {"marketplace_add"} ELSE {}
          /\ receipt'.strategy = IF PluginPresent THEN "refresh_plugin" ELSE "install"
      BY <2>1, <2>4 DEF PreparedProgress, PlannedStrategy
    <3>2. ~Done("plugin_remove") /\ ~Done("marketplace_remove")
      BY <1>1, <2>1, <2>4 DEF Readable
    <3>3. (registered <=> Done("marketplace_add")) /\ (plugin # None <=> PluginPresent)
      BY <1>2, <2>1, <2>4, <3>2 DEF Taken, PluginPresent
    <3> QED  BY <2>1, <2>2, <3>1, <3>3 DEF CodexInv, Taken
  <2> QED  BY <2>3, <2>4
<1>4. CASE WriteInstalled \/ Start \/ Restored \/ Deleted \/ Bind
  <2>1. /\ receipt # None /\ receipt' # None /\ receipt'.staged = receipt.staged /\ SameJournal
        /\ UNCHANGED <<registered, plugin, command>>
    <3>1. CASE WriteInstalled
      BY <3>1, HasReceipt, InstalledMoves DEF WriteInstalled, Rewrite, codex
    <3>2. CASE Start \/ Restored \/ Deleted
      BY <3>2, HasReceipt, StateMoves DEF Start, Restored, Deleted, Rewrite, States, SameTrees, codex
    <3>3. CASE Bind
      BY <3>3, HasReceipt, Typed, BindMoves DEF Bind, Rewrite, SameTrees, codex
    <3> QED  BY <1>4, <3>1, <3>2, <3>3
  <2> QED  BY <1>2, <2>1 DEF CodexInv, Taken, SameJournal
<1>5. CASE InstallEnd
  <2>1. /\ receipt # None /\ receipt' # None /\ SameTrees /\ receipt'.done = receipt.done
        /\ Done("plugin_add") /\ UNCHANGED <<registered, plugin, command>>
    BY <1>5, HasReceipt, CompleteMoves DEF InstallEnd, Rewrite, codex
  <2> QED  BY <1>2, <2>1 DEF CodexInv, Taken, SameTrees
<1>6. CASE Journal
  <2>1. command \in Commands /\ receipt # None /\ receipt \in Receipts
    BY <1>6, HasReceipt DEF Journal, Parts, PlaceInv
  <2>2. /\ command' = "none" /\ receipt' # None /\ SameTrees
        /\ receipt'.strategy = receipt.strategy /\ receipt'.done = receipt.done \cup {command}
        /\ UNCHANGED <<registered, plugin>>
    BY <1>6, <2>1, EntryMoves DEF Journal, Rewrite, codex
  <2>3. \A c \in Commands : Taken(c)' <=> Taken(c)
    BY <2>2 DEF Taken, Commands
  <2> HIDE DEF Done
  <2> QED  BY <1>2, <2>1, <2>2, <2>3 DEF CodexInv, Commands, SameTrees
<1>7. CASE RemoveNothing
  <2>1. receipt \in Receipts /\ receipt # None /\ command = "none" /\ command' = "none"
        /\ UNCHANGED <<registered, plugin>>
    BY <1>7, HasReceipt DEF RemoveNothing, PhaseInv, Rewrite, codex
  <2>2. PICK c \in {"plugin_remove", "marketplace_remove"} :
          /\ c = "plugin_remove" => ~PluginPresent
          /\ c = "marketplace_remove" => ~Done("marketplace_add")
          /\ receipt' = [receipt EXCEPT !.done = @ \cup {c}]
    BY <1>7 DEF RemoveNothing, Rewrite
  <2>3. /\ receipt' # None /\ SameTrees
        /\ receipt'.strategy = receipt.strategy /\ receipt'.done = receipt.done \cup {c}
    BY <2>1, <2>2, EntryMoves DEF Commands
  <2> QED  BY <1>2, <2>1, <2>2, <2>3 DEF CodexInv, Taken, PluginPresent, SameTrees
<1>8. CASE Commanding
  <2>1. /\ receipt' = receipt /\ receipt \in Receipts /\ receipt # None /\ command = "none"
        /\ receipt.state \in {"installed", "uninstall_commands"}
        /\ pc = "commands" => receipt.state = "installed"
    BY <1>8, HasReceipt DEF Commanding, MarketplaceAdd, RefreshRemove, PluginAdd, PluginRemove,
                            MarketplaceRemove, Ran, PhaseInv
  <2>2. pc = "commands" => ~Done("plugin_remove") /\ ~Done("marketplace_remove")
    BY <1>1, <2>1 DEF Readable
  <2>3. CASE MarketplaceAdd
    BY <1>2, <2>1, <2>2, <2>3 DEF MarketplaceAdd, Ran, CodexInv, Taken
  <2>4. CASE RefreshRemove
    <3>1. ~Done("plugin_add")
      BY <1>1, <2>1, <2>4 DEF RefreshRemove, Readable
    <3> QED  BY <1>2, <2>1, <2>2, <2>4, <3>1 DEF RefreshRemove, Ran, CodexInv, Taken
  <2>5. CASE PluginAdd
    <3>1. trees["active"] = receipt.staged /\ receipt.staged # None
      BY <2>1, <2>5, NoneAssumption DEF TreeInv, Receipts
    <3> QED  BY <1>2, <2>1, <2>2, <2>5, <3>1 DEF PluginAdd, Ran, CodexInv, Taken
  <2>6. CASE PluginRemove
    BY <1>2, <2>1, <2>6 DEF PluginRemove, Ran, CodexInv, Taken
  <2>7. CASE MarketplaceRemove
    BY <1>2, <2>1, <2>7 DEF MarketplaceRemove, Ran, CodexInv, Taken
  <2> QED  BY <1>8, <2>3, <2>4, <2>5, <2>6, <2>7 DEF Commanding
<1>9. CASE Unlink
  <2>1. receipt # None /\ receipt.state = "uninstall_receipt"
    BY <1>9, HasReceipt DEF Unlink, PhaseInv
  <2>2. Done("plugin_remove") /\ Done("marketplace_remove")
    BY <1>1, <2>1 DEF Readable
  <2>3. receipt' = None /\ UNCHANGED <<registered, plugin>>
    BY <1>9 DEF Unlink, Rewrite, codex
  <2> QED  BY <1>2, <2>2, <2>3 DEF CodexInv, Taken
<1>10. CASE GiveUp
  <2>1. command' = command /\ UNCHANGED <<receipt, registered, plugin>>
    BY <1>10 DEF GiveUp, codex
  <2> QED  BY <1>2, <2>1 DEF CodexInv, Taken
<1>11. CASE \/ (\E v \in Versions : InstallBegin(v)) \/ UninstallBegin \/ Forward \/ Tear \/ Edit
  <2>1. UNCHANGED <<receipt, registered, plugin, command>>
    BY <1>11 DEF InstallBegin, UninstallBegin, Forward, Converge, Stage, Retire, Activate, Clean,
                 CompareConfig, WriteConfig, CompareBound, Restore, Replace, Sweep, Tombstone,
                 Delete, Tear, Edit, codex, local
  <2> QED  BY <1>2, <2>1 DEF CodexInv, Taken
<1> QED
  BY <1>3, <1>4, <1>5, <1>6, <1>7, <1>8, <1>9, <1>10, <1>11, Kinds, Zenon DEF Leaving

---------------------------------------------------------------------------
(* IInv holds at first.                                                    *)
LEMMA InitIInv == Init => IInv
<1> SUFFICES ASSUME Init PROVE IInv
  OBVIOUS
<1> USE NoneAssumption
<1>1. TypeOK
  <2>1. config \in Configs /\ Blank \in Configs
    BY DEF Init, Configs, Controls, Blank
  <2> QED  BY <2>1 DEF Init, TypeOK, Steps
<1>2. PlaceInv
  BY DEF Init, PlaceInv, Converging
<1>3. TreesBound
  BY DEF Init, TreesBound, Roots
<1>4. PhaseInv /\ TreeInv /\ ConfigInv /\ JournalInv /\ CodexInv
  BY DEF Init, PhaseInv, TreeInv, ConfigInv, JournalInv, CodexInv, Converging
<1> QED  BY <1>1, <1>2, <1>3, <1>4 DEF IInv

(* Every step keeps IInv.                                                  *)
LEMMA NextIInv == IInv /\ [Next]_vars => IInv'
<1> SUFFICES ASSUME IInv, [Next]_vars PROVE IInv'
  OBVIOUS
<1>1. Parts
  BY TypeParts DEF IInv, Parts
<1>2. CASE Next
  <2>1. PartsTyped' /\ PlaceInv' /\ TreesBound'
    BY <1>1, <1>2, InstallType, InstallPlace, UninstallType, UninstallPlace, OtherType, OtherPlace
    DEF Next
  <2>2. TypeOK'
    BY <2>1 DEF TypeOK, PartsTyped, WorldType, LocalType, GhostType
  <2>3. PhaseInv' /\ TreeInv' /\ ConfigInv' /\ JournalInv' /\ CodexInv'
    BY <1>1, <1>2, PhaseSteps, TreeSteps, ConfigSteps, JournalSteps, CodexSteps DEF IInv
  <2> QED  BY <2>1, <2>2, <2>3 DEF IInv
<1>3. CASE UNCHANGED vars
  <2>1. TypeOK'
    BY <1>3 DEF IInv, TypeOK, vars, codex, local, ghost
  <2>2. PlaceInv' /\ TreesBound'
    BY <1>3 DEF IInv, PlaceInv, TreesBound, HasTree, vars, codex, local, ghost
  <2>3. PhaseInv' /\ TreeInv'
    BY <1>3 DEF IInv, PhaseInv, TreeInv, HasTree, IsPrevious, vars, codex, local
  <2>4. ConfigInv'
    BY <1>3 DEF IInv, ConfigInv, Required, Original, vars, local, ghost
  <2>5. JournalInv' /\ CodexInv'
    BY <1>3 DEF IInv, JournalInv, CodexInv, Readable, Taken, Done, vars, codex, local, ghost
  <2> QED  BY <2>1, <2>2, <2>3, <2>4, <2>5 DEF IInv
<1> QED  BY <1>2, <1>3

(* The inductive invariant holds in every state: the journal has the phase *)
(* and the versions that the step of the operation under way relies on.    *)
THEOREM InvariantHolds == Spec => []IInv
<1>1. Init => IInv
  BY InitIInv
<1>2. IInv /\ [Next]_vars => IInv'
  BY NextIInv
<1> QED  BY <1>1, <1>2, PTL DEF Spec

(* The state of the installer, its journal and its trees is always typed.  *)
THEOREM TypeCorrect == Spec => []TypeOK
<1>1. IInv => TypeOK
  BY DEF IInv
<1> QED  BY <1>1, InvariantHolds, PTL

(* Whatever was interrupted, in any order and any number of times, every   *)
(* tree on disk is one the receipt accounts for, and the active tree that  *)
(* Codex runs is never a part of one.                                      *)
THEOREM TreesAccounted == Spec => []TreesBound
<1>1. IInv => TreesBound
  BY DEF IInv
<1> QED  BY <1>1, InvariantHolds, PTL

(* Between operations no command waits for its journal entry.              *)
LEMMA Settled ==
  ASSUME IInv, op = "none"
  PROVE  command = "none"
  BY DEF IInv, PhaseInv

(* What an operation leaves behind, a later run of it accepts: whatever    *)
(* was interrupted, the receipt is read, and trees and config.toml are in  *)
(* a state that recovery converges, unless config.toml was edited in       *)
(* between, a deletion was cut off or a reinstall reset the journal.       *)
THEOREM FailuresResume == Spec => []Resumable
<1>1. IInv => Resumable
  <2> SUFFICES ASSUME IInv, op = "none", receipt # None, ~cleared,
                      Torn \notin {trees["retired"], trees["removal"]}
               PROVE  /\ Readable
                      /\ receipt.state = "prepared" =>
                           Convergent /\ (~edited => InstallAccepts(receipt.staged))
                      /\ receipt.state # "prepared" =>
                           /\ TreesRemovable
                           /\ ~edited /\ receipt.bound =>
                                config = receipt.before \/ config = receipt.restored
    BY DEF Resumable
  <2>0. /\ receipt.staged \in Versions /\ receipt.previous \in Versions \cup {None}
        /\ receipt.state \in States
        /\ trees \in [Roots -> Versions \cup {None, Torn}]
        /\ Roots = {"active", "staging", "retired", "removal"}
    BY DEF IInv, TypeOK, Receipts, Roots
  <2>1. Readable
    BY DEF IInv, JournalInv
  <2>2. \A r \in Roots : trees[r] \in Versions => trees[r] \in {receipt.staged, receipt.previous}
    BY DEF IInv, TreesBound
  <2>3. trees["active"] # Torn
    BY DEF IInv, TreesBound
  <2>4. ASSUME receipt.state = "prepared"
        PROVE  Convergent /\ (~edited => InstallAccepts(receipt.staged))
    <3>1. /\ trees["removal"] = None /\ trees["retired"] \in {None, receipt.previous}
          /\ trees["active"] = None /\ receipt.previous # None => IsPrevious("retired")
      BY <2>4 DEF IInv, TreeInv, HasTree
    <3>2. Convergent
      BY <2>0, <2>2, <2>3, <3>1, NoneAssumption DEF Convergent, HasTree, IsPrevious
    <3>3. ~edited => config = receipt.after \/ (config = receipt.before /\ Original(config))
      BY <2>4 DEF IInv, ConfigInv
    <3> QED  BY <2>1, <2>4, <3>2, <3>3 DEF InstallAccepts
  <2>5. ASSUME receipt.state # "prepared"
        PROVE  /\ TreesRemovable
               /\ ~edited /\ receipt.bound =>
                    config = receipt.before \/ config = receipt.restored
    <3>1. receipt.previous = None
      BY <2>5 DEF IInv, PlaceInv
    <3>2. ASSUME receipt.state \in {"installed", "uninstall_commands", "uninstall_config"}
          PROVE  TreesRemovable
      BY <3>2, <2>0 DEF IInv, TreeInv, TreesRemovable, HasTree
    <3>3. ASSUME receipt.state = "uninstall_tree"
          PROVE  TreesRemovable
      <4>1. trees["active"] = None \/ trees["removal"] = None
        BY <3>3 DEF IInv, TreeInv, HasTree
      <4> QED  BY <2>0, <2>2, <2>3, <3>1, <3>3, <4>1, NoneAssumption DEF TreesRemovable, HasTree
    <3>4. ASSUME receipt.state = "uninstall_receipt"
          PROVE  TreesRemovable
      BY <3>4 DEF IInv, TreeInv, TreesRemovable, HasTree
    <3>5. TreesRemovable
      BY <2>0, <2>5, <3>2, <3>3, <3>4 DEF States
    <3> QED  BY <3>5 DEF IInv, ConfigInv
  <2> QED  BY <2>1, <2>4, <2>5
<1> QED  BY <1>1, InvariantHolds, PTL

(* Between operations the journal says what Codex has registered, but for  *)
(* commands whose journal entry was lost and journals that were reset.     *)
THEOREM JournalIsKept == Spec => []JournalKept
<1>1. IInv => JournalKept
  <2> SUFFICES ASSUME IInv, op = "none", ~unjournaled, ~cleared
               PROVE  /\ registered <=>
                           receipt # None /\ Done("marketplace_add") /\ ~Done("marketplace_remove")
                      /\ plugin # None <=> receipt # None /\ PluginPresent /\ ~Done("plugin_remove")
    BY DEF JournalKept
  <2>1. CodexInv
    BY DEF IInv
  <2> QED  BY <2>1, Settled DEF CodexInv, Taken, PluginPresent
<1> QED  BY <1>1, InvariantHolds, PTL

(* Codex never has the plugin without the controls that turn its own       *)
(* memory off, unless somebody else changed them.                          *)
THEOREM ControlsGuard == Spec => []ControlsGuardPlugin
<1>1. IInv => ControlsGuardPlugin
  <2> SUFFICES ASSUME IInv, plugin # None, ~edited, ~unjournaled, ~cleared
               PROVE  receipt # None /\ (receipt.state # "prepared" => Required(config))
    BY DEF ControlsGuardPlugin
  <2>1. receipt # None /\ ~Taken("plugin_remove")
    BY DEF IInv, CodexInv
  <2>2. receipt.state \in States /\ Readable
    BY <2>1 DEF IInv, TypeOK, Receipts, JournalInv
  <2>3. receipt.state \notin {"uninstall_config", "uninstall_tree", "uninstall_receipt"}
    BY <2>1, <2>2 DEF Readable, Taken
  <2>4. receipt.state \in {"installed", "uninstall_commands"} => Required(config)
    BY <2>1 DEF IInv, ConfigInv
  <2> QED  BY <2>1, <2>2, <2>3, <2>4 DEF States
<1> QED  BY <1>1, InvariantHolds, PTL

(* An installation that reports itself complete has Codex on the version   *)
(* that was reviewed and staged, whatever it was upgraded from.            *)
THEOREM CompletionIsCurrent == Spec => []CompleteIsCurrent
<1>1. IInv => CompleteIsCurrent
  <2> SUFFICES ASSUME IInv, ReportsComplete, ~cleared, ~unjournaled
               PROVE  plugin = receipt.staged /\ trees["active"] = receipt.staged /\ registered
    BY DEF CompleteIsCurrent
  <2>1. receipt # None /\ receipt.state = "installed" /\ receipt.strategy = "complete"
        /\ command = "none"
    BY Settled DEF ReportsComplete
  <2>2. Readable /\ CodexInv
    BY <2>1 DEF IInv, JournalInv
  <2>3. trees["active"] = receipt.staged
    BY <2>1 DEF IInv, TreeInv
  <2> QED  BY <2>1, <2>2, <2>3 DEF Readable, CodexInv, Taken
<1> QED  BY <1>1, InvariantHolds, PTL

(* The receipt goes only when no tree, no registration and no plugin are   *)
(* left and the operator's controls are back.                              *)
THEOREM UninstallIsClean == Spec => UninstallLeavesNothing
<1>1. ASSUME IInv, [Next]_vars
      PROVE  [receipt # None /\ receipt' = None =>
                /\ \A r \in Roots : trees[r] = None
                /\ config.controls = receipt.controls
                /\ ~unjournaled /\ ~cleared => plugin = None /\ ~registered]_vars
  <2> SUFFICES ASSUME Next, receipt # None, receipt' = None
               PROVE  /\ \A r \in Roots : trees[r] = None
                      /\ config.controls = receipt.controls
                      /\ ~unjournaled /\ ~cleared => plugin = None /\ ~registered
    BY <1>1
  <2>1. Parts
    BY <1>1, TypeParts DEF IInv, Parts
  <2>2. Unlink
    BY <2>1, Transitions DEF Quiet
  <2>3. receipt.state = "uninstall_receipt" /\ command = "none"
    BY <1>1, <2>2 DEF Unlink, IInv, PhaseInv
  <2>4. ~cleared => Done("plugin_remove") /\ Done("marketplace_remove")
    BY <1>1, <2>3 DEF IInv, JournalInv, Readable
  <2>5. ~unjournaled /\ ~cleared => plugin = None /\ ~registered
    BY <1>1, <2>4 DEF IInv, CodexInv, Taken
  <2> QED  BY <2>2, <2>5 DEF Unlink, IsRestored, Original, HasTree
<1> QED  BY <1>1, InvariantHolds, PTL DEF Spec, UninstallLeavesNothing

(* No step of the program loses an edit of the rest of config.toml, made   *)
(* while it ran or while it was stopped, but one that falls between its    *)
(* comparison of the file and the replacement.                             *)
THEOREM EditsSurvive == Spec => EditsKept
<1>1. ASSUME IInv, [Next]_vars
      PROVE  [~raced => config'.rest >= config.rest]_vars
  <2> SUFFICES ASSUME Next, ~raced PROVE config'.rest >= config.rest
    BY <1>1
  <2>1. Parts
    BY <1>1, TypeParts DEF IInv, Parts
  <2>2. config.rest \in Nat
    BY <2>1, Typed DEF Configs
  <2>3. CASE WriteConfig
    <3>1. receipt # None /\ receipt.state = "prepared"
      BY <2>1, <2>3, HasReceipt DEF WriteConfig, Parts, PlaceInv, Converging
    <3>2. config.rest = receipt.before.rest /\ receipt.after.rest = receipt.before.rest
      BY <1>1, <2>3, <3>1 DEF WriteConfig, IInv, ConfigInv
    <3> QED  BY <2>2, <2>3, <3>2 DEF WriteConfig, Replace
  <2>4. CASE Restore
    <3>1. receipt # None /\ receipt.state = "uninstall_config"
      BY <1>1, <2>1, <2>4, HasReceipt DEF Restore, IInv, PhaseInv
    <3>2. config.rest = receipt.before.rest /\ receipt.restored.rest = receipt.before.rest
      BY <1>1, <2>4, <3>1 DEF Restore, IInv, ConfigInv
    <3> QED  BY <2>2, <2>4, <3>2 DEF Restore, Replace
  <2>5. CASE Edit
    BY <2>2, <2>5 DEF Edit
  <2>6. ASSUME ~WriteConfig, ~Restore, ~Edit
        PROVE  config' = config
    <3>1. CASE \/ \E v \in Versions : InstallBegin(v)
               \/ UninstallBegin \/ Forward \/ Commanding \/ GiveUp \/ Tear
      BY <2>6, <3>1
      DEF InstallBegin, UninstallBegin, Forward, Converge, Stage, Retire, Activate, Clean,
          CompareConfig, CompareBound, Sweep, Tombstone, Delete, Commanding, MarketplaceAdd,
          RefreshRemove, PluginAdd, PluginRemove, MarketplaceRemove, Ran, GiveUp, Tear
    <3>2. CASE \/ Prepare \/ WriteInstalled \/ Start \/ RemoveNothing \/ Bind \/ Restored
               \/ Deleted \/ Journal \/ InstallEnd \/ Unlink
      BY <3>2 DEF Prepare, WriteInstalled, Start, RemoveNothing, Bind, Restored, Deleted, Journal,
                  InstallEnd, Unlink, Rewrite
    <3> QED  BY <2>1, <2>6, <3>1, <3>2, Kinds DEF Leaving
  <2> QED  BY <2>2, <2>3, <2>4, <2>5, <2>6
<1> QED  BY <1>1, InvariantHolds, PTL DEF Spec, EditsKept
================================================================================
