---------------------------- MODULE DesktopDemoProofs ---------------------------
(***************************************************************************)
(* Theorems about DesktopDemo.tla, for every set of configurations,        *)
(* fixtures, runtimes and receipts and every bound.                        *)
(***************************************************************************)
EXTENDS DesktopDemo, TLAPS

---------------------------------------------------------------------------
(* Types.                                                                  *)

(* Setting and removing the entry leave a configuration. *)
LEMMA EntryType ==
  ASSUME NEW c \in Configs, NEW parent \in BOOLEAN
  PROVE  /\ WithEntry(c) \in Configs /\ WithEntry(c).managed = "exact"
         /\ WithoutEntry(c, parent) \in Configs /\ WithoutEntry(c, parent).managed = "absent"
  BY DEF WithEntry, WithoutEntry, Configs, Tables

(* What an operation notes when it begins is a plan. *)
LEMMA PlanType ==
  ASSUME NEW c \in Configs, NEW w \in Worlds, NEW write \in BOOLEAN, NEW again \in BOOLEAN
  PROVE  /\ [config |-> c, write |-> write, again |-> again, world |-> w] \in Plans
         /\ [config |-> c, write |-> write, again |-> again, world |-> w] # None
<1>1. [config |-> c, write |-> write, again |-> again, world |-> w] \in Plans
  BY DEF Plans
<1> QED  BY <1>1, ReceiptAssumption

(* A receipt keeps all but its state. *)
LEMMA TransitionType ==
  ASSUME receipt \in Receipts, NEW state \in States, Transition(state)
  PROVE  /\ receipt' \in Receipts /\ receipt' # None
         /\ receipt'.id = receipt.id /\ receipt'.state = state
         /\ receipt'.fixture = receipt.fixture /\ receipt'.before = receipt.before
         /\ receipt'.runtime = receipt.runtime /\ receipt'.normal = receipt.normal
  BY ReceiptAssumption DEF Transition, Receipts

(* What is not nothing is a receipt or a plan. *)
LEMMA Some ==
  ASSUME TypeOK
  PROVE  /\ receipt # None => receipt \in Receipts /\ receipt.id \in 1..MaxInstalls
                              /\ receipt.state \in States /\ receipt.fixture \in Fixtures
         /\ plan # None => plan \in Plans /\ plan.config \in Configs /\ plan.world \in Worlds
                           /\ plan.world.fixture \in Fixtures
         /\ world.fixture \in Fixtures
         /\ files.artifact \in Contents /\ files.quarantine \in Contents
         /\ config.managed \in {"absent", "exact", "drifted"}
  BY DEF TypeOK, Receipts, Plans, Worlds, Configs

---------------------------------------------------------------------------
(* Every action keeps receipts and files in agreement.                     *)

(* An operation ends anywhere. *)
LEMMA GiveUpStep ==
  ASSUME RecordInv, GiveUp
  PROVE  RecordInv'
<1> USE FileAssumption, BoundAssumption, ReceiptAssumption DEF RecordInv, ghost, local, GiveUp, Leave
<1>0. TypeOK /\ StepInv /\ WriteAhead /\ HistoryKept  OBVIOUS
<1>1. TypeOK'
  BY <1>0, Some DEF TypeOK, StepInv, Steps, States
<1>2. StepInv'
  BY <1>0, Some DEF StepInv, TypeOK
<1>3. WriteAhead'
  BY <1>0, Some DEF WriteAhead, StepInv, Contents
<1>4. HistoryKept'
  BY <1>0, Some DEF HistoryKept, StepInv, TypeOK
<1> QED  BY <1>1, <1>2, <1>3, <1>4

(* A setup begins. *)
LEMMA SetupBeginStep ==
  ASSUME RecordInv, SetupBegin
  PROVE  RecordInv'
<1> USE FileAssumption, BoundAssumption, ReceiptAssumption DEF RecordInv, ghost, local, SetupBegin, SetupAccepts, StagingEmpty
<1>0. TypeOK /\ StepInv /\ WriteAhead /\ HistoryKept  OBVIOUS
<1>b. config \in Configs /\ world \in Worlds
  BY <1>0 DEF TypeOK
<1>a. plan' \in Plans /\ plan' # None
  BY <1>b, PlanType
<1>1. TypeOK'
  BY <1>0, Some, <1>a DEF TypeOK, StepInv, Steps, States
<1>2. StepInv'
  BY <1>0, Some, <1>a DEF StepInv, TypeOK
<1>3. WriteAhead'
  BY <1>0, Some, <1>a DEF WriteAhead, StepInv, Contents
<1>4. HistoryKept'
  BY <1>0, Some, <1>a DEF HistoryKept, StepInv, TypeOK
<1> QED  BY <1>1, <1>2, <1>3, <1>4

(* A removed receipt is archived. *)
LEMMA ArchiveStep ==
  ASSUME RecordInv, Archive
  PROVE  RecordInv'
<1> USE FileAssumption, BoundAssumption, ReceiptAssumption DEF RecordInv, ghost, local, Archive, GoTo
<1>0. TypeOK /\ StepInv /\ WriteAhead /\ HistoryKept  OBVIOUS
<1>a. history' \in SUBSET (1..MaxInstalls)
  BY <1>0, Some DEF TypeOK, StepInv
<1>1. TypeOK'
  BY <1>0, Some, <1>a DEF TypeOK, StepInv, Steps, States
<1>2. StepInv'
  BY <1>0, Some, <1>a DEF StepInv, TypeOK
<1>3. WriteAhead'
  BY <1>0, Some, <1>a DEF WriteAhead, StepInv, Contents
<1>4. HistoryKept'
  BY <1>0, Some, <1>a DEF HistoryKept, StepInv, TypeOK
<1> QED  BY <1>1, <1>2, <1>3, <1>4

(* The write-ahead receipt. *)
LEMMA PrepareStep ==
  ASSUME RecordInv, Prepare
  PROVE  RecordInv'
<1> USE FileAssumption, BoundAssumption, ReceiptAssumption DEF RecordInv, ghost, local, Prepare, GoTo
<1>0. TypeOK /\ StepInv /\ WriteAhead /\ HistoryKept  OBVIOUS
<1>a. /\ receipt' \in Receipts /\ receipt' # None /\ receipt'.id = installs' /\ receipt'.state = "prepared"
      /\ receipt'.fixture = plan.world.fixture /\ installs' = installs + 1
      /\ installs \in Nat /\ installs' \in 1..MaxInstalls
  BY <1>0, Some DEF TypeOK, StepInv, Receipts, Plans, Worlds, States
<1>1. TypeOK'
  BY <1>0, Some, <1>a DEF TypeOK, StepInv, Steps, States
<1>2. StepInv'
  BY <1>0, Some, <1>a DEF StepInv, TypeOK
<1>3. WriteAhead'
  BY <1>0, Some, <1>a DEF WriteAhead, StepInv, Contents
<1>4. HistoryKept'
  BY <1>0, Some, <1>a DEF HistoryKept, StepInv, TypeOK
<1> QED  BY <1>1, <1>2, <1>3, <1>4

(* A recovery begins. *)
LEMMA RecoverBeginStep ==
  ASSUME RecordInv, RecoverBegin
  PROVE  RecordInv'
<1> USE FileAssumption, BoundAssumption, ReceiptAssumption DEF RecordInv, ghost, local, RecoverBegin, RecoverAccepts
<1>0. TypeOK /\ StepInv /\ WriteAhead /\ HistoryKept  OBVIOUS
<1> DEFINE w == [fixture |-> receipt.fixture, runtime |-> receipt.runtime,
                normal |-> receipt.normal, ready |-> TRUE]
           write == config.managed = "absent"
<1>b. config \in Configs /\ w \in Worlds /\ w.fixture = receipt.fixture
  BY <1>0, Some DEF TypeOK, Receipts, Worlds
<1>c. plan' = [config |-> config, write |-> write, again |-> TRUE, world |-> w]
  OBVIOUS
<1>d. plan'.world.fixture = receipt.fixture  BY <1>c
<1>f. write \in BOOLEAN  OBVIOUS
<1> HIDE DEF w, write
<1>e. plan' \in Plans /\ plan' # None
  BY <1>b, <1>c, <1>f, PlanType
<1>a. plan' \in Plans /\ plan' # None /\ plan'.world.fixture = receipt.fixture
  BY <1>d, <1>e
<1>1. TypeOK'
  BY <1>0, Some, <1>a DEF TypeOK, StepInv, Steps, States
<1>2. StepInv'
  BY <1>0, Some, <1>a DEF StepInv, TypeOK
<1>3. WriteAhead'
  BY <1>0, Some, <1>a DEF WriteAhead, StepInv, Contents
<1>4. HistoryKept'
  BY <1>0, Some, <1>a DEF HistoryKept, StepInv, TypeOK
<1> QED  BY <1>1, <1>2, <1>3, <1>4

(* The artifact is looked for. *)
LEMMA StageStep ==
  ASSUME RecordInv, Stage
  PROVE  RecordInv'
<1> USE FileAssumption, BoundAssumption, ReceiptAssumption DEF RecordInv, ghost, local, Stage, GoTo
<1>0. TypeOK /\ StepInv /\ WriteAhead /\ HistoryKept  OBVIOUS
<1>1. TypeOK'
  BY <1>0, Some DEF TypeOK, StepInv, Steps, States
<1>2. StepInv'
  BY <1>0, Some DEF StepInv, TypeOK
<1>3. WriteAhead'
  BY <1>0, Some DEF WriteAhead, StepInv, Contents
<1>4. HistoryKept'
  BY <1>0, Some DEF HistoryKept, StepInv, TypeOK
<1> QED  BY <1>1, <1>2, <1>3, <1>4

(* The artifact is written. *)
LEMMA WriteStep ==
  ASSUME RecordInv, Write
  PROVE  RecordInv'
<1> USE FileAssumption, BoundAssumption, ReceiptAssumption DEF RecordInv, ghost, local, Write, GoTo
<1>0. TypeOK /\ StepInv /\ WriteAhead /\ HistoryKept  OBVIOUS
<1>a. files' \in [artifact : Contents, quarantine : Contents, extra : BOOLEAN]
      /\ files'.artifact = plan.world.fixture /\ files'.quarantine = files.quarantine
  BY <1>0, Some DEF TypeOK, StepInv, Contents
<1>1. TypeOK'
  BY <1>0, Some, <1>a DEF TypeOK, StepInv, Steps, States
<1>2. StepInv'
  BY <1>0, Some, <1>a DEF StepInv, TypeOK
<1>3. WriteAhead'
  BY <1>0, Some, <1>a DEF WriteAhead, StepInv, Contents
<1>4. HistoryKept'
  BY <1>0, Some, <1>a DEF HistoryKept, StepInv, TypeOK
<1> QED  BY <1>1, <1>2, <1>3, <1>4

(* The process is killed while it stages. *)
LEMMA StageKilledStep ==
  ASSUME RecordInv, StageKilled
  PROVE  RecordInv'
<1> USE FileAssumption, BoundAssumption, ReceiptAssumption DEF RecordInv, ghost, local, StageKilled, Leave
<1>0. TypeOK /\ StepInv /\ WriteAhead /\ HistoryKept  OBVIOUS
<1>a. files' \in [artifact : Contents, quarantine : Contents, extra : BOOLEAN]
      /\ files'.artifact = files.artifact /\ files'.quarantine = files.quarantine
  BY <1>0, Some DEF TypeOK, StepInv, Contents
<1>1. TypeOK'
  BY <1>0, Some, <1>a DEF TypeOK, StepInv, Steps, States
<1>2. StepInv'
  BY <1>0, Some, <1>a DEF StepInv, TypeOK
<1>3. WriteAhead'
  BY <1>0, Some, <1>a DEF WriteAhead, StepInv, Contents
<1>4. HistoryKept'
  BY <1>0, Some, <1>a DEF HistoryKept, StepInv, TypeOK
<1> QED  BY <1>1, <1>2, <1>3, <1>4

(* The last look before the entry is written. *)
LEMMA CompareStep ==
  ASSUME RecordInv, Compare
  PROVE  RecordInv'
<1> USE FileAssumption, BoundAssumption, ReceiptAssumption DEF RecordInv, ghost, local, Compare, GoTo
<1>0. TypeOK /\ StepInv /\ WriteAhead /\ HistoryKept  OBVIOUS
<1>1. TypeOK'
  BY <1>0, Some DEF TypeOK, StepInv, Steps, States
<1>2. StepInv'
  BY <1>0, Some DEF StepInv, TypeOK
<1>3. WriteAhead'
  BY <1>0, Some DEF WriteAhead, StepInv, Contents
<1>4. HistoryKept'
  BY <1>0, Some DEF HistoryKept, StepInv, TypeOK
<1> QED  BY <1>1, <1>2, <1>3, <1>4

(* The entry is written. *)
LEMMA ReplaceStep ==
  ASSUME RecordInv, Replace
  PROVE  RecordInv'
<1> USE FileAssumption, BoundAssumption, ReceiptAssumption DEF RecordInv, ghost, local, Replace, GoTo
<1>0. TypeOK /\ StepInv /\ WriteAhead /\ HistoryKept  OBVIOUS
<1>a. config' \in Configs /\ config'.managed = "exact"
  BY <1>0, Some, EntryType DEF StepInv
<1>1. TypeOK'
  BY <1>0, Some, <1>a DEF TypeOK, StepInv, Steps, States
<1>2. StepInv'
  BY <1>0, Some, <1>a DEF StepInv, TypeOK
<1>3. WriteAhead'
  BY <1>0, Some, <1>a DEF WriteAhead, StepInv, Contents
<1>4. HistoryKept'
  BY <1>0, Some, <1>a DEF HistoryKept, StepInv, TypeOK
<1> QED  BY <1>1, <1>2, <1>3, <1>4

(* The entry is read again. *)
LEMMA VerifyStep ==
  ASSUME RecordInv, Verify
  PROVE  RecordInv'
<1> USE FileAssumption, BoundAssumption, ReceiptAssumption DEF RecordInv, ghost, local, Verify, GoTo
<1>0. TypeOK /\ StepInv /\ WriteAhead /\ HistoryKept  OBVIOUS
<1>1. TypeOK'
  BY <1>0, Some DEF TypeOK, StepInv, Steps, States
<1>2. StepInv'
  BY <1>0, Some DEF StepInv, TypeOK
<1>3. WriteAhead'
  BY <1>0, Some DEF WriteAhead, StepInv, Contents
<1>4. HistoryKept'
  BY <1>0, Some DEF HistoryKept, StepInv, TypeOK
<1> QED  BY <1>1, <1>2, <1>3, <1>4

(* A recovery reads the entry that is there. *)
LEMMA RecheckStep ==
  ASSUME RecordInv, Recheck
  PROVE  RecordInv'
<1> USE FileAssumption, BoundAssumption, ReceiptAssumption DEF RecordInv, ghost, local, Recheck, GoTo
<1>0. TypeOK /\ StepInv /\ WriteAhead /\ HistoryKept  OBVIOUS
<1>1. TypeOK'
  BY <1>0, Some DEF TypeOK, StepInv, Steps, States
<1>2. StepInv'
  BY <1>0, Some DEF StepInv, TypeOK
<1>3. WriteAhead'
  BY <1>0, Some DEF WriteAhead, StepInv, Contents
<1>4. HistoryKept'
  BY <1>0, Some DEF HistoryKept, StepInv, TypeOK
<1> QED  BY <1>1, <1>2, <1>3, <1>4

(* A failed projection is recorded. *)
LEMMA FailureStep ==
  ASSUME RecordInv, Failure
  PROVE  RecordInv'
<1> USE FileAssumption, BoundAssumption, ReceiptAssumption DEF RecordInv, ghost, local, Failure, Leave
<1>0. TypeOK /\ StepInv /\ WriteAhead /\ HistoryKept  OBVIOUS
<1>a. /\ receipt' \in Receipts /\ receipt' # None /\ receipt # None /\ receipt.state # "removed"
      /\ receipt'.id = receipt.id /\ receipt'.state = "failed" /\ receipt'.fixture = receipt.fixture
  BY <1>0, Some, TransitionType DEF StepInv, States
<1>1. TypeOK'
  BY <1>0, Some, <1>a DEF TypeOK, StepInv, Steps, States
<1>2. StepInv'
  BY <1>0, Some, <1>a DEF StepInv, TypeOK
<1>3. WriteAhead'
  BY <1>0, Some, <1>a DEF WriteAhead, StepInv, Contents
<1>4. HistoryKept'
  BY <1>0, Some, <1>a DEF HistoryKept, StepInv, TypeOK
<1> QED  BY <1>1, <1>2, <1>3, <1>4

(* The installation is looked at once more. *)
LEMMA FinalStep ==
  ASSUME RecordInv, Final
  PROVE  RecordInv'
<1> USE FileAssumption, BoundAssumption, ReceiptAssumption DEF RecordInv, ghost, local, Final, GoTo
<1>0. TypeOK /\ StepInv /\ WriteAhead /\ HistoryKept  OBVIOUS
<1>1. TypeOK'
  BY <1>0, Some DEF TypeOK, StepInv, Steps, States
<1>2. StepInv'
  BY <1>0, Some DEF StepInv, TypeOK
<1>3. WriteAhead'
  BY <1>0, Some DEF WriteAhead, StepInv, Contents
<1>4. HistoryKept'
  BY <1>0, Some DEF HistoryKept, StepInv, TypeOK
<1> QED  BY <1>1, <1>2, <1>3, <1>4

(* The installation is recorded. *)
LEMMA InstallStep ==
  ASSUME RecordInv, Install
  PROVE  RecordInv'
<1> USE FileAssumption, BoundAssumption, ReceiptAssumption DEF RecordInv, ghost, local, Install, Leave
<1>0. TypeOK /\ StepInv /\ WriteAhead /\ HistoryKept  OBVIOUS
<1>a. /\ receipt' \in Receipts /\ receipt' # None /\ receipt # None /\ receipt.state # "removed"
      /\ receipt'.id = receipt.id /\ receipt'.state = "installed" /\ receipt'.fixture = receipt.fixture
  BY <1>0, Some, TransitionType DEF StepInv, States
<1>1. TypeOK'
  BY <1>0, Some, <1>a DEF TypeOK, StepInv, Steps, States
<1>2. StepInv'
  BY <1>0, Some, <1>a DEF StepInv, TypeOK
<1>3. WriteAhead'
  BY <1>0, Some, <1>a DEF WriteAhead, StepInv, Contents
<1>4. HistoryKept'
  BY <1>0, Some, <1>a DEF HistoryKept, StepInv, TypeOK
<1> QED  BY <1>1, <1>2, <1>3, <1>4

(* A teardown begins. *)
LEMMA TeardownBeginStep ==
  ASSUME RecordInv, TeardownBegin
  PROVE  RecordInv'
<1> USE FileAssumption, BoundAssumption, ReceiptAssumption DEF RecordInv, ghost, local, TeardownBegin, TeardownAccepts
<1>0. TypeOK /\ StepInv /\ WriteAhead /\ HistoryKept  OBVIOUS
<1>b. config \in Configs /\ world \in Worlds
  BY <1>0 DEF TypeOK
<1>a. plan' \in Plans /\ plan' # None
  BY <1>b, PlanType
<1>1. TypeOK'
  BY <1>0, Some, <1>a DEF TypeOK, StepInv, Steps, States
<1>2. StepInv'
  BY <1>0, Some, <1>a DEF StepInv, TypeOK
<1>3. WriteAhead'
  BY <1>0, Some, <1>a DEF WriteAhead, StepInv, Contents
<1>4. HistoryKept'
  BY <1>0, Some, <1>a DEF HistoryKept, StepInv, TypeOK
<1> QED  BY <1>1, <1>2, <1>3, <1>4

(* The removal is planned. *)
LEMMA PlanRemovalStep ==
  ASSUME RecordInv, PlanRemoval
  PROVE  RecordInv'
<1> USE FileAssumption, BoundAssumption, ReceiptAssumption DEF RecordInv, ghost, local, PlanRemoval, GoTo
<1>0. TypeOK /\ StepInv /\ WriteAhead /\ HistoryKept  OBVIOUS
<1>a. /\ receipt' \in Receipts /\ receipt' # None /\ receipt # None /\ receipt.state # "removed"
      /\ receipt'.id = receipt.id /\ receipt'.state = "removing" /\ receipt'.fixture = receipt.fixture
  BY <1>0, Some, TransitionType DEF StepInv, States
<1>1. TypeOK'
  BY <1>0, Some, <1>a DEF TypeOK, StepInv, Steps, States
<1>2. StepInv'
  BY <1>0, Some, <1>a DEF StepInv, TypeOK
<1>3. WriteAhead'
  BY <1>0, Some, <1>a DEF WriteAhead, StepInv, Contents
<1>4. HistoryKept'
  BY <1>0, Some, <1>a DEF HistoryKept, StepInv, TypeOK
<1> QED  BY <1>1, <1>2, <1>3, <1>4

(* The last look before the entry is removed. *)
LEMMA CompareUnsetStep ==
  ASSUME RecordInv, CompareUnset
  PROVE  RecordInv'
<1> USE FileAssumption, BoundAssumption, ReceiptAssumption DEF RecordInv, ghost, local, CompareUnset, GoTo
<1>0. TypeOK /\ StepInv /\ WriteAhead /\ HistoryKept  OBVIOUS
<1>1. TypeOK'
  BY <1>0, Some DEF TypeOK, StepInv, Steps, States
<1>2. StepInv'
  BY <1>0, Some DEF StepInv, TypeOK
<1>3. WriteAhead'
  BY <1>0, Some DEF WriteAhead, StepInv, Contents
<1>4. HistoryKept'
  BY <1>0, Some DEF HistoryKept, StepInv, TypeOK
<1> QED  BY <1>1, <1>2, <1>3, <1>4

(* The entry is removed. *)
LEMMA ReplaceUnsetStep ==
  ASSUME RecordInv, ReplaceUnset
  PROVE  RecordInv'
<1> USE FileAssumption, BoundAssumption, ReceiptAssumption DEF RecordInv, ghost, local, ReplaceUnset, GoTo
<1>0. TypeOK /\ StepInv /\ WriteAhead /\ HistoryKept  OBVIOUS
<1>a. config' \in Configs /\ config'.managed = "absent"
  BY <1>0, Some, EntryType DEF StepInv, HadTable
<1>1. TypeOK'
  BY <1>0, Some, <1>a DEF TypeOK, StepInv, Steps, States
<1>2. StepInv'
  BY <1>0, Some, <1>a DEF StepInv, TypeOK
<1>3. WriteAhead'
  BY <1>0, Some, <1>a DEF WriteAhead, StepInv, Contents
<1>4. HistoryKept'
  BY <1>0, Some, <1>a DEF HistoryKept, StepInv, TypeOK
<1> QED  BY <1>1, <1>2, <1>3, <1>4

(* The removal is checked. *)
LEMMA CheckUnsetStep ==
  ASSUME RecordInv, CheckUnset
  PROVE  RecordInv'
<1> USE FileAssumption, BoundAssumption, ReceiptAssumption DEF RecordInv, ghost, local, CheckUnset, GoTo
<1>0. TypeOK /\ StepInv /\ WriteAhead /\ HistoryKept  OBVIOUS
<1>1. TypeOK'
  BY <1>0, Some DEF TypeOK, StepInv, Steps, States
<1>2. StepInv'
  BY <1>0, Some DEF StepInv, TypeOK
<1>3. WriteAhead'
  BY <1>0, Some DEF WriteAhead, StepInv, Contents
<1>4. HistoryKept'
  BY <1>0, Some DEF HistoryKept, StepInv, TypeOK
<1> QED  BY <1>1, <1>2, <1>3, <1>4

(* The artifact takes its quarantine name. *)
LEMMA QuarantineStep ==
  ASSUME RecordInv, Quarantine
  PROVE  RecordInv'
<1> USE FileAssumption, BoundAssumption, ReceiptAssumption DEF RecordInv, ghost, local, Quarantine, GoTo
<1>0. TypeOK /\ StepInv /\ WriteAhead /\ HistoryKept  OBVIOUS
<1>a. files' \in [artifact : Contents, quarantine : Contents, extra : BOOLEAN]
      /\ files'.artifact = None /\ files'.quarantine = files.artifact
  BY <1>0, Some DEF TypeOK, StepInv, Contents
<1>1. TypeOK'
  BY <1>0, Some, <1>a DEF TypeOK, StepInv, Steps, States
<1>2. StepInv'
  BY <1>0, Some, <1>a DEF StepInv, TypeOK
<1>3. WriteAhead'
  BY <1>0, Some, <1>a DEF WriteAhead, StepInv, Contents
<1>4. HistoryKept'
  BY <1>0, Some, <1>a DEF HistoryKept, StepInv, TypeOK
<1> QED  BY <1>1, <1>2, <1>3, <1>4

(* The quarantined artifact is looked at. *)
LEMMA UnlinkStep ==
  ASSUME RecordInv, Unlink
  PROVE  RecordInv'
<1> USE FileAssumption, BoundAssumption, ReceiptAssumption DEF RecordInv, ghost, local, Unlink, GoTo
<1>0. TypeOK /\ StepInv /\ WriteAhead /\ HistoryKept  OBVIOUS
<1>1. TypeOK'
  BY <1>0, Some DEF TypeOK, StepInv, Steps, States
<1>2. StepInv'
  BY <1>0, Some DEF StepInv, TypeOK
<1>3. WriteAhead'
  BY <1>0, Some DEF WriteAhead, StepInv, Contents
<1>4. HistoryKept'
  BY <1>0, Some DEF HistoryKept, StepInv, TypeOK
<1> QED  BY <1>1, <1>2, <1>3, <1>4

(* The quarantined artifact is deleted. *)
LEMMA DeleteStep ==
  ASSUME RecordInv, Delete
  PROVE  RecordInv'
<1> USE FileAssumption, BoundAssumption, ReceiptAssumption DEF RecordInv, ghost, local, Delete, GoTo
<1>0. TypeOK /\ StepInv /\ WriteAhead /\ HistoryKept  OBVIOUS
<1>a. files' \in [artifact : Contents, quarantine : Contents, extra : BOOLEAN]
      /\ files'.artifact = files.artifact /\ files'.quarantine = None
  BY <1>0, Some DEF TypeOK, StepInv, Contents
<1>1. TypeOK'
  BY <1>0, Some, <1>a DEF TypeOK, StepInv, Steps, States
<1>2. StepInv'
  BY <1>0, Some, <1>a DEF StepInv, TypeOK
<1>3. WriteAhead'
  BY <1>0, Some, <1>a DEF WriteAhead, StepInv, Contents
<1>4. HistoryKept'
  BY <1>0, Some, <1>a DEF HistoryKept, StepInv, TypeOK
<1> QED  BY <1>1, <1>2, <1>3, <1>4

(* A quarantined file is to get its name back. *)
LEMMA CheckOriginalStep ==
  ASSUME RecordInv, CheckOriginal
  PROVE  RecordInv'
<1> USE FileAssumption, BoundAssumption, ReceiptAssumption DEF RecordInv, ghost, local, CheckOriginal, GoTo
<1>0. TypeOK /\ StepInv /\ WriteAhead /\ HistoryKept  OBVIOUS
<1>1. TypeOK'
  BY <1>0, Some DEF TypeOK, StepInv, Steps, States
<1>2. StepInv'
  BY <1>0, Some DEF StepInv, TypeOK
<1>3. WriteAhead'
  BY <1>0, Some DEF WriteAhead, StepInv, Contents
<1>4. HistoryKept'
  BY <1>0, Some DEF HistoryKept, StepInv, TypeOK
<1> QED  BY <1>1, <1>2, <1>3, <1>4

(* It gets its name back. *)
LEMMA RestoreStep ==
  ASSUME RecordInv, Restore
  PROVE  RecordInv'
<1> USE FileAssumption, BoundAssumption, ReceiptAssumption DEF RecordInv, ghost, local, Restore, Leave
<1>0. TypeOK /\ StepInv /\ WriteAhead /\ HistoryKept  OBVIOUS
<1>a. files' \in [artifact : Contents, quarantine : Contents, extra : BOOLEAN]
      /\ files'.artifact = files.quarantine /\ files'.quarantine = None
  BY <1>0, Some DEF TypeOK, StepInv, Contents
<1>1. TypeOK'
  BY <1>0, Some, <1>a DEF TypeOK, StepInv, Steps, States
<1>2. StepInv'
  BY <1>0, Some, <1>a DEF StepInv, TypeOK
<1>3. WriteAhead'
  BY <1>0, Some, <1>a DEF WriteAhead, StepInv, Contents
<1>4. HistoryKept'
  BY <1>0, Some, <1>a DEF HistoryKept, StepInv, TypeOK
<1> QED  BY <1>1, <1>2, <1>3, <1>4

(* The staging directory is removed. *)
LEMMA FinishStep ==
  ASSUME RecordInv, Finish
  PROVE  RecordInv'
<1> USE FileAssumption, BoundAssumption, ReceiptAssumption DEF RecordInv, ghost, local, Finish, GoTo, StagingEmpty
<1>0. TypeOK /\ StepInv /\ WriteAhead /\ HistoryKept  OBVIOUS
<1>1. TypeOK'
  BY <1>0, Some DEF TypeOK, StepInv, Steps, States
<1>2. StepInv'
  BY <1>0, Some DEF StepInv, TypeOK
<1>3. WriteAhead'
  BY <1>0, Some DEF WriteAhead, StepInv, Contents
<1>4. HistoryKept'
  BY <1>0, Some DEF HistoryKept, StepInv, TypeOK
<1> QED  BY <1>1, <1>2, <1>3, <1>4

(* What is left is looked at. *)
LEMMA CheckRemovedStep ==
  ASSUME RecordInv, CheckRemoved
  PROVE  RecordInv'
<1> USE FileAssumption, BoundAssumption, ReceiptAssumption DEF RecordInv, ghost, local, CheckRemoved, GoTo, ArtifactsValid
<1>0. TypeOK /\ StepInv /\ WriteAhead /\ HistoryKept  OBVIOUS
<1>1. TypeOK'
  BY <1>0, Some DEF TypeOK, StepInv, Steps, States
<1>2. StepInv'
  BY <1>0, Some DEF StepInv, TypeOK
<1>3. WriteAhead'
  BY <1>0, Some DEF WriteAhead, StepInv, Contents
<1>4. HistoryKept'
  BY <1>0, Some DEF HistoryKept, StepInv, TypeOK
<1> QED  BY <1>1, <1>2, <1>3, <1>4

(* The installation is closed. *)
LEMMA CloseStep ==
  ASSUME RecordInv, Close
  PROVE  RecordInv'
<1> USE FileAssumption, BoundAssumption, ReceiptAssumption DEF RecordInv, ghost, local, Close, Leave
<1>0. TypeOK /\ StepInv /\ WriteAhead /\ HistoryKept  OBVIOUS
<1>a. /\ receipt' \in Receipts /\ receipt' # None /\ receipt # None /\ receipt.state # "removed"
      /\ receipt'.id = receipt.id /\ receipt'.state = "removed" /\ receipt'.fixture = receipt.fixture
  BY <1>0, Some, TransitionType DEF StepInv, States
<1>1. TypeOK'
  BY <1>0, Some, <1>a DEF TypeOK, StepInv, Steps, States
<1>2. StepInv'
  BY <1>0, Some, <1>a DEF StepInv, TypeOK
<1>3. WriteAhead'
  BY <1>0, Some, <1>a DEF WriteAhead, StepInv, Contents
<1>4. HistoryKept'
  BY <1>0, Some, <1>a DEF HistoryKept, StepInv, TypeOK
<1> QED  BY <1>1, <1>2, <1>3, <1>4

(* Somebody edits config.toml. *)
LEMMA EditStep ==
  ASSUME RecordInv, Edit
  PROVE  RecordInv'
<1> USE FileAssumption, BoundAssumption, ReceiptAssumption DEF RecordInv, ghost, local, Edit
<1>0. TypeOK /\ StepInv /\ WriteAhead /\ HistoryKept  OBVIOUS
<1>a. config' \in Configs /\ config'.managed \in {config.managed, "absent", "exact", "drifted"}
      /\ (config'.managed # "absent" => config.managed # "absent") /\ wanted' \in [table : Tables \cup {"any"}, rest : Rests]
  BY <1>0 DEF TypeOK, WantedTable, Configs
<1>1. TypeOK'
  <2>1. intruded' \in BOOLEAN /\ raced' \in BOOLEAN /\ calm' \in BOOLEAN
    BY <1>0, ZenonT(20) DEF TypeOK
  <2>2. /\ config' \in Configs /\ receipt' \in Receipts \cup {None}
        /\ history' \in SUBSET (1..MaxInstalls)
        /\ files' \in [artifact : Contents, quarantine : Contents, extra : BOOLEAN]
        /\ world' \in Worlds /\ op' \in {"none", "setup", "teardown"} /\ pc' \in Steps
        /\ plan' \in Plans \cup {None} /\ seen' \in Configs \cup {None}
        /\ installs' \in 0..MaxInstalls
        /\ wanted' \in [table : Tables \cup {"any"}, rest : Rests]
        /\ edits' \in Nat /\ drifts' \in Nat
    BY <1>0, <1>a DEF TypeOK
  <2> HIDE DEF RecordInv, Edit
  <2> QED  BY <2>1, <2>2 DEF TypeOK
<1>2. StepInv'
  BY <1>0, Some, <1>a DEF StepInv, TypeOK
<1>3. WriteAhead'
  BY <1>0, Some, <1>a DEF WriteAhead, StepInv, Contents
<1>4. HistoryKept'
  BY <1>0, Some, <1>a DEF HistoryKept, StepInv, TypeOK
<1> QED  BY <1>1, <1>2, <1>3, <1>4

(* Fixture, runtimes or integration change. *)
LEMMA DriftStep ==
  ASSUME RecordInv, Drift
  PROVE  RecordInv'
<1> USE FileAssumption, BoundAssumption, ReceiptAssumption DEF RecordInv, ghost, local, Drift, Disturb
<1>0. TypeOK /\ StepInv /\ WriteAhead /\ HistoryKept  OBVIOUS
<1>1. TypeOK'
  <2>1. intruded' \in BOOLEAN /\ raced' \in BOOLEAN /\ calm' \in BOOLEAN
    BY <1>0, ZenonT(20) DEF TypeOK
  <2>2. /\ config' \in Configs /\ receipt' \in Receipts \cup {None}
        /\ history' \in SUBSET (1..MaxInstalls)
        /\ files' \in [artifact : Contents, quarantine : Contents, extra : BOOLEAN]
        /\ world' \in Worlds /\ op' \in {"none", "setup", "teardown"} /\ pc' \in Steps
        /\ plan' \in Plans \cup {None} /\ seen' \in Configs \cup {None}
        /\ installs' \in 0..MaxInstalls
        /\ wanted' \in [table : Tables \cup {"any"}, rest : Rests]
        /\ edits' \in Nat /\ drifts' \in Nat
    BY <1>0 DEF TypeOK
  <2> HIDE DEF RecordInv, Drift, Disturb
  <2> QED  BY <2>1, <2>2 DEF TypeOK
<1>2. StepInv'
  BY <1>0, Some DEF StepInv, TypeOK
<1>3. WriteAhead'
  BY <1>0, Some DEF WriteAhead, StepInv, Contents
<1>4. HistoryKept'
  BY <1>0, Some DEF HistoryKept, StepInv, TypeOK
<1> QED  BY <1>1, <1>2, <1>3, <1>4

(* Somebody is in the staging directory. *)
LEMMA TamperStep ==
  ASSUME RecordInv, Tamper
  PROVE  RecordInv'
<1> USE FileAssumption, BoundAssumption, ReceiptAssumption DEF RecordInv, ghost, local, Tamper, Disturb
<1>0. TypeOK /\ StepInv /\ WriteAhead /\ HistoryKept  OBVIOUS
<1>b. files \in [artifact : Contents, quarantine : Contents, extra : BOOLEAN]
  BY <1>0 DEF TypeOK
<1>c. {None, Drifted} \subseteq Contents  BY DEF Contents
<1>a. /\ files' \in [artifact : Contents, quarantine : Contents, extra : BOOLEAN]
      /\ files'.artifact \in Fixtures => files.artifact \in Fixtures
      /\ files'.quarantine # None => files.quarantine # None
  <2>1. PICK f \in {None, Drifted} :
          \/ files' = [files EXCEPT !.artifact = f]
          \/ files.quarantine # None /\ files' = [files EXCEPT !.quarantine = f]
          \/ files' = [files EXCEPT !.extra = ~@]
    OBVIOUS
  <2> HIDE DEF RecordInv, Tamper
  <2>2. f \in Contents /\ f \notin Fixtures  BY <1>c
  <2>3. CASE files' = [files EXCEPT !.artifact = f]  BY <1>b, <2>2, <2>3
  <2>4. CASE files.quarantine # None /\ files' = [files EXCEPT !.quarantine = f]  BY <1>b, <2>2, <2>4
  <2>5. CASE files' = [files EXCEPT !.extra = ~@]  BY <1>b, <2>5
  <2> QED  BY <2>1, <2>3, <2>4, <2>5
<1>1. TypeOK'
  <2>1. intruded' \in BOOLEAN /\ raced' \in BOOLEAN /\ calm' \in BOOLEAN
    BY <1>0, ZenonT(20) DEF TypeOK
  <2>2. /\ config' \in Configs /\ receipt' \in Receipts \cup {None}
        /\ history' \in SUBSET (1..MaxInstalls)
        /\ files' \in [artifact : Contents, quarantine : Contents, extra : BOOLEAN]
        /\ world' \in Worlds /\ op' \in {"none", "setup", "teardown"} /\ pc' \in Steps
        /\ plan' \in Plans \cup {None} /\ seen' \in Configs \cup {None}
        /\ installs' \in 0..MaxInstalls
        /\ wanted' \in [table : Tables \cup {"any"}, rest : Rests]
        /\ edits' \in Nat /\ drifts' \in Nat
    BY <1>0, <1>a DEF TypeOK
  <2> HIDE DEF RecordInv, Tamper, Disturb
  <2> QED  BY <2>1, <2>2 DEF TypeOK
<1>2. StepInv'
  BY <1>0, Some, <1>a DEF StepInv, TypeOK
<1>3. WriteAhead'
  BY <1>0, Some, <1>a DEF WriteAhead, StepInv, Contents
<1>4. HistoryKept'
  BY <1>0, Some, <1>a DEF HistoryKept, StepInv, TypeOK
<1> QED  BY <1>1, <1>2, <1>3, <1>4

---------------------------------------------------------------------------
(* The specification keeps them in agreement.                              *)

(* The initial states have RecordInv. *)
LEMMA InitRecord ==
  ASSUME Init
  PROVE  RecordInv
<1> USE FileAssumption, BoundAssumption, ReceiptAssumption DEF Init
<1>1. TypeOK
  <2>1. intruded \in BOOLEAN /\ raced \in BOOLEAN /\ calm \in BOOLEAN  BY ZenonT(20)
  <2>2. config \in Configs /\ world \in Worlds /\ wanted \in [table : Tables \cup {"any"}, rest : Rests]
    BY DEF Configs
  <2>3. files \in [artifact : Contents, quarantine : Contents, extra : BOOLEAN]
    BY ZenonT(20) DEF Contents
  <2>4. pc \in Steps /\ installs \in 0..MaxInstalls /\ edits \in Nat /\ drifts \in Nat
    BY DEF Steps
  <2>5. history \in SUBSET (1..MaxInstalls) /\ receipt = None /\ op = "none" /\ plan = None /\ seen = None
    OBVIOUS
  <2> HIDE DEF Init
  <2> QED  BY <2>1, <2>2, <2>3, <2>4, <2>5 DEF TypeOK
<1>2. StepInv /\ WriteAhead /\ HistoryKept
  BY DEF StepInv, WriteAhead, HistoryKept
<1> QED  BY <1>1, <1>2 DEF RecordInv

(* Every step has it after it when it has it before. *)
LEMMA NextRecord ==
  ASSUME RecordInv, [Next]_vars
  PROVE  RecordInv'
<1>1. CASE SetupStep
  BY <1>1, SetupBeginStep, ArchiveStep, PrepareStep, RecoverBeginStep, StageStep, WriteStep,
     StageKilledStep, CompareStep, ReplaceStep, VerifyStep, RecheckStep, FailureStep, FinalStep, InstallStep
     DEF SetupStep
<1>2. CASE TeardownStep
  BY <1>2, TeardownBeginStep, PlanRemovalStep, CompareUnsetStep, ReplaceUnsetStep, CheckUnsetStep,
     QuarantineStep, UnlinkStep, DeleteStep, CheckOriginalStep, RestoreStep, FinishStep,
     CheckRemovedStep, CloseStep DEF TeardownStep
<1>3. CASE GiveUp \/ Others
  BY <1>3, GiveUpStep, EditStep, DriftStep, TamperStep DEF Others
<1>4. CASE UNCHANGED vars
  BY <1>4 DEF vars, local, ghost, RecordInv, TypeOK, StepInv, WriteAhead, HistoryKept
<1> QED  BY <1>1, <1>2, <1>3, <1>4 DEF Next

---------------------------------------------------------------------------
(* Receipt and plan.                                                       *)

(* The steps that write no receipt. *)
Unwritten ==
  \/ SetupBegin \/ Archive \/ RecoverBegin \/ Stage \/ Write \/ StageKilled \/ Compare
  \/ Replace \/ Verify \/ Recheck \/ Final \/ TeardownBegin \/ CompareUnset \/ ReplaceUnset
  \/ CheckUnset \/ Quarantine \/ Unlink \/ Delete \/ CheckOriginal \/ Restore \/ Finish
  \/ CheckRemoved \/ GiveUp \/ Others

(* The steps that write its state. *)
Written == Failure \/ Install \/ PlanRemoval \/ Close

LEMMA Kinds ==
  ASSUME Next
  PROVE  Prepare \/ Written \/ Unwritten
  BY DEF Next, SetupStep, TeardownStep, Written, Unwritten

LEMMA UnwrittenKeeps ==
  ASSUME Unwritten
  PROVE  receipt' = receipt
  BY DEF Unwritten, SetupBegin, Archive, RecoverBegin, Stage, Write, StageKilled, Compare, Replace,
         Verify, Recheck, Final, TeardownBegin, CompareUnset, ReplaceUnset, CheckUnset, Quarantine,
         Unlink, Delete, CheckOriginal, Restore, Finish, CheckRemoved, GiveUp, Others, Edit, Drift, Tamper, Disturb

(* A receipt that gets another state keeps all that it binds. *)
LEMMA WrittenKeeps ==
  ASSUME RecordInv, Written
  PROVE  /\ receipt # None /\ receipt' # None /\ receipt'.before = receipt.before
         /\ receipt'.fixture = receipt.fixture
         /\ receipt'.runtime = receipt.runtime /\ receipt'.normal = receipt.normal
         /\ UNCHANGED <<config, files, world, wanted, raced, calm>>
<1>1. receipt # None /\ receipt \in Receipts
  BY Some DEF RecordInv, StepInv, Written, Failure, Install, PlanRemoval, Close
<1>2. PICK state \in States : Transition(state)
  BY DEF Written, Failure, Install, PlanRemoval, Close, States
<1> QED
  BY <1>1, <1>2, TransitionType DEF Written, Failure, Install, PlanRemoval, Close, ghost

(* The receipt that a setup begins with binds the config.toml it read. *)
LEMMA PrepareWrites ==
  ASSUME RecordInv, Prepare
  PROVE  /\ receipt' # None /\ receipt'.state = "prepared"
         /\ receipt'.before = config /\ receipt'.fixture = plan.world.fixture
         /\ receipt'.runtime = plan.world.runtime /\ receipt'.normal = plan.world.normal
         /\ config.managed = "absent" /\ files.quarantine = None
<1>1. receipt' # None
  BY PrepareStep, ReceiptAssumption DEF RecordInv, StepInv, Prepare, GoTo
<1>2. config.managed = "absent" /\ files.quarantine = None
  BY DEF RecordInv, StepInv, WriteAhead, Prepare
<1> QED  BY <1>1, <1>2 DEF Prepare

LEMMA PlanSteps ==
  ASSUME RecordInv, PlanInv, [Next]_vars
  PROVE  PlanInv'
<1>1. CASE Prepare
  <2>1. plan' = plan /\ pc' = "stage" /\ plan.config = config
    BY <1>1 DEF Prepare, GoTo
  <2> QED  BY <1>1, <2>1, PrepareWrites DEF PlanInv
<1>2. CASE Written
  <2>1. pc' = "idle" \/ (pc = "plan" /\ pc' = "unset" /\ plan' = plan)
    BY <1>2 DEF Written, Failure, Install, PlanRemoval, Close, Leave, GoTo
  <2> QED  BY <1>2, <2>1, WrittenKeeps DEF PlanInv
<1>3. CASE Unwritten
  <2>1. receipt' = receipt
    BY <1>3, UnwrittenKeeps
  <2>2. CASE SetupBegin \/ Archive
    BY <2>1, <2>2 DEF SetupBegin, Archive, GoTo, PlanInv
  <2>3. CASE RecoverBegin
    <3>1. /\ plan'.config = config /\ plan'.write = (config.managed = "absent")
          /\ pc' \in {"failure", "stage", "compare"}
          /\ config.managed = "absent" => config = receipt.before
      BY <2>3 DEF RecoverBegin, RecoverAccepts
    <3> QED  BY <2>1, <3>1 DEF PlanInv
  <2>4. CASE TeardownBegin
    <3>1. /\ plan'.config = config /\ pc' \in {"plan", "unset", "check"}
          /\ pc' \in {"plan", "unset"} => config.managed = "exact"
      BY <2>4 DEF TeardownBegin, TeardownAccepts
    <3> QED  BY <2>1, <3>1 DEF PlanInv
  <2>5. CASE Stage \/ Write \/ Compare \/ Replace \/ Verify \/ Recheck \/ Final
    BY <2>1, <2>5 DEF Stage, Write, Compare, Replace, Verify, Recheck, Final, GoTo, PlanInv
  <2>6. CASE \/ CompareUnset \/ ReplaceUnset \/ CheckUnset \/ Quarantine \/ Unlink \/ Delete
             \/ CheckOriginal \/ Finish \/ CheckRemoved
    BY <2>1, <2>6 DEF CompareUnset, ReplaceUnset, CheckUnset, Quarantine, Unlink, Delete,
                      CheckOriginal, Finish, CheckRemoved, GoTo, PlanInv
  <2>7. CASE StageKilled \/ Restore \/ GiveUp
    BY <2>1, <2>7 DEF StageKilled, Restore, GiveUp, Leave, PlanInv
  <2>8. CASE Others
    BY <2>1, <2>8 DEF Others, Edit, Drift, Tamper, Disturb, local, PlanInv
  <2> QED  BY <1>3, <2>2, <2>3, <2>4, <2>5, <2>6, <2>7, <2>8 DEF Unwritten
<1>4. CASE UNCHANGED vars
  BY <1>4 DEF vars, local, PlanInv
<1> QED  BY <1>1, <1>2, <1>3, <1>4, Kinds

---------------------------------------------------------------------------
(* The operator's configuration.                                           *)

(* What setting and removing the entry change, and what they keep. *)
LEMMA EntryFields ==
  ASSUME NEW c \in Configs, NEW parent \in BOOLEAN
  PROVE  /\ WithEntry(c).managed = "exact" /\ WithEntry(c).rest = c.rest
         /\ WithEntry(c).table = IF c.table = "none" THEN "empty" ELSE c.table
         /\ WithoutEntry(c, parent).managed = "absent" /\ WithoutEntry(c, parent).rest = c.rest
         /\ WithoutEntry(c, parent).table =
              IF c.table = "empty" /\ ~parent THEN "none" ELSE c.table
         /\ c.table \in Tables /\ c.managed \in {"absent", "exact", "drifted"}
         /\ c.managed # "absent" => c.table # "none"
  BY DEF WithEntry, WithoutEntry, Configs

LEMMA TableSteps ==
  ASSUME RecordInv, PlanInv, TableInv, [Next]_vars
  PROVE  TableInv'
<1>0. raced \in BOOLEAN /\ config \in Configs /\ config.table \in Tables
  BY DEF RecordInv, TypeOK, Configs
<1>1. ASSUME UNCHANGED <<config, wanted, raced>>,
             config.managed = "absent" \/ receipt'.before = receipt.before
      PROVE  TableInv'
  BY <1>1 DEF TableInv, HadTable
<1>2. CASE Prepare
  BY <1>1, <1>2, PrepareWrites DEF Prepare, ghost
<1>3. CASE Written
  BY <1>1, <1>3, WrittenKeeps
<1>4. CASE Replace
  <2>1. /\ config' = WithEntry(plan.config) /\ wanted' = wanted /\ receipt' = receipt
        /\ raced' = (raced \/ config # plan.config)
    BY <1>4 DEF Replace
  <2>2. plan.config = receipt.before /\ receipt.before.managed = "absent"
    BY <1>4 DEF Replace, PlanInv, RecordInv, StepInv
  <2>3. ASSUME ~raced, config = plan.config
        PROVE  TableInv'
    <3>1. config.rest = wanted.rest /\ wanted.table \in {"any", config.table}
      BY <2>2, <2>3 DEF TableInv
    <3>2. config' = WithEntry(config) /\ receipt'.before = config
      BY <2>1, <2>2, <2>3
    <3>3. /\ config'.managed = "exact" /\ config'.rest = config.rest
          /\ config'.table = IF config.table = "none" THEN "empty" ELSE config.table
      BY <1>0, <3>2, EntryFields
    <3> QED  BY <1>0, <2>1, <3>1, <3>2, <3>3 DEF TableInv, HadTable, Tables
  <2> QED  BY <1>0, <2>1, <2>3 DEF TableInv
<1>5. CASE ReplaceUnset
  <2>1. /\ config' = WithoutEntry(plan.config, HadTable(receipt.before)) /\ wanted' = wanted
        /\ raced' = (raced \/ config # plan.config)
    BY <1>5 DEF ReplaceUnset
  <2>2. plan.config.managed = "exact"
    BY <1>5 DEF ReplaceUnset, PlanInv
  <2>3. ASSUME ~raced, config = plan.config
        PROVE  TableInv'
    <3> DEFINE had == HadTable(receipt.before)
    <3>1. /\ config.rest = wanted.rest
          /\ wanted.table \in {"any", IF config.table = "used" THEN config.table
                                        ELSE IF had THEN "empty" ELSE "none"}
      BY <2>2, <2>3 DEF TableInv
    <3>2. config' = WithoutEntry(config, had) /\ had \in BOOLEAN /\ config.table # "none"
      BY <1>0, <2>1, <2>2, <2>3, EntryFields DEF HadTable
    <3>3. /\ config'.managed = "absent" /\ config'.rest = config.rest
          /\ config'.table = IF config.table = "empty" /\ ~had THEN "none" ELSE config.table
      BY <1>0, <3>2, EntryFields
    <3> HIDE DEF had
    <3> QED  BY <1>0, <2>1, <3>1, <3>2, <3>3 DEF TableInv, Tables
  <2> QED  BY <1>0, <2>1, <2>3 DEF TableInv
<1>6. CASE Edit
  <2>1. PICK c \in Configs :
          /\ c.managed = "exact" => config.managed = "exact"
          /\ c.managed = "drifted" => config.managed # "absent"
          /\ config' = c /\ wanted' = [table |-> WantedTable(c), rest |-> c.rest]
    BY <1>6 DEF Edit
  <2>2. /\ UNCHANGED <<receipt, raced>> /\ wanted'.table = WantedTable(c) /\ wanted'.rest = c.rest
        /\ c.table \in Tables /\ c.managed \in {"absent", "exact", "drifted"}
        /\ c.managed # "absent" => c.table # "none"
    BY <1>6, <2>1 DEF Edit, Configs
  <2> QED  BY <1>0, <2>1, <2>2 DEF TableInv, WantedTable, HadTable, Tables
<1>7. CASE Unwritten /\ ~Replace /\ ~ReplaceUnset /\ ~Edit
  <2>1. UNCHANGED <<config, wanted, raced>>
    BY <1>7 DEF Unwritten, SetupBegin, Archive, RecoverBegin, Stage, Write, StageKilled, Compare,
                Verify, Recheck, Final, TeardownBegin, CompareUnset, CheckUnset, Quarantine, Unlink,
                Delete, CheckOriginal, Restore, Finish, CheckRemoved, GiveUp, Others, Drift, Tamper, Disturb, ghost
  <2> QED  BY <1>1, <1>7, <2>1, UnwrittenKeeps
<1>8. CASE UNCHANGED vars
  BY <1>1, <1>8 DEF vars, ghost
<1> QED  BY <1>2, <1>3, <1>4, <1>5, <1>6, <1>7, <1>8, Kinds

---------------------------------------------------------------------------
(* Checks of the files, and the steps that rely on them.                   *)

LEMMA WindowSteps ==
  ASSUME RecordInv, WindowInv, [Next]_vars
  PROVE  WindowInv'
<1> USE DEF Windows
<1>0. pc \notin Windows => ~intruded
  BY DEF WindowInv
<1>1. CASE Others
  <2>1. UNCHANGED <<receipt, pc>> /\ calm' = FALSE
    BY <1>1 DEF Others, Edit, Drift, Tamper, Disturb, local
  <2>2. CASE Tamper
    <3>1. intruded' = (intruded \/ pc \in Windows)
      BY <2>2 DEF Tamper
    <3> QED  BY <1>0, <2>1, <3>1 DEF WindowInv
  <2>3. CASE Edit \/ Drift
    <3>1. UNCHANGED <<files, intruded>>
      BY <2>3 DEF Edit, Drift, local
    <3> QED  BY <2>1, <3>1 DEF WindowInv, StagingEmpty
  <2> QED  BY <1>1, <2>2, <2>3 DEF Others
<1>2. CASE Stage
  BY <1>2 DEF Stage, GoTo, WindowInv
<1>3. CASE Unlink \/ CheckOriginal \/ Finish
  BY <1>3 DEF Unlink, CheckOriginal, Finish, GoTo, WindowInv, StagingEmpty
<1>4. CASE CheckRemoved
  <2>1. /\ UNCHANGED <<files, calm>> /\ pc = "closing" /\ pc' = "close"
        /\ intruded' = intruded
    BY <1>4 DEF CheckRemoved, GoTo, ghost, RecordInv, TypeOK
  <2> QED  BY <2>1 DEF WindowInv, StagingEmpty
<1>5. ASSUME ~intruded', pc' \notin Windows PROVE WindowInv'
  BY <1>5 DEF WindowInv
<1>6. CASE SetupBegin \/ RecoverBegin \/ TeardownBegin
  <2>1. intruded' = intruded /\ pc = "idle" /\ pc' \notin Windows
    BY <1>6 DEF SetupBegin, RecoverBegin, TeardownBegin, RecordInv, StepInv
  <2> QED  BY <1>0, <1>5, <2>1
<1>7. CASE \/ Archive \/ Prepare \/ Write \/ StageKilled \/ Compare \/ Replace \/ Verify
           \/ Recheck \/ Failure \/ Final \/ Install
  BY <1>5, <1>7 DEF Archive, Prepare, Write, StageKilled, Compare, Replace, Verify, Recheck,
                    Failure, Final, Install, GoTo, Leave
<1>8. CASE \/ PlanRemoval \/ CompareUnset \/ ReplaceUnset \/ CheckUnset \/ Quarantine \/ Delete
           \/ Restore \/ Close \/ GiveUp
  BY <1>5, <1>8 DEF PlanRemoval, CompareUnset, ReplaceUnset, CheckUnset, Quarantine, Delete, Restore,
                    Close, GiveUp, GoTo, Leave
<1>9. CASE UNCHANGED vars
  BY <1>9 DEF vars, local, ghost, WindowInv, StagingEmpty
<1> QED
  BY <1>1, <1>2, <1>3, <1>4, <1>6, <1>7, <1>8, <1>9, Zenon DEF Next, SetupStep, TeardownStep

---------------------------------------------------------------------------
(* An undisturbed installation.                                            *)

(* Adding the entry changes nothing that is unrelated to it. *)
LEMMA EntryProjected ==
  ASSUME NEW c \in Configs
  PROVE  Unrelated(WithEntry(c), HadTable(c)) = Unrelated(c, HadTable(c))
<1>1. HadTable(c) \in BOOLEAN
  BY DEF HadTable
<1>2. /\ WithEntry(c).rest = c.rest
      /\ WithEntry(c).table = IF c.table = "none" THEN "empty" ELSE c.table
  BY <1>1, EntryFields
<1> QED  BY <1>2 DEF Unrelated, HadTable

(* What a receipt being prepared finds when nobody disturbed it. *)
LEMMA PreparedCalm ==
  ASSUME RecordInv, PlanInv, CalmInv, calm, receipt # None, receipt.state = "prepared"
  PROVE  /\ config.managed \in {"absent", "exact"}
         /\ config.managed = "absent" => config = receipt.before
         /\ config.managed = "exact" => Projected(config)
         /\ files.quarantine = None
<1>1. receipt.before \in Configs /\ receipt.before.managed = "absent"
  BY DEF RecordInv, TypeOK, Receipts, PlanInv
<1>2. config \in {receipt.before, WithEntry(receipt.before)}
  BY DEF CalmInv
<1>3. WithEntry(receipt.before).managed = "exact"
  BY <1>1, EntryType
<1>4. Projected(WithEntry(receipt.before))
  BY <1>1, EntryProjected DEF Projected
<1>5. files.quarantine = None
  BY DEF RecordInv, WriteAhead
<1> QED  BY <1>1, <1>2, <1>3, <1>4, <1>5

(* A setup's steps. *)
LEMMA SetupCalm ==
  ASSUME RecordInv, PlanInv, CalmInv, SetupStep
  PROVE  CalmInv'
<1> USE FileAssumption DEF RuntimesIntact, ArtifactsValid, StagingEmpty
<1>1. CASE SetupBegin
  <2>1. /\ UNCHANGED <<config, receipt, files, world>> /\ pc' \in {"archive", "prepare"}
        /\ plan'.world = world /\ world.ready /\ calm' = (files.artifact = None)
        /\ receipt # None => receipt.state = "removed" /\ StagingEmpty
    BY <1>1 DEF SetupBegin, SetupAccepts
  <2> QED  BY <2>1 DEF CalmInv
<1>2. ASSUME ~SetupBegin, calm' PROVE CalmInv'
  <2>0. calm
    BY <1>2 DEF SetupStep, Archive, Prepare, RecoverBegin, Stage, Write, StageKilled, Compare,
                Replace, Verify, Recheck, Failure, Final, Install, ghost
  <2>1. CASE Archive
    BY <2>0, <2>1 DEF Archive, GoTo, CalmInv
  <2>2. CASE Prepare
    <3>1. /\ UNCHANGED <<config, files, world>> /\ pc' = "stage" /\ plan.world = world
          /\ files.artifact = None /\ world.ready
      BY <2>0, <2>2 DEF Prepare, GoTo, CalmInv
    <3> QED  BY <2>2, <3>1, PrepareWrites DEF CalmInv
  <2>3. ASSUME SetupStep, ~SetupBegin, ~Archive, ~Prepare
        PROVE  CalmInv'
    <3>1. receipt # None /\ receipt.state = "prepared"
      BY <2>3 DEF SetupStep, RecoverBegin, RecoverAccepts, Stage, Write, StageKilled, Compare,
                  Replace, Verify, Recheck, Failure, Final, Install, RecordInv, StepInv
    <3>2. /\ world.ready /\ world.normal = receipt.normal /\ world.runtime = receipt.runtime
          /\ files.artifact # None => files.artifact = receipt.fixture
          /\ config \in {receipt.before, WithEntry(receipt.before)}
          /\ pc \in {"compare", "replace", "verify", "final", "install"} => files.artifact # None
          /\ pc \in {"verify", "final", "install"} => config.managed = "exact"
          /\ pc # "failure"
      BY <2>0, <3>1 DEF CalmInv
    <3>3. /\ config.managed \in {"absent", "exact"} /\ files.quarantine = None
          /\ config.managed = "exact" => Projected(config)
      BY <2>0, <3>1, PreparedCalm
    <3>4. CASE RecoverBegin
      <4>1. /\ UNCHANGED <<config, receipt, files, world>> /\ pc' \in {"stage", "compare"}
            /\ pc' = "compare" => files.artifact # None
        BY <3>3, <3>4 DEF RecoverBegin
      <4> QED  BY <3>1, <3>2, <3>3, <4>1 DEF CalmInv
    <3>5. CASE Stage \/ Write
      <4>1. /\ UNCHANGED <<config, receipt, world>> /\ pc' \in {"write", "compare"}
            /\ plan.world.fixture = receipt.fixture /\ receipt.fixture \in Fixtures
            /\ files \in [artifact : Contents, quarantine : Contents, extra : BOOLEAN]
        BY <3>5, Some DEF Stage, Write, GoTo, RecordInv, StepInv, TypeOK
      <4>2. /\ files'.artifact \in {None, receipt.fixture} /\ files'.quarantine = None
            /\ pc' = "compare" => files'.artifact = receipt.fixture
            /\ receipt.fixture # None
        BY <3>3, <3>5, <4>1 DEF Stage, Write, GoTo
      <4> QED  BY <3>1, <3>2, <4>1, <4>2 DEF CalmInv
    <3>6. CASE StageKilled
      <4>1. /\ UNCHANGED <<config, receipt, world>> /\ pc' = "idle"
            /\ files'.artifact = files.artifact /\ files'.quarantine = files.quarantine
        BY <3>6 DEF StageKilled, Leave, RecordInv, TypeOK
      <4> QED  BY <3>1, <3>2, <3>3, <4>1 DEF CalmInv
    <3>7. CASE Replace
      <4>1. plan.config = receipt.before /\ receipt.before \in Configs
        BY <3>1, <3>7 DEF Replace, PlanInv, RecordInv, TypeOK, Receipts
      <4>2. /\ UNCHANGED <<receipt, files, world>> /\ pc' = "verify"
            /\ config' = WithEntry(receipt.before)
        BY <3>7, <4>1 DEF Replace, GoTo
      <4>3. config'.managed = "exact"
        BY <4>1, <4>2, EntryType
      <4>4. files.artifact # None
        BY <3>2, <3>7 DEF Replace
      <4> QED  BY <3>1, <3>2, <3>3, <4>2, <4>3, <4>4 DEF CalmInv
    <3>8. CASE Compare \/ Verify \/ Recheck \/ Final
      <4>1. /\ UNCHANGED <<config, receipt, files, world>> /\ pc' \in {"replace", "final", "install"}
            /\ pc' \in {"final", "install"} => config.managed = "exact"
            /\ files.artifact # None
        BY <3>2, <3>3, <3>8 DEF Compare, Verify, Recheck, Final, GoTo
      <4> QED  BY <3>1, <3>2, <3>3, <4>1 DEF CalmInv
    <3>9. CASE Failure
      BY <3>2, <3>9 DEF Failure
    <3>10. CASE Install
      <4>1. receipt'.state = "installed"
        BY <3>1, <3>10, Some, TransitionType DEF Install, States, RecordInv
      <4>2. /\ UNCHANGED <<config, files, world>> /\ pc' = "idle" /\ receipt' # None
            /\ receipt'.fixture = receipt.fixture /\ receipt'.runtime = receipt.runtime
            /\ receipt'.normal = receipt.normal
        BY <3>10, WrittenKeeps DEF Written, Install, Leave
      <4>3. config.managed = "exact" /\ files.artifact # None
        BY <3>2, <3>10 DEF Install
      <4> QED  BY <3>2, <3>3, <4>1, <4>2, <4>3 DEF CalmInv
    <3> QED  BY <2>3, <3>4, <3>5, <3>6, <3>7, <3>8, <3>9, <3>10 DEF SetupStep
  <2> QED  BY <1>2, <2>1, <2>2, <2>3
<1>3. CASE ~calm'
  BY <1>3 DEF CalmInv
<1> QED  BY <1>1, <1>2, <1>3

(* A teardown's steps. *)
LEMMA TeardownCalm ==
  ASSUME RecordInv, WindowInv, CalmInv, TeardownStep
  PROVE  CalmInv'
<1> USE FileAssumption DEF RuntimesIntact, ArtifactsValid, StagingEmpty
<1> SUFFICES ASSUME calm' PROVE CalmInv'
  BY DEF CalmInv
<1>0. calm /\ UNCHANGED world
  BY DEF TeardownStep, TeardownBegin, PlanRemoval, CompareUnset, ReplaceUnset, CheckUnset, Quarantine,
         Unlink, Delete, CheckOriginal, Restore, Finish, CheckRemoved, Close, ghost
<1>1. /\ receipt # None /\ receipt.state \in {"failed", "installed", "removing"}
      /\ receipt.fixture \in Fixtures
      /\ files \in [artifact : Contents, quarantine : Contents, extra : BOOLEAN]
  BY Some DEF TeardownStep, TeardownBegin, TeardownAccepts, PlanRemoval, CompareUnset, ReplaceUnset,
              CheckUnset, Quarantine, Unlink, Delete, CheckOriginal, Restore, Finish, CheckRemoved,
              Close, RecordInv, StepInv, TypeOK
<1>2. /\ world.ready /\ world.normal = receipt.normal /\ world.runtime = receipt.runtime
      /\ files.artifact # None => files.artifact = receipt.fixture /\ files.quarantine = None
      /\ files.quarantine # None => receipt.state = "removing" /\ files.quarantine = receipt.fixture
      /\ receipt.state # "failed"
      /\ receipt.state = "installed" => config.managed = "exact" /\ files.artifact # None
      /\ receipt.state = "removing" => config.managed # "drifted"
  BY <1>0, <1>1 DEF CalmInv
<1>3. CASE \/ TeardownBegin \/ CompareUnset \/ CheckUnset \/ Unlink \/ CheckOriginal
           \/ Finish \/ CheckRemoved
  <2>1. /\ UNCHANGED <<config, receipt, files>>
        /\ pc' \in {"plan", "unset", "check", "removed_entry", "finish", "unlink", "quarantine",
                    "delete", "restore", "closing", "close"}
    BY <1>3 DEF TeardownBegin, CompareUnset, CheckUnset, Unlink, CheckOriginal, Finish, CheckRemoved,
                GoTo
  <2> QED  BY <1>0, <1>1, <1>2, <2>1 DEF CalmInv
<1>4. CASE PlanRemoval
  <2>1. receipt'.state = "removing"
    BY <1>1, <1>4, Some, TransitionType DEF PlanRemoval, States, RecordInv
  <2>2. /\ UNCHANGED <<config, files>> /\ pc' = "unset" /\ receipt' # None
        /\ receipt'.fixture = receipt.fixture /\ receipt'.runtime = receipt.runtime
        /\ receipt'.normal = receipt.normal
    BY <1>4, WrittenKeeps DEF Written, PlanRemoval, GoTo
  <2> QED  BY <1>0, <1>1, <1>2, <2>1, <2>2 DEF CalmInv
<1>5. CASE ReplaceUnset
  <2>1. plan.config \in Configs /\ HadTable(receipt.before) \in BOOLEAN
    BY <1>5, Some DEF ReplaceUnset, RecordInv, StepInv, HadTable
  <2>2. UNCHANGED <<receipt, files>> /\ pc' = "check" /\ config'.managed = "absent"
    BY <1>5, <2>1, EntryType DEF ReplaceUnset, GoTo
  <2>3. receipt.state = "removing"
    BY <1>5 DEF ReplaceUnset, RecordInv, StepInv
  <2> QED  BY <1>0, <1>1, <1>2, <2>2, <2>3 DEF CalmInv
<1>6. CASE Quarantine \/ Delete \/ Restore
  <2>1. receipt.state = "removing" /\ UNCHANGED <<config, receipt>>
    BY <1>6 DEF Quarantine, Delete, Restore, RecordInv, StepInv
  <2>2. /\ pc' \in {"unlink", "finish", "idle"}
        /\ files'.artifact # None => files'.artifact = receipt.fixture /\ files'.quarantine = None
        /\ files'.quarantine # None => files'.quarantine = receipt.fixture
    BY <1>1, <1>2, <1>6 DEF Quarantine, Delete, Restore, GoTo, Leave
  <2> QED  BY <1>0, <1>1, <1>2, <2>1, <2>2 DEF CalmInv
<1>7. CASE Close
  <2>1. receipt'.state = "removed"
    BY <1>1, <1>7, Some, TransitionType DEF Close, States, RecordInv
  <2>2. UNCHANGED files /\ pc' = "idle"
    BY <1>7 DEF Close, Leave
  <2>3. StagingEmpty
    BY <1>0, <1>7 DEF Close, WindowInv
  <2> QED  BY <2>1, <2>2, <2>3 DEF CalmInv
<1> QED  BY <1>3, <1>4, <1>5, <1>6, <1>7 DEF TeardownStep

LEMMA CalmSteps ==
  ASSUME RecordInv, PlanInv, WindowInv, CalmInv, [Next]_vars
  PROVE  CalmInv'
<1>1. CASE GiveUp
  BY <1>1 DEF GiveUp, Leave, ghost, CalmInv, RuntimesIntact, ArtifactsValid, StagingEmpty
<1>2. CASE Others
  BY <1>2 DEF Others, Edit, Drift, Tamper, Disturb, CalmInv
<1>3. CASE UNCHANGED vars
  BY <1>3 DEF vars, local, ghost, CalmInv, RuntimesIntact, ArtifactsValid, StagingEmpty
<1> QED  BY <1>1, <1>2, <1>3, SetupCalm, TeardownCalm DEF Next

---------------------------------------------------------------------------
(* The specification keeps the invariant.                                  *)

(* The initial states have the invariant. *)
LEMMA InitInv ==
  ASSUME Init
  PROVE  IInv
<1>1. config.managed = "absent"
  BY DEF Init
<1>2. PlanInv /\ WindowInv /\ CalmInv
  BY DEF Init, PlanInv, WindowInv, CalmInv
<1>3. TableInv
  BY <1>1 DEF Init, TableInv
<1> QED  BY <1>2, <1>3, InitRecord DEF IInv

(* Every step has it after it when it has it before. *)
LEMMA NextInv ==
  ASSUME IInv, [Next]_vars
  PROVE  IInv'
<1> USE DEF IInv
<1> QED  BY NextRecord, PlanSteps, TableSteps, WindowSteps, CalmSteps

(* Every reachable state is one of the inductive invariant: the receipt is *)
(* in the state that the step of the operation presumes, whatever was      *)
(* interrupted before (setup_desktop_demo, teardown_desktop_demo).         *)
THEOREM InvariantHolds == Spec => []IInv
<1>1. Init => IInv
  BY InitInv
<1>2. IInv /\ [Next]_vars => IInv'
  BY NextInv
<1> QED  BY <1>1, <1>2, PTL DEF Spec

(* Nothing of the demo is anywhere without a receipt that leads to it      *)
(* (_build_receipt before _stage_fixture; the planned quarantine).         *)
THEOREM ReceiptComesFirst == Spec => []WriteAhead
<1>1. IInv => WriteAhead  BY DEF IInv, RecordInv
<1> QED  BY <1>1, InvariantHolds, PTL

(* No removed installation is lost to the next setup                       *)
(* (_archive_removed_receipt).                                             *)
THEOREM ArchiveIsWhole == Spec => []HistoryKept
<1>1. IInv => HistoryKept  BY DEF IInv, RecordInv
<1> QED  BY <1>1, InvariantHolds, PTL

(* A file of somebody else stays, and no receipt is closed over one, but   *)
(* for what comes between a check and the step that relies on it           *)
(* (_stage_fixture, _anchored_remove_artifact, rmdir of the staging        *)
(* directory).                                                             *)
THEOREM OthersFilesStay == Spec => ForeignKept
<1> DEFINE Kept ==
      ~intruded /\ ~Tamper =>
       /\ files.artifact = Drifted /\ files'.artifact # Drifted =>
            files'.quarantine = Drifted /\ files.quarantine # Drifted
       /\ files.quarantine = Drifted /\ files'.quarantine # Drifted =>
            files'.artifact = Drifted /\ files.artifact # Drifted
       /\ files.extra => files'.extra
       /\ receipt' # receipt /\ receipt'.state = "removed" => StagingEmpty
<1>1. ASSUME IInv, [Next]_vars
      PROVE  [Kept]_vars
  <2> USE FileAssumption, ReceiptAssumption DEF local, ghost
  <2>0. TypeOK /\ StepInv /\ WindowInv  BY <1>1 DEF IInv, RecordInv
  <2>1. SUFFICES ASSUME Next, ~intruded PROVE Kept
    BY <1>1
  <2>2. CASE Prepare
    <3>1. receipt'.state = "prepared"  BY <2>2 DEF Prepare
    <3> QED  BY <2>2, <3>1 DEF Prepare
  <2>3. ASSUME NEW state \in {"failed", "installed", "removing"}, Transition(state), UNCHANGED files,
               receipt # None
        PROVE  Kept
    BY <2>0, <2>3, Some, TransitionType DEF States
  <2>4. CASE Failure \/ Install \/ PlanRemoval
    BY <2>0, <2>3, <2>4 DEF Failure, Install, PlanRemoval, StepInv
  <2>5. CASE Close
    <3>1. StagingEmpty
      BY <2>0, <2>1, <2>5 DEF Close, WindowInv
    <3> QED  BY <2>5, <3>1 DEF Close
  <2>6. CASE Write \/ StageKilled
    <3>1. Write => files.artifact = None
      BY <2>0, <2>1 DEF Write, WindowInv
    <3> QED  BY <2>0, <2>6, <3>1, Some DEF Write, StageKilled, TypeOK, StepInv
  <2>7. CASE Quarantine
    BY <2>0, <2>7, Some DEF Quarantine, TypeOK, StepInv
  <2>8. CASE Delete
    <3>1. files.quarantine = receipt.fixture
      BY <2>0, <2>1, <2>8 DEF Delete, WindowInv
    <3> QED  BY <2>0, <2>8, <3>1, Some DEF Delete, TypeOK, StepInv
  <2>9. CASE Restore
    <3>1. files.artifact = None
      BY <2>0, <2>1, <2>9 DEF Restore, WindowInv
    <3> QED  BY <2>0, <2>9, <3>1 DEF Restore, TypeOK
  <2>10. CASE Tamper
    BY <2>10
  <2>11. CASE Unwritten /\ ~Write /\ ~StageKilled /\ ~Quarantine /\ ~Delete /\ ~Restore /\ ~Tamper
    <3>1. UNCHANGED <<receipt, files>>
      BY <2>11 DEF Unwritten, SetupBegin, Archive, RecoverBegin, Stage, Compare, Replace, Verify,
                   Recheck, Final, TeardownBegin, CompareUnset, ReplaceUnset, CheckUnset, Unlink,
                   CheckOriginal, Finish, CheckRemoved, GiveUp, Others, Edit, Drift, Disturb
    <3> QED  BY <3>1
  <2> HIDE DEF Kept
  <2> QED
    BY <2>1, <2>2, <2>4, <2>5, <2>6, <2>7, <2>8, <2>9, <2>10, <2>11, Kinds DEF Written
<1> QED  BY <1>1, InvariantHolds, PTL DEF Spec, ForeignKept

(* Through any sequence of setups, recoveries, removals and interruptions  *)
(* the operator's own configuration is what the operator made it, unless   *)
(* an edit fell between a comparison and the replacement that follows it   *)
(* (_set_managed, _remove_managed).                                        *)
THEOREM OperatorConfigSurvives == Spec => []OperatorConfigKept
<1>1. IInv => OperatorConfigKept
  BY DEF IInv, TableInv, OperatorConfigKept
<1> QED  BY <1>1, InvariantHolds, PTL

(* An operation that was interrupted anywhere is accepted again as long as *)
(* nobody has disturbed the installation since its setup began             *)
(* (_setup_recovery, teardown_desktop_demo, a new setup).                  *)
THEOREM InterruptionsResume == Spec => []Resumable
<1>1. IInv => Resumable
  <2> SUFFICES ASSUME IInv, op = "none", calm, receipt # None
               PROVE  /\ receipt.state = "prepared" => RecoverAccepts
                      /\ receipt.state \in {"failed", "installed", "removing"} => TeardownAccepts
                      /\ receipt.state = "removed" /\ world.ready => SetupAccepts
    BY DEF Resumable
  <2>1. ASSUME receipt.state # "removed"
        PROVE  /\ world.ready /\ world.normal = receipt.normal /\ RuntimesIntact /\ ArtifactsValid
               /\ receipt.state # "failed"
               /\ receipt.state = "installed" => config.managed = "exact" /\ files.artifact # None
               /\ receipt.state = "removing" => config.managed # "drifted"
    BY <2>1 DEF IInv, CalmInv
  <2>2. receipt.state = "prepared" => RecoverAccepts
    BY <2>1, PreparedCalm DEF IInv, RecoverAccepts
  <2>3. config.managed \in {"absent", "exact", "drifted"}
    BY Some DEF IInv, RecordInv
  <2>4. receipt.state \in {"failed", "installed", "removing"} => TeardownAccepts
    BY <2>1, <2>3 DEF TeardownAccepts
  <2>5. receipt.state = "removed" => config.managed = "absent" /\ StagingEmpty
    BY DEF IInv, RecordInv, WriteAhead, CalmInv
  <2> QED  BY <2>2, <2>4, <2>5 DEF SetupAccepts
<1> QED  BY <1>1, InvariantHolds, PTL
================================================================================
