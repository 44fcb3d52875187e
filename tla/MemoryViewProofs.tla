---------------------------- MODULE MemoryViewProofs ---------------------------
(***************************************************************************)
(* Theorems about MemoryView.tla, for every number of candidates,          *)
(* memories, requests and commands.                                        *)
(***************************************************************************)
EXTENDS MemoryView, TLAPS

---------------------------------------------------------------------------
(* The functions on views.                                                 *)

(* A commit, by replay or by its projector, gives a view. *)
LEMMA CommitType ==
  ASSUME NEW v \in Views, NEW m \in Mems, NEW s \in Statuses, NEW n \in Nat
  PROVE  ReplayCommit(v, m, s, n) \in Views /\ ProjectCommit(v, m, s, n) \in Views
  BY DEF Views, ReplayCommit, ProjectCommit, Row

(* An approval gives a view. *)
LEMMA ApprovalType ==
  ASSUME NEW v \in Views, NEW m \in Mems, NEW c, NEW n \in Nat
  PROVE  ReplayApproved(v, c, m, n) \in Views /\ ProjectApproval(v, c, m, n) \in Views
  BY DEF Views, Statuses, ReplayApproved, ProjectApproval, ReplayCommit, ProjectCommit, Row

(* A quarantine and a block give views. *)
LEMMA QuarantineType ==
  ASSUME NEW v \in Views, NEW c \in Cands
  PROVE  /\ ReplayQuarantined(v, c) \in Views /\ ProjectQuarantine(v, c) \in Views
         /\ ReplayBlocked(v, c) \in Views /\ ProjectBlock(v, c) \in Views
  BY DEF Views, ReplayQuarantined, ProjectQuarantine, ReplayBlocked, ProjectBlock

(* The end of any set of memories gives a view. *)
LEMMA EndedType ==
  ASSUME NEW v \in Views, NEW S, NEW s \in Statuses, NEW n \in Nat
  PROVE  ReplayEnded(v, S, s, n) \in Views /\ ProjectEnded(v, S, s, n) \in Views
  BY DEF Views, ReplayEnded, ProjectEnded, Row

(* From equal tables, every projector does what the replay does. *)
LEMMA ProjectorsReplay ==
  ASSUME NEW v, NEW m, NEW c, NEW S, NEW s, NEW n
  PROVE  /\ ProjectCommit(v, m, s, n) = ReplayCommit(v, m, s, n)
         /\ ProjectApproval(v, c, m, n) = ReplayApproved(v, c, m, n)
         /\ ProjectQuarantine(v, c) = ReplayQuarantined(v, c)
         /\ ProjectBlock(v, c) = ReplayBlocked(v, c)
         /\ ProjectEnded(v, S, s, n) = ReplayEnded(v, S, s, n)
  BY DEF ProjectCommit, ReplayCommit, ProjectApproval, ReplayApproved,
         ProjectQuarantine, ReplayQuarantined, ProjectBlock, ReplayBlocked,
         ProjectEnded, ReplayEnded

(* What a commit does to the three tables of a view. *)
LEMMA CommitFacts ==
  ASSUME NEW v \in Views, NEW m \in Mems, NEW s \in Statuses \ {"absent"}, NEW n \in Nat
  PROVE  /\ ReplayCommit(v, m, s, n).active = v.active \cup {m}
         /\ ReplayCommit(v, m, s, n).quarantine = v.quarantine
         /\ \A x \in Mems : Known(ReplayCommit(v, m, s, n), x) <=> Known(v, x) \/ x = m
  BY DEF ReplayCommit, Known, Row, Views

(* What an approval does to them. *)
LEMMA ApprovalFacts ==
  ASSUME NEW v \in Views, NEW m \in Mems, NEW c, NEW n \in Nat
  PROVE  /\ ReplayApproved(v, c, m, n).active = v.active \cup {m}
         /\ ReplayApproved(v, c, m, n).quarantine = v.quarantine \ {c}
         /\ \A x \in Mems : Known(ReplayApproved(v, c, m, n), x) <=> Known(v, x) \/ x = m
  BY DEF ReplayCommit, ReplayApproved, Known, Row, Views

(* What the end of memories does to them. *)
LEMMA EndedFacts ==
  ASSUME NEW v \in Views, NEW S, NEW s \in Statuses \ {"absent"}, NEW n \in Nat
  PROVE  /\ ReplayEnded(v, S, s, n).active = v.active \ S
         /\ ReplayEnded(v, S, s, n).quarantine = v.quarantine
         /\ \A x \in Mems : Known(ReplayEnded(v, S, s, n), x) <=> Known(v, x)
  BY DEF ReplayEnded, Known, Row, Views

(* What a quarantine and a block do to them. *)
LEMMA QuarantineFacts ==
  ASSUME NEW v \in Views, NEW c
  PROVE  /\ ReplayQuarantined(v, c).active = v.active
         /\ ReplayQuarantined(v, c).quarantine = v.quarantine \cup {c}
         /\ \A x \in Mems : Known(ReplayQuarantined(v, c), x) <=> Known(v, x)
         /\ ReplayBlocked(v, c).active = v.active
         /\ ReplayBlocked(v, c).quarantine = v.quarantine \ {c}
         /\ \A x \in Mems : Known(ReplayBlocked(v, c), x) <=> Known(v, x)
  BY DEF ReplayQuarantined, ReplayBlocked, Known, Views

---------------------------------------------------------------------------
(* Types.                                                                  *)

LocalType ==
  /\ op \in [Tasks -> Ops \cup {"none"}]
  /\ at \in [Tasks -> Places]
  /\ arg \in [Tasks -> SUBSET (Mems \cup Cands)]
  /\ copy \in [Tasks -> Views]
  /\ gone \in [Tasks -> SUBSET Mems]
  /\ misled \in SUBSET Tasks

(* No rows at all are a view. *)
LEMMA NoRowsType == NoRows \in Views
  BY DEF NoRows, Views, Row, Statuses

(* The end of an operation leaves well-typed locals. *)
LEMMA FinishType ==
  ASSUME LocalType, NEW t \in Tasks, Finish(t)
  PROVE  LocalType'
  BY NoRowsType DEF LocalType, Finish, Places

(* A move inside an operation leaves well-typed locals. *)
LEMMA GoToType ==
  ASSUME LocalType, NEW t \in Tasks, NEW place \in Places,
         NEW S \in SUBSET (Mems \cup Cands), GoTo(t, place, S)
  PROVE  LocalType'
  BY DEF LocalType, GoTo

(* A verification leaves Boolean verdicts, and so does one of the chain. *)
LEMMA VerifiedType ==
  ASSUME healthy \in [Procs -> BOOLEAN], compared \in BOOLEAN,
         NEW t, NEW ok \in BOOLEAN, Verified(t, ok) \/ ChainVerified(t, ok)
  PROVE  healthy' \in [Procs -> BOOLEAN] /\ compared' \in BOOLEAN
  BY DEF Verified, ChainVerified

TablesType ==
  /\ replay \in Views /\ view \in Views /\ seq \in Nat
  /\ fate \in [Cands -> Fates]

RestType ==
  /\ elapsed \in SUBSET Mems
  /\ healthy \in [Procs -> BOOLEAN]
  /\ compared \in BOOLEAN
  /\ injected \in SUBSET Mems
  /\ stops \in Nat

(* TypeOK in three parts: tables, locals, the rest. *)
LEMMA TypeParts == TypeOK <=> TablesType /\ LocalType /\ RestType
  BY DEF TypeOK, TablesType, LocalType, RestType

(* What TypeOK says of the parts the invariant's proof needs. *)
LEMMA TypeUse ==
  TypeOK => LocalType /\ replay \in Views /\ view \in Views /\ seq \in Nat
            /\ fate \in [Cands -> Fates]
  BY DEF TypeOK, LocalType

(* Every step keeps the types. *)
LEMMA TypeStep == TypeOK /\ [Next]_vars => TypeOK'
<1> SUFFICES ASSUME TablesType, LocalType, RestType, [Next]_vars
             PROVE  TablesType' /\ LocalType' /\ RestType'
  BY TypeParts DEF TypeOK, TablesType, LocalType, RestType
<1> USE DEF tables, local, health
<1>1. ASSUME NEW t \in Tasks, RequestStep(t) PROVE TablesType' /\ LocalType' /\ RestType'
  <2>1. ASSUME NEW o \in Ops, Begin(t, o) PROVE TablesType' /\ LocalType' /\ RestType'
    <3>1. Ended \subseteq Mems
      BY DEF Ended
    <3>2. LocalType'
      BY <2>1, <3>1 DEF Begin, LocalType, RestType, Places
    <3> QED  BY <2>1, <3>2 DEF Begin, TablesType, RestType
  <2>2. CASE Acquire(t)
    BY <2>2, GoToType DEF Acquire, TablesType, RestType, Places
  <2>3. CASE Abandon(t)
    BY <2>3, FinishType DEF Abandon, TablesType, RestType
  <2>4. CASE VerifyHistory(t)
    <3>1. PICK ok \in BOOLEAN : Verified(t, ok) /\ IF ok THEN GoTo(t, "find", {}) ELSE Finish(t)
      BY <2>4 DEF VerifyHistory
    <3>2. LocalType'
      BY <3>1, GoToType, FinishType DEF Places
    <3> QED  BY <2>4, <3>1, <3>2, VerifiedType DEF VerifyHistory, TablesType, RestType
  <2>5. CASE VerifyChain(t)
    <3>1. PICK ok \in BOOLEAN : /\ ChainVerified(t, ok)
                                /\ IF ok THEN GoTo(t, "find", {}) ELSE Finish(t)
      BY <2>5 DEF VerifyChain
    <3>2. LocalType'
      BY <3>1, GoToType, FinishType DEF Places
    <3> QED  BY <2>5, <3>1, <3>2, VerifiedType DEF VerifyChain, TablesType, RestType
  <2>6. CASE Check(t)
    BY <2>6, FinishType, VerifiedType DEF Check, TablesType, RestType
  <2>7. CASE VerifyLedger(t)
    BY <2>7, FinishType, VerifiedType DEF VerifyLedger, TablesType, RestType
  <2>8. CASE CutOff(t)
    <3>1. compared' \in BOOLEAN
      BY <2>8 DEF CutOff
    <3>2. stops' \in Nat
      BY <2>8 DEF CutOff, RestType
    <3>3. LocalType' /\ UNCHANGED <<tables, elapsed, healthy, injected>>
      BY <2>8, FinishType DEF CutOff
    <3> QED  BY <3>1, <3>2, <3>3 DEF TablesType, RestType
  <2> QED  BY <1>1, <2>1, <2>2, <2>3, <2>4, <2>5, <2>6, <2>7, <2>8 DEF RequestStep
<1>2. ASSUME NEW t \in Tasks, TrustStep(t) PROVE TablesType' /\ LocalType' /\ RestType'
  <2>1. CASE FindActive(t)
    <3>1. PICK m \in view.active : GoTo(t, "append", {m})
      BY <2>1 DEF FindActive
    <3>2. m \in Mems
      BY DEF TablesType, Views
    <3> QED  BY <2>1, <3>1, <3>2, GoToType DEF FindActive, TablesType, RestType, Places
  <2>2. CASE FindQuarantined(t)
    <3>1. PICK c \in view.quarantine : GoTo(t, "append", {c})
      BY <2>2 DEF FindQuarantined
    <3>2. c \in Cands
      BY DEF TablesType, Views
    <3> QED  BY <2>2, <3>1, <3>2, GoToType DEF FindQuarantined, TablesType, RestType, Places
  <2>3. CASE FindRescanned(t)
    <3>1. PICK m \in replay.active : GoTo(t, "append", {m})
      BY <2>3 DEF FindRescanned
    <3>2. m \in Mems
      BY DEF TablesType, Views
    <3> QED  BY <2>3, <3>1, <3>2, GoToType DEF FindRescanned, TablesType, RestType, Places
  <2>4. CASE Revoke(t)
    <3>1. seq' \in Nat /\ LocalType'
      BY <2>4, GoToType DEF Revoke, NextSeq, Places, TablesType
    <3>2. replay' \in Views /\ view' \in Views
      BY <2>4, <3>1, EndedType DEF Revoke, TablesType, Statuses
    <3> QED  BY <2>4, <3>1, <3>2 DEF Revoke, TablesType, RestType
  <2>5. CASE Approve(t)
    <3>1. seq' \in Nat /\ LocalType'
      BY <2>5, FinishType DEF Approve, NextSeq, TablesType
    <3>2. PICK c \in arg[t], m \in Mems :
            /\ replay' = ReplayApproved(replay, c, m, seq')
            /\ view' = ProjectApproval(view, c, m, seq')
            /\ fate' = [fate EXCEPT ![c] = "approved"]
      BY <2>5 DEF Approve
    <3>3. replay' \in Views /\ view' \in Views
      BY <3>1, <3>2, ApprovalType DEF TablesType
    <3> QED  BY <2>5, <3>1, <3>2, <3>3 DEF Approve, TablesType, RestType, Fates
  <2>6. CASE Block(t)
    <3>1. seq' \in Nat /\ LocalType'
      BY <2>6, FinishType DEF Block, NextSeq, TablesType
    <3>2. PICK c \in arg[t] :
            /\ replay' = ReplayBlocked(replay, c)
            /\ view' = ProjectBlock(view, c)
            /\ fate' = [fate EXCEPT ![c] = "blocked"]
      BY <2>6 DEF Block
    <3>3. replay' \in Views /\ view' \in Views
      BY <3>2 DEF TablesType, ReplayBlocked, ProjectBlock, Views
    <3> QED  BY <2>6, <3>1, <3>2, <3>3 DEF Block, TablesType, RestType, Fates
  <2>7. CASE RescanRevokes(t)
    <3>1. seq' \in Nat /\ LocalType'
      BY <2>7, GoToType DEF RescanRevokes, NextSeq, Places, TablesType
    <3>2. replay' \in Views /\ view' \in Views
      BY <2>7, <3>1, EndedType DEF RescanRevokes, TablesType, Statuses
    <3> QED  BY <2>7, <3>1, <3>2 DEF RescanRevokes, TablesType, RestType
  <2>8. CASE RescanKeeps(t)
    BY <2>8, GoToType DEF RescanKeeps, NextSeq, Places, TablesType, RestType
  <2> QED  BY <1>2, <2>1, <2>2, <2>3, <2>4, <2>5, <2>6, <2>7, <2>8 DEF TrustStep
<1>3. ASSUME NEW t \in Tasks, ViewStep(t) PROVE TablesType' /\ LocalType' /\ RestType'
  <2>1. CASE Sweep(t)
    <3> DEFINE due == view.active \cap elapsed
    <3>1. due \subseteq Mems
      BY DEF RestType
    <3> HIDE DEF due
    <3>2. GoTo(t, IF due = {} THEN "render" ELSE "append", due)
      BY <2>1 DEF Sweep, due
    <3> QED  BY <2>1, <3>1, <3>2, GoToType DEF Sweep, TablesType, RestType, Places
  <2>2. CASE Expire(t)
    <3>1. seq' \in Nat /\ LocalType'
      BY <2>2, GoToType DEF Expire, NextSeq, Places, TablesType
    <3>2. replay' \in Views /\ view' \in Views
      BY <2>2, <3>1, EndedType DEF Expire, TablesType, Statuses
    <3> QED  BY <2>2, <3>1, <3>2 DEF Expire, TablesType, RestType
  <2>3. CASE Render(t)
    <3>1. view.active \subseteq Mems
      BY DEF TablesType, Views
    <3> QED  BY <2>3, <3>1, GoToType DEF Render, TablesType, RestType, Places
  <2>4. CASE Inject(t)
    <3>1. PICK ok \in BOOLEAN :
            /\ Verified(t, ok)
            /\ injected' \in {injected, injected \cup (arg[t] \cap gone[t])}
      BY <2>4 DEF Inject
    <3>2. injected' \subseteq Mems
      BY <3>1 DEF RestType, LocalType
    <3> QED  BY <2>4, <3>1, <3>2, FinishType, VerifiedType DEF Inject, TablesType, RestType
  <2>5. CASE ReadHistory(t)
    BY <2>5 DEF ReadHistory, TablesType, LocalType, RestType, Places
  <2>6. CASE WriteView(t)
    <3>1. view' \in Views
      BY <2>6 DEF WriteView, LocalType
    <3>2. LocalType'
      BY <2>6 DEF WriteView, LocalType, Places
    <3>3. compared' \in BOOLEAN
      BY <2>6 DEF WriteView, RestType
    <3> QED  BY <2>6, <3>1, <3>2, <3>3 DEF WriteView, TablesType, RestType
  <2> QED  BY <1>3, <2>1, <2>2, <2>3, <2>4, <2>5, <2>6 DEF ViewStep
<1>4. CASE OutcomeStep
  <2>1. ASSUME NEW c \in Cands, NEW m \in Mems, NEW s \in {"active", "redacted"}, Admit(c, m, s)
        PROVE  TablesType' /\ LocalType' /\ RestType'
    <3>1. seq' \in Nat /\ s \in Statuses
      BY <2>1 DEF Admit, NextSeq, TablesType, Statuses
    <3>2. replay' \in Views /\ view' \in Views
      BY <2>1, <3>1, CommitType DEF Admit, TablesType
    <3> QED  BY <2>1, <3>1, <3>2 DEF Admit, TablesType, LocalType, RestType, Fates
  <2>2. ASSUME NEW c \in Cands, Quarantine(c) PROVE TablesType' /\ LocalType' /\ RestType'
    <3>1. replay' \in Views /\ view' \in Views /\ seq' \in Nat
      BY <2>2, QuarantineType DEF Quarantine, TablesType, NextSeq
    <3> QED  BY <2>2, <3>1 DEF Quarantine, TablesType, LocalType, RestType, Fates
  <2>3. ASSUME NEW c \in Cands, BlockOutcome(c) PROVE TablesType' /\ LocalType' /\ RestType'
    <3>1. replay' \in Views /\ view' \in Views /\ seq' \in Nat
      BY <2>3, QuarantineType DEF BlockOutcome, TablesType, NextSeq
    <3> QED  BY <2>3, <3>1 DEF BlockOutcome, TablesType, LocalType, RestType, Fates
  <2> QED  BY <1>4, <2>1, <2>2, <2>3 DEF OutcomeStep
<1>5. ASSUME NEW m \in Mems, Elapse(m) PROVE TablesType' /\ LocalType' /\ RestType'
  BY <1>5 DEF Elapse, TablesType, LocalType, RestType
<1>6. ASSUME NEW p \in Procs, Restart(p) PROVE TablesType' /\ LocalType' /\ RestType'
  <2>1. LocalType'
    BY <1>6, NoRowsType DEF Restart, LocalType, Places
  <2> QED  BY <1>6, <2>1 DEF Restart, TablesType, RestType
<1>7. CASE UNCHANGED vars
  BY <1>7 DEF vars, TablesType, LocalType, RestType
<1> QED  BY <1>1, <1>2, <1>3, <1>4, <1>5, <1>6, <1>7 DEF Next

(* The program starts with well-typed empty tables. *)
LEMMA TypeInit == Init => TypeOK
  BY NoRowsType DEF Init, TypeOK, Places, Fates

(* Every variable keeps its type. *)
THEOREM TypeCorrect == Spec => []TypeOK
  BY TypeInit, TypeStep, PTL DEF Spec

---------------------------------------------------------------------------
(* Whatever is offered to whom: quarantine, what had ended, and drift.     *)

QuarantineInv == replay.quarantine = {c \in Cands : fate[c] = "quarantined"}

(* The history's quarantine follows the candidates' fates, and equal       *)
(* tables stay equal, but when a rebuild replaces the view.                *)
LEMMA TablesAgree ==
  ASSUME TypeOK, seq' \in Nat, QuarantineInv, [Next]_vars
  PROVE  /\ QuarantineInv'
         /\ view = replay /\ (\A t \in Tasks : ~WriteView(t)) => view' = replay'
<1> USE DEF tables
<1> DEFINE Goal == /\ QuarantineInv'
                   /\ view = replay /\ (\A t \in Tasks : ~WriteView(t)) => view' = replay'
<1>1. replay \in Views /\ fate \in [Cands -> Fates]
  BY TypeUse
<1>2. ASSUME UNCHANGED <<replay, view, fate>> PROVE Goal
  BY <1>2 DEF QuarantineInv
<1>3. ASSUME NEW S, NEW s, replay' = ReplayEnded(replay, S, s, seq'),
             view' = ProjectEnded(view, S, s, seq'), UNCHANGED fate
      PROVE  Goal
  <2>1. replay'.quarantine = replay.quarantine
    BY <1>1, <1>3 DEF ReplayEnded, Views
  <2> QED  BY <1>3, <2>1, ProjectorsReplay DEF QuarantineInv
<1>4. ASSUME NEW t \in Tasks, TrustStep(t) PROVE Goal
  <2>1. CASE Revoke(t) \/ RescanRevokes(t)
    <3>1. /\ replay' = ReplayEnded(replay, arg[t], "revoked", seq')
          /\ view' = ProjectEnded(view, arg[t], "revoked", seq')
          /\ UNCHANGED fate
      BY <2>1 DEF Revoke, RescanRevokes
    <3> QED  BY <1>3, <3>1
  <2>2. CASE Approve(t)
    <3>1. PICK c \in arg[t], m \in Mems :
            /\ replay' = ReplayApproved(replay, c, m, seq')
            /\ view' = ProjectApproval(view, c, m, seq')
            /\ fate' = [fate EXCEPT ![c] = "approved"]
      BY <2>2 DEF Approve
    <3>2. replay'.quarantine = replay.quarantine \ {c}
      BY <1>1, <3>1, ApprovalFacts
    <3>3. QuarantineInv'
      BY <1>1, <3>1, <3>2 DEF QuarantineInv
    <3> QED  BY <3>1, <3>3, ProjectorsReplay
  <2>3. CASE Block(t)
    <3>1. PICK c \in arg[t] :
            /\ replay' = ReplayBlocked(replay, c)
            /\ view' = ProjectBlock(view, c)
            /\ fate' = [fate EXCEPT ![c] = "blocked"]
      BY <2>3 DEF Block
    <3>2. replay'.quarantine = replay.quarantine \ {c}
      BY <1>1, <3>1, QuarantineFacts
    <3>3. QuarantineInv'
      BY <1>1, <3>1, <3>2 DEF QuarantineInv
    <3> QED  BY <3>1, <3>3, ProjectorsReplay
  <2>4. CASE UNCHANGED <<replay, view, fate>>
    BY <1>2, <2>4
  <2> HIDE DEF Goal
  <2> QED  BY <1>4, <2>1, <2>2, <2>3, <2>4 DEF TrustStep, FindActive, FindQuarantined,
              FindRescanned, RescanKeeps
<1>5. ASSUME NEW t \in Tasks, ViewStep(t) PROVE Goal
  <2>1. CASE Expire(t)
    <3>1. /\ replay' = ReplayEnded(replay, arg[t], "expired", seq')
          /\ view' = ProjectEnded(view, arg[t], "expired", seq')
          /\ UNCHANGED fate
      BY <2>1 DEF Expire
    <3> QED  BY <1>3, <3>1
  <2>2. CASE WriteView(t)
    BY <2>2 DEF WriteView, QuarantineInv
  <2>3. CASE UNCHANGED <<replay, view, fate>>
    BY <1>2, <2>3
  <2> HIDE DEF Goal
  <2> QED  BY <1>5, <2>1, <2>2, <2>3 DEF ViewStep, Sweep, Render, Inject, ReadHistory
<1>6. ASSUME OutcomeStep PROVE Goal
  <2>1. ASSUME NEW c \in Cands, NEW m \in Mems, NEW s \in {"active", "redacted"}, Admit(c, m, s)
        PROVE  Goal
    <3>1. /\ fate[c] = "new" /\ fate' = [fate EXCEPT ![c] = "admitted"]
          /\ replay' = ReplayCommit(replay, m, s, seq')
          /\ view' = ProjectCommit(view, m, s, seq')
      BY <2>1 DEF Admit
    <3>2. replay'.quarantine = replay.quarantine
      BY <1>1, <3>1 DEF ReplayCommit, Views
    <3>3. QuarantineInv'
      BY <1>1, <3>1, <3>2 DEF QuarantineInv
    <3> QED  BY <3>1, <3>3, ProjectorsReplay
  <2>2. ASSUME NEW c \in Cands, Quarantine(c) PROVE Goal
    <3>1. /\ fate[c] = "new" /\ fate' = [fate EXCEPT ![c] = "quarantined"]
          /\ replay' = ReplayQuarantined(replay, c)
          /\ view' = ProjectQuarantine(view, c)
      BY <2>2 DEF Quarantine
    <3>2. replay'.quarantine = replay.quarantine \cup {c}
      BY <1>1, <3>1, QuarantineFacts
    <3>3. QuarantineInv'
      BY <1>1, <3>1, <3>2 DEF QuarantineInv
    <3> QED  BY <3>1, <3>3, ProjectorsReplay
  <2>3. ASSUME NEW c \in Cands, BlockOutcome(c) PROVE Goal
    <3>1. /\ fate[c] = "new" /\ fate' = [fate EXCEPT ![c] = "blocked"]
          /\ replay' = ReplayBlocked(replay, c) /\ view' = view
      BY <2>3 DEF BlockOutcome
    <3>2. c \notin replay.quarantine
      BY <3>1 DEF QuarantineInv
    <3>3. replay' = replay
      BY <1>1, <3>1, <3>2 DEF ReplayBlocked, Views
    <3>4. QuarantineInv'
      BY <1>1, <3>1, <3>3 DEF QuarantineInv
    <3> QED  BY <3>1, <3>3, <3>4
  <2> HIDE DEF Goal
  <2> QED  BY <1>6, <2>1, <2>2, <2>3 DEF OutcomeStep
<1>7. ASSUME NEW t \in Tasks, RequestStep(t) PROVE UNCHANGED <<replay, view, fate>>
  BY <1>7 DEF RequestStep, Begin, Acquire, Abandon, CutOff, VerifyHistory, VerifyChain,
              VerifyLedger, Check
<1>8. ASSUME \/ \E m \in Mems : Elapse(m)
             \/ \E p \in Procs : Restart(p)
             \/ UNCHANGED vars
      PROVE  UNCHANGED <<replay, view, fate>>
  BY <1>8 DEF Elapse, Restart, vars
<1> HIDE DEF Goal
<1>9. Goal
  BY <1>2, <1>4, <1>5, <1>6, <1>7, <1>8 DEF Next
<1> QED  BY <1>9 DEF Goal

(* A step of the history: only unknown memories become active, and what    *)
(* had ended or elapsed stays so.                                          *)
Grows ==
  /\ \A m \in replay'.active : m \in replay.active \/ ~Known(replay, m)
  /\ Ended \subseteq Ended'
  /\ elapsed \subseteq elapsed'

(* The inventory alone says what has ended. *)
LEMMA EndedStays ==
  ASSUME replay'.inventory = replay.inventory
  PROVE  Ended' = Ended /\ \A m \in Mems : Known(replay', m) <=> Known(replay, m)
  BY DEF Ended, Known

(* Quarantine, block and steps outside the history. *)
LEMMA NothingLives ==
  ASSUME LiveInv, replay'.active = replay.active, replay'.inventory = replay.inventory,
         elapsed' = elapsed
  PROVE  Grows /\ LiveInv'
<1>1. Ended' = Ended /\ \A m \in Mems : Known(replay', m) <=> Known(replay, m)
  BY EndedStays
<1> QED  BY <1>1 DEF Grows, LiveInv, Known

(* Admission and approval. *)
LEMMA UnknownLives ==
  ASSUME replay \in Views, LiveInv, NEW m \in Mems, ~Known(replay, m),
         NEW s \in {"active", "redacted"}, NEW n,
         replay'.active = replay.active \cup {m},
         replay'.inventory = [replay.inventory EXCEPT ![m] = Row(s, n)],
         elapsed' = elapsed
  PROVE  Grows /\ LiveInv'
<1>1. ASSUME NEW x \in Mems
      PROVE  replay'.inventory[x].status = IF x = m THEN s ELSE replay.inventory[x].status
  BY DEF Views, Row
<1>2. m \notin Ended
  BY DEF Known, Ended
<1>3. Ended' = Ended
  BY <1>1, <1>2 DEF Ended
<1>4. \A x \in Mems : Known(replay, x) => Known(replay', x)
  BY <1>1 DEF Known
<1>5. Known(replay', m)
  BY <1>1 DEF Known
<1> QED  BY <1>2, <1>3, <1>4, <1>5 DEF Grows, LiveInv, Known

(* Revocation, rescan and expiry. *)
LEMMA LivesAreEnded ==
  ASSUME replay \in Views, LiveInv, NEW S, NEW s \in {"revoked", "expired"}, NEW n,
         replay' = ReplayEnded(replay, S, s, n), elapsed' = elapsed
  PROVE  Grows /\ LiveInv' /\ replay'.active = replay.active \ S
<1>1. replay'.active = replay.active \ S
  BY DEF ReplayEnded, Views
<1>2. ASSUME NEW x \in Mems
      PROVE  replay'.inventory[x] = IF x \in S /\ Known(replay, x) THEN Row(s, n)
                                                                 ELSE replay.inventory[x]
  BY DEF ReplayEnded, Views
<1>3. Ended' = Ended \cup {x \in Mems : x \in S /\ Known(replay, x)}
  BY <1>2 DEF Ended, Row
<1>4. \A x \in Mems : Known(replay, x) => Known(replay', x)
  BY <1>2 DEF Known, Row
<1> QED  BY <1>1, <1>3, <1>4 DEF Grows, LiveInv, Known

(* The locals of the tasks that do not move. *)
StillTask(u) ==
  /\ op'[u] = op[u] /\ at'[u] = at[u] /\ arg'[u] = arg[u] /\ gone'[u] = gone[u]
  /\ u \in misled => u \in misled'

(* A task that does not move keeps its promise while the history grows, if *)
(* it keeps its view or is known to be misled.                             *)
LEMMA OthersSpared ==
  ASSUME LiveInv, Grows, NEW u, Spared(u), StillTask(u),
         Preparing(u) /\ u \notin misled' /\ view = replay => view' = replay'
  PROVE  Spared(u)'
<1>1. gone'[u] \subseteq Ended' \cup elapsed'
  BY DEF Grows, Spared, StillTask
<1>2. CASE u \in misled'
  BY <1>1, <1>2 DEF Spared
<1>3. CASE u \notin misled'
  <2>1. u \notin misled
    BY <1>3 DEF StillTask
  <2>2. (Preparing(u))' <=> Preparing(u)
    BY DEF StillTask, Preparing
  <2>3. Preparing(u) => view = replay /\ view' = replay'
    BY <1>3, <2>1 DEF Spared
  <2>4. Preparing(u) => gone[u] \cap view'.active \subseteq gone[u] \cap view.active
    <3>1. \A m \in gone[u] : m \in Mems /\ Known(replay, m)
      BY DEF Spared, LiveInv, Ended, Known
    <3> QED  BY <2>3, <3>1 DEF Grows
  <2>5. op[u] = "session" =>
          CASE at[u] = "append" -> gone[u] \cap view'.active \subseteq arg[u]
            [] at[u] = "render" -> gone[u] \cap view'.active = {}
            [] at[u] = "check"  -> gone[u] \cap arg[u] = {}
            [] OTHER            -> TRUE
    BY <2>1, <2>4 DEF Spared, Preparing
  <2> QED  BY <1>1, <2>2, <2>3, <2>5 DEF Spared, StillTask
<1> QED  BY <1>2, <1>3

(* The end of an operation promises nothing more. *)
LEMMA FinishSpared ==
  ASSUME LocalType, NEW t \in Tasks, Finish(t)
  PROVE  Spared(t)'
<1>1. op'[t] = "none" /\ gone'[t] = {}
  BY DEF Finish, LocalType
<1> QED  BY <1>1 DEF Spared, Preparing

(* A move that renders nothing. *)
LEMMA MoverSpared ==
  ASSUME LocalType, NEW t \in Tasks, Grows, Spared(t), NEW place, NEW S, GoTo(t, place, S),
         \/ op[t] # "session" \/ place = "verify"
         \/ place = "find" /\ view' = replay'
  PROVE  Spared(t)'
<1>1. op'[t] = op[t] /\ gone'[t] = gone[t] /\ at'[t] = place
  BY DEF GoTo, LocalType
<1> QED  BY <1>1 DEF Spared, Grows, Preparing

(* The step of one task leaves the locals of the others. *)
LEMMA OthersStill ==
  ASSUME LocalType, NEW t \in Tasks, RequestStep(t) \/ TrustStep(t) \/ ViewStep(t),
         NEW u \in Tasks \ {t}
  PROVE  StillTask(u)
<1>1. \/ Finish(t)
      \/ \E place, S : GoTo(t, place, S)
      \/ \E o, place, S : /\ op' = [op EXCEPT ![t] = o]
                          /\ at' = [at EXCEPT ![t] = place]
                          /\ gone' = [gone EXCEPT ![t] = S]
                          /\ arg' = arg
      \/ \E place : /\ at' = [at EXCEPT ![t] = place]
                    /\ UNCHANGED <<op, gone>>
                    /\ arg' = arg \/ \E S : arg' = [arg EXCEPT ![t] = S]
  <2>1. CASE RequestStep(t)
    BY <2>1 DEF RequestStep, Begin, Acquire, Abandon, CutOff, VerifyHistory, VerifyChain,
                VerifyLedger, Check
  <2>2. CASE TrustStep(t)
    BY <2>2 DEF TrustStep, FindActive, Revoke, FindQuarantined, Approve, Block,
                FindRescanned, RescanRevokes, RescanKeeps
  <2>3. CASE ViewStep(t)
    BY <2>3 DEF ViewStep, Sweep, Expire, Render, Inject, ReadHistory, WriteView
  <2> QED  BY <2>1, <2>2, <2>3
<1>2. u \in misled => u \in misled'
  <2>1. CASE RequestStep(t)
    BY <2>1 DEF RequestStep, Begin, Acquire, Abandon, CutOff, VerifyHistory, VerifyChain,
                VerifyLedger, Check, Finish, GoTo
  <2>2. CASE TrustStep(t)
    BY <2>2 DEF TrustStep, FindActive, Revoke, FindQuarantined, Approve, Block,
                FindRescanned, RescanRevokes, RescanKeeps, Finish, GoTo
  <2>3. CASE ViewStep(t)
    BY <2>3 DEF ViewStep, Sweep, Expire, Render, Inject, ReadHistory, WriteView,
                Finish, GoTo
  <2> QED  BY <2>1, <2>2, <2>3
<1> QED  BY <1>1, <1>2 DEF StillTask, Finish, GoTo, LocalType

(* Requests: only the rendering of a session is given to anybody, and a    *)
(* session sweeps after a verification that found the view in order.       *)
LEMMA RequestSpares ==
  ASSUME TypeOK, LiveInv, NEW t \in Tasks, Spared(t), RequestStep(t)
  PROVE  Grows /\ LiveInv' /\ Spared(t)' /\ injected' = injected
<1> USE DEF tables
<1>1. LocalType
  BY TypeUse
<1>2. UNCHANGED <<replay, view, elapsed, injected>>
  BY DEF RequestStep, Begin, Acquire, Abandon, CutOff, VerifyHistory, VerifyChain,
         VerifyLedger, Check
<1>3. Grows /\ LiveInv'
  BY <1>2, NothingLives
<1>4. ASSUME NEW o \in Ops, Begin(t, o) PROVE Spared(t)'
  <2>1. /\ at'[t] \in {"queued", "verify"}
        /\ gone'[t] \subseteq Ended \cup elapsed
    BY <1>1, <1>4 DEF Begin, LocalType
  <2>2. gone'[t] \subseteq Ended' \cup elapsed'
    BY <1>3, <2>1 DEF Grows
  <2> QED  BY <2>1, <2>2 DEF Spared, Preparing
<1>5. ASSUME Acquire(t) PROVE Spared(t)'
  BY <1>1, <1>3, <1>5, MoverSpared DEF Acquire
<1>6. ASSUME Abandon(t) \/ CutOff(t) \/ VerifyLedger(t) \/ Check(t) PROVE Spared(t)'
  BY <1>1, <1>6, FinishSpared DEF Abandon, CutOff, VerifyLedger, Check
<1>7. ASSUME VerifyHistory(t) PROVE Spared(t)'
  <2>1. PICK ok \in BOOLEAN : Verified(t, ok) /\ IF ok THEN GoTo(t, "find", {}) ELSE Finish(t)
    BY <1>7 DEF VerifyHistory
  <2>2. CASE ok
    <3>1. GoTo(t, "find", {}) /\ view' = replay'
      BY <1>2, <2>1, <2>2 DEF Verified
    <3> QED  BY <1>1, <1>3, <3>1, MoverSpared
  <2>3. CASE ~ok
    BY <1>1, <2>1, <2>3, FinishSpared
  <2> QED  BY <2>2, <2>3
<1>8. ASSUME VerifyChain(t) PROVE Spared(t)'
  <2>1. op[t] # "session" /\ (GoTo(t, "find", {}) \/ Finish(t))
    BY <1>8 DEF VerifyChain
  <2> QED  BY <1>1, <1>3, <2>1, MoverSpared, FinishSpared
<1> QED  BY <1>2, <1>3, <1>4, <1>5, <1>6, <1>7, <1>8 DEF RequestStep

(* Trust actions and rescans. *)
LEMMA TrustSpares ==
  ASSUME TypeOK, LiveInv, NEW t \in Tasks, Spared(t), TrustStep(t), TypeOK'
  PROVE  Grows /\ LiveInv' /\ Spared(t)' /\ injected' = injected
<1> USE DEF tables
<1>1. LocalType /\ replay \in Views /\ seq' \in Nat
  BY TypeUse DEF TypeOK
<1>2. elapsed' = elapsed /\ injected' = injected
  BY DEF TrustStep, FindActive, Revoke, FindQuarantined, Approve, Block,
         FindRescanned, RescanRevokes, RescanKeeps
<1>3. Grows /\ LiveInv'
  <2>1. CASE Revoke(t) \/ RescanRevokes(t)
    <3>1. replay' = ReplayEnded(replay, arg[t], "revoked", seq')
      BY <2>1 DEF Revoke, RescanRevokes
    <3> QED  BY <1>1, <1>2, <3>1, LivesAreEnded
  <2>2. CASE Approve(t)
    <3>1. PICK c \in arg[t], m \in Mems :
            Fresh(m) /\ replay' = ReplayApproved(replay, c, m, seq')
      BY <2>2 DEF Approve
    <3>2. /\ replay'.active = replay.active \cup {m}
          /\ replay'.inventory = [replay.inventory EXCEPT ![m] = Row("active", seq')]
      BY <1>1, <3>1 DEF ReplayApproved, ReplayCommit, Views
    <3> QED  BY <1>1, <1>2, <3>1, <3>2, UnknownLives DEF Fresh
  <2>3. CASE Block(t)
    <3>1. PICK c \in arg[t] : replay' = ReplayBlocked(replay, c)
      BY <2>3 DEF Block
    <3>2. replay'.active = replay.active /\ replay'.inventory = replay.inventory
      BY <1>1, <3>1 DEF ReplayBlocked, Views
    <3> QED  BY <1>1, <1>2, <3>2, NothingLives
  <2>4. CASE replay' = replay
    BY <1>1, <1>2, <2>4, NothingLives
  <2> QED  BY <2>1, <2>2, <2>3, <2>4 DEF TrustStep, FindActive, FindQuarantined,
              FindRescanned, RescanKeeps
<1>4. /\ op[t] # "session"
      /\ Finish(t) \/ \E place, S : GoTo(t, place, S)
  BY DEF TrustStep, FindActive, Revoke, FindQuarantined, Approve, Block,
         FindRescanned, RescanRevokes, RescanKeeps
<1>5. Spared(t)'
  BY <1>1, <1>3, <1>4, MoverSpared, FinishSpared
<1> QED  BY <1>2, <1>3, <1>5

(* Session start: the sweep takes what is due, and the rendering follows   *)
(* it, so that nothing the session must not be given is rendered.          *)
LEMMA SessionSpares ==
  ASSUME TypeOK, LiveInv, injected = {}, NEW t \in Tasks, Spared(t), ViewStep(t)
  PROVE  Grows /\ LiveInv' /\ Spared(t)' /\ injected' = injected
<1> USE DEF tables
<1>1. LocalType /\ replay \in Views
  BY TypeUse
<1>2. CASE Sweep(t)
  <2> DEFINE due == view.active \cap elapsed
  <2>1. /\ at[t] = "find" /\ op[t] = "session" /\ UNCHANGED <<replay, view, elapsed, injected>>
        /\ GoTo(t, IF due = {} THEN "render" ELSE "append", due)
    BY <1>2 DEF Sweep
  <2>2. Grows /\ LiveInv'
    BY <2>1, NothingLives
  <2>3. t \notin misled => view = replay
    BY <2>1 DEF Spared, Preparing
  <2>4. t \notin misled => gone[t] \cap view.active \subseteq due
    BY <2>3 DEF Spared, LiveInv
  <2> HIDE DEF due
  <2>5. /\ op'[t] = op[t] /\ gone'[t] = gone[t] /\ arg'[t] = due /\ misled' = misled
        /\ at'[t] = IF due = {} THEN "render" ELSE "append"
    BY <1>1, <2>1 DEF GoTo, LocalType
  <2>6. gone'[t] \subseteq Ended' \cup elapsed'
    BY <2>2, <2>5 DEF Grows, Spared
  <2> QED  BY <2>1, <2>2, <2>3, <2>4, <2>5, <2>6 DEF Spared
<1>3. CASE Expire(t)
  <2>1. /\ at[t] = "append" /\ op[t] = "session" /\ UNCHANGED <<elapsed, injected>>
        /\ replay' = ReplayEnded(replay, arg[t], "expired", seq')
        /\ view' = ProjectEnded(view, arg[t], "expired", seq')
        /\ GoTo(t, "render", {})
    BY <1>3 DEF Expire
  <2>2. Grows /\ LiveInv' /\ replay'.active = replay.active \ arg[t]
    BY <1>1, <2>1, LivesAreEnded
  <2>3. t \notin misled =>
          view = replay /\ view' = replay' /\ gone[t] \cap view.active \subseteq arg[t]
    BY <2>1, ProjectorsReplay DEF Spared, Preparing
  <2>4. op'[t] = op[t] /\ gone'[t] = gone[t] /\ at'[t] = "render" /\ misled' = misled
    BY <1>1, <2>1 DEF GoTo, LocalType
  <2>5. gone'[t] \subseteq Ended' \cup elapsed'
    BY <2>2, <2>4 DEF Grows, Spared
  <2>6. t \notin misled => gone'[t] \cap view'.active = {}
    BY <2>2, <2>3, <2>4
  <2> QED  BY <2>1, <2>2, <2>3, <2>4, <2>5, <2>6 DEF Spared
<1>4. CASE Render(t)
  <2>1. /\ at[t] = "render" /\ op[t] = "session" /\ UNCHANGED <<replay, elapsed, injected>>
        /\ GoTo(t, "check", view.active)
    BY <1>4 DEF Render
  <2>2. Grows /\ LiveInv'
    BY <2>1, NothingLives
  <2>3. t \notin misled => gone[t] \cap view.active = {}
    BY <2>1 DEF Spared
  <2>4. /\ op'[t] = op[t] /\ gone'[t] = gone[t] /\ misled' = misled
        /\ at'[t] = "check" /\ arg'[t] = view.active
    BY <1>1, <2>1 DEF GoTo, LocalType
  <2>5. gone'[t] \subseteq Ended' \cup elapsed'
    BY <2>2, <2>4 DEF Grows, Spared
  <2> QED  BY <2>1, <2>2, <2>3, <2>4, <2>5 DEF Spared, Preparing
<1>5. CASE Inject(t)
  <2>1. /\ at[t] = "check" /\ op[t] = "session" /\ UNCHANGED <<replay, elapsed>>
        /\ Finish(t)
        /\ \/ injected' = injected
           \/ t \notin misled /\ injected' = injected \cup (arg[t] \cap gone[t])
    BY <1>5 DEF Inject
  <2>2. Grows /\ LiveInv'
    BY <2>1, NothingLives
  <2>3. t \notin misled => gone[t] \cap arg[t] = {}
    BY <2>1 DEF Spared
  <2>4. injected' = injected
    BY <2>1, <2>3
  <2> QED  BY <1>1, <2>1, <2>2, <2>4, FinishSpared
<1>6. CASE ReadHistory(t) \/ WriteView(t)
  <2>1. /\ UNCHANGED <<replay, elapsed, injected, op, gone>>
        /\ op[t] = "rebuild"
    BY <1>6 DEF ReadHistory, WriteView
  <2>2. Grows /\ LiveInv'
    BY <2>1, NothingLives
  <2> QED  BY <2>1, <2>2 DEF Spared, Preparing, Grows
<1> QED  BY <1>2, <1>3, <1>4, <1>5, <1>6 DEF ViewStep

(* An outcome activates an unknown memory, or none. *)
LEMMA OutcomeSpares ==
  ASSUME TypeOK, LiveInv, OutcomeStep
  PROVE  Grows /\ LiveInv' /\ UNCHANGED <<local, injected>>
<1> USE DEF tables
<1>1. replay \in Views
  BY TypeUse
<1>2. ASSUME NEW c \in Cands, NEW m \in Mems, NEW s \in {"active", "redacted"}, Admit(c, m, s)
      PROVE  Grows /\ LiveInv' /\ UNCHANGED <<local, injected>>
  <2>1. /\ ~Known(replay, m) /\ replay' = ReplayCommit(replay, m, s, seq')
        /\ UNCHANGED <<elapsed, local, injected>>
    BY <1>2 DEF Admit, Fresh
  <2>2. /\ replay'.active = replay.active \cup {m}
        /\ replay'.inventory = [replay.inventory EXCEPT ![m] = Row(s, seq')]
    BY <1>1, <2>1 DEF ReplayCommit, Views
  <2> QED  BY <1>1, <2>1, <2>2, UnknownLives
<1>3. ASSUME NEW c \in Cands, Quarantine(c) \/ BlockOutcome(c)
      PROVE  Grows /\ LiveInv' /\ UNCHANGED <<local, injected>>
  <2>1. /\ replay'.active = replay.active /\ replay'.inventory = replay.inventory
        /\ UNCHANGED <<elapsed, local, injected>>
    BY <1>1, <1>3 DEF Quarantine, BlockOutcome, ReplayQuarantined, ReplayBlocked, Views
  <2> QED  BY <1>1, <2>1, NothingLives
<1> QED  BY <1>2, <1>3 DEF OutcomeStep

(* Equal tables stay equal, but for the sessions that a rebuild misleads.  *)
LEMMA AgreeOrMisled ==
  ASSUME TypeOK, TypeOK', QuarantineInv, [Next]_vars, view = replay,
         NEW u \in Tasks, Preparing(u), u \notin misled'
  PROVE  view' = replay'
<1>1. CASE \A t \in Tasks : ~WriteView(t)
  BY <1>1, TablesAgree DEF TypeOK
<1>2. ASSUME NEW t \in Tasks, WriteView(t) PROVE view' = replay'
  <2>1. copy[t] = replay
    BY <1>2 DEF WriteView
  <2> QED  BY <1>2, <2>1 DEF WriteView
<1> QED  BY <1>1, <1>2

(* Every step keeps what had ended or elapsed away from the sessions that  *)
(* asked since, the misled ones apart.                                     *)
LEMMA GoneStep ==
  ASSUME TypeOK, TypeOK', QuarantineInv, GoneInv, [Next]_vars
  PROVE  GoneInv'
<1>1. LocalType /\ LiveInv /\ injected = {} /\ \A u \in Tasks : Spared(u)
  BY TypeUse DEF GoneInv, NothingGoneInjected
<1>2. ASSUME Grows, NEW u \in Tasks, StillTask(u) PROVE Spared(u)'
  BY <1>1, <1>2, AgreeOrMisled, OthersSpared
<1>3. ASSUME NEW t \in Tasks, RequestStep(t) \/ TrustStep(t) \/ ViewStep(t) PROVE GoneInv'
  <2>1. Grows /\ LiveInv' /\ Spared(t)' /\ injected' = injected
    BY <1>1, <1>3, RequestSpares, TrustSpares, SessionSpares
  <2>2. ASSUME NEW u \in Tasks, u # t PROVE Spared(u)'
    <3>1. StillTask(u)
      BY <1>1, <1>3, <2>2, OthersStill
    <3> QED  BY <1>2, <2>1, <3>1
  <2> QED  BY <1>1, <2>1, <2>2 DEF GoneInv, NothingGoneInjected
<1>4. ASSUME Grows, LiveInv', injected' = injected,
             \A u \in Tasks : StillTask(u) \/ (op'[u] = "none" /\ gone'[u] = {})
      PROVE  GoneInv'
  <2>1. ASSUME NEW u \in Tasks PROVE Spared(u)'
    <3>1. CASE op'[u] = "none" /\ gone'[u] = {}
      BY <3>1 DEF Spared, Preparing
    <3> QED  BY <1>2, <1>4, <3>1
  <2> QED  BY <1>1, <1>4, <2>1 DEF GoneInv, NothingGoneInjected
<1>5. CASE OutcomeStep
  BY <1>1, <1>4, <1>5, OutcomeSpares DEF StillTask, local
<1>6. ASSUME NEW m \in Mems, Elapse(m) PROVE GoneInv'
  <2>1. /\ Known(replay, m) /\ elapsed' = elapsed \cup {m}
        /\ UNCHANGED <<replay, local, injected>>
    BY <1>6 DEF Elapse, tables
  <2>2. Ended' = Ended /\ \A x \in Mems : Known(replay', x) <=> Known(replay, x)
    BY <2>1, EndedStays
  <2>3. Grows /\ LiveInv'
    BY <1>1, <2>1, <2>2 DEF Grows, LiveInv, Known
  <2> QED  BY <1>4, <2>1, <2>3 DEF StillTask, local
<1>7. ASSUME NEW p \in Procs, Restart(p) PROVE GoneInv'
  <2>1. /\ UNCHANGED <<replay, elapsed, injected>>
        /\ op' = [t \in Tasks |-> IF ProcOf(t) = p THEN "none" ELSE op[t]]
        /\ at' = [t \in Tasks |-> IF ProcOf(t) = p THEN "idle" ELSE at[t]]
        /\ arg' = [t \in Tasks |-> IF ProcOf(t) = p THEN {} ELSE arg[t]]
        /\ gone' = [t \in Tasks |-> IF ProcOf(t) = p THEN {} ELSE gone[t]]
        /\ misled' = {t \in misled : ProcOf(t) # p}
    BY <1>7 DEF Restart, tables
  <2>2. \A u \in Tasks : StillTask(u) \/ (op'[u] = "none" /\ gone'[u] = {})
    BY <2>1 DEF StillTask
  <2> QED  BY <1>1, <1>4, <2>1, <2>2, NothingLives
<1>8. CASE UNCHANGED vars
  BY <1>1, <1>4, <1>8, NothingLives DEF vars, tables, local, StillTask
<1> QED  BY <1>3, <1>5, <1>6, <1>7, <1>8 DEF Next

(* A step that does not end a rebuild of the daemon: who had written the   *)
(* view and not verified it still has not.                                 *)
LEMMA StillRewritten ==
  ASSUME LocalType, NEW t \in Tasks, RequestStep(t) \/ TrustStep(t) \/ ViewStep(t),
         ~Rewritten(t) \/ ~(Check(t) \/ CutOff(t)), NEW u \in Tasks, Rewritten(u)
  PROVE  Rewritten(u)'
<1>1. CASE u # t
  BY <1>1, OthersStill DEF StillTask, Rewritten
<1>2. ~Rewritten(t)
  BY DEF Rewritten, RequestStep, Begin, Acquire, Abandon, VerifyHistory, VerifyChain,
         VerifyLedger, TrustStep, FindActive, Revoke, FindQuarantined, Approve, Block,
         FindRescanned, RescanRevokes, RescanKeeps,
         ViewStep, Sweep, Expire, Render, Inject, ReadHistory, WriteView
<1> QED  BY <1>1, <1>2

Assured == healthy["daemon"] /\ compared /\ \A t \in Tasks : ~Rewritten(t)

(* What a step does to the verdicts: a verification of the view, one of    *)
(* the chain, a rebuild's replacement, or nothing.                         *)
LEMMA Verdicts ==
  ASSUME NEW t \in Tasks, RequestStep(t) \/ TrustStep(t) \/ ViewStep(t)
  PROVE  \/ \E ok \in BOOLEAN : Verified(t, ok)
         \/ ~Rewritten(t) /\ \E ok \in BOOLEAN : ChainVerified(t, ok)
         \/ WriteView(t)
         \/ CutOff(t)
         \/ ~Rewritten(t) /\ UNCHANGED health
<1>1. CASE RequestStep(t)
  BY <1>1 DEF RequestStep, Begin, Acquire, Abandon, VerifyHistory, VerifyChain,
              VerifyLedger, Check, Rewritten
<1>2. CASE TrustStep(t)
  BY <1>2 DEF TrustStep, FindActive, Revoke, FindQuarantined, Approve, Block,
              FindRescanned, RescanRevokes, RescanKeeps, Rewritten
<1>3. CASE ViewStep(t)
  BY <1>3 DEF ViewStep, Sweep, Expire, Render, Inject, ReadHistory, WriteView, Rewritten
<1> QED  BY <1>1, <1>2, <1>3

(* A step of a task that leaves the daemon assured: it was, or the step    *)
(* compared the view.                                                      *)
LEMMA StepAssured ==
  ASSUME TypeOK, NEW t \in Tasks, RequestStep(t) \/ TrustStep(t) \/ ViewStep(t),
         ~WriteView(t), Assured'
  PROVE  Assured \/ view = replay
<1>1. LocalType /\ healthy \in [Procs -> BOOLEAN]
  BY TypeUse DEF TypeOK
<1>2. ASSUME ~Rewritten(t), healthy'["daemon"] = healthy["daemon"], compared' = compared
      PROVE  Assured
  BY <1>1, <1>2, StillRewritten DEF Assured
<1>3. ASSUME NEW ok \in BOOLEAN, Verified(t, ok) PROVE Assured \/ view = replay
  <2>1. CASE ok
    BY <1>3, <2>1 DEF Verified
  <2>2. CASE ~ok /\ ProcOf(t) = "daemon"
    BY <1>1, <1>3, <2>2 DEF Verified, Assured, Procs
  <2>3. CASE ProcOf(t) # "daemon"
    <3>1. healthy'["daemon"] = healthy["daemon"] /\ compared' = compared
      BY <1>1, <1>3, <2>3 DEF Verified, Procs, TypeOK
    <3> QED  BY <1>2, <2>3, <3>1 DEF Rewritten
  <2> QED  BY <2>1, <2>2, <2>3
<1>4. ASSUME NEW ok \in BOOLEAN, ChainVerified(t, ok), ~Rewritten(t) PROVE Assured \/ view = replay
  <2>1. ProcOf(t) # "daemon"
    BY <1>4 DEF ChainVerified, Assured
  <2>2. healthy'["daemon"] = healthy["daemon"] /\ compared' = compared
    BY <1>1, <1>4, <2>1 DEF ChainVerified, Procs, TypeOK
  <2> QED  BY <1>2, <1>4, <2>2
<1>5. CASE ~Rewritten(t) /\ UNCHANGED health
  BY <1>2, <1>5 DEF health
<1>6. CASE CutOff(t)
  <2>1. ~Rewritten(t) /\ compared' = compared /\ healthy' = healthy
    BY <1>6 DEF CutOff, Assured, TypeOK
  <2> QED  BY <1>2, <2>1
<1> QED  BY <1>3, <1>4, <1>5, <1>6, Verdicts

(* A start of the daemon verifies the view; a command that stops leaves    *)
(* the daemon as it was.                                                   *)
LEMMA RestartAssured ==
  ASSUME TypeOK, NEW p \in Procs, Restart(p), Assured'
  PROVE  Assured \/ view = replay
<1>1. healthy \in [Procs -> BOOLEAN] /\ compared \in BOOLEAN
  BY DEF TypeOK
<1>2. PICK ok \in BOOLEAN : /\ ok => view = replay
                            /\ healthy' = [healthy EXCEPT ![p] = ok]
                            /\ compared' = (compared \/ p = "daemon")
  BY DEF Restart
<1>3. CASE p = "daemon"
  BY <1>1, <1>2, <1>3 DEF Assured, Procs
<1>4. CASE p = "cli"
  <2>1. /\ op' = [t \in Tasks |-> IF ProcOf(t) = p THEN "none" ELSE op[t]]
        /\ at' = [t \in Tasks |-> IF ProcOf(t) = p THEN "idle" ELSE at[t]]
    BY DEF Restart
  <2>2. \A t \in Tasks : Rewritten(t) => Rewritten(t)'
    BY <1>4, <2>1 DEF Rewritten
  <2>3. healthy'["daemon"] = healthy["daemon"] /\ compared' = compared
    BY <1>1, <1>2, <1>4 DEF Procs
  <2> QED  BY <2>2, <2>3 DEF Assured
<1> QED  BY <1>3, <1>4 DEF Procs

(* Every step keeps an assured daemon's view the replay. *)
LEMMA DriftStep ==
  ASSUME TypeOK, TypeOK', QuarantineInv, DriftIsCaught, [Next]_vars
  PROVE  DriftIsCaught'
<1> SUFFICES ASSUME Assured' PROVE view' = replay'
  BY DEF DriftIsCaught, Assured
<1>1. ASSUME NEW t \in Tasks, WriteView(t) PROVE FALSE
  <2>1. LocalType /\ at'[t] = "check" /\ op'[t] = "rebuild"
    BY <1>1, TypeUse DEF WriteView, LocalType
  <2>2. ProcOf(t) = "daemon"
    BY <1>1 DEF WriteView, Assured
  <2> QED  BY <2>1, <2>2 DEF Assured, Rewritten
<1>2. Assured \/ view = replay
  <2>1. CASE OutcomeStep \/ (\E m \in Mems : Elapse(m)) \/ UNCHANGED vars
    <3>1. UNCHANGED <<op, at, health>>
      BY <2>1 DEF OutcomeStep, Admit, Quarantine, BlockOutcome, Elapse, vars, local
    <3> QED  BY <3>1 DEF Assured, Rewritten, health
  <2> QED  BY <1>1, <2>1, StepAssured, RestartAssured DEF Next
<1>3. view = replay
  BY <1>2 DEF DriftIsCaught, Assured
<1> QED  BY <1>1, <1>3, TablesAgree DEF TypeOK

(* RebuildInv, part by part. *)
LEMMA RebuildParts == RebuildInv <=> TypeOK /\ QuarantineInv /\ GoneInv /\ DriftIsCaught
  BY DEF RebuildInv, QuarantineInv

(* Whatever is offered to whom, what the history says of quarantine, what  *)
(* had ended, and a drift that was caught, survive every step.             *)
THEOREM RebuildsHold == Spec => []RebuildInv
<1>1. Init => RebuildInv
  <2> SUFFICES ASSUME Init PROVE RebuildInv
    OBVIOUS
  <2>1. TypeOK
    BY TypeInit
  <2>2. GoneInv
    BY DEF Init, GoneInv, LiveInv, Spared, Preparing, NothingGoneInjected, NoRows
  <2>3. QuarantineInv /\ DriftIsCaught
    BY DEF Init, QuarantineInv, DriftIsCaught, NoRows
  <2> QED  BY <2>1, <2>2, <2>3, RebuildParts
<1>2. RebuildInv /\ [Next]_vars => RebuildInv'
  <2> SUFFICES ASSUME RebuildInv, [Next]_vars PROVE RebuildInv'
    OBVIOUS
  <2>1. TypeOK /\ QuarantineInv /\ GoneInv /\ DriftIsCaught
    BY RebuildParts
  <2>2. TypeOK'
    BY <2>1, TypeStep
  <2>3. QuarantineInv'
    BY <2>1, <2>2, TablesAgree DEF TypeOK
  <2>4. GoneInv' /\ DriftIsCaught'
    BY <2>1, <2>2, GoneStep, DriftStep
  <2> QED  BY <2>2, <2>3, <2>4 DEF RebuildInv, QuarantineInv
<1> QED  BY <1>1, <1>2, PTL DEF Spec

(* A healthy daemon whose last verdict compared the view has one that      *)
(* replays, but between its own replacement of the view and the            *)
(* verification that ends it: whatever appends, sweeps, revokes, rebuilds  *)
(* and verifies beside it.                                                 *)
THEOREM DriftCaught == Spec => []DriftIsCaught
<1>1. RebuildInv => DriftIsCaught
  BY DEF RebuildInv
<1> QED  BY <1>1, RebuildsHold, PTL

(* No session is given a memory that the history had ended, or whose time  *)
(* had elapsed, when the session asked: the verification before the sweep  *)
(* and the sweep before the rendering are enough, whatever else ends,      *)
(* expires, is approved or is rebuilt beside it, unless an old view        *)
(* replaced the verified one before the rendering.                         *)
THEOREM NothingGoneIsInjected == Spec => []NothingGoneInjected
<1>1. RebuildInv => NothingGoneInjected
  BY DEF RebuildInv, GoneInv
<1> QED  BY <1>1, RebuildsHold, PTL

---------------------------------------------------------------------------
(* Where no lane offers a rebuild.                                         *)

NeverRebuilt == \A l \in Lanes : "rebuild" \notin Offered[l]

(* Approve and block run in no other lane than the serialised one. *)
LEMMA ResolvesUnderLock ==
  ASSUME LockInv, NEW t \in Tasks, at[t] # "idle", op[t] \in {"approve", "block"}
  PROVE  Lane[t] = "http"
<1>1. op[t] \in Offered[Lane[t]] /\ Lane[t] \in Lanes
  BY LaneAssumption DEF LockInv
<1>2. op[t] \in Surface[Lane[t]]
  BY <1>1, OfferedAssumption
<1> QED  BY <1>1, <1>2 DEF Lanes, Surface

(* Without a rebuild nobody replaces the view. *)
LEMMA NoneRebuilds ==
  ASSUME LockInv, NeverRebuilt, NEW t \in Tasks, at[t] # "idle"
  PROVE  op[t] # "rebuild"
  BY LaneAssumption DEF LockInv, NeverRebuilt

(* The lock survives a move inside an action, and the end of an operation. *)
LEMMA LockMove ==
  ASSUME LocalType, LockInv, NEW t \in Tasks, InAction(t),
         NEW place \in Places \ {"idle"}, NEW S, GoTo(t, place, S)
  PROVE  LockInv'
<1>1. op' = op /\ \A u \in Tasks : u # t => at'[u] = at[u]
  BY DEF GoTo, LocalType
<1>2. \A u \in Tasks : InAction(u)' => InAction(u)
  BY <1>1 DEF InAction
<1>3. \A u \in Tasks : at'[u] # "idle" => at[u] # "idle"
  BY <1>1 DEF InAction
<1> QED  BY <1>1, <1>2, <1>3 DEF LockInv

(* The end of an operation frees the lock. *)
LEMMA LockFinish ==
  ASSUME LocalType, LockInv, NEW t \in Tasks, Finish(t)
  PROVE  LockInv' /\ at'[t] = "idle"
<1>1. \A u \in Tasks : u # t => at'[u] = at[u] /\ op'[u] = op[u]
  BY DEF Finish, LocalType
<1>2. at'[t] = "idle"
  BY DEF Finish, LocalType
<1>3. \A u \in Tasks : InAction(u)' => InAction(u)
  BY <1>1, <1>2 DEF InAction
<1> QED  BY <1>1, <1>2, <1>3 DEF LockInv

Targeted(t) ==
  at[t] = "append" =>
    IF op[t] \in {"approve", "block"}
      THEN arg[t] \subseteq replay.quarantine
      ELSE arg[t] \subseteq {m \in Mems : Known(replay, m)}

(* What the others are about to append survives a move of one task, as     *)
(* long as quarantined candidates stay and known memories stay known.      *)
LEMMA OthersTargeted ==
  ASSUME LocalType, NEW t \in Tasks, \A u \in Tasks : Targeted(u),
         \/ Finish(t)
         \/ \E place \in Places \ {"append"} : \E S : GoTo(t, place, S),
         \A m \in Mems : Known(replay, m) => Known(replay, m)',
         \A u \in Tasks \ {t} :
           at[u] = "append" /\ op[u] \in {"approve", "block"} =>
             arg[u] \subseteq replay'.quarantine
  PROVE  \A u \in Tasks : Targeted(u)'
<1>1. \A u \in Tasks : u # t => at'[u] = at[u] /\ op'[u] = op[u] /\ arg'[u] = arg[u]
  BY DEF Finish, GoTo, LocalType
<1>2. at'[t] # "append"
  BY DEF Finish, GoTo, LocalType
<1>3. ASSUME NEW u \in Tasks, u # t PROVE Targeted(u)'
  <2>1. SUFFICES ASSUME at[u] = "append"
                 PROVE  IF op[u] \in {"approve", "block"}
                          THEN arg[u] \subseteq replay'.quarantine
                          ELSE arg[u] \subseteq {m \in Mems : Known(replay, m)'}
    BY <1>1, <1>3 DEF Targeted
  <2>2. IF op[u] \in {"approve", "block"}
          THEN arg[u] \subseteq replay.quarantine
          ELSE arg[u] \subseteq {m \in Mems : Known(replay, m)}
    BY <2>1 DEF Targeted
  <2> QED  BY <1>3, <2>1, <2>2
<1> QED  BY <1>2, <1>3 DEF Targeted

ActiveKnown == \A m \in replay.active : Known(replay, m)

(* TargetInv, part by part. *)
LEMMA TargetParts ==
  TargetInv <=> QuarantineInv /\ (\A t \in Tasks : Targeted(t)) /\ ActiveKnown
  BY DEF TargetInv, QuarantineInv, Targeted, ActiveKnown

(* A move that leaves the tables alone and does not aim an append. *)
LEMMA QuietMove ==
  ASSUME LocalType, LockInv, TargetInv, NEW t \in Tasks,
         UNCHANGED <<replay, fate>>,
         \/ Finish(t)
         \/ InAction(t) /\ \E place \in Places \ {"idle", "append"} : \E S : GoTo(t, place, S)
  PROVE  LockInv' /\ TargetInv'
<1>1. LockInv'
  BY LockMove, LockFinish
<1>2. \A u \in Tasks : Targeted(u)'
  <2>1. \A m \in Mems : Known(replay, m) => Known(replay, m)'
    BY DEF Known
  <2>2. \A u \in Tasks : Targeted(u)
    BY TargetParts
  <2>3. \A u \in Tasks \ {t} : at[u] = "append" /\ op[u] \in {"approve", "block"} =>
          arg[u] \subseteq replay'.quarantine
    BY <2>2 DEF Targeted
  <2> QED  BY <2>1, <2>2, <2>3, OthersTargeted
<1>3. QuarantineInv' /\ ActiveKnown'
  BY TargetParts DEF QuarantineInv, ActiveKnown, Known
<1> QED  BY <1>1, <1>2, <1>3, TargetParts DEF TargetInv, QuarantineInv, Targeted, ActiveKnown

(* A move that aims an append at what is quarantined or known. *)
LEMMA AimingMove ==
  ASSUME LocalType, LockInv, TargetInv, NEW t \in Tasks, InAction(t),
         NEW S, GoTo(t, "append", S), UNCHANGED <<replay, fate>>,
         IF op[t] \in {"approve", "block"}
           THEN S \subseteq replay.quarantine
           ELSE S \subseteq {m \in Mems : Known(replay, m)}
  PROVE  LockInv' /\ TargetInv'
<1>1. LockInv'
  BY LockMove DEF Places
<1>2. \A u \in Tasks : u # t => at'[u] = at[u] /\ op'[u] = op[u] /\ arg'[u] = arg[u]
  BY DEF GoTo, LocalType
<1>3. op'[t] = op[t] /\ arg'[t] = S
  BY DEF GoTo, LocalType
<1>4. \A u \in Tasks : Targeted(u)
  BY TargetParts
<1>5. ASSUME NEW u \in Tasks PROVE Targeted(u)'
  BY <1>2, <1>3, <1>4 DEF Targeted, Known
<1>6. QuarantineInv' /\ ActiveKnown'
  BY TargetParts DEF QuarantineInv, ActiveKnown, Known
<1> QED  BY <1>1, <1>5, <1>6, TargetParts DEF TargetInv, QuarantineInv, Targeted, ActiveKnown

(* An append that ends memories: revocation, rescan, expiry. *)
LEMMA EndingAppend ==
  ASSUME LocalType, LockInv, TargetInv, replay \in Views, seq' \in Nat,
         NEW t \in Tasks, InAction(t),
         NEW s \in Statuses \ {"absent"}, NEW place \in {"check", "render"},
         replay' = ReplayEnded(replay, arg[t], s, seq'),
         GoTo(t, place, {}), UNCHANGED fate
  PROVE  LockInv' /\ TargetInv'
<1>1. LockInv'
  BY LockMove DEF Places
<1>2. /\ replay'.active = replay.active \ arg[t]
      /\ replay'.quarantine = replay.quarantine
      /\ \A x \in Mems : Known(replay', x) <=> Known(replay, x)
  <2> DEFINE w == ReplayEnded(replay, arg[t], s, seq')
  <2>1. /\ w.active = replay.active \ arg[t]
        /\ w.quarantine = replay.quarantine
        /\ \A x \in Mems : Known(w, x) <=> Known(replay, x)
    BY EndedFacts
  <2> HIDE DEF w
  <2>2. replay' = w
    BY DEF w
  <2> QED  BY <2>1, <2>2 DEF Known
<1>3. \A u \in Tasks : Targeted(u)'
  <2>1. \A m \in Mems : Known(replay, m) => Known(replay, m)'
    BY <1>2 DEF Known
  <2>2. \A u \in Tasks : Targeted(u)
    BY TargetParts
  <2>3. \A u \in Tasks \ {t} : at[u] = "append" /\ op[u] \in {"approve", "block"} =>
          arg[u] \subseteq replay'.quarantine
    BY <1>2, <2>2 DEF Targeted
  <2> QED  BY <2>1, <2>2, <2>3, OthersTargeted DEF Places
<1>4. QuarantineInv'
  BY <1>2, TargetParts DEF QuarantineInv
<1>5. ActiveKnown'
  <2>1. replay.active \subseteq Mems
    BY DEF Views
  <2> QED  BY <1>2, <2>1, TargetParts DEF ActiveKnown, Known
<1> QED  BY <1>1, <1>3, <1>4, <1>5, TargetParts DEF TargetInv, QuarantineInv, Targeted, ActiveKnown

(* Nobody else is about to resolve a candidate while task t is in an       *)
(* action of the serialised lane.                                          *)
LEMMA NobodyElseResolves ==
  ASSUME LockInv, NEW t \in Tasks, InAction(t), op[t] \in {"approve", "block"},
         NEW u \in Tasks \ {t}, at[u] = "append"
  PROVE  op[u] \notin {"approve", "block"}
<1>1. Lane[t] = "http"
  BY ResolvesUnderLock DEF InAction
<1>2. ASSUME op[u] \in {"approve", "block"} PROVE FALSE
  <2>1. Lane[u] = "http"
    BY <1>2, ResolvesUnderLock
  <2>2. InAction(u)
    BY DEF InAction
  <2> QED  BY <1>1, <2>1, <2>2 DEF LockInv
<1> QED  BY <1>2

(* A request's own steps leave the tables alone. *)
LEMMA RequestInv ==
  ASSUME IInv, NEW t \in Tasks, RequestStep(t)
  PROVE  LockInv' /\ ViewIsReplay' /\ TargetInv'
<1> USE DEF tables
<1>1. LocalType /\ LockInv /\ ViewIsReplay /\ TargetInv
  BY TypeUse DEF IInv
<1>2. ASSUME NEW o \in Ops, Begin(t, o) PROVE LockInv' /\ ViewIsReplay' /\ TargetInv'
  <2>1. /\ at[t] = "idle" /\ o \in Offered[Lane[t]] /\ op' = [op EXCEPT ![t] = o]
        /\ at' = [at EXCEPT ![t] = IF Lane[t] = "http" THEN "queued" ELSE "verify"]
        /\ UNCHANGED <<replay, view, fate, arg>>
    BY <1>2 DEF Begin
  <2>2. \A u \in Tasks : u # t => at'[u] = at[u] /\ op'[u] = op[u]
    BY <1>1, <2>1 DEF LocalType
  <2>3. op'[t] = o /\ at'[t] \in {"queued", "verify"} /\ (Lane[t] = "http" => at'[t] = "queued")
    BY <1>1, <2>1 DEF LocalType
  <2>4. \A u \in Tasks : InAction(u)' => InAction(u) \/ (u = t /\ Lane[t] # "http")
    BY <2>2, <2>3 DEF InAction
  <2>5. LockInv'
    BY <1>1, <2>1, <2>2, <2>3, <2>4 DEF LockInv
  <2>6. \A u \in Tasks : Targeted(u)'
    BY <1>1, <2>1, <2>2, <2>3, TargetParts DEF Targeted, Known
  <2> QED  BY <1>1, <2>1, <2>5, <2>6, TargetParts
           DEF ViewIsReplay, TargetInv, QuarantineInv, ActiveKnown, Targeted, Known
<1>3. CASE Acquire(t)
  <2>1. /\ at[t] = "queued" /\ GoTo(t, "verify", {}) /\ UNCHANGED <<replay, view, fate>>
        /\ \A u \in Tasks \ {t} : Lane[u] = "http" => at[u] \in {"idle", "queued"}
    BY <1>3 DEF Acquire
  <2>2. /\ op' = op /\ at'[t] = "verify"
        /\ \A u \in Tasks : u # t => at'[u] = at[u] /\ arg'[u] = arg[u]
    BY <1>1, <2>1 DEF GoTo, LocalType
  <2>3. \A u \in Tasks \ {t} : Lane[u] = "http" => ~InAction(u)'
    BY <2>1, <2>2 DEF InAction
  <2>4. LockInv'
    BY <1>1, <2>1, <2>2, <2>3 DEF LockInv
  <2>5. \A u \in Tasks : Targeted(u)'
    BY <1>1, <2>1, <2>2, TargetParts DEF Targeted, Known
  <2> QED  BY <1>1, <2>1, <2>4, <2>5, TargetParts
           DEF ViewIsReplay, TargetInv, QuarantineInv, ActiveKnown, Targeted, Known
<1>4. CASE Abandon(t) \/ CutOff(t)
  BY <1>1, <1>4, QuietMove DEF Abandon, CutOff, ViewIsReplay
<1>5. CASE VerifyHistory(t)
  <2>1. /\ at[t] = "verify" /\ UNCHANGED <<replay, view, fate>>
        /\ GoTo(t, "find", {}) \/ Finish(t)
    BY <1>5 DEF VerifyHistory
  <2> QED  BY <1>1, <2>1, QuietMove DEF InAction, Places, ViewIsReplay
<1>6. CASE VerifyChain(t)
  <2>1. /\ at[t] = "verify" /\ UNCHANGED <<replay, view, fate>>
        /\ GoTo(t, "find", {}) \/ Finish(t)
    BY <1>6 DEF VerifyChain
  <2> QED  BY <1>1, <2>1, QuietMove DEF InAction, Places, ViewIsReplay
<1>7. CASE Check(t)
  BY <1>1, <1>7, QuietMove DEF Check, ViewIsReplay
<1>8. CASE VerifyLedger(t)
  BY <1>1, <1>8, QuietMove DEF VerifyLedger, ViewIsReplay
<1> QED  BY <1>2, <1>3, <1>4, <1>5, <1>6, <1>7, <1>8 DEF RequestStep

(* Trust actions and rescans. *)
LEMMA TrustInv ==
  ASSUME IInv, NEW t \in Tasks, TrustStep(t), TypeOK'
  PROVE  LockInv' /\ ViewIsReplay' /\ TargetInv'
<1> USE DEF tables
<1>1. LocalType /\ LockInv /\ view = replay /\ TargetInv /\ replay \in Views /\ seq' \in Nat
  BY TypeUse DEF IInv, ViewIsReplay, TypeOK
<1>2. {"revoked", "expired"} \subseteq Statuses \ {"absent"}
  BY DEF Statuses
<1>3. CASE FindActive(t)
  <2>1. PICK m \in replay.active : GoTo(t, "append", {m})
    BY <1>1, <1>3 DEF FindActive
  <2>2. m \in Mems /\ Known(replay, m)
    BY <1>1, TargetParts DEF Views, ActiveKnown
  <2>3. at[t] = "find" /\ op[t] = "revoke" /\ UNCHANGED <<replay, view, fate>>
    BY <1>3 DEF FindActive
  <2> QED  BY <1>1, <2>1, <2>2, <2>3, AimingMove DEF InAction, ViewIsReplay
<1>4. CASE FindQuarantined(t)
  <2>1. PICK c \in replay.quarantine : GoTo(t, "append", {c})
    BY <1>1, <1>4 DEF FindQuarantined
  <2>2. at[t] = "find" /\ op[t] \in {"approve", "block"} /\ UNCHANGED <<replay, view, fate>>
    BY <1>4 DEF FindQuarantined
  <2> QED  BY <1>1, <2>1, <2>2, AimingMove DEF InAction, ViewIsReplay
<1>5. CASE FindRescanned(t)
  <2>1. PICK m \in replay.active : GoTo(t, "append", {m})
    BY <1>5 DEF FindRescanned
  <2>2. m \in Mems /\ Known(replay, m)
    BY <1>1, TargetParts DEF Views, ActiveKnown
  <2>3. at[t] = "find" /\ op[t] = "rescan" /\ UNCHANGED <<replay, view, fate>>
    BY <1>5 DEF FindRescanned
  <2> QED  BY <1>1, <2>1, <2>2, <2>3, AimingMove DEF InAction, ViewIsReplay
<1>6. CASE Revoke(t)
  <2>1. /\ at[t] = "append" /\ GoTo(t, "check", {}) /\ UNCHANGED fate
        /\ replay' = ReplayEnded(replay, arg[t], "revoked", seq')
        /\ view' = ProjectEnded(view, arg[t], "revoked", seq')
    BY <1>6 DEF Revoke
  <2>2. view' = replay'
    BY <1>1, <2>1, ProjectorsReplay
  <2> QED  BY <1>1, <1>2, <2>1, <2>2, EndingAppend DEF InAction, ViewIsReplay
<1>7. CASE RescanRevokes(t)
  <2>1. /\ at[t] = "append" /\ GoTo(t, "check", {}) /\ UNCHANGED fate
        /\ replay' = ReplayEnded(replay, arg[t], "revoked", seq')
        /\ view' = ProjectEnded(view, arg[t], "revoked", seq')
    BY <1>7 DEF RescanRevokes
  <2>2. view' = replay'
    BY <1>1, <2>1, ProjectorsReplay
  <2> QED  BY <1>1, <1>2, <2>1, <2>2, EndingAppend DEF InAction, ViewIsReplay
<1>8. CASE RescanKeeps(t)
  <2>1. /\ at[t] = "append" /\ GoTo(t, "check", {}) /\ UNCHANGED <<replay, view, fate>>
    BY <1>8 DEF RescanKeeps
  <2> QED  BY <1>1, <2>1, QuietMove DEF InAction, Places, ViewIsReplay
<1>9. CASE Approve(t)
  <2>1. PICK c \in arg[t], m \in Mems :
          /\ replay' = ReplayApproved(replay, c, m, seq')
          /\ view' = ProjectApproval(view, c, m, seq')
          /\ fate' = [fate EXCEPT ![c] = "approved"]
    BY <1>9 DEF Approve
  <2>2. at[t] = "append" /\ op[t] = "approve" /\ Finish(t)
    BY <1>9 DEF Approve
  <2>3. view' = replay'
    BY <1>1, <2>1, ProjectorsReplay
  <2>4. /\ replay'.active = replay.active \cup {m}
        /\ replay'.quarantine = replay.quarantine \ {c}
        /\ \A x \in Mems : Known(replay', x) <=> Known(replay, x) \/ x = m
    <3> DEFINE w == ReplayApproved(replay, c, m, seq')
    <3>1. /\ w.active = replay.active \cup {m}
          /\ w.quarantine = replay.quarantine \ {c}
          /\ \A x \in Mems : Known(w, x) <=> Known(replay, x) \/ x = m
      BY <1>1, ApprovalFacts
    <3> HIDE DEF w
    <3>2. replay' = w
      BY <2>1 DEF w
    <3> QED  BY <3>1, <3>2 DEF Known
  <2>5. QuarantineInv'
    <3>1. fate \in [Cands -> Fates]
      BY TypeUse DEF IInv
    <3> QED  BY <1>1, <2>1, <2>4, <3>1, TargetParts DEF QuarantineInv
  <2>6. ActiveKnown'
    <3>1. replay.active \subseteq Mems
      BY <1>1 DEF Views
    <3> QED  BY <1>1, <2>4, <3>1, TargetParts DEF ActiveKnown, Known
  <2>7. \A u \in Tasks : Targeted(u)'
    <3>1. \A x \in Mems : Known(replay, x) => Known(replay, x)'
      BY <2>4 DEF Known
    <3>2. \A u \in Tasks \ {t} : at[u] = "append" => op[u] \notin {"approve", "block"}
      BY <1>1, <2>2, NobodyElseResolves DEF InAction
    <3> QED  BY <1>1, <2>2, <3>1, <3>2, OthersTargeted, TargetParts
  <2>8. LockInv'
    BY <1>1, <2>2, LockFinish
  <2> QED  BY <2>3, <2>5, <2>6, <2>7, <2>8, TargetParts
           DEF ViewIsReplay, TargetInv, QuarantineInv, ActiveKnown, Targeted
<1>10. CASE Block(t)
  <2>1. PICK c \in arg[t] :
          /\ replay' = ReplayBlocked(replay, c)
          /\ view' = ProjectBlock(view, c)
          /\ fate' = [fate EXCEPT ![c] = "blocked"]
    BY <1>10 DEF Block
  <2>2. at[t] = "append" /\ op[t] = "block" /\ Finish(t)
    BY <1>10 DEF Block
  <2>3. view' = replay'
    BY <1>1, <2>1, ProjectorsReplay
  <2>4. /\ replay'.active = replay.active
        /\ replay'.quarantine = replay.quarantine \ {c}
        /\ \A x \in Mems : Known(replay', x) <=> Known(replay, x)
    BY <1>1, <2>1, QuarantineFacts DEF ReplayBlocked, Views, Known
  <2>5. QuarantineInv'
    <3>1. fate \in [Cands -> Fates]
      BY TypeUse DEF IInv
    <3> QED  BY <1>1, <2>1, <2>4, <3>1, TargetParts DEF QuarantineInv
  <2>6. ActiveKnown'
    <3>1. replay.active \subseteq Mems
      BY <1>1 DEF Views
    <3> QED  BY <1>1, <2>4, <3>1, TargetParts DEF ActiveKnown, Known
  <2>7. \A u \in Tasks : Targeted(u)'
    <3>1. \A x \in Mems : Known(replay, x) => Known(replay, x)'
      BY <2>4 DEF Known
    <3>2. \A u \in Tasks \ {t} : at[u] = "append" => op[u] \notin {"approve", "block"}
      BY <1>1, <2>2, NobodyElseResolves DEF InAction
    <3> QED  BY <1>1, <2>2, <3>1, <3>2, OthersTargeted, TargetParts
  <2>8. LockInv'
    BY <1>1, <2>2, LockFinish
  <2> QED  BY <2>3, <2>5, <2>6, <2>7, <2>8, TargetParts
           DEF ViewIsReplay, TargetInv, QuarantineInv, ActiveKnown, Targeted
<1> QED  BY <1>3, <1>4, <1>5, <1>6, <1>7, <1>8, <1>9, <1>10 DEF TrustStep

(* Session starts; the steps of a rebuild do not occur. *)
LEMMA SessionInv ==
  ASSUME IInv, NeverRebuilt, NEW t \in Tasks, ViewStep(t), TypeOK'
  PROVE  LockInv' /\ ViewIsReplay' /\ TargetInv'
<1> USE DEF tables
<1>1. LocalType /\ LockInv /\ view = replay /\ TargetInv /\ replay \in Views /\ seq' \in Nat
  BY TypeUse DEF IInv, ViewIsReplay, TypeOK
<1>2. "expired" \in Statuses \ {"absent"}
  BY DEF Statuses
<1>3. CASE Sweep(t)
  <2> DEFINE due == view.active \cap elapsed
  <2>1. /\ at[t] = "find" /\ op[t] = "session" /\ UNCHANGED <<replay, view, fate>>
        /\ GoTo(t, IF due = {} THEN "render" ELSE "append", due)
    BY <1>3 DEF Sweep
  <2>2. due \subseteq {m \in Mems : Known(replay, m)}
    BY <1>1, TargetParts DEF Views, ActiveKnown
  <2> HIDE DEF due
  <2>3. CASE due = {}
    BY <1>1, <2>1, <2>3, QuietMove DEF InAction, Places, ViewIsReplay
  <2>4. CASE due # {}
    BY <1>1, <2>1, <2>2, <2>4, AimingMove DEF InAction, ViewIsReplay
  <2> QED  BY <2>3, <2>4
<1>4. CASE Expire(t)
  <2>1. /\ at[t] = "append" /\ GoTo(t, "render", {}) /\ UNCHANGED fate
        /\ replay' = ReplayEnded(replay, arg[t], "expired", seq')
        /\ view' = ProjectEnded(view, arg[t], "expired", seq')
    BY <1>4 DEF Expire
  <2>2. view' = replay'
    BY <1>1, <2>1, ProjectorsReplay
  <2> QED  BY <1>1, <1>2, <2>1, <2>2, EndingAppend DEF InAction, ViewIsReplay
<1>5. CASE Render(t)
  <2>1. /\ at[t] = "render" /\ UNCHANGED <<replay, view, fate>>
        /\ GoTo(t, "check", view.active)
    BY <1>5 DEF Render
  <2> QED  BY <1>1, <2>1, QuietMove DEF InAction, Places, ViewIsReplay
<1>6. CASE Inject(t)
  BY <1>1, <1>6, QuietMove DEF Inject, ViewIsReplay
<1>7. CASE ReadHistory(t)
  BY <1>1, <1>7, NoneRebuilds DEF ReadHistory
<1>8. CASE WriteView(t)
  BY <1>1, <1>8, NoneRebuilds DEF WriteView
<1> QED  BY <1>3, <1>4, <1>5, <1>6, <1>7, <1>8 DEF ViewStep

(* Outcomes of evaluations are about new candidates and new memories. *)
LEMMA OutcomeInv ==
  ASSUME IInv, OutcomeStep, TypeOK'
  PROVE  LockInv' /\ ViewIsReplay' /\ TargetInv'
<1> USE DEF local
<1>1. /\ LocalType /\ LockInv /\ view = replay /\ TargetInv /\ replay \in Views /\ seq' \in Nat
      /\ fate \in [Cands -> Fates]
  BY TypeUse DEF IInv, ViewIsReplay, TypeOK
<1>2. SUFFICES ASSUME UNCHANGED local
               PROVE  ViewIsReplay' /\ QuarantineInv' /\ ActiveKnown'
                      /\ replay.quarantine \subseteq replay'.quarantine
                      /\ \A x \in Mems : Known(replay, x) => Known(replay, x)'
  <2>1. UNCHANGED local
    BY DEF OutcomeStep, Admit, Quarantine, BlockOutcome
  <2>2. LockInv'
    BY <1>1, <2>1 DEF LockInv, InAction
  <2>3. ASSUME replay.quarantine \subseteq replay'.quarantine,
               \A x \in Mems : Known(replay, x) => Known(replay, x)'
        PROVE  \A u \in Tasks : Targeted(u)'
    <3>1. ASSUME NEW u \in Tasks, at'[u] = "append" PROVE
             IF op'[u] \in {"approve", "block"}
               THEN arg'[u] \subseteq replay'.quarantine
               ELSE arg'[u] \subseteq {m \in Mems : Known(replay, m)'}
      <4>1. Targeted(u) /\ at[u] = "append" /\ op'[u] = op[u] /\ arg'[u] = arg[u]
        BY <1>1, <2>1, <3>1, TargetParts
      <4>2. CASE op[u] \in {"approve", "block"}
        BY <2>3, <4>1, <4>2 DEF Targeted
      <4>3. CASE op[u] \notin {"approve", "block"}
        BY <2>3, <4>1, <4>3 DEF Targeted
      <4> QED  BY <4>1, <4>2, <4>3
    <3> QED  BY <3>1 DEF Targeted
  <2> QED  BY <2>1, <2>2, <2>3 DEF TargetInv, QuarantineInv, Targeted, ActiveKnown
<1>3. replay.active \subseteq Mems /\ QuarantineInv /\ ActiveKnown
  BY <1>1, TargetParts DEF Views
<1>4. ASSUME NEW c \in Cands, NEW m \in Mems, NEW s \in {"active", "redacted"}, Admit(c, m, s)
      PROVE  ViewIsReplay' /\ QuarantineInv' /\ ActiveKnown'
             /\ replay.quarantine \subseteq replay'.quarantine
             /\ \A x \in Mems : Known(replay, x) => Known(replay, x)'
  <2>1. /\ fate[c] = "new" /\ fate' = [fate EXCEPT ![c] = "admitted"]
        /\ replay' = ReplayCommit(replay, m, s, seq')
        /\ view' = ProjectCommit(view, m, s, seq')
    BY <1>4 DEF Admit
  <2>2. view' = replay'
    BY <1>1, <2>1, ProjectorsReplay
  <2> DEFINE w == ReplayCommit(replay, m, s, seq')
  <2>3. /\ w.active = replay.active \cup {m}
        /\ w.quarantine = replay.quarantine
        /\ \A x \in Mems : Known(w, x) <=> Known(replay, x) \/ x = m
    <3>1. s \in Statuses \ {"absent"}
      BY DEF Statuses
    <3> QED  BY <1>1, <3>1, CommitFacts
  <2>4. replay' = w
    BY <2>1
  <2> HIDE DEF w
  <2>5. QuarantineInv'
    BY <1>1, <1>3, <2>1, <2>3, <2>4 DEF QuarantineInv
  <2> QED  BY <1>3, <2>2, <2>3, <2>4, <2>5 DEF ViewIsReplay, ActiveKnown, Known
<1>5. ASSUME NEW c \in Cands, Quarantine(c)
      PROVE  ViewIsReplay' /\ QuarantineInv' /\ ActiveKnown'
             /\ replay.quarantine \subseteq replay'.quarantine
             /\ \A x \in Mems : Known(replay, x) => Known(replay, x)'
  <2>1. /\ fate[c] = "new" /\ fate' = [fate EXCEPT ![c] = "quarantined"]
        /\ replay' = ReplayQuarantined(replay, c)
        /\ view' = ProjectQuarantine(view, c)
    BY <1>5 DEF Quarantine
  <2>2. view' = replay'
    BY <1>1, <2>1, ProjectorsReplay
  <2> DEFINE w == ReplayQuarantined(replay, c)
  <2>3. /\ w.active = replay.active
        /\ w.quarantine = replay.quarantine \cup {c}
        /\ \A x \in Mems : Known(w, x) <=> Known(replay, x)
    BY <1>1, QuarantineFacts
  <2>4. replay' = w
    BY <2>1
  <2> HIDE DEF w
  <2>5. QuarantineInv'
    BY <1>1, <1>3, <2>1, <2>3, <2>4 DEF QuarantineInv
  <2> QED  BY <1>3, <2>2, <2>3, <2>4, <2>5 DEF ViewIsReplay, ActiveKnown, Known
<1>6. ASSUME NEW c \in Cands, BlockOutcome(c)
      PROVE  ViewIsReplay' /\ QuarantineInv' /\ ActiveKnown'
             /\ replay.quarantine \subseteq replay'.quarantine
             /\ \A x \in Mems : Known(replay, x) => Known(replay, x)'
  <2>1. /\ fate[c] = "new" /\ fate' = [fate EXCEPT ![c] = "blocked"]
        /\ replay' = ReplayBlocked(replay, c) /\ view' = view
    BY <1>6 DEF BlockOutcome
  <2>2. c \notin replay.quarantine
    BY <1>3, <2>1 DEF QuarantineInv
  <2>3. replay' = replay
    BY <1>1, <2>1, <2>2 DEF ReplayBlocked, Views
  <2>4. QuarantineInv'
    BY <1>1, <1>3, <2>1, <2>3 DEF QuarantineInv
  <2> QED  BY <1>1, <1>3, <2>1, <2>3, <2>4 DEF ViewIsReplay, ActiveKnown, Known
<1> QED  BY <1>4, <1>5, <1>6 DEF OutcomeStep

(* A step that changes neither the tables nor where the tasks are. *)
LEMMA IdleStep ==
  ASSUME LockInv, ViewIsReplay, TargetInv, UNCHANGED <<replay, view, fate, op, at, arg>>
  PROVE  LockInv' /\ ViewIsReplay' /\ TargetInv'
<1>1. LockInv'
  BY DEF LockInv, InAction
<1>2. TargetInv'
  BY DEF TargetInv, Known
<1> QED  BY <1>1, <1>2 DEF ViewIsReplay

(* Without rebuilds every step keeps the invariant. *)
LEMMA InvStep == NeverRebuilt /\ IInv /\ [Next]_vars => IInv'
<1> SUFFICES ASSUME NeverRebuilt, IInv, [Next]_vars PROVE IInv'
  OBVIOUS
<1>1. TypeOK'
  BY TypeStep DEF IInv
<1>2. LockInv /\ ViewIsReplay /\ TargetInv /\ LocalType
  BY TypeUse DEF IInv
<1>3. ASSUME NEW t \in Tasks, RequestStep(t) \/ TrustStep(t) \/ ViewStep(t)
      PROVE  LockInv' /\ ViewIsReplay' /\ TargetInv'
  BY <1>1, <1>3, RequestInv, TrustInv, SessionInv
<1>4. ASSUME OutcomeStep PROVE LockInv' /\ ViewIsReplay' /\ TargetInv'
  BY <1>1, <1>4, OutcomeInv
<1>5. ASSUME NEW m \in Mems, Elapse(m) PROVE LockInv' /\ ViewIsReplay' /\ TargetInv'
  <2>1. UNCHANGED <<replay, view, fate, op, at, arg>>
    BY <1>5 DEF Elapse, tables, local
  <2> QED  BY <1>2, <2>1, IdleStep
<1>6. ASSUME NEW p \in Procs, Restart(p) PROVE LockInv' /\ ViewIsReplay' /\ TargetInv'
  <2>1. /\ op' = [t \in Tasks |-> IF ProcOf(t) = p THEN "none" ELSE op[t]]
        /\ at' = [t \in Tasks |-> IF ProcOf(t) = p THEN "idle" ELSE at[t]]
        /\ arg' = [t \in Tasks |-> IF ProcOf(t) = p THEN {} ELSE arg[t]]
        /\ UNCHANGED <<replay, view, fate>>
    BY <1>6 DEF Restart, tables
  <2>2. \A t \in Tasks :
          at'[t] = "idle" \/ (at'[t] = at[t] /\ op'[t] = op[t] /\ arg'[t] = arg[t])
    BY <2>1
  <2>3. LockInv'
    BY <1>2, <2>2 DEF LockInv, InAction
  <2>4. TargetInv'
    BY <1>2, <2>1, <2>2 DEF TargetInv, Known
  <2> QED  BY <1>2, <2>1, <2>3, <2>4 DEF ViewIsReplay
<1>7. ASSUME UNCHANGED vars PROVE LockInv' /\ ViewIsReplay' /\ TargetInv'
  <2>1. UNCHANGED <<replay, view, fate, op, at, arg>>
    BY <1>7 DEF vars, tables, local
  <2> QED  BY <1>2, <2>1, IdleStep
<1>8. LockInv' /\ ViewIsReplay' /\ TargetInv'
  BY <1>3, <1>4, <1>5, <1>6, <1>7 DEF Next, IInv
<1>9. GoneInv'
  BY <1>1, <1>2, TargetParts, GoneStep DEF IInv
<1> QED  BY <1>1, <1>8, <1>9 DEF IInv

(* The program starts in the invariant. *)
LEMMA InvInit == Init => IInv
<1> SUFFICES ASSUME Init PROVE IInv
  OBVIOUS
<1>1. TypeOK /\ LockInv /\ ViewIsReplay /\ TargetInv
  BY TypeInit DEF Init, LockInv, InAction, ViewIsReplay, TargetInv, NoRows
<1>2. GoneInv
  BY DEF Init, GoneInv, LiveInv, Spared, Preparing, NothingGoneInjected, NoRows
<1> QED  BY <1>1, <1>2 DEF IInv

(* Where nobody rebuilds, the inductive invariant holds: the lock, the     *)
(* targets of the appends under way, and the agreement of the view.        *)
THEOREM InvariantHolds == ASSUME NeverRebuilt PROVE Spec => []IInv
<1>1. IInv /\ [Next]_vars => IInv'
  BY InvStep
<1> QED  BY <1>1, InvInit, PTL DEF Spec

(* Where nobody rebuilds, projectors and replay agree: the view is the     *)
(* replay of the signed history, whatever operators, sessions, commands    *)
(* and the worker do at the same time.                                     *)
THEOREM ViewReplays == ASSUME NeverRebuilt PROVE Spec => []ViewIsReplay
<1>1. IInv => ViewIsReplay
  BY DEF IInv
<1> QED  BY <1>1, InvariantHolds, PTL

(* The step of one task moves no other task. *)
LEMMA OneTaskMoves ==
  ASSUME LocalType, NEW u \in Tasks, RequestStep(u) \/ TrustStep(u) \/ ViewStep(u),
         NEW t \in Tasks \ {u}
  PROVE  at'[t] = at[t]
<1>1. \/ \E place : at' = [at EXCEPT ![u] = place]
      \/ Finish(u)
      \/ \E place, S : GoTo(u, place, S)
  <2>1. CASE RequestStep(u)
    BY <2>1 DEF RequestStep, Begin, Acquire, Abandon, CutOff, VerifyHistory, VerifyChain,
                VerifyLedger, Check
  <2>2. CASE TrustStep(u)
    BY <2>2 DEF TrustStep, FindActive, Revoke, FindQuarantined, Approve, Block,
                FindRescanned, RescanRevokes, RescanKeeps
  <2>3. CASE ViewStep(u)
    BY <2>3 DEF ViewStep, Sweep, Expire, Render, Inject, ReadHistory, WriteView
  <2> QED  BY <2>1, <2>2, <2>3
<1> QED  BY <1>1 DEF Finish, GoTo, LocalType

RescanOfLive ==
  \A t \in Tasks :
    op[t] = "rescan" /\ at[t] = "append" /\ at'[t] = "check" /\ replay' # replay
    => arg[t] \subseteq replay.active

(* Only the projector of a rescan appends its revocation, and it has just  *)
(* looked at the rows.                                                     *)
LEMMA RescanStep == IInv /\ [Next]_vars => RescanOfLive
<1> SUFFICES ASSUME IInv, [Next]_vars, NEW t \in Tasks,
                    op[t] = "rescan", at[t] = "append", at'[t] = "check", replay' # replay
             PROVE  arg[t] \subseteq replay.active
  BY DEF RescanOfLive
<1>1. view = replay /\ LocalType
  BY TypeUse DEF IInv, ViewIsReplay
<1>2. ASSUME NEW u \in Tasks, RequestStep(u) \/ TrustStep(u) \/ ViewStep(u)
      PROVE  u = t
  BY <1>1, <1>2, OneTaskMoves
<1>3. CASE RequestStep(t)
  BY <1>1, <1>3 DEF RequestStep, Begin, Acquire, Abandon, CutOff, VerifyHistory, VerifyChain,
                    VerifyLedger, Check,
                    Finish, LocalType
<1>4. CASE TrustStep(t)
  BY <1>1, <1>4 DEF TrustStep, FindActive, Revoke, FindQuarantined, Approve, Block,
                    FindRescanned, RescanRevokes, RescanKeeps, Unchanged
<1>5. CASE ViewStep(t)
  BY <1>5 DEF ViewStep, Sweep, Expire, Render, Inject, ReadHistory, WriteView
<1>6. CASE OutcomeStep
  BY <1>6 DEF OutcomeStep, Admit, Quarantine, BlockOutcome, local
<1>7. CASE (\E m \in Mems : Elapse(m)) \/ UNCHANGED vars
  BY <1>7 DEF Elapse, vars, tables, local
<1>8. CASE \E p \in Procs : Restart(p)
  BY <1>8 DEF Restart, tables
<1> QED  BY <1>2, <1>3, <1>4, <1>5, <1>6, <1>7, <1>8 DEF Next

(* Where nobody rebuilds, a rescan revokes a live memory or nothing. *)
THEOREM RescansRevokeLive == ASSUME NeverRebuilt PROVE Spec => RescanRevokesLive
<1>1. IInv /\ [Next]_vars => RescanOfLive
  BY RescanStep
<1> QED  BY <1>1, InvariantHolds, PTL DEF Spec, RescanRevokesLive, RescanOfLive

---------------------------------------------------------------------------
(* The lifecycle.                                                          *)

LifeBar == [m \in Mems |-> LifeOf(replay.inventory[m].status)]

(* A memory has no life exactly while it is unknown. *)
LEMMA LifeFacts ==
  ASSUME NEW m \in Mems
  PROVE  /\ LifeOf(replay.inventory[m].status) = "none" <=> ~Known(replay, m)
         /\ LifeOf(replay.inventory[m].status) \in {"none", "live", "ended"}
  BY DEF LifeOf, Known

(* Steps that leave the history alone stutter. *)
LEMMA LifeStutters ==
  ASSUME UNCHANGED <<replay, fate>>
  PROVE  UNCHANGED Lifecycle!vars
<1>1. UNCHANGED LifeBar
  BY DEF LifeBar
<1> QED  BY <1>1 DEF Lifecycle!vars, LifeBar

(* A memory that goes live: by admission or by approval. *)
LEMMA GoesLive ==
  ASSUME replay \in Views, NEW m \in Mems, ~Known(replay, m), replay' \in Views,
         NEW s \in {"active", "redacted"}, NEW n,
         replay'.inventory = [replay.inventory EXCEPT ![m] = Row(s, n)]
  PROVE  Lifecycle!GoLive(m)
<1>1. LifeBar[m] = "none"
  BY LifeFacts DEF LifeBar
<1>2. LifeBar' = [LifeBar EXCEPT ![m] = "live"]
  <2>1. ASSUME NEW x \in Mems
        PROVE  replay'.inventory[x] = IF x = m THEN Row(s, n) ELSE replay.inventory[x]
    BY DEF Views
  <2>2. ASSUME NEW x \in Mems
        PROVE  LifeBar'[x] = IF x = m THEN "live" ELSE LifeBar[x]
    BY <2>1 DEF LifeBar, LifeOf, Row
  <2> QED  BY <2>2 DEF LifeBar
<1> QED  BY <1>1, <1>2 DEF Lifecycle!GoLive, LifeBar

(* Memories that end, which all existed. *)
LEMMA LivesEnd ==
  ASSUME replay \in Views, NEW S \in SUBSET Mems, \A m \in S : Known(replay, m),
         NEW s \in {"revoked", "expired"}, NEW n,
         replay' = ReplayEnded(replay, S, s, n), UNCHANGED fate
  PROVE  Lifecycle!End(S)
<1>1. \A m \in S : LifeBar[m] \in {"live", "ended"}
  BY LifeFacts DEF LifeBar
<1>2. LifeBar' = [m \in Mems |-> IF m \in S THEN "ended" ELSE LifeBar[m]]
  <2>1. ASSUME NEW m \in Mems
        PROVE  replay'.inventory[m] = IF m \in S THEN Row(s, n) ELSE replay.inventory[m]
    BY DEF ReplayEnded, Views
  <2> QED  BY <2>1 DEF LifeBar, LifeOf, Row
<1> QED  BY <1>1, <1>2 DEF Lifecycle!End, LifeBar

(* Every step of the program is a step of the lifecycle, or a stutter. *)
LEMMA TrustLives ==
  ASSUME IInv, NEW t \in Tasks, TrustStep(t), replay' \in Views
  PROVE  [Lifecycle!Next]_Lifecycle!vars
<1>1. replay \in Views /\ fate \in [Cands -> Fates] /\ arg \in [Tasks -> SUBSET (Mems \cup Cands)]
  BY DEF IInv, TypeOK
<1>2. CASE Revoke(t) \/ RescanRevokes(t)
  <2>1. /\ replay' = ReplayEnded(replay, arg[t], "revoked", seq')
        /\ UNCHANGED fate
        /\ \A m \in arg[t] : m \in Mems /\ Known(replay, m)
    BY <1>2 DEF Revoke, RescanRevokes, IInv, TargetInv
  <2>2. Lifecycle!End(arg[t])
    BY <1>1, <2>1, LivesEnd
  <2>3. arg[t] \in SUBSET Mems
    BY <2>1
  <2> QED  BY <2>2, <2>3 DEF Lifecycle!Next
<1>3. CASE Approve(t)
  <2>1. PICK c \in arg[t], m \in Mems :
          /\ Fresh(m)
          /\ replay' = ReplayApproved(replay, c, m, seq')
          /\ fate' = [fate EXCEPT ![c] = "approved"]
    BY <1>3 DEF Approve
  <2>2. c \in Cands /\ fate[c] = "quarantined"
    BY <1>3, <2>1 DEF Approve, IInv, TargetInv
  <2>3. replay'.inventory = [replay.inventory EXCEPT ![m] = Row("active", seq')]
    BY <1>1, <2>1 DEF ReplayApproved, ReplayCommit, Views
  <2>4. Lifecycle!GoLive(m)
    BY <1>1, <2>1, <2>3, GoesLive DEF Fresh
  <2>5. Lifecycle!Approve(c, m)
    BY <2>1, <2>2, <2>4 DEF Lifecycle!Approve
  <2> QED  BY <2>2, <2>5 DEF Lifecycle!Next
<1>4. CASE Block(t)
  <2>1. PICK c \in arg[t] :
          /\ replay' = ReplayBlocked(replay, c)
          /\ fate' = [fate EXCEPT ![c] = "blocked"]
    BY <1>4 DEF Block
  <2>2. c \in Cands /\ fate[c] = "quarantined"
    BY <1>4, <2>1 DEF Block, IInv, TargetInv
  <2>3. UNCHANGED LifeBar
    BY <1>1, <2>1 DEF LifeBar, ReplayBlocked, Views
  <2>4. Lifecycle!Block(c)
    BY <2>1, <2>2, <2>3 DEF Lifecycle!Block, LifeBar
  <2> QED  BY <2>2, <2>4 DEF Lifecycle!Next
<1>5. CASE UNCHANGED <<replay, fate>>
  BY <1>5, LifeStutters
<1> QED  BY <1>2, <1>3, <1>4, <1>5 DEF TrustStep, FindActive, FindQuarantined, FindRescanned,
              RescanKeeps, tables

(* The expiry sweep ends memories; nothing else in a session or a rebuild  *)
(* touches the history.                                                    *)
LEMMA ViewLives ==
  ASSUME IInv, NEW t \in Tasks, ViewStep(t)
  PROVE  [Lifecycle!Next]_Lifecycle!vars
<1>1. replay \in Views
  BY DEF IInv, TypeOK
<1>2. CASE Expire(t)
  <2>1. /\ replay' = ReplayEnded(replay, arg[t], "expired", seq')
        /\ UNCHANGED fate
        /\ \A m \in arg[t] : m \in Mems /\ Known(replay, m)
    BY <1>2 DEF Expire, IInv, TargetInv
  <2>2. Lifecycle!End(arg[t])
    BY <1>1, <2>1, LivesEnd
  <2>3. arg[t] \in SUBSET Mems
    BY <2>1
  <2> QED  BY <2>2, <2>3 DEF Lifecycle!Next
<1>3. CASE UNCHANGED <<replay, fate>>
  BY <1>3, LifeStutters
<1> QED  BY <1>2, <1>3 DEF ViewStep, Sweep, Render, Inject, ReadHistory, WriteView, tables

(* An outcome decides a new candidate. *)
LEMMA OutcomeLives ==
  ASSUME IInv, OutcomeStep, replay' \in Views
  PROVE  [Lifecycle!Next]_Lifecycle!vars
<1>1. replay \in Views /\ fate \in [Cands -> Fates]
  BY DEF IInv, TypeOK
<1>2. ASSUME NEW c \in Cands, NEW m \in Mems, NEW s \in {"active", "redacted"}, Admit(c, m, s)
      PROVE  Lifecycle!Next
  <2>1. replay'.inventory = [replay.inventory EXCEPT ![m] = Row(s, seq')]
    BY <1>1, <1>2 DEF Admit, ReplayCommit, Views
  <2>2. Lifecycle!GoLive(m)
    BY <1>1, <1>2, <2>1, GoesLive DEF Admit, Fresh
  <2>3. Lifecycle!Admit(c, m)
    BY <1>2, <2>2 DEF Admit, Lifecycle!Admit
  <2> QED  BY <2>3 DEF Lifecycle!Next
<1>3. ASSUME NEW c \in Cands, Quarantine(c)
      PROVE  Lifecycle!Next
  <2>1. UNCHANGED LifeBar
    BY <1>1, <1>3 DEF Quarantine, LifeBar, ReplayQuarantined, Views
  <2>2. Lifecycle!Quarantine(c)
    BY <1>3, <2>1 DEF Quarantine, Lifecycle!Quarantine, LifeBar
  <2> QED  BY <2>2 DEF Lifecycle!Next
<1>4. ASSUME NEW c \in Cands, BlockOutcome(c)
      PROVE  Lifecycle!Next
  <2>1. UNCHANGED LifeBar
    BY <1>1, <1>4 DEF BlockOutcome, LifeBar, ReplayBlocked, Views
  <2>2. Lifecycle!Block(c)
    BY <1>4, <2>1 DEF BlockOutcome, Lifecycle!Block, LifeBar
  <2> QED  BY <2>2 DEF Lifecycle!Next
<1> QED  BY <1>2, <1>3, <1>4 DEF OutcomeStep

(* The detailed specification takes the lifecycle's steps. *)
LEMMA LifeStep ==
  ASSUME IInv, replay' \in Views, [Next]_vars
  PROVE  [Lifecycle!Next]_Lifecycle!vars
<1>1. ASSUME NEW t \in Tasks, RequestStep(t)
      PROVE  UNCHANGED <<replay, fate>>
  BY <1>1 DEF RequestStep, Begin, Acquire, Abandon, CutOff, VerifyHistory, VerifyChain,
              VerifyLedger, Check, tables
<1>2. CASE (\E m \in Mems : Elapse(m)) \/ (\E p \in Procs : Restart(p)) \/ UNCHANGED vars
  <2>1. UNCHANGED <<replay, fate>>
    BY <1>2 DEF Elapse, Restart, vars, tables
  <2> QED  BY <2>1, LifeStutters
<1> QED  BY <1>1, <1>2, TrustLives, ViewLives, OutcomeLives, LifeStutters DEF Next

(* Where nobody rebuilds, every behaviour of requests, commands, sessions  *)
(* and outcomes is a behaviour of the lifecycle: each candidate is decided *)
(* once, and an ended memory is never live again.                          *)
THEOREM LifecycleHolds == ASSUME NeverRebuilt PROVE Spec => ImplementsLifecycle
<1>1. Init => Lifecycle!Init
  BY DEF Init, Lifecycle!Init, LifeOf, NoRows, Row
<1>2. IInv /\ IInv' => replay' \in Views
  BY DEF IInv, TypeOK
<1>3. IInv /\ IInv' /\ [Next]_vars => [Lifecycle!Next]_Lifecycle!vars
  BY <1>2, LifeStep
<1> QED  BY <1>1, <1>3, InvariantHolds, PTL DEF Spec, ImplementsLifecycle, Lifecycle!Spec
================================================================================
