--------------------------- MODULE EventStoreProofs ----------------------------
(***************************************************************************)
(* Theorems about EventStore.tla, for any processes, tasks and batches.    *)
(*                                                                         *)
(* TypeCorrect and QueueFailureRemembered need no assumption but the       *)
(* module's own.  The others are about stores one process owns at a time   *)
(* (ExclusiveOwner), with any number of crashes, failing head writes and   *)
(* appends cancelled behind their commit: two processes that append at     *)
(* once, and the run store_bless, show that the code promises no more.     *)
(***************************************************************************)
EXTENDS EventStore, TLAPS

(* What a batch adds to the log: it stays a sequence of kinds and grows. *)
LEMMA BatchExtends ==
  ASSUME TypeOK, NEW batch \in Batches
  PROVE  /\ log \o batch \in Seq(Kinds)
         /\ Len(log \o batch) \in Nat
         /\ Len(log \o batch) > Len(log)
  <1>1. batch \in Seq(Kinds) /\ batch # <<>>
    BY BatchesAssumption
  <1>2. Len(batch) \in Nat /\ Len(batch) > 0
    BY <1>1
  <1>3. log \in Seq(Kinds)
    BY DEF TypeOK
  <1>4. log \o batch \in Seq(Kinds) /\ Len(log \o batch) = Len(log) + Len(batch)
    BY <1>1, <1>3
  <1> QED
    BY <1>2, <1>3, <1>4

(* Where the boot sequence goes after a verification is a status. *)
LEMMA AfterVerifyType ==
  ASSUME TypeOK, NEW p \in Procs, NEW ok \in BOOLEAN
  PROVE  AfterVerify(p, ok) \in Statuses
  BY DEF TypeOK, AfterVerify, Statuses

(* A verification that fails leaves the variables it changes well typed. *)
LEMMA FailType ==
  ASSUME TypeOK, NEW t \in Tasks, NEW reason \in Errors, VerifyFails(t, reason)
  PROVE  /\ status' \in [Procs -> Statuses] /\ healthy' \in [Procs -> BOOLEAN]
         /\ error' \in [Procs -> Errors]
         /\ pc' \in [Tasks -> Steps] /\ seq' \in [Tasks -> Nat]
         /\ prior' \in [Tasks -> BOOLEAN] /\ drain' \in [Tasks -> BOOLEAN]
  <1>1. status' \in [Procs -> Statuses]
    BY ProcOfAssumption, AfterVerifyType DEF TypeOK, VerifyFails
  <1>2. healthy' \in [Procs -> BOOLEAN] /\ error' \in [Procs -> Errors]
    BY ProcOfAssumption DEF TypeOK, VerifyFails, MarkUnhealthy
  <1>3. /\ pc' \in [Tasks -> Steps] /\ seq' \in [Tasks -> Nat]
        /\ prior' \in [Tasks -> BOOLEAN] /\ drain' \in [Tasks -> BOOLEAN]
    BY DEF TypeOK, VerifyFails, Finish, Steps
  <1> QED
    BY <1>1, <1>2, <1>3

(* Type correctness of one step. *)
LEMMA TypeStep == TypeOK /\ [Next]_vars => TypeOK'
<1> SUFFICES ASSUME TypeOK, [Next]_vars PROVE TypeOK'
  OBVIOUS
<1> USE ProcOfAssumption, NoneAssumption, BoundsAssumption
<1> USE DEF Missing, Statuses, Errors, Steps
<1>1. ASSUME NEW p \in Procs, Open(p) PROVE TypeOK'
  BY <1>1 DEF TypeOK, Open, disk, tasks, ghost
<1>2. ASSUME NEW p \in Procs, OpenHead(p) PROVE TypeOK'
  BY <1>2 DEF TypeOK, OpenHead, MarkHealthy, MarkUnhealthy, tasks, ghost
<1>3. ASSUME NEW p \in Procs, Stop(p) PROVE TypeOK'
  <2>1. orphans' \in SUBSET Nat /\ stranded' \in SUBSET orphans'
    <3> DEFINE lost == {seq[t] : t \in {u \in TasksOf(p) : pc[u] = "committed"}}
    <3>1. orphans' = orphans \cup lost /\ stranded' = stranded \cup {n \in orphans' : head < n}
      BY <1>3, Zenon DEF Stop
    <3>2. lost \subseteq Nat
      BY DEF TypeOK, TasksOf
    <3> HIDE DEF lost
    <3> QED
      BY <3>1, <3>2, Zenon DEF TypeOK
  <2>2. prior' \in [Tasks -> BOOLEAN] /\ drain' \in [Tasks -> BOOLEAN]
    BY <1>3, Zenon DEF TypeOK, Stop
  <2>3. pc' \in [Tasks -> Steps] /\ seq' \in [Tasks -> Nat]
    BY <1>3 DEF TypeOK, Stop
  <2>4. /\ status' \in [Procs -> Statuses] /\ healthy' \in [Procs -> BOOLEAN]
        /\ error' \in [Procs -> Errors] /\ lock' \in [Procs -> Tasks \cup {None}]
        /\ opened' \in [Procs -> Nat]
    BY <1>3 DEF TypeOK, Stop
  <2>5. UNCHANGED <<log, head, acked, faults, interrupts>> /\ stops' \in Nat
    BY <1>3 DEF TypeOK, Stop, disk
  <2> QED
    BY <2>1, <2>2, <2>3, <2>4, <2>5 DEF TypeOK
<1>4. ASSUME NEW t \in Tasks, AppendBegin(t) PROVE TypeOK'
  BY <1>4 DEF TypeOK, AppendBegin, disk, ghost
<1>5. ASSUME NEW t \in Tasks, AppendCommit(t) PROVE TypeOK'
  <2> PICK batch \in Batches : log' = log \o batch
    BY <1>5 DEF AppendCommit
  <2>1. log' \in Seq(Kinds) /\ Len(log') \in Nat
    BY BatchExtends
  <2> QED
    BY <1>5, <2>1 DEF TypeOK, AppendCommit, procs, ghost
<1>6. ASSUME NEW t \in Tasks, AppendReject(t) PROVE TypeOK'
  BY <1>6 DEF TypeOK, AppendReject, Finish, disk, ghost
<1>7. ASSUME NEW t \in Tasks, QueueFailureUnrecorded(t) PROVE TypeOK'
  BY <1>7 DEF TypeOK, QueueFailureUnrecorded, Finish, MarkUnhealthy, disk, ghost
<1>8. ASSUME NEW t \in Tasks, AppendHead(t) PROVE TypeOK'
  BY <1>8 DEF TypeOK, AppendHead, Finish, MarkUnhealthy
<1>9. ASSUME NEW t \in Tasks, AppendHeadFails(t) PROVE TypeOK'
  <2>1. healthy' \in [Procs -> BOOLEAN] /\ error' \in [Procs -> Errors]
    <3> DEFINE reason == IF IsQueueFailure(t) THEN "queued_evidence"
                                             ELSE "expected_head_update_failed"
    <3>1. reason \in Errors
      OBVIOUS
    <3>2. MarkUnhealthy(ProcOf[t], reason)
      BY <1>9, Zenon DEF AppendHeadFails
    <3> HIDE DEF reason
    <3> QED
      BY <3>1, <3>2 DEF TypeOK, MarkUnhealthy
  <2>2. /\ orphans' \in SUBSET Nat /\ stranded' \in SUBSET orphans'
        /\ faults' \in Nat /\ head' \in Nat \cup {Missing}
    <3>1. /\ orphans' \in {orphans, orphans \cup {seq[t]}} /\ stranded' = stranded
          /\ faults' = faults + 1 /\ head' \in {head, seq[t]}
      BY <1>9, Zenon DEF AppendHeadFails
    <3>2. /\ orphans \subseteq Nat /\ seq[t] \in Nat /\ faults \in Nat
          /\ stranded \subseteq orphans /\ head \in Nat \cup {Missing}
      BY DEF TypeOK
    <3>3. orphans' \subseteq Nat /\ stranded' \subseteq orphans'
      BY <3>1, <3>2, Zenon
    <3> QED
      BY <3>1, <3>2, <3>3
  <2>3. /\ lock' \in [Procs -> Tasks \cup {None}]
        /\ pc' \in [Tasks -> Steps] /\ seq' \in [Tasks -> Nat]
        /\ prior' \in [Tasks -> BOOLEAN] /\ drain' \in [Tasks -> BOOLEAN]
    BY <1>9 DEF TypeOK, AppendHeadFails, Finish
  <2>4. UNCHANGED <<log, status, opened, acked, stops, interrupts>>
    BY <1>9 DEF AppendHeadFails
  <2> QED
    BY <2>1, <2>2, <2>3, <2>4 DEF TypeOK
<1>16. ASSUME NEW t \in Tasks, AppendInterrupted(t) PROVE TypeOK'
  <2>1. healthy' \in [Procs -> BOOLEAN] /\ error' \in [Procs -> Errors]
    BY <1>16 DEF AppendInterrupted, MarkUnhealthy, TypeOK
  <2>2. orphans' \in SUBSET Nat /\ stranded' \in SUBSET orphans' /\ interrupts' \in Nat
    <3>1. orphans' = orphans \cup {seq[t]} /\ stranded' = stranded /\ interrupts' = interrupts + 1
      BY <1>16, Zenon DEF AppendInterrupted
    <3>2. /\ orphans \subseteq Nat /\ seq[t] \in Nat /\ interrupts \in Nat
          /\ stranded \subseteq orphans
      BY DEF TypeOK
    <3>3. orphans' \subseteq Nat /\ stranded' \subseteq orphans'
      BY <3>1, <3>2, Zenon
    <3> QED
      BY <3>1, <3>2, <3>3
  <2>3. /\ lock' \in [Procs -> Tasks \cup {None}]
        /\ pc' \in [Tasks -> Steps] /\ seq' \in [Tasks -> Nat]
        /\ prior' \in [Tasks -> BOOLEAN] /\ drain' \in [Tasks -> BOOLEAN]
    BY <1>16 DEF TypeOK, AppendInterrupted, Finish
  <2>4. UNCHANGED <<log, head, status, opened, acked, stops, faults>>
    BY <1>16 DEF AppendInterrupted, disk
  <2> QED
    BY <2>1, <2>2, <2>3, <2>4 DEF TypeOK
<1>10. ASSUME NEW t \in Tasks, NEW d \in BOOLEAN, VerifyBegin(t, d) PROVE TypeOK'
  BY <1>10 DEF TypeOK, VerifyBegin, disk, procs, ghost
<1>11. ASSUME NEW t \in Tasks, VerifyEvents(t) PROVE TypeOK'
  BY <1>11 DEF TypeOK, VerifyEvents, disk, procs, ghost
<1>12. ASSUME NEW t \in Tasks, VerifyView(t) PROVE TypeOK'
  <2>1. CASE VerifyFails(t, "projection_drift")
    BY <1>12, <2>1, FailType DEF TypeOK, VerifyView, disk, ghost
  <2>2. CASE ~VerifyFails(t, "projection_drift")
    BY <1>12, <2>2 DEF TypeOK, VerifyView, disk, ghost
  <2> QED
    BY <2>1, <2>2
<1>13. ASSUME NEW t \in Tasks, VerifyHead(t) PROVE TypeOK'
  <2>1. UNCHANGED <<disk, opened, lock, ghost>>
    BY <1>13 DEF VerifyHead
  <2>2. CASE VerifyFails(t, "expected_head_mismatch")
    BY <2>1, <2>2, FailType DEF TypeOK, disk, ghost
  <2>3. CASE /\ status' = [status EXCEPT ![ProcOf[t]] = AfterVerify(ProcOf[t], FALSE)]
             /\ Finish(t)
             /\ UNCHANGED <<healthy, error>>
    <3>1. status' \in [Procs -> Statuses]
      BY <2>3, AfterVerifyType DEF TypeOK
    <3> QED
      BY <2>1, <2>3, <3>1 DEF TypeOK, Finish, disk, ghost
  <2>4. CASE /\ MarkHealthy(ProcOf[t])
             /\ status' = [status EXCEPT ![ProcOf[t]] = AfterVerify(ProcOf[t], TRUE)]
             /\ IF drain[t] THEN /\ pc' = [pc EXCEPT ![t] = "queueCheck"]
                                 /\ UNCHANGED <<seq, prior, drain>>
                            ELSE Finish(t)
    <3>1. status' \in [Procs -> Statuses]
      BY <2>4, AfterVerifyType DEF TypeOK
    <3>2. healthy' \in [Procs -> BOOLEAN] /\ error' \in [Procs -> Errors]
      BY <2>4 DEF TypeOK, MarkHealthy
    <3>3. /\ pc' \in [Tasks -> Steps] /\ seq' \in [Tasks -> Nat]
          /\ prior' \in [Tasks -> BOOLEAN] /\ drain' \in [Tasks -> BOOLEAN]
      <4>1. CASE drain[t]
        BY <2>4, <4>1 DEF TypeOK
      <4>2. CASE ~drain[t]
        <5>1. Finish(t)
          BY <2>4, <4>2
        <5> QED
          BY <5>1 DEF TypeOK, Finish
      <4> QED
        BY <4>1, <4>2
    <3> QED
      BY <2>1, <3>1, <3>2, <3>3 DEF TypeOK, disk, ghost
  <2> QED
    BY <1>13, <2>2, <2>3, <2>4 DEF VerifyHead
<1>14. ASSUME NEW t \in Tasks, QueueCheck(t) PROVE TypeOK'
  BY <1>14 DEF TypeOK, QueueCheck, Finish, MarkUnhealthy, disk, ghost
<1>15. CASE UNCHANGED vars
  BY <1>15 DEF TypeOK, vars, disk, procs, tasks, ghost
<1> QED
  BY <1>1, <1>2, <1>3, <1>4, <1>5, <1>6, <1>7, <1>8, <1>9, <1>10, <1>11, <1>12,
     <1>13, <1>14, <1>15, <1>16 DEF Next, AppendStep, VerifyStep

(* Every variable keeps its type, whatever fails and however many          *)
(* processes run.                                                          *)
THEOREM TypeCorrect == Spec => []TypeOK
<1>1. Init => TypeOK
  BY ProcOfAssumption DEF Init, TypeOK, Missing, Statuses, Errors, Steps
<1> QED
  BY <1>1, TypeStep, PTL DEF Spec

---------------------------------------------------------------------------
(* Booting behind a recorded queue failure, for any owners.                *)

LEMMA BootInit == Init => BootInv
<1> SUFFICES ASSUME Init PROVE BootInv
  OBVIOUS
<1>1. \A p \in Procs : opened[p] <= Len(log)
  <2>1. Len(log) = 0 /\ \A p \in Procs : opened[p] = 0
    BY DEF Init
  <2> QED
    BY <2>1
<1>2. \A t \in Tasks : pc[t] = "idle"
  BY DEF Init
<1> QED
  BY <1>1, <1>2 DEF BootInv, Writing

(* A step of one task keeps BootInv when it takes no process down, begins  *)
(* no second task in one that is not up, and heals no process behind a     *)
(* verification that remembers a queue failure.                            *)
LEMMA BootTask ==
  ASSUME TypeOK, TypeOK', BootInv, NEW t \in Tasks, UNCHANGED opened,
         Len(log') >= Len(log),
         \A p \in Procs : p # ProcOf[t] => status'[p] = status[p] /\ healthy'[p] = healthy[p],
         \A u \in Tasks : u # t => pc'[u] = pc[u] /\ prior'[u] = prior[u],
         status[ProcOf[t]] \notin {"down", "opening"},
         status'[ProcOf[t]] \notin {"down", "opening"},
         status'[ProcOf[t]] # "up" =>
           /\ status[ProcOf[t]] # "up"
           /\ ~Writing(t)'
           /\ \A u \in Tasks \ {t} : ProcOf[u] = ProcOf[t] => pc[u] = "idle"
           /\ pc'[t] \in {"verifying", "eventsRead", "viewRead"} /\ prior'[t] =>
                ~healthy'[ProcOf[t]]
  PROVE  BootInv'
<1> USE ProcOfAssumption
<1>1. \A p \in Procs : opened'[p] <= Len(log')
  <2> SUFFICES ASSUME NEW p \in Procs PROVE opened[p] <= Len(log')
    OBVIOUS
  <2>1. opened[p] <= Len(log) /\ opened[p] \in Nat /\ Len(log) \in Nat /\ Len(log') \in Nat
    BY DEF BootInv, TypeOK
  <2> QED
    BY <2>1
<1>2. ASSUME NEW u \in Tasks, status'[ProcOf[u]] \in {"down", "opening"} PROVE pc'[u] = "idle"
  BY <1>2 DEF BootInv
<1>3. ASSUME NEW u \in Tasks, status'[ProcOf[u]] # "up" PROVE ~Writing(u)'
  BY <1>3 DEF BootInv, Writing
<1>4. ASSUME NEW u \in Tasks, NEW v \in Tasks, ProcOf[u] = ProcOf[v],
             status'[ProcOf[u]] # "up", pc'[u] # "idle", pc'[v] # "idle"
      PROVE  u = v
  <2>1. CASE ProcOf[u] = ProcOf[t]
    <3>1. \A w \in Tasks \ {t} : ProcOf[w] = ProcOf[t] => pc'[w] = "idle"
      BY <1>4, <2>1
    <3>2. \A w \in Tasks : ProcOf[w] = ProcOf[t] /\ pc'[w] # "idle" => w = t
      BY <3>1
    <3> QED
      BY <1>4, <2>1, <3>2
  <2>2. CASE ProcOf[u] # ProcOf[t]
    <3>1. u # t /\ v # t /\ ProcOf[u] \in Procs
      BY <1>4, <2>2
    <3>2. pc[u] # "idle" /\ pc[v] # "idle" /\ status[ProcOf[u]] # "up"
      BY <1>4, <2>2, <3>1
    <3> QED
      BY <1>4, <3>2 DEF BootInv
  <2> QED
    BY <2>1, <2>2
<1>5. ASSUME NEW u \in Tasks, status'[ProcOf[u]] # "up",
             pc'[u] \in {"verifying", "eventsRead", "viewRead"}, prior'[u]
      PROVE  ~healthy'[ProcOf[u]]
  <2>1. CASE u = t
    BY <1>5, <2>1
  <2>2. CASE u # t /\ ProcOf[u] = ProcOf[t]
    BY <1>5, <2>2
  <2>3. CASE ProcOf[u] # ProcOf[t]
    BY <1>5, <2>3 DEF BootInv
  <2> QED
    BY <2>1, <2>2, <2>3
<1> QED
  BY <1>1, <1>2, <1>3, <1>4, <1>5 DEF BootInv

LEMMA BootStep == TypeOK /\ BootInv /\ [Next]_vars => BootInv'
<1> SUFFICES ASSUME TypeOK, BootInv, [Next]_vars PROVE BootInv'
  OBVIOUS
<1> USE ProcOfAssumption
<1>0. TypeOK' /\ Len(log) \in Nat
  BY TypeStep DEF TypeOK
<1>a. ASSUME NEW t \in Tasks, pc[t] # "idle"
      PROVE  /\ status[ProcOf[t]] \notin {"down", "opening"}
             /\ status[ProcOf[t]] # "up" =>
                  /\ ~Writing(t)
                  /\ \A u \in Tasks \ {t} : ProcOf[u] = ProcOf[t] => pc[u] = "idle"
  BY <1>a DEF BootInv
<1>1. ASSUME NEW p \in Procs, Open(p) PROVE BootInv'
  <2>1. UNCHANGED <<log, healthy, pc, prior>> /\ status[p] = "down"
    BY <1>1 DEF Open, disk, tasks
  <2>2. /\ status'[p] = "opening" /\ \A q \in Procs : q # p => status'[q] = status[q]
        /\ \A q \in Procs : opened'[q] \in {opened[q], Len(log)}
    BY <1>1 DEF Open, TypeOK
  <2>3. \A q \in Procs : opened'[q] <= Len(log')
    BY <1>0, <2>1, <2>2 DEF BootInv, TypeOK
  <2>4. \A t \in Tasks : ProcOf[t] = p => pc[t] = "idle"
    BY <2>1 DEF BootInv
  <2> QED
    BY <2>1, <2>2, <2>3, <2>4 DEF BootInv, Writing
<1>2. ASSUME NEW p \in Procs, OpenHead(p) PROVE BootInv'
  <2>1. UNCHANGED <<log, opened, pc, prior>> /\ status[p] = "opening"
    BY <1>2 DEF OpenHead, tasks
  <2>2. \A q \in Procs : q # p => status'[q] = status[q] /\ healthy'[q] = healthy[q]
    BY <1>2 DEF OpenHead, MarkHealthy, MarkUnhealthy, TypeOK
  <2>3. \A t \in Tasks : ProcOf[t] = p => pc[t] = "idle"
    BY <2>1 DEF BootInv
  <2> QED
    BY <2>1, <2>2, <2>3 DEF BootInv, Writing
<1>3. ASSUME NEW p \in Procs, Stop(p) PROVE BootInv'
  <2>1. log' = log /\ \A q \in Procs : opened'[q] \in {opened[q], 0}
    BY <1>3 DEF Stop, disk, TypeOK
  <2>2. \A q \in Procs : opened'[q] <= Len(log')
    <3>1. \A q \in Procs : opened[q] <= Len(log)
      BY DEF BootInv
    <3> QED
      BY <1>0, <2>1, <3>1
  <2>3. \A q \in Procs : q # p => status'[q] = status[q] /\ healthy'[q] = healthy[q]
    BY <1>3 DEF Stop, TypeOK
  <2>4. \A t \in Tasks : IF ProcOf[t] = p THEN pc'[t] = "idle" ELSE pc'[t] = pc[t] /\ prior'[t] = prior[t]
    BY <1>3 DEF Stop, TypeOK
  <2> QED
    BY <2>2, <2>3, <2>4 DEF BootInv, Writing
<1>4. ASSUME NEW t \in Tasks, AppendStep(t) PROVE BootInv'
  <2>1. status[ProcOf[t]] = "up" /\ UNCHANGED <<status, opened>>
    <3>1. AppendBegin(t) => status[ProcOf[t]] = "up"
      BY DEF AppendBegin
    <3>2. ~AppendBegin(t) => Writing(t) /\ pc[t] # "idle"
      BY <1>4 DEF AppendStep, AppendCommit, AppendReject, QueueFailureUnrecorded, AppendHead,
                  AppendHeadFails, AppendInterrupted, Writing
    <3>3. UNCHANGED <<status, opened>>
      BY <1>4 DEF AppendStep, AppendBegin, AppendCommit, AppendReject, QueueFailureUnrecorded,
                  AppendHead, AppendHeadFails, AppendInterrupted, procs
    <3> QED
      BY <1>a, <3>1, <3>2, <3>3
  <2>2. Len(log') >= Len(log)
    <3>1. CASE AppendCommit(t)
      <4> PICK batch \in Batches : log' = log \o batch
        BY <3>1 DEF AppendCommit
      <4> QED
        BY <1>0, BatchExtends
    <3>2. CASE ~AppendCommit(t)
      <4>1. log' = log
        BY <1>4, <3>2 DEF AppendStep, AppendBegin, AppendReject, QueueFailureUnrecorded,
                          AppendHead, AppendHeadFails, AppendInterrupted, disk
      <4> QED
        BY <1>0, <4>1
    <3> QED
      BY <3>1, <3>2
  <2>3. \A p \in Procs : p # ProcOf[t] => healthy'[p] = healthy[p]
    BY <1>4 DEF AppendStep, AppendBegin, AppendCommit, AppendReject, QueueFailureUnrecorded,
                AppendHead, AppendHeadFails, AppendInterrupted, MarkUnhealthy, procs, TypeOK
  <2>4. \A u \in Tasks : u # t => pc'[u] = pc[u] /\ prior'[u] = prior[u]
    BY <1>4 DEF AppendStep, AppendBegin, AppendCommit, AppendReject, QueueFailureUnrecorded,
                AppendHead, AppendHeadFails, AppendInterrupted, Finish, TypeOK
  <2> QED
    BY <1>0, <2>1, <2>2, <2>3, <2>4, BootTask
<1>5. ASSUME NEW t \in Tasks, NEW d \in BOOLEAN, VerifyBegin(t, d) PROVE BootInv'
  <2>1. UNCHANGED <<log, opened, status, healthy>>
    BY <1>5 DEF VerifyBegin, disk, procs
  <2>2. \A u \in Tasks : u # t => pc'[u] = pc[u] /\ prior'[u] = prior[u]
    BY <1>5 DEF VerifyBegin, TypeOK
  <2>3. pc'[t] = "verifying" /\ (prior'[t] => ~healthy[ProcOf[t]])
    BY <1>5 DEF VerifyBegin, TypeOK
  <2>4. /\ status[ProcOf[t]] \in {"up", "booting", "checking"}
        /\ status[ProcOf[t]] # "up" => \A u \in Tasks : ProcOf[u] = ProcOf[t] => pc[u] = "idle"
    BY <1>5 DEF VerifyBegin, Quiet, TasksOf
  <2> QED
    BY <1>0, <2>1, <2>2, <2>3, <2>4, BootTask DEF Writing
<1>6. ASSUME NEW t \in Tasks, VerifyEvents(t) PROVE BootInv'
  <2>1. UNCHANGED <<log, opened, status, healthy, prior>>
    BY <1>6 DEF VerifyEvents, disk, procs
  <2>2. pc[t] = "verifying" /\ pc'[t] = "eventsRead" /\ \A u \in Tasks : u # t => pc'[u] = pc[u]
    BY <1>6 DEF VerifyEvents, TypeOK
  <2>3. status[ProcOf[t]] # "up" /\ prior[t] => ~healthy[ProcOf[t]]
    BY <2>2 DEF BootInv
  <2> QED
    BY <1>0, <1>a, <2>1, <2>2, <2>3, BootTask DEF Writing
<1>7. ASSUME NEW t \in Tasks, VerifyView(t) PROVE BootInv'
  <2>1. UNCHANGED <<log, opened>> /\ pc[t] = "eventsRead"
    BY <1>7 DEF VerifyView, disk
  <2>2. CASE VerifyFails(t, "projection_drift")
    <3>1. \A p \in Procs : p # ProcOf[t] => status'[p] = status[p] /\ healthy'[p] = healthy[p]
      BY <2>2 DEF VerifyFails, MarkUnhealthy, TypeOK
    <3>2. pc'[t] = "idle" /\ \A u \in Tasks : u # t => pc'[u] = pc[u] /\ prior'[u] = prior[u]
      BY <2>2 DEF VerifyFails, Finish, TypeOK
    <3>3. status'[ProcOf[t]] = "up"
      BY <1>a, <2>1, <2>2 DEF VerifyFails, AfterVerify, TypeOK, Statuses
    <3> QED
      BY <1>0, <1>a, <2>1, <3>1, <3>2, <3>3, BootTask DEF Writing
  <2>3. CASE ~VerifyFails(t, "projection_drift")
    <3>1. UNCHANGED <<status, healthy, prior>>
      BY <1>7, <2>3 DEF VerifyView
    <3>2. pc'[t] = "viewRead" /\ \A u \in Tasks : u # t => pc'[u] = pc[u]
      BY <1>7, <2>3 DEF VerifyView, TypeOK
    <3>3. status[ProcOf[t]] # "up" /\ prior[t] => ~healthy[ProcOf[t]]
      BY <2>1 DEF BootInv
    <3> QED
      BY <1>0, <1>a, <2>1, <3>1, <3>2, <3>3, BootTask DEF Writing
  <2> QED
    BY <2>2, <2>3
<1>8. ASSUME NEW t \in Tasks, VerifyHead(t) PROVE BootInv'
  <2>1. UNCHANGED <<log, opened>> /\ pc[t] = "viewRead"
    BY <1>8 DEF VerifyHead, disk
  <2>2. PICK ok \in BOOLEAN : status' = [status EXCEPT ![ProcOf[t]] = AfterVerify(ProcOf[t], ok)]
    BY <1>8 DEF VerifyHead, VerifyFails
  <2>3. status[ProcOf[t]] \in {"booting", "checking", "up"}
    BY <1>a, <2>1 DEF TypeOK, Statuses
  <2>4. /\ status'[ProcOf[t]] \in {"checking", "up"}
        /\ status'[ProcOf[t]] # "up" => status[ProcOf[t]] # "up"
        /\ \A p \in Procs : p # ProcOf[t] => status'[p] = status[p]
    BY <2>2, <2>3 DEF AfterVerify, TypeOK
  <2>5. \A p \in Procs : p # ProcOf[t] => healthy'[p] = healthy[p]
    BY <1>8 DEF VerifyHead, VerifyFails, MarkHealthy, MarkUnhealthy, TypeOK
  <2>6. pc' \in {[pc EXCEPT ![t] = "idle"], [pc EXCEPT ![t] = "queueCheck"]}
    BY <1>8, Zenon DEF VerifyHead, VerifyFails, Finish
  <2>7. pc'[t] \in {"idle", "queueCheck"} /\ \A u \in Tasks : u # t => pc'[u] = pc[u]
    BY <2>6 DEF TypeOK
  <2>8. \A u \in Tasks : u # t => prior'[u] = prior[u]
    BY <1>8 DEF VerifyHead, VerifyFails, Finish, TypeOK
  <2> QED
    BY <1>0, <1>a, <2>1, <2>3, <2>4, <2>5, <2>7, <2>8, BootTask DEF Writing
<1>9. ASSUME NEW t \in Tasks, QueueCheck(t) PROVE BootInv'
  <2>1. UNCHANGED <<log, opened>> /\ pc[t] = "queueCheck"
    BY <1>9 DEF QueueCheck, disk
  <2>2. /\ status' = [status EXCEPT ![ProcOf[t]] = "up"]
        /\ Finish(t)
    BY <1>9, Zenon DEF QueueCheck
  <2>3. \A p \in Procs : p # ProcOf[t] => healthy'[p] = healthy[p]
    BY <1>9 DEF QueueCheck, MarkUnhealthy, TypeOK
  <2>4. /\ status'[ProcOf[t]] = "up" /\ \A p \in Procs : p # ProcOf[t] => status'[p] = status[p]
        /\ \A u \in Tasks : u # t => pc'[u] = pc[u] /\ prior'[u] = prior[u]
    BY <2>2 DEF Finish, TypeOK
  <2> QED
    BY <1>0, <1>a, <2>1, <2>3, <2>4, BootTask
<1>10. CASE UNCHANGED vars
  BY <1>10 DEF BootInv, vars, disk, procs, tasks, Writing
<1> QED
  BY <1>1, <1>2, <1>3, <1>4, <1>5, <1>6, <1>7, <1>8, <1>9, <1>10 DEF Next, VerifyStep

(* A process that comes up behind a queue failure that was in the log when *)
(* it opened the store is not healthy: its verification fails, remembers   *)
(* the failure, or finds it in the queue.                                  *)
LEMMA UpUnhealthy ==
  ASSUME TypeOK, BootInv, [Next]_vars, NEW p \in Procs, status[p] # "up", status'[p] = "up",
         QueueFailureRecorded
  PROVE  ~healthy'[p]
<1> USE ProcOfAssumption
<1>1. ASSUME NEW q \in Procs, Open(q) \/ OpenHead(q) \/ Stop(q) PROVE FALSE
  BY <1>1 DEF Open, OpenHead, Stop, TypeOK
<1>2. ASSUME NEW t \in Tasks, AppendStep(t) PROVE FALSE
  BY <1>2 DEF AppendStep, AppendBegin, AppendCommit, AppendReject, QueueFailureUnrecorded,
              AppendHead, AppendHeadFails, AppendInterrupted, procs
<1>3. ASSUME NEW t \in Tasks,
             (\E d \in BOOLEAN : VerifyBegin(t, d)) \/ VerifyEvents(t)
      PROVE  FALSE
  BY <1>3 DEF VerifyBegin, VerifyEvents, procs
<1>4. ASSUME NEW t \in Tasks, NEW reason \in Errors, VerifyFails(t, reason) PROVE ~healthy'[p]
  <2>1. p = ProcOf[t]
    BY <1>4 DEF VerifyFails, TypeOK
  <2> QED
    BY <1>4, <2>1 DEF VerifyFails, MarkUnhealthy, TypeOK
<1>5. ASSUME NEW t \in Tasks, VerifyView(t) PROVE ~healthy'[p]
  BY <1>4, <1>5 DEF VerifyView, Errors
<1>6. ASSUME NEW t \in Tasks, VerifyHead(t) PROVE ~healthy'[p]
  <2>1. PICK ok \in BOOLEAN : status' = [status EXCEPT ![ProcOf[t]] = AfterVerify(ProcOf[t], ok)]
    BY <1>6 DEF VerifyHead, VerifyFails
  <2>2. p = ProcOf[t]
    BY <2>1 DEF TypeOK
  <2>3. status[p] \in {"booting", "checking"}
    <3>1. pc[t] # "idle"
      BY <1>6 DEF VerifyHead
    <3> QED
      BY <2>2, <3>1 DEF BootInv, TypeOK, Statuses
  <2>4. CASE VerifyFails(t, "expected_head_mismatch")
    BY <1>4, <2>4 DEF Errors
  <2>5. CASE prior[t] /\ UNCHANGED <<healthy, error>>
    <3>1. pc[t] = "viewRead"
      BY <1>6 DEF VerifyHead
    <3> QED
      BY <2>2, <2>5, <3>1 DEF BootInv
  <2>6. CASE status' = [status EXCEPT ![ProcOf[t]] = AfterVerify(ProcOf[t], TRUE)]
    BY <2>2, <2>3, <2>6 DEF AfterVerify, TypeOK
  <2> QED
    BY <1>6, <2>4, <2>5, <2>6 DEF VerifyHead
<1>7. ASSUME NEW t \in Tasks, QueueCheck(t) PROVE ~healthy'[p]
  <2>1. p = ProcOf[t]
    BY <1>7 DEF QueueCheck, TypeOK
  <2> QED
    BY <1>7, <2>1 DEF QueueCheck, MarkUnhealthy, TypeOK
<1>8. CASE UNCHANGED vars
  BY <1>8 DEF vars, procs
<1> QED
  BY <1>1, <1>2, <1>3, <1>5, <1>6, <1>7, <1>8 DEF Next, VerifyStep

(* A recorded queue failure keeps the store unhealthy after every restart, *)
(* whatever stops, fails or runs beside the process that boots, and even   *)
(* when several processes run.                                             *)
THEOREM QueueFailureRemembered == Spec => QueueFailureSurvivesRestart
<1>1. TypeOK /\ BootInv /\ [Next]_vars =>
        [\A p \in Procs :
           /\ status[p] # "up" /\ status'[p] = "up"
           /\ \E i \in 1..opened[p] : log[i] = "queueFailure"
           => ~healthy'[p]]_vars
  <2> SUFFICES ASSUME TypeOK, BootInv, [Next]_vars, NEW p \in Procs,
                      status[p] # "up", status'[p] = "up",
                      NEW i \in 1..opened[p], log[i] = "queueFailure"
               PROVE  ~healthy'[p]
    OBVIOUS
  <2>1. i \in DOMAIN log
    BY DEF BootInv, TypeOK
  <2> QED
    BY <2>1, UpUnhealthy DEF QueueFailureRecorded
<1> QED
  BY <1>1, BootInit, BootStep, TypeCorrect, PTL DEF Spec, QueueFailureSurvivesRestart

---------------------------------------------------------------------------
(* One owner at a time.                                                    *)

(* A task that is not idle runs in the one process that is not down, and   *)
(* at most one task writes.                                                *)
LEMMA OneWriter ==
  ASSUME TypeOK, OwnerInv, NEW t \in Tasks, NEW u \in Tasks
  PROVE  /\ pc[t] # "idle" => Alive(ProcOf[t])
         /\ pc[t] # "idle" /\ pc[u] # "idle" => ProcOf[t] = ProcOf[u]
         /\ Writing(t) /\ Writing(u) => t = u
  BY ProcOfAssumption DEF TypeOK, OwnerInv, Writing, Alive, Statuses, Steps

(* Beside the one process that is not down no task runs, and none runs     *)
(* while that process opens the store.                                     *)
LEMMA OthersIdle ==
  ASSUME TypeOK, OwnerInv, NEW p \in Procs, status[p] # "down"
  PROVE  /\ \A t \in Tasks : ProcOf[t] # p => pc[t] = "idle"
         /\ status[p] = "opening" => \A t \in Tasks : pc[t] = "idle"
  <1>1. \A t \in Tasks : ProcOf[t] \in Procs
    BY ProcOfAssumption
  <1>2. \A q \in Procs : q # p => status[q] = "down"
    BY DEF OwnerInv
  <1>3. \A t \in Tasks : status[ProcOf[t]] \in {"down", "opening"} => pc[t] = "idle"
    BY DEF OwnerInv
  <1> QED
    BY <1>1, <1>2, <1>3

LEMMA OwnerInit == Init => OwnerInv
  BY ProcOfAssumption, NoneAssumption DEF Init, OwnerInv, Writing, Missing, Alive

(* A verification does not take a process down. *)
LEMMA AfterVerifyAlive ==
  ASSUME NEW p \in Procs, NEW ok \in BOOLEAN, Alive(p)
  PROVE  AfterVerify(p, ok) \in {"booting", "checking", "up"}
  BY DEF Alive, AfterVerify

(* The steps of a verification leave owner, lock and tail alone. *)
LEMMA VerifyQuiet ==
  ASSUME TypeOK, TypeOK', OwnerInv, NEW t \in Tasks, ~Writing(t), pc[t] # "idle",
         UNCHANGED <<log, head, opened, lock, acked>>,
         \A p \in Procs : p # ProcOf[t] => status'[p] = status[p],
         status'[ProcOf[t]] \in {"booting", "checking", "up"},
         \A u \in Tasks : u # t => pc'[u] = pc[u] /\ seq'[u] = seq[u],
         pc'[t] \notin {"appending", "committed"}
  PROVE  OwnerInv'
  <1> USE ProcOfAssumption
  <1>1. Alive(ProcOf[t])
    BY OneWriter
  <1>2. \A p, q \in Procs : status'[p] # "down" /\ status'[q] # "down" => p = q
    <2>1. \A p, q \in Procs : status[p] # "down" /\ status[q] # "down" => p = q
      BY DEF OwnerInv
    <2>2. status[ProcOf[t]] # "down" /\ status'[ProcOf[t]] # "down" /\ ProcOf[t] \in Procs
      BY <1>1 DEF Alive
    <2> QED
      BY <2>1, <2>2
  <1>3. \A u \in Tasks : Writing(u)' <=> Writing(u)
    BY DEF Writing
  <1>4. \A p \in Procs, u \in Tasks : lock'[p] = u <=> ProcOf[u] = p /\ Writing(u)'
    BY <1>3 DEF OwnerInv
  <1>5. \A u \in Tasks : status'[ProcOf[u]] \in {"down", "opening"} => pc'[u] = "idle"
    BY <1>1 DEF OwnerInv, Alive
  <1>6. \A u \in Tasks : pc'[u] = "committed" => seq'[u] = Len(log')
    BY DEF OwnerInv
  <1>7. \A p \in Procs : status'[p] = "opening" => opened'[p] = Len(log')
    BY DEF OwnerInv
  <1>8. head' # Missing
    BY <1>1 DEF OwnerInv
  <1>9. head' <= Len(log') /\ (acked' = 0 \/ acked' <= head')
    BY DEF OwnerInv
  <1> QED
    BY <1>2, <1>4, <1>5, <1>6, <1>7, <1>8, <1>9 DEF OwnerInv

LEMMA OwnerStep ==
  ASSUME ExclusiveOwner, TypeOK, OwnerInv, [Next]_vars
  PROVE  OwnerInv'
<1> USE ProcOfAssumption, NoneAssumption
<1>0. TypeOK'
  BY TypeStep
<1>1. ASSUME NEW p \in Procs, Open(p) PROVE OwnerInv'
  BY <1>1 DEF TypeOK, OwnerInv, Open, disk, tasks, ghost, Writing, Alive, Missing
<1>2. ASSUME NEW p \in Procs, OpenHead(p) PROVE OwnerInv'
  BY <1>2 DEF TypeOK, OwnerInv, OpenHead, tasks, ghost, Writing, Alive, Missing
<1>3. ASSUME NEW p \in Procs, Stop(p) PROVE OwnerInv'
  BY <1>3 DEF TypeOK, OwnerInv, Stop, disk, Writing, Alive, Missing
<1>4. ASSUME NEW t \in Tasks, AppendBegin(t) PROVE OwnerInv'
  BY <1>4 DEF TypeOK, OwnerInv, AppendBegin, disk, ghost, Writing, Alive, Missing
<1>5. ASSUME NEW t \in Tasks, AppendCommit(t) PROVE OwnerInv'
  <2> PICK batch \in Batches : log' = log \o batch
    BY <1>5 DEF AppendCommit
  <2>1. Len(log') > Len(log)
    BY BatchExtends
  <2>2. \A u \in Tasks : u # t => ~Writing(u)
    BY <1>5, OneWriter DEF AppendCommit, Writing
  <2>3. Alive(ProcOf[t])
    BY <1>5, OneWriter DEF AppendCommit
  <2>4. UNCHANGED <<head, procs, acked>>
    BY <1>5 DEF AppendCommit, ghost
  <2>5. \A u \in Tasks : Writing(u)' <=> Writing(u)
    BY <1>5 DEF AppendCommit, TypeOK, Writing
  <2>6. \A u \in Tasks : pc'[u] = "committed" => seq'[u] = Len(log')
    BY <1>5, <2>2 DEF AppendCommit, TypeOK, Writing
  <2>7. \A p \in Procs : status'[p] # "opening"
    BY <2>3, <2>4 DEF OwnerInv, procs, Alive
  <2>8. \A u \in Tasks : status'[ProcOf[u]] \in {"down", "opening"} => pc'[u] = "idle"
    BY <1>5, <2>3, <2>4 DEF AppendCommit, OwnerInv, TypeOK, procs, Alive
  <2>9. head' # Missing
    BY <2>3, <2>4 DEF OwnerInv
  <2>10. head' <= Len(log')
    BY <1>0, <2>1, <2>4 DEF OwnerInv, TypeOK, Missing
  <2>11. /\ \A p, q \in Procs : status'[p] # "down" /\ status'[q] # "down" => p = q
         /\ \A p \in Procs, u \in Tasks : lock'[p] = u <=> ProcOf[u] = p /\ Writing(u)'
         /\ acked' = 0 \/ acked' <= head'
    BY <2>4, <2>5 DEF OwnerInv, procs
  <2> QED
    BY <2>6, <2>7, <2>8, <2>9, <2>10, <2>11 DEF OwnerInv
<1>6. ASSUME NEW t \in Tasks, AppendReject(t) PROVE OwnerInv'
  BY <1>6 DEF TypeOK, OwnerInv, AppendReject, Finish, disk, ghost, Writing, Alive, Missing
<1>7. ASSUME NEW t \in Tasks, QueueFailureUnrecorded(t) PROVE OwnerInv'
  BY <1>7 DEF TypeOK, OwnerInv, QueueFailureUnrecorded, Finish, disk, ghost, Writing, Alive, Missing
<1>8. ASSUME NEW t \in Tasks, AppendHead(t) PROVE OwnerInv'
  BY <1>8 DEF TypeOK, OwnerInv, AppendHead, Finish, Writing, Alive, Missing
<1>9. ASSUME NEW t \in Tasks, AppendHeadFails(t) PROVE OwnerInv'
  BY <1>9 DEF TypeOK, OwnerInv, AppendHeadFails, Finish, Writing, Alive, Missing
<1>16. ASSUME NEW t \in Tasks, AppendInterrupted(t) PROVE OwnerInv'
  BY <1>16 DEF TypeOK, OwnerInv, AppendInterrupted, Finish, disk, Writing, Alive, Missing
<1>10. ASSUME NEW t \in Tasks, NEW d \in BOOLEAN, VerifyBegin(t, d) PROVE OwnerInv'
  BY <1>10 DEF TypeOK, OwnerInv, VerifyBegin, disk, procs, ghost, Writing, Alive, Missing
<1>11. ASSUME NEW t \in Tasks, VerifyEvents(t) PROVE OwnerInv'
  BY <1>11 DEF TypeOK, OwnerInv, VerifyEvents, disk, procs, ghost, Writing, Alive, Missing
<1>12. ASSUME NEW t \in Tasks, VerifyView(t) PROVE OwnerInv'
  <2>1. Alive(ProcOf[t]) /\ ~Writing(t) /\ pc[t] # "idle"
    BY <1>12, OneWriter DEF VerifyView, Writing
  <2>2. CASE VerifyFails(t, "projection_drift")
    BY <1>0, <1>12, <2>1, <2>2, VerifyQuiet, AfterVerifyAlive
       DEF VerifyView, VerifyFails, Finish, TypeOK, disk, ghost
  <2>3. CASE ~VerifyFails(t, "projection_drift")
    BY <1>0, <1>12, <2>1, <2>3, VerifyQuiet DEF VerifyView, TypeOK, disk, ghost, Alive
  <2> QED
    BY <2>2, <2>3
<1>13. ASSUME NEW t \in Tasks, VerifyHead(t) PROVE OwnerInv'
  <2>1. Alive(ProcOf[t]) /\ ~Writing(t) /\ pc[t] # "idle"
    BY <1>13, OneWriter DEF VerifyHead, Writing
  <2>2. UNCHANGED <<log, head, opened, lock, acked>>
    BY <1>13 DEF VerifyHead, disk, ghost
  <2>3. PICK ok \in BOOLEAN : status' = [status EXCEPT ![ProcOf[t]] = AfterVerify(ProcOf[t], ok)]
    BY <1>13 DEF VerifyHead, VerifyFails
  <2>4. pc' \in {[pc EXCEPT ![t] = "idle"], [pc EXCEPT ![t] = "queueCheck"]}
    BY <1>13, Zenon DEF VerifyHead, VerifyFails, Finish
  <2>5. \A u \in Tasks : u # t => seq'[u] = seq[u]
    BY <1>13 DEF VerifyHead, VerifyFails, Finish, TypeOK
  <2> QED
    BY <1>0, <2>1, <2>2, <2>3, <2>4, <2>5, VerifyQuiet, AfterVerifyAlive DEF TypeOK
<1>14. ASSUME NEW t \in Tasks, QueueCheck(t) PROVE OwnerInv'
  <2>1. Alive(ProcOf[t]) /\ ~Writing(t) /\ pc[t] # "idle"
    BY <1>14, OneWriter DEF QueueCheck, Writing
  <2>2. UNCHANGED <<log, head, opened, lock, acked>>
    BY <1>14 DEF QueueCheck, disk, ghost
  <2>3. /\ status' = [status EXCEPT ![ProcOf[t]] = "up"]
        /\ Finish(t)
    BY <1>14, Zenon DEF QueueCheck
  <2> QED
    BY <1>0, <2>1, <2>2, <2>3, VerifyQuiet DEF TypeOK, Finish
<1>15. CASE UNCHANGED vars
  BY <1>15 DEF OwnerInv, vars, disk, procs, tasks, ghost, Writing, Alive
<1> QED
  BY <1>1, <1>2, <1>3, <1>4, <1>5, <1>6, <1>7, <1>8, <1>9, <1>10, <1>11, <1>12,
     <1>13, <1>14, <1>15, <1>16 DEF Next, AppendStep, VerifyStep

(* "Append concurrently": whatever the interleaving of tasks, the crashes, *)
(* the failing head writes and the restarts, a sequence number a caller    *)
(* was given stays covered by the signed head as long as one process owns  *)
(* the store at a time.                                                    *)
THEOREM AckedAnchored == ExclusiveOwner /\ Spec => []AckedStaysAnchored
<1> SUFFICES ASSUME ExclusiveOwner PROVE Spec => []AckedStaysAnchored
  OBVIOUS
<1>1. Init => OwnerInv
  BY OwnerInit
<1>2. TypeOK /\ OwnerInv /\ [Next]_vars => OwnerInv'
  BY OwnerStep
<1>3. TypeOK /\ OwnerInv => AckedStaysAnchored
  BY DEF TypeOK, OwnerInv, AckedStaysAnchored
<1> QED
  BY <1>1, <1>2, <1>3, TypeCorrect, PTL DEF Spec

---------------------------------------------------------------------------
(* One owner: what the head leaves uncovered.                              *)

LEMMA AnchorInit == Init => AnchorInv
  BY DEF Init, AnchorInv, Writing, Alive

(* The head of a running process is a number no larger than the log. *)
LEMMA HeadType ==
  ASSUME TypeOK, OwnerInv, AnchorInv
  PROVE  /\ Len(log) \in Nat /\ head \in Int /\ head <= Len(log)
         /\ \A p \in Procs : Alive(p) => head \in Nat
         /\ \A t \in Tasks : pc[t] # "idle" => head \in Nat
         /\ \A t \in Tasks : Writing(t) => stranded = {}
         /\ orphans \subseteq Nat /\ stranded \subseteq orphans
  BY ProcOfAssumption DEF TypeOK, OwnerInv, AnchorInv, Missing, Alive, Statuses

(* A step that leaves the log, the head and every append alone, makes no   *)
(* process healthy behind a stranded tail and reads no stale tail.         *)
LEMMA AnchorQuiet ==
  ASSUME TypeOK, OwnerInv, AnchorInv,
         UNCHANGED <<log, head, orphans, stranded>>,
         \A t \in Tasks : pc'[t] = "appending" => pc[t] = "appending" \/ stranded = {},
         \A t \in Tasks : pc'[t] = "committed" <=> pc[t] = "committed",
         \A p \in Procs : Alive(p)' => Alive(p),
         stranded # {} =>
           /\ \A p \in Procs : healthy'[p] => healthy[p]
           /\ \A t \in Tasks : pc'[t] \in {"eventsRead", "viewRead"} => seq'[t] = Len(log)
  PROVE  AnchorInv'
  <1>1. stranded # {} => \A t \in Tasks : ~Writing(t)'
    BY DEF AnchorInv, Writing
  <1> QED
    BY <1>1 DEF AnchorInv

LEMMA AnchorStep ==
  ASSUME ExclusiveOwner, TypeOK, OwnerInv, AnchorInv, [Next]_vars
  PROVE  AnchorInv'
<1> USE ProcOfAssumption, NoneAssumption
<1>0. TypeOK' /\ OwnerInv'
  BY TypeStep, OwnerStep
<1>1. ASSUME NEW p \in Procs, Open(p) PROVE AnchorInv'
  <2>1. UNCHANGED <<log, head, orphans, stranded, pc, seq, healthy>>
    BY <1>1 DEF Open, disk, tasks, ghost
  <2>2. \A q \in Procs : Alive(q)' => Alive(q)
    BY <1>1 DEF Open, TypeOK, Alive
  <2> QED
    BY <2>1, <2>2, AnchorQuiet DEF AnchorInv
<1>2. ASSUME NEW p \in Procs, OpenHead(p) PROVE AnchorInv'
  <2>1. \A t \in Tasks : pc[t] = "idle"
    BY <1>2, OthersIdle DEF OpenHead
  <2>2. opened[p] = Len(log) /\ Len(log) \in Nat
    BY <1>2 DEF OpenHead, OwnerInv, TypeOK
  <2>3. UNCHANGED <<log, orphans, stranded, pc, seq>>
    BY <1>2 DEF OpenHead, tasks, ghost
  <2>4. head' = head \/ (head = Missing /\ head' = Len(log))
    BY <1>2, <2>2 DEF OpenHead
  <2>5. healthy'[p] => head' = Len(log)
    BY <1>2, <2>2 DEF OpenHead, MarkHealthy, MarkUnhealthy, TypeOK
  <2>6. \A q \in Procs : Alive(q)' => q = p
    BY <1>0, <1>2 DEF OpenHead, OwnerInv, TypeOK, Alive
  <2>7. head = Missing => orphans = {} /\ stranded = {}
    BY DEF AnchorInv, Missing, TypeOK
  <2>8. \A n \in orphans' : 0 <= head' /\ n <= Len(log')
    BY <2>3, <2>4, <2>7 DEF AnchorInv
  <2>9. head' \notin {Missing, Len(log')} => Len(log') \in orphans'
    BY <2>1, <2>3, <2>4 DEF AnchorInv
  <2>10. ASSUME stranded' # {}
         PROVE  /\ Len(log') \in stranded'
                /\ \A n \in stranded' : head' < n
                /\ \A q \in Procs : Alive(q)' => ~healthy'[q]
    <3>1. head' = head /\ Len(log) \in stranded /\ head < Len(log)
      BY <2>3, <2>4, <2>7, <2>10 DEF AnchorInv
    <3>2. head \in Int
      BY HeadType
    <3> QED
      BY <2>2, <2>3, <2>5, <2>6, <3>1, <3>2 DEF AnchorInv
  <2> QED
    BY <2>1, <2>3, <2>8, <2>9, <2>10 DEF AnchorInv, Writing
<1>3. ASSUME NEW p \in Procs, Stop(p) PROVE AnchorInv'
  <2>1. \A t \in Tasks : pc'[t] = "idle"
    BY <1>3, OneWriter DEF Stop, TypeOK, OwnerInv, Alive
  <2>2. \A q \in Procs : ~Alive(q)'
    BY <1>0, <1>3 DEF Stop, TypeOK, OwnerInv, Alive
  <2>3. UNCHANGED <<log, head>> /\ stranded' = stranded \cup {n \in orphans' : head < n}
    BY <1>3, Zenon DEF Stop, disk
  <2>4. /\ orphans \subseteq orphans'
        /\ \A n \in orphans' \ orphans : \E t \in Tasks : pc[t] = "committed" /\ n = seq[t]
        /\ \A t \in Tasks : pc[t] = "committed" /\ ProcOf[t] = p => seq[t] \in orphans'
    <3> DEFINE lost == {seq[t] : t \in {u \in TasksOf(p) : pc[u] = "committed"}}
    <3>1. orphans' = orphans \cup lost
      BY <1>3, Zenon DEF Stop
    <3>2. \A n \in lost : \E t \in Tasks : pc[t] = "committed" /\ n = seq[t]
      BY DEF TasksOf
    <3>3. \A t \in Tasks : pc[t] = "committed" /\ ProcOf[t] = p => seq[t] \in lost
      BY DEF TasksOf
    <3> HIDE DEF lost
    <3> QED
      BY <3>1, <3>2, <3>3
  <2>5. ASSUME NEW t \in Tasks, pc[t] = "committed"
        PROVE  /\ seq[t] = Len(log) /\ head < Len(log) /\ head \in Nat /\ ProcOf[t] = p
    <3>1. ProcOf[t] = p
      BY <1>3, <2>5, OneWriter DEF Stop, OwnerInv, Alive
    <3> QED
      BY <2>5, <3>1, HeadType DEF OwnerInv, AnchorInv
  <2>6. ASSUME NEW n \in orphans' PROVE 0 <= head' /\ n <= Len(log')
    <3>1. CASE n \in orphans
      BY <2>3, <3>1 DEF AnchorInv
    <3>2. CASE n \notin orphans
      BY <2>3, <2>4, <2>5, <3>2, HeadType
    <3> QED
      BY <3>1, <3>2
  <2>7. head' \notin {Missing, Len(log')} => Len(log') \in orphans'
    <3>1. CASE \E t \in Tasks : pc[t] = "committed"
      BY <2>3, <2>4, <2>5, <3>1
    <3>2. CASE \A t \in Tasks : pc[t] # "committed"
      BY <2>3, <2>4, <3>2 DEF AnchorInv
    <3> QED
      BY <3>1, <3>2
  <2>8. ASSUME stranded' # {}
        PROVE  Len(log') \in stranded' /\ \A n \in stranded' : head' < n
    <3>1. \A n \in stranded' : head < n
      BY <2>3 DEF AnchorInv
    <3>2. PICK n \in stranded' : TRUE
      BY <2>8
    <3>3. n \in orphans' /\ n \in Int
      BY <1>0, <3>2 DEF TypeOK
    <3>4. head < Len(log) /\ head # Missing
      BY <2>3, <2>6, <3>1, <3>2, <3>3, HeadType DEF Missing
    <3>5. Len(log) \in orphans'
      BY <2>3, <2>7, <3>4, HeadType
    <3> QED
      BY <2>3, <3>1, <3>4, <3>5
  <2> QED
    BY <2>1, <2>2, <2>6, <2>7, <2>8 DEF AnchorInv, Writing
<1>4. ASSUME NEW t \in Tasks, AppendBegin(t) PROVE AnchorInv'
  <2>1. UNCHANGED <<log, head, orphans, stranded, status, healthy, seq>> /\ healthy[ProcOf[t]]
    BY <1>4 DEF AppendBegin, disk, ghost
  <2>2. stranded = {}
    BY <1>4, <2>1 DEF AppendBegin, AnchorInv, Alive
  <2>3. \A u \in Tasks : pc'[u] = "committed" <=> pc[u] = "committed"
    BY <1>4 DEF AppendBegin, TypeOK
  <2> QED
    BY <2>1, <2>2, <2>3, AnchorQuiet DEF Alive
<1>5. ASSUME NEW t \in Tasks, AppendCommit(t) PROVE AnchorInv'
  <2> PICK batch \in Batches : log' = log \o batch
    BY <1>5 DEF AppendCommit
  <2>1. Len(log') > Len(log) /\ Len(log') \in Nat
    BY BatchExtends
  <2>2. UNCHANGED <<head, orphans, stranded>> /\ pc[t] = "appending"
    BY <1>5 DEF AppendCommit, ghost
  <2>3. head \in Nat /\ head <= Len(log) /\ Len(log) \in Nat /\ stranded = {} /\ orphans \subseteq Nat
    BY <2>2, HeadType DEF Writing
  <2>4. pc'[t] = "committed"
    BY <1>5 DEF AppendCommit, TypeOK
  <2>5. head' < Len(log')
    BY <2>1, <2>2, <2>3
  <2>6. \A n \in orphans' : 0 <= head' /\ n <= Len(log')
    BY <2>1, <2>2, <2>3 DEF AnchorInv
  <2> QED
    BY <2>2, <2>3, <2>4, <2>5, <2>6 DEF AnchorInv
<1>6. ASSUME NEW t \in Tasks, AppendReject(t) \/ QueueFailureUnrecorded(t) PROVE AnchorInv'
  <2>1. UNCHANGED <<log, head, status, orphans, stranded>> /\ Finish(t) /\ pc[t] = "appending"
    BY <1>6, Zenon DEF AppendReject, QueueFailureUnrecorded, disk, ghost
  <2>2. stranded = {}
    BY <2>1, HeadType DEF Writing
  <2>3. \A u \in Tasks : pc'[u] \in {pc[u], "idle"} /\ (pc'[u] = "committed" <=> pc[u] = "committed")
    BY <2>1 DEF Finish, TypeOK
  <2> QED
    BY <2>1, <2>2, <2>3, AnchorQuiet DEF Alive
<1>7. ASSUME NEW t \in Tasks, AppendHead(t) \/ AppendHeadFails(t) \/ AppendInterrupted(t)
      PROVE  AnchorInv'
  <2>1. /\ UNCHANGED <<log, stranded>> /\ Finish(t) /\ pc[t] = "committed"
        /\ \/ head' = seq[t] /\ orphans' = orphans
           \/ head' = head /\ orphans' = orphans \cup {seq[t]}
    BY <1>7, Zenon DEF AppendHead, AppendHeadFails, AppendInterrupted, disk
  <2>2. seq[t] = Len(log) /\ stranded = {} /\ head \in Nat /\ Len(log) \in Nat
    BY <2>1, HeadType DEF OwnerInv, Writing
  <2>3. \A u \in Tasks : pc'[u] # "committed"
    BY <2>1, OneWriter DEF Finish, TypeOK, Writing
  <2>4. head' # Len(log') => Len(log') \in orphans'
    BY <2>1, <2>2
  <2>5. \A n \in orphans' : 0 <= head' /\ n <= Len(log')
    <3>1. \A n \in orphans : n <= Len(log)
      BY DEF AnchorInv
    <3> QED
      BY <2>1, <2>2, <3>1
  <2> QED
    BY <2>1, <2>2, <2>3, <2>4, <2>5 DEF AnchorInv
<1>9. ASSUME NEW t \in Tasks, NEW d \in BOOLEAN, VerifyBegin(t, d) PROVE AnchorInv'
  <2>1. UNCHANGED <<log, head, status, healthy, seq, orphans, stranded>>
    BY <1>9 DEF VerifyBegin, disk, procs, ghost
  <2>2. \A u \in Tasks : pc'[u] = pc[u] \/ (pc[u] = "idle" /\ pc'[u] = "verifying")
    BY <1>9 DEF VerifyBegin, TypeOK
  <2> QED
    BY <2>1, <2>2, AnchorQuiet DEF Alive, AnchorInv
<1>10. ASSUME NEW t \in Tasks, VerifyEvents(t) PROVE AnchorInv'
  <2>1. UNCHANGED <<log, head, status, healthy, orphans, stranded>>
    BY <1>10 DEF VerifyEvents, disk, procs, ghost
  <2>2. \A u \in Tasks : u # t => pc'[u] = pc[u] /\ seq'[u] = seq[u]
    BY <1>10 DEF VerifyEvents, TypeOK
  <2>3. pc[t] = "verifying" /\ pc'[t] = "eventsRead" /\ seq'[t] = Len(log)
    BY <1>10 DEF VerifyEvents, TypeOK
  <2> QED
    BY <2>1, <2>2, <2>3, AnchorQuiet DEF Alive, AnchorInv
<1>11. ASSUME NEW t \in Tasks, VerifyView(t) PROVE AnchorInv'
  <2>1. UNCHANGED <<log, head, orphans, stranded>> /\ pc[t] = "eventsRead"
    BY <1>11 DEF VerifyView, disk, ghost
  <2>2. Alive(ProcOf[t]) /\ ProcOf[t] \in Procs
    BY <2>1, OneWriter
  <2>3. CASE VerifyFails(t, "projection_drift")
    <3>1. \A p \in Procs : Alive(p)' => Alive(p)
      BY <2>2, <2>3 DEF VerifyFails, TypeOK, Alive
    <3>2. \A p \in Procs : healthy'[p] => healthy[p]
      BY <2>3 DEF VerifyFails, MarkUnhealthy, TypeOK
    <3>3. \A u \in Tasks : (u # t => pc'[u] = pc[u] /\ seq'[u] = seq[u]) /\ pc'[t] = "idle"
      BY <2>3 DEF VerifyFails, Finish, TypeOK
    <3> QED
      BY <2>1, <3>1, <3>2, <3>3, AnchorQuiet DEF AnchorInv
  <2>4. CASE ~VerifyFails(t, "projection_drift")
    <3>1. UNCHANGED <<status, healthy, seq>>
      BY <1>11, <2>4 DEF VerifyView
    <3>2. \A u \in Tasks : (u # t => pc'[u] = pc[u]) /\ pc'[t] = "viewRead"
      BY <1>11, <2>4 DEF VerifyView, TypeOK
    <3> QED
      BY <2>1, <3>1, <3>2, AnchorQuiet DEF AnchorInv, Alive
  <2> QED
    BY <2>3, <2>4
<1>12. ASSUME NEW t \in Tasks, VerifyHead(t) PROVE AnchorInv'
  <2>1. UNCHANGED <<log, head, orphans, stranded>> /\ pc[t] = "viewRead"
    BY <1>12 DEF VerifyHead, disk, ghost
  <2>2. Alive(ProcOf[t]) /\ ProcOf[t] \in Procs
    BY <2>1, OneWriter
  <2>3. PICK ok \in BOOLEAN : status' = [status EXCEPT ![ProcOf[t]] = AfterVerify(ProcOf[t], ok)]
    BY <1>12 DEF VerifyHead, VerifyFails
  <2>4. \A p \in Procs : Alive(p)' => Alive(p)
    BY <2>2, <2>3 DEF TypeOK, Alive
  <2>5. pc' \in {[pc EXCEPT ![t] = "idle"], [pc EXCEPT ![t] = "queueCheck"]}
    BY <1>12, Zenon DEF VerifyHead, VerifyFails, Finish
  <2>6. \A u \in Tasks : (u # t => pc'[u] = pc[u]) /\ pc'[t] \in {"idle", "queueCheck"}
    BY <2>5 DEF TypeOK
  <2>7. \A u \in Tasks : u # t => seq'[u] = seq[u]
    BY <1>12 DEF VerifyHead, VerifyFails, Finish, TypeOK
  <2>8. ASSUME stranded # {} PROVE \A p \in Procs : healthy'[p] => healthy[p]
    <3>1. seq[t] = Len(log) /\ head < Len(log) /\ head \in Int /\ Len(log) \in Nat
      BY <2>1, <2>8, HeadType DEF AnchorInv
    <3>2. head # seq[t]
      BY <3>1
    <3>3. VerifyFails(t, "expected_head_mismatch")
      BY <1>12, <3>2, Zenon DEF VerifyHead
    <3> QED
      BY <3>3 DEF VerifyFails, MarkUnhealthy, TypeOK
  <2> QED
    BY <2>1, <2>4, <2>6, <2>7, <2>8, AnchorQuiet DEF AnchorInv
<1>13. ASSUME NEW t \in Tasks, QueueCheck(t) PROVE AnchorInv'
  <2>1. UNCHANGED <<log, head, orphans, stranded>> /\ pc[t] = "queueCheck"
    BY <1>13 DEF QueueCheck, disk, ghost
  <2>2. Alive(ProcOf[t]) /\ ProcOf[t] \in Procs
    BY <2>1, OneWriter
  <2>3. /\ status' = [status EXCEPT ![ProcOf[t]] = "up"]
        /\ Finish(t)
    BY <1>13, Zenon DEF QueueCheck
  <2>4. \A p \in Procs : Alive(p)' => Alive(p)
    BY <2>2, <2>3 DEF TypeOK, Alive
  <2>5. \A u \in Tasks : (u # t => pc'[u] = pc[u] /\ seq'[u] = seq[u]) /\ pc'[t] = "idle"
    BY <2>3 DEF Finish, TypeOK
  <2>6. \A p \in Procs : healthy'[p] => healthy[p]
    BY <1>13 DEF QueueCheck, MarkUnhealthy, TypeOK
  <2> QED
    BY <2>1, <2>4, <2>5, <2>6, AnchorQuiet DEF AnchorInv
<1>14. CASE UNCHANGED vars
  BY <1>14 DEF AnchorInv, vars, disk, procs, tasks, ghost, Writing, Alive
<1> QED
  BY <1>1, <1>2, <1>3, <1>4, <1>5, <1>6, <1>7, <1>9, <1>10, <1>11, <1>12,
     <1>13, <1>14 DEF Next, AppendStep, VerifyStep

(* The inductive invariant of exclusive owners, whatever stops, fails or   *)
(* is cancelled.                                                           *)
THEOREM InvariantHolds == ExclusiveOwner /\ Spec => []IInv
<1> SUFFICES ASSUME ExclusiveOwner PROVE Spec => []IInv
  OBVIOUS
<1>1. Init => BootInv /\ OwnerInv /\ AnchorInv
  BY BootInit, OwnerInit, AnchorInit
<1>2. TypeOK /\ BootInv /\ [Next]_vars => BootInv'
  BY BootStep
<1>3. TypeOK /\ OwnerInv /\ AnchorInv /\ [Next]_vars => OwnerInv' /\ AnchorInv'
  BY OwnerStep, AnchorStep
<1> QED
  BY <1>1, <1>2, <1>3, TypeCorrect, PTL DEF Spec, IInv

(* The health flag can be trusted but for one case: behind a healthy store *)
(* without an append between its commit and its head write, the head is on *)
(* the tail, or the tail's own append failed or was cancelled in this very *)
(* run of the process.                                                     *)
THEOREM HealthyAnchored == ExclusiveOwner /\ Spec => []HealthyMeansAnchored
<1>1. IInv => HealthyMeansAnchored
  <2> SUFFICES ASSUME IInv, NEW p \in Procs, Alive(p), healthy[p], ~InFlight(p),
                      head # Len(log)
               PROVE  Len(log) \in orphans \ stranded
    BY DEF HealthyMeansAnchored
  <2>1. \A t \in Tasks : pc[t] # "committed"
    BY OthersIdle DEF IInv, Alive, InFlight, TasksOf
  <2>2. head # Missing /\ stranded = {}
    BY DEF IInv, OwnerInv, AnchorInv
  <2> QED
    BY <2>1, <2>2 DEF IInv, AnchorInv
<1> QED
  BY <1>1, InvariantHolds, PTL

(* A tail that a stopped process left without its head is never covered by *)
(* a later head: no later run blesses it, whatever it verifies, appends,   *)
(* loses or cancels.                                                       *)
THEOREM StrandedStay == ExclusiveOwner /\ Spec => []StrandedNeverBlessed
<1>1. IInv => StrandedNeverBlessed
  BY DEF IInv, AnchorInv, StrandedNeverBlessed
<1> QED
  BY <1>1, InvariantHolds, PTL

(* "Append concurrently": whenever every task is idle, the head covers the *)
(* whole log or the tail's own append lost its head write: no interleaving *)
(* of appends that return leaves an older head behind.                     *)
THEOREM ConcurrentVerifiable == ExclusiveOwner /\ Spec => []ConcurrentAppendsVerifiable
<1>1. IInv => ConcurrentAppendsVerifiable
  BY DEF IInv, AnchorInv, ConcurrentAppendsVerifiable, Quiescent
<1> QED
  BY <1>1, InvariantHolds, PTL

(* What the refinement mapping makes of the end of the log. *)
Committed == \E t \in Tasks : pc[t] = "committed"

TailCases ==
  /\ Committed => TailState = "pending"
  /\ stranded # {} => TailState = "stranded"
  /\ stranded = {} /\ ~Committed =>
       TailState = IF Anchor = Len(log) THEN "anchored" ELSE "lost"
  /\ Anchor \in Nat
  /\ stranded # {} => Anchor # Len(log)

LEMMA TailStateCases == TypeOK /\ OwnerInv /\ AnchorInv => TailCases
  <1> SUFFICES ASSUME TypeOK, OwnerInv, AnchorInv PROVE TailCases
    OBVIOUS
  <1>1. Anchor \in Nat /\ (head = Missing => Len(log) = 0) /\ (head # Missing => Anchor = head)
    BY DEF TypeOK, OwnerInv, Anchor, Missing
  <1>2. ASSUME NEW t \in Tasks, pc[t] = "committed" PROVE Anchor # Len(log) /\ stranded = {}
    BY <1>1, <1>2, HeadType DEF AnchorInv, Writing, Missing
  <1>3. stranded # {} => Anchor # Len(log) /\ ~(\E t \in Tasks : pc[t] = "committed")
    BY <1>1, HeadType DEF AnchorInv, Writing, TypeOK
  <1> QED
    BY <1>1, <1>2, <1>3 DEF TailState, TailCases, Committed

(* The event store implements the abstract anchored log: batches go in one *)
(* at a time, behind an anchored tail or one this run lost, and a stranded *)
(* tail freezes the log.                                                   *)
THEOREM Refinement == ExclusiveOwner /\ Spec => ImplementsAnchoredLog
<1> SUFFICES ASSUME ExclusiveOwner PROVE Spec => ImplementsAnchoredLog
  OBVIOUS
<1>1. Init => Anchored!Init
  BY DEF Init, Anchored!Init, Anchor, TailState
<1>2. IInv /\ IInv' /\ [Next]_vars => [Anchored!Next]_(Anchored!vars)
  <2> SUFFICES ASSUME IInv, IInv', [Next]_vars
               PROVE  Anchored!Next \/ UNCHANGED <<log, Anchor, TailState>>
    BY DEF Anchored!vars
  <2>0. TypeOK /\ OwnerInv /\ AnchorInv /\ Len(log) \in Nat
    BY DEF IInv, TypeOK
  <2>a. TailCases /\ TailCases'
    <3>1. (TypeOK /\ OwnerInv /\ AnchorInv)'
      BY DEF IInv
    <3> QED
      BY <2>0, <3>1, TailStateCases, PTL
  <2>1. ASSUME NEW t \in Tasks, AppendCommit(t) PROVE Anchored!Next
    <3>1. UNCHANGED <<head, stranded>> /\ pc[t] = "appending" /\ pc'[t] = "committed"
      BY <2>0, <2>1 DEF AppendCommit, ghost, TypeOK
    <3>2. stranded = {} /\ ~Committed
      BY <2>0, <3>1, HeadType, OneWriter DEF Writing, Committed
    <3>3. Committed' /\ Anchor' = Anchor
      BY <3>1 DEF Committed, Anchor
    <3>4. \E batch \in Batches : log' = log \o batch
      BY <2>1 DEF AppendCommit
    <3> QED
      BY <2>a, <3>2, <3>3, <3>4 DEF TailCases, Anchored!Next, Anchored!Extend
  <2>2. ASSUME NEW t \in Tasks, AppendHead(t) \/ AppendHeadFails(t) \/ AppendInterrupted(t)
        PROVE  Anchored!Next
    <3>1. /\ UNCHANGED <<log, stranded>> /\ Finish(t) /\ pc[t] = "committed"
          /\ head' = seq[t] \/ head' = head
      BY <2>2, Zenon DEF AppendHead, AppendHeadFails, AppendInterrupted, disk
    <3>2. seq[t] = Len(log) /\ stranded = {} /\ head \in Nat /\ head < Len(log)
      BY <2>0, <3>1, HeadType DEF OwnerInv, AnchorInv, Writing
    <3>3. Committed /\ ~Committed'
      BY <2>0, <3>1, OneWriter DEF Finish, TypeOK, Writing, Committed
    <3>4. Anchor = head /\ (Anchor' = head \/ Anchor' = Len(log))
      BY <2>0, <3>1, <3>2 DEF Anchor, Missing
    <3>5. CASE Anchor' = Len(log)
      BY <2>a, <3>1, <3>2, <3>3, <3>5 DEF TailCases, Anchored!Next, Anchored!Anchor
    <3>6. CASE Anchor' # Len(log)
      BY <2>a, <3>1, <3>2, <3>3, <3>4, <3>6 DEF TailCases, Anchored!Next, Anchored!Lose
    <3> QED
      BY <3>5, <3>6
  <2>3. ASSUME NEW p \in Procs, Stop(p)
        PROVE  Anchored!Next \/ UNCHANGED <<log, Anchor, TailState>>
    <3>1. UNCHANGED <<log, head, Anchor>> /\ stranded \subseteq stranded'
      BY <2>3 DEF Stop, disk, Anchor
    <3>2. ~Committed'
      BY <2>0, <2>3, OthersIdle DEF Stop, TypeOK, Committed
    <3>3. CASE stranded' = {}
      <4>1. ~Committed
        <5> SUFFICES ASSUME NEW t \in Tasks, pc[t] = "committed" PROVE FALSE
          BY DEF Committed
        <5>1. ProcOf[t] = p /\ seq[t] = Len(log) /\ head < Len(log)
          BY <2>0, <2>3, OthersIdle DEF Stop, OwnerInv, AnchorInv
        <5>2. seq[t] \in orphans'
          BY <2>3, <5>1 DEF Stop, TasksOf
        <5> QED
          BY <2>3, <3>3, <5>1, <5>2 DEF Stop
      <4> QED
        BY <2>a, <3>1, <3>2, <3>3, <4>1 DEF TailCases
    <3>4. CASE stranded # {}
      BY <2>a, <3>1, <3>4 DEF TailCases
    <3>5. CASE stranded = {} /\ stranded' # {}
      <4>1. Anchor # Len(log)
        BY <2>a, <3>1, <3>5 DEF TailCases
      <4> QED
        BY <2>a, <3>1, <3>5, <4>1 DEF TailCases, Anchored!Next, Anchored!Strand
    <3> QED
      BY <3>3, <3>4, <3>5
  <2>4. ASSUME UNCHANGED <<log, Anchor, stranded>>, Committed' <=> Committed
        PROVE  UNCHANGED <<log, Anchor, TailState>>
    BY <2>a, <2>4 DEF TailCases
  <2>5. ASSUME NEW p \in Procs, Open(p) \/ OpenHead(p) PROVE UNCHANGED <<log, Anchor, TailState>>
    <3>1. UNCHANGED <<log, pc, stranded>>
      BY <2>5 DEF Open, OpenHead, disk, tasks, ghost
    <3>2. Anchor' = Anchor
      BY <2>5 DEF Open, OpenHead, disk, Anchor, Missing
    <3> QED
      BY <2>4, <3>1, <3>2 DEF Committed
  <2>6. ASSUME NEW t \in Tasks,
               AppendBegin(t) \/ AppendReject(t) \/ QueueFailureUnrecorded(t) \/ VerifyStep(t)
        PROVE  UNCHANGED <<log, Anchor, TailState>>
    <3>1. UNCHANGED <<log, head, stranded>>
      BY <2>6, Zenon DEF AppendBegin, AppendReject, QueueFailureUnrecorded, VerifyStep, VerifyBegin,
           VerifyEvents, VerifyView, VerifyHead, QueueCheck, disk, ghost
    <3>2. pc[t] # "committed" /\ \E step \in Steps \ {"committed"} : pc' = [pc EXCEPT ![t] = step]
      BY <2>6 DEF AppendBegin, AppendReject, QueueFailureUnrecorded, VerifyStep, VerifyBegin,
                  VerifyEvents, VerifyView, VerifyFails, VerifyHead, QueueCheck, Finish, Steps
    <3>3. \A u \in Tasks : pc'[u] = "committed" <=> pc[u] = "committed"
      BY <2>0, <3>2 DEF TypeOK
    <3> QED
      BY <2>4, <3>1, <3>3 DEF Committed, Anchor
  <2>7. CASE UNCHANGED vars
    BY <2>7 DEF vars, disk, tasks, ghost, Anchor, TailState
  <2> QED
    BY <2>1, <2>2, <2>3, <2>5, <2>6, <2>7 DEF Next, AppendStep
<1> QED
  BY <1>1, <1>2, InvariantHolds, PTL DEF Spec, ImplementsAnchoredLog, Anchored!Spec
================================================================================
