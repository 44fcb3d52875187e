------------------------- MODULE SubscriptionRunnerProofs ------------------------
(***************************************************************************)
(* Theorems about SubscriptionRunner.tla, for every set of callers, items  *)
(* and types.                                                              *)
(***************************************************************************)
EXTENDS SubscriptionRunner, SequenceTheorems, TLAPS

---------------------------------------------------------------------------
(* The queue for the lock.                                                 *)

(* A sequence without its element at i has the others in their order. *)
LEMMA RemoveAtProperties ==
  ASSUME NEW S, NEW s \in Seq(S), NEW i \in 1..Len(s)
  PROVE  /\ RemoveAt(s, i) \in Seq(S)
         /\ Len(RemoveAt(s, i)) = Len(s) - 1
         /\ \A j \in 1..Len(s) - 1 : RemoveAt(s, i)[j] = s[IF j < i THEN j ELSE j + 1]
<1> DEFINE front == SubSeq(s, 1, i - 1)
           back == SubSeq(s, i + 1, Len(s))
<1>0. Len(s) \in Nat /\ i \in Int /\ \A j \in 1..Len(s) : s[j] \in S
  OBVIOUS
<1>1. /\ front \in Seq(S) /\ Len(front) = i - 1
      /\ \A j \in 1..i - 1 : front[j] = s[j]
  <2>1. \A j \in 1..i - 1 : s[j] \in S  BY <1>0
  <2>2. /\ front \in Seq(S)
        /\ Len(front) = IF 1 <= i - 1 THEN (i - 1) - 1 + 1 ELSE 0
        /\ \A j \in 1..(i - 1) - 1 + 1 : front[j] = s[1 + j - 1]
    BY <1>0, <2>1, SubSeqProperties, i - 1 \in Int, 1 \in Int
  <2> QED  BY <1>0, <2>2
<1>2. /\ back \in Seq(S) /\ Len(back) = Len(s) - i
      /\ \A j \in 1..Len(s) - i : back[j] = s[i + j]
  <2>1. \A j \in i + 1..Len(s) : s[j] \in S  BY <1>0
  <2>2. /\ back \in Seq(S)
        /\ Len(back) = IF i + 1 <= Len(s) THEN Len(s) - (i + 1) + 1 ELSE 0
        /\ \A j \in 1..Len(s) - (i + 1) + 1 : back[j] = s[(i + 1) + j - 1]
    BY <1>0, <2>1, SubSeqProperties, i + 1 \in Int, Len(s) \in Int
  <2> QED  BY <1>0, <2>2
<1> HIDE DEF front, back
<1>3. /\ front \o back \in Seq(S) /\ Len(front \o back) = Len(front) + Len(back)
      /\ \A j \in 1..Len(front) + Len(back) :
           (front \o back)[j] = IF j <= Len(front) THEN front[j] ELSE back[j - Len(front)]
  BY <1>1, <1>2, ConcatProperties
<1>4. RemoveAt(s, i) = front \o back
  BY DEF RemoveAt, front, back
<1>5. ASSUME NEW j \in 1..Len(s) - 1
      PROVE  (front \o back)[j] = s[IF j < i THEN j ELSE j + 1]
  <2>1. CASE j < i
    BY <1>0, <1>1, <1>2, <1>3, <2>1
  <2>2. CASE ~(j < i)
    <3>1. (front \o back)[j] = back[j - (i - 1)]
      BY <1>0, <1>1, <1>2, <1>3, <2>2
    <3>2. j - (i - 1) \in 1..Len(s) - i /\ i + (j - (i - 1)) = j + 1
      BY <1>0, <2>2
    <3>3. back[j - (i - 1)] = s[i + (j - (i - 1))]
      BY <1>2, <3>2
    <3> QED  BY <2>2, <3>1, <3>2, <3>3
  <2> QED  BY <2>1, <2>2
<1>6. Len(front \o back) = Len(s) - 1
  BY <1>0, <1>1, <1>2, <1>3
<1> QED  BY <1>3, <1>4, <1>5, <1>6

(* The head leaves the queue. *)
LEMMA TailProperties ==
  ASSUME NEW S, NEW s \in Seq(S), s # <<>>
  PROVE  /\ s[1] \in S /\ 1 \in 1..Len(s) /\ Tail(s) \in Seq(S) /\ Len(Tail(s)) = Len(s) - 1
         /\ \A j \in 1..Len(s) - 1 : Tail(s)[j] = s[IF j < 1 THEN j ELSE j + 1]
<1>1. Len(s) \in Nat /\ Len(s) # 0  BY EmptySeq
<1> QED  BY <1>1, HeadTailProperties

(* Who waits is calling, was not cancelled and waits once, when one leaves *)
(* the queue and at most his call changes.                                 *)
LEMMA LeaveQueue ==
  ASSUME TypeOK, Waiting, NEW i \in 1..Len(queue), NEW holds,
         queue' \in Seq(Callers), Len(queue') = Len(queue) - 1,
         \A j \in 1..Len(queue) - 1 : queue'[j] = queue[IF j < i THEN j ELSE j + 1],
         \A c \in Callers : c # queue[i] => call'[c] = call[c] /\ asked'[c] = asked[c],
         holder' \in {holder, queue[i]}
  PROVE  Waiting'
<1>0. Len(queue) \in Nat /\ DOMAIN queue = 1..Len(queue) /\ DOMAIN queue' = 1..Len(queue) - 1
  BY DEF TypeOK
<1> DEFINE old(j) == IF j < i THEN j ELSE j + 1
<1>1. \A j \in 1..Len(queue) - 1 : old(j) \in 1..Len(queue) /\ old(j) # i
  BY <1>0
<1>2. \A j, k \in 1..Len(queue) - 1 : old(j) = old(k) => j = k
  BY <1>0
<1>3. \A j \in 1..Len(queue) - 1 : queue'[j] = queue[old(j)]
  OBVIOUS
<1> HIDE DEF old
<1>4. \A j \in 1..Len(queue) : queue[j] \in Callers
  BY DEF TypeOK
<1>5. \A j \in 1..Len(queue) - 1 : queue'[j] # queue[i] /\ queue'[j] \in Callers
  BY <1>0, <1>1, <1>3, <1>4 DEF Waiting
<1>6. ASSUME NEW j \in 1..Len(queue) - 1
      PROVE  call'[queue'[j]] = "calling" /\ ~asked'[queue'[j]] /\ queue'[j] # holder'
  <2>1. call[queue'[j]] = "calling" /\ ~asked[queue'[j]] /\ queue'[j] # holder
    BY <1>0, <1>1, <1>3 DEF Waiting
  <2> QED  BY <2>1, <1>5
<1>7. ASSUME NEW j \in 1..Len(queue) - 1, NEW k \in 1..Len(queue) - 1, queue'[j] = queue'[k]
      PROVE  j = k
  <2>1. queue[old(j)] = queue[old(k)]  BY <1>3, <1>7
  <2>2. old(j) = old(k)  BY <1>0, <1>1, <2>1 DEF Waiting
  <2> QED  BY <1>2, <2>2
<1> QED  BY <1>0, <1>6, <1>7 DEF Waiting

---------------------------------------------------------------------------
(* Every action keeps the invariant.                                       *)

(* A call joins the queue. *)
LEMMA CallStep ==
  ASSUME IInv, NEW c \in Callers, Call(c)
  PROVE  IInv'
<1> USE DEF IInv, Call, child
<1>a. /\ queue' \in Seq(Callers) /\ DOMAIN queue' = 1..Len(queue) + 1 /\ DOMAIN queue = 1..Len(queue)
      /\ \A i \in 1..Len(queue) : queue'[i] = queue[i] /\ queue[i] \in Callers
      /\ queue'[Len(queue) + 1] = c /\ Len(queue) \in Nat
  BY AppendProperties DEF TypeOK
<1>1. TypeOK'
  BY <1>a, CallerAssumption DEF TypeOK, Owned, Placed, Flags
<1>2. Owned'
  BY <1>a, CallerAssumption DEF Owned, TypeOK, Placed
<1>3. LeftoversFlagged'
  BY <1>a, CallerAssumption DEF LeftoversFlagged, Owned, TypeOK
<1>4. StreamFollowed'
  BY <1>a, CallerAssumption DEF StreamFollowed, Owned, Opened, TypeOK, Placed
<1>5. Placed'
  BY <1>a, CallerAssumption DEF Placed, Waiting, Owned, TypeOK
<1> QED  BY <1>1, <1>2, <1>3, <1>4, <1>5

(* A probe is refused. *)
LEMMA CallRefusedStep ==
  ASSUME IInv, NEW c \in Callers, CallRefused(c)
  PROVE  IInv'
<1> USE DEF IInv, CallRefused, child
<1>1. TypeOK'
  BY CallerAssumption DEF TypeOK, Owned, Placed, Flags
<1>2. Owned'
  BY CallerAssumption DEF Owned, TypeOK, Placed
<1>3. LeftoversFlagged'
  BY CallerAssumption DEF LeftoversFlagged, Owned, TypeOK
<1>4. StreamFollowed'
  BY CallerAssumption DEF StreamFollowed, Owned, Opened, TypeOK, Placed
<1>5. Placed'
  BY CallerAssumption DEF Placed, Waiting, Owned, TypeOK
<1> QED  BY <1>1, <1>2, <1>3, <1>4, <1>5

(* A probe gives up waiting. *)
LEMMA BusyStep ==
  ASSUME IInv, NEW i \in DOMAIN queue, Busy(i)
  PROVE  IInv'
<1> USE DEF IInv, Busy, child
<1>q. /\ DOMAIN queue = 1..Len(queue) /\ queue[i] \in Callers
  BY DEF TypeOK
<1>r. /\ queue' \in Seq(Callers) /\ Len(queue') = Len(queue) - 1
      /\ \A j \in 1..Len(queue) - 1 : queue'[j] = queue[IF j < i THEN j ELSE j + 1]
  <2>1. queue \in Seq(Callers) /\ i \in 1..Len(queue) /\ queue' = RemoveAt(queue, i)
    BY <1>q DEF TypeOK
  <2> HIDE DEF IInv
  <2> QED  BY <2>1, RemoveAtProperties
<1>s. \A c \in Callers : c # queue[i] => call'[c] = call[c] /\ asked'[c] = asked[c]
  BY <1>q DEF TypeOK
<1>t. Waiting'
  BY <1>q, <1>r, <1>s, LeaveQueue DEF Placed
<1>a. queue' \in Seq(Callers) /\ queue[i] \in Callers /\ Waiting' /\ queue[i] # holder
  BY <1>q, <1>r, <1>t DEF Placed, Waiting
<1>1. TypeOK'
  BY <1>a DEF TypeOK, Owned, Placed, Flags
<1>2. Owned'
  BY <1>a DEF Owned, TypeOK, Placed
<1>3. LeftoversFlagged'
  BY <1>a DEF LeftoversFlagged, Owned, TypeOK
<1>4. StreamFollowed'
  BY <1>a DEF StreamFollowed, Owned, Opened, TypeOK, Placed
<1>5. Placed'
  BY <1>a DEF Placed, Waiting, Owned, TypeOK
<1> QED  BY <1>1, <1>2, <1>3, <1>4, <1>5

(* A waiting call is cancelled. *)
LEMMA CancelWaitingStep ==
  ASSUME IInv, NEW i \in DOMAIN queue, CancelWaiting(i)
  PROVE  IInv'
<1> USE DEF IInv, CancelWaiting, child
<1>q. /\ DOMAIN queue = 1..Len(queue) /\ queue[i] \in Callers
  BY DEF TypeOK
<1>r. /\ queue' \in Seq(Callers) /\ Len(queue') = Len(queue) - 1
      /\ \A j \in 1..Len(queue) - 1 : queue'[j] = queue[IF j < i THEN j ELSE j + 1]
  <2>1. queue \in Seq(Callers) /\ i \in 1..Len(queue) /\ queue' = RemoveAt(queue, i)
    BY <1>q DEF TypeOK
  <2> HIDE DEF IInv
  <2> QED  BY <2>1, RemoveAtProperties
<1>s. \A c \in Callers : c # queue[i] => call'[c] = call[c] /\ asked'[c] = asked[c]
  BY <1>q DEF TypeOK
<1>t. Waiting'
  BY <1>q, <1>r, <1>s, LeaveQueue DEF Placed
<1>a. queue' \in Seq(Callers) /\ queue[i] \in Callers /\ Waiting' /\ queue[i] # holder
  BY <1>q, <1>r, <1>t DEF Placed, Waiting
<1>1. TypeOK'
  BY <1>a DEF TypeOK, Owned, Placed, Flags
<1>2. Owned'
  BY <1>a DEF Owned, TypeOK, Placed
<1>3. LeftoversFlagged'
  BY <1>a DEF LeftoversFlagged, Owned, TypeOK
<1>4. StreamFollowed'
  BY <1>a DEF StreamFollowed, Owned, Opened, TypeOK, Placed
<1>5. Placed'
  BY <1>a DEF Placed, Waiting, Owned, TypeOK
<1> QED  BY <1>1, <1>2, <1>3, <1>4, <1>5

(* The next call takes the lock. *)
LEMMA BeginStep ==
  ASSUME IInv, Begin
  PROVE  IInv'
<1> USE DEF IInv, Begin, MayBegin, child
<1>a. /\ queue' \in Seq(Callers) /\ queue[1] \in Callers /\ Waiting'
      /\ call[queue[1]] = "calling" /\ ~asked[queue[1]] /\ queue[1] # holder
  BY TailProperties, LeaveQueue DEF Placed, TypeOK, Waiting
<1>1. TypeOK'
  BY <1>a, CallerAssumption DEF TypeOK, Owned, Placed, Flags
<1>2. Owned'
  BY <1>a, CallerAssumption DEF Owned, TypeOK, Placed
<1>3. LeftoversFlagged'
  BY <1>a, CallerAssumption DEF LeftoversFlagged, Owned, TypeOK
<1>4. StreamFollowed'
  BY <1>a, CallerAssumption DEF StreamFollowed, Owned, Opened, TypeOK, Placed
<1>5. Placed'
  BY <1>a, CallerAssumption DEF Placed, Waiting, Owned, TypeOK
<1> QED  BY <1>1, <1>2, <1>3, <1>4, <1>5

(* The next call fails under the lock. *)
LEMMA BeginFailsStep ==
  ASSUME IInv, NEW left \in BOOLEAN, BeginFails(left)
  PROVE  IInv'
<1> USE DEF IInv, BeginFails, MayBegin, child
<1>a. /\ queue' \in Seq(Callers) /\ queue[1] \in Callers /\ Waiting'
      /\ call[queue[1]] = "calling" /\ ~asked[queue[1]] /\ queue[1] # holder
  BY TailProperties, LeaveQueue DEF Placed, TypeOK, Waiting
<1>1. TypeOK'
  BY <1>a, CallerAssumption DEF TypeOK, Owned, Placed, Flags
<1>2. Owned'
  BY <1>a, CallerAssumption DEF Owned, TypeOK, Placed
<1>3. LeftoversFlagged'
  BY <1>a, CallerAssumption DEF LeftoversFlagged, Owned, TypeOK
<1>4. StreamFollowed'
  BY <1>a, CallerAssumption DEF StreamFollowed, Owned, Opened, TypeOK, Placed
<1>5. Placed'
  BY <1>a, CallerAssumption DEF Placed, Waiting, Owned, TypeOK
<1> QED  BY <1>1, <1>2, <1>3, <1>4, <1>5

(* A call leaves the lock. *)
LEMMA FinishStep ==
  ASSUME IInv, phase \in {"spawn", "done"}, NEW removed \in BOOLEAN,
         NEW outcome \in {"ready", "result", "failed", "cancelled"}, Finish(outcome, removed)
  PROVE  IInv'
<1> USE DEF IInv, Finish, NewChild, NewStream
<1>a. holder \in Callers /\ \A i \in DOMAIN queue : queue[i] \in Callers
  BY DEF Owned, TypeOK
<1>b. stream' \in Streams /\ items' \in [started : SUBSET Items, completed : SUBSET Items]
  BY DEF Streams
<1>c. call' \in [Callers -> {"idle", "calling", "ready", "result", "failed", "cancelled"}]
  BY <1>a DEF TypeOK
<1>d. flag' \in Flags /\ strays' \in SUBSET {"group", "reader", "files"}
  BY DEF TypeOK, Flags
<1>1. TypeOK'
  <2>1. killed' \in BOOLEAN /\ trusted' \in BOOLEAN  BY ZenonT(20) DEF TypeOK
  <2>2. /\ call' \in [Callers -> {"idle", "calling", "ready", "result", "failed", "cancelled"}]
        /\ holder' \in Callers \cup {None} /\ queue' \in Seq(Callers)
        /\ stage' \in {"none", "version", "status", "exec"}
        /\ phase' \in {"idle", "spawn", "running", "term", "kill", "drain", "done"}
        /\ group' \in {"none", "alive", "gone"} /\ tries' \in 1..2
        /\ error' \in {"none", "failed", "cancelled"}
        /\ output' \in {"none", "good", "foreign", "bad"} /\ stream' \in Streams
        /\ temp' \in {"none", "auth", "semantic"} /\ flag' \in Flags
        /\ did' \in SUBSET Kinds
        /\ items' \in [started : SUBSET Items, completed : SUBSET Items]
        /\ strays' \in SUBSET {"group", "reader", "files"}
        /\ asked' \in [Callers -> BOOLEAN]
    BY <1>b, <1>c, <1>d, CallerAssumption DEF TypeOK
  <2> HIDE DEF IInv, Finish
  <2> QED  BY <2>1, <2>2 DEF TypeOK
<1>2. Owned'
  BY <1>a, <1>b, <1>c, <1>d, CallerAssumption DEF Owned, TypeOK, Placed
<1>3. LeftoversFlagged'
  BY <1>a, <1>b, <1>c, <1>d, CallerAssumption DEF LeftoversFlagged, Owned, TypeOK
<1>4. StreamFollowed'
  BY <1>a, <1>b, <1>c, <1>d, CallerAssumption DEF StreamFollowed, Owned, Opened, TypeOK, Placed
<1>5. Placed'
  BY <1>a, <1>b, <1>c, <1>d, CallerAssumption DEF Placed, Waiting, Owned, TypeOK
<1> QED  BY <1>1, <1>2, <1>3, <1>4, <1>5

(* A child is created. *)
LEMMA SpawnStep ==
  ASSUME IInv, Spawn
  PROVE  IInv'
<1> USE DEF IInv, Spawn, NewChild, NewStream
<1>b. stream' \in Streams /\ items' \in [started : SUBSET Items, completed : SUBSET Items]
  BY DEF Streams
<1>1. TypeOK'
  <2>1. killed' \in BOOLEAN /\ trusted' \in BOOLEAN  BY ZenonT(20) DEF TypeOK
  <2>2. /\ call' \in [Callers -> {"idle", "calling", "ready", "result", "failed", "cancelled"}]
        /\ holder' \in Callers \cup {None} /\ queue' \in Seq(Callers)
        /\ stage' \in {"none", "version", "status", "exec"}
        /\ phase' \in {"idle", "spawn", "running", "term", "kill", "drain", "done"}
        /\ group' \in {"none", "alive", "gone"} /\ tries' \in 1..2
        /\ error' \in {"none", "failed", "cancelled"}
        /\ output' \in {"none", "good", "foreign", "bad"} /\ stream' \in Streams
        /\ temp' \in {"none", "auth", "semantic"} /\ flag' \in Flags
        /\ did' \in SUBSET Kinds
        /\ items' \in [started : SUBSET Items, completed : SUBSET Items]
        /\ strays' \in SUBSET {"group", "reader", "files"}
        /\ asked' \in [Callers -> BOOLEAN]
    BY <1>b DEF TypeOK
  <2> HIDE DEF IInv, Spawn
  <2> QED  BY <2>1, <2>2 DEF TypeOK
<1>2. Owned'
  BY <1>b DEF Owned, TypeOK, Placed
<1>3. LeftoversFlagged'
  BY <1>b DEF LeftoversFlagged, Owned, TypeOK
<1>4. StreamFollowed'
  BY <1>b DEF StreamFollowed, Owned, Opened, TypeOK, Placed
<1>5. Placed'
  BY <1>b DEF Placed, Waiting, Owned, TypeOK
<1> QED  BY <1>1, <1>2, <1>3, <1>4, <1>5

(* The second child follows the first. *)
LEMMA VersionKnownStep ==
  ASSUME IInv, VersionKnown
  PROVE  IInv'
<1> USE DEF IInv, VersionKnown, Fits, child
<1>1. TypeOK'
  BY DEF TypeOK, Owned, Placed, Flags
<1>2. Owned'
  BY DEF Owned, TypeOK, Placed
<1>3. LeftoversFlagged'
  BY DEF LeftoversFlagged, Owned, TypeOK
<1>4. StreamFollowed'
  BY DEF StreamFollowed, Owned, Opened, TypeOK, Placed
<1>5. Placed'
  BY DEF Placed, Waiting, Owned, TypeOK
<1> QED  BY <1>1, <1>2, <1>3, <1>4, <1>5

(* The third child follows the second. *)
LEMMA PrepareStep ==
  ASSUME IInv, Prepare
  PROVE  IInv'
<1> USE DEF IInv, Prepare, Fits, child
<1>1. TypeOK'
  BY CallerAssumption DEF TypeOK, Owned, Placed, Flags
<1>2. Owned'
  BY CallerAssumption DEF Owned, TypeOK, Placed
<1>3. LeftoversFlagged'
  BY CallerAssumption DEF LeftoversFlagged, Owned, TypeOK
<1>4. StreamFollowed'
  BY CallerAssumption DEF StreamFollowed, Owned, Opened, TypeOK, Placed
<1>5. Placed'
  BY CallerAssumption DEF Placed, Waiting, Owned, TypeOK
<1> QED  BY <1>1, <1>2, <1>3, <1>4, <1>5

(* The identity drifts. *)
LEMMA ChangeStep ==
  ASSUME IInv, Change
  PROVE  IInv'
<1> USE DEF IInv, Change, child
<1>1. TypeOK'
  <2>1. killed' \in BOOLEAN /\ trusted' \in BOOLEAN  BY ZenonT(20) DEF TypeOK
  <2>2. /\ call' \in [Callers -> {"idle", "calling", "ready", "result", "failed", "cancelled"}]
        /\ holder' \in Callers \cup {None} /\ queue' \in Seq(Callers)
        /\ stage' \in {"none", "version", "status", "exec"}
        /\ phase' \in {"idle", "spawn", "running", "term", "kill", "drain", "done"}
        /\ group' \in {"none", "alive", "gone"} /\ tries' \in 1..2
        /\ error' \in {"none", "failed", "cancelled"}
        /\ output' \in {"none", "good", "foreign", "bad"} /\ stream' \in Streams
        /\ temp' \in {"none", "auth", "semantic"} /\ flag' \in Flags
        /\ did' \in SUBSET Kinds
        /\ items' \in [started : SUBSET Items, completed : SUBSET Items]
        /\ strays' \in SUBSET {"group", "reader", "files"}
        /\ asked' \in [Callers -> BOOLEAN]
    BY DEF TypeOK
  <2> HIDE DEF IInv, Change
  <2> QED  BY <2>1, <2>2 DEF TypeOK
<1>2. Owned'
  BY DEF Owned, TypeOK, Placed
<1>3. LeftoversFlagged'
  BY DEF LeftoversFlagged, Owned, TypeOK
<1>4. StreamFollowed'
  BY DEF StreamFollowed, Owned, Opened, TypeOK, Placed
<1>5. Placed'
  BY DEF Placed, Waiting, Owned, TypeOK
<1> QED  BY <1>1, <1>2, <1>3, <1>4, <1>5

(* The child stops, one way or another. *)
LEMMA StopStep ==
  ASSUME IInv, NEW e \in {"none", "failed", "cancelled"}, NEW o \in {"none", "good", "foreign", "bad"},
         Stop(e, o), e = "none" /\ stage = "exec" => stream.state = "terminal",
         asked' = asked \/ (e # "none" /\ asked' = [asked EXCEPT ![holder] = TRUE])
  PROVE  IInv'
<1> USE DEF IInv, Stop
<1>a. asked' \in [Callers -> BOOLEAN] /\ \A c \in Callers : c # holder => asked'[c] = asked[c]
  BY DEF TypeOK
<1>1. TypeOK'
  BY <1>a DEF TypeOK, Owned, Placed, Flags
<1>2. Owned'
  BY <1>a DEF Owned, TypeOK, Placed
<1>3. LeftoversFlagged'
  BY <1>a DEF LeftoversFlagged, Owned, TypeOK
<1>4. StreamFollowed'
  BY <1>a DEF StreamFollowed, Owned, Opened, TypeOK, Placed
<1>5. Placed'
  BY <1>a DEF Placed, Waiting, Owned, TypeOK
<1> QED  BY <1>1, <1>2, <1>3, <1>4, <1>5

(* An event is consumed or refused. *)
LEMMA EventStep ==
  ASSUME IInv, NEW e \in Events, Event(e)
  PROVE  IInv'
<1> USE DEF IInv, Event
<1>e. e.kind \in Kinds /\ e.item \in Items /\ e.type \in Types
  BY DEF Events
<1>1. TypeOK'
  <2>1. did' \in SUBSET Kinds  BY <1>e DEF TypeOK, Emit
  <2>2. items' \in [started : SUBSET Items, completed : SUBSET Items]
    BY <1>e DEF TypeOK, Emit
  <2>3. CASE Accepts(e)
    <3>1. NextState(e.kind) \in {"expect_thread", "expect_turn", "in_turn", "failure_pending", "terminal"}
      BY DEF NextState, TypeOK, Streams
    <3>2. Consumed(e) \in Streams
      BY <1>e, <3>1 DEF Consumed, TypeOK, Streams
    <3> QED  BY <2>1, <2>2, <2>3, <3>2 DEF TypeOK
  <2>4. CASE ~Accepts(e)
    BY <2>1, <2>2, <2>4 DEF TypeOK
  <2> QED  BY <2>3, <2>4
<1>2. Owned'
  BY <1>e DEF Owned, TypeOK, Placed
<1>3. LeftoversFlagged'
  BY <1>e DEF LeftoversFlagged, Owned, TypeOK
<1>4. StreamFollowed'
  <2>1. SUFFICES ASSUME error' = "none" PROVE StreamFollowed'
    BY DEF StreamFollowed
  <2>2. Accepts(e) /\ error = "none" /\ stream' = Consumed(e)
    BY <2>1
  <2>3. e.kind \in {"thread", "turn", "error", "start", "complete", "end"}
    BY <2>2 DEF Accepts
  <2>4. did' = did \cup {e.kind} /\ phase' = "running"
    BY <2>2 DEF Emit
  <2>5. stream \in Streams /\ items \in [started : SUBSET Items, completed : SUBSET Items]
    BY DEF TypeOK
  <2>6. stream'.state = NextState(e.kind)
    BY <2>2 DEF Consumed
  <2>7. stream'.closed = items'.completed
    BY <2>2, <2>3, <2>5 DEF Consumed, Emit, StreamFollowed
  <2>8. ASSUME NEW i \in items'.started
        PROVE  i \in items'.completed \/ Opened(i)'
    <3>1. CASE e.kind = "start"
      BY <1>e, <2>2, <2>5, <2>8, <3>1 DEF Consumed, Emit, StreamFollowed, Opened
    <3>2. CASE e.kind = "complete"
      BY <1>e, <2>2, <2>5, <2>8, <3>2 DEF Consumed, Emit, StreamFollowed, Opened
    <3>3. CASE e.kind \notin {"start", "complete"}
      BY <2>2, <2>5, <2>8, <3>3 DEF Consumed, Emit, StreamFollowed, Opened
    <3> QED  BY <3>1, <3>2, <3>3
  <2>9. /\ did' \cap {"tool", "failed"} = {}
        /\ stream'.state # "failure_pending" => "error" \notin did'
        /\ stream'.state # "expect_thread" => "thread" \in did'
        /\ stream'.state \notin {"expect_thread", "expect_turn"} => "turn" \in did'
        /\ stream'.state = "terminal" => "end" \in did'
    BY <2>2, <2>3, <2>4, <2>5, <2>6 DEF Accepts, MayEnd, NextState, StreamFollowed, Streams
  <2>10. stream'.state = "terminal" => stream'.open = {}
    BY <2>2, <2>3, <2>5, <2>6 DEF Accepts, MayEnd, NextState, Consumed, StreamFollowed
  <2> QED  BY <2>4, <2>7, <2>8, <2>9, <2>10 DEF StreamFollowed
<1>5. Placed'
  BY <1>e DEF Placed, Waiting, Owned, TypeOK
<1> QED  BY <1>1, <1>2, <1>3, <1>4, <1>5

(* The group is terminated, or not yet. *)
LEMMA AttemptedStep ==
  ASSUME IInv, phase \in {"term", "kill"}, NEW success \in BOOLEAN, Attempted(success)
  PROVE  IInv'
<1> USE DEF IInv, Attempted
<1>1. TypeOK'
  BY DEF TypeOK, Owned, Placed, Flags
<1>2. Owned'
  BY DEF Owned, TypeOK, Placed
<1>3. LeftoversFlagged'
  BY DEF LeftoversFlagged, Owned, TypeOK
<1>4. StreamFollowed'
  BY DEF StreamFollowed, Owned, Opened, TypeOK, Placed
<1>5. Placed'
  BY DEF Placed, Waiting, Owned, TypeOK
<1> QED  BY <1>1, <1>2, <1>3, <1>4, <1>5

(* The group outlives its grace period. *)
LEMMA TerminateIgnoredStep ==
  ASSUME IInv, TerminateIgnored
  PROVE  IInv'
<1> USE DEF IInv, TerminateIgnored, child
<1>1. TypeOK'
  BY DEF TypeOK, Owned, Placed, Flags
<1>2. Owned'
  BY DEF Owned, TypeOK, Placed
<1>3. LeftoversFlagged'
  BY DEF LeftoversFlagged, Owned, TypeOK
<1>4. StreamFollowed'
  BY DEF StreamFollowed, Owned, Opened, TypeOK, Placed
<1>5. Placed'
  BY DEF Placed, Waiting, Owned, TypeOK
<1> QED  BY <1>1, <1>2, <1>3, <1>4, <1>5

(* The readers end, or are reported. *)
LEMMA DrainStep ==
  ASSUME IInv, NEW settled \in BOOLEAN, Drain(settled)
  PROVE  IInv'
<1> USE DEF IInv, Drain, Flagged
<1>1. TypeOK'
  BY DEF TypeOK, Owned, Placed, Flags
<1>2. Owned'
  BY DEF Owned, TypeOK, Placed
<1>3. LeftoversFlagged'
  BY DEF LeftoversFlagged, Owned, TypeOK
<1>4. StreamFollowed'
  BY DEF StreamFollowed, Owned, Opened, TypeOK, Placed
<1>5. Placed'
  BY DEF Placed, Waiting, Owned, TypeOK
<1> QED  BY <1>1, <1>2, <1>3, <1>4, <1>5

(* A cancellation waits for the cleanup. *)
LEMMA CancelCleanupStep ==
  ASSUME IInv, holder # None, phase \in {"term", "kill", "drain"},
         asked' = [asked EXCEPT ![holder] = TRUE],
         error' = IF error = "none" THEN "cancelled" ELSE error,
         UNCHANGED <<call, holder, queue, stage, phase, group, tries, killed, output, stream,
                     temp, flag, trusted, did, items, strays>>
  PROVE  IInv'
<1> USE DEF IInv, CancelHolder
<1>1. TypeOK'
  BY DEF TypeOK, Owned, Placed, Flags
<1>2. Owned'
  BY DEF Owned, TypeOK, Placed
<1>3. LeftoversFlagged'
  BY DEF LeftoversFlagged, Owned, TypeOK
<1>4. StreamFollowed'
  BY DEF StreamFollowed, Owned, Opened, TypeOK, Placed
<1>5. Placed'
  BY DEF Placed, Waiting, Owned, TypeOK
<1> QED  BY <1>1, <1>2, <1>3, <1>4, <1>5

---------------------------------------------------------------------------
(* The specification keeps the invariant.                                  *)

(* The initial states have the invariant. *)
LEMMA InitInv ==
  ASSUME Init
  PROVE  IInv
<1>1. NewStream \in Streams  BY DEF NewStream, Streams
<1>2. killed \in BOOLEAN /\ trusted \in BOOLEAN  BY ZenonT(20) DEF Init
<1>3. TypeOK
  BY <1>1, <1>2 DEF Init, TypeOK, Flags
<1>4. Owned /\ LeftoversFlagged
  BY DEF Init, Owned, LeftoversFlagged
<1>5. StreamFollowed
  BY DEF Init, StreamFollowed, NewStream
<1>6. Placed
  BY CallerAssumption DEF Init, Placed, Waiting
<1> QED  BY <1>3, <1>4, <1>5, <1>6 DEF IInv

(* Every step of the program keeps it. *)
LEMMA RunnerInv ==
  ASSUME IInv, RunnerStep
  PROVE  IInv'
<1>1. CASE Timeout
  BY <1>1, StopStep DEF Timeout
<1>2. CASE Terminate \/ Kill
  BY <1>2, AttemptedStep DEF Terminate, Kill
<1>3. ASSUME NEW ok \in BOOLEAN,
             SpawnFails(ok) \/ ProbeReady(ok) \/ PrepareFails(ok) \/ Answer(ok) \/ Raise(ok)
      PROVE  IInv'
  <2>1. PICK outcome \in {"ready", "result", "failed", "cancelled"} :
          phase \in {"spawn", "done"} /\ Finish(outcome, ok)
    BY <1>3 DEF SpawnFails, ProbeReady, PrepareFails, Answer, Raise
  <2> QED  BY <2>1, FinishStep
<1> QED  BY <1>1, <1>2, <1>3, BeginStep, BeginFailsStep, SpawnStep, TerminateIgnoredStep, DrainStep,
            VersionKnownStep, PrepareStep DEF RunnerStep

(* So does every step of the child and of the callers. *)
LEMMA OthersInv ==
  ASSUME IInv, ChildStep \/ CallerStep \/ Change
  PROVE  IInv'
<1>1. ASSUME NEW out \in {"good", "foreign", "bad"}, Complete(out)
      PROVE  IInv'
  <2> DEFINE e == IF stage = "exec" /\ stream.state # "terminal" THEN "failed" ELSE "none"
  <2>1. Stop(e, out) /\ e \in {"none", "failed", "cancelled"} /\ asked' = asked
    BY <1>1 DEF Complete
  <2>2. e = "none" /\ stage = "exec" => stream.state = "terminal"
    OBVIOUS
  <2> HIDE DEF e
  <2> QED  BY <2>1, <2>2, StopStep
<1>2. CASE ReadFails
  BY <1>2, StopStep DEF ReadFails
<1>3. CASE CancelHolder
  BY <1>3, StopStep, CancelCleanupStep DEF CancelHolder
<1> QED  BY <1>1, <1>2, <1>3, EventStep, CallStep, CallRefusedStep, BusyStep, CancelWaitingStep,
            ChangeStep DEF ChildStep, CallerStep

(* A stutter changes nothing the invariant is about. *)
LEMMA StutterInv ==
  ASSUME IInv, UNCHANGED vars
  PROVE  IInv'
<1> USE DEF vars, child, IInv
<1>1. TypeOK' /\ Owned' /\ LeftoversFlagged'
  BY DEF TypeOK, Owned, LeftoversFlagged
<1>2. StreamFollowed' /\ Placed'
  BY DEF StreamFollowed, Opened, Placed, Waiting
<1> QED  BY <1>1, <1>2

(* Every reachable state is one of the inductive invariant: a group, its   *)
(* directory and the lock belong together, what was left behind is         *)
(* reported, and the validator follows the stream                          *)
(* (CodexSubscriptionRunner._execute, _EventStreamValidator).              *)
THEOREM InvariantHolds == Spec => []IInv
<1>1. IInv /\ [Next]_vars => IInv'
  BY RunnerInv, OthersInv, StutterInv DEF Next
<1> QED  BY <1>1, InitInv, PTL DEF Spec

(* What the runner could not clean up is reported for good                 *)
(* (last_cleanup_failure).                                                 *)
THEOREM LeftoversReported == Spec => []LeftoversFlagged
<1>1. IInv => LeftoversFlagged  BY DEF IInv
<1> QED  BY <1>1, InvariantHolds, PTL

(* Once a cleanup has failed no child is started again                     *)
(* (_require_cleanup_health).                                              *)
THEOREM NoChildStarts == Spec => NoChildAfterFailure
<1>1. ASSUME IInv, [Next]_vars
      PROVE  [flag # "none" => (group = "none" => group' = "none")]_vars
  <2>1. SUFFICES ASSUME flag # "none", group = "none", Next PROVE group' = "none"
    BY <1>1
  <2>2. phase \notin {"running", "term", "kill", "drain", "spawn"}
    BY <1>1, <2>1 DEF IInv, Owned
  <2>3. CASE RunnerStep
    BY <2>1, <2>2, <2>3 DEF RunnerStep, Begin, MayBegin, Spawn, Timeout, Stop, Terminate, Attempted,
       TerminateIgnored, Kill, VersionKnown, Prepare, BeginFails, SpawnFails, Drain, ProbeReady,
       PrepareFails, Answer, Raise, Finish, NewChild, child
  <2>4. CASE ChildStep \/ CallerStep \/ Change
    BY <2>1, <2>2, <2>4 DEF ChildStep, Event, Complete, ReadFails, Stop, CallerStep, Call,
       CallRefused, Busy, CancelWaiting, CancelHolder, Change, child
  <2> QED  BY <2>1, <2>3, <2>4 DEF Next
<1> QED  BY <1>1, InvariantHolds, PTL DEF Spec, NoChildAfterFailure

(* A result is what a clean run of a trusted child returned to a call that *)
(* nobody cancelled (run_json).                                            *)
THEOREM OnlyCleanResults == Spec => ResultsAreClean
<1> DEFINE Clean(c) ==
      /\ {"thread", "turn", "end"} \subseteq did
      /\ did \cap {"tool", "failed", "error"} = {}
      /\ items.started \subseteq items.completed
      /\ output = "good" /\ trusted /\ ~asked[c]
      /\ strays' = {} /\ temp' = "none" /\ flag' = "none"
<1>1. ASSUME IInv, [Next]_vars
      PROVE  [\A c \in Askers : call[c] # "result" /\ call'[c] = "result" => Clean(c)]_vars
  <2>1. SUFFICES ASSUME NEW c \in Askers, call[c] # "result", call'[c] = "result", Next
                 PROVE  Clean(c)
    BY <1>1
  <2>2. c \in Callers /\ call \in [Callers -> {"idle", "calling", "ready", "result", "failed", "cancelled"}]
        /\ holder \in Callers \cup {None}
    BY <1>1 DEF IInv, TypeOK, Callers
  <2>3. PICK removed \in BOOLEAN : Answer(removed)
    <3>1. CASE RunnerStep
      BY <2>1, <2>2, <3>1 DEF RunnerStep, Begin, Spawn, Timeout, Stop, Terminate, Attempted,
         TerminateIgnored, Kill, VersionKnown, Prepare, BeginFails, SpawnFails, Drain, ProbeReady,
         PrepareFails, Raise, Finish
    <3>2. CASE ChildStep \/ CallerStep \/ Change
      BY <2>1, <2>2, <3>2 DEF ChildStep, Event, Complete, ReadFails, Stop, CallerStep, Call,
         CallRefused, Busy, CancelWaiting, CancelHolder, Change
    <3> QED  BY <2>1, <3>1, <3>2 DEF Next
  <2>4. phase = "done" /\ stage = "exec" /\ error = "none" /\ trusted
    BY <2>3 DEF Answer, Fits
  <2>5. c = holder /\ removed /\ output = "good"
    BY <2>1, <2>2, <2>3 DEF Answer, Finish
  <2>6. flag = "none" /\ strays = {} /\ ~asked[c]
    BY <1>1, <2>2, <2>4, <2>5, CallerAssumption DEF IInv, Owned, LeftoversFlagged, Placed
  <2>7. stream.state = "terminal" /\ stream.open = {}
    BY <1>1, <2>4 DEF IInv, StreamFollowed
  <2>8. {"thread", "turn", "end"} \subseteq did /\ did \cap {"tool", "failed", "error"} = {}
    BY <1>1, <2>4, <2>7 DEF IInv, StreamFollowed
  <2>9. items.started \subseteq items.completed
    BY <1>1, <2>4, <2>7 DEF IInv, StreamFollowed, Opened
  <2>10. strays' = {} /\ temp' = "none" /\ flag' = "none"
    BY <2>3, <2>5, <2>6 DEF Answer, Finish
  <2> QED  BY <2>4, <2>5, <2>6, <2>8, <2>9, <2>10
<1> QED  BY <1>1, InvariantHolds, PTL DEF Spec, ResultsAreClean

================================================================================
