-------------------------- MODULE DaemonMutationsProofs -------------------------
(***************************************************************************)
(* Theorems about DaemonMutations.tla, for every set of keys, streams,     *)
(* policies, requests and texts.                                           *)
(***************************************************************************)
EXTENDS DaemonMutations, TLAPS

---------------------------------------------------------------------------
(* Types.                                                                  *)

(* A change of an entry's state leaves a registry. *)
LEMMA SetStateType ==
  ASSUME registry \in [Streams -> Entries], NEW s,
         NEW state \in Terminals \cup {"none", "open", "committing"}, SetState(s, state)
  PROVE  registry' \in [Streams -> Entries]
  BY DEF SetState, Entries

(* The registry after a change of one entry's state. *)
LEMMA RegistryAfter ==
  ASSUME registry \in [Streams -> Entries], NEW s \in Streams,
         NEW state \in Terminals \cup {"none", "open", "committing"}, SetState(s, state)
  PROVE  /\ registry' \in [Streams -> Entries]
         /\ registry'[s].state = state
         /\ \A t \in Streams : t # s => registry'[t] = registry[t]
  BY SetStateType DEF SetState, Entries

(* An append leaves the flags of the store Boolean. *)
LEMMA AppendedType ==
  ASSUME anchored \in BOOLEAN, NEW h \in BOOLEAN, NEW o, Appended(h, o)
  PROVE  anchored' \in BOOLEAN /\ healthy' \in BOOLEAN
  BY DEF Appended

(* The history of a key stays within its bound when it was below. *)
LEMMA CountsType ==
  ASSUME effects \in [Keys -> 0..MaxEffects], raised \in SUBSET Keys,
         run.key \in Keys, NEW takes \in BOOLEAN, NEW raises,
         takes => effects[run.key] < MaxEffects, Counts(takes, raises)
  PROVE  effects' \in [Keys -> 0..MaxEffects] /\ raised' \in SUBSET Keys
  BY BoundAssumption DEF Counts

(* The history of every key after an effect of the request. *)
LEMMA CountsAfter ==
  ASSUME effects \in [Keys -> 0..MaxEffects], run.key \in Keys,
         NEW takes \in BOOLEAN, NEW raises \in BOOLEAN, Counts(takes, raises)
  PROVE  \A k \in Keys :
           /\ effects'[k] = IF takes /\ k = run.key THEN effects[k] + 1 ELSE effects[k]
           /\ (k \in raised') = (k \in raised \/ (raises /\ k = run.key))
  BY DEF Counts

(* What the invariant says of the request under the lock. *)
LEMMA RunFacts ==
  ASSUME TypeOK, Placed, pc # "idle"
  PROVE  /\ run \in Offered /\ run \in Requests /\ run.key \in Keys
         /\ run.op \in StreamOps => run.stream \in Streams
  BY OfferedAssumption DEF TypeOK, Placed, Requests

---------------------------------------------------------------------------
(* Every action keeps the invariant.                                       *)

(* Reserve keeps the invariant. *)
LEMMA ReserveStep ==
  ASSUME IInv, NEW r \in Offered, Reserve(r)
  PROVE  IInv'
<1> USE DEF tables, health, streamHistory, keyHistory, deciding, IInv, Reserve
<1>0. r \in Requests /\ r.key \in Keys /\ r # None
  BY OfferedAssumption DEF Requests
<1>1. TypeOK'
  BY <1>0 DEF MayReserve, TypeOK, Entries, Places, Terminals
<1>2. Placed'
  BY <1>0 DEF MayReserve, Placed, TypeOK
<1>3. Known'
  <2>1. ASSUME NEW t \in Streams PROVE KnownFor(t)'
    BY <1>0 DEF MayReserve, KnownFor, Known, Ending, Placed, TypeOK, Terminals
  <2>2. Ending'
    BY <1>0 DEF MayReserve, KnownFor, Known, Ending, Placed, StreamMemory, TypeOK, Terminals
  <2> QED  BY <2>1, <2>2 DEF Known
<1>4. StreamMemory'
  BY <1>0 DEF MayReserve, StreamMemory, Placed, Known, KnownFor, Ending, TypeOK, Terminals
<1>5. Counted'
  <2>1. SUFFICES ASSUME NEW q \in Offered PROVE CountedFor(q)'
    BY DEF Counted
  <2>2. q \in Requests /\ q.key \in Keys /\ CountedFor(q) /\ (q.op \in StreamOps => q.stream \in Streams)
    BY OfferedAssumption DEF Counted, Requests
  <2>3. run \in Offered => (run.key = q.key) = (run = q)  BY OfferedAssumption
  <2> QED  BY <1>0, <2>2, <2>3, OfferedAssumption DEF MayReserve, CountedFor, StreamOps, Placed, Known, KnownFor, Ending, TypeOK, Terminals
<1>6. EngineFollowsTable'
  BY <1>0 DEF MayReserve, Appended, EngineFollowsTable, TypeOK
<1> QED  BY <1>1, <1>2, <1>3, <1>4, <1>5, <1>6

(* Respond keeps the invariant. *)
LEMMA RespondStep ==
  ASSUME IInv, Respond
  PROVE  IInv'
<1> USE DEF tables, health, streamHistory, keyHistory, deciding, IInv, Respond
<1>0. run \in Offered /\ run.key \in Keys /\ (run.op \in StreamOps => run.stream \in Streams)
  BY RunFacts DEF Respond
<1>1. TypeOK'
  BY <1>0 DEF Places, TypeOK, Entries, Places, Terminals
<1>2. Placed'
  BY <1>0 DEF Places, Placed, TypeOK
<1>3. Known'
  <2>1. ASSUME NEW t \in Streams PROVE KnownFor(t)'
    BY <1>0 DEF Places, KnownFor, Known, Ending, Placed, TypeOK, Terminals
  <2>2. Ending'
    BY <1>0 DEF Places, KnownFor, Known, Ending, Placed, StreamMemory, TypeOK, Terminals
  <2> QED  BY <2>1, <2>2 DEF Known
<1>4. StreamMemory'
  BY <1>0 DEF Places, StreamMemory, Placed, Known, KnownFor, Ending, TypeOK, Terminals
<1>5. Counted'
  <2>1. SUFFICES ASSUME NEW q \in Offered PROVE CountedFor(q)'
    BY DEF Counted
  <2>2. q \in Requests /\ q.key \in Keys /\ CountedFor(q) /\ (q.op \in StreamOps => q.stream \in Streams)
    BY OfferedAssumption DEF Counted, Requests
  <2>3. run \in Offered => (run.key = q.key) = (run = q)  BY OfferedAssumption
  <2> QED  BY <1>0, <2>2, <2>3, OfferedAssumption DEF Places, CountedFor, StreamOps, Placed, Known, KnownFor, Ending, TypeOK, Terminals
<1>6. EngineFollowsTable'
  BY <1>0 DEF Places, Appended, EngineFollowsTable, TypeOK
<1> QED  BY <1>1, <1>2, <1>3, <1>4, <1>5, <1>6

(* Release keeps the invariant. *)
LEMMA ReleaseStep ==
  ASSUME IInv, Release
  PROVE  IInv'
<1> USE DEF tables, health, streamHistory, keyHistory, deciding, IInv, Release
<1>0. run \in Offered /\ run.key \in Keys /\ (run.op \in StreamOps => run.stream \in Streams)
  BY RunFacts DEF Release
<1>1. TypeOK'
  BY <1>0 DEF Places, TypeOK, Entries, Places, Terminals
<1>2. Placed'
  BY <1>0 DEF Places, Placed, TypeOK
<1>3. Known'
  <2>1. ASSUME NEW t \in Streams PROVE KnownFor(t)'
    BY <1>0 DEF Places, KnownFor, Known, Ending, Placed, TypeOK, Terminals
  <2>2. Ending'
    BY <1>0 DEF Places, KnownFor, Known, Ending, Placed, StreamMemory, TypeOK, Terminals
  <2> QED  BY <2>1, <2>2 DEF Known
<1>4. StreamMemory'
  BY <1>0 DEF Places, StreamMemory, Placed, Known, KnownFor, Ending, TypeOK, Terminals
<1>5. Counted'
  <2>1. SUFFICES ASSUME NEW q \in Offered PROVE CountedFor(q)'
    BY DEF Counted
  <2>2. q \in Requests /\ q.key \in Keys /\ CountedFor(q) /\ (q.op \in StreamOps => q.stream \in Streams)
    BY OfferedAssumption DEF Counted, Requests
  <2>3. run \in Offered => (run.key = q.key) = (run = q)  BY OfferedAssumption
  <2> QED  BY <1>0, <2>2, <2>3, OfferedAssumption DEF Places, CountedFor, StreamOps, Placed, Known, KnownFor, Ending, TypeOK, Terminals
<1>6. EngineFollowsTable'
  BY <1>0 DEF Places, Appended, EngineFollowsTable, TypeOK
<1> QED  BY <1>1, <1>2, <1>3, <1>4, <1>5, <1>6

(* BeginWrite keeps the invariant. *)
LEMMA BeginWriteStep ==
  ASSUME IInv, NEW s \in Streams, NEW o \in Outcomes, BeginWrite(s, o)
  PROVE  IInv'
<1> USE DEF tables, health, streamHistory, keyHistory, deciding, IInv, BeginWrite
<1>0. run \in Offered /\ run.key \in Keys /\ (run.op \in StreamOps => run.stream \in Streams)
  BY RunFacts DEF At
<1>a. anchored' \in BOOLEAN /\ healthy' \in BOOLEAN
  BY AppendedType DEF TypeOK
<1>o. o.done \in BOOLEAN /\ (o.end = "ok" => o.done)  BY DEF Outcomes
<1>r. /\ registry' \in [Streams -> Entries] /\ registry'[s].state = IF o.end = "ok" THEN "open" ELSE registry[s].state
      /\ \A t \in Streams : t # s => registry'[t] = registry[t]
  BY DEF TypeOK, Entries
<1>c. /\ effects' \in [Keys -> 0..MaxEffects] /\ raised' \in SUBSET Keys
      /\ \A k \in Keys :
          /\ effects'[k] = IF (o.done) /\ k = run.key THEN effects[k] + 1 ELSE effects[k]
          /\ (k \in raised') = (k \in raised \/ ((o.done /\ o.end # "ok") /\ k = run.key))
  BY <1>0, <1>o, CountsType, CountsAfter DEF TypeOK, Placed, At, Outcomes
<1>1. TypeOK'
  BY <1>0, <1>a, <1>o, <1>r, <1>c DEF At, Answer, TypeOK, Entries, Places, Terminals
<1>2. Placed'
  BY <1>0, <1>a, <1>o, <1>r, <1>c DEF At, Answer, Placed, TypeOK
<1>3. Known'
  <2>1. ASSUME NEW t \in Streams PROVE KnownFor(t)'
    BY <1>0, <1>a, <1>o, <1>r, <1>c DEF At, Answer, KnownFor, Known, Ending, Placed, TypeOK, Terminals
  <2>2. Ending'
    BY <1>0, <1>a, <1>o, <1>r, <1>c DEF At, Answer, KnownFor, Known, Ending, Placed, StreamMemory, TypeOK, Terminals
  <2> QED  BY <2>1, <2>2 DEF Known
<1>4. StreamMemory'
  BY <1>0, <1>a, <1>o, <1>r, <1>c DEF At, Answer, StreamMemory, Placed, Known, KnownFor, Ending, TypeOK, Terminals
<1>5. Counted'
  <2>1. SUFFICES ASSUME NEW q \in Offered PROVE CountedFor(q)'
    BY DEF Counted
  <2>2. q \in Requests /\ q.key \in Keys /\ CountedFor(q) /\ (q.op \in StreamOps => q.stream \in Streams)
    BY OfferedAssumption DEF Counted, Requests
  <2>3. run \in Offered => (run.key = q.key) = (run = q)  BY OfferedAssumption
  <2> QED  BY <1>0, <1>a, <1>o, <1>r, <1>c, <2>2, <2>3, OfferedAssumption DEF At, Answer, CountedFor, StreamOps, Placed, Known, KnownFor, Ending, TypeOK, Terminals
<1>6. EngineFollowsTable'
  BY <1>0, <1>a, <1>o, <1>r, <1>c DEF At, Answer, Appended, EngineFollowsTable, TypeOK
<1> QED  BY <1>1, <1>2, <1>3, <1>4, <1>5, <1>6

(* Refuse keeps the invariant. *)
LEMMA RefuseStep ==
  ASSUME IInv, Refuse
  PROVE  IInv'
<1> USE DEF tables, health, streamHistory, keyHistory, deciding, IInv, Refuse
<1>0. run \in Offered /\ run.key \in Keys /\ run.op \in StreamOps /\ run.stream \in Streams
  BY RunFacts DEF At
<1>1. TypeOK'
  BY <1>0 DEF At, Answer, TypeOK, Entries, Places, Terminals
<1>2. Placed'
  BY <1>0 DEF At, Answer, Placed, TypeOK
<1>3. Known'
  <2>1. ASSUME NEW t \in Streams PROVE KnownFor(t)'
    BY <1>0 DEF At, Answer, KnownFor, Known, Ending, Placed, TypeOK, Terminals
  <2>2. Ending'
    BY <1>0 DEF At, Answer, KnownFor, Known, Ending, Placed, StreamMemory, TypeOK, Terminals
  <2> QED  BY <2>1, <2>2 DEF Known
<1>4. StreamMemory'
  BY <1>0 DEF At, Answer, StreamMemory, Placed, Known, KnownFor, Ending, TypeOK, Terminals
<1>5. Counted'
  <2>1. SUFFICES ASSUME NEW q \in Offered PROVE CountedFor(q)'
    BY DEF Counted
  <2>2. q \in Requests /\ q.key \in Keys /\ CountedFor(q) /\ (q.op \in StreamOps => q.stream \in Streams)
    BY OfferedAssumption DEF Counted, Requests
  <2>3. run \in Offered => (run.key = q.key) = (run = q)  BY OfferedAssumption
  <2> QED  BY <1>0, <2>2, <2>3, OfferedAssumption DEF At, Answer, CountedFor, StreamOps, Placed, Known, KnownFor, Ending, TypeOK, Terminals
<1>6. EngineFollowsTable'
  BY <1>0 DEF At, Answer, Appended, EngineFollowsTable, TypeOK
<1> QED  BY <1>1, <1>2, <1>3, <1>4, <1>5, <1>6

(* AppendChunk keeps the invariant. *)
LEMMA AppendChunkStep ==
  ASSUME IInv, NEW risk \in BOOLEAN, AppendChunk(risk)
  PROVE  IInv'
<1> USE DEF tables, health, streamHistory, keyHistory, deciding, IInv, AppendChunk
<1>0. run \in Offered /\ run.key \in Keys /\ run.op \in StreamOps /\ run.stream \in Streams
  BY RunFacts DEF Open, At, StreamOps
<1>r. /\ registry' \in [Streams -> Entries]
      /\ registry'[run.stream].state = IF risk THEN "blocked" ELSE "open"
      /\ \A t \in Streams : t # run.stream => registry'[t] = registry[t]
  <2> DEFINE next == [state |-> IF risk THEN "blocked" ELSE "open",
                      chunks |-> registry[run.stream].chunks + 1]
  <2>1. registry[run.stream].chunks \in 0..MaxChunks /\ registry[run.stream].chunks < MaxChunks
    BY <1>0 DEF TypeOK, Open, Entries
  <2>2. next \in Entries  BY <2>1, BoundAssumption DEF Entries, Terminals
  <2>3. registry' = [registry EXCEPT ![run.stream] = next]  OBVIOUS
  <2> HIDE DEF next, AppendChunk
  <2>4. registry' \in [Streams -> Entries] /\ registry'[run.stream] = next
        /\ \A t \in Streams : t # run.stream => registry'[t] = registry[t]
    BY <1>0, <2>2, <2>3 DEF TypeOK
  <2> QED  BY <2>4 DEF next
<1>c. /\ effects' \in [Keys -> 0..MaxEffects] /\ raised' \in SUBSET Keys
      /\ \A k \in Keys :
          /\ effects'[k] = IF (TRUE) /\ k = run.key THEN effects[k] + 1 ELSE effects[k]
          /\ (k \in raised') = (k \in raised \/ ((FALSE) /\ k = run.key))
  BY <1>0, CountsType, CountsAfter DEF TypeOK, Placed, Open, At
<1>1. TypeOK'
  BY <1>0, <1>r, <1>c DEF Open, At, TypeOK, Entries, Places, Terminals
<1>2. Placed'
  BY <1>0, <1>r, <1>c DEF Open, At, Placed, TypeOK
<1>3. Known'
  <2>1. ASSUME NEW t \in Streams PROVE KnownFor(t)'
    BY <1>0, <1>r, <1>c DEF Open, At, KnownFor, Known, Ending, Placed, TypeOK, Terminals
  <2>2. Ending'
    BY <1>0, <1>r, <1>c DEF Open, At, KnownFor, Known, Ending, Placed, StreamMemory, TypeOK, Terminals
  <2> QED  BY <2>1, <2>2 DEF Known
<1>4. StreamMemory'
  BY <1>0, <1>r, <1>c DEF Open, At, StreamMemory, Placed, Known, KnownFor, Ending, TypeOK, Terminals
<1>5. Counted'
  <2>1. SUFFICES ASSUME NEW q \in Offered PROVE CountedFor(q)'
    BY DEF Counted
  <2>2. q \in Requests /\ q.key \in Keys /\ CountedFor(q) /\ (q.op \in StreamOps => q.stream \in Streams)
    BY OfferedAssumption DEF Counted, Requests
  <2>3. run \in Offered => (run.key = q.key) = (run = q)  BY OfferedAssumption
  <2> QED  BY <1>0, <1>r, <1>c, <2>2, <2>3, OfferedAssumption DEF Open, At, CountedFor, StreamOps, Placed, Known, KnownFor, Ending, TypeOK, Terminals
<1>6. EngineFollowsTable'
  BY <1>0, <1>r, <1>c DEF Open, At, Appended, EngineFollowsTable, TypeOK
<1> QED  BY <1>1, <1>2, <1>3, <1>4, <1>5, <1>6

(* ExceedLimit keeps the invariant. *)
LEMMA ExceedLimitStep ==
  ASSUME IInv, ExceedLimit
  PROVE  IInv'
<1> USE DEF tables, health, streamHistory, keyHistory, deciding, IInv, ExceedLimit
<1>0. run \in Offered /\ run.key \in Keys /\ run.op \in StreamOps /\ run.stream \in Streams
  BY RunFacts DEF Open, At, StreamOps
<1>r. /\ registry' \in [Streams -> Entries] /\ registry'[run.stream].state = ("aborted")
      /\ \A t \in Streams : t # run.stream => registry'[t] = registry[t]
  BY <1>0, RegistryAfter DEF TypeOK, Terminals
<1>c. /\ effects' \in [Keys -> 0..MaxEffects] /\ raised' \in SUBSET Keys
      /\ \A k \in Keys :
          /\ effects'[k] = IF (TRUE) /\ k = run.key THEN effects[k] + 1 ELSE effects[k]
          /\ (k \in raised') = (k \in raised \/ ((TRUE) /\ k = run.key))
  BY <1>0, CountsType, CountsAfter DEF TypeOK, Placed, Open, At
<1>1. TypeOK'
  BY <1>0, <1>r, <1>c DEF Open, At, TypeOK, Entries, Places, Terminals
<1>2. Placed'
  BY <1>0, <1>r, <1>c DEF Open, At, Placed, TypeOK
<1>3. Known'
  <2>1. ASSUME NEW t \in Streams PROVE KnownFor(t)'
    BY <1>0, <1>r, <1>c DEF Open, At, KnownFor, Known, Ending, Placed, TypeOK, Terminals
  <2>2. Ending'
    BY <1>0, <1>r, <1>c DEF Open, At, KnownFor, Known, Ending, Placed, StreamMemory, TypeOK, Terminals
  <2> QED  BY <2>1, <2>2 DEF Known
<1>4. StreamMemory'
  BY <1>0, <1>r, <1>c DEF Open, At, StreamMemory, Placed, Known, KnownFor, Ending, TypeOK, Terminals
<1>5. Counted'
  <2>1. SUFFICES ASSUME NEW q \in Offered PROVE CountedFor(q)'
    BY DEF Counted
  <2>2. q \in Requests /\ q.key \in Keys /\ CountedFor(q) /\ (q.op \in StreamOps => q.stream \in Streams)
    BY OfferedAssumption DEF Counted, Requests
  <2>3. run \in Offered => (run.key = q.key) = (run = q)  BY OfferedAssumption
  <2> QED  BY <1>0, <1>r, <1>c, <2>2, <2>3, OfferedAssumption DEF Open, At, CountedFor, StreamOps, Placed, Known, KnownFor, Ending, TypeOK, Terminals
<1>6. EngineFollowsTable'
  BY <1>0, <1>r, <1>c DEF Open, At, Appended, EngineFollowsTable, TypeOK
<1> QED  BY <1>1, <1>2, <1>3, <1>4, <1>5, <1>6

(* Abort keeps the invariant. *)
LEMMA AbortStep ==
  ASSUME IInv, Abort
  PROVE  IInv'
<1> USE DEF tables, health, streamHistory, keyHistory, deciding, IInv, Abort
<1>0. run \in Offered /\ run.key \in Keys /\ run.op \in StreamOps /\ run.stream \in Streams
  BY RunFacts DEF Open, At, StreamOps
<1>r. /\ registry' \in [Streams -> Entries] /\ registry'[run.stream].state = ("aborted")
      /\ \A t \in Streams : t # run.stream => registry'[t] = registry[t]
  BY <1>0, RegistryAfter DEF TypeOK, Terminals
<1>c. /\ effects' \in [Keys -> 0..MaxEffects] /\ raised' \in SUBSET Keys
      /\ \A k \in Keys :
          /\ effects'[k] = IF (TRUE) /\ k = run.key THEN effects[k] + 1 ELSE effects[k]
          /\ (k \in raised') = (k \in raised \/ ((FALSE) /\ k = run.key))
  BY <1>0, CountsType, CountsAfter DEF TypeOK, Placed, Open, At
<1>1. TypeOK'
  BY <1>0, <1>r, <1>c DEF Open, At, TypeOK, Entries, Places, Terminals
<1>2. Placed'
  BY <1>0, <1>r, <1>c DEF Open, At, Placed, TypeOK
<1>3. Known'
  <2>1. ASSUME NEW t \in Streams PROVE KnownFor(t)'
    BY <1>0, <1>r, <1>c DEF Open, At, KnownFor, Known, Ending, Placed, TypeOK, Terminals
  <2>2. Ending'
    BY <1>0, <1>r, <1>c DEF Open, At, KnownFor, Known, Ending, Placed, StreamMemory, TypeOK, Terminals
  <2> QED  BY <2>1, <2>2 DEF Known
<1>4. StreamMemory'
  BY <1>0, <1>r, <1>c DEF Open, At, StreamMemory, Placed, Known, KnownFor, Ending, TypeOK, Terminals
<1>5. Counted'
  <2>1. SUFFICES ASSUME NEW q \in Offered PROVE CountedFor(q)'
    BY DEF Counted
  <2>2. q \in Requests /\ q.key \in Keys /\ CountedFor(q) /\ (q.op \in StreamOps => q.stream \in Streams)
    BY OfferedAssumption DEF Counted, Requests
  <2>3. run \in Offered => (run.key = q.key) = (run = q)  BY OfferedAssumption
  <2> QED  BY <1>0, <1>r, <1>c, <2>2, <2>3, OfferedAssumption DEF Open, At, CountedFor, StreamOps, Placed, Known, KnownFor, Ending, TypeOK, Terminals
<1>6. EngineFollowsTable'
  BY <1>0, <1>r, <1>c DEF Open, At, Appended, EngineFollowsTable, TypeOK
<1> QED  BY <1>1, <1>2, <1>3, <1>4, <1>5, <1>6

(* Commit keeps the invariant. *)
LEMMA CommitStep ==
  ASSUME IInv, NEW risk \in BOOLEAN, Commit(risk)
  PROVE  IInv'
<1> USE DEF tables, health, streamHistory, keyHistory, deciding, IInv, Commit
<1>0. run \in Offered /\ run.key \in Keys /\ run.op \in StreamOps /\ run.stream \in Streams
  BY RunFacts DEF Open, At, StreamOps
<1>r. /\ registry' \in [Streams -> Entries] /\ registry'[run.stream].state = (IF risk THEN "blocked" ELSE "committing")
      /\ \A t \in Streams : t # run.stream => registry'[t] = registry[t]
  BY <1>0, RegistryAfter DEF TypeOK, Terminals
<1>c. /\ effects' \in [Keys -> 0..MaxEffects] /\ raised' \in SUBSET Keys
      /\ \A k \in Keys :
          /\ effects'[k] = IF (risk) /\ k = run.key THEN effects[k] + 1 ELSE effects[k]
          /\ (k \in raised') = (k \in raised \/ ((FALSE) /\ k = run.key))
  BY <1>0, CountsType, CountsAfter DEF TypeOK, Placed, Open, At
<1>1. TypeOK'
  BY <1>0, <1>r, <1>c DEF Open, At, TypeOK, Entries, Places, Terminals
<1>2. Placed'
  BY <1>0, <1>r, <1>c DEF Open, At, Placed, TypeOK
<1>3. Known'
  <2>1. ASSUME NEW t \in Streams PROVE KnownFor(t)'
    BY <1>0, <1>r, <1>c DEF Open, At, KnownFor, Known, Ending, Placed, TypeOK, Terminals
  <2>2. Ending'
    BY <1>0, <1>r, <1>c DEF Open, At, KnownFor, Known, Ending, Placed, StreamMemory, TypeOK, Terminals
  <2> QED  BY <2>1, <2>2 DEF Known
<1>4. StreamMemory'
  BY <1>0, <1>r, <1>c DEF Open, At, StreamMemory, Placed, Known, KnownFor, Ending, TypeOK, Terminals
<1>5. Counted'
  <2>1. SUFFICES ASSUME NEW q \in Offered PROVE CountedFor(q)'
    BY DEF Counted
  <2>2. q \in Requests /\ q.key \in Keys /\ CountedFor(q) /\ (q.op \in StreamOps => q.stream \in Streams)
    BY OfferedAssumption DEF Counted, Requests
  <2>3. run \in Offered => (run.key = q.key) = (run = q)  BY OfferedAssumption
  <2> QED  BY <1>0, <1>r, <1>c, <2>2, <2>3, OfferedAssumption DEF Open, At, CountedFor, StreamOps, Placed, Known, KnownFor, Ending, TypeOK, Terminals
<1>6. EngineFollowsTable'
  BY <1>0, <1>r, <1>c DEF Open, At, Appended, EngineFollowsTable, TypeOK
<1> QED  BY <1>1, <1>2, <1>3, <1>4, <1>5, <1>6

(* Capture keeps the invariant. *)
LEMMA CaptureStep ==
  ASSUME IInv, NEW o \in Outcomes, Capture(o)
  PROVE  IInv'
<1> USE DEF tables, health, streamHistory, keyHistory, deciding, IInv, Capture
<1>0. run \in Offered /\ run.key \in Keys /\ run.op \in StreamOps /\ run.stream \in Streams
  BY RunFacts DEF Placed
<1>a. anchored' \in BOOLEAN /\ healthy' \in BOOLEAN
  BY AppendedType DEF TypeOK
<1>r. o.end # "ok" =>
        /\ registry' \in [Streams -> Entries] /\ registry'[run.stream].state = ("aborted")
        /\ \A t \in Streams : t # run.stream => registry'[t] = registry[t]
  BY <1>0, RegistryAfter DEF GiveUp, TypeOK, Terminals
<1>1. TypeOK'
  BY <1>0, <1>a, <1>r DEF GiveUp, TypeOK, Entries, Places, Terminals
<1>2. Placed'
  BY <1>0, <1>a, <1>r DEF GiveUp, Placed, TypeOK
<1>3. Known'
  <2>1. ASSUME NEW t \in Streams PROVE KnownFor(t)'
    BY <1>0, <1>a, <1>r DEF GiveUp, KnownFor, Known, Ending, Placed, TypeOK, Terminals
  <2>2. Ending'
    BY <1>0, <1>a, <1>r DEF GiveUp, KnownFor, Known, Ending, Placed, StreamMemory, TypeOK, Terminals
  <2> QED  BY <2>1, <2>2 DEF Known
<1>4. StreamMemory'
  BY <1>0, <1>a, <1>r DEF GiveUp, StreamMemory, Placed, Known, KnownFor, Ending, TypeOK, Terminals
<1>5. Counted'
  <2>1. SUFFICES ASSUME NEW q \in Offered PROVE CountedFor(q)'
    BY DEF Counted
  <2>2. q \in Requests /\ q.key \in Keys /\ CountedFor(q) /\ (q.op \in StreamOps => q.stream \in Streams)
    BY OfferedAssumption DEF Counted, Requests
  <2>3. run \in Offered => (run.key = q.key) = (run = q)  BY OfferedAssumption
  <2> QED  BY <1>0, <1>a, <1>r, <2>2, <2>3, OfferedAssumption DEF GiveUp, CountedFor, StreamOps, Placed, Known, KnownFor, Ending, TypeOK, Terminals
<1>6. EngineFollowsTable'
  BY <1>0, <1>a, <1>r DEF GiveUp, Appended, EngineFollowsTable, TypeOK
<1> QED  BY <1>1, <1>2, <1>3, <1>4, <1>5, <1>6

(* Judge keeps the invariant. *)
LEMMA JudgeStep ==
  ASSUME IInv, Judge
  PROVE  IInv'
<1> USE DEF tables, health, streamHistory, keyHistory, deciding, IInv, Judge
<1>0. run \in Offered /\ run.key \in Keys /\ run.op \in StreamOps /\ run.stream \in Streams
  BY RunFacts DEF Placed
<1>r. pc' # "terminal" =>
        /\ registry' \in [Streams -> Entries] /\ registry'[run.stream].state = ("aborted")
        /\ \A t \in Streams : t # run.stream => registry'[t] = registry[t]
  BY <1>0, RegistryAfter DEF GiveUp, TypeOK, Terminals
<1>1. TypeOK'
  BY <1>0, <1>r DEF GiveUp, TypeOK, Entries, Places, Terminals
<1>2. Placed'
  BY <1>0, <1>r DEF GiveUp, Placed, TypeOK
<1>3. Known'
  <2>1. ASSUME NEW t \in Streams PROVE KnownFor(t)'
    BY <1>0, <1>r DEF GiveUp, KnownFor, Known, Ending, Placed, TypeOK, Terminals
  <2>2. Ending'
    BY <1>0, <1>r DEF GiveUp, KnownFor, Known, Ending, Placed, StreamMemory, TypeOK, Terminals
  <2> QED  BY <2>1, <2>2 DEF Known
<1>4. StreamMemory'
  BY <1>0, <1>r DEF GiveUp, StreamMemory, Placed, Known, KnownFor, Ending, TypeOK, Terminals
<1>5. Counted'
  <2>1. SUFFICES ASSUME NEW q \in Offered PROVE CountedFor(q)'
    BY DEF Counted
  <2>2. q \in Requests /\ q.key \in Keys /\ CountedFor(q) /\ (q.op \in StreamOps => q.stream \in Streams)
    BY OfferedAssumption DEF Counted, Requests
  <2>3. run \in Offered => (run.key = q.key) = (run = q)  BY OfferedAssumption
  <2> QED  BY <1>0, <1>r, <2>2, <2>3, OfferedAssumption DEF GiveUp, CountedFor, StreamOps, Placed, Known, KnownFor, Ending, TypeOK, Terminals
<1>6. EngineFollowsTable'
  BY <1>0, <1>r DEF GiveUp, Appended, EngineFollowsTable, TypeOK
<1> QED  BY <1>1, <1>2, <1>3, <1>4, <1>5, <1>6

(* CommitOutcomes keeps the invariant. *)
LEMMA CommitOutcomesStep ==
  ASSUME IInv, NEW o \in Outcomes, CommitOutcomes(o)
  PROVE  IInv'
<1> USE DEF tables, health, streamHistory, keyHistory, deciding, IInv, CommitOutcomes
<1>0. run \in Offered /\ run.key \in Keys /\ run.op \in StreamOps /\ run.stream \in Streams
  BY RunFacts DEF Placed
<1>a. anchored' \in BOOLEAN /\ healthy' \in BOOLEAN
  BY AppendedType DEF TypeOK
<1>o. o.done \in BOOLEAN /\ (o.end = "ok" => o.done) /\ o.end \in {"ok", "raised", "cancelled"}
  BY DEF Outcomes
<1>r. /\ registry' \in [Streams -> Entries]
      /\ registry'[run.stream].state = IF o.end # "ok" THEN "aborted" ELSE IF Accepted THEN "committed" ELSE "blocked"
      /\ \A t \in Streams : t # run.stream => registry'[t] = registry[t]
  <2> DEFINE state == IF o.end # "ok" THEN "aborted" ELSE IF Accepted THEN "committed" ELSE "blocked"
  <2>1. SetState(run.stream, state)  BY DEF GiveUp
  <2>2. state \in Terminals  BY DEF Terminals
  <2> HIDE DEF state, CommitOutcomes
  <2>3. /\ registry' \in [Streams -> Entries] /\ registry'[run.stream].state = state
        /\ \A t \in Streams : t # run.stream => registry'[t] = registry[t]
    BY <1>0, <2>1, <2>2, RegistryAfter DEF TypeOK
  <2> QED  BY <2>3 DEF state
<1>c. /\ effects' \in [Keys -> 0..MaxEffects] /\ raised' \in SUBSET Keys
      /\ \A k \in Keys :
          /\ effects'[k] = IF (o.done) /\ k = run.key THEN effects[k] + 1 ELSE effects[k]
          /\ (k \in raised') = (k \in raised \/ ((o.done /\ o.end # "ok") /\ k = run.key))
  BY <1>0, <1>o, CountsType, CountsAfter DEF TypeOK, Placed, Outcomes
<1>d. rows[run.stream] = "open" /\ ends[run.stream] = 0 /\ run.stream \notin late
  BY <1>0 DEF Placed, Known, KnownFor, StreamMemory, Terminals
<1>1. TypeOK'
  BY <1>0, <1>a, <1>o, <1>d, <1>r, <1>c DEF GiveUp, Appended, TypeOK, Entries, Places, Terminals
<1>2. Placed'
  BY <1>0, <1>a, <1>o, <1>d, <1>r, <1>c DEF GiveUp, Appended, Placed, TypeOK
<1>3. Known'
  <2>1. ASSUME NEW t \in Streams PROVE KnownFor(t)'
    BY <1>0, <1>a, <1>o, <1>d, <1>r, <1>c DEF GiveUp, Appended, KnownFor, Known, Ending, Placed, TypeOK, Terminals
  <2>2. Ending'
    <3>1. SUFFICES ASSUME pc' \in {"record", "undo"}
                   PROVE  /\ rows'[run.stream] = "open" \/ run.stream \in late'
                          /\ ends'[run.stream] <= 1
                          /\ registry'[run.stream].state = "aborted"
      BY DEF Ending
    <3>2. o.end # "ok" /\ healthy' /\ registry'[run.stream].state = "aborted"
      BY <3>1, <1>r DEF GiveUp
    <3>3. o.done => o.end = "cancelled"  BY <3>2, <1>o DEF Appended
    <3>4. rows'[run.stream] = "open" \/ run.stream \in late'  BY <3>3, <1>d, <1>o
    <3>5. ends'[run.stream] <= 1  BY <1>0, <1>d, <1>o DEF TypeOK
    <3> QED  BY <3>2, <3>4, <3>5
  <2> QED  BY <2>1, <2>2 DEF Known
<1>4. StreamMemory'
  BY <1>0, <1>a, <1>o, <1>d, <1>r, <1>c DEF GiveUp, Appended, StreamMemory, Placed, Known, KnownFor, Ending, TypeOK, Terminals
<1>5. Counted'
  <2>1. SUFFICES ASSUME NEW q \in Offered PROVE CountedFor(q)'
    BY DEF Counted
  <2>2. q \in Requests /\ q.key \in Keys /\ CountedFor(q) /\ (q.op \in StreamOps => q.stream \in Streams)
    BY OfferedAssumption DEF Counted, Requests
  <2>3. run \in Offered => (run.key = q.key) = (run = q)  BY OfferedAssumption
  <2> QED  BY <1>0, <1>a, <1>o, <1>d, <1>r, <1>c, <2>2, <2>3, OfferedAssumption DEF GiveUp, Appended, CountedFor, StreamOps, Placed, Known, KnownFor, Ending, TypeOK, Terminals
<1>6. EngineFollowsTable'
  BY <1>0, <1>a, <1>o, <1>d, <1>r, <1>c DEF GiveUp, Appended, Appended, EngineFollowsTable, TypeOK
<1> QED  BY <1>1, <1>2, <1>3, <1>4, <1>5, <1>6

(* RecordAbort keeps the invariant. *)
LEMMA RecordAbortStep ==
  ASSUME IInv, NEW o \in Outcomes, RecordAbort(o)
  PROVE  IInv'
<1> USE DEF tables, health, streamHistory, keyHistory, deciding, IInv, RecordAbort
<1>0. run \in Offered /\ run.key \in Keys /\ run.op \in StreamOps /\ run.stream \in Streams
  BY RunFacts DEF Placed
<1>a. anchored' \in BOOLEAN /\ healthy' \in BOOLEAN
  BY AppendedType DEF TypeOK
<1>o. o.done \in BOOLEAN /\ (o.end = "ok" => o.done)  BY DEF Outcomes
<1>c. /\ effects' \in [Keys -> 0..MaxEffects] /\ raised' \in SUBSET Keys
      /\ \A k \in Keys :
          /\ effects'[k] = IF (FALSE) /\ k = run.key THEN effects[k] + 1 ELSE effects[k]
          /\ (k \in raised') = (k \in raised \/ ((pc = "record" /\ o.end # "ok") /\ k = run.key))
  BY <1>0, <1>o, CountsType, CountsAfter DEF TypeOK, Placed, Outcomes
<1>1. TypeOK'
  BY <1>0, <1>a, <1>o, <1>c DEF Answer, TypeOK, Entries, Places, Terminals, Known, Ending
<1>2. Placed'
  BY <1>0, <1>a, <1>o, <1>c DEF Answer, Placed, TypeOK
<1>3. Known'
  <2>1. ASSUME NEW t \in Streams PROVE KnownFor(t)'
    BY <1>0, <1>a, <1>o, <1>c DEF Answer, KnownFor, Known, Ending, Placed, TypeOK, Terminals
  <2>2. Ending'
    BY <1>0, <1>a, <1>o, <1>c DEF Answer, KnownFor, Known, Ending, Placed, StreamMemory, TypeOK, Terminals
  <2> QED  BY <2>1, <2>2 DEF Known
<1>4. StreamMemory'
  BY <1>0, <1>a, <1>o, <1>c DEF Answer, StreamMemory, Placed, Known, KnownFor, Ending, TypeOK, Terminals
<1>5. Counted'
  <2>1. SUFFICES ASSUME NEW q \in Offered PROVE CountedFor(q)'
    BY DEF Counted
  <2>2. q \in Requests /\ q.key \in Keys /\ CountedFor(q) /\ (q.op \in StreamOps => q.stream \in Streams)
    BY OfferedAssumption DEF Counted, Requests
  <2>3. run \in Offered => (run.key = q.key) = (run = q)  BY OfferedAssumption
  <2> QED  BY <1>0, <1>a, <1>o, <1>c, <2>2, <2>3, OfferedAssumption DEF Answer, CountedFor, StreamOps, Placed, Known, KnownFor, Ending, TypeOK, Terminals
<1>6. EngineFollowsTable'
  BY <1>0, <1>a, <1>o, <1>c DEF Answer, Appended, EngineFollowsTable, TypeOK
<1> QED  BY <1>1, <1>2, <1>3, <1>4, <1>5, <1>6

(* Activate keeps the invariant. *)
LEMMA ActivateStep ==
  ASSUME IInv, NEW o \in Outcomes, Activate(o)
  PROVE  IInv'
<1> USE DEF tables, health, streamHistory, keyHistory, deciding, IInv, Activate
<1>0. run \in Offered /\ run.key \in Keys /\ (run.op \in StreamOps => run.stream \in Streams)
  BY RunFacts DEF At
<1>a. anchored' \in BOOLEAN /\ healthy' \in BOOLEAN
  BY AppendedType DEF TypeOK
<1>o. o.done \in BOOLEAN /\ (o.end = "ok" => o.done)  BY DEF Outcomes
<1>b. PICK good \in BOOLEAN : (good => o.end = "ok") /\ Answer(good) /\ Counts(o.done, o.done /\ ~good)
  OBVIOUS
<1>c. /\ effects' \in [Keys -> 0..MaxEffects] /\ raised' \in SUBSET Keys
      /\ \A k \in Keys :
          /\ effects'[k] = IF (o.done) /\ k = run.key THEN effects[k] + 1 ELSE effects[k]
          /\ (k \in raised') = (k \in raised \/ ((o.done /\ ~good) /\ k = run.key))
  BY <1>0, <1>b, <1>o, CountsType, CountsAfter DEF TypeOK, Placed, At, Outcomes
<1>1. TypeOK'
  BY <1>0, <1>a, <1>o, <1>b, <1>c DEF At, Answer, Replaced, TypeOK, Entries, Places, Terminals
<1>2. Placed'
  BY <1>0, <1>a, <1>o, <1>b, <1>c DEF At, Answer, Replaced, Placed, TypeOK
<1>3. Known'
  <2>1. ASSUME NEW t \in Streams PROVE KnownFor(t)'
    BY <1>0, <1>a, <1>o, <1>b, <1>c DEF At, Answer, Replaced, KnownFor, Known, Ending, Placed, TypeOK, Terminals
  <2>2. Ending'
    BY <1>0, <1>a, <1>o, <1>b, <1>c DEF At, Answer, Replaced, KnownFor, Known, Ending, Placed, StreamMemory, TypeOK, Terminals
  <2> QED  BY <2>1, <2>2 DEF Known
<1>4. StreamMemory'
  BY <1>0, <1>a, <1>o, <1>b, <1>c DEF At, Answer, Replaced, StreamMemory, Placed, Known, KnownFor, Ending, TypeOK, Terminals
<1>5. Counted'
  <2>1. SUFFICES ASSUME NEW q \in Offered PROVE CountedFor(q)'
    BY DEF Counted
  <2>2. q \in Requests /\ q.key \in Keys /\ CountedFor(q) /\ (q.op \in StreamOps => q.stream \in Streams)
    BY OfferedAssumption DEF Counted, Requests
  <2>3. run \in Offered => (run.key = q.key) = (run = q)  BY OfferedAssumption
  <2> QED  BY <1>0, <1>a, <1>o, <1>b, <1>c, <2>2, <2>3, OfferedAssumption DEF At, Answer, Replaced, CountedFor, StreamOps, Placed, Known, KnownFor, Ending, TypeOK, Terminals
<1>6. EngineFollowsTable'
  BY <1>0, <1>a, <1>o, <1>b, <1>c DEF At, Answer, Replaced, Appended, EngineFollowsTable, TypeOK
<1> QED  BY <1>1, <1>2, <1>3, <1>4, <1>5, <1>6

(* Unverified keeps the invariant. *)
LEMMA UnverifiedStep ==
  ASSUME IInv, Unverified
  PROVE  IInv'
<1> USE DEF tables, health, streamHistory, keyHistory, deciding, IInv, Unverified
<1>0. run \in Offered /\ run.key \in Keys /\ (run.op \in StreamOps => run.stream \in Streams)
  BY RunFacts DEF At
<1>1. TypeOK'
  BY <1>0 DEF At, Answer, TypeOK, Entries, Places, Terminals
<1>2. Placed'
  BY <1>0 DEF At, Answer, Placed, TypeOK
<1>3. Known'
  <2>1. ASSUME NEW t \in Streams PROVE KnownFor(t)'
    BY <1>0 DEF At, Answer, KnownFor, Known, Ending, Placed, TypeOK, Terminals
  <2>2. Ending'
    BY <1>0 DEF At, Answer, KnownFor, Known, Ending, Placed, StreamMemory, TypeOK, Terminals
  <2> QED  BY <2>1, <2>2 DEF Known
<1>4. StreamMemory'
  BY <1>0 DEF At, Answer, StreamMemory, Placed, Known, KnownFor, Ending, TypeOK, Terminals
<1>5. Counted'
  <2>1. SUFFICES ASSUME NEW q \in Offered PROVE CountedFor(q)'
    BY DEF Counted
  <2>2. q \in Requests /\ q.key \in Keys /\ CountedFor(q) /\ (q.op \in StreamOps => q.stream \in Streams)
    BY OfferedAssumption DEF Counted, Requests
  <2>3. run \in Offered => (run.key = q.key) = (run = q)  BY OfferedAssumption
  <2> QED  BY <1>0, <2>2, <2>3, OfferedAssumption DEF At, Answer, CountedFor, StreamOps, Placed, Known, KnownFor, Ending, TypeOK, Terminals
<1>6. EngineFollowsTable'
  BY <1>0 DEF At, Answer, Appended, EngineFollowsTable, TypeOK
<1> QED  BY <1>1, <1>2, <1>3, <1>4, <1>5, <1>6

(* RejectPolicy keeps the invariant. *)
LEMMA RejectPolicyStep ==
  ASSUME IInv, NEW o \in Outcomes, RejectPolicy(o)
  PROVE  IInv'
<1> USE DEF tables, health, streamHistory, keyHistory, deciding, IInv, RejectPolicy
<1>0. run \in Offered /\ run.key \in Keys /\ (run.op \in StreamOps => run.stream \in Streams)
  BY RunFacts DEF At
<1>a. anchored' \in BOOLEAN /\ healthy' \in BOOLEAN
  BY AppendedType DEF TypeOK
<1>1. TypeOK'
  BY <1>0, <1>a DEF At, Answer, Outcomes, TypeOK, Entries, Places, Terminals
<1>2. Placed'
  BY <1>0, <1>a DEF At, Answer, Outcomes, Placed, TypeOK
<1>3. Known'
  <2>1. ASSUME NEW t \in Streams PROVE KnownFor(t)'
    BY <1>0, <1>a DEF At, Answer, Outcomes, KnownFor, Known, Ending, Placed, TypeOK, Terminals
  <2>2. Ending'
    BY <1>0, <1>a DEF At, Answer, Outcomes, KnownFor, Known, Ending, Placed, StreamMemory, TypeOK, Terminals
  <2> QED  BY <2>1, <2>2 DEF Known
<1>4. StreamMemory'
  BY <1>0, <1>a DEF At, Answer, Outcomes, StreamMemory, Placed, Known, KnownFor, Ending, TypeOK, Terminals
<1>5. Counted'
  <2>1. SUFFICES ASSUME NEW q \in Offered PROVE CountedFor(q)'
    BY DEF Counted
  <2>2. q \in Requests /\ q.key \in Keys /\ CountedFor(q) /\ (q.op \in StreamOps => q.stream \in Streams)
    BY OfferedAssumption DEF Counted, Requests
  <2>3. run \in Offered => (run.key = q.key) = (run = q)  BY OfferedAssumption
  <2> QED  BY <1>0, <1>a, <2>2, <2>3, OfferedAssumption DEF At, Answer, Outcomes, CountedFor, StreamOps, Placed, Known, KnownFor, Ending, TypeOK, Terminals
<1>6. EngineFollowsTable'
  BY <1>0, <1>a DEF At, Answer, Outcomes, Appended, EngineFollowsTable, TypeOK
<1> QED  BY <1>1, <1>2, <1>3, <1>4, <1>5, <1>6

(* Verify keeps the invariant. *)
LEMMA VerifyStep ==
  ASSUME IInv, Verify
  PROVE  IInv'
<1> USE DEF tables, health, streamHistory, keyHistory, deciding, IInv, Verify
<1>1. TypeOK'
  BY DEF Placed, TypeOK, Entries, Places, Terminals
<1>2. Placed'
  BY DEF Placed, Placed, TypeOK
<1>3. Known'
  <2>1. ASSUME NEW t \in Streams PROVE KnownFor(t)'
    BY DEF Placed, KnownFor, Known, Ending, Placed, TypeOK, Terminals
  <2>2. Ending'
    BY DEF Placed, KnownFor, Known, Ending, Placed, StreamMemory, TypeOK, Terminals
  <2> QED  BY <2>1, <2>2 DEF Known
<1>4. StreamMemory'
  BY DEF Placed, StreamMemory, Placed, Known, KnownFor, Ending, TypeOK, Terminals
<1>5. Counted'
  <2>1. SUFFICES ASSUME NEW q \in Offered PROVE CountedFor(q)'
    BY DEF Counted
  <2>2. q \in Requests /\ q.key \in Keys /\ CountedFor(q) /\ (q.op \in StreamOps => q.stream \in Streams)
    BY OfferedAssumption DEF Counted, Requests
  <2>3. run \in Offered => (run.key = q.key) = (run = q)  BY OfferedAssumption
  <2> QED  BY <2>2, <2>3, OfferedAssumption DEF Placed, CountedFor, StreamOps, Placed, Known, KnownFor, Ending, TypeOK, Terminals
<1>6. EngineFollowsTable'
  BY DEF Placed, Appended, EngineFollowsTable, TypeOK
<1> QED  BY <1>1, <1>2, <1>3, <1>4, <1>5, <1>6

(* AppendElsewhere keeps the invariant. *)
LEMMA AppendElsewhereStep ==
  ASSUME IInv, AppendElsewhere
  PROVE  IInv'
<1> USE DEF tables, health, streamHistory, keyHistory, deciding, IInv, AppendElsewhere
<1>1. TypeOK'
  BY DEF Placed, TypeOK, Entries, Places, Terminals
<1>2. Placed'
  BY DEF Placed, Placed, TypeOK
<1>3. Known'
  <2>1. ASSUME NEW t \in Streams PROVE KnownFor(t)'
    BY DEF Placed, KnownFor, Known, Ending, Placed, TypeOK, Terminals
  <2>2. Ending'
    BY DEF Placed, KnownFor, Known, Ending, Placed, StreamMemory, TypeOK, Terminals
  <2> QED  BY <2>1, <2>2 DEF Known
<1>4. StreamMemory'
  BY DEF Placed, StreamMemory, Placed, Known, KnownFor, Ending, TypeOK, Terminals
<1>5. Counted'
  <2>1. SUFFICES ASSUME NEW q \in Offered PROVE CountedFor(q)'
    BY DEF Counted
  <2>2. q \in Requests /\ q.key \in Keys /\ CountedFor(q) /\ (q.op \in StreamOps => q.stream \in Streams)
    BY OfferedAssumption DEF Counted, Requests
  <2>3. run \in Offered => (run.key = q.key) = (run = q)  BY OfferedAssumption
  <2> QED  BY <2>2, <2>3, OfferedAssumption DEF Placed, CountedFor, StreamOps, Placed, Known, KnownFor, Ending, TypeOK, Terminals
<1>6. EngineFollowsTable'
  BY DEF Placed, Appended, EngineFollowsTable, TypeOK
<1> QED  BY <1>1, <1>2, <1>3, <1>4, <1>5, <1>6

(* Restart keeps the invariant. *)
LEMMA RestartStep ==
  ASSUME IInv, Restart
  PROVE  IInv'
<1> USE DEF tables, health, streamHistory, keyHistory, deciding, IInv, Restart
<1>r. registry' \in [Streams -> Entries] /\ (\A t \in Streams : registry'[t].state = "none")
  BY BoundAssumption DEF NoStream, Entries
<1>1. TypeOK'
  BY <1>r DEF Placed, TypeOK, Entries, Places, Terminals
<1>2. Placed'
  BY <1>r DEF Placed, Placed, TypeOK
<1>3. Known'
  <2>1. ASSUME NEW t \in Streams PROVE KnownFor(t)'
    BY <1>r DEF Placed, KnownFor, Known, Ending, Placed, TypeOK, Terminals
  <2>2. Ending'
    BY <1>r DEF Placed, KnownFor, Known, Ending, Placed, StreamMemory, TypeOK, Terminals
  <2> QED  BY <2>1, <2>2 DEF Known
<1>4. StreamMemory'
  BY <1>r DEF Placed, StreamMemory, Placed, Known, KnownFor, Ending, TypeOK, Terminals
<1>5. Counted'
  <2>1. SUFFICES ASSUME NEW q \in Offered PROVE CountedFor(q)'
    BY DEF Counted
  <2>2. q \in Requests /\ q.key \in Keys /\ CountedFor(q) /\ (q.op \in StreamOps => q.stream \in Streams)
    BY OfferedAssumption DEF Counted, Requests
  <2>3. run \in Offered => (run.key = q.key) = (run = q)  BY OfferedAssumption
  <2> QED  BY <1>r, <2>2, <2>3, OfferedAssumption DEF Placed, CountedFor, StreamOps, Placed, Known, KnownFor, Ending, TypeOK, Terminals
<1>6. EngineFollowsTable'
  BY <1>r DEF Placed, Appended, EngineFollowsTable, TypeOK
<1> QED  BY <1>1, <1>2, <1>3, <1>4, <1>5, <1>6

---------------------------------------------------------------------------
(* The specification keeps the invariant.                                  *)

(* The initial states have the invariant. *)
LEMMA InitInv ==
  ASSUME Init
  PROVE  IInv
<1> USE DEF Init
<1>1. TypeOK
  <2>1. 0 \in 0..MaxChunks /\ 0 \in 0..MaxEffects /\ 0 \in 0..2
    BY BoundAssumption
  <2>2. NoStream \in Entries
    BY <2>1 DEF NoStream, Entries
  <2>3. registry \in [Streams -> Entries]
    BY <2>2
  <2> QED  BY <2>1, <2>3, PolicyAssumption DEF TypeOK, Places
<1>2. Placed /\ Known /\ StreamMemory /\ EngineFollowsTable
  BY DEF Placed, Known, KnownFor, Ending, StreamMemory, EngineFollowsTable, NoStream, Terminals
<1>3. Counted
  BY OfferedAssumption DEF Counted, CountedFor, Requests
<1> QED  BY <1>1, <1>2, <1>3 DEF IInv

(* Every step has it after it when it has it before. *)
LEMMA NextInv ==
  ASSUME IInv, [Next]_vars
  PROVE  IInv'
<1>1. CASE Next
  BY <1>1, ReserveStep, RespondStep, ReleaseStep, BeginWriteStep, RefuseStep, AppendChunkStep,
     ExceedLimitStep, AbortStep, CommitStep, CaptureStep, JudgeStep, CommitOutcomesStep,
     RecordAbortStep, ActivateStep, UnverifiedStep, RejectPolicyStep, VerifyStep,
     AppendElsewhereStep, RestartStep DEF Next
<1>2. CASE UNCHANGED vars
  BY <1>2 DEF vars, tables, health, streamHistory, keyHistory, deciding, IInv, TypeOK, Placed, Known,
              KnownFor, Ending, StreamMemory, Counted, CountedFor, EngineFollowsTable
<1> QED  BY <1>1, <1>2

(* Every reachable state is one of the inductive invariant: the lock, the  *)
(* registry of streams, the tables and the running engine fit together     *)
(* (IdempotencyStore.run, StreamingMemoryService, activate_policy).        *)
THEOREM InvariantHolds == Spec => []IInv
  BY InitInv, NextInv, PTL DEF Spec

(* No stream is half in memory, in memory under an aborted row or ended    *)
(* twice, but for a commit cancelled after its batch                       *)
(* (StreamingMemoryService.commit, _record_abort).                         *)
THEOREM StreamsWhole == Spec => []StreamMemory
<1>1. IInv => StreamMemory  BY DEF IInv
<1> QED  BY <1>1, InvariantHolds, PTL

(* A request has its effect at most once, but for what raised after it     *)
(* (IdempotencyStore.run, _release_failed_reservation).                    *)
THEOREM EffectsOnce == Spec => []EffectOnce
<1>1. ASSUME IInv PROVE EffectOnce
  <2>1. SUFFICES ASSUME NEW r \in Offered
                 PROVE  effects[r.key] <= 1 \/ (r.key \in raised /\ r.op \in {"begin", "activate"})
    BY DEF EffectOnce
  <2>2. CountedFor(r)  BY <1>1 DEF IInv, Counted
  <2>3. r.op \in StreamOps \cup {"begin", "activate"}  BY OfferedAssumption DEF Requests
  <2> QED  BY <2>2, <2>3 DEF CountedFor
<1> QED  BY <1>1, InvariantHolds, PTL

(* The engine decides by the active policy, but for a torn activation and  *)
(* a fallback policy of a daemon that started without a valid one          *)
(* (activate_policy, build_runtime).                                       *)
THEOREM EngineFollows == Spec => []EngineFollowsTable
<1>1. IInv => EngineFollowsTable  BY DEF IInv
<1> QED  BY <1>1, InvariantHolds, PTL

---------------------------------------------------------------------------
(* What the policy engine keeps.                                           *)

(* An enforced policy keeps no high-risk candidate of which a detector or  *)
(* the assessment failed.                                                  *)
LEMMA FailureKeepsNothing ==
  ASSUME NEW p, ConformingPolicy(p), p.mode = "enforce", NEW c, NEW findings, NEW semantic,
         HighRisk(c), Actual(p, c, findings, semantic) \in Kept
  PROVE  ~Failed(findings, semantic)
<1>1. SUFFICES ASSUME Failed(findings, semantic) PROVE FALSE
  OBVIOUS
<1>2. Actual(p, c, findings, semantic) \in {"block", FailureAction(p, c, findings, semantic)}
  BY <1>1 DEF Actual, WouldHave
<1>3. FailureAction(p, c, findings, semantic) \in {"quarantine", "block"}
  BY DEF FailureAction, ConformingPolicy, Failures
<1> QED  BY <1>2, <1>3 DEF Kept

(* A rule that asks for a review is not the one an enforced policy keeps   *)
(* a candidate by: another one comes before it.                            *)
LEMMA ReviewComesFirst ==
  ASSUME NEW p, ConformingPolicy(p), p.mode = "enforce", NEW c, NEW findings, NEW semantic,
         Actual(p, c, findings, semantic) \in Kept, ~Failed(findings, semantic),
         NEW r \in p.rules, r.review, Matching(r.match, c, findings, semantic)
  PROVE  \E q \in p.rules : Before(q, r) /\ Matching(q.match, c, findings, semantic)
<1>1. SUFFICES ASSUME \A q \in p.rules :
                        Matching(q.match, c, findings, semantic) => ~Before(q, r)
               PROVE  FALSE
  OBVIOUS
<1>2. \A q \in p.rules : q \in Rules /\ q.priority \in Nat /\ q.id \in Nat
  BY DEF ConformingPolicy, Rules
<1>3. \A q \in p.rules : q # r => q.id # r.id
  BY DEF ConformingPolicy
<1>4. \A q \in p.rules : q # r => Before(q, r) \/ Before(r, q)
  BY <1>2, <1>3 DEF Before
<1>5. \A q \in p.rules : Before(q, r) => ~Before(r, q)
  BY <1>2 DEF Before
<1>6. Winning(p, c, findings, semantic) = {r}
  BY <1>1, <1>4, <1>5 DEF Winning
<1>7. Actual(p, c, findings, semantic) \in {"block", RuleAction(r)}
  BY <1>6 DEF Actual, WouldHave
<1> QED  BY <1>7 DEF RuleAction, Kept

(* What an enforced policy keeps, the reference lets be kept, for every    *)
(* policy, every set of detectors and every way they and the provider end. *)
LEMMA EngineKeeps ==
  ASSUME NEW p, ConformingPolicy(p), p.mode = "enforce", NEW c \in Candidates,
         NEW raws \in Seq(Raws), NEW reply \in Replies, Decided(p, c, raws, reply) \in Kept
  PROVE  MayKeep(p, c, raws, reply)
<1> DEFINE findings == Findings(raws)
           semantic == Assessed(c, findings, reply)
<1>1. Actual(p, c, findings, semantic) \in Kept
  BY DEF Decided
<1>2. DOMAIN findings = DOMAIN raws /\ \A d \in DOMAIN raws : findings[d] = Finding(raws[d])
  BY DEF Findings
<1>3. ~Guarded(p, c, findings)
  BY <1>1 DEF Actual, WouldHave, Kept
<1>4. ASSUME NEW d \in DOMAIN raws, raws[d].end = "ok"
      PROVE  raws[d].categories \cap {"structural_invalidity", "credential_material"} = {}
  <2>1. findings[d].status = "ok" /\ findings[d].categories = raws[d].categories
    BY <1>2, <1>4 DEF Finding
  <2>2. raws[d].categories \subseteq Found(findings)
    BY <1>2, <2>1 DEF Found, Positive
  <2> QED  BY <1>3, <2>2 DEF Guarded
<1>5. ASSUME HighRisk(c)
      PROVE  /\ \A d \in DOMAIN raws : raws[d].end = "ok"
             /\ c.kind = "instruction" \/ c.source = "tool" => reply.end = "ok"
  <2>1. ~Failed(findings, semantic)
    BY <1>1, <1>5, FailureKeepsNothing
  <2>2. \A d \in DOMAIN raws : raws[d].end = "ok"
    BY <1>2, <2>1 DEF Failed, DetectorFailed, Finding
  <2>3. ASSUME c.kind = "instruction" \/ c.source = "tool"
        PROVE  reply.end = "ok"
    BY <2>1, <2>3 DEF Failed, Assessed, RequiresSemantic, Assessment
  <2> QED  BY <2>2, <2>3
<1>6. ASSUME ~Failed(findings, semantic), NEW r \in p.rules, r.review,
             Matching(r.match, c, findings, semantic)
      PROVE  \E q \in p.rules : Before(q, r) /\ Matching(q.match, c, findings, semantic)
  <2> HIDE DEF findings, semantic
  <2> QED  BY <1>1, <1>6, ReviewComesFirst
<1> QED  BY <1>3, <1>4, <1>5, <1>6 DEF MayKeep, Guarded

(* No candidate that the reference does not let be kept becomes memory     *)
(* with its stream under an enforced policy, among whatever companions     *)
(* (evaluate_transactional_stream, DetectorRunner, PolicyEngine).          *)
THEOREM DecisionsAreRight == Spec => DecisionsHold
<1>1. ASSUME IInv, [Next]_vars
      PROVE  [\A s \in memory' \ memory :
                PolicyOf[engine].mode = "enforce" =>
                  \A c \in found : MayKeep(PolicyOf[engine], c.candidate, c.raws, c.reply)]_vars
  <2>1. SUFFICES ASSUME NEW s \in memory' \ memory, PolicyOf[engine].mode = "enforce",
                        NEW c \in found
                 PROVE  MayKeep(PolicyOf[engine], c.candidate, c.raws, c.reply)
    OBVIOUS
  <2>2. PICK o \in Outcomes : CommitOutcomes(o)
    BY <1>1, <2>1 DEF Next, vars, tables, Reserve, Respond, Release, BeginWrite, Refuse,
       AppendChunk, ExceedLimit, Abort, Commit, Capture, Judge, RecordAbort, Activate,
       Unverified, RejectPolicy, Verify, AppendElsewhere, Restart
  <2>3. Accepted
    BY <2>1, <2>2 DEF CommitOutcomes
  <2>4. ConformingPolicy(PolicyOf[engine])
    BY <1>1, PolicyAssumption DEF IInv, TypeOK
  <2>5. c.candidate \in Candidates /\ c.raws \in Seq(Raws) /\ c.reply \in Replies
    BY <1>1, <2>1, ContentsAssumption DEF IInv, TypeOK
  <2>6. Decided(PolicyOf[engine], c.candidate, c.raws, c.reply) \in Kept
    BY <2>1, <2>3 DEF Accepted, Keeps
  <2> QED  BY <2>1, <2>4, <2>5, <2>6, EngineKeeps
<1> QED  BY <1>1, InvariantHolds, PTL DEF Spec, DecisionsHold
=============================================================================
