--------------------------- MODULE SubscriptionRunner ---------------------------
(***************************************************************************)
(* CodexSubscriptionRunner (semantic/codex_subscription.py): one verified   *)
(* Codex child at a time, for the readiness probe, the candidate extractor  *)
(* and the adjudicator.  A probe runs two children (version, login status), *)
(* run_json a third one (exec) whose event stream is validated as it comes. *)
(* Every child ends in the same cleanup, and a cleanup that cannot account  *)
(* for a process group, a reader or a directory closes the runner for good. *)
(*                                                                          *)
(* Abstractions.  Events and outputs are their classes ("tool" is any event *)
(* that is refused wherever it comes: tool activity, malformed output); a   *)
(* failure class is "failed".  A group is its processes in the child's      *)
(* session.  Creating a subprocess is one step.  A drifted identity does not*)
(* come back.  The Windows branch is left out.  Between two                 *)
(* awaits the program is one step, so a cancellation lands only where the   *)
(* call is suspended.                                                       *)
(***************************************************************************)
EXTENDS Naturals, Sequences, SequencesExt

CONSTANTS
  Probes,           \* callers of check_chatgpt_auth
  Askers,           \* callers of run_json, by the extractor and the adjudicator
  Items,            \* item identifiers in an event stream
  Types,            \* safe item types
  None              \* no caller

Callers == Probes \cup Askers

ASSUME CallerAssumption == Probes \cap Askers = {} /\ None \notin Callers

VARIABLES
  call,             \* what became of each caller's last call
  holder,           \* the caller that holds _operation_lock
  queue,            \* the callers that wait for it, first come first served
  stage,            \* the child the holder is at
  phase,            \* where in _execute
  group,            \* the child's process group
  tries,            \* attempts at terminating it
  killed,           \* the outcome of these attempts
  error,            \* primary_error
  output,           \* the class of the child's output
  stream,           \* the _EventStreamValidator
  temp,             \* the private temporary directory
  flag,             \* last_cleanup_failure
  trusted,          \* executable and authentication path as they were resolved
  did,              \* history: kinds of events the exec child emitted
  items,            \* history: items it started and completed
  strays,           \* history: what the runner left behind
  asked             \* history: a cancellation was delivered in this call

child == <<group, tries, killed, error, output, stream, did, items>>
vars  == <<call, holder, queue, stage, phase, child, temp, flag, trusted, strays, asked>>

Kinds == {"thread", "turn", "start", "complete", "error", "failed", "end", "tool"}
Events == [kind : Kinds, item : Items, type : Types]
Streams == [state : {"expect_thread", "expect_turn", "in_turn", "failure_pending", "terminal"},
            open : SUBSET (Items \X Types), closed : SUBSET Items]
Flags == {"none", "process_group", "stream_drain", "temporary_artifacts"}

TypeOK ==
  /\ call \in [Callers -> {"idle", "calling", "ready", "result", "failed", "cancelled"}]
  /\ holder \in Callers \cup {None}
  /\ queue \in Seq(Callers)
  /\ stage \in {"none", "version", "status", "exec"}
  /\ phase \in {"idle", "spawn", "running", "term", "kill", "drain", "done"}
  /\ group \in {"none", "alive", "gone"}
  /\ tries \in 1..2
  /\ killed \in BOOLEAN
  /\ error \in {"none", "failed", "cancelled"}
  /\ output \in {"none", "good", "foreign", "bad"}
  /\ stream \in Streams
  /\ temp \in {"none", "auth", "semantic"}
  /\ flag \in Flags
  /\ trusted \in BOOLEAN
  /\ did \in SUBSET Kinds
  /\ items \in [started : SUBSET Items, completed : SUBSET Items]
  /\ strays \in SUBSET {"group", "reader", "files"}
  /\ asked \in [Callers -> BOOLEAN]

(* The variables of _execute belong to one child. *)
NewStream == [state |-> "expect_thread", open |-> {}, closed |-> {}]

NewChild(running) ==
  /\ group' = (IF running THEN "alive" ELSE "none")
  /\ tries' = 1 /\ killed' = FALSE /\ error' = "none" /\ output' = "none"
  /\ stream' = NewStream
  /\ did' = {} /\ items' = [started |-> {}, completed |-> {}]

Init ==
  /\ call = [c \in Callers |-> "idle"]
  /\ holder = None /\ queue = <<>>
  /\ stage = "none" /\ phase = "idle"
  /\ group = "none" /\ tries = 1 /\ killed = FALSE /\ error = "none" /\ output = "none"
  /\ stream = NewStream
  /\ temp = "none" /\ flag = "none" /\ trusted = TRUE
  /\ did = {} /\ items = [started |-> {}, completed |-> {}]
  /\ strays = {} /\ asked = [c \in Callers |-> FALSE]

---------------------------------------------------------------------------
(* Callers and the lock.                                                   *)

(* run_json waits for the lock; a probe first looks at the cleanup health. *)
Call(c) ==
  /\ call[c] # "calling"
  /\ c \in Probes => flag = "none"
  /\ call' = [call EXCEPT ![c] = "calling"]
  /\ asked' = [asked EXCEPT ![c] = FALSE]
  /\ queue' = Append(queue, c)
  /\ UNCHANGED <<holder, stage, phase, child, temp, flag, trusted, strays>>

CallRefused(c) ==
  /\ c \in Probes /\ call[c] # "calling"
  /\ flag # "none"
  /\ call' = [call EXCEPT ![c] = "failed"]
  /\ asked' = [asked EXCEPT ![c] = FALSE]
  /\ UNCHANGED <<holder, queue, stage, phase, child, temp, flag, trusted, strays>>

(* A probe waits for the lock a quarter of a second. *)
Busy(i) ==
  /\ queue[i] \in Probes
  /\ call' = [call EXCEPT ![queue[i]] = "failed"]
  /\ queue' = RemoveAt(queue, i)
  /\ UNCHANGED <<holder, stage, phase, child, temp, flag, trusted, strays, asked>>

CancelWaiting(i) ==
  /\ call' = [call EXCEPT ![queue[i]] = "cancelled"]
  /\ asked' = [asked EXCEPT ![queue[i]] = TRUE]
  /\ queue' = RemoveAt(queue, i)
  /\ UNCHANGED <<holder, stage, phase, child, temp, flag, trusted, strays>>

(* Mutant: the health that was checked before the lock is not checked again. *)
MayBeginTrusted == trusted

(* _require_cleanup_health and _recheck_trust, under the lock. *)
MayBegin == flag = "none" /\ trusted

(* _check_chatgpt_auth_locked until its first child. *)
Begin ==
  /\ holder = None /\ queue # <<>>
  /\ MayBegin
  /\ holder' = queue[1] /\ queue' = Tail(queue)
  /\ stage' = "version" /\ phase' = "spawn" /\ temp' = "auth"
  /\ UNCHANGED <<call, child, flag, trusted, strays, asked>>

(* The same, refused or without a directory; what mkdtemp made may stay.   *)
BeginFails(left) ==
  /\ holder = None /\ queue # <<>>
  /\ left => MayBegin
  /\ call' = [call EXCEPT ![queue[1]] = "failed"]
  /\ queue' = Tail(queue)
  /\ flag' = IF left THEN "temporary_artifacts" ELSE flag
  /\ strays' = IF left THEN strays \cup {"files"} ELSE strays
  /\ UNCHANGED <<holder, stage, phase, child, temp, trusted, asked>>

(* The call leaves the lock; a directory that cannot be removed fails it.  *)
Finish(outcome, removed) ==
  /\ call' = [call EXCEPT ![holder] =
                IF removed \/ outcome \in {"failed", "cancelled"} THEN outcome ELSE "failed"]
  /\ flag' = IF removed THEN flag ELSE "temporary_artifacts"
  /\ strays' = IF removed THEN strays ELSE strays \cup {"files"}
  /\ temp' = "none"
  /\ holder' = None /\ stage' = "none" /\ phase' = "idle"
  /\ NewChild(FALSE)
  /\ UNCHANGED <<queue, trusted, asked>>

---------------------------------------------------------------------------
(* The event stream of the exec child.                                     *)

Opened(i) == \E t \in Types : <<i, t>> \in stream.open

(* Mutant: a turn may end with items that were only started. *)
MayEndOpen == stream.state = "in_turn"

MayEnd == stream.state = "in_turn" /\ stream.open = {}

(* _EventStreamValidator.consume; anything else raises. *)
Accepts(e) ==
  \/ e.kind = "thread" /\ stream.state = "expect_thread"
  \/ e.kind = "turn" /\ stream.state = "expect_turn"
  \/ e.kind = "error" /\ stream.state = "in_turn"
  \/ /\ e.kind = "start" /\ stream.state = "in_turn"
     /\ e.item \notin stream.closed /\ ~Opened(e.item)
  \/ /\ e.kind = "complete" /\ stream.state = "in_turn"
     /\ e.item \notin stream.closed
     /\ Opened(e.item) => <<e.item, e.type>> \in stream.open
  \/ e.kind = "end" /\ MayEnd

NextState(kind) ==
  CASE kind = "thread" -> "expect_turn"
    [] kind = "turn"   -> "in_turn"
    [] kind = "error"  -> "failure_pending"
    [] kind = "end"    -> "terminal"
    [] OTHER           -> stream.state

Consumed(e) ==
  [state |-> NextState(e.kind),
   open |-> CASE e.kind = "start"    -> stream.open \cup {<<e.item, e.type>>}
              [] e.kind = "complete" -> stream.open \ {<<e.item, e.type>>}
              [] OTHER               -> stream.open,
   closed |-> IF e.kind = "complete" THEN stream.closed \cup {e.item} ELSE stream.closed]

---------------------------------------------------------------------------
(* _execute: the child runs.                                               *)

Spawn ==
  /\ phase = "spawn" /\ trusted
  /\ phase' = "running"
  /\ NewChild(TRUE)
  /\ UNCHANGED <<call, holder, queue, stage, temp, flag, trusted, strays, asked>>

(* The identity changed, or the process cannot be created. *)
SpawnFails(removed) ==
  /\ phase = "spawn"
  /\ Finish("failed", removed)

(* The gather ends: output is in or something was raised; the group may    *)
(* have exited or not.                                                     *)
Stop(e, out) ==
  /\ phase = "running"
  /\ phase' = "term"
  /\ error' = e /\ output' = out
  /\ group' \in {"alive", "gone"}
  /\ UNCHANGED <<call, holder, queue, stage, tries, killed, stream, temp, flag, trusted, did,
                 items, strays>>

Emit(e) ==
  /\ did' = did \cup {e.kind}
  /\ items' = CASE e.kind = "start"    -> [items EXCEPT !.started = @ \cup {e.item}]
                [] e.kind = "complete" -> [items EXCEPT !.completed = @ \cup {e.item}]
                [] OTHER               -> items

Event(e) ==
  /\ phase = "running" /\ stage = "exec"
  /\ Emit(e)
  /\ IF Accepts(e)
     THEN stream' = Consumed(e) /\ UNCHANGED <<phase, error>>
     ELSE phase' = "term" /\ error' = "failed" /\ UNCHANGED stream
  /\ UNCHANGED <<call, holder, queue, stage, group, tries, killed, output, temp, flag, trusted,
                 strays, asked>>

(* The leader exits and both streams end; the event stream must be over.   *)
Complete(out) ==
  /\ out = "foreign" => stage = "exec"
  /\ Stop(IF stage = "exec" /\ stream.state # "terminal" THEN "failed" ELSE "none", out)
  /\ UNCHANGED asked

(* An output limit, a broken pipe or a malformed stream. *)
ReadFails == Stop("failed", "bad") /\ UNCHANGED asked

(* Mutant: a child that hangs is left to hang. *)
TimeoutNever == FALSE /\ UNCHANGED vars

Timeout == Stop("failed", "none") /\ UNCHANGED asked

---------------------------------------------------------------------------
(* _execute: the cleanup, whatever happened.                               *)

(* _finish_process_group: the group is terminated twice at most. *)
Attempted(success) ==
  /\ phase' = IF success \/ tries = 2 THEN "drain" ELSE "term"
  /\ killed' = success
  /\ tries' = IF success \/ tries = 2 THEN tries ELSE tries + 1
  /\ group' \in (IF success THEN {"gone"} ELSE {group, "gone"})
  /\ UNCHANGED <<call, holder, queue, stage, error, output, stream, temp, flag, trusted, did,
                 items, strays, asked>>

(* SIGTERM and the grace period. *)
Terminate == phase = "term" /\ \E success \in BOOLEAN : Attempted(success)

(* SIGKILL follows when the group is still there. *)
TerminateIgnored ==
  /\ phase = "term" /\ group = "alive"
  /\ phase' = "kill"
  /\ UNCHANGED <<call, holder, queue, stage, child, temp, flag, trusted, strays, asked>>

Kill == phase = "kill" /\ \E success \in BOOLEAN : Attempted(success)

(* Mutant: readers that do not end are not reported. *)
FlaggedGroup(settled) == IF ~killed THEN "process_group" ELSE flag

Flagged(settled) ==
  IF ~killed THEN "process_group" ELSE IF ~settled THEN "stream_drain" ELSE flag

(* _finish_reader_tasks, and the flag that survives every error. *)
Drain(settled) ==
  /\ phase = "drain"
  /\ phase' = "done"
  /\ flag' = Flagged(settled)
  /\ error' = IF error = "none" /\ ~(killed /\ settled) THEN "failed" ELSE error
  /\ strays' = strays \cup (IF group = "alive" THEN {"group"} ELSE {})
                      \cup (IF settled THEN {} ELSE {"reader"})
  /\ group' = "none"
  /\ UNCHANGED <<call, holder, queue, stage, tries, killed, output, stream, temp, trusted, did,
                 items, asked>>

(* A cancellation stops the child and waits for the cleanup; the cleanup   *)
(* keeps one for its end, where an error that came before it wins.         *)
CancelHolder ==
  /\ holder # None
  /\ asked' = [asked EXCEPT ![holder] = TRUE]
  /\ \/ Stop("cancelled", "none")
     \/ /\ phase \in {"term", "kill", "drain"}
        /\ error' = IF error = "none" THEN "cancelled" ELSE error
        /\ UNCHANGED <<call, holder, queue, stage, phase, group, tries, killed, output, stream,
                       temp, flag, trusted, did, items, strays>>

---------------------------------------------------------------------------
(* After a child.                                                          *)

Fits == error = "none" /\ trusted

(* The version is supported: the login status is next. *)
VersionKnown ==
  /\ phase = "done" /\ stage = "version"
  /\ Fits /\ output = "good"
  /\ stage' = "status" /\ phase' = "spawn"
  /\ UNCHANGED <<call, holder, queue, child, temp, flag, trusted, strays, asked>>

(* The login is ChatGPT's: a probe is done. *)
ProbeReady(removed) ==
  /\ phase = "done" /\ stage = "status" /\ holder \in Probes
  /\ Fits /\ output = "good"
  /\ Finish("ready", removed)

(* run_json goes on in a directory of its own. *)
Prepare ==
  /\ phase = "done" /\ stage = "status" /\ holder \in Askers
  /\ Fits /\ output = "good"
  /\ stage' = "exec" /\ phase' = "spawn" /\ temp' = "semantic"
  /\ UNCHANGED <<call, holder, queue, child, flag, trusted, strays, asked>>

PrepareFails(removed) ==
  /\ phase = "done" /\ stage = "status" /\ holder \in Askers
  /\ Fits /\ output = "good"
  /\ Finish("failed", removed)

(* The final file is accepted; its echo must be this request's. *)
Answer(removed) ==
  /\ phase = "done" /\ stage = "exec"
  /\ Fits /\ output \in {"good", "foreign"}
  /\ Finish(IF output = "good" THEN "result" ELSE "failed", removed)

Raise(removed) ==
  /\ phase = "done"
  /\ ~Fits \/ output \in {"none", "bad"}
  /\ Finish(IF error = "cancelled" THEN "cancelled" ELSE "failed", removed)

(* Codex or the authentication path is changed by an update or a login.    *)
Change ==
  /\ trusted' = FALSE
  /\ UNCHANGED <<call, holder, queue, stage, phase, child, temp, flag, strays, asked>>

---------------------------------------------------------------------------
RunnerStep ==
  \/ Begin \/ Spawn \/ Timeout
  \/ Terminate \/ TerminateIgnored \/ Kill
  \/ VersionKnown \/ Prepare
  \/ \E ok \in BOOLEAN :
       BeginFails(ok) \/ SpawnFails(ok) \/ Drain(ok) \/ ProbeReady(ok) \/ PrepareFails(ok)
         \/ Answer(ok) \/ Raise(ok)

ChildStep ==
  \/ \E e \in Events : Event(e)
  \/ \E out \in {"good", "foreign", "bad"} : Complete(out)
  \/ ReadFails

CallerStep ==
  \/ \E c \in Callers : Call(c) \/ CallRefused(c)
  \/ \E i \in DOMAIN queue : Busy(i) \/ CancelWaiting(i)
  \/ CancelHolder

Next == RunnerStep \/ ChildStep \/ CallerStep \/ Change

(* Only the program is fair: its deadlines expire.  The child, the callers *)
(* and the world may do nothing.                                           *)
Spec == Init /\ [][Next]_vars /\ WF_vars(RunnerStep)

---------------------------------------------------------------------------
(* Properties.                                                             *)

(* A child, its directory and the lock belong together: a group is alive   *)
(* only under a holder in _execute, and no cleanup is skipped on the way.  *)
Owned ==
  /\ (holder = None) <=> (phase = "idle")
  /\ (holder = None) <=> (temp = "none")
  /\ (holder = None) <=> (stage = "none")
  /\ group = "alive" => phase \in {"running", "term", "kill", "drain"}
  /\ phase \in {"running", "term", "kill", "drain"} => group # "none" /\ flag = "none"
  /\ phase = "drain" /\ killed => group = "gone"
  /\ phase = "spawn" => flag = "none"
  /\ phase = "running" => error = "none"
  /\ phase = "done" /\ error = "none" => flag = "none"
  /\ temp = "semantic" <=> stage = "exec"

(* Whatever the runner could not clean up, a live process group, a reader  *)
(* or a directory, is reported by last_cleanup_failure from then on.       *)
LeftoversFlagged == strays # {} => flag # "none"

(* While nothing has been refused the validator knows what the child did,  *)
(* and an exec child that ended without an error ended its turn.           *)
StreamFollowed ==
  error = "none" =>
    /\ stream.closed = items.completed
    /\ \A i \in items.started : i \in items.completed \/ Opened(i)
    /\ did \cap {"tool", "failed"} = {}
    /\ stream.state # "failure_pending" => "error" \notin did
    /\ stream.state # "expect_thread" => "thread" \in did
    /\ stream.state \notin {"expect_thread", "expect_turn"} => "turn" \in did
    /\ stream.state = "terminal" => "end" \in did /\ stream.open = {}
    /\ stage = "exec" /\ phase \in {"term", "kill", "drain", "done"} => stream.state = "terminal"

(* Who waits for the lock is calling, was not cancelled and waits once. *)
Waiting ==
  /\ \A i \in DOMAIN queue : call[queue[i]] = "calling" /\ ~asked[queue[i]] /\ queue[i] # holder
  /\ \A i, j \in DOMAIN queue : queue[i] = queue[j] => i = j

(* A caller is at one place, and a cancellation is never lost without an   *)
(* error that came before it.                                              *)
Placed ==
  /\ Waiting
  /\ holder # None => call[holder] = "calling"
  /\ holder # None /\ asked[holder] => error # "none" /\ phase # "spawn"

IInv == TypeOK /\ Owned /\ LeftoversFlagged /\ StreamFollowed /\ Placed

(* Once a cleanup has failed no child is started again.                    *)
NoChildAfterFailure == [][flag # "none" => (group = "none" => group' = "none")]_vars

(* A result is returned only of a child whose stream ran from thread to    *)
(* turn to end, without tool or failure, with every item that it started   *)
(* completed, whose answer echoes the request, under the identity that was *)
(* resolved, for a call nobody cancelled, with nothing left behind.        *)
ResultsAreClean ==
  [][\A c \in Askers : call[c] # "result" /\ call'[c] = "result" =>
       /\ {"thread", "turn", "end"} \subseteq did
       /\ did \cap {"tool", "failed", "error"} = {}
       /\ items.started \subseteq items.completed
       /\ output = "good" /\ trusted /\ ~asked[c]
       /\ strays' = {} /\ temp' = "none" /\ flag' = "none"]_vars

(* Every call comes back, whatever its child and those before it do.       *)
CallsEnd == \A c \in Callers : (call[c] = "calling") ~> (call[c] # "calling")
=============================================================================
