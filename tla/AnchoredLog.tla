------------------------------ MODULE AnchoredLog ------------------------------
(***************************************************************************)
(* What the signed event store promises its users, without processes,      *)
(* locks, verification or health: events are only ever added at the end,   *)
(* one batch at a time, and the signed expected head (the anchor) only     *)
(* ever moves to the end of the log.  A batch whose head write is lost     *)
(* can still be covered by the next batch of the run that lost it.  Once   *)
(* that run is over the tail is stranded: the log is frozen for good, and  *)
(* no later append can bless it.  EventStore.tla implements this           *)
(* specification when one process owns the store at a time.                *)
(***************************************************************************)
EXTENDS Naturals, Sequences

CONSTANT
  Batches       \* the event batches one append may carry, non-empty sequences

VARIABLES
  log,          \* the committed events, in sequence-number order
  anchor,       \* the last sequence number covered by the signed head
  tail          \* what is known of the end of the log

vars == <<log, anchor, tail>>

Init ==
  /\ log = <<>>
  /\ anchor = 0
  /\ tail = "anchored"

(* A batch commits: never behind one in flight, never behind a stranded one. *)
Extend ==
  /\ tail \in {"anchored", "lost"}
  /\ \E batch \in Batches : log' = log \o batch
  /\ tail' = "pending"
  /\ UNCHANGED anchor

(* The signed head is moved to the end of the log by the append in flight. *)
Anchor ==
  /\ tail = "pending"
  /\ anchor' = Len(log)
  /\ tail' = "anchored"
  /\ UNCHANGED log

(* The append in flight ends without its head. *)
Lose ==
  /\ tail = "pending"
  /\ tail' = "lost"
  /\ UNCHANGED <<log, anchor>>

(* The run of the process is over before a head covered the tail. *)
Strand ==
  /\ tail \in {"pending", "lost"}
  /\ tail' = "stranded"
  /\ UNCHANGED <<log, anchor>>

Next == Extend \/ Anchor \/ Lose \/ Strand

Spec == Init /\ [][Next]_vars
================================================================================
