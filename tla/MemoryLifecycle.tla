---------------------------- MODULE MemoryLifecycle ----------------------------
(***************************************************************************)
(* What the signed history promises of candidates and memories, by the     *)
(* state transitions of the data model (specs/001-codex-memory-firewall):  *)
(* a candidate is decided once; a quarantined one is approved or blocked,  *)
(* once; a memory becomes live by one decision or approval, and once it    *)
(* has ended (revoked or expired) it is never live again.                  *)
(***************************************************************************)
CONSTANTS Cands, Mems

VARIABLES
  fates,            \* per candidate: what has been decided
  memories          \* per memory: "none", "live" or "ended"

vars == <<fates, memories>>

Init ==
  /\ fates = [c \in Cands |-> "new"]
  /\ memories = [m \in Mems |-> "none"]

GoLive(m) ==
  /\ memories[m] = "none"
  /\ memories' = [memories EXCEPT ![m] = "live"]

Admit(c, m) ==
  /\ fates[c] = "new"
  /\ fates' = [fates EXCEPT ![c] = "admitted"]
  /\ GoLive(m)

Quarantine(c) ==
  /\ fates[c] = "new"
  /\ fates' = [fates EXCEPT ![c] = "quarantined"]
  /\ UNCHANGED memories

Approve(c, m) ==
  /\ fates[c] = "quarantined"
  /\ fates' = [fates EXCEPT ![c] = "approved"]
  /\ GoLive(m)

Block(c) ==
  /\ fates[c] \in {"new", "quarantined"}
  /\ fates' = [fates EXCEPT ![c] = "blocked"]
  /\ UNCHANGED memories

End(S) ==
  /\ \A m \in S : memories[m] \in {"live", "ended"}
  /\ memories' = [m \in Mems |-> IF m \in S THEN "ended" ELSE memories[m]]
  /\ UNCHANGED fates

Next ==
  \/ \E c \in Cands, m \in Mems : Admit(c, m) \/ Approve(c, m)
  \/ \E c \in Cands : Quarantine(c) \/ Block(c)
  \/ \E S \in SUBSET Mems : End(S)

Spec == Init /\ [][Next]_vars
================================================================================
