------------------------------ MODULE MCMemoryView -----------------------------
(* Values for the constants of MemoryView: mutations, a session-lane task  *)
(* and a command, and the operations each run offers them.                 *)
EXTENDS MemoryView, TLC

CONSTANTS u1, u2, s1, k1

Lanes4 == [t \in Tasks |-> IF t = s1 THEN "session" ELSE IF t = k1 THEN "cli" ELSE "http"]

(* Every operation but those that write the view from a replay. *)
NoRebuild == [l \in Lanes |->
  IF l = "http" THEN {"revoke", "approve", "block"}
  ELSE IF l = "session" THEN {"session"} ELSE {"revoke", "rescan"}]

(* What makes and heals a drift: rebuilds, sweeps and revocations beside   *)
(* them, and verifications that compare the view or do not.                *)
Verifies == [l \in Lanes |->
  IF l = "http" THEN {"rebuild"}
  ELSE IF l = "session" THEN {"session", "verifyLedger", "verifyChain"} ELSE {"revoke", "rebuild"}]

Rebuilds == [l \in Lanes |->
  IF l = "http" THEN {"revoke", "rebuild", "dryRun"}
  ELSE IF l = "session" THEN {"session"} ELSE {}]

(* Candidates are interchangeable. *)
Symmetry == Permutations(Cands)
================================================================================
