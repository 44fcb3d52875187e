------------------------------ MODULE MCEventStore -----------------------------
(* Values for the constants of EventStore: the daemon with two tasks, and  *)
(* a CLI command, a process of one task.                                   *)
EXTENDS EventStore

CONSTANTS daemon, cli, t1, t2, t3

OneProc == [t \in Tasks |-> daemon]
TwoProcs == [t \in Tasks |-> IF t = t3 THEN cli ELSE daemon]

AllBatches == {<<"capture">>, <<"stream", "capture">>, <<"stream">>, <<"queueFailure">>}
QuietBatches == {<<"capture">>, <<"stream", "capture">>, <<"stream">>}
================================================================================
