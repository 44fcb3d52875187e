----------------------------- MODULE MCEvidenceQueue ---------------------------
(* Values for the constants of EvidenceQueue. *)
EXTENDS EvidenceQueue

CONSTANTS e1, e2
================================================================================
