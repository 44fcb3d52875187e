---------------------------- MODULE MCCodexInstaller ---------------------------
(* Values for the constants of CodexInstaller: versions are interchangeable. *)
EXTENDS CodexInstaller, TLC

CONSTANTS v1, v2, v3

VersionSymmetry == Permutations(Versions)
================================================================================
