------------------------------ MODULE MCDesktopDemo ----------------------------
(* Values for the constants of DesktopDemo; versions are interchangeable. *)
EXTENDS DesktopDemo, TLC

CONSTANTS f1, f2, p1, p2, n1, n2, t1, t2

Symmetry == Permutations(Fixtures) \cup Permutations(Runtimes)
              \cup Permutations(Normals) \cup Permutations(Rests)
================================================================================
