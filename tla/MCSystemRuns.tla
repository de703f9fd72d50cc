---------------------------- MODULE MCSystemRuns ----------------------------
(* Constants for checking SystemRuns. *)
EXTENDS SystemRuns, TLC

CONSTANTS r1, r2, i1, i2

Symmetry == Permutations({r1, r2}) \cup Permutations({i1, i2})
================================================================================
