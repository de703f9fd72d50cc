--------------------------- MODULE MCSessionStore ---------------------------
(* Constants for checking SessionStore. *)
EXTENDS SessionStore, TLC

CONSTANTS p1, p2, c1, c2, c3

Symmetry == Permutations({p1, p2}) \cup Permutations({c1, c2, c3})
================================================================================
