------------------------------ MODULE MCEnroll ------------------------------
(* Attempts, tabs and users are model values. *)
EXTENDS Enroll, TLC

CONSTANTS a1, a2, t1, t2, u1, u2

Symmetry == Permutations({a1, a2}) \cup Permutations({t1, t2})
=============================================================================
