----------------------------- MODULE MCAccounts -----------------------------
(* Visitors, addresses and codes are model values. *)
EXTENDS Accounts, TLC

CONSTANTS v1, v2, e1, e2, c1, c2

Symmetry == Permutations({v1, v2}) \cup Permutations({e1, e2}) \cup Permutations({c1, c2})
=============================================================================
