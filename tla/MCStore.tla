------------------------------ MODULE MCStore -------------------------------
(* The store on small instances; machines are interchangeable. *)
EXTENDS Store, TLC

Symmetry == Permutations(Pubs)

(* What an administrator asks for: a key for one machine, a key for any number. *)
AdminKeys == [owner : {Nobody}, reusable : BOOLEAN, ttl : {0}]

(* A key an account asks for, which expires. *)
AccountKeys == [owner : Users, reusable : {FALSE}, ttl : {1}]

Requests == AdminKeys \cup AccountKeys
=============================================================================
