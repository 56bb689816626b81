-------------------------------- MODULE Maps --------------------------------
(* The maps of Go: partial functions. *)

IsMap(f, S, T) == DOMAIN f \subseteq S /\ f \in [DOMAIN f -> T]

Empty == [x \in {} |-> x]

Put(f, x, v) == [y \in DOMAIN f \cup {x} |-> IF y = x THEN v ELSE f[y]]

Delete(f, x) == [y \in DOMAIN f \ {x} |-> f[y]]
=============================================================================
