------------------------------ MODULE Handover ------------------------------
(***************************************************************************)
(* What the rotation of a machine's token promises: a credential that is   *)
(* renewed in two steps.  The issuer replaces it only for a holder that    *)
(* shows the current one, so that the holder is at most one step behind    *)
(* and has the one token of the grace period.                              *)
(***************************************************************************)
EXTENDS Naturals

VARIABLES current,    \* the token of the issuer
          previous,   \* the one it replaced, 0 if there is none
          held,       \* the token of the holder
          void        \* the holder failed to write its token down

vars == <<current, previous, held, void>>

Init == current = held /\ previous = 0 /\ ~void

(* A fresh token replaces the one the holder has shown. *)
Issue ==
    /\ held = current
    /\ current' > current
    /\ previous' = current
    /\ UNCHANGED <<held, void>>

Adopt ==
    /\ held = previous
    /\ held' = current
    /\ UNCHANGED <<current, previous, void>>

(* The issuer forgets a token the holder does not have yet. *)
TakeBack ==
    /\ held = previous
    /\ current' = previous
    /\ UNCHANGED <<held, void>>

(* From then on nothing is promised: the holder may come back with any token. *)
Forfeit == void' = TRUE

Next == Issue \/ Adopt \/ TakeBack \/ Forfeit

Spec == Init /\ [][Next]_vars
=============================================================================
