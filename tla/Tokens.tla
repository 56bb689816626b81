------------------------------- MODULE Tokens -------------------------------
(***************************************************************************)
(* The bearer token of a machine as the coordination server keeps it       *)
(* (internal/control/store.go): the current token and its date of issue,   *)
(* the previous token and the end of its grace period.                     *)
(*                                                                         *)
(* Every operator takes a record d with at least the fields                *)
(*   token   Device.Token          issued  Device.TokenIssuedAt            *)
(*   prev    Device.PrevToken      until   Device.PrevTokenUntil           *)
(* so that a whole device of the module Store is such a record too.        *)
(***************************************************************************)
EXTENDS Integers

CONSTANTS RotateAfter,   \* TokenRotateAfter (24 h in the code)
          Grace          \* tokenGrace (1 h in the code)

ASSUME RotateAfterAssumption == RotateAfter \in Nat \ {0}
ASSUME GraceAssumption == Grace \in Nat \ {0}

(* The empty string of the code: no token is ever 0, random ones are 1, 2, ... *)
NoToken == 0

-----------------------------------------------------------------------------

(* Mutant: the end of the grace period is not looked at. *)
AcceptsExpired(d, t, now) == t # NoToken /\ t \in {d.token, d.prev}

(* DeviceByToken: is t a token of d at the time now? *)
Accepts(d, t, now) ==
    /\ t # NoToken
    /\ \/ d.token = t
       \/ d.prev = t /\ now < d.until

(* RotateTokenIfDue: time.Since(d.TokenIssuedAt) >= TokenRotateAfter *)
RotationDue(d, now) == now - d.issued >= RotateAfter

(* Mutant: the rotation forgets the old token at once. *)
RotateDroppingOld(d, t, now) ==
    [d EXCEPT !.prev = NoToken, !.until = now, !.token = t, !.issued = now]

(* RotateTokenIfDue: t becomes the token, the old one enters its grace period. *)
Rotate(d, t, now) ==
    [d EXCEPT !.prev = d.token, !.until = now + Grace, !.token = t, !.issued = now]
=============================================================================
