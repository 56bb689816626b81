------------------------------ MODULE MCRelay -------------------------------
(* Two clients of the relay. *)
EXTENDS Relay, TLC

CONSTANTS k1, k2, x, y, z

(* Two clients that are both behind one NAT at times: the address x that one
   leaves is given to the other. *)
SharedAddrs == (k1 :> {x, y}) @@ (k2 :> {x, z})

NoTraffic == {}
OneWay == {<<k1, k2>>}
=============================================================================
