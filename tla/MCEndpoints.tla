---------------------------- MODULE MCEndpoints -----------------------------
(* Two machines with a short memory: sessions of two rounds. *)
EXTENDS Endpoints

CONSTANTS a, b

PathOnly == {"path"}

(* One of them behind a NAT, or both. *)
HiddenSites == {{a}, {}}
OpenSites == {{a, b}}
=============================================================================
