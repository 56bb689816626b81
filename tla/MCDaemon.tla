------------------------------ MODULE MCDaemon ------------------------------
(* Two processes in turn, two STUN transactions, one change of port.  An IPv4 and
   an IPv6 address; a server of this repository, then one that sends the old
   attribute after one that is not known. *)
EXTENDS Daemon

MCAddresses == {<<1>>, <<0, 1>>}

MCServers == <<<<"xor">>, <<"other", "mapped">>>>
=============================================================================
