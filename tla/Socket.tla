------------------------------- MODULE Socket -------------------------------
(***************************************************************************)
(* The agent's UDP socket (omnisock.Bind), which WireGuard, STUN, disco and*)
(* the relay share, with the STUN codec (internal/stun).  The goroutine of *)
(* the engine reads it and handles STUN answers and pongs on the spot;     *)
(* STUNRequest registers a transaction, sends, and waits on a channel.     *)
(* Frames of the relay are the module Relay's, pings and what a pong does  *)
(* the module Endpoints'.                                                  *)
(***************************************************************************)
EXTENDS Integers, Sequences

CONSTANTS MaxRequests,   \* bound: STUN transactions
          Addresses,     \* public addresses the NAT may give to the socket
          Servers        \* the STUN servers, each as the attributes it answers with

(* One symbol stands for the bytes of an IPv4 address, two for those of IPv6. *)
ASSUME AddressAssumption == Addresses \subseteq [{1} -> {0, 1}] \cup [{1, 2} -> {0, 1}]
ASSUME ServerAssumption ==
    Servers \in Seq({a \in Seq({"xor", "mapped", "other"}) :
                        \E i \in DOMAIN a : a[i] \in {"xor", "mapped"}})
ASSUME RequestAssumption == MaxRequests \in Nat

Ids == 1 .. MaxRequests

(* An address that is not there. *)
None == <<>>

VARIABLES
    udp,      \* Bind.udp: is there a socket, and has it SO_MARK?
    mark,     \* Bind.mark # 0
    stunTx,   \* the transactions of Bind.stunTx
    chan,     \* the content of the channel of each transaction, None if empty
    recv,     \* the goroutine in Bind.receive: what it does, for which answer
    seen      \* <<id, server, address>>: a server has answered request id with this address

socketVars == <<udp, mark, stunTx, chan, recv, seen>>

-----------------------------------------------------------------------------
(* The STUN codec *)

(* The key of XOR-MAPPED-ADDRESS: the magic cookie, then the transaction. *)
XorKey(id) == <<1, id % 2>>

Xor(a, id) == [i \in DOMAIN a |-> (a[i] + XorKey(id)[i]) % 2]

(* The answer of a server to request id from address a.  BuildBindingResponse
   sends XOR-MAPPED-ADDRESS; the servers of --stun may send others. *)
BuildBindingResponse(id, types, a) ==
    [id |-> id,
     attrs |-> [i \in DOMAIN types |->
                  [type |-> types[i],
                   value |-> IF types[i] = "xor" THEN Xor(a, id) ELSE a]]]

(* Mutant: the address is read as it is on the wire. *)
ParseBindingResponseRaw(p) ==
    p.attrs[CHOOSE i \in DOMAIN p.attrs : p.attrs[i].type # "other"].value

(* ParseBindingResponse: the first XOR-MAPPED-ADDRESS, else the last MAPPED-ADDRESS. *)
ParseBindingResponse(p) ==
    LET Of(t) == {i \in DOMAIN p.attrs : p.attrs[i].type = t}
    IN  IF Of("xor") # {}
          THEN Xor(p.attrs[CHOOSE i \in Of("xor") : \A j \in Of("xor") : i <= j].value, p.id)
          ELSE p.attrs[CHOOSE i \in Of("mapped") : \A j \in Of("mapped") : i >= j].value

-----------------------------------------------------------------------------

Reading == [at |-> "reading", id |-> 0, addr |-> None]
Off == [at |-> "off", id |-> 0, addr |-> None]
InPong == [at |-> "pong", id |-> 0, addr |-> None]
Delivering(id, a) == [at |-> "deliver", id |-> id, addr |-> a]

Closed == [open |-> FALSE, marked |-> FALSE]

SocketTypeOK ==
    /\ udp \in [open : BOOLEAN, marked : BOOLEAN]
    /\ mark \in BOOLEAN
    /\ stunTx \subseteq Ids
    /\ chan \in [Ids -> Addresses \cup {None}]
    /\ recv \in {Reading, Off, InPong} \cup {Delivering(i, a) : i \in Ids, a \in Addresses}
    /\ seen \subseteq Ids \X (DOMAIN Servers) \X Addresses

(* New: not open yet. *)
SocketInit ==
    /\ udp = Closed
    /\ mark = FALSE
    /\ stunTx = {}
    /\ chan = [i \in Ids |-> None]
    /\ recv = Off
    /\ seen = {}

(* Mutant: the mark is not put on a socket that is opened again. *)
OpenUnmarked(ok) ==
    /\ udp' = [open |-> TRUE, marked |-> FALSE]
    /\ recv' = Reading

(* Open: the mark is put on the new socket, ok or not; the engine starts to read it. *)
Open(ok) ==
    /\ udp' = [open |-> TRUE, marked |-> mark /\ ok]
    /\ recv' = Reading

Close == udp' = Closed

(* SetMark: recorded for the next Open, and put on the socket there is, ok or not. *)
SetMark(ok) ==
    /\ mark' = TRUE
    /\ udp' = [udp EXCEPT !.marked = udp.open /\ (ok \/ udp.marked)]

(* The process is gone, and its socket with it. *)
SocketGone ==
    /\ udp' = Closed
    /\ mark' = FALSE
    /\ stunTx' = {}
    /\ chan' = [i \in Ids |-> None]
    /\ recv' = Off
    /\ seen' = {}

-----------------------------------------------------------------------------
(* The receiving goroutine *)

(* Mutant: the transaction stays registered until its request returns. *)
HandleSTUNKeeping(p) ==
    /\ UNCHANGED stunTx
    /\ recv' = IF p.id \in stunTx THEN Delivering(p.id, ParseBindingResponse(p)) ELSE recv

(* Mutant: an answer is given to whichever request is waiting. *)
HandleSTUNAny(p) ==
    /\ stunTx' = {}
    /\ \/ /\ stunTx = {}
          /\ UNCHANGED recv
       \/ \E id \in stunTx : recv' = Delivering(id, ParseBindingResponse(p))

(* handleSTUN up to the unlock: the transaction is taken out of the map. *)
HandleSTUN(p) ==
    /\ stunTx' = stunTx \ {p.id}
    /\ recv' = IF p.id \in stunTx THEN Delivering(p.id, ParseBindingResponse(p)) ELSE recv

(* A STUN answer arrives, late, twice, or not at all. *)
ReceiveSTUN ==
    /\ recv = Reading
    /\ udp.open
    /\ \E s \in seen : HandleSTUN(BuildBindingResponse(s[1], Servers[s[2]], s[3]))
    /\ UNCHANGED <<udp, mark, chan, seen>>

(* The end of handleSTUN: the send blocks while the channel is full. *)
Deliver ==
    /\ recv.at = "deliver"
    /\ chan[recv.id] = None
    /\ chan' = [chan EXCEPT ![recv.id] = recv.addr]
    /\ recv' = Reading
    /\ UNCHANGED <<udp, mark, stunTx, seen>>

(* The read fails once the socket is closed, and the engine's goroutine ends. *)
ReceiveEnds ==
    /\ recv = Reading
    /\ ~udp.open
    /\ recv' = Off
    /\ UNCHANGED <<udp, mark, stunTx, chan, seen>>

-----------------------------------------------------------------------------
(* The network *)

(* stun.Serve, for a request that was sent (and is sent again every 800 ms): the
   answer carries the address the request came from.  The NAT may give another
   one to the next request, not to the retransmissions of this one. *)
Serve(id, srv) ==
    /\ \A s \in seen : s[1] # id
    /\ \E a \in Addresses : seen' = seen \cup {<<id, srv, a>>}
    /\ UNCHANGED <<udp, mark, stunTx, chan, recv>>
=============================================================================
