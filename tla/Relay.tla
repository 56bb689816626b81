------------------------------- MODULE Relay --------------------------------
(***************************************************************************)
(* The fallback relay (internal/relay/server.go) and its clients           *)
(* (internal/omnisock/bind.go) over UDP: registration by challenge and     *)
(* proof, refresh, forwarding.  Datagrams are delayed, reordered,          *)
(* duplicated and lost: one that was sent stays in net, and may be received*)
(* any number of times or never.  A client's address changes when it roams *)
(* or when its NAT gives it another mapping.                               *)
(*                                                                         *)
(* The relay reads its socket in one goroutine, so one frame is one action.*)
(***************************************************************************)
EXTENDS Integers, FiniteSets, Maps

CONSTANTS Keys,          \* public keys of the clients
          Addrs,         \* addresses, as the relay sees them
          AddrOf,        \* AddrOf[k]: the addresses client k may appear from
          Traffic,       \* who sends data to whom, pairs of clients
          ClientTTL,     \* clientTTL (40 s)
          ChallengeTTL,  \* challengeTTL (30 s)
          MaxTime,       \* bound: the clock stops here
          MaxNonces,     \* bound: challenges sent
          MaxRestarts    \* bound: restarts of the relay

ASSUME AddrAssumption == AddrOf \in [Keys -> SUBSET Addrs]
ASSUME TrafficAssumption == Traffic \subseteq Keys \X Keys
ASSUME TTLAssumption == {ClientTTL, ChallengeTTL} \subseteq Nat
ASSUME BoundAssumption == {MaxTime, MaxNonces, MaxRestarts} \subseteq Nat

VARIABLES
    clients,   \* Server.clients: key -> address, last REGISTER or PROOF
    byAddr,    \* Server.byAddr: address -> key
    pending,   \* Server.pending: address -> nonce, expiry
    epoch,     \* number of restarts; stands for the relay's ephemeral key pair
    nonces,    \* nonces drawn so far
    now,       \* the clock
    at,        \* where each client is: the source of what it sends now
    net,       \* the datagrams sent so far
    granted    \* history: the registrations granted, [key, addr, nonce, times]

vars == <<clients, byAddr, pending, epoch, nonces, now, at, net, granted>>

-----------------------------------------------------------------------------

(* Frames.  A FORWARD also names the client that really sent it, and a RECV that
   client and its address, none of which the frames have; MACs are sound: a PROOF for key is one that
   the holder of key computed against the relay's key pair of that epoch. *)
Register(k, a) == [type |-> "register", src |-> a, key |-> k]
Challenge(a, n, e) == [type |-> "challenge", dst |-> a, nonce |-> n, epoch |-> e]
Proof(k, a, n, e) == [type |-> "proof", src |-> a, key |-> k, nonce |-> n, epoch |-> e]
Forward(k, a, d) == [type |-> "forward", src |-> a, sender |-> k, key |-> d]
Recv(k, a, f) == [type |-> "recv", dst |-> a, key |-> k, sender |-> f.sender, from |-> f.src]

Frames(type) == {m \in net : m.type = type}

(* The types; a client is always at one of its addresses, a pending challenge
   has a nonce that was drawn. *)
TypeOK ==
    /\ IsMap(clients, Keys, [addr : Addrs, seen : 0 .. now])
    /\ IsMap(byAddr, Addrs, Keys)
    /\ IsMap(pending, Addrs, [nonce : 1 .. nonces, expires : 0 .. now + ChallengeTTL])
    /\ epoch \in 0 .. MaxRestarts
    /\ nonces \in 0 .. MaxNonces
    /\ now \in 0 .. MaxTime
    /\ at \in [Keys -> Addrs]
    /\ \A k \in Keys : at[k] \in AddrOf[k]
    /\ \A m \in net : m.type \in {"register", "challenge", "proof", "forward", "recv"}
    /\ granted \subseteq [key : Keys, addr : Addrs, nonce : 1 .. nonces, times : {1, 2}]

Init ==
    /\ clients = Empty /\ byAddr = Empty /\ pending = Empty
    /\ epoch = 0 /\ nonces = 0 /\ now = 0
    /\ at \in {f \in [Keys -> Addrs] : \A k \in Keys : f[k] \in AddrOf[k]}
    /\ \A j, k \in Keys : j # k => at[j] # at[k]
    /\ net = {} /\ granted = {}

-----------------------------------------------------------------------------


Send(m) == net' = net \cup {m}

(* time.Since(lastSeen) < clientTTL *)
Fresh(k) == k \in DOMAIN clients /\ now - clients[k].seen < ClientTTL

(* Mutant: a known key is refreshed from any address. *)
IsRefreshAnywhere(k, src) == Fresh(k)

(* REGISTER from the address the key is registered at, still in time. *)
IsRefresh(k, src) == Fresh(k) /\ clients[k].addr = src

(* TypeRegister: refresh.  (The ACK changes nothing but the client's own date
   of last ACK.) *)
HandleRefresh(m) ==
    /\ m.type = "register"
    /\ IsRefresh(m.key, m.src)
    /\ clients' = Put(clients, m.key, [addr |-> m.src, seen |-> now])
    /\ UNCHANGED <<byAddr, pending, epoch, nonces, now, at, net, granted>>

(* TypeRegister: anything else is challenged; the last challenge sent to an
   address is the only one it may answer. *)
HandleRegister(m) ==
    /\ m.type = "register"
    /\ ~IsRefresh(m.key, m.src)
    /\ nonces < MaxNonces
    /\ nonces' = nonces + 1
    /\ pending' = Put(pending, m.src, [nonce |-> nonces', expires |-> now + ChallengeTTL])
    /\ Send(Challenge(m.src, nonces', epoch))
    /\ UNCHANGED <<clients, byAddr, epoch, now, at, granted>>

(* The challenge is pending at that address, not expired, its nonce is the one
   of the proof. *)
IsAnswer(m) ==
    /\ m.type = "proof"
    /\ m.src \in DOMAIN pending
    /\ pending[m.src].nonce = m.nonce
    /\ now < pending[m.src].expires

Grant(k, a, n) ==
    LET before == {g \in granted : g.nonce = n}
    IN  [key |-> k, addr |-> a, nonce |-> n, times |-> IF before = {} THEN 1 ELSE 2]

(* Mutant: the old address is not forgotten. *)
RegisteredKeepingOld(key, src) ==
    /\ clients' = Put(clients, key, [addr |-> src, seen |-> now])
    /\ byAddr' = Put(byAddr, src, key)

(* Mutant: the old address is forgotten last, even when it is the new one. *)
RegisteredThenForgotten(key, src) ==
    LET added == Put(byAddr, src, key)
    IN  /\ clients' = Put(clients, key, [addr |-> src, seen |-> now])
        /\ byAddr' = IF key \in DOMAIN clients THEN Delete(added, clients[key].addr) ELSE added

(* A proof by the holder of key for this relay (VerifyProof): the key is
   registered at src, and no longer at its old address. *)
Registered(key, src) ==
    LET old == IF key \in DOMAIN clients THEN clients[key].addr ELSE src
    IN  /\ clients' = Put(clients, key, [addr |-> src, seen |-> now])
        /\ byAddr' = Put(IF old # src THEN Delete(byAddr, old) ELSE byAddr, src, key)

(* Mutant: the challenge stays pending. *)
HandleProofKeepingChallenge(m) ==
    /\ IsAnswer(m)
    /\ m.epoch = epoch
    /\ Registered(m.key, m.src)
    /\ granted' = granted \cup {Grant(m.key, m.src, m.nonce)}
    /\ UNCHANGED <<pending, epoch, nonces, now, at, net>>

(* TypeProof: the challenge is consumed, whatever VerifyProof says. *)
HandleProof(m) ==
    /\ IsAnswer(m)
    /\ pending' = Delete(pending, m.src)
    /\ IF m.epoch = epoch
         THEN /\ Registered(m.key, m.src)
              /\ granted' = granted \cup {Grant(m.key, m.src, m.nonce)}
         ELSE UNCHANGED <<clients, byAddr, granted>>
    /\ UNCHANGED <<epoch, nonces, now, at, net>>

(* The key under which a frame from src is passed on, if it is at all. *)
IsSender(k, src) ==
    /\ src \in DOMAIN byAddr
    /\ byAddr[src] = k
    /\ Fresh(k)
    /\ clients[k].addr = src

(* Mutant: the frame is passed on under the key of its destination. *)
HandleForwardSwapped(m) ==
    /\ m.type = "forward"
    /\ \E k \in Keys : IsSender(k, m.src) /\ Fresh(m.key)
                       /\ Send(Recv(m.key, clients[m.key].addr, m))
    /\ UNCHANGED <<clients, byAddr, pending, epoch, nonces, now, at, granted>>

(* TypeForward: both sides are registered and in time. *)
HandleForward(m) ==
    /\ m.type = "forward"
    /\ \E k \in Keys : IsSender(k, m.src) /\ Fresh(m.key)
                       /\ Send(Recv(k, clients[m.key].addr, m))
    /\ UNCHANGED <<clients, byAddr, pending, epoch, nonces, now, at, granted>>

(* A relay started again knows nobody and has a new key pair. *)
Restart ==
    /\ epoch < MaxRestarts
    /\ epoch' = epoch + 1
    /\ clients' = Empty /\ byAddr' = Empty /\ pending' = Empty
    /\ UNCHANGED <<nonces, now, at, net, granted>>

-----------------------------------------------------------------------------
(* Clients *)

(* RelayRegister, at every synchronisation. *)
RelayRegister(k) ==
    /\ Send(Register(k, at[k]))
    /\ UNCHANGED <<clients, byAddr, pending, epoch, nonces, now, at, granted>>

(* receive, TypeChallenge: whoever is at the address answers, for itself. *)
AnswerChallenge(k, m) ==
    /\ m.type = "challenge"
    /\ m.dst = at[k]
    /\ Send(Proof(k, at[k], m.nonce, m.epoch))
    /\ UNCHANGED <<clients, byAddr, pending, epoch, nonces, now, at, granted>>

(* Send to a relay endpoint. *)
SendForward(k, dst) ==
    /\ Send(Forward(k, at[k], dst))
    /\ UNCHANGED <<clients, byAddr, pending, epoch, nonces, now, at, granted>>

(* Roaming, or another NAT mapping; an address is one client's at a time. *)
Move(k, a) ==
    /\ a \in AddrOf[k]
    /\ \A j \in Keys : at[j] # a
    /\ at' = [at EXCEPT ![k] = a]
    /\ UNCHANGED <<clients, byAddr, pending, epoch, nonces, now, net, granted>>

Tick ==
    /\ now < MaxTime
    /\ now' = now + 1
    /\ UNCHANGED <<clients, byAddr, pending, epoch, nonces, at, net, granted>>

Next ==
    \/ \E m \in net : HandleRefresh(m)
    \/ \E m \in net : HandleRegister(m)
    \/ \E m \in net : HandleProof(m)
    \/ \E m \in net : HandleForward(m)
    \/ Restart
    \/ \E k \in Keys : RelayRegister(k)
    \/ \E k \in Keys, m \in net : AnswerChallenge(k, m)
    \/ \E pair \in Traffic : SendForward(pair[1], pair[2])
    \/ \E k \in Keys, a \in Addrs : Move(k, a)
    \/ Tick

Spec == Init /\ [][Next]_vars

-----------------------------------------------------------------------------
(* Properties *)

(* The two maps agree: the key an address stands for is registered at that
   address, through address changes, duplicated frames and restarts. *)
ByAddrSound ==
    \A a \in DOMAIN byAddr : byAddr[a] \in DOMAIN clients /\ clients[byAddr[a]].addr = a

(* A key is registered at an address only if its holder proved its possession
   from there to the relay that runs now ("Un usurpateur ne peut ni
   s'enregistrer sous la clé d'autrui ..."). *)
ProvedRegistration ==
    \A k \in DOMAIN clients : \E m \in Frames("proof") :
        m.key = k /\ m.src = clients[k].addr /\ m.epoch = epoch

(* "... ni rejouer une preuve (nonce à usage unique)": one challenge grants one
   registration, however often the network delivers the proof. *)
NonceSingleUse == \A g \in granted : g.times = 1 /\ \A h \in granted : g.nonce = h.nonce => g = h

(* No other client may ever appear from the address a. *)
Exclusive(k, a) == \A j \in Keys \ {k} : a \notin AddrOf[j]

(* A client whose REGISTER is answered by a plain ACK ("enregistrement pris en
   compte") is one whose packets are forwarded, under its own key, if its address
   is its own: what its other address, or the address of another client, is or
   was shared with changes nothing. *)
AckMeansForward ==
    \A k \in Keys : Exclusive(k, at[k]) /\ IsRefresh(k, at[k]) => IsSender(k, at[k])

(* The same whoever had the address before, as the comment of the frame has it. *)
AckAlwaysMeansForward == \A k \in Keys : IsRefresh(k, at[k]) => IsSender(k, at[k])

(* A packet from a client's own address is passed on under the key of that client
   ("la trame RECV porte sa clé"), however late it arrives. *)
Attribution ==
    \A m \in Frames("recv") : Exclusive(m.sender, m.from) => m.key = m.sender
=============================================================================
