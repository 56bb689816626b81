---------------------------- MODULE RelayProofs -----------------------------
(***************************************************************************)
(* For any number of clients, datagrams, restarts and any life times:      *)
(* the two maps of the relay agree and hold only what a client proved, a   *)
(* challenge is answered once, and, at an address that only one client may *)
(* appear from, a client that gets a plain ACK can forward and what it     *)
(* forwards is passed on under its own key.                                *)
(***************************************************************************)
EXTENDS Relay, TLAPS

(* The maps after a registration, entry by entry. *)
LEMMA RegisteredFacts ==
    ASSUME NEW k, NEW a, Registered(k, a)
    PROVE  /\ DOMAIN clients' = DOMAIN clients \cup {k}
           /\ clients'[k].addr = a
           /\ \A j \in DOMAIN clients \ {k} : clients'[j] = clients[j]
           /\ a \in DOMAIN byAddr' /\ byAddr'[a] = k
           /\ \A b \in DOMAIN byAddr' \ {a} :
                 /\ b \in DOMAIN byAddr /\ byAddr'[b] = byAddr[b]
                 /\ k \in DOMAIN clients => b # clients[k].addr
           /\ \A b \in DOMAIN byAddr \ {a} :
                 (k \in DOMAIN clients => b # clients[k].addr)
                     => b \in DOMAIN byAddr' /\ byAddr'[b] = byAddr[b]
<1> DEFINE old == IF k \in DOMAIN clients THEN clients[k].addr ELSE a
           rest == IF old # a THEN Delete(byAddr, old) ELSE byAddr
<1>1. clients' = Put(clients, k, [addr |-> a, seen |-> now]) /\ byAddr' = Put(rest, a, k)
    BY DEF Registered
<1>2. /\ DOMAIN rest \ {a} = {b \in DOMAIN byAddr : b # a /\ b # old}
      /\ \A b \in DOMAIN rest \ {a} : rest[b] = byAddr[b]
    BY DEF Delete
<1> HIDE DEF rest
<1>3. /\ DOMAIN clients' = DOMAIN clients \cup {k}
      /\ clients'[k] = [addr |-> a, seen |-> now]
      /\ \A j \in DOMAIN clients \ {k} : clients'[j] = clients[j]
    BY <1>1 DEF Put
<1>4. /\ DOMAIN byAddr' = DOMAIN rest \cup {a} /\ byAddr'[a] = k
      /\ \A b \in DOMAIN rest \ {a} : byAddr'[b] = rest[b]
    BY <1>1 DEF Put
<1> QED
    BY <1>2, <1>3, <1>4

(* A refresh changes no address. *)
LEMMA RefreshFacts ==
    ASSUME NEW m, HandleRefresh(m)
    PROVE  /\ DOMAIN clients' = DOMAIN clients
           /\ \A j \in DOMAIN clients : clients'[j].addr = clients[j].addr
           /\ byAddr' = byAddr
<1>1. /\ clients' = Put(clients, m.key, [addr |-> m.src, seen |-> now])
      /\ m.key \in DOMAIN clients /\ clients[m.key].addr = m.src /\ byAddr' = byAddr
    BY DEF HandleRefresh, IsRefresh, Fresh
<1>2. /\ DOMAIN clients' = DOMAIN clients \cup {m.key}
      /\ clients'[m.key] = [addr |-> m.src, seen |-> now]
      /\ \A j \in DOMAIN clients \ {m.key} : clients'[j] = clients[j]
    BY <1>1 DEF Put
<1> QED
    BY <1>1, <1>2

(* Every step refreshes a client, registers one, forgets all or leaves the maps. *)
LEMMA StepKinds ==
    ASSUME [Next]_vars
    PROVE  \/ \E m \in net : HandleRefresh(m)
           \/ \E m \in net : m.type = "proof" /\ Registered(m.key, m.src)
           \/ clients' = Empty /\ byAddr' = Empty
           \/ UNCHANGED <<clients, byAddr>>
<1>1. ASSUME NEW m \in net, HandleProof(m)
      PROVE  (m.type = "proof" /\ Registered(m.key, m.src)) \/ UNCHANGED <<clients, byAddr>>
    BY <1>1 DEF HandleProof, IsAnswer
<1> QED
    BY <1>1 DEF Next, HandleRegister, HandleForward, Restart, RelayRegister, AnswerChallenge,
                SendForward, Move, Tick, vars

(* The map byAddr never names a client that is registered elsewhere: forwarding
   needs no more than it to know the sender. *)
THEOREM MapsAgree == Spec => []ByAddrSound
<1>1. Init => ByAddrSound
    BY DEF Init, ByAddrSound, Empty
<1>2. ASSUME ByAddrSound, [Next]_vars
      PROVE  ByAddrSound'
    <2>1. CASE \E m \in net : HandleRefresh(m)
        BY <1>2, <2>1, RefreshFacts DEF ByAddrSound
    <2>2. CASE \E m \in net : m.type = "proof" /\ Registered(m.key, m.src)
        <3>1. PICK m \in net : Registered(m.key, m.src)
            BY <2>2
        <3> DEFINE k == m.key
                   a == m.src
        <3>2. Registered(k, a)
            BY <3>1
        <3> HIDE DEF k, a
        <3>3. /\ DOMAIN clients' = DOMAIN clients \cup {k}
              /\ clients'[k].addr = a
              /\ \A j \in DOMAIN clients \ {k} : clients'[j] = clients[j]
              /\ byAddr'[a] = k
              /\ \A b \in DOMAIN byAddr' \ {a} :
                    /\ b \in DOMAIN byAddr /\ byAddr'[b] = byAddr[b]
                    /\ k \in DOMAIN clients => b # clients[k].addr
            BY <3>2, RegisteredFacts
        <3>4. ASSUME NEW b \in DOMAIN byAddr'
              PROVE  byAddr'[b] \in DOMAIN clients' /\ clients'[byAddr'[b]].addr = b
            BY <1>2, <3>3, <3>4 DEF ByAddrSound
        <3> QED
            BY <3>4 DEF ByAddrSound
    <2>3. CASE clients' = Empty /\ byAddr' = Empty
        BY <2>3 DEF ByAddrSound, Empty
    <2>4. CASE UNCHANGED <<clients, byAddr>>
        BY <1>2, <2>4 DEF ByAddrSound
    <2> QED
        BY <1>2, <2>1, <2>2, <2>3, <2>4, StepKinds
<1> QED
    BY <1>1, <1>2, PTL DEF Spec

-----------------------------------------------------------------------------

(* What claims a key comes from an address of its holder. *)
HonestSources ==
    \A m \in net : m.type \in {"register", "proof"} => m.key \in Keys /\ m.src \in AddrOf[m.key]

(* A client's address is one of its own; if it is no other's, the client is found
   by it. *)
ClientsReachable ==
    \A k \in DOMAIN clients :
        /\ k \in Keys /\ clients[k].addr \in AddrOf[k]
        /\ Exclusive(k, clients[k].addr) =>
               clients[k].addr \in DOMAIN byAddr /\ byAddr[clients[k].addr] = k

AtHome == at \in [Keys -> Addrs] /\ \A k \in Keys : at[k] \in AddrOf[k]

IInv == HonestSources /\ ClientsReachable /\ AtHome

(* What a step adds to the net comes from where its client is. *)
LEMMA SourcesStep ==
    ASSUME HonestSources, AtHome, [Next]_vars
    PROVE  HonestSources' /\ AtHome'
<1>1. CASE \E m \in net : HandleRegister(m)
    BY <1>1 DEF HonestSources, AtHome, HandleRegister, Send, Challenge
<1>2. CASE \E m \in net : HandleForward(m)
    BY <1>2 DEF HonestSources, AtHome, HandleForward, Send, Recv
<1>3. CASE \E k \in Keys : RelayRegister(k)
    BY <1>3 DEF HonestSources, AtHome, RelayRegister, Send, Register
<1>4. CASE \E k \in Keys, m \in net : AnswerChallenge(k, m)
    BY <1>4 DEF HonestSources, AtHome, AnswerChallenge, Send, Proof
<1>5. CASE \E pair \in Traffic : SendForward(pair[1], pair[2])
    BY <1>5 DEF HonestSources, AtHome, SendForward, Send, Forward
<1>6. CASE \E k \in Keys, a \in Addrs : Move(k, a)
    BY <1>6 DEF HonestSources, AtHome, Move
<1>7. CASE UNCHANGED <<net, at>>
    BY <1>7 DEF HonestSources, AtHome
<1>8. \/ \E m \in net : HandleRegister(m)
      \/ \E m \in net : HandleForward(m)
      \/ \E k \in Keys : RelayRegister(k)
      \/ \E k \in Keys, m \in net : AnswerChallenge(k, m)
      \/ \E pair \in Traffic : SendForward(pair[1], pair[2])
      \/ \E k \in Keys, a \in Addrs : Move(k, a)
      \/ UNCHANGED <<net, at>>
    BY DEF Next, HandleRefresh, HandleProof, Restart, Tick, vars
<1> QED
    BY <1>1, <1>2, <1>3, <1>4, <1>5, <1>6, <1>7, <1>8

LEMMA ReachableStep ==
    ASSUME HonestSources, ClientsReachable, [Next]_vars
    PROVE  ClientsReachable'
<1>1. CASE \E m \in net : HandleRefresh(m)
    BY <1>1, RefreshFacts DEF ClientsReachable
<1>2. CASE \E m \in net : m.type = "proof" /\ Registered(m.key, m.src)
    <2>1. PICK m \in net : m.type = "proof" /\ Registered(m.key, m.src)
        BY <1>2
    <2> DEFINE k == m.key
               a == m.src
    <2>2. k \in Keys /\ a \in AddrOf[k]
        BY <2>1 DEF HonestSources
    <2>3. Registered(k, a)
        BY <2>1
    <2> HIDE DEF k, a
    <2>4. /\ DOMAIN clients' = DOMAIN clients \cup {k}
          /\ clients'[k].addr = a
          /\ \A j \in DOMAIN clients \ {k} : clients'[j] = clients[j]
          /\ a \in DOMAIN byAddr' /\ byAddr'[a] = k
          /\ \A b \in DOMAIN byAddr \ {a} :
                (k \in DOMAIN clients => b # clients[k].addr)
                    => b \in DOMAIN byAddr' /\ byAddr'[b] = byAddr[b]
        BY <2>3, RegisteredFacts
    <2>5. ASSUME NEW j \in DOMAIN clients \ {k}, Exclusive(j, clients'[j].addr)
          PROVE  clients'[j].addr \in DOMAIN byAddr' /\ byAddr'[clients'[j].addr] = j
        <3> DEFINE b == clients[j].addr
        <3>1. Exclusive(j, b) /\ b \in DOMAIN byAddr /\ byAddr[b] = j
            BY <2>4, <2>5 DEF ClientsReachable
        <3>2. b # a
            BY <3>1, <2>2 DEF Exclusive
        <3>3. k \in DOMAIN clients => b # clients[k].addr
            BY <3>1, <2>2 DEF Exclusive, ClientsReachable
        <3> QED
            BY <2>4, <3>1, <3>2, <3>3
    <2> QED
        BY <2>2, <2>4, <2>5 DEF ClientsReachable
<1>3. CASE clients' = Empty /\ byAddr' = Empty
    BY <1>3 DEF ClientsReachable, Empty
<1>4. CASE UNCHANGED <<clients, byAddr>>
    BY <1>4 DEF ClientsReachable
<1> QED
    BY <1>1, <1>2, <1>3, <1>4, StepKinds

(* A client whose REGISTER is answered by a plain ACK, at an address no other
   client may appear from, is registered under that address in both maps, so that
   what it forwards is passed on under its own key. *)
THEOREM AckedClientsForward == Spec => []AckMeansForward
<1>1. Init => IInv
    BY DEF Init, IInv, HonestSources, ClientsReachable, AtHome, Empty
<1>2. IInv /\ [Next]_vars => IInv'
    BY SourcesStep, ReachableStep DEF IInv
<1>3. IInv => AckMeansForward
    BY DEF IInv, ClientsReachable, AtHome, AckMeansForward, IsRefresh, IsSender, Fresh
<1> QED
    BY <1>1, <1>2, <1>3, PTL DEF Spec

-----------------------------------------------------------------------------

(* The maps of Go keep their types. *)
LEMMA EmptyMap == ASSUME NEW S, NEW T PROVE IsMap(Empty, S, T)
    BY DEF IsMap, Empty

LEMMA PutMap ==
    ASSUME NEW f, NEW S, NEW T, IsMap(f, S, T), NEW x \in S, NEW v \in T
    PROVE  IsMap(Put(f, x, v), S, T)
    BY DEF IsMap, Put

LEMMA DeleteMap ==
    ASSUME NEW f, NEW S, NEW T, IsMap(f, S, T), NEW x
    PROVE  IsMap(Delete(f, x), S, T)
    BY DEF IsMap, Delete

LEMMA WidenMap ==
    ASSUME NEW f, NEW S, NEW T, NEW U, IsMap(f, S, T), T \subseteq U
    PROVE  IsMap(f, S, U)
    BY DEF IsMap

(* The values in the maps of the relay. *)
Client == [addr : Addrs, seen : 0 .. now]
Pending == [nonce : 1 .. nonces, expires : 0 .. now + ChallengeTTL]
Grants == [key : Keys, addr : Addrs, nonce : 1 .. nonces, times : {1, 2}]

(* A registration is of a client, from one of the relay's addresses, now. *)
LEMMA RegisteredType ==
    ASSUME TypeOK, NEW k \in Keys, NEW a \in Addrs, Registered(k, a), now' = now
    PROVE  IsMap(clients', Keys, Client') /\ IsMap(byAddr', Addrs, Keys)
<1> DEFINE old == IF k \in DOMAIN clients THEN clients[k].addr ELSE a
           rest == IF old # a THEN Delete(byAddr, old) ELSE byAddr
<1>1. now \in Nat /\ now \in 0 .. now
    BY BoundAssumption DEF TypeOK
<1>2. IsMap(clients, Keys, Client) /\ IsMap(byAddr, Addrs, Keys) /\ Client' = Client
    BY <1>1 DEF TypeOK, Client
<1>3. clients' = Put(clients, k, [addr |-> a, seen |-> now]) /\ byAddr' = Put(rest, a, k)
    BY DEF Registered
<1>4. IsMap(rest, Addrs, Keys)
    BY <1>2, DeleteMap
<1>5. [addr |-> a, seen |-> now] \in Client
    BY <1>1 DEF Client
<1> HIDE DEF rest
<1>6. IsMap(Put(rest, a, k), Addrs, Keys)
    BY <1>4, PutMap
<1>7. IsMap(Put(clients, k, [addr |-> a, seen |-> now]), Keys, Client)
    BY <1>2, <1>5, PutMap
<1> QED
    BY <1>2, <1>3, <1>6, <1>7

LEMMA TypeStep ==
    ASSUME TypeOK, HonestSources, [Next]_vars
    PROVE  TypeOK'
<1> USE BoundAssumption, TTLAssumption
<1>1. now \in Nat /\ nonces \in Nat /\ epoch \in Nat
    BY DEF TypeOK
<1>2. /\ IsMap(clients, Keys, Client) /\ IsMap(byAddr, Addrs, Keys)
      /\ IsMap(pending, Addrs, Pending) /\ granted \subseteq Grants
    BY DEF TypeOK, Client, Pending, Grants
<1>3. ASSUME NEW m \in net, m.type \in {"register", "proof"}
      PROVE  m.key \in Keys /\ m.src \in Addrs
    BY <1>3, AddrAssumption DEF HonestSources
<1>4. ASSUME NEW m \in net, HandleRefresh(m)
      PROVE  TypeOK'
    <2>1. m.key \in Keys /\ m.src \in Addrs
        BY <1>3, <1>4 DEF HandleRefresh
    <2>2. [addr |-> m.src, seen |-> now] \in Client
        BY <2>1, <1>1 DEF Client
    <2>3. IsMap(Put(clients, m.key, [addr |-> m.src, seen |-> now]), Keys, Client)
        BY <1>2, <2>1, <2>2, PutMap
    <2> QED
        BY <1>4, <2>3 DEF TypeOK, HandleRefresh, Client
<1>5. ASSUME NEW m \in net, HandleRegister(m)
      PROVE  TypeOK'
    <2>1. m.src \in Addrs
        BY <1>3, <1>5 DEF HandleRegister
    <2>2. nonces' = nonces + 1 /\ nonces' \in 0 .. MaxNonces /\ now' = now
        BY <1>1, <1>5 DEF HandleRegister
    <2>3. Pending \subseteq Pending' /\ Grants \subseteq Grants'
        BY <1>1, <2>2 DEF Pending, Grants
    <2>4. [nonce |-> nonces', expires |-> now + ChallengeTTL] \in Pending'
        BY <1>1, <2>2 DEF Pending
    <2>5. IsMap(pending, Addrs, Pending')
        BY <1>2, <2>3, WidenMap
    <2>6. IsMap(Put(pending, m.src, [nonce |-> nonces', expires |-> now + ChallengeTTL]),
                Addrs, Pending')
        BY <2>1, <2>4, <2>5, PutMap
    <2>7. IsMap(pending', Addrs, Pending') /\ granted' \subseteq Grants'
        BY <1>2, <1>5, <2>3, <2>6 DEF HandleRegister
    <2>8. \A d \in net' : d.type \in {"register", "challenge", "proof", "forward", "recv"}
        BY <1>5 DEF HandleRegister, Send, Challenge, TypeOK
    <2> QED
        BY <1>5, <2>2, <2>7, <2>8 DEF HandleRegister, TypeOK, Pending, Grants
<1>6. ASSUME NEW m \in net, HandleProof(m)
      PROVE  TypeOK'
    <2>1. m.key \in Keys /\ m.src \in Addrs /\ m.src \in DOMAIN pending
          /\ m.nonce = pending[m.src].nonce
        BY <1>3, <1>6 DEF HandleProof, IsAnswer
    <2>2. UNCHANGED <<epoch, nonces, now, at, net>> /\ pending' = Delete(pending, m.src)
        BY <1>6 DEF HandleProof
    <2>3. m.nonce \in 1 .. nonces
        BY <1>2, <2>1 DEF IsMap, Pending
    <2>4. IsMap(pending', Addrs, Pending')
        <3>1. IsMap(Delete(pending, m.src), Addrs, Pending)
            BY <1>2, DeleteMap
        <3> QED
            BY <2>2, <3>1 DEF Pending
    <2>5. Grant(m.key, m.src, m.nonce) \in Grants
        BY <2>1, <2>3 DEF Grant, Grants
    <2>6. granted' \subseteq Grants'
        BY <1>2, <1>6, <2>2, <2>5 DEF HandleProof, Grants
    <2>7. IsMap(clients', Keys, Client') /\ IsMap(byAddr', Addrs, Keys)
        <3>1. CASE m.epoch = epoch
            BY <1>6, <2>1, <2>2, <3>1, RegisteredType DEF HandleProof
        <3>2. CASE m.epoch # epoch
            BY <1>2, <1>6, <2>2, <3>2 DEF HandleProof, Client
        <3> QED
            BY <3>1, <3>2
    <2> QED
        BY <2>2, <2>4, <2>6, <2>7 DEF TypeOK, Client, Pending, Grants
<1>7. CASE Restart
    <2>1. /\ IsMap(Empty, Keys, Client) /\ IsMap(Empty, Addrs, Keys)
          /\ IsMap(Empty, Addrs, Pending)
        BY EmptyMap
    <2> QED
        BY <1>1, <1>7, <2>1 DEF TypeOK, Restart, Client, Pending
<1>8. CASE Tick
    <2>1. now' = now + 1 /\ now' \in 0 .. MaxTime /\ nonces' = nonces
        BY <1>1, <1>8 DEF Tick
    <2>2. Client \subseteq Client' /\ Pending \subseteq Pending'
        BY <1>1, <2>1 DEF Client, Pending
    <2>3. IsMap(clients, Keys, Client') /\ IsMap(pending, Addrs, Pending')
        BY <1>2, <2>2, WidenMap
    <2> QED
        BY <1>8, <2>1, <2>3 DEF TypeOK, Tick, Client, Pending
<1>9. ASSUME NEW d, d.type \in {"register", "challenge", "proof", "forward", "recv"}, Send(d),
             UNCHANGED <<clients, byAddr, pending, epoch, nonces, now, at, granted>>
      PROVE  TypeOK'
    BY <1>9 DEF Send, TypeOK
<1>10. CASE \E m \in net : HandleForward(m)
    BY <1>9, <1>10 DEF HandleForward, Recv
<1>11. CASE \E k \in Keys : RelayRegister(k)
    BY <1>9, <1>11 DEF RelayRegister, Register
<1>12. CASE \E k \in Keys, m \in net : AnswerChallenge(k, m)
    BY <1>9, <1>12 DEF AnswerChallenge, Proof
<1>13. CASE \E pair \in Traffic : SendForward(pair[1], pair[2])
    BY <1>9, <1>13 DEF SendForward, Forward
<1>14. CASE \E k \in Keys, a \in Addrs : Move(k, a)
    BY <1>14 DEF Move, TypeOK
<1>15. CASE UNCHANGED vars
    BY <1>15 DEF vars, TypeOK
<1> QED
    BY <1>4, <1>5, <1>6, <1>7, <1>8, <1>10, <1>11, <1>12, <1>13, <1>14, <1>15 DEF Next

(* The relay registers only its clients, at addresses they may appear from; the
   nonces it waits for and the ones it granted were drawn. *)
THEOREM TypeCorrect == Spec => []TypeOK
<1>1. Init => TypeOK /\ HonestSources /\ AtHome
    <2> SUFFICES ASSUME Init
                 PROVE  TypeOK /\ HonestSources /\ AtHome
        OBVIOUS
    <2>1. /\ IsMap(Empty, Keys, Client) /\ IsMap(Empty, Addrs, Keys)
          /\ IsMap(Empty, Addrs, Pending)
        BY EmptyMap
    <2> QED
        BY <2>1, BoundAssumption DEF Init, TypeOK, HonestSources, AtHome, Client, Pending
<1>2. TypeOK /\ HonestSources /\ AtHome /\ [Next]_vars
          => TypeOK' /\ HonestSources' /\ AtHome'
    BY TypeStep, SourcesStep
<1> QED
    BY <1>1, <1>2, PTL DEF Spec

-----------------------------------------------------------------------------

(* A proof stays in the net once it is there, and a registration follows one. *)
LEMMA ProvedStep ==
    ASSUME ProvedRegistration, [Next]_vars
    PROVE  ProvedRegistration'
<1>1. CASE Restart
    BY <1>1 DEF Restart, ProvedRegistration, Empty
<1>2. ASSUME ~Restart
      PROVE  net \subseteq net' /\ epoch' = epoch
    BY <1>2 DEF Next, HandleRefresh, HandleRegister, HandleProof, HandleForward, RelayRegister,
                AnswerChallenge, SendForward, Move, Tick, vars, Send
<1>3. ASSUME ~Restart, DOMAIN clients' = DOMAIN clients,
             \A j \in DOMAIN clients : clients'[j].addr = clients[j].addr
      PROVE  ProvedRegistration'
    BY <1>2, <1>3 DEF ProvedRegistration, Frames
<1>4. CASE ~Restart /\ \E m \in net : HandleRefresh(m)
    BY <1>3, <1>4, RefreshFacts
<1>5. ASSUME ~Restart, NEW m \in net, HandleProof(m), m.epoch = epoch
      PROVE  ProvedRegistration'
    <2> DEFINE k == m.key
               a == m.src
    <2>1. m.type = "proof" /\ Registered(k, a)
        BY <1>5 DEF HandleProof, IsAnswer
    <2>2. m \in Frames("proof")' /\ m.key = k /\ m.src = a /\ m.epoch = epoch'
        BY <1>2, <1>5, <2>1 DEF Frames
    <2> HIDE DEF k, a
    <2>3. /\ DOMAIN clients' = DOMAIN clients \cup {k}
          /\ clients'[k].addr = a
          /\ \A j \in DOMAIN clients \ {k} : clients'[j] = clients[j]
        BY <2>1, RegisteredFacts
    <2>4. ASSUME NEW j \in DOMAIN clients \ {k}
          PROVE  \E d \in Frames("proof")' : d.key = j /\ d.src = clients'[j].addr /\ d.epoch = epoch'
        BY <1>2, <1>5, <2>3, <2>4 DEF ProvedRegistration, Frames
    <2>5. ASSUME NEW j \in DOMAIN clients'
          PROVE  \E d \in Frames("proof")' : d.key = j /\ d.src = clients'[j].addr /\ d.epoch = epoch'
        BY <2>2, <2>3, <2>4, <2>5
    <2> QED
        BY <2>5 DEF ProvedRegistration
<1>6. CASE ~Restart /\ UNCHANGED clients
    BY <1>3, <1>6
<1>7. \/ Restart
      \/ \E m \in net : HandleRefresh(m)
      \/ \E m \in net : HandleProof(m) /\ m.epoch = epoch
      \/ UNCHANGED clients
    BY DEF Next, HandleRegister, HandleProof, HandleForward, RelayRegister, AnswerChallenge,
           SendForward, Move, Tick, vars
<1> QED
    BY <1>1, <1>4, <1>5, <1>6, <1>7

(* Whoever is registered proved, from there and to the relay as it runs now, that
   it holds the key: no order, loss or repetition of the frames, no change of
   address and no restart brings an entry that was not earned. *)
THEOREM OnlyProvedKeys == Spec => []ProvedRegistration
<1>1. Init => ProvedRegistration
    BY DEF Init, ProvedRegistration, Empty
<1>2. ProvedRegistration /\ [Next]_vars => ProvedRegistration'
    BY ProvedStep
<1> QED
    BY <1>1, <1>2, PTL DEF Spec

-----------------------------------------------------------------------------

(* A nonce is in one place: pending at one address, or granted once. *)
NoncesApart ==
    /\ \A a, b \in DOMAIN pending : pending[a].nonce = pending[b].nonce => a = b
    /\ \A a \in DOMAIN pending, g \in granted : g.nonce # pending[a].nonce

LEMMA NoncesStep ==
    ASSUME TypeOK, NoncesApart, NonceSingleUse, [Next]_vars
    PROVE  NoncesApart' /\ NonceSingleUse'
<1>1. /\ nonces \in Nat
      /\ \A a \in DOMAIN pending : pending[a].nonce \in 1 .. nonces
      /\ \A g \in granted : g.nonce \in 1 .. nonces
    BY BoundAssumption DEF TypeOK, IsMap
<1>2. ASSUME NEW m \in net, HandleRegister(m)
      PROVE  NoncesApart' /\ NonceSingleUse'
    <2> DEFINE new == [nonce |-> nonces', expires |-> now + ChallengeTTL]
    <2>1. nonces' = nonces + 1 /\ pending' = Put(pending, m.src, new) /\ granted' = granted
        BY <1>2 DEF HandleRegister
    <2>2. /\ DOMAIN pending' = DOMAIN pending \cup {m.src}
          /\ pending'[m.src].nonce = nonces + 1
          /\ \A a \in DOMAIN pending \ {m.src} : pending'[a] = pending[a]
        BY <2>1 DEF Put
    <2>3. \A a \in DOMAIN pending' \ {m.src} : pending'[a].nonce # nonces + 1
        BY <1>1, <2>2
    <2>4. \A g \in granted : g.nonce # nonces + 1
        BY <1>1
    <2> QED
        BY <2>1, <2>2, <2>3, <2>4 DEF NoncesApart, NonceSingleUse
<1>3. ASSUME NEW m \in net, HandleProof(m)
      PROVE  NoncesApart' /\ NonceSingleUse'
    <2>1. /\ m.src \in DOMAIN pending /\ m.nonce = pending[m.src].nonce
          /\ pending' = Delete(pending, m.src)
          /\ \/ granted' = granted
             \/ granted' = granted \cup {Grant(m.key, m.src, m.nonce)}
        BY <1>3 DEF HandleProof, IsAnswer
    <2>2. /\ DOMAIN pending' = DOMAIN pending \ {m.src}
          /\ \A a \in DOMAIN pending' : pending'[a] = pending[a]
        BY <2>1 DEF Delete
    <2>3. \A g \in granted : g.nonce # m.nonce
        BY <2>1 DEF NoncesApart
    <2>4. Grant(m.key, m.src, m.nonce).nonce = m.nonce
          /\ Grant(m.key, m.src, m.nonce).times = 1
        BY <2>3 DEF Grant
    <2>5. \A a \in DOMAIN pending' : pending'[a].nonce # m.nonce
        BY <2>1, <2>2 DEF NoncesApart
    <2>6. \A g \in granted' : g \in granted \/ g = Grant(m.key, m.src, m.nonce)
        BY <2>1
    <2>7. NonceSingleUse'
        BY <2>3, <2>4, <2>6 DEF NonceSingleUse
    <2>8. NoncesApart'
        BY <2>2, <2>4, <2>5, <2>6 DEF NoncesApart
    <2> QED
        BY <2>7, <2>8
<1>4. CASE pending' = Empty /\ granted' = granted
    BY <1>4 DEF Empty, NoncesApart, NonceSingleUse
<1>5. CASE UNCHANGED <<pending, granted>>
    BY <1>5 DEF NoncesApart, NonceSingleUse
<1> QED
    BY <1>2, <1>3, <1>4, <1>5 DEF Next, HandleRefresh, HandleForward, Restart, RelayRegister,
       AnswerChallenge, SendForward, Move, Tick, vars

(* One challenge grants one registration: a nonce is drawn once, is pending at one
   address, and is no longer pending when it has been answered. *)
THEOREM NonceGrantsOnce == Spec => []NonceSingleUse
<1>1. Init => NoncesApart /\ NonceSingleUse
    BY DEF Init, NoncesApart, NonceSingleUse, Empty
<1>2. TypeOK /\ NoncesApart /\ NonceSingleUse /\ [Next]_vars => NoncesApart' /\ NonceSingleUse'
    BY NoncesStep
<1> QED
    BY <1>1, <1>2, TypeCorrect, PTL DEF Spec

-----------------------------------------------------------------------------

(* What is forwarded was sent from an address of its sender. *)
HonestForwards ==
    \A m \in net : m.type = "forward" => m.sender \in Keys /\ m.src \in AddrOf[m.sender]

LEMMA AttributionStep ==
    ASSUME AtHome, ClientsReachable, HonestForwards, Attribution, [Next]_vars
    PROVE  HonestForwards' /\ Attribution'
<1>1. ASSUME NEW d, d.type \notin {"forward", "recv"}, Send(d)
      PROVE  HonestForwards' /\ Attribution'
    BY <1>1 DEF Send, HonestForwards, Attribution, Frames
<1>2. ASSUME NEW m \in net, HandleForward(m)
      PROVE  HonestForwards' /\ Attribution'
    <2>1. PICK k \in Keys : IsSender(k, m.src) /\ Send(Recv(k, clients[m.key].addr, m))
        BY <1>2 DEF HandleForward
    <2> DEFINE d == Recv(k, clients[m.key].addr, m)
    <2>2. m.sender \in Keys /\ m.src \in AddrOf[m.sender]
        BY <1>2 DEF HandleForward, HonestForwards
    <2>3. k \in DOMAIN clients /\ m.src \in AddrOf[k]
        BY <2>1 DEF IsSender, Fresh, ClientsReachable
    <2>4. d.type = "recv" /\ d.sender = m.sender /\ d.from = m.src /\ d.key = k
        BY DEF Recv
    <2>5. Exclusive(d.sender, d.from) => d.key = d.sender
        BY <2>3, <2>4 DEF Exclusive
    <2>6. net' = net \cup {d}
        BY <2>1 DEF Send
    <2> HIDE DEF d
    <2> QED
        BY <2>4, <2>5, <2>6 DEF HonestForwards, Attribution, Frames
<1>3. ASSUME NEW k \in Keys, NEW dst, SendForward(k, dst)
      PROVE  HonestForwards' /\ Attribution'
    <2> DEFINE d == Forward(k, at[k], dst)
    <2>1. d.type = "forward" /\ d.sender \in Keys /\ d.src \in AddrOf[d.sender]
        BY DEF Forward, AtHome
    <2>2. net' = net \cup {d}
        BY <1>3 DEF SendForward, Send
    <2> HIDE DEF d
    <2> QED
        BY <2>1, <2>2 DEF HonestForwards, Attribution, Frames
<1>4. CASE net' = net
    BY <1>4 DEF HonestForwards, Attribution, Frames
<1>5. CASE \E m \in net : HandleRegister(m)
    BY <1>1, <1>5 DEF HandleRegister, Challenge
<1>6. CASE \E k \in Keys : RelayRegister(k)
    BY <1>1, <1>6 DEF RelayRegister, Register
<1>7. CASE \E k \in Keys, m \in net : AnswerChallenge(k, m)
    BY <1>1, <1>7 DEF AnswerChallenge, Proof
<1>8. CASE \E pair \in Traffic : SendForward(pair[1], pair[2])
    BY <1>3, <1>8, TrafficAssumption
<1> QED
    BY <1>2, <1>4, <1>5, <1>6, <1>7, <1>8 DEF Next, HandleRefresh, HandleProof, Restart, Move,
       Tick, vars

(* A packet from an address that only its sender may appear from is passed on under
   the sender's key, however late it arrives and whatever was registered since. *)
THEOREM ForwardedUnderOwnKey == Spec => []Attribution
<1> DEFINE Inv == IInv /\ HonestForwards /\ Attribution
<1>1. Init => Inv
    BY DEF Init, IInv, HonestSources, ClientsReachable, AtHome, Empty, HonestForwards,
           Attribution, Frames
<1>2. Inv /\ [Next]_vars => Inv'
    BY SourcesStep, ReachableStep, AttributionStep DEF IInv
<1> QED
    BY <1>1, <1>2, PTL DEF Spec
=============================================================================
