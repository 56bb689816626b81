---------------------------- MODULE DaemonProofs ----------------------------
(***************************************************************************)
(* The safety properties of the agent's process and of its socket, for any *)
(* number of processes, changes of port, STUN servers and transactions.    *)
(*                                                                         *)
(* None of them is inductive by itself.  DInv adds what makes them so:     *)
(* which steps of the start and of the end leave what on the machine, that *)
(* a transaction in stunTx has an empty channel and nobody about to write  *)
(* to it, and that every address between the socket and myEndpoints was    *)
(* seen by a server.                                                       *)
(***************************************************************************)
EXTENDS Daemon, WellFoundedInduction, TLAPS

-----------------------------------------------------------------------------
(* The inductive invariant *)

(* The parts of TypeOK. *)
ControlTypeOK ==
    /\ main \in {"off", "address", "mark", "route", "suppress", "rule"} \cup Loop
                  \cup {"unrule", "unsuppress", "unpid", "close", "bind", "wait"}
    /\ front \in {"none", "up", "Running", "StopPending"}
    /\ ipc \in {"free", "close", "rebind"}
    /\ pid \in 0 .. MaxStarts /\ pidfile \in 0 .. MaxStarts /\ rebinds \in 0 .. MaxRebinds

HistoryTypeOK ==
    /\ rules \subseteq {Suppress, Mark} /\ orphans \subseteq {Suppress, Mark}
    /\ killed \subseteq 1 .. MaxStarts

FlagsTypeOK ==
    /\ exit \in BOOLEAN /\ deferred \in BOOLEAN /\ cancelled \in BOOLEAN
    /\ pending \in BOOLEAN /\ refused \in BOOLEAN
    /\ iface \in BOOLEAN /\ route \in BOOLEAN /\ mark \in BOOLEAN

RequestTypeOK ==
    /\ req \in [id : 0 .. MaxRequests, srv : 0 .. Len(Servers) + 1]
    /\ lastId \in 0 .. MaxRequests
    /\ endpoint \in [id : Ids, addr : Addresses] \cup {NoEndpoint}

UdpTypeOK == udp \in [open : BOOLEAN, marked : BOOLEAN]

AnswerTypeOK ==
    /\ stunTx \subseteq Ids
    /\ chan \in [Ids -> Addresses \cup {None}]
    /\ recv \in {Reading, Off, InPong} \cup {Delivering(i, a) : i \in Ids, a \in Addresses}
    /\ seen \subseteq Ids \X (DOMAIN Servers) \X Addresses

(* A request waits only while Up is in STUNRequest; it is to a server there is, and no
   later than the last one drawn. *)
Requests ==
    /\ req.id # 0 => main = "stun" /\ req.srv \in DOMAIN Servers
    /\ req.id <= lastId

(* A process that is not there has no state; its interface and its route go with it. *)
Gone ==
    /\ front = "none" => main = "off"
    /\ front # "none" => pid # 0
    /\ main = "off" =>
          /\ req = NoRequest /\ ipc = "free" /\ ~udp.open /\ recv = Off
          /\ stunTx = {} /\ chan = [i \in Ids |-> None]
    /\ main \in {"off", "bind", "wait"} => ~iface
    /\ main \in {"off", "address", "mark", "bind", "wait"} => ~route

(* The socket is marked before there is a route to the exit node. *)
Marked == route \/ main = "route" => mark /\ (udp.open /\ ~refused => udp.marked)

(* The steps of EnableExitNode that are done. *)
Enabled ==
    /\ main \in {"suppress", "rule"} => route
    /\ main = "rule" => Suppress \in rules
    /\ exit /\ main \in Loop => route /\ rules = {Suppress, Mark}

(* A rule that is no orphan is there only while what removes it is still to come. *)
RulesOwned ==
    \/ rules \subseteq orphans
    \/ main \in {"rule", "unsuppress"} /\ rules \subseteq orphans \cup {Suppress}
    \/ main = "unrule"
    \/ main \in Loop /\ deferred

(* So is the pid file of a process that was not killed. *)
PidOwned ==
    \/ pidfile \in {0} \cup killed
    \/ pidfile = pid /\ main \notin {"off", "address", "close", "bind", "wait"}

(* A channel is written once: while its transaction is registered it is empty and
   nobody is about to write to it. *)
OneAnswer ==
    /\ stunTx \subseteq {req.id}
    /\ \A i \in stunTx : chan[i] = None /\ (recv.at = "deliver" => recv.id # i)
    /\ recv.at = "deliver" => recv.id <= lastId /\ chan[recv.id] = None
    /\ \A i \in Ids : chan[i] # None => i <= lastId

(* Request id was answered with the address a. *)
Answered(id, a) == \E s \in seen : s[1] = id /\ s[3] = a

(* Every address on its way from the socket to the endpoints was seen by a server. *)
Observed ==
    /\ recv.at = "deliver" => Answered(recv.id, recv.addr)
    /\ \A i \in Ids : chan[i] # None => Answered(i, chan[i])
    /\ endpoint # NoEndpoint => Answered(endpoint.id, endpoint.addr)

Types ==
    /\ ControlTypeOK /\ HistoryTypeOK /\ FlagsTypeOK
    /\ RequestTypeOK /\ UdpTypeOK /\ AnswerTypeOK

(* The inductive invariant. *)
DInv ==
    /\ Types /\ Requests /\ Gone
    /\ Marked /\ Enabled /\ RulesOwned /\ PidOwned
    /\ OneAnswer /\ Observed

-----------------------------------------------------------------------------
(* The STUN codec *)

(* A set of naturals that is not empty has a least element: there is a first
   XOR-MAPPED-ADDRESS for ParseBindingResponse to choose. *)
LEMMA Smallest ==
    ASSUME NEW S \in SUBSET Nat, S # {}
    PROVE  \E i \in S : \A j \in S : i <= j
<1> DEFINE R == {ss \in Nat \X Nat : ss[1] < ss[2]}
<1>1. IsWellFoundedOn(R, Nat)
    BY NatLessThanWellFounded DEF OpToRel
<1>2. \A i, j \in Nat : j < i => <<j, i>> \in R
    OBVIOUS
<1> HIDE DEF R
<1>3. PICK i \in S : \A j \in S : ~(<<j, i>> \in R)
    BY <1>1, WFMin
<1>4. \A j \in S : i \in Nat /\ j \in Nat /\ ~(j < i)
    BY <1>2, <1>3
<1> QED
    BY <1>4

(* With a bound it has a greatest one: the last MAPPED-ADDRESS. *)
LEMMA Largest ==
    ASSUME NEW n \in Nat, NEW S \in SUBSET (0 .. n), S # {}
    PROVE  \E i \in S : \A j \in S : j <= i
<1> DEFINE D == {d \in Nat : \E i \in S : d = n - i}
<1>1. \A i \in S : i \in 0 .. n /\ n - i \in Nat /\ n - i \in D
    OBVIOUS
<1>2. D \in SUBSET Nat /\ D # {}
    BY <1>1
<1>3. PICK d \in D : \A e \in D : d <= e
    <2> HIDE DEF D
    <2> QED
        BY <1>2, Smallest
<1>4. PICK i \in S : d = n - i
    BY <1>3
<1>5. \A j \in S : j \in 0 .. n /\ i \in 0 .. n /\ n - i <= n - j
    BY <1>1, <1>3, <1>4
<1>6. \A j \in S : j <= i
    BY <1>5
<1> QED
    BY <1>6

(* The addresses there are on the wire. *)
Wire == [{1} -> {0, 1}] \cup [{1, 2} -> {0, 1}]

(* XOR-MAPPED-ADDRESS is decoded by encoding it again. *)
LEMMA XorTwice ==
    ASSUME NEW id \in Nat, NEW a \in Wire
    PROVE  Xor(Xor(a, id), id) = a
<1> DEFINE k == XorKey(id)
<1>1. k[1] \in {0, 1} /\ k[2] \in {0, 1}
    BY DEF XorKey
<1> HIDE DEF k
<1>2. \A x, y \in {0, 1} : (((x + y) % 2) + y) % 2 = x
    OBVIOUS
<1> DEFINE b == [i \in DOMAIN a |-> (a[i] + k[i]) % 2]
           c == [i \in DOMAIN b |-> (b[i] + k[i]) % 2]
<1>3. /\ DOMAIN a \in {{1}, {1, 2}} /\ a = [i \in DOMAIN a |-> a[i]]
      /\ \A i \in DOMAIN a : a[i] \in {0, 1}
    BY DEF Wire
<1>4. DOMAIN c = DOMAIN a /\ \A i \in DOMAIN a : c[i] = (((a[i] + k[i]) % 2) + k[i]) % 2
    OBVIOUS
<1>5. \A i \in DOMAIN a : k[i] \in {0, 1}
    BY <1>1, <1>3
<1>6. \A i \in DOMAIN a : c[i] = a[i]
    BY <1>2, <1>3, <1>4, <1>5
<1>7. c = a
    BY <1>3, <1>4, <1>6
<1>8. Xor(Xor(a, id), id) = c
    BY DEF Xor, k
<1> QED
    BY <1>7, <1>8

(* ParseBindingResponse reads the address that the server wrote, whichever attributes it
   sends, in which order and how many times: the first XOR-MAPPED-ADDRESS or, without
   one, the last MAPPED-ADDRESS. *)
LEMMA ParsedAsBuilt ==
    ASSUME NEW id \in Nat, NEW srv \in DOMAIN Servers, NEW a \in Addresses
    PROVE  ParseBindingResponse(BuildBindingResponse(id, Servers[srv], a)) = a
<1> DEFINE types == Servers[srv]
           p == BuildBindingResponse(id, types, a)
           Xors == {i \in DOMAIN p.attrs : p.attrs[i].type = "xor"}
           Mapped == {i \in DOMAIN p.attrs : p.attrs[i].type = "mapped"}
           first == CHOOSE i \in Xors : \A j \in Xors : i <= j
           last == CHOOSE i \in Mapped : \A j \in Mapped : i >= j
<1>1. /\ types \in Seq({"xor", "mapped", "other"})
      /\ \E i \in DOMAIN types : types[i] \in {"xor", "mapped"}
    BY ServerAssumption
<1>2. Len(types) \in Nat /\ DOMAIN types = 1 .. Len(types)
    BY <1>1
<1> HIDE DEF types
<1>3. /\ p.id = id /\ DOMAIN p.attrs = DOMAIN types
      /\ \A i \in DOMAIN types :
            /\ p.attrs[i].type = types[i]
            /\ p.attrs[i].value = IF types[i] = "xor" THEN Xor(a, id) ELSE a
    BY DEF BuildBindingResponse
<1> HIDE DEF p
<1> SUFFICES ParseBindingResponse(p) = a
    BY DEF p, types
<1>4. ParseBindingResponse(p) = IF Xors # {} THEN Xor(p.attrs[first].value, p.id)
                                ELSE p.attrs[last].value
    BY DEF ParseBindingResponse
<1>5. CASE Xors # {}
    <2>1. Xors \in SUBSET Nat
        BY <1>2, <1>3
    <2> HIDE DEF Xors
    <2>2. \E i \in Xors : \A j \in Xors : i <= j
        BY <1>5, <2>1, Smallest
    <2>3. first \in Xors
        BY <2>2
    <2> HIDE DEF first
    <2>4. p.attrs[first].value = Xor(a, id)
        BY <1>3, <2>3 DEF Xors
    <2>5. a \in Wire
        BY AddressAssumption DEF Wire
    <2>6. Xor(p.attrs[first].value, p.id) = a
        BY <1>3, <2>4, <2>5, XorTwice
    <2> QED
        BY <1>4, <1>5, <2>6
<1>6. CASE Xors = {}
    <2>1. PICK i \in DOMAIN types : types[i] \in {"xor", "mapped"}
        BY <1>1
    <2>2. i \in Mapped
        BY <1>3, <1>6, <2>1
    <2>3. Mapped \in SUBSET (0 .. Len(types)) /\ Mapped # {}
        BY <1>2, <1>3, <2>2
    <2>4. \A x, y \in Mapped : y <= x => x >= y
        BY <1>2, <2>3
    <2> HIDE DEF Mapped
    <2>5. \E x \in Mapped : \A j \in Mapped : j <= x
        BY <1>2, <2>3, Largest
    <2>6. last \in Mapped
        BY <2>4, <2>5
    <2> HIDE DEF last
    <2>7. p.attrs[last].value = a
        BY <1>3, <2>6 DEF Mapped
    <2> QED
        BY <1>4, <1>6, <2>7
<1> QED
    BY <1>5, <1>6

-----------------------------------------------------------------------------
(* The exit node *)

(* A step of EnableExitNode that succeeds, and one that fails. *)
ExitStep(at, to) ==
    /\ main = at /\ main' = to
    /\ deferred' = (to = "sync")
    /\ orphans' = IF to = "sync" THEN {} ELSE orphans

ExitFailed ==
    /\ main \in {"mark", "route", "suppress", "rule"} /\ main' = "unpid"
    /\ orphans' = IF main = "rule" THEN orphans \cup {Suppress} ELSE orphans
    /\ \/ main = "mark" /\ SetMark(FALSE)
       \/ UNCHANGED <<mark, udp>>
    /\ UNCHANGED <<deferred, route, rules>>

(* EnableExitNode without its table of steps. *)
ExitNodeStep ==
    /\ \/ ExitStep("mark", "route") /\ SetMark(TRUE) /\ UNCHANGED <<route, rules>>
       \/ ExitStep("route", "suppress") /\ route' = TRUE /\ UNCHANGED <<rules, udp, mark>>
       \/ ExitStep("suppress", "rule") /\ rules' = rules \cup {Suppress}
                                       /\ UNCHANGED <<route, udp, mark>>
       \/ ExitStep("rule", "sync") /\ rules' = rules \cup {Mark}
                                   /\ UNCHANGED <<route, udp, mark>>
       \/ ExitFailed
    /\ UNCHANGED <<front, exit, cancelled, pid, req, lastId, endpoint, pending, ipc, iface,
                   pidfile, rebinds, killed, refused, stunTx, chan, recv, seen>>

(* Every step of EnableExitNode is one of these. *)
LEMMA ExitNodeSteps ==
    ASSUME EnableExitNode
    PROVE  ExitNodeStep
<1>1. /\ DOMAIN ExitSteps = {"mark", "route", "suppress", "rule"}
      /\ ExitSteps["mark"] = "route" /\ ExitSteps["route"] = "suppress"
      /\ ExitSteps["suppress"] = "rule" /\ ExitSteps["rule"] = "sync"
    BY DEF ExitSteps
<1>2. CASE ExitEffect /\ main' = ExitSteps[main] /\ deferred' = (main' = "sync")
           /\ orphans' = IF main' = "sync" THEN {} ELSE orphans
    <2>1. CASE main = "mark"
        BY <1>1, <1>2, <2>1 DEF EnableExitNode, ExitEffect, ExitNodeStep, ExitStep
    <2>2. CASE main = "route"
        BY <1>1, <1>2, <2>2 DEF EnableExitNode, ExitEffect, ExitNodeStep, ExitStep
    <2>3. CASE main = "suppress"
        BY <1>1, <1>2, <2>3 DEF EnableExitNode, ExitEffect, ExitNodeStep, ExitStep
    <2>4. CASE main = "rule"
        BY <1>1, <1>2, <2>4 DEF EnableExitNode, ExitEffect, ExitNodeStep, ExitStep
    <2> QED
        BY <1>1, <2>1, <2>2, <2>3, <2>4 DEF EnableExitNode
<1>3. CASE /\ main' = "unpid"
           /\ orphans' = orphans \cup {r \in {Suppress} : main = "rule"}
           /\ IF main = "mark" THEN ipc = "free" /\ SetMark(FALSE) ELSE UNCHANGED <<mark, udp>>
           /\ UNCHANGED <<deferred, route, rules>>
    BY <1>1, <1>3 DEF EnableExitNode, ExitNodeStep, ExitFailed
<1> QED
    BY <1>2, <1>3 DEF EnableExitNode

-----------------------------------------------------------------------------
(* The socket and its transactions *)

(* The socket keeps its type when it is opened, marked or closed. *)
LEMMA UdpSteps ==
    ASSUME UdpTypeOK, mark \in BOOLEAN, NEW ok \in BOOLEAN,
           Open(ok) \/ Close \/ SetMark(ok) \/ SocketGone \/ UNCHANGED udp
    PROVE  UdpTypeOK'
<1>1. CASE Open(ok)
    <2>1. (mark /\ ok) \in BOOLEAN
        OBVIOUS
    <2> DEFINE m == mark /\ ok
    <2>2. udp' = [open |-> TRUE, marked |-> m] /\ m \in BOOLEAN
        BY <1>1, <2>1, Zenon DEF Open
    <2> HIDE DEF m
    <2> QED
        BY <2>2 DEF UdpTypeOK
<1>2. CASE SetMark(ok)
    <2> DEFINE m == udp.open /\ (ok \/ udp.marked)
    <2>1. m \in BOOLEAN
        OBVIOUS
    <2>2. udp' = [udp EXCEPT !.marked = m]
        BY <1>2, Zenon DEF SetMark
    <2> HIDE DEF m
    <2> QED
        BY <2>1, <2>2 DEF UdpTypeOK
<1>3. CASE udp' = Closed
    BY <1>3 DEF Closed, UdpTypeOK
<1>4. CASE UNCHANGED udp
    BY <1>4 DEF UdpTypeOK
<1> QED
    BY <1>1, <1>2, <1>3, <1>4 DEF Close, SocketGone

(* Steps that do not touch the transactions: the reading goroutine may start, end or
   handle a pong. *)
LEMMA SocketIdle ==
    ASSUME AnswerTypeOK, OneAnswer, Observed,
           UNCHANGED <<stunTx, chan, seen, req, lastId, endpoint>>,
           recv' \in {recv, Reading, Off, InPong}
    PROVE  AnswerTypeOK' /\ OneAnswer' /\ Observed'
<1>1. CASE recv' = recv
    BY <1>1 DEF AnswerTypeOK, OneAnswer, Observed, Answered
<1>2. CASE recv' \in {Reading, Off, InPong}
    <2>1. AnswerTypeOK'
        BY <1>2 DEF AnswerTypeOK
    <2>2. recv'.at # "deliver"
        BY <1>2 DEF Reading, Off, InPong
    <2>3. OneAnswer' /\ Observed'
        BY <2>2 DEF OneAnswer, Observed, Answered
    <2> QED
        BY <2>1, <2>3
<1> QED
    BY <1>1, <1>2

(* Nothing is left of the transactions of a process that ends. *)
LEMMA SocketCleared ==
    ASSUME ProcessGone
    PROVE  AnswerTypeOK' /\ OneAnswer' /\ Observed'
<1>1. stunTx' = {} /\ chan' = [i \in Ids |-> None] /\ recv' = Off /\ seen' = {}
    BY DEF ProcessGone, SocketGone
<1>2. endpoint' = NoEndpoint
    BY DEF ProcessGone
<1>3. AnswerTypeOK'
    BY <1>1 DEF AnswerTypeOK
<1>4. recv'.at # "deliver" /\ \A i \in Ids : chan'[i] = None
    BY <1>1 DEF Off
<1>5. OneAnswer' /\ Observed'
    BY <1>1, <1>2, <1>4 DEF OneAnswer, Observed
<1> QED
    BY <1>3, <1>5

(* STUNRequest draws a new transaction: nobody has written to its channel. *)
LEMMA RequestKeeps ==
    ASSUME RequestTypeOK, AnswerTypeOK, Requests, OneAnswer, Observed, STUNRequest
    PROVE  RequestTypeOK' /\ AnswerTypeOK' /\ OneAnswer' /\ Observed'
<1>1. /\ req.srv \in DOMAIN Servers /\ req.id = 0 /\ lastId \in 0 .. MaxRequests
      /\ lastId < MaxRequests /\ lastId' = lastId + 1
      /\ UNCHANGED <<chan, recv, seen, endpoint>>
    BY DEF STUNRequest, RequestTypeOK
<1>2. lastId' \in Ids /\ stunTx = {} /\ lastId' \in 0 .. MaxRequests
    BY <1>1, RequestAssumption DEF OneAnswer, AnswerTypeOK, Ids
<1>3. Observed'
    BY <1>1 DEF Observed, Answered
<1>4. CASE stunTx' = {lastId'} /\ req' = [req EXCEPT !.id = lastId']
    <2>1. req'.id = lastId' /\ RequestTypeOK'
        BY <1>1, <1>2, <1>4 DEF RequestTypeOK
    <2>2. AnswerTypeOK'
        BY <1>1, <1>2, <1>4 DEF AnswerTypeOK
    <2>3. \A i \in Ids : chan[i] # None => i <= lastId
        BY DEF OneAnswer
    <2>4. chan[lastId'] = None
        BY <1>1, <1>2, <2>3
    <2>5. recv.at = "deliver" => recv.id \in Nat /\ recv.id <= lastId /\ chan[recv.id] = None
        BY <1>1 DEF OneAnswer, AnswerTypeOK, Delivering, Reading, Off, InPong, Ids
    <2>6. recv.at = "deliver" => recv.id <= lastId' /\ recv.id # lastId'
        BY <1>1, <2>5
    <2>7. \A i \in Ids : chan[i] # None => i <= lastId'
        BY <1>1, <2>3 DEF Ids
    <2>8. OneAnswer'
        BY <1>1, <1>4, <2>1, <2>4, <2>5, <2>6, <2>7 DEF OneAnswer
    <2> QED
        BY <1>3, <2>1, <2>2, <2>8
<1>5. CASE stunTx' = stunTx /\ req' = [req EXCEPT !.srv = req.srv + 1]
    <2>1. req'.id = 0 /\ RequestTypeOK'
        BY <1>1, <1>2, <1>5, ServerAssumption DEF RequestTypeOK
    <2>2. AnswerTypeOK'
        BY <1>1, <1>5 DEF AnswerTypeOK
    <2>3. recv.at = "deliver" => recv.id \in Nat /\ recv.id <= lastId /\ chan[recv.id] = None
        BY <1>1 DEF OneAnswer, AnswerTypeOK, Delivering, Reading, Off, InPong, Ids
    <2>4. \A i \in Ids : chan[i] # None => i <= lastId'
        BY <1>1 DEF Ids, OneAnswer
    <2>5. OneAnswer'
        BY <1>1, <1>2, <1>5, <2>3, <2>4 DEF OneAnswer
    <2> QED
        BY <1>3, <2>1, <2>2, <2>5
<1> QED
    BY <1>2, <1>4, <1>5 DEF STUNRequest

(* STUNRequest returns: its transaction is over, its channel empty. *)
LEMMA ReturnKeeps ==
    ASSUME RequestTypeOK, AnswerTypeOK, Requests, OneAnswer, Observed,
           STUNAnswered \/ STUNTimeout
    PROVE  RequestTypeOK' /\ AnswerTypeOK' /\ OneAnswer' /\ Observed'
<1>1. /\ req.id \in Ids /\ req.srv \in DOMAIN Servers
      /\ lastId \in 0 .. MaxRequests /\ UNCHANGED <<lastId, recv, seen>>
      /\ stunTx' = stunTx \ {req.id} /\ chan' = [chan EXCEPT ![req.id] = None]
      /\ DOMAIN chan = Ids
    BY RequestAssumption DEF STUNAnswered, STUNTimeout, RequestTypeOK, AnswerTypeOK, Requests, Ids
<1>2. stunTx' = {}
    BY <1>1 DEF OneAnswer
<1>3. \A i \in Ids : chan'[i] = (IF i = req.id THEN None ELSE chan[i])
    BY <1>1
<1>4. AnswerTypeOK'
    BY <1>1, <1>2 DEF AnswerTypeOK
<1>5. recv.at = "deliver" => recv.id \in Ids /\ recv.id <= lastId /\ chan[recv.id] = None
    BY <1>1 DEF OneAnswer, AnswerTypeOK, Delivering, Reading, Off, InPong
<1>6. OneAnswer'
    BY <1>1, <1>2, <1>3, <1>5 DEF OneAnswer
<1>7. /\ recv'.at = "deliver" => Answered(recv.id, recv.addr)'
      /\ \A i \in Ids : chan'[i] # None => Answered(i, chan[i])'
    BY <1>1, <1>3 DEF Observed, Answered
<1>8. CASE STUNAnswered
    <2>1. /\ endpoint' = [id |-> req.id, addr |-> chan[req.id]] /\ chan[req.id] # None
          /\ req' = NoRequest
        BY <1>8 DEF STUNAnswered
    <2>2. chan[req.id] \in Addresses
        BY <1>1, <2>1 DEF AnswerTypeOK
    <2>3. RequestTypeOK'
        BY <1>1, <2>1, <2>2, ServerAssumption, RequestAssumption DEF RequestTypeOK, NoRequest
    <2>4. Answered(endpoint.id, endpoint.addr)'
        BY <1>1, <2>1 DEF Observed, Answered
    <2> QED
        BY <1>4, <1>6, <1>7, <2>3, <2>4 DEF Observed
<1>9. CASE STUNTimeout
    <2>1. endpoint' = endpoint /\ req' = [id |-> 0, srv |-> req.srv + 1]
        BY <1>9 DEF STUNTimeout
    <2>2. RequestTypeOK'
        BY <1>1, <2>1, ServerAssumption, RequestAssumption DEF RequestTypeOK
    <2>3. endpoint' # NoEndpoint => Answered(endpoint.id, endpoint.addr)'
        BY <1>1, <2>1 DEF Observed, Answered
    <2> QED
        BY <1>4, <1>6, <1>7, <2>2, <2>3 DEF Observed
<1> QED
    BY <1>8, <1>9

(* Before the first request and after the last one there is no transaction. *)
LEMMA BetweenKeeps ==
    ASSUME RequestTypeOK, AnswerTypeOK, Requests, OneAnswer, Observed, Discover \/ STUNNone
    PROVE  RequestTypeOK' /\ AnswerTypeOK' /\ OneAnswer' /\ Observed'
<1>1. /\ UNCHANGED <<stunTx, chan, recv, seen, lastId>>
      /\ req.id = 0 /\ endpoint' \in {endpoint, NoEndpoint}
      /\ req' \in {NoRequest, [id |-> 0, srv |-> 1]}
    BY DEF Discover, STUNNone, Requests, socketVars
<1>2. req'.id = 0
    BY <1>1 DEF NoRequest
<1>3. RequestTypeOK'
    BY <1>1, ServerAssumption, RequestAssumption DEF RequestTypeOK, NoRequest
<1>4. AnswerTypeOK'
    BY <1>1 DEF AnswerTypeOK
<1>5. OneAnswer'
    BY <1>1, <1>2 DEF OneAnswer
<1>6. Observed'
    BY <1>1 DEF Observed, Answered
<1> QED
    BY <1>3, <1>4, <1>5, <1>6

(* An answer is taken for the request it names, and for no other, with the address
   that the server saw; a transaction is taken out of the map once. *)
LEMMA TakeKeeps ==
    ASSUME RequestTypeOK, AnswerTypeOK, Requests, OneAnswer, Observed, ReceiveSTUN,
           UNCHANGED <<req, lastId, endpoint>>
    PROVE  AnswerTypeOK' /\ OneAnswer' /\ Observed'
<1>1. PICK s \in seen : HandleSTUN(BuildBindingResponse(s[1], Servers[s[2]], s[3]))
    BY DEF ReceiveSTUN
<1>2. s[1] \in Ids /\ s[2] \in DOMAIN Servers /\ s[3] \in Addresses /\ UNCHANGED <<chan, seen>>
    BY DEF AnswerTypeOK, ReceiveSTUN
<1> DEFINE p == BuildBindingResponse(s[1], Servers[s[2]], s[3])
           id == s[1]
           a == s[3]
<1>3. p.id = id
    BY DEF BuildBindingResponse
<1>4. ParseBindingResponse(p) = a
    BY <1>2, ParsedAsBuilt DEF Ids
<1>5. /\ stunTx' = stunTx \ {id}
      /\ recv' = IF id \in stunTx THEN Delivering(id, a) ELSE recv
    <2> HIDE DEF id, a
    <2>1. HandleSTUN(p)
        BY <1>1
    <2> HIDE DEF p
    <2> QED
        BY <1>3, <1>4, <2>1 DEF HandleSTUN
<1>6. id \in Ids /\ a \in Addresses /\ Answered(id, a)
    BY <1>2 DEF Answered
<1> HIDE DEF p, id, a
<1>7. CASE id \in stunTx
    <2>1. recv' = Delivering(id, a)
        BY <1>5, <1>7
    <2>2. recv'.at = "deliver" /\ recv'.id = id /\ recv'.addr = a
        BY <2>1 DEF Delivering
    <2>3. AnswerTypeOK'
        BY <1>2, <1>5, <1>6, <2>1 DEF AnswerTypeOK
    <2>4. id = req.id /\ chan[id] = None /\ id <= lastId
        BY <1>7 DEF OneAnswer, Requests
    <2>5. OneAnswer'
        BY <1>2, <1>5, <2>2, <2>4 DEF OneAnswer
    <2>6. Observed'
        BY <1>2, <1>6, <2>2 DEF Observed, Answered
    <2> QED
        BY <2>3, <2>5, <2>6
<1>8. CASE id \notin stunTx
    <2>1. UNCHANGED <<stunTx, recv>>
        BY <1>5, <1>8
    <2> QED
        BY <1>2, <2>1, SocketIdle
<1> QED
    BY <1>7, <1>8

(* The send of handleSTUN fills the channel of the answer that was taken. *)
LEMMA DeliverKeeps ==
    ASSUME RequestTypeOK, AnswerTypeOK, Requests, OneAnswer, Observed, Deliver,
           UNCHANGED <<req, lastId, endpoint>>
    PROVE  AnswerTypeOK' /\ OneAnswer' /\ Observed'
<1>1. /\ recv.at = "deliver" /\ recv' = Reading /\ UNCHANGED <<stunTx, seen>>
      /\ chan' = [chan EXCEPT ![recv.id] = recv.addr]
    BY DEF Deliver
<1>2. recv.id \in Ids /\ recv.addr \in Addresses
    BY <1>1 DEF AnswerTypeOK, Delivering, Reading, Off, InPong
<1>3. /\ chan' \in [Ids -> Addresses \cup {None}]
      /\ \A i \in Ids : chan'[i] = (IF i = recv.id THEN recv.addr ELSE chan[i])
    BY <1>1, <1>2 DEF AnswerTypeOK
<1>4. AnswerTypeOK'
    BY <1>1, <1>3 DEF AnswerTypeOK
<1>5. recv'.at # "deliver"
    BY <1>1 DEF Reading
<1>6. recv.id \notin stunTx /\ recv.id <= lastId
    BY <1>1 DEF OneAnswer
<1>7. OneAnswer'
    BY <1>1, <1>3, <1>5, <1>6 DEF OneAnswer, AnswerTypeOK
<1>8. Observed'
    BY <1>1, <1>3, <1>5 DEF Observed, Answered
<1> QED
    BY <1>4, <1>7, <1>8

(* A server answers the request that waits. *)
LEMMA ServeKeeps ==
    ASSUME RequestTypeOK, AnswerTypeOK, Requests, OneAnswer, Observed, Network
    PROVE  AnswerTypeOK' /\ OneAnswer' /\ Observed'
<1>1. /\ UNCHANGED <<stunTx, chan, recv, req, lastId, endpoint>>
      /\ req.id # 0 /\ \E a \in Addresses : seen' = seen \cup {<<req.id, req.srv, a>>}
    BY DEF Network, Serve, procVars
<1>2. req.id \in Ids /\ req.srv \in DOMAIN Servers
    BY <1>1, RequestAssumption DEF RequestTypeOK, Requests, Ids
<1>3. AnswerTypeOK'
    BY <1>1, <1>2 DEF AnswerTypeOK
<1>4. OneAnswer'
    BY <1>1 DEF OneAnswer
<1>5. Observed'
    BY <1>1 DEF Observed, Answered
<1> QED
    BY <1>3, <1>4, <1>5

-----------------------------------------------------------------------------
(* The steps of the daemon keep the invariant *)

(* The start of a process and its options. *)
LEMMA StartKeeps ==
    ASSUME DInv, NEW who \in {"up", "Running"}, NEW e \in BOOLEAN, Start(who, e) \/ Configure
    PROVE  DInv'
<1> USE DEF DInv, Types, hostVars, histVars, socketVars
<1>1. /\ UNCHANGED <<deferred, cancelled, req, lastId, endpoint, pending, ipc, route, rules,
                     rebinds, killed, orphans, refused, mark, stunTx, chan, seen>>
      /\ \/ Open(TRUE) /\ iface' = TRUE
         \/ UNCHANGED <<udp, recv, iface>>
    BY DEF Start, Configure
<1>2. ControlTypeOK'
    BY StartAssumption DEF Start, Open, Configure, ControlTypeOK, Loop
<1>3. HistoryTypeOK'
    BY <1>1 DEF HistoryTypeOK
<1>4. FlagsTypeOK'
    BY DEF Start, Open, Configure, FlagsTypeOK
<1>5. UdpTypeOK'
    BY <1>1, UdpSteps DEF FlagsTypeOK
<1>6. RequestTypeOK'
    BY <1>1 DEF RequestTypeOK
<1>7. Requests'
    BY DEF Start, Configure, Requests, Gone, NoRequest
<1>8. Gone'
    BY DEF Start, Open, Configure, Gone, ControlTypeOK
<1>9. Marked'
    BY DEF Start, Open, Configure, Marked, Gone
<1>10. Enabled'
    BY DEF Start, Open, Configure, Enabled, Gone, Loop
<1>11. RulesOwned'
    BY DEF Start, Configure, RulesOwned, Gone, Loop
<1>12. PidOwned'
    BY DEF Start, Configure, PidOwned, Gone
<1>13. AnswerTypeOK' /\ OneAnswer' /\ Observed'
    <2>1. recv' \in {recv, Reading}
        BY <1>1 DEF Open
    <2> QED
        BY <1>1, <2>1, SocketIdle
<1> QED
    BY <1>2, <1>3, <1>4, <1>5, <1>6, <1>7, <1>8, <1>9, <1>10, <1>11, <1>12, <1>13

(* EnableExitNode: the mark before the route, the route before the rules. *)
LEMMA EnableKeeps ==
    ASSUME DInv, EnableExitNode
    PROVE  DInv'
<1> USE DEF DInv, Types
<1>1. ExitNodeStep
    BY ExitNodeSteps
<1>2. UNCHANGED <<front, exit, cancelled, pid, req, lastId, endpoint, pending, ipc, iface,
                  pidfile, rebinds, killed, refused, stunTx, chan, recv, seen>>
    BY <1>1 DEF ExitNodeStep
<1>3. ControlTypeOK'
    BY <1>1, <1>2 DEF ExitNodeStep, ExitStep, ExitFailed, ControlTypeOK, Loop
<1>4. HistoryTypeOK'
    BY <1>1 DEF ExitNodeStep, ExitStep, ExitFailed, HistoryTypeOK
<1>5. FlagsTypeOK'
    BY <1>1 DEF ExitNodeStep, ExitStep, ExitFailed, SetMark, FlagsTypeOK
<1>6. UdpTypeOK'
    <2>1. SetMark(TRUE) \/ SetMark(FALSE) \/ UNCHANGED udp
        BY <1>1 DEF ExitNodeStep, ExitFailed
    <2> QED
        BY <2>1, UdpSteps DEF FlagsTypeOK
<1>7. RequestTypeOK' /\ Requests'
    BY <1>1, <1>2 DEF ExitNodeStep, ExitStep, ExitFailed, RequestTypeOK, Requests
<1>8. Gone'
    BY <1>1, <1>2 DEF ExitNodeStep, ExitStep, ExitFailed, Gone
<1>9. Marked'
    <2>1. CASE ExitStep("mark", "route") /\ SetMark(TRUE)
        BY <2>1 DEF SetMark, ExitStep, Marked, UdpTypeOK
    <2>2. CASE ExitFailed
        <3>1. main' = "unpid" /\ route' = route /\ refused' = refused
            BY <1>2, <2>2 DEF ExitFailed
        <3>2. CASE main = "mark"
            BY <3>1, <3>2 DEF Gone, Marked
        <3>3. CASE UNCHANGED <<mark, udp>>
            BY <3>1, <3>3 DEF Marked
        <3> QED
            BY <2>2, <3>2, <3>3, Zenon DEF ExitFailed
    <2>3. CASE ExitStep("route", "suppress") /\ UNCHANGED <<udp, mark>>
        BY <1>2, <2>3 DEF ExitStep, Marked
    <2>4. CASE /\ ExitStep("suppress", "rule") \/ ExitStep("rule", "sync")
               /\ UNCHANGED <<route, udp, mark>>
        BY <1>2, <2>4 DEF ExitStep, Marked
    <2> QED
        BY <1>1, <2>1, <2>2, <2>3, <2>4, Zenon DEF ExitNodeStep
<1>10. Enabled'
    BY <1>1 DEF ExitNodeStep, ExitStep, ExitFailed, SetMark, Enabled, HistoryTypeOK, Loop,
       Suppress, Mark
<1>11. RulesOwned'
    BY <1>1 DEF ExitNodeStep, ExitStep, ExitFailed, RulesOwned, Gone, Loop
<1>12. PidOwned'
    BY <1>1 DEF ExitNodeStep, ExitStep, ExitFailed, PidOwned, Gone
<1>13. AnswerTypeOK' /\ OneAnswer' /\ Observed'
    BY <1>2, SocketIdle
<1> QED
    BY <1>3, <1>4, <1>5, <1>6, <1>7, <1>8, <1>9, <1>10, <1>11, <1>12, <1>13

(* The loop of Up changes nothing on the machine. *)
LEMMA LoopKeeps ==
    ASSUME DInv,
           \/ Discover \/ STUNRequest \/ STUNAnswered \/ STUNTimeout \/ STUNNone
           \/ Poll \/ Ticker \/ Leave
    PROVE  DInv'
<1> USE DEF DInv, Types
<1>1. UNCHANGED <<front, exit, deferred, cancelled, pid, ipc, iface, route, rules, pidfile,
                  rebinds, killed, orphans, refused, udp, mark>>
    BY DEF Discover, STUNRequest, STUNAnswered, STUNTimeout, STUNNone, Poll, Ticker, Leave,
       hostVars, histVars, socketVars
<1>2. /\ main \in Loop
      /\ main' \in Loop \/ main' = IF deferred THEN "unrule" ELSE "unpid"
    BY DEF Discover, STUNRequest, STUNAnswered, STUNTimeout, STUNNone, Poll, Ticker, Leave, Loop
<1>3. ControlTypeOK' /\ HistoryTypeOK' /\ UdpTypeOK'
    BY <1>1, <1>2 DEF ControlTypeOK, HistoryTypeOK, UdpTypeOK
<1>4. FlagsTypeOK'
    BY <1>1 DEF Discover, STUNRequest, STUNAnswered, STUNTimeout, STUNNone, Poll, Ticker,
       Leave, FlagsTypeOK, UdpTypeOK
<1>5. RequestTypeOK' /\ AnswerTypeOK' /\ OneAnswer' /\ Observed'
    <2>1. CASE STUNRequest
        BY <2>1, RequestKeeps
    <2>2. CASE STUNAnswered \/ STUNTimeout
        BY <2>2, ReturnKeeps
    <2>3. CASE Discover \/ STUNNone
        BY <2>3, BetweenKeeps
    <2>4. CASE Poll \/ Ticker \/ Leave
        <3>1. UNCHANGED <<stunTx, chan, seen, req, lastId, endpoint, recv>>
            BY <2>4 DEF Poll, Ticker, Leave, socketVars
        <3>2. RequestTypeOK'
            BY <3>1 DEF RequestTypeOK
        <3> QED
            BY <3>1, <3>2, SocketIdle
    <2> QED
        BY <2>1, <2>2, <2>3, <2>4
<1>6. Requests'
    BY RequestAssumption DEF Discover, STUNRequest, STUNAnswered, STUNTimeout, STUNNone, Poll,
       Ticker, Leave, Requests, RequestTypeOK, NoRequest
<1>7. Gone' /\ Marked'
    BY <1>1, <1>2 DEF Gone, Marked, Loop
<1>8. Enabled' /\ RulesOwned' /\ PidOwned'
    BY <1>1, <1>2 DEF Enabled, RulesOwned, PidOwned, Loop
<1> QED
    BY <1>3, <1>4, <1>5, <1>6, <1>7, <1>8

(* The end of Up: what it made goes in the reverse order. *)
LEMMA EndKeeps ==
    ASSUME DInv,
           DisableExitNode \/ RemovePidFile \/ CloseTun \/ CloseBind \/ CloseEnds \/ Exit
    PROVE  DInv'
<1> USE DEF DInv, Types, hostVars, histVars, socketVars
<1>1. ControlTypeOK'
    BY StartAssumption DEF DisableExitNode, RemovePidFile, CloseTun, CloseBind, CloseEnds,
       ProcessGone, Exit, ControlTypeOK
<1>2. HistoryTypeOK'
    BY DEF DisableExitNode, RemovedRule, RemovePidFile, CloseTun, CloseBind, CloseEnds,
       ProcessGone, Exit, HistoryTypeOK
<1>3. FlagsTypeOK'
    BY DEF DisableExitNode, RemovePidFile, CloseTun, CloseBind, CloseEnds, ProcessGone,
       SocketGone, Exit, FlagsTypeOK
<1>4. UdpTypeOK'
    <2>1. Close \/ SocketGone \/ UNCHANGED udp
        BY DEF DisableExitNode, RemovePidFile, CloseTun, CloseBind, CloseEnds, ProcessGone, Exit
    <2> QED
        BY <2>1, UdpSteps DEF FlagsTypeOK
<1>5. RequestTypeOK'
    BY RequestAssumption, ServerAssumption DEF DisableExitNode, RemovePidFile, CloseTun,
       CloseBind, CloseEnds, ProcessGone, Exit, RequestTypeOK, NoRequest
<1>6. Requests'
    BY DEF DisableExitNode, RemovePidFile, CloseTun, CloseBind, CloseEnds, ProcessGone, Exit,
       Requests, NoRequest
<1>7. Gone'
    BY DEF DisableExitNode, RemovePidFile, CloseTun, CloseBind, Close, CloseEnds, ProcessGone,
       SocketGone, Exit, Gone, Closed
<1>8. Marked'
    BY DEF DisableExitNode, RemovePidFile, CloseTun, CloseBind, Close, CloseEnds, ProcessGone,
       SocketGone, Exit, Marked, Gone, Closed
<1>9. Enabled'
    BY DEF DisableExitNode, RemovePidFile, CloseTun, CloseBind, CloseEnds, ProcessGone, Exit,
       Enabled, Loop
<1>10. RulesOwned'
    <2>1. CASE DisableExitNode
        <3>1. CASE main = "unrule"
            BY <2>1, <3>1 DEF DisableExitNode, RemovedRule, RulesOwned, HistoryTypeOK
        <3>2. CASE main = "unsuppress"
            BY <2>1, <3>2 DEF DisableExitNode, RemovedRule, RulesOwned, Loop
        <3> QED
            BY <2>1, <3>1, <3>2 DEF DisableExitNode
    <2>2. CASE RemovePidFile \/ CloseTun \/ CloseBind \/ CloseEnds \/ Exit
        BY <2>2 DEF RemovePidFile, CloseTun, CloseBind, CloseEnds, ProcessGone, Exit,
           RulesOwned, Loop
    <2> QED
        BY <2>1, <2>2
<1>11. PidOwned'
    BY DEF DisableExitNode, RemovePidFile, CloseTun, CloseBind, CloseEnds, ProcessGone, Exit,
       PidOwned
<1>12. AnswerTypeOK' /\ OneAnswer' /\ Observed'
    <2>1. CASE CloseEnds
        BY <2>1, SocketCleared DEF CloseEnds
    <2>2. CASE DisableExitNode \/ RemovePidFile \/ CloseTun \/ CloseBind \/ Exit
        <3>1. UNCHANGED <<stunTx, chan, seen, req, lastId, endpoint, recv>>
            BY <2>2 DEF DisableExitNode, RemovePidFile, CloseTun, CloseBind, Exit
        <3> QED
            BY <3>1, SocketIdle
    <2> QED
        BY <2>1, <2>2
<1> QED
    BY <1>1, <1>2, <1>3, <1>4, <1>5, <1>6, <1>7, <1>8, <1>9, <1>10, <1>11, <1>12

(* Signals, the end of the process from outside, a change of port. *)
LEMMA AroundKeeps ==
    ASSUME DInv, Signal \/ ServiceStop \/ Kill \/ Rebind \/ RebindEnds
    PROVE  DInv'
<1> USE DEF DInv, Types, hostVars, histVars, socketVars
<1>1. ControlTypeOK'
    BY StartAssumption DEF Signal, ServiceStop, Kill, ProcessGone, Rebind, RebindEnds, Open,
       ControlTypeOK
<1>2. HistoryTypeOK'
    <2>1. front # "none" => pid \in 1 .. MaxStarts
        BY StartAssumption DEF Gone, ControlTypeOK
    <2> QED
        BY <2>1 DEF Signal, ServiceStop, Kill, ProcessGone, Rebind, RebindEnds, Open,
           HistoryTypeOK
<1>3. FlagsTypeOK'
    BY DEF Signal, ServiceStop, Kill, ProcessGone, SocketGone, Rebind, RebindEnds, FlagsTypeOK
<1>4. UdpTypeOK'
    <2>1. Open(TRUE) \/ Open(FALSE) \/ Close \/ SocketGone \/ UNCHANGED udp
        BY DEF Signal, ServiceStop, Kill, ProcessGone, Rebind, RebindEnds
    <2> QED
        BY <2>1, UdpSteps DEF FlagsTypeOK
<1>5. RequestTypeOK'
    BY RequestAssumption, ServerAssumption DEF Signal, ServiceStop, Kill, ProcessGone, Rebind,
       RebindEnds, Open, RequestTypeOK, NoRequest
<1>6. Requests'
    BY DEF Signal, ServiceStop, Kill, ProcessGone, Rebind, RebindEnds, Open, Requests, NoRequest
<1>7. Gone'
    BY DEF Signal, ServiceStop, Kill, ProcessGone, SocketGone, Rebind, Close, RebindEnds, Open,
       Gone, Closed
<1>8. Marked'
    <2>1. CASE Kill
        BY <2>1 DEF Kill, ProcessGone, Marked
    <2>2. CASE Rebind
        BY <2>2 DEF Rebind, Close, Closed, Marked
    <2>3. CASE RebindEnds
        <3>1. UNCHANGED <<route, main, mark>>
            BY <2>3 DEF RebindEnds
        <3>2. CASE Open(TRUE)
            BY <3>1, <3>2 DEF Open, Marked
        <3>3. CASE refused'
            BY <3>1, <3>3 DEF Marked
        <3>4. CASE UNCHANGED <<udp, refused>>
            BY <3>1, <3>4 DEF Marked
        <3> QED
            BY <2>3, <3>2, <3>3, <3>4 DEF RebindEnds, Open
    <2>4. CASE Signal \/ ServiceStop
        BY <2>4 DEF Signal, ServiceStop, Marked
    <2> QED
        BY <2>1, <2>2, <2>3, <2>4
<1>9. Enabled'
    BY DEF Signal, ServiceStop, Kill, ProcessGone, Rebind, RebindEnds, Open, Enabled, Loop
<1>10. RulesOwned'
    BY DEF Signal, ServiceStop, Kill, Rebind, RebindEnds, Open, RulesOwned
<1>11. PidOwned'
    BY DEF Signal, ServiceStop, Kill, Rebind, RebindEnds, Open, PidOwned
<1>12. AnswerTypeOK' /\ OneAnswer' /\ Observed'
    <2>1. CASE Kill
        BY <2>1, SocketCleared DEF Kill
    <2>2. CASE Signal \/ ServiceStop \/ Rebind \/ RebindEnds
        <3>1. /\ UNCHANGED <<stunTx, chan, seen, req, lastId, endpoint>>
              /\ recv' \in {recv, Reading}
            BY <2>2 DEF Signal, ServiceStop, Rebind, RebindEnds, Open
        <3> QED
            BY <3>1, SocketIdle
    <2> QED
        BY <2>1, <2>2
<1> QED
    BY <1>1, <1>2, <1>3, <1>4, <1>5, <1>6, <1>7, <1>8, <1>9, <1>10, <1>11, <1>12

(* The reading goroutine and the network change nothing but the transactions. *)
LEMMA ReceiverKeeps ==
    ASSUME DInv, ReceivePong \/ OnPong \/ Receiver \/ Network \/ UNCHANGED vars
    PROVE  DInv'
<1> USE DEF DInv, Types, procVars, hostVars, histVars, socketVars
<1>1. /\ UNCHANGED <<main, front, exit, deferred, cancelled, pid, req, lastId, endpoint, ipc,
                     iface, route, rules, pidfile, rebinds, killed, orphans, refused,
                     udp, mark>>
      /\ pending' = pending \/ pending' = FALSE
    BY DEF ReceivePong, OnPong, Receiver, ReceiveSTUN, Deliver, ReceiveEnds, Network, Serve, vars
<1>2. ControlTypeOK' /\ HistoryTypeOK' /\ UdpTypeOK' /\ RequestTypeOK' /\ Requests'
    BY <1>1 DEF ControlTypeOK, HistoryTypeOK, UdpTypeOK, RequestTypeOK, Requests
<1>3. FlagsTypeOK'
    BY <1>1, Zenon DEF FlagsTypeOK
<1>4. Gone'
    BY <1>1 DEF ReceivePong, OnPong, Receiver, ReceiveSTUN, Deliver, ReceiveEnds, Network, vars,
       Gone, Off, Reading, InPong, Delivering, NoRequest
<1>5. Marked' /\ Enabled' /\ RulesOwned' /\ PidOwned'
    BY <1>1 DEF Marked, Enabled, RulesOwned, PidOwned
<1>6. AnswerTypeOK' /\ OneAnswer' /\ Observed'
    <2>1. CASE Network
        BY <2>1, ServeKeeps
    <2>2. CASE ReceiveSTUN
        BY <1>1, <2>2, TakeKeeps
    <2>3. CASE Deliver
        BY <1>1, <2>3, DeliverKeeps
    <2>4. CASE ReceivePong \/ OnPong \/ ReceiveEnds \/ UNCHANGED vars
        <3>1. /\ UNCHANGED <<stunTx, chan, seen>>
              /\ recv' \in {recv, Reading, Off, InPong}
            BY <2>4 DEF ReceivePong, OnPong, ReceiveEnds, vars
        <3> QED
            BY <1>1, <3>1, SocketIdle
    <2> QED
        BY <2>1, <2>2, <2>3, <2>4 DEF Receiver
<1> QED
    BY <1>2, <1>3, <1>4, <1>5, <1>6

-----------------------------------------------------------------------------
(* The theorems *)

(* No process has been started. *)
LEMMA InitHolds ==
    ASSUME Init
    PROVE  DInv
<1> USE DEF Init, SocketInit
<1>1. ControlTypeOK /\ HistoryTypeOK
    BY StartAssumption DEF ControlTypeOK, HistoryTypeOK
<1>2. FlagsTypeOK /\ UdpTypeOK
    <2>1. FlagsTypeOK
        BY Zenon DEF FlagsTypeOK
    <2>2. UdpTypeOK
        BY DEF UdpTypeOK, Closed
    <2> QED
        BY <2>1, <2>2
<1>3. RequestTypeOK /\ Requests
    BY RequestAssumption, ServerAssumption DEF RequestTypeOK, Requests, NoRequest
<1>4. AnswerTypeOK
    BY DEF AnswerTypeOK
<1>5. Gone
    BY DEF Gone, Closed
<1>6. Marked /\ Enabled /\ RulesOwned /\ PidOwned
    BY DEF Marked, Enabled, RulesOwned, PidOwned, Loop
<1>7. OneAnswer /\ Observed
    BY DEF OneAnswer, Observed, Off
<1> QED
    BY <1>1, <1>2, <1>3, <1>4, <1>5, <1>6, <1>7 DEF DInv, Types

(* Every step keeps the invariant. *)
LEMMA StepKeeps ==
    ASSUME DInv, [Next]_vars
    PROVE  DInv'
<1>1. CASE \E who \in {"up", "Running"}, e \in BOOLEAN : Start(who, e)
    BY <1>1, StartKeeps
<1>2. CASE Configure
    BY <1>2, StartKeeps
<1>3. CASE EnableExitNode
    BY <1>3, EnableKeeps
<1>4. CASE \/ Discover \/ STUNRequest \/ STUNAnswered \/ STUNTimeout \/ STUNNone
           \/ Poll \/ Ticker \/ Leave
    BY <1>4, LoopKeeps
<1>5. CASE DisableExitNode \/ RemovePidFile \/ CloseTun \/ CloseBind \/ CloseEnds \/ Exit
    BY <1>5, EndKeeps
<1>6. CASE Signal \/ ServiceStop \/ Kill \/ Rebind \/ RebindEnds
    BY <1>6, AroundKeeps
<1>7. CASE Down
    BY <1>7, AroundKeeps DEF Down
<1>8. CASE ReceivePong \/ OnPong \/ Receiver \/ Network \/ UNCHANGED vars
    BY <1>8, ReceiverKeeps
<1> QED
    BY <1>1, <1>2, <1>3, <1>4, <1>5, <1>6, <1>7, <1>8 DEF Next, Main

(* The inductive invariant holds in every state of the daemon. *)
LEMMA Invariant == Spec => []DInv
<1>1. Init => DInv
    BY InitHolds
<1>2. DInv /\ [Next]_vars => DInv'
    BY StepKeeps
<1> QED
    BY <1>1, <1>2, PTL DEF Spec

(* Every variable of the daemon and of its socket keeps its type, however many
   processes, changes of port, servers and transactions there are. *)
THEOREM TypeCorrect == Spec => []TypeOK
<1>1. DInv => TypeOK
    BY DEF DInv, Types, ControlTypeOK, HistoryTypeOK, FlagsTypeOK, RequestTypeOK, UdpTypeOK,
       AnswerTypeOK, TypeOK, SocketTypeOK
<1> QED
    BY <1>1, Invariant, PTL

(* While the rule and the route of an exit node are in force, the socket the agent sends
   on is marked unless the system refused it: its packets do not take the tunnel they
   carry, across changes of port, kills and restarts (SetMark before the route in
   EnableExitNode, the mark put on again in Bind.Open). *)
THEOREM NeverLoops == Spec => []NoLoop
<1>1. DInv => NoLoop
    BY DEF DInv, Marked, NoLoop
<1> QED
    BY <1>1, Invariant, PTL

(* The loop of an agent with an exit node runs only with the route and both rules:
   EnableExitNode does not return without error before all its steps are done. *)
THEOREM ExitNodeHolds == Spec => []ExitNodeInForce
<1>1. DInv => ExitNodeInForce
    BY DEF DInv, Enabled, ExitNodeInForce
<1> QED
    BY <1>1, Invariant, PTL

(* A process that is gone, at whichever step of Up, leaves no interface and no route, no
   pid file unless it was killed, and no rule but those of killed processes, those
   the system refused to remove, and 5000 when it refused to add 5001. *)
THEOREM LeavesNothing == Spec => []Traceless
<1>1. DInv => Traceless
    BY DEF DInv, Gone, RulesOwned, PidOwned, Loop, Traceless
<1> QED
    BY <1>1, Invariant, PTL

(* The pid file names the process that runs, or one that was killed: never one that has
   ended by itself. *)
THEOREM PidFileNamesDaemon == Spec => []PidFileTrue
<1>1. DInv => PidFileTrue
    BY DEF DInv, Gone, PidOwned, PidFileTrue
<1> QED
    BY <1>1, Invariant, PTL

(* The address in myEndpoints is the one a server saw for that request: what
   ParseBindingResponse reads is what the server wrote (ParsedAsBuilt), and handleSTUN
   hands an answer to the transaction it names only. *)
THEOREM EndpointIsObserved == Spec => []EndpointObserved
<1>1. DInv => EndpointObserved
    BY DEF DInv, Observed, Answered, EndpointObserved
<1> QED
    BY <1>1, Invariant, PTL

(* The send at the end of handleSTUN never blocks the goroutine that reads the socket,
   and no transaction outlives its request. *)
THEOREM ReceiverNeverBlocks == Spec => []ReceiverFree
<1>1. DInv => ReceiverFree
    BY DEF DInv, OneAnswer, ReceiverFree
<1> QED
    BY <1>1, Invariant, PTL
=============================================================================
