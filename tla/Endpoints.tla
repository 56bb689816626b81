------------------------------ MODULE Endpoints ------------------------------
(***************************************************************************)
(* Two machines that look for a path to each other: their endpoint managers*)
(* (internal/agent/endpoints.go), the synchronisation loop that drives them*)
(* and their WireGuard engines, over a direct path with NATs and the relay.*)
(*                                                                         *)
(* In each agent two goroutines run: the loop (Observe, Probe) and the     *)
(* receiver (onPong).  They take the manager's mutex for single steps only;*)
(* the engine is read and written outside of it.  The engine changes the   *)
(* endpoint of a peer too: it answers where the last authentic packet came *)
(* from (roaming).                                                         *)
(***************************************************************************)
EXTENDS Integers, FiniteSets

CONSTANTS Agents,            \* the two machines
          Sites,             \* where they may be: the sets of machines that no NAT hides
          RelayAfterRounds,  \* relayAfterRounds (2 in the code)
          HealthyFor,        \* RelayHealthy holds for that many rounds without an ACK (3, of 35 s)
          RekeyAfter,        \* WireGuard renews a session of that age (12 rounds of PollInterval)
          FreshFor,          \* handshakeFresh (13.5 rounds)
          SessionFor,        \* WireGuard drops a session of that age (18 rounds)
          Disturbances,      \* what may happen to them, a subset of AllDisturbances
          MaxDisturbances    \* bound: how often

AllDisturbances ==
    {"path",    \* the direct path between them breaks or works again
     "relay",   \* the relay stops or starts again
     "poll",    \* a poll fails
     "map",     \* the peer is missing from one network map
     "engine",  \* the engine fails to answer, or to take an endpoint
     "early",   \* a pong is back before its probe is known to the manager
     "late"}    \* packets are still on their way when the next round begins

ASSUME AgentsAssumption == IsFiniteSet(Agents) /\ Cardinality(Agents) = 2
ASSUME SitesAssumption == Sites \subseteq SUBSET Agents
ASSUME RoundsAssumption ==
    /\ {RelayAfterRounds, HealthyFor, RekeyAfter, FreshFor, SessionFor} \subseteq Nat
    /\ 0 < RekeyAfter /\ RekeyAfter < FreshFor /\ FreshFor <= SessionFor
ASSUME DisturbanceAssumption ==
    Disturbances \subseteq AllDisturbances /\ MaxDisturbances \in Nat

VARIABLES
    ep,        \* engine: the endpoint of the peer, "none" if the peer is not configured
    age,       \* engine: rounds since the last handshake, SessionFor for long ago and never
    pending,   \* manager: the rounds whose probe awaits its pong
    ack,       \* socket: rounds without an ACK of the relay (relayLastAck)
    relayOK,   \* manager: the relay answered lately, as of this round
    rounds,    \* manager: disconnected, rounds without handshake
    onRelay,   \* manager: is the peer marked as joined through the relay?
    loop,      \* where the loop is in its round, and what Probe read
    recv,      \* where the receiver is in onPong
    open,      \* the machines no NAT hides: packets reach them unasked
    mapping,   \* rounds for which the NAT still lets the peer's packets in
    net,       \* pings and pongs on their way
    round,     \* parity of the current round
    up,        \* does the direct path carry packets?
    relayUp,   \* does the relay run?
    disturbed  \* disturbances so far

engine == <<ep, age>>
manager == <<pending, relayOK, rounds, onRelay>>
world == <<open, ack, round, up, relayUp, disturbed>>
vars == <<engine, manager, loop, recv, mapping, net, world>>

-----------------------------------------------------------------------------

Peer(x) == CHOOSE y \in Agents : y # x

Ping(x) == [type |-> "ping", to |-> x, id |-> round]

Pong(x, id) == [type |-> "pong", to |-> x, id |-> id]

(* A mapping opened by a packet is good for this round and the next one. *)
MappingRounds == 2

TypeOK ==
    /\ ep \in [Agents -> {"none", "direct", "relay"}]
    /\ age \in [Agents -> 0 .. SessionFor]
    /\ pending \in [Agents -> SUBSET {0, 1}]
    /\ ack \in [Agents -> 0 .. HealthyFor]
    /\ relayOK \in [Agents -> BOOLEAN]
    /\ rounds \in [Agents -> 0 .. RelayAfterRounds + 1]
    /\ onRelay \in [Agents -> BOOLEAN]
    /\ loop \in [Agents -> [at : {"todo", "forget", "read", "decide", "relay", "ping", "register", "done"},
                            fresh : BOOLEAN]]
    /\ recv \in [Agents -> {"idle", "check", "apply", "clear"}]
    /\ open \in Sites
    /\ mapping \in [Agents -> 0 .. MappingRounds]
    /\ net \subseteq [type : {"ping", "pong"}, to : Agents, id : {0, 1}]
    /\ round \in {0, 1}
    /\ up \in BOOLEAN /\ relayUp \in BOOLEAN
    /\ disturbed \in 0 .. MaxDisturbances

(* The agents have just started, with an empty list of peers. *)
Init ==
    /\ ep = [x \in Agents |-> "none"]
    /\ age = [x \in Agents |-> SessionFor]
    /\ pending = [x \in Agents |-> {}]
    /\ ack = [x \in Agents |-> HealthyFor]
    /\ relayOK = [x \in Agents |-> FALSE]
    /\ rounds = [x \in Agents |-> 0]
    /\ onRelay = [x \in Agents |-> FALSE]
    /\ loop = [x \in Agents |-> [at |-> "todo", fresh |-> FALSE]]
    /\ recv = [x \in Agents |-> "idle"]
    /\ open \in Sites
    /\ mapping = [x \in Agents |-> 0]
    /\ net = {}
    /\ round = 0
    /\ up \in BOOLEAN
    /\ relayUp = TRUE
    /\ disturbed = 0

-----------------------------------------------------------------------------
(* The paths *)

(* An endpoint that is direct is kept open by the engine's own packets
   (KeepaliveInterval), otherwise by probes and their answers. *)
Accepts(x) == x \in open \/ ep[x] = "direct" \/ mapping[x] > 0

(* A packet sent straight to x arrives. *)
Arrives(x) == up /\ Accepts(x)

(* A packet that the engine of x sends to the endpoint of its peer arrives,
   and the peer's engine knows x. *)
Reaches(x) ==
    /\ ep[Peer(x)] # "none"
    /\ \/ ep[x] = "direct" /\ Arrives(Peer(x))
       \/ ep[x] = "relay" /\ relayUp

Fresh(x) == age[x] < FreshFor

(* update_only: nothing happens when the engine has no such peer. *)
SetPeerEndpoint(x, e) == ep' = [ep EXCEPT ![x] = IF @ = "none" THEN "none" ELSE e]

-----------------------------------------------------------------------------
(* The loop: one round of sync *)

GoTo(x, where) == loop' = [loop EXCEPT ![x].at = where]

(* Mutant: the manager is never told that the relay answers. *)
RelayAnswersUnseen(x) == relayOK' = relayOK

(* SetRelayAvailable(RelayHealthy()): the answers to earlier rounds are known. *)
SetRelayAvailable(x) == relayOK' = [relayOK EXCEPT ![x] = ack[x] < HealthyFor]

(* RelayRegister and SetRelayAvailable, a poll that succeeds, and SyncPeers: a peer
   that is new gets its first candidate.  (For STUN see the module Daemon.) *)
SyncPeers(x) ==
    /\ loop[x].at = "todo"
    /\ SetRelayAvailable(x)
    /\ ep' = [ep EXCEPT ![x] = IF @ = "none" THEN "direct" ELSE @]
    /\ GoTo(x, "read")
    /\ UNCHANGED <<age, pending, rounds, onRelay, recv, mapping, net, world>>

(* Observe, which has nothing to forget, and the PeerHandshakes of Probe. *)
ReadHandshakes(x) ==
    /\ loop[x].at = "read"
    /\ loop' = [loop EXCEPT ![x] = [at |-> "decide", fresh |-> Fresh(x)]]
    /\ UNCHANGED <<engine, manager, recv, mapping, net, world>>

(* disconnected[pub]++, as far as it matters *)
Count(x) == IF rounds[x] > RelayAfterRounds THEN rounds[x] ELSE rounds[x] + 1

(* Mutant: one round earlier. *)
MustSwitchEarly(x) == relayOK[x] /\ ~onRelay[x] /\ Count(x) >= RelayAfterRounds

(* The direct path was given its rounds, the relay is there. *)
MustSwitch(x) == relayOK[x] /\ ~onRelay[x] /\ Count(x) > RelayAfterRounds

(* Mutant: a peer whose handshake is recent is not probed, relayed or not. *)
IsDirectFreshOnly(x) == loop[x].fresh

(* The peer is taken for connected directly: its handshake is recent and it is
   not marked as relayed. *)
IsDirect(x) == loop[x].fresh /\ ~onRelay[x]

(* Probe, under the mutex.  Probes of the round before last are older than 15 s. *)
Decide(x) ==
    LET switch == ~loop[x].fresh /\ MustSwitch(x)
    IN  /\ loop[x].at = "decide"
        /\ pending' = [pending EXCEPT ![x] = @ \ {round}]
        /\ rounds' = [rounds EXCEPT ![x] =
                          IF IsDirect(x) THEN 0 ELSE IF loop[x].fresh THEN @ ELSE Count(x)]
        /\ onRelay' = [onRelay EXCEPT ![x] = @ \/ switch]
        /\ GoTo(x, IF IsDirect(x) THEN "done" ELSE IF switch THEN "relay" ELSE "ping")
        /\ UNCHANGED <<engine, relayOK, recv, mapping, net, world>>

(* Probe, after the mutex: SetPeerEndpointString(pub, "relay:..."). *)
SwitchToRelay(x) ==
    /\ loop[x].at = "relay"
    /\ SetPeerEndpoint(x, "relay")
    /\ GoTo(x, "ping")
    /\ UNCHANGED <<age, manager, recv, mapping, net, world>>

(* SendPing; the packet opens the mapping of the sender's NAT. *)
SendPing(x) ==
    /\ loop[x].at = "ping"
    /\ net' = net \cup {Ping(Peer(x))}
    /\ mapping' = [mapping EXCEPT ![x] = MappingRounds]
    /\ GoTo(x, "register")
    /\ UNCHANGED <<engine, manager, recv, world>>

(* The probe is known to the manager only after it was sent. *)
RegisterProbe(x) ==
    /\ loop[x].at = "register"
    /\ pending' = [pending EXCEPT ![x] = @ \cup {round}]
    /\ GoTo(x, "done")
    /\ UNCHANGED <<engine, relayOK, rounds, onRelay, recv, mapping, net, world>>

-----------------------------------------------------------------------------
(* The receiver *)

(* handleDisco: a ping is answered to where it came from. *)
ReceivePing(x) ==
    \E m \in net :
        /\ m.type = "ping" /\ m.to = x /\ Arrives(x)
        /\ recv[x] = "idle"
        /\ net' = (net \ {m}) \cup {Pong(Peer(x), m.id)}
        /\ mapping' = [mapping EXCEPT ![x] = MappingRounds]
        /\ UNCHANGED <<engine, manager, loop, recv, world>>

(* The answer to the probe that x has sent, but not registered. *)
IsEarly(x, m) == loop[x].at = "register" /\ m.id = round

(* onPong, the first critical section. *)
ReceivePong(x) ==
    \E m \in net :
        /\ m.type = "pong" /\ m.to = x /\ Arrives(x)
        /\ ~IsEarly(x, m)
        /\ recv[x] = "idle"
        /\ net' = net \ {m}
        /\ pending' = [pending EXCEPT ![x] = @ \ {m.id}]
        /\ recv' = [recv EXCEPT ![x] =
                        IF m.id \notin pending[x] THEN "idle"
                        ELSE IF onRelay[x] THEN "apply" ELSE "check"]
        /\ UNCHANGED <<engine, relayOK, rounds, onRelay, loop, mapping, world>>

(* PeerHandshakes: a peer that is connected directly is left alone. *)
CheckHandshake(x) ==
    /\ recv[x] = "check"
    /\ recv' = [recv EXCEPT ![x] = IF Fresh(x) THEN "idle" ELSE "apply"]
    /\ UNCHANGED <<engine, manager, loop, mapping, net, world>>

(* SetPeerEndpoint to the address the pong came from. *)
ApplyEndpoint(x) ==
    /\ recv[x] = "apply"
    /\ SetPeerEndpoint(x, "direct")
    /\ recv' = [recv EXCEPT ![x] = "clear"]
    /\ UNCHANGED <<age, manager, loop, mapping, net, world>>

(* The last critical section. *)
ClearRelay(x) ==
    /\ recv[x] = "clear"
    /\ onRelay' = [onRelay EXCEPT ![x] = FALSE]
    /\ rounds' = [rounds EXCEPT ![x] = 0]
    /\ recv' = [recv EXCEPT ![x] = "idle"]
    /\ UNCHANGED <<engine, pending, relayOK, loop, mapping, net, world>>

Undelivered ==
    \E m \in net :
        /\ ~Arrives(m.to)
        /\ net' = net \ {m}
        /\ UNCHANGED <<engine, manager, loop, recv, mapping, world>>

-----------------------------------------------------------------------------
(* The engines (wireguard-go, external) *)

(* x renews the session, or starts one, by the endpoint it has; its peer
   answers where the packet came from. *)
Handshake(x) ==
    /\ age[x] >= RekeyAfter
    /\ Reaches(x)
    /\ age' = [y \in Agents |-> 0]
    /\ ep' = [y \in Agents |-> ep[x]]
    /\ UNCHANGED <<manager, loop, recv, mapping, net, world>>

(* A packet of a live session makes the peer answer where it came from. *)
Roam(x) ==
    /\ age[x] < SessionFor
    /\ ep[Peer(x)] # ep[x]
    /\ Reaches(x)
    /\ ep' = [ep EXCEPT ![Peer(x)] = ep[x]]
    /\ UNCHANGED <<age, manager, loop, recv, mapping, net, world>>

-----------------------------------------------------------------------------
(* Time and the world *)

Disturb(kind) ==
    /\ kind \in Disturbances
    /\ disturbed < MaxDisturbances
    /\ disturbed' = disturbed + 1

(* The next round, PollInterval later: both loops have ended their round, packets
   have arrived or are late (a probe is good for 15 s, so for one round more), the
   relay has answered if it runs, and an engine that can renew its session has done
   so (it tries every 5 s). *)
Tick ==
    /\ \A x \in Agents : loop[x].at = "done" /\ recv[x] = "idle"
    /\ \/ net = {} /\ UNCHANGED disturbed
       \/ net # {} /\ (\A m \in net : m.id = round) /\ Disturb("late")
    /\ \A x \in Agents : Reaches(x) => age[x] < RekeyAfter
    /\ round' = 1 - round
    /\ age' = [x \in Agents |-> IF age[x] < SessionFor THEN age[x] + 1 ELSE age[x]]
    /\ mapping' = [x \in Agents |-> IF ep[x] = "direct" THEN MappingRounds
                                    ELSE IF mapping[x] > 0 THEN mapping[x] - 1 ELSE 0]
    /\ loop' = [x \in Agents |-> [at |-> "todo", fresh |-> FALSE]]
    /\ ack' = [x \in Agents |-> IF relayUp THEN 0
                                ELSE IF ack[x] < HealthyFor THEN ack[x] + 1 ELSE HealthyFor]
    /\ UNCHANGED <<ep, manager, recv, net, open, up, relayUp>>

(* An early pong is dropped.  It takes a network faster than a few instructions
   of the same machine, so it does not happen at every round for ever. *)
EarlyPong(x) ==
    \E m \in net :
        /\ Disturb("early")
        /\ m.type = "pong" /\ m.to = x /\ Arrives(x)
        /\ IsEarly(x, m)
        /\ recv[x] = "idle"
        /\ net' = net \ {m}
        /\ UNCHANGED <<engine, manager, loop, recv, mapping, open, ack, round, up, relayUp>>

PathChanges ==
    /\ Disturb("path")
    /\ up' = ~up
    /\ UNCHANGED <<engine, manager, loop, recv, mapping, net, open, ack, round, relayUp>>

RelayChanges ==
    /\ Disturb("relay")
    /\ relayUp' = ~relayUp
    /\ UNCHANGED <<engine, manager, loop, recv, mapping, net, open, ack, round, up>>

(* What a disturbance of a goroutine leaves alone in the world. *)
elsewhere == <<open, ack, round, up, relayUp>>

(* The poll fails: sync returns before SyncPeers. *)
PollFails(x) ==
    /\ Disturb("poll")
    /\ loop[x].at = "todo"
    /\ SetRelayAvailable(x)
    /\ GoTo(x, "done")
    /\ UNCHANGED <<engine, pending, rounds, onRelay, recv, mapping, net, elsewhere>>

(* The map does not list the peer: SyncPeers removes it from the engine, ... *)
PeerUnlisted(x) ==
    /\ Disturb("map")
    /\ loop[x].at = "todo"
    /\ SetRelayAvailable(x)
    /\ ep' = [ep EXCEPT ![x] = "none"]
    /\ age' = [age EXCEPT ![x] = SessionFor]
    /\ GoTo(x, "forget")
    /\ UNCHANGED <<pending, rounds, onRelay, recv, mapping, net, elsewhere>>

(* ... Observe forgets it, and Probe has nobody to probe. *)
Forget(x) ==
    /\ loop[x].at = "forget"
    /\ rounds' = [rounds EXCEPT ![x] = 0]
    /\ onRelay' = [onRelay EXCEPT ![x] = FALSE]
    /\ pending' = [pending EXCEPT ![x] = @ \ {round}]
    /\ GoTo(x, "done")
    /\ UNCHANGED <<engine, relayOK, recv, mapping, net, world>>

(* PeerHandshakes fails in Probe, which returns. *)
ReadHandshakesFails(x) ==
    /\ Disturb("engine")
    /\ loop[x].at = "read"
    /\ GoTo(x, "done")
    /\ UNCHANGED <<engine, manager, recv, mapping, net, elsewhere>>

(* The engine refuses the relay as an endpoint: the mark is taken back, and the
   candidates are probed all the same. *)
SwitchToRelayFails(x) ==
    /\ Disturb("engine")
    /\ loop[x].at = "relay"
    /\ onRelay' = [onRelay EXCEPT ![x] = FALSE]
    /\ GoTo(x, "ping")
    /\ UNCHANGED <<engine, pending, relayOK, rounds, recv, mapping, net, elsewhere>>

(* PeerHandshakes fails in onPong, which goes on. *)
CheckHandshakeFails(x) ==
    /\ Disturb("engine")
    /\ recv[x] = "check"
    /\ recv' = [recv EXCEPT ![x] = "apply"]
    /\ UNCHANGED <<engine, manager, loop, mapping, net, elsewhere>>

(* The engine refuses the address of the pong: mark and count stay. *)
ApplyEndpointFails(x) ==
    /\ Disturb("engine")
    /\ recv[x] = "apply"
    /\ recv' = [recv EXCEPT ![x] = "idle"]
    /\ UNCHANGED <<engine, manager, loop, mapping, net, elsewhere>>

EngineFails(x) ==
    \/ ReadHandshakesFails(x) \/ SwitchToRelayFails(x)
    \/ CheckHandshakeFails(x) \/ ApplyEndpointFails(x)

Loop(x) ==
    \/ SyncPeers(x) \/ Forget(x) \/ ReadHandshakes(x)
    \/ Decide(x) \/ SwitchToRelay(x) \/ SendPing(x) \/ RegisterProbe(x)
Receiver(x) == ReceivePing(x) \/ ReceivePong(x) \/ CheckHandshake(x) \/ ApplyEndpoint(x) \/ ClearRelay(x)

Next ==
    \/ \E x \in Agents : Loop(x)
    \/ \E x \in Agents : Receiver(x)
    \/ \E x \in Agents : Handshake(x) \/ Roam(x)
    \/ Undelivered
    \/ Tick
    \/ PathChanges \/ RelayChanges
    \/ \E x \in Agents : PollFails(x) \/ PeerUnlisted(x) \/ EarlyPong(x) \/ EngineFails(x)

Spec == Init /\ [][Next]_vars

(* The ticker starts a round every ten seconds, the goroutines run, the engine
   renews its sessions and sends keepalives. *)
Fairness ==
    /\ \A x \in Agents : WF_vars(Loop(x)) /\ WF_vars(Receiver(x))
                          /\ WF_vars(Handshake(x)) /\ WF_vars(Roam(x))
    /\ WF_vars(Undelivered)
    /\ WF_vars(Tick)

FairSpec == Spec /\ Fairness

-----------------------------------------------------------------------------
(* Properties *)

(* A peer is marked as relayed only when more than relayAfterRounds rounds have
   gone by without a handshake since it was last joined directly, in whatever
   order the loop and the receiver update the mark and the count. *)
MarkEarned == \A x \in Agents : onRelay[x] => rounds[x] > RelayAfterRounds

(* Both machines are marked as relayed, but their engines have roamed to the direct
   path, which does not work: neither manager sets the relay again. *)
Stranded == ~up /\ \A x \in Agents : onRelay[x] /\ ep[x] = "direct"

(* While the relay runs, two machines are not cut off for ever: handshakes succeed
   again and again, whatever became of the direct path, of the NATs' mappings and of
   the rounds that failed (relayAfterRounds: "nombre de cycles sans handshake avant de
   basculer un pair sur le relais de secours").  The one way to be cut off is to be
   stranded. *)
Reconnects == <>[]relayUp => \A x \in Agents : []<>(Fresh(x) \/ Stranded)

(* The NAT of x lets nothing in, and x does not probe: it has followed its peer to the
   relay without the mark and takes the tunnel for a direct one. *)
Sheltered(x) == x \notin open /\ ep[x] = "relay" /\ ~onRelay[x]

(* Once the direct path works for good, no machine goes on marking its peer as relayed
   ("le premier pong ramène le pair en direct"), unless that peer is sheltered from its
   probes. *)
MarkLeaves == <>[]up => \A x \in Agents : []<>(~onRelay[x] \/ Sheltered(Peer(x)))

(* Once the direct path works for good, both machines use it in the end ("les
   sondes directes continuent ensuite, et le premier pong ramène le pair en
   direct"). *)
ReturnsToDirect == <>[]up => <>[](\A x \in Agents : ep[x] = "direct")
=============================================================================
