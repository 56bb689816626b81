--------------------------- MODULE EndpointsProofs ---------------------------
(***************************************************************************)
(* Safety of the endpoint managers, for every number of rounds, every kind *)
(* of NAT and every number of disturbances.                                *)
(***************************************************************************)
EXTENDS Endpoints, FiniteSetTheorems, TLAPS

(* The peer of a machine is a machine. *)
LEMMA PeerInAgents == ASSUME NEW x \in Agents PROVE Peer(x) \in Agents
<1>1. \E y \in Agents : y # x
  <2>1. SUFFICES ASSUME \A y \in Agents : y = x PROVE FALSE
    OBVIOUS
  <2>2. Agents = {x}
    BY <2>1
  <2>3. Cardinality(Agents) = 1
    BY <2>2, FS_Singleton
  <2> QED
    BY <2>3, AgentsAssumption
<1> QED
    BY <1>1 DEF Peer

(* The count of the rounds stays below its bound. *)
LEMMA CountType ==
    ASSUME NEW x \in Agents, rounds \in [Agents -> 0 .. RelayAfterRounds + 1]
    PROVE  Count(x) \in 0 .. RelayAfterRounds + 1 /\ Count(x) >= rounds[x]
BY RoundsAssumption DEF Count

LEMMA TypeOKInit == Init => TypeOK
BY RoundsAssumption, SitesAssumption, DisturbanceAssumption DEF Init, TypeOK, MappingRounds

LEMMA TypeOKStep == ASSUME TypeOK, [Next]_vars PROVE TypeOK'
<1> USE RoundsAssumption, DisturbanceAssumption DEF TypeOK, engine, manager, world, elsewhere
<1>1. ASSUME NEW x \in Agents, SyncPeers(x) PROVE TypeOK'
    BY <1>1 DEF SyncPeers, SetRelayAvailable, GoTo
<1>2. ASSUME NEW x \in Agents, Decide(x) PROVE TypeOK'
  <2>1. rounds' \in [Agents -> 0 .. RelayAfterRounds + 1]
    BY <1>2, CountType DEF Decide
  <2>2. onRelay' \in [Agents -> BOOLEAN]
    BY <1>2 DEF Decide, MustSwitch
  <2>3. pending' \in [Agents -> SUBSET {0, 1}]
    BY <1>2 DEF Decide
  <2>4. loop' \in [Agents -> [at : {"todo", "forget", "read", "decide", "relay", "ping", "register",
                                    "done"},
                              fresh : BOOLEAN]]
    BY <1>2 DEF Decide, GoTo
  <2> QED
    BY <1>2, <2>1, <2>2, <2>3, <2>4 DEF Decide
<1>3. ASSUME NEW x \in Agents, SwitchToRelay(x) PROVE TypeOK'
    BY <1>3 DEF SwitchToRelay, SetPeerEndpoint, GoTo
<1>4. ASSUME NEW x \in Agents, SendPing(x) PROVE TypeOK'
    BY <1>4, PeerInAgents DEF SendPing, Ping, GoTo, MappingRounds
<1>5. ASSUME NEW x \in Agents, RegisterProbe(x) PROVE TypeOK'
    BY <1>5 DEF RegisterProbe, GoTo
<1>6. ASSUME NEW x \in Agents, ReceivePing(x) PROVE TypeOK'
    BY <1>6, PeerInAgents DEF ReceivePing, Pong, MappingRounds
<1>7. ASSUME NEW x \in Agents, ReceivePong(x) PROVE TypeOK'
    BY <1>7 DEF ReceivePong
<1>8. ASSUME NEW x \in Agents, CheckHandshake(x) PROVE TypeOK'
    BY <1>8 DEF CheckHandshake
<1>9. ASSUME NEW x \in Agents, ApplyEndpoint(x) PROVE TypeOK'
    BY <1>9 DEF ApplyEndpoint, SetPeerEndpoint
<1>10. ASSUME NEW x \in Agents, ClearRelay(x) PROVE TypeOK'
    BY <1>10 DEF ClearRelay
<1>11. ASSUME NEW x \in Agents, Handshake(x) PROVE TypeOK'
    BY <1>11 DEF Handshake
<1>12. ASSUME NEW x \in Agents, Roam(x) PROVE TypeOK'
    BY <1>12 DEF Roam
<1>13. CASE Undelivered
    BY <1>13 DEF Undelivered
<1>14. CASE Tick
    BY <1>14 DEF Tick, Disturb, MappingRounds
<1>15. CASE PathChanges
    BY <1>15 DEF PathChanges, Disturb
<1>16. CASE RelayChanges
    BY <1>16 DEF RelayChanges, Disturb
<1>17. ASSUME NEW x \in Agents, PollFails(x) PROVE TypeOK'
    BY <1>17 DEF PollFails, SetRelayAvailable, Disturb, GoTo
<1>18. ASSUME NEW x \in Agents, PeerUnlisted(x) PROVE TypeOK'
    BY <1>18 DEF PeerUnlisted, SetRelayAvailable, Disturb, GoTo
<1>19. ASSUME NEW x \in Agents, EarlyPong(x) PROVE TypeOK'
    BY <1>19 DEF EarlyPong, Disturb
<1>20. ASSUME NEW x \in Agents, Forget(x) PROVE TypeOK'
    BY <1>20 DEF Forget, GoTo
<1>21. ASSUME NEW x \in Agents, ReadHandshakes(x) PROVE TypeOK'
    BY <1>21 DEF ReadHandshakes, Fresh
<1>22. ASSUME NEW x \in Agents, EngineFails(x) PROVE TypeOK'
  <2>1. CASE ReadHandshakesFails(x)
    BY <2>1 DEF ReadHandshakesFails, Disturb, GoTo
  <2>2. CASE SwitchToRelayFails(x)
    BY <2>2 DEF SwitchToRelayFails, Disturb, GoTo
  <2>3. CASE CheckHandshakeFails(x)
    BY <2>3 DEF CheckHandshakeFails, Disturb
  <2>4. CASE ApplyEndpointFails(x)
    BY <2>4 DEF ApplyEndpointFails, Disturb
  <2> QED
    BY <1>22, <2>1, <2>2, <2>3, <2>4 DEF EngineFails
<1>23. CASE UNCHANGED vars
    BY <1>23 DEF vars
<1> QED
    BY <1>1, <1>2, <1>3, <1>4, <1>5, <1>6, <1>7, <1>8, <1>9, <1>10, <1>11, <1>12, <1>13,
       <1>14, <1>15, <1>16, <1>17, <1>18, <1>19, <1>20, <1>21, <1>22, <1>23 DEF Next, Loop, Receiver

(* The variables of the managers, the engines and the world keep their types
   (TypeOK), whatever the NATs and the disturbances. *)
THEOREM TypeCorrect == Spec => []TypeOK
<1>1. Init => TypeOK
    BY TypeOKInit
<1>2. TypeOK /\ [Next]_vars => TypeOK'
    BY TypeOKStep
<1> QED
    BY <1>1, <1>2, PTL DEF Spec

-----------------------------------------------------------------------------

LEMMA MarkEarnedStep ==
    ASSUME TypeOK, MarkEarned, [Next]_vars
    PROVE  MarkEarned'
<1> USE RoundsAssumption DEF TypeOK, MarkEarned, engine, manager, world, elsewhere
(* The loop marks a peer when its count has passed the limit, and sets the count
   back only for a peer that is not marked. *)
<1>1. ASSUME NEW x \in Agents, Decide(x) PROVE MarkEarned'
  <2>1. ASSUME NEW y \in Agents, onRelay'[y] PROVE rounds'[y] > RelayAfterRounds
    <3>1. CASE y # x
        BY <1>1, <2>1, <3>1 DEF Decide
    <3>2. CASE y = x /\ onRelay[x]
      <4>1. ~IsDirect(x) /\ rounds'[x] \in {rounds[x], Count(x)}
        BY <1>1, <3>2 DEF Decide, IsDirect
      <4>2. Count(x) >= rounds[x] /\ rounds[x] > RelayAfterRounds
        BY <3>2, CountType
      <4> QED
        BY <3>2, <4>1, <4>2, CountType
    <3>3. CASE y = x /\ ~onRelay[x]
      <4>1. ~loop[x].fresh /\ MustSwitch(x)
        BY <1>1, <2>1, <3>3 DEF Decide
      <4>2. rounds'[x] = Count(x)
        BY <1>1, <4>1 DEF Decide, IsDirect
      <4> QED
        BY <3>3, <4>1, <4>2 DEF MustSwitch
    <3> QED
        BY <3>1, <3>2, <3>3
  <2> QED
    BY <2>1
(* The receiver and a map without the peer clear mark and count together. *)
<1>2. ASSUME NEW x \in Agents, ClearRelay(x) PROVE MarkEarned'
    BY <1>2 DEF ClearRelay
<1>3. ASSUME NEW x \in Agents, Forget(x) PROVE MarkEarned'
    BY <1>3 DEF Forget
(* A switch that fails takes the mark back and leaves the count. *)
<1>4. ASSUME NEW x \in Agents, SwitchToRelayFails(x) PROVE MarkEarned'
    BY <1>4 DEF SwitchToRelayFails
<1>5. CASE UNCHANGED <<rounds, onRelay>>
    BY <1>5
<1>6. \/ \E x \in Agents :
            Decide(x) \/ ClearRelay(x) \/ Forget(x) \/ SwitchToRelayFails(x)
      \/ UNCHANGED <<rounds, onRelay>>
    BY DEF Next, Loop, Receiver, SyncPeers, ReadHandshakes, SwitchToRelay, SendPing,
       RegisterProbe, ReceivePing, ReceivePong, CheckHandshake, ApplyEndpoint, Handshake, Roam,
       Undelivered, Tick, PathChanges, RelayChanges, PollFails, PeerUnlisted, EarlyPong,
       EngineFails, ReadHandshakesFails, CheckHandshakeFails, ApplyEndpointFails, vars
<1> QED
    BY <1>1, <1>2, <1>3, <1>4, <1>5, <1>6

(* Loop and receiver never leave a peer marked as relayed without the rounds
   that justify it (MarkEarned), for every relayAfterRounds. *)
THEOREM MarksEarned == Spec => []MarkEarned
<1>1. Init => MarkEarned
    BY DEF Init, MarkEarned
<1>2. TypeOK /\ MarkEarned /\ [Next]_vars => MarkEarned'
    BY MarkEarnedStep
<1> QED
    BY <1>1, <1>2, TypeCorrect, PTL DEF Spec
=============================================================================
