# A TLA+ development of OmniUp VPN

OmniUp is a WireGuard overlay network: a coordination server (`cmd/omni-server`),
an agent per machine (`cmd/omnid`), a STUN server and a fallback relay.  The
modules of this directory describe its core logic; TLC checks them on small
instances, and TLAPS proves the main safety invariants for every value of the
constants.  Paths below are relative to `src/`.

Contents: [inventory](#inventory), [plan](#plan), [modules](#modules-and-code),
[runs](#runs), [bounds](#bounds), [fairness](#fairness), [findings](#findings),
[proofs](#proofs), [what is left out](#what-is-not-modelled).

## Inventory

| Component | State | Operations | Interacts with |
|---|---|---|---|
| Store (`internal/control/store.go`) | machines, enrolment keys, policy, accounts, under one mutex; a JSON file | enrol, revoke, rotate, touch, approve routes, set policy, save, open | every HTTP handler calls it |
| HTTP API (`server.go`) | none of its own | register, poll, admin calls | several store calls per request, each atomic, the request is not |
| Accounts (`users.go`, `users_http.go`) | users, invites, web sessions in the store | invite, register, login, logout, own keys, own machines | store |
| SSO enrolment (`oidc.go`) | enrolment sessions in memory, 15 min | start, redirect, callback, wait | identity provider, store, agent |
| Policy (`acl.go`) | rules in the store | `Visible`, `Allows` | network map |
| Agent (`internal/agent/agent.go`) | state file, client token, known peers | one synchronisation every 10 s | server, socket, WireGuard, DNS |
| Endpoint manager (`endpoints.go`) | pending probes, candidates, rounds without handshake, peers on the relay | Observe, Probe, onPong | sync loop and receive goroutine |
| Socket (`internal/omnisock`) | one UDP socket, STUN transactions, relay key and last ACK | receive, Send, STUNRequest, SendPing | WireGuard engine, relay, STUN |
| Relay (`internal/relay`) | clients, addresses, pending challenges | REGISTER, PROOF, FORWARD | sockets of the agents |
| WireGuard configuration (`internal/wgnet`) | peers known, routes installed, exit node | SyncPeers, SetRoutes, SetPeerEndpoint | sync loop, endpoint manager |
| DNS (`internal/dnssrv`) | names of the last map | Update, ServeDNS | sync loop |
| STUN (`internal/stun`) | none | one request, one answer | socket |
| Command line, tray icon, services, web pages | none | flags, printing, calls of the API | server |

What is hard, and what makes each part correct:

- **Store.** A save fails, or the process dies in it, after the memory has
  changed. Addresses must stay unique in memory and in the file, what was
  confirmed must survive, a revocation must be final.
- **Token rotation.** The only answer that carries a new token may be lost, or
  go to another program of the same machine. The machine must never be locked
  out.
- **Relay.** Two maps that refer to each other, over UDP, with addresses that
  pass from client to client. They must agree; a client that is told it is
  registered must be one whose packets are forwarded.
- **Endpoint manager.** The loop decides under a mutex and acts outside it, the
  receiver likewise, and the engine roams on its own. Two machines that are cut
  off must meet again.
- **SSO enrolment.** Overlapping callbacks for one session, expiry, pruning,
  refused and accepted sign-ins. The agent's token must work, nobody who is not
  permitted may own a machine, every enrolment ends.
- **Network map.** A poll reads the store in several critical sections and is
  applied later. Engines must converge to what the administrator decided, and
  never route a prefix to a peer that was not approved.
- **Accounts.** Registration and session are two saves. An invitation makes one
  account, an account somebody was welcomed to lasts, a session that was closed
  stays closed.
- **Socket and STUN.** One goroutine reads the socket for everybody, so it must
  never wait for a STUN request; answers are late, double, or for a request that
  has given up. The address that is announced must be the one that was observed.
- **Process of the agent.** It changes the routing of the whole machine in several
  steps, each of which may fail, and may be killed between any two. It must never
  run with an exit node half in force, nor let its own packets loop, nor leave
  anything behind; and it must stop when it is told to.

## Plan

The modules are independent state machines over shared vocabulary (`Tokens`,
`Maps`); each one stands for a protocol between two or more parties rather than
for one Go file, because that is where the hard orders are.

| # | Module | Composes | State of the plan |
|---|---|---|---|
| 1 | `Store` | `Tokens`, `Maps`, `Leases` | checked, proved |
| 2 | `TokenRotation` | `Tokens`, `Handover`; store, HTTP, agent, side clients | checked, proved |
| 3 | `Relay` | `Maps`; relay, sockets, network | checked, proved |
| 4 | `Endpoints` | manager, socket, engine of two machines, NATs, relay | checked, safety proved |
| 5 | `Enroll` | `Maps`; OIDC handlers, agent, browser | checked, proved |
| 6 | `NetMap` | `Maps`; store, HTTP, agent, engine, system routes | checked, proved |
| 7 | `Accounts` | `Maps`; store, HTTP, visitors | checked, proved |
| 8 | `Socket` | STUN codec and transactions, the reading goroutine, `SO_MARK` | checked and proved within `Daemon` |
| 9 | `Daemon` | `Socket`; `agent.Up` from start to end, exit node, pid file, service, `omnid down`, the engine's mutex | checked, proved |
| 10 | `Handover` | abstract specification of the token's exchange, implemented by `TokenRotation` | checked, proved |
| 11 | `Leases` | abstract specification of the machines' ids and addresses, implemented by `Store` | checked, proved |

`NetMap` has taken in what was planned as modules of their own: `SyncPeers` with an
`IpcSet` that fails half-way, and the names of the DNS.

An abstract specification that could follow: a *register of clients* (one partial map
from keys to addresses) that the two maps of `Relay` implement at addresses used by
one client.

Every invariant and every action property that a run checks is now a theorem; what
is left for proof is that refinement.

## Modules and code

**`Maps`** has the partial functions that stand for the maps of Go; **`Tokens`**
the acceptance of a machine's token (`DeviceByToken`) and the rotation rule, used
by `Store` and `TokenRotation`.

**`Store`** (`internal/control/store.go`). `mem` is `Store.s`, `disk` the state
file. A method holds the mutex from its first read to the end of `saveLocked`,
so a call is an action, whose save succeeds (`Saved`), returns an error
(`SaveFailed`, the change stays in memory) or is cut by the end of the process
(`Interrupted`, the rename is atomic: the file is the old one or the new one).
Random values are numbers drawn in order. History variables record what callers
were told.

**`Leases`** is what `Store` promises of the machines: a table of ids and addresses
with a saved copy, and the ids that were ever given. A change is of one lease:
`Grant` gives a machine a fresh id and a free address, `Withdraw` takes both away; each
is committed to the table and the copy, to the table only (a save that failed), or is
lost with the process. Everything else a caller can do (`Keep`) leaves the leases as
they are. `LeasesOf(mem)` is the table, `LeasesOf(disk)` the copy. Unlike the properties
about what callers were told, this one has no premise about saves.

**`TokenRotation`** (`store.go`, `server.go`, `internal/agent`). One machine, its
daemon, other programs that poll with the same state file (`omnid status`, the
tray icon), and the server. A poll is the request, the critical sections of the
server and the delivery of the answer; the set `Faults` says which of them may go
wrong in a run, and the history `met` which have. **`Handover`** is what the
exchange amounts to: an issuer with a current and a previous token and a holder
that has one of the two.  `Issue` only to a holder of the current one, `Adopt` from
the previous to the current, `TakeBack` (the server's file is older than its memory)
only what was not adopted.  `H` maps the server's memory and the token the machine
holds, in memory or in its file, to it; it is void once the agent could not save.

**`Relay`** (`internal/relay`, the relay half of `internal/omnisock/bind.go`).
Frames are elements of a growing set, so they are delayed, duplicated, reordered
and lost; `clients`, `byAddr` and `pending` are the maps of the server.
Proofs are symbolic: only the owner of a key can answer a challenge to it.

**`Endpoints`** (`internal/agent/endpoints.go`, `bind.go`, `SetPeerEndpoint`).
Two agents, each with the loop goroutine (a program counter through `Probe`, as
it takes and leaves the mutex) and the receiver (`onPong` in its two critical
sections). NATs, the path, the relay and wireguard-go's handshakes and roaming
are external and modelled from how the code relies on them. `open` are the machines
that no NAT hides (chosen once, from `Sites`); to the others a packet gets through only
while `mapping` lasts. `ack` counts the rounds since the relay's last ACK, so that
`relayOK`, the manager's view of the relay, lags behind `relayUp` as `RelayHealthy`
does. What may disturb a run is named in `AllDisturbances`: besides the path and the
relay, a failed poll, a peer missing from one map (which forgets and configures it
again), an engine that fails to answer or to take an endpoint (the early returns of
`Observe`, `switchToRelay`, `onPong`), a pong that overtakes the manager's record of its
probe, and packets that arrive in the next round only.

**`Enroll`** (`internal/control/oidc.go`, `enrollSSO`). Sessions of enrolment,
browser tabs whose callback is split at each point where the mutex is left or
the identity provider is asked, and the agent that polls for the outcome.

**`NetMap`** (`server.go`, `acl.go`, routes in `store.go`; `agent.go`,
`wgnet.go`, `dnssrv.go`). The store's machines with advertised and approved routes,
the policy, the poll of each machine with the policy and map it has read so far, and
what the engine, the system and the DNS of each machine were told: `peers`,
`allowed` (the owner of each prefix), `kernel` (the routes of the system), `records`
(the names), beside what the agent believes: `known`, the peers it has configured, and
`installed`, the routes it has added (`installedRoutes`). A route whose removal the
system refuses is in `lingering`: `SetRoutes` forgets it all the same. An *entry*
of a policy or an approval denotes a set of machines: an address denotes one, `*`
all of them, a host name any number. `Label` is what `sanitizeLabel` makes of a
machine's name, and may be the same for several. `requireDevice`, `TouchDevice` and
`RotateTokenIfDue` are one step: a machine that is revoked between them changes
nothing in the first two, and the rotation only matters here by its error for a
revoked machine. The rest of a round is three steps, as the DNS goroutine answers
between them: `SyncPeers` (with `filterRoutes`), `SyncRoutes` (`SetRoutes`, each
route of which the system may refuse to add or to remove) and `SyncNames` (`Update`).
`SyncFails` is a round that ends in `SyncPeers`, the engine having taken the peers
before the one it refused. The server starts from one of the state files `Files`, and
`Options` gives the command lines of each machine. `routeAdd` is that of Linux, a
`RouteReplace`, which succeeds on a route that lingers; the commands of the other
systems would refuse it at every round.

**`Socket`** (`internal/omnisock/bind.go`, `internal/stun`). The socket, its mark, the
transactions with a channel each, and the goroutine that reads: `HandleSTUN` takes a
transaction out of the map under the mutex, `Deliver` sends to its channel after it.
The codec works on attributes; a symbol stands for the bytes that the cookie hides
and one for those that the transaction hides, so that forgetting the key, or using
another transaction's, shows.

**`Daemon`** (`agent.go`, `endpoints.go`, `exitnode_linux.go`, `wgnet.go`,
`cmd/omnid`). `main` is the line `Up` is at, `front` who runs it. `EnableExitNode` is
one step per call of netlink, and so is `DisableExitNode`; each call may fail; what Up
deferred runs in reverse. Two histories say what a process is excused of: `killed` are
the numbers of the processes that were killed, `orphans` the rules that nobody is left
to remove, until a later process with an exit node takes them over. `ipc` is the mutex of the engine (external: wireguard-go takes it for
`IpcSet` and `IpcGet`, and keeps it in `Close` and in a change of port until the
reading goroutine has ended). `Kill` may fall anywhere. STUN requests are made by
the loop of `Up` only, one at a time, and answered, lost, late or doubled.

**`Accounts`** (`users.go`, `users_http.go`). A visitor's request is
`RegisterUser` or `Authenticate` and then `CreateSession`, two critical sections;
the process may die between them or in a save. Passwords are the visitors who
chose them.

`MC*.tla` give the constants; a module `XProofs` holds the theorems of `X`.

## Runs

| Run | Question | Outcome |
|---|---|---|
| `store` | addresses unique, revocations final; until a save fails, enrolments durable and keys single-use; whatever fails, ids and addresses implement `Leases` | holds |
| `tokens` | with every fault, the exchange implements `Handover` and the machine is at most one rotation behind; in a calm run it is never locked out and adopts every rotation | holds |
| `tokens_loss` | no lock-out with one lost answer | violated |
| `relay` | the maps agree, registrations proved, nonces used once; an ACK means forwarding and packets carry their sender's key, at addresses one client has for itself | holds |
| `relay_reuse` | an ACK means forwarding, at any address | violated |
| `endpoints` | relay marks are earned, and go when the path works; while the relay runs, the pair meets again after any two disturbances, behind NATs or not, unless it is stranded | holds |
| `endpoints_relayed` | the pair returns to the direct path | violated |
| `enroll` | tokens work, live sessions are not pruned, an approved link is dead, owners are permitted, every enrolment ends | holds |
| `netmap` | only approved prefixes are routed, one's own never are; known peers are in the engine after any failure, names too outside of a round; engines, routes and names converge, tunnels are mutual | holds |
| `netmap_withdrawn` | subnets are routed to machines that advertise them | violated |
| `accounts` | one account per invitation, accounts last, sessions are honoured, and a closed one stays closed until a save fails | holds |
| `daemon` | the exit node is in force for IPv4 or the agent does not run; no loop; nothing is left behind but what a kill or the system leaves; the pid file is true; the announced address was observed; the reader never blocks on STUN; a daemon that is told to stop ends | holds |

Each property of a run that holds has a mutant: an operator beside the original
(its comment starts with "Mutant") with a plausible mistake, under which the run
fails on that property.  Every module's type invariant is a
theorem, which says more than a run would; that of `Daemon` is checked by its run
too.

Four properties (`EnrolmentDurable`, `SingleUse`, `TokensWork`, `LogoutFinal`) say
"until a save has failed": the premise is in the property and not in the bounds,
so that one run has both the behaviours it covers and those it excuses.  What
happens after a failed save is [below](#findings). In the same way `NoLockout` and
`RotationAdopted` speak of calm runs (`met` has an outage and one kind of mishap at
most), `AckMeansForward` and `Attribution` of addresses one client has for itself, and
`NoLoop` of a system that grants the mark.

Other properties name what the code does otherwise as an alternative of their own, so
that anything else still violates them:

- `Reconnects`: the pair is `Stranded`, both marked and both on a direct path that is
  broken. `MarkLeaves`: the peer is `Sheltered`, behind a NAT and on the relay without
  a mark, so that it sends no probes and lets none in.
- `Converges`: the agent does not know all the peers of its engine (not `Tidy`), or a
  route is `lingering`. `NamesReachable`: a round has removed the peer and has not come
  to the names yet.
- `Traceless`: rules in `orphans`, the pid file of a `killed` process. `PidFileTrue`:
  the file names a `killed` process.
- `Stops`: the deadlock `Stuck`.

Each of them is told [below](#findings).

### Bounds

- *Store:* a `/30` has two host addresses, and two machines that enrol, leave and
  come back compete for them; one failed save is enough for memory and file to
  differ; four random values make a key and three machines, or two of each.
  Restarts are not bounded.
- *TokenRotation:* the period 3 and the grace 2 keep the code's order (grace is
  shorter than the period), and the clock runs for several periods; all the faults
  are in one run.
- *Relay:* two keys, three addresses (one shared by two NATs), two challenges and
  one restart: a registration and a move, or two clients at one address in turn,
  with all the old frames still on their way.
- *Endpoints:* one round before the relay instead of two, a relay that is believed in
  for one round after its last ACK, timers that keep the order re-key < fresh <
  session. One machine is behind a NAT or both are, and the path is up or down at
  first. Any two disturbances, of any kinds, fall anywhere. That is enough to meet the
  alternatives: without `Stranded`, `Reconnects` fails (with one disturbance it would
  not), and without `Sheltered`, `MarkLeaves` does. `endpoints_relayed` needs neither
  NATs nor more than one break of the path.
- *Enroll:* two enrolments with two tabs that overlap at will, and one mishap:
  a restart, a failed save, or a revocation.
- *NetMap:* a client and two machines that both offer its subnet, so that two peers
  compete for one prefix; one of the two also is the client's exit node, and its agent
  comes and goes with other options, while the agent of the other does not run. The
  server's file has both from an earlier life, so that two decisions (revoke a machine,
  approve nothing, the subnet or all routes of one of the two, set the policy, stop an
  agent) and one failure (a lost poll, an `IpcSet` that fails, a route that is refused)
  are left to fall anywhere in the polls.
  The bound `MaxChanges` also stands for "the administrators leave things
  as they are", which convergence needs.  All machines have the same label, the
  case in which names compete.  `netmap_withdrawn` starts from an empty file and
  needs only two machines.
- *Accounts:* two failed saves and one death are what it takes to lose an account
  whose session could not be saved; four values drawn give two accounts with a
  session each.
- *Daemon:* two processes in turn, so that one meets what the other left; two
  transactions per process, so that the answer to the first comes while the second
  waits; a change of port, which may fall in any step of the first or the second.
  An IPv4 and an IPv6 address, a server that answers in the new form and one in the
  old.

Runs that may stop (all bounds used up and nothing to do) say
`CHECK_DEADLOCK FALSE`; the others keep the check.

### Fairness

- *TokenRotation:* the daemon polls (its ticker), answers arrive, a stopped
  daemon is started again (systemd restarts it).
- *Endpoints:* the loop and the receiver are goroutines; packets in flight arrive
  or are lost; wireguard-go keeps handshaking and answers where packets come
  from; time passes. No fairness for disturbances.
- *Enroll:* time passes, and an agent polls every two seconds. None for users.
- *NetMap:* an agent that runs polls every ten seconds and its handler ends
  (weak fairness of the poll of each machine). None for administrators, failures
  or stops.
- *Daemon:* the goroutine of `Up`, the reader and the engine go on when they can;
  every wait of `Up` has a timeout.  None for signals, kills or the network.
- `Store`, `Relay` and `Accounts` have safety properties only.

All of it is weak fairness: every action concerned stays enabled until it is
taken, as the goroutine that would take it waits for nothing else.  The one
exception is `Leave` of `Daemon`: the `select` of the loop may find the ticker and
the end of the context ready together, and Go chooses among ready cases at random,
so that the end is chosen sooner or later (strong fairness).

## Findings

Where a doc or a comment of the repository promises more than the code does, a run
shows the shortest way there (see `PROJECT.json` for the quotes):

1. `store.go:320` (`tokens_loss`): a lost answer to the rotating poll locks the
   machine out when the grace ends, although it goes on polling.
2. `relay/server.go:99` (`relay_reuse`): a REGISTER is acknowledged from `clients`
   alone, while `byAddr` may belong to another client.
3. `endpoints.go:120` (`endpoints_relayed`): a pair whose engines roamed to the
   relay without the mark is never probed again.
4. `store.go:347` (`netmap_withdrawn`): routes an agent stops advertising are
   distributed for ever.

Other behaviours met while modelling, which the properties above exclude by their
premises or bounds and no run is spent on:

- `store.go:224`: a machine that retries an enrolment whose save failed is told
  200 by the branch for known machines, without a save, and is gone after a
  restart (why `EnrolmentDurable` stops at the first failed save).
- `cmd/omnid/main.go:181`: `omnid status` takes the new token from its answer and
  drops it; the effect is that of a lost answer (`side_poll` in `Faults`).
- `endpoints.go:127`: a pair that is marked but roamed to the direct path is not
  switched to the relay when the path breaks again: it is cut off although the relay
  runs (the alternative `Stranded` of `Reconnects`).
- `endpoints.go:120`: a machine behind a NAT that roamed to the relay without the mark
  takes its tunnel for a direct one and sends no probes; those of its peer do not pass
  its NAT, and the peer's mark stays though the path works (`Sheltered` in
  `MarkLeaves`).
- `oidc.go:176`: after a refused sign-in and an accepted one for the same session,
  the page says "connected" and the agent is refused.
- `bind.go:192`, `endpoints.go:179`: a pong is handled by the goroutine that reads the
  socket and asks the engine for its handshakes; `Close`, or a change of port, holds
  the engine's mutex and waits for that goroutine. A pong that is being handled at
  that moment keeps the daemon from stopping (`Stuck` in `Daemon`).
- `exitnode_linux.go:61`, `agent.go:193`: when the rule 5001 is refused, `Up` returns
  without `DisableExitNode`, and the rule 5000 stays. A killed daemon leaves
  both rules and the pid file (`orphans` and `killed` in `Traceless`).
- `exitnode_linux.go:35`, `:50`, `:60`: the default route and both rules are of IPv4 only. IPv6
  traffic leaves by the machine's own connection, whereas `README.md:298` ("Tout le
  trafic Internet part alors chiffré vers l'exit node") and `exitnode_linux.go:19`
  ("route tout le trafic") say all of it is routed. `ExitNodeInForce` is about IPv4.
- `wgnet.go:181`: a route whose removal fails is dropped from `installedRoutes`
  nevertheless; it stays in the system until the interface goes (`lingering` in
  `Converges`).
- `agent.go:268`, `:286`: between `SyncPeers` and `Update` the DNS answers with the
  address of a peer that was just removed (`InRound` in `NamesReachable`).
- `forward_linux.go:19`: `iptables -C` is asked without `-t nat`, finds nothing, and
  the masquerading rule is appended at every start, under the comment "Idempotent".
- `wgnet.go:157`: a peer that an `IpcSet` added before it failed, and that is gone from
  the map at the next round, stays in the engine until the agent ends (why
  `Converges` is about agents that are `Tidy`).
- `dnssrv.go:47`: a peer with the same label takes the machine's own name from it.
- `users.go:196`: a logout whose save fails is answered 204 and undone by a restart
  (why `LogoutFinal` stops at the first failed save).

## Proofs

`tlapm` checks every theorem below to the last leaf. Constants are only assumed
to be what the `ASSUME`s of the modules say (named there), except where stated.

| Theorem | Property | Argument |
|---|---|---|
| `StoreProofs!TypeCorrect` | `TypeOK` | by itself inductive |
| `StoreProofs!AddressesUnique` | `UniqueIPs` | uniqueness in memory *and* in the file is the invariant: a restart makes the file the memory |
| `StoreProofs!RevocationFinal` | `RevokedTokensRefused` | every token in either state was drawn for its machine, each token is drawn once, and confirmed revocations are in neither state |
| `StoreProofs!EnrolmentKept`, `KeyUsedOnce` | `EnrolmentDurable`, `SingleUse` | until a save fails memory and file are equal; both know every confirmed machine, and a key that is used up has one machine to its name |
| `StoreProofs!Refinement` | `ImplementsLeases` | each call commits one grant, one withdrawal or none, in each of the three outcomes of its save; ids are drawn in order, so one that was given is behind the counter, and a free address is one no machine in memory has |
| `TokenRotationProofs!TypeCorrect` | `TypeOK` | by itself inductive |
| `TokenRotationProofs!OneBehind`, `NeverLockedOut` | `AtMostOneBehind`, `NoLockout` | one invariant relates the token on its way, in memory and in the agent's file to the server's two, in memory and in its file, according to what has gone wrong so far |
| `TokenRotationProofs!Refinement` | `ImplementsHandover` | the initial states map to one, and under the same invariant each action maps to `Issue`, `Adopt`, `TakeBack`, `Forfeit` or a stutter |
| `RelayProofs!MapsAgree` | `ByAddrSound` | each entry of `byAddr` points back to its client |
| `RelayProofs!AckedClientsForward` | `AckMeansForward` | frames come from an address of their client, so no proof overwrites the entry of an address that is another's alone |
| `RelayProofs!TypeCorrect` | `TypeOK` | by itself inductive |
| `RelayProofs!OnlyProvedKeys` | `ProvedRegistration` | by itself inductive |
| `RelayProofs!NonceGrantsOnce` | `NonceSingleUse` | a nonce is in one place: pending at one address, or granted once |
| `RelayProofs!ForwardedUnderOwnKey` | `Attribution` | `byAddr` of an address that is one client's alone names that client, and a frame of a client comes from an address of its own |
| `EndpointsProofs!TypeCorrect`, `MarksEarned` | `TypeOK`, `MarkEarned` | the count of rounds that the loop carries out of its critical section is itself over the limit |
| `EnrollProofs!TypeCorrect`, `TokensGivenWork`, `OwnersPermitted` | `TypeOK`, `TokensWork`, `OwnersAllowed` | the result of a session is its machine's token or revoked; a callback past the exchange has a permitted account. For `TokensGivenWork`, memory and file are equal until a save fails |
| `EnrollProofs!SessionsNotForgotten`, `LinkStaysDead` | `NotForgotten`, `LinkIsDead` | until a restart the session of an agent that waits is in the table or has expired, and ages only grow; a callback begins only on a session that is not approved, and the file has no machine that memory lacks |
| `NetMapProofs!TypeCorrect` | `TypeOK` | by itself inductive |
| `NetMapProofs!RoutesApprovedAlways`, `OwnSubnetsStayLocal` | `RoutesApproved`, `OwnSubnetsLocal` | approvals cover the routes in the store and in each map that is on its way; an agent that does not run has an empty engine, so new options meet no old routes |
| `NetMapProofs!KnownAlwaysInEngine`, `NamesAlwaysReachable` | `KnownInEngine`, `NamesReachable` | known peers are in the engine, as only a round that succeeds changes `known` and removes peers. Outside of a round names stand for the machine or for peers it knows; within one, a name of the map stands for a peer that has just been configured (`Followed`) |
| `AccountsProofs!TypeCorrect` | `TypeOK` | by itself inductive |
| `AccountsProofs!InvitationsOnce`, `AccountsKept`, `SessionsKept` | `InviteOnce`, `AccountsLast`, `SessionsHonoured` | memory and file each keep every promise made so far (`Sound`), though they may differ: a promise is made only after a save, and requests in flight are for accounts in memory |
| `AccountsProofs!LogoutsLast` | `LogoutFinal` | until a save fails memory and file are equal and have no session that was closed; its number is not drawn again |
| `DaemonProofs!TypeCorrect` | `TypeOK` | the request that waits is to a server there is |
| `DaemonProofs!NeverLoops`, `ExitNodeHolds` | `NoLoop`, `ExitNodeInForce` | a route implies the mark, of the socket there is and of the next one; each point of `EnableExitNode` implies the steps before it |
| `DaemonProofs!LeavesNothing`, `PidFileNamesDaemon` | `Traceless`, `PidFileTrue` | rules and pid file are those of a process that was killed or refused, or there only at points of `Up` from which what removes them is still to come |
| `DaemonProofs!ReceiverNeverBlocks` | `ReceiverFree` | a registered transaction is the request's, has an empty channel, and no answer to it is being delivered |
| `DaemonProofs!EndpointIsObserved` | `EndpointObserved` | every address being delivered, in a channel or in `myEndpoints` was seen by a server for that request; `ParsedAsBuilt` is the step from the server to the reader |

Few of the properties are inductive by themselves: a state of memory says nothing of the file a restart will read, a map
on its way says nothing of what was approved, a route says nothing of the socket that
the next change of port opens. The strengthenings are the definitions of the proof
modules, each before the lemma that needs it.

`ParsedAsBuilt` (in `DaemonProofs`) is about the STUN codec alone: for every list of
attributes with an address in it, `ParseBindingResponse` gives back what
`BuildBindingResponse` was given, for the first XOR-MAPPED-ADDRESS or, without one,
the last MAPPED-ADDRESS. That there is a first and a last one follows from the
well-foundedness of the naturals (`Smallest`, `Largest`).

The attempt to prove `LinkIsDead` corrected it. As first stated, a sealed machine never
changes at all; with two permitted accounts and a failed save, a restart brings back
the owner that the file still has. That is what every failed save of the store does,
and the property now says so; the bounds of the run are too small to meet it.

Not proved, only model-checked: everything under a fairness assumption
(`Converges`, `TunnelsMutual`, `Reconnects`, `MarkLeaves`, `EnrolmentEnds`,
`RotationAdopted`, `Stops`), since liveness and `ENABLED` are beyond the installed prover.
The modules have no `RECURSIVE` operator, and no theorem needs induction over
data, neither of which the prover could handle.

## What is not modelled

- The forwarding of a router (`enableForwarding`: it is set and never withdrawn); the
  layout of frames and messages; the local addresses among the candidates.
- A second `omnid up` beside a running one: it fails when it creates the interface,
  before it has changed anything.
- A pid file left by a killed daemon whose number another program has by now:
  `omnid down` would signal that program. Numbers of processes are not used twice in
  `Daemon`.
- Answers of STUN servers that do not parse (`stun.go:118`, `:152`): the servers of
  `Socket` send a well-formed answer (`ServerAssumption`), and a lost one has the same
  effect. Frames with a forged proof: nobody in `Relay` makes one, so that the
  refusal of `VerifyProof` is not met.
- IPv6 beside the tunnel, see the [exit node](#findings); systems other than Linux, but for
  what `wgnet.go` and `agent.go` do everywhere.
- The listing of an account's machines; its keys and its revocations are actions of
  `Store` (`CreateAuthKeyFor`, `RemoveOwnedDevice`), apart from its sessions: planned.
- Cryptography: tokens, keys, nonces and codes are values nobody guesses.
- WireGuard itself, the identity provider's protocol, NATs and the kernel: the
  effects the code relies on are modelled and marked external.
- The commands of `omni-server`, the tray icon, `omnid status`, the installation of
  the service, packaging, web pages: they print, or call the API, whose handlers are
  in `Store`, `NetMap`, `Accounts`. Their polls are the side polls of `TokenRotation`.
- Go's data races: the fields concerned are under mutexes; where two goroutines
  meet outside them (`Probe` and `onPong`), the interleaving is modelled.
