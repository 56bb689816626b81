------------------------------- MODULE NetMap -------------------------------
(***************************************************************************)
(* The network map from the administrator's decisions to the engines: the  *)
(* server filters the machines by the policy and their routes by the       *)
(* approval (internal/control/server.go, acl.go, store.go), an agent polls *)
(* the map and aligns the peers of its WireGuard engine and the routes of  *)
(* its system and the names of its DNS on it (internal/agent/agent.go,     *)
(* internal/wgnet/wgnet.go, internal/dnssrv/dnssrv.go).                    *)
(*                                                                         *)
(* A poll is several critical sections of the store, and the map reaches   *)
(* the agent later; enrolments, revocations, policies and approvals fall   *)
(* in between.  Saves of the store are those of the module Store, and the  *)
(* token in the answer is that of TokenRotation.                           *)
(***************************************************************************)
EXTENDS Integers, FiniteSets, Maps

CONSTANTS Machines,    \* machines, numbered in the order of their addresses
          Entries,     \* what an administrator may write for machines
          Denotes,     \* the machines with that name or address, all of them for "*"
          Routes,      \* canonical prefixes
          Default,     \* 0.0.0.0/0, one of Routes
          Label,       \* sanitizeLabel of the name of a machine, NoLabel if nothing is left
          Policies,    \* the policies the administrator may set
          Approvals,   \* the routes the administrator may approve, and for which entry
          Options,     \* by machine, the options its omnid may be started with
          Files,       \* the machines the server may find in its state file
          MaxChanges,  \* bound: decisions of administrators and stops of agents
          MaxFailures  \* bound: polls that are lost, what engines and systems refuse

Nobody == 0
NoLabel == ""
Labels == {Label[m] : m \in Machines} \ {NoLabel}

ASSUME MachinesAssumption == Machines \subseteq Nat \ {Nobody} /\ IsFiniteSet(Machines)
ASSUME EntriesAssumption == Denotes \in [Entries -> SUBSET Machines]
ASSUME PoliciesAssumption == Policies \subseteq SUBSET [src : SUBSET Entries, dst : SUBSET Entries]
ASSUME ApprovalsAssumption == Approvals \subseteq [device : Entries, routes : SUBSET Routes]
AllOptions == [advertise : SUBSET Routes, accept : BOOLEAN, exit : SUBSET Machines]
DeviceRoutes == [advertised : SUBSET Routes, approved : SUBSET Routes]

ASSUME OptionsAssumption == Options \in [Machines -> SUBSET AllOptions]
ASSUME FilesAssumption == \A file \in Files : IsMap(file, Machines, DeviceRoutes)
ASSUME RoutesAssumption == Default \in Routes /\ IsFiniteSet(Routes)
ASSUME BoundsAssumption == {MaxChanges, MaxFailures} \subseteq Nat

VARIABLES
    devices,    \* store: advertised and approved routes, by machine
    revoked,    \* machines that were revoked; a machine that comes back has a new key
    acl,        \* store: the policy, a set of rules
    poll,       \* the poll of a machine: where its handler is, the policy and the map it read
    opts,       \* options of a running agent
    running,    \* machines whose agent runs
    peers,      \* peers of the engine of a machine
    known,      \* knownPeers of its agent
    allowed,    \* allowed IPs: the peer an engine sends a prefix to, or Nobody
    installed,  \* installedRoutes: the prefixes an agent has routed
    kernel,     \* prefixes the system of a machine routes to the interface
    lingering,  \* history: routes the system refused to remove
    records,    \* names the DNS of a machine resolves, and the machine they stand for
    approvals,  \* history: approvals ever given
    changes, failures

server == <<devices, revoked, acl, approvals>>
routes == <<installed, kernel, lingering>>
engine == <<peers, known, allowed, routes, records>>
vars == <<server, poll, opts, running, engine, changes, failures>>

-----------------------------------------------------------------------------

Idle == [at |-> "idle", acl |-> {}, map |-> Empty]
NoOptions == [advertise |-> {}, accept |-> FALSE, exit |-> {}]

IsPoll(q) ==
    /\ q = [at |-> q.at, acl |-> q.acl, map |-> q.map]
    /\ q.at \in {"idle", "acl", "devices", "answered", "routes", "names"}
    /\ q.acl \in Policies \cup {{}}
    /\ IsMap(q.map, Machines, SUBSET Routes)

TypeOK ==
    /\ IsMap(devices, Machines, DeviceRoutes)
    /\ revoked \subseteq Machines
    /\ acl \in Policies \cup {{}}
    /\ DOMAIN poll = Machines /\ \A m \in Machines : IsPoll(poll[m])
    /\ opts \in [Machines -> AllOptions]
    /\ running \subseteq Machines
    /\ peers \in [Machines -> SUBSET Machines]
    /\ known \in [Machines -> SUBSET Machines]
    /\ allowed \in [Machines -> [Routes -> Machines \cup {Nobody}]]
    /\ {installed, kernel, lingering} \subseteq [Machines -> SUBSET (Routes \ {Default})]
    /\ DOMAIN records = Machines /\ \A m \in Machines : IsMap(records[m], Labels, Machines)
    /\ approvals \subseteq Machines \X Routes
    /\ changes \in 0 .. MaxChanges /\ failures \in 0 .. MaxFailures

(* The server starts with what is in its file, and no agent runs. *)
Init ==
    /\ devices \in Files
    /\ revoked = {}
    /\ acl = {}
    /\ poll = [m \in Machines |-> Idle]
    /\ opts = [m \in Machines |-> NoOptions]
    /\ running = {}
    /\ peers = [m \in Machines |-> {}]
    /\ known = [m \in Machines |-> {}]
    /\ allowed = [m \in Machines |-> [r \in Routes |-> Nobody]]
    /\ installed = [m \in Machines |-> {}]
    /\ kernel = [m \in Machines |-> {}]
    /\ lingering = [m \in Machines |-> {}]
    /\ records = [m \in Machines |-> Empty]
    /\ approvals = {mr \in Machines \X Routes :
                        mr[1] \in DOMAIN devices /\ mr[2] \in devices[mr[1]].approved}
    /\ changes = 0 /\ failures = 0

-----------------------------------------------------------------------------
(* The policy and the map *)

MatchAny(entries, m) == \E e \in entries : m \in Denotes[e]

Allows(policy, m, p) ==
    \/ policy = {}
    \/ \E rule \in policy : MatchAny(rule.src, m) /\ MatchAny(rule.dst, p)

(* Mutant: a machine knows those it may talk to, not those that may talk to it. *)
VisibleOneWay(policy, m, p) == Allows(policy, m, p)

Visible(policy, m, p) == Allows(policy, m, p) \/ Allows(policy, p, m)

(* Mutant: routes are distributed as soon as a machine advertises them. *)
ActiveRoutesUnapproved(d) == d.advertised

(* activeRoutes: advertised and approved. *)
ActiveRoutes(d) == d.advertised \cap d.approved

(* The peers in the map of m, with their routes. *)
MapFor(policy, m) ==
    [p \in {q \in DOMAIN devices \ {m} : Visible(policy, m, q)} |-> ActiveRoutes(devices[p])]

-----------------------------------------------------------------------------
(* Administrators *)

Change == changes < MaxChanges /\ changes' = changes + 1

(* RegisterDevice or RegisterDeviceSSO, before the agent's loop starts. *)
Enrol(m) ==
    /\ Options[m] # {}
    /\ m \notin DOMAIN devices /\ m \notin revoked
    /\ devices' = Put(devices, m, [advertised |-> {}, approved |-> {}])
    /\ UNCHANGED <<revoked, acl, approvals, poll, opts, running, engine, changes, failures>>

(* RemoveDevice *)
Revoke(m) ==
    /\ m \in DOMAIN devices
    /\ Change
    /\ devices' = Delete(devices, m)
    /\ revoked' = revoked \cup {m}
    /\ UNCHANGED <<acl, approvals, poll, opts, running, engine, failures>>

(* handleSetRoutes and SetApprovedRoutes: the first machine the map yields. *)
SetApprovedRoutes(e, R) ==
    \E m \in Denotes[e] \cap DOMAIN devices :
        /\ Change
        /\ devices' = [devices EXCEPT ![m].approved = R]
        /\ approvals' = approvals \cup ({m} \X R)
        /\ UNCHANGED <<revoked, acl, poll, opts, running, engine, failures>>

(* handleSetACL *)
SetACL(policy) ==
    /\ Change
    /\ acl' = policy
    /\ UNCHANGED <<devices, revoked, approvals, poll, opts, running, engine, failures>>

-----------------------------------------------------------------------------
(* A poll: the critical sections of handlePoll *)

GoTo(m, where) == poll' = [poll EXCEPT ![m].at = where]

(* requireDevice, TouchDevice and RotateTokenIfDue: a machine that is revoked between
   them is answered an error, as if it had been revoked before.  An empty list is not
   sent (omitempty), and leaves the advertised routes alone. *)
TouchDevice(m) ==
    /\ m \in running /\ m \in DOMAIN devices
    /\ poll[m].at = "idle"
    /\ devices' = [devices EXCEPT ![m].advertised =
                       IF opts[m].advertise = {} THEN @ ELSE opts[m].advertise]
    /\ GoTo(m, "acl")
    /\ UNCHANGED <<revoked, acl, approvals, opts, running, engine, changes, failures>>

(* s.store.ACL() *)
ReadACL(m) ==
    /\ poll[m].at = "acl"
    /\ poll' = [poll EXCEPT ![m] = [at |-> "devices", acl |-> acl, map |-> @.map]]
    /\ UNCHANGED <<server, opts, running, engine, changes, failures>>

(* s.store.Devices(), peerView, and the answer. *)
Answer(m) ==
    /\ poll[m].at = "devices"
    /\ poll' = [poll EXCEPT ![m] =
                    [at |-> "answered", acl |-> @.acl, map |-> MapFor(@.acl, m)]]
    /\ UNCHANGED <<server, opts, running, engine, changes, failures>>

(* The agent does not get the answer: sync gives up until the next round. *)
LosePoll(m) ==
    /\ poll[m].at \in {"acl", "devices", "answered"}
    /\ failures < MaxFailures /\ failures' = failures + 1
    /\ poll' = [poll EXCEPT ![m] = Idle]
    /\ UNCHANGED <<server, opts, running, engine, changes>>

-----------------------------------------------------------------------------
(* The agent *)

(* Mutant: routes of one's own are taken from others. *)
KeptWithOwn(m, p) ==
    LET R == poll[m].map[p]
    IN  (IF opts[m].accept THEN R \ {Default} ELSE {})
        \cup (IF p \in opts[m].exit THEN R \cap {Default} ELSE {})

(* filterRoutes: subnets if they are accepted and not one's own, the default route
   from the chosen exit node only. *)
Kept(m, p) ==
    LET R == poll[m].map[p]
    IN  (IF opts[m].accept THEN R \ ({Default} \cup opts[m].advertise) ELSE {})
        \cup (IF p \in opts[m].exit THEN R \cap {Default} ELSE {})

(* The peers of the map that IpcSet configures: update_only passes over a known peer
   that the engine does not have. *)
Configured(m) == {p \in DOMAIN poll[m].map : p \in known[m] => p \in peers[m]}

(* Known peers that are listed no more. *)
Removed(m) == known[m] \ DOMAIN poll[m].map

(* IpcSet for the peers Q, in the order of their addresses, and the removal of G: a
   prefix that several have goes to the last one, and whatever those of Q or G had
   before is taken from them. *)
Has(m, Q, p, r) == p \in Q /\ r \in Kept(m, p)
IsLast(m, Q, p, r) == Has(m, Q, p, r) /\ \A q \in Machines : Has(m, Q, q, r) => q <= p
Owner(m, Q, G, r) ==
    IF \E p \in Machines : IsLast(m, Q, p, r) THEN CHOOSE p \in Machines : IsLast(m, Q, p, r)
    ELSE IF allowed[m][r] \in Q \cup G THEN Nobody ELSE allowed[m][r]

Subnets(m) == (UNION {Kept(m, p) : p \in DOMAIN poll[m].map}) \ {Default}

(* dnssrv.Update: the machine itself, then its peers; the last with a label has it. *)
Bears(m, p, l) == p \in DOMAIN poll[m].map /\ Label[p] = l
LastNamed(m, p, l) == Bears(m, p, l) /\ \A q \in Machines : Bears(m, q, l) => q <= p
Update(m) ==
    [l \in {Label[p] : p \in {m} \cup DOMAIN poll[m].map} \ {NoLabel} |->
        IF \E p \in Machines : LastNamed(m, p, l) THEN CHOOSE p \in Machines : LastNamed(m, p, l)
        ELSE m]

(* The rest of sync, while the DNS goroutine goes on answering: filterRoutes and
   SyncPeers, ... *)
SyncPeers(m) ==
    /\ poll[m].at = "answered"
    /\ peers' = [peers EXCEPT ![m] = (@ \ Removed(m)) \cup Configured(m)]
    /\ known' = [known EXCEPT ![m] = DOMAIN poll[m].map]
    /\ allowed' = [allowed EXCEPT ![m] =
                       [r \in Routes |-> Owner(m, Configured(m), Removed(m), r)]]
    /\ GoTo(m, IF opts[m].accept THEN "routes" ELSE "names")
    /\ UNCHANGED <<server, opts, running, routes, records, changes, failures>>

Gone(m) == installed[m] \ Subnets(m)
New(m) == Subnets(m) \ installed[m]

(* Mutant: a route that the system refused is taken for installed. *)
SetRoutesBlindly(m, kept, refused) ==
    /\ installed' = [installed EXCEPT ![m] = (@ \ Gone(m)) \cup New(m)]
    /\ kernel' = [kernel EXCEPT ![m] = (@ \ (Gone(m) \ kept)) \cup (New(m) \ refused)]
    /\ lingering' = [lingering EXCEPT ![m] = @ \cup kept]

(* SetRoutes, when the system keeps the routes kept and refuses the routes refused:
   the former are forgotten, the latter tried again at every round. *)
SetRoutes(m, kept, refused) ==
    /\ installed' = [installed EXCEPT ![m] = (@ \ Gone(m)) \cup (New(m) \ refused)]
    /\ kernel' = [kernel EXCEPT ![m] = (@ \ (Gone(m) \ kept)) \cup (New(m) \ refused)]
    /\ lingering' = [lingering EXCEPT ![m] = @ \cup kept]

(* ... SetRoutes, whose error is logged, ... *)
SyncRoutes(m) ==
    /\ poll[m].at = "routes"
    /\ \E kept \in SUBSET Gone(m), refused \in SUBSET New(m) :
           /\ failures' = failures + Cardinality(kept) + Cardinality(refused)
           /\ failures' <= MaxFailures
           /\ SetRoutes(m, kept, refused)
    /\ GoTo(m, "names")
    /\ UNCHANGED <<server, opts, running, peers, known, allowed, records, changes>>

(* ... and dnsSrv.Update. *)
SyncNames(m) ==
    /\ poll[m].at = "names"
    /\ records' = [records EXCEPT ![m] = Update(m)]
    /\ poll' = [poll EXCEPT ![m] = Idle]
    /\ UNCHANGED <<server, opts, running, peers, known, allowed, routes, changes, failures>>

(* Mutant: the names and the known peers are those of the map although IpcSet failed. *)
SyncFailsOn(m) ==
    /\ poll[m].at = "answered"
    /\ failures < MaxFailures /\ failures' = failures + 1
    /\ records' = [records EXCEPT ![m] = Update(m)]
    /\ known' = [known EXCEPT ![m] = DOMAIN poll[m].map]
    /\ poll' = [poll EXCEPT ![m] = Idle]
    /\ UNCHANGED <<server, opts, running, changes, peers, allowed, routes>>

(* The engine refuses the endpoint of the new peer c: those before c are configured, c
   is there without addresses, nothing is removed, and sync returns. *)
SyncFails(m) ==
    /\ poll[m].at = "answered"
    /\ failures < MaxFailures /\ failures' = failures + 1
    /\ \E c \in DOMAIN poll[m].map \ known[m] :
           LET Q == {p \in Configured(m) : p < c}
           IN  /\ peers' = [peers EXCEPT ![m] = @ \cup Q \cup {c}]
               /\ allowed' = [allowed EXCEPT ![m] = [r \in Routes |-> Owner(m, Q, {}, r)]]
    /\ poll' = [poll EXCEPT ![m] = Idle]
    /\ UNCHANGED <<server, opts, running, changes, known, routes, records>>

(* Up, for a machine that is enrolled; for EnableExitNode see the module Daemon. *)
Start(m, o) ==
    /\ m \in DOMAIN devices /\ m \notin running
    /\ running' = running \cup {m}
    /\ opts' = [opts EXCEPT ![m] = o]
    /\ UNCHANGED <<server, poll, engine, changes, failures>>

(* The agent ends; its interface disappears with its peers and routes. *)
Stop(m) ==
    /\ m \in running
    /\ Change
    /\ running' = running \ {m}
    /\ opts' = [opts EXCEPT ![m] = NoOptions]
    /\ poll' = [poll EXCEPT ![m] = Idle]
    /\ peers' = [peers EXCEPT ![m] = {}]
    /\ known' = [known EXCEPT ![m] = {}]
    /\ allowed' = [allowed EXCEPT ![m] = [r \in Routes |-> Nobody]]
    /\ installed' = [installed EXCEPT ![m] = {}]
    /\ kernel' = [kernel EXCEPT ![m] = {}]
    /\ lingering' = [lingering EXCEPT ![m] = {}]
    /\ records' = [records EXCEPT ![m] = Empty]
    /\ UNCHANGED <<server, failures>>

Poll(m) ==
    TouchDevice(m) \/ ReadACL(m) \/ Answer(m) \/ SyncPeers(m) \/ SyncRoutes(m) \/ SyncNames(m)

Next ==
    \/ \E m \in Machines : Enrol(m) \/ Revoke(m) \/ Poll(m) \/ LosePoll(m) \/ SyncFails(m)
                            \/ Stop(m)
    \/ \E m \in Machines : \E o \in Options[m] : Start(m, o)
    \/ \E a \in Approvals : SetApprovedRoutes(a.device, a.routes)
    \/ \E policy \in Policies : SetACL(policy)

Spec == Init /\ [][Next]_vars

(* Agents that run poll every ten seconds, and handlers end. *)
FairSpec == Spec /\ \A m \in Machines : WF_vars(Poll(m))

-----------------------------------------------------------------------------
(* Properties *)

(* No engine ever sends a prefix to a peer the administrator has not approved for it
   ("rien n'est distribué tant que l'administrateur n'a pas approuvé"). *)
RoutesApproved ==
    \A m \in Machines, r \in Routes : allowed[m][r] # Nobody => <<allowed[m][r], r>> \in approvals

(* A machine never sends the subnets it serves itself into the tunnel, although others
   serve the same ones ("jamais nos propres routes"). *)
OwnSubnetsLocal ==
    \A m \in running : \A r \in opts[m].advertise \ {Default} :
        allowed[m][r] = Nobody /\ r \notin kernel[m]

(* update_only never meets a peer that the engine does not have, after an IpcSet that
   failed half-way included: it would pass over it, and the peer would stay
   unreachable for good. *)
KnownInEngine == \A m \in Machines : known[m] \subseteq peers[m]

(* The agent has aligned its engine on a map and not yet its names. *)
InRound(m) == poll[m].at \in {"routes", "names"}

(* The DNS of a machine answers with machines its engine has a tunnel to: names follow
   the engine, also when it could not follow the map.  Only within a round that has
   removed a peer does the DNS, a goroutine of its own, still answer with that peer. *)
NamesReachable ==
    \A m \in Machines : \A l \in DOMAIN records[m] :
        \/ records[m][l] \in {m} \cup peers[m]
        \/ InRound(m) /\ records[m][l] \notin DOMAIN poll[m].map

(* The engine of m, its system and its names are what the server's state asks for,
   apart from routes that the system would not remove. *)
Aligned(m) ==
    LET owners(r) == {p \in peers[m] : r \in ActiveRoutes(devices[p])}
        wanted(r) == IF r = Default THEN owners(r) \cap opts[m].exit
                     ELSE IF opts[m].accept /\ r \notin opts[m].advertise THEN owners(r) ELSE {}
    IN  /\ peers[m] = {p \in DOMAIN devices \ {m} : Visible(acl, m, p)}
        /\ \A r \in Routes :
               /\ allowed[m][r] = Nobody <=> wanted(r) = {}
               /\ allowed[m][r] # Nobody => allowed[m][r] \in wanted(r)
        /\ LET subnets == {r \in Routes \ {Default} : wanted(r) # {}}
           IN  installed[m] = subnets /\ subnets \subseteq kernel[m]
               /\ kernel[m] \subseteq subnets \cup lingering[m]
        /\ DOMAIN records[m] = {Label[p] : p \in {m} \cup peers[m]} \ {NoLabel}
        /\ \A l \in DOMAIN records[m] : Label[records[m][l]] = l

(* The agent of m knows all the peers of its engine: none was added by an IpcSet that
   failed and vanished from the map before the next one, which nobody removes. *)
Tidy(m) == peers[m] \subseteq known[m]

Served == running \cap DOMAIN devices

(* When administrators and machines leave things as they are, every engine ends up with
   exactly the peers, the allowed IPs, the system routes and the names of the map, after
   revocations, changes of policy, lost polls, refused routes and failures of IpcSet.
   Of two peers with one prefix the engine has one that is still entitled to it.  A
   route the system once refused to remove may stay: the agent has forgotten it. *)
Converges == <>[](\A m \in Served : Tidy(m) => Aligned(m))

(* Tunnels end up mutual: a peer one machine knows knows that machine ("Un tunnel est
   nécessaire dès que le trafic est autorisé dans un sens"). *)
TunnelsMutual == <>[](\A m, p \in Served : p \in known[m] <=> m \in known[p])

(* In the end, subnets are routed to machines that advertise them (types.go: "Routes :
   sous-réseaux routés par ce pair (annoncés ET approuvés)"). *)
RoutesAdvertised ==
    <>[](\A m, p \in Served : \A r \in Routes : allowed[m][r] = p => r \in opts[p].advertise)
=============================================================================
