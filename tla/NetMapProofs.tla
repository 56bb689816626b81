---------------------------- MODULE NetMapProofs ----------------------------
(* Type correctness of the module NetMap, and its invariants: prefixes go to approved
   peers only, and never away from a machine that serves them itself; the agent's idea
   of its peers and its names keep to what the engine has. *)
EXTENDS NetMap, FiniteSetTheorems, TLAPS

(* Approvals cover the routes on their way from the store to the engines; an agent that
   does not run has an empty engine and no poll; and one that has aligned its engine
   knows the peers of the map. *)
OnTheWay ==
    /\ \A p \in DOMAIN devices : {p} \X devices[p].approved \subseteq approvals
    /\ \A m \in Machines : \A p \in DOMAIN poll[m].map : {p} \X poll[m].map[p] \subseteq approvals

Stopped ==
    \A m \in Machines \ running :
        /\ poll[m].at = "idle"
        /\ allowed[m] = [r \in Routes |-> Nobody]
        /\ kernel[m] = {}

Followed == \A m \in Machines : InRound(m) => DOMAIN poll[m].map \subseteq known[m]

IInv ==
    /\ TypeOK /\ OnTheWay /\ RoutesApproved /\ Stopped /\ OwnSubnetsLocal
    /\ KnownInEngine /\ Followed /\ NamesReachable

-----------------------------------------------------------------------------

LEMMA OwnerFacts ==
    ASSUME NEW m, NEW Q, NEW G, NEW r
    PROVE  \/ Owner(m, Q, G, r) = Nobody
           \/ Owner(m, Q, G, r) = allowed[m][r]
           \/ Owner(m, Q, G, r) \in Machines /\ Has(m, Q, Owner(m, Q, G, r), r)
<1>1. CASE \E p \in Machines : IsLast(m, Q, p, r)
  BY <1>1 DEF Owner, IsLast
<1>2. CASE ~(\E p \in Machines : IsLast(m, Q, p, r))
  BY <1>2 DEF Owner
<1> QED
  BY <1>1, <1>2

LEMMA KeptFacts ==
    ASSUME TypeOK, NEW m \in Machines, NEW p \in DOMAIN poll[m].map, NEW r \in Kept(m, p)
    PROVE  /\ r \in poll[m].map[p]
           /\ r \in Routes
           /\ r # Default => opts[m].accept /\ r \notin opts[m].advertise
<1>1. poll[m].map[p] \subseteq Routes
  BY DEF TypeOK, IsPoll, IsMap
<1>2. \/ opts[m].accept /\ r \in poll[m].map[p] /\ r \notin opts[m].advertise
      \/ r \in poll[m].map[p] /\ r = Default
  BY DEF Kept
<1> QED
  BY <1>1, <1>2

LEMMA OwnerApproved ==
    ASSUME TypeOK, OnTheWay, RoutesApproved, NEW m \in Machines, NEW r \in Routes,
           NEW Q \in SUBSET (DOMAIN poll[m].map), NEW G, Owner(m, Q, G, r) # Nobody
    PROVE  /\ <<Owner(m, Q, G, r), r>> \in approvals
           /\ \/ Owner(m, Q, G, r) = allowed[m][r]
              \/ r # Default => r \notin opts[m].advertise
<1> DEFINE p == Owner(m, Q, G, r)
<1>1. CASE p = allowed[m][r]
  BY <1>1 DEF RoutesApproved
<1>2. CASE p \in Machines /\ Has(m, Q, p, r)
  <2>1. p \in DOMAIN poll[m].map /\ r \in Kept(m, p)
    BY <1>2 DEF Has
  <2>2. r \in poll[m].map[p] /\ (r # Default => r \notin opts[m].advertise)
    BY <2>1, KeptFacts
  <2>3. {p} \X poll[m].map[p] \subseteq approvals
    BY <2>1 DEF OnTheWay
  <2> QED
    BY <2>2, <2>3
<1> QED
  BY <1>1, <1>2, OwnerFacts

(* The two facts above, for an engine after IpcSet. *)
LEMMA OwnersApproved ==
    ASSUME TypeOK, OnTheWay, RoutesApproved, OwnSubnetsLocal, NEW m \in running,
           NEW Q \in SUBSET (DOMAIN poll[m].map), NEW G,
           allowed' = [allowed EXCEPT ![m] = [r \in Routes |-> Owner(m, Q, G, r)]],
           UNCHANGED <<approvals, running, opts>>
    PROVE  /\ RoutesApproved'
           /\ \A n \in Machines \ {m} : allowed'[n] = allowed[n]
           /\ \A n \in running : \A r \in opts[n].advertise \ {Default} : allowed'[n][r] = Nobody
<1>1. m \in Machines
  BY DEF TypeOK
<1>2. \A n \in Machines :
          allowed'[n] = IF n = m THEN [r \in Routes |-> Owner(m, Q, G, r)] ELSE allowed[n]
  BY <1>1 DEF TypeOK
<1>3. \A r \in Routes : Owner(m, Q, G, r) # Nobody => <<Owner(m, Q, G, r), r>> \in approvals
  BY <1>1, OwnerApproved
<1>4. RoutesApproved'
  BY <1>2, <1>3 DEF RoutesApproved
<1>5. ASSUME NEW r \in opts[m].advertise \ {Default}
      PROVE  allowed'[m][r] = Nobody
  <2>1. r \in Routes
    BY <1>1 DEF TypeOK, AllOptions
  <2>2. allowed[m][r] = Nobody
    BY DEF OwnSubnetsLocal
  <2>3. Owner(m, Q, G, r) = Nobody
    BY <1>1, <2>1, <2>2, OwnerApproved
  <2>4. allowed'[m] = [q \in Routes |-> Owner(m, Q, G, q)]
    BY <1>1, <1>2
  <2> QED
    BY <2>1, <2>3, <2>4
<1>6. \A n \in running \ {m} : allowed'[n] = allowed[n]
  BY <1>2 DEF TypeOK
<1> QED
  BY <1>2, <1>4, <1>5, <1>6 DEF OwnSubnetsLocal

LEMMA SubnetsFacts ==
    ASSUME TypeOK, NEW m \in Machines
    PROVE  /\ Subnets(m) \subseteq Routes \ {Default}
           /\ Subnets(m) \cap opts[m].advertise = {}
BY KeptFacts DEF Subnets

-----------------------------------------------------------------------------
(* Polls *)

LEMMA IdleType == IsPoll(Idle)
BY DEF IsPoll, Idle, IsMap, Empty

Polls == DOMAIN poll = Machines /\ \A m \in Machines : IsPoll(poll[m])

LEMMA PollSet ==
    ASSUME Polls, NEW m \in Machines, NEW q, IsPoll(q), poll' = [poll EXCEPT ![m] = q]
    PROVE  Polls'
<1>1. DOMAIN poll' = Machines /\ \A n \in Machines : poll'[n] = IF n = m THEN q ELSE poll[n]
  BY DEF Polls
<1>2. \A n \in Machines : IsPoll(poll'[n])
  BY <1>1 DEF Polls
<1> QED
  BY <1>1, <1>2 DEF Polls

LEMMA PollIdle ==
    ASSUME Polls, NEW m \in Machines, poll' = [poll EXCEPT ![m] = Idle]
    PROVE  Polls'
BY PollSet, IdleType

LEMMA PollGoes ==
    ASSUME Polls, NEW m \in Machines,
           NEW where \in {"acl", "routes", "names"}, GoTo(m, where)
    PROVE  /\ Polls'
           /\ \A n \in Machines : poll'[n].map = poll[n].map /\ (n # m => poll'[n] = poll[n])
           /\ poll'[m].at = where
<1> DEFINE q == [at |-> where, acl |-> poll[m].acl, map |-> poll[m].map]
<1>1. poll[m] = [at |-> poll[m].at, acl |-> poll[m].acl, map |-> poll[m].map] /\ IsPoll(poll[m])
  BY DEF Polls, IsPoll
<1>2. [poll[m] EXCEPT !.at = where] = q
  BY <1>1
<1>3. poll' = [poll EXCEPT ![m] = q]
  BY <1>2 DEF GoTo
<1>4. IsPoll(q)
  BY <1>1 DEF IsPoll
<1>5. Polls'
  <2> HIDE DEF q
  <2> QED
    BY <1>3, <1>4, PollSet
<1> QED
  BY <1>3, <1>5 DEF Polls

-----------------------------------------------------------------------------
(* Types *)

LEMMA MapForType ==
    ASSUME TypeOK, NEW policy, NEW m
    PROVE  IsMap(MapFor(policy, m), Machines, SUBSET Routes)
<1>1. \A p \in DOMAIN devices : ActiveRoutes(devices[p]) \in SUBSET Routes
  BY DEF TypeOK, IsMap, DeviceRoutes, ActiveRoutes
<1> QED
  BY <1>1 DEF TypeOK, IsMap, MapFor

LEMMA ChangeType == ASSUME TypeOK, Change PROVE changes' \in 0 .. MaxChanges
BY BoundsAssumption DEF TypeOK, Change

LEMMA OwnerType ==
    ASSUME TypeOK, NEW m \in Machines, NEW Q, NEW G
    PROVE  [r \in Routes |-> Owner(m, Q, G, r)] \in [Routes -> Machines \cup {Nobody}]
BY OwnerFacts DEF TypeOK

(* Names stand for the machine itself or one of its map. *)
LEMMA UpdateType ==
    ASSUME TypeOK, NEW m \in Machines
    PROVE  /\ IsMap(Update(m), Labels, Machines)
           /\ \A l \in DOMAIN Update(m) : Update(m)[l] \in {m} \cup DOMAIN poll[m].map
<1> DEFINE S == {Label[p] : p \in {m} \cup DOMAIN poll[m].map} \ {NoLabel}
           v(l) == IF \E p \in Machines : LastNamed(m, p, l)
                   THEN CHOOSE p \in Machines : LastNamed(m, p, l) ELSE m
<1>1. DOMAIN poll[m].map \subseteq Machines
  BY DEF TypeOK, IsPoll, IsMap
<1>2. S \subseteq Labels
  BY <1>1 DEF Labels
<1>3. ASSUME NEW l
      PROVE  v(l) \in {m} \cup DOMAIN poll[m].map
  <2>1. CASE \E p \in Machines : LastNamed(m, p, l)
    BY <2>1 DEF LastNamed, Bears
  <2>2. CASE ~(\E p \in Machines : LastNamed(m, p, l))
    BY <2>2
  <2> QED
    BY <2>1, <2>2
<1>4. Update(m) = [l \in S |-> v(l)]
  BY DEF Update
<1> HIDE DEF S, v
<1> QED
  BY <1>1, <1>2, <1>3, <1>4 DEF IsMap

LEMMA TypeOKInit == Init => TypeOK
<1> SUFFICES ASSUME Init PROVE TypeOK
  OBVIOUS
<1>1. IsMap(devices, Machines, DeviceRoutes)
  BY FilesAssumption DEF Init
<1>2. DOMAIN poll = Machines /\ \A m \in Machines : IsPoll(poll[m])
  BY IdleType DEF Init
<1>3. changes \in 0 .. MaxChanges /\ failures \in 0 .. MaxFailures
  BY BoundsAssumption DEF Init
<1>4. DOMAIN records = Machines /\ \A m \in Machines : IsMap(records[m], Labels, Machines)
  BY DEF Init, IsMap, Empty
<1>5. opts \in [Machines -> AllOptions]
  BY DEF Init, NoOptions, AllOptions
<1>6. approvals \subseteq Machines \X Routes
  BY DEF Init
<1> QED
  BY <1>1, <1>2, <1>3, <1>4, <1>5, <1>6 DEF Init, TypeOK

LEMMA TypeOKStep == ASSUME TypeOK, [Next]_vars PROVE TypeOK'
<1>0. Polls
  BY DEF TypeOK, Polls
<1>1. ASSUME NEW m \in Machines, Enrol(m)
      PROVE  TypeOK'
  <2>1. [advertised |-> {}, approved |-> {}] \in DeviceRoutes
    BY DEF DeviceRoutes
  <2>2. IsMap(devices', Machines, DeviceRoutes)
    BY <1>1, <2>1 DEF Enrol, TypeOK, IsMap, Put
  <2> QED
    BY <1>1, <2>2 DEF Enrol, TypeOK, engine, routes
<1>2. ASSUME NEW m \in Machines, Revoke(m)
      PROVE  TypeOK'
  <2>1. IsMap(devices', Machines, DeviceRoutes)
    BY <1>2 DEF Revoke, TypeOK, IsMap, Delete
  <2> QED
    BY <1>2, <2>1, ChangeType DEF Revoke, TypeOK, engine, routes
<1>3. ASSUME NEW e \in Entries, NEW R \in SUBSET Routes, SetApprovedRoutes(e, R)
      PROVE  TypeOK'
  <2>1. PICK m \in Denotes[e] \cap DOMAIN devices :
            /\ Change
            /\ devices' = [devices EXCEPT ![m].approved = R]
            /\ approvals' = approvals \cup ({m} \X R)
            /\ UNCHANGED <<revoked, acl, poll, opts, running, engine, failures>>
    BY <1>3 DEF SetApprovedRoutes
  <2>2. [devices[m] EXCEPT !.approved = R] \in DeviceRoutes
    BY DEF TypeOK, IsMap, DeviceRoutes
  <2>3. IsMap(devices', Machines, DeviceRoutes)
    BY <2>1, <2>2 DEF TypeOK, IsMap
  <2>4. approvals' \subseteq Machines \X Routes
    BY <2>1 DEF TypeOK, IsMap
  <2> QED
    BY <2>1, <2>3, <2>4, ChangeType DEF TypeOK, engine, routes
<1>4. ASSUME NEW policy \in Policies, SetACL(policy)
      PROVE  TypeOK'
  BY <1>4, ChangeType DEF SetACL, TypeOK, engine, routes
<1>5. ASSUME NEW m \in Machines, TouchDevice(m)
      PROVE  TypeOK'
  <2> DEFINE adv == IF opts[m].advertise = {} THEN devices[m].advertised ELSE opts[m].advertise
             d == [advertised |-> adv, approved |-> devices[m].approved]
  <2>1. opts[m].advertise \subseteq Routes
    BY DEF TypeOK, AllOptions
  <2>2. devices[m] \in DeviceRoutes
    BY <1>5 DEF TouchDevice, TypeOK, IsMap
  <2>3. d \in DeviceRoutes
    BY <2>1, <2>2 DEF DeviceRoutes
  <2>4. devices' = [devices EXCEPT ![m] = d]
    <3>1. devices' = [devices EXCEPT ![m].advertised = adv]
      BY <1>5 DEF TouchDevice
    <3> HIDE DEF adv
    <3>2. [devices[m] EXCEPT !.advertised = adv] = d
      BY <2>2 DEF DeviceRoutes
    <3> QED
      BY <3>1, <3>2
  <2>5. IsMap(devices', Machines, DeviceRoutes)
    <3> HIDE DEF d
    <3> QED
      BY <2>3, <2>4 DEF TypeOK, IsMap
  <2>6. Polls'
    BY <1>0, <1>5, PollGoes DEF TouchDevice
  <2> QED
    BY <1>5, <2>5, <2>6 DEF TouchDevice, TypeOK, Polls, engine, routes
<1>6. ASSUME NEW m \in Machines, SyncRoutes(m)
      PROVE  TypeOK'
  <2>1. Polls'
    BY <1>0, <1>6, PollGoes DEF SyncRoutes
  <2>2. PICK kept \in SUBSET Gone(m), refused \in SUBSET New(m) :
            /\ failures' = failures + Cardinality(kept) + Cardinality(refused)
            /\ failures' <= MaxFailures
            /\ SetRoutes(m, kept, refused)
    BY <1>6 DEF SyncRoutes
  <2>3. installed[m] \subseteq Routes \ {Default} /\ Subnets(m) \subseteq Routes \ {Default}
    BY SubnetsFacts DEF TypeOK
  <2>4. kept \subseteq Routes \ {Default} /\ refused \subseteq Routes /\ New(m) \subseteq Routes \ {Default}
    BY <2>3 DEF Gone, New
  <2>5. {installed', kernel', lingering'} \subseteq [Machines -> SUBSET (Routes \ {Default})]
    BY <2>2, <2>4 DEF SetRoutes, TypeOK
  <2>6. failures' \in 0 .. MaxFailures
    <3>1. IsFiniteSet(kept) /\ IsFiniteSet(refused)
      BY <2>4, RoutesAssumption, FS_Subset
    <3>2. Cardinality(kept) \in Nat /\ Cardinality(refused) \in Nat
      BY <3>1, FS_CardinalityType
    <3> QED
      BY <2>2, <3>2, BoundsAssumption DEF TypeOK
  <2> QED
    BY <1>6, <2>1, <2>5, <2>6 DEF SyncRoutes, TypeOK, Polls, server
<1>7. ASSUME NEW m \in Machines, ReadACL(m)
      PROVE  TypeOK'
  <2> DEFINE q == [at |-> "devices", acl |-> acl, map |-> poll[m].map]
  <2>1. IsPoll(poll[m])
    BY <1>0 DEF Polls
  <2>2. poll' = [poll EXCEPT ![m] = q]
    BY <1>7 DEF ReadACL
  <2>3. IsPoll(q)
    BY <2>1 DEF IsPoll, TypeOK
  <2>4. Polls'
    <3> HIDE DEF q
    <3> QED
      BY <1>0, <2>2, <2>3, PollSet
  <2> QED
    BY <1>7, <2>4 DEF ReadACL, TypeOK, Polls, server, engine, routes
<1>8. ASSUME NEW m \in Machines, Answer(m)
      PROVE  TypeOK'
  <2> DEFINE map == MapFor(poll[m].acl, m)
             q == [at |-> "answered", acl |-> poll[m].acl, map |-> map]
  <2>1. IsPoll(poll[m])
    BY <1>0 DEF Polls
  <2>2. poll' = [poll EXCEPT ![m] = q]
    BY <1>8 DEF Answer
  <2>3. IsMap(map, Machines, SUBSET Routes)
    BY MapForType
  <2>4. IsPoll(q)
    <3> HIDE DEF map
    <3> QED
      BY <2>1, <2>3 DEF IsPoll
  <2>5. Polls'
    <3> HIDE DEF q
    <3> QED
      BY <1>0, <2>2, <2>4, PollSet
  <2> QED
    BY <1>8, <2>5 DEF Answer, TypeOK, Polls, server, engine, routes
<1>9. ASSUME NEW m \in Machines, LosePoll(m)
      PROVE  TypeOK'
  <2>1. Polls'
    BY <1>0, <1>9, PollIdle DEF LosePoll
  <2>2. failures' \in 0 .. MaxFailures
    BY <1>9, BoundsAssumption DEF LosePoll, TypeOK
  <2> QED
    BY <1>9, <2>1, <2>2 DEF LosePoll, TypeOK, Polls, server, engine, routes
<1>10. ASSUME NEW m \in Machines, SyncPeers(m)
       PROVE  TypeOK'
  <2>1. Polls'
    BY <1>0, <1>10, PollGoes DEF SyncPeers
  <2>2. peers' \in [Machines -> SUBSET Machines] /\ known' \in [Machines -> SUBSET Machines]
    <3>1. DOMAIN poll[m].map \subseteq Machines /\ Configured(m) \subseteq DOMAIN poll[m].map
      BY DEF TypeOK, IsPoll, IsMap, Configured
    <3> QED
      BY <1>10, <3>1 DEF SyncPeers, TypeOK
  <2>3. allowed' \in [Machines -> [Routes -> Machines \cup {Nobody}]]
    <3>1. PICK Q, G : allowed' = [allowed EXCEPT ![m] = [r \in Routes |-> Owner(m, Q, G, r)]]
      BY <1>10 DEF SyncPeers
    <3> QED
      BY <3>1, OwnerType DEF TypeOK
  <2> QED
    BY <1>10, <2>1, <2>2, <2>3 DEF SyncPeers, TypeOK, Polls, server, routes
<1>15. ASSUME NEW m \in Machines, SyncNames(m)
       PROVE  TypeOK'
  <2>1. Polls'
    BY <1>0, <1>15, PollIdle DEF SyncNames
  <2>2. DOMAIN records' = Machines /\ \A n \in Machines : IsMap(records'[n], Labels, Machines)
    BY <1>15, UpdateType DEF SyncNames, TypeOK
  <2> QED
    BY <1>15, <2>1, <2>2 DEF SyncNames, TypeOK, Polls, server, routes
<1>11. ASSUME NEW m \in Machines, NEW o \in Options[m], Start(m, o)
       PROVE  TypeOK'
  <2>1. opts' \in [Machines -> AllOptions] /\ running' \subseteq Machines
    BY <1>11, OptionsAssumption DEF Start, TypeOK
  <2> QED
    BY <1>11, <2>1 DEF Start, TypeOK, server, engine, routes
<1>12. ASSUME NEW m \in Machines, Stop(m)
       PROVE  TypeOK'
  <2>1. Polls'
    BY <1>0, <1>12, PollIdle DEF Stop
  <2>2. opts' \in [Machines -> AllOptions] /\ running' \subseteq Machines
    <3>1. NoOptions \in AllOptions
      BY DEF NoOptions, AllOptions
    <3> QED
      BY <1>12, <3>1 DEF Stop, TypeOK
  <2>3. /\ peers' \in [Machines -> SUBSET Machines]
        /\ known' \in [Machines -> SUBSET Machines]
        /\ allowed' \in [Machines -> [Routes -> Machines \cup {Nobody}]]
        /\ {installed', kernel', lingering'} \subseteq [Machines -> SUBSET (Routes \ {Default})]
    BY <1>12 DEF Stop, TypeOK
  <2>4. DOMAIN records' = Machines /\ \A n \in Machines : IsMap(records'[n], Labels, Machines)
    <3>1. IsMap(Empty, Labels, Machines)
      BY DEF IsMap, Empty
    <3> QED
      BY <1>12, <3>1 DEF Stop, TypeOK
  <2> QED
    BY <1>12, <2>1, <2>2, <2>3, <2>4, ChangeType DEF Stop, TypeOK, Polls, server
<1>13. ASSUME NEW m \in Machines, SyncFails(m)
       PROVE  TypeOK'
  <2>1. Polls'
    BY <1>0, <1>13, PollIdle DEF SyncFails
  <2>2. PICK c \in DOMAIN poll[m].map \ known[m] :
            LET Q == {p \in Configured(m) : p < c}
            IN  /\ peers' = [peers EXCEPT ![m] = @ \cup Q \cup {c}]
                /\ allowed' = [allowed EXCEPT ![m] = [r \in Routes |-> Owner(m, Q, {}, r)]]
    BY <1>13 DEF SyncFails
  <2>3. peers' \in [Machines -> SUBSET Machines]
    <3>1. DOMAIN poll[m].map \subseteq Machines /\ Configured(m) \subseteq DOMAIN poll[m].map
      BY DEF TypeOK, IsPoll, IsMap, Configured
    <3> QED
      BY <2>2, <3>1 DEF TypeOK
  <2>4. allowed' \in [Machines -> [Routes -> Machines \cup {Nobody}]]
    BY <2>2, OwnerType DEF TypeOK
  <2>5. failures' \in 0 .. MaxFailures
    BY <1>13, BoundsAssumption DEF SyncFails, TypeOK
  <2> QED
    BY <1>13, <2>1, <2>3, <2>4, <2>5 DEF SyncFails, TypeOK, Polls, server, routes
<1>14. CASE UNCHANGED vars
  BY <1>14 DEF vars, server, engine, routes, TypeOK
<1>16. ASSUME NEW a \in Approvals, SetApprovedRoutes(a.device, a.routes)
       PROVE  TypeOK'
  <2>1. a.device \in Entries /\ a.routes \in SUBSET Routes
    BY ApprovalsAssumption
  <2> QED
    BY ONLY <1>3, <1>16, <2>1
<1> QED
  BY <1>1, <1>2, <1>4, <1>5, <1>6, <1>7, <1>8, <1>9, <1>10, <1>11, <1>12, <1>13,
     <1>14, <1>15, <1>16 DEF Next, Poll

(* The types of NetMap: the store, the polls of the handlers and the engines. *)
THEOREM TypeCorrect == Spec => []TypeOK
<1>1. Init => TypeOK
  BY TypeOKInit
<1>2. TypeOK /\ [Next]_vars => TypeOK'
  BY TypeOKStep
<1> QED
  BY <1>1, <1>2, PTL DEF Spec

-----------------------------------------------------------------------------
(* The inductive invariant *)

LEMMA IInvInit == Init => IInv
<1> SUFFICES ASSUME Init PROVE IInv
  OBVIOUS
<1>1. TypeOK
  BY TypeOKInit
<1>2. \A m \in Machines : poll[m].at = "idle" /\ poll[m].map = Empty
  BY DEF Init, Idle
<1>3. OnTheWay
  <2>1. \A p \in DOMAIN devices : p \in Machines /\ devices[p].approved \subseteq Routes
    BY <1>1 DEF TypeOK, IsMap, DeviceRoutes
  <2>2. \A p \in DOMAIN devices : {p} \X devices[p].approved \subseteq approvals
    BY <2>1 DEF Init
  <2> QED
    BY <1>2, <2>2 DEF OnTheWay, Empty
<1>4. RoutesApproved /\ Stopped /\ OwnSubnetsLocal
  BY <1>2 DEF Init, RoutesApproved, Stopped, OwnSubnetsLocal
<1>5. KnownInEngine /\ Followed /\ NamesReachable
  BY <1>2 DEF Init, KnownInEngine, Followed, InRound, NamesReachable, Empty
<1> QED
  BY <1>1, <1>3, <1>4, <1>5 DEF IInv

(* What leaves the engines alone keeps what is said of them. *)
LEMMA EnginesKept ==
    ASSUME RoutesApproved, OwnSubnetsLocal, KnownInEngine, Followed, NamesReachable,
           approvals \subseteq approvals',
           UNCHANGED <<running, opts, peers, known, allowed, kernel, records>>,
           \A n \in Machines : InRound(n) \/ InRound(n)' => poll'[n] = poll[n]
    PROVE  RoutesApproved' /\ OwnSubnetsLocal' /\ KnownInEngine' /\ Followed' /\ NamesReachable'
<1>1. RoutesApproved' /\ OwnSubnetsLocal' /\ KnownInEngine'
  BY DEF RoutesApproved, OwnSubnetsLocal, KnownInEngine
<1>2. Followed' /\ NamesReachable'
  BY DEF Followed, NamesReachable, InRound
<1> QED
  BY <1>1, <1>2

(* So does a step of a poll with the polls of the others. *)
LEMMA StoppedKept ==
    ASSUME Stopped, NEW m \in running, UNCHANGED <<running, allowed, kernel>>,
           \A n \in Machines \ {m} : poll'[n] = poll[n]
    PROVE  Stopped'
BY DEF Stopped

(* A poll that ends forgets its map. *)
LEMMA MapsForgotten ==
    ASSUME Polls, OnTheWay, NEW m \in Machines, poll' = [poll EXCEPT ![m] = Idle],
           UNCHANGED <<devices, approvals>>
    PROVE  OnTheWay'
<1>1. \A n \in Machines : poll'[n] = IF n = m THEN Idle ELSE poll[n]
  BY DEF Polls
<1>2. Idle.map = Empty
  BY DEF Idle
<1> HIDE DEF Idle
<1> QED
  BY <1>1, <1>2 DEF OnTheWay, Empty

LEMMA IInvStep == ASSUME IInv, [Next]_vars PROVE IInv'
<1> USE DEF IInv
<1>0. TypeOK' /\ Polls
  BY TypeOKStep DEF TypeOK, Polls
<1>1. ASSUME NEW m \in Machines, Enrol(m)
      PROVE  IInv'
  <2>1. OnTheWay'
    BY <1>1 DEF Enrol, OnTheWay, Put
  <2>2. Stopped'
    BY <1>1 DEF Enrol, Stopped, engine, routes
  <2> QED
    BY <1>0, <1>1, <2>1, <2>2, EnginesKept DEF Enrol, engine, routes
<1>2. ASSUME NEW m \in Machines, Revoke(m)
      PROVE  IInv'
  <2>1. OnTheWay'
    BY <1>2 DEF Revoke, OnTheWay, Delete
  <2>2. Stopped'
    BY <1>2 DEF Revoke, Stopped, engine, routes
  <2> QED
    BY <1>0, <1>2, <2>1, <2>2, EnginesKept DEF Revoke, engine, routes
<1>3. ASSUME NEW e \in Entries, NEW R \in SUBSET Routes, SetApprovedRoutes(e, R)
      PROVE  IInv'
  <2>1. PICK m \in Denotes[e] \cap DOMAIN devices :
            /\ devices' = [devices EXCEPT ![m].approved = R]
            /\ approvals' = approvals \cup ({m} \X R)
            /\ UNCHANGED <<revoked, acl, poll, opts, running, engine, failures>>
    BY <1>3 DEF SetApprovedRoutes
  <2>2. devices[m] \in DeviceRoutes
    BY DEF TypeOK, IsMap
  <2>3. \A p \in DOMAIN devices' : devices'[p].approved = IF p = m THEN R ELSE devices[p].approved
    BY <2>1, <2>2 DEF DeviceRoutes
  <2>4. \A p \in DOMAIN devices' : {p} \X devices'[p].approved \subseteq approvals'
    BY <2>1, <2>3 DEF OnTheWay
  <2>5. OnTheWay'
    BY <2>1, <2>4 DEF OnTheWay
  <2>6. Stopped'
    BY <2>1 DEF Stopped, engine, routes
  <2> QED
    BY <1>0, <2>1, <2>5, <2>6, EnginesKept DEF engine, routes
<1>4. ASSUME NEW policy \in Policies, SetACL(policy)
      PROVE  IInv'
  <2>1. OnTheWay' /\ Stopped'
    BY <1>4 DEF SetACL, OnTheWay, Stopped, engine, routes
  <2> QED
    BY <1>0, <1>4, <2>1, EnginesKept DEF SetACL, engine, routes
<1>5. ASSUME NEW m \in Machines, TouchDevice(m)
      PROVE  IInv'
  <2>0. m \in running
    BY <1>5 DEF TouchDevice
  <2>1. /\ \A n \in Machines : poll'[n].map = poll[n].map /\ (n # m => poll'[n] = poll[n])
        /\ poll'[m].at = "acl"
    BY <1>0, <1>5, PollGoes DEF TouchDevice
  <2>2. devices[m] \in DeviceRoutes
    BY <1>5 DEF TouchDevice, TypeOK, IsMap
  <2>3. DOMAIN devices' = DOMAIN devices
        /\ \A p \in DOMAIN devices : devices'[p].approved = devices[p].approved
    BY <1>5, <2>2 DEF TouchDevice, DeviceRoutes
  <2>4. OnTheWay'
    BY <1>5, <2>1, <2>3 DEF TouchDevice, OnTheWay
  <2>5. Stopped'
    BY <1>5, <2>0, <2>1, StoppedKept DEF TouchDevice, engine, routes
  <2>6. ~InRound(m) /\ ~InRound(m)'
    BY <1>5, <2>1 DEF TouchDevice, InRound
  <2> QED
    BY <1>0, <1>5, <2>1, <2>4, <2>5, <2>6, EnginesKept DEF TouchDevice, engine, routes
<1>6. ASSUME NEW m \in Machines, SyncRoutes(m)
      PROVE  IInv'
  <2>0. m \in running
    BY <1>6 DEF SyncRoutes, Stopped
  <2>1. /\ \A n \in Machines : poll'[n].map = poll[n].map /\ (n # m => poll'[n] = poll[n])
        /\ poll'[m].at = "names"
    BY <1>0, <1>6, PollGoes DEF SyncRoutes
  <2>2. OnTheWay' /\ RoutesApproved' /\ KnownInEngine'
    BY <1>6, <2>1 DEF SyncRoutes, OnTheWay, RoutesApproved, KnownInEngine, server
  <2>3. PICK kept \in SUBSET Gone(m), refused \in SUBSET New(m) : SetRoutes(m, kept, refused)
    BY <1>6 DEF SyncRoutes
  <2>4. /\ \A n \in Machines \ {m} : kernel'[n] = kernel[n]
        /\ kernel'[m] \subseteq kernel[m] \cup Subnets(m)
    BY <2>3 DEF SetRoutes, New, TypeOK
  <2>5. Stopped'
    BY <1>6, <2>0, <2>1, <2>4 DEF SyncRoutes, Stopped
  <2>6. OwnSubnetsLocal'
    <3>1. \A r \in opts[m].advertise \ {Default} : r \notin kernel'[m]
      BY <2>0, <2>4, SubnetsFacts DEF OwnSubnetsLocal
    <3>2. \A n \in running \ {m} : kernel'[n] = kernel[n]
      BY <2>4 DEF TypeOK
    <3> QED
      BY <1>6, <3>1, <3>2 DEF SyncRoutes, OwnSubnetsLocal
  <2>7. InRound(m) /\ \A n \in Machines : InRound(n)' <=> InRound(n)
    BY <1>6, <2>1 DEF SyncRoutes, InRound
  <2>8. Followed' /\ NamesReachable'
    BY <1>6, <2>1, <2>7 DEF SyncRoutes, Followed, NamesReachable
  <2> QED
    BY <1>0, <2>2, <2>5, <2>6, <2>8
<1>7. ASSUME NEW m \in Machines, ReadACL(m)
      PROVE  IInv'
  <2>0. m \in running
    BY <1>7 DEF ReadACL, Stopped
  <2>1. /\ \A n \in Machines : poll'[n].map = poll[n].map /\ (n # m => poll'[n] = poll[n])
        /\ poll'[m].at = "devices"
    BY <1>0, <1>7 DEF ReadACL, Polls
  <2>2. OnTheWay'
    BY <1>7, <2>1 DEF ReadACL, OnTheWay, server
  <2>3. Stopped'
    BY <1>7, <2>0, <2>1, StoppedKept DEF ReadACL, engine, routes
  <2>4. ~InRound(m) /\ ~InRound(m)'
    BY <1>7, <2>1 DEF ReadACL, InRound
  <2> QED
    BY <1>0, <1>7, <2>1, <2>2, <2>3, <2>4, EnginesKept DEF ReadACL, server, engine, routes
<1>8. ASSUME NEW m \in Machines, Answer(m)
      PROVE  IInv'
  <2>0. m \in running
    BY <1>8 DEF Answer, Stopped
  <2> DEFINE map == MapFor(poll[m].acl, m)
  <2>1. \A n \in Machines :
            /\ poll'[n].map = IF n = m THEN map ELSE poll[n].map
            /\ IF n = m THEN poll'[n].at = "answered" ELSE poll'[n] = poll[n]
    BY <1>0, <1>8 DEF Answer, Polls
  <2>2. \A p \in DOMAIN map : {p} \X map[p] \subseteq approvals
    BY DEF MapFor, ActiveRoutes, OnTheWay
  <2>3. OnTheWay'
    <3> HIDE DEF map
    <3> QED
      BY <1>8, <2>1, <2>2 DEF Answer, OnTheWay, server
  <2>4. Stopped'
    BY <1>8, <2>0, <2>1, StoppedKept DEF Answer, engine, routes
  <2>5. ~InRound(m) /\ ~InRound(m)'
    BY <1>8, <2>1 DEF Answer, InRound
  <2>6. \A n \in Machines : InRound(n) \/ InRound(n)' => poll'[n] = poll[n]
    BY <2>1, <2>5
  <2> QED
    BY <1>0, <1>8, <2>3, <2>4, <2>6, EnginesKept DEF Answer, server, engine, routes
<1>9. ASSUME NEW m \in Machines, LosePoll(m)
      PROVE  IInv'
  <2>0. m \in running
    BY <1>9 DEF LosePoll, Stopped
  <2>1. OnTheWay'
    BY <1>0, <1>9, MapsForgotten DEF LosePoll, server
  <2>2. Stopped'
    BY <1>0, <1>9, <2>0, StoppedKept DEF LosePoll, engine, routes, Polls
  <2>3. \A n \in Machines : poll'[n] = IF n = m THEN Idle ELSE poll[n]
    BY <1>0, <1>9 DEF LosePoll, Polls
  <2>4. ~InRound(m) /\ ~InRound(m)'
    BY <1>9, <2>3 DEF LosePoll, InRound, Idle
  <2> QED
    BY <1>0, <1>9, <2>1, <2>2, <2>3, <2>4, EnginesKept DEF LosePoll, server, engine, routes
<1>10. ASSUME NEW m \in Machines, SyncPeers(m)
       PROVE  IInv'
  <2>0. m \in running
    BY <1>10 DEF SyncPeers, Stopped
  <2>1. /\ \A n \in Machines : poll'[n].map = poll[n].map /\ (n # m => poll'[n] = poll[n])
        /\ poll'[m].at \in {"routes", "names"}
    BY <1>0, <1>10, PollGoes DEF SyncPeers
  <2>2. OnTheWay'
    BY <1>10, <2>1 DEF SyncPeers, OnTheWay, server
  <2>3. Configured(m) \in SUBSET (DOMAIN poll[m].map)
    BY DEF Configured
  <2>4. /\ RoutesApproved'
        /\ \A n \in Machines \ {m} : allowed'[n] = allowed[n]
        /\ \A n \in running : \A r \in opts[n].advertise \ {Default} : allowed'[n][r] = Nobody
    BY <1>10, <2>0, <2>3, OwnersApproved DEF SyncPeers, server
  <2>5. Stopped'
    BY <1>10, <2>0, <2>1, <2>4 DEF SyncPeers, Stopped, routes
  <2>6. OwnSubnetsLocal'
    BY <1>10, <2>4 DEF SyncPeers, OwnSubnetsLocal, routes
  <2>7. /\ peers'[m] = (peers[m] \ Removed(m)) \cup DOMAIN poll[m].map
        /\ known'[m] = DOMAIN poll[m].map
        /\ \A n \in Machines \ {m} : peers'[n] = peers[n] /\ known'[n] = known[n]
    <3>1. Configured(m) = DOMAIN poll[m].map
      BY DEF Configured, KnownInEngine
    <3> QED
      BY <1>10, <3>1 DEF SyncPeers, TypeOK
  <2>8. KnownInEngine' /\ Followed'
    BY <2>1, <2>7 DEF KnownInEngine, Followed, InRound
  <2>9. NamesReachable'
    <3>1. ASSUME NEW l \in DOMAIN records[m]
          PROVE  \/ records[m][l] \in {m} \cup peers'[m]
                 \/ records[m][l] \notin DOMAIN poll'[m].map
      <4>1. records[m][l] \in {m} \cup peers[m]
        BY <1>10 DEF SyncPeers, NamesReachable, InRound
      <4> QED
        BY <2>1, <2>7, <4>1 DEF Removed
    <3>2. InRound(m)' /\ UNCHANGED records
      BY <1>10, <2>1 DEF SyncPeers, InRound
    <3>3. \A n \in Machines \ {m} : peers'[n] = peers[n] /\ poll'[n] = poll[n]
      BY <2>1, <2>7
    <3> QED
      BY <3>1, <3>2, <3>3 DEF NamesReachable, InRound
  <2> QED
    BY <1>0, <2>2, <2>4, <2>5, <2>6, <2>8, <2>9
<1>15. ASSUME NEW m \in Machines, SyncNames(m)
       PROVE  IInv'
  <2>0. m \in running
    BY <1>15 DEF SyncNames, Stopped
  <2>1. OnTheWay'
    BY <1>0, <1>15, MapsForgotten DEF SyncNames, server
  <2>2. \A n \in Machines : poll'[n] = IF n = m THEN Idle ELSE poll[n]
    BY <1>0, <1>15 DEF SyncNames, Polls
  <2>3. Stopped'
    BY <1>15, <2>0, <2>2, StoppedKept DEF SyncNames, routes
  <2>4. RoutesApproved' /\ OwnSubnetsLocal' /\ KnownInEngine'
    BY <1>15 DEF SyncNames, RoutesApproved, OwnSubnetsLocal, KnownInEngine, server, routes
  <2>5. ~InRound(m)'
    BY <2>2 DEF InRound, Idle
  <2>6. Followed'
    BY <1>15, <2>2, <2>5 DEF SyncNames, Followed, InRound
  <2>7. NamesReachable'
    <3>1. DOMAIN poll[m].map \subseteq peers[m]
      BY <1>15 DEF SyncNames, Followed, InRound, KnownInEngine
    <3>2. \A n \in Machines : records'[n] = IF n = m THEN Update(m) ELSE records[n]
      BY <1>15 DEF SyncNames, TypeOK
    <3>3. \A l \in DOMAIN records'[m] : records'[m][l] \in {m} \cup peers[m]
      BY <3>1, <3>2, UpdateType
    <3> QED
      BY <1>15, <2>2, <3>2, <3>3 DEF SyncNames, NamesReachable, InRound
  <2> QED
    BY <1>0, <2>1, <2>3, <2>4, <2>6, <2>7
<1>11. ASSUME NEW m \in Machines, NEW o \in Options[m], Start(m, o)
       PROVE  IInv'
  <2>1. OnTheWay' /\ RoutesApproved' /\ Stopped'
    BY <1>11 DEF Start, OnTheWay, RoutesApproved, Stopped, server, engine, routes
  <2>3. KnownInEngine' /\ Followed' /\ NamesReachable'
    BY <1>11 DEF Start, KnownInEngine, Followed, NamesReachable, InRound, engine
  <2>2. OwnSubnetsLocal'
    <3>1. /\ m \notin running /\ running' = running \cup {m} /\ UNCHANGED <<allowed, kernel>>
          /\ opts' = [opts EXCEPT ![m] = o]
      BY <1>11 DEF Start, engine, routes
    <3>2. \A r \in o.advertise \ {Default} : allowed[m][r] = Nobody /\ r \notin kernel[m]
      <4>1. o.advertise \subseteq Routes
        BY OptionsAssumption DEF AllOptions
      <4> QED
        BY <3>1, <4>1 DEF Stopped
    <3>3. opts'[m] = o /\ \A n \in running : opts'[n] = opts[n]
      BY <3>1 DEF TypeOK
    <3> QED
      BY <3>1, <3>2, <3>3 DEF OwnSubnetsLocal
  <2> QED
    BY <1>0, <2>1, <2>2, <2>3
<1>12. ASSUME NEW m \in Machines, Stop(m)
       PROVE  IInv'
  <2>1. OnTheWay'
    BY <1>0, <1>12, MapsForgotten DEF Stop, server
  <2>2. \A n \in Machines :
            /\ allowed'[n] = IF n = m THEN [r \in Routes |-> Nobody] ELSE allowed[n]
            /\ kernel'[n] = IF n = m THEN {} ELSE kernel[n]
            /\ n # m => opts'[n] = opts[n] /\ poll'[n] = poll[n]
    BY <1>0, <1>12 DEF Stop, TypeOK, Polls
  <2>3. poll'[m].at = "idle"
    BY <1>0, <1>12 DEF Stop, Polls, Idle
  <2>4. RoutesApproved'
    BY <1>12, <2>2 DEF Stop, RoutesApproved, server
  <2>5. Stopped'
    BY <1>12, <2>2, <2>3 DEF Stop, Stopped
  <2>6. OwnSubnetsLocal'
    BY <1>12, <2>2 DEF Stop, OwnSubnetsLocal, TypeOK
  <2>7. /\ peers'[m] = {} /\ known'[m] = {} /\ records'[m] = Empty
        /\ \A n \in Machines \ {m} :
               peers'[n] = peers[n] /\ known'[n] = known[n] /\ records'[n] = records[n]
    BY <1>12 DEF Stop, TypeOK
  <2>8. KnownInEngine' /\ Followed' /\ NamesReachable'
    BY <2>2, <2>3, <2>7 DEF KnownInEngine, Followed, NamesReachable, InRound, Empty
  <2> QED
    BY <1>0, <2>1, <2>4, <2>5, <2>6, <2>8
<1>13. ASSUME NEW m \in Machines, SyncFails(m)
       PROVE  IInv'
  <2>0. m \in running
    BY <1>13 DEF SyncFails, Stopped
  <2>1. OnTheWay'
    BY <1>0, <1>13, MapsForgotten DEF SyncFails, server
  <2>2. \A n \in Machines : poll'[n] = IF n = m THEN Idle ELSE poll[n]
    BY <1>0, <1>13 DEF SyncFails, Polls
  <2>3. PICK c \in DOMAIN poll[m].map \ known[m] :
            LET Q == {p \in Configured(m) : p < c}
            IN  /\ peers' = [peers EXCEPT ![m] = @ \cup Q \cup {c}]
                /\ allowed' = [allowed EXCEPT ![m] = [r \in Routes |-> Owner(m, Q, {}, r)]]
    BY <1>13 DEF SyncFails
  <2>4. /\ RoutesApproved'
        /\ \A n \in Machines \ {m} : allowed'[n] = allowed[n]
        /\ \A n \in running : \A r \in opts[n].advertise \ {Default} : allowed'[n][r] = Nobody
    <3> DEFINE Q == {p \in Configured(m) : p < c}
    <3>1. Q \in SUBSET (DOMAIN poll[m].map)
      BY DEF Configured
    <3>2. allowed' = [allowed EXCEPT ![m] = [r \in Routes |-> Owner(m, Q, {}, r)]]
      BY <2>3
    <3>3. UNCHANGED <<approvals, running, opts>>
      BY <1>13 DEF SyncFails, server
    <3> HIDE DEF Q
    <3> QED
      BY <2>0, <3>1, <3>2, <3>3, OwnersApproved
  <2>5. Stopped'
    BY <1>13, <2>0, <2>2, <2>4 DEF SyncFails, Stopped, routes
  <2>6. OwnSubnetsLocal'
    BY <1>13, <2>4 DEF SyncFails, OwnSubnetsLocal, routes
  <2>7. \A n \in Machines : peers[n] \subseteq peers'[n]
    BY <2>3 DEF TypeOK
  <2>8. KnownInEngine' /\ Followed' /\ NamesReachable'
    <3>1. ~InRound(m) /\ ~InRound(m)'
      BY <1>13, <2>2 DEF SyncFails, InRound, Idle
    <3>2. KnownInEngine'
      BY <1>13, <2>7 DEF SyncFails, KnownInEngine
    <3> QED
      BY <1>13, <2>2, <2>7, <3>1, <3>2 DEF SyncFails, Followed, NamesReachable, InRound
  <2> QED
    BY <1>0, <2>1, <2>4, <2>5, <2>6, <2>8
<1>14. CASE UNCHANGED vars
  BY <1>0, <1>14, EnginesKept DEF vars, server, engine, routes, OnTheWay, Stopped
<1>16. ASSUME NEW a \in Approvals, SetApprovedRoutes(a.device, a.routes)
       PROVE  IInv'
  <2>1. a.device \in Entries /\ a.routes \in SUBSET Routes
    BY ApprovalsAssumption
  <2> QED
    BY ONLY <1>3, <1>16, <2>1
<1> QED
  BY <1>1, <1>2, <1>4, <1>5, <1>6, <1>7, <1>8, <1>9, <1>10, <1>11, <1>12, <1>13,
     <1>14, <1>15, <1>16 DEF Next, Poll

(* No engine sends a prefix to a machine that was not approved for it, whatever the
   order of the approvals, the polls and the decisions of the administrators. *)
THEOREM RoutesApprovedAlways == Spec => []RoutesApproved
<1>1. Init => IInv
  BY IInvInit
<1>2. IInv /\ [Next]_vars => IInv'
  BY IInvStep
<1>3. IInv => RoutesApproved
  BY DEF IInv
<1> QED
  BY <1>1, <1>2, <1>3, PTL DEF Spec

(* A machine never sends its own subnets into the tunnel. *)
THEOREM OwnSubnetsStayLocal == Spec => []OwnSubnetsLocal
<1>1. Init => IInv
  BY IInvInit
<1>2. IInv /\ [Next]_vars => IInv'
  BY IInvStep
<1>3. IInv => OwnSubnetsLocal
  BY DEF IInv
<1> QED
  BY <1>1, <1>2, <1>3, PTL DEF Spec

(* An agent never takes a peer for configured that its engine does not have. *)
THEOREM KnownAlwaysInEngine == Spec => []KnownInEngine
<1>1. Init => IInv
  BY IInvInit
<1>2. IInv /\ [Next]_vars => IInv'
  BY IInvStep
<1>3. IInv => KnownInEngine
  BY DEF IInv
<1> QED
  BY <1>1, <1>2, <1>3, PTL DEF Spec

(* The DNS answers with machines the engine has a tunnel to, also after an IpcSet that
   failed half-way; only between SyncPeers and dnsSrv.Update of one round may it answer
   with a peer the new map no longer lists. *)
THEOREM NamesAlwaysReachable == Spec => []NamesReachable
<1>1. Init => IInv
  BY IInvInit
<1>2. IInv /\ [Next]_vars => IInv'
  BY IInvStep
<1>3. IInv => NamesReachable
  BY DEF IInv
<1> QED
  BY <1>1, <1>2, <1>3, PTL DEF Spec
=============================================================================
