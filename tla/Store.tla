------------------------------- MODULE Store --------------------------------
(***************************************************************************)
(* The state of the coordination server (internal/control/store.go): the   *)
(* machines and the enrolment keys, in memory and in the JSON file.        *)
(*                                                                         *)
(* Every method of Store holds the mutex from its first read to the end of *)
(* saveLocked, so one call is one action.  What is not atomic is the pair  *)
(* (memory, file): a save may fail, and the process may die while saving.  *)
(* Calls that are refused (unknown machine, invalid key, range exhausted)  *)
(* change nothing and are not actions.                                     *)
(***************************************************************************)
EXTENDS Tokens, Maps, FiniteSets

CONSTANTS Pubs,          \* WireGuard public keys of the machines
          Names,         \* host names
          Users,         \* account e-mails
          Nobody,        \* the empty owner of a key or a machine
          KeyRequests,   \* the owner, reusability and life time (0: for ever) keys are created with
          CidrSize,      \* number of addresses of the range, network and broadcast included
          MaxTime,       \* bound: the clock stops here
          MaxSecrets,    \* bound: random values drawn
          MaxFailures    \* bound: failed saves

ASSUME OwnerAssumption == Nobody \notin Users
ASSUME KeyAssumption ==
    KeyRequests \subseteq [owner : Users \cup {Nobody}, reusable : BOOLEAN, ttl : Nat]
ASSUME CidrAssumption == CidrSize \in Nat \ {0}
ASSUME BoundAssumption == {MaxTime, MaxSecrets, MaxFailures} \subseteq Nat

VARIABLES
    mem,        \* Store.s: what the server answers from
    disk,       \* the state file
    now,        \* the wall clock
    secrets,    \* number of random values drawn so far by randomHex
    failures,   \* saves that failed so far
    (* History of what the callers were told; the code does not keep it. *)
    enrolled,   \* every machine ever created: its id, its address, its key
    tokens,     \* every token ever drawn for a machine
    acked,      \* ids of the machines whose enrolment was answered with 200
    asked,      \* ids of the machines somebody asked to revoke
    revoked     \* ids of the machines whose revocation was answered with 200

state == <<mem, disk, now, secrets, failures>>
history == <<enrolled, tokens, acked, asked, revoked>>
vars == <<state, history>>

-----------------------------------------------------------------------------

Owner == Users \cup {Nobody}

Device == [id : Nat, hostname : Names, owner : Owner, ip : Nat,
           token : Nat, issued : Nat, prev : Nat, until : Nat]

AuthKey == [owner : Owner, reusable : BOOLEAN, used : BOOLEAN, expires : Nat]

(* stateFile: the machines by public key, the enrolment keys by the value drawn
   for them, among the n first. *)
IsStateFile(m, n) ==
    /\ m = [devices |-> m.devices, keys |-> m.keys]
    /\ IsMap(m.devices, Pubs, Device)
    /\ IsMap(m.keys, 1 .. n, AuthKey)

NoKey == 0

(* What holds of the variables whatever the order of the calls: their types. *)
TypeOK ==
    /\ IsStateFile(mem, secrets)
    /\ IsStateFile(disk, secrets)
    /\ now \in 0 .. MaxTime
    /\ secrets \in 0 .. MaxSecrets
    /\ failures \in 0 .. MaxFailures
    /\ enrolled \subseteq [id : 1 .. secrets, ip : Nat, key : 0 .. secrets]
    /\ tokens \subseteq [id : 1 .. secrets, token : 1 .. secrets]
    /\ acked \subseteq 1 .. secrets
    /\ asked \subseteq 1 .. secrets
    /\ revoked \subseteq asked

(* A file that does not exist yet: OpenStoreCIDR starts from an empty state. *)
EmptyState == [devices |-> Empty, keys |-> Empty]

Init ==
    /\ mem = EmptyState
    /\ disk = EmptyState
    /\ now = 0
    /\ secrets = 0
    /\ failures = 0
    /\ enrolled = {} /\ tokens = {} /\ acked = {} /\ asked = {} /\ revoked = {}

-----------------------------------------------------------------------------
(* Helpers *)

WithDevice(m, p, d) == [m EXCEPT !.devices = Put(@, p, d)]
WithoutDevice(m, p) == [m EXCEPT !.devices = Delete(@, p)]
WithKey(m, k, rec) == [m EXCEPT !.keys = Put(@, k, rec)]

(* randomHex: a value nobody has; its use by several fields of one call is
   told apart by their prefixes (omkey-, omtok-) in the code. *)
Draw(v) ==
    /\ secrets < MaxSecrets
    /\ v = secrets + 1
    /\ secrets' = v

(* saveLocked succeeds: temporary file, rename. *)
Saved(m) == mem' = m /\ disk' = m /\ UNCHANGED failures

(* saveLocked returns an error: the change stays in memory only. *)
SaveFailed(m) ==
    /\ failures < MaxFailures
    /\ failures' = failures + 1
    /\ mem' = m
    /\ UNCHANGED disk

(* The process dies inside saveLocked and is started again: the rename is
   atomic, so the file it finds is the old one or the new one. *)
Interrupted(m) ==
    \E found \in {disk, m} :
        /\ mem' = found
        /\ disk' = found
        /\ UNCHANGED failures

(* A call that saves m and whose caller gets no positive answer. *)
NotAnswered(m) == SaveFailed(m) \/ Interrupted(m)

-----------------------------------------------------------------------------
(* Addresses *)

InPrefix(a) == a \in 0 .. CidrSize - 1

(* The addresses the loop of allocateIPLocked visits. *)
HostAddresses == {a \in 1 .. CidrSize : InPrefix(a) /\ InPrefix(a + 1)}

(* Mutant: the address is taken from the number of machines. *)
FirstFreeByCount(a, devices) ==
    a \in HostAddresses /\ a = Cardinality(DOMAIN devices) + 1

(* allocateIPLocked: a is the first address no machine in memory has. *)
FirstFree(a, devices) ==
    LET free == {b \in HostAddresses : \A p \in DOMAIN devices : devices[p].ip # b}
    IN  a \in free /\ \A b \in free : a <= b

-----------------------------------------------------------------------------
(* Enrolment keys *)

(* CreateAuthKeyFor *)
CreateAuthKeyFor(req) ==
    \E k \in 1 .. MaxSecrets :
        /\ Draw(k)
        /\ LET rec == [owner |-> req.owner, reusable |-> req.reusable, used |-> FALSE,
                       expires |-> IF req.ttl > 0 THEN now + req.ttl ELSE 0]
               m == WithKey(mem, k, rec)
           IN  Saved(m) \/ NotAnswered(m)
        /\ UNCHANGED <<now, history>>

(* The condition of the loop of RegisterDevice over the keys. *)
KeyValid(rec) ==
    /\ rec.reusable \/ ~rec.used
    /\ rec.expires = 0 \/ now < rec.expires

-----------------------------------------------------------------------------
(* Enrolment *)

(* createDeviceLocked *)
NewDevice(v, name, owner, ip) ==
    [id |-> v, hostname |-> name, owner |-> owner, ip |-> ip,
     token |-> v, issued |-> now, prev |-> NoToken, until |-> 0]

(* Mutant: the machine is answered before the state is saved. *)
AnswerThenSave(m, id) ==
    /\ Saved(m) \/ NotAnswered(m)
    /\ acked' = acked \cup {id}

(* The rest of an enrolment: m is saved, then the machine gets its answer. *)
AnswerEnrolment(m, id) ==
    \/ Saved(m) /\ acked' = acked \cup {id}
    \/ NotAnswered(m) /\ UNCHANGED acked

CreateDevice(v, p, name, owner, ip, key, m) ==
    /\ Draw(v)
    /\ FirstFree(ip, mem.devices)
    /\ AnswerEnrolment(WithDevice(m, p, NewDevice(v, name, owner, ip)), v)
    /\ enrolled' = enrolled \cup {[id |-> v, ip |-> ip, key |-> key]}
    /\ tokens' = tokens \cup {[id |-> v, token |-> v]}
    /\ UNCHANGED <<now, asked, revoked>>

(* A known public key: the machine is renamed, or given to another owner, and
   the state saved, if something changed; the answer is given in any case. *)
ReEnrol(p, d) ==
    /\ IF d = mem.devices[p]
         THEN /\ acked' = acked \cup {d.id}
              /\ UNCHANGED <<mem, disk, failures>>
         ELSE AnswerEnrolment(WithDevice(mem, p, d), d.id)
    /\ UNCHANGED <<now, secrets, enrolled, tokens, asked, revoked>>

(* Mutant: an address is allocated before the machine is looked up. *)
ReRegisterElsewhere(p, name) ==
    /\ p \in DOMAIN mem.devices
    /\ \E ip \in HostAddresses :
           /\ FirstFree(ip, mem.devices)
           /\ ReEnrol(p, [mem.devices[p] EXCEPT !.hostname = name, !.ip = ip])

(* RegisterDevice of a machine the server knows: no key is needed or consumed. *)
ReRegisterDevice(p, name) ==
    /\ p \in DOMAIN mem.devices
    /\ ReEnrol(p, [mem.devices[p] EXCEPT !.hostname = name])

(* Mutant: the key is not marked as used. *)
RegisterKeepingKey(p, name, k) ==
    /\ p \notin DOMAIN mem.devices
    /\ KeyValid(mem.keys[k])
    /\ \E v \in 1 .. MaxSecrets, ip \in HostAddresses :
           CreateDevice(v, p, name, mem.keys[k].owner, ip, k, mem)

(* RegisterDevice of a new machine with the key k. *)
RegisterDevice(p, name, k) ==
    /\ p \notin DOMAIN mem.devices
    /\ KeyValid(mem.keys[k])
    /\ \E v \in 1 .. MaxSecrets, ip \in HostAddresses :
           CreateDevice(v, p, name, mem.keys[k].owner, ip, k,
                        [mem EXCEPT !.keys[k].used = TRUE])

(* RegisterDeviceSSO of a machine the server knows. *)
ReRegisterDeviceSSO(p, name, owner) ==
    /\ p \in DOMAIN mem.devices
    /\ ReEnrol(p, [mem.devices[p] EXCEPT !.hostname = name, !.owner = owner])

(* RegisterDeviceSSO of a new machine. *)
RegisterDeviceSSO(p, name, owner) ==
    /\ p \notin DOMAIN mem.devices
    /\ \E v \in 1 .. MaxSecrets, ip \in HostAddresses :
           CreateDevice(v, p, name, owner, ip, NoKey, mem)

-----------------------------------------------------------------------------
(* Revocation *)

(* Mutant: the answer does not depend on the save. *)
RevokeIgnoringSave(p) ==
    LET m == WithoutDevice(mem, p)
    IN  /\ Saved(m) \/ SaveFailed(m)
        /\ revoked' = revoked \cup {mem.devices[p].id}
        /\ asked' = asked \cup {mem.devices[p].id}
        /\ UNCHANGED <<now, secrets, enrolled, tokens, acked>>

(* Deletes the machine, saves, and tells the caller. *)
Revoke(p) ==
    LET m == WithoutDevice(mem, p)
    IN  /\ \/ Saved(m) /\ revoked' = revoked \cup {mem.devices[p].id}
           \/ NotAnswered(m) /\ UNCHANGED revoked
        /\ asked' = asked \cup {mem.devices[p].id}
        /\ UNCHANGED <<now, secrets, enrolled, tokens, acked>>

(* RemoveDevice: the target is an address, a name or an id, and the first
   match of Go's random map order is removed, so it may be any machine. *)
RemoveDevice(p) == p \in DOMAIN mem.devices /\ Revoke(p)

(* RemoveOwnedDevice: the same among the machines of one owner. *)
RemoveOwnedDevice(owner, p) ==
    /\ p \in DOMAIN mem.devices
    /\ mem.devices[p].owner = owner
    /\ Revoke(p)

-----------------------------------------------------------------------------
(* Tokens and the other saves *)

(* RotateTokenIfDue, when it is due *)
RotateTokenIfDue(p) ==
    /\ p \in DOMAIN mem.devices
    /\ LET d == mem.devices[p]
       IN  /\ RotationDue(d, now)
           /\ \E t \in 1 .. MaxSecrets :
                 /\ Draw(t)
                 /\ tokens' = tokens \cup {[id |-> d.id, token |-> t]}
                 /\ LET m == WithDevice(mem, p, Rotate(d, t, now))
                    IN  Saved(m) \/ NotAnswered(m)
    /\ UNCHANGED <<now, enrolled, acked, asked, revoked>>

(* TouchDevice and SetApprovedRoutes change fields this module leaves out
   (last activity, endpoints, routes), and save the whole state. *)
TouchDevice(p) ==
    /\ p \in DOMAIN mem.devices
    /\ Saved(mem) \/ NotAnswered(mem)
    /\ UNCHANGED <<now, secrets, history>>

(* OpenStoreCIDR after the process stopped between two calls. *)
Restart ==
    /\ mem' = disk
    /\ UNCHANGED <<disk, now, secrets, failures, history>>

Tick ==
    /\ now < MaxTime
    /\ now' = now + 1
    /\ UNCHANGED <<mem, disk, secrets, failures, history>>

Next ==
    \/ \E req \in KeyRequests : CreateAuthKeyFor(req)
    \/ \E p \in Pubs, name \in Names : ReRegisterDevice(p, name)
    \/ \E p \in Pubs, name \in Names, k \in DOMAIN mem.keys : RegisterDevice(p, name, k)
    \/ \E p \in Pubs, name \in Names, owner \in Users : ReRegisterDeviceSSO(p, name, owner)
    \/ \E p \in Pubs, name \in Names, owner \in Users : RegisterDeviceSSO(p, name, owner)
    \/ \E p \in Pubs : RemoveDevice(p)
    \/ \E p \in Pubs, owner \in Users : RemoveOwnedDevice(owner, p)
    \/ \E p \in Pubs : RotateTokenIfDue(p)
    \/ \E p \in Pubs : TouchDevice(p)
    \/ Restart
    \/ Tick

Spec == Init /\ [][Next]_vars

-----------------------------------------------------------------------------
(* Properties *)

(* No two machines hold one overlay address, in memory or in the file, and
   none holds the network or the broadcast address: allocateIPLocked looks at
   memory only, and addresses of revoked machines are handed out again. *)
UniqueIPs ==
    \A m \in {mem, disk} : \A p \in DOMAIN m.devices :
        /\ m.devices[p].ip \in 1 .. CidrSize - 2
        /\ \A q \in DOMAIN m.devices \ {p} : m.devices[p].ip # m.devices[q].ip

(* Once the server has confirmed a revocation, no token the machine ever had
   opens anything any more (RemoveDevice: "son jeton cesse d'être valide"):
   not its last one, not one in its grace period, not after a restart from
   the file, whichever saves failed before. *)
RevokedTokensRefused ==
    \A r \in tokens : r.id \in revoked =>
        \A m \in {mem, disk} : \A p \in DOMAIN m.devices :
            ~Accepts(m.devices[p], r.token, now)

(* A machine whose enrolment was confirmed, and whose revocation nobody asked
   for, is known to the server under the id and the address it was given,
   after any number of restarts (Store: "conserve l'état du serveur (machines,
   clés) et le persiste en JSON"), as long as no save failed: ReEnrol confirms
   without a save what a failed one left in memory alone. *)
EnrolmentDurable ==
    failures = 0 => \A e \in enrolled : e.id \in acked \ asked =>
        \E p \in DOMAIN mem.devices :
            mem.devices[p].id = e.id /\ mem.devices[p].ip = e.ip

(* A key that is not reusable gets at most one machine an answer, restarts and
   interrupted calls included (README: "la clé est à usage unique"), as long
   as no save failed. *)
SingleUse ==
    failures = 0 => \A k \in DOMAIN mem.keys : ~mem.keys[k].reusable =>
        \A e, f \in enrolled :
            e.key = k /\ f.key = k /\ {e.id, f.id} \subseteq acked => e = f

-----------------------------------------------------------------------------

(* The ids and addresses of the machines of a state. *)
LeasesOf(m) ==
    [p \in DOMAIN m.devices |-> [id |-> m.devices[p].id, ip |-> m.devices[p].ip]]

L == INSTANCE Leases WITH Machines <- Pubs, Addresses <- HostAddresses, Ids <- 1 .. MaxSecrets,
                          table <- LeasesOf(mem), saved <- LeasesOf(disk),
                          given <- {e.id : e \in enrolled}

(* The store implements the table of leases, whichever saves fail and wherever the
   process dies: a machine keeps its id and its address through renamings, changes of
   owner, rotations and the calls of others until it is revoked, a change is all in the
   file or not at all, and a restart brings back what was saved and nothing else. *)
ImplementsLeases == L!Spec
=============================================================================
