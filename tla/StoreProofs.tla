---------------------------- MODULE StoreProofs -----------------------------
(***************************************************************************)
(* UniqueIPs, RevokedTokensRefused, EnrolmentDurable and SingleUse, for any*)
(* number of machines, keys, failed saves and restarts; and that the store *)
(* implements the table of leases of the module Leases.                    *)
(*                                                                         *)
(* Memory and file may differ, but each of them is always a sound state by *)
(* itself: a save copies one onto the other, a restart copies it back, and *)
(* every call makes a sound state from the one in memory.  So the proof is *)
(* about one state file at a time (Sound), and one lemma per kind of call. *)
(***************************************************************************)
EXTENDS Store, TLAPS

Pair(i, t) == [id |-> i, token |-> t]

(* One machine of a state file, when tk are the tokens drawn for machines. *)
SoundDevice(d, tk) ==
    /\ d.ip \in 1 .. CidrSize - 2
    /\ Pair(d.id, d.token) \in tk
    /\ d.prev # NoToken => Pair(d.id, d.prev) \in tk

(* Two machines of a state file. *)
Apart(d, e) == d.ip # e.ip /\ d.id # e.id

(* A state file m after n draws. *)
Sound(m, n, tk) ==
    /\ IsStateFile(m, n)
    /\ \A p \in DOMAIN m.devices : SoundDevice(m.devices[p], tk)
    /\ \A p, q \in DOMAIN m.devices : p # q => Apart(m.devices[p], m.devices[q])

(* A token was drawn for one machine only. *)
TokenOwner == \A r, s \in tokens : r.token = s.token => r.id = s.id

(* A machine whose revocation was confirmed is in no state file. *)
Gone(m, ids) == \A p \in DOMAIN m.devices : m.devices[p].id \notin ids

IInv ==
    /\ TypeOK
    /\ Sound(mem, secrets, tokens)
    /\ Sound(disk, secrets, tokens)
    /\ TokenOwner
    /\ Gone(mem, revoked)
    /\ Gone(disk, revoked)

-----------------------------------------------------------------------------
(* State files *)

LEMMA SoundMonotone ==
    ASSUME NEW m, NEW n \in Nat, NEW n2 \in Nat, n <= n2, NEW tk, NEW tk2, tk \subseteq tk2,
           Sound(m, n, tk)
    PROVE  Sound(m, n2, tk2)
<1>1. IsStateFile(m, n2)
    BY DEF Sound, IsStateFile, IsMap
<1> QED
    BY <1>1 DEF Sound, SoundDevice

(* The fields of a file with one machine added or replaced. *)
LEMMA WithDeviceFields ==
    ASSUME NEW m, NEW n, IsStateFile(m, n), NEW p, NEW d
    PROVE  LET w == WithDevice(m, p, d)
           IN  /\ w = [devices |-> w.devices, keys |-> m.keys]
               /\ w.keys = m.keys
               /\ DOMAIN w.devices = DOMAIN m.devices \cup {p}
               /\ w.devices = [x \in DOMAIN w.devices |-> w.devices[x]]
               /\ w.devices[p] = d
               /\ \A x \in DOMAIN m.devices \ {p} : w.devices[x] = m.devices[x]
BY DEF IsStateFile, WithDevice, Put

LEMMA WithDeviceIsStateFile ==
    ASSUME NEW m, NEW n, IsStateFile(m, n), NEW p \in Pubs, NEW d \in Device
    PROVE  IsStateFile(WithDevice(m, p, d), n)
<1> DEFINE w == WithDevice(m, p, d)
<1>1. /\ w = [devices |-> w.devices, keys |-> m.keys] /\ w.keys = m.keys
      /\ DOMAIN w.devices = DOMAIN m.devices \cup {p}
      /\ w.devices = [x \in DOMAIN w.devices |-> w.devices[x]]
      /\ w.devices[p] = d
      /\ \A x \in DOMAIN m.devices \ {p} : w.devices[x] = m.devices[x]
    BY WithDeviceFields
<1> HIDE DEF w
<1>2. \A x \in DOMAIN w.devices : w.devices[x] \in Device
    BY <1>1 DEF IsStateFile, IsMap
<1>3. DOMAIN w.devices \subseteq Pubs /\ w.devices \in [DOMAIN w.devices -> Device]
    BY <1>1, <1>2 DEF IsStateFile, IsMap
<1>4. IsStateFile(w, n)
    BY <1>1, <1>3 DEF IsStateFile, IsMap
<1> QED
    BY <1>4 DEF w

(* One machine is added, or replaced by itself with other tokens, names or
   owner: what is required is required of the new record only. *)
LEMMA WithDeviceSound ==
    ASSUME NEW m, NEW n \in Nat, NEW tk, Sound(m, n, tk),
           NEW p \in Pubs, NEW d \in Device,
           SoundDevice(d, tk),
           \A q \in DOMAIN m.devices \ {p} : Apart(d, m.devices[q])
    PROVE  Sound(WithDevice(m, p, d), n, tk)
<1> DEFINE w == WithDevice(m, p, d)
<1>0. IsStateFile(m, n)
    BY DEF Sound
<1>1. IsStateFile(w, n)
    BY <1>0, WithDeviceIsStateFile
<1>2. /\ DOMAIN w.devices = DOMAIN m.devices \cup {p}
      /\ w.devices[p] = d
      /\ \A x \in DOMAIN m.devices \ {p} : w.devices[x] = m.devices[x]
    BY <1>0 DEF IsStateFile, WithDevice, Put
<1> HIDE DEF w
<1>3. \A q \in DOMAIN w.devices : SoundDevice(w.devices[q], tk)
    BY <1>2 DEF Sound
<1>4. ASSUME NEW x \in DOMAIN w.devices, NEW y \in DOMAIN w.devices, x # y
      PROVE  Apart(w.devices[x], w.devices[y])
    <2>1. CASE x = p
        BY <1>2, <1>4, <2>1
    <2>2. CASE y = p
        BY <1>2, <1>4, <2>2 DEF Apart
    <2>3. CASE x # p /\ y # p
        BY <1>2, <1>4, <2>3 DEF Sound
    <2> QED
        BY <2>1, <2>2, <2>3
<1>5. Sound(w, n, tk)
    BY <1>1, <1>3, <1>4 DEF Sound
<1> QED
    BY <1>5 DEF w

LEMMA WithoutDeviceSound ==
    ASSUME NEW m, NEW n, NEW tk, Sound(m, n, tk), NEW p \in DOMAIN m.devices
    PROVE  LET w == WithoutDevice(m, p)
           IN  /\ Sound(w, n, tk)
               /\ Gone(w, {m.devices[p].id})
               /\ \A ids : Gone(m, ids) => Gone(w, ids)
<1> DEFINE w == WithoutDevice(m, p)
<1>1. /\ w = [devices |-> w.devices, keys |-> m.keys] /\ w.keys = m.keys
      /\ DOMAIN w.devices = DOMAIN m.devices \ {p}
      /\ w.devices = [x \in DOMAIN w.devices |-> w.devices[x]]
      /\ \A x \in DOMAIN m.devices \ {p} : w.devices[x] = m.devices[x]
    BY DEF Sound, IsStateFile, WithoutDevice, Delete
<1> HIDE DEF w
<1>2. IsStateFile(w, n)
    BY <1>1 DEF Sound, IsStateFile, IsMap
<1>3. Sound(w, n, tk)
    BY <1>1, <1>2 DEF Sound
<1>4. Gone(w, {m.devices[p].id}) /\ \A ids : Gone(m, ids) => Gone(w, ids)
    BY <1>1 DEF Sound, Apart, Gone
<1> QED
    BY <1>3, <1>4 DEF w

(* Another set of keys. *)
LEMMA KeysSound ==
    ASSUME NEW m, NEW n, NEW tk, Sound(m, n, tk),
           NEW keys, IsMap(keys, 1 .. n, AuthKey)
    PROVE  Sound([m EXCEPT !.keys = keys], n, tk)
<1> DEFINE w == [m EXCEPT !.keys = keys]
<1>1. w = [devices |-> m.devices, keys |-> keys] /\ w.devices = m.devices /\ w.keys = keys
    BY DEF Sound, IsStateFile
<1> HIDE DEF w
<1>2. IsStateFile(w, n)
    BY <1>1 DEF Sound, IsStateFile
<1>3. Sound(w, n, tk)
    BY <1>1, <1>2 DEF Sound
<1> QED
    BY <1>3 DEF w

-----------------------------------------------------------------------------
(* Steps *)

(* The types of the history after n draws. *)
HistoryOK(n) ==
    /\ enrolled \subseteq [id : 1 .. n, ip : Nat, key : 0 .. n]
    /\ tokens \subseteq [id : 1 .. n, token : 1 .. n]
    /\ acked \subseteq 1 .. n
    /\ asked \subseteq 1 .. n
    /\ revoked \subseteq asked

LEMMA HistoryMonotone ==
    ASSUME NEW n \in Nat, NEW n2 \in Nat, n <= n2, HistoryOK(n)
    PROVE  HistoryOK(n2)
<1>1. 1 .. n \subseteq 1 .. n2 /\ 0 .. n \subseteq 0 .. n2
    OBVIOUS
<1>2. /\ [id : 1 .. n, ip : Nat, key : 0 .. n] \subseteq [id : 1 .. n2, ip : Nat, key : 0 .. n2]
      /\ [id : 1 .. n, token : 1 .. n] \subseteq [id : 1 .. n2, token : 1 .. n2]
    BY <1>1
<1> QED
    BY <1>1, <1>2 DEF HistoryOK

(* A call that saves the sound state m, whatever becomes of the save. *)
LEMMA CallStep ==
    ASSUME IInv, secrets' \in secrets .. MaxSecrets, now' \in 0 .. MaxTime,
           tokens \subseteq tokens', revoked' = revoked,
           HistoryOK(secrets)', TokenOwner',
           NEW m, Sound(m, secrets', tokens'), Gone(m, revoked),
           Saved(m) \/ NotAnswered(m)
    PROVE  IInv'
<1>0. secrets \in Nat /\ secrets' \in Nat /\ secrets <= secrets' /\ secrets' \in 0 .. MaxSecrets
      /\ failures \in 0 .. MaxFailures
    BY BoundAssumption DEF IInv, TypeOK
<1>1. /\ mem' \in {m, disk} /\ disk' \in {m, disk}
      /\ failures' \in 0 .. MaxFailures
    BY <1>0, BoundAssumption DEF Saved, NotAnswered, SaveFailed, Interrupted
<1>2. Sound(disk, secrets', tokens')
    BY <1>0, SoundMonotone DEF IInv
<1>3. Sound(mem, secrets, tokens)' /\ Sound(disk, secrets, tokens)'
    BY <1>1, <1>2
<1>4. Gone(mem, revoked)' /\ Gone(disk, revoked)'
    BY <1>1 DEF IInv
<1>5. IsStateFile(mem, secrets)' /\ IsStateFile(disk, secrets)'
    BY <1>3 DEF Sound
<1>6. TypeOK'
    BY <1>0, <1>1, <1>5 DEF TypeOK, HistoryOK
<1> QED
    BY <1>3, <1>4, <1>6 DEF IInv

(* A call that draws nothing for a machine and confirms no revocation. *)
LEMMA PlainCallStep ==
    ASSUME IInv, secrets' \in secrets .. MaxSecrets, now' = now,
           UNCHANGED <<enrolled, tokens, acked, revoked>>,
           asked' \in SUBSET (1 .. secrets), asked \subseteq asked',
           NEW m, Sound(m, secrets', tokens), Gone(m, revoked),
           Saved(m) \/ NotAnswered(m)
    PROVE  IInv'
<1>1. secrets \in Nat /\ secrets' \in Nat /\ secrets <= secrets' /\ HistoryOK(secrets)
    BY BoundAssumption DEF IInv, TypeOK, HistoryOK
<1>2. HistoryOK(secrets')
    BY <1>1, HistoryMonotone
<1>3. HistoryOK(secrets)'
    BY <1>1, <1>2 DEF HistoryOK
<1>4. TokenOwner' /\ now' \in 0 .. MaxTime
    BY DEF IInv, TokenOwner, TypeOK
<1> QED
    BY <1>3, <1>4, CallStep

LEMMA CreateAuthKeyStep ==
    ASSUME IInv, NEW req \in KeyRequests, CreateAuthKeyFor(req)
    PROVE  IInv'
<1>1. PICK k \in 1 .. MaxSecrets : Draw(k)
                /\ LET rec == [owner |-> req.owner, reusable |-> req.reusable, used |-> FALSE,
                               expires |-> IF req.ttl > 0 THEN now + req.ttl ELSE 0]
                       m == WithKey(mem, k, rec)
                   IN  Saved(m) \/ NotAnswered(m)
    BY DEF CreateAuthKeyFor
<1>2. UNCHANGED <<now, history>>
    BY DEF CreateAuthKeyFor
<1> DEFINE rec == [owner |-> req.owner, reusable |-> req.reusable, used |-> FALSE,
                   expires |-> IF req.ttl > 0 THEN now + req.ttl ELSE 0]
           keys == Put(mem.keys, k, rec)
           m == [mem EXCEPT !.keys = keys]
<1>3. secrets \in Nat /\ secrets' = secrets + 1 /\ secrets' \in secrets .. MaxSecrets /\ k = secrets'
    BY <1>1, BoundAssumption DEF IInv, TypeOK, Draw
<1>4. Sound(mem, secrets', tokens)
    BY <1>3, SoundMonotone DEF IInv
<1>5. rec \in AuthKey
    BY KeyAssumption, BoundAssumption DEF AuthKey, Owner, IInv, TypeOK
<1>6. IsMap(keys, 1 .. secrets', AuthKey)
    <2> HIDE DEF rec
    <2>1. IsMap(mem.keys, 1 .. secrets', AuthKey)
        BY <1>4 DEF Sound, IsStateFile
    <2> QED
        BY <2>1, <1>3, <1>5 DEF IsMap, Put
<1>7. Saved(m) \/ NotAnswered(m)
    BY <1>1 DEF WithKey
<1> HIDE DEF keys, rec
<1>8. Sound(m, secrets', tokens)
    BY <1>4, <1>6, KeysSound
<1>9. Gone(m, revoked)
    BY <1>4 DEF Gone, IInv, Sound, IsStateFile
<1> HIDE DEF m
<1> QED
    BY <1>2, <1>3, <1>7, <1>8, <1>9, PlainCallStep DEF history, IInv, TypeOK

LEMMA AddressFacts ==
    ASSUME NEW ip, NEW devices, FirstFree(ip, devices)
    PROVE  /\ ip \in 1 .. CidrSize - 2
           /\ \A q \in DOMAIN devices : devices[q].ip # ip
BY CidrAssumption DEF FirstFree, HostAddresses, InPrefix

(* The history after a draw for the machine of id i. *)
LEMMA TokenDrawn ==
    ASSUME TypeOK, TokenOwner, secrets' = secrets + 1, NEW i \in 1 .. secrets',
           tokens' = tokens \cup {Pair(i, secrets')}
    PROVE  /\ TokenOwner'
           /\ tokens' \subseteq [id : 1 .. secrets', token : 1 .. secrets']
<1>1. secrets \in Nat /\ tokens \subseteq [id : 1 .. secrets, token : 1 .. secrets]
    BY BoundAssumption DEF TypeOK
<1>2. Pair(i, secrets') \in [id : 1 .. secrets', token : 1 .. secrets']
    BY <1>1 DEF Pair
<1>3. \A r \in tokens : r \in [id : 1 .. secrets', token : 1 .. secrets'] /\ r.token # secrets'
    BY <1>1
<1>4. Pair(i, secrets').token = secrets'
    BY DEF Pair
<1> QED
    BY <1>2, <1>3, <1>4 DEF TokenOwner

LEMMA CreateDeviceStep ==
    ASSUME IInv, NEW v \in 1 .. MaxSecrets, NEW p \in Pubs, p \notin DOMAIN mem.devices,
           NEW name \in Names, NEW owner \in Owner, NEW ip, NEW key \in 0 .. secrets,
           NEW m, Sound(m, secrets, tokens), m.devices = mem.devices,
           CreateDevice(v, p, name, owner, ip, key, m)
    PROVE  IInv'
<1> DEFINE d == NewDevice(v, name, owner, ip)
           w == WithDevice(m, p, d)
<1>1. /\ secrets \in Nat /\ secrets' = secrets + 1 /\ v = secrets'
      /\ secrets' \in secrets .. MaxSecrets /\ secrets' \in Nat
    BY BoundAssumption DEF CreateDevice, Draw, IInv, TypeOK
<1>2. ip \in 1 .. CidrSize - 2 /\ \A q \in DOMAIN m.devices : m.devices[q].ip # ip
    BY AddressFacts DEF CreateDevice
<1>3. /\ tokens' = tokens \cup {Pair(v, v)}
      /\ enrolled' = enrolled \cup {[id |-> v, ip |-> ip, key |-> key]}
      /\ acked' \subseteq acked \cup {v}
      /\ UNCHANGED <<now, asked, revoked>>
      /\ Saved(w) \/ NotAnswered(w)
    BY DEF CreateDevice, AnswerEnrolment, Pair
<1>4. now \in Nat /\ ip \in Nat
    BY <1>2, BoundAssumption, CidrAssumption DEF IInv, TypeOK
<1>5. d \in Device /\ d.id = v /\ d.token = v /\ d.prev = NoToken /\ d.ip = ip
    BY <1>1, <1>4 DEF NewDevice, Device, NoToken
<1> HIDE DEF d
<1>6. Sound(m, secrets', tokens')
    BY <1>1, <1>3, SoundMonotone
<1>7. SoundDevice(d, tokens')
    BY <1>2, <1>3, <1>5 DEF SoundDevice
<1>8. \A q \in DOMAIN m.devices : m.devices[q].id \in 1 .. secrets
    BY DEF Sound, SoundDevice, Pair, IInv, TypeOK
<1>9. \A q \in DOMAIN m.devices \ {p} : Apart(d, m.devices[q])
    BY <1>1, <1>2, <1>5, <1>8 DEF Apart
<1>10. Sound(w, secrets', tokens')
    BY <1>1, <1>5, <1>6, <1>7, <1>9, WithDeviceSound
<1>11. Gone(w, revoked)
    <2>1. IsStateFile(m, secrets)
        BY DEF Sound
    <2>2. /\ DOMAIN w.devices = DOMAIN m.devices \cup {p} /\ w.devices[p] = d
          /\ \A x \in DOMAIN m.devices \ {p} : w.devices[x] = m.devices[x]
        BY <2>1 DEF IsStateFile, WithDevice, Put
    <2>3. v \notin revoked
        BY <1>1 DEF IInv, TypeOK
    <2> QED
        BY <2>2, <2>3, <1>5 DEF Gone, IInv
<1> HIDE DEF w
<1>12. TokenOwner' /\ tokens' \subseteq [id : 1 .. secrets', token : 1 .. secrets']
    BY <1>1, <1>3, TokenDrawn DEF IInv
<1>13. HistoryOK(secrets')
    BY <1>1, HistoryMonotone DEF HistoryOK, IInv, TypeOK
<1>14. HistoryOK(secrets)'
    <2>1. [id |-> v, ip |-> ip, key |-> key] \in [id : 1 .. secrets', ip : Nat, key : 0 .. secrets']
        BY <1>1, <1>4
    <2> QED
        BY <1>1, <1>3, <1>12, <1>13, <2>1 DEF HistoryOK
<1> QED
    BY <1>1, <1>3, <1>10, <1>11, <1>12, <1>14, CallStep DEF IInv, TypeOK

(* A machine of the memory gets another record with its id and its address. *)
LEMMA ReplacedSound ==
    ASSUME IInv, NEW n \in Nat, secrets <= n, NEW tk, tokens \subseteq tk,
           NEW p \in DOMAIN mem.devices, NEW d \in Device,
           d.id = mem.devices[p].id, d.ip = mem.devices[p].ip,
           SoundDevice(d, tk)
    PROVE  Sound(WithDevice(mem, p, d), n, tk) /\ Gone(WithDevice(mem, p, d), revoked)
<1> DEFINE w == WithDevice(mem, p, d)
<1>1. secrets \in Nat /\ Sound(mem, secrets, tokens) /\ Gone(mem, revoked)
    BY BoundAssumption DEF IInv, TypeOK
<1>2. Sound(mem, n, tk)
    BY <1>1, SoundMonotone
<1>3. p \in Pubs /\ \A q \in DOMAIN mem.devices \ {p} : Apart(d, mem.devices[q])
    BY <1>1 DEF Sound, IsStateFile, IsMap, Apart
<1>4. Sound(w, n, tk)
    BY <1>2, <1>3, WithDeviceSound
<1>5. /\ DOMAIN w.devices = DOMAIN mem.devices \cup {p} /\ w.devices[p] = d
      /\ \A x \in DOMAIN mem.devices \ {p} : w.devices[x] = mem.devices[x]
    BY <1>1 DEF Sound, IsStateFile, WithDevice, Put
<1>6. Gone(w, revoked)
    BY <1>1, <1>5 DEF Gone
<1> QED
    BY <1>4, <1>6

(* The types of a machine of the memory. *)
LEMMA DeviceFacts ==
    ASSUME IInv, NEW p \in DOMAIN mem.devices
    PROVE  /\ mem.devices[p] \in Device
           /\ SoundDevice(mem.devices[p], tokens)
           /\ mem.devices[p].id \in 1 .. secrets
           /\ p \in Pubs
<1>1. mem.devices[p] \in Device /\ SoundDevice(mem.devices[p], tokens) /\ p \in Pubs
    BY DEF IInv, Sound, IsStateFile, IsMap
<1>2. mem.devices[p].id \in 1 .. secrets
    BY <1>1 DEF SoundDevice, Pair, IInv, TypeOK
<1> QED
    BY <1>1, <1>2

LEMMA ReEnrolStep ==
    ASSUME IInv, NEW p \in DOMAIN mem.devices, NEW d \in Device,
           d.id = mem.devices[p].id, d.ip = mem.devices[p].ip,
           d.token = mem.devices[p].token, d.prev = mem.devices[p].prev,
           ReEnrol(p, d)
    PROVE  IInv'
<1>1. /\ UNCHANGED <<now, secrets, enrolled, tokens, asked, revoked>>
      /\ acked' \subseteq acked \cup {d.id}
      /\ \/ UNCHANGED <<mem, disk, failures>>
         \/ LET m == WithDevice(mem, p, d) IN Saved(m) \/ NotAnswered(m)
    BY DEF ReEnrol, AnswerEnrolment
<1>2. d.id \in 1 .. secrets /\ SoundDevice(d, tokens)
    BY DeviceFacts DEF SoundDevice
<1>3. secrets \in Nat /\ secrets' \in secrets .. MaxSecrets /\ now' \in 0 .. MaxTime
    BY <1>1, BoundAssumption DEF IInv, TypeOK
<1>4. HistoryOK(secrets)' /\ TokenOwner'
    BY <1>1, <1>2 DEF HistoryOK, TokenOwner, IInv, TypeOK
<1>5. CASE UNCHANGED <<mem, disk, failures>>
    <2>1. TypeOK'
        BY <1>1, <1>4, <1>5 DEF IInv, TypeOK, HistoryOK
    <2> QED
        BY <2>1, <1>1, <1>4, <1>5 DEF IInv
<1>6. CASE LET m == WithDevice(mem, p, d) IN Saved(m) \/ NotAnswered(m)
    <2> DEFINE m == WithDevice(mem, p, d)
    <2>1. secrets' = secrets /\ tokens' = tokens /\ secrets <= secrets
        BY <1>1, <1>3
    <2>2. Sound(m, secrets, tokens) /\ Gone(m, revoked)
        BY <1>2, <1>3, <2>1, ReplacedSound
    <2>3. Saved(m) \/ NotAnswered(m)
        BY <1>6
    <2> HIDE DEF m
    <2>4. Sound(m, secrets', tokens') /\ Gone(m, revoked)
        BY <2>1, <2>2
    <2> QED
        BY <2>4, <2>3, <1>1, <1>3, <1>4, CallStep
<1> QED
    BY <1>1, <1>5, <1>6

LEMMA ReRegisterStep ==
    ASSUME IInv, NEW p \in Pubs, NEW name \in Names, NEW owner \in Owner,
           ReRegisterDevice(p, name) \/ ReRegisterDeviceSSO(p, name, owner)
    PROVE  IInv'
<1>1. p \in DOMAIN mem.devices
    BY DEF ReRegisterDevice, ReRegisterDeviceSSO
<1>2. PICK d : /\ ReEnrol(p, d)
               /\ d \in {[mem.devices[p] EXCEPT !.hostname = name],
                         [mem.devices[p] EXCEPT !.hostname = name, !.owner = owner]}
    BY DEF ReRegisterDevice, ReRegisterDeviceSSO
<1>3. mem.devices[p] \in Device
    BY <1>1, DeviceFacts
<1>4. /\ d \in Device /\ d.id = mem.devices[p].id /\ d.ip = mem.devices[p].ip
      /\ d.token = mem.devices[p].token /\ d.prev = mem.devices[p].prev
    BY <1>2, <1>3 DEF Device, Owner
<1> QED
    BY <1>1, <1>2, <1>4, ReEnrolStep

LEMMA RegisterStep ==
    ASSUME IInv, NEW p \in Pubs, NEW name \in Names, NEW k \in DOMAIN mem.keys,
           RegisterDevice(p, name, k)
    PROVE  IInv'
<1> DEFINE m == [mem EXCEPT !.keys[k].used = TRUE]
           keys == [mem.keys EXCEPT ![k].used = TRUE]
<1>1. PICK v \in 1 .. MaxSecrets, ip \in HostAddresses :
               CreateDevice(v, p, name, mem.keys[k].owner, ip, k, m)
    BY DEF RegisterDevice
<1>2. /\ Sound(mem, secrets, tokens) /\ IsMap(mem.keys, 1 .. secrets, AuthKey)
      /\ mem = [devices |-> mem.devices, keys |-> mem.keys]
    BY DEF IInv, Sound, IsStateFile
<1>3. IsMap(keys, 1 .. secrets, AuthKey)
    BY <1>2 DEF IsMap, AuthKey
<1>4. m = [mem EXCEPT !.keys = keys]
    BY <1>2
<1>5. m.devices = mem.devices
    BY <1>2
<1>6. mem.keys[k].owner \in Owner /\ k \in 0 .. secrets /\ p \notin DOMAIN mem.devices
    BY <1>2 DEF IsMap, AuthKey, RegisterDevice
<1> HIDE DEF m, keys
<1>7. Sound(m, secrets, tokens)
    BY <1>2, <1>3, <1>4, KeysSound
<1> QED
    BY <1>1, <1>5, <1>6, <1>7, CreateDeviceStep

LEMMA RegisterSSOStep ==
    ASSUME IInv, NEW p \in Pubs, NEW name \in Names, NEW owner \in Users,
           RegisterDeviceSSO(p, name, owner)
    PROVE  IInv'
<1>1. PICK v \in 1 .. MaxSecrets, ip \in HostAddresses :
               CreateDevice(v, p, name, owner, ip, NoKey, mem)
    BY DEF RegisterDeviceSSO
<1>2. /\ Sound(mem, secrets, tokens) /\ p \notin DOMAIN mem.devices
      /\ owner \in Owner /\ NoKey \in 0 .. secrets
    BY BoundAssumption DEF IInv, TypeOK, Owner, NoKey, RegisterDeviceSSO
<1> QED
    BY <1>1, <1>2, CreateDeviceStep

LEMMA RevokeStep ==
    ASSUME IInv, NEW p \in DOMAIN mem.devices, Revoke(p)
    PROVE  IInv'
<1> DEFINE m == WithoutDevice(mem, p)
           i == mem.devices[p].id
<1>1. Sound(mem, secrets, tokens) /\ Gone(mem, revoked) /\ i \in 1 .. secrets
    BY DeviceFacts DEF IInv
<1>2. Sound(m, secrets, tokens) /\ Gone(m, {i}) /\ Gone(m, revoked)
    BY <1>1, WithoutDeviceSound
<1>3. /\ UNCHANGED <<now, secrets, enrolled, tokens, acked>>
      /\ asked' = asked \cup {i}
      /\ \/ Saved(m) /\ revoked' = revoked \cup {i}
         \/ NotAnswered(m) /\ UNCHANGED revoked
    BY DEF Revoke
<1>4. secrets \in Nat /\ secrets' \in secrets .. MaxSecrets
    BY <1>3, BoundAssumption DEF IInv, TypeOK
<1> HIDE DEF m, i
<1>5. CASE Saved(m) /\ revoked' = revoked \cup {i}
    <2>1. mem' = m /\ disk' = m /\ failures' = failures
        BY <1>5 DEF Saved
    <2>2. Gone(m, revoked')
        BY <1>2, <1>5 DEF Gone
    <2>3. IsStateFile(m, secrets)
        BY <1>2 DEF Sound
    <2>4. TypeOK'
        BY <1>1, <1>3, <1>5, <2>1, <2>3 DEF IInv, TypeOK
    <2>5. Sound(mem, secrets, tokens)' /\ Sound(disk, secrets, tokens)'
        BY <1>2, <1>3, <2>1
    <2> QED
        BY <1>3, <2>1, <2>2, <2>4, <2>5 DEF IInv, TokenOwner
<1>6. CASE NotAnswered(m) /\ UNCHANGED revoked
    BY <1>1, <1>2, <1>3, <1>4, <1>6, PlainCallStep DEF IInv, TypeOK
<1> QED
    BY <1>3, <1>5, <1>6

(* A rotation changes the token fields of a machine and nothing else. *)
LEMMA RotateDevice ==
    ASSUME NEW d \in Device, NEW t \in Nat, NEW n \in Nat
    PROVE  LET e == Rotate(d, t, n)
           IN  /\ e \in Device /\ e.id = d.id /\ e.ip = d.ip
               /\ e.token = t /\ e.prev = d.token
<1> DEFINE a == [d EXCEPT !.prev = d.token]
           b == [a EXCEPT !.until = n + Grace]
           c == [b EXCEPT !.token = t]
           e == [c EXCEPT !.issued = n]
<1>1. a \in Device /\ a.id = d.id /\ a.ip = d.ip /\ a.prev = d.token
    BY DEF Device
<1> HIDE DEF a
<1>2. b \in Device /\ b.id = d.id /\ b.ip = d.ip /\ b.prev = d.token
    BY <1>1, GraceAssumption DEF Device
<1> HIDE DEF b
<1>3. c \in Device /\ c.id = d.id /\ c.ip = d.ip /\ c.prev = d.token /\ c.token = t
    BY <1>2 DEF Device
<1> HIDE DEF c
<1>4. e \in Device /\ e.id = d.id /\ e.ip = d.ip /\ e.prev = d.token /\ e.token = t
    BY <1>3 DEF Device
<1>5. Rotate(d, t, n) = e
    BY Zenon DEF Rotate, a, b, c
<1> HIDE DEF e
<1> QED
    BY <1>4, <1>5

LEMMA RotateStep ==
    ASSUME IInv, NEW p \in Pubs, RotateTokenIfDue(p)
    PROVE  IInv'
<1> DEFINE d == mem.devices[p]
<1>1. p \in DOMAIN mem.devices /\ UNCHANGED <<now, enrolled, acked, asked, revoked>>
    BY DEF RotateTokenIfDue
<1>2. PICK t \in 1 .. MaxSecrets :
              /\ Draw(t)
              /\ tokens' = tokens \cup {Pair(d.id, t)}
              /\ LET m == WithDevice(mem, p, Rotate(d, t, now))
                 IN  Saved(m) \/ NotAnswered(m)
    BY DEF RotateTokenIfDue, Pair
<1>3. /\ secrets \in Nat /\ secrets' \in Nat /\ secrets' = secrets + 1 /\ t = secrets'
      /\ secrets' \in secrets .. MaxSecrets /\ now \in Nat /\ now' \in 0 .. MaxTime
    BY <1>1, <1>2, BoundAssumption DEF IInv, TypeOK, Draw
<1>4. d \in Device /\ SoundDevice(d, tokens) /\ d.id \in 1 .. secrets
    BY <1>1, DeviceFacts
<1> HIDE DEF d
<1> DEFINE e == Rotate(d, t, now)
<1>5. /\ e \in Device /\ e.id = d.id /\ e.ip = d.ip
      /\ e.token = t /\ e.prev = d.token
    <2>1. d \in Device /\ t \in Nat /\ now \in Nat
        BY <1>3, <1>4
    <2> QED
        BY <2>1, RotateDevice, Zenon
<1> HIDE DEF e
<1>6. SoundDevice(e, tokens')
    BY <1>2, <1>4, <1>5 DEF SoundDevice
<1> DEFINE m == WithDevice(mem, p, e)
<1>7. Sound(m, secrets', tokens') /\ Gone(m, revoked)
    BY <1>1, <1>2, <1>3, <1>5, <1>6, ReplacedSound DEF d
<1>8. Saved(m) \/ NotAnswered(m)
    BY <1>2 DEF e
<1> HIDE DEF m
<1>9. TokenOwner' /\ tokens' \subseteq [id : 1 .. secrets', token : 1 .. secrets']
    BY <1>2, <1>3, <1>4, TokenDrawn DEF IInv
<1>10. HistoryOK(secrets')
    BY <1>3, HistoryMonotone DEF HistoryOK, IInv, TypeOK
<1>11. HistoryOK(secrets)'
    BY <1>1, <1>9, <1>10 DEF HistoryOK
<1> QED
    BY <1>1, <1>2, <1>3, <1>7, <1>8, <1>9, <1>11, CallStep

LEMMA InitIInv == Init => IInv
<1> SUFFICES ASSUME Init PROVE IInv
    OBVIOUS
<1>1. /\ EmptyState = [devices |-> EmptyState.devices, keys |-> EmptyState.keys]
      /\ DOMAIN EmptyState.devices = {} /\ DOMAIN EmptyState.keys = {}
      /\ EmptyState.devices \in [{} -> Device] /\ EmptyState.keys \in [{} -> AuthKey]
    BY DEF EmptyState, Empty
<1>2. IsStateFile(EmptyState, 0)
    BY <1>1 DEF IsStateFile, IsMap
<1>3. Sound(EmptyState, 0, {}) /\ Gone(EmptyState, {})
    BY <1>1, <1>2 DEF Sound, Gone
<1>4. TypeOK
    BY <1>2, BoundAssumption DEF Init, TypeOK
<1> QED
    BY <1>3, <1>4 DEF Init, IInv, TokenOwner

LEMMA NextIInv ==
    ASSUME IInv, [Next]_vars
    PROVE  IInv'
<1>1. CASE \E req \in KeyRequests : CreateAuthKeyFor(req)
    BY <1>1, CreateAuthKeyStep
<1>2. CASE \E p \in Pubs, name \in Names : ReRegisterDevice(p, name)
    <2>1. Nobody \in Owner
        BY DEF Owner
    <2> QED
        BY <1>2, <2>1, ReRegisterStep
<1>3. CASE \E p \in Pubs, name \in Names, k \in DOMAIN mem.keys : RegisterDevice(p, name, k)
    BY <1>3, RegisterStep
<1>4. CASE \E p \in Pubs, name \in Names, owner \in Users : ReRegisterDeviceSSO(p, name, owner)
    BY <1>4, ReRegisterStep DEF Owner
<1>5. CASE \E p \in Pubs, name \in Names, owner \in Users : RegisterDeviceSSO(p, name, owner)
    BY <1>5, RegisterSSOStep
<1>6. CASE \/ \E p \in Pubs : RemoveDevice(p)
           \/ \E p \in Pubs, owner \in Users : RemoveOwnedDevice(owner, p)
    BY <1>6, RevokeStep DEF RemoveDevice, RemoveOwnedDevice
<1>7. CASE \E p \in Pubs : RotateTokenIfDue(p)
    BY <1>7, RotateStep
<1>8. CASE \E p \in Pubs : TouchDevice(p)
    <2>1. Saved(mem) \/ NotAnswered(mem)
        BY <1>8 DEF TouchDevice
    <2>2. UNCHANGED <<now, secrets, history>>
        BY <1>8 DEF TouchDevice
    <2>3. secrets' \in secrets .. MaxSecrets
        BY <2>2, BoundAssumption DEF IInv, TypeOK
    <2> QED
        BY <2>1, <2>2, <2>3, PlainCallStep DEF history, IInv, TypeOK
<1>9. CASE Restart
    BY <1>9 DEF Restart, history, IInv, TypeOK, TokenOwner
<1>10. CASE Tick
    <2>1. now' \in 0 .. MaxTime /\ UNCHANGED <<mem, disk, secrets, failures, history>>
        BY <1>10, BoundAssumption DEF Tick, IInv, TypeOK
    <2> QED
        BY <2>1 DEF history, IInv, TypeOK, TokenOwner
<1>11. CASE UNCHANGED vars
    BY <1>11 DEF vars, state, history, IInv, TypeOK, TokenOwner
<1> QED
    BY <1>1, <1>2, <1>3, <1>4, <1>5, <1>6, <1>7, <1>8, <1>9, <1>10, <1>11 DEF Next

-----------------------------------------------------------------------------

(* Memory and file are sound states in every reachable state of the server. *)
THEOREM Invariance == Spec => []IInv
<1>1. IInv /\ [Next]_vars => IInv'
    BY NextIInv
<1> QED
    BY <1>1, InitIInv, PTL DEF Spec

(* The variables of the store have their types. *)
THEOREM TypeCorrect == Spec => []TypeOK
<1>1. IInv => TypeOK
    BY DEF IInv
<1> QED
    BY <1>1, Invariance, PTL

(* No address is held twice, in memory or in the file, although only memory is
   searched for a free one and the file may be behind it. *)
THEOREM AddressesUnique == Spec => []UniqueIPs
<1>1. IInv => UniqueIPs
    BY DEF IInv, UniqueIPs, Sound, SoundDevice, Apart
<1> QED
    BY <1>1, Invariance, PTL

(* A confirmed revocation is final: no token ever drawn for the machine is
   accepted by what the server has in memory or would load from its file. *)
THEOREM RevocationFinal == Spec => []RevokedTokensRefused
<1>1. ASSUME IInv, NEW r \in tokens, r.id \in revoked, NEW m \in {mem, disk},
             NEW p \in DOMAIN m.devices, Accepts(m.devices[p], r.token, now)
      PROVE  FALSE
    <2> DEFINE d == m.devices[p]
    <2>1. Sound(m, secrets, tokens) /\ Gone(m, revoked) /\ TokenOwner
        BY <1>1 DEF IInv
    <2>2. SoundDevice(d, tokens) /\ d.id \notin revoked
        BY <2>1 DEF Sound, Gone
    <2>3. r.token # NoToken /\ r.token \in {d.token, d.prev}
        BY <1>1 DEF Accepts
    <2>4. Pair(d.id, r.token) \in tokens
        BY <2>2, <2>3 DEF SoundDevice
    <2>5. d.id = r.id
        BY <2>1, <2>4 DEF TokenOwner, Pair
    <2> QED
        BY <1>1, <2>2, <2>5
<1>2. IInv => RevokedTokensRefused
    BY <1>1 DEF RevokedTokensRefused
<1> QED
    BY <1>2, Invariance, PTL

-----------------------------------------------------------------------------
(* What the callers were told, as long as no save failed.  The file is then what
   is in memory, and a process that dies while saving leaves one state or the
   other in both. *)

Knows(m, i) == \E p \in DOMAIN m.devices : m.devices[p].id = i

(* The machine e was answered, or may still be: it is in the state m. *)
Live(m, ak, e) == e.id \in ak \/ Knows(m, e.id)

(* Machines keep the address they were created with; the ones that were answered
   stay until somebody asks for their revocation. *)
Kept(m, ak, en, as) ==
    /\ \A e \in en : \A p \in DOMAIN m.devices : m.devices[p].id = e.id => m.devices[p].ip = e.ip
    /\ \A e \in en : e.id \in ak \ as => Knows(m, e.id)

(* A key for one machine: once a machine lives by it, it is used. *)
KeyOnce(m, ak, en) ==
    \A k \in DOMAIN m.keys : ~m.keys[k].reusable =>
        /\ \A e \in en : e.key = k /\ Live(m, ak, e) => m.keys[k].used
        /\ \A e, f \in en :
              e.key = k /\ f.key = k /\ Live(m, ak, e) /\ Live(m, ak, f) => e = f

Told(m, ak, en, as) == Kept(m, ak, en, as) /\ KeyOnce(m, ak, en)

ToldInv == failures = 0 => mem = disk /\ Told(mem, acked, enrolled, asked)

(* The machines of a state, renamed, rotated or given to another owner. *)
LEMMA SameMachines ==
    ASSUME NEW m, NEW w, NEW ak, NEW en, NEW as, Told(m, ak, en, as),
           w.keys = m.keys, DOMAIN w.devices = DOMAIN m.devices,
           \A p \in DOMAIN m.devices :
               w.devices[p].id = m.devices[p].id /\ w.devices[p].ip = m.devices[p].ip
    PROVE  Told(w, ak, en, as)
<1>1. \A i : Knows(w, i) <=> Knows(m, i)
    BY DEF Knows
<1>2. Kept(w, ak, en, as)
    BY <1>1 DEF Told, Kept
<1>3. KeyOnce(w, ak, en)
    BY <1>1 DEF Told, KeyOnce, Live
<1> QED
    BY <1>2, <1>3 DEF Told

(* A machine the server knows is answered. *)
LEMMA AnswerKnown ==
    ASSUME NEW m, NEW ak, NEW en, NEW as, Told(m, ak, en, as),
           NEW i, Knows(m, i), NEW ak2, ak2 \in {ak, ak \cup {i}}
    PROVE  Told(m, ak2, en, as)
<1>1. \A e : Live(m, ak2, e) <=> Live(m, ak, e)
    BY DEF Live
<1>2. Kept(m, ak2, en, as)
    BY DEF Told, Kept
<1>3. KeyOnce(m, ak2, en)
    BY <1>1 DEF Told, KeyOnce
<1> QED
    BY <1>2, <1>3 DEF Told

(* Somebody asks for the revocation of a machine, which is done, or is not. *)
LEMMA AskRevocation ==
    ASSUME NEW m, NEW w, NEW ak, NEW en, NEW as, Told(m, ak, en, as),
           NEW p \in DOMAIN m.devices, w.keys = m.keys,
           DOMAIN w.devices = DOMAIN m.devices \ {p},
           \A q \in DOMAIN w.devices : w.devices[q] = m.devices[q]
    PROVE  LET as2 == as \cup {m.devices[p].id}
           IN  Told(m, ak, en, as2) /\ Told(w, ak, en, as2)
<1> DEFINE as2 == as \cup {m.devices[p].id}
<1>1. \A i : Knows(w, i) => Knows(m, i)
    BY DEF Knows
<1>2. \A i : Knows(m, i) /\ i # m.devices[p].id => Knows(w, i)
    BY DEF Knows
<1>3. Kept(m, ak, en, as2) /\ Kept(w, ak, en, as2)
    <2>1. /\ \A e \in en : \A q \in DOMAIN m.devices : m.devices[q].id = e.id => m.devices[q].ip = e.ip
          /\ \A e \in en : e.id \in ak \ as => Knows(m, e.id)
        BY DEF Told, Kept
    <2>2. \A e \in en : e.id \in ak \ as2 => Knows(m, e.id) /\ Knows(w, e.id)
        BY <1>2, <2>1
    <2>3. \A e \in en : \A q \in DOMAIN w.devices : w.devices[q].id = e.id => w.devices[q].ip = e.ip
        BY <2>1
    <2> QED
        BY <2>1, <2>2, <2>3 DEF Kept
<1>4. KeyOnce(m, ak, en) /\ KeyOnce(w, ak, en)
    BY <1>1 DEF Told, KeyOnce, Live
<1> QED
    BY <1>3, <1>4 DEF Told

(* A key nobody used yet. *)
LEMMA NewKey ==
    ASSUME NEW m, NEW w, NEW ak, NEW en, NEW as, Told(m, ak, en, as),
           NEW k, \A e \in en : e.key # k,
           w.devices = m.devices, DOMAIN w.keys = DOMAIN m.keys \cup {k},
           \A j \in DOMAIN m.keys \ {k} : w.keys[j] = m.keys[j]
    PROVE  Told(w, ak, en, as)
<1>1. \A i : Knows(w, i) <=> Knows(m, i)
    BY DEF Knows
<1>2. Kept(w, ak, en, as)
    BY <1>1 DEF Told, Kept
<1>3. KeyOnce(w, ak, en)
    BY <1>1 DEF Told, KeyOnce, Live
<1> QED
    BY <1>2, <1>3 DEF Told

(* A machine is created with an id nobody has; the state m is the one before, w the
   one to save, in which the key is used. *)
LEMMA NewMachine ==
    ASSUME NEW m, NEW w, NEW ak, NEW en, NEW as, Told(m, ak, en, as),
           NEW new, new.id \notin ak, ~Knows(m, new.id), \A e \in en : e.id # new.id,
           NEW p, p \notin DOMAIN m.devices, DOMAIN w.devices = DOMAIN m.devices \cup {p},
           w.devices[p].id = new.id, w.devices[p].ip = new.ip,
           \A q \in DOMAIN m.devices : w.devices[q] = m.devices[q],
           DOMAIN w.keys = DOMAIN m.keys,
           \A k \in DOMAIN m.keys : /\ w.keys[k].reusable = m.keys[k].reusable
                                    /\ k # new.key => w.keys[k] = m.keys[k],
           new.key \in DOMAIN m.keys =>
               /\ m.keys[new.key].reusable \/ ~m.keys[new.key].used
               /\ w.keys[new.key].used
    PROVE  Told(m, ak, en \cup {new}, as) /\ Told(w, ak, en \cup {new}, as)
<1>1. \A i : Knows(w, i) <=> Knows(m, i) \/ i = new.id
    BY DEF Knows
<1>2. Kept(m, ak, en \cup {new}, as)
    BY DEF Told, Kept, Knows
<1>3. Kept(w, ak, en \cup {new}, as)
    <2>1. ASSUME NEW e \in en \cup {new}, NEW q \in DOMAIN w.devices, w.devices[q].id = e.id
          PROVE  w.devices[q].ip = e.ip
        BY <2>1 DEF Told, Kept, Knows
    <2>2. \A e \in en \cup {new} : e.id \in ak \ as => Knows(w, e.id)
        BY <1>1 DEF Told, Kept
    <2> QED
        BY <2>1, <2>2 DEF Kept
<1>4. /\ ~Live(m, ak, new)
      /\ \A e \in en : Live(w, ak, e) <=> Live(m, ak, e)
    BY <1>1 DEF Live
<1>5. KeyOnce(m, ak, en \cup {new})
    BY <1>4 DEF Told, KeyOnce
<1>6. KeyOnce(w, ak, en \cup {new})
    <2> SUFFICES ASSUME NEW k \in DOMAIN w.keys, ~w.keys[k].reusable
                 PROVE  /\ \A e \in en \cup {new} : e.key = k /\ Live(w, ak, e) => w.keys[k].used
                        /\ \A e, f \in en \cup {new} :
                              e.key = k /\ f.key = k /\ Live(w, ak, e) /\ Live(w, ak, f) => e = f
        BY DEF KeyOnce
    <2>1. k \in DOMAIN m.keys /\ ~m.keys[k].reusable
        OBVIOUS
    <2>2. /\ \A e \in en : e.key = k /\ Live(m, ak, e) => m.keys[k].used
          /\ \A e, f \in en :
                e.key = k /\ f.key = k /\ Live(m, ak, e) /\ Live(m, ak, f) => e = f
        BY <2>1 DEF Told, KeyOnce
    <2>3. CASE k = new.key
        <3>1. \A e \in en : e.key = k => ~Live(w, ak, e)
            BY <1>4, <2>1, <2>2, <2>3
        <3> QED
            BY <2>1, <2>3, <3>1
    <2>4. CASE k # new.key
        BY <1>4, <2>1, <2>2, <2>4
    <2> QED
        BY <2>3, <2>4
<1> QED
    BY <1>2, <1>3, <1>5, <1>6 DEF Told

(* A call that saves w: if no save failed so far, this one did not, and the server
   goes on from what it had or from what it saved. *)
LEMMA SaveOutcome ==
    ASSUME TypeOK, ToldInv, NEW w, Saved(w) \/ NotAnswered(w), failures' = 0
    PROVE  /\ failures = 0 /\ mem' = disk' /\ mem' \in {mem, w}
           /\ Told(mem, acked, enrolled, asked)
           /\ Saved(w) => mem' = w
<1>1. failures \in Nat
    BY BoundAssumption DEF TypeOK
<1>2. failures = 0 /\ ~SaveFailed(w)
    BY <1>1 DEF Saved, NotAnswered, SaveFailed, Interrupted
<1>3. mem = disk /\ Told(mem, acked, enrolled, asked)
    BY <1>2 DEF ToldInv
<1>4. CASE Saved(w)
    BY <1>2, <1>3, <1>4 DEF Saved
<1>5. CASE ~Saved(w) /\ Interrupted(w)
    BY <1>2, <1>3, <1>5 DEF Interrupted
<1> QED
    BY <1>2, <1>4, <1>5 DEF NotAnswered

LEMMA EmptyTold == Init => ToldInv
    BY DEF Init, ToldInv, Told, Kept, KeyOnce, EmptyState, Empty

(* The fields of the state, and the ids in it. *)
LEMMA MemFacts ==
    ASSUME IInv
    PROVE  /\ secrets \in Nat /\ IsStateFile(mem, secrets)
           /\ acked \subseteq 1 .. secrets
           /\ \A e \in enrolled : e.id \in 1 .. secrets /\ e.key \in 0 .. secrets
           /\ \A p \in DOMAIN mem.devices : mem.devices[p].id \in 1 .. secrets
<1>1. /\ secrets \in Nat /\ IsStateFile(mem, secrets) /\ acked \subseteq 1 .. secrets
      /\ \A e \in enrolled : e.id \in 1 .. secrets /\ e.key \in 0 .. secrets
    BY BoundAssumption DEF IInv, TypeOK
<1> QED
    BY <1>1, DeviceFacts

LEMMA CreateAuthKeyTold ==
    ASSUME IInv, ToldInv, NEW req \in KeyRequests, CreateAuthKeyFor(req)
    PROVE  ToldInv'
<1> SUFFICES ASSUME failures' = 0
             PROVE  mem' = disk' /\ Told(mem', acked', enrolled', asked')
    BY DEF ToldInv
<1> DEFINE rec == [owner |-> req.owner, reusable |-> req.reusable, used |-> FALSE,
                   expires |-> IF req.ttl > 0 THEN now + req.ttl ELSE 0]
<1>1. PICK k \in 1 .. MaxSecrets :
               Draw(k) /\ (Saved(WithKey(mem, k, rec)) \/ NotAnswered(WithKey(mem, k, rec)))
    BY DEF CreateAuthKeyFor
<1>2. UNCHANGED <<acked, enrolled, asked>>
    BY DEF CreateAuthKeyFor, history
<1>3. \A e \in enrolled : e.key # k
    BY <1>1, MemFacts DEF Draw
<1> HIDE DEF rec
<1> DEFINE w == WithKey(mem, k, rec)
<1>4. /\ w.devices = mem.devices /\ DOMAIN w.keys = DOMAIN mem.keys \cup {k}
      /\ \A j \in DOMAIN mem.keys \ {k} : w.keys[j] = mem.keys[j]
    BY MemFacts DEF IsStateFile, WithKey, Put
<1>5. Saved(w) \/ NotAnswered(w)
    BY <1>1
<1> HIDE DEF w
<1>6. mem' = disk' /\ mem' \in {mem, w} /\ Told(mem, acked, enrolled, asked)
    BY <1>5, SaveOutcome DEF IInv
<1>7. Told(w, acked, enrolled, asked)
    BY <1>3, <1>4, <1>6, NewKey
<1> QED
    BY <1>2, <1>6, <1>7

(* w is the state with one machine of it changed, but neither its id nor its
   address. *)
LEMMA ReplacedTold ==
    ASSUME IInv, NEW p \in DOMAIN mem.devices, NEW d,
           d.id = mem.devices[p].id, d.ip = mem.devices[p].ip
    PROVE  /\ \A ak, en, as : Told(mem, ak, en, as) => Told(WithDevice(mem, p, d), ak, en, as)
           /\ Knows(WithDevice(mem, p, d), d.id) /\ Knows(mem, d.id)
<1> DEFINE w == WithDevice(mem, p, d)
<1>1. /\ w.keys = mem.keys /\ DOMAIN w.devices = DOMAIN mem.devices \cup {p}
      /\ w.devices[p] = d
      /\ \A x \in DOMAIN mem.devices \ {p} : w.devices[x] = mem.devices[x]
    BY MemFacts DEF IsStateFile, WithDevice, Put
<1> HIDE DEF w
<1>2. /\ DOMAIN w.devices = DOMAIN mem.devices
      /\ \A x \in DOMAIN mem.devices :
            w.devices[x].id = mem.devices[x].id /\ w.devices[x].ip = mem.devices[x].ip
    BY <1>1
<1>3. \A ak, en, as : Told(mem, ak, en, as) => Told(w, ak, en, as)
    BY <1>1, <1>2, SameMachines
<1>4. Knows(w, d.id) /\ Knows(mem, d.id)
    BY <1>2 DEF Knows
<1> QED
    BY <1>3, <1>4 DEF w

LEMMA ReEnrolTold ==
    ASSUME IInv, ToldInv, NEW p \in DOMAIN mem.devices, NEW d,
           d.id = mem.devices[p].id, d.ip = mem.devices[p].ip, ReEnrol(p, d)
    PROVE  ToldInv'
<1> SUFFICES ASSUME failures' = 0
             PROVE  mem' = disk' /\ Told(mem', acked', enrolled', asked')
    BY DEF ToldInv
<1> DEFINE w == WithDevice(mem, p, d)
<1>1. /\ UNCHANGED <<enrolled, asked>> /\ acked' \in {acked, acked \cup {d.id}}
      /\ (UNCHANGED <<mem, disk, failures>>) \/ Saved(w) \/ NotAnswered(w)
    BY DEF ReEnrol, AnswerEnrolment
<1>2. /\ \A ak, en, as : Told(mem, ak, en, as) => Told(w, ak, en, as)
      /\ Knows(w, d.id) /\ Knows(mem, d.id)
    BY ReplacedTold
<1> HIDE DEF w
<1>3. mem' = disk' /\ mem' \in {mem, w} /\ Told(mem, acked, enrolled, asked)
    <2>1. CASE UNCHANGED <<mem, disk, failures>>
        BY <2>1 DEF ToldInv
    <2>2. CASE Saved(w) \/ NotAnswered(w)
        BY <2>2, SaveOutcome DEF IInv
    <2> QED
        BY <1>1, <2>1, <2>2
<1>4. Told(mem', acked, enrolled, asked) /\ Knows(mem', d.id)
    BY <1>2, <1>3
<1>5. Told(mem', acked', enrolled, asked)
    BY <1>1, <1>4, AnswerKnown
<1> QED
    BY <1>1, <1>3, <1>5

(* The rest of CreateDevice: m is the state in memory, with the key used. *)
LEMMA CreateDeviceTold ==
    ASSUME IInv, ToldInv, NEW v, NEW p, p \notin DOMAIN mem.devices,
           NEW name, NEW owner, NEW ip, NEW key,
           NEW m, IsStateFile(m, secrets), m.devices = mem.devices,
           DOMAIN m.keys = DOMAIN mem.keys,
           \A k \in DOMAIN mem.keys : /\ m.keys[k].reusable = mem.keys[k].reusable
                                      /\ k # key => m.keys[k] = mem.keys[k],
           key \in DOMAIN mem.keys =>
               /\ mem.keys[key].reusable \/ ~mem.keys[key].used
               /\ m.keys[key].used,
           CreateDevice(v, p, name, owner, ip, key, m)
    PROVE  ToldInv'
<1> SUFFICES ASSUME failures' = 0
             PROVE  mem' = disk' /\ Told(mem', acked', enrolled', asked')
    BY DEF ToldInv
<1> DEFINE d == NewDevice(v, name, owner, ip)
           w == WithDevice(m, p, d)
           new == [id |-> v, ip |-> ip, key |-> key]
<1>1. /\ v = secrets + 1 /\ enrolled' = enrolled \cup {new} /\ asked' = asked
      /\ \/ Saved(w) /\ acked' = acked \cup {v}
         \/ NotAnswered(w) /\ acked' = acked
    BY DEF CreateDevice, Draw, AnswerEnrolment
<1>2. d.id = v /\ d.ip = ip
    BY DEF NewDevice
<1> HIDE DEF d
<1>3. /\ w.keys = m.keys /\ DOMAIN w.devices = DOMAIN mem.devices \cup {p}
      /\ w.devices[p] = d
      /\ \A x \in DOMAIN mem.devices \ {p} : w.devices[x] = mem.devices[x]
    BY DEF IsStateFile, WithDevice, Put
<1> HIDE DEF w
<1>4. new.id = v /\ new.ip = ip /\ new.key = key
    OBVIOUS
<1> HIDE DEF new
<1>5. v \notin acked /\ ~Knows(mem, v) /\ \A e \in enrolled : e.id # v
    BY <1>1, MemFacts DEF Knows
<1>6. mem' = disk' /\ mem' \in {mem, w} /\ Told(mem, acked, enrolled, asked) /\ (Saved(w) => mem' = w)
    BY <1>1, SaveOutcome DEF IInv
<1>7. w.devices[p].id = new.id /\ w.devices[p].ip = new.ip
    BY <1>2, <1>3, <1>4
<1>8. \A x \in DOMAIN mem.devices : w.devices[x] = mem.devices[x]
    BY <1>3
<1>9. /\ DOMAIN w.keys = DOMAIN mem.keys
      /\ \A k \in DOMAIN mem.keys : /\ w.keys[k].reusable = mem.keys[k].reusable
                                    /\ k # new.key => w.keys[k] = mem.keys[k]
      /\ new.key \in DOMAIN mem.keys =>
             /\ mem.keys[new.key].reusable \/ ~mem.keys[new.key].used
             /\ w.keys[new.key].used
    BY <1>3, <1>4
<1>10. /\ Told(mem, acked, enrolled \cup {new}, asked)
       /\ Told(w, acked, enrolled \cup {new}, asked)
    BY <1>3, <1>4, <1>5, <1>6, <1>7, <1>8, <1>9, NewMachine
<1>11. CASE NotAnswered(w) /\ acked' = acked
    BY <1>1, <1>6, <1>10, <1>11
<1>12. CASE Saved(w) /\ acked' = acked \cup {v}
    <2>1. Knows(w, v)
        BY <1>3, <1>4, <1>7 DEF Knows
    <2>2. Told(w, acked \cup {v}, enrolled \cup {new}, asked)
        BY <1>10, <2>1, AnswerKnown
    <2> QED
        BY <1>1, <1>6, <1>12, <2>2
<1> QED
    BY <1>1, <1>11, <1>12

LEMMA RegisterTold ==
    ASSUME IInv, ToldInv, NEW p \in Pubs, NEW name \in Names, NEW k \in DOMAIN mem.keys,
           RegisterDevice(p, name, k)
    PROVE  ToldInv'
<1> DEFINE m == [mem EXCEPT !.keys[k].used = TRUE]
<1>1. PICK v \in 1 .. MaxSecrets, ip \in HostAddresses :
               CreateDevice(v, p, name, mem.keys[k].owner, ip, k, m)
    BY DEF RegisterDevice
<1>2. p \notin DOMAIN mem.devices /\ (mem.keys[k].reusable \/ ~mem.keys[k].used)
    BY DEF RegisterDevice, KeyValid
<1>3. /\ IsMap(mem.keys, 1 .. secrets, AuthKey) /\ mem = [devices |-> mem.devices, keys |-> mem.keys]
      /\ IsMap(mem.devices, Pubs, Device)
    BY MemFacts DEF IsStateFile
<1> DEFINE keys == [mem.keys EXCEPT ![k].used = TRUE]
<1>4. /\ DOMAIN keys = DOMAIN mem.keys /\ keys[k].used
      /\ \A j \in DOMAIN mem.keys : /\ keys[j].reusable = mem.keys[j].reusable
                                    /\ j # k => keys[j] = mem.keys[j]
    BY <1>3 DEF IsMap, AuthKey
<1>5. IsMap(keys, 1 .. secrets, AuthKey)
    BY <1>3 DEF IsMap, AuthKey
<1>6. m = [mem EXCEPT !.keys = keys]
    BY <1>3
<1> HIDE DEF m, keys
<1>7. m = [devices |-> mem.devices, keys |-> keys] /\ m.devices = mem.devices /\ m.keys = keys
    BY <1>3, <1>6
<1>8. IsStateFile(m, secrets)
    BY <1>3, <1>5, <1>7 DEF IsStateFile
<1> QED
    BY <1>1, <1>2, <1>4, <1>7, <1>8, CreateDeviceTold

LEMMA RegisterSSOTold ==
    ASSUME IInv, ToldInv, NEW p \in Pubs, NEW name \in Names, NEW owner \in Users,
           RegisterDeviceSSO(p, name, owner)
    PROVE  ToldInv'
<1>1. PICK v \in 1 .. MaxSecrets, ip \in HostAddresses :
               CreateDevice(v, p, name, owner, ip, NoKey, mem)
    BY DEF RegisterDeviceSSO
<1>2. p \notin DOMAIN mem.devices
    BY DEF RegisterDeviceSSO
<1>3. IsStateFile(mem, secrets) /\ NoKey \notin DOMAIN mem.keys
    BY MemFacts DEF IsStateFile, IsMap, NoKey
<1> QED
    BY <1>1, <1>2, <1>3, CreateDeviceTold

LEMMA RevokeTold ==
    ASSUME IInv, ToldInv, NEW p \in DOMAIN mem.devices, Revoke(p)
    PROVE  ToldInv'
<1> SUFFICES ASSUME failures' = 0
             PROVE  mem' = disk' /\ Told(mem', acked', enrolled', asked')
    BY DEF ToldInv
<1> DEFINE w == WithoutDevice(mem, p)
<1>1. /\ UNCHANGED <<enrolled, acked>> /\ asked' = asked \cup {mem.devices[p].id}
      /\ Saved(w) \/ NotAnswered(w)
    BY DEF Revoke
<1>2. /\ w.keys = mem.keys /\ DOMAIN w.devices = DOMAIN mem.devices \ {p}
      /\ \A x \in DOMAIN w.devices : w.devices[x] = mem.devices[x]
    BY MemFacts DEF IsStateFile, WithoutDevice, Delete
<1> HIDE DEF w
<1>3. mem' = disk' /\ mem' \in {mem, w} /\ Told(mem, acked, enrolled, asked)
    BY <1>1, SaveOutcome DEF IInv
<1>4. Told(mem, acked, enrolled, asked \cup {mem.devices[p].id})
      /\ Told(w, acked, enrolled, asked \cup {mem.devices[p].id})
    BY <1>2, <1>3, AskRevocation
<1> QED
    BY <1>1, <1>3, <1>4

(* A call that saves the state with a machine changed, and tells nothing. *)
LEMMA SilentTold ==
    ASSUME IInv, ToldInv, UNCHANGED <<acked, enrolled, asked>>,
           NEW w, Saved(w) \/ NotAnswered(w),
           \A ak, en, as : Told(mem, ak, en, as) => Told(w, ak, en, as)
    PROVE  ToldInv'
<1> SUFFICES ASSUME failures' = 0
             PROVE  mem' = disk' /\ Told(mem', acked', enrolled', asked')
    BY DEF ToldInv
<1>1. mem' = disk' /\ mem' \in {mem, w} /\ Told(mem, acked, enrolled, asked)
    BY SaveOutcome DEF IInv
<1> QED
    BY <1>1

LEMMA RotateTold ==
    ASSUME IInv, ToldInv, NEW p \in Pubs, RotateTokenIfDue(p)
    PROVE  ToldInv'
<1> DEFINE d == mem.devices[p]
<1>1. p \in DOMAIN mem.devices /\ UNCHANGED <<acked, enrolled, asked>>
    BY DEF RotateTokenIfDue
<1>2. PICK t \in 1 .. MaxSecrets :
              LET m == WithDevice(mem, p, Rotate(d, t, now)) IN Saved(m) \/ NotAnswered(m)
    BY DEF RotateTokenIfDue
<1>3. d \in Device /\ t \in Nat /\ now \in Nat
    BY <1>1, DeviceFacts, BoundAssumption DEF IInv, TypeOK
<1> HIDE DEF d
<1> DEFINE e == Rotate(d, t, now)
<1>4. e.id = d.id /\ e.ip = d.ip
    BY <1>3, RotateDevice, Zenon
<1>5. Saved(WithDevice(mem, p, e)) \/ NotAnswered(WithDevice(mem, p, e))
    BY <1>2
<1> HIDE DEF e
<1>6. \A ak, en, as : Told(mem, ak, en, as) => Told(WithDevice(mem, p, e), ak, en, as)
    BY <1>1, <1>4, ReplacedTold DEF d
<1> QED
    BY <1>1, <1>5, <1>6, SilentTold

LEMMA NextTold ==
    ASSUME IInv, ToldInv, [Next]_vars
    PROVE  ToldInv'
<1>1. CASE \E req \in KeyRequests : CreateAuthKeyFor(req)
    BY <1>1, CreateAuthKeyTold
<1>2. ASSUME NEW p \in Pubs, NEW name \in Names, NEW owner \in Owner,
             ReRegisterDevice(p, name) \/ ReRegisterDeviceSSO(p, name, owner)
      PROVE  ToldInv'
    <2>1. p \in DOMAIN mem.devices
        BY <1>2 DEF ReRegisterDevice, ReRegisterDeviceSSO
    <2>2. PICK d : /\ ReEnrol(p, d)
                   /\ d \in {[mem.devices[p] EXCEPT !.hostname = name],
                             [mem.devices[p] EXCEPT !.hostname = name, !.owner = owner]}
        BY <1>2 DEF ReRegisterDevice, ReRegisterDeviceSSO
    <2>3. mem.devices[p] \in Device
        BY <2>1, DeviceFacts
    <2>4. d.id = mem.devices[p].id /\ d.ip = mem.devices[p].ip
        BY <2>2, <2>3 DEF Device
    <2> QED
        BY <2>1, <2>2, <2>4, ReEnrolTold
<1>3. CASE \E p \in Pubs, name \in Names, k \in DOMAIN mem.keys : RegisterDevice(p, name, k)
    BY <1>3, RegisterTold
<1>4. CASE \E p \in Pubs, name \in Names, owner \in Users : RegisterDeviceSSO(p, name, owner)
    BY <1>4, RegisterSSOTold
<1>5. CASE \/ \E p \in Pubs : RemoveDevice(p)
           \/ \E p \in Pubs, owner \in Users : RemoveOwnedDevice(owner, p)
    BY <1>5, RevokeTold DEF RemoveDevice, RemoveOwnedDevice
<1>6. CASE \E p \in Pubs : RotateTokenIfDue(p)
    BY <1>6, RotateTold
<1>7. CASE \E p \in Pubs : TouchDevice(p)
    BY <1>7, SilentTold DEF TouchDevice, history
<1>8. CASE Restart
    <2>1. mem' = disk /\ UNCHANGED <<disk, failures, acked, enrolled, asked>>
        BY <1>8 DEF Restart, history
    <2> QED
        BY <2>1 DEF ToldInv
<1>9. CASE UNCHANGED <<mem, disk, failures, acked, enrolled, asked>>
    BY <1>9 DEF ToldInv
<1>10. CASE Tick \/ UNCHANGED vars
    BY <1>9, <1>10 DEF Tick, vars, state, history
<1>11. CASE \/ \E p \in Pubs, name \in Names : ReRegisterDevice(p, name)
            \/ \E p \in Pubs, name \in Names, owner \in Users : ReRegisterDeviceSSO(p, name, owner)
    BY <1>2, <1>11 DEF Owner
<1> QED
    BY <1>1, <1>3, <1>4, <1>5, <1>6, <1>7, <1>8, <1>10, <1>11 DEF Next

LEMMA ToldInvariance == Spec => []ToldInv
<1>1. IInv /\ ToldInv /\ [Next]_vars => ToldInv'
    BY NextTold
<1> QED
    BY <1>1, EmptyTold, Invariance, PTL DEF Spec

(* What the server confirmed, it keeps: as long as no save fails, a machine whose
   enrolment was answered and whose revocation nobody asked for is known under its
   id and its address, whichever calls were interrupted and however often the
   server was started again. *)
THEOREM EnrolmentKept == Spec => []EnrolmentDurable
<1>1. ToldInv => EnrolmentDurable
    BY DEF ToldInv, Told, Kept, Knows, EnrolmentDurable
<1> QED
    BY <1>1, ToldInvariance, PTL

(* A key for one machine gets one machine an answer: as long as no save fails, a
   machine that lives by the key, even one whose enrolment was interrupted before
   the answer, has marked it as used in the same save. *)
THEOREM KeyUsedOnce == Spec => []SingleUse
<1>1. ToldInv => SingleUse
    BY DEF ToldInv, Told, KeyOnce, Live, SingleUse
<1> QED
    BY <1>1, ToldInvariance, PTL

-----------------------------------------------------------------------------
(* Leases *)

Lease(d) == [id |-> d.id, ip |-> d.ip]

(* The leases of a state with one machine more, the same machines, or one fewer. *)
LEMMA LeaseAdded ==
    ASSUME NEW m, NEW n, IsStateFile(m, n), NEW p, NEW d
    PROVE  LeasesOf(WithDevice(m, p, d)) = L!Put(LeasesOf(m), p, Lease(d))
<1> DEFINE w == WithDevice(m, p, d)
<1>1. /\ DOMAIN w.devices = DOMAIN m.devices \cup {p}
      /\ w.devices[p] = d
      /\ \A x \in DOMAIN m.devices \ {p} : w.devices[x] = m.devices[x]
    BY DEF IsStateFile, WithDevice, Put
<1> HIDE DEF w
<1>2. LeasesOf(w) = L!Put(LeasesOf(m), p, Lease(d))
    BY <1>1 DEF LeasesOf, L!Put, Lease
<1> QED
    BY <1>2 DEF w

LEMMA LeaseKept ==
    ASSUME NEW m, NEW w, DOMAIN w.devices = DOMAIN m.devices,
           \A x \in DOMAIN m.devices : /\ w.devices[x].id = m.devices[x].id
                                       /\ w.devices[x].ip = m.devices[x].ip
    PROVE  LeasesOf(w) = LeasesOf(m)
BY DEF LeasesOf

LEMMA LeaseRemoved ==
    ASSUME NEW m, NEW n, IsStateFile(m, n), NEW p
    PROVE  LeasesOf(WithoutDevice(m, p)) = L!Delete(LeasesOf(m), p)
<1> DEFINE w == WithoutDevice(m, p)
<1>1. /\ DOMAIN w.devices = DOMAIN m.devices \ {p}
      /\ \A x \in DOMAIN m.devices \ {p} : w.devices[x] = m.devices[x]
    BY DEF IsStateFile, WithoutDevice, Delete
<1> HIDE DEF w
<1>2. LeasesOf(w) = L!Delete(LeasesOf(m), p)
    BY <1>1 DEF LeasesOf, L!Delete
<1> QED
    BY <1>2 DEF w

(* Whatever becomes of a save, the table of leases makes the same step. *)
LEMMA SaveCommits ==
    ASSUME NEW w, Saved(w) \/ NotAnswered(w)
    PROVE  L!Commit(LeasesOf(w))
<1>1. CASE mem' = w /\ disk' \in {disk, w}
    BY <1>1, Zenon DEF L!Commit
<1>2. CASE mem' = disk /\ disk' = disk
    BY <1>2 DEF L!Commit
<1>3. \/ mem' = w /\ disk' \in {disk, w}
      \/ mem' = disk /\ disk' = disk
    BY DEF Saved, NotAnswered, SaveFailed, Interrupted
<1> QED
    BY <1>1, <1>2, <1>3

(* A call that leaves ids and addresses as they are. *)
LEMMA KeepLeases ==
    ASSUME NEW w, Saved(w) \/ NotAnswered(w), LeasesOf(w) = LeasesOf(mem), UNCHANGED enrolled
    PROVE  L!Next
<1>1. L!Commit(LeasesOf(mem))
    BY SaveCommits
<1> QED
    BY <1>1 DEF L!Next, L!Keep

LEMMA ReEnrolLeases ==
    ASSUME IInv, NEW p \in DOMAIN mem.devices, NEW d,
           d.id = mem.devices[p].id, d.ip = mem.devices[p].ip, ReEnrol(p, d)
    PROVE  [L!Next]_(L!vars)
<1>1. CASE UNCHANGED <<mem, disk, enrolled>>
    BY <1>1 DEF L!vars
<1>2. CASE AnswerEnrolment(WithDevice(mem, p, d), d.id) /\ UNCHANGED enrolled
    <2> DEFINE w == WithDevice(mem, p, d)
    <2>1. /\ DOMAIN w.devices = DOMAIN mem.devices /\ w.devices[p] = d
          /\ \A x \in DOMAIN mem.devices \ {p} : w.devices[x] = mem.devices[x]
        BY DEF IInv, TypeOK, IsStateFile, WithDevice, Put
    <2>2. Saved(w) \/ NotAnswered(w)
        BY <1>2 DEF AnswerEnrolment
    <2> HIDE DEF w
    <2>3. LeasesOf(w) = LeasesOf(mem)
        BY <2>1, LeaseKept
    <2> QED
        BY <1>2, <2>2, <2>3, KeepLeases
<1> QED
    BY <1>1, <1>2 DEF ReEnrol

(* A new machine gets a fresh id and an address that no machine in memory has. *)
LEMMA CreateDeviceLeases ==
    ASSUME IInv, NEW v \in 1 .. MaxSecrets, NEW p \in Pubs \ DOMAIN mem.devices, NEW name,
           NEW owner, NEW ip \in HostAddresses, NEW key, NEW m, IsStateFile(m, secrets),
           m.devices = mem.devices, CreateDevice(v, p, name, owner, ip, key, m)
    PROVE  L!Next
<1> DEFINE d == NewDevice(v, name, owner, ip)
           w == WithDevice(m, p, d)
<1>1. Lease(d) = [id |-> v, ip |-> ip]
    BY DEF NewDevice, Lease
<1>2. LeasesOf(m) = LeasesOf(mem)
    BY DEF LeasesOf
<1> HIDE DEF d
<1>3. LeasesOf(w) = L!Put(LeasesOf(mem), p, [id |-> v, ip |-> ip])
    BY <1>1, <1>2, LeaseAdded
<1>4. Saved(w) \/ NotAnswered(w)
    BY DEF CreateDevice, AnswerEnrolment, d
<1> HIDE DEF w
<1>5. L!Commit(L!Put(LeasesOf(mem), p, [id |-> v, ip |-> ip]))
    BY <1>3, <1>4, SaveCommits
<1>6. p \notin DOMAIN LeasesOf(mem)
    BY DEF LeasesOf
<1>7. \A q \in DOMAIN LeasesOf(mem) : LeasesOf(mem)[q].ip # ip
    BY DEF LeasesOf, CreateDevice, FirstFree
<1>8. v \notin {e.id : e \in enrolled}
    <2>1. v = secrets + 1 /\ secrets \in Nat /\ \A e \in enrolled : e.id \in 1 .. secrets
        BY MemFacts DEF CreateDevice, Draw
    <2> QED
        BY <2>1
<1>9. {e.id : e \in enrolled}' = {e.id : e \in enrolled} \cup {v}
    <2> DEFINE x == [id |-> v, ip |-> ip, key |-> key]
    <2>1. enrolled' = enrolled \cup {x} /\ x.id = v
        BY DEF CreateDevice
    <2> HIDE DEF x
    <2> QED
        BY <2>1
<1>10. L!Grant(p, v, ip)
    BY <1>5, <1>6, <1>7, <1>8, <1>9 DEF L!Grant
<1> QED
    BY <1>10 DEF L!Next

LEMMA RevokeLeases ==
    ASSUME IInv, NEW p \in Pubs, p \in DOMAIN mem.devices, Revoke(p)
    PROVE  L!Next
<1> DEFINE w == WithoutDevice(mem, p)
<1>1. (Saved(w) \/ NotAnswered(w)) /\ UNCHANGED enrolled
    BY DEF Revoke
<1>2. LeasesOf(w) = L!Delete(LeasesOf(mem), p)
    BY MemFacts, LeaseRemoved
<1> HIDE DEF w
<1>3. L!Commit(L!Delete(LeasesOf(mem), p))
    BY <1>1, <1>2, SaveCommits
<1>4. p \in DOMAIN LeasesOf(mem)
    BY DEF LeasesOf
<1>5. L!Withdraw(p)
    BY <1>1, <1>3, <1>4 DEF L!Withdraw
<1> QED
    BY <1>5 DEF L!Next

LEMMA RotateLeases ==
    ASSUME IInv, NEW p \in Pubs, RotateTokenIfDue(p)
    PROVE  L!Next
<1> DEFINE d == mem.devices[p]
<1>1. PICK t \in 1 .. MaxSecrets :
          LET m == WithDevice(mem, p, Rotate(d, t, now)) IN Saved(m) \/ NotAnswered(m)
    BY DEF RotateTokenIfDue
<1> DEFINE r == Rotate(d, t, now)
           w == WithDevice(mem, p, r)
<1>2. p \in DOMAIN mem.devices /\ UNCHANGED enrolled
    BY DEF RotateTokenIfDue
<1>3. r.id = d.id /\ r.ip = d.ip
    <2>1. d \in Device /\ t \in Nat /\ now \in Nat
        BY <1>2, BoundAssumption, DeviceFacts DEF IInv, TypeOK
    <2> HIDE DEF d
    <2> QED
        BY <2>1, RotateDevice, Zenon
<1> HIDE DEF r
<1>4. /\ DOMAIN w.devices = DOMAIN mem.devices /\ w.devices[p] = r
      /\ \A x \in DOMAIN mem.devices \ {p} : w.devices[x] = mem.devices[x]
    BY <1>2 DEF IInv, TypeOK, IsStateFile, WithDevice, Put
<1>5. Saved(w) \/ NotAnswered(w)
    BY <1>1 DEF r
<1> HIDE DEF w
<1>6. LeasesOf(w) = LeasesOf(mem)
    BY <1>3, <1>4, LeaseKept
<1> QED
    BY <1>2, <1>5, <1>6, KeepLeases

LEMMA RegisterLeases ==
    ASSUME IInv, NEW p \in Pubs, NEW name \in Names, NEW k \in DOMAIN mem.keys,
           RegisterDevice(p, name, k)
    PROVE  L!Next
<1> DEFINE m == [mem EXCEPT !.keys[k].used = TRUE]
           keys == [mem.keys EXCEPT ![k].used = TRUE]
<1>1. PICK v \in 1 .. MaxSecrets, ip \in HostAddresses :
               CreateDevice(v, p, name, mem.keys[k].owner, ip, k, m)
    BY DEF RegisterDevice
<1>2. /\ IsStateFile(mem, secrets) /\ IsMap(mem.keys, 1 .. secrets, AuthKey)
      /\ mem = [devices |-> mem.devices, keys |-> mem.keys]
    BY DEF IInv, TypeOK, IsStateFile
<1>3. IsMap(keys, 1 .. secrets, AuthKey)
    BY <1>2 DEF IsMap, AuthKey
<1>4. m = [mem EXCEPT !.keys = keys] /\ m.devices = mem.devices
    BY <1>2
<1>5. p \in Pubs \ DOMAIN mem.devices
    BY DEF RegisterDevice
<1> HIDE DEF m, keys
<1>6. m.keys = keys /\ m = [devices |-> m.devices, keys |-> m.keys]
    BY <1>2, <1>4
<1>7. IsStateFile(m, secrets)
    BY <1>2, <1>3, <1>4, <1>6 DEF IsStateFile
<1> QED
    BY <1>1, <1>4, <1>5, <1>7, CreateDeviceLeases

(* Every step of the store is a step of the table of leases, or none. *)
LEMMA NextLeases ==
    ASSUME IInv, [Next]_vars
    PROVE  [L!Next]_(L!vars)
<1>1. CASE \E req \in KeyRequests : CreateAuthKeyFor(req)
    <2>1. PICK k, rec : Saved(WithKey(mem, k, rec)) \/ NotAnswered(WithKey(mem, k, rec))
        BY <1>1 DEF CreateAuthKeyFor
    <2> DEFINE w == WithKey(mem, k, rec)
    <2>2. w.devices = mem.devices
        BY DEF IInv, TypeOK, IsStateFile, WithKey
    <2>3. UNCHANGED enrolled
        BY <1>1 DEF CreateAuthKeyFor, history
    <2> HIDE DEF w
    <2>4. LeasesOf(w) = LeasesOf(mem)
        BY <2>2 DEF LeasesOf
    <2>5. Saved(w) \/ NotAnswered(w)
        BY <2>1 DEF w
    <2> QED
        BY <2>3, <2>4, <2>5, KeepLeases
<1>2. CASE \/ \E p \in Pubs, name \in Names : ReRegisterDevice(p, name)
           \/ \E p \in Pubs, name \in Names, owner \in Users :
                  ReRegisterDeviceSSO(p, name, owner)
    <2>1. PICK p, name, owner :
              /\ p \in Pubs
              /\ ReRegisterDevice(p, name) \/ ReRegisterDeviceSSO(p, name, owner)
        BY <1>2
    <2>2. PICK d : /\ ReEnrol(p, d)
                   /\ d \in {[mem.devices[p] EXCEPT !.hostname = name],
                             [mem.devices[p] EXCEPT !.hostname = name, !.owner = owner]}
        BY <2>1 DEF ReRegisterDevice, ReRegisterDeviceSSO
    <2>3. p \in DOMAIN mem.devices
        BY <2>1 DEF ReRegisterDevice, ReRegisterDeviceSSO
    <2>4. mem.devices[p] \in Device
        BY <2>3, DeviceFacts
    <2>5. d.id = mem.devices[p].id /\ d.ip = mem.devices[p].ip
        BY <2>2, <2>4 DEF Device
    <2> QED
        BY <2>2, <2>3, <2>5, ReEnrolLeases
<1>3. CASE \E p \in Pubs, name \in Names, k \in DOMAIN mem.keys : RegisterDevice(p, name, k)
    BY <1>3, RegisterLeases
<1>4. CASE \E p \in Pubs, name \in Names, owner \in Users : RegisterDeviceSSO(p, name, owner)
    <2>1. PICK p \in Pubs \ DOMAIN mem.devices, name \in Names, owner \in Users,
               v \in 1 .. MaxSecrets, ip \in HostAddresses :
              CreateDevice(v, p, name, owner, ip, NoKey, mem)
        BY <1>4 DEF RegisterDeviceSSO
    <2>2. IsStateFile(mem, secrets)
        BY DEF IInv, TypeOK
    <2> QED
        BY <2>1, <2>2, CreateDeviceLeases
<1>5. CASE \/ \E p \in Pubs : RemoveDevice(p)
           \/ \E p \in Pubs, owner \in Users : RemoveOwnedDevice(owner, p)
    BY <1>5, RevokeLeases DEF RemoveDevice, RemoveOwnedDevice
<1>6. CASE \E p \in Pubs : RotateTokenIfDue(p)
    BY <1>6, RotateLeases
<1>7. CASE \E p \in Pubs : TouchDevice(p)
    <2>1. (Saved(mem) \/ NotAnswered(mem)) /\ UNCHANGED enrolled
        BY <1>7 DEF TouchDevice, history
    <2> QED
        BY <2>1, KeepLeases
<1>8. CASE Restart
    BY <1>8 DEF Restart, history, L!Next, L!Keep, L!Commit
<1>9. CASE Tick \/ UNCHANGED vars
    <2>1. UNCHANGED <<mem, disk, enrolled>>
        BY <1>9 DEF Tick, vars, state, history
    <2> QED
        BY <2>1 DEF L!vars
<1> QED
    BY <1>1, <1>2, <1>3, <1>4, <1>5, <1>6, <1>7, <1>8, <1>9 DEF Next

(* The store implements Leases: whichever saves fail and wherever the process dies, a
   machine has one id and one address from its enrolment to its revocation, ids are
   never given again, an address in use never is, and a restart brings back exactly
   what was saved. *)
THEOREM Refinement == Spec => ImplementsLeases
<1>1. Init => L!Init
    BY DEF Init, EmptyState, LeasesOf, Empty, L!Init, L!Empty
<1>2. IInv /\ [Next]_vars => [L!Next]_(L!vars)
    BY NextLeases
<1> QED
    BY <1>1, <1>2, Invariance, PTL DEF Spec, ImplementsLeases, L!Spec
=============================================================================
