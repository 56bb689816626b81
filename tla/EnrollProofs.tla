---------------------------- MODULE EnrollProofs ----------------------------
(* Type correctness of the module Enroll, the tokens that agents get, the owners
   of the machines, the life of sessions and of their links, for any number of
   attempts, tabs and users. *)
EXTENDS Enroll, TLAPS

-----------------------------------------------------------------------------
(* Maps *)

LEMMA PutType ==
    ASSUME NEW S, NEW T, NEW f, IsMap(f, S, T), NEW x \in S, NEW v \in T
    PROVE  IsMap(Put(f, x, v), S, T)
BY DEF IsMap, Put

LEMMA DeleteType ==
    ASSUME NEW S, NEW T, NEW f, IsMap(f, S, T), NEW x
    PROVE  IsMap(Delete(f, x), S, T)
BY DEF IsMap, Delete

LEMMA EmptyType == ASSUME NEW S, NEW T PROVE IsMap(Empty, S, T)
BY DEF IsMap, Empty

LEMMA ExceptType ==
    ASSUME NEW S, NEW T, NEW f, IsMap(f, S, T), NEW x \in DOMAIN f, NEW v \in T
    PROVE  IsMap([f EXCEPT ![x] = v], S, T)
BY DEF IsMap

-----------------------------------------------------------------------------
(* Types *)

LEMMA PrunedType == ASSUME TypeOK PROVE IsMap(Pruned, Attempts, Session)
BY DEF TypeOK, IsMap, Pruned

LEMMA FailType ==
    ASSUME TypeOK, NEW t \in DOMAIN tabs, Fail(t)
    PROVE  IsMap(sessions', Attempts, Session) /\ IsMap(tabs', Tabs, Request)
<1> DEFINE a == tabs[t].of
           failed == [sessions[a] EXCEPT !.failure = TRUE]
<1>1. IsMap(tabs', Tabs, Request)
  BY DeleteType DEF TypeOK, Fail, CloseTab
<1>2. CASE a \in DOMAIN sessions
  <2>1. sessions' = [sessions EXCEPT ![a] = failed]
    BY <1>2 DEF Fail
  <2>2. failed \in Session
    BY <1>2 DEF TypeOK, IsMap, Session
  <2>3. IsMap(sessions, Attempts, Session)
    BY DEF TypeOK
  <2> HIDE DEF a, failed
  <2> QED
    BY <2>1, <2>2, <2>3, <1>1, <1>2, ExceptType
<1>3. CASE a \notin DOMAIN sessions
  BY <1>1, <1>3 DEF TypeOK, Fail
<1> QED
  BY <1>2, <1>3

LEMMA GoToType ==
    ASSUME TypeOK, NEW t \in DOMAIN tabs,
           NEW where \in {"signing", "exchange", "register", "approve"}, GoTo(t, where)
    PROVE  IsMap(tabs', Tabs, Request)
<1>1. [tabs[t] EXCEPT !.at = where] \in Request
  BY DEF TypeOK, IsMap, Request
<1> QED
  BY <1>1, ExceptType DEF TypeOK, GoTo

LEMMA RegisteredType ==
    ASSUME TypeOK, NEW a \in Attempts, NEW u \in Users
    PROVE  /\ Registered(a, u) \in Device
           /\ Registered(a, u).owner = u
           /\ a \in DOMAIN devices => Registered(a, u).token = devices[a].token
<1>1. CASE a \in DOMAIN devices
  BY <1>1 DEF TypeOK, IsMap, Device, Registered
<1>2. CASE a \notin DOMAIN devices
  BY <1>2 DEF TypeOK, Device, Registered, NoToken
<1> QED
  BY <1>1, <1>2

LEMMA TypeOKInit == Init => TypeOK
<1> SUFFICES ASSUME Init PROVE TypeOK
  OBVIOUS
<1>1. /\ IsMap(sessions, Attempts, Session) /\ IsMap(tabs, Tabs, Request)
      /\ IsMap(devices, Attempts, Device) /\ IsMap(disk, Attempts, Device)
  BY EmptyType DEF Init
<1>2. /\ age \in [Attempts -> 0 .. TTL + 1] /\ restarts \in Nat
      /\ failedSaves \in Nat /\ revocations \in Nat
  BY NumbersAssumption DEF Init
<1> QED
  BY <1>1, <1>2 DEF Init, TypeOK, NoToken

LEMMA TypeOKStep == ASSUME TypeOK, [Next]_vars PROVE TypeOK'
<1> USE NumbersAssumption
<1>1. ASSUME NEW a \in Attempts, EnrollStart(a)
      PROVE  TypeOK'
  <2>1. [approved |-> FALSE, failure |-> FALSE, result |-> NoToken] \in Session
    BY DEF Session, NoToken
  <2>2. IsMap(sessions', Attempts, Session)
    BY <1>1, <2>1, PrunedType, PutType DEF EnrollStart
  <2> QED
    BY <1>1, <2>2 DEF EnrollStart, TypeOK, store
<1>2. ASSUME NEW a \in Attempts, EnrollWait(a) \/ WaitBroken(a)
      PROVE  TypeOK'
  <2>1. CASE WaitEnrolled(a)
    <3>1. sessions[a].result \in Nat
      BY <2>1 DEF WaitEnrolled, TypeOK, IsMap, Session
    <3> QED
      BY <2>1, <3>1 DEF WaitEnrolled, AgentEnds, TypeOK, store
  <2>2. CASE WaitUnknown(a) \/ WaitRefused(a) \/ WaitBroken(a)
    BY <2>2 DEF WaitUnknown, WaitRefused, WaitBroken, AgentEnds, TypeOK, store
  <2> QED
    BY <1>2, <2>1, <2>2 DEF EnrollWait
<1>3. ASSUME NEW a \in Attempts, Revoke(a)
      PROVE  TypeOK'
  <2>1. IsMap(devices', Attempts, Device) /\ IsMap(disk', Attempts, Device)
    BY <1>3, DeleteType DEF Revoke, TypeOK
  <2>2. devices[a].token \in Nat
    BY <1>3 DEF Revoke, TypeOK, IsMap, Device
  <2>3. revocations' \in Nat /\ revoked' \subseteq Nat
    <3>1. revocations \in Nat /\ revoked \subseteq Nat
      BY DEF TypeOK
    <3>2. revocations' = revocations + 1 /\ revoked' = revoked \cup {devices[a].token}
      BY <1>3 DEF Revoke
    <3>3. revocations' \in Nat
      BY <3>1, <3>2
    <3> QED
      BY <2>2, <3>1, <3>2, <3>3
  <2> QED
    BY <1>3, <2>1, <2>3 DEF Revoke, TypeOK, client
<1>4. ASSUME NEW t \in Tabs, NEW a \in Attempts, EnrollRedirect(t, a)
      PROVE  TypeOK'
  <2>1. PICK u \in Users :
            tabs' = Put(tabs, t, [at |-> "signing", of |-> a, user |-> u, token |-> NoToken])
    BY <1>4 DEF EnrollRedirect
  <2>2. [at |-> "signing", of |-> a, user |-> u, token |-> NoToken] \in Request
    BY DEF Request, NoToken
  <2>3. IsMap(tabs', Tabs, Request)
    BY <2>1, <2>2, PutType DEF TypeOK
  <2> QED
    BY <1>4, <2>3 DEF EnrollRedirect, TypeOK, store, client
<1>5. ASSUME NEW t \in Tabs, Callback(t) \/ SignInAccepted(t) \/ Abandon(t)
      PROVE  TypeOK'
  <2>1. t \in DOMAIN tabs /\ (GoTo(t, "exchange") \/ GoTo(t, "register") \/ CloseTab(t))
    BY <1>5 DEF Callback, SignInAccepted, Abandon
  <2>2. IsMap(tabs', Tabs, Request)
    BY <2>1, GoToType, DeleteType DEF CloseTab, TypeOK
  <2> QED
    BY <1>5, <2>2 DEF Callback, SignInAccepted, Abandon, TypeOK, store, client
<1>6. ASSUME NEW t \in Tabs, SignInRefused(t)
      PROVE  TypeOK'
  BY <1>6, FailType DEF SignInRefused, TypeOK, store, client
<1>7. ASSUME NEW t \in Tabs, RegisterDeviceSSO(t) \/ RegisterUnsaved(t)
      PROVE  TypeOK'
  <2> DEFINE a == tabs[t].of
             d == Registered(a, tabs[t].user)
  <2>1. t \in DOMAIN tabs /\ tabs[t] \in Request
    BY <1>7 DEF RegisterDeviceSSO, RegisterUnsaved, TypeOK, IsMap
  <2>2. a \in Attempts /\ tabs[t].user \in Users
    BY <2>1 DEF Request
  <2>3. d \in Device
    BY <2>2, RegisteredType
  <2>4. IsMap(Put(devices, a, d), Attempts, Device)
    BY <2>2, <2>3, PutType DEF TypeOK
  <2>5. IsMap(devices', Attempts, Device) /\ IsMap(disk', Attempts, Device) /\ drawn' \in Nat
    BY <1>7, <2>4 DEF RegisterDeviceSSO, RegisterUnsaved, TypeOK
  <2>6. CASE RegisterDeviceSSO(t)
    <3>1. [tabs[t] EXCEPT !.at = "approve", !.token = d.token] \in Request
      BY <2>1, <2>3 DEF Request, Device
    <3>2. tabs' = [tabs EXCEPT ![t] = [tabs[t] EXCEPT !.at = "approve", !.token = d.token]]
      BY <2>6 DEF RegisterDeviceSSO
    <3>3. IsMap(tabs', Tabs, Request)
      BY <2>1, <3>1, <3>2, ExceptType DEF TypeOK
    <3> QED
      BY <2>5, <2>6, <3>3 DEF RegisterDeviceSSO, TypeOK, client
  <2>7. CASE RegisterUnsaved(t)
    <3>1. IsMap(sessions', Attempts, Session) /\ IsMap(tabs', Tabs, Request)
      BY <2>1, <2>7, FailType DEF RegisterUnsaved
    <3> QED
      BY <2>5, <2>7, <3>1 DEF RegisterUnsaved, TypeOK, client
  <2> QED
    BY <1>7, <2>6, <2>7
<1>8. ASSUME NEW t \in Tabs, Approve(t)
      PROVE  TypeOK'
  <2> DEFINE a == tabs[t].of
             ok == [sessions[a] EXCEPT !.approved = TRUE, !.result = tabs[t].token]
  <2>1. t \in DOMAIN tabs /\ tabs[t] \in Request
    BY <1>8 DEF Approve, TypeOK, IsMap
  <2>2. IsMap(tabs', Tabs, Request)
    BY <1>8, DeleteType DEF Approve, CloseTab, TypeOK
  <2>3. CASE a \in DOMAIN sessions
    <3>1. ok \in Session
      <4>1. sessions[a] \in Session
        BY <2>3 DEF TypeOK, IsMap
      <4>2. tabs[t].token \in Nat
        BY <2>1 DEF Request
      <4> QED
        BY <4>1, <4>2 DEF Session
    <3>2. sessions' = [sessions EXCEPT ![a] = ok]
      BY <1>8, <2>3 DEF Approve
    <3>3. IsMap(sessions, Attempts, Session)
      BY DEF TypeOK
    <3>4. IsMap(sessions', Attempts, Session)
      <4> HIDE DEF a, ok
      <4> QED
        BY <2>3, <3>1, <3>2, <3>3, ExceptType
    <3> QED
      BY <1>8, <2>1, <2>2, <3>4 DEF Approve, Request, TypeOK, store, client
  <2>4. CASE a \notin DOMAIN sessions
    BY <1>8, <2>1, <2>2, <2>4 DEF Approve, Request, TypeOK, store, client
  <2> QED
    BY <2>3, <2>4
<1>9. CASE Restart
  BY <1>9, EmptyType DEF Restart, TypeOK, client
<1>10. CASE Tick
  BY <1>10 DEF Tick, Expired, TypeOK, store, client
<1>11. CASE UNCHANGED vars
  BY <1>11 DEF vars, store, client, TypeOK
<1> QED
  BY <1>1, <1>2, <1>3, <1>4, <1>5, <1>6, <1>7, <1>8, <1>9, <1>10, <1>11 DEF Next, Step

(* The variables keep their types: a callback that fails or approves after its
   session was pruned changes no table it should not. *)
THEOREM TypeCorrect == Spec => []TypeOK
<1>1. TypeOK /\ [Next]_vars => TypeOK'
  BY TypeOKStep
<1> QED
  BY <1>1, TypeOKInit, PTL DEF Spec

-----------------------------------------------------------------------------
(* Tokens *)

(* tok is or was the token of the machine of a. *)
Known(a, tok) == tok \in revoked \/ (a \in DOMAIN devices /\ devices[a].token = tok)

(* Every copy of a token that is on its way to the agent: in a callback before its
   last step, in a session, in an answer. *)
CopiesKnown ==
    /\ \A t \in DOMAIN tabs : tabs[t].at = "approve" => Known(tabs[t].of, tabs[t].token)
    /\ \A a \in DOMAIN sessions : sessions[a].approved => Known(a, sessions[a].result)
    /\ \A a \in Attempts : agent[a] = "enrolled" => Known(a, given[a])

Settled == TypeOK /\ disk = devices /\ CopiesKnown

LEMMA KnownStep ==
    ASSUME Settled, [Next]_vars, failedSaves = 0, failedSaves' = 0,
           NEW a \in Attempts, NEW tok, Known(a, tok)
    PROVE  Known(a, tok)'
<1>1. ~(\E t \in Tabs : RegisterUnsaved(t))
  BY DEF RegisterUnsaved, Settled, TypeOK
<1>2. CASE UNCHANGED <<devices, revoked>>
  BY <1>2 DEF Known
<1>3. ASSUME NEW b \in Attempts, Revoke(b)
      PROVE  Known(a, tok)'
  BY <1>3 DEF Revoke, Delete, Known
<1>4. ASSUME NEW t \in Tabs, RegisterDeviceSSO(t)
      PROVE  Known(a, tok)'
  <2>1. tabs[t].of \in Attempts /\ tabs[t].user \in Users
    BY <1>4 DEF RegisterDeviceSSO, Settled, TypeOK, IsMap, Request
  <2>2. tabs[t].of = a /\ a \in DOMAIN devices => Registered(a, tabs[t].user).token = devices[a].token
    BY <2>1, RegisteredType DEF Settled
  <2> QED
    BY <1>4, <2>2 DEF RegisterDeviceSSO, Put, Known
<1>5. CASE Restart
  BY <1>5 DEF Restart, Settled, Known
<1> QED
  BY <1>1, <1>2, <1>3, <1>4, <1>5
  DEF Next, Step, vars, store, EnrollStart, EnrollWait, WaitUnknown, WaitRefused, WaitEnrolled,
      WaitBroken, AgentEnds, EnrollRedirect, Callback, SignInRefused, SignInAccepted, Approve,
      Abandon, Tick

LEMMA DiskStep ==
    ASSUME Settled, [Next]_vars, failedSaves = 0, failedSaves' = 0
    PROVE  disk' = devices'
<1>1. ~(\E t \in Tabs : RegisterUnsaved(t))
  BY DEF RegisterUnsaved, Settled, TypeOK
<1>2. ASSUME NEW t \in Tabs, RegisterDeviceSSO(t)
      PROVE  disk' = devices'
  <2> DEFINE a == tabs[t].of
             d == Registered(a, tabs[t].user)
  <2>1. CASE SameDevice(a, tabs[t].user)
    <3>1. a \in DOMAIN devices /\ devices[a] = d
      BY <2>1 DEF SameDevice
    <3>2. Put(devices, a, d) = devices
      BY <3>1 DEF Put, Settled, TypeOK, IsMap
    <3> QED
      BY <1>2, <2>1, <3>2 DEF RegisterDeviceSSO, Settled
  <2> QED
    BY <1>2, <2>1 DEF RegisterDeviceSSO
<1> QED
  BY <1>1, <1>2
  DEF Settled, Next, Step, vars, store, EnrollStart, EnrollWait, WaitUnknown, WaitRefused,
      WaitEnrolled, WaitBroken, AgentEnds, EnrollRedirect, Callback, SignInRefused, SignInAccepted,
      Approve, Abandon, Tick, Revoke, Restart

LEMMA CopiesKnownStep ==
    ASSUME Settled, [Next]_vars, failedSaves = 0, failedSaves' = 0
    PROVE  CopiesKnown'
<1> DEFINE KnownNext(a, tok) ==
               tok \in revoked' \/ (a \in DOMAIN devices' /\ devices'[a].token = tok)
           ApprovingKnown == \A t \in DOMAIN tabs :
               tabs[t].at = "approve" => Known(tabs[t].of, tabs[t].token)
           ResultsKnown == \A a \in DOMAIN sessions :
               sessions[a].approved => Known(a, sessions[a].result)
           AnswersKnown == \A a \in Attempts : agent[a] = "enrolled" => Known(a, given[a])
<1>1. /\ ApprovingKnown /\ ResultsKnown /\ AnswersKnown
      /\ \A t \in DOMAIN tabs : t \in Tabs /\ tabs[t] \in Request /\ tabs[t].of \in Attempts
      /\ \A a \in DOMAIN sessions : a \in Attempts /\ sessions[a] \in Session
      /\ agent \in [Attempts -> {"new", "waiting", "enrolled", "refused", "unknown", "broken"}]
      /\ given \in [Attempts -> Nat]
  BY DEF Settled, CopiesKnown, TypeOK, IsMap, Request
<1>2. \A a \in Attempts : \A tok : Known(a, tok) => KnownNext(a, tok)
  BY KnownStep DEF Known
<1>3. ASSUME NEW t \in DOMAIN tabs'
      PROVE  tabs'[t].at = "approve" => KnownNext(tabs'[t].of, tabs'[t].token)
  <2>1. CASE t \in DOMAIN tabs /\ tabs'[t] = tabs[t]
    BY <2>1, <1>1, <1>2
  <2>2. CASE tabs'[t].at # "approve"
    BY <2>2
  <2>3. CASE RegisterDeviceSSO(t)
    <3>1. t \in DOMAIN tabs /\ tabs[t] \in Request /\ tabs[t].of \in Attempts
      BY <2>3, <1>1 DEF RegisterDeviceSSO
    <3>2. /\ devices' = Put(devices, tabs[t].of, Registered(tabs[t].of, tabs[t].user))
          /\ tabs'[t].token = Registered(tabs[t].of, tabs[t].user).token
          /\ tabs'[t].of = tabs[t].of
      BY <2>3, <3>1 DEF RegisterDeviceSSO, Request
    <3> QED
      BY <3>1, <3>2 DEF Known, Put
  <2>4. ASSUME NEW u \in Tabs, RegisterDeviceSSO(u) \/ Callback(u) \/ SignInAccepted(u), u # t
        PROVE  t \in DOMAIN tabs /\ tabs'[t] = tabs[t]
    BY <2>4 DEF RegisterDeviceSSO, Callback, SignInAccepted, GoTo, CloseTab, Delete
  <2>5. ASSUME NEW u \in Tabs, SignInRefused(u) \/ Abandon(u) \/ Approve(u) \/ RegisterUnsaved(u)
        PROVE  t \in DOMAIN tabs /\ tabs'[t] = tabs[t]
    BY <2>5 DEF SignInRefused, Abandon, Approve, RegisterUnsaved, Fail, CloseTab, Delete
  <2>6. CASE Callback(t) \/ SignInAccepted(t)
    BY <2>6, <1>1 DEF Callback, SignInAccepted, GoTo, CloseTab, Delete, Request
  <2>7. ASSUME NEW u \in Tabs, NEW a \in Attempts, EnrollRedirect(u, a)
        PROVE  tabs'[t].at # "approve" \/ (t \in DOMAIN tabs /\ tabs'[t] = tabs[t])
    BY <2>7 DEF EnrollRedirect, Put
  <2>8. ~Restart
    BY DEF Restart, Empty
  <2> QED
    BY <2>1, <2>2, <2>3, <2>4, <2>5, <2>6, <2>7, <2>8
    DEF Next, Step, vars, EnrollStart, EnrollWait, WaitUnknown, WaitRefused, WaitEnrolled,
        WaitBroken, AgentEnds, Revoke, Tick
<1>4. ASSUME NEW a \in DOMAIN sessions'
      PROVE  sessions'[a].approved => KnownNext(a, sessions'[a].result)
  <2>1. CASE a \in DOMAIN sessions /\ sessions'[a].approved = sessions[a].approved
                                   /\ sessions'[a].result = sessions[a].result
    BY <2>1, <1>1, <1>2
  <2>2. ASSUME NEW b \in Attempts, EnrollStart(b)
        PROVE  ~sessions'[a].approved \/ (a \in DOMAIN sessions /\ sessions'[a] = sessions[a])
    BY <2>2 DEF EnrollStart, Put, Pruned
  <2>3. ASSUME NEW t \in Tabs, SignInRefused(t) \/ RegisterUnsaved(t)
        PROVE  a \in DOMAIN sessions /\ sessions'[a].approved = sessions[a].approved
                                     /\ sessions'[a].result = sessions[a].result
    BY <2>3, <1>1 DEF SignInRefused, RegisterUnsaved, Fail, Session
  <2>4. ASSUME NEW t \in Tabs, Approve(t)
        PROVE  sessions'[a].approved => KnownNext(a, sessions'[a].result)
    <3>1. CASE tabs[t].of = a /\ a \in DOMAIN sessions
      <4>1. sessions'[a].result = tabs[t].token
        BY <2>4, <3>1, <1>1 DEF Approve, Session
      <4>2. Known(a, tabs[t].token)
        BY <2>4, <3>1, <1>1 DEF Approve
      <4> QED
        BY <4>1, <4>2, <3>1, <1>1, <1>2
    <3>2. CASE ~(tabs[t].of = a /\ a \in DOMAIN sessions)
      BY <2>1, <2>4, <3>2 DEF Approve
    <3> QED
      BY <3>1, <3>2
  <2>5. ~Restart
    BY DEF Restart, Empty
  <2> QED
    BY <2>1, <2>2, <2>3, <2>4, <2>5
    DEF Next, Step, vars, EnrollWait, WaitUnknown, WaitRefused, WaitEnrolled, WaitBroken, AgentEnds,
        Revoke, Tick, EnrollRedirect, Callback, SignInAccepted, RegisterDeviceSSO, Abandon
<1>5. ASSUME NEW a \in Attempts, agent'[a] = "enrolled"
      PROVE  KnownNext(a, given'[a])
  <2>1. CASE agent[a] = "enrolled" /\ given'[a] = given[a]
    BY <2>1, <1>1, <1>2
  <2>2. ASSUME NEW b \in Attempts, WaitEnrolled(b)
        PROVE  KnownNext(a, given'[a])
    <3>1. CASE b = a
      BY <2>2, <3>1, <1>1, <1>2 DEF WaitEnrolled
    <3>2. CASE b # a
      BY <2>1, <2>2, <3>2, <1>1, <1>5 DEF WaitEnrolled, AgentEnds
    <3> QED
      BY <3>1, <3>2
  <2>3. ASSUME NEW b \in Attempts,
               EnrollStart(b) \/ WaitUnknown(b) \/ WaitRefused(b) \/ WaitBroken(b)
        PROVE  agent[a] = "enrolled" /\ given'[a] = given[a]
    BY <2>3, <1>1, <1>5 DEF EnrollStart, WaitUnknown, WaitRefused, WaitBroken, AgentEnds
  <2> QED
    BY <1>5, <2>1, <2>2, <2>3
    DEF Next, Step, vars, client, EnrollWait, Revoke, Tick, Restart, EnrollRedirect, Callback,
        SignInRefused, SignInAccepted, RegisterDeviceSSO, RegisterUnsaved, Approve, Abandon
<1> QED
  BY <1>3, <1>4, <1>5 DEF CopiesKnown, Known

TokenInv == TypeOK /\ (failedSaves = 0 => Settled)

(* Until a save fails, every identity an agent gets is one the store knows until the
   machine is revoked, whichever of several callbacks for its session approves last,
   and across restarts. *)
THEOREM TokensGivenWork == Spec => []TokensWork
<1>1. Init => TokenInv
  BY TypeOKInit DEF Init, TokenInv, Settled, CopiesKnown, Empty
<1>2. TokenInv /\ [Next]_vars => TokenInv'
  <2> SUFFICES ASSUME TokenInv, [Next]_vars
               PROVE  TokenInv'
    OBVIOUS
  <2>1. TypeOK'
    BY TypeOKStep DEF TokenInv
  <2>2. ASSUME failedSaves' = 0
        PROVE  failedSaves = 0
    <3>1. failedSaves' = failedSaves \/ failedSaves' = failedSaves + 1
      BY DEF Next, Step, vars, EnrollStart, EnrollWait, WaitUnknown, WaitRefused, WaitEnrolled,
             WaitBroken, AgentEnds, EnrollRedirect, Callback, SignInRefused, SignInAccepted,
             RegisterDeviceSSO, RegisterUnsaved, Approve, Abandon, Revoke, Restart, Tick
    <3>2. failedSaves \in Nat
      BY DEF TokenInv, TypeOK
    <3> QED
      BY <2>2, <3>1, <3>2
  <2> QED
    BY <2>1, <2>2, DiskStep, CopiesKnownStep DEF TokenInv, Settled
<1>3. TokenInv => TokensWork
  BY DEF TokenInv, Settled, CopiesKnown, Known, TokensWork
<1> QED
  BY <1>1, <1>2, <1>3, PTL DEF Spec

-----------------------------------------------------------------------------
(* Owners *)

Permitted(u) == IF AllowedEmails # {} THEN u \in AllowedEmails
                ELSE AllowedDomain = {} \/ u \in AllowedDomain

OwnerInv ==
    /\ TypeOK
    /\ \A a \in DOMAIN devices : Permitted(devices[a].owner)
    /\ \A a \in DOMAIN disk : Permitted(disk[a].owner)
    /\ \A t \in DOMAIN tabs : tabs[t].at = "register" => Permitted(tabs[t].user)

LEMMA OwnerStep == ASSUME OwnerInv, [Next]_vars PROVE OwnerInv'
<1> DEFINE Owned(f) == \A a \in DOMAIN f : Permitted(f[a].owner)
<1>1. TypeOK'
  BY TypeOKStep DEF OwnerInv
<1>2. /\ Owned(devices) /\ Owned(disk)
      /\ \A t \in DOMAIN tabs : tabs[t] \in Request
      /\ \A t \in DOMAIN tabs : tabs[t].at = "register" => Permitted(tabs[t].user)
  BY DEF OwnerInv, TypeOK, IsMap
<1>3. Owned(devices') /\ Owned(disk')
  <2>1. ASSUME NEW t \in Tabs, RegisterDeviceSSO(t) \/ RegisterUnsaved(t)
        PROVE  Owned(Put(devices, tabs[t].of, Registered(tabs[t].of, tabs[t].user)))
    <3>1. Permitted(tabs[t].user) /\ tabs[t].of \in Attempts /\ tabs[t].user \in Users
      BY <2>1, <1>2 DEF RegisterDeviceSSO, RegisterUnsaved, Request
    <3>2. Permitted(Registered(tabs[t].of, tabs[t].user).owner)
      BY <3>1, RegisteredType DEF OwnerInv
    <3> QED
      BY <3>2, <1>2 DEF Put
  <2>2. ASSUME NEW t \in Tabs, RegisterDeviceSSO(t) \/ RegisterUnsaved(t)
        PROVE  Owned(devices') /\ Owned(disk')
    BY <2>1, <2>2, <1>2 DEF RegisterDeviceSSO, RegisterUnsaved
  <2>3. ASSUME NEW a \in Attempts, Revoke(a)
        PROVE  Owned(devices') /\ Owned(disk')
    BY <2>3, <1>2 DEF Revoke, Delete
  <2>4. CASE Restart
    BY <2>4, <1>2 DEF Restart
  <2>5. CASE UNCHANGED <<devices, disk>>
    BY <2>5, <1>2
  <2> QED
    BY <2>2, <2>3, <2>4, <2>5
    DEF Next, Step, vars, store, EnrollStart, EnrollWait, WaitUnknown, WaitRefused, WaitEnrolled,
        WaitBroken, AgentEnds, EnrollRedirect, Callback, SignInRefused, SignInAccepted, Approve,
        Abandon, Tick
<1>4. ASSUME NEW t \in DOMAIN tabs', tabs'[t].at = "register"
      PROVE  Permitted(tabs'[t].user)
  <2>1. CASE t \in DOMAIN tabs /\ tabs'[t] = tabs[t]
    BY <2>1, <1>2, <1>4
  <2>2. CASE SignInAccepted(t)
    BY <2>2, <1>2 DEF SignInAccepted, GoTo, EmailAllowed, Permitted, Request
  <2>3. ASSUME NEW u \in Tabs, RegisterDeviceSSO(u) \/ Callback(u)
        PROVE  t \in DOMAIN tabs /\ tabs'[t] = tabs[t]
    BY <2>3, <1>2, <1>4 DEF RegisterDeviceSSO, Callback, GoTo, CloseTab, Delete, Request
  <2>4. ASSUME NEW u \in Tabs,
               (SignInAccepted(u) /\ u # t) \/ SignInRefused(u) \/ Abandon(u) \/ Approve(u)
               \/ RegisterUnsaved(u)
        PROVE  t \in DOMAIN tabs /\ tabs'[t] = tabs[t]
    BY <2>4 DEF SignInAccepted, SignInRefused, Abandon, Approve, RegisterUnsaved, Fail, GoTo,
                CloseTab, Delete
  <2>5. ASSUME NEW u \in Tabs, NEW a \in Attempts, EnrollRedirect(u, a)
        PROVE  t \in DOMAIN tabs /\ tabs'[t] = tabs[t]
    BY <2>5, <1>4 DEF EnrollRedirect, Put
  <2>6. ~Restart
    BY DEF Restart, Empty
  <2> QED
    BY <2>1, <2>2, <2>3, <2>4, <2>5, <2>6
    DEF Next, Step, vars, EnrollStart, EnrollWait, WaitUnknown, WaitRefused, WaitEnrolled,
        WaitBroken, AgentEnds, Revoke, Tick
<1> QED
  BY <1>1, <1>3, <1>4 DEF OwnerInv

(* Whoever signs in on whose session, whatever fails and restarts: the filter of the
   configuration holds for the owner of every machine. *)
THEOREM OwnersPermitted == Spec => []OwnersAllowed
<1>1. Init => OwnerInv
  BY TypeOKInit DEF Init, OwnerInv, Empty
<1>2. OwnerInv /\ [Next]_vars => OwnerInv'
  BY OwnerStep
<1>3. OwnerInv => OwnersAllowed
  BY DEF OwnerInv, Permitted, OwnersAllowed
<1> QED
  BY <1>1, <1>2, <1>3, PTL DEF Spec

-----------------------------------------------------------------------------
(* Sessions *)

(* A session stays in the table until it is too old or the server restarts, and a
   session that is too old stays so: ages only grow. *)
SessionsStay ==
    \A a \in Attempts :
        /\ agent[a] = "waiting" => a \in DOMAIN sessions \/ Expired(a) \/ restarts > 0
        /\ agent[a] = "unknown" => Expired(a) \/ restarts > 0

LEMMA SessionsStayStep ==
    ASSUME TypeOK, SessionsStay, [Next]_vars
    PROVE  SessionsStay'
<1>1. restarts \in Nat /\ TTL \in Nat /\ age \in [Attempts -> 0 .. TTL + 1]
      /\ agent \in [Attempts -> {"new", "waiting", "enrolled", "refused", "unknown", "broken"}]
  BY NumbersAssumption DEF TypeOK
<1>2. ASSUME NEW b \in Attempts, EnrollStart(b)
      PROVE  SessionsStay'
  <2>1. /\ DOMAIN sessions' = {c \in DOMAIN sessions : ~Expired(c)} \cup {b}
        /\ restarts' = restarts
        /\ agent[b] = "new" /\ agent' = [agent EXCEPT ![b] = "waiting"]
        /\ \A c \in Attempts \ {b} : age'[c] = age[c]
    BY <1>1, <1>2 DEF EnrollStart, Put, Pruned
  <2>2. ASSUME NEW c \in Attempts
        PROVE  /\ agent'[c] = "waiting" => c \in DOMAIN sessions' \/ Expired(c)' \/ restarts' > 0
               /\ agent'[c] = "unknown" => Expired(c)' \/ restarts' > 0
    <3>1. CASE c = b
      BY <1>1, <2>1, <3>1
    <3>2. CASE c # b
      BY <1>1, <2>1, <3>2 DEF SessionsStay, Expired
    <3> QED
      BY <3>1, <3>2
  <2> QED
    BY <2>2 DEF SessionsStay
<1>3. ASSUME NEW b \in Attempts, EnrollWait(b) \/ WaitBroken(b)
      PROVE  SessionsStay'
  <2>1. /\ UNCHANGED <<sessions, age, restarts>> /\ agent[b] = "waiting"
        /\ \E how \in {"unknown", "refused", "enrolled", "broken"} :
              /\ agent' = [agent EXCEPT ![b] = how]
              /\ how = "unknown" => b \notin DOMAIN sessions \/ Expired(b)
    BY <1>3 DEF EnrollWait, WaitUnknown, WaitRefused, WaitEnrolled, WaitBroken, AgentEnds
  <2> QED
    BY <1>1, <2>1 DEF SessionsStay, Expired
<1>4. CASE Restart
  BY <1>1, <1>4 DEF Restart, client, SessionsStay
<1>5. CASE Tick
  <2>1. /\ UNCHANGED <<sessions, agent, restarts>>
        /\ \A a \in Attempts : age'[a] \in {age[a], age[a] + 1}
    BY <1>5 DEF Tick, client
  <2>2. \A a \in Attempts : Expired(a) => Expired(a)'
    BY <1>1, <2>1 DEF Expired
  <2> QED
    BY <2>1, <2>2 DEF SessionsStay
<1>6. ASSUME UNCHANGED <<age, agent, restarts>>, DOMAIN sessions' = DOMAIN sessions
      PROVE  SessionsStay'
  BY <1>6 DEF SessionsStay, Expired
<1>7. ASSUME NEW t \in Tabs, SignInRefused(t) \/ RegisterUnsaved(t) \/ Approve(t)
      PROVE  SessionsStay'
  BY <1>6, <1>7 DEF SignInRefused, RegisterUnsaved, Approve, Fail, client
<1>8. CASE UNCHANGED <<sessions, age, agent, restarts>>
  BY <1>6, <1>8
<1> QED
  BY <1>2, <1>3, <1>4, <1>5, <1>7, <1>8
  DEF Next, Step, vars, client, EnrollRedirect, Callback, SignInAccepted, RegisterDeviceSSO,
      Abandon, Revoke

(* An agent that is told that its session is unknown waited for too long, or the
   server restarted: what other agents and their users do never removes it. *)
THEOREM SessionsNotForgotten == Spec => []NotForgotten
<1>1. Init => SessionsStay
  BY DEF Init, SessionsStay
<1>2. TypeOK /\ SessionsStay /\ [Next]_vars => SessionsStay'
  BY SessionsStayStep
<1>3. SessionsStay => NotForgotten
  BY DEF SessionsStay, NotForgotten
<1> QED
  BY <1>1, <1>2, <1>3, TypeCorrect, PTL DEF Spec

-----------------------------------------------------------------------------
(* Links *)

(* The file never has a machine that memory lacks, and is what is in memory until a
   save fails. *)
FileBehind ==
    /\ DOMAIN disk \subseteq DOMAIN devices
    /\ failedSaves = 0 => disk = devices

LEMMA FileBehindStep ==
    ASSUME TypeOK, FileBehind, [Next]_vars
    PROVE  FileBehind'
<1>1. failedSaves \in Nat
  BY DEF TypeOK
<1>2. ASSUME NEW t \in Tabs, RegisterDeviceSSO(t)
      PROVE  FileBehind'
  <2> DEFINE a == tabs[t].of
             d == Registered(a, tabs[t].user)
  <2>1. CASE SameDevice(a, tabs[t].user)
    <3>1. a \in DOMAIN devices /\ devices[a] = d
      BY <2>1 DEF SameDevice
    <3>2. Put(devices, a, d) = devices
      BY <3>1 DEF Put, TypeOK, IsMap
    <3> QED
      BY <1>2, <2>1, <3>2 DEF RegisterDeviceSSO, FileBehind
  <2>2. CASE ~SameDevice(a, tabs[t].user)
    BY <1>2, <2>2 DEF RegisterDeviceSSO, FileBehind
  <2> QED
    BY <2>1, <2>2
<1>3. ASSUME NEW t \in Tabs, RegisterUnsaved(t)
      PROVE  FileBehind'
  BY <1>1, <1>3 DEF RegisterUnsaved, Put, FileBehind
<1>4. CASE \E a \in Attempts : Revoke(a)
  BY <1>4 DEF Revoke, FileBehind
<1>5. CASE Restart
  BY <1>5 DEF Restart, FileBehind
<1>6. CASE UNCHANGED <<devices, disk, failedSaves>>
  BY <1>6 DEF FileBehind
<1> QED
  BY <1>2, <1>3, <1>4, <1>5, <1>6
  DEF Next, Step, vars, store, EnrollStart, EnrollWait, WaitUnknown, WaitRefused, WaitEnrolled,
      WaitBroken, AgentEnds, EnrollRedirect, Callback, SignInRefused, SignInAccepted, Approve,
      Abandon, Tick

(* No tab goes past the pages of the provider on a sealed session. *)
LEMMA SealedTabs ==
    ASSUME TypeOK, [Next]_vars, NEW a \in Attempts, Sealed(a)
    PROVE  ~UnderWay(a)'
<1> SUFFICES ASSUME NEW t \in DOMAIN tabs', tabs'[t].of = a, tabs'[t].at # "signing"
             PROVE  FALSE
  BY DEF UnderWay
<1>1. /\ \A u \in DOMAIN tabs : tabs[u] \in Request
      /\ \A u \in DOMAIN tabs : tabs[u].of = a => tabs[u].at = "signing"
      /\ ~Valid(a)
  BY DEF TypeOK, IsMap, Sealed, UnderWay, Valid
<1>2. ~(t \in DOMAIN tabs /\ tabs'[t] = tabs[t])
  BY <1>1
<1>3. ASSUME NEW u \in Tabs, Callback(u)
      PROVE  FALSE
  <2>1. CASE u = t
    <3>1. tabs[t].of = a
      BY <1>1, <1>3, <2>1 DEF Callback, GoTo, CloseTab, Delete, Request
    <3> QED
      BY <1>1, <1>3, <2>1, <3>1 DEF Callback, CloseTab, Delete
  <2>2. CASE u # t
    BY <1>2, <1>3, <2>2 DEF Callback, GoTo, CloseTab, Delete
  <2> QED
    BY <2>1, <2>2
<1>4. ASSUME NEW u \in Tabs, SignInAccepted(u) \/ RegisterDeviceSSO(u)
      PROVE  FALSE
  <2>1. CASE u = t
    <3>1. t \in DOMAIN tabs /\ tabs[t].of = a /\ tabs[t].at # "signing"
      BY <1>1, <1>4, <2>1 DEF SignInAccepted, RegisterDeviceSSO, GoTo, Request
    <3> QED
      BY <1>1, <3>1
  <2>2. CASE u # t
    BY <1>2, <1>4, <2>2 DEF SignInAccepted, RegisterDeviceSSO, GoTo
  <2> QED
    BY <2>1, <2>2
<1>5. ASSUME NEW u \in Tabs, SignInRefused(u) \/ Abandon(u) \/ Approve(u) \/ RegisterUnsaved(u)
      PROVE  FALSE
  BY <1>2, <1>5 DEF SignInRefused, Abandon, Approve, RegisterUnsaved, Fail, CloseTab, Delete
<1>6. ASSUME NEW u \in Tabs, NEW b \in Attempts, EnrollRedirect(u, b)
      PROVE  FALSE
  BY <1>2, <1>6 DEF EnrollRedirect, Put
<1>7. ~Restart
  BY DEF Restart, Empty
<1> QED
  BY <1>2, <1>3, <1>4, <1>5, <1>6, <1>7
  DEF Next, Step, vars, EnrollStart, EnrollWait, WaitUnknown, WaitRefused, WaitEnrolled,
      WaitBroken, AgentEnds, Revoke, Tick

LEMMA SealedMachine ==
    ASSUME TypeOK, FileBehind, [Next]_vars, NEW a \in Attempts, Sealed(a), a \in DOMAIN devices'
    PROVE  /\ a \in DOMAIN devices
           /\ devices'[a] = devices[a] \/ (failedSaves > 0 /\ devices' = disk)
<1>1. ASSUME NEW t \in Tabs, RegisterDeviceSSO(t) \/ RegisterUnsaved(t)
      PROVE  a \in DOMAIN devices /\ devices'[a] = devices[a]
  <2>1. tabs[t].of # a
    BY <1>1 DEF RegisterDeviceSSO, RegisterUnsaved, Sealed, UnderWay
  <2> QED
    BY <1>1, <2>1 DEF RegisterDeviceSSO, RegisterUnsaved, Put
<1>2. ASSUME NEW b \in Attempts, Revoke(b)
      PROVE  a \in DOMAIN devices /\ devices'[a] = devices[a]
  BY <1>2 DEF Revoke, Delete
<1>3. CASE Restart
  <2>1. devices' = disk /\ a \in DOMAIN devices
    BY <1>3 DEF Restart, FileBehind
  <2>2. failedSaves = 0 \/ failedSaves > 0
    BY DEF TypeOK
  <2> QED
    BY <2>1, <2>2 DEF FileBehind
<1>4. CASE devices' = devices
  BY <1>4
<1> QED
  BY <1>1, <1>2, <1>3, <1>4
  DEF Next, Step, vars, store, EnrollStart, EnrollWait, WaitUnknown, WaitRefused, WaitEnrolled,
      WaitBroken, AgentEnds, EnrollRedirect, Callback, SignInRefused, SignInAccepted, Approve,
      Abandon, Tick

(* The link of an approved session is dead once the callbacks that had begun are
   over: whatever tab still follows it, the machine stays as it is, and stays away
   when it was revoked. *)
THEOREM LinkStaysDead == Spec => LinkIsDead
<1>1. Init => FileBehind
  BY DEF Init, FileBehind
<1>2. TypeOK /\ FileBehind /\ [Next]_vars => FileBehind'
  BY FileBehindStep
<1>3. TypeOK /\ FileBehind /\ [Next]_vars => [LinkUnused]_vars
  BY SealedTabs, SealedMachine DEF LinkUnused
<1> QED
  BY <1>1, <1>2, <1>3, TypeCorrect, PTL DEF Spec, LinkIsDead
=============================================================================
