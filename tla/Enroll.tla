------------------------------- MODULE Enroll -------------------------------
(***************************************************************************)
(* Enrolment by the identity provider (internal/control/oidc.go): an agent *)
(* opens a session and polls it, its user signs in with a browser, and the *)
(* callback of the provider enrols the machine.                            *)
(*                                                                         *)
(* A callback takes the mutex of the sessions for its first and for its    *)
(* last step only; the exchange with the provider and the store lie        *)
(* between.  Every attempt of an agent has a key pair and a session of its *)
(* own (Up generates both), so that an attempt names its session and its   *)
(* machine too.                                                            *)
(***************************************************************************)
EXTENDS Integers, FiniteSets, Maps

CONSTANTS Attempts,       \* runs of "omnid up" without a key
          Tabs,           \* browser tabs
          Users,          \* accounts of the identity provider
          AllowedEmails,  \* OIDCConfig.AllowedEmails
          AllowedDomain,  \* the users of OIDCConfig.AllowedDomain, {} if none is set
          TTL,            \* enrollTTL
          MaxMishaps      \* bound: restarts, saves that fail, machines revoked

ASSUME SetsAssumption == AllowedEmails \subseteq Users /\ AllowedDomain \subseteq Users
ASSUME NumbersAssumption == {TTL, MaxMishaps} \subseteq Nat

VARIABLES
    sessions,    \* oidcProvider.sessions, by attempt
    age,         \* time.Since(createdAt), TTL + 1 for more than TTL
    agent,       \* where the agent of an attempt is
    given,       \* the token in the RegisterResponse that the agent got, or NoToken
    devices,     \* the machines of the store in memory, by attempt
    disk,        \* and in its file
    drawn,       \* tokens drawn so far: randomHex draws 1, 2, ...
    revoked,     \* tokens of machines that were revoked
    tabs,        \* the requests under way, by tab
    restarts, failedSaves, revocations

store == <<devices, disk, drawn, revoked, revocations>>
client == <<agent, given>>
mishaps == restarts + failedSaves + revocations
vars == <<sessions, age, client, store, tabs, restarts, failedSaves>>

-----------------------------------------------------------------------------

NoToken == 0

Session == [approved : BOOLEAN, failure : BOOLEAN, result : Nat]
Device == [token : Nat \ {NoToken}, owner : Users]
Request == [at : {"signing", "exchange", "register", "approve"},
            of : Attempts, user : Users, token : Nat]

TypeOK ==
    /\ IsMap(sessions, Attempts, Session)
    /\ age \in [Attempts -> 0 .. TTL + 1]
    /\ agent \in [Attempts -> {"new", "waiting", "enrolled", "refused", "unknown", "broken"}]
    /\ given \in [Attempts -> Nat]
    /\ IsMap(devices, Attempts, Device) /\ IsMap(disk, Attempts, Device)
    /\ drawn \in Nat
    /\ revoked \subseteq Nat
    /\ IsMap(tabs, Tabs, Request)
    /\ {restarts, failedSaves, revocations} \subseteq Nat

Init ==
    /\ sessions = Empty
    /\ age = [a \in Attempts |-> 0]
    /\ agent = [a \in Attempts |-> "new"]
    /\ given = [a \in Attempts |-> NoToken]
    /\ devices = Empty /\ disk = Empty
    /\ drawn = 0
    /\ revoked = {}
    /\ tabs = Empty
    /\ restarts = 0 /\ failedSaves = 0 /\ revocations = 0

-----------------------------------------------------------------------------
(* The sessions *)

Expired(a) == age[a] > TTL

(* Mutant: a session is pruned too early. *)
PrunedEarly == [a \in {b \in DOMAIN sessions : age[b] < TTL} |-> sessions[a]]

(* pruneLocked *)
Pruned == [a \in {b \in DOMAIN sessions : ~Expired(b)} |-> sessions[a]]

(* handleEnrollStart, called by enrollSSO. *)
EnrollStart(a) ==
    /\ agent[a] = "new"
    /\ sessions' = Put(Pruned, a, [approved |-> FALSE, failure |-> FALSE, result |-> NoToken])
    /\ age' = [age EXCEPT ![a] = 0]
    /\ agent' = [agent EXCEPT ![a] = "waiting"]
    /\ UNCHANGED <<given, store, tabs, restarts, failedSaves>>

(* The agent of a goes on only while the answer is 202. *)
AgentEnds(a, how) ==
    /\ agent[a] = "waiting"
    /\ agent' = [agent EXCEPT ![a] = how]
    /\ UNCHANGED <<sessions, age, store, tabs, restarts, failedSaves>>

(* Mutant: only handleEnrollStart looks at the age of a session. *)
WaitUnknownIgnoringAge(a) ==
    /\ a \notin DOMAIN sessions
    /\ AgentEnds(a, "unknown")
    /\ UNCHANGED given

(* handleEnrollWait: 404 ... *)
WaitUnknown(a) ==
    /\ a \notin DOMAIN sessions \/ Expired(a)
    /\ AgentEnds(a, "unknown")
    /\ UNCHANGED given

(* ... 403 ... *)
WaitRefused(a) ==
    /\ a \in DOMAIN sessions /\ ~Expired(a)
    /\ sessions[a].failure
    /\ AgentEnds(a, "refused")
    /\ UNCHANGED given

(* ... and 200. *)
WaitEnrolled(a) ==
    /\ a \in DOMAIN sessions /\ ~Expired(a)
    /\ ~sessions[a].failure /\ sessions[a].approved
    /\ AgentEnds(a, "enrolled")
    /\ given' = [given EXCEPT ![a] = sessions[a].result]

EnrollWait(a) == WaitUnknown(a) \/ WaitRefused(a) \/ WaitEnrolled(a)

(* The call or its answer is lost, or the user stops the agent: enrollSSO
   returns an error and does not try again. *)
WaitBroken(a) == AgentEnds(a, "broken") /\ UNCHANGED given

-----------------------------------------------------------------------------
(* The tabs and the callback *)

(* Mutant: a session that is approved can be used again. *)
ValidAgain(a) == a \in DOMAIN sessions /\ ~Expired(a)

Valid(a) == a \in DOMAIN sessions /\ ~Expired(a) /\ ~sessions[a].approved

CloseTab(t) == tabs' = Delete(tabs, t)
GoTo(t, where) == tabs' = [tabs EXCEPT ![t].at = where]

(* handleEnrollRedirect: the user follows the URL that the agent shows.  The
   state parameter is the session. *)
EnrollRedirect(t, a) ==
    /\ t \notin DOMAIN tabs
    /\ Valid(a)
    /\ \E u \in Users :   \* who signs in at the provider
           tabs' = Put(tabs, t, [at |-> "signing", of |-> a, user |-> u, token |-> NoToken])
    /\ UNCHANGED <<sessions, age, client, store, restarts, failedSaves>>

(* handleOIDCCallback, under the mutex. *)
Callback(t) ==
    /\ t \in DOMAIN tabs /\ tabs[t].at = "signing"
    /\ IF Valid(tabs[t].of) THEN GoTo(t, "exchange") ELSE CloseTab(t)
    /\ UNCHANGED <<sessions, age, client, store, restarts, failedSaves>>

(* Mutant: the filter of the domain is used with the list of addresses. *)
EmailAllowedByDomain(u) == AllowedDomain # {} => u \in AllowedDomain

EmailAllowed(u) ==
    IF AllowedEmails # {} THEN u \in AllowedEmails ELSE AllowedDomain # {} => u \in AllowedDomain

(* fail: sess points to the session, which may have left the map. *)
Fail(t) ==
    LET a == tabs[t].of
    IN  /\ sessions' = IF a \in DOMAIN sessions THEN [sessions EXCEPT ![a].failure = TRUE]
                       ELSE sessions
        /\ CloseTab(t)

(* The provider refuses the code, its token is invalid or without a verified
   address, or the account is not allowed. *)
SignInRefused(t) ==
    /\ t \in DOMAIN tabs /\ tabs[t].at = "exchange"
    /\ Fail(t)
    /\ UNCHANGED <<age, client, store, restarts, failedSaves>>

SignInAccepted(t) ==
    /\ t \in DOMAIN tabs /\ tabs[t].at = "exchange"
    /\ EmailAllowed(tabs[t].user)
    /\ GoTo(t, "register")
    /\ UNCHANGED <<sessions, age, client, store, restarts, failedSaves>>

(* Mutant: a machine that is known gets a new token, as after a rotation. *)
RegisteredAnew(a, u) == [token |-> drawn + 1, owner |-> u]

(* RegisterDeviceSSO: idempotent for a known key, but for the owner. *)
Registered(a, u) ==
    IF a \in DOMAIN devices THEN [devices[a] EXCEPT !.owner = u]
    ELSE [token |-> drawn + 1, owner |-> u]

SameDevice(a, u) == a \in DOMAIN devices /\ devices[a] = Registered(a, u)

(* The store has the machine, in its file too. *)
RegisterDeviceSSO(t) ==
    LET a == tabs[t].of
        d == Registered(a, tabs[t].user)
    IN  /\ t \in DOMAIN tabs /\ tabs[t].at = "register"
        /\ devices' = Put(devices, a, d)
        /\ disk' = IF SameDevice(a, tabs[t].user) THEN disk ELSE Put(devices, a, d)
        /\ drawn' = IF a \in DOMAIN devices THEN drawn ELSE drawn + 1
        /\ tabs' = [tabs EXCEPT ![t].at = "approve", ![t].token = d.token]
        /\ UNCHANGED <<sessions, age, client, revoked, revocations, restarts, failedSaves>>

(* The save fails: the machine stays in memory. *)
RegisterUnsaved(t) ==
    LET a == tabs[t].of
    IN  /\ t \in DOMAIN tabs /\ tabs[t].at = "register"
        /\ ~SameDevice(a, tabs[t].user)
        /\ mishaps < MaxMishaps
        /\ failedSaves' = failedSaves + 1
        /\ devices' = Put(devices, a, Registered(a, tabs[t].user))
        /\ drawn' = IF a \in DOMAIN devices THEN drawn ELSE drawn + 1
        /\ Fail(t)
        /\ UNCHANGED <<age, client, disk, revoked, revocations, restarts>>

(* The last critical section; then the page that says the machine is connected. *)
Approve(t) ==
    LET a == tabs[t].of
    IN  /\ t \in DOMAIN tabs /\ tabs[t].at = "approve"
        /\ sessions' = IF a \in DOMAIN sessions
                       THEN [sessions EXCEPT ![a].approved = TRUE, ![a].result = tabs[t].token]
                       ELSE sessions
        /\ CloseTab(t)
        /\ UNCHANGED <<age, client, store, restarts, failedSaves>>

(* The user closes the tab on the pages of the provider. *)
Abandon(t) ==
    /\ t \in DOMAIN tabs /\ tabs[t].at = "signing"
    /\ CloseTab(t)
    /\ UNCHANGED <<sessions, age, client, store, restarts, failedSaves>>

-----------------------------------------------------------------------------
(* The rest of the world *)

(* RemoveDevice or RemoveOwnedDevice (see the module Store). *)
Revoke(a) ==
    /\ a \in DOMAIN devices
    /\ mishaps < MaxMishaps
    /\ revocations' = revocations + 1
    /\ devices' = Delete(devices, a) /\ disk' = Delete(devices, a)
    /\ revoked' = revoked \cup {devices[a].token}
    /\ UNCHANGED <<sessions, age, client, drawn, tabs, restarts, failedSaves>>

(* The sessions are in memory only, requests under way are cut off. *)
Restart ==
    /\ mishaps < MaxMishaps
    /\ restarts' = restarts + 1
    /\ sessions' = Empty
    /\ devices' = disk
    /\ tabs' = Empty
    /\ UNCHANGED <<age, client, disk, drawn, revoked, revocations, failedSaves>>

Tick ==
    /\ \E a \in DOMAIN sessions : ~Expired(a)
    /\ age' = [a \in Attempts |-> IF a \in DOMAIN sessions /\ ~Expired(a) THEN age[a] + 1 ELSE age[a]]
    /\ UNCHANGED <<sessions, client, store, tabs, restarts, failedSaves>>

Step(t) ==
    \/ Callback(t) \/ SignInRefused(t) \/ SignInAccepted(t)
    \/ RegisterDeviceSSO(t) \/ RegisterUnsaved(t) \/ Approve(t)

Next ==
    \/ \E a \in Attempts : EnrollStart(a) \/ EnrollWait(a) \/ WaitBroken(a) \/ Revoke(a)
    \/ \E t \in Tabs, a \in Attempts : EnrollRedirect(t, a)
    \/ \E t \in Tabs : Step(t) \/ Abandon(t)
    \/ Restart
    \/ Tick

Spec == Init /\ [][Next]_vars

(* The agent polls every two seconds and time goes on.  Nobody has to sign in. *)
FairSpec == Spec /\ WF_vars(Tick) /\ \A a \in Attempts : WF_vars(EnrollWait(a))

-----------------------------------------------------------------------------
(* Properties *)

(* The identity an agent gets is one the store knows, until the machine is
   revoked: of two callbacks for one session, whichever approves last gives the
   token of the same machine (RegisterDeviceSSO: "Idempotent pour une clé
   publique déjà connue"), also across restarts of the server, as long
   as no save failed. *)
TokensWork ==
    failedSaves = 0 => \A a \in Attempts : agent[a] = "enrolled" =>
        \/ given[a] \in revoked
        \/ a \in DOMAIN devices /\ devices[a].token = given[a]

(* An agent is told that its session is unknown only if the session is older
   than enrollTTL or the server has restarted: other enrolments, which prune the
   table, do not touch it. *)
NotForgotten ==
    \A a \in Attempts : agent[a] = "unknown" => Expired(a) \/ restarts > 0

(* No account outside the list of addresses (or, without one, outside the domain)
   ever owns a machine, whoever else signs in on the same session. *)
OwnersAllowed ==
    \A a \in DOMAIN devices :
        IF AllowedEmails # {} THEN devices[a].owner \in AllowedEmails
        ELSE AllowedDomain = {} \/ devices[a].owner \in AllowedDomain

UnderWay(a) == \E t \in DOMAIN tabs : tabs[t].of = a /\ tabs[t].at # "signing"
Sealed(a) == a \in DOMAIN sessions /\ sessions[a].approved /\ ~UnderWay(a)

(* Once a session is approved and the callbacks that had begun are over, the link is
   dead, for tabs that stand on the pages of the provider too: no callback begins, the
   machine never comes back after a revocation and never changes, but that a restart
   undoes what a save that failed left in memory alone. *)
LinkUnused ==
    \A a \in Attempts : Sealed(a) =>
        /\ ~UnderWay(a)'
        /\ a \in DOMAIN devices' =>
               /\ a \in DOMAIN devices
               /\ devices'[a] = devices[a] \/ (failedSaves > 0 /\ devices' = disk)
LinkIsDead == [][LinkUnused]_vars

(* Every enrolment ends, by expiry if nobody signs in ("sonde le serveur jusqu'à
   l'authentification (ou l'expiration, ~15 min)"). *)
EnrolmentEnds == \A a \in Attempts : agent[a] = "waiting" ~> agent[a] # "waiting"
=============================================================================
