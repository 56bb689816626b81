------------------------------ MODULE Accounts ------------------------------
(***************************************************************************)
(* Accounts, invitations and web sessions of the coordination server       *)
(* (internal/control/users.go, users_http.go).                             *)
(*                                                                         *)
(* Registering and signing in are each two critical sections of the store, *)
(* RegisterUser or Authenticate and then CreateSession, and only the       *)
(* answer to the second one reaches the visitor.  Saves fail and the       *)
(* process dies in between; memory and file then differ, or the requests   *)
(* are gone.  Requests the store refuses change nothing and are left out.  *)
(***************************************************************************)
EXTENDS Integers, FiniteSets, Maps

CONSTANTS Visitors,        \* people; a password is the visitor who chose it
          Emails,          \* addresses, after normalizeEmail
          Codes,           \* invitation codes
          InviteRequired,  \* the server was not started with open registration
          MaxIssued,       \* bound: identifiers and session tokens drawn
          MaxFailures,     \* bound: failed saves
          MaxRestarts      \* bound: deaths of the process

ASSUME ModeAssumption == InviteRequired \in BOOLEAN
ASSUME BoundsAssumption == {MaxIssued, MaxFailures, MaxRestarts} \subseteq Nat

Nobody == "nobody"
NoCode == "none"
ASSUME NamesAssumption == Nobody \notin Emails /\ NoCode \notin Codes

VARIABLES
    mem,        \* Store.s: users by address, invites by code (used or not), sessions by token
    disk,       \* the state file
    issued,     \* number of identifiers and tokens drawn
    requests,   \* visitors who wait for openSession, and the account it is for
    expired,    \* codes and tokens past their time
    (* History of what people were told; the code does not keep it. *)
    returned,   \* codes an administrator was given
    accounts,   \* accounts ever created in memory, with the code they used
    confirmed,  \* accounts whose visitor was answered 200
    cookies,    \* session tokens visitors were given, with their account
    closing,    \* tokens somebody asked to close
    closed,     \* tokens whose logout was answered 204
    failures, restarts

told == <<returned, accounts, confirmed, cookies, closing, closed>>
vars == <<mem, disk, issued, requests, expired, told, failures, restarts>>

-----------------------------------------------------------------------------

Number == 1 .. MaxIssued

Account == [email : Emails, id : Number]

IsState(s) ==
    /\ s = [users |-> s.users, invites |-> s.invites, sessions |-> s.sessions]
    /\ IsMap(s.users, Emails, [id : Number, password : Visitors])
    /\ IsMap(s.invites, Codes, BOOLEAN)
    /\ IsMap(s.sessions, Number, Number)

TypeOK ==
    /\ IsState(mem) /\ IsState(disk)
    /\ issued \in 0 .. MaxIssued
    /\ IsMap(requests, Visitors, Account)
    /\ expired \subseteq Codes \cup Number
    /\ returned \subseteq Codes
    /\ accounts \subseteq [email : Emails, id : Number, code : Codes \cup {NoCode}]
    /\ confirmed \subseteq Account
    /\ IsMap(cookies, Number, Account)
    /\ closing \subseteq Number /\ closed \subseteq Number
    /\ failures \in 0 .. MaxFailures /\ restarts \in 0 .. MaxRestarts

NoState == [users |-> Empty, invites |-> Empty, sessions |-> Empty]

Init ==
    /\ mem = NoState /\ disk = NoState
    /\ issued = 0
    /\ requests = Empty
    /\ expired = {}
    /\ returned = {} /\ accounts = {} /\ confirmed = {}
    /\ cookies = Empty /\ closing = {} /\ closed = {}
    /\ failures = 0 /\ restarts = 0

-----------------------------------------------------------------------------
(* Saves *)

(* randomHex *)
Draw(n) == n = issued + 1 /\ n <= MaxIssued /\ issued' = n

Saved(s) == mem' = s /\ disk' = s /\ UNCHANGED <<failures, restarts>>

(* saveLocked returns an error: the change stays in memory. *)
SaveFailed(s) ==
    /\ failures < MaxFailures /\ failures' = failures + 1
    /\ mem' = s
    /\ UNCHANGED <<disk, restarts>>

(* The process dies while it saves s, and starts again from the old file or the new one. *)
Interrupted(s) ==
    /\ restarts < MaxRestarts /\ restarts' = restarts + 1
    /\ \E found \in {disk, s} : mem' = found /\ disk' = found
    /\ requests' = Empty
    /\ UNCHANGED failures

(* The process dies at another time. *)
Restart == Interrupted(disk) /\ UNCHANGED <<issued, expired, told>>

-----------------------------------------------------------------------------
(* Invitations *)

(* handleCreateInvite, CreateInvite: the code is drawn, and given if it could be saved. *)
CreateInvite(c) ==
    LET next == [mem EXCEPT !.invites = Put(@, c, FALSE)]
    IN  /\ c \notin DOMAIN mem.invites \cup returned
        /\ \/ Saved(next) /\ returned' = returned \cup {c} /\ UNCHANGED requests
           \/ SaveFailed(next) /\ UNCHANGED <<returned, requests>>
           \/ Interrupted(next) /\ UNCHANGED returned
        /\ UNCHANGED <<issued, expired, accounts, confirmed, cookies, closing, closed>>

Usable(c) == c \in DOMAIN mem.invites /\ ~mem.invites[c] /\ c \notin expired

(* Mutant: the invitation is looked up, and never marked as used. *)
ConsumeNothing(c) == mem.invites

(* RegisterUser marks the invitation, before it saves. *)
Consume(c) == IF InviteRequired THEN [mem.invites EXCEPT ![c] = TRUE] ELSE mem.invites

-----------------------------------------------------------------------------
(* Accounts *)

(* Mutant: an address may be registered again. *)
TakenNever(e) == FALSE

(* ErrEmailTaken *)
Taken(e) == e \in DOMAIN mem.users

(* handleUserRegister and RegisterUser.  When the save fails the visitor is answered
   400, with the account and the used invitation in memory. *)
RegisterUser(v, e, c, id) ==
    LET next == [users |-> Put(mem.users, e, [id |-> id, password |-> v]),
                 invites |-> Consume(c), sessions |-> mem.sessions]
    IN  /\ v \notin DOMAIN requests
        /\ ~Taken(e)
        /\ IF InviteRequired THEN c \in returned /\ Usable(c) ELSE c = NoCode
        /\ Draw(id)
        /\ accounts' = accounts \cup {[email |-> e, id |-> id, code |-> c]}
        /\ \/ Saved(next) /\ requests' = Put(requests, v, [email |-> e, id |-> id])
           \/ SaveFailed(next) /\ UNCHANGED requests
           \/ Interrupted(next)
        /\ UNCHANGED <<expired, returned, confirmed, cookies, closing, closed>>

(* handleUserLogin and Authenticate. *)
Authenticate(v, e) ==
    /\ v \notin DOMAIN requests
    /\ e \in DOMAIN mem.users /\ mem.users[e].password = v
    /\ requests' = Put(requests, v, [email |-> e, id |-> mem.users[e].id])
    /\ UNCHANGED <<mem, disk, issued, expired, told, failures, restarts>>

(* CreateSession purges the sessions past their time. *)
Purged == [t \in DOMAIN mem.sessions \ expired |-> mem.sessions[t]]

(* WebSession *)
UserID(a) == a.id

(* Mutant: the cookie is set although the session could not be saved. *)
CreateSessionUnsaved(v, t) ==
    LET next == [mem EXCEPT !.sessions = Put(Purged, t, UserID(requests[v]))]
    IN  /\ v \in DOMAIN requests
        /\ Draw(t)
        /\ Saved(next) \/ SaveFailed(next)
        /\ requests' = Delete(requests, v)
        /\ cookies' = Put(cookies, t, requests[v])
        /\ confirmed' = confirmed \cup {requests[v]}
        /\ UNCHANGED <<expired, returned, accounts, closing, closed>>

(* openSession and CreateSession: the cookie is set if the session could be saved. *)
CreateSession(v, t) ==
    LET next == [mem EXCEPT !.sessions = Put(Purged, t, UserID(requests[v]))]
    IN  /\ v \in DOMAIN requests
        /\ Draw(t)
        /\ \/ /\ Saved(next)
              /\ requests' = Delete(requests, v)
              /\ cookies' = Put(cookies, t, requests[v])
              /\ confirmed' = confirmed \cup {requests[v]}
           \/ /\ SaveFailed(next)
              /\ requests' = Delete(requests, v)
              /\ UNCHANGED <<cookies, confirmed>>
           \/ Interrupted(next) /\ UNCHANGED <<cookies, confirmed>>
        /\ UNCHANGED <<expired, returned, accounts, closing, closed>>

-----------------------------------------------------------------------------
(* Sessions *)

(* SessionUser, which requireUser calls before each handler of an account. *)
SessionUser(t) ==
    LET known == t \in DOMAIN mem.sessions \ expired
        owners == {e \in DOMAIN mem.users : mem.users[e].id = mem.sessions[t]}
    IN  IF known /\ owners # {} THEN CHOOSE e \in owners : TRUE ELSE Nobody

(* Mutant: the session is dropped from memory only. *)
DeleteSessionUnsaved(t) ==
    /\ mem' = [mem EXCEPT !.sessions = Delete(@, t)]
    /\ closed' = closed \cup {t}
    /\ UNCHANGED <<disk, requests, failures, restarts>>

(* DeleteSession ignores the outcome of the save. *)
DeleteSession(t) ==
    LET next == [mem EXCEPT !.sessions = Delete(@, t)]
    IN  \/ Saved(next) /\ closed' = closed \cup {t} /\ UNCHANGED requests
        \/ SaveFailed(next) /\ closed' = closed \cup {t} /\ UNCHANGED requests
        \/ Interrupted(next) /\ UNCHANGED closed

(* handleUserLogout *)
Logout(t) ==
    /\ t \in DOMAIN cookies \ closed
    /\ closing' = closing \cup {t}
    /\ DeleteSession(t)
    /\ UNCHANGED <<issued, expired, returned, accounts, confirmed, cookies>>

(* Time passes. *)
Expire(x) ==
    /\ x \in (DOMAIN mem.invites \cup DOMAIN mem.sessions) \ expired
    /\ expired' = expired \cup {x}
    /\ UNCHANGED <<mem, disk, issued, requests, told, failures, restarts>>

Next ==
    \/ \E c \in Codes : CreateInvite(c) \/ Expire(c)
    \/ \E v \in Visitors, e \in Emails, c \in Codes \cup {NoCode}, id \in Number :
           RegisterUser(v, e, c, id)
    \/ \E v \in Visitors, e \in Emails : Authenticate(v, e)
    \/ \E v \in Visitors, t \in Number : CreateSession(v, t)
    \/ \E t \in Number : Logout(t) \/ Expire(t)
    \/ Restart

Spec == Init /\ [][Next]_vars

-----------------------------------------------------------------------------
(* Properties *)

Exists(a) == a.email \in DOMAIN mem.users /\ mem.users[a.email].id = a.id

(* An invitation makes one account: two accounts with one code never exist together,
   whichever registrations failed to save or died ("un code d'invitation valide est
   exigé (et consommé)"). *)
InviteOnce ==
    \A a, b \in accounts :
        a.code # NoCode /\ a.code = b.code /\ Exists(a) /\ Exists(b) => a = b

(* An account somebody was welcomed to is never lost or replaced, although RegisterUser
   may have failed to save it before (openSession answers after CreateSession). *)
AccountsLast == \A a \in confirmed : Exists(a)

(* A session opens the account it was given for until it expires or its user asks to
   close it, across restarts, failed saves and the purges of other sign-ins. *)
SessionsHonoured ==
    \A t \in DOMAIN cookies \ (expired \cup closing) : SessionUser(t) = cookies[t].email

(* A session that was closed opens no account again (users.go: "DeleteSession ferme une
   session web"), across restarts and the saves of other requests, as long as no save
   failed: DeleteSession reports none that does. *)
LogoutFinal == failures = 0 => \A t \in closed : SessionUser(t) = Nobody
=============================================================================
