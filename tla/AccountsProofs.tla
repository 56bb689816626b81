--------------------------- MODULE AccountsProofs ---------------------------
(* What the server promises its visitors, for any number of them and of failed
   saves and deaths of the process: type correctness, an invitation makes one
   account, an account that was confirmed is not lost, a session stays open until
   it is closed, and closed from then on.

   Memory and file are both Sound at any time, although they may differ: every
   promise was saved before it was made, and later changes keep it. *)
EXTENDS Accounts, TLAPS

In(s, a) == a.email \in DOMAIN s.users /\ s.users[a.email].id = a.id

(* s keeps the promises made in acc, conf and ck, but for the sessions in dead; the
   identifiers in it are among the n first. *)
Identified(s, n) ==
    /\ \A e \in DOMAIN s.users : s.users[e].id \in 1 .. n
    /\ \A e, f \in DOMAIN s.users : s.users[e].id = s.users[f].id => e = f

Invited(s, acc) ==
    /\ \A a \in acc : a.code # NoCode /\ In(s, a) => a.code \in DOMAIN s.invites /\ s.invites[a.code]
    /\ \A a, b \in acc : a.code # NoCode /\ a.code = b.code /\ In(s, a) /\ In(s, b) => a = b

Open(s, ck, dead) ==
    \A t \in DOMAIN ck \ dead : t \in DOMAIN s.sessions /\ s.sessions[t] = ck[t].id

Sound(s, n, acc, conf, ck, dead) ==
    /\ IsState(s)
    /\ Identified(s, n)
    /\ Invited(s, acc)
    /\ \A a \in conf : In(s, a)
    /\ Open(s, ck, dead)

Dead == expired \cup closing

IInv ==
    /\ TypeOK
    /\ Sound(mem, issued, accounts, confirmed, cookies, Dead)
    /\ Sound(disk, issued, accounts, confirmed, cookies, Dead)
    /\ \A v \in DOMAIN requests : In(mem, requests[v])
    /\ \A a \in accounts : a.id \in 1 .. issued
    /\ \A t \in DOMAIN cookies : t \in 1 .. issued /\ cookies[t] \in confirmed

-----------------------------------------------------------------------------
(* Maps and states *)

LEMMA PutType ==
    ASSUME NEW S, NEW T, NEW f, IsMap(f, S, T), NEW x \in S, NEW v \in T
    PROVE  IsMap(Put(f, x, v), S, T)
BY DEF IsMap, Put

LEMMA DeleteType ==
    ASSUME NEW S, NEW T, NEW f, IsMap(f, S, T), NEW x
    PROVE  IsMap(Delete(f, x), S, T)
BY DEF IsMap, Delete

LEMMA EmptyType == ASSUME NEW S, NEW T PROVE IsMap(Empty, S, T)
BY DEF IsMap, Empty

LEMMA NoStateType == IsState(NoState)
BY EmptyType DEF NoState, IsState

LEMMA StateWithInvites ==
    ASSUME NEW s, IsState(s), NEW inv, IsMap(inv, Codes, BOOLEAN)
    PROVE  /\ [s EXCEPT !.invites = inv] = [users |-> s.users, invites |-> inv, sessions |-> s.sessions]
           /\ IsState([s EXCEPT !.invites = inv])
<1>1. [s EXCEPT !.invites = inv] = [users |-> s.users, invites |-> inv, sessions |-> s.sessions]
  BY DEF IsState
<1> QED
  BY <1>1 DEF IsState

LEMMA StateWithSessions ==
    ASSUME NEW s, IsState(s), NEW sess, IsMap(sess, Number, Number)
    PROVE  /\ [s EXCEPT !.sessions = sess] = [users |-> s.users, invites |-> s.invites, sessions |-> sess]
           /\ IsState([s EXCEPT !.sessions = sess])
<1>1. [s EXCEPT !.sessions = sess] = [users |-> s.users, invites |-> s.invites, sessions |-> sess]
  BY DEF IsState
<1> QED
  BY <1>1 DEF IsState

LEMMA DrawFacts ==
    ASSUME TypeOK, NEW n, Draw(n)
    PROVE  /\ n \in Number /\ issued' = n /\ issued' \in 0 .. MaxIssued
           /\ 1 .. issued \subseteq 1 .. issued' /\ n \in 1 .. issued' /\ n \notin 1 .. issued
BY BoundsAssumption DEF TypeOK, Draw, Number

-----------------------------------------------------------------------------
(* The outcomes of a save *)

Outcome(s) == Saved(s) \/ SaveFailed(s) \/ Interrupted(s)

(* Whatever happens to a save, memory and file are old or new. *)
LEMMA OutcomeFacts ==
    ASSUME TypeOK, NEW s, IsState(s), Outcome(s)
    PROVE  /\ mem' \in {disk, s} /\ disk' \in {disk, s}
           /\ IsState(mem') /\ IsState(disk')
           /\ failures' \in 0 .. MaxFailures /\ restarts' \in 0 .. MaxRestarts
<1>1. mem' \in {disk, s} /\ disk' \in {disk, s}
  BY DEF Outcome, Saved, SaveFailed, Interrupted
<1>2. failures' \in 0 .. MaxFailures /\ restarts' \in 0 .. MaxRestarts
  BY BoundsAssumption DEF Outcome, Saved, SaveFailed, Interrupted, TypeOK
<1> QED
  BY <1>1, <1>2 DEF TypeOK

-----------------------------------------------------------------------------
(* Types *)

LEMMA InvitesType ==
    ASSUME TypeOK, NEW c \in Codes
    PROVE  /\ IsMap(Put(mem.invites, c, FALSE), Codes, BOOLEAN)
           /\ Usable(c) => IsMap([mem.invites EXCEPT ![c] = TRUE], Codes, BOOLEAN)
<1>1. IsMap(mem.invites, Codes, BOOLEAN)
  BY DEF TypeOK, IsState
<1>2. IsMap(Put(mem.invites, c, FALSE), Codes, BOOLEAN)
  BY <1>1, PutType
<1>3. Usable(c) => IsMap([mem.invites EXCEPT ![c] = TRUE], Codes, BOOLEAN)
  BY <1>1 DEF Usable, IsMap
<1> QED
  BY <1>2, <1>3

(* The state RegisterUser saves. *)
Registered(v, e, c, id) ==
    [users |-> Put(mem.users, e, [id |-> id, password |-> v]),
     invites |-> Consume(c), sessions |-> mem.sessions]

LEMMA RegisteredType ==
    ASSUME TypeOK, NEW v \in Visitors, NEW e \in Emails, NEW c \in Codes \cup {NoCode},
           NEW id \in Number, RegisterUser(v, e, c, id)
    PROVE  IsState(Registered(v, e, c, id))
<1>1. IsMap(Put(mem.users, e, [id |-> id, password |-> v]), Emails, [id : Number, password : Visitors])
  <2>1. IsMap(mem.users, Emails, [id : Number, password : Visitors])
    BY DEF TypeOK, IsState
  <2>2. [id |-> id, password |-> v] \in [id : Number, password : Visitors]
    OBVIOUS
  <2> QED
    BY <2>1, <2>2, PutType
<1>2. IsMap(Consume(c), Codes, BOOLEAN)
  <2>1. CASE InviteRequired
    BY <2>1, InvitesType DEF RegisterUser, Usable, Consume, TypeOK
  <2>2. CASE ~InviteRequired
    BY <2>2 DEF Consume, TypeOK, IsState
  <2> QED
    BY <2>1, <2>2
<1> QED
  BY <1>1, <1>2 DEF Registered, IsState, TypeOK

(* The state CreateSession saves. *)
SignedIn(v, t) == [mem EXCEPT !.sessions = Put(Purged, t, UserID(requests[v]))]

LEMMA SignedInFacts ==
    ASSUME TypeOK, NEW v \in DOMAIN requests, NEW t \in Number
    PROVE  /\ IsState(SignedIn(v, t))
           /\ SignedIn(v, t).users = mem.users /\ SignedIn(v, t).invites = mem.invites
           /\ SignedIn(v, t).sessions = Put(Purged, t, requests[v].id)
<1>1. IsMap(Purged, Number, Number) /\ requests[v].id \in Number
  BY DEF TypeOK, IsState, IsMap, Purged, Account
<1>2. IsMap(Put(Purged, t, requests[v].id), Number, Number)
  BY <1>1, PutType
<1> DEFINE sess == Put(Purged, t, requests[v].id)
<1>3. SignedIn(v, t) = [mem EXCEPT !.sessions = sess]
  BY DEF SignedIn, UserID
<1>4. IsMap(sess, Number, Number) /\ IsState(mem)
  BY <1>2 DEF TypeOK
<1> HIDE DEF sess
<1>5. SignedIn(v, t) = [users |-> mem.users, invites |-> mem.invites, sessions |-> sess]
      /\ IsState(SignedIn(v, t))
  BY <1>3, <1>4, StateWithSessions
<1> QED
  BY <1>5 DEF sess

(* The state DeleteSession saves. *)
SignedOut(t) == [mem EXCEPT !.sessions = Delete(@, t)]

LEMMA SignedOutFacts ==
    ASSUME TypeOK, NEW t
    PROVE  /\ IsState(SignedOut(t))
           /\ SignedOut(t).users = mem.users /\ SignedOut(t).invites = mem.invites
           /\ SignedOut(t).sessions = Delete(mem.sessions, t)
<1> DEFINE sess == Delete(mem.sessions, t)
<1>1. IsMap(sess, Number, Number) /\ IsState(mem)
  BY DeleteType DEF TypeOK, IsState
<1>2. SignedOut(t) = [mem EXCEPT !.sessions = sess]
  BY DEF SignedOut
<1> HIDE DEF sess
<1>3. SignedOut(t) = [users |-> mem.users, invites |-> mem.invites, sessions |-> sess]
      /\ IsState(SignedOut(t))
  BY <1>1, <1>2, StateWithSessions
<1> QED
  BY <1>3 DEF sess

(* The state CreateInvite saves. *)
WithInvite(c) == [mem EXCEPT !.invites = Put(@, c, FALSE)]

LEMMA WithInviteFacts ==
    ASSUME TypeOK, NEW c \in Codes
    PROVE  /\ IsState(WithInvite(c))
           /\ WithInvite(c).users = mem.users /\ WithInvite(c).sessions = mem.sessions
           /\ WithInvite(c).invites = Put(mem.invites, c, FALSE)
<1> DEFINE inv == Put(mem.invites, c, FALSE)
<1>1. IsMap(inv, Codes, BOOLEAN) /\ IsState(mem)
  BY InvitesType DEF TypeOK
<1>2. WithInvite(c) = [mem EXCEPT !.invites = inv]
  BY DEF WithInvite
<1> HIDE DEF inv
<1>3. WithInvite(c) = [users |-> mem.users, invites |-> inv, sessions |-> mem.sessions]
      /\ IsState(WithInvite(c))
  BY <1>1, <1>2, StateWithInvites
<1> QED
  BY <1>3 DEF inv

LEMMA TypeOKInit == Init => TypeOK
BY BoundsAssumption, NoStateType, EmptyType DEF Init, TypeOK

LEMMA RequestsGone == ASSUME requests' = Empty PROVE IsMap(requests', Visitors, Account)
BY EmptyType

LEMMA TypeOKStep == ASSUME TypeOK, [Next]_vars PROVE TypeOK'
<1>1. ASSUME NEW c \in Codes, CreateInvite(c)
      PROVE  TypeOK'
  <2>1. IsState(WithInvite(c)) /\ Outcome(WithInvite(c))
    BY <1>1, WithInviteFacts DEF CreateInvite, Outcome, WithInvite
  <2>2. IsMap(requests', Visitors, Account)
    BY <1>1, RequestsGone DEF CreateInvite, Interrupted, TypeOK
  <2>3. returned' \subseteq Codes
    BY <1>1 DEF CreateInvite, TypeOK
  <2> QED
    BY <1>1, <2>1, <2>2, <2>3, OutcomeFacts DEF CreateInvite, TypeOK
<1>2. ASSUME NEW v \in Visitors, NEW e \in Emails, NEW c \in Codes \cup {NoCode},
             NEW id \in Number, RegisterUser(v, e, c, id)
      PROVE  TypeOK'
  <2>1. IsState(Registered(v, e, c, id)) /\ Outcome(Registered(v, e, c, id))
    BY <1>2, RegisteredType DEF RegisterUser, Outcome, Registered
  <2>2. IsMap(requests', Visitors, Account)
    <3>1. [email |-> e, id |-> id] \in Account /\ IsMap(requests, Visitors, Account)
      BY DEF Account, TypeOK
    <3>2. IsMap(Put(requests, v, [email |-> e, id |-> id]), Visitors, Account)
      BY <3>1, PutType
    <3> QED
      BY <1>2, <3>1, <3>2, RequestsGone DEF RegisterUser, Interrupted
  <2>3. accounts' \subseteq [email : Emails, id : Number, code : Codes \cup {NoCode}]
    BY <1>2 DEF RegisterUser, TypeOK
  <2>4. issued' \in 0 .. MaxIssued
    BY <1>2, DrawFacts DEF RegisterUser
  <2> QED
    BY <1>2, <2>1, <2>2, <2>3, <2>4, OutcomeFacts DEF RegisterUser, TypeOK
<1>3. ASSUME NEW v \in Visitors, NEW e \in Emails, Authenticate(v, e)
      PROVE  TypeOK'
  <2>1. mem.users[e].id \in Number
    BY <1>3 DEF Authenticate, TypeOK, IsState, IsMap
  <2>2. [email |-> e, id |-> mem.users[e].id] \in Account /\ IsMap(requests, Visitors, Account)
    BY <2>1 DEF Account, TypeOK
  <2>3. IsMap(requests', Visitors, Account)
    BY <1>3, <2>2, PutType DEF Authenticate
  <2> QED
    BY <1>3, <2>3 DEF Authenticate, TypeOK, told
<1>4. ASSUME NEW v \in Visitors, NEW t \in Number, CreateSession(v, t)
      PROVE  TypeOK'
  <2>0. v \in DOMAIN requests /\ requests[v] \in Account
    BY <1>4 DEF CreateSession, TypeOK, IsMap
  <2>1. IsState(SignedIn(v, t)) /\ Outcome(SignedIn(v, t))
    BY <1>4, <2>0, SignedInFacts DEF CreateSession, Outcome, SignedIn
  <2>2. IsMap(requests', Visitors, Account)
    BY <1>4, DeleteType, RequestsGone DEF CreateSession, Interrupted, TypeOK
  <2>3. IsMap(cookies', Number, Account)
    BY <1>4, <2>0, PutType DEF CreateSession, TypeOK
  <2>4. confirmed' \subseteq Account
    BY <1>4, <2>0 DEF CreateSession, TypeOK
  <2>5. issued' \in 0 .. MaxIssued
    BY <1>4, DrawFacts DEF CreateSession
  <2> QED
    BY <1>4, <2>1, <2>2, <2>3, <2>4, <2>5, OutcomeFacts DEF CreateSession, TypeOK
<1>5. ASSUME NEW t \in Number, Logout(t)
      PROVE  TypeOK'
  <2>1. IsState(SignedOut(t)) /\ Outcome(SignedOut(t))
    BY <1>5, SignedOutFacts DEF Logout, DeleteSession, Outcome, SignedOut
  <2>2. IsMap(requests', Visitors, Account)
    BY <1>5, RequestsGone DEF Logout, DeleteSession, Interrupted, TypeOK
  <2>3. closing' \subseteq Number /\ closed' \subseteq Number
    BY <1>5 DEF Logout, DeleteSession, TypeOK
  <2> QED
    BY <1>5, <2>1, <2>2, <2>3, OutcomeFacts DEF Logout, TypeOK
<1>6. ASSUME NEW x \in Codes \cup Number, Expire(x)
      PROVE  TypeOK'
  BY <1>6 DEF Expire, TypeOK, told
<1>7. CASE Restart
  <2>1. IsState(disk) /\ Outcome(disk)
    BY <1>7 DEF Restart, Outcome, TypeOK
  <2>2. IsMap(requests', Visitors, Account)
    BY <1>7, RequestsGone DEF Restart, Interrupted
  <2> QED
    BY <1>7, <2>1, <2>2, OutcomeFacts DEF Restart, TypeOK, told
<1>8. CASE UNCHANGED vars
  BY <1>8 DEF vars, told, TypeOK
<1> QED
  BY <1>1, <1>2, <1>3, <1>4, <1>5, <1>6, <1>7, <1>8 DEF Next

(* The types of Accounts: states in memory and in the file, requests, history. *)
THEOREM TypeCorrect == Spec => []TypeOK
<1>1. Init => TypeOK
  BY TypeOKInit
<1>2. TypeOK /\ [Next]_vars => TypeOK'
  BY TypeOKStep
<1> QED
  BY <1>1, <1>2, PTL DEF Spec

-----------------------------------------------------------------------------
(* Promises *)

(* More identifiers and more sessions that nobody counts on do not matter. *)
LEMMA StillSound ==
    ASSUME NEW s, NEW n, NEW n2, NEW acc, NEW conf, NEW ck, NEW dead, NEW dead2,
           Sound(s, n, acc, conf, ck, dead), 1 .. n \subseteq 1 .. n2, dead \subseteq dead2
    PROVE  Sound(s, n2, acc, conf, ck, dead2)
<1>1. Identified(s, n2)
  BY DEF Sound, Identified
<1>2. Open(s, ck, dead2)
  BY DEF Sound, Open
<1> QED
  BY <1>1, <1>2 DEF Sound

(* Nor does an account that s does not have. *)
LEMMA StillInvited ==
    ASSUME NEW s, NEW acc, Invited(s, acc), NEW a, ~In(s, a)
    PROVE  Invited(s, acc \cup {a})
BY DEF Invited

(* Accounts are looked up in the users only. *)
LEMMA SameUsers ==
    ASSUME NEW s, NEW s2, s2.users = s.users
    PROVE  \A a : In(s2, a) <=> In(s, a)
BY DEF In

LEMMA SoundWithInvite ==
    ASSUME IInv, NEW c \in Codes, c \notin DOMAIN mem.invites
    PROVE  Sound(WithInvite(c), issued, accounts, confirmed, cookies, Dead)
<1> DEFINE s == WithInvite(c)
<1>1. /\ IsState(s) /\ s.users = mem.users /\ s.sessions = mem.sessions
      /\ s.invites = Put(mem.invites, c, FALSE)
  BY WithInviteFacts DEF IInv
<1>2. \A a : In(s, a) <=> In(mem, a)
  BY <1>1, SameUsers
<1>3. Sound(mem, issued, accounts, confirmed, cookies, Dead)
  BY DEF IInv
<1> HIDE DEF s
<1>4. Identified(s, issued) /\ Open(s, cookies, Dead)
  BY <1>1, <1>3 DEF Sound, Identified, Open
<1>5. Invited(s, accounts)
  BY <1>1, <1>2, <1>3 DEF Sound, Invited, Put
<1>6. Sound(s, issued, accounts, confirmed, cookies, Dead)
  BY <1>1, <1>2, <1>3, <1>4, <1>5 DEF Sound
<1> QED
  BY <1>6 DEF s

LEMMA SoundSignedOut ==
    ASSUME IInv, NEW t
    PROVE  Sound(SignedOut(t), issued, accounts, confirmed, cookies, Dead \cup {t})
<1> DEFINE s == SignedOut(t)
<1>1. /\ IsState(s) /\ s.users = mem.users /\ s.invites = mem.invites
      /\ s.sessions = Delete(mem.sessions, t)
  BY SignedOutFacts DEF IInv
<1>2. \A a : In(s, a) <=> In(mem, a)
  BY <1>1, SameUsers
<1>3. Sound(mem, issued, accounts, confirmed, cookies, Dead)
  BY DEF IInv
<1> HIDE DEF s
<1>4. Identified(s, issued) /\ Invited(s, accounts)
  BY <1>1, <1>2, <1>3 DEF Sound, Identified, Invited
<1>5. Open(s, cookies, Dead \cup {t})
  BY <1>1, <1>3 DEF Sound, Open, Delete
<1>6. Sound(s, issued, accounts, confirmed, cookies, Dead \cup {t})
  BY <1>1, <1>2, <1>3, <1>4, <1>5 DEF Sound
<1> QED
  BY <1>6 DEF s

LEMMA SoundSignedIn ==
    ASSUME IInv, NEW v \in DOMAIN requests, NEW t \in Number, Draw(t)
    PROVE  /\ Sound(SignedIn(v, t), t, accounts, confirmed, cookies, Dead)
           /\ Sound(SignedIn(v, t), t, accounts, confirmed \cup {requests[v]},
                    Put(cookies, t, requests[v]), Dead)
<1> DEFINE s == SignedIn(v, t)
           a == requests[v]
<1>0. /\ TypeOK
      /\ Sound(mem, issued, accounts, confirmed, cookies, Dead)
      /\ \A u \in DOMAIN cookies : u \in 1 .. issued
      /\ In(mem, a)
  BY DEF IInv
<1>1. /\ IsState(s) /\ s.users = mem.users /\ s.invites = mem.invites
      /\ s.sessions = Put(Purged, t, a.id)
  BY <1>0, SignedInFacts
<1>2. \A b : In(s, b) <=> In(mem, b)
  BY <1>1, SameUsers
<1>3. t \notin 1 .. issued /\ 1 .. issued \subseteq 1 .. t
  BY <1>0, DrawFacts
<1> HIDE DEF s, a
<1>4. Identified(s, t) /\ Invited(s, accounts)
  BY <1>0, <1>1, <1>2, <1>3 DEF Sound, Identified, Invited
<1>5. \A u \in DOMAIN cookies \ Dead :
          u # t /\ u \in DOMAIN s.sessions /\ s.sessions[u] = cookies[u].id
  BY <1>0, <1>1, <1>3 DEF Sound, Open, Put, Purged, Dead
<1>6. t \in DOMAIN s.sessions /\ s.sessions[t] = a.id
  BY <1>1 DEF Put
<1>7. Open(s, cookies, Dead) /\ Open(s, Put(cookies, t, a), Dead)
  BY <1>5, <1>6 DEF Open, Put
<1>8. \A b \in confirmed \cup {a} : In(s, b)
  BY <1>0, <1>2 DEF Sound
<1>9. Sound(s, t, accounts, confirmed, cookies, Dead)
      /\ Sound(s, t, accounts, confirmed \cup {a}, Put(cookies, t, a), Dead)
  BY <1>1, <1>4, <1>7, <1>8 DEF Sound
<1> QED
  BY <1>9 DEF s, a

LEMMA SoundRegistered ==
    ASSUME IInv, NEW v \in Visitors, NEW e \in Emails, NEW c \in Codes \cup {NoCode},
           NEW id \in Number, RegisterUser(v, e, c, id)
    PROVE  /\ Sound(Registered(v, e, c, id), id,
                    accounts \cup {[email |-> e, id |-> id, code |-> c]}, confirmed, cookies, Dead)
           /\ In(Registered(v, e, c, id), [email |-> e, id |-> id])
           /\ \A a : In(mem, a) => In(Registered(v, e, c, id), a)
<1> DEFINE s == Registered(v, e, c, id)
           new == [email |-> e, id |-> id, code |-> c]
<1>0. /\ TypeOK
      /\ Sound(mem, issued, accounts, confirmed, cookies, Dead)
      /\ \A a \in accounts : a.id \in 1 .. issued
  BY DEF IInv
<1>1. /\ e \notin DOMAIN mem.users /\ Draw(id)
      /\ IF InviteRequired THEN Usable(c) ELSE c = NoCode
  BY DEF RegisterUser, Taken
<1>2. IsState(s)
  BY <1>0, RegisteredType
<1>3. /\ s.users = Put(mem.users, e, [id |-> id, password |-> v])
      /\ s.invites = Consume(c) /\ s.sessions = mem.sessions
  BY DEF Registered
<1>4. id \in 1 .. id /\ id \notin 1 .. issued /\ 1 .. issued \subseteq 1 .. id
  BY <1>0, <1>1, DrawFacts
<1>5. /\ DOMAIN s.users = DOMAIN mem.users \cup {e}
      /\ \A f \in DOMAIN mem.users : s.users[f].id = mem.users[f].id
      /\ s.users[e].id = id
  BY <1>1, <1>3 DEF Put
<1> HIDE DEF s
<1>6. Identified(s, id)
  BY <1>0, <1>4, <1>5 DEF Sound, Identified
<1>7. \A a : In(mem, a) => In(s, a)
  BY <1>5 DEF In
<1>8. \A a \in accounts : In(s, a) => In(mem, a)
  BY <1>0, <1>4, <1>5 DEF In
<1>9. \A d \in DOMAIN mem.invites : d \in DOMAIN s.invites /\ (mem.invites[d] => s.invites[d])
  BY <1>3 DEF Consume
<1>10. c # NoCode => /\ c \in DOMAIN s.invites /\ s.invites[c]
                     /\ \A a \in accounts : a.code = c => ~In(mem, a)
  BY <1>0, <1>1, <1>3 DEF Consume, Usable, Sound, Invited
<1>11. Invited(s, accounts \cup {new})
  <2>1. new.code = c
    OBVIOUS
  <2> HIDE DEF new
  <2>2. \A a \in accounts \cup {new} : a.code # NoCode /\ In(s, a)
            => a.code \in DOMAIN s.invites /\ s.invites[a.code]
    BY <1>0, <1>8, <1>9, <1>10, <2>1 DEF Sound, Invited
  <2>3. \A a, b \in accounts \cup {new} :
            a.code # NoCode /\ a.code = b.code /\ In(s, a) /\ In(s, b) => a = b
    BY <1>0, <1>8, <1>10, <2>1 DEF Sound, Invited
  <2> QED
    BY <2>2, <2>3 DEF Invited
<1>12. Open(s, cookies, Dead) /\ \A a \in confirmed : In(s, a)
  BY <1>0, <1>3, <1>7 DEF Sound, Open
<1>13. In(s, [email |-> e, id |-> id])
  BY <1>5 DEF In
<1>14. Sound(s, id, accounts \cup {new}, confirmed, cookies, Dead)
  BY <1>2, <1>6, <1>11, <1>12 DEF Sound
<1> QED
  BY <1>7, <1>13, <1>14 DEF s

-----------------------------------------------------------------------------
(* The inductive invariant *)

Promises(s) == Sound(s, issued, accounts, confirmed, cookies, Dead)

LEMMA IInvInit == Init => IInv
<1> SUFFICES ASSUME Init PROVE IInv
  OBVIOUS
<1>1. TypeOK /\ IsState(mem) /\ IsState(disk)
  BY TypeOKInit DEF TypeOK
<1>2. /\ mem.users = Empty /\ disk.users = Empty /\ accounts = {} /\ confirmed = {}
      /\ DOMAIN cookies = {} /\ DOMAIN requests = {}
  BY DEF Init, NoState, Empty
<1>3. Promises(mem) /\ Promises(disk)
  BY <1>1, <1>2 DEF Promises, Sound, Identified, Invited, Open, In, Empty
<1> QED
  BY <1>1, <1>2, <1>3 DEF IInv, Promises

(* A call that makes no promise saves s, and any outcome keeps the old ones. *)
LEMMA OutcomeSound ==
    ASSUME NEW s, Outcome(s), NEW n, NEW acc, NEW conf, NEW ck, NEW dead,
           Sound(s, n, acc, conf, ck, dead), Sound(disk, n, acc, conf, ck, dead)
    PROVE  Sound(mem', n, acc, conf, ck, dead) /\ Sound(disk', n, acc, conf, ck, dead)
<1>1. (mem' = s \/ mem' = disk) /\ (disk' = s \/ disk' = disk)
  BY DEF Outcome, Saved, SaveFailed, Interrupted
<1> QED
  BY <1>1

(* The requests that wait are for accounts in memory, or were lost with the process. *)
LEMMA RequestsKept ==
    ASSUME NEW s, Outcome(s), \A v \in DOMAIN requests : In(mem, requests[v]),
           \A a : In(mem, a) => In(s, a),
           \/ requests' = Empty
           \/ mem' = s /\ \A v \in DOMAIN requests' :
                  (v \in DOMAIN requests /\ requests'[v] = requests[v]) \/ In(s, requests'[v])
    PROVE  \A v \in DOMAIN requests' : In(mem', requests'[v])
<1>1. CASE requests' = Empty
  BY <1>1 DEF Empty
<1>2. CASE requests' # Empty
  BY <1>2
<1> QED
  BY <1>1, <1>2

LEMMA IInvStep == ASSUME IInv, [Next]_vars PROVE IInv'
<1>0. TypeOK /\ TypeOK'
  BY TypeOKStep DEF IInv
<1>1. ASSUME NEW c \in Codes, CreateInvite(c)
      PROVE  IInv'
  <2> DEFINE s == WithInvite(c)
  <2>1. Outcome(s) /\ UNCHANGED <<issued, accounts, confirmed, cookies, Dead>>
    BY <1>1 DEF CreateInvite, Outcome, WithInvite, Dead
  <2>2. Sound(s, issued, accounts, confirmed, cookies, Dead)
    BY <1>1, SoundWithInvite DEF CreateInvite
  <2>3. s.users = mem.users
    BY <1>0, WithInviteFacts
  <2>4. requests' = Empty \/ (mem' = s /\ requests' = requests)
    BY <1>1 DEF CreateInvite, Saved, SaveFailed, Interrupted, WithInvite
  <2> HIDE DEF s
  <2>5. Promises(mem)' /\ Promises(disk)'
    BY <2>1, <2>2, OutcomeSound DEF IInv, Promises
  <2>6. \A v \in DOMAIN requests' : In(mem', requests'[v])
    BY <2>1, <2>3, <2>4, RequestsKept, SameUsers DEF IInv
  <2> QED
    BY <1>0, <2>1, <2>5, <2>6 DEF IInv, Promises
<1>2. ASSUME NEW v \in Visitors, NEW e \in Emails, NEW c \in Codes \cup {NoCode},
             NEW id \in Number, RegisterUser(v, e, c, id)
      PROVE  IInv'
  <2> DEFINE s == Registered(v, e, c, id)
             new == [email |-> e, id |-> id, code |-> c]
  <2>1. /\ Outcome(s) /\ UNCHANGED <<confirmed, cookies, Dead>>
        /\ issued' = id /\ accounts' = accounts \cup {new}
    BY <1>2 DEF RegisterUser, Outcome, Registered, Dead, Draw
  <2>2. /\ Sound(s, id, accounts', confirmed, cookies, Dead)
        /\ In(s, [email |-> e, id |-> id]) /\ \A a : In(mem, a) => In(s, a)
    BY <1>2, <2>1, SoundRegistered
  <2>3. id \in 1 .. id /\ id \notin 1 .. issued /\ 1 .. issued \subseteq 1 .. id
    BY <1>0, <1>2, DrawFacts DEF RegisterUser
  <2>4. \/ requests' = Empty
        \/ mem' = s /\ requests' = Put(requests, v, [email |-> e, id |-> id])
        \/ mem' = s /\ requests' = requests
    BY <1>2 DEF RegisterUser, Saved, SaveFailed, Interrupted, Registered
  <2>5. new.id = id /\ new.email = e
    OBVIOUS
  <2> HIDE DEF s, new
  <2>6. Sound(disk, id, accounts', confirmed, cookies, Dead)
    <3>1. Sound(disk, id, accounts, confirmed, cookies, Dead)
      BY <2>3, StillSound DEF IInv
    <3>2. ~In(disk, new)
      BY <2>3, <2>5 DEF IInv, Sound, Identified, In
    <3> QED
      BY <2>1, <3>1, <3>2, StillInvited DEF Sound
  <2>7. Promises(mem)' /\ Promises(disk)'
    BY <2>1, <2>2, <2>6, OutcomeSound DEF Promises
  <2>8. \A w \in DOMAIN requests' : In(mem', requests'[w])
    BY <2>1, <2>2, <2>4, RequestsKept DEF IInv, Put
  <2>9. \A a \in accounts' : a.id \in 1 .. issued'
    BY <2>1, <2>3, <2>5 DEF IInv
  <2>10. \A t \in DOMAIN cookies' : t \in 1 .. issued' /\ cookies'[t] \in confirmed'
    BY <2>1, <2>3 DEF IInv
  <2> QED
    BY <1>0, <2>7, <2>8, <2>9, <2>10 DEF IInv, Promises
<1>3. ASSUME NEW v \in Visitors, NEW e \in Emails, Authenticate(v, e)
      PROVE  IInv'
  <2>1. /\ requests' = Put(requests, v, [email |-> e, id |-> mem.users[e].id])
        /\ UNCHANGED <<mem, disk, issued, accounts, confirmed, cookies, Dead>>
    BY <1>3 DEF Authenticate, told, Dead
  <2>2. In(mem, [email |-> e, id |-> mem.users[e].id])
    BY <1>3 DEF Authenticate, In
  <2>3. \A w \in DOMAIN requests' : In(mem, requests'[w])
    BY <2>1, <2>2 DEF IInv, Put
  <2> QED
    BY <1>0, <2>1, <2>3 DEF IInv
<1>4. ASSUME NEW v \in Visitors, NEW t \in Number, CreateSession(v, t)
      PROVE  IInv'
  <2> DEFINE s == SignedIn(v, t)
  <2>1. /\ Outcome(s) /\ UNCHANGED <<accounts, Dead>> /\ issued' = t
        /\ v \in DOMAIN requests /\ Draw(t)
    BY <1>4 DEF CreateSession, Outcome, SignedIn, Dead, Draw
  <2>2. /\ Sound(s, t, accounts, confirmed, cookies, Dead)
        /\ Sound(s, t, accounts, confirmed \cup {requests[v]}, Put(cookies, t, requests[v]), Dead)
    BY <2>1, SoundSignedIn
  <2>3. t \in 1 .. t /\ 1 .. issued \subseteq 1 .. t
    BY <1>0, <2>1, DrawFacts
  <2>4. s.users = mem.users
    BY <1>0, <2>1, SignedInFacts
  <2>5. requests' = Empty \/ (mem' = s /\ requests' = Delete(requests, v))
    BY <1>4 DEF CreateSession, Saved, SaveFailed, Interrupted, SignedIn
  <2>6. \/ /\ mem' = s /\ disk' = s
           /\ confirmed' = confirmed \cup {requests[v]} /\ cookies' = Put(cookies, t, requests[v])
        \/ UNCHANGED <<confirmed, cookies>>
    BY <1>4 DEF CreateSession, Saved, SignedIn
  <2> HIDE DEF s
  <2>7. Sound(disk, t, accounts, confirmed, cookies, Dead)
    BY <2>3, StillSound DEF IInv
  <2>8. Promises(mem)' /\ Promises(disk)'
    <3>1. CASE UNCHANGED <<confirmed, cookies>>
      BY <2>1, <2>2, <2>7, <3>1, OutcomeSound DEF Promises
    <3>2. CASE ~UNCHANGED <<confirmed, cookies>>
      BY <2>1, <2>2, <2>6, <3>2 DEF Promises
    <3> QED
      BY <3>1, <3>2
  <2>9. \A w \in DOMAIN requests' : In(mem', requests'[w])
    BY <2>1, <2>4, <2>5, RequestsKept, SameUsers DEF IInv, Delete
  <2>10. \A a \in accounts' : a.id \in 1 .. issued'
    BY <2>1, <2>3 DEF IInv
  <2>11. \A u \in DOMAIN cookies' : u \in 1 .. issued' /\ cookies'[u] \in confirmed'
    BY <2>1, <2>3, <2>6 DEF IInv, Put
  <2> QED
    BY <1>0, <2>8, <2>9, <2>10, <2>11 DEF IInv, Promises
<1>5. ASSUME NEW t \in Number, Logout(t)
      PROVE  IInv'
  <2> DEFINE s == SignedOut(t)
  <2>1. Outcome(s) /\ UNCHANGED <<issued, accounts, confirmed, cookies>> /\ Dead' = Dead \cup {t}
    BY <1>5 DEF Logout, DeleteSession, Outcome, SignedOut, Dead
  <2>2. Sound(s, issued, accounts, confirmed, cookies, Dead \cup {t})
    BY SoundSignedOut
  <2>3. s.users = mem.users
    BY <1>0, SignedOutFacts
  <2>4. requests' = Empty \/ (mem' = s /\ requests' = requests)
    BY <1>5 DEF Logout, DeleteSession, Saved, SaveFailed, Interrupted, SignedOut
  <2> HIDE DEF s
  <2>5. Sound(disk, issued, accounts, confirmed, cookies, Dead \cup {t})
    BY StillSound DEF IInv
  <2>6. Promises(mem)' /\ Promises(disk)'
    BY <2>1, <2>2, <2>5, OutcomeSound DEF Promises
  <2>7. \A v \in DOMAIN requests' : In(mem', requests'[v])
    BY <2>1, <2>3, <2>4, RequestsKept, SameUsers DEF IInv
  <2> QED
    BY <1>0, <2>1, <2>6, <2>7 DEF IInv, Promises
<1>6. ASSUME NEW x \in Codes \cup Number, Expire(x)
      PROVE  IInv'
  <2>1. /\ UNCHANGED <<mem, disk, requests, issued, accounts, confirmed, cookies>>
        /\ Dead \subseteq Dead'
    BY <1>6 DEF Expire, told, Dead
  <2>2. Promises(mem)' /\ Promises(disk)'
    BY <2>1, StillSound DEF IInv, Promises
  <2> QED
    BY <1>0, <2>1, <2>2 DEF IInv, Promises
<1>7. CASE Restart
  <2>1. Outcome(disk) /\ UNCHANGED <<issued, accounts, confirmed, cookies, Dead>> /\ requests' = Empty
    BY <1>7 DEF Restart, Interrupted, Outcome, told, Dead
  <2>2. Promises(mem)' /\ Promises(disk)'
    BY <2>1, OutcomeSound DEF IInv, Promises
  <2>3. \A v \in DOMAIN requests' : In(mem', requests'[v])
    BY <2>1 DEF Empty
  <2> QED
    BY <1>0, <2>1, <2>2, <2>3 DEF IInv, Promises
<1>8. CASE UNCHANGED vars
  BY <1>0, <1>8 DEF vars, told, IInv, Dead
<1> QED
  BY <1>1, <1>2, <1>3, <1>4, <1>5, <1>6, <1>7, <1>8 DEF Next

LEMMA IInvAlways == Spec => []IInv
<1>1. Init => IInv
  BY IInvInit
<1>2. IInv /\ [Next]_vars => IInv'
  BY IInvStep
<1> QED
  BY <1>1, <1>2, PTL DEF Spec

(* One invitation, one account, whichever registrations failed or died. *)
THEOREM InvitationsOnce == Spec => []InviteOnce
<1>1. IInv => InviteOnce
  BY DEF IInv, Sound, Invited, In, InviteOnce, Exists
<1> QED
  BY <1>1, IInvAlways, PTL

(* No account that was confirmed is lost or replaced. *)
THEOREM AccountsKept == Spec => []AccountsLast
<1>1. IInv => AccountsLast
  BY DEF IInv, Sound, In, AccountsLast, Exists
<1> QED
  BY <1>1, IInvAlways, PTL

(* A session opens its account until it expires or somebody asks to close it. *)
THEOREM SessionsKept == Spec => []SessionsHonoured
<1>1. IInv => SessionsHonoured
  <2> SUFFICES ASSUME IInv, NEW t \in DOMAIN cookies \ Dead
               PROVE  SessionUser(t) = cookies[t].email
    BY DEF SessionsHonoured, Dead
  <2> DEFINE owners == {e \in DOMAIN mem.users : mem.users[e].id = mem.sessions[t]}
  <2>1. t \in DOMAIN mem.sessions \ expired /\ mem.sessions[t] = cookies[t].id
    BY DEF IInv, Sound, Open, Dead
  <2>2. In(mem, cookies[t])
    BY DEF IInv, Sound
  <2>3. owners = {cookies[t].email}
    BY <2>1, <2>2 DEF IInv, Sound, Identified, In
  <2>4. (CHOOSE e \in owners : TRUE) = cookies[t].email
    BY <2>3
  <2> QED
    BY <2>1, <2>3, <2>4 DEF SessionUser
<1> QED
  BY <1>1, IInvAlways, PTL

-----------------------------------------------------------------------------
(* Closed sessions *)

(* As long as no save failed, the file is what is in memory, and neither has a
   session that was closed. *)
ClosedInv ==
    /\ closed \subseteq DOMAIN cookies
    /\ failures = 0 => mem = disk /\ closed \cap DOMAIN mem.sessions = {}

LEMMA NoFailure ==
    ASSUME TypeOK, ClosedInv, NEW s, Outcome(s), failures' = 0
    PROVE  /\ mem' = disk' /\ mem' \in {mem, s} /\ closed \cap DOMAIN mem.sessions = {}
           /\ Saved(s) => mem' = s
<1>1. failures \in Nat
  BY BoundsAssumption DEF TypeOK
<1>2. failures = 0 /\ ~SaveFailed(s)
  BY <1>1 DEF Outcome, Saved, SaveFailed, Interrupted
<1>3. CASE Saved(s)
  BY <1>2, <1>3 DEF Saved, ClosedInv
<1>4. CASE ~Saved(s) /\ Interrupted(s)
  BY <1>2, <1>4 DEF Interrupted, ClosedInv
<1> QED
  BY <1>2, <1>3, <1>4 DEF Outcome

(* A call that opens no session of those that were closed, and closes none. *)
LEMMA ClosedKept ==
    ASSUME TypeOK, ClosedInv, closed' = closed, DOMAIN cookies \subseteq DOMAIN cookies',
           NEW s, Outcome(s), closed \cap DOMAIN s.sessions \subseteq closed \cap DOMAIN mem.sessions
    PROVE  ClosedInv'
<1>1. closed' \subseteq DOMAIN cookies'
  BY DEF ClosedInv
<1>2. ASSUME failures' = 0
      PROVE  mem' = disk' /\ closed' \cap DOMAIN mem'.sessions = {}
  BY <1>2, NoFailure
<1> QED
  BY <1>1, <1>2 DEF ClosedInv

LEMMA ClosedStep ==
    ASSUME IInv, ClosedInv, [Next]_vars
    PROVE  ClosedInv'
<1>0. TypeOK /\ closed \subseteq 1 .. issued
  BY DEF IInv, ClosedInv
<1>1. ASSUME NEW c \in Codes, CreateInvite(c)
      PROVE  ClosedInv'
  <2>1. Outcome(WithInvite(c)) /\ UNCHANGED <<closed, cookies>>
    BY <1>1 DEF CreateInvite, Outcome, WithInvite
  <2>2. WithInvite(c).sessions = mem.sessions
    BY <1>0, WithInviteFacts
  <2> QED
    BY <1>0, <2>1, <2>2, ClosedKept
<1>2. ASSUME NEW v \in Visitors, NEW e \in Emails, NEW c \in Codes \cup {NoCode},
             NEW id \in Number, RegisterUser(v, e, c, id)
      PROVE  ClosedInv'
  <2>1. Outcome(Registered(v, e, c, id)) /\ UNCHANGED <<closed, cookies>>
    BY <1>2 DEF RegisterUser, Outcome, Registered
  <2>2. Registered(v, e, c, id).sessions = mem.sessions
    BY DEF Registered
  <2> QED
    BY <1>0, <2>1, <2>2, ClosedKept
<1>3. ASSUME NEW v \in Visitors, NEW t \in Number, CreateSession(v, t)
      PROVE  ClosedInv'
  <2>1. /\ Outcome(SignedIn(v, t)) /\ closed' = closed /\ v \in DOMAIN requests
        /\ Draw(t) /\ DOMAIN cookies \subseteq DOMAIN cookies'
    BY <1>3 DEF CreateSession, Outcome, SignedIn, Put
  <2>2. t \notin closed
    BY <1>0, <2>1, DrawFacts
  <2>3. DOMAIN SignedIn(v, t).sessions \subseteq DOMAIN mem.sessions \cup {t}
    <3> DEFINE sess == Put(Purged, t, requests[v].id)
    <3>1. DOMAIN sess \subseteq DOMAIN mem.sessions \cup {t}
      BY DEF Put, Purged
    <3>2. SignedIn(v, t).sessions = sess
      BY <1>0, <2>1, SignedInFacts
    <3> HIDE DEF sess
    <3> QED
      BY <3>1, <3>2
  <2> QED
    BY <1>0, <2>1, <2>2, <2>3, ClosedKept
<1>4. ASSUME NEW t \in Number, Logout(t)
      PROVE  ClosedInv'
  <2>1. /\ t \in DOMAIN cookies /\ cookies' = cookies
        /\ closed' \in {closed, closed \cup {t}} /\ Outcome(SignedOut(t))
        /\ Interrupted(SignedOut(t)) /\ ~Saved(SignedOut(t)) /\ ~SaveFailed(SignedOut(t))
               => closed' = closed
    BY <1>4 DEF Logout, DeleteSession, Outcome, SignedOut
  <2>2. DOMAIN SignedOut(t).sessions = DOMAIN mem.sessions \ {t}
    BY <1>0, SignedOutFacts DEF Delete
  <2>3. closed' \subseteq DOMAIN cookies'
    BY <2>1 DEF ClosedInv
  <2>4. ASSUME failures' = 0
        PROVE  mem' = disk' /\ closed' \cap DOMAIN mem'.sessions = {}
    <3>1. /\ mem' = disk' /\ mem' \in {mem, SignedOut(t)} /\ closed \cap DOMAIN mem.sessions = {}
          /\ Saved(SignedOut(t)) => mem' = SignedOut(t)
      BY <1>0, <2>1, <2>4, NoFailure
    <3>2. ~SaveFailed(SignedOut(t))
      BY <1>0, <2>4, BoundsAssumption DEF SaveFailed, TypeOK
    <3>3. CASE closed' = closed
      BY <2>2, <3>1, <3>3
    <3>4. CASE Saved(SignedOut(t))
      BY <2>1, <2>2, <3>1, <3>4
    <3> QED
      BY <2>1, <3>2, <3>3, <3>4 DEF Outcome
  <2> QED
    BY <2>3, <2>4 DEF ClosedInv
<1>5. CASE Restart
  BY <1>5 DEF Restart, Interrupted, told, ClosedInv
<1>6. CASE UNCHANGED <<mem, disk, failures, closed, cookies>>
  BY <1>6 DEF ClosedInv
<1> QED
  BY <1>1, <1>2, <1>3, <1>4, <1>5, <1>6 DEF Next, Authenticate, Expire, vars, told

(* A session whose logout was answered opens no account again, through restarts, deaths
   of the process and the saves of others, as long as no save failed. *)
THEOREM LogoutsLast == Spec => []LogoutFinal
<1>1. Init => ClosedInv
  BY DEF Init, ClosedInv
<1>2. IInv /\ ClosedInv /\ [Next]_vars => ClosedInv'
  BY ClosedStep
<1>3. ClosedInv => LogoutFinal
  BY DEF ClosedInv, LogoutFinal, SessionUser
<1> QED
  BY <1>1, <1>2, <1>3, IInvAlways, PTL DEF Spec
=============================================================================
