------------------------ MODULE TokenRotationProofs -------------------------
(***************************************************************************)
(* The type invariant, AtMostOneBehind, NoLockout and the refinement of    *)
(* Handover, for every rotation period, every grace period that is not     *)
(* longer, and every set of faults.                                        *)
(*                                                                         *)
(* The argument: a poll that rotates presents a token the server accepts.  *)
(* A previous token is accepted for Grace after the last rotation, and a   *)
(* rotation is due RotateAfter >= Grace after it; so the token presented   *)
(* is the current one, and becomes the previous one.                       *)
(***************************************************************************)
EXTENDS TokenRotation, TLAPS

(* The grace period starts with the token it follows; tokens are fresh. *)
GraceBounded ==
    \A d \in {srv, disk} : d.until <= d.issued + Grace /\ d.prev < d.token

Saved == "agent_save" \notin met

FileInStep == Saved /\ agent.up => file = agent.token

(* A new token in an answer is the server's current one, just issued. *)
InFlightCurrent ==
    resp.newToken > NoToken =>
        /\ agent.up
        /\ \A d \in {srv, disk} : d.token = resp.newToken /\ d.issued = now

(* The server's file is as its memory, or one rotation behind it, and then the
   machine does not have the token of that rotation. *)
DiskInStep ==
    \/ srv = disk
    \/ disk.token = srv.prev /\ (Saved => Held = srv.prev)

(* In a calm run the machine holds the current token, or it is on its way. *)
CalmInStep ==
    Calm => /\ srv = disk
            /\ "stop" \notin met => agent.up
            /\ resp.newToken > NoToken => agent.token = srv.prev /\ now < srv.until
            /\ ~(resp.newToken > NoToken) => Held = srv.token

IInv ==
    /\ TypeOK
    /\ GraceBounded
    /\ FileInStep
    /\ AtMostOneBehind
    /\ InFlightCurrent
    /\ DiskInStep

-----------------------------------------------------------------------------

LEMMA InitIInv == Init => IInv
<1> SUFFICES ASSUME Init PROVE IInv
    OBVIOUS
<1> USE RotateAfterAssumption, GraceAssumption, BoundAssumption
        DEF Init, NoToken, Ok, Error, NoResponse
<1>1. TypeOK
    <2>1. srv \in TokenState /\ disk \in TokenState
        BY DEF TokenState
    <2>2. drawn \in 1 .. MaxTokens /\ now \in 0 .. MaxTime
        OBVIOUS
    <2>3. /\ agent \in [up : BOOLEAN, token : 0 .. drawn] /\ agent.token # NoToken
          /\ file \in 1 .. drawn
        OBVIOUS
    <2> QED
        BY <2>1, <2>2, <2>3 DEF TypeOK
<1>2. GraceBounded /\ FileInStep /\ AtMostOneBehind /\ InFlightCurrent /\ DiskInStep
    BY DEF GraceBounded, FileInStep, AtMostOneBehind, Held, InFlightCurrent, DiskInStep
<1> QED
    BY <1>1, <1>2 DEF IInv

(* A token accepted when a rotation is due is the current one. *)
LEMMA AcceptedIsCurrent ==
    ASSUME TypeOK, GraceBounded, NEW t, Accepts(srv, t, now), RotationDue(srv, now)
    PROVE  t = srv.token
BY RotateAfterAssumption, GraceAssumption, GraceShorterAssumption
   DEF TypeOK, TokenState, GraceBounded, Accepts, RotationDue, NoToken

(* What holds of the server's records after a poll answered with r. *)
AfterPoll(r) ==
    /\ srv' \in TokenState' /\ disk' \in TokenState'
    /\ drawn' \in drawn .. MaxTokens
    /\ r \in {Ok(t) : t \in 0 .. drawn'} \cup {Error}
    /\ GraceBounded'
    /\ AtMostOneBehind'
    /\ DiskInStep'
    /\ r.newToken > NoToken =>
           \A d \in {srv', disk'} : d.token = r.newToken /\ d.issued = now
    /\ resp.newToken > NoToken =>
           \A d \in {srv', disk'} : d.token = resp.newToken /\ d.issued = now

(* A rotated record: the token presented becomes the previous one. *)
LEMMA RotateFacts ==
    ASSUME TypeOK, GraceBounded, drawn < MaxTokens, drawn' = drawn + 1, now' = now,
           NEW new, new = Rotate(srv, drawn', now)
    PROVE  /\ new \in TokenState' /\ srv \in TokenState' /\ disk \in TokenState'
           /\ new.token = drawn' /\ new.issued = now /\ new.prev = srv.token
           /\ new.until <= new.issued + Grace /\ new.prev < new.token
<1>1. /\ srv.token \in 1 .. drawn /\ srv.prev \in 0 .. drawn
      /\ srv.issued \in 0 .. now /\ now \in Nat /\ drawn \in Nat
    BY BoundAssumption DEF TypeOK, TokenState
<1>2. /\ new.token = drawn' /\ new.issued = now /\ new.prev = srv.token
      /\ new.until = now + Grace
    BY DEF Rotate, TypeOK, TokenState
<1>3. new = [token |-> drawn', issued |-> now, prev |-> srv.token, until |-> now + Grace]
    BY DEF Rotate, TypeOK, TokenState
<1>4. new \in TokenState'
    BY <1>1, <1>3, GraceAssumption DEF TokenState
<1>5. srv \in TokenState' /\ disk \in TokenState'
    BY <1>1 DEF TypeOK, TokenState
<1> QED
    BY <1>1, <1>2, <1>4, <1>5, GraceAssumption

(* No rotation is due while a new token is on its way. *)
LEMMA NotDueInFlight ==
    ASSUME TypeOK, InFlightCurrent, RotationDue(srv, now)
    PROVE  ~(resp.newToken > NoToken)
BY RotateAfterAssumption DEF TypeOK, TokenState, InFlightCurrent, RotationDue

LEMMA HandlePollStep ==
    ASSUME IInv, agent.up, NEW t \in {agent.token, file}, NEW r,
           HandlePoll(t, r), UNCHANGED <<now, agent, file>>, Saved' => Saved
    PROVE  AfterPoll(r)
<1> USE DEF IInv
<1>0. /\ Saved' => t = Held
      /\ Held' = Held
    BY DEF FileInStep, Held
<1>1. CASE UNCHANGED <<srv, disk, drawn>> /\ r = Error
    BY <1>1, <1>0 DEF AfterPoll, TypeOK, TokenState, GraceBounded, AtMostOneBehind,
                      DiskInStep, Saved, InFlightCurrent, Error, NoToken
<1>2. CASE Accepts(srv, t, now) /\ Touched(r)
    <2>1. srv' = srv /\ disk' = srv /\ drawn' = drawn /\ r = Ok(NoToken)
        BY <1>2 DEF Touched
    <2>2. /\ r \in {Ok(u) : u \in 0 .. drawn'} \cup {Error}
          /\ ~(r.newToken > NoToken)
        <3>1. 0 \in 0 .. drawn' /\ r = Ok(0)
            BY <2>1, BoundAssumption DEF TypeOK, NoToken
        <3>2. r \in {Ok(u) : u \in 0 .. drawn'}
            BY <3>1
        <3>3. r.newToken = 0
            BY <3>1 DEF Ok
        <3> QED
            BY <3>2, <3>3 DEF NoToken
    <2>3. /\ srv' \in TokenState' /\ disk' \in TokenState'
          /\ drawn' \in drawn .. MaxTokens
        BY <2>1, BoundAssumption DEF TypeOK, TokenState
    <2> QED
        BY <2>1, <2>2, <2>3, <1>0 DEF AfterPoll, GraceBounded, AtMostOneBehind,
                                      DiskInStep, Saved, InFlightCurrent
<1>3. CASE Accepts(srv, t, now) /\ TouchFails(r)
    <2>1. /\ srv' \in {srv, disk} /\ disk' \in {srv, disk}
          /\ srv' = disk' \/ (srv' = srv /\ disk' = disk)
          /\ drawn' = drawn /\ r = Error
        BY <1>3 DEF TouchFails
    <2> QED
        BY <2>1, <1>0 DEF AfterPoll, TypeOK, TokenState, GraceBounded, AtMostOneBehind,
                          DiskInStep, Saved, InFlightCurrent, Error, NoToken
<1>4. CASE Accepts(srv, t, now) /\ (Rotated(r) \/ RotationFails(r))
    <2> DEFINE new == Rotate(srv, drawn', now)
    <2>1. /\ RotationDue(srv, now) /\ drawn < MaxTokens /\ drawn' = drawn + 1
          /\ \/ srv' = new /\ disk' = new /\ r = Ok(drawn')
             \/ srv' = new /\ disk' = srv /\ r = Error
             \/ srv' \in {srv, new} /\ disk' = srv' /\ r = Error
        BY <1>4 DEF Rotated, RotationFails
    <2>2. t = srv.token
        BY <1>4, <2>1, AcceptedIsCurrent
    <2>3. ~(resp.newToken > NoToken)
        BY <2>1, NotDueInFlight
    <2>4. /\ new \in TokenState' /\ srv \in TokenState'
          /\ new.token = drawn' /\ new.issued = now /\ new.prev = srv.token
          /\ new.until <= new.issued + Grace /\ new.prev < new.token
        BY <2>1, RotateFacts
    <2> HIDE DEF new
    <2>5. /\ srv' \in TokenState' /\ disk' \in TokenState'
          /\ drawn' \in drawn .. MaxTokens
          /\ r \in {Ok(u) : u \in 0 .. drawn'} \cup {Error}
        BY <2>1, <2>4, BoundAssumption DEF TypeOK
    <2>6. GraceBounded'
        BY <2>1, <2>4 DEF GraceBounded
    <2>7. AtMostOneBehind'
        BY <2>1, <2>2, <2>4, <1>0 DEF AtMostOneBehind, Saved
    <2>9. DiskInStep'
        BY <2>1, <2>2, <2>4, <1>0 DEF DiskInStep
    <2>8. r.newToken > NoToken =>
              \A d \in {srv', disk'} : d.token = r.newToken /\ d.issued = now
        BY <2>1, <2>4 DEF Ok, Error, NoToken
    <2> QED
        BY <2>3, <2>5, <2>6, <2>7, <2>8, <2>9 DEF AfterPoll
<1> QED
    BY <1>1, <1>2, <1>3, <1>4 DEF HandlePoll

-----------------------------------------------------------------------------

(* The steps that only drop the answer in flight, or copy a record between the
   server's memory and its file. *)
LEMMA QuietStep ==
    ASSUME IInv,
           srv' \in {srv, disk}, disk' \in {srv, disk}, drawn' = drawn, now' = now,
           srv' = disk' \/ (srv' = srv /\ disk' = disk),
           agent' = agent, file' = file, resp' \in {resp, NoResponse},
           served' \in BOOLEAN, met' \subseteq Faults, Saved' => Saved
    PROVE  IInv'
<1> USE DEF IInv
<1>1. TypeOK'
    BY DEF TypeOK, TokenState, Ok, Error
<1>2. GraceBounded' /\ FileInStep' /\ AtMostOneBehind' /\ DiskInStep'
    BY DEF GraceBounded, FileInStep, AtMostOneBehind, Held, DiskInStep, Saved
<1>3. InFlightCurrent'
    BY DEF InFlightCurrent, NoResponse, NoToken
<1> QED
    BY <1>1, <1>2, <1>3

(* The steps of the daemon that leave the server alone and nothing in flight. *)
LEMMA DaemonStep ==
    ASSUME IInv,
           UNCHANGED <<srv, disk, drawn>>, now' \in now .. MaxTime,
           agent' \in [up : BOOLEAN, token : 0 .. drawn],
           agent'.up => agent'.token # NoToken /\ (Saved' => file' = agent'.token),
           file' \in 1 .. drawn, resp' = NoResponse, served' \in BOOLEAN,
           met' \subseteq Faults, Saved' => Saved,
           Saved' => \/ Held' = Held
                     \/ srv = disk /\ Held' = srv.token
    PROVE  IInv'
<1> USE DEF IInv
<1>1. srv' \in TokenState' /\ disk' \in TokenState'
    BY GraceAssumption DEF TypeOK, TokenState
<1>2. TypeOK'
    BY <1>1 DEF TypeOK
<1>3. GraceBounded' /\ FileInStep' /\ AtMostOneBehind' /\ DiskInStep'
    BY DEF GraceBounded, FileInStep, AtMostOneBehind, DiskInStep, Saved
<1>4. InFlightCurrent'
    BY DEF InFlightCurrent, NoResponse, NoToken
<1> QED
    BY <1>2, <1>3, <1>4

(* Only the server's fault makes it answer an accepted token with an error. *)
LEMMA FaultsServer ==
    ASSUME NEW t, NEW r, HandlePoll(t, r)
    PROVE  ServerFault(t, r) \subseteq Faults
BY DEF HandlePoll, Touched, TouchFails, Rotated, RotationFails, ServerFault, Ok, Error

LEMMA NextIInv ==
    ASSUME IInv, [Next]_vars
    PROVE  IInv'
<1> USE DEF IInv
<1>0. met \subseteq met' /\ (Saved' => Saved)
    BY DEF Next, vars, OtherSave, ServerRestart, AgentPoll, Deliver, LoseResponse,
           StatusPoll, DaemonStop, DaemonKilled, DaemonStart, Tick, Saved
<1>1. CASE OtherSave
    BY <1>1, <1>0, QuietStep DEF OtherSave, TypeOK
<1>2. CASE ServerRestart
    BY <1>2, <1>0, QuietStep DEF ServerRestart, TypeOK
<1>3. CASE AgentPoll
    <2>1. PICK r \in Responses : /\ HandlePoll(agent.token, r) /\ resp' = r
                                 /\ met' = met \cup ServerFault(agent.token, r)
        BY <1>3 DEF AgentPoll
    <2>0. met' \subseteq Faults
        BY <2>1, FaultsServer DEF TypeOK
    <2>2. agent.up /\ UNCHANGED <<now, agent, file, served>>
        BY <1>3 DEF AgentPoll
    <2>3. AfterPoll(r)
        BY <2>1, <2>2, <1>0, HandlePollStep
    <2>4. TypeOK'
        BY <2>0, <2>1, <2>2, <2>3 DEF AfterPoll, TypeOK
    <2>5. GraceBounded' /\ FileInStep' /\ AtMostOneBehind' /\ DiskInStep'
        BY <1>0, <2>2, <2>3 DEF AfterPoll, FileInStep
    <2>6. InFlightCurrent'
        BY <2>1, <2>2, <2>3 DEF AfterPoll, InFlightCurrent
    <2> QED
        BY <2>4, <2>5, <2>6
<1>4. CASE Deliver
    <2>1. CASE resp.ok /\ resp.newToken # NoToken
        <3>1. /\ resp.newToken \in 1 .. drawn
              /\ agent' = [agent EXCEPT !.token = resp.newToken]
              /\ file' \in {file, resp.newToken} /\ resp' = NoResponse /\ served' = TRUE
              /\ Saved' => file' = resp.newToken
              /\ met' \subseteq Faults
              /\ UNCHANGED <<srv, disk, drawn, now>>
            BY <1>4, <2>1 DEF Deliver, TypeOK, Ok, Error, NoResponse, NoToken, Saved
        <3>2. srv.token = resp.newToken /\ srv = disk /\ agent.up
            BY <3>1 DEF InFlightCurrent, NoToken, DiskInStep, GraceBounded, TypeOK, TokenState
        <3>3. /\ agent' \in [up : BOOLEAN, token : 0 .. drawn]
              /\ agent'.token = resp.newToken /\ agent'.token # NoToken
            BY <3>1 DEF TypeOK, NoToken
        <3>4. now' \in now .. MaxTime
            BY <3>1, BoundAssumption DEF TypeOK
        <3>5. Held' = resp.newToken
            BY <3>1, <3>2, <3>3 DEF Held, TypeOK
        <3>6. /\ agent'.up => agent'.token # NoToken /\ (Saved' => file' = agent'.token)
              /\ file' \in 1 .. drawn /\ served' \in BOOLEAN
              /\ Saved' => srv = disk /\ Held' = srv.token
            BY <3>1, <3>2, <3>3, <3>5 DEF TypeOK
        <3> QED
            BY <1>0, <3>1, <3>3, <3>4, <3>6, DaemonStep
    <2>2. CASE ~(resp.ok /\ resp.newToken # NoToken)
        BY <1>0, <1>4, <2>2, QuietStep DEF Deliver, TypeOK
    <2> QED
        BY <2>1, <2>2
<1>5. CASE LoseResponse
    BY <1>5, <1>0, QuietStep DEF LoseResponse, TypeOK
<1>6. CASE StatusPoll
    <2>1. PICK r \in Responses :
              /\ HandlePoll(file, r)
              /\ met' = met \cup {"side_poll"} \cup ServerFault(file, r)
        BY <1>6 DEF StatusPoll
    <2>0. met' \subseteq Faults
        BY <1>6, <2>1, FaultsServer DEF StatusPoll, TypeOK
    <2>2. agent.up /\ UNCHANGED <<now, agent, file, resp, served>>
        BY <1>6 DEF StatusPoll
    <2>3. AfterPoll(r)
        BY <2>1, <2>2, <1>0, HandlePollStep
    <2>4. TypeOK'
        BY <2>0, <2>1, <2>2, <2>3 DEF AfterPoll, TypeOK, Ok, Error, NoResponse
    <2>5. GraceBounded' /\ FileInStep' /\ AtMostOneBehind' /\ DiskInStep'
        BY <1>0, <2>2, <2>3 DEF AfterPoll, FileInStep
    <2>6. InFlightCurrent'
        BY <2>2, <2>3 DEF AfterPoll, InFlightCurrent
    <2> QED
        BY <2>4, <2>5, <2>6
<1>7. CASE DaemonStop \/ DaemonKilled
    <2>1. /\ agent.up /\ agent' = [up |-> FALSE, token |-> NoToken]
          /\ resp' = NoResponse /\ UNCHANGED <<srv, disk, drawn, now, file, served>>
          /\ met' \subseteq Faults
        BY <1>7 DEF DaemonStop, DaemonKilled, TypeOK
    <2>2. Saved' => Held' = Held
        BY <1>0, <2>1 DEF Held, FileInStep
    <2>3. now' \in now .. MaxTime
        BY <2>1, BoundAssumption DEF TypeOK
    <2> QED
        BY <1>0, <2>1, <2>2, <2>3, DaemonStep DEF TypeOK, NoToken
<1>8. CASE DaemonStart
    <2>1. /\ ~agent.up /\ agent' = [up |-> TRUE, token |-> file]
          /\ UNCHANGED <<srv, disk, drawn, now, file, resp, served, met>>
        BY <1>8 DEF DaemonStart
    <2>2. Held' = Held
        BY <2>1 DEF Held
    <2>3. TypeOK'
        BY <2>1 DEF TypeOK, TokenState, NoToken
    <2>4. GraceBounded' /\ FileInStep' /\ AtMostOneBehind' /\ DiskInStep'
        BY <2>1, <2>2 DEF GraceBounded, FileInStep, AtMostOneBehind, DiskInStep, Saved
    <2>5. InFlightCurrent'
        BY <2>1 DEF InFlightCurrent
    <2> QED
        BY <2>3, <2>4, <2>5
<1>9. CASE Tick
    <2>1. /\ now' = now + 1 /\ now < MaxTime /\ resp' = NoResponse /\ served' = FALSE
          /\ UNCHANGED <<srv, disk, drawn, agent, file>>
          /\ met' \subseteq Faults
        BY <1>9 DEF Tick, TypeOK
    <2>2. Held' = Held
        BY <2>1 DEF Held
    <2>3. now' \in now .. MaxTime
        BY <2>1, BoundAssumption DEF TypeOK
    <2> QED
        BY <1>0, <2>1, <2>2, <2>3, DaemonStep DEF TypeOK, FileInStep
<1>10. CASE UNCHANGED vars
    BY <1>10, <1>0, QuietStep DEF vars, TypeOK
<1> QED
    BY <1>1, <1>2, <1>3, <1>4, <1>5, <1>6, <1>7, <1>8, <1>9, <1>10 DEF Next

-----------------------------------------------------------------------------

(* The inductive invariant. *)
THEOREM Invariance == Spec => []IInv
<1>1. Init => IInv
    BY InitIInv
<1>2. IInv /\ [Next]_vars => IInv'
    BY NextIInv
<1> QED
    BY <1>1, <1>2, PTL DEF Spec

(* The records of the server, the tokens of the machine and the answer in flight
   have their types: a running daemon has a token, and no token is used that the
   server has not drawn. *)
THEOREM TypeCorrect == Spec => []TypeOK
<1>1. IInv => TypeOK
    BY DEF IInv
<1> QED
    BY <1>1, Invariance, PTL

(* As long as the agent can save its file, the token a machine holds is the
   server's current or previous one, for the memory of the server and for its
   file, whatever answers are lost, whichever process stops or is killed, whoever
   polls beside the daemon. *)
THEOREM OneBehind == Spec => []AtMostOneBehind
<1>1. IInv => AtMostOneBehind
    BY DEF IInv
<1> QED
    BY <1>1, Invariance, PTL

-----------------------------------------------------------------------------
(* No lockout *)

LEMMA NextCalm ==
    ASSUME IInv, IInv', CalmInStep, [Next]_vars
    PROVE  CalmInStep'
<1> SUFFICES ASSUME Calm' PROVE CalmInStep'
    BY DEF CalmInStep
<1> USE DEF IInv
<1>0. /\ met \subseteq met' /\ Calm
      /\ {"loss", "kill", "side_poll", "server"} \cap met' = {}
      /\ "stop" \notin met' \/ Saved'
    <2>1. met \subseteq met'
        BY DEF Next, vars, OtherSave, ServerRestart, AgentPoll, Deliver, LoseResponse,
               StatusPoll, DaemonStop, DaemonKilled, DaemonStart, Tick
    <2> QED
        BY <2>1 DEF Calm, Saved
<1>1. /\ srv = disk
      /\ "stop" \notin met => agent.up
      /\ resp.newToken > NoToken => agent.token = srv.prev /\ now < srv.until
      /\ ~(resp.newToken > NoToken) => Held = srv.token
    BY <1>0 DEF CalmInStep
<1>2. CASE OtherSave \/ ServerRestart \/ UNCHANGED vars
    BY <1>1, <1>2 DEF OtherSave, ServerRestart, vars, CalmInStep, Held, Calm
<1>3. CASE AgentPoll
    <2>1. PICK r \in Responses : /\ HandlePoll(agent.token, r) /\ resp' = r
                                 /\ met' = met \cup ServerFault(agent.token, r)
        BY <1>3 DEF AgentPoll
    <2>2. /\ agent.up /\ resp = NoResponse /\ UNCHANGED <<now, agent, file, served>>
          /\ Held' = Held /\ Held = agent.token /\ Held = srv.token
        BY <1>1, <1>3 DEF AgentPoll, Held, NoResponse, NoToken
    <2>3. CASE UNCHANGED <<srv, disk, drawn>> /\ r = Error
        BY <1>1, <2>1, <2>2, <2>3 DEF CalmInStep, Error, NoToken
    <2>4. CASE Touched(r)
        BY <1>1, <2>1, <2>2, <2>4 DEF Touched, CalmInStep, Ok, NoToken
    <2>5. CASE Rotated(r)
        <3>1. /\ srv' = Rotate(srv, drawn', now) /\ disk' = srv' /\ drawn' = drawn + 1
              /\ r = Ok(drawn') /\ now' = now
            BY <2>2, <2>5 DEF Rotated
        <3>2. srv'.prev = srv.token /\ srv'.until = now + Grace /\ now \in Nat /\ drawn \in Nat
            BY <3>1, BoundAssumption DEF Rotate, TypeOK, TokenState
        <3>3. r.newToken > NoToken /\ now' < srv'.until
            BY <3>1, <3>2, GraceAssumption DEF Ok, NoToken
        <3> QED
            BY <2>1, <2>2, <3>1, <3>2, <3>3 DEF CalmInStep
    <2>6. CASE Accepts(srv, agent.token, now) /\ (TouchFails(r) \/ RotationFails(r))
        BY <1>0, <2>1, <2>6 DEF TouchFails, RotationFails, ServerFault
    <2> QED
        BY <2>1, <2>3, <2>4, <2>5, <2>6 DEF HandlePoll
<1>4. CASE Deliver
    <2>1. CASE resp.ok /\ resp.newToken # NoToken
        <3>1. /\ resp.newToken \in 1 .. drawn
              /\ agent' = [agent EXCEPT !.token = resp.newToken]
              /\ resp' = NoResponse /\ UNCHANGED <<srv, disk, now>>
              /\ met' \subseteq met \cup {"agent_save"}
            BY <1>4, <2>1 DEF Deliver, TypeOK, Ok, Error, NoResponse, NoToken
        <3>2. agent.up /\ srv.token = resp.newToken
            BY <3>1 DEF InFlightCurrent, NoToken
        <3>3. agent'.up /\ Held' = srv.token
            BY <3>1, <3>2 DEF TypeOK, Held
        <3> QED
            BY <1>1, <3>1, <3>3 DEF CalmInStep, NoResponse, NoToken
    <2>2. CASE ~(resp.ok /\ resp.newToken # NoToken)
        <3>1. /\ ~(resp.newToken > NoToken) /\ resp' = NoResponse
              /\ UNCHANGED <<srv, disk, now, agent, file, met>>
            BY <1>4, <2>2 DEF Deliver, TypeOK, Ok, Error, NoResponse, NoToken
        <3> QED
            BY <1>1, <3>1 DEF CalmInStep, Held, NoResponse, NoToken
    <2> QED
        BY <2>1, <2>2
<1>5. CASE LoseResponse \/ StatusPoll \/ DaemonKilled
    BY <1>0, <1>5 DEF LoseResponse, StatusPoll, DaemonKilled
<1>6. CASE DaemonStop
    <2>1. /\ agent.up /\ resp = NoResponse /\ resp' = resp /\ ~agent'.up
          /\ "stop" \in met' /\ UNCHANGED <<srv, disk, now, file>>
        BY <1>6 DEF DaemonStop
    <2>2. Held' = file /\ file = agent.token /\ Held = agent.token
        BY <1>0, <2>1 DEF Held, FileInStep, Saved
    <2> QED
        BY <1>1, <2>1, <2>2 DEF CalmInStep, NoResponse, NoToken
<1>7. CASE DaemonStart
    <2>1. /\ ~agent.up /\ agent' = [up |-> TRUE, token |-> file]
          /\ UNCHANGED <<srv, disk, now, file, resp, met>>
        BY <1>7 DEF DaemonStart
    <2>2. ~(resp.newToken > NoToken)
        BY <2>1 DEF InFlightCurrent
    <2> QED
        BY <1>1, <2>1, <2>2 DEF CalmInStep, Held
<1>8. CASE Tick
    <2>1. /\ resp = NoResponse /\ UNCHANGED <<srv, disk, agent, file, resp>>
          /\ met \subseteq met'
        BY <1>8 DEF Tick
    <2> QED
        BY <1>1, <2>1 DEF CalmInStep, Held, NoResponse, NoToken
<1> QED
    BY <1>2, <1>3, <1>4, <1>5, <1>6, <1>7, <1>8 DEF Next

(* In a calm run (no answer lost, no poll beside the daemon, no failure of the
   server, and not both a stop and a failed save of the agent's file) the server
   accepts the token the machine holds, after an outage of any length. *)
THEOREM NeverLockedOut == Spec => []NoLockout
<1>1. Init => CalmInStep
    BY DEF Init, CalmInStep, Held, NoResponse, NoToken
<1>2. IInv /\ IInv' /\ CalmInStep /\ [Next]_vars => CalmInStep'
    BY NextCalm
<1>3. IInv /\ CalmInStep => NoLockout
    <2> SUFFICES ASSUME IInv, CalmInStep, Calm PROVE Welcome
        BY DEF NoLockout
    <2>1. CASE resp.newToken > NoToken
        <3>1. agent.up /\ agent.token = srv.prev /\ now < srv.until /\ agent.token # NoToken
            BY <2>1 DEF IInv, CalmInStep, InFlightCurrent, TypeOK
        <3> QED
            BY <3>1 DEF Welcome, Accepts, Held
    <2>2. CASE ~(resp.newToken > NoToken)
        <3>1. Held = srv.token /\ srv.token # NoToken
            BY <2>2 DEF IInv, CalmInStep, TypeOK, TokenState, NoToken
        <3> QED
            BY <3>1 DEF Welcome, Accepts
    <2> QED
        BY <2>1, <2>2
<1> QED
    BY <1>1, <1>2, <1>3, Invariance, PTL DEF Spec

-----------------------------------------------------------------------------
(* Refinement *)

(* The abstract steps, over the state of this module. *)
LEMMA HandoverStep ==
    ASSUME \/ Saved' /\ Saved /\ srv' = srv /\ Held' = Held
           \/ Saved' /\ Saved /\ Held' = Held /\ Held = srv.token
                /\ srv'.token > srv.token /\ srv'.prev = srv.token
           \/ Saved' /\ Saved /\ srv' = srv /\ Held = srv.prev /\ Held' = srv.token
           \/ Saved' /\ Saved /\ Held' = Held /\ Held = srv.prev /\ srv'.token = srv.prev
           \/ ~Saved'
    PROVE  [H!Next]_(H!vars)
<1> USE DEF H!Next, H!vars, H!Issue, H!Adopt, H!TakeBack, H!Forfeit
<1>1. CASE Saved' /\ Saved /\ srv' = srv /\ Held' = Held
    BY <1>1 DEF Saved
<1>2. CASE Saved' /\ Saved /\ Held' = Held /\ Held = srv.token
             /\ srv'.token > srv.token /\ srv'.prev = srv.token
    BY <1>2 DEF Saved
<1>3. CASE Saved' /\ Saved /\ srv' = srv /\ Held = srv.prev /\ Held' = srv.token
    BY <1>3 DEF Saved
<1>4. CASE Saved' /\ Saved /\ Held' = Held /\ Held = srv.prev /\ srv'.token = srv.prev
    BY <1>4 DEF Saved
<1>5. CASE ~Saved'
    BY <1>5 DEF Saved
<1> QED
    BY <1>1, <1>2, <1>3, <1>4, <1>5

(* A poll leaves the tokens alone, issues one, or (the server dies) takes one back. *)
LEMMA HandlePollHandover ==
    ASSUME IInv, agent.up, NEW t \in {agent.token, file}, NEW r,
           HandlePoll(t, r), UNCHANGED <<now, agent, file>>, Saved' => Saved
    PROVE  [H!Next]_(H!vars)
<1> USE DEF IInv
<1> SUFFICES ASSUME Saved' PROVE [H!Next]_(H!vars)
    BY HandoverStep
<1>0. t = Held /\ Held' = Held /\ Saved
    BY DEF FileInStep, Held
<1>1. CASE srv' = srv
    BY <1>0, <1>1, HandoverStep
<1>2. CASE srv' = disk /\ srv' # srv
    <2>1. disk.token = srv.prev /\ Held = srv.prev
        BY <1>0, <1>2 DEF DiskInStep
    <2> QED
        BY <1>0, <1>2, <2>1, HandoverStep
<1>3. CASE /\ Accepts(srv, t, now) /\ RotationDue(srv, now) /\ drawn < MaxTokens
           /\ drawn' = drawn + 1 /\ srv' = Rotate(srv, drawn', now)
    <2>1. t = srv.token
        BY <1>3, AcceptedIsCurrent
    <2>2. srv'.token > srv.token /\ srv'.prev = srv.token
        <3>1. srv'.token = drawn + 1 /\ srv'.prev = srv.token
            BY <1>3, RotateFacts
        <3>2. srv.token \in 1 .. drawn /\ drawn \in Nat
            BY DEF TypeOK, TokenState
        <3> QED
            BY <3>1, <3>2
    <2> QED
        BY <1>0, <2>1, <2>2, HandoverStep
<1>4. \/ srv' = srv \/ srv' = disk
      \/ /\ Accepts(srv, t, now) /\ RotationDue(srv, now) /\ drawn < MaxTokens
         /\ drawn' = drawn + 1 /\ srv' = Rotate(srv, drawn', now)
    BY DEF HandlePoll, Touched, TouchFails, Rotated, RotationFails
<1> QED
    BY <1>1, <1>2, <1>3, <1>4

LEMMA NextHandover ==
    ASSUME IInv, [Next]_vars
    PROVE  [H!Next]_(H!vars)
<1> USE DEF IInv
<1>0. Saved' => Saved
    BY DEF Next, vars, OtherSave, ServerRestart, AgentPoll, Deliver, LoseResponse,
           StatusPoll, DaemonStop, DaemonKilled, DaemonStart, Tick, Saved
<1> SUFFICES ASSUME Saved' PROVE [H!Next]_(H!vars)
    BY HandoverStep
<1>1. CASE OtherSave \/ LoseResponse \/ Tick \/ UNCHANGED vars
    <2>1. srv' = srv /\ Held' = Held
        BY <1>1 DEF OtherSave, LoseResponse, Tick, vars, Held
    <2> QED
        BY <1>0, <2>1, HandoverStep
<1>2. CASE ServerRestart
    <2>1. srv' = disk /\ Held' = Held
        BY <1>2 DEF ServerRestart, Held
    <2>2. CASE srv = disk
        BY <1>0, <2>1, <2>2, HandoverStep
    <2>3. CASE disk.token = srv.prev /\ Held = srv.prev
        BY <1>0, <2>1, <2>3, HandoverStep
    <2> QED
        BY <1>0, <2>2, <2>3 DEF DiskInStep
<1>3. CASE AgentPoll \/ StatusPoll
    <2>1. PICK t \in {agent.token, file}, r \in Responses : HandlePoll(t, r)
        BY <1>3 DEF AgentPoll, StatusPoll
    <2>2. agent.up /\ UNCHANGED <<now, agent, file>>
        BY <1>3 DEF AgentPoll, StatusPoll
    <2> QED
        BY <1>0, <2>1, <2>2, HandlePollHandover
<1>4. CASE Deliver
    <2>1. CASE resp.ok /\ resp.newToken # NoToken
        <3>1. /\ resp.newToken > NoToken
              /\ agent' = [agent EXCEPT !.token = resp.newToken] /\ srv' = srv
            BY <1>4, <2>1 DEF Deliver, TypeOK, Ok, Error, NoResponse, NoToken
        <3>2. agent.up /\ srv.token = resp.newToken
            BY <3>1 DEF InFlightCurrent
        <3>3. Held' = srv.token
            BY <3>1, <3>2 DEF TypeOK, Held
        <3>4. Held \in {srv.token, srv.prev}
            BY <1>0 DEF AtMostOneBehind, Saved
        <3> QED
            BY <1>0, <3>1, <3>3, <3>4, HandoverStep
    <2>2. CASE ~(resp.ok /\ resp.newToken # NoToken)
        <3>1. srv' = srv /\ Held' = Held
            BY <1>4, <2>2 DEF Deliver, Held
        <3> QED
            BY <1>0, <3>1, HandoverStep
    <2> QED
        BY <2>1, <2>2
<1>5. CASE DaemonStop \/ DaemonKilled \/ DaemonStart
    <2>1. srv' = srv /\ Held' = Held
        BY <1>0, <1>5 DEF DaemonStop, DaemonKilled, DaemonStart, Held, FileInStep
    <2> QED
        BY <1>0, <2>1, HandoverStep
<1> QED
    BY <1>1, <1>2, <1>3, <1>4, <1>5 DEF Next

(* TokenRotation implements Handover: whatever is lost, stopped or killed, the
   server issues a token only to a machine that holds the current one, takes one
   back only from a machine that has not adopted it, and the machine goes from the
   previous token to the current one and never back, until a save of the agent's
   own file fails. *)
THEOREM Refinement == Spec => ImplementsHandover
<1>1. Init => H!Init
    BY DEF Init, H!Init, Held, NoToken
<1>2. IInv /\ [Next]_vars => [H!Next]_(H!vars)
    BY NextHandover
<1> QED
    BY <1>1, <1>2, Invariance, PTL DEF Spec, ImplementsHandover, H!Spec
=============================================================================
