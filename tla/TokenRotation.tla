--------------------------- MODULE TokenRotation ----------------------------
(***************************************************************************)
(* The life of one machine's token, end to end: the server rotates it at a *)
(* poll (handlePoll), the answer carries the new token, the agent stores it*)
(* (agent.Up), "omnid status" and the tray icon poll with the token of the *)
(* state file.  Answers get lost, processes stop, saves fail.              *)
(*                                                                         *)
(* The server handles a poll in one action.  Its handler takes the mutex   *)
(* four times, but another poll of the same machine in between changes     *)
(* nothing here: a token that was accepted stays accepted through a        *)
(* rotation, and a rotation is never due twice.                            *)
(***************************************************************************)
EXTENDS Tokens

CONSTANTS Faults,      \* what may go wrong, a subset of AllFaults
          MaxTime,     \* bound: the clock stops here
          MaxTokens    \* bound: tokens drawn by the server

AllFaults ==
    {"loss",         \* an answer to the daemon is lost
     "kill",         \* the daemon is killed, during a poll or not
     "outage",       \* the daemon cannot poll for long: network cut, machine asleep
     "side_poll",    \* omnid status and omnid-gui run beside the daemon
     "server",       \* a save of the server fails, or it dies in a save
     "agent_save",   \* the daemon's save of its state file fails
     "stop"}         \* the daemon is stopped between two polls

ASSUME FaultAssumption == Faults \subseteq AllFaults
ASSUME GraceShorterAssumption == Grace <= RotateAfter
ASSUME BoundAssumption == MaxTime \in Nat /\ MaxTokens \in Nat \ {0}

VARIABLES
    srv,     \* the token fields of the Device, in the server's memory
    disk,    \* the same in the server's state file
    drawn,   \* number of tokens drawn
    now,     \* the wall clock, the same for all
    agent,   \* the daemon: is it running, client.Token
    file,    \* DeviceToken in the machine's state file
    resp,    \* the answer on its way to the daemon
    served,  \* has the daemon had an answer since the clock last advanced?
    met      \* the faults that have happened (history)

vars == <<srv, disk, drawn, now, agent, file, resp, served, met>>

-----------------------------------------------------------------------------

TokenState == [token : 1 .. drawn, issued : 0 .. now,
               prev : 0 .. drawn, until : 0 .. now + Grace]

(* Answers: 200 with NetMap.NewToken, or an error (401, 500, connection cut). *)
Ok(t) == [ok |-> TRUE, newToken |-> t]
Error == [ok |-> FALSE, newToken |-> NoToken]
NoResponse == [ok |-> FALSE, newToken |-> -1]

TypeOK ==
    /\ srv \in TokenState
    /\ disk \in TokenState
    /\ drawn \in 1 .. MaxTokens
    /\ now \in 0 .. MaxTime
    /\ agent \in [up : BOOLEAN, token : 0 .. drawn]
    /\ agent.up => agent.token # NoToken
    /\ file \in 1 .. drawn
    /\ resp \in {Ok(t) : t \in 0 .. drawn} \cup {Error, NoResponse}
    /\ served \in BOOLEAN
    /\ met \subseteq Faults

(* The machine has just been enrolled: createDeviceLocked drew its token, the
   agent saved it. *)
Init ==
    /\ srv = [token |-> 1, issued |-> 0, prev |-> NoToken, until |-> 0]
    /\ disk = srv
    /\ drawn = 1
    /\ now = 0
    /\ agent = [up |-> TRUE, token |-> 1]
    /\ file = 1
    /\ resp = NoResponse
    /\ served = FALSE
    /\ met = {}

-----------------------------------------------------------------------------
(* The server *)

(* A poll that asks for no rotation; TouchDevice saves the whole state. *)
Touched(r) ==
    /\ ~RotationDue(srv, now)
    /\ r = Ok(NoToken)
    /\ disk' = srv
    /\ UNCHANGED <<srv, drawn>>

(* TouchDevice cannot save, or the process dies while it does. *)
TouchFails(r) ==
    /\ "server" \in Faults
    /\ r = Error
    /\ \/ UNCHANGED <<srv, disk>>
       \/ \E found \in {disk, srv} : srv' = found /\ disk' = found
    /\ UNCHANGED drawn

(* TouchDevice saves, then RotateTokenIfDue draws a token, saves again, and the
   token is in the answer. *)
Rotated(r) ==
    /\ RotationDue(srv, now)
    /\ drawn < MaxTokens
    /\ drawn' = drawn + 1
    /\ srv' = Rotate(srv, drawn', now)
    /\ disk' = srv'
    /\ r = Ok(drawn')

(* The second save fails and the memory stays rotated, or the process dies in it. *)
RotationFails(r) ==
    /\ "server" \in Faults
    /\ RotationDue(srv, now)
    /\ drawn < MaxTokens
    /\ drawn' = drawn + 1
    /\ r = Error
    /\ LET new == Rotate(srv, drawn', now)
       IN  \/ srv' = new /\ disk' = srv
           \/ \E found \in {srv, new} : srv' = found /\ disk' = found

(* requireDevice and handlePoll, for the token t, answered with r. *)
HandlePoll(t, r) ==
    \/ /\ ~Accepts(srv, t, now)
       /\ r = Error
       /\ UNCHANGED <<srv, disk, drawn>>
    \/ /\ Accepts(srv, t, now)
       /\ Touched(r) \/ TouchFails(r) \/ Rotated(r) \/ RotationFails(r)

(* An error for a token that is accepted is a failure of the server. *)
ServerFault(t, r) == IF Accepts(srv, t, now) /\ r = Error THEN {"server"} ELSE {}

(* Any other call that changes the server's state saves all of it. *)
OtherSave ==
    /\ disk' = srv
    /\ UNCHANGED <<srv, drawn, now, agent, file, resp, served, met>>

ServerRestart ==
    /\ srv' = disk
    /\ UNCHANGED <<disk, drawn, now, agent, file, resp, served, met>>

-----------------------------------------------------------------------------
(* The machine *)

Responses == {Ok(t) : t \in 0 .. MaxTokens} \cup {Error}

(* client.Poll in the sync closure of agent.Up: one poll at a time. *)
AgentPoll ==
    /\ agent.up
    /\ resp = NoResponse
    /\ \E r \in Responses :
           /\ HandlePoll(agent.token, r)
           /\ resp' = r
           /\ met' = met \cup ServerFault(agent.token, r)
    /\ UNCHANGED <<now, agent, file, served>>

(* Mutant: the new token is used but not written to the state file. *)
DeliverWithoutSave ==
    /\ resp # NoResponse
    /\ IF resp.ok /\ resp.newToken # NoToken
         THEN agent' = [agent EXCEPT !.token = resp.newToken]
         ELSE UNCHANGED agent
    /\ resp' = NoResponse
    /\ served' = TRUE
    /\ UNCHANGED <<srv, disk, drawn, now, file, met>>

(* Mutant: the daemon does not look at NetMap.NewToken, as omnid status. *)
DeliverIgnoringToken ==
    /\ resp # NoResponse
    /\ resp' = NoResponse
    /\ served' = TRUE
    /\ UNCHANGED <<srv, disk, drawn, now, agent, file, met>>

(* The answer arrives; a new token is used at once and saved, and a save that
   fails is only logged. *)
Deliver ==
    /\ resp # NoResponse
    /\ IF resp.ok /\ resp.newToken # NoToken
         THEN /\ agent' = [agent EXCEPT !.token = resp.newToken]
              /\ \/ file' = resp.newToken /\ UNCHANGED met
                 \/ /\ "agent_save" \in Faults
                    /\ met' = met \cup {"agent_save"}
                    /\ UNCHANGED file
         ELSE UNCHANGED <<agent, file, met>>
    /\ resp' = NoResponse
    /\ served' = TRUE
    /\ UNCHANGED <<srv, disk, drawn, now>>

(* The connection breaks, or the timeout of the HTTP client, before the answer. *)
LoseResponse ==
    /\ "loss" \in Faults
    /\ resp # NoResponse
    /\ resp' = NoResponse
    /\ met' = met \cup {"loss"}
    /\ UNCHANGED <<srv, disk, drawn, now, agent, file, served>>

(* cmdStatus, and update of the tray icon every ten seconds: while the
   interface is up they poll with the token of the state file, read afresh,
   and look at the peers only. *)
StatusPoll ==
    /\ "side_poll" \in Faults
    /\ agent.up
    /\ \E r \in Responses :
           /\ HandlePoll(file, r)
           /\ met' = met \cup {"side_poll"} \cup ServerFault(file, r)
    /\ UNCHANGED <<now, agent, file, resp, served>>

(* The loop of agent.Up sees ctx.Done only between two polls. *)
DaemonStop ==
    /\ "stop" \in Faults
    /\ agent.up
    /\ resp = NoResponse
    /\ agent' = [up |-> FALSE, token |-> NoToken]
    /\ met' = met \cup {"stop"}
    /\ UNCHANGED <<srv, disk, drawn, now, file, resp, served>>

(* The process is killed, the machine loses power. *)
DaemonKilled ==
    /\ "kill" \in Faults
    /\ agent.up
    /\ agent' = [up |-> FALSE, token |-> NoToken]
    /\ resp' = NoResponse
    /\ met' = met \cup {"kill"}
    /\ UNCHANGED <<srv, disk, drawn, now, file, served>>

(* agent.Up with an existing state file (LoadState). *)
DaemonStart ==
    /\ ~agent.up
    /\ agent' = [up |-> TRUE, token |-> file]
    /\ UNCHANGED <<srv, disk, drawn, now, file, resp, served, met>>

(* The unit of the clock is a fraction of the grace period (1 h).  It does not
   advance while an answer is on its way (at most 15 s), and, without an
   outage, a running daemon is answered many times per unit (every 10 s). *)
Tick ==
    /\ now < MaxTime
    /\ resp = NoResponse
    /\ agent.up => served \/ "outage" \in Faults
    /\ now' = now + 1
    /\ served' = FALSE
    /\ met' = met \cup IF agent.up /\ ~served THEN {"outage"} ELSE {}
    /\ UNCHANGED <<srv, disk, drawn, agent, file, resp>>

Next ==
    \/ OtherSave \/ ServerRestart
    \/ AgentPoll \/ Deliver \/ LoseResponse
    \/ StatusPoll
    \/ DaemonStop \/ DaemonKilled \/ DaemonStart
    \/ Tick

Spec == Init /\ [][Next]_vars

(* The ticker of agent.Up polls every ten seconds, the timeout of the HTTP
   client ends every poll, a stopped daemon is started again (systemd unit). *)
Fairness == WF_vars(AgentPoll) /\ WF_vars(Deliver) /\ WF_vars(DaemonStart)

FairSpec == Spec /\ Fairness

-----------------------------------------------------------------------------
(* Properties *)

(* The token the machine presents, or will after its next start. *)
Held == IF agent.up THEN agent.token ELSE file

(* Whatever is lost, whoever else polls and whichever save of the server fails,
   as long as the agent can save its file the machine is never more than one
   rotation behind: its token is the server's current or previous one, in memory
   and in the file. *)
AtMostOneBehind ==
    "agent_save" \notin met => \A d \in {srv, disk} : Held \in {d.token, d.prev}

(* The server accepts the token the machine holds (tokenGrace: "durée pendant
   laquelle l'ancien jeton reste accepté après une rotation, au cas où la réponse
   portant le nouveau jeton se perde"). *)
Welcome == Accepts(srv, Held, now)

(* No answer lost, no poll beside the daemon, no failure of the server, and the
   daemon either stops properly or cannot save its file, not both. *)
Calm == \E kind \in {"stop", "agent_save"} : met \subseteq {"outage", kind}

(* The machine is never locked out in a calm run, however long it is cut off or
   stopped between two polls and however long its disk is full. *)
NoLockout == Calm => Welcome

(* A rotation that is due reaches the daemon in a calm run, unless the daemon is
   stopped meanwhile (types.NetMap: "l'agent doit le persister et l'utiliser dès
   l'appel suivant"). *)
RotationAdopted ==
    agent.up /\ RotationDue(srv, now)
        ~> \/ ~agent.up \/ ~Calm
           \/ ~RotationDue(srv, now) /\ agent.token = srv.token

-----------------------------------------------------------------------------

(* The server's current and previous tokens and the token of the machine are a
   Handover, void once the agent's save has failed. *)
H == INSTANCE Handover WITH current <- srv.token, previous <- srv.prev, held <- Held,
                            void <- "agent_save" \in met

(* The exchange of the token implements the abstract handover: a token is issued
   only to a machine that holds the current one, a machine only ever goes from
   the previous token to the current one, and an issued token is taken back (the
   server restarts from its file) only from a machine that has not adopted it. *)
ImplementsHandover == H!Spec
=============================================================================
