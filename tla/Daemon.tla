------------------------------- MODULE Daemon -------------------------------
(***************************************************************************)
(* The life of the agent's process: agent.Up from its start to its end, the*)
(* commands that start and stop it (omnid up and down, the Windows         *)
(* service), what it leaves on the machine (the interface, the policy      *)
(* routing of the exit node, the pid file), and its two goroutines: the one*)
(* of Up and the one of the engine that reads the socket.                  *)
(*                                                                         *)
(* The engine is wireguard-go (external).  Its configuration is guarded by *)
(* a mutex, which IpcSet and IpcGet take for their duration, and Close and *)
(* a change of port until the reading goroutine has ended.                 *)
(***************************************************************************)
EXTENDS Socket

CONSTANTS MaxStarts,    \* bound: processes
          MaxRebinds    \* bound: changes of port

ASSUME StartAssumption == MaxStarts \in Nat /\ MaxRebinds \in Nat

VARIABLES
    main,       \* where agent.Up is
    front,      \* who runs it: nobody, omnid up, or the state of the Windows service
    exit,       \* Options.ExitNode # ""
    deferred,   \* has "defer dev.DisableExitNode()" been reached?
    cancelled,  \* ctx.Done()
    pid,        \* the process number; every start has a new one
    req,        \* the STUN request that waits: its number and its server, 0 if none
    lastId,     \* the transactions this process has drawn
    endpoint,   \* the public address in myEndpoints, with the request that found it
    pending,    \* is there a probe in EndpointManager.pending?
    ipc,        \* the holder of the engine's mutex, where it waits while it holds it
    rebinds,    \* changes of port
    iface,      \* does the TUN interface exist?
    route,      \* the default route of table 7766
    rules,      \* the policy routing rules 5000 and 5001
    pidfile,    \* the pid file, 0 if there is none
    killed,     \* the processes that were killed (history)
    orphans,    \* the rules nobody is left to remove (history)
    refused     \* has the system refused the mark of this process? (history)

procVars == <<main, front, exit, deferred, cancelled, pid, req, lastId, endpoint, pending, ipc>>
hostVars == <<iface, route, rules, pidfile>>
histVars == <<rebinds, killed, orphans, refused>>
vars == <<procVars, hostVars, histVars, socketVars>>

-----------------------------------------------------------------------------

NoRequest == [id |-> 0, srv |-> 0]
NoEndpoint == [id |-> 0, addr |-> None]

Suppress == 5000   \* table main, suppress_prefixlength 0
Mark == 5001       \* not fwmark: table 7766

(* The body of the loop of Up. *)
Loop == {"sync", "stun", "poll", "idle"}

TypeOK ==
    /\ SocketTypeOK
    /\ main \in {"off", "address", "mark", "route", "suppress", "rule"} \cup Loop
                  \cup {"unrule", "unsuppress", "unpid", "close", "bind", "wait"}
    /\ front \in {"none", "up", "Running", "StopPending"}
    /\ exit \in BOOLEAN /\ deferred \in BOOLEAN /\ cancelled \in BOOLEAN
    /\ pid \in 0 .. MaxStarts
    /\ req \in [id : 0 .. MaxRequests, srv : 0 .. Len(Servers) + 1]
    /\ lastId \in 0 .. MaxRequests
    /\ endpoint \in [id : Ids, addr : Addresses] \cup {NoEndpoint}
    /\ pending \in BOOLEAN
    /\ ipc \in {"free", "close", "rebind"}
    /\ rebinds \in 0 .. MaxRebinds
    /\ iface \in BOOLEAN /\ route \in BOOLEAN
    /\ rules \subseteq {Suppress, Mark}
    /\ pidfile \in 0 .. MaxStarts
    /\ killed \subseteq 1 .. MaxStarts
    /\ orphans \subseteq {Suppress, Mark} /\ refused \in BOOLEAN

Init ==
    /\ SocketInit
    /\ main = "off" /\ front = "none"
    /\ exit = FALSE /\ deferred = FALSE /\ cancelled = FALSE
    /\ pid = 0
    /\ req = NoRequest /\ lastId = 0 /\ endpoint = NoEndpoint
    /\ pending = FALSE
    /\ ipc = "free" /\ rebinds = 0
    /\ iface = FALSE /\ route = FALSE /\ rules = {} /\ pidfile = 0
    /\ killed = {} /\ orphans = {} /\ refused = FALSE

-----------------------------------------------------------------------------
(* The start of Up *)

(* cmdUp and Execute: Up loads the identity, creates the interface and starts the
   engine, which opens the socket. *)
Start(who, e) ==
    /\ front = "none"
    /\ pid < MaxStarts
    /\ pid' = pid + 1
    /\ front' = who
    /\ \/ /\ main' = "address"
          /\ exit' = e
          /\ iface' = TRUE
          /\ Open(TRUE)
       \/ /\ main' = "off"       \* no /dev/net/tun, port taken: Up returns an error
          /\ UNCHANGED <<exit, iface, udp, recv>>
    /\ UNCHANGED <<deferred, cancelled, req, lastId, endpoint, pending, ipc, route, rules,
                   pidfile, histVars, mark, stunTx, chan, seen>>

(* SetAddress fails; or the pid file is written, as far as it can, and then the
   options are looked at. *)
Configure ==
    /\ main = "address"
    /\ \/ main' = "close" /\ UNCHANGED pidfile
       \/ /\ pidfile' \in {pid, pidfile}
          /\ main' \in {"unpid", IF exit THEN "mark" ELSE "sync"}
    /\ UNCHANGED <<front, exit, deferred, cancelled, pid, req, lastId, endpoint, pending, ipc,
                   iface, route, rules, histVars, socketVars>>

(* The order of EnableExitNode. *)
ExitSteps == [mark |-> "route", route |-> "suppress", suppress |-> "rule", rule |-> "sync"]

(* The effect of each step; an existing route is replaced, an existing rule kept. *)
ExitEffect ==
    CASE main = "mark"     -> /\ ipc = "free"
                              /\ SetMark(TRUE)
                              /\ UNCHANGED <<route, rules>>
      [] main = "route"    -> /\ route' = TRUE
                              /\ UNCHANGED <<rules, udp, mark>>
      [] main = "suppress" -> /\ rules' = rules \cup {Suppress}
                              /\ UNCHANGED <<route, udp, mark>>
      [] main = "rule"     -> /\ rules' = rules \cup {Mark}
                              /\ UNCHANGED <<route, udp, mark>>

(* Mutant: a step that fails is left at that. *)
EnableExitNodeBestEffort ==
    /\ main \in DOMAIN ExitSteps
    /\ main' = ExitSteps[main]
    /\ deferred' = (main' = "sync")
    /\ ExitEffect \/ UNCHANGED <<route, rules, udp, mark>>
    /\ UNCHANGED <<front, exit, cancelled, pid, req, lastId, endpoint, pending, ipc, iface,
                   pidfile, histVars, stunTx, chan, recv, seen>>

(* EnableExitNode, which exists under Linux only, and the defer of DisableExitNode, which
   is to remove rules found there too; on an error Up returns before it has deferred it,
   and the rule 5000 stays when 5001 was refused. *)
EnableExitNode ==
    /\ main \in DOMAIN ExitSteps
    /\ \/ /\ front = "up"
          /\ ExitEffect
          /\ main' = ExitSteps[main]
          /\ deferred' = (main' = "sync")
          /\ orphans' = IF main' = "sync" THEN {} ELSE orphans
       \/ /\ main' = "unpid"
          /\ orphans' = orphans \cup {r \in {Suppress} : main = "rule"}
          /\ IF main = "mark" THEN ipc = "free" /\ SetMark(FALSE) ELSE UNCHANGED <<mark, udp>>
          /\ UNCHANGED <<deferred, route, rules>>
    /\ UNCHANGED <<front, exit, cancelled, pid, req, lastId, endpoint, pending, ipc, iface,
                   pidfile, rebinds, killed, refused, stunTx, chan, recv, seen>>

-----------------------------------------------------------------------------
(* The loop of Up *)

(* Step 1 of sync: DiscoverEndpoints, if the last time is long ago and the socket
   open, tries the servers in order. *)
Discover ==
    /\ main = "sync"
    /\ main' \in {"poll"} \cup {p \in {"stun"} : udp.open}
    /\ req' = IF main' = "stun" THEN [id |-> 0, srv |-> 1] ELSE NoRequest
    /\ UNCHANGED <<front, exit, deferred, cancelled, pid, lastId, endpoint, pending, ipc,
                   hostVars, histVars, socketVars>>

(* STUNRequest up to the wait; the write fails when the socket is closed. *)
STUNRequest ==
    /\ main = "stun"
    /\ req.id = 0
    /\ req.srv \in DOMAIN Servers
    /\ lastId < MaxRequests
    /\ lastId' = lastId + 1
    /\ \/ /\ udp.open
          /\ stunTx' = stunTx \cup {lastId'}
          /\ req' = [req EXCEPT !.id = lastId']
       \/ /\ ~udp.open
          /\ req' = [req EXCEPT !.srv = req.srv + 1]
          /\ UNCHANGED stunTx
    /\ UNCHANGED <<main, front, exit, deferred, cancelled, pid, endpoint, pending, ipc,
                   hostVars, histVars, udp, mark, chan, recv, seen>>

(* The answer is in the channel: it becomes the first of myEndpoints. *)
STUNAnswered ==
    /\ main = "stun"
    /\ req.id # 0
    /\ chan[req.id] # None
    /\ endpoint' = [id |-> req.id, addr |-> chan[req.id]]
    /\ stunTx' = stunTx \ {req.id}
    /\ chan' = [chan EXCEPT ![req.id] = None]
    /\ req' = NoRequest
    /\ main' = "poll"
    /\ UNCHANGED <<front, exit, deferred, cancelled, pid, lastId, pending, ipc,
                   hostVars, histVars, udp, mark, recv, seen>>

(* Three seconds without an answer, or the daemon is asked to stop. *)
STUNTimeout ==
    /\ main = "stun"
    /\ req.id # 0
    /\ stunTx' = stunTx \ {req.id}
    /\ chan' = [chan EXCEPT ![req.id] = None]
    /\ req' = [id |-> 0, srv |-> req.srv + 1]
    /\ UNCHANGED <<main, front, exit, deferred, cancelled, pid, lastId, endpoint, pending, ipc,
                   hostVars, histVars, udp, mark, recv, seen>>

(* No server has answered: the local addresses, if any, are all that is announced. *)
STUNNone ==
    /\ main = "stun"
    /\ req.id = 0
    /\ req.srv \notin DOMAIN Servers \/ lastId = MaxRequests
    /\ endpoint' \in {endpoint, NoEndpoint}
    /\ req' = NoRequest
    /\ main' = "poll"
    /\ UNCHANGED <<front, exit, deferred, cancelled, pid, lastId, pending, ipc,
                   hostVars, histVars, socketVars>>

(* Steps 2 to 6 of sync.  The poll fails; or SyncPeers, PeerHandshakes and
   SetPeerEndpointString configure the engine and probes are sent. *)
Poll ==
    /\ main = "poll"
    /\ main' = "idle"
    /\ \/ UNCHANGED pending
       \/ ipc = "free" /\ pending' = udp.open
    /\ UNCHANGED <<front, exit, deferred, cancelled, pid, req, lastId, endpoint, ipc,
                   hostVars, histVars, socketVars>>

Ticker ==
    /\ main = "idle"
    /\ main' = "sync"
    /\ UNCHANGED <<front, exit, deferred, cancelled, pid, req, lastId, endpoint, pending, ipc,
                   hostVars, histVars, socketVars>>

(* The end of the loop; what was deferred runs, last first. *)
Leave ==
    /\ main = "idle"
    /\ cancelled
    /\ main' = IF deferred THEN "unrule" ELSE "unpid"
    /\ UNCHANGED <<front, exit, deferred, cancelled, pid, req, lastId, endpoint, pending, ipc,
                   hostVars, histVars, socketVars>>

-----------------------------------------------------------------------------
(* The end of Up *)

(* Mutant: the rule of the table main is forgotten. *)
RemovedRuleTwice == Mark

(* The two calls of RuleDel, the later rule first. *)
RemovedRule == IF main = "unrule" THEN Mark ELSE Suppress

(* DisableExitNode: errors are ignored. *)
DisableExitNode ==
    /\ main \in {"unrule", "unsuppress"}
    /\ main' = IF main = "unrule" THEN "unsuppress" ELSE "unpid"
    /\ \/ rules' = rules \ {RemovedRule} /\ UNCHANGED orphans
       \/ UNCHANGED rules /\ orphans' = orphans \cup {RemovedRule}
    /\ UNCHANGED <<front, exit, deferred, cancelled, pid, req, lastId, endpoint, pending, ipc,
                   iface, route, pidfile, rebinds, killed, refused, socketVars>>

(* Mutant: the pid file stays. *)
KeepPidFile ==
    /\ main = "unpid"
    /\ main' = "close"
    /\ UNCHANGED <<front, exit, deferred, cancelled, pid, req, lastId, endpoint, pending, ipc,
                   hostVars, histVars, socketVars>>

RemovePidFile ==
    /\ main = "unpid"
    /\ main' = "close"
    /\ pidfile' = 0
    /\ UNCHANGED <<front, exit, deferred, cancelled, pid, req, lastId, endpoint, pending, ipc,
                   iface, route, rules, histVars, socketVars>>

(* Device.Close: the engine takes its mutex and closes the interface, with which
   its routes go, ... *)
CloseTun ==
    /\ main = "close"
    /\ ipc = "free"
    /\ ipc' = "close"
    /\ main' = "bind"
    /\ iface' = FALSE
    /\ route' = FALSE
    /\ UNCHANGED <<front, exit, deferred, cancelled, pid, req, lastId, endpoint, pending,
                   rules, pidfile, histVars, socketVars>>

(* ... closes the socket ... *)
CloseBind ==
    /\ main = "bind"
    /\ main' = "wait"
    /\ Close
    /\ UNCHANGED <<front, exit, deferred, cancelled, pid, req, lastId, endpoint, pending, ipc,
                   hostVars, histVars, mark, stunTx, chan, recv, seen>>

(* What is left of the process in memory. *)
ProcessGone ==
    /\ main' = "off"
    /\ exit' = FALSE
    /\ deferred' = FALSE
    /\ req' = NoRequest
    /\ lastId' = 0
    /\ endpoint' = NoEndpoint
    /\ pending' = FALSE
    /\ ipc' = "free"
    /\ refused' = FALSE
    /\ SocketGone

(* ... and waits for the goroutine that reads it.  Up returns. *)
CloseEnds ==
    /\ main = "wait"
    /\ recv = Off
    /\ ProcessGone
    /\ UNCHANGED <<front, cancelled, pid, hostVars, rebinds, killed, orphans>>

(* The process of omnid up ends with Up; Execute finds Up's result in its channel
   and reports Stopped. *)
Exit ==
    /\ main = "off"
    /\ front # "none"
    /\ front' = "none"
    /\ cancelled' = FALSE
    /\ UNCHANGED <<main, exit, deferred, pid, req, lastId, endpoint, pending, ipc,
                   hostVars, histVars, socketVars>>

-----------------------------------------------------------------------------
(* Around the process *)

(* Control-C, SIGTERM from systemd. *)
Signal ==
    /\ front = "up"
    /\ cancelled' = TRUE
    /\ UNCHANGED <<main, front, exit, deferred, pid, req, lastId, endpoint, pending, ipc,
                   hostVars, histVars, socketVars>>

(* Mutant: the service waits for Up without telling it to stop. *)
ServiceStopWaits ==
    /\ front = "Running"
    /\ front' = "StopPending"
    /\ UNCHANGED <<main, cancelled, exit, deferred, pid, req, lastId, endpoint, pending, ipc,
                   hostVars, histVars, socketVars>>

(* Execute is asked to stop, by the system or by serviceUninstall: cancel(), <-done. *)
ServiceStop ==
    /\ front = "Running"
    /\ front' = "StopPending"
    /\ cancelled' = TRUE
    /\ UNCHANGED <<main, exit, deferred, pid, req, lastId, endpoint, pending, ipc,
                   hostVars, histVars, socketVars>>

(* The process is killed, the machine loses power: the interface goes with it, the
   rules stay unless the machine restarts, and so does the pid file. *)
Kill ==
    /\ front # "none"
    /\ front' = "none"
    /\ cancelled' = FALSE
    /\ killed' = killed \cup {pid}
    /\ orphans' = orphans \cup rules
    /\ ProcessGone
    /\ iface' = FALSE
    /\ route' = FALSE
    /\ UNCHANGED <<pid, rules, pidfile, rebinds>>

(* cmdDown with the pid of the running daemon: SIGTERM under Linux and macOS,
   the end of the process under Windows (Kill). *)
Down ==
    /\ pidfile # 0
    /\ pidfile = pid
    /\ Signal

(* The tool wg changes the port through the UAPI socket: the engine closes the
   socket, ... *)
Rebind ==
    /\ iface
    /\ ipc = "free"
    /\ main \notin {"close", "bind", "wait"}
    /\ rebinds < MaxRebinds
    /\ rebinds' = rebinds + 1
    /\ ipc' = "rebind"
    /\ Close
    /\ UNCHANGED <<main, front, exit, deferred, cancelled, pid, req, lastId, endpoint, pending,
                   hostVars, killed, orphans, refused, mark, stunTx, chan, recv, seen>>

(* ... waits for the goroutine that reads it and opens another, if it can. *)
RebindEnds ==
    /\ ipc = "rebind"
    /\ recv = Off
    /\ ipc' = "free"
    /\ \/ Open(TRUE) /\ UNCHANGED refused
       \/ mark /\ Open(FALSE) /\ refused' = TRUE
       \/ UNCHANGED <<udp, recv, refused>>
    /\ UNCHANGED <<main, front, exit, deferred, cancelled, pid, req, lastId, endpoint, pending,
                   hostVars, rebinds, killed, orphans, mark, stunTx, chan, seen>>

-----------------------------------------------------------------------------
(* The reading goroutine and the network *)

(* handleDisco gives the pong of a probe to onPong, ... *)
ReceivePong ==
    /\ recv = Reading
    /\ udp.open
    /\ pending
    /\ pending' = FALSE
    /\ recv' = InPong
    /\ UNCHANGED <<main, front, exit, deferred, cancelled, pid, req, lastId, endpoint, ipc,
                   hostVars, histVars, udp, mark, stunTx, chan, seen>>

(* ... which calls the engine: PeerHandshakes and SetPeerEndpoint. *)
OnPong ==
    /\ recv = InPong
    /\ ipc = "free"
    /\ recv' = Reading
    /\ UNCHANGED <<procVars, hostVars, histVars, udp, mark, stunTx, chan, seen>>

Receiver ==
    /\ ReceiveSTUN \/ Deliver \/ ReceiveEnds
    /\ UNCHANGED <<procVars, hostVars, histVars>>

Network ==
    /\ req.id # 0
    /\ Serve(req.id, req.srv)
    /\ UNCHANGED <<procVars, hostVars, histVars>>

Main ==
    \/ Configure \/ EnableExitNode
    \/ Discover \/ STUNRequest \/ STUNAnswered \/ STUNTimeout \/ STUNNone
    \/ Poll \/ Ticker \/ Leave
    \/ DisableExitNode \/ RemovePidFile \/ CloseTun \/ CloseBind \/ CloseEnds

Next ==
    \/ \E who \in {"up", "Running"}, e \in BOOLEAN : Start(who, e)
    \/ Main
    \/ Exit \/ Signal \/ ServiceStop \/ Kill \/ Down
    \/ Rebind \/ RebindEnds
    \/ ReceivePong \/ OnPong \/ Receiver
    \/ Network

Spec == Init /\ [][Next]_vars

(* Goroutines go on when they can; every wait of Up has a timeout; a select with
   several ready cases takes each of them sooner or later. *)
Fairness ==
    /\ WF_vars(Main) /\ SF_vars(Leave)
    /\ WF_vars(Exit)
    /\ WF_vars(OnPong) /\ WF_vars(RebindEnds)
    /\ WF_vars(Deliver /\ UNCHANGED <<procVars, hostVars, histVars>>)
    /\ WF_vars(ReceiveEnds /\ UNCHANGED <<procVars, hostVars, histVars>>)

FairSpec == Spec /\ Fairness

-----------------------------------------------------------------------------
(* Properties *)

(* The agent's own packets never take the tunnel they carry: once the rule and
   the route of the exit node are in force, left over from a killed process
   included, the socket is marked, also after it has been opened again, unless the
   system refused the mark, which Open ignores (Fwmark: "sans quoi les paquets
   chiffrés partiraient dans le tunnel qu'ils transportent (boucle)"). *)
NoLoop == Mark \in rules /\ route /\ udp.open /\ ~refused => udp.marked

(* With an exit node the loop of Up runs only while the IPv4 traffic that is not marked
   is routed to the interface, whichever step of EnableExitNode failed and whatever was
   left by an earlier process.  (Rules and route are of the IPv4 family: IPv6 traffic
   does not take the exit node.) *)
ExitNodeInForce == exit /\ main \in Loop => route /\ rules = {Suppress, Mark}

(* What a process leaves behind when it is gone, at whichever step it ended or failed:
   no interface, no route, no pid file unless it was killed, and only rules of a process
   that was killed, rules the system would not remove, and the rule 5000 when it would
   not add 5001 (Up has not deferred DisableExitNode by then), until a later process
   with an exit node takes them over and removes them.  (The forwarding of a router,
   enableForwarding, is never withdrawn and not part of the model.) *)
Traceless ==
    front = "none" =>
        ~iface /\ ~route /\ pidfile \in {0} \cup killed /\ rules \subseteq orphans

(* The pid file names the daemon that runs or one that was killed, never a process that
   has ended by itself: omnid down signals the former and no other daemon. *)
PidFileTrue == pidfile # 0 => pidfile \in killed \/ (front # "none" /\ pidfile = pid)

(* The public address the agent announces is the one a server saw in answer to that
   very request, whatever answers to earlier requests come late or twice and
   whatever form the server answers in. *)
EndpointObserved ==
    endpoint # NoEndpoint => \E s \in seen : s[1] = endpoint.id /\ s[3] = endpoint.addr

(* The reading goroutine, on which all tunnels depend, never blocks on a STUN
   channel, and no transaction outlives its request. *)
ReceiverFree ==
    /\ recv.at = "deliver" => chan[recv.id] = None
    /\ stunTx \subseteq {req.id}

(* Close, or a change of port, waits for the reading goroutine, which waits in
   onPong for the mutex of the engine. *)
Stuck == ipc # "free" /\ recv = InPong

(* A daemon that is asked to stop, or that fails to start, ends, and the service
   reports it, unless a pong is being handled when the engine is closed. *)
Stops == cancelled \/ front = "StopPending" \/ main = "off" ~> front = "none" \/ Stuck
=============================================================================
