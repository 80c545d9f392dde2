----------------------------- MODULE EgressProxy ----------------------------
(***************************************************************************)
(* The enforcing forward proxy (proxy/server.py): the accept loop, one     *)
(* handler thread per client connection (CONNECT tunnels and absolute-form *)
(* HTTP forwards), the shared event log, the registry of live tunnel       *)
(* sockets, and start()/stop() called from several threads.                *)
(*                                                                         *)
(* A connection carries one request (the handlers always close it).  What  *)
(* peers do is nondeterministic: requests arrive, stall or are garbage,    *)
(* dialling fails, tunnels end when they please.                           *)
(***************************************************************************)
EXTENDS Naturals, SequencesExt

CONSTANTS Conn,        \* client connections
          Caller,      \* threads that may call stop()
          Host, NoHost,\* requested hosts; NoHost is the empty host name
          Sanctioned,  \* the hosts allowed() accepts under the plan
          Unencodable  \* the hosts whose name the IDNA codec refuses

ASSUME ProxyAssumption ==
    NoHost \in Host /\ Sanctioned \subseteq Host /\ Unencodable \subseteq Host

VARIABLES started,     \* start() has created the serve thread
          stopped,     \* the flag _stopped
          serve,       \* the serve_forever thread
          shutdown_request, listening,
          stopper,     \* [Caller -> where its stop() call is]
          victims,     \* [Caller -> sockets of its snapshot not yet closed]
          tunnels,     \* the registry _tunnels
          pc, req,     \* [Conn -> ...] handler thread and its request
          client, up,  \* [Conn -> ...] the two sockets
          events       \* the event log, in emission order

srvVars  == <<started, serve, shutdown_request, listening>>
stopVars == <<stopped, stopper, victims>>
connVars == <<pc, req, client, up, events>>
vars     == <<srvVars, stopVars, tunnels, connVars>>

Request == [method : {"CONNECT", "HTTP"}, host : Host, auth : BOOLEAN]
NoReq   == [method |-> "none", host |-> NoHost, auth |-> FALSE]

Sock     == Conn \X {"client", "up"}
Socks(c) == IF req[c].method = "CONNECT" THEN {<<c, "client">>, <<c, "up">>}
                                         ELSE {<<c, "up">>}

-----------------------------------------------------------------------------
Init ==
    /\ started = FALSE /\ serve = "none"
    /\ shutdown_request = FALSE /\ listening = FALSE
    /\ stopped = FALSE
    /\ stopper = [t \in Caller |-> "idle"] /\ victims = [t \in Caller |-> {}]
    /\ tunnels = {}
    /\ pc = [c \in Conn |-> "idle"] /\ req = [c \in Conn |-> NoReq]
    /\ client = [c \in Conn |-> "none"] /\ up = [c \in Conn |-> "none"]
    /\ events = << >>

-----------------------------------------------------------------------------
(* start() and the serve thread                                            *)

Start ==
    /\ ~ started
    /\ started' = TRUE /\ listening' = TRUE /\ serve' = "born"
    /\ UNCHANGED <<shutdown_request, stopVars, tunnels, connVars>>

ServeEnter ==
    /\ serve = "born" /\ serve' = "loop"
    /\ UNCHANGED <<started, shutdown_request, listening, stopVars, tunnels, connVars>>

ServeExit ==
    /\ serve = "loop" /\ shutdown_request
    /\ serve' = "exited" /\ shutdown_request' = FALSE
    /\ UNCHANGED <<started, listening, stopVars, tunnels, connVars>>

Accept(c) ==
    /\ pc[c] = "idle" /\ serve = "loop" /\ ~ shutdown_request
    /\ pc' = [pc EXCEPT ![c] = "read"]
    /\ client' = [client EXCEPT ![c] = "open"]
    /\ UNCHANGED <<srvVars, stopVars, tunnels, req, up, events>>

-----------------------------------------------------------------------------
(* stop().  Every caller in src stops a proxy it has started; the flag is  *)
(* taken under the lock, so that one call does the work.                   *)

StopBegin(t) ==
    /\ stopper[t] = "idle" /\ started
    /\ stopped' = TRUE
    /\ stopper' = [stopper EXCEPT ![t] = IF stopped THEN "skipped" ELSE "shutdown"]
    /\ UNCHANGED <<srvVars, victims, tunnels, connVars>>

(* Mutant: no request is left for a serve thread that is not yet looping.  *)
StopShutdownEarly(t) ==
    /\ stopper[t] = "shutdown"
    /\ shutdown_request' = (serve = "loop")
    /\ stopper' = [stopper EXCEPT ![t] = "wait"]
    /\ UNCHANGED <<started, serve, listening, stopped, victims, tunnels, connVars>>

StopShutdown(t) ==
    /\ stopper[t] = "shutdown"
    /\ shutdown_request' = TRUE
    /\ stopper' = [stopper EXCEPT ![t] = "wait"]
    /\ UNCHANGED <<started, serve, listening, stopped, victims, tunnels, connVars>>

(* Mutant: the end of the accept loop is not awaited.                      *)
StopServerCloseNow(t) ==
    /\ stopper[t] = "wait"
    /\ listening' = FALSE
    /\ stopper' = [stopper EXCEPT ![t] = "sweep"]
    /\ UNCHANGED <<started, serve, shutdown_request, stopped, victims, tunnels, connVars>>

(* httpd.shutdown() returns once the loop is left; server_close follows.   *)
StopServerClose(t) ==
    /\ stopper[t] = "wait" /\ serve = "exited"
    /\ listening' = FALSE
    /\ stopper' = [stopper EXCEPT ![t] = "sweep"]
    /\ UNCHANGED <<started, serve, shutdown_request, stopped, victims, tunnels, connVars>>

StopSweep(t) ==
    /\ stopper[t] = "sweep"
    /\ victims' = [victims EXCEPT ![t] = tunnels]
    /\ tunnels' = {}
    /\ stopper' = [stopper EXCEPT ![t] = "closing"]
    /\ UNCHANGED <<srvVars, stopped, connVars>>

StopCloseOne(t) ==
    /\ stopper[t] = "closing"
    /\ \E s \in victims[t] :
          /\ victims' = [victims EXCEPT ![t] = @ \ {s}]
          /\ client' = IF s[2] = "client" THEN [client EXCEPT ![s[1]] = "closed"] ELSE client
          /\ up'     = IF s[2] = "up"     THEN [up EXCEPT ![s[1]] = "closed"]     ELSE up
    /\ UNCHANGED <<srvVars, stopped, stopper, tunnels, pc, req, events>>

StopEnd(t) ==
    /\ stopper[t] = "closing" /\ victims[t] = {}
    /\ stopper' = [stopper EXCEPT ![t] = "done"]
    /\ UNCHANGED <<srvVars, stopped, victims, tunnels, connVars>>

-----------------------------------------------------------------------------
(* The handler of connection c.  Goto moves it on; at "done" the base      *)
(* class has closed the client socket.                                     *)

Goto(c, l) ==
    /\ pc' = [pc EXCEPT ![c] = l]
    /\ client' = IF l = "done" THEN [client EXCEPT ![c] = "closed"] ELSE client

(* Mutant: the event of a failure names no host.                           *)
emit_nothing_known(c, ok, error) ==
    events' = Append(events, IF error THEN [conn |-> c, error |-> TRUE]
                             ELSE [conn |-> c, host |-> req[c].host, allowed |-> ok,
                                   error |-> FALSE])

emit(c, ok, error) ==
    events' = Append(events, [conn |-> c, host |-> req[c].host, allowed |-> ok, error |-> error])

Local == <<srvVars, stopVars, tunnels>>

(* A complete request; without the run's credential it is answered 407.    *)
ReadRequest(c) ==
    /\ pc[c] = "read"
    /\ \E r \in Request : /\ req' = [req EXCEPT ![c] = r]
                          /\ Goto(c, IF r.auth THEN "decide" ELSE "done")
    /\ UNCHANGED <<Local, up, events>>

(* request_timeout, end of file or garbage before the headers are complete *)
ReadFails(c) ==
    /\ pc[c] = "read" /\ Goto(c, "done")
    /\ UNCHANGED <<Local, req, up, events>>

(* urlsplit() may refuse an absolute-form target; do_GET swallows that.    *)
TargetRaises(c) ==
    /\ pc[c] = "decide" /\ req[c].method = "HTTP" /\ Goto(c, "done")
    /\ UNCHANGED <<Local, req, up, events>>

(* Mutant: a plain HTTP request is refused only without a host.            *)
DeniedForTunnels(r) ==
    \/ r.method = "CONNECT" /\ r.host \notin Sanctioned
    \/ r.method = "HTTP" /\ r.host = NoHost

Denied(r) == r.host \notin Sanctioned \/ (r.method = "HTTP" /\ r.host = NoHost)

Deny(c) ==
    /\ pc[c] = "decide" /\ Denied(req[c])
    /\ emit(c, FALSE, FALSE) /\ Goto(c, "done")
    /\ UNCHANGED <<Local, req, up>>

Allow(c) ==
    /\ pc[c] = "decide" /\ ~ Denied(req[c])
    /\ Goto(c, IF req[c].method = "HTTP" THEN "body" ELSE "dial")
    /\ UNCHANGED <<Local, req, up, events>>

(* Only the HTTP path reads a body; it may be empty.  A client that stalls *)
(* or disappears raises out of the handler.                                *)
ReadBody(c) ==
    /\ pc[c] = "body"
    /\ Goto(c, "dial") \/ Goto(c, "done")
    /\ UNCHANGED <<Local, req, up, events>>

DialOk(c) ==
    /\ pc[c] = "dial" /\ req[c].host \notin Unencodable /\ Goto(c, "dialled")
    /\ up' = [up EXCEPT ![c] = "open"]
    /\ UNCHANGED <<Local, req, events>>

(* Mutant: a failed dial is logged and tried again.                        *)
DialRetries(c) ==
    /\ pc[c] = "dial" /\ req[c].host \notin Unencodable /\ Len(events) < 4
    /\ emit(c, TRUE, TRUE) /\ Goto(c, "dial")
    /\ UNCHANGED <<Local, req, up>>

DialFails(c) ==
    /\ pc[c] = "dial" /\ req[c].host \notin Unencodable
    /\ emit(c, TRUE, TRUE) /\ Goto(c, "done")
    /\ UNCHANGED <<Local, req, up>>

(* A UnicodeError is no OSError: do_CONNECT and do_GET swallow it.         *)
DialRaises(c) ==
    /\ pc[c] = "dial" /\ req[c].host \in Unencodable /\ Goto(c, "done")
    /\ UNCHANGED <<Local, req, up, events>>

EmitAllowed(c) ==
    /\ pc[c] = "dialled"
    /\ emit(c, TRUE, FALSE)
    /\ Goto(c, IF req[c].method = "CONNECT" THEN "announce" ELSE "register")
    /\ UNCHANGED <<Local, req, up>>

(* Mutant: the upstream socket is forgotten when the client is gone.       *)
AnnounceForgets(c) ==
    /\ pc[c] = "announce"
    /\ Goto(c, "register") \/ Goto(c, "done")
    /\ UNCHANGED <<Local, req, up, events>>

(* "200 Connection Established"; a client that is gone ends the attempt.   *)
Announce(c) ==
    /\ pc[c] = "announce"
    /\ \/ Goto(c, "register") /\ UNCHANGED up
       \/ Goto(c, "done") /\ up' = [up EXCEPT ![c] = "closed"]
    /\ UNCHANGED <<Local, req, events>>

Register(c) ==
    /\ pc[c] = "register" /\ Goto(c, "relay")
    /\ tunnels' = tunnels \cup Socks(c)
    /\ UNCHANGED <<srvVars, stopVars, req, up, events>>

(* The relay ends when its peers close, fail or stay idle too long ...     *)
RelayEnds(c) ==
    /\ pc[c] = "relay" /\ Goto(c, "unregister")
    /\ up' = IF req[c].method = "CONNECT" THEN [up EXCEPT ![c] = "closed"] ELSE up
    /\ UNCHANGED <<Local, req, events>>

(* ... and cannot go on when stop() has closed the upstream socket.        *)
Cut(c) == up[c] = "closed"

(* Mutant: only the client's end of the relay is watched.                  *)
RelayCutByClient(c) == client[c] = "closed" /\ RelayEnds(c)

RelayCut(c) == Cut(c) /\ RelayEnds(c)

Unregister(c) ==
    /\ pc[c] = "unregister" /\ Goto(c, "done")
    /\ tunnels' = tunnels \ Socks(c)
    /\ up' = [up EXCEPT ![c] = "closed"]
    /\ UNCHANGED <<srvVars, stopVars, req, events>>

-----------------------------------------------------------------------------
StopStep(t) == StopShutdown(t) \/ StopServerClose(t) \/ StopSweep(t)
               \/ StopCloseOne(t) \/ StopEnd(t)

(* The handler's own steps: each has a timeout of its own in the code.     *)
HandlerStep(c) ==
    \/ ReadRequest(c) \/ ReadFails(c) \/ TargetRaises(c) \/ Deny(c) \/ Allow(c)
    \/ ReadBody(c) \/ DialOk(c) \/ DialFails(c) \/ DialRaises(c) \/ EmitAllowed(c)
    \/ Announce(c) \/ Register(c) \/ RelayCut(c) \/ Unregister(c)

Next ==
    \/ Start \/ ServeEnter \/ ServeExit
    \/ \E t \in Caller : StopBegin(t) \/ StopStep(t)
    \/ \E c \in Conn : Accept(c) \/ HandlerStep(c) \/ RelayEnds(c)

Fairness ==
    /\ WF_vars(ServeEnter) /\ WF_vars(ServeExit)
    /\ \A t \in Caller : WF_vars(StopStep(t))
    /\ \A c \in Conn : WF_vars(HandlerStep(c))

Spec == Init /\ [][Next]_vars /\ Fairness

-----------------------------------------------------------------------------
(* Properties *)

TypeOK ==
    /\ started \in BOOLEAN /\ stopped \in BOOLEAN
    /\ shutdown_request \in BOOLEAN /\ listening \in BOOLEAN
    /\ serve \in {"none", "born", "loop", "exited"}
    /\ stopper \in [Caller -> {"idle", "skipped", "shutdown", "wait", "sweep", "closing", "done"}]
    /\ victims \in [Caller -> SUBSET Sock]
    /\ tunnels \subseteq Sock
    /\ pc \in [Conn -> {"idle", "read", "decide", "body", "dial", "dialled", "announce",
                        "register", "relay", "unregister", "done"}]
    /\ req \in [Conn -> Request \cup {NoReq}]
    /\ client \in [Conn -> {"none", "open", "closed"}]
    /\ up \in [Conn -> {"none", "open", "closed"}]
    /\ events \in Seq([conn : Conn, host : Host, allowed : BOOLEAN, error : BOOLEAN])

EventsOf(c) == {i \in DOMAIN events : events[i].conn = c}

(* A host outside the plan is never dialled, an unauthorized client never  *)
(* makes the proxy dial, and once the client can exchange a byte with the  *)
(* upstream the log holds exactly one event for it, an allowed one without *)
(* error: nothing flows that monitoring has not been told of.              *)
NothingFlowsUnlogged ==
    \A c \in Conn :
        /\ up[c] # "none" => req[c].auth /\ req[c].host \in Sanctioned
        /\ pc[c] \in {"announce", "register", "relay", "unregister"} =>
              \E i \in DOMAIN events :
                 /\ EventsOf(c) = {i}
                 /\ events[i] = [conn |-> c, host |-> req[c].host,
                                 allowed |-> TRUE, error |-> FALSE]

(* No attempt is logged twice, an event's verdict is the plan's verdict on *)
(* its host except for an HTTP request without host, and a finished        *)
(* handler that has dialled, or has refused a CONNECT, is in the log.      *)
AttemptsLoggedOnce ==
    /\ \A i, j \in DOMAIN events : events[i].conn = events[j].conn => i = j
    /\ \A i \in DOMAIN events :
          LET r == req[events[i].conn] IN
          /\ r.auth /\ events[i].host = r.host
          /\ events[i].allowed = ~ Denied(r)
    /\ \A c \in Conn :
          /\ pc[c] = "done" /\ req[c].auth
          /\ up[c] # "none" \/ (req[c].method = "CONNECT" /\ Denied(req[c]))
          => EventsOf(c) # {}

(* A finished handler holds no open socket and no entry of the registry,   *)
(* whichever of its exits it took and whatever stop() did meanwhile.       *)
FinishedHandlersLeakNothing ==
    \A c \in Conn : pc[c] = "done" =>
        /\ client[c] = "closed" /\ up[c] # "open"
        /\ tunnels \cap {<<c, "client">>, <<c, "up">>} = {}

(* When the stop() call that did the work returns, the accept loop has     *)
(* been left and the listening socket is closed; every tunnel it found in  *)
(* the registry is cut: one that still relays entered the registry after   *)
(* the snapshot and is in it.                                              *)
StopStopsServing ==
    \A t \in Caller : stopper[t] = "done" =>
        /\ ~ listening /\ serve \in {"none", "exited"}
        /\ \A c \in Conn : pc[c] = "relay" => Cut(c) \/ <<c, "up">> \in tunnels

(* stop()'s docstring: any in-flight tunnel socket is force-closed, so     *)
(* that no tunnel outlives stop().                                         *)
StopCutsEveryTunnel ==
    \A t \in Caller : stopper[t] = "done" => \A c \in Conn : pc[c] = "relay" => Cut(c)

(* DESIGN-egress-proxy, invariant 4: every attempt, allowed or denied,     *)
(* produces exactly one event; here for the CONNECT attempts.              *)
EveryAttemptLogged ==
    \A c \in Conn : pc[c] = "done" /\ req[c].auth /\ req[c].method = "CONNECT"
                      => \E i \in DOMAIN events : EventsOf(c) = {i}

(* A stop() call returns: httpd.shutdown() cannot wait for ever, not even  *)
(* when it overtakes the start of serve_forever.                           *)
StopReturns == \A t \in Caller : stopper[t] = "shutdown" ~> stopper[t] = "done"

(* Every accepted connection ends or becomes a tunnel, and a tunnel that   *)
(* stop() cut is cleaned up by its handler.                                *)
HandlersProgress ==
    \A c \in Conn : /\ pc[c] = "read" ~> pc[c] \in {"relay", "done"}
                    /\ (pc[c] = "relay" /\ Cut(c)) ~> pc[c] = "done"
=============================================================================
