---------------------------- MODULE DockerAdapter ---------------------------
(***************************************************************************)
(* The docker backend (ral/docker.py): start(), the polling event_stream   *)
(* generator, block() and stop(), against a container run with --rm, which *)
(* the daemon removes by itself some time after it exits, a daemon whose   *)
(* commands may fail, and the egress proxy whose events wait in a queue.   *)
(* The generator and the thread that blocks and stops are two actors: with *)
(* a duration, Monitor.run pumps the stream from a thread of its own.      *)
(***************************************************************************)
EXTENDS Naturals, FiniteSets, SequencesExt

CONSTANTS Endpoint,      \* the remote (ip, port) pairs the server may reach
          OnProxyPort,   \* those with the port of the egress proxy
          Hop,           \* the one of them at the container's gateway
          Pid,
          DaemonFails,   \* docker commands may fail although they could work
          EmitBound,     \* bound of the model: events the proxy emits
          BlockBound     \* bound of the model: calls of block()

ASSUME DockerAssumption ==
    Hop \in OnProxyPort /\ OnProxyPort \subseteq Endpoint /\ DaemonFails \in BOOLEAN

Attempts    == 3      \* _running's inspect attempts
RmAttempts  == 2      \* stop's docker rm attempts

VARIABLES container,   \* "none", "running", "exited" or "removed"
          net, procs,  \* endpoints and pids the container has opened
          proxy,       \* "none" (no channel), "on" or "stopped"
          emitted,     \* number of events the proxy has emitted
          proxyq,      \* the events not yet drained
          gateway_ip,  \* "unresolved", "unknown" or "known"
          gen,         \* where the generator is
          tries,       \* inspect attempts of the generator
          batch,       \* what the current poll still has to yield
          seen_endpoints, seen_pids,
          drained,     \* proxy events yielded, in order
          atExit,      \* history: emitted when the container stopped running
          polled,      \* history: endpoints any poll has read
          outcome,     \* how the generator finished
          main,        \* where the thread calling block and stop is
          mtries, blocks

envVars  == <<container, net, procs, atExit>>
chanVars == <<proxy, emitted, proxyq>>
genVars  == <<gateway_ip, gen, tries, batch, seen_endpoints, seen_pids, drained,
              polled, outcome>>
mainVars == <<main, mtries, blocks>>
vars     == <<envVars, chanVars, genVars, mainVars>>

Channel == proxy # "none"

-----------------------------------------------------------------------------
Init ==
    /\ container = "none" /\ net = {} /\ procs = {} /\ atExit = 0
    /\ proxy = "none" /\ emitted = 0 /\ proxyq = << >>
    /\ gateway_ip = "unresolved"
    /\ gen = "unborn" /\ tries = 0 /\ batch = {}
    /\ seen_endpoints = {} /\ seen_pids = {} /\ drained = << >> /\ polled = {}
    /\ outcome = "none"
    /\ main = "start" /\ mtries = 0 /\ blocks = 0

(* start(): the proxy first when the plan lets anything out, then docker   *)
(* run; a failed launch stops the proxy and raises.                        *)
StartProxy ==
    /\ main = "start" /\ proxy = "none"
    /\ proxy' = "on" /\ main' = "launch"
    /\ UNCHANGED <<envVars, emitted, proxyq, genVars, mtries, blocks>>

Launch ==
    /\ main \in {"start", "launch"}
    /\ \/ /\ container' = "running" /\ main' = "watch" /\ gen' = "inspect"
          /\ UNCHANGED proxy
       \/ /\ main' = "startfailed"
          /\ proxy' = IF Channel THEN "stopped" ELSE proxy
          /\ UNCHANGED <<container, gen>>
    /\ UNCHANGED <<net, procs, atExit, emitted, proxyq, gateway_ip, tries, batch, seen_endpoints,
                   seen_pids, drained, polled, outcome, mtries, blocks>>

-----------------------------------------------------------------------------
(* The container, the daemon's --rm, and the proxy's handler threads       *)

Connect ==
    /\ container = "running"
    /\ \E e \in Endpoint \ net : net' = net \cup {e}
    /\ UNCHANGED <<container, procs, atExit, chanVars, genVars, mainVars>>

Spawn ==
    /\ container = "running"
    /\ \E p \in Pid \ procs : procs' = procs \cup {p}
    /\ UNCHANGED <<container, net, atExit, chanVars, genVars, mainVars>>

Becomes(state) ==
    /\ container' = state
    /\ atExit' = IF container = "running" THEN emitted ELSE atExit

Exit ==
    /\ container = "running" /\ Becomes("exited")
    /\ UNCHANGED <<net, procs, chanVars, genVars, mainVars>>

Reap ==
    /\ container = "exited" /\ Becomes("removed")
    /\ UNCHANGED <<net, procs, chanVars, genVars, mainVars>>

ProxyEmit ==
    /\ proxy = "on" /\ container # "none" /\ emitted < EmitBound
    /\ emitted' = emitted + 1 /\ proxyq' = Append(proxyq, emitted + 1)
    /\ UNCHANGED <<envVars, proxy, genVars, mainVars>>

(* What docker inspect may answer, and whether exec and top may work.      *)
Answers == (CASE container = "running" -> {"true"}
              [] container = "exited"  -> {"false"}
              [] OTHER                 -> {"fails"})
           \cup (IF DaemonFails THEN {"fails"} ELSE {})

Works == (IF container = "running" THEN {TRUE} ELSE {FALSE})
         \cup (IF DaemonFails THEN {FALSE} ELSE {})

-----------------------------------------------------------------------------
(* event_stream                                                            *)

(* while self._running(...): the loop goes on or ends when docker inspect  *)
(* answers; without an answer it retries, then raises.                     *)
InspectAnswers ==
    /\ gen = "inspect" /\ tries' = 0
    /\ \/ "true"  \in Answers /\ gen' = "gateway"
       \/ "false" \in Answers /\ gen' = "final"
    /\ UNCHANGED <<envVars, chanVars, mainVars, gateway_ip, batch, seen_endpoints, seen_pids,
                   drained, polled, outcome>>

(* Mutants: the container is taken for gone, or asked for for ever.        *)
InspectFailsAsExit ==
    /\ gen = "inspect" /\ "fails" \in Answers
    /\ gen' = "final" /\ tries' = 0
    /\ UNCHANGED <<envVars, chanVars, mainVars, gateway_ip, batch, seen_endpoints, seen_pids,
                   drained, polled, outcome>>

InspectForEver ==
    /\ gen = "inspect" /\ "fails" \in Answers
    /\ tries' = (tries + 1) % Attempts
    /\ UNCHANGED <<envVars, chanVars, mainVars, gateway_ip, gen, batch, seen_endpoints,
                   seen_pids, drained, polled, outcome>>

InspectFails ==
    /\ gen = "inspect" /\ "fails" \in Answers
    /\ \/ /\ tries + 1 < Attempts
          /\ tries' = tries + 1 /\ UNCHANGED <<gen, outcome>>
       \/ /\ tries + 1 = Attempts
          /\ gen' = "finally" /\ outcome' = "raised" /\ tries' = 0
    /\ UNCHANGED <<envVars, chanVars, mainVars, gateway_ip, batch, seen_endpoints, seen_pids,
                   drained, polled>>

(* The container's default route is read once, whether that works or not.  *)
ResolveGateway ==
    /\ gen = "gateway" /\ gen' = "net"
    /\ IF Channel /\ gateway_ip = "unresolved"
         THEN \E ok \in Works : gateway_ip' \in (IF ok THEN {"known", "unknown"}
                                                     ELSE {"unknown"})
         ELSE UNCHANGED gateway_ip
    /\ UNCHANGED <<envVars, chanVars, mainVars, tries, batch, seen_endpoints, seen_pids,
                   drained, polled, outcome>>

(* Mutant: the proxy's port is never egress.                               *)
SuppressedByPort(e) == Channel /\ e \in OnProxyPort

(* The hop to the proxy is not egress; without the gateway's address every *)
(* endpoint on the proxy's port counts as that hop.                        *)
Suppressed(e) == Channel /\ e \in OnProxyPort /\ (gateway_ip # "known" \/ e = Hop)

PollNet ==
    /\ gen = "net" /\ gen' = "yieldnet"
    /\ \E ok \in Works :
         LET table == IF ok THEN net ELSE {} IN
         /\ polled' = polled \cup table
         /\ batch'  = {e \in table : ~ Suppressed(e)} \ seen_endpoints
    /\ UNCHANGED <<envVars, chanVars, mainVars, gateway_ip, tries, seen_endpoints, seen_pids,
                   drained, outcome>>

YieldEndpoint ==
    /\ gen = "yieldnet"
    /\ \/ \E e \in batch : /\ batch' = batch \ {e}
                           /\ seen_endpoints' = seen_endpoints \cup {e}
                           /\ UNCHANGED gen
       \/ batch = {} /\ gen' = "top" /\ UNCHANGED <<batch, seen_endpoints>>
    /\ UNCHANGED <<envVars, chanVars, mainVars, gateway_ip, tries, seen_pids, drained,
                   polled, outcome>>

PollTop ==
    /\ gen = "top" /\ gen' = "yieldtop"
    /\ \E ok \in Works : batch' = IF ok THEN procs \ seen_pids ELSE {}
    /\ UNCHANGED <<envVars, chanVars, mainVars, gateway_ip, tries, seen_endpoints, seen_pids,
                   drained, polled, outcome>>

YieldPid ==
    /\ gen = "yieldtop"
    /\ \/ \E p \in batch : /\ batch' = batch \ {p}
                           /\ seen_pids' = seen_pids \cup {p}
                           /\ UNCHANGED gen
       \/ batch = {} /\ gen' = "drain" /\ UNCHANGED <<batch, seen_pids>>
    /\ UNCHANGED <<envVars, chanVars, mainVars, gateway_ip, tries, seen_endpoints, drained,
                   polled, outcome>>

(* Mutant: nothing is drained after the loop.                              *)
DrainInLoop ==
    /\ gen \in {"drain", "final"}
    /\ \/ /\ gen = "drain" /\ proxyq # << >>
          /\ drained' = Append(drained, Head(proxyq)) /\ proxyq' = Tail(proxyq)
          /\ UNCHANGED <<gen, outcome>>
       \/ /\ gen = "drain" => proxyq = << >>
          /\ gen' = IF gen = "drain" THEN "inspect" ELSE "finally"
          /\ outcome' = IF gen = "drain" THEN outcome ELSE "ended"
          /\ UNCHANGED <<drained, proxyq>>
    /\ UNCHANGED <<envVars, proxy, emitted, mainVars, gateway_ip, tries, batch,
                   seen_endpoints, seen_pids, polled>>

(* _drain_proxy, in the loop and once more after it; then the poll sleeps, *)
(* or the generator ends.                                                  *)
Drain ==
    /\ gen \in {"drain", "final"}
    /\ \/ /\ proxyq # << >>
          /\ drained' = Append(drained, Head(proxyq)) /\ proxyq' = Tail(proxyq)
          /\ UNCHANGED <<gen, outcome>>
       \/ /\ proxyq = << >> /\ UNCHANGED <<drained, proxyq>>
          /\ gen' = IF gen = "drain" THEN "inspect" ELSE "finally"
          /\ outcome' = IF gen = "drain" THEN outcome ELSE "ended"
    /\ UNCHANGED <<envVars, proxy, emitted, mainVars, gateway_ip, tries, batch,
                   seen_endpoints, seen_pids, polled>>

(* The consumer drops the generator at a yield.                            *)
CloseGenerator ==
    /\ gen \in {"yieldnet", "yieldtop", "drain", "final"}
    /\ gen' = "finally" /\ outcome' = "closed"
    /\ UNCHANGED <<envVars, chanVars, mainVars, gateway_ip, tries, batch, seen_endpoints,
                   seen_pids, drained, polled>>

(* Mutant: the proxy is left to stop().                                    *)
FinallyNothing ==
    /\ gen = "finally" /\ gen' = "over"
    /\ UNCHANGED <<envVars, chanVars, mainVars, gateway_ip, tries, batch, seen_endpoints,
                   seen_pids, drained, polled, outcome>>

Finally ==
    /\ gen = "finally" /\ gen' = "over"
    /\ proxy' = IF Channel THEN "stopped" ELSE proxy
    /\ UNCHANGED <<envVars, emitted, proxyq, mainVars, gateway_ip, tries, batch,
                   seen_endpoints, seen_pids, drained, polled, outcome>>

-----------------------------------------------------------------------------
(* block() and stop()                                                      *)

Kill ==
    /\ main = "watch" /\ blocks < BlockBound
    /\ blocks' = blocks + 1
    /\ \E ok \in Works :
          \/ ok /\ Becomes("exited") /\ UNCHANGED main
          \/ ~ ok /\ main' = "killcheck" /\ UNCHANGED <<container, atExit>>
    /\ UNCHANGED <<net, procs, chanVars, genVars, mtries>>

(* Mutant: a daemon that does not answer counts as a container that exited. *)
KillCheckAssumes ==
    /\ main = "killcheck"
    /\ \E a \in Answers : main' = IF a = "true" THEN "blockfailed" ELSE "watch"
    /\ mtries' = 0
    /\ UNCHANGED <<envVars, chanVars, genVars, blocks>>

(* The kill failed: is the container still running?                        *)
KillCheck ==
    /\ main = "killcheck"
    /\ \E a \in Answers :
         \/ a = "false" /\ main' = "watch" /\ mtries' = 0
         \/ a = "true"  /\ main' = "blockfailed" /\ mtries' = 0
         \/ a = "fails" /\ mtries + 1 < Attempts /\ mtries' = mtries + 1 /\ UNCHANGED main
         \/ a = "fails" /\ mtries + 1 = Attempts /\ main' = "blockfailed" /\ mtries' = 0
    /\ UNCHANGED <<envVars, chanVars, genVars, blocks>>

(* Called when the run is over, also after block() raised: the proxy, then *)
(* docker rm -f, where "no such container" is a success.                   *)
StopProxy ==
    /\ main \in {"watch", "blockfailed"}
    /\ main' = "rm"
    /\ proxy' = IF Channel THEN "stopped" ELSE proxy
    /\ UNCHANGED <<envVars, emitted, proxyq, genVars, mtries, blocks>>

ForceRemove ==
    /\ main = "rm"
    /\ \/ Becomes("removed") /\ main' = "stopped" /\ mtries' = 0
       \/ /\ DaemonFails /\ mtries + 1 < RmAttempts
          /\ mtries' = mtries + 1 /\ UNCHANGED <<container, atExit, main>>
       \/ /\ DaemonFails /\ mtries + 1 = RmAttempts
          /\ main' = "stopfailed" /\ mtries' = 0 /\ UNCHANGED <<container, atExit>>
    /\ UNCHANGED <<net, procs, chanVars, genVars, blocks>>

-----------------------------------------------------------------------------
Stream == InspectAnswers \/ InspectFails \/ ResolveGateway \/ PollNet \/ YieldEndpoint
          \/ PollTop \/ YieldPid \/ Drain \/ Finally
Stopping == KillCheck \/ ForceRemove

Next ==
    \/ StartProxy \/ Launch \/ Connect \/ Spawn \/ Exit \/ Reap \/ ProxyEmit
    \/ Stream \/ CloseGenerator \/ Kill \/ StopProxy \/ Stopping

(* The pump keeps asking the generator, and a docker command returns.      *)
Spec == Init /\ [][Next]_vars /\ WF_vars(Stream) /\ WF_vars(Stopping)

-----------------------------------------------------------------------------
(* Properties *)

(* The generator ends normally only when the container has left the        *)
(* running state: a daemon that does not answer never ends the observation *)
(* of a live server (_container_state tells None from False).              *)
StreamEndMeansExit == outcome = "ended" => container \in {"exited", "removed"}

(* No endpoint a poll has read is forgotten: it was yielded, is about to   *)
(* be, or is on the proxy's port, and at the gateway if that is known.     *)
EndpointsAccountedFor ==
    outcome \in {"none", "ended", "raised"} =>
      \A e \in polled \ seen_endpoints :
        \/ gen = "yieldnet" /\ e \in batch
        \/ Channel /\ e \in OnProxyPort /\ (gateway_ip = "known" => e = Hop)

(* The proxy's events reach the consumer in order and without gaps, and a  *)
(* stream that ended normally has yielded all of those emitted while the   *)
(* container was running.                                                  *)
ProxyEventsDelivered ==
    /\ drained \o proxyq = [i \in 1..emitted |-> i]
    /\ outcome = "ended" => Len(drained) >= atExit

(* No proxy survives the stream, a stop() or a failed launch.              *)
NoProxyLeftRunning ==
    gen = "over" \/ main \in {"startfailed", "rm", "stopped", "stopfailed"} => proxy # "on"

(* A block() that returned has ended the container, and a stop() that      *)
(* returned has removed it; otherwise they raise.                          *)
EnforcementIsNotSilent ==
    /\ main = "watch" /\ blocks > 0 => container # "running"
    /\ main = "stopped" => container = "removed"
    /\ main = "startfailed" => container = "none"

(* ral/base.py: event_stream must not raise on server exit, just end.      *)
(* Here no block() or stop() was called and every docker command that can  *)
(* work does.                                                              *)
ServerExitEndsTheStream == ~ (outcome = "raised" /\ main = "watch" /\ blocks = 0)

(* Once the container is gone the stream comes to an end, one way or other *)
ExitFinishesStream ==
    gen # "unborn" /\ container \in {"exited", "removed"} ~> gen = "over"
=============================================================================
