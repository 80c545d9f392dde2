---------------------------- MODULE DockerProofs ---------------------------
(***************************************************************************)
(* What the docker backend guarantees whatever the daemon fails at, for    *)
(* any endpoints, pids, number of proxy events and number of blocks.       *)
(***************************************************************************)
EXTENDS DockerAdapter, SequenceTheorems, TLAPS

Polling == {"inspect", "gateway", "net", "yieldnet", "top", "yieldtop", "drain", "final"}
Gone    == {"exited", "removed"}

Typed ==
    /\ container \in {"none", "running"} \cup Gone
    /\ proxy \in {"none", "on", "stopped"}
    /\ gateway_ip \in {"unresolved", "unknown", "known"}
    /\ gen \in {"unborn", "finally", "over"} \cup Polling
    /\ outcome \in {"none", "ended", "raised", "closed"}
    /\ main \in {"start", "launch", "startfailed", "watch", "killcheck", "blockfailed",
                 "rm", "stopped", "stopfailed"}
    /\ emitted \in Nat /\ atExit \in Nat /\ blocks \in Nat
    /\ proxyq \in Seq(Nat) /\ drained \in Seq(Nat)

(* Before the launch there is neither a container nor a stream.            *)
LaunchInv ==
    /\ main \in {"start", "launch"} =>
         gen = "unborn" /\ blocks = 0
    /\ main \in {"start", "launch", "startfailed"} <=> container = "none"
    /\ gen = "unborn" => polled = {} /\ outcome = "none"
    /\ outcome = "none" <=> gen \notin {"finally", "over"}

(* The stream leaves its loop by itself only for a container that is gone, *)
(* and a container that is gone does not come back.                        *)
EndInv == gen = "final" \/ outcome = "ended" => container \in Gone

(* The queue between the proxy and the stream loses and swaps nothing.     *)
QueueInv ==
    /\ drained \o proxyq = [i \in 1..emitted |-> i]
    /\ atExit <= emitted
    /\ outcome = "ended" => Len(drained) >= atExit

(* The gateway is read before the first poll, so that the hop that polls   *)
(* leave out is the same one as long as the stream lives.                  *)
GatewayInv ==
    /\ Channel /\ gateway_ip = "unresolved" => polled = {}
    /\ Channel /\ gen = "net" => gateway_ip # "unresolved"

IInv == Typed /\ LaunchInv /\ EndInv /\ QueueInv /\ GatewayInv
        /\ EndpointsAccountedFor /\ NoProxyLeftRunning /\ EnforcementIsNotSilent

-----------------------------------------------------------------------------
(* Docker's answers *)

(* An answer of docker inspect is the truth about the container.           *)
LEMMA AnswersAreTrue ==
    /\ "true" \in Answers => container = "running"
    /\ "false" \in Answers => container = "exited"
  BY DEF Answers

(* A command that works found the container running.                       *)
LEMMA WorksIsRunning == \A ok \in Works : ok => container = "running"
  BY DEF Works

(* An event that is queued comes after all that were emitted before it.    *)
LEMMA QueueGrows ==
    ASSUME NEW d \in Seq(Nat), NEW q \in Seq(Nat), NEW x \in Nat
    PROVE  d \o Append(q, x) = Append(d \o q, x)
<1>1. Append(q, x) = q \o <<x>> /\ Append(d \o q, x) = (d \o q) \o <<x>>
  BY AppendIsConcat, ConcatProperties
<1>2. d \o (q \o <<x>>) = (d \o q) \o <<x>>
  BY ConcatAssociative
<1> QED
  BY <1>1, <1>2

(* Counting one further appends the next number.                           *)
LEMMA CountingGrows ==
    ASSUME NEW n \in Nat
    PROVE  Append([i \in 1..n |-> i], n + 1) = [i \in 1..(n + 1) |-> i]
  OBVIOUS

(* Draining moves the oldest event and changes nothing else.               *)
LEMMA DrainMoves ==
    ASSUME NEW d \in Seq(Nat), NEW q \in Seq(Nat), q # << >>
    PROVE  /\ Append(d, Head(q)) \in Seq(Nat) /\ Tail(q) \in Seq(Nat)
           /\ Append(d, Head(q)) \o Tail(q) = d \o q
<1>1. Append(d, Head(q)) \in Seq(Nat) /\ Tail(q) \in Seq(Nat) /\ Len(q) > 0
  OBVIOUS
<1>2. Len(Append(d, Head(q)) \o Tail(q)) = Len(d \o q)
  BY <1>1
<1>3. ASSUME NEW i \in 1..Len(d \o q) PROVE (Append(d, Head(q)) \o Tail(q))[i] = (d \o q)[i]
  <2>1. CASE i <= Len(d)
    BY <2>1, <1>1
  <2>2. CASE i = Len(d) + 1
    BY <2>2, <1>1
  <2>3. CASE i > Len(d) + 1
    BY <2>3, <1>1
  <2> QED
    BY <2>1, <2>2, <2>3
<1> QED
  BY <1>1, <1>2, <1>3

-----------------------------------------------------------------------------
(* The steps *)

(* Every step of the container, the stream and the two calls keeps it.     *)
LEMMA Inductive == IInv /\ [Next]_vars => IInv'
<1> SUFFICES ASSUME IInv, [Next]_vars PROVE IInv'
  OBVIOUS
<1> USE DEF IInv, Typed, Polling, Gone, Channel, envVars, chanVars, genVars, mainVars,
            LaunchInv, EndInv, GatewayInv, EndpointsAccountedFor, NoProxyLeftRunning,
            EnforcementIsNotSilent
<1>1. CASE StartProxy
  BY <1>1 DEF StartProxy, QueueInv
<1>2. CASE Launch
  BY <1>2 DEF Launch, QueueInv
<1>3. CASE Connect
  BY <1>3 DEF Connect, QueueInv
<1>4. CASE Spawn
  BY <1>4 DEF Spawn, QueueInv
<1>5. CASE Exit
  BY <1>5 DEF Exit, QueueInv, Becomes
<1>6. CASE Reap
  BY <1>6 DEF Reap, QueueInv, Becomes
<1>7. CASE ProxyEmit
  <2>1. proxyq' \in Seq(Nat) /\ emitted' = emitted + 1 /\ emitted' \in Nat
    BY <1>7 DEF ProxyEmit
  <2>2. drained \o Append(proxyq, emitted + 1) = [i \in 1..(emitted + 1) |-> i]
    <3>1. drained \o proxyq = [i \in 1..emitted |-> i]
      BY DEF QueueInv
    <3>2. drained \o Append(proxyq, emitted + 1) = Append(drained \o proxyq, emitted + 1)
      BY QueueGrows
    <3> QED
      BY <3>1, <3>2, CountingGrows
  <2>3. drained' \o proxyq' = [i \in 1..emitted' |-> i]
    BY <1>7, <2>2 DEF ProxyEmit
  <2>4. QueueInv'
    <3>1. atExit' = atExit /\ outcome' = outcome /\ drained' = drained
      BY <1>7 DEF ProxyEmit
    <3> QED
      BY <2>1, <2>3, <3>1 DEF QueueInv
  <2> QED
    BY <1>7, <2>1, <2>4 DEF ProxyEmit
<1>8. CASE InspectAnswers
  BY <1>8, AnswersAreTrue DEF InspectAnswers, QueueInv
<1>9. CASE InspectFails
  BY <1>9 DEF InspectFails, QueueInv
<1>10. CASE ResolveGateway
  BY <1>10 DEF ResolveGateway, QueueInv
<1>11. CASE PollNet
  BY <1>11, WorksIsRunning DEF PollNet, QueueInv, Suppressed
<1>12. CASE YieldEndpoint
  BY <1>12 DEF YieldEndpoint, QueueInv
<1>13. CASE PollTop
  BY <1>13 DEF PollTop, QueueInv
<1>14. CASE YieldPid
  BY <1>14 DEF YieldPid, QueueInv
<1>15. CASE Drain
  <2>1. CASE proxyq # << >>
    <3>1. /\ drained' \in Seq(Nat) /\ proxyq' \in Seq(Nat)
          /\ drained' \o proxyq' = drained \o proxyq
          /\ UNCHANGED <<gen, outcome>>
      BY <1>15, <2>1, DrainMoves DEF Drain
    <3>2. QueueInv'
      BY <1>15, <3>1 DEF Drain, QueueInv
    <3> QED
      BY <1>15, <3>1, <3>2 DEF Drain
  <2>2. CASE proxyq = << >>
    <3>1. UNCHANGED <<drained, proxyq>>
      BY <1>15, <2>2 DEF Drain
    <3>2. Len(drained) = emitted
      <4>1. drained = [j \in 1..emitted |-> j]
        BY <2>2 DEF QueueInv
      <4> QED
        BY <4>1
    <3>3. QueueInv'
      BY <1>15, <3>1, <3>2 DEF Drain, QueueInv
    <3> QED
      BY <1>15, <2>2, <3>1, <3>3 DEF Drain
  <2> QED
    BY <2>1, <2>2
<1>16. CASE Finally
  BY <1>16 DEF Finally, QueueInv
<1>17. CASE CloseGenerator
  BY <1>17 DEF CloseGenerator, QueueInv
<1>18. CASE Kill
  BY <1>18, WorksIsRunning DEF Kill, QueueInv, Becomes
<1>19. CASE KillCheck
  BY <1>19, AnswersAreTrue DEF KillCheck, QueueInv
<1>20. CASE StopProxy
  BY <1>20 DEF StopProxy, QueueInv
<1>21. CASE ForceRemove
  BY <1>21 DEF ForceRemove, QueueInv, Becomes
<1>22. CASE UNCHANGED vars
  BY <1>22 DEF vars, QueueInv
<1> QED
  BY <1>1, <1>2, <1>3, <1>4, <1>5, <1>6, <1>7, <1>8, <1>9, <1>10, <1>11, <1>12, <1>13, <1>14, <1>15, <1>16, <1>17, <1>18, <1>19, <1>20, <1>21, <1>22
  DEF Next, Stream, Stopping

(* Nothing has been started, polled or emitted.                            *)
LEMMA Initially == Init => IInv
<1> SUFFICES ASSUME Init PROVE IInv
  OBVIOUS
<1>1. << >> \o << >> = [i \in 1..0 |-> i]
  OBVIOUS
<1>2. QueueInv
  BY <1>1 DEF Init, QueueInv
<1> QED
  BY <1>2 DEF Init, IInv, Typed, Polling, Gone, Channel, LaunchInv, EndInv, GatewayInv,
              EndpointsAccountedFor, NoProxyLeftRunning, EnforcementIsNotSilent

(* IInv holds in every reachable state.                                    *)
LEMMA Invariance == Spec => []IInv
  BY Initially, Inductive, PTL DEF Spec

-----------------------------------------------------------------------------
(* No failure of the daemon ends the observation of a live server as if it *)
(* had exited, see StreamEndMeansExit.                                     *)
THEOREM LiveServersStayWatched == Spec => []StreamEndMeansExit
<1>1. IInv => StreamEndMeansExit
  BY DEF IInv, EndInv, Gone, StreamEndMeansExit
<1> QED
  BY <1>1, Invariance, PTL

(* Whatever a poll has read is yielded, unless it is the hop to the proxy, *)
(* see EndpointsAccountedFor.                                              *)
THEOREM PolledIsYielded == Spec => []EndpointsAccountedFor
<1>1. IInv => EndpointsAccountedFor
  BY DEF IInv
<1> QED
  BY <1>1, Invariance, PTL

(* The proxy's events arrive in order, without gaps, and at the normal end *)
(* of the stream all of them up to the exit, see ProxyEventsDelivered.     *)
THEOREM EventsAreDelivered == Spec => []ProxyEventsDelivered
<1>1. IInv => ProxyEventsDelivered
  BY DEF IInv, QueueInv, ProxyEventsDelivered
<1> QED
  BY <1>1, Invariance, PTL

(* Neither the stream nor stop() nor a failed launch leaves the proxy      *)
(* running, see NoProxyLeftRunning.                                        *)
THEOREM TheProxyIsStopped == Spec => []NoProxyLeftRunning
<1>1. IInv => NoProxyLeftRunning
  BY DEF IInv
<1> QED
  BY <1>1, Invariance, PTL

(* A block() or stop() that returns has done what it says, whatever the    *)
(* daemon answered, see EnforcementIsNotSilent.                            *)
THEOREM EnforcementIsReal == Spec => []EnforcementIsNotSilent
<1>1. IInv => EnforcementIsNotSilent
  BY DEF IInv
<1> QED
  BY <1>1, Invariance, PTL
=============================================================================
