-------------------------- MODULE EgressProxyProofs -------------------------
(***************************************************************************)
(* What the egress proxy guarantees for any number of connections, callers *)
(* of stop() and hosts, and any plan.                                      *)
(***************************************************************************)
EXTENDS EgressProxy, TLAPS

(* Every step keeps the types, see TypeOK.                                 *)
LEMMA TypeStep == TypeOK /\ [Next]_vars => TypeOK'
<1> SUFFICES ASSUME TypeOK, [Next]_vars PROVE TypeOK'
  OBVIOUS
<1> USE ProxyAssumption DEF TypeOK, srvVars, stopVars, connVars, Local
<1>1. CASE Start
  BY <1>1 DEF Start
<1>2. CASE ServeEnter
  BY <1>2 DEF ServeEnter
<1>3. CASE ServeExit
  BY <1>3 DEF ServeExit
<1>4. ASSUME NEW t \in Caller, StopBegin(t) PROVE TypeOK'
  BY <1>4 DEF StopBegin
<1>5. ASSUME NEW t \in Caller, StopShutdown(t) PROVE TypeOK'
  BY <1>5 DEF StopShutdown
<1>6. ASSUME NEW t \in Caller, StopServerClose(t) PROVE TypeOK'
  BY <1>6 DEF StopServerClose
<1>7. ASSUME NEW t \in Caller, StopSweep(t) PROVE TypeOK'
  BY <1>7 DEF StopSweep
<1>8. ASSUME NEW t \in Caller, StopCloseOne(t) PROVE TypeOK'
  BY <1>8 DEF StopCloseOne, Sock
<1>9. ASSUME NEW t \in Caller, StopEnd(t) PROVE TypeOK'
  BY <1>9 DEF StopEnd
<1>10. ASSUME NEW c \in Conn, Accept(c) PROVE TypeOK'
  BY <1>10 DEF Accept
<1>11. ASSUME NEW c \in Conn, ReadRequest(c) PROVE TypeOK'
  BY <1>11 DEF ReadRequest, Goto
<1>12. ASSUME NEW c \in Conn, ReadFails(c) PROVE TypeOK'
  BY <1>12 DEF ReadFails, Goto
<1>24. ASSUME NEW c \in Conn, TargetRaises(c) PROVE TypeOK'
  BY <1>24 DEF TargetRaises, Goto
<1>25. ASSUME NEW c \in Conn, DialRaises(c) PROVE TypeOK'
  BY <1>25 DEF DialRaises, Goto
<1>13. ASSUME NEW c \in Conn, Deny(c) PROVE TypeOK'
  BY <1>13 DEF Deny, Goto, emit, Request, NoReq
<1>14. ASSUME NEW c \in Conn, Allow(c) PROVE TypeOK'
  BY <1>14 DEF Allow, Goto
<1>15. ASSUME NEW c \in Conn, ReadBody(c) PROVE TypeOK'
  BY <1>15 DEF ReadBody, Goto
<1>16. ASSUME NEW c \in Conn, DialOk(c) PROVE TypeOK'
  BY <1>16 DEF DialOk, Goto
<1>17. ASSUME NEW c \in Conn, DialFails(c) PROVE TypeOK'
  BY <1>17 DEF DialFails, Goto, emit, Request, NoReq
<1>18. ASSUME NEW c \in Conn, EmitAllowed(c) PROVE TypeOK'
  BY <1>18 DEF EmitAllowed, Goto, emit, Request, NoReq
<1>19. ASSUME NEW c \in Conn, Announce(c) PROVE TypeOK'
  BY <1>19 DEF Announce, Goto
<1>20. ASSUME NEW c \in Conn, Register(c) PROVE TypeOK'
  BY <1>20 DEF Register, Goto, Socks, Sock
<1>21. ASSUME NEW c \in Conn, RelayEnds(c) PROVE TypeOK'
  BY <1>21 DEF RelayEnds, Goto
<1>22. ASSUME NEW c \in Conn, Unregister(c) PROVE TypeOK'
  BY <1>22 DEF Unregister, Goto
<1>23. CASE UNCHANGED vars
  BY <1>23 DEF vars
<1> QED
  BY <1>1, <1>2, <1>3, <1>4, <1>5, <1>6, <1>7, <1>8, <1>9, <1>10, <1>11, <1>12, <1>13,
     <1>14, <1>15, <1>16, <1>17, <1>18, <1>19, <1>20, <1>21, <1>22, <1>23, <1>24, <1>25
     DEF Next, StopStep, HandlerStep, RelayCut

LEMMA InitTypeOK == Init => TypeOK
<1> SUFFICES ASSUME Init PROVE TypeOK
  OBVIOUS
<1>1. events \in Seq([conn : Conn, host : Host, allowed : BOOLEAN, error : BOOLEAN])
  BY DEF Init
<1>2. req \in [Conn -> Request \cup {NoReq}] /\ pc \in [Conn -> {"idle"}]
  BY DEF Init
<1>3. victims \in [Caller -> SUBSET Sock] /\ stopper \in [Caller -> {"idle"}]
  BY DEF Init
<1>4. client \in [Conn -> {"none"}] /\ up \in [Conn -> {"none"}]
  BY DEF Init
<1> QED
  BY <1>1, <1>2, <1>3, <1>4 DEF Init, TypeOK

(* Type correctness: see TypeOK.                                           *)
THEOREM TypeCorrect == Spec => []TypeOK
BY InitTypeOK, TypeStep, PTL DEF Spec

-----------------------------------------------------------------------------
(* The inductive invariant.  A handler's place in its code determines what *)
(* its request may be, what the log holds of it and how far its sockets    *)
(* are; the registry and the snapshots hold sockets of tunnels only.       *)

Early   == {"idle", "read", "decide", "body", "dial"}
Cleared == {"body", "dial", "dialled", "announce", "register", "relay", "unregister"}
Flowing == {"announce", "register", "relay", "unregister"}
Working == {"shutdown", "wait", "sweep", "closing", "done"}

Record(c) == [conn |-> c, host |-> req[c].host, allowed |-> TRUE, error |-> FALSE]

RequestInv ==
    \A c \in Conn :
        /\ pc[c] \in {"idle", "read"} => ~ req[c].auth
        /\ pc[c] = "decide" => req[c].auth
        /\ pc[c] \in Cleared => req[c].auth /\ ~ Denied(req[c])
        /\ pc[c] = "body" => req[c].method = "HTTP"
        /\ up[c] # "none" => req[c].auth /\ ~ Denied(req[c])

LogInv ==
    \A c \in Conn :
        /\ pc[c] \in Early \cup {"dialled"} => EventsOf(c) = {}
        /\ pc[c] \in Flowing => \E i \in DOMAIN events : EventsOf(c) = {i} /\ events[i] = Record(c)

SocketInv ==
    /\ \A c \in Conn :
          /\ pc[c] # "done" => (up[c] = "none" <=> pc[c] \in Early)
          /\ pc[c] = "done" => client[c] = "closed" /\ up[c] # "open"
    /\ \A s \in tunnels : pc[s[1]] \in {"relay", "unregister"} /\ s \in Socks(s[1])
    /\ \A t \in Caller : \A s \in victims[t] :
          up[s[1]] # "none" /\ pc[s[1]] \in {"relay", "unregister", "done"}

StopInv ==
    /\ \A t \in Caller : stopper[t] # "idle" => stopped /\ started
    /\ \A t, u \in Caller : stopper[t] \in Working /\ stopper[u] \in Working => t = u
    /\ \A t \in Caller : victims[t] # {} => stopper[t] = "closing"
    /\ \A t \in Caller : stopper[t] \in {"sweep", "closing", "done"}
                            => ~ listening /\ serve = "exited"
    /\ \A c \in Conn : pc[c] = "relay" =>
          Cut(c) \/ <<c, "up">> \in tunnels \/ \E t \in Caller : <<c, "up">> \in victims[t]

IInv == TypeOK /\ RequestInv /\ LogInv /\ AttemptsLoggedOnce /\ SocketInv /\ StopInv

(* The steps of the serve thread and of stop() that touch no connection.   *)
ServerStep ==
    \/ Start \/ ServeEnter \/ ServeExit \/ UNCHANGED vars
    \/ \E t \in Caller : StopBegin(t) \/ StopShutdown(t) \/ StopServerClose(t) \/ StopEnd(t)

LEMMA ServerStepsTouchNoConnection ==
    ServerStep => UNCHANGED <<connVars, tunnels, victims>>
BY DEF ServerStep, Start, ServeEnter, ServeExit, vars, StopBegin, StopShutdown, StopServerClose,
       StopEnd, stopVars, srvVars, connVars

LEMMA StepCases ==
    ASSUME [Next]_vars
    PROVE  \/ ServerStep
           \/ \E t \in Caller : StopSweep(t) \/ StopCloseOne(t)
           \/ \E c \in Conn : \/ Accept(c) \/ ReadRequest(c) \/ ReadFails(c) \/ Deny(c)
                              \/ Allow(c) \/ ReadBody(c) \/ DialOk(c) \/ DialFails(c)
                              \/ EmitAllowed(c) \/ Announce(c) \/ Register(c)
                              \/ RelayEnds(c) \/ Unregister(c)
                              \/ TargetRaises(c) \/ DialRaises(c)
BY DEF Next, StopStep, HandlerStep, RelayCut, ServerStep

(* Appending an event adds one position to the events of its connection.   *)
LEMMA EmitEffect ==
    ASSUME TypeOK, NEW c \in Conn, NEW ok \in BOOLEAN, NEW error \in BOOLEAN, emit(c, ok, error)
    PROVE  /\ Len(events) + 1 \notin DOMAIN events
           /\ DOMAIN events' = DOMAIN events \cup {Len(events) + 1}
           /\ \A i \in DOMAIN events : events'[i] = events[i]
           /\ events'[Len(events) + 1] =
                [conn |-> c, host |-> req[c].host, allowed |-> ok, error |-> error]
           /\ EventsOf(c)' = EventsOf(c) \cup {Len(events) + 1}
           /\ \A d \in Conn \ {c} : EventsOf(d)' = EventsOf(d)
<1> DEFINE n == Len(events) + 1
           e == [conn |-> c, host |-> req[c].host, allowed |-> ok, error |-> error]
<1>1. events \in Seq([conn : Conn, host : Host, allowed : BOOLEAN, error : BOOLEAN])
      /\ Len(events) \in Nat /\ DOMAIN events = 1..Len(events)
  BY DEF TypeOK
<1>2. events' = Append(events, e)
  BY DEF emit
<1>3. n \notin DOMAIN events /\ DOMAIN events' = DOMAIN events \cup {n} /\ events'[n] = e
      /\ \A i \in DOMAIN events : events'[i] = events[i]
  BY <1>1, <1>2
<1>4. e.conn = c
  OBVIOUS
<1> HIDE DEF n, e
<1>5. EventsOf(c)' = EventsOf(c) \cup {n} /\ \A d \in Conn \ {c} : EventsOf(d)' = EventsOf(d)
  BY <1>3, <1>4 DEF EventsOf
<1> QED
  BY <1>3, <1>5 DEF n, e

LEMMA RequestStep == IInv /\ [Next]_vars => RequestInv'
<1> SUFFICES ASSUME IInv, [Next]_vars PROVE RequestInv'
  OBVIOUS
<1> USE DEF IInv, TypeOK, RequestInv, Local, srvVars, stopVars, Cleared
<1>1. CASE ServerStep
  BY <1>1, ServerStepsTouchNoConnection DEF connVars, Denied
<1>2. ASSUME NEW t \in Caller, StopSweep(t) PROVE RequestInv'
  BY <1>2 DEF StopSweep, connVars, Denied
<1>3. ASSUME NEW t \in Caller, StopCloseOne(t) PROVE RequestInv'
  BY <1>3 DEF StopCloseOne, SocketInv, Sock, Denied
<1>4. ASSUME NEW c \in Conn, Accept(c) PROVE RequestInv'
  BY <1>4 DEF Accept, Denied
<1>5. ASSUME NEW c \in Conn, ReadRequest(c) PROVE RequestInv'
  BY <1>5 DEF ReadRequest, Goto, Denied, Request, SocketInv, Early
<1>6. ASSUME NEW c \in Conn, ReadFails(c) PROVE RequestInv'
  BY <1>6 DEF ReadFails, Goto, Denied
<1>7. ASSUME NEW c \in Conn, Deny(c) PROVE RequestInv'
  BY <1>7 DEF Deny, Goto, Denied
<1>8. ASSUME NEW c \in Conn, Allow(c) PROVE RequestInv'
  BY <1>8 DEF Allow, Goto, Denied
<1>9. ASSUME NEW c \in Conn, ReadBody(c) PROVE RequestInv'
  BY <1>9 DEF ReadBody, Goto, Denied
<1>10. ASSUME NEW c \in Conn, DialOk(c) PROVE RequestInv'
  BY <1>10 DEF DialOk, Goto, Denied
<1>11. ASSUME NEW c \in Conn, DialFails(c) PROVE RequestInv'
  BY <1>11 DEF DialFails, Goto, Denied
<1>12. ASSUME NEW c \in Conn, EmitAllowed(c) PROVE RequestInv'
  BY <1>12 DEF EmitAllowed, Goto, Denied
<1>13. ASSUME NEW c \in Conn, Announce(c) PROVE RequestInv'
  BY <1>13 DEF Announce, Goto, Denied
<1>14. ASSUME NEW c \in Conn, Register(c) PROVE RequestInv'
  BY <1>14 DEF Register, Goto, Denied
<1>15. ASSUME NEW c \in Conn, RelayEnds(c) PROVE RequestInv'
  BY <1>15 DEF RelayEnds, Goto, Denied
<1>16. ASSUME NEW c \in Conn, Unregister(c) PROVE RequestInv'
  BY <1>16 DEF Unregister, Goto, Denied
<1>17. ASSUME NEW c \in Conn, TargetRaises(c) PROVE RequestInv'
  BY <1>17 DEF TargetRaises, Goto, Denied
<1>18. ASSUME NEW c \in Conn, DialRaises(c) PROVE RequestInv'
  BY <1>18 DEF DialRaises, Goto, Denied
<1> QED
  BY StepCases, <1>1, <1>2, <1>3, <1>4, <1>5, <1>6, <1>7, <1>8, <1>9, <1>10,
     <1>11, <1>12, <1>13, <1>14, <1>15, <1>16, <1>17, <1>18

(* The one event a handler writes: the connection had none before, and has *)
(* the one that says what was decided afterwards.                          *)
LEMMA EmitKeepsLog ==
    ASSUME IInv, NEW c \in Conn, NEW ok \in BOOLEAN, NEW error \in BOOLEAN,
           NEW l \in {"done", "announce", "register"},
           pc[c] \in {"decide", "dial", "dialled"}, ok = ~ Denied(req[c]),
           l # "done" => ok /\ ~ error,
           emit(c, ok, error), Goto(c, l), UNCHANGED <<req, up>>
    PROVE  LogInv' /\ AttemptsLoggedOnce'
<1> DEFINE n == Len(events) + 1
<1>1. /\ n \notin DOMAIN events /\ DOMAIN events' = DOMAIN events \cup {n}
      /\ \A i \in DOMAIN events : events'[i] = events[i]
      /\ events'[n] = [conn |-> c, host |-> req[c].host, allowed |-> ok, error |-> error]
      /\ EventsOf(c)' = EventsOf(c) \cup {n}
      /\ \A d \in Conn \ {c} : EventsOf(d)' = EventsOf(d)
  BY EmitEffect DEF IInv
<1> HIDE DEF n
<1>2. pc' = [pc EXCEPT ![c] = l] /\ pc = [d \in Conn |-> pc[d]] /\ req' = req /\ up' = up
  <2>1. pc' = [pc EXCEPT ![c] = l] /\ req' = req /\ up' = up
    BY DEF Goto
  <2>2. pc = [d \in Conn |-> pc[d]]
    BY DEF IInv, TypeOK
  <2> QED
    BY <2>1, <2>2
<1>3. EventsOf(c) = {} /\ req[c].auth
  BY DEF IInv, LogInv, RequestInv, Early, Cleared
<1>4. \A i \in DOMAIN events : events[i].conn \in Conn \ {c}
  <2>1. events \in Seq([conn : Conn, host : Host, allowed : BOOLEAN, error : BOOLEAN])
    BY DEF IInv, TypeOK
  <2>2. ASSUME NEW i \in DOMAIN events PROVE events[i].conn \in Conn
    <3> DEFINE E == [conn : Conn, host : Host, allowed : BOOLEAN, error : BOOLEAN]
    <3>1. events \in Seq(E)
      BY <2>1
    <3> HIDE DEF E
    <3>2. i \in 1..Len(events)
      BY <3>1
    <3>3. events[i] \in E
      BY <3>1, <3>2
    <3> QED
      BY <3>3 DEF E
  <2> QED
    BY <2>2, <1>3 DEF EventsOf
<1>5. EventsOf(c)' = {n}
  BY <1>1, <1>3
<1>6. LogInv'
  <2> SUFFICES ASSUME NEW d \in Conn
               PROVE  /\ pc'[d] \in Early \cup {"dialled"} => EventsOf(d)' = {}
                      /\ pc'[d] \in Flowing => \E i \in DOMAIN events' :
                            EventsOf(d)' = {i} /\ events'[i] = Record(d)'
    BY DEF LogInv
  <2>1. CASE d = c
    BY <2>1, <1>1, <1>2, <1>5 DEF Early, Flowing, Record
  <2>2. CASE d # c
    <3>1. pc'[d] = pc[d] /\ EventsOf(d)' = EventsOf(d) /\ Record(d)' = Record(d)
      BY <2>2, <1>1, <1>2 DEF Record
    <3> QED
      BY <3>1, <1>1 DEF IInv, LogInv
  <2> QED
    BY <2>1, <2>2
<1>7. AttemptsLoggedOnce'
  <2>1. \A i, j \in DOMAIN events' : events'[i].conn = events'[j].conn => i = j
    BY <1>1, <1>4 DEF IInv, AttemptsLoggedOnce
  <2>2. \A i \in DOMAIN events' :
          LET r == req'[events'[i].conn] IN
          r.auth /\ events'[i].host = r.host /\ events'[i].allowed = ~ Denied(r)
    BY <1>1, <1>2, <1>3 DEF IInv, AttemptsLoggedOnce
  <2>3. \A d \in Conn : pc'[d] = "done" /\ req'[d].auth
                           /\ (up'[d] # "none" \/ (req'[d].method = "CONNECT" /\ Denied(req'[d])))
                             => EventsOf(d)' # {}
    BY <1>1, <1>2, <1>5 DEF IInv, AttemptsLoggedOnce
  <2> QED
    BY <2>1, <2>2, <2>3 DEF AttemptsLoggedOnce
<1> QED
  BY <1>6, <1>7

LEMMA EmittersKeepLog ==
    ASSUME IInv, NEW c \in Conn, Deny(c) \/ DialFails(c) \/ EmitAllowed(c)
    PROVE  LogInv' /\ AttemptsLoggedOnce'
<1>1. CASE Deny(c)
  <2>1. Denied(req[c]) /\ pc[c] = "decide"
        /\ emit(c, FALSE, FALSE) /\ Goto(c, "done") /\ req' = req /\ up' = up
    BY <1>1 DEF Deny
  <2>2. FALSE = ~ Denied(req[c])
    BY <2>1
  <2> QED
    BY <2>1, <2>2, EmitKeepsLog
<1>2. CASE DialFails(c)
  <2>1. pc[c] = "dial" /\ emit(c, TRUE, TRUE) /\ Goto(c, "done") /\ req' = req /\ up' = up
    BY <1>2 DEF DialFails
  <2>2. TRUE = ~ Denied(req[c])
    BY <2>1 DEF IInv, RequestInv, Cleared
  <2> QED
    BY <2>1, <2>2, EmitKeepsLog
<1>3. CASE EmitAllowed(c)
  <2> DEFINE l == IF req[c].method = "CONNECT" THEN "announce" ELSE "register"
  <2>1. pc[c] = "dialled" /\ emit(c, TRUE, FALSE) /\ Goto(c, l) /\ req' = req /\ up' = up
    BY <1>3 DEF EmitAllowed
  <2>2. TRUE = ~ Denied(req[c])
    BY <2>1 DEF IInv, RequestInv, Cleared
  <2> HIDE DEF l
  <2>3. l \in {"announce", "register"}
    BY DEF l
  <2> QED
    BY <2>1, <2>2, <2>3, EmitKeepsLog
<1> QED
  BY <1>1, <1>2, <1>3

LEMMA LogStep == IInv /\ [Next]_vars => LogInv'
<1> SUFFICES ASSUME IInv, [Next]_vars PROVE LogInv'
  OBVIOUS
<1> USE DEF IInv, TypeOK, LogInv, Local, srvVars, stopVars, Early, Flowing
<1>1. CASE ServerStep
  BY <1>1, ServerStepsTouchNoConnection DEF connVars, EventsOf, Record
<1>2. ASSUME NEW t \in Caller, StopSweep(t) PROVE LogInv'
  BY <1>2 DEF StopSweep, connVars, EventsOf, Record
<1>3. ASSUME NEW t \in Caller, StopCloseOne(t) PROVE LogInv'
  BY <1>3 DEF StopCloseOne, EventsOf, Record
<1>4. ASSUME NEW c \in Conn, Accept(c) PROVE LogInv'
  BY <1>4 DEF Accept, EventsOf, Record
<1>5. ASSUME NEW c \in Conn, ReadRequest(c) PROVE LogInv'
  BY <1>5 DEF ReadRequest, EventsOf, Record, Goto
<1>6. ASSUME NEW c \in Conn, ReadFails(c) PROVE LogInv'
  BY <1>6 DEF ReadFails, EventsOf, Record, Goto
<1>7. ASSUME NEW c \in Conn, Deny(c) PROVE LogInv'
  BY <1>7, EmittersKeepLog
<1>8. ASSUME NEW c \in Conn, Allow(c) PROVE LogInv'
  BY <1>8 DEF Allow, EventsOf, Record, Goto
<1>9. ASSUME NEW c \in Conn, ReadBody(c) PROVE LogInv'
  BY <1>9 DEF ReadBody, EventsOf, Record, Goto
<1>10. ASSUME NEW c \in Conn, DialOk(c) PROVE LogInv'
  BY <1>10 DEF DialOk, EventsOf, Record, Goto
<1>11. ASSUME NEW c \in Conn, DialFails(c) PROVE LogInv'
  BY <1>11, EmittersKeepLog
<1>12. ASSUME NEW c \in Conn, EmitAllowed(c) PROVE LogInv'
  BY <1>12, EmittersKeepLog
<1>13. ASSUME NEW c \in Conn, Announce(c) PROVE LogInv'
  BY <1>13 DEF Announce, EventsOf, Record, Goto
<1>14. ASSUME NEW c \in Conn, Register(c) PROVE LogInv'
  BY <1>14 DEF Register, EventsOf, Record, Goto
<1>15. ASSUME NEW c \in Conn, RelayEnds(c) PROVE LogInv'
  BY <1>15 DEF RelayEnds, EventsOf, Record, Goto
<1>16. ASSUME NEW c \in Conn, Unregister(c) PROVE LogInv'
  BY <1>16 DEF Unregister, EventsOf, Record, Goto
<1>17. ASSUME NEW c \in Conn, TargetRaises(c) PROVE LogInv'
  BY <1>17 DEF TargetRaises, EventsOf, Record, Goto
<1>18. ASSUME NEW c \in Conn, DialRaises(c) PROVE LogInv'
  BY <1>18 DEF DialRaises, EventsOf, Record, Goto
<1> QED
  BY StepCases, <1>1, <1>2, <1>3, <1>4, <1>5, <1>6, <1>7, <1>8, <1>9, <1>10,
     <1>11, <1>12, <1>13, <1>14, <1>15, <1>16, <1>17, <1>18

LEMMA AttemptsStep == IInv /\ [Next]_vars => AttemptsLoggedOnce'
<1> SUFFICES ASSUME IInv, [Next]_vars PROVE AttemptsLoggedOnce'
  OBVIOUS
<1> USE DEF IInv, TypeOK, AttemptsLoggedOnce, Local, srvVars, stopVars
<1>1. CASE ServerStep
  BY <1>1, ServerStepsTouchNoConnection DEF connVars, EventsOf, Denied
<1>2. ASSUME NEW t \in Caller, StopSweep(t) PROVE AttemptsLoggedOnce'
  BY <1>2 DEF StopSweep, connVars, EventsOf, Denied
<1>3. ASSUME NEW t \in Caller, StopCloseOne(t) PROVE AttemptsLoggedOnce'
  BY <1>3 DEF StopCloseOne, EventsOf, Denied, SocketInv, Sock
<1>4. ASSUME NEW c \in Conn, Accept(c) PROVE AttemptsLoggedOnce'
  BY <1>4 DEF Accept, EventsOf, Denied
<1>5. ASSUME NEW c \in Conn, ReadRequest(c) PROVE AttemptsLoggedOnce'
  BY <1>5 DEF ReadRequest, Goto, EventsOf, Denied, RequestInv, LogInv, Early, Request
<1>6. ASSUME NEW c \in Conn, ReadFails(c) PROVE AttemptsLoggedOnce'
  BY <1>6 DEF ReadFails, Goto, EventsOf, Denied, RequestInv, LogInv, Early, Request
<1>7. ASSUME NEW c \in Conn, Deny(c) PROVE AttemptsLoggedOnce'
  BY <1>7, EmittersKeepLog
<1>8. ASSUME NEW c \in Conn, Allow(c) PROVE AttemptsLoggedOnce'
  BY <1>8 DEF Allow, EventsOf, Denied, Goto
<1>9. ASSUME NEW c \in Conn, ReadBody(c) PROVE AttemptsLoggedOnce'
  BY <1>9 DEF ReadBody, Goto, EventsOf, Denied, RequestInv, SocketInv, Early
<1>10. ASSUME NEW c \in Conn, DialOk(c) PROVE AttemptsLoggedOnce'
  BY <1>10 DEF DialOk, EventsOf, Denied, Goto
<1>11. ASSUME NEW c \in Conn, DialFails(c) PROVE AttemptsLoggedOnce'
  BY <1>11, EmittersKeepLog
<1>12. ASSUME NEW c \in Conn, EmitAllowed(c) PROVE AttemptsLoggedOnce'
  BY <1>12, EmittersKeepLog
<1>13. ASSUME NEW c \in Conn, Announce(c) PROVE AttemptsLoggedOnce'
  BY <1>13 DEF Announce, Goto, EventsOf, Denied, LogInv, Flowing
<1>14. ASSUME NEW c \in Conn, Register(c) PROVE AttemptsLoggedOnce'
  BY <1>14 DEF Register, EventsOf, Denied, Goto
<1>15. ASSUME NEW c \in Conn, RelayEnds(c) PROVE AttemptsLoggedOnce'
  BY <1>15 DEF RelayEnds, EventsOf, Denied, Goto
<1>16. ASSUME NEW c \in Conn, Unregister(c) PROVE AttemptsLoggedOnce'
  BY <1>16 DEF Unregister, Goto, EventsOf, Denied, LogInv, Flowing
<1>17. ASSUME NEW c \in Conn, TargetRaises(c) PROVE AttemptsLoggedOnce'
  BY <1>17 DEF TargetRaises, Goto, EventsOf, Denied, RequestInv, LogInv, SocketInv, Early, Cleared, Request
<1>18. ASSUME NEW c \in Conn, DialRaises(c) PROVE AttemptsLoggedOnce'
  BY <1>18 DEF DialRaises, Goto, EventsOf, Denied, RequestInv, LogInv, SocketInv, Early, Cleared, Request
<1> QED
  BY StepCases, <1>1, <1>2, <1>3, <1>4, <1>5, <1>6, <1>7, <1>8, <1>9, <1>10,
     <1>11, <1>12, <1>13, <1>14, <1>15, <1>16, <1>17, <1>18

LEMMA SocketStep == IInv /\ [Next]_vars => SocketInv'
<1> SUFFICES ASSUME IInv, [Next]_vars PROVE SocketInv'
  OBVIOUS
<1> USE DEF IInv, TypeOK, SocketInv, Local, srvVars, stopVars, Early, Socks, Sock
<1>1. CASE ServerStep
  BY <1>1, ServerStepsTouchNoConnection DEF connVars
<1>2. ASSUME NEW t \in Caller, StopSweep(t) PROVE SocketInv'
  BY <1>2 DEF StopSweep, connVars
<1>3. ASSUME NEW t \in Caller, StopCloseOne(t) PROVE SocketInv'
  BY <1>3 DEF StopCloseOne
<1>4. ASSUME NEW c \in Conn, Accept(c) PROVE SocketInv'
  BY <1>4 DEF Accept
<1>5. ASSUME NEW c \in Conn, ReadRequest(c) PROVE SocketInv'
  BY <1>5 DEF ReadRequest, Goto
<1>6. ASSUME NEW c \in Conn, ReadFails(c) PROVE SocketInv'
  BY <1>6 DEF ReadFails, Goto
<1>7. ASSUME NEW c \in Conn, Deny(c) PROVE SocketInv'
  BY <1>7 DEF Deny, Goto
<1>8. ASSUME NEW c \in Conn, Allow(c) PROVE SocketInv'
  BY <1>8 DEF Allow, Goto
<1>9. ASSUME NEW c \in Conn, ReadBody(c) PROVE SocketInv'
  BY <1>9 DEF ReadBody, Goto
<1>10. ASSUME NEW c \in Conn, DialOk(c) PROVE SocketInv'
  BY <1>10 DEF DialOk, Goto
<1>11. ASSUME NEW c \in Conn, DialFails(c) PROVE SocketInv'
  BY <1>11 DEF DialFails, Goto
<1>12. ASSUME NEW c \in Conn, EmitAllowed(c) PROVE SocketInv'
  BY <1>12 DEF EmitAllowed, Goto
<1>13. ASSUME NEW c \in Conn, Announce(c) PROVE SocketInv'
  BY <1>13 DEF Announce, Goto
<1>14. ASSUME NEW c \in Conn, Register(c) PROVE SocketInv'
  BY <1>14 DEF Register, Goto
<1>15. ASSUME NEW c \in Conn, RelayEnds(c) PROVE SocketInv'
  BY <1>15 DEF RelayEnds, Goto
<1>16. ASSUME NEW c \in Conn, Unregister(c) PROVE SocketInv'
  BY <1>16 DEF Unregister, Goto
<1>17. ASSUME NEW c \in Conn, TargetRaises(c) PROVE SocketInv'
  BY <1>17 DEF TargetRaises, Goto
<1>18. ASSUME NEW c \in Conn, DialRaises(c) PROVE SocketInv'
  BY <1>18 DEF DialRaises, Goto
<1> QED
  BY StepCases, <1>1, <1>2, <1>3, <1>4, <1>5, <1>6, <1>7, <1>8, <1>9, <1>10,
     <1>11, <1>12, <1>13, <1>14, <1>15, <1>16, <1>17, <1>18

LEMMA StopStepKeeps == IInv /\ [Next]_vars => StopInv'
<1> SUFFICES ASSUME IInv, [Next]_vars PROVE StopInv'
  OBVIOUS
<1> USE DEF IInv, TypeOK, StopInv, Local, srvVars, stopVars, Working, Cut
<1>1. CASE Start
  BY <1>1 DEF Start, connVars
<1>2. CASE ServeEnter
  BY <1>2 DEF ServeEnter, connVars
<1>3. CASE ServeExit
  BY <1>3 DEF ServeExit, connVars
<1>4. ASSUME NEW t \in Caller, StopBegin(t) PROVE StopInv'
  BY <1>4 DEF StopBegin, connVars, Sock
<1>5. ASSUME NEW t \in Caller, StopShutdown(t) PROVE StopInv'
  BY <1>5 DEF StopShutdown, connVars, Sock
<1>6. ASSUME NEW t \in Caller, StopServerClose(t) PROVE StopInv'
  BY <1>6 DEF StopServerClose, connVars, Sock
<1>7. ASSUME NEW t \in Caller, StopEnd(t) PROVE StopInv'
  BY <1>7 DEF StopEnd, connVars, Sock
<1>8. ASSUME NEW t \in Caller, StopSweep(t) PROVE StopInv'
  BY <1>8 DEF StopSweep, connVars, Sock
<1>9. ASSUME NEW t \in Caller, StopCloseOne(t) PROVE StopInv'
  BY <1>9 DEF StopCloseOne, connVars, Sock
<1>10. CASE UNCHANGED vars
  BY <1>10 DEF vars, connVars
<1>11. ASSUME NEW c \in Conn, Accept(c) PROVE StopInv'
  BY <1>11 DEF Accept
<1>12. ASSUME NEW c \in Conn, ReadRequest(c) PROVE StopInv'
  BY <1>12 DEF ReadRequest, Goto
<1>13. ASSUME NEW c \in Conn, ReadFails(c) PROVE StopInv'
  BY <1>13 DEF ReadFails, Goto
<1>14. ASSUME NEW c \in Conn, Deny(c) PROVE StopInv'
  BY <1>14 DEF Deny, Goto
<1>15. ASSUME NEW c \in Conn, Allow(c) PROVE StopInv'
  BY <1>15 DEF Allow, Goto
<1>16. ASSUME NEW c \in Conn, ReadBody(c) PROVE StopInv'
  BY <1>16 DEF ReadBody, Goto
<1>17. ASSUME NEW c \in Conn, DialOk(c) PROVE StopInv'
  BY <1>17 DEF DialOk, Goto
<1>18. ASSUME NEW c \in Conn, DialFails(c) PROVE StopInv'
  BY <1>18 DEF DialFails, Goto
<1>19. ASSUME NEW c \in Conn, EmitAllowed(c) PROVE StopInv'
  BY <1>19 DEF EmitAllowed, Goto
<1>20. ASSUME NEW c \in Conn, Announce(c) PROVE StopInv'
  BY <1>20 DEF Announce, Goto
<1>21. ASSUME NEW c \in Conn, Register(c) PROVE StopInv'
  BY <1>21 DEF Register, Goto, Socks, Sock, SocketInv
<1>22. ASSUME NEW c \in Conn, RelayEnds(c) PROVE StopInv'
  BY <1>22 DEF RelayEnds, Goto, Socks, Sock, SocketInv
<1>23. ASSUME NEW c \in Conn, Unregister(c) PROVE StopInv'
  BY <1>23 DEF Unregister, Goto, Socks, Sock, SocketInv
<1>24. ASSUME NEW c \in Conn, TargetRaises(c) PROVE StopInv'
  BY <1>24 DEF TargetRaises, Goto
<1>25. ASSUME NEW c \in Conn, DialRaises(c) PROVE StopInv'
  BY <1>25 DEF DialRaises, Goto
<1> QED
  BY StepCases, <1>1, <1>2, <1>3, <1>4, <1>5, <1>6, <1>7, <1>8, <1>9, <1>10,
     <1>11, <1>12, <1>13, <1>14, <1>15, <1>16, <1>17, <1>18, <1>19, <1>20, <1>21, <1>22, <1>23,
     <1>24, <1>25 DEF ServerStep

-----------------------------------------------------------------------------
(* The invariant holds of every reachable state.                           *)
LEMMA Invariance == Spec => []IInv
<1>1. Init => IInv
  <2> SUFFICES ASSUME Init PROVE IInv
    OBVIOUS
  <2>1. TypeOK
    BY InitTypeOK
  <2>2. RequestInv /\ LogInv /\ AttemptsLoggedOnce
    BY DEF Init, RequestInv, LogInv, AttemptsLoggedOnce, NoReq, Cleared, Flowing, Early, EventsOf
  <2>3. SocketInv /\ StopInv
    BY DEF Init, SocketInv, StopInv, Early, Working
  <2> QED
    BY <2>1, <2>2, <2>3 DEF IInv
<1>2. IInv /\ [Next]_vars => IInv'
  BY TypeStep, RequestStep, LogStep, AttemptsStep, SocketStep, StopStepKeeps DEF IInv
<1> QED
  BY <1>1, <1>2, PTL DEF Spec

(* No byte flows before its event: see NothingFlowsUnlogged.               *)
THEOREM FlowsAreLogged == Spec => []NothingFlowsUnlogged
<1>1. IInv => NothingFlowsUnlogged
  BY DEF IInv, TypeOK, RequestInv, LogInv, Record, Flowing, Denied, Request, NoReq,
         NothingFlowsUnlogged
<1> QED
  BY <1>1, Invariance, PTL

(* No attempt is in the log twice or with another verdict than the plan's: *)
(* see AttemptsLoggedOnce.                                                 *)
THEOREM LogIsExact == Spec => []AttemptsLoggedOnce
<1>1. IInv => AttemptsLoggedOnce
  BY DEF IInv
<1> QED
  BY <1>1, Invariance, PTL

(* Every exit of a handler releases what it holds, with stop() running or  *)
(* not: see FinishedHandlersLeakNothing.                                   *)
THEOREM NoLeak == Spec => []FinishedHandlersLeakNothing
<1>1. IInv => FinishedHandlersLeakNothing
  BY DEF IInv, SocketInv, FinishedHandlersLeakNothing
<1> QED
  BY <1>1, Invariance, PTL

(* What a returned stop() has achieved: see StopStopsServing.              *)
THEOREM StopIsEffective == Spec => []StopStopsServing
<1>1. IInv => StopStopsServing
  <2> SUFFICES ASSUME IInv, NEW t \in Caller, stopper[t] = "done"
               PROVE  /\ ~ listening /\ serve \in {"none", "exited"}
                      /\ \A c \in Conn : pc[c] = "relay" => Cut(c) \/ <<c, "up">> \in tunnels
    BY DEF StopStopsServing
  <2>1. ~ listening /\ serve = "exited"
    BY DEF IInv, StopInv
  <2>2. \A u \in Caller : victims[u] = {}
    BY DEF IInv, StopInv, Working
  <2> QED
    BY <2>1, <2>2 DEF IInv, StopInv
<1> QED
  BY <1>1, Invariance, PTL
=============================================================================
