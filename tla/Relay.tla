-------------------------------- MODULE Relay -------------------------------
(***************************************************************************)
(* The full-duplex byte relay of a CONNECT tunnel (proxy/server.py,        *)
(* _relay): two pumps, one per direction, over two sockets armed with a    *)
(* finite idle timeout.  End of file in one direction is passed on as a    *)
(* half-close while the other direction goes on; an error or a timeout     *)
(* shuts both sockets down.                                                *)
(***************************************************************************)
EXTENDS Naturals

CONSTANTS MaxChunks,     \* bound of the model: chunks a peer sends
          IdleTimeout    \* _idle_timeout, in ticks of the model's clock

ASSUME RelayAssumption == MaxChunks \in Nat /\ IdleTimeout \in Nat \ {0}

(* Direction "up" copies from the client to the upstream, "down" back.     *)
Dir == {"up", "down"}

VARIABLES sent,      \* chunks the peer of the direction's source has sent
          got,       \* chunks handed on to the direction's destination
          fin,       \* the source's peer has closed its write side
          pump,      \* "recv", "send", "eof", "hard" or "done"
          idle,      \* ticks since the pump's recv() was called
          shut,      \* both sockets were shut down after an error
          failed,    \* history: what made a pump tear the relay down last
          closed     \* both pumps joined, the upstream socket closed

vars == <<sent, got, fin, pump, idle, shut, failed, closed>>

Init ==
    /\ sent = [d \in Dir |-> 0] /\ got = [d \in Dir |-> 0]
    /\ fin = [d \in Dir |-> FALSE]
    /\ pump = [d \in Dir |-> "recv"] /\ idle = [d \in Dir |-> 0]
    /\ shut = FALSE /\ failed = "no" /\ closed = FALSE

Goto(d, l) == pump' = [pump EXCEPT ![d] = l]

-----------------------------------------------------------------------------
PeerSends(d) ==
    /\ ~ fin[d] /\ sent[d] < MaxChunks
    /\ sent' = [sent EXCEPT ![d] = @ + 1]
    /\ UNCHANGED <<got, fin, pump, idle, shut, failed, closed>>

PeerCloses(d) ==
    /\ ~ fin[d]
    /\ fin' = [fin EXCEPT ![d] = TRUE]
    /\ UNCHANGED <<sent, got, pump, idle, shut, failed, closed>>

(* A pump waiting in recv() with nothing to read grows idle; data that     *)
(* has arrived is read before its timeout.                                 *)
Waiting(d) == pump[d] = "recv" /\ got[d] = sent[d] /\ ~ fin[d] /\ ~ shut

Tick ==
    /\ \E d \in Dir : Waiting(d)
    /\ \A d \in Dir : Waiting(d) => idle[d] < IdleTimeout
    /\ idle' = [d \in Dir |-> IF Waiting(d) THEN idle[d] + 1 ELSE idle[d]]
    /\ UNCHANGED <<sent, got, fin, pump, shut, failed, closed>>

Recv(d) ==
    /\ pump[d] = "recv" /\ ~ shut /\ got[d] < sent[d]
    /\ Goto(d, "send")
    /\ UNCHANGED <<sent, got, fin, idle, shut, failed, closed>>

(* recv() on a socket that was shut down returns the empty string, too.    *)
RecvEof(d) ==
    /\ pump[d] = "recv"
    /\ shut \/ (got[d] = sent[d] /\ fin[d])
    /\ Goto(d, "eof")
    /\ UNCHANGED <<sent, got, fin, idle, shut, failed, closed>>

(* Mutant: only the upstream socket is armed with the timeout.             *)
RecvTimeoutUpstream(d) ==
    /\ d = "down" /\ Waiting(d) /\ idle[d] = IdleTimeout
    /\ Goto(d, "hard") /\ failed' = "timeout"
    /\ UNCHANGED <<sent, got, fin, idle, shut, closed>>

RecvTimeout(d) ==
    /\ Waiting(d) /\ idle[d] = IdleTimeout
    /\ Goto(d, "hard") /\ failed' = "timeout"
    /\ UNCHANGED <<sent, got, fin, idle, shut, closed>>

RecvReset(d) ==
    /\ pump[d] = "recv" /\ ~ shut
    /\ Goto(d, "hard") /\ failed' = "error"
    /\ UNCHANGED <<sent, got, fin, idle, shut, closed>>

(* sendall(); then the next recv() starts a new timeout.                   *)
Send(d) ==
    /\ pump[d] = "send" /\ ~ shut
    /\ got' = [got EXCEPT ![d] = @ + 1]
    /\ idle' = [idle EXCEPT ![d] = 0]
    /\ Goto(d, "recv")
    /\ UNCHANGED <<sent, fin, shut, failed, closed>>

SendFails(d) ==
    /\ pump[d] = "send"
    /\ Goto(d, "hard") /\ failed' = "error"
    /\ UNCHANGED <<sent, got, fin, idle, shut, closed>>

(* Mutant: a clean end of file shuts both directions.                      *)
FullClose(d) ==
    /\ pump[d] = "eof" /\ Goto(d, "done")
    /\ shut' = TRUE
    /\ UNCHANGED <<sent, got, fin, idle, failed, closed>>

(* dst.shutdown(SHUT_WR): only this direction is finished.                 *)
HalfClose(d) ==
    /\ pump[d] = "eof" /\ Goto(d, "done")
    /\ UNCHANGED <<sent, got, fin, idle, shut, failed, closed>>

TearDown(d) ==
    /\ pump[d] = "hard" /\ Goto(d, "done")
    /\ shut' = TRUE
    /\ UNCHANGED <<sent, got, fin, idle, failed, closed>>

Join ==
    /\ \A d \in Dir : pump[d] = "done"
    /\ ~ closed /\ closed' = TRUE
    /\ UNCHANGED <<sent, got, fin, pump, idle, shut, failed>>

-----------------------------------------------------------------------------
Pump(d) == Recv(d) \/ RecvEof(d) \/ RecvTimeout(d) \/ Send(d) \/ SendFails(d)
           \/ HalfClose(d) \/ TearDown(d)

Next ==
    \/ Tick \/ Join
    \/ \E d \in Dir : PeerSends(d) \/ PeerCloses(d) \/ RecvReset(d) \/ Pump(d)

(* Both pumps run, the clock runs; the peers need not do anything.         *)
Spec == Init /\ [][Next]_vars /\ WF_vars(Tick) /\ WF_vars(Join)
             /\ \A d \in Dir : WF_vars(Pump(d))

-----------------------------------------------------------------------------
(* Properties *)

(* A relay that met neither an error nor a timeout has carried every chunk *)
(* both ways and waited for both ends: a peer that closes its write side   *)
(* first still receives the whole answer.                                  *)
HalfCloseTruncatesNothing ==
    closed /\ failed = "no" => \A d \in Dir : fin[d] /\ got[d] = sent[d]

(* No direction can wedge the relay: silent peers, half-closed peers and   *)
(* errors all lead to both pumps joined and the upstream socket closed.    *)
RelayEnds == <>closed
=============================================================================
