---------------------------- MODULE RelayProofs ----------------------------
(***************************************************************************)
(* What a tunnel's relay carries, for any number of chunks and any timeout. *)
(***************************************************************************)
EXTENDS Relay, TLAPS

Typed ==
    /\ sent \in [Dir -> Nat] /\ got \in [Dir -> Nat] /\ fin \in [Dir -> BOOLEAN]
    /\ pump \in [Dir -> {"recv", "send", "eof", "hard", "done"}]
    /\ idle \in [Dir -> Nat] /\ shut \in BOOLEAN
    /\ failed \in {"no", "timeout", "error"} /\ closed \in BOOLEAN

(* A pump holds at most the chunk it has read and not yet handed on.       *)
ChunkInv ==
    \A d \in Dir : /\ got[d] <= sent[d]
                   /\ pump[d] = "send" => got[d] < sent[d]

(* The sockets are shut by a pump that met an error, and by nothing else.  *)
FailInv ==
    /\ shut => failed # "no"
    /\ \A d \in Dir : pump[d] = "hard" => failed # "no"

(* A pump that left its loop cleanly has seen the end of its direction.    *)
EofInv ==
    failed = "no" => \A d \in Dir : pump[d] \in {"eof", "done"} => fin[d] /\ got[d] = sent[d]

JoinInv == closed => \A d \in Dir : pump[d] = "done"

IInv == Typed /\ ChunkInv /\ FailInv /\ EofInv /\ JoinInv

(* Every step keeps it, whatever the peers do and whenever a pump fails.   *)
LEMMA Inductive == IInv /\ [Next]_vars => IInv'
<1> SUFFICES ASSUME IInv, [Next]_vars PROVE IInv'
  OBVIOUS
<1> USE DEF IInv, Typed, ChunkInv, FailInv, EofInv, JoinInv, Goto
<1>1. ASSUME NEW d \in Dir, PeerSends(d) PROVE IInv'
  BY <1>1 DEF PeerSends
<1>2. ASSUME NEW d \in Dir, PeerCloses(d) PROVE IInv'
  BY <1>2 DEF PeerCloses
<1>3. CASE Tick
  BY <1>3 DEF Tick
<1>4. ASSUME NEW d \in Dir, Recv(d) PROVE IInv'
  BY <1>4 DEF Recv
<1>5. ASSUME NEW d \in Dir, RecvEof(d) PROVE IInv'
  BY <1>5 DEF RecvEof
<1>6. ASSUME NEW d \in Dir, RecvTimeout(d) PROVE IInv'
  BY <1>6 DEF RecvTimeout, Waiting
<1>7. ASSUME NEW d \in Dir, RecvReset(d) PROVE IInv'
  BY <1>7 DEF RecvReset
<1>8. ASSUME NEW d \in Dir, Send(d) PROVE IInv'
  BY <1>8 DEF Send
<1>9. ASSUME NEW d \in Dir, SendFails(d) PROVE IInv'
  BY <1>9 DEF SendFails
<1>10. ASSUME NEW d \in Dir, HalfClose(d) PROVE IInv'
  BY <1>10 DEF HalfClose
<1>11. ASSUME NEW d \in Dir, TearDown(d) PROVE IInv'
  BY <1>11 DEF TearDown
<1>12. CASE Join
  BY <1>12 DEF Join
<1>13. CASE UNCHANGED vars
  BY <1>13 DEF vars
<1> QED
  BY <1>1, <1>2, <1>3, <1>4, <1>5, <1>6, <1>7, <1>8, <1>9, <1>10, <1>11, <1>12, <1>13
  DEF Next, Pump

(* A relay that met neither an error nor a timeout has carried every chunk *)
(* both ways and waited for both ends, see HalfCloseTruncatesNothing.      *)
THEOREM NothingIsTruncated == Spec => []HalfCloseTruncatesNothing
<1>1. Init => IInv
  <2> SUFFICES ASSUME Init PROVE IInv
    OBVIOUS
  <2>1. sent \in [Dir -> Nat] /\ got \in [Dir -> Nat] /\ idle \in [Dir -> Nat]
    BY DEF Init
  <2>2. pump \in [Dir -> {"recv", "send", "eof", "hard", "done"}]
    BY DEF Init
  <2>3. fin \in [Dir -> BOOLEAN] /\ shut \in BOOLEAN /\ closed \in BOOLEAN
    BY Zenon DEF Init
  <2>4. Typed
    BY <2>1, <2>2, <2>3 DEF Init, Typed
  <2>5. ChunkInv /\ FailInv /\ EofInv /\ JoinInv
    BY DEF Init, ChunkInv, FailInv, EofInv, JoinInv
  <2> QED
    BY <2>4, <2>5 DEF IInv
<1>2. IInv => HalfCloseTruncatesNothing
  BY DEF IInv, EofInv, JoinInv, HalfCloseTruncatesNothing
<1> QED
  BY <1>1, <1>2, Inductive, PTL DEF Spec
=============================================================================
