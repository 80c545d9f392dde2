--------------------------- MODULE MonitorProofs ---------------------------
(***************************************************************************)
(* Proofs about Monitor, for every adapter, every stream of events and     *)
(* every configuration.  The report is tied to what the adapter has        *)
(* yielded by the queue between the two threads (QueueInv): an event is in *)
(* the report, in hand or in the queue, in this order.                     *)
(***************************************************************************)
EXTENDS MonitorExport, Recursion, FiniteSetTheorems, SequenceTheorems, TLAPS

-----------------------------------------------------------------------------
(* Sequences of positions, contexts and entries.                           *)

LEMMA ToSetOfAppend ==
    ASSUME NEW S, NEW s \in Seq(S), NEW x \in S
    PROVE  ToSet(Append(s, x)) = ToSet(s) \cup {x}
<1>1. /\ Append(s, x) \in Seq(S) /\ Len(Append(s, x)) = Len(s) + 1
      /\ \A i \in 1..Len(s) : Append(s, x)[i] = s[i]
      /\ Append(s, x)[Len(s) + 1] = x
  BY AppendProperties
<1>2. DOMAIN s = 1..Len(s) /\ DOMAIN Append(s, x) = 1..(Len(s) + 1) /\ Len(s) \in Nat
  BY <1>1, LenProperties
<1>3. ASSUME NEW y PROVE y \in ToSet(Append(s, x)) <=> y \in ToSet(s) \cup {x}
  <2>1. CASE y = x
    BY <1>1, <1>2, <2>1 DEF ToSet
  <2>2. CASE y # x
    BY <1>1, <1>2, <2>2 DEF ToSet
  <2>3. QED BY <2>1, <2>2
<1>4. QED BY <1>3

LEMMA AppendIncreases ==
    ASSUME NEW s \in Seq(Nat), NEW x \in Nat, Increasing(s), \A y \in ToSet(s) : y < x
    PROVE  Increasing(Append(s, x))
<1>1. /\ DOMAIN s = 1..Len(s) /\ DOMAIN Append(s, x) = 1..(Len(s) + 1) /\ Len(s) \in Nat
      /\ \A i \in 1..Len(s) : Append(s, x)[i] = s[i]
      /\ Append(s, x)[Len(s) + 1] = x
  BY AppendProperties, LenProperties
<1>2. \A i \in 1..Len(s) : s[i] < x
  BY <1>1 DEF ToSet
<1>3. SUFFICES ASSUME NEW i \in 1..(Len(s) + 1), NEW j \in 1..(Len(s) + 1), i < j
               PROVE  Append(s, x)[i] < Append(s, x)[j]
  BY <1>1 DEF Increasing
<1>4. CASE j = Len(s) + 1
  BY <1>1, <1>2, <1>3, <1>4
<1>5. CASE j # Len(s) + 1
  BY <1>1, <1>3, <1>5 DEF Increasing
<1>6. QED BY <1>4, <1>5

(* The calls among the first k events, and the last of them.               *)
CallsIn(s, k) == {j \in 1..k : s[j].call # NoTool}

IsLast(j, calls) == j \in calls /\ \A i \in calls : i <= j

LEMMA ContextOfLastCall ==
    ASSUME NEW s, NEW k \in Nat
    PROVE  /\ CallsIn(s, k) = {} => A!ContextAt(s, k) = NoTool
           /\ \A j : IsLast(j, CallsIn(s, k)) => A!ContextAt(s, k) = s[j].call
           /\ CallsIn(s, k) # {} => \E j : IsLast(j, CallsIn(s, k))
<1> DEFINE calls == CallsIn(s, k)
           last  == CHOOSE j \in calls : \A i \in calls : i <= j
<1>1. A!ContextAt(s, k) = IF calls = {} THEN NoTool ELSE s[last].call
  BY DEF A!ContextAt, CallsIn
<1>2. calls \in SUBSET (1..k)
  BY DEF CallsIn
<1>3. ASSUME NEW j, IsLast(j, calls) PROVE calls # {} /\ last = j
  <2>1. j \in calls /\ \A i \in calls : i <= j
    BY <1>3 DEF IsLast
  <2>2. last \in calls /\ \A i \in calls : i <= last
    BY <2>1
  <2> HIDE DEF last
  <2>3. QED BY <1>2, <2>1, <2>2
<1> HIDE DEF last
<1>4. calls # {} => \E j : IsLast(j, calls)
  BY <1>2, GreatestMember DEF IsLast
<1>5. QED BY <1>1, <1>3, <1>4

(* The context at a position is what the loop carries there.               *)
LEMMA ContextIsTracked ==
    ASSUME NEW s, NEW n \in Nat
    PROVE  /\ A!ContextAt(s, 0) = NoTool
           /\ A!ContextAt(s, n + 1) = A!track_tool_ctx(s[n + 1], A!ContextAt(s, n))
<1>1. A!ContextAt(s, 0) = NoTool
  BY ContextOfLastCall DEF CallsIn
<1>2. CASE s[n + 1].call # NoTool
  <2>1. IsLast(n + 1, CallsIn(s, n + 1))
    BY <1>2 DEF CallsIn, IsLast
  <2>2. A!ContextAt(s, n + 1) = s[n + 1].call
    BY <2>1, ContextOfLastCall
  <2>3. QED BY <1>1, <1>2, <2>2 DEF A!track_tool_ctx
<1>3. CASE s[n + 1].call = NoTool
  <2>1. CallsIn(s, n + 1) = CallsIn(s, n)
    BY <1>3 DEF CallsIn
  <2>2. A!ContextAt(s, n + 1) = A!ContextAt(s, n)
    BY <2>1, ContextOfLastCall
  <2>3. QED BY <1>1, <1>3, <2>2 DEF A!track_tool_ctx
<1>4. QED BY <1>2, <1>3

(* The context depends on the calls alone.                                 *)
LEMMA ContextOfSameCalls ==
    ASSUME NEW s, NEW t, NEW k \in Nat, \A j \in 1..k : t[j].call = s[j].call
    PROVE  A!ContextAt(t, k) = A!ContextAt(s, k)
<1>1. CallsIn(t, k) = CallsIn(s, k)
  BY DEF CallsIn
<1>2. CASE CallsIn(s, k) = {}
  BY <1>1, <1>2, ContextOfLastCall
<1>3. CASE CallsIn(s, k) # {}
  <2>1. PICK j : IsLast(j, CallsIn(s, k))
    BY <1>3, ContextOfLastCall
  <2>2. j \in 1..k
    BY <2>1 DEF IsLast, CallsIn
  <2>3. A!ContextAt(t, k) = t[j].call /\ A!ContextAt(s, k) = s[j].call
    BY <1>1, <2>1, ContextOfLastCall
  <2> QED
    BY <2>2, <2>3
<1> QED
  BY <1>2, <1>3

(* What follows in a stream changes nothing about the positions before.    *)
LEMMA PrefixEntries ==
    ASSUME NEW S, NEW s \in Seq(S), NEW e \in S, NEW n \in Nat, n <= Len(s)
    PROVE  /\ A!ContextAt(Append(s, e), n) = A!ContextAt(s, n)
           /\ A!ReportOf(Append(s, e), n) = A!ReportOf(s, n)
<1> DEFINE t == Append(s, e)
<1>1. Len(s) \in Nat /\ \A i \in 1..Len(s) : t[i] = s[i]
  BY AppendProperties, LenProperties
<1> HIDE DEF t
<1>2. ASSUME NEW k \in Nat, k <= Len(s)
      PROVE  A!ContextAt(t, k) = A!ContextAt(s, k)
  BY <1>1, <1>2, ContextOfSameCalls
<1>3. A!ReportOf(t, n) = A!ReportOf(s, n)
  <2>1. \A i \in 1..n : t[i] = s[i] /\ A!ContextAt(t, i) = A!ContextAt(s, i)
    BY <1>1, <1>2
  <2>2. \A i \in 1..n : A!EntryAt(t, i) = A!EntryAt(s, i)
    BY <2>1 DEF A!EntryAt
  <2>3. QED BY <2>2 DEF A!ReportOf
<1>4. QED BY <1>2, <1>3 DEF t

-----------------------------------------------------------------------------
(* The inductive invariant.                                                *)

Item == {<<e>> : e \in Event} \cup {<< >>}

(* Events in hand, and events in the queue: all of it but the sentinel.    *)
InHand == IF pc = "handle" THEN 1 ELSE 0

Ends(q) == q # << >> /\ q[Len(q)] = << >>

EventsIn(q) == IF Ends(q) THEN Len(q) - 1 ELSE Len(q)

(* The pump runs for a timed run only, and what it leaves behind says how  *)
(* the stream ended.                                                       *)
PumpInv ==
    /\ ~ config.timed => pump = "off" /\ events_q = << >> /\ pc # "get"
    /\ pc \in {"init", "drift"} =>
          /\ pump = "off" /\ stream = "open" /\ events_q = << >>
          /\ emitted = << >> /\ report = << >> /\ tool_ctx = NoTool
    /\ config.timed /\ pc \notin {"init", "drift"} => pump # "off"
    /\ pump = "on" => stream = "open"
    /\ pump = "done" => stream = IF pump_error THEN "failed" ELSE "ended"
    /\ pump = "done" /\ pc \notin Final => Ends(events_q)

(* Every event that was yielded is in the report, in hand or in the queue. *)
QueueInv ==
    /\ Len(emitted) = Len(report) + InHand + EventsIn(events_q)
    /\ pc = "handle" => cur = <<emitted[Len(report) + 1]>>
    /\ \A i \in 1..EventsIn(events_q) : events_q[i] = <<emitted[Len(report) + InHand + i]>>

HistInv ==
    /\ tool_ctx = A!ContextAt(emitted, Len(report))
    /\ report = A!ReportOf(emitted, Len(report))

(* The loop goes on below max_events, or before the first event.           *)
Room(k) == config.max = Unlimited \/ k < config.max \/ k = 0

LimitInv ==
    /\ pc \in {"loop", "get", "handle"} => Room(Len(report))
    /\ pc \in {"alert", "block"} => Len(report) > 0 /\ Room(Len(report) - 1)

(* Where handle_event is decides how far the effects are behind the report. *)
Reports(s) == \A k \in ToSet(s) : k \in 1..Len(report)

EffectInv ==
    /\ Increasing(alerted) /\ Increasing(blocked) /\ ToSet(blocked) \subseteq ToSet(alerted)
    /\ Reports(alerted)
    /\ pc \in {"init", "loop", "get", "handle", "returned"} =>
          /\ ToSet(alerted) = IF config.mode = "observe" THEN {} ELSE Outside
          /\ ToSet(blocked) = IF config.mode = "enforce" THEN Outside ELSE {}
    /\ pc = "alert" =>
          /\ config.mode # "observe" /\ Len(report) \in Outside
          /\ ToSet(alerted) = Outside \ {Len(report)}
          /\ ToSet(blocked) = IF config.mode = "enforce" THEN Outside \ {Len(report)} ELSE {}
    /\ pc = "block" =>
          /\ config.mode = "enforce" /\ Len(report) \in Outside
          /\ ToSet(alerted) = Outside /\ ToSet(blocked) = Outside \ {Len(report)}

IInv == TypeOK /\ PumpInv /\ QueueInv /\ HistInv /\ LimitInv /\ EffectInv /\ NothingDroppedSilently

LEMMA Lengths ==
    TypeOK => /\ Len(report) \in Nat /\ Len(emitted) \in Nat /\ Len(events_q) \in Nat
              /\ EventsIn(events_q) \in Nat /\ InHand \in Nat
              /\ DOMAIN report = 1..Len(report) /\ Outside \subseteq 1..Len(report)
  BY LenProperties, EmptySeq DEF TypeOK, EventsIn, Ends, InHand, Outside

LEMMA EventIsItem == \A e : <<e>> # << >> /\ <<e>>[1] = e
  OBVIOUS

LEMMA EmptyQueue == EventsIn(<< >>) = 0 /\ ~ Ends(<< >>)
  BY DEF EventsIn, Ends

LEMMA InitInv == Init => IInv
<1> SUFFICES ASSUME Init PROVE IInv
  OBVIOUS
<1>1. /\ emitted \in Seq(Event) /\ events_q \in Seq(Item) /\ report \in Seq(A!Entry)
      /\ alerted \in Seq(Nat) /\ blocked \in Seq(Nat)
      /\ Len(report) = 0 /\ Len(emitted) = 0 /\ Len(events_q) = 0
      /\ DOMAIN report = {} /\ DOMAIN events_q = {} /\ DOMAIN alerted = {} /\ DOMAIN blocked = {}
  BY EmptySeq DEF Init
<1>2. TypeOK
  BY <1>1 DEF Init, TypeOK, Item, Final
<1>3. PumpInv /\ QueueInv /\ LimitInv
  BY <1>1 DEF Init, PumpInv, QueueInv, LimitInv, InHand, EventsIn, Ends
<1>4. HistInv
  <2>1. tool_ctx = A!ContextAt(emitted, 0)
    BY ContextIsTracked DEF Init
  <2>2. A!ReportOf(emitted, 0) = << >>
    BY DEF A!ReportOf
  <2>3. QED BY <1>1, <2>1, <2>2 DEF Init, HistInv
<1>5. EffectInv
  BY <1>1 DEF Init, EffectInv, Increasing, ToSet, Reports, Outside
<1>6. NothingDroppedSilently
  BY DEF Init, NothingDroppedSilently
<1>7. QED BY <1>2, <1>3, <1>4, <1>5, <1>6 DEF IInv

-----------------------------------------------------------------------------
(* Steps that touch neither the report nor what the adapter has yielded.   *)

LEMMA HistKept == HistInv /\ UNCHANGED <<tool_ctx, emitted, report>> => HistInv'
  BY DEF HistInv

LEMMA QueueKept ==
    QueueInv /\ UNCHANGED <<emitted, report, events_q, cur>> /\ (pc' = "handle" <=> pc = "handle")
      => QueueInv'
  BY DEF QueueInv, InHand

Idle == {"init", "loop", "get", "handle", "returned"}

LEMMA EffectKept ==
    ASSUME EffectInv, UNCHANGED <<config, report, alerted, blocked>>,
           pc' = pc \/ pc' \in {"raised", "drift"} \/ (pc \in Idle /\ pc' \in Idle)
    PROVE  EffectInv'
<1>1. Outside' = Outside /\ ToSet(alerted)' = ToSet(alerted) /\ ToSet(blocked)' = ToSet(blocked)
  BY DEF Outside
<1>2. Increasing(alerted)' /\ Increasing(blocked)' /\ Reports(alerted)'
  BY DEF EffectInv, Increasing, Reports
<1>3. QED BY <1>1, <1>2 DEF EffectInv, Idle

LEMMA RefuseDriftInv == IInv /\ RefuseDrift => IInv'
<1> SUFFICES ASSUME IInv, RefuseDrift PROVE IInv'
  OBVIOUS
<1> USE DEF RefuseDrift, mainVars, pumpVars
<1>1. TypeOK'
  BY DEF IInv, TypeOK, Final
<1>2. PumpInv' /\ LimitInv' /\ NothingDroppedSilently'
  BY DEF IInv, PumpInv, LimitInv, NothingDroppedSilently, Final
<1>3. QueueInv' /\ HistInv' /\ EffectInv'
  BY HistKept, QueueKept, EffectKept DEF IInv
<1>4. QED BY <1>1, <1>2, <1>3 DEF IInv

LEMMA StartRunInv == IInv /\ StartRun => IInv'
<1> SUFFICES ASSUME IInv, StartRun PROVE IInv'
  OBVIOUS
<1> USE DEF StartRun, mainVars
<1>1. TypeOK'
  <2>1. \A i \in DOMAIN events_q : events_q[i] # << >>
    BY EmptySeq DEF IInv, PumpInv
  <2>2. QED BY <2>1 DEF IInv, TypeOK, Final, Config
<1>2. PumpInv' /\ LimitInv' /\ NothingDroppedSilently'
  <2>1. Len(report) = 0
    BY EmptySeq DEF IInv, PumpInv
  <2>2. stream = "open"
    BY DEF IInv, PumpInv
  <2>3. QED BY <2>1, <2>2 DEF IInv, PumpInv, LimitInv, Room, NothingDroppedSilently, Final
<1>3. QueueInv' /\ HistInv' /\ EffectInv'
  BY HistKept, QueueKept, EffectKept DEF IInv, Idle
<1>4. QED BY <1>1, <1>2, <1>3 DEF IInv

LEMMA ExpireInv == IInv /\ Expire => IInv'
<1> SUFFICES ASSUME IInv, Expire PROVE IInv'
  OBVIOUS
<1> USE DEF Expire, mainVars, pumpVars
<1>1. TypeOK'
  BY DEF IInv, TypeOK
<1>2. PumpInv' /\ LimitInv' /\ NothingDroppedSilently'
  BY DEF IInv, PumpInv, LimitInv, Room, NothingDroppedSilently, Final, Outside
<1>3. QueueInv' /\ HistInv' /\ EffectInv'
  BY HistKept, QueueKept, EffectKept DEF IInv
<1>4. QED BY <1>1, <1>2, <1>3 DEF IInv

LEMMA WaitingInv == IInv /\ (CheckDeadline \/ GetTimeout) => IInv'
<1> SUFFICES ASSUME IInv, CheckDeadline \/ GetTimeout PROVE IInv'
  OBVIOUS
<1>1. /\ pc \in {"loop", "get"} /\ pc' \in {"returned", "get"} /\ config.timed
      /\ pc' = "returned" => expired
      /\ UNCHANGED <<config, expired, mainVars, pumpVars>>
  BY DEF IInv, PumpInv, CheckDeadline, GetTimeout
<1> USE DEF mainVars, pumpVars
<1>2. TypeOK'
  BY <1>1 DEF IInv, TypeOK, Final
<1>3. PumpInv' /\ LimitInv' /\ NothingDroppedSilently'
  BY <1>1 DEF IInv, PumpInv, LimitInv, Room, NothingDroppedSilently, Final
<1>4. QueueInv' /\ HistInv' /\ EffectInv'
  BY <1>1, HistKept, QueueKept, EffectKept DEF IInv, Idle
<1>5. QED BY <1>2, <1>3, <1>4 DEF IInv

LEMMA PullEndInv == IInv /\ PullEnd => IInv'
<1> SUFFICES ASSUME IInv, PullEnd PROVE IInv'
  OBVIOUS
<1>1. /\ pc = "loop" /\ ~ config.timed
      /\ \/ stream' = "ended" /\ pc' = "returned"
         \/ stream' = "failed" /\ pc' = "raised"
      /\ UNCHANGED <<config, expired, mainVars, emitted, pump, events_q, pump_error>>
  BY DEF PullEnd
<1>2. TypeOK'
  BY <1>1 DEF IInv, TypeOK, Final, mainVars
<1>3. PumpInv' /\ LimitInv'
  BY <1>1 DEF IInv, PumpInv, LimitInv, Final, mainVars
<1>4. Len(report) = Len(emitted)
  <2>1. EventsIn(events_q) = 0
    BY <1>1, EmptyQueue DEF IInv, PumpInv
  <2>2. QED BY <1>1, <2>1, Lengths DEF IInv, QueueInv, InHand
<1>5. NothingDroppedSilently'
  BY <1>1, <1>4 DEF NothingDroppedSilently, mainVars
<1>6. QueueInv' /\ HistInv' /\ EffectInv'
  BY <1>1, HistKept, QueueKept, EffectKept DEF IInv, Idle, mainVars
<1>7. QED BY <1>2, <1>3, <1>5, <1>6 DEF IInv

-----------------------------------------------------------------------------
(* The adapter yields, ends or fails.                                      *)

(* A new event is the last of the queue, or the one in hand.               *)
LEMMA YieldKeepsHistory ==
    ASSUME IInv, NEW e \in Event, emitted' = Append(emitted, e), UNCHANGED <<tool_ctx, report>>
    PROVE  /\ HistInv' /\ emitted' \in Seq(Event) /\ Len(emitted') = Len(emitted) + 1
           /\ \A i \in 1..Len(emitted) : emitted'[i] = emitted[i]
           /\ emitted'[Len(emitted) + 1] = e
<1>1. /\ emitted \in Seq(Event) /\ Len(report) \in Nat /\ Len(report) <= Len(emitted)
  BY Lengths DEF IInv, TypeOK, QueueInv
<1>2. HistInv'
  BY <1>1, PrefixEntries DEF IInv, HistInv
<1>3. QED BY <1>1, <1>2, AppendProperties

LEMMA PullEventInv == IInv /\ PullEvent => IInv'
<1> SUFFICES ASSUME IInv, PullEvent PROVE IInv'
  OBVIOUS
<1>1. PICK e \in Event : emitted' = Append(emitted, e) /\ cur' = <<e>>
  BY DEF PullEvent
<1>2. /\ pc = "loop" /\ ~ config.timed /\ pc' = "handle" /\ events_q = << >>
      /\ UNCHANGED <<config, expired, tool_ctx, report, alerted, blocked,
                     stream, pump, events_q, pump_error>>
  BY DEF PullEvent, IInv, PumpInv
<1>3. /\ HistInv' /\ emitted' \in Seq(Event) /\ Len(emitted') = Len(emitted) + 1
      /\ emitted'[Len(emitted) + 1] = e
  BY <1>1, <1>2, YieldKeepsHistory
<1>4. TypeOK'
  BY <1>1, <1>2, <1>3 DEF IInv, TypeOK, Final
<1>5. PumpInv' /\ LimitInv' /\ NothingDroppedSilently'
  BY <1>2 DEF IInv, PumpInv, LimitInv, Room, NothingDroppedSilently, Final
<1>6. QueueInv'
  <2>1. Len(emitted) = Len(report) /\ EventsIn(events_q) = 0 /\ Len(report) \in Nat
    BY <1>2, EmptyQueue, Lengths DEF IInv, QueueInv, InHand
  <2>2. QED BY <1>1, <1>2, <1>3, <2>1 DEF QueueInv, InHand
<1>7. EffectInv'
  BY <1>2, EffectKept DEF IInv, Idle
<1>8. QED BY <1>3, <1>4, <1>5, <1>6, <1>7 DEF IInv

LEMMA QueueOpen ==
    IInv /\ pump = "on" => ~ Ends(events_q) /\ \A i \in DOMAIN events_q : events_q[i] # << >>
<1> SUFFICES ASSUME IInv, pump = "on"
             PROVE  ~ Ends(events_q) /\ \A i \in DOMAIN events_q : events_q[i] # << >>
  OBVIOUS
<1>1. \A i \in DOMAIN events_q : events_q[i] # << >>
  BY DEF IInv, TypeOK
<1>2. events_q # << >> => Len(events_q) \in DOMAIN events_q
  BY LenProperties, EmptySeq DEF IInv, TypeOK
<1>3. QED BY <1>1, <1>2 DEF Ends

LEMMA PumpEventInv == IInv /\ PumpEvent => IInv'
<1> SUFFICES ASSUME IInv, PumpEvent PROVE IInv'
  OBVIOUS
<1>1. PICK e \in Event : emitted' = Append(emitted, e) /\ events_q' = Append(events_q, <<e>>)
  BY DEF PumpEvent
<1>2. /\ pump = "on" /\ UNCHANGED <<config, pc, expired, mainVars, stream, pump, pump_error>>
      /\ config.timed /\ stream = "open"
  BY DEF PumpEvent, IInv, PumpInv
<1> USE DEF mainVars
<1>3. /\ HistInv' /\ emitted' \in Seq(Event) /\ Len(emitted') = Len(emitted) + 1
      /\ emitted'[Len(emitted) + 1] = e /\ \A i \in 1..Len(emitted) : emitted'[i] = emitted[i]
  BY <1>1, <1>2, YieldKeepsHistory
<1>4. /\ events_q' \in Seq(Item) /\ Len(events_q') = Len(events_q) + 1 /\ Len(events_q) \in Nat
      /\ \A i \in 1..Len(events_q) : events_q'[i] = events_q[i]
      /\ events_q'[Len(events_q) + 1] = <<e>>
      /\ DOMAIN events_q = 1..Len(events_q) /\ DOMAIN events_q' = 1..(Len(events_q) + 1)
  <2>1. <<e>> \in Item /\ events_q \in Seq(Item)
    BY DEF Item, IInv, TypeOK
  <2>2. QED BY <1>1, <2>1, AppendProperties, LenProperties
<1>5. ASSUME NEW i \in DOMAIN events_q' PROVE events_q'[i] # << >>
  <2>1. CASE i = Len(events_q) + 1
    BY <1>4, <2>1, EventIsItem
  <2>2. CASE i # Len(events_q) + 1
    <3>1. i \in 1..Len(events_q)
      BY <1>4, <2>2
    <3>2. events_q'[i] = events_q[i] /\ events_q[i] # << >>
      BY <1>2, <1>4, <3>1, QueueOpen
    <3>3. QED BY <3>2
  <2>3. QED BY <2>1, <2>2
<1>6. EventsIn(events_q') = Len(events_q) + 1 /\ EventsIn(events_q) = Len(events_q)
  <2>1. Len(events_q') \in DOMAIN events_q'
    BY <1>4
  <2>2. ~ Ends(events_q')
    BY <1>5, <2>1 DEF Ends
  <2>3. ~ Ends(events_q)
    BY <1>2, QueueOpen
  <2>4. QED BY <1>4, <2>2, <2>3 DEF EventsIn
<1>7. TypeOK'
  BY <1>2, <1>3, <1>4, <1>5 DEF IInv, TypeOK, Item
<1>8. PumpInv' /\ LimitInv' /\ NothingDroppedSilently'
  BY <1>2 DEF IInv, PumpInv, LimitInv, Room, NothingDroppedSilently, Final, Outside
<1>9. QueueInv'
  <2>1. /\ InHand' = InHand /\ InHand \in {0, 1} /\ Len(report) \in Nat
        /\ Len(emitted) = Len(report) + InHand + Len(events_q)
    BY <1>2, <1>6, Lengths DEF IInv, QueueInv, InHand
  <2>2. Len(emitted') = Len(report') + InHand' + EventsIn(events_q')
    BY <1>2, <1>3, <1>4, <1>6, <2>1
  <2>3. pc' = "handle" => cur' = <<emitted'[Len(report') + 1]>>
    <3>1. pc = "handle" => Len(report) + 1 \in 1..Len(emitted)
      BY <1>4, <2>1 DEF InHand
    <3>2. QED BY <1>2, <1>3, <3>1 DEF IInv, QueueInv
  <2>4. ASSUME NEW i \in 1..(Len(events_q) + 1)
        PROVE  events_q'[i] = <<emitted'[Len(report) + InHand + i]>>
    <3>1. CASE i = Len(events_q) + 1
      <4>1. Len(report) + InHand + i = Len(emitted) + 1
        BY <1>4, <2>1, <3>1
      <4>2. QED BY <1>3, <1>4, <3>1, <4>1
    <3>2. CASE i # Len(events_q) + 1
      <4>1. i \in 1..Len(events_q) /\ Len(report) + InHand + i \in 1..Len(emitted)
        BY <1>4, <2>1, <3>2
      <4>2. QED BY <1>3, <1>4, <1>6, <4>1 DEF IInv, QueueInv
    <3>3. QED BY <3>1, <3>2
  <2>5. QED BY <1>2, <1>6, <2>1, <2>2, <2>3, <2>4 DEF QueueInv
<1>10. EffectInv'
  BY <1>2, EffectKept DEF IInv
<1>11. QED BY <1>3, <1>7, <1>8, <1>9, <1>10 DEF IInv

LEMMA PumpEndInv == IInv /\ PumpEnd => IInv'
<1> SUFFICES ASSUME IInv, PumpEnd PROVE IInv'
  OBVIOUS
<1>1. /\ pump = "on" /\ pump' = "done" /\ events_q' = Append(events_q, << >>)
      /\ pump_error' \in BOOLEAN /\ stream' = IF pump_error' THEN "failed" ELSE "ended"
      /\ UNCHANGED <<config, pc, expired, mainVars, emitted>>
      /\ config.timed /\ stream = "open" /\ pc \notin {"init", "drift"}
  BY DEF PumpEnd, IInv, PumpInv
<1> USE DEF mainVars
<1>2. /\ events_q' \in Seq(Item) /\ Len(events_q') = Len(events_q) + 1 /\ Len(events_q) \in Nat
      /\ \A i \in 1..Len(events_q) : events_q'[i] = events_q[i]
      /\ events_q'[Len(events_q) + 1] = << >>
      /\ DOMAIN events_q = 1..Len(events_q) /\ DOMAIN events_q' = 1..(Len(events_q) + 1)
  <2>1. << >> \in Item /\ events_q \in Seq(Item)
    BY DEF Item, IInv, TypeOK
  <2>2. QED BY <1>1, <2>1, AppendProperties, LenProperties
<1>3. Ends(events_q') /\ EventsIn(events_q') = Len(events_q) /\ EventsIn(events_q) = Len(events_q)
  <2>1. events_q' # << >>
    BY <1>2, EmptySeq
  <2>2. Ends(events_q')
    BY <1>2, <2>1 DEF Ends
  <2>3. ~ Ends(events_q)
    BY <1>1, QueueOpen
  <2>4. QED BY <1>2, <2>2, <2>3 DEF EventsIn
<1>4. TypeOK'
  <2>1. \A i \in DOMAIN events_q' : events_q'[i] = << >> => i = Len(events_q')
    BY <1>1, <1>2, QueueOpen
  <2>2. QED BY <1>1, <1>2, <2>1 DEF IInv, TypeOK, Item
<1>5. PumpInv' /\ LimitInv' /\ NothingDroppedSilently'
  BY <1>1, <1>3 DEF IInv, PumpInv, LimitInv, Room, NothingDroppedSilently, Final, Outside
<1>6. QueueInv'
  BY <1>1, <1>2, <1>3 DEF IInv, QueueInv, InHand
<1>7. HistInv' /\ EffectInv'
  BY <1>1, HistKept, EffectKept DEF IInv
<1>8. QED BY <1>4, <1>5, <1>6, <1>7 DEF IInv

LEMMA GetInv == IInv /\ Get => IInv'
<1> SUFFICES ASSUME IInv, Get PROVE IInv'
  OBVIOUS
<1> DEFINE q == events_q
<1>1. /\ pc = "get" /\ q # << >> /\ events_q' = Tail(q) /\ cur' = Head(q) /\ config.timed
      /\ pc' = IF Head(q) # << >> THEN "handle" ELSE IF pump_error THEN "raised" ELSE "returned"
      /\ UNCHANGED <<config, expired, tool_ctx, report, alerted, blocked,
                     stream, emitted, pump, pump_error>>
  BY DEF Get, IInv, PumpInv
<1>2. /\ events_q' \in Seq(Item) /\ Len(events_q') = Len(q) - 1 /\ Len(q) \in Nat \ {0}
      /\ \A i \in 1..(Len(q) - 1) : events_q'[i] = q[i + 1]
      /\ Head(q) = q[1] /\ q[1] \in Item
      /\ DOMAIN q = 1..Len(q) /\ DOMAIN events_q' = 1..(Len(q) - 1)
  <2>1. q \in Seq(Item)
    BY DEF Item, IInv, TypeOK
  <2>2. Len(q) \in Nat \ {0}
    BY <1>1, <2>1, EmptySeq
  <2>3. QED BY <1>1, <2>1, <2>2, HeadTailProperties, LenProperties, ElementOfSeq
<1>3. \A i \in 1..Len(q) : q[i] = << >> => i = Len(q) /\ pump = "done"
  BY <1>2 DEF IInv, TypeOK
<1> HIDE DEF q
<1>4. TypeOK'
  <2>1. ASSUME NEW i \in DOMAIN events_q', events_q'[i] = << >>
        PROVE  i = Len(events_q') /\ pump' = "done"
    <3>1. i + 1 \in 1..Len(q) /\ q[i + 1] = << >> /\ i \in Nat
      BY <1>2, <2>1
    <3>2. i + 1 = Len(q) /\ pump = "done"
      BY <1>3, <3>1
    <3>3. pump' = pump
      BY <1>1
    <3>4. QED BY <1>2, <3>1, <3>2, <3>3
  <2>2. QED BY <1>1, <1>2, <2>1 DEF IInv, TypeOK, Item, Final
<1>5. HistInv' /\ EffectInv' /\ LimitInv'
  BY <1>1, HistKept, EffectKept DEF IInv, Idle, LimitInv, Room
<1>6. CASE q[1] # << >>
  <2>1. Ends(events_q') <=> Ends(q)
    <3>1. CASE Len(q) = 1
      BY <1>1, <1>2, <1>6, <3>1, EmptySeq DEF Ends
    <3>2. CASE Len(q) # 1
      <4>1. events_q' # << >> /\ events_q'[Len(events_q')] = q[Len(q)]
        BY <1>2, <3>2, EmptySeq
      <4>2. QED BY <1>1, <4>1 DEF Ends
    <3>3. QED BY <3>1, <3>2
  <2>2. Ends(q) => Len(q) > 1
    BY <1>2, <1>6 DEF Ends
  <2>3. EventsIn(events_q') = EventsIn(q) - 1 /\ EventsIn(q) \in Nat \ {0} /\ EventsIn(q) <= Len(q)
    BY <1>2, <2>1, <2>2 DEF EventsIn
  <2>4. pc' = "handle" /\ InHand = 0 /\ InHand' = 1
    BY <1>1, <1>2, <1>6 DEF InHand
  <2>5. PumpInv' /\ NothingDroppedSilently'
    BY <1>1, <2>1, <2>4 DEF IInv, PumpInv, NothingDroppedSilently, Final, q
  <2>6. QueueInv'
    <3>1. /\ Len(report) \in Nat /\ Len(emitted) = Len(report) + EventsIn(q)
          /\ \A i \in 1..EventsIn(q) : q[i] = <<emitted[Len(report) + i]>>
      BY <2>4, Lengths DEF IInv, QueueInv, q
    <3>2. cur' = <<emitted[Len(report) + 1]>>
      BY <1>1, <1>2, <2>3, <3>1
    <3>3. ASSUME NEW i \in 1..(EventsIn(q) - 1)
          PROVE  events_q'[i] = <<emitted[Len(report) + 1 + i]>>
      <4>1. i + 1 \in 1..EventsIn(q) /\ events_q'[i] = q[i + 1]
        BY <1>2, <2>3
      <4>2. Len(report) + (i + 1) = Len(report) + 1 + i
        BY <3>1
      <4>3. QED BY <3>1, <4>1, <4>2
    <3>4. QED BY <1>1, <2>3, <2>4, <3>1, <3>2, <3>3 DEF QueueInv
  <2>7. QED BY <1>4, <1>5, <2>5, <2>6 DEF IInv
<1>7. CASE q[1] = << >>
  <2>1. Len(q) = 1 /\ pump = "done" /\ Ends(q)
    <3>1. 1 \in 1..Len(q)
      BY <1>2
    <3>2. Len(q) = 1 /\ pump = "done"
      BY <1>3, <1>7, <3>1
    <3>3. q # << >>
      BY <1>1
    <3>4. QED BY <1>7, <3>2, <3>3 DEF Ends
  <2>2. EventsIn(q) = 0 /\ events_q' = << >> /\ EventsIn(events_q') = 0
    BY <1>2, <2>1, EmptySeq, EmptyQueue DEF EventsIn
  <2>3. pc' \in {"raised", "returned"} /\ InHand = 0 /\ InHand' = 0
    BY <1>1, <1>2, <1>7 DEF InHand
  <2>4. Len(report) = Len(emitted)
    BY <2>2, <2>3, Lengths DEF IInv, QueueInv, q
  <2>5. PumpInv' /\ NothingDroppedSilently'
    BY <1>1, <1>2, <1>7, <2>1, <2>2, <2>4 DEF IInv, PumpInv, NothingDroppedSilently, Final
  <2>6. QueueInv'
    BY <1>1, <2>2, <2>3, <2>4, Lengths DEF IInv, QueueInv
  <2>7. QED BY <1>4, <1>5, <2>5, <2>6 DEF IInv
<1>8. QED BY <1>6, <1>7

-----------------------------------------------------------------------------
(* handle_event.                                                           *)

LEMMA EntryTyped ==
    ASSUME NEW e \in Event, NEW t \in Tool \cup {NoTool}
    PROVE  /\ A!track_tool_ctx(e, t) \in Tool \cup {NoTool}
           /\ A!Classified(A!Stamp(e, t)) \in A!Entry
<1>1. e \in A!Stamped
  BY EventAssumption
<1>2. A!Stamp(e, t) \in A!Stamped
  BY <1>1 DEF A!Stamp, A!Stamped
<1>3. QED BY <1>1, <1>2, EventAssumption DEF A!track_tool_ctx, A!Classified, A!Stamped, A!Entry

LEMMA ReportExtends ==
    ASSUME NEW s, NEW n \in Nat, NEW r \in Seq(A!Entry), Len(r) = n, r = A!ReportOf(s, n),
           A!EntryAt(s, n + 1) \in A!Entry
    PROVE  Append(r, A!EntryAt(s, n + 1)) = A!ReportOf(s, n + 1)
<1> DEFINE new == A!ReportOf(s, n + 1)
           old == Append(r, A!EntryAt(s, n + 1))
<1>1. \A i \in 1..n : r[i] = A!EntryAt(s, i) /\ r[i] \in A!Entry
  BY ElementOfSeq DEF A!ReportOf
<1>2. /\ old \in Seq(A!Entry) /\ Len(old) = n + 1
      /\ \A i \in 1..n : old[i] = r[i]
      /\ old[n + 1] = A!EntryAt(s, n + 1)
  BY AppendProperties
<1>3. /\ \A i \in 1..(n + 1) : new[i] = A!EntryAt(s, i)
      /\ new \in [1..(n + 1) -> A!Entry]
  BY <1>1 DEF A!ReportOf
<1>4. new \in Seq(A!Entry) /\ Len(new) = n + 1
  BY <1>3, SeqDef, LenProperties
<1> HIDE DEF new, old
<1>5. \A i \in 1..(n + 1) : old[i] = new[i]
  <2>1. \A i \in 1..(n + 1) : i \in 1..n \/ i = n + 1
    OBVIOUS
  <2>2. QED BY <1>1, <1>2, <1>3, <2>1
<1>6. QED BY <1>2, <1>4, <1>5, SeqEqual DEF new, old

(* What is left to do when an event has been dealt with.                   *)
LEMMA AfterEventLimits ==
    ASSUME NEW r, NEW k \in Nat, Len(r) = k + 1, Room(k), config \in Config
    PROVE  /\ AfterEvent(r) \in {"loop", "returned"}
           /\ AfterEvent(r) = "loop" => Room(k + 1)
           /\ AfterEvent(r) = "returned" =>
                 config.max # Unlimited /\ k + 1 = IF config.max = 0 THEN 1 ELSE config.max
<1>1. config.max = Unlimited \/ (config.max \in Nat /\ config.max # Unlimited)
  BY MonitorAssumption DEF Config
<1>2. CASE config.max = Unlimited
  BY <1>2 DEF AfterEvent, Room
<1>3. CASE config.max \in Nat /\ config.max # Unlimited
  <2>1. k < config.max \/ k = 0
    BY <1>3 DEF Room
  <2>2. CASE k + 1 >= config.max
    BY <1>3, <2>1, <2>2 DEF AfterEvent
  <2>3. CASE ~ (k + 1 >= config.max)
    BY <1>3, <2>3 DEF AfterEvent, Room
  <2>4. QED BY <2>2, <2>3
<1>4. QED BY <1>1, <1>2, <1>3

LEMMA HandleInv ==
    IInv /\ Handle =>
      /\ IInv'
      /\ Len(report') = Len(report) + 1 /\ Len(report) < Len(emitted)
      /\ report' = A!ReportOf(emitted, Len(report) + 1) /\ UNCHANGED emitted
<1> SUFFICES ASSUME IInv, Handle
             PROVE  /\ IInv'
                    /\ Len(report') = Len(report) + 1 /\ Len(report) < Len(emitted)
                    /\ report' = A!ReportOf(emitted, Len(report) + 1) /\ UNCHANGED emitted
  OBVIOUS
<1> DEFINE h == Len(report)
           e == cur[1]
           entry == EntryOf(e)
<1>1. /\ pc = "handle" /\ cur' = << >>
      /\ tool_ctx' = A!track_tool_ctx(e, tool_ctx) /\ report' = Append(report, entry)
      /\ pc' = IF entry.class = "outside_contract" /\ config.mode \in {"alert", "enforce"}
                  THEN "alert" ELSE AfterEvent(report')
      /\ UNCHANGED <<config, expired, alerted, blocked, pumpVars>>
  BY DEF Handle
<1>2. /\ e \in Event /\ e = emitted[h + 1] /\ h \in Nat /\ h < Len(emitted)
      /\ report \in Seq(A!Entry) /\ config \in Config
      /\ tool_ctx \in Tool \cup {NoTool}
  <2>1. cur \in Item /\ cur # << >> /\ cur = <<emitted[h + 1]>>
    BY <1>1 DEF IInv, TypeOK, QueueInv, Item
  <2>2. PICK x \in Event : cur = <<x>>
    BY <2>1 DEF Item
  <2>3. e = x /\ e = emitted[h + 1]
    BY <2>1, <2>2
  <2>4. InHand = 1 /\ h \in Nat /\ EventsIn(events_q) \in Nat
    BY <1>1, Lengths DEF IInv, InHand
  <2>5. h < Len(emitted)
    BY <2>4 DEF IInv, QueueInv
  <2>6. QED BY <2>2, <2>3, <2>4, <2>5 DEF IInv, TypeOK
<1>3. /\ entry \in A!Entry /\ tool_ctx' \in Tool \cup {NoTool}
      /\ tool_ctx' = A!ContextAt(emitted, h + 1)
      /\ entry = A!EntryAt(emitted, h + 1)
  <2>1. tool_ctx' \in Tool \cup {NoTool}
    BY <1>1, <1>2, EntryTyped
  <2>2. entry \in A!Entry /\ entry = A!Classified(A!Stamp(e, tool_ctx'))
    BY <1>1, <1>2, <2>1, EntryTyped DEF EntryOf
  <2>3. tool_ctx' = A!ContextAt(emitted, h + 1)
    BY <1>1, <1>2, ContextIsTracked DEF IInv, HistInv
  <2>4. QED BY <1>2, <2>1, <2>2, <2>3 DEF A!EntryAt
<1> HIDE DEF e, entry
<1>4. /\ report' \in Seq(A!Entry) /\ Len(report') = h + 1
      /\ \A i \in 1..h : report'[i] = report[i]
      /\ report'[h + 1] = entry
      /\ DOMAIN report = 1..h /\ DOMAIN report' = 1..(h + 1)
  BY <1>1, <1>2, <1>3, AppendProperties, LenProperties
<1>5. report' = A!ReportOf(emitted, h + 1)
  BY <1>1, <1>2, <1>3, ReportExtends DEF IInv, HistInv
<1>6. /\ AfterEvent(report') \in {"loop", "returned"}
      /\ AfterEvent(report') = "loop" => Room(h + 1)
      /\ AfterEvent(report') = "returned" =>
            config.max # Unlimited /\ h + 1 = IF config.max = 0 THEN 1 ELSE config.max
  BY <1>1, <1>2, <1>4, AfterEventLimits DEF IInv, LimitInv
<1>7. pc' \in {"alert", "loop", "returned"}
  BY <1>1, <1>6
<1>8. TypeOK'
  BY <1>1, <1>3, <1>4, <1>7 DEF IInv, TypeOK, Final, pumpVars
<1>9. PumpInv'
  BY <1>1, <1>7 DEF IInv, PumpInv, Final, pumpVars
<1>10. QueueInv'
  <2>1. InHand = 1 /\ InHand' = 0 /\ EventsIn(events_q) \in Nat
    BY <1>1, <1>7, Lengths DEF IInv, InHand
  <2>2. /\ Len(emitted) = h + 1 + EventsIn(events_q)
        /\ \A i \in 1..EventsIn(events_q) : events_q[i] = <<emitted[h + 1 + i]>>
    BY <2>1 DEF IInv, QueueInv
  <2>3. \A i \in Nat : h + 1 + 0 + i = h + 1 + i
    BY <1>2
  <2>4. QED BY <1>1, <1>2, <1>4, <1>7, <2>1, <2>2, <2>3 DEF QueueInv, pumpVars
<1>11. HistInv'
  BY <1>1, <1>3, <1>4, <1>5 DEF HistInv, pumpVars
<1>12. LimitInv'
  <2>1. Room(h) /\ config' = config
    BY <1>1 DEF IInv, LimitInv, Room
  <2>2. (h + 1) - 1 = h /\ h + 1 > 0
    BY <1>2
  <2>3. pc' = "loop" => Room(Len(report))'
    BY <1>1, <1>4, <1>6 DEF Room
  <2>4. pc' = "alert" => Len(report') > 0 /\ Room(Len(report) - 1)'
    BY <1>1, <1>4, <2>1, <2>2 DEF Room
  <2>5. QED BY <1>7, <2>3, <2>4 DEF LimitInv
<1>13. EffectInv'
  <2>1. Outside' = IF entry.class = "outside_contract" THEN Outside \cup {h + 1} ELSE Outside
    BY <1>2, <1>4 DEF Outside
  <2>2. h + 1 \notin Outside
    BY <1>2, <1>4 DEF Outside
  <2>3. /\ Increasing(alerted) /\ Increasing(blocked) /\ ToSet(blocked) \subseteq ToSet(alerted)
        /\ Reports(alerted)
        /\ ToSet(alerted) = IF config.mode = "observe" THEN {} ELSE Outside
        /\ ToSet(blocked) = IF config.mode = "enforce" THEN Outside ELSE {}
    BY <1>1 DEF IInv, EffectInv
  <2>4. Reports(alerted)'
    BY <1>1, <1>2, <1>4, <2>3 DEF Reports
  <2>5. config.mode \in {"observe", "alert", "enforce"}
    BY <1>2 DEF Config
  <2>6. Increasing(alerted)' /\ Increasing(blocked)'
    BY <1>1, <2>3 DEF Increasing
  <2>7. /\ ToSet(alerted)' = ToSet(alerted) /\ ToSet(blocked)' = ToSet(blocked)
        /\ config' = config /\ Len(report)' = h + 1
    BY <1>1, <1>4
  <2>8. CASE pc' = "alert"
    <3>1. entry.class = "outside_contract" /\ config.mode \in {"alert", "enforce"}
      BY <1>1, <1>6, <2>8
    <3>2. Outside' = Outside \cup {h + 1} /\ h + 1 \in Outside' /\ Outside' \ {h + 1} = Outside
      BY <2>1, <2>2, <3>1
    <3>3. QED BY <2>3, <2>4, <2>6, <2>7, <2>8, <3>1, <3>2 DEF EffectInv
  <2>9. CASE pc' # "alert"
    <3>1. pc' \in {"loop", "returned"} /\ (entry.class # "outside_contract" \/ config.mode = "observe")
      BY <1>1, <1>7, <2>5, <2>9
    <3>2. QED BY <2>1, <2>3, <2>4, <2>6, <2>7, <3>1 DEF EffectInv
  <2>10. QED BY <2>8, <2>9
<1>14. NothingDroppedSilently'
  BY <1>1, <1>4, <1>6, <1>7 DEF NothingDroppedSilently
<1>15. QED BY <1>1, <1>2, <1>4, <1>5, <1>8, <1>9, <1>10, <1>11, <1>12, <1>13, <1>14 DEF IInv, pumpVars

(* Where the run goes when the last effect of an event has been caused.    *)
LEMMA EffectsDone ==
    ASSUME IInv, pc \in {"alert", "block"}
    PROVE  /\ Len(report) \in Nat \ {0} /\ Len(report) \in Outside
           /\ config.mode \in {"alert", "enforce"}
           /\ AfterEvent(report) \in {"loop", "returned"}
           /\ AfterEvent(report) = "loop" => Room(Len(report))
           /\ AfterEvent(report) = "returned" =>
                 config.max # Unlimited /\ Len(report) = IF config.max = 0 THEN 1 ELSE config.max
<1>1. /\ Len(report) \in Nat /\ Len(report) > 0 /\ Room(Len(report) - 1) /\ config \in Config
      /\ Len(report) \in Outside /\ config.mode # "observe"
  BY Lengths DEF IInv, LimitInv, EffectInv, TypeOK
<1>2. Len(report) - 1 \in Nat /\ Len(report) = (Len(report) - 1) + 1
  BY <1>1
<1>3. /\ AfterEvent(report) \in {"loop", "returned"}
      /\ AfterEvent(report) = "loop" => Room(Len(report))
      /\ AfterEvent(report) = "returned" =>
            config.max # Unlimited /\ Len(report) = IF config.max = 0 THEN 1 ELSE config.max
  BY <1>1, <1>2, AfterEventLimits
<1>4. QED BY <1>1, <1>3 DEF Config

(* A callback that returns has dealt with the last entry of the report.    *)
LEMMA EffectAppended ==
    ASSUME IInv, pc \in {"alert", "block"}, NEW s \in Seq(Nat), Increasing(s),
           ToSet(s) = Outside \ {Len(report)}
    PROVE  /\ Append(s, Len(report)) \in Seq(Nat)
           /\ Increasing(Append(s, Len(report)))
           /\ ToSet(Append(s, Len(report))) = Outside
<1>1. Len(report) \in Nat /\ Len(report) \in Outside /\ Outside \subseteq 1..Len(report)
  BY EffectsDone, Lengths DEF IInv
<1>2. ASSUME NEW y \in ToSet(s) PROVE y < Len(report)
  <2>1. y \in 1..Len(report) /\ y # Len(report)
    BY <1>1
  <2>2. QED BY <1>1, <2>1
<1>3. Append(s, Len(report)) \in Seq(Nat)
  BY <1>1, AppendProperties
<1>4. Increasing(Append(s, Len(report)))
  BY <1>1, <1>2, AppendIncreases
<1>5. ToSet(Append(s, Len(report))) = ToSet(s) \cup {Len(report)}
  BY <1>1, ToSetOfAppend
<1>6. (Outside \ {Len(report)}) \cup {Len(report)} = Outside
  BY <1>1
<1>7. QED BY <1>3, <1>4, <1>5, <1>6

LEMMA AlertInv == IInv /\ Alert => IInv'
<1> SUFFICES ASSUME IInv, Alert PROVE IInv'
  OBVIOUS
<1>1. /\ pc = "alert" /\ UNCHANGED <<config, expired, cur, tool_ctx, report, blocked, pumpVars>>
      /\ \/ alerted' = Append(alerted, Len(report))
            /\ pc' = IF config.mode = "enforce" THEN "block" ELSE AfterEvent(report)
         \/ pc' = "raised" /\ UNCHANGED alerted
  BY DEF Alert
<1> USE DEF pumpVars
<1>2. /\ config.mode \in {"alert", "enforce"} /\ Len(report) \in Outside
      /\ AfterEvent(report) \in {"loop", "returned"} /\ Len(report) \in Nat \ {0}
      /\ AfterEvent(report) = "loop" => Room(Len(report))
      /\ AfterEvent(report) = "returned" =>
            config.max # Unlimited /\ Len(report) = IF config.max = 0 THEN 1 ELSE config.max
  BY <1>1, EffectsDone
<1>3. /\ Append(alerted, Len(report)) \in Seq(Nat)
      /\ Increasing(Append(alerted, Len(report)))
      /\ ToSet(Append(alerted, Len(report))) = Outside
  BY <1>1, EffectAppended DEF IInv, EffectInv, TypeOK
<1>4. pc' \in {"block", "loop", "returned", "raised"} /\ alerted' \in Seq(Nat)
  BY <1>1, <1>2, <1>3 DEF IInv, TypeOK
<1>5. TypeOK'
  BY <1>1, <1>4 DEF IInv, TypeOK, Final
<1>6. PumpInv' /\ QueueInv' /\ HistInv'
  BY <1>1, <1>4, HistKept, QueueKept DEF IInv, PumpInv, Final
<1>7. LimitInv'
  BY <1>1, <1>2, <1>4 DEF IInv, LimitInv, Room
<1>8. EffectInv'
  <2>1. Outside' = Outside /\ Outside \subseteq 1..Len(report)
    BY <1>1, Lengths DEF IInv, Outside
  <2>2. CASE pc' = "raised" /\ UNCHANGED alerted
    BY <1>1, <2>2, EffectKept DEF IInv
  <2>3. CASE alerted' = Append(alerted, Len(report))
               /\ pc' = IF config.mode = "enforce" THEN "block" ELSE AfterEvent(report)
    <3>1. /\ Increasing(alerted') /\ ToSet(alerted') = Outside
          /\ Increasing(blocked) /\ blocked' = blocked
          /\ ToSet(blocked) = IF config.mode = "enforce" THEN Outside \ {Len(report)} ELSE {}
      BY <1>1, <1>3, <2>3 DEF IInv, EffectInv
    <3>2. \A k \in ToSet(alerted') : k \in 1..Len(report')
      BY <1>1, <2>1, <3>1
    <3>3. CASE config.mode = "enforce"
      BY <1>1, <1>2, <2>1, <2>3, <3>1, <3>2, <3>3 DEF EffectInv, Reports, Increasing
    <3>4. CASE config.mode # "enforce"
      BY <1>1, <1>2, <2>1, <2>3, <3>1, <3>2, <3>4 DEF EffectInv, Reports, Increasing
    <3>5. QED BY <3>3, <3>4
  <2>4. QED BY <1>1, <2>2, <2>3
<1>9. NothingDroppedSilently'
  BY <1>1, <1>2, <1>4 DEF NothingDroppedSilently, Outside
<1>10. QED BY <1>5, <1>6, <1>7, <1>8, <1>9 DEF IInv

LEMMA BlockInv == IInv /\ Block => IInv'
<1> SUFFICES ASSUME IInv, Block PROVE IInv'
  OBVIOUS
<1>1. /\ pc = "block" /\ UNCHANGED <<config, expired, cur, tool_ctx, report, alerted, pumpVars>>
      /\ \/ blocked' = Append(blocked, Len(report)) /\ pc' = AfterEvent(report)
         \/ pc' = "raised" /\ UNCHANGED blocked
  BY DEF Block
<1> USE DEF pumpVars
<1>2. /\ config.mode \in {"alert", "enforce"} /\ Len(report) \in Outside
      /\ AfterEvent(report) \in {"loop", "returned"} /\ Len(report) \in Nat \ {0}
      /\ AfterEvent(report) = "loop" => Room(Len(report))
      /\ AfterEvent(report) = "returned" =>
            config.max # Unlimited /\ Len(report) = IF config.max = 0 THEN 1 ELSE config.max
  BY <1>1, EffectsDone
<1>3. /\ Append(blocked, Len(report)) \in Seq(Nat)
      /\ Increasing(Append(blocked, Len(report)))
      /\ ToSet(Append(blocked, Len(report))) = Outside
  BY <1>1, EffectAppended DEF IInv, EffectInv, TypeOK
<1>4. pc' \in {"loop", "returned", "raised"} /\ blocked' \in Seq(Nat)
  BY <1>1, <1>2, <1>3 DEF IInv, TypeOK
<1>5. TypeOK'
  BY <1>1, <1>4 DEF IInv, TypeOK, Final
<1>6. PumpInv' /\ QueueInv' /\ HistInv'
  BY <1>1, <1>4, HistKept, QueueKept DEF IInv, PumpInv, Final
<1>7. LimitInv'
  BY <1>1, <1>2, <1>4 DEF IInv, LimitInv, Room
<1>8. EffectInv'
  <2>1. Outside' = Outside
    BY <1>1 DEF Outside
  <2>2. CASE pc' = "raised" /\ UNCHANGED blocked
    BY <1>1, <2>2, EffectKept DEF IInv
  <2>3. CASE blocked' = Append(blocked, Len(report)) /\ pc' = AfterEvent(report)
    <3>1. /\ Increasing(blocked') /\ ToSet(blocked') = Outside /\ config.mode = "enforce"
          /\ Increasing(alerted) /\ alerted' = alerted /\ ToSet(alerted) = Outside
          /\ Reports(alerted)
      BY <1>1, <1>3, <2>3 DEF IInv, EffectInv
    <3>2. QED BY <1>1, <1>2, <2>1, <2>3, <3>1 DEF EffectInv, Reports, Increasing
  <2>4. QED BY <1>1, <2>2, <2>3
<1>9. NothingDroppedSilently'
  BY <1>1, <1>2, <1>4 DEF NothingDroppedSilently, Outside
<1>10. QED BY <1>5, <1>6, <1>7, <1>8, <1>9 DEF IInv

-----------------------------------------------------------------------------
(* The results.                                                            *)

LEMMA NextInv == IInv /\ [Next]_vars => IInv'
<1> SUFFICES ASSUME IInv, [Next]_vars PROVE IInv'
  OBVIOUS
<1>1. CASE Next
  BY <1>1, RefuseDriftInv, StartRunInv, WaitingInv, GetInv, HandleInv, AlertInv, BlockInv,
     PullEventInv, PullEndInv, PumpEventInv, PumpEndInv, ExpireInv DEF Next, Main, Pull
<1>2. CASE UNCHANGED vars
  <2> USE <1>2 DEF vars, mainVars, pumpVars
  <2>1. TypeOK' /\ PumpInv' /\ LimitInv' /\ NothingDroppedSilently'
    BY DEF IInv, TypeOK, PumpInv, LimitInv, Room, NothingDroppedSilently, Outside
  <2>2. QueueInv' /\ HistInv' /\ EffectInv'
    BY HistKept, QueueKept, EffectKept DEF IInv
  <2>3. QED BY <2>1, <2>2 DEF IInv
<1>3. QED BY <1>1, <1>2

LEMMA Invariance == Init /\ [][Next]_vars => []IInv
  BY InitInv, NextInv, PTL

(* Every variable keeps its type; the sentinel is the last item ever       *)
(* queued.                                                                 *)
THEOREM TypeCorrect == Spec => []TypeOK
<1>1. IInv => TypeOK
  BY DEF IInv
<1>2. QED BY <1>1, Invariance, PTL DEF Spec

(* What was alerted and what was blocked is what the report says, in the   *)
(* same order, whatever raises and however far the pump is ahead.          *)
(* (handle_event)                                                          *)
THEOREM EffectsMatchTheReport == Spec => []EnforcementMatchesReport
<1>1. IInv => EnforcementMatchesReport
  BY DEF IInv, EffectInv, EnforcementMatchesReport
<1>2. QED BY <1>1, Invariance, PTL DEF Spec

(* A run that returns has classified everything that was yielded, but for  *)
(* a deadline or a full report, and a failure of the adapter is raised     *)
(* after everything that was queued before it.  (run)                      *)
THEOREM NothingIsDropped == Spec => []NothingDroppedSilently
<1>1. IInv => NothingDroppedSilently
  BY DEF IInv
<1>2. QED BY <1>1, Invariance, PTL DEF Spec

(* Over is over: the pump may go on, the report does not.                  *)
Over == pc \in Final

LEMMA InitRefines == Init => A!Init
  BY DEF Init, A!Init

LEMMA StepRefines == IInv /\ [Next]_vars => [A!Next]_(A!vars)
<1> SUFFICES ASSUME IInv, [Next]_vars PROVE A!Next \/ UNCHANGED A!vars
  OBVIOUS
<1> USE DEF mainVars, pumpVars, Final
<1>1. CASE PullEvent
  BY <1>1 DEF PullEvent, A!Next, A!Deliver
<1>2. CASE PumpEvent
  BY <1>2 DEF PumpEvent, A!Next, A!Deliver
<1>3. CASE Handle
  <2>1. /\ Len(report) < Len(emitted) /\ report' = A!ReportOf(emitted, Len(report) + 1)
        /\ UNCHANGED emitted
    BY <1>3, HandleInv
  <2>2. pc = "handle"
    BY <1>3 DEF Handle
  <2>3. QED BY <2>1, <2>2 DEF A!Next, A!Record
<1>4. CASE UNCHANGED <<emitted, report>> /\ (~ Over \/ pc' = pc)
  BY <1>4 DEF Over, A!Next, A!Finish, A!vars
<1>5. Next /\ ~ (PullEvent \/ PumpEvent \/ Handle)
         => UNCHANGED <<emitted, report>> /\ (~ Over \/ pc' = pc)
  BY DEF Next, Main, Pull, RefuseDrift, StartRun, CheckDeadline, Get, GetTimeout, Alert, Block,
     PullEnd, PumpEnd, Expire, Over
<1>6. CASE UNCHANGED vars
  BY <1>6 DEF vars, A!vars
<1>7. QED BY <1>1, <1>2, <1>3, <1>4, <1>5, <1>6

(* A live run implements the audit: at every step its report is what the   *)
(* offline classification makes of a prefix of what the adapter yielded,   *)
(* with or without a pump between the two.  (Monitor.run, classify_events) *)
THEOREM LiveIsAudit == Spec => ImplementsAudit
  BY InitRefines, StepRefines, Invariance, PTL DEF Spec, ImplementsAudit, A!Spec

-----------------------------------------------------------------------------
(* The audit of recorded events, for every recording.                      *)

LEMMA ContextTyped ==
    ASSUME NEW s \in Seq(A!Stamped), NEW k \in 1..Len(s)
    PROVE  s[k] \in A!Stamped /\ A!ContextAt(s, k) \in Tool \cup {NoTool}
<1>1. k \in Nat /\ k \in 1..k /\ \A j \in 1..k : j \in 1..Len(s)
  BY LenProperties
<1>2. \A j \in 1..k : s[j] \in A!Stamped
  BY <1>1, ElementOfSeq
<1>3. CASE CallsIn(s, k) = {}
  BY <1>1, <1>2, <1>3, ContextOfLastCall
<1>4. CASE CallsIn(s, k) # {}
  <2>1. PICK j : IsLast(j, CallsIn(s, k))
    BY <1>1, <1>4, ContextOfLastCall
  <2>2. j \in 1..k /\ A!ContextAt(s, k) = s[j].call
    BY <1>1, <2>1, ContextOfLastCall DEF IsLast, CallsIn
  <2> QED
    BY <1>1, <1>2, <2>2 DEF A!Stamped
<1> QED
  BY <1>3, <1>4

LEMMA AuditEntries ==
    ASSUME NEW s \in Seq(A!Stamped), NEW k \in 1..Len(s)
    PROVE  A!EntryAt(s, k) \in A!Entry
<1>1. A!Stamp(s[k], A!ContextAt(s, k)) \in A!Stamped
  BY ContextTyped DEF A!Stamp, A!Stamped
<1> QED
  BY <1>1, EventAssumption DEF A!EntryAt, A!Classified, A!Stamped, A!Entry

LEMMA ReportTyped ==
    ASSUME NEW s \in Seq(A!Stamped), NEW k \in 0..Len(s)
    PROVE  A!ReportOf(s, k) \in Seq(A!Entry) /\ Len(A!ReportOf(s, k)) = k
<1>1. Len(s) \in Nat /\ k \in Nat
  BY LenProperties
<1>2. A!ReportOf(s, k) \in [1..k -> A!Entry]
  BY <1>1, AuditEntries DEF A!ReportOf
<1> QED
  BY <1>1, <1>2, SeqDef, LenProperties

(* The audit's loop, which carries the context from event to event, gives  *)
(* every event of every recording the latest call at or before it.         *)
(* (classify_events, track_tool_ctx)                                       *)
LEMMA LoopIsReport ==
    ASSUME NEW s \in Seq(A!Stamped)
    PROVE  A!classify_events(s) = A!ReportOf(s, Len(s))
<1> DEFINE n == Len(s)
           start == [ctx |-> NoTool, report |-> << >>]
           Loop(g) == g = [k \in 0..n |-> IF k = 0 THEN start ELSE A!AuditStep(g[k - 1], s[k])]
           At(k) == [ctx |-> A!ContextAt(s, k), report |-> A!ReportOf(s, k)]
           loop == CHOOSE g : Loop(g)
<1>1. n \in Nat
  BY LenProperties
<1>2. At(0) = start
  <2>1. A!ReportOf(s, 0) = << >>
    BY DEF A!ReportOf
  <2> QED
    BY <2>1, ContextIsTracked
<1>3. ASSUME NEW k \in 1..n
      PROVE  A!AuditStep(At(k - 1), s[k]) = At(k)
  <2>1. k - 1 \in Nat /\ k - 1 \in 0..Len(s) /\ (k - 1) + 1 = k
    BY <1>1
  <2>2. A!ContextAt(s, k) = A!track_tool_ctx(s[k], A!ContextAt(s, k - 1))
    BY <2>1, ContextIsTracked
  <2>3. Append(A!ReportOf(s, k - 1), A!EntryAt(s, k)) = A!ReportOf(s, k)
    BY <2>1, ReportTyped, AuditEntries, ReportExtends
  <2> QED
    BY <2>2, <2>3 DEF A!AuditStep, A!EntryAt
<1> HIDE DEF At, start
<1>4. Loop([k \in 0..n |-> At(k)])
  <2> DEFINE g == [k \in 0..n |-> At(k)]
  <2>1. \A k \in 0..n : At(k) = IF k = 0 THEN start ELSE A!AuditStep(g[k - 1], s[k])
    <3> TAKE k \in 0..n
    <3>1. CASE k = 0
      BY <1>2, <3>1
    <3>2. CASE k # 0
      <4>1. k \in 1..n /\ g[k - 1] = At(k - 1)
        BY <1>1, <3>2
      <4> QED
        BY <1>3, <3>2, <4>1
    <3> QED
      BY <3>1, <3>2
  <2> QED
    BY <2>1
<1>5. Loop(loop)
  BY <1>4
<1> HIDE DEF loop
<1> DEFINE S == {k \in Nat : k <= n => loop[k] = At(k)}
<1>6. 0 \in S
  BY <1>1, <1>2, <1>5
<1>7. ASSUME NEW k \in Nat, k \in S
      PROVE  k + 1 \in S
  <2> SUFFICES ASSUME k + 1 <= n PROVE loop[k + 1] = At(k + 1)
    OBVIOUS
  <2>1. loop[k] = At(k) /\ k + 1 \in 1..n /\ k + 1 \in 0..n /\ k + 1 # 0 /\ (k + 1) - 1 = k
    BY <1>1, <1>7
  <2>2. loop[k + 1] = A!AuditStep(loop[k], s[k + 1])
    BY <1>5, <2>1
  <2> QED
    BY <1>3, <2>1, <2>2
<1> HIDE DEF S
<1>8. n \in S
  BY <1>1, <1>6, <1>7, InductiveSet
<1>9. loop[n] = At(n)
  BY <1>1, <1>8 DEF S
<1>10. A!classify_events(s) = loop[n].report
  BY DEF A!classify_events, loop, start
<1> QED
  BY <1>9, <1>10 DEF At

(* Stamping twice is stamping once, and leaves the call alone.             *)
LEMMA StampIsIdempotent ==
    ASSUME NEW e \in A!Stamped, NEW t \in Tool \cup {NoTool}
    PROVE  /\ A!Stamp(A!Stamp(e, t), t) = A!Stamp(e, t)
           /\ A!Stamp(e, t).call = e.call
           /\ A!Stamp(e, t) \in A!Stamped
BY DEF A!Stamp, A!Stamped

(* At every step of a run the audit of what was yielded stamps each event  *)
(* with the latest call at or before it.  (classify_events)                *)
THEOREM AuditIsPositional == Spec => []LoopIsPositional
<1>1. IInv => LoopIsPositional
  <2>1. Event \subseteq A!Stamped
    BY EventAssumption
  <2>2. emitted \in Seq(Event) => emitted \in Seq(A!Stamped)
    BY <2>1
  <2> QED
    BY <2>2, LoopIsReport DEF IInv, TypeOK, LoopIsPositional
<1>2. QED BY <1>1, Invariance, PTL DEF Spec

(* Auditing the events a run recorded, with the context it stamped on      *)
(* them, gives the report of the run.  (track_tool_ctx, classify_events)   *)
LEMMA ReauditOfPrefix ==
    ASSUME NEW s \in Seq(A!Stamped), NEW n \in 0..Len(s), NEW r, r = A!ReportOf(s, n)
    PROVE  A!classify_events([i \in DOMAIN r |-> r[i].event]) = r
<1> DEFINE ev == [i \in DOMAIN r |-> r[i].event]
           At(i) == A!ContextAt(s, i)
<1>1. n \in Nat /\ DOMAIN r = 1..n /\ r \in Seq(A!Entry)
  BY ReportTyped, LenProperties DEF A!ReportOf
<1>2. \A i \in 1..n : i \in 1..Len(s) /\ i \in Nat
  BY <1>1, LenProperties
<1>3. \A i \in 1..n : r[i] = A!Classified(A!Stamp(s[i], At(i))) /\ ev[i] = A!Stamp(s[i], At(i))
  BY <1>1 DEF A!ReportOf, A!EntryAt, A!Classified
<1>4. \A i \in 1..n : s[i] \in A!Stamped /\ At(i) \in Tool \cup {NoTool}
  BY <1>2, ContextTyped
<1>5. \A i \in 1..n : /\ ev[i] \in A!Stamped
                      /\ ev[i].call = s[i].call
                      /\ A!Stamp(ev[i], At(i)) = ev[i]
  <2> TAKE i \in 1..n
  <2>1. s[i] \in A!Stamped /\ At(i) \in Tool \cup {NoTool} /\ ev[i] = A!Stamp(s[i], At(i))
    BY <1>3, <1>4
  <2> HIDE DEF ev, At
  <2> QED
    BY <2>1, StampIsIdempotent
<1>6. ev \in Seq(A!Stamped) /\ Len(ev) = n
  <2>1. ev \in [1..n -> A!Stamped]
    BY <1>1, <1>5
  <2> QED
    BY <1>1, <2>1, SeqDef, LenProperties
<1> HIDE DEF ev
<1>7. \A i \in 1..n : A!ContextAt(ev, i) = At(i)
  <2>1. \A i \in 1..n : \A j \in 1..i : j \in 1..n
    BY <1>1
  <2> QED
    BY <1>2, <1>5, <2>1, ContextOfSameCalls
<1>8. \A i \in 1..n : A!EntryAt(ev, i) = r[i]
  BY <1>3, <1>5, <1>7 DEF A!EntryAt
<1>9. A!ReportOf(ev, n) = r
  <2>1. r = [i \in 1..n |-> r[i]]
    BY <1>1 DEF A!ReportOf
  <2> QED
    BY <1>8, <2>1 DEF A!ReportOf
<1>10. A!classify_events(ev) = A!ReportOf(ev, n)
  BY <1>6, LoopIsReport
<1> QED
  BY <1>9, <1>10 DEF ev

(* Whatever a run has reported at any moment, an audit of it agrees.       *)
(* (run --events-out, audit)                                               *)
THEOREM AuditOfRunAgrees == Spec => []ReauditAgrees
<1>1. IInv => ReauditAgrees
  <2> SUFFICES ASSUME IInv PROVE ReauditAgrees
    OBVIOUS
  <2>1. emitted \in Seq(A!Stamped)
    BY EventAssumption DEF IInv, TypeOK
  <2>2. Len(report) \in 0..Len(emitted)
    BY Lengths, LenProperties DEF IInv, TypeOK, QueueInv
  <2>3. report = A!ReportOf(emitted, Len(report))
    BY DEF IInv, HistInv
  <2> QED
    BY <2>1, <2>2, <2>3, ReauditOfPrefix DEF ReauditAgrees
<1>2. QED BY <1>1, Invariance, PTL DEF Spec

-----------------------------------------------------------------------------
(* The exports.                                                            *)

(* A report of some server, each entry with the verdict on its event, and  *)
(* a row of it.                                                            *)
ServerReport ==
    [server : Server, entries : Seq({e \in A!Entry : e.class = Verdict[e.event.what]})]

Row == {row \in [server : Server, what : Behaviour, class : A!EventClass] :
            row.class = Verdict[row.what]}

LEMMA RowsTyped ==
    ASSUME NEW reports \in Seq(ServerReport)
    PROVE  Rows(reports) \in Seq(Row)
<1> DEFINE RowAt(r, i) == [server |-> reports[r].server,
                           what   |-> reports[r].entries[i].event.what,
                           class  |-> reports[r].entries[i].class]
           RowsFrom(r) == [i \in DOMAIN reports[r].entries |-> RowAt(r, i)]
           lists == [r \in DOMAIN reports |-> RowsFrom(r)]
<1>1. DOMAIN reports = 1..Len(reports) /\ Len(reports) \in Nat
  OBVIOUS
<1>2. ASSUME NEW r \in DOMAIN reports
      PROVE  RowsFrom(r) \in Seq(Row)
  <2> DEFINE entries == reports[r].entries
  <2>1. /\ reports[r].server \in Server
        /\ entries \in Seq({e \in A!Entry : e.class = Verdict[e.event.what]})
    <3>1. reports[r] \in ServerReport
      OBVIOUS
    <3> QED
      BY <3>1 DEF ServerReport
  <2> HIDE DEF entries
  <2>2. DOMAIN entries = 1..Len(entries) /\ Len(entries) \in Nat
    BY <2>1
  <2>3. \A i \in DOMAIN entries : entries[i] \in A!Entry /\ entries[i].class = Verdict[entries[i].event.what]
    BY <2>1
  <2>4. \A i \in DOMAIN entries : RowAt(r, i) \in Row
    BY <2>1, <2>3 DEF A!Entry, A!Stamped, Row, entries
  <2> HIDE DEF RowAt
  <2>5. RowsFrom(r) \in [1..Len(entries) -> Row]
    BY <2>2, <2>4 DEF entries
  <2> HIDE DEF RowsFrom
  <2> QED
    BY <2>2, <2>5, SeqDef
<1>3. Rows(reports) = FlattenSeq(lists)
  BY DEF Rows
<1> HIDE DEF RowsFrom
<1>4. lists \in [1..Len(reports) -> Seq(Row)]
  BY <1>1, <1>2
<1> HIDE DEF lists
<1>5. lists \in Seq(Seq(Row))
  BY <1>1, <1>4, SeqDef
<1> QED
  BY <1>3, <1>5, FlattenedIsASeq

(* A rule is listed once, where a result finds it.                         *)
LEMMA RuleIsListed ==
    ASSUME NEW E, NEW rules \in Seq(E), NEW rule \in E
    PROVE  LET with == WithRule(rules, rule)
               at   == CHOOSE i \in DOMAIN with : with[i] = rule
           IN  /\ with \in Seq(E)
               /\ at \in DOMAIN with /\ with[at] = rule
               /\ DOMAIN with = DOMAIN rules \cup {at}
               /\ \A i \in DOMAIN rules : with[i] = rules[i]
               /\ IsInjective(rules) => IsInjective(with)
<1> DEFINE with == WithRule(rules, rule)
           at   == CHOOSE i \in DOMAIN with : with[i] = rule
<1>1. DOMAIN rules = 1..Len(rules) /\ Len(rules) \in Nat
  OBVIOUS
<1>2. CASE rule \in ToSet(rules)
  <2>1. with = rules
    BY <1>2 DEF WithRule
  <2>2. \E i \in DOMAIN with : with[i] = rule
    BY <1>2, <2>1 DEF ToSet
  <2>3. at \in DOMAIN with /\ with[at] = rule
    BY <2>2
  <2> HIDE DEF with, at
  <2>4. DOMAIN with = DOMAIN rules \cup {at}
    BY <2>1, <2>3
  <2> QED
    BY <2>1, <2>3, <2>4 DEF with, at
<1>3. CASE rule \notin ToSet(rules)
  <2>1. with = Append(rules, rule)
    BY <1>3 DEF WithRule
  <2>2. /\ with \in Seq(E) /\ DOMAIN with = 1..Len(rules) + 1
        /\ \A i \in 1..Len(rules) : with[i] = rules[i]
        /\ with[Len(rules) + 1] = rule
    BY <1>1, <2>1, AppendProperties, LenProperties
  <2>3. \A i \in DOMAIN rules : rules[i] # rule
    BY <1>3 DEF ToSet
  <2> HIDE DEF with
  <2>4. at = Len(rules) + 1
    BY <1>1, <2>2, <2>3
  <2> HIDE DEF at
  <2>5. DOMAIN with = DOMAIN rules \cup {at}
    BY <1>1, <2>2, <2>4
  <2>6. IsInjective(rules) => IsInjective(with)
    BY <1>1, <2>2, <2>3 DEF IsInjective
  <2> QED
    BY <1>1, <2>2, <2>4, <2>5, <2>6 DEF with, at
<1> QED
  BY <1>2, <1>3

(* The log that the loop carries, and what it says of the first k rows.    *)
Rule   == {RuleOf(row) : row \in Row}
Result == [ruleIndex : Nat, level : {"error", "note"},
           fingerprint : {violation_identity(row) : row \in Row}]
Log    == [rules : Seq(Rule), results : Seq(Result), truncated : Nat]

IsResultOf(result, row, rules) ==
    /\ result.ruleIndex \in DOMAIN rules /\ rules[result.ruleIndex] = RuleOf(row)
    /\ result.level = level(row.class) /\ result.fingerprint = violation_identity(row)

Cut(k) == IF k > SarifMax THEN SarifMax ELSE k

SaysOf(log, rows, k) ==
    /\ Len(log.results) = Cut(k) /\ log.truncated = k - Cut(k)
    /\ \A i \in 1..Cut(k) : IsResultOf(log.results[i], rows[i], log.rules)
    /\ IsInjective(log.rules)
    /\ {log.results[i].ruleIndex : i \in 1..Cut(k)} = DOMAIN log.rules

(* What AddResult does below the cap.                                      *)
LEMMA ResultIsAdded ==
    ASSUME NEW log \in Log, NEW row \in Row, Len(log.results) < SarifMax
    PROVE  \E rules \in Seq(Rule), result \in Result :
              /\ AddResult(log, row, SarifMax) =
                    [rules |-> rules, results |-> Append(log.results, result),
                     truncated |-> log.truncated]
              /\ IsResultOf(result, row, rules)
              /\ DOMAIN rules = DOMAIN log.rules \cup {result.ruleIndex}
              /\ \A i \in DOMAIN log.rules : rules[i] = log.rules[i]
              /\ IsInjective(log.rules) => IsInjective(rules)
<1> DEFINE with == WithRule(log.rules, RuleOf(row))
           at   == CHOOSE i \in DOMAIN with : with[i] = RuleOf(row)
           result == build_result(row, with)
<1>1. log.rules \in Seq(Rule) /\ RuleOf(row) \in Rule /\ log.results \in Seq(Result)
  BY DEF Log, Rule
<1>2. /\ with \in Seq(Rule)
      /\ at \in DOMAIN with /\ with[at] = RuleOf(row)
      /\ DOMAIN with = DOMAIN log.rules \cup {at}
      /\ \A i \in DOMAIN log.rules : with[i] = log.rules[i]
      /\ IsInjective(log.rules) => IsInjective(with)
  BY <1>1, RuleIsListed
<1>3. result = [ruleIndex |-> at, level |-> level(row.class), fingerprint |-> violation_identity(row)]
  BY DEF build_result
<1>4. ~ (Len(log.results) >= SarifMax)
  BY <1>1, ExportAssumption
<1>5. AddResult(log, row, SarifMax) = [log EXCEPT !.rules = with, !.results = Append(@, result)]
  BY <1>4 DEF AddResult
<1> HIDE DEF with, at, result
<1>6. result \in Result
  <2>1. at \in Nat
    <3>1. DOMAIN with = 1..Len(with)
      BY <1>2, LenProperties
    <3> QED
      BY <1>2, <3>1
  <2> QED
    BY <1>3, <2>1 DEF Result, level
<1>7. AddResult(log, row, SarifMax) =
         [rules |-> with, results |-> Append(log.results, result), truncated |-> log.truncated]
  BY <1>5 DEF Log
<1>8. IsResultOf(result, row, with) /\ result.ruleIndex = at
  BY <1>2, <1>3 DEF IsResultOf
<1> QED
  BY <1>2, <1>6, <1>7, <1>8

LEMMA LogTyped ==
    ASSUME NEW log \in Log, NEW row \in Row
    PROVE  AddResult(log, row, SarifMax) \in Log
<1>1. log.results \in Seq(Result) /\ Len(log.results) \in Nat /\ SarifMax \in Nat
  BY ExportAssumption DEF Log
<1>2. CASE Len(log.results) < SarifMax
  <2>1. PICK rules \in Seq(Rule), result \in Result :
           AddResult(log, row, SarifMax) =
              [rules |-> rules, results |-> Append(log.results, result), truncated |-> log.truncated]
    BY <1>2, ResultIsAdded
  <2>2. Append(log.results, result) \in Seq(Result)
    BY <1>1, AppendProperties
  <2> QED
    BY <2>1, <2>2 DEF Log
<1>3. CASE Len(log.results) >= SarifMax
  BY <1>3 DEF AddResult, Log
<1> QED
  BY <1>1, <1>2, <1>3

(* One row more: the log goes on saying what it should.                    *)
LEMMA NextRow ==
    ASSUME NEW rows \in Seq(Row), NEW k \in Nat, k + 1 <= Len(rows),
           NEW log \in Log, SaysOf(log, rows, k)
    PROVE  SaysOf(AddResult(log, rows[k + 1], SarifMax), rows, k + 1)
<1> DEFINE next == AddResult(log, rows[k + 1], SarifMax)
           n    == Len(log.results)
<1>1. /\ log.results \in Seq(Result) /\ n \in Nat /\ SarifMax \in Nat
      /\ log.rules \in Seq(Rule) /\ log.truncated \in Nat
      /\ rows[k + 1] \in Row
  BY ExportAssumption DEF Log
<1>2. n = Cut(k)
  BY DEF SaysOf
<1>3. CASE k < SarifMax
  <2>1. n = k /\ Cut(k) = k /\ Cut(k + 1) = k + 1 /\ log.truncated = 0
    BY <1>1, <1>2, <1>3 DEF Cut, SaysOf
  <2>2. PICK rules \in Seq(Rule), result \in Result :
           /\ next = [rules |-> rules, results |-> Append(log.results, result),
                      truncated |-> log.truncated]
           /\ IsResultOf(result, rows[k + 1], rules)
           /\ DOMAIN rules = DOMAIN log.rules \cup {result.ruleIndex}
           /\ \A i \in DOMAIN log.rules : rules[i] = log.rules[i]
           /\ IsInjective(log.rules) => IsInjective(rules)
    BY <1>1, <1>3, <2>1, ResultIsAdded
  <2> DEFINE longer == Append(log.results, result)
  <2>3. /\ Len(longer) = k + 1 /\ longer[k + 1] = result
        /\ \A i \in 1..k : longer[i] = log.results[i]
    BY <1>1, <2>1, AppendProperties
  <2> HIDE DEF next, longer
  <2>4. next.results = longer /\ next.rules = rules /\ next.truncated = log.truncated
    BY <2>2 DEF longer
  <2>5. \A i \in 1..k : IsResultOf(longer[i], rows[i], rules)
    <3> TAKE i \in 1..k
    <3>1. IsResultOf(log.results[i], rows[i], log.rules)
      BY <2>1 DEF SaysOf
    <3> QED
      BY <2>2, <2>3, <3>1 DEF IsResultOf
  <2>6. \A i \in 1..k + 1 : IsResultOf(longer[i], rows[i], rules)
    <3> TAKE i \in 1..k + 1
    <3>1. i \in 1..k \/ i = k + 1
      OBVIOUS
    <3> QED
      BY <2>2, <2>3, <2>5, <3>1
  <2>7. {longer[i].ruleIndex : i \in 1..k + 1} = DOMAIN rules
    <3>1. {log.results[i].ruleIndex : i \in 1..k} = DOMAIN log.rules
      BY <2>1 DEF SaysOf
    <3>2. 1..k + 1 = (1..k) \cup {k + 1}
      OBVIOUS
    <3>3. {longer[i].ruleIndex : i \in 1..k + 1} =
             {longer[i].ruleIndex : i \in 1..k} \cup {longer[k + 1].ruleIndex}
      BY <3>2
    <3>4. {longer[i].ruleIndex : i \in 1..k} = {log.results[i].ruleIndex : i \in 1..k}
      BY <2>3
    <3> QED
      BY <2>2, <2>3, <3>1, <3>3, <3>4
  <2>8. IsInjective(rules)
    BY <2>2 DEF SaysOf
  <2>9. Len(next.results) = k + 1 /\ next.truncated = (k + 1) - (k + 1)
    BY <2>1, <2>3, <2>4
  <2>10. SaysOf(next, rows, k + 1)
    BY <2>1, <2>4, <2>6, <2>7, <2>8, <2>9 DEF SaysOf
  <2> QED
    BY <2>10 DEF next
<1>4. CASE k >= SarifMax
  <2>1. n = SarifMax /\ Cut(k) = SarifMax /\ Cut(k + 1) = SarifMax
    BY <1>1, <1>2, <1>4 DEF Cut
  <2>2. next = [log EXCEPT !.truncated = @ + 1]
    BY <1>1, <2>1 DEF AddResult
  <2> HIDE DEF next
  <2>3. next.results = log.results /\ next.rules = log.rules /\ next.truncated = log.truncated + 1
    BY <2>2 DEF Log
  <2>4. next.truncated = (k + 1) - SarifMax
    BY <1>1, <2>1, <2>3 DEF SaysOf
  <2> QED
    BY <2>1, <2>3, <2>4 DEF SaysOf, next
<1> QED
  BY <1>1, <1>3, <1>4

LEMMA EmptyLog ==
    ASSUME NEW rows
    PROVE  LET log == [rules |-> << >>, results |-> << >>, truncated |-> 0]
           IN  log \in Log /\ SaysOf(log, rows, 0)
<1> DEFINE log == [rules |-> << >>, results |-> << >>, truncated |-> 0]
<1>1. log.rules = << >> /\ log.results = << >> /\ log.truncated = 0
  OBVIOUS
<1>2. << >> \in Seq(Rule) /\ << >> \in Seq(Result)
  OBVIOUS
<1>3. log \in Log
  BY <1>2 DEF Log
<1> HIDE DEF log
<1>4. Cut(0) = 0
  BY ExportAssumption DEF Cut
<1>5. DOMAIN log.rules = {} /\ Len(log.results) = 0
  BY <1>1
<1>6. SaysOf(log, rows, 0)
  BY <1>1, <1>4, <1>5 DEF SaysOf, IsInjective
<1> QED
  BY <1>3, <1>6 DEF log

(* The loop over all rows, for every cap.                                  *)
LEMMA LogSaysAll ==
    ASSUME NEW rows \in Seq(Row)
    PROVE  LET log == sarif_log(rows, SarifMax)
           IN  log \in Log /\ SaysOf(log, rows, Len(rows))
<1> DEFINE n == Len(rows)
           start == [rules |-> << >>, results |-> << >>, truncated |-> 0]
           Looping(g) == g = [k \in 0..n |-> IF k = 0 THEN start
                                             ELSE AddResult(g[k - 1], rows[k], SarifMax)]
           log == CHOOSE g : Looping(g)
           S == {k \in Nat : k <= n => log[k] \in Log /\ SaysOf(log[k], rows, k)}
<1>1. n \in Nat /\ \A k \in 1..n : rows[k] \in Row
  OBVIOUS
<1>2. sarif_log(rows, SarifMax) = log[n]
  BY DEF sarif_log
<1>3. start \in Log /\ SaysOf(start, rows, 0)
  BY EmptyLog
<1> HIDE DEF start
<1>4. \E g : Looping(g)
  <2> DEFINE step == [x \in Log \X (1..n) |-> AddResult(x[1], rows[x[2]], SarifMax)]
  <2>1. \A d \in Log : \A k \in 1..n : step[<<d, k>>] = AddResult(d, rows[k], SarifMax)
    OBVIOUS
  <2>2. \A d \in Log : \A k \in 1..n : AddResult(d, rows[k], SarifMax) \in Log
    BY <1>1, LogTyped
  <2>3. Stays(step, Log, n)
    BY <2>1, <2>2 DEF Stays
  <2> HIDE DEF step, n
  <2>4. PICK g : IsLoop(g, Log, start, step, n)
    BY <1>1, <1>3, <2>3, LoopExists
  <2>5. /\ g \in [0..n -> Log] /\ g[0] = start
        /\ \A k \in 1..n : g[k] = step[<<g[k - 1], k>>] /\ g[k - 1] \in Log
    BY <1>1, <2>4 DEF IsLoop
  <2>6. \A k \in 0..n : g[k] = IF k = 0 THEN start ELSE AddResult(g[k - 1], rows[k], SarifMax)
    <3> TAKE k \in 0..n
    <3>1. k # 0 => k \in 1..n
      BY <1>1
    <3>2. k # 0 => g[k] = AddResult(g[k - 1], rows[k], SarifMax)
      BY <2>1, <2>5, <3>1
    <3> QED
      BY <2>5, <3>2
  <2>7. Looping(g)
    BY <2>5, <2>6
  <2> QED
    BY <2>7
<1>5. Looping(log)
  BY <1>4
<1> HIDE DEF log
<1>6. 0 \in S
  <2>1. log[0] = start
    BY <1>1, <1>5
  <2> QED
    BY <1>3, <2>1
<1>7. ASSUME NEW k \in Nat, k \in S
      PROVE  k + 1 \in S
  <2> SUFFICES ASSUME k + 1 <= n
               PROVE  log[k + 1] \in Log /\ SaysOf(log[k + 1], rows, k + 1)
    OBVIOUS
  <2>1. /\ k + 1 \in 0..n /\ k + 1 \in 1..n /\ k + 1 # 0 /\ (k + 1) - 1 = k
        /\ log[k] \in Log /\ SaysOf(log[k], rows, k)
    BY <1>1, <1>7
  <2>2. log[k + 1] = AddResult(log[k], rows[k + 1], SarifMax)
    BY <1>5, <2>1
  <2>3. AddResult(log[k], rows[k + 1], SarifMax) \in Log
    BY <1>1, <2>1, LogTyped
  <2>4. SaysOf(AddResult(log[k], rows[k + 1], SarifMax), rows, k + 1)
    BY <2>1, NextRow
  <2> QED
    BY <2>2, <2>3, <2>4
<1> HIDE DEF S
<1>8. n \in S
  BY <1>1, <1>6, <1>7, InductiveSet
<1>9. log[n] \in Log /\ SaysOf(log[n], rows, n)
  BY <1>1, <1>8 DEF S
<1> QED
  BY <1>2, <1>9

LEMMA NotableTyped ==
    ASSUME NEW reports \in Seq(ServerReport), NEW wm
    PROVE  notable_rows(reports, wm) \in Seq(Row)
<1> DEFINE rows == Rows(reports)
           at   == {i \in DOMAIN rows : Notable(rows[i], wm)}
<1>1. rows \in Seq(Row)
  BY RowsTyped
<1> HIDE DEF rows, at
<1>2. Picked(rows, at) \in Seq(Row)
  BY <1>1, PickedIs
<1> QED
  BY <1>2 DEF notable_rows, rows, at

(* Whatever the reports of a fleet and whatever the cap: the SARIF log is  *)
(* the first notable events with the rules they need, and the count of the *)
(* rest.  (to_sarif)                                                       *)
THEOREM SarifOfAnyFleet ==
    ASSUME NEW reports \in Seq(ServerReport), NEW wm \in BOOLEAN
    PROVE  IsFaithful(to_sarif(reports, wm, SarifMax), notable_rows(reports, wm))
<1> DEFINE rows == notable_rows(reports, wm)
           log  == sarif_log(rows, SarifMax)
<1>1. to_sarif(reports, wm, SarifMax) = log
  BY DEF to_sarif
<1>2. rows \in Seq(Row)
  BY NotableTyped
<1> HIDE DEF rows
<1>3. SaysOf(log, rows, Len(rows))
  BY <1>2, LogSaysAll
<1> HIDE DEF log
<1>4. IsFaithful(log, rows)
  BY <1>3 DEF SaysOf, Cut, IsResultOf, IsFaithful
<1> QED
  BY <1>1, <1>4 DEF rows

(* The report of a run is a report, of any server.                         *)
LEMMA ExportedTyped ==
    ASSUME IInv
    PROVE  Exported \subseteq Seq(ServerReport)
<1> DEFINE Judged == {e \in A!Entry : e.class = Verdict[e.event.what]}
<1>1. /\ Len(report) \in 0..Len(emitted) /\ report = A!ReportOf(emitted, Len(report))
      /\ emitted \in Seq(A!Stamped)
  <2>1. emitted \in Seq(A!Stamped)
    BY EventAssumption DEF IInv, TypeOK
  <2>2. Len(report) \in 0..Len(emitted)
    BY Lengths, LenProperties DEF IInv, TypeOK, QueueInv
  <2> QED
    BY <2>1, <2>2 DEF IInv, HistInv
<1>2. report \in Seq(A!Entry)
  BY <1>1, ReportTyped
<1>3. \A i \in DOMAIN report : report[i] \in Judged
  <2>1. \A i \in DOMAIN report : report[i] \in A!Entry
    BY <1>2
  <2>2. \A i \in DOMAIN report : i \in 1..Len(report) /\ report[i] = A!EntryAt(emitted, i)
    BY <1>1, <1>2 DEF A!ReportOf
  <2> QED
    BY <2>1, <2>2 DEF A!EntryAt, A!Classified
<1> HIDE DEF Judged
<1>4. report \in Seq(Judged)
  <2>1. DOMAIN report = 1..Len(report) /\ Len(report) \in Nat /\ report = [i \in DOMAIN report |-> report[i]]
    BY <1>2
  <2>2. report \in [1..Len(report) -> Judged]
    BY <1>3, <2>1
  <2> QED
    BY <2>1, <2>2, SeqDef
<1>5. ASSUME NEW f \in Fleets
      PROVE  [i \in DOMAIN f |-> [server |-> f[i], entries |-> report]] \in Seq(ServerReport)
  <2>1. f \in Seq(Server)
    BY ExportAssumption
  <2>2. DOMAIN f = 1..Len(f) /\ Len(f) \in Nat /\ \A i \in DOMAIN f : f[i] \in Server
    BY <2>1
  <2>3. \A i \in DOMAIN f : [server |-> f[i], entries |-> report] \in ServerReport
    BY <1>4, <2>2 DEF ServerReport, Judged
  <2> DEFINE reports == [i \in DOMAIN f |-> [server |-> f[i], entries |-> report]]
  <2>4. reports \in [1..Len(f) -> ServerReport]
    BY <2>2, <2>3
  <2> HIDE DEF reports
  <2>5. reports \in Seq(ServerReport)
    BY <2>2, <2>4, SeqDef
  <2> QED
    BY <2>5 DEF reports
<1> QED
  BY <1>5 DEF Exported

(* At every step of a run the SARIF log of its report says what it leaves  *)
(* out and nothing else.  (to_sarif)                                       *)
THEOREM SarifIsSound == Spec => []SarifIsFaithful
<1>1. IInv => SarifIsFaithful
  BY ExportedTyped, SarifOfAnyFleet DEF SarifIsFaithful
<1>2. QED BY <1>1, Invariance, PTL DEF Spec

(* The events that SARIF reports with the manifest are those the SIEM is   *)
(* fed without the policy: a call marker is within the policy.             *)
LEMMA SameEvents ==
    ASSUME NEW row \in Row
    PROVE  /\ Notable(row, TRUE) <=> Fed(row, FALSE)
           /\ Notable(row, TRUE) <=> row.class # "within_policy"
  BY ExportAssumption DEF Row, A!EventClass, Notable, Fed

(* A class is counted exactly when some row has it.                        *)
LEMMA ClassIsCounted ==
    ASSUME NEW reports, Rows(reports) \in Seq(Row), NEW c \in A!EventClass
    PROVE  /\ counts(reports)[c] \in Nat
           /\ counts(reports)[c] = 0 <=> \A i \in DOMAIN Rows(reports) : Rows(reports)[i].class # c
<1> DEFINE rows == Rows(reports)
           with == {i \in DOMAIN rows : rows[i].class = c}
<1>1. counts(reports)[c] = Cardinality(with)
  BY DEF counts, A!EventClass
<1>2. DOMAIN rows = 1..Len(rows) /\ Len(rows) \in Nat
  OBVIOUS
<1>3. with = {} <=> \A i \in DOMAIN rows : rows[i].class # c
  OBVIOUS
<1>4. with \in SUBSET (1..Len(rows))
  BY <1>2
<1> HIDE DEF with, rows
<1>5. IsFiniteSet(with)
  <2>1. IsFiniteSet(1..Len(rows))
    BY <1>2, FS_Interval
  <2> QED
    BY <1>4, <2>1, FS_Subset
<1>6. Cardinality(with) \in Nat /\ (Cardinality(with) = 0 <=> with = {})
  BY <1>5, FS_CardinalityType, FS_EmptySet
<1> QED
  BY <1>1, <1>3, <1>6 DEF rows

(* The severity, said of the notable rows.                                 *)
LEMMA SeverityOfNotable ==
    ASSUME NEW reports, Rows(reports) \in Seq(Row)
    PROVE  LET rows == notable_rows(reports, TRUE)
           IN  /\ severity(reports) = "critical"
                     <=> \E i \in DOMAIN rows : rows[i].class = "outside_contract"
               /\ severity(reports) = "info" <=> rows = << >>
<1> DEFINE all  == Rows(reports)
           at   == {i \in DOMAIN all : Notable(all[i], TRUE)}
           rows == notable_rows(reports, TRUE)
<1>1. \A i \in DOMAIN all : all[i] \in Row
  OBVIOUS
<1>2. rows = Picked(all, at)
  BY DEF notable_rows
<1>3. at \cap DOMAIN all = at
  OBVIOUS
<1>4. \A i \in DOMAIN all : i \in at <=> all[i].class # "within_policy"
  BY <1>1, SameEvents
<1>5. \A c \in A!EventClass : /\ counts(reports)[c] \in Nat
                              /\ counts(reports)[c] = 0 <=> \A i \in DOMAIN all : all[i].class # c
  BY ClassIsCounted
<1> HIDE DEF all, at, rows
<1>6. all \in Seq(Row)
  BY DEF all
<1>7. rows \in Seq(Row) /\ Range(rows) = {all[i] : i \in at}
  BY <1>2, <1>3, <1>6, PickedIs
<1>8. at \subseteq DOMAIN all
  BY DEF at
<1>9. /\ \A j \in DOMAIN rows : \E i \in at : rows[j] = all[i]
      /\ \A i \in at : \E j \in DOMAIN rows : rows[j] = all[i]
  BY <1>7 DEF Range
<1>10. counts(reports)["outside_contract"] # 0
          <=> \E j \in DOMAIN rows : rows[j].class = "outside_contract"
  <2>1. counts(reports)["outside_contract"] # 0
          <=> \E i \in DOMAIN all : all[i].class = "outside_contract"
    BY <1>5 DEF A!EventClass
  <2>2. \A i \in DOMAIN all : all[i].class = "outside_contract" => i \in at
    BY <1>4
  <2> QED
    BY <1>8, <1>9, <2>1, <2>2
<1>11. /\ counts(reports)["outside_contract"] = 0 /\ counts(reports)["within_manifest"] = 0
          <=> rows = << >>
  <2>1. (\A i \in DOMAIN all : /\ all[i].class # "outside_contract"
                               /\ all[i].class # "within_manifest") <=> at = {}
    BY <1>1, <1>4, <1>8 DEF Row, A!EventClass
  <2>2. rows = << >> <=> DOMAIN rows = {}
    BY <1>7
  <2>3. at = {} <=> DOMAIN rows = {}
    BY <1>9
  <2> QED
    BY <1>5, <2>1, <2>2, <2>3 DEF A!EventClass
<1>12. /\ counts(reports)["outside_contract"] \in Nat
       /\ counts(reports)["within_manifest"] \in Nat
  BY <1>5 DEF A!EventClass
<1>13. severity(reports) = CASE counts(reports)["outside_contract"] > 0 -> "critical"
                             [] /\ counts(reports)["outside_contract"] = 0
                                /\ counts(reports)["within_manifest"] > 0 -> "warning"
                             [] OTHER -> "info"
  BY DEF severity
<1> DEFINE out == counts(reports)["outside_contract"]
           man == counts(reports)["within_manifest"]
<1>14. out \in Nat /\ man \in Nat
  BY <1>12
<1>15. severity(reports) = CASE out > 0 -> "critical"
                             [] out = 0 /\ man > 0 -> "warning"
                             [] OTHER -> "info"
  BY <1>13
<1> HIDE DEF out, man
<1>16. /\ severity(reports) = "critical" <=> out # 0
       /\ severity(reports) = "info" <=> out = 0 /\ man = 0
  BY <1>14, <1>15
<1> QED
  BY <1>10, <1>11, <1>16 DEF out, man, rows

(* Whatever the reports of a fleet: the SIEM feed, the SARIF log and the   *)
(* severity tell one story.  (to_siem, to_sarif, severity)                 *)
THEOREM FeedsOfAnyFleet ==
    ASSUME NEW reports \in Seq(ServerReport)
    PROVE  OneStory(to_sarif(reports, TRUE, SarifMax), to_siem(reports, FALSE), severity(reports))
<1> DEFINE all  == Rows(reports)
           rows == notable_rows(reports, TRUE)
           log  == sarif_log(rows, SarifMax)
           siem == [i \in DOMAIN rows |-> siem_row(rows[i])]
           n    == Len(log.results)
<1>1. all \in Seq(Row)
  BY RowsTyped
<1>2. rows \in Seq(Row)
  BY NotableTyped
<1>3. to_sarif(reports, TRUE, SarifMax) = log
  BY DEF to_sarif
<1>4. to_siem(reports, FALSE) = siem
  <2>1. \A i \in DOMAIN all : all[i] \in Row
    BY <1>1
  <2>2. \A i \in DOMAIN all : Notable(all[i], TRUE) <=> Fed(all[i], FALSE)
    BY <2>1, SameEvents
  <2>3. {i \in DOMAIN all : Fed(all[i], FALSE)} = {i \in DOMAIN all : Notable(all[i], TRUE)}
    BY <2>2
  <2> QED
    BY <2>3 DEF to_siem, notable_rows
<1>5. /\ severity(reports) = "critical" <=> \E i \in DOMAIN rows : rows[i].class = "outside_contract"
      /\ severity(reports) = "info" <=> rows = << >>
  BY <1>1, SeverityOfNotable
<1> HIDE DEF all, rows
<1>6. log \in Log /\ SaysOf(log, rows, Len(rows))
  BY <1>2, LogSaysAll
<1> HIDE DEF log
<1>7. DOMAIN rows = 1..Len(rows) /\ Len(rows) \in Nat
  BY <1>2
<1>8. /\ DOMAIN siem = DOMAIN rows /\ Len(siem) = Len(rows)
      /\ siem = << >> <=> rows = << >>
  <2>1. siem \in Seq({siem_row(row) : row \in Row}) /\ Len(siem) = Len(rows)
    <3>1. \A i \in 1..Len(rows) : rows[i] \in Row
      BY <1>2
    <3>2. siem \in [1..Len(rows) -> {siem_row(row) : row \in Row}]
      BY <1>7, <3>1
    <3> QED
      BY <1>7, <3>2, SeqDef, LenProperties
  <2> QED
    BY <1>2, <2>1
<1>9. \A i \in DOMAIN siem : /\ Told(siem[i]) = violation_identity(rows[i])
                             /\ siem[i].rule = RuleOf(rows[i])
                             /\ siem[i].alert <=> rows[i].class = "outside_contract"
  BY DEF siem_row, Told, violation_identity, RuleOf
<1> HIDE DEF siem
<1>10. /\ n = Cut(Len(rows)) /\ log.truncated = Len(rows) - n
       /\ n \in Nat /\ n <= Len(rows)
  BY <1>6, <1>7, ExportAssumption DEF SaysOf, Cut
<1>11. \A i \in 1..n : /\ log.results[i].fingerprint = violation_identity(rows[i])
                       /\ log.results[i].level = level(rows[i].class)
                       /\ log.rules[log.results[i].ruleIndex] = RuleOf(rows[i])
  BY <1>6, <1>10 DEF SaysOf, IsResultOf
<1> HIDE DEF n
<1>12. \A i \in 1..n : i \in DOMAIN siem
  BY <1>7, <1>8, <1>10
<1>13. \A i \in 1..n : /\ Told(siem[i]) = log.results[i].fingerprint
                       /\ siem[i].rule = log.rules[log.results[i].ruleIndex]
                       /\ siem[i].alert <=> log.results[i].level = "error"
  BY <1>9, <1>11, <1>12 DEF level
<1>14. Len(siem) = n + log.truncated
  BY <1>7, <1>8, <1>10
<1>15. log.truncated = 0 => DOMAIN siem = 1..n
  BY <1>7, <1>8, <1>10
<1>16. OneStory(log, siem, severity(reports))
  BY <1>5, <1>8, <1>9, <1>13, <1>14, <1>15 DEF n, OneStory
<1> QED
  BY <1>3, <1>4, <1>16

(* At every step of a run the feeds and the severity of its report tell    *)
(* one story.  (to_siem, to_sarif, severity)                               *)
THEOREM FeedsAreOneStory == Spec => []FeedsAgree
<1>1. IInv => FeedsAgree
  BY ExportedTyped, FeedsOfAnyFleet DEF FeedsAgree
<1>2. QED BY <1>1, Invariance, PTL DEF Spec
=============================================================================
